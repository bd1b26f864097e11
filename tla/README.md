# TLA+ models of wx_cups-web

wx_cups-web prints what customers of a WeCom customer-service account send: it
is told of new messages by a callback, fetches them, asks the customer to
confirm, posts the confirmed files to cups-web, and follows each job in CUPS
until it can tell the customer how it ended.  This directory holds models of
that program, the configurations that check them with TLC, and proofs of the
most important properties that TLAPS checks.  Paths such as `gateway.go:157`
are below `src/wx_cups-web/`.

## 1. The system

### Components

| Component | State | Operations | Must be right |
|---|---|---|---|
| Callback server (`main.go`) | none | GET check, POST callback | every genuine callback leads to a sync |
| Sync scheduling (`gateway.go:147`) | maps `pendingTokens`, `syncing` behind `mu`; table `kf_cursors` | `syncFromCallback` and its goroutine | one sync per account, nothing left lying |
| Confirmation (`gateway.go:172-410`) | table `pending_prints`, the menus customers see, `confirmations` of a running sync | `sync`, `handleMessage`, `requestConfirmation`, `sendLatestConfirmation`, `handleMenu` | only what the clicked menu offers is printed, once; no message is skipped |
| PrintGateway (`gateway.go:21`) | table `messages` | `process`: reserve, whitelist, rate limit, download, validate, submit, verdict; recovery in `newStore` | no second print, true verdicts, the limit |
| CupsWebClient (`cups.go:32`) | none | `submit`, `listPrintRecords` | a verdict never claims more than the answer |
| Job tracking (`gateway.go:376-481`) | tables `tracked_print_jobs`, `print_history`, flag `polling` | `handleMenu` after acceptance, `startWorkers`, `pollPrintJobs` | each job is followed to one true outcome, and told |
| CupsJobStatusClient (`cups.go:206`) | request counter | `getStatus`, `parseJobState` | a state is never made up, no answer ends the program |
| Record query (`gateway.go:492`, `cups.go:96`) | none | `replyHistory`, `listPrintRecords` | the latest records are shown |
| MessageStore (`store.go`) | the SQLite database | one statement or transaction per operation | the WHERE and ON CONFLICT clauses |
| WecomKfClient (`wecom.go`) | access token, `nextReplyAt` | `withRetry`, `token`, `post`, `sendText`, `sendConfirmation`, `sendRecordMenu`, `syncMessages`, `downloadMedia`, `waitReplySlot` | bounded retries, a reply once, replies apart |
| Crypto (`crypto.go`) | none | `decryptWecomPayload`, `parseWecomCallback` | what WeCom wrote is read, nothing else |
| File validation (`validation.go`) | none | `mediaMetadata`, `textFilename`, `validateFile` | only whole files of a permitted type |
| Configuration (`config.go`) | none | `loadConfigFrom` | what the program is started with can be relied on |

### How they interact

A callback runs in a goroutine of the HTTP server.  It is answered first and
handed to `syncFromCallback` afterwards.  Each account has at most one sync
goroutine; it calls every handler, and through `handleMenu` also `process`,
synchronously.  Different accounts therefore run `process` at the same time.
Each batch that submitted a job starts another goroutine, a poll of CUPS, and a
ticker polls as well.  What they share is the database, three fields behind one
mutex, and the client of WeCom with its access token.  All that survives a
restart is the database; what WeCom, cups-web and CUPS hold is outside.

### What is hard about it

* Interleavings: callbacks against the end of a sync; calls of `process` of one
  user; polls against each other and against the batch that tracks the job.
* Failure between two statements: the cursor is stored after a whole page, and
  several promises (menus to send, results of a batch, notes of a poll) live in
  memory only.
* Lost answers: cups-web may have queued a job when the connection breaks.
* Repetition: a page is handled again after a failure; old menus stay clickable.
* Time: confirmations expire, jobs become overdue, and rows are ordered by the
  wall clock.

`PROJECT.json` lists every such place under `hazards`, with its line and the
properties that guard it.

## 2. The modules

Every SQL statement (or transaction), critical section and network exchange is
one atomic step.  A local variable that is used after such a step is part of the
state.  `Restart` may happen between any two steps and keeps exactly the
database and the outside world.

### PrintPromise and PrintGateway

`PrintPromise` is the abstract specification: at most one job is queued per
message, a verdict is given once, *accepted* and *rejected* are true, and only
*uncertain* leaves it open whether paper may still come.

`PrintGateway` is `process`.  `messages` is the table (status and `created_at`),
`pc` and `frame` are the program counter and the locals of each goroutine,
`exchange` is the HTTP exchange with cups-web about a message, `printed` counts
the jobs queued, `now` is the clock.  `Reserve` to `Finish` are its steps in
order.  `Load` and `Validate` succeed or reject.  `Submit` posts;
`ReadAnswer` judges the answer, `GiveUp` is the broken connection or the
timeout; cups-web may take or refuse a request it has received at any later
time (`CupsTakes`, `CupsRefuses`), even after `GiveUp` or a restart.
`KeepsPromise` is the refinement: `printed` is the paper, and a status that is
not final is an open verdict.

An assumption on cups-web: an answer below 500 that is not a 2xx with a
`jobId` means that nothing was queued.  `submit` takes it to be a refusal
(cups.go:85-94).

### SyncScheduler

The handler after its answer (`handlers`), both maps, the goroutines, and the
cursor.  `Take` and `Exit` are separate because the goroutine takes its token in
one critical section and deregisters in another.  WeCom holds `sent` messages
per account, a callback may come at any time, with or without a message; a page
may come without `next_cursor` (`named`), and then no cursor is stored.  `handled`
is history: how far the messages of an account have been handled, stored or not.
`calm` belongs to the environment: once it is set, nothing fails any more, and
nothing makes it be set.

### KfSync

One account with one goroutine, which `SyncScheduler` justifies.  `log` is what
WeCom keeps and `kf/sync_msg` returns page by page; a message is named by its
place in it.  `status`, `queue` and `expired` are the table `pending_prints`:
its status column, its rows in the order of `created_at, msg_id`, and those
whose `expires_at` has passed.  Two rows may be stored within one millisecond
and then sort in any order; `newest` keeps the rows stored since the last
request to WeCom or cups-web, which takes longer than that.  `SetBack` sets the
wall clock back: contents may stop being expired, and from then on a new row may
go anywhere.  `SetKfCursor` stores the cursor of a page; the last page may come
without `next_cursor`, and then is delivered again by the next sync.  `sync.batch` is the
content that is still to be passed on, a set taken in the order of `Before`, and
`sync.item` the content that `process` has in hand.  `row` is the table
`messages`, reduced to "open" and the verdicts.  `menus` is what customers can
click: the content named by the buttons (`key`), the batch that the button
counts and confirms (`items`), and what of it the text lists (`listed`).
`sendConfirmation` cuts the text at 1024 characters (`wecom.go:203`), which is modelled
by the number of lines it has room for, `MenuLines`.  `receipts` what they were told; `via`, `calls` and `read` are history
variables, and `setBack` is one for the clock.  Kind "other" stands for all messages that are only answered.

Not modelled: a `msgid` that does not fit into a button (`menuID` returns
nothing and the customer is asked to send again), and the age at which content
is skipped, which is a free choice (`Skip`).

### PrintJobs

From the acceptance to the last receipt.  `handler` is `handleMenu` after
`confirmPending`, one per batch; `poll` is `pollPrintJobs`, for the ticker and
for each batch that starts one; `polling` is the flag.  `tracked` and `history`
are the tables, `jobState` and `forgotten` are CUPS, `overdue` are the rows older
than `PRINT_STATUS_TIMEOUT_MS`.  `CheckJob` is the overdue test, or the request
to CUPS with `parseJobState`, including an error and the unknown state of a
purged job.

### WecomClient

The requests that any number of goroutines send to WeCom.  `accessToken` and
`nextReplyAt` are the fields of that name; a token is "good" or "bad", by
whether WeCom would take it now, and a slot is counted in ticks from now.  `pc`
and `frame` are program counter and locals of each goroutine: the attempt of
`post` or `downloadMedia`, the tries of `gettoken` inside it, the token it has
got, and the answer.  `Start` takes the slot, `ReadCache` to `StoreToken` are
`token`, `Handle` is WeCom, `ReadAnswer` is what `post` and `withRetry` make of
the answer.  `msgids` and `shown` are what WeCom has; `troubles` counts, up to
two, what has gone wrong outside the program, and `relapses`, for each call, how
often another goroutine has since cached a token that WeCom had dropped.  `Revoke` drops a token before its
time, `Expire` is the time itself.

### What the program reads

Five modules model the parts that read an input once and keep no state.  Each
is a small state machine: one step for each stage of the code, ending in a result
that the other modules take for granted.  `MCInputs` runs them one input at a time.
Their own specifications (`IppSpec`, `AnswerSpec`, `CallbackSpec`, `IntakeSpec`,
`ConfigSpec`, `QuerySpec`) start from any input at all; the proofs are about these.

* `IppJobState`: `parseJobState` over bytes.  `walk` holds its locals; each read
  with the checks before it is a step, and a read outside the answer is the
  outcome "panic".  `written` remembers what CUPS wrote, and whether the answer
  was cut or damaged.  `IppSpec` starts from any bytes, `AnswerSpec` from any
  answer that CUPS may lay out, whole, cut or damaged.
* `CallbackServer`: `callbackServer` up to the call of `syncFromCallback`, with
  `decryptWecomPayload` over bytes: padding, length field, corporation.
  `CallbackSpec` starts from any request, those that WeCom sends included.
  `SyncScheduler` goes on from there.
* `FileIntake`: a confirmed content on its way into `process`, which
  `PrintGateway` has as `Load` and `Validate`: `textFilename`, the end of
  `downloadMedia` with `mediaMetadata`, and `validateFile`.  A name is a short
  sequence of characters, a content is what `headerMatches` finds in it.
* `Configuration`: `loadConfigFrom` with its lists, keys and numbers.  Two users may
  have the same key, and numbers go up to `MaxInt`, the largest int.
* `RecordQuery`: `replyHistory` and `listPrintRecords`, from the records that
  cups-web answers with to those that are shown.

## 3. What is checked

Sizes are distinct states.

| Run | Instance | Shows |
|---|---|---|
| `PrintGatewayOnce` | 2 goroutines; 2 messages, one of a user who may not print; store errors, restarts (8 thousand) | no second print, true verdicts, forward status, refinement |
| `PrintGatewayRate` | 2 goroutines, 2 messages of one user, limit 1, window 1, clock to 2, a working database (600 thousand) | `RateLimited`, `Settles` |
| `SyncScheduler` | 2 accounts, one unconfigured, 2 goroutines, 2 messages, errors, pages without cursor, restarts (209 thousand) | `OneSyncPerAccount`, `CursorNeverBack`, `FetchedInTheEnd` |
| `KfSyncSafe` | 2 customers, 3 messages and clicks, room for 1 line, 2 failures anywhere, the clock set back included (1.4 million) | `ConfirmedWasOffered`, `PassedOnOnce`, `NothingSkipped`, `DecisionStands` |
| `KfSyncLive` | 2 customers, one not allowed, 3 messages, room for 1 line, no failure (80 thousand) | `ContentGetsAMenu`, `ConfirmedIsRecorded` |
| `PrintJobsSafe` | 2 batches of one content, ticker, one failure (2.5 million) | `OnePoll`, `OneOutcome`, `OutcomeIsTrue` |
| `PrintJobsLive` | 1 batch of 2 contents, ticker, no failure (150 thousand) | `AcceptedIsTracked`, `CustomerIsTold` |
| `WecomClient` | 2 goroutines, a reply, syncs and downloads in any order and number, 2 retries, any answer (500 thousand) | `ShownOnce`, `SlotsApart`, `PostSurvives`, `CallsReturn` |
| `Inputs` | answers of CUPS, callbacks, contents, environments and lists, one at a time (200 thousand) | `NeverPanics`, `Advances`, `StateIsTrue`; `GenuineIsHandled`, `OnlyWellFormed`; `TextIsNamed`, `AcceptedIsWhole`, `NameStands`; `ConfigFits`; `LatestShown` |

Each property has a mutant in `PROJECT.json`: a plausible bug in one definition
under which the same run fails.  The mutated forms stand beside the definitions
they replace, in comments "(Mutant: ...)".

### Where the code and its documents disagree

Each of these runs ends in a counterexample.  The quotations are in
`PROJECT.json` under `findings`.

| Run | What happens |
|---|---|
| `SyncSchedulerLost` | A callback between the goroutine's last look at `pendingTokens` and its deregistration leaves a token and starts nothing; its messages wait for the next callback (`gateway.go:157`) |
| `KfSyncUnrecorded` | Confirmed, then a failure before `reserve`: the click is spent and nothing is printed or recorded (`gateway.go:373`) |
| `WecomMedia` | `media/get` reports a recoverable code in its body, which is read after `withRetry` has returned: the download fails at the first attempt (`wecom.go:254`) |

None of them prints twice or tells a wrong verdict.  Without the failure the
promise holds: `ConfirmedIsRecorded` is checked in `KfSyncLive`.

The models have more behaviours a maintainer should know.  No run is kept
for them; the actions named here produce them:

* Content stored, then a failure before the menus are sent: the repeated page
  finds the row and sends no menu (`CreatePending`, then `Restart`, in `KfSync`;
  `gateway.go:300`).
* The clock is set back between two contents: the older menu stays valid and
  confirms what it neither counts nor lists (`SetBack` in `KfSync`; `store.go:126`).
* The text of a menu is cut at 1024 characters: of some fifty texts or a hundred
  pictures the last are not listed, although the button counts and confirms them
  all (`Listed`; `wecom.go:203`).  The repository's README.md:48 and
  微信客服打印网关方案.md:80 promise a list of all.
* Without `next_cursor` the last page is handled and no cursor is stored, so every
  sync delivers it again: contents stay decided (`DecisionStands`), clicks are answered
  again, and with `has_more` the sync ends with an error (`SetKfCursor`; `gateway.go:192`).
* A page that is repeated after a failure answers a click a second time, with
  "no longer valid" after the receipt (`Restart` between `Reply` and
  `SetKfCursor` in `KfSync`; `gateway.go:367`).
* A restart or an error between the acceptance and `trackPrintJob` leaves a job
  that nobody polls (`TrackPrintJob`; `gateway.go:379`).
* A restart between `finishJob` and the receipts: the job is finished in the
  table and nobody tells the customer (`FinishJob`, then `Restart`; `gateway.go:463`).
* The ticker's poll may report the end of a job before the receipt with its
  number (`Notify` before `SendReceipt`; `gateway.go:379` and `402`).
* A poll that finishes a job between `TrackPrintJob` and `AddPrintHistory` leaves
  its row of `print_history` submitted for ever (`gateway.go:380`).
* A failing `gettoken` is tried up to `(retries + 1)` squared times before a call
  returns (`GetToken`; `wecom.go:87` inside `121`).
* A rejected token stays cached if `media/get` is the one to reject it, until
  another call finds out (`Cached`; `wecom.go:260`).
* A goroutine that has fetched a token and not yet cached it when WeCom drops it
  caches it all the same, and fails an attempt of every post that reads it.  Each
  costs the others a retry, and with as many such goroutines as there are retries
  (two by default) one dropped token fails a post (`StoreToken`; `wecom.go:112`).
* Slots space first attempts only: a retry of one reply may come right after
  another reply (`NextAttempt` takes no slot; `wecom.go:171`).
* `parseJobState` takes the successful IPP statuses 0x0001 and 0x0002 for errors
  (`Header`; `cups.go:156`), so such a job ends as overdue.
* `WECOM_CALLBACK_PORT` may be above 65535 (`Settings`; `config.go:139`), and a PDF
  may count as zero pages (`Validate`; `validation.go:121`): both are accepted.
* Numbers have no maximum but that of an int: `PRINT_STATUS_POLL_MS = 10^16` is
  accepted and overflows as a duration, which may make `NewTicker` panic
  (`Positive`; `config.go:35`, `gateway.go:127`).
* Two users may be given the same key (`KeysMatch`; `config.go:115`).

### Bounds, and why they are enough

* Two goroutines in `process` are enough for each race over one row or one
  count; the proofs below are for any number.
* `MaxMillis = 2` lets a window of 1 pass completely.
* Two goroutines in `SyncScheduler` are one per account, or two for one account
  if the registration were wrong; `MaxSent = 2` lets a page be partial.
* `MaxLog = 3` in `KfSync` gives content, its menu, more content and a click on
  the old menu, or two contents of a batch and a click on their menu.
* `MaxFailures = 2` in `KfSyncSafe`: an error or a restart delivers a page again, and a
  second failure, the clock set back included, meets what the first has left.
  `PrintJobsSafe` has one, in any place.
* `MenuLines = 1`: a batch of one is listed whole, a batch of two is cut.
* Two batches in `PrintJobs` give three polls that can meet.
* Two goroutines and two retries in `WecomClient`: one can spoil the other's token
  once through the cache and once more through a late `StoreToken`, which is
  where a second retry is needed.  With two goroutines one thing going wrong gives at
  most one relapse, so two retries always do; the proof below is for any number of
  both.  `troubles` saturates at two because `PostSurvives` only asks for at most one,
  and `relapses` are counted until then, up to the number of retries.
* Inputs: answers of up to three attributes, cut at each byte, or with each byte
  changed to those that matter to a length or a tag; texts of 0 to 70 bytes, so
  that every padding occurs twice; names up to one character above the limit of
  `MaxName = 4`; sizes and pages on both sides of their limits; each number at
  its limits and next to them, with 2^31 - 1 for the largest int; users with the same
  key and with different ones; more records than are shown.  The readers are
  independent of each other, so one input at a time is enough, and the run
  ends when it has been read, which is why it does not check for deadlock.

`MaxSent`, `MaxLog`, `MaxFailures` and `MaxMillis` are the bounds that guards
contain; nothing else is cut off.  In `WecomClient`, `Earlier`, `Trouble` and `Relapse` stop
counting where nothing tells the values apart any more, and no action is disabled.

### Fairness

* `PrintGateway`: each goroutine that can step steps; HTTP clients have a
  timeout, so an exchange ends (`GiveUp`).  No caller, restart or answer is
  assumed.  The clock never goes back here, as `Tick` has it.
* `SyncScheduler`: goroutines step, handlers too.  `FetchedInTheEnd` has as its
  hypothesis that callbacks keep being handed over and that failures and restarts end
  (`<>calm`); nothing makes WeCom send a callback, and nothing makes failures end.
  Both can be met together: after `CalmDown` syncs go on, with pages that are empty,
  partial or without `next_cursor`.
* `KfSync`: syncs start again and again and go on, as the above allows.
* `PrintJobs`: goroutines and the ticker step, and time passes (`Age`).  CUPS may
  stay silent for ever.
* `WecomClient`: goroutines step, because the HTTP client ends each request, and
  time passes.  WeCom may fail every request.

## 4. What is proved

`PrintGatewayProofs` holds for any sets of messages, users and goroutines, any
whitelist, limit, window and clock, under `ConfigAssumption`; `RateLimitHolds`
uses `FiniteMsgIDs` as well, to count.

| Theorem | States |
|---|---|
| `TypesHold` | `Spec => []TypeOK` |
| `PrintsAtMostOnce` | `Spec => []AtMostOnePrint` |
| `RejectionIsTrue` | `Spec => []RejectedNeverPrints` |
| `AcceptanceIsTrue` | `Spec => []AcceptedWasPrinted` |
| `StatusOnlyMovesForward` | `Spec => StatusMovesForward` |
| `RateLimitHolds` | `Spec => []RateLimited` |
| `ImplementsPromise` | `Spec => KeepsPromise` |

`SyncSchedulerProofs` holds for any accounts, tokens, goroutines and bound, under
`SchedulerAssumption`.

| Theorem | States |
|---|---|
| `SchedulerTypesHold` | `Spec => []TypeOK` |
| `NeverTwoSyncs` | `Spec => []OneSyncPerAccount` |
| `CursorOnlyAdvances` | `Spec => CursorNeverBack` |

`PrintJobsProofs` holds for any batches, contents and customers and any number of
failures and restarts, under `JobsAssumption`: no content is in two places.

| Theorem | States |
|---|---|
| `JobsTypesHold` | `Spec => []TypeOK` |
| `NeverTwoPolls` | `Spec => []OnePoll` |
| `OutcomesAreTrue` | `Spec => []OutcomeIsTrue` |
| `ToldAtMostOnce` | `Spec => []OneOutcome` |

`WecomClientProofs` holds for any goroutines, replies and customers, any number of
retries and any interval, under `ClientAssumption`.

| Theorem | States |
|---|---|
| `TypesHold` | `Spec => []TypeOK` |
| `RepliesShownOnce` | `Spec => []ShownOnce` |
| `SlotsStayApart` | `Spec => []SlotsApart` |
| `PostsSurvive` | `Spec => []PostSurvives` |

`PostSurvives` speaks of calls with fewer relapses than retries.  Nothing in the code
keeps it to that: the default is two retries, and the program has a sync goroutine for
each account and polls beside them.  The maintainers' note on `StoreToken` above is
what happens to the other calls.

`KfSyncProofs` holds for any customers, any length of the log, any room on a menu, any
clicks and any number of errors, restarts and settings of the clock, under `KfAssumption`.

| Theorem | States |
|---|---|
| `KfTypesHold` | `Spec => []TypeOK` |
| `ContentPassedOnOnce` | `Spec => []PassedOnOnce` |
| `NoMessageSkipped` | `Spec => []NothingSkipped` |
| `DecisionsStand` | `Spec => DecisionStands` |
| `OnlyOfferedIsConfirmed` | `Spec => []ConfirmedWasOffered` |

`ConfirmedWasOffered` makes no claim once the clock has been set back, as the note on
it above says; of the others only the return of expired content in `DecisionStands`
depends on that.

`IppJobStateProofs` holds for every sequence of bytes, of any length (`IppSpec`).

| Theorem | States |
|---|---|
| `NoAnswerPanics` | `IppSpec => []NeverPanics` |
| `WalkAdvances` | `IppSpec => Advances` |
| `StateTold` | `AnswerSpec => []StateIsTrue` |

`CallbackServerProofs` holds for any request, any text and any corporation, under
`CorpIDAssumption`; `InputProofs` for any content, name, environment and list of
records, under `LimitsAssumption`, `LimitAssumption`, `KeysAssumption` (a key is not empty)
and `IntAssumption` (an int has 32 bits or more).

| Theorem | States |
|---|---|
| `OnlyWhatWecomWrote` | `CallbackSpec => []OnlyWellFormed` |
| `NoneTurnedAway` | `CallbackSpec => []GenuineIsHandled` |
| `EveryTextIsNamed` | `IntakeSpec => []TextIsNamed` |
| `AcceptedWhole` | `IntakeSpec => []AcceptedIsWhole` |
| `NamesStand` | `IntakeSpec => NameStands` |
| `ConfigReliable` | `ConfigSpec => []ConfigFits` |
| `LatestListed` | `QuerySpec => []LatestShown` |

### The argument for `PrintGateway`

None of the invariants is inductive alone: that a message is printed once
depends on who may post it.  `IInv` adds the reasons:

* `SoleOwner`: of the calls for a message, at most one has created its row and
  goes on; `Bystanders` are the others, which only read.
* `RowFollowsOwner`: the status of the row is the one its owner's step implies,
  and a row in flight without an owner is one that a failed statement left.
* `NotYetPosted`: before the owner's `Submit` nothing has been exchanged or printed.
* `PaperFollowsExchange`: a job has been queued exactly if the answer says so,
  except for a fault, which allows both.
* `VerdictsJustified`: a verdict that is stored, or about to be, agrees with the
  exchange.

`Restart` preserves `IInv` because recovery only makes rows *uncertain*, which
claims nothing.  The refinement follows step by step: `CupsTakes` is `Queue`,
`Finish` is `Decide`, `Restart` is `GiveUp` of the rows it recovers, everything
else stutters.

The rate limit has an invariant of its own, `RateInv`.  A call is admitted when
it has counted no more than the limit, its own row included.  The argument is
that among the admitted rows of any window, the last call to have counted has
seen all the others, because a row is inserted before it is counted.

### The argument for `SyncScheduler`

`OneSyncPerAccount` alone is not inductive: a callback starts a goroutine when
the account is not registered, so `Registered` has to say that a running
goroutine's account is.  `CursorIsCurrent` says that the cursor a goroutine has
read is still the stored one; with two goroutines for an account it would be
stale, so it needs `OneSyncPerAccount`, and `CursorNeverBack` needs both.

### The argument for `KfSync`

`KfInv` says how far the running sync has got.  `Walk`: all messages up to the
cursor, stored or local, and all of the page before the one in hand are handled,
so that storing the cursor skips none; a restart only forgets the local part.
`FreshBatch`: what is still to be passed on is confirmed and has not been
passed on.  A click confirms pending content only, and nothing makes confirmed
content pending again, so no click, repeated or not, finds it a second time;
that gives `PassedOnOnce` and `DecisionStands`.  `Inserted` and `InsertedOrder` say
what a new row does to the order of the others.

`OfferedInv` is about menus, as long as the clock has not been set back.  `Complete`: a
menu counts whatever of its customer is still active up to the row it names, and
lists all it counts if there is room (`ShortIsListed`: no more rows go before one than
the batch has others).  A new row goes behind the one that a menu names; then that
is no longer the latest, and a click on the menu no longer confirms anything.
`ClicksNameMenus` says that each click is on a menu its customer has got, and
`ViaClick` that what is confirmed is confirmed by such a click.

### The argument for `PrintJobs`

A customer hears two outcomes if two polls, or one poll twice, note the same job.
`JobsInv` says why they do not.  A poll notes a job only if it has taken it
from "submitted" itself, and nothing puts a job back there: `NotYetTracked` says
that the handler is still ahead of a content as long as it may track it, and
that it has no row until then.  `AtHand` says what a poll carries: a job it is
about to store has an outcome that CUPS has reported and cannot take back, and
each note is of a job whose row has that outcome and of which no receipt tells.
`ToldOnce` is `OneOutcome` without cardinalities.  `Notify` drops the notes of
the receipt it sends, so the others stay untold; a receipt that is given up, or
a restart, only drops notes.  `OnePoll` is part of the invariant, because a poll
beside the one that moves must have nothing at hand; `OwnPollAfter` keeps a batch
from starting its poll twice.

### The argument for `WecomClient`

`ShownOnce` needs that the id of a reply is the same in each attempt:
`ShownWithId` says that WeCom shows a reply exactly when it learns its id, and
`ToldTrue` that an answer of success is only read for an id that WeCom has.
`SlotsApart` needs `SlotTaken`: the next free slot of a customer is at least an
interval after each slot that is held, and stays so as time moves both.

`PostSurvives` is a count.  `SurvivalInv` says that as long as nothing has gone wrong
nothing is retried (`Calm`), and afterwards that the attempts a call has lost, and
one more if the token at hand or the cached one is dropped (`Spent`), are no more than
one and its relapses (`Endures`).  Failing with the dropped token clears the cache and
turns the one into the other; only another goroutine that stores it late brings it
back, which is a relapse.

### The argument for `IppJobState`

`IppInv` has for each step the bytes it may count on (`Foothold`): the checks of one
step are what the reads of the next rely on, so that the length of a value is
checked together with the name before it.  `Advances` follows from the same
invariant, as each step moves over at least one byte.

`StateIsTrue` is about the bytes that CUPS lays out, a concatenation that would ask
for an induction.  `AnswerSpec` says instead at which byte each attribute starts
(`start`), and `AnswerInv` follows the walk along these places: it stands at the
start of an attribute or of a value in it (`Standing`), and the attributes
before it were none that it looks for (`Silent`, in `Walking`).  A cut can only end
the walk early, with an error or an unknown state; of a damaged answer only
`NeverPanics` and `Advances` are claimed.

### The argument for `CallbackServer`

Decryption is exact in both directions.  `DecryptGivesBack`: of bytes laid out as
WeCom does, for a text of any length the length field can count, comes the text
and no error.  `DecryptIsExact`: if a text comes out, the bytes are laid out that
way, to the last byte of the padding, and for this corporation.  The invariant
then carries both through the handler: an answer of 200 is `Justified` by the
request, and a request of WeCom is `Honoured`.

### The argument for the other readers

`FileIntake`: a name that `Replaced` and `Trimmed` have cleaned is made of permitted
characters, and cleaning it again changes nothing (`PermittedStays`); that is why
the download and `validateFile` agree on the name, and so on the type.
`Configuration`: each number is the default, inside its range, or one that was
checked against the range (`ConfigInv`).  `RecordQuery`: sorting is described by
ranks, the number of records that go before one, and in a finite total order
every rank is taken by exactly one record (`EveryRank`, `RankDecides`); the list is
that of the lowest ranks, which takes the place of an induction over the sort.

The invariants of all modules were checked with TLC on the instances above
before they were proved.

Only model-checked is liveness: every safety invariant and action property of a
passing run has a theorem.  Liveness (`Settles`, `FetchedInTheEnd`, `ContentGetsAMenu`,
`ConfirmedIsRecorded`, `AcceptedIsTracked`, `CustomerIsTold`, `CallsReturn`) stays with
TLC: the prover handles neither fairness nor ENABLED.

## 5. Not modelled

* Packaging: images, compose files and workflows only build and deploy.
* The orderly shutdown (`main.go:98`) is one way to die, covered by `Restart`.
* Wording, logging, and the XML, JSON and multipart syntax of messages.
* AES, SHA-1, base64 and the regular expressions of `xmlText`: a damaged text comes
  out as other bytes, a signature fits or does not.
* Magic numbers and the count of pages are properties of a content.
* SQLite: a statement or transaction is atomic and durable.
* The text of a menu: only how many lines fit into its 1024 characters (`MenuLines`),
  as if all were of one length.
* Times are compared, never parsed; the time stamps of records are instants.
* `submit` takes a missing API key for an uncertain outcome (`cups.go:40`, `70`);
  `ConfigFits` shows that no permitted user lacks one.
* WeCom delivers one message per `msgid`, and a request ends.

## 6. Plan

1. `PrintPromise`, `PrintGateway`, `SyncScheduler`, `KfSync`, `PrintJobs`, `WecomClient`,
   and the modules of what the program reads, with their proofs.  (Done.)
2. Proofs about `KfSync`, of `PostSurvives`, and about the readers.  (Done.)
3. Composition: an abstract account of a batch (listed, confirmed, passed on,
   decided, tracked, told) that `KfSync` and `PrintJobs` both refine, and accounts
   that share one `PrintGateway`.
