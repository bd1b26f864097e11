--------------------------------- MODULE KfSync ---------------------------------
(***************************************************************************)
(* sync and the handlers it calls (gateway.go) with the table              *)
(* pending_prints (store.go): customers send content and click on menus,   *)
(* WeCom keeps everything in a log per account, and the gateway reads the  *)
(* log page by page from a stored cursor.                                  *)
(*                                                                         *)
(* One account and one goroutine: SyncScheduler shows that an account is   *)
(* never synced twice at a time, and no statement here touches rows of     *)
(* another account.  PrintGateway.process is reduced to the row it         *)
(* reserves and the verdict it stores.  A request that must not be lost is *)
(* a step of its own, and the program may be killed between any two steps. *)
(*                                                                         *)
(* WeCom and the customers are external.  WeCom delivers a message it      *)
(* already has (the same msgid) only once.                                 *)
(*                                                                         *)
(* Abstracted: a message is named by its place in the log; the clock is    *)
(* what it does to the table, the order of created_at and the passing of   *)
(* expires_at; the text of a menu has room for so many lines.              *)
(***************************************************************************)
EXTENDS Naturals, FiniteSets, SequencesExt

CONSTANTS
  Users,                 \* external_userid values
  AllowedExternalUsers,  \* WECOM_ALLOWED_EXTERNAL_USERS
  MenuLines,             \* how many contents the text of a menu has room for
  SendsMayFail,          \* whether a reply or a menu may be lost for good
  MaxLog,                \* bound: messages customers send
  MaxFailures            \* bound: errors, restarts, and settings of the clock

ASSUME KfAssumption ==
  /\ AllowedExternalUsers \subseteq Users
  /\ MenuLines \in Nat
  /\ SendsMayFail \in BOOLEAN
  /\ MaxLog \in Nat
  /\ MaxFailures \in Nat

VARIABLES
  log,       \* what WeCom holds: a sequence of messages
  menus,     \* the confirmation menus that customers can see
  kfCursor,  \* table kf_cursors: how far the log has been handled
  status,    \* table pending_prints: status of each message
  queue,     \* pending_prints in the order of created_at, msg_id
  expired,   \* the messages whose expires_at has passed
  row,       \* table messages: verdict on each message
  sync,      \* the goroutine: where it is, and its local variables
  newest,    \* messages stored since the clock is sure to have moved
  failures,  \* errors, restarts and settings of the clock so far
  setBack,   \* history: whether the clock has been set back
  via,       \* history: the click that confirmed a message (0: none)
  calls,     \* history: how often process was called for a message
  receipts,  \* history: the replies delivered to each message
  read       \* history: the messages handled completely

table == <<status, queue, expired>>
hist  == <<via, calls, receipts, read>>
vars  == <<log, menus, kfCursor, table, row, sync, newest, failures, setBack, hist>>

Ids  == 1 .. MaxLog
Sent == 1 .. Len(log)

\* A message of a customer.  menu is the content the clicked button names.
Kinds    == {"content", "other", "confirm", "cancel"}
Messages == [user : Users, kind : Kinds, menu : 0 .. MaxLog]

Verdicts == {"accepted", "rejected", "uncertain"}
Replies  == {"unsupported", "denied", "cancelled", "void", "result"}

\* Local variables of sync and of the handler it is in.
Idle == [at |-> "idle", cursor |-> 0, next |-> 0, more |-> FALSE, id |-> 0,
         confirmations |-> {}, batch |-> {}, item |-> 0, reply |-> "none"]

Init ==
  /\ log = <<>>
  /\ menus = {}
  /\ kfCursor = 0
  /\ status = [i \in Ids |-> "none"]
  /\ queue = <<>>
  /\ expired = {}
  /\ row = [i \in Ids |-> "none"]
  /\ sync = Idle
  /\ newest = {}
  /\ failures = 0
  /\ setBack = FALSE
  /\ via = [i \in Ids |-> 0]
  /\ calls = [i \in Ids |-> 0]
  /\ receipts = [i \in Ids |-> {}]
  /\ read = {}

At(s) == sync.at = s

\* listActivePending, and the SELECT of pendingBatch.
Active(user) ==
  {i \in Sent : log[i].user = user /\ status[i] = "pending" /\ i \notin expired}

\* ORDER BY created_at, msg_id.
Before(i, j) == \E p, q \in DOMAIN queue : p < q /\ queue[p] = i /\ queue[q] = j
IsFirst(i, batch)  == i \in batch /\ \A j \in batch \ {i} : Before(i, j)
IsLatest(i, batch) == i \in batch /\ \A j \in batch \ {i} : Before(j, i)

-----------------------------------------------------------------------------
\* sync: pages and the cursor

Start ==
  /\ At("idle")
  /\ sync' = [Idle EXCEPT !.at = "fetch", !.cursor = kfCursor]
  /\ UNCHANGED <<log, menus, kfCursor, table, row, newest, failures, setBack, hist>>

\* kf/sync_msg.  The exchange takes at least a millisecond.
Fetch ==
  /\ At("fetch")
  /\ \E next \in sync.cursor .. Len(log) :
       /\ next = sync.cursor => next = Len(log)
       /\ sync' = [sync EXCEPT !.at = "handle", !.next = next, !.more = next < Len(log),
                               !.id = sync.cursor + 1]
  /\ newest' = {}
  /\ UNCHANGED <<log, menus, kfCursor, table, row, failures, setBack, hist>>

Handling(kinds) == /\ At("handle")
                   /\ sync.id <= sync.next
                   /\ log[sync.id].kind \in kinds

\* The handler is done with the message.
Done(s) == [s EXCEPT !.at = "handle", !.id = s.id + 1, !.reply = "none"]
MarkRead == read' = read \cup {sync.id}

\* (Mutant: off by one.)
PageNearlyDone == sync.id >= sync.next

PageDone == sync.id > sync.next

\* The page is handled: the cursor is stored, and the next page or the menus follow.
\* The last page may come without next_cursor: then nothing is stored.  (Any other
\* without it is an error, which is SyncFails.)
SetKfCursor ==
  /\ At("handle")
  /\ PageDone
  /\ \/ kfCursor' = sync.next
     \/ ~sync.more /\ UNCHANGED kfCursor
  /\ sync' = IF sync.more THEN [sync EXCEPT !.at = "fetch", !.cursor = sync.next]
             ELSE [sync EXCEPT !.at = "menus"]
  /\ UNCHANGED <<log, menus, table, row, newest, failures, setBack, hist>>

-----------------------------------------------------------------------------
\* handleMessage: content

\* A reply is about to be sent.
Answer(text) == sync' = [sync EXCEPT !.at = "reply", !.reply = text]

\* A type of message that cannot be printed, or a sender without permission.
Decline ==
  /\ \/ Handling({"other"}) /\ Answer("unsupported")
     \/ /\ Handling({"content"})
        /\ log[sync.id].user \notin AllowedExternalUsers
        /\ Answer("denied")
  /\ UNCHANGED <<log, menus, kfCursor, table, row, newest, failures, setBack, hist>>

Accepting == Handling({"content"}) /\ log[sync.id].user \in AllowedExternalUsers

\* The content is too old, or createPending finds its row: nothing happens.
Skip ==
  /\ Accepting
  /\ sync' = Done(sync)
  /\ MarkRead
  /\ UNCHANGED <<log, menus, kfCursor, table, row, newest, failures, setBack, via, calls,
                 receipts>>

\* Where ORDER BY created_at, msg_id may put a new row: at the end, or among the
\* rows of the same millisecond; anywhere if the clock was set back.
Places ==
  {p \in 1 .. Len(queue) + 1 :
     setBack \/ \A q \in p .. Len(queue) : queue[q] \in newest}

\* (Mutant: ON CONFLICT DO UPDATE.)
CreatesAgain(i) == status[i] # "confirmed"

Creates(i) == status[i] = "none"

\* createPending inserts the row, with a new expires_at.
CreatePending ==
  /\ Accepting
  /\ Creates(sync.id)
  /\ status' = [status EXCEPT ![sync.id] = "pending"]
  /\ \E p \in Places : queue' = InsertAt(queue, p, sync.id)
  /\ newest' = newest \cup {sync.id}
  /\ sync' = [Done(sync) EXCEPT !.confirmations = sync.confirmations \cup {log[sync.id].user}]
  /\ MarkRead
  /\ expired' = expired \ {sync.id}
  /\ UNCHANGED <<log, menus, kfCursor, row, failures, setBack, via, calls, receipts>>

-----------------------------------------------------------------------------
\* handleMessage: clicks

Click == log[sync.id]

\* (Mutant: the button may name any content of the batch.)
NamesMember(batch, id) == id \in batch

\* pendingBatch: the button must name the latest content of the batch.
NamesLatest(batch, id) == IsLatest(id, batch)

\* (Mutants: the UPDATE changes only the content that the button names; only the
\* latest content is printed.)
SetsLatest(S, value) == [i \in Ids |-> IF i \in S /\ i = Click.menu THEN value ELSE status[i]]
LatestOnly(batch) == {i \in batch : IsLatest(i, batch)}

\* UPDATE pending_prints SET status.
SetBatch(S, value) == [i \in Ids |-> IF i \in S THEN value ELSE status[i]]

\* What handleMenu goes through after a confirmation.
ToPrint(batch) == batch

\* pendingBatch is one transaction.
Cancel ==
  /\ Handling({"cancel"})
  /\ LET batch == Active(Click.user)
     IN IF NamesLatest(batch, Click.menu)
        THEN Answer("cancelled") /\ status' = SetBatch(batch, "cancelled")
        ELSE Answer("void") /\ UNCHANGED status
  /\ UNCHANGED <<log, menus, kfCursor, queue, expired, row, newest, failures, setBack, hist>>

Confirm ==
  /\ Handling({"confirm"})
  /\ LET batch == Active(Click.user)
     IN IF NamesLatest(batch, Click.menu)
        THEN /\ sync' = [sync EXCEPT !.at = "batch", !.batch = ToPrint(batch)]
             /\ status' = SetBatch(batch, "confirmed")
             /\ via' = [i \in Ids |-> IF i \in batch THEN sync.id ELSE via[i]]
        ELSE Answer("void") /\ UNCHANGED <<status, via>>
  /\ UNCHANGED <<log, menus, kfCursor, queue, expired, row, newest, failures, setBack,
                 calls, receipts, read>>

\* process is called for the next content of the batch: it reserves a row, or
\* returns what another call left there.
Process ==
  /\ At("batch")
  /\ \E i \in sync.batch :
       /\ IsFirst(i, sync.batch)
       /\ calls' = [calls EXCEPT ![i] = @ + 1]
       /\ IF row[i] = "none"
          THEN /\ row' = [row EXCEPT ![i] = "open"]
               /\ sync' = [sync EXCEPT !.at = "process", !.batch = @ \ {i}, !.item = i]
          ELSE /\ sync' = [sync EXCEPT !.batch = @ \ {i}]
               /\ UNCHANGED row
  /\ UNCHANGED <<log, menus, kfCursor, table, newest, failures, setBack, via, receipts, read>>

ProcessReturns ==
  /\ At("process")
  /\ \E v \in Verdicts : row' = [row EXCEPT ![sync.item] = v]
  /\ sync' = [sync EXCEPT !.at = "batch", !.item = 0]
  /\ newest' = {}
  /\ UNCHANGED <<log, menus, kfCursor, table, failures, setBack, hist>>

BatchDone ==
  /\ At("batch") /\ sync.batch = {}
  /\ Answer("result")
  /\ UNCHANGED <<log, menus, kfCursor, table, row, newest, failures, setBack, hist>>

-----------------------------------------------------------------------------
\* Sending

\* One more error, restart or setting of the clock, within the bound.
Failure == failures < MaxFailures /\ failures' = failures + 1

\* safeReply and safeTaskReply: an error is logged and forgotten.
Reply ==
  /\ At("reply")
  /\ \/ /\ receipts' = [receipts EXCEPT ![sync.id] = @ \cup {sync.reply}]
        /\ UNCHANGED failures
     \/ SendsMayFail /\ Failure /\ UNCHANGED receipts
  /\ sync' = Done(sync)
  /\ MarkRead
  /\ newest' = {}
  /\ UNCHANGED <<log, menus, kfCursor, table, row, setBack, via, calls>>

\* The msgid of a menu is derived from the content it names.
Seen(id) == \E n \in menus : n.key = id

\* (Mutant: the menu is named after the first of the batch.)
NamedFirst(k, batch) == IsFirst(k, batch)

\* The buttons of a menu carry the id of the latest of the batch.
NamedAfter(k, batch) == IsLatest(k, batch)

\* confirmationContent lists the batch, and sendConfirmation cuts the text.
Listed(batch) == {i \in batch : Cardinality({j \in batch : Before(j, i)}) < MenuLines}

\* The button to confirm counts the whole batch.
Menu(k, batch) == [key |-> k, items |-> batch, listed |-> Listed(batch)]

\* sendLatestConfirmation for a customer of this sync; again an error is logged
\* and forgotten.
SendLatestConfirmation(user) ==
  /\ At("menus")
  /\ user \in sync.confirmations
  /\ sync' = [sync EXCEPT !.confirmations = @ \ {user}]
  /\ LET batch == Active(user)
     IN \/ batch = {} /\ UNCHANGED <<menus, failures>>
        \/ /\ \E k \in batch :
                /\ NamedAfter(k, batch)
                /\ menus' = IF Seen(k) THEN menus ELSE menus \cup {Menu(k, batch)}
           /\ UNCHANGED failures
        \/ batch # {} /\ SendsMayFail /\ Failure /\ UNCHANGED menus
  /\ newest' = {}
  /\ UNCHANGED <<log, kfCursor, table, row, setBack, hist>>

Finish ==
  /\ At("menus") /\ sync.confirmations = {}
  /\ sync' = Idle
  /\ UNCHANGED <<log, menus, kfCursor, table, row, newest, failures, setBack, hist>>

\* sync returns an error: of a SQL statement, of kf/sync_msg, of process; or there are
\* more pages, and no next_cursor to ask for them.  (After
\* an error createPending reads a result that is nil, which kills the program:
\* that is Restart.)
SyncFails ==
  /\ ~At("idle") /\ ~At("reply")
  /\ At("batch") => sync.batch # {}
  /\ Failure
  /\ sync' = Idle
  /\ UNCHANGED <<log, menus, kfCursor, table, row, newest, setBack, hist>>

Sync ==
  \/ Start \/ Fetch \/ SetKfCursor \/ Decline \/ Skip \/ CreatePending \/ Cancel \/ Confirm
  \/ Process \/ ProcessReturns \/ BatchDone \/ Reply \/ Finish
  \/ \E u \in Users : SendLatestConfirmation(u)

-----------------------------------------------------------------------------
\* The environment

\* Customers send something, or click on a menu they can see, however old.
Send ==
  /\ Len(log) < MaxLog
  /\ \/ \E u \in Users, k \in {"content", "other"} :
          log' = Append(log, [user |-> u, kind |-> k, menu |-> 0])
     \/ \E n \in menus, k \in {"confirm", "cancel"} :
          log' = Append(log, [user |-> log[n.key].user, kind |-> k, menu |-> n.key])
  /\ UNCHANGED <<menus, kfCursor, table, row, sync, newest, failures, setBack, hist>>

\* Time passes; contents expire in the order in which they were stored.
Expire ==
  /\ \E i \in {j \in Ids : status[j] = "pending"} \ expired :
       /\ setBack \/ \A j \in 1 .. i - 1 : status[j] = "pending" => j \in expired
       /\ expired' = expired \cup {i}
  /\ UNCHANGED <<log, menus, kfCursor, status, queue, row, sync, newest, failures, setBack, hist>>

\* The wall clock is set back: some contents have not expired yet after all, and until
\* it has caught up, new rows go before older ones.
SetBack ==
  /\ Failure
  /\ setBack' = TRUE
  /\ expired' \in SUBSET expired
  /\ UNCHANGED <<log, menus, kfCursor, status, queue, row, sync, newest, hist>>

\* The program dies; the next one settles the rows of process (newStore).
Restart ==
  /\ Failure
  /\ sync' = Idle
  /\ row' = [i \in Ids |-> IF row[i] = "open" THEN "uncertain" ELSE row[i]]
  /\ newest' = {}
  /\ UNCHANGED <<log, menus, kfCursor, table, setBack, hist>>

Next == Sync \/ SyncFails \/ Send \/ Expire \/ SetBack \/ Restart

Spec == Init /\ [][Next]_vars

\* Callbacks keep starting syncs, and a sync keeps going: requests end.  Nothing
\* is assumed of customers or the clock.
FairSpec == Spec /\ WF_vars(Sync)

-----------------------------------------------------------------------------
\* Properties

\* Types; only what customers sent has a row, a receipt or a menu, and a message
\* has at most one row.
TypeOK ==
  /\ log \in Seq(Messages) /\ Len(log) <= MaxLog
  /\ menus \subseteq [key : Sent, items : SUBSET Sent, listed : SUBSET Sent]
  /\ kfCursor \in 0 .. Len(log)
  /\ status \in [Ids -> {"none", "pending", "confirmed", "cancelled"}]
  /\ queue \in Seq(Sent) /\ ToSet(queue) = {i \in Ids : status[i] # "none"}
  /\ \A p, q \in DOMAIN queue : queue[p] = queue[q] => p = q
  /\ expired \cup newest \subseteq ToSet(queue)
  /\ row \in [Ids -> {"none", "open"} \cup Verdicts]
  /\ sync \in [at : {"idle", "fetch", "handle", "reply", "batch", "process", "menus"},
               cursor : 0 .. Len(log), next : 0 .. Len(log), more : BOOLEAN,
               id : 0 .. Len(log) + 1, confirmations : SUBSET Users,
               batch : SUBSET Sent, item : 0 .. Len(log), reply : Replies \cup {"none"}]
  /\ failures \in 0 .. MaxFailures /\ setBack \in BOOLEAN
  /\ via \in [Ids -> 0 .. MaxLog] /\ calls \in [Ids -> Nat]
  /\ receipts \in [Ids -> SUBSET Replies]
  /\ read \subseteq Sent

\* Unless the clock is set back, whatever is confirmed was counted on the button of
\* the very menu that was clicked, and listed above it if the text had room for
\* all, and it is theirs: content that arrives later never rides along on an older
\* menu, and an old menu confirms nothing (pendingBatch, sendLatestConfirmation).
ConfirmedWasOffered ==
  ~setBack =>
    \A i \in Ids : status[i] = "confirmed" =>
      /\ log[i].user = log[via[i]].user
      /\ \E n \in menus :
           /\ n.key = log[via[i]].menu /\ i \in n.items
           /\ Cardinality(n.items) <= MenuLines => i \in n.listed

\* process is called for confirmed content only, and once, however often the
\* click, or the page it is on, is repeated.
PassedOnOnce ==
  \A i \in Ids : calls[i] <= 1 /\ (calls[i] = 1 => status[i] = "confirmed")

\* What the customer decided stands, and so does what has expired: a message that is
\* delivered again, after a failure or because WeCom gave no next_cursor, brings no
\* content back (createPending, pendingBatch).  Only a clock that is set back does.
DecisionStands ==
  [][\A i \in Ids :
       /\ status'[i] # status[i] =>
            \/ status[i] = "none" /\ status'[i] = "pending"
            \/ status[i] = "pending" /\ i \notin expired
       /\ i \in expired => i \in expired' \/ setBack']_<<status, expired>>

\* The cursor never passes a message that has not been handled to the end: an
\* error or a restart repeats messages and skips none.
NothingSkipped == 1 .. kfCursor \subseteq read

\* A customer who sends content gets a menu that confirms it: the content is counted
\* on it, and a click would be taken until the content that the menu names expires
\* (sync, sendLatestConfirmation), unless the content is decided or expires first.
ContentGetsAMenu ==
  \A i \in Ids : status[i] = "pending" ~>
    \/ \E n \in menus : /\ i \in n.items
                        /\ NamesLatest(Active(log[i].user), n.key) \/ n.key \in expired
    \/ status[i] # "pending" \/ i \in expired

\* Confirmed content ends up in the table messages, with what became of it.
ConfirmedIsRecorded ==
  \A i \in Ids : status[i] = "confirmed" ~> row[i] # "none"

=============================================================================
