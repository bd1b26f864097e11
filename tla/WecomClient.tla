------------------------------ MODULE WecomClient ------------------------------
(***************************************************************************)
(* WecomKfClient (wecom.go): the requests that goroutines send to WeCom    *)
(* side by side, with the access token they share, the slots that keep     *)
(* replies to one customer apart, and the retries, which are nested: an    *)
(* attempt of post or downloadMedia asks for a token, and asking for a     *)
(* token retries by itself.                                                *)
(*                                                                         *)
(* Each critical section of mu and replyMu is one step, a request is two:  *)
(* WeCom handles it, and later the goroutine reads the answer.  Everything *)
(* between two steps interleaves.                                          *)
(*                                                                         *)
(* WeCom is external: it accepts a msgid once, and may lose, refuse or     *)
(* fail any request, handled or not.  Abstracted: an access token is good  *)
(* or bad, by whether WeCom would take it now; errors are what withRetry   *)
(* and post make of them; time is counted from now, for slots only.        *)
(***************************************************************************)
EXTENDS Integers

CONSTANTS
  Goroutines,          \* syncs, pollers and batches that call the client
  Replies,             \* what sendText, sendConfirmation, sendRecordMenu are given
  CustomerOf,          \* the customer (and account) each reply goes to
  WecomAPIMaxRetries,  \* WECOM_API_MAX_RETRIES
  Interval             \* WECOM_REPLY_MIN_INTERVAL_MS, in ticks

Sync  == "kf/sync_msg"
Media == "media/get"

Ops       == Replies \cup {Sync, Media}
Customers == {CustomerOf[r] : r \in Replies}

ASSUME ClientAssumption ==
  /\ Sync \notin Replies /\ Media \notin Replies
  /\ WecomAPIMaxRetries \in Nat
  /\ Interval \in Nat

VARIABLES
  accessToken,  \* the cached token: "none" (or past expiresAt), "good", "bad"
  nextReplyAt,  \* the map of that name: ticks until the next free slot
  pc,           \* the step each goroutine is at
  frame,        \* its local variables
  msgids,       \* WeCom: the ids of messages it has accepted
  shown,        \* WeCom: how often each reply is shown to its customer
  troubles,     \* history: what went wrong at WeCom or on the way, up to 2
  relapses      \* history: how often another goroutine has cached a token that WeCom
                \* had dropped, during each one's call, up to WecomAPIMaxRetries and
                \* to the second trouble

vars == <<accessToken, nextReplyAt, pc, frame, msgids, shown, troubles, relapses>>

\* What becomes of a request; "repeated": WeCom has the msgid already (95033);
\* "token": it does not take the token (40001, 40014, 42001); "busy": -1 or 45009;
\* "refused": any other code or status; "lost": HTTP 408, 429 or 5xx, no answer, or
\* one that cannot be decoded.  A download whose body is lost is "busy".
Answers == {"ok", "repeated", "token", "busy", "refused", "lost"}

NoFrame == [op |-> Sync, due |-> -Interval, attempt |-> 0, tries |-> 0,
            token |-> "none", answer |-> "ok"]

Init ==
  /\ accessToken = "none"
  /\ nextReplyAt = [u \in Customers |-> 0]
  /\ pc = [c \in Goroutines |-> "done"]
  /\ frame = [c \in Goroutines |-> NoFrame]
  /\ msgids = {}
  /\ shown = [r \in Replies |-> 0]
  /\ troubles = 0
  /\ relapses = [c \in Goroutines |-> 0]

At(c, s)   == pc[c] = s
Goto(c, s) == pc' = [pc EXCEPT ![c] = s]
IsReply(c) == frame[c].op \in Replies

Trouble ==
  /\ troubles' = IF troubles < 2 THEN troubles + 1 ELSE 2
  /\ relapses' = [c \in Goroutines |-> 0]

-----------------------------------------------------------------------------
\* Slots

\* (Mutant: counted from now, not from the slot taken.)
FromNow(due) == Interval

NextSlot(due) == due + Interval

\* The goroutine, done with its last call, makes another.  waitReplySlot: a reply
\* takes the next free slot of its customer.
Start(c, op) ==
  /\ At(c, "done")
  /\ IF op \in Replies
     THEN LET due == nextReplyAt[CustomerOf[op]]
          IN /\ frame' = [frame EXCEPT ![c] = [NoFrame EXCEPT !.op = op, !.due = due]]
             /\ nextReplyAt' = [nextReplyAt EXCEPT ![CustomerOf[op]] = NextSlot(due)]
             /\ Goto(c, "slot")
     ELSE /\ frame' = [frame EXCEPT ![c] = [NoFrame EXCEPT !.op = op]]
          /\ Goto(c, "cache")
          /\ UNCHANGED nextReplyAt
  /\ relapses' = [relapses EXCEPT ![c] = 0]
  /\ UNCHANGED <<accessToken, msgids, shown, troubles>>

\* The sleep until the slot is over.
Wake(c) ==
  /\ At(c, "slot")
  /\ frame[c].due <= 0
  /\ Goto(c, "cache")
  /\ UNCHANGED <<accessToken, nextReplyAt, frame, msgids, shown, troubles, relapses>>

-----------------------------------------------------------------------------
\* The access token

\* token: the cached one, or else gettoken.
ReadCache(c) ==
  /\ At(c, "cache")
  /\ frame' = [frame EXCEPT ![c].token = accessToken, ![c].tries = 0]
  /\ Goto(c, IF accessToken = "none" THEN "gettoken" ELSE "request")
  /\ UNCHANGED <<accessToken, nextReplyAt, msgids, shown, troubles, relapses>>

\* withRetry returns.
Return(c, answer) ==
  /\ Goto(c, "done")
  /\ frame' = [frame EXCEPT ![c].attempt = 0, ![c].tries = 0, ![c].token = "none",
                            ![c].answer = answer]

\* (Mutant: one attempt too many.)
OnceMore(n) == n <= WecomAPIMaxRetries

MayRetry(n) == n < WecomAPIMaxRetries

\* (Mutant: the loop forgets its count.)
SameAttempt(c) ==
  /\ Goto(c, "cache")
  /\ frame' = [frame EXCEPT ![c].token = "none", ![c].tries = 0, ![c].answer = "ok"]

\* The next attempt of post or downloadMedia.
NextAttempt(c) ==
  /\ Goto(c, "cache")
  /\ frame' = [frame EXCEPT ![c].attempt = @ + 1, ![c].token = "none", ![c].tries = 0,
                            ![c].answer = "ok"]

\* gettoken: tried again by token, and when that gives up, by its caller.
GetToken(c) ==
  /\ At(c, "gettoken")
  /\ \/ /\ frame' = [frame EXCEPT ![c].token = "good"]
        /\ Goto(c, "store")
        /\ UNCHANGED <<troubles, relapses>>
     \/ /\ Trouble
        /\ IF MayRetry(frame[c].tries)
           THEN frame' = [frame EXCEPT ![c].tries = @ + 1] /\ UNCHANGED pc
           ELSE IF MayRetry(frame[c].attempt) THEN NextAttempt(c) ELSE Return(c, "busy")
     \/ Trouble /\ Return(c, "refused")
  /\ UNCHANGED <<accessToken, nextReplyAt, msgids, shown>>

Relapse(c) ==
  relapses' = [d \in Goroutines |->
                 IF d # c /\ ~At(d, "done") /\ relapses[d] < WecomAPIMaxRetries
                 THEN relapses[d] + 1 ELSE relapses[d]]

\* The token is cached, whatever became of it and of the cache meanwhile.
StoreToken(c) ==
  /\ At(c, "store")
  /\ accessToken' = frame[c].token
  /\ Goto(c, "request")
  /\ frame' = [frame EXCEPT ![c].tries = 0]
  /\ IF frame[c].token = "bad" /\ troubles < 2 THEN Relapse(c) ELSE UNCHANGED relapses
  /\ UNCHANGED <<nextReplyAt, msgids, shown, troubles>>

-----------------------------------------------------------------------------
\* The request

\* (Mutant: an id for each attempt.)
FreshID(c) == <<frame[c].op, frame[c].attempt>>

\* stableWecomMessageID: derived from what is sent, before the first attempt.
MessageID(c) == <<frame[c].op, 0>>

\* WeCom takes the request.
Accept(c) ==
  /\ frame[c].token = "good"
  /\ IF IsReply(c) /\ MessageID(c) \notin msgids
     THEN /\ msgids' = msgids \cup {MessageID(c)}
          /\ shown' = [shown EXCEPT ![frame[c].op] = @ + 1]
     ELSE UNCHANGED <<msgids, shown>>

\* WeCom handles the request, or it gets lost on the way there or back.
Handle(c) ==
  /\ At(c, "request")
  /\ \E a \in Answers :
       /\ frame' = [frame EXCEPT ![c].answer = a]
       /\ \/ a = "ok" /\ ~(IsReply(c) /\ MessageID(c) \in msgids) /\ Accept(c)
          \/ a = "repeated" /\ IsReply(c) /\ MessageID(c) \in msgids /\ Accept(c)
          \/ a = "token" /\ frame[c].token = "bad" /\ UNCHANGED <<msgids, shown>>
          \/ a = "lost" /\ Accept(c)
          \/ a \in {"lost", "busy", "refused"} /\ UNCHANGED <<msgids, shown>>
       /\ IF a \in {"ok", "repeated", "token"} THEN UNCHANGED <<troubles, relapses>> ELSE Trouble
  /\ Goto(c, "answer")
  /\ UNCHANGED <<accessToken, nextReplyAt>>

\* post takes a repeated msgid for a success.
Succeeds(c) == frame[c].answer \in {"ok", "repeated"}

\* (Mutant: the cache is left alone.)
Keeps(c) == accessToken

\* post drops the cached token, whichever it is, if its own was not taken.
\* downloadMedia looks at codes when withRetry has returned.
Cached(c) ==
  IF frame[c].answer = "token" /\ frame[c].op # Media THEN "none" ELSE accessToken

\* What withRetry repeats.  downloadMedia reads bodies when it has returned.
Retryable(c) ==
  \/ frame[c].answer = "lost"
  \/ frame[c].answer \in {"token", "busy"} /\ frame[c].op # Media

\* The goroutine reads the answer.
ReadAnswer(c) ==
  /\ At(c, "answer")
  /\ accessToken' = Cached(c)
  /\ IF ~Succeeds(c) /\ Retryable(c) /\ MayRetry(frame[c].attempt)
     THEN NextAttempt(c)
     ELSE Return(c, frame[c].answer)
  /\ UNCHANGED <<nextReplyAt, msgids, shown, troubles, relapses>>

Step(c) ==
  Wake(c) \/ ReadCache(c) \/ GetToken(c) \/ StoreToken(c) \/ Handle(c) \/ ReadAnswer(c)

-----------------------------------------------------------------------------
\* The environment

\* Nothing tells slots apart that are further back than this.
Earlier(due) == IF due > -Interval THEN due - 1 ELSE due

\* Time passes; a slot before now is as good as none (due.Before).
Tick ==
  /\ \E u \in Customers : nextReplyAt[u] > 0
       \/ \E c \in Goroutines : frame[c].due > -Interval
  /\ nextReplyAt' = [u \in Customers |-> IF nextReplyAt[u] > 0 THEN nextReplyAt[u] - 1 ELSE 0]
  /\ frame' = [c \in Goroutines |-> [frame[c] EXCEPT !.due = Earlier(@)]]
  /\ UNCHANGED <<accessToken, pc, msgids, shown, troubles, relapses>>

\* expiresAt passes, 120 s before WeCom drops the token; a token that is given for
\* less expires at once.
Expire ==
  /\ accessToken' = "none"
  /\ UNCHANGED <<nextReplyAt, pc, frame, msgids, shown, troubles, relapses>>

Revoked(token) == IF token = "good" THEN "bad" ELSE token

\* WeCom drops a token before its time.
Revoke ==
  /\ accessToken' = Revoked(accessToken)
  /\ frame' = [c \in Goroutines |-> [frame[c] EXCEPT !.token = Revoked(@)]]
  /\ Trouble
  /\ UNCHANGED <<nextReplyAt, pc, msgids, shown>>

Next ==
  \/ \E c \in Goroutines : Step(c) \/ \E op \in Ops : Start(c, op)
  \/ Tick \/ Expire \/ Revoke

Spec == Init /\ [][Next]_vars

\* Goroutines keep running, time passes, and every request ends: the HTTP client
\* has a timeout.  Nothing is assumed of what WeCom answers.
FairSpec == Spec /\ WF_vars(Tick) /\ \A c \in Goroutines : WF_vars(Step(c))

-----------------------------------------------------------------------------
\* Properties

Frames == [op : Ops, due : Int, attempt : 0 .. WecomAPIMaxRetries,
           tries : 0 .. WecomAPIMaxRetries, token : {"none", "good", "bad"}, answer : Answers]

\* Types, and that a request carries a token.
TypeOK ==
  /\ accessToken \in {"none", "good", "bad"}
  /\ nextReplyAt \in [Customers -> Nat]
  /\ pc \in [Goroutines -> {"done", "slot", "cache", "gettoken", "store", "request",
                            "answer"}]
  /\ frame \in [Goroutines -> Frames]
  /\ msgids \subseteq Replies \X (0 .. WecomAPIMaxRetries)
  /\ shown \in [Replies -> Nat]
  /\ troubles \in 0 .. 2
  /\ relapses \in [Goroutines -> 0 .. WecomAPIMaxRetries]
  /\ \A c \in Goroutines : pc[c] \in {"store", "request"} => frame[c].token # "none"

Sent(c) == At(c, "done") /\ Succeeds(c)

\* A customer never sees a reply twice, however often answers get lost and the
\* request is repeated, and sees every reply that the client reports as sent
\* (stableWecomMessageID, 95033 in post).
ShownOnce ==
  /\ \A r \in Replies : shown[r] <= 1
  /\ \A c \in Goroutines : Sent(c) /\ IsReply(c) => shown[frame[c].op] = 1

\* Two goroutines that reply to one customer never hold slots closer than the
\* interval, however the calls overlap (waitReplySlot).
SlotsApart ==
  \A c, d \in Goroutines :
    /\ c # d /\ IsReply(c) /\ IsReply(d)
    /\ CustomerOf[frame[c].op] = CustomerOf[frame[d].op]
    /\ -Interval < frame[c].due /\ frame[c].due <= frame[d].due
    => frame[d].due - frame[c].due >= Interval

\* Unless WeCom refuses it, no post fails because of one thing going wrong: one retry
\* makes up for a request that is lost or a token that is dropped, and each further
\* one for another goroutine that caches the dropped token once more (post, token).
\* With retries fewer than that a post may fail.
PostSurvives ==
  \A c \in Goroutines :
    /\ At(c, "done") /\ frame[c].op # Media /\ frame[c].answer # "refused"
    /\ troubles <= 1 /\ relapses[c] < WecomAPIMaxRetries
    => Succeeds(c)

\* The same of downloads, as README.md says of the calls to WeCom.
DownloadSurvives ==
  \A c \in Goroutines :
    At(c, "done") /\ frame[c].op = Media /\ frame[c].answer # "refused" /\ troubles <= 1
    => Succeeds(c)

\* Every call returns, however long WeCom is out of reach: slots come, and the
\* nested retries end (withRetry, waitReplySlot).
CallsReturn == \A c \in Goroutines : ~At(c, "done") ~> At(c, "done")

=============================================================================
