------------------------------ MODULE PrintGateway ------------------------------
(***************************************************************************)
(* PrintGateway.process (gateway.go): the life of one print message from   *)
(* its row in the SQLite table "messages" to the answer of cups-web.       *)
(*                                                                         *)
(* Several goroutines may be inside process at once (one sync goroutine    *)
(* per customer-service account), each SQL statement and each network      *)
(* exchange is one atomic step, and the program may be killed and started  *)
(* again between any two of them.  cups-web is external: it takes or       *)
(* refuses a request that has reached it, also after the gateway gave up   *)
(* on it or died.                                                          *)
(*                                                                         *)
(* Abstracted: the wording of replies, and the file itself - incoming      *)
(* (gateway.go) always yields exactly one, so the loops over files have    *)
(* one iteration and "no file" does not occur.                             *)
(***************************************************************************)
EXTENDS Integers, FiniteSets

CONSTANTS
  MsgIDs,                \* msgid values of customer messages
  Users,                 \* external_userid values
  UserOf,                \* the sender of each message
  Calls,                 \* goroutines that may be inside process together
  AllowedExternalUsers,  \* WECOM_ALLOWED_EXTERNAL_USERS
  RateLimitCount,        \* RATE_LIMIT_COUNT
  RateLimitWindowMS,     \* RATE_LIMIT_WINDOW_MS
  StoreMayFail,          \* whether a SQL statement may return an error
  MaxMillis              \* bound: the clock stops there

ASSUME ConfigAssumption ==
  /\ UserOf \in [MsgIDs -> Users]
  /\ AllowedExternalUsers \subseteq Users
  /\ RateLimitCount \in Nat \ {0}
  /\ RateLimitWindowMS \in Nat \ {0}
  /\ StoreMayFail \in BOOLEAN
  /\ MaxMillis \in Nat

ASSUME FiniteMsgIDs == IsFiniteSet(MsgIDs)

VARIABLES
  messages,  \* table messages: status and created_at of each msg_id
  pc,        \* the step of process each goroutine is at
  frame,     \* its local variables
  exchange,  \* the HTTP exchange with cups-web about each message
  printed,   \* how many jobs cups-web has queued for each message
  now        \* nowMillis()

vars == <<messages, pc, frame, exchange, printed, now>>

InFlight == {"received", "downloading", "validating", "submitting"}
Final    == {"accepted", "rejected", "uncertain"}
Statuses == {"none"} \cup InFlight \cup Final   \* "none": the row is absent

NoRow     == [status |-> "none", created_at |-> 0]
Stored(m) == messages[m].status # "none"

\* The steps of process.  A step named after a status is about to write it.
StoreSteps == {"reserve", "get", "count", "downloading", "validating",
               "submitting", "finish"}
Steps      == StoreSteps \cup
              {"idle", "load", "validate", "submit", "await", "returned", "failed"}

\* clock: the last reading of nowMillis(); created: the first result of
\* reserve; status: what the call is about to store, or has returned.
Frame == [msg : MsgIDs \cup {"none"}, clock : Nat, created : BOOLEAN,
          status : Statuses]
Idle  == [msg |-> "none", clock |-> 0, created |-> FALSE, status |-> "none"]

\* What cups-web may answer: the job (2xx with a jobId), a refusal (any other
\* answer below 500), or a 5xx, which it may send with or without the job queued.
Answers   == {"job", "refusal", "fault"}
Exchanges == {"none", "sent"} \cup Answers

Init ==
  /\ messages = [m \in MsgIDs |-> NoRow]
  /\ pc = [c \in Calls |-> "idle"]
  /\ frame = [c \in Calls |-> Idle]
  /\ exchange = [m \in MsgIDs |-> "none"]
  /\ printed = [m \in MsgIDs |-> 0]
  /\ now = 0

-----------------------------------------------------------------------------
\* Steps of a call

Msg(c)     == frame[c].msg
At(c, s)   == pc[c] = s
Goto(c, s) == pc' = [pc EXCEPT ![c] = s]

\* The call has decided what becomes of the message and goes on to store it.
Conclude(c, status) ==
  /\ Goto(c, "finish")
  /\ frame' = [frame EXCEPT ![c].status = status]

\* A caller enters process; reserve reads the clock before it inserts.
Process(c, m) ==
  /\ At(c, "idle")
  /\ Goto(c, "reserve")
  /\ frame' = [frame EXCEPT ![c] = [Idle EXCEPT !.msg = m, !.clock = now]]
  /\ UNCHANGED <<messages, exchange, printed, now>>

\* (Mutant: INSERT OR REPLACE.)
InsertsAlways(m) == TRUE

\* INSERT ... ON CONFLICT(msg_id) DO NOTHING reports one affected row.
Inserts(m) == ~Stored(m)

Reserve(c) ==
  /\ At(c, "reserve")
  /\ Goto(c, "get")
  /\ frame' = [frame EXCEPT ![c].created = Inserts(Msg(c))]
  /\ messages' = IF Inserts(Msg(c))
                 THEN [messages EXCEPT ![Msg(c)] =
                         [status |-> "received", created_at |-> frame[c].clock]]
                 ELSE messages
  /\ UNCHANGED <<exchange, printed, now>>

\* The SELECT of reserve found the row of an earlier call: return its status.
ReturnPrevious(c) ==
  /\ At(c, "get")
  /\ ~frame[c].created
  /\ Goto(c, "returned")
  /\ frame' = [frame EXCEPT ![c].status = messages[Msg(c)].status]
  /\ UNCHANGED <<messages, exchange, printed, now>>

\* The SELECT of reserve, then the whitelist; the rate limit reads the clock
\* before it queries.
CheckPermission(c) ==
  /\ At(c, "get")
  /\ frame[c].created
  /\ IF UserOf[Msg(c)] \in AllowedExternalUsers
     THEN /\ Goto(c, "count")
          /\ frame' = [frame EXCEPT ![c].clock = now]
     ELSE Conclude(c, "rejected")
  /\ UNCHANGED <<messages, exchange, printed, now>>

\* (Mutant: only messages that have been printed count.)
RecentAccepted(user, since) ==
  {m \in MsgIDs : messages[m].status = "accepted" /\ UserOf[m] = user
                  /\ messages[m].created_at >= since}

\* The rows countRecentForUser counts.
RecentRows(user, since) ==
  {m \in MsgIDs : Stored(m) /\ UserOf[m] = user /\ messages[m].created_at >= since}

CountRecent(c) ==
  /\ At(c, "count")
  /\ IF Cardinality(RecentRows(UserOf[Msg(c)], frame[c].clock - RateLimitWindowMS))
          > RateLimitCount
     THEN Conclude(c, "rejected")
     ELSE Goto(c, "downloading") /\ UNCHANGED frame
  /\ UNCHANGED <<messages, exchange, printed, now>>

\* UPDATE messages SET status WHERE msg_id, an error if there is no such row.
Transition(m, status) ==
  /\ Stored(m)
  /\ messages' = [messages EXCEPT ![m].status = status]

Enter(c, status, next) ==
  /\ At(c, status)
  /\ Transition(Msg(c), status)
  /\ Goto(c, next)
  /\ UNCHANGED <<frame, exchange, printed, now>>

StartDownload(c) == Enter(c, "downloading", "load")
StartValidate(c) == Enter(c, "validating", "validate")
StartSubmit(c)   == Enter(c, "submitting", "submit")

\* LoadFiles and validateFile succeed, or their error rejects the message.
CheckFile(c, step, next) ==
  /\ At(c, step)
  /\ \/ Goto(c, next) /\ UNCHANGED frame
     \/ Conclude(c, "rejected")
  /\ UNCHANGED <<messages, exchange, printed, now>>

Load(c)     == CheckFile(c, "load", "validating")
Validate(c) == CheckFile(c, "validate", "submitting")

\* cups.submit posts the file ...
Submit(c) ==
  /\ At(c, "submit")
  /\ Goto(c, "await")
  /\ exchange' = [exchange EXCEPT ![Msg(c)] = "sent"]
  /\ UNCHANGED <<messages, frame, printed, now>>

\* (Mutants: a 5xx taken for success, a 5xx stored under a status of its own, a
\* broken connection taken for a refusal.)
FaultAccepts(answer) == IF answer = "refusal" THEN "rejected" ELSE "accepted"
FaultUnknown(answer) ==
  CASE answer = "job" -> "accepted" [] answer = "refusal" -> "rejected" [] answer = "fault" -> "fault"
NoAnswerRejects == "rejected"

\* ... and judges the answer, if it gets to read one before the connection
\* breaks or RequestTimeoutMS is over.
Verdict(answer) ==
  CASE answer = "job"     -> "accepted"
    [] answer = "refusal" -> "rejected"
    [] answer = "fault"   -> "uncertain"
NoAnswerVerdict == "uncertain"

ReadAnswer(c) ==
  /\ At(c, "await")
  /\ exchange[Msg(c)] \in Answers
  /\ Conclude(c, Verdict(exchange[Msg(c)]))
  /\ UNCHANGED <<messages, exchange, printed, now>>

GiveUp(c) ==
  /\ At(c, "await")
  /\ Conclude(c, NoAnswerVerdict)
  /\ UNCHANGED <<messages, exchange, printed, now>>

\* store.transition with the final status.
Finish(c) ==
  /\ At(c, "finish")
  /\ Transition(Msg(c), frame[c].status)
  /\ Goto(c, "returned")
  /\ UNCHANGED <<frame, exchange, printed, now>>

\* A SQL statement returns an error, and process returns it at once.
StoreFails(c) ==
  /\ StoreMayFail
  /\ pc[c] \in StoreSteps
  /\ Goto(c, "failed")
  /\ UNCHANGED <<messages, frame, exchange, printed, now>>

\* The caller has taken the result.
Leave(c) ==
  /\ pc[c] \in {"returned", "failed"}
  /\ Goto(c, "idle")
  /\ frame' = [frame EXCEPT ![c] = Idle]
  /\ UNCHANGED <<messages, exchange, printed, now>>

Step(c) ==
  \/ Reserve(c) \/ ReturnPrevious(c) \/ CheckPermission(c) \/ CountRecent(c)
  \/ StartDownload(c) \/ Load(c) \/ StartValidate(c) \/ Validate(c)
  \/ StartSubmit(c) \/ Submit(c) \/ ReadAnswer(c) \/ GiveUp(c) \/ Finish(c)
  \/ StoreFails(c) \/ Leave(c)

-----------------------------------------------------------------------------
\* The environment: cups-web, the process supervisor, the clock

CupsTakes(m) ==
  /\ exchange[m] = "sent"
  /\ printed' = [printed EXCEPT ![m] = @ + 1]
  /\ \E a \in {"job", "fault"} : exchange' = [exchange EXCEPT ![m] = a]
  /\ UNCHANGED <<messages, pc, frame, now>>

CupsRefuses(m) ==
  /\ exchange[m] = "sent"
  /\ \E a \in {"refusal", "fault"} : exchange' = [exchange EXCEPT ![m] = a]
  /\ UNCHANGED <<messages, pc, frame, printed, now>>

\* (Mutants: the recovery without its WHERE clause, and with one status missing
\* from it.)
RecoverAll(row) == IF row.status # "none" THEN [row EXCEPT !.status = "uncertain"] ELSE row
RecoverUnposted(row) ==
  IF row.status \in InFlight \ {"submitting"} THEN [row EXCEPT !.status = "uncertain"] ELSE row

\* The program dies with everything in its memory; the next one opens the
\* database, and newStore settles the rows the dead one was working on before
\* anything else runs.
Recovered(row) ==
  IF row.status \in InFlight THEN [row EXCEPT !.status = "uncertain"] ELSE row

Restart ==
  /\ messages' = [m \in MsgIDs |-> Recovered(messages[m])]
  /\ pc' = [c \in Calls |-> "idle"]
  /\ frame' = [c \in Calls |-> Idle]
  /\ UNCHANGED <<exchange, printed, now>>

Tick ==
  /\ now < MaxMillis
  /\ now' = now + 1
  /\ UNCHANGED <<messages, pc, frame, exchange, printed>>

Next ==
  \/ \E c \in Calls : Step(c) \/ \E m \in MsgIDs : Process(c, m)
  \/ \E m \in MsgIDs : CupsTakes(m) \/ CupsRefuses(m)
  \/ Restart
  \/ Tick

Spec == Init /\ [][Next]_vars

\* Every goroutine keeps running, and every exchange ends: the HTTP clients
\* carry a timeout.  Nothing is assumed of callers, cups-web or the clock.
FairSpec == Spec /\ \A c \in Calls : WF_vars(Step(c))

-----------------------------------------------------------------------------
\* Properties

\* Types, and that frame names the message of every call that is running.
TypeOK ==
  /\ messages \in [MsgIDs -> [status : Statuses, created_at : Nat]]
  /\ pc \in [Calls -> Steps]
  /\ frame \in [Calls -> Frame]
  /\ exchange \in [MsgIDs -> Exchanges]
  /\ printed \in [MsgIDs -> Nat]
  /\ now \in Nat
  /\ \A c \in Calls : pc[c] # "idle" => frame[c].msg \in MsgIDs

\* cups-web is never made to queue the same message twice, however often the
\* message is delivered, whoever else is working on it, and wherever the
\* program is killed (the row that reserve inserts before anything else).
AtMostOnePrint == \A m \in MsgIDs : printed[m] <= 1

\* A message recorded as rejected ("not submitted") has not been queued, and no
\* request about it is under way that could still queue it (rejectForGateway,
\* the order of the checks, and the verdict on a broken connection).
RejectedNeverPrints ==
  \A m \in MsgIDs :
    messages[m].status = "rejected" => printed[m] = 0 /\ exchange[m] # "sent"

\* A message recorded as accepted has been queued (the answers submit reads).
AcceptedWasPrinted ==
  \A m \in MsgIDs : messages[m].status = "accepted" => printed[m] = 1

\* At any moment, at most RATE_LIMIT_COUNT of the messages a user sent in the
\* last window have been posted to cups-web, although count and reservation of
\* concurrent calls interleave (reserve before countRecentForUser).
RateLimited ==
  \A u \in Users :
    Cardinality({m \in RecentRows(u, now - RateLimitWindowMS) : exchange[m] # "none"})
      <= RateLimitCount

\* The status of a row only moves forward, one documented step at a time or to a
\* final status, and a final status is never revised, not by a restart either.
Forward(from, to) ==
  \/ from = to
  \/ <<from, to>> \in {<<"none", "received">>, <<"received", "downloading">>,
                       <<"downloading", "validating">>, <<"validating", "submitting">>,
                       <<"submitting", "accepted">>}
  \/ from \in InFlight /\ to \in {"rejected", "uncertain"}
StatusMovesForward ==
  [][\A m \in MsgIDs : Forward(messages[m].status, messages'[m].status)]_messages

\* Every message that has a row gets a final status in the end, if the database
\* works: through the call that reserved it or through the next restart.
Settles ==
  \A m \in MsgIDs : messages[m].status \in InFlight ~> messages[m].status \in Final

\* process keeps the promise: an unfinished row is an open verdict.
Promise == INSTANCE PrintPromise WITH
  paper   <- printed,
  verdict <- [m \in MsgIDs |-> IF messages[m].status \in Final
                               THEN messages[m].status ELSE "open"]
KeepsPromise == Promise!Spec

=============================================================================
