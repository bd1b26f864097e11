---------------------------- MODULE PrintJobsProofs ----------------------------
(***************************************************************************)
(* Proofs about PrintJobs, for any batches and contents, any customers and *)
(* any number of failures and restarts.                                    *)
(*                                                                         *)
(* That no customer hears two outcomes rests on finishJob: a poll notes a  *)
(* job only if it has just taken it from "submitted", and nothing takes a  *)
(* job back there, because trackPrintJob comes once for each content, and  *)
(* before any outcome.                                                     *)
(***************************************************************************)
EXTENDS PrintJobs, FiniteSetTheorems, TLAPS

HandlerSteps == {"process", "track", "history", "receipt", "done"}
PollSteps    == {"idle", "enter", "list", "check", "finish", "history", "leave"}
Notes        == [job : Messages, kind : Kinds]

Polled == [at : PollSteps, jobs : SUBSET Messages, job : Messages \cup {"none"},
           kind : Kinds \cup {"none"}, notes : SUBSET Notes]

Types ==
  /\ result \in [Messages -> {"none", "accepted", "other", "error"}]
  /\ tracked \in [Messages -> Statuses]
  /\ history \in [Messages -> Statuses]
  /\ jobState \in [Messages -> {0} \cup 3 .. 9]
  /\ forgotten \subseteq Messages /\ overdue \subseteq Messages
  /\ polling \in BOOLEAN
  /\ handler \in [Batches -> [at : HandlerSteps, item : Nat]]
  /\ \A b \in Batches : handler[b].item \in DOMAIN Contents[b]
  /\ poll \in [Pollers -> Polled]
  /\ \A p \in Pollers :
       poll[p].at \in {"finish", "history"} => poll[p].job \in Messages /\ poll[p].kind \in Kinds
  /\ receipts \subseteq [kind : Kinds \cup {"submitted"}, jobs : SUBSET Messages]
  /\ failures \in 0 .. MaxFailures

\* The contents that have not been tracked yet and may still be.
Ahead(b, i) ==
  \/ i > handler[b].item
  \/ i = handler[b].item /\ handler[b].at \in {"process", "track"}

NotYetTracked ==
  \A b \in Batches : \A i \in DOMAIN Contents[b] : Ahead(b, i) => tracked[Contents[b][i]] = "none"

\* The poll of a batch starts when its handler has ended.
OwnPollAfter == \A b \in Batches : handler[b].at # "done" => poll[b].at = "idle"

\* An outcome that CUPS has reported, if it is one of those it reports.
Reported(m, kind) ==
  /\ kind = "completed" => jobState[m] = 9
  /\ kind = "failed" => jobState[m] \in {7, 8}

\* No customer has been told the outcome of m.
Untold(m) == \A r \in receipts : r.kind \in Kinds => m \notin r.jobs

\* What a poll has at hand: nothing until it has listed the jobs; then tracked jobs,
\* one of them with an outcome, and notes of outcomes that are untold.
AtHand(p) ==
  /\ poll[p].at \notin {"check", "finish", "history"} => poll[p].jobs = {} /\ poll[p].notes = {}
  /\ \A m \in poll[p].jobs : tracked[m] # "none"
  /\ poll[p].at = "finish" =>
       tracked[poll[p].job] # "none" /\ Reported(poll[p].job, poll[p].kind)
  /\ poll[p].at = "history" =>
       tracked[poll[p].job] = poll[p].kind /\ Untold(poll[p].job)
  /\ \A n \in poll[p].notes : tracked[n.job] = n.kind /\ Untold(n.job)

\* One receipt at most tells of a job, as the tables have it.
ToldOnce ==
  /\ \A r, s \in receipts :
       r.kind \in Kinds /\ s.kind \in Kinds /\ r.jobs \cap s.jobs # {} => r = s
  /\ \A r \in receipts : r.kind \in Kinds => \A m \in r.jobs : tracked[m] = r.kind
  /\ \A m \in Messages : history[m] \in Kinds => history[m] = tracked[m]

JobsInv ==
  /\ Types
  /\ NotYetTracked /\ OwnPollAfter
  /\ OnePoll
  /\ \A p \in Pollers : AtHand(p)
  /\ OutcomeIsTrue
  /\ ToldOnce

-----------------------------------------------------------------------------
\* handleMenu

LEMMA ItemIsMessage ==
  ASSUME Types, NEW b \in Batches
  PROVE  /\ Item(b) \in Messages /\ handler[b].item \in DOMAIN Contents[b]
         /\ DOMAIN Contents[b] = 1 .. Len(Contents[b]) /\ Len(Contents[b]) \in Nat
BY JobsAssumption DEF Types, Item, Messages

\* What the handler of b may do to its place.
HandlerMoves(b) ==
  /\ handler' \in [Batches -> [at : HandlerSteps, item : Nat]]
  /\ \A d \in Batches \ {b} : handler'[d] = handler[d]
  /\ handler'[b].item \in DOMAIN Contents[b]

LEMMA OnwardMoves ==
  ASSUME Types, NEW b \in Batches, Onward(b)
  PROVE  /\ HandlerMoves(b)
         /\ \A i \in DOMAIN Contents[b] : Ahead(b, i)' => i > handler[b].item
<1>0. /\ handler \in [Batches -> [at : HandlerSteps, item : Nat]]
      /\ \A d \in Batches : handler[d].item \in DOMAIN Contents[d]
  BY DEF Types
<1>1. CASE HasNext(b)
  <2>1. handler' = [handler EXCEPT ![b] = [at |-> "process", item |-> handler[b].item + 1]]
    BY <1>1 DEF Onward
  <2>2. handler[b].item + 1 \in DOMAIN Contents[b] /\ handler[b].item + 1 \in Nat
    BY <1>1, ItemIsMessage DEF HasNext
  <2>3. handler'[b].item = handler[b].item + 1 /\ handler[b].item \in Nat
    BY <1>0, <2>1
  <2> QED BY <1>0, <2>1, <2>2, <2>3, ItemIsMessage DEF HandlerMoves, Ahead, HandlerSteps
<1>2. CASE ~HasNext(b)
  <2>1. handler' = [handler EXCEPT ![b].at = "receipt"]
    BY <1>2 DEF Onward
  <2>2. handler'[b].item = handler[b].item /\ handler'[b].at = "receipt"
    BY <1>0, <2>1
  <2> QED BY <1>0, <2>1, <2>2 DEF HandlerMoves, Ahead, HandlerSteps
<1> QED BY <1>1, <1>2

LEMMA GoOnMoves ==
  ASSUME Types, NEW b \in Batches, NEW s \in HandlerSteps, GoOn(b, s)
  PROVE  HandlerMoves(b) /\ handler'[b].at = s /\ handler'[b].item = handler[b].item
BY DEF Types, GoOn, HandlerMoves

\* A handler that tracks nothing, in a place whose content is not tracked.
LEMMA ProcessKeepsInv ==
  ASSUME JobsInv, NEW b \in Batches, Process(b)
  PROVE  JobsInv'
<1>0. /\ Types /\ NotYetTracked /\ OwnPollAfter /\ handler[b].at = "process"
      /\ UNCHANGED <<tracked, history, forgotten, overdue, polling, poll, receipts>>
      /\ Item(b) \in Messages
  BY ItemIsMessage DEF JobsInv, Process
<1>1. HandlerMoves(b) /\ \A i \in DOMAIN Contents[b] : Ahead(b, i)' => Ahead(b, i)
  <2>1. \/ Onward(b)
        \/ \E s \in {"track", "done"} : GoOn(b, s)
    BY DEF Process
  <2>2. CASE Onward(b)
    BY <1>0, <2>2, OnwardMoves DEF Ahead
  <2>3. CASE \E s \in {"track", "done"} : GoOn(b, s)
    BY <1>0, <2>3, GoOnMoves DEF Ahead, HandlerSteps
  <2> QED BY <2>1, <2>2, <2>3
<1>2. /\ result' \in [Messages -> {"none", "accepted", "other", "error"}]
      /\ jobState' \in [Messages -> {0} \cup 3 .. 9]
      /\ \A m \in Messages : m # Item(b) => jobState'[m] = jobState[m]
      /\ failures' \in 0 .. MaxFailures
  BY <1>0, JobsAssumption DEF Process, Types, Failure
<1>3. tracked[Item(b)] = "none"
  BY <1>0, ItemIsMessage DEF NotYetTracked, Ahead, Item
<1>4. Types'
  BY <1>0, <1>1, <1>2 DEF Types, HandlerMoves
<1>5. NotYetTracked'
  <2> SUFFICES ASSUME NEW d \in Batches, NEW i \in DOMAIN Contents[d], Ahead(d, i)'
               PROVE  tracked[Contents[d][i]] = "none"
    BY <1>0 DEF NotYetTracked
  <2>1. Ahead(d, i)
    BY <1>1 DEF HandlerMoves, Ahead
  <2> QED BY <1>0, <2>1 DEF NotYetTracked
<1>6. OwnPollAfter'
  BY <1>0, <1>1 DEF OwnPollAfter, HandlerMoves
<1>7. OnePoll'
  BY <1>0 DEF JobsInv, OnePoll, Polls
<1>8. ASSUME NEW p \in Pollers PROVE AtHand(p)'
  <2>1. AtHand(p) /\ (poll[p].at = "finish" => poll[p].job \in Messages)
    BY DEF JobsInv, Types
  <2>2. poll[p].at = "finish" => Reported(poll[p].job, poll[p].kind)'
    BY <1>0, <1>2, <1>3, <2>1 DEF AtHand, Reported
  <2> QED BY <1>0, <2>1, <2>2 DEF AtHand, Untold
<1>9. OutcomeIsTrue'
  BY <1>0, <1>2, <1>3 DEF JobsInv, OutcomeIsTrue
<1>10. ToldOnce'
  BY <1>0 DEF JobsInv, ToldOnce
<1> QED BY <1>4, <1>5, <1>6, <1>7, <1>8, <1>9, <1>10 DEF JobsInv

\* trackPrintJob comes once for each content, before any outcome of it.
LEMMA TrackKeepsInv ==
  ASSUME JobsInv, NEW b \in Batches, TrackPrintJob(b)
  PROVE  JobsInv'
<1>0. /\ Types /\ NotYetTracked /\ OwnPollAfter /\ handler[b].at = "track"
      /\ UNCHANGED <<result, history, jobState, forgotten, overdue, polling, poll, receipts>>
      /\ Item(b) \in Messages
  BY ItemIsMessage DEF JobsInv, TrackPrintJob
<1>1. HandlerMoves(b) /\ handler'[b].at = "history" /\ handler'[b].item = handler[b].item
  BY <1>0, GoOnMoves DEF TrackPrintJob, HandlerSteps
<1>2. /\ tracked' \in [Messages -> Statuses] /\ failures' \in 0 .. MaxFailures
      /\ \A m \in Messages : m # Item(b) => tracked'[m] = tracked[m]
      /\ tracked'[Item(b)] \in {"none", "submitted"}
      /\ tracked[Item(b)] = "none"
  <2>1. tracked[Item(b)] = "none"
    BY <1>0, ItemIsMessage DEF NotYetTracked, Ahead, Item
  <2> QED BY <1>0, <2>1, JobsAssumption DEF TrackPrintJob, MessageID, Types, Statuses, Failure
<1>3. \A m \in Messages : tracked[m] # "none" => tracked'[m] = tracked[m]
  BY <1>2
<1>4. Types'
  BY <1>0, <1>1, <1>2 DEF Types, HandlerMoves
<1>5. NotYetTracked'
  <2> SUFFICES ASSUME NEW d \in Batches, NEW i \in DOMAIN Contents[d], Ahead(d, i)'
               PROVE  tracked'[Contents[d][i]] = "none"
    BY DEF NotYetTracked
  <2>1. Ahead(d, i) /\ (d = b => i > handler[b].item)
    BY <1>1 DEF HandlerMoves, Ahead
  <2>2. Contents[d][i] # Item(b)
    <3>1. handler[b].item \in DOMAIN Contents[b] /\ Item(b) = Contents[b][handler[b].item]
      BY <1>0, ItemIsMessage DEF Item
    <3>2. ~(d = b /\ i = handler[b].item)
      BY <1>0, <2>1, <3>1, ItemIsMessage
    <3> QED BY <3>1, <3>2, JobsAssumption
  <2>3. Contents[d][i] \in Messages
    BY DEF Messages
  <2> QED BY <1>0, <1>2, <2>1, <2>2, <2>3 DEF NotYetTracked
<1>6. OwnPollAfter'
  BY <1>0, <1>1 DEF OwnPollAfter, HandlerMoves
<1>7. OnePoll'
  BY <1>0 DEF JobsInv, OnePoll, Polls
<1>8. ASSUME NEW p \in Pollers PROVE AtHand(p)'
  <2>1. /\ AtHand(p) /\ poll[p].jobs \subseteq Messages
        /\ \A n \in poll[p].notes : n.job \in Messages /\ n.kind # "none"
        /\ poll[p].at \in {"finish", "history"} =>
             poll[p].job \in Messages /\ poll[p].kind # "none"
    BY DEF JobsInv, Types, Polled, Notes, Kinds
  <2> QED BY <1>0, <1>3, <2>1 DEF AtHand, Untold, Reported
<1>9. OutcomeIsTrue'
  BY <1>0, <1>2, <1>3 DEF JobsInv, OutcomeIsTrue
<1>10. ToldOnce'
  <2>1. \A r \in receipts : r.kind \in Kinds => \A m \in r.jobs : m \in Messages /\ tracked[m] # "none"
    BY <1>0 DEF JobsInv, ToldOnce, Types, Kinds
  <2>2. \A m \in Messages : history[m] \in Kinds => tracked[m] # "none"
    BY DEF JobsInv, ToldOnce, Kinds
  <2> QED BY <1>0, <1>3, <2>1, <2>2 DEF JobsInv, ToldOnce
<1> QED BY <1>4, <1>5, <1>6, <1>7, <1>8, <1>9, <1>10 DEF JobsInv

LEMMA HistoryKeepsInv ==
  ASSUME JobsInv, NEW b \in Batches, AddPrintHistory(b)
  PROVE  JobsInv'
<1>0. /\ Types /\ NotYetTracked /\ OwnPollAfter /\ handler[b].at = "history"
      /\ UNCHANGED <<result, tracked, jobState, forgotten, overdue, polling, poll, receipts>>
      /\ Item(b) \in Messages
  BY ItemIsMessage DEF JobsInv, AddPrintHistory
<1>1. HandlerMoves(b) /\ \A i \in DOMAIN Contents[b] : Ahead(b, i)' => i > handler[b].item
  BY <1>0, OnwardMoves DEF AddPrintHistory
<1>2. /\ history' \in [Messages -> Statuses] /\ failures' \in 0 .. MaxFailures
      /\ \A m \in Messages : history'[m] \in {history[m], "submitted"}
  BY <1>0, JobsAssumption DEF AddPrintHistory, MessageID, Types, Statuses, Failure
<1>4. Types'
  BY <1>0, <1>1, <1>2 DEF Types, HandlerMoves
<1>5. NotYetTracked'
  <2> SUFFICES ASSUME NEW d \in Batches, NEW i \in DOMAIN Contents[d], Ahead(d, i)'
               PROVE  tracked[Contents[d][i]] = "none"
    BY <1>0 DEF NotYetTracked
  <2>1. Ahead(d, i)
    BY <1>1 DEF HandlerMoves, Ahead
  <2> QED BY <1>0, <2>1 DEF NotYetTracked
<1>6. OwnPollAfter'
  BY <1>0, <1>1 DEF OwnPollAfter, HandlerMoves
<1>7. OnePoll'
  BY <1>0 DEF JobsInv, OnePoll, Polls
<1>8. ASSUME NEW p \in Pollers PROVE AtHand(p)'
  BY <1>0 DEF JobsInv, AtHand, Untold, Reported
<1>9. OutcomeIsTrue'
  BY <1>0 DEF JobsInv, OutcomeIsTrue
<1>10. ToldOnce'
  BY <1>0, <1>2 DEF JobsInv, ToldOnce, Kinds
<1> QED BY <1>4, <1>5, <1>6, <1>7, <1>8, <1>9, <1>10 DEF JobsInv

\* The receipt of a batch tells no outcome; its poll starts with empty hands.
LEMMA ReceiptKeepsInv ==
  ASSUME JobsInv, NEW b \in Batches, SendReceipt(b)
  PROVE  JobsInv'
<1>0. /\ Types /\ NotYetTracked /\ OwnPollAfter /\ handler[b].at = "receipt"
      /\ UNCHANGED <<result, tracked, history, jobState, forgotten, overdue, polling>>
      /\ b \in Pollers
  BY DEF JobsInv, SendReceipt, Pollers
<1>1. HandlerMoves(b) /\ handler'[b].at = "done" /\ handler'[b].item = handler[b].item
  BY <1>0, GoOnMoves DEF SendReceipt, HandlerSteps
<1>2. poll[b].at = "idle" /\ poll \in [Pollers -> Polled]
  BY <1>0 DEF OwnPollAfter, Types
<1>3. \/ poll' = poll
      \/ poll' = [poll EXCEPT ![b] = [Idle EXCEPT !.at = "enter"]]
  <2>1. CASE Submitted(b) # {}
    BY <2>1 DEF SendReceipt
  <2>2. CASE Submitted(b) = {}
    BY <1>0, <1>2, <2>2 DEF SendReceipt
  <2> QED BY <2>1, <2>2
<1>4. /\ poll' \in [Pollers -> Polled]
      /\ \A p \in Pollers \ {b} : poll'[p] = poll[p]
      /\ poll'[b].at \in {"idle", "enter"} /\ poll'[b].jobs = {} /\ poll'[b].notes = {}
  <2>1. CASE poll' = poll
    BY <1>0, <1>2, <2>1 DEF JobsInv, AtHand
  <2>2. CASE poll' = [poll EXCEPT ![b] = [Idle EXCEPT !.at = "enter"]]
    <3>1. [Idle EXCEPT !.at = "enter"]
          = [at |-> "enter", jobs |-> {}, job |-> "none", kind |-> "none", notes |-> {}]
      BY DEF Idle
    <3>2. [Idle EXCEPT !.at = "enter"] \in Polled
      BY <3>1 DEF Polled, PollSteps
    <3> QED BY <1>0, <1>2, <2>2, <3>1, <3>2
  <2> QED BY <1>3, <2>1, <2>2
<1>5. \E j \in SUBSET Messages :
        receipts' \in {receipts, receipts \cup {[kind |-> "submitted", jobs |-> j]}}
  <2>1. Submitted(b) \in SUBSET Messages
    BY DEF Submitted
  <2> QED BY <2>1 DEF SendReceipt, Deliver
<1>6. /\ receipts' \subseteq [kind : Kinds \cup {"submitted"}, jobs : SUBSET Messages]
      /\ \A r \in receipts' : r.kind \in Kinds => r \in receipts
  BY <1>0, <1>5 DEF Types, Kinds
<1>7. failures' \in 0 .. MaxFailures
  BY <1>0, JobsAssumption DEF SendReceipt, Types, Failure
<1>8. Types'
  BY <1>0, <1>1, <1>4, <1>6, <1>7 DEF Types, HandlerMoves
<1>9. NotYetTracked'
  BY <1>0, <1>1 DEF NotYetTracked, HandlerMoves, Ahead
<1>10. OwnPollAfter'
  BY <1>0, <1>1, <1>4 DEF OwnPollAfter, HandlerMoves, Pollers
<1>11. OnePoll'
  BY <1>0, <1>2, <1>4 DEF JobsInv, OnePoll, Polls
<1>12. ASSUME NEW p \in Pollers PROVE AtHand(p)'
  <2>1. CASE p = b
    BY <1>4, <2>1 DEF AtHand
  <2>2. CASE p # b
    BY <1>0, <1>4, <1>6, <2>2 DEF JobsInv, AtHand, Untold, Reported
  <2> QED BY <2>1, <2>2
<1>13. OutcomeIsTrue'
  BY <1>0 DEF JobsInv, OutcomeIsTrue
<1>14. ToldOnce'
  BY <1>0, <1>6 DEF JobsInv, ToldOnce
<1> QED BY <1>8, <1>9, <1>10, <1>11, <1>12, <1>13, <1>14 DEF JobsInv

-----------------------------------------------------------------------------
\* pollPrintJobs

\* What a step of a poll leaves alone.
PollMoves(p) ==
  /\ UNCHANGED <<result, jobState, forgotten, overdue, handler>>
  /\ poll' \in [Pollers -> Polled]
  /\ \A q \in Pollers \ {p} : poll'[q] = poll[q]
  /\ poll'[p].at \in {"finish", "history"} => poll'[p].job \in Messages /\ poll'[p].kind \in Kinds
  /\ failures' \in 0 .. MaxFailures

\* A poll that moves has started, so what the handlers know of it stands.
LEMMA PollersAndHandlers ==
  ASSUME JobsInv, NEW p \in Pollers, PollMoves(p), poll[p].at # "idle",
         \A m \in Messages : tracked[m] = "none" => tracked'[m] = "none"
  PROVE  NotYetTracked' /\ OwnPollAfter'
<1>1. NotYetTracked'
  <2> SUFFICES ASSUME NEW d \in Batches, NEW i \in DOMAIN Contents[d], Ahead(d, i)'
               PROVE  tracked'[Contents[d][i]] = "none"
    BY DEF NotYetTracked
  <2>1. Ahead(d, i) /\ Contents[d][i] \in Messages
    BY DEF PollMoves, Ahead, Messages
  <2> QED BY <2>1 DEF JobsInv, NotYetTracked
<1>2. OwnPollAfter'
  BY DEF JobsInv, OwnPollAfter, PollMoves, Pollers
<1> QED BY <1>1, <1>2

\* Another poll than the one that runs has empty hands.
LEMMA OthersRest ==
  ASSUME JobsInv, NEW p \in Pollers, PollMoves(p), Polls(p),
         NEW q \in Pollers, q # p
  PROVE  AtHand(q)'
BY DEF JobsInv, OnePoll, Polls, PollMoves, AtHand

\* A poll that goes on keeps the flag.
LEMMA StillOnePoll ==
  ASSUME JobsInv, NEW p \in Pollers, PollMoves(p), Polls(p), Polls(p)', polling' = polling
  PROVE  OnePoll'
BY DEF JobsInv, OnePoll, Polls, PollMoves

\* A step of a poll that changes neither tables nor receipts.
LEMMA QuietPollKeepsInv ==
  ASSUME JobsInv, NEW p \in Pollers, PollMoves(p), poll[p].at # "idle",
         UNCHANGED <<tracked, history, receipts>>, polling' \in BOOLEAN,
         OnePoll', \A q \in Pollers : AtHand(q)'
  PROVE  JobsInv'
<1>1. Types'
  <2>1. \A q \in Pollers :
          poll'[q].at \in {"finish", "history"} => poll'[q].job \in Messages /\ poll'[q].kind \in Kinds
    BY DEF JobsInv, Types, PollMoves
  <2> QED BY <2>1 DEF JobsInv, Types, PollMoves
<1>2. NotYetTracked' /\ OwnPollAfter'
  BY PollersAndHandlers
<1>3. OutcomeIsTrue' /\ ToldOnce'
  BY DEF JobsInv, PollMoves, OutcomeIsTrue, ToldOnce
<1> QED BY <1>1, <1>2, <1>3 DEF JobsInv

LEMMA EnterKeepsInv ==
  ASSUME JobsInv, NEW p \in Pollers, Enter(p)
  PROVE  JobsInv'
<1>0. /\ poll \in [Pollers -> Polled] /\ polling \in BOOLEAN /\ poll[p].at = "enter"
      /\ UNCHANGED <<result, tracked, history, jobState, forgotten, overdue, handler, receipts,
                     failures>>
      /\ failures \in 0 .. MaxFailures
      /\ poll[p].jobs = {} /\ poll[p].notes = {}
  BY DEF JobsInv, Types, Enter, At, AtHand
<1>1. \/ ~polling /\ polling' = TRUE /\ PollOn(p, "list")
      \/ polling' = polling /\ PollOn(p, "idle")
  <2>1. CASE polling
    BY <2>1 DEF Enter, MayEnter
  <2>2. CASE ~polling
    BY <2>2 DEF Enter, MayEnter
  <2> QED BY <2>1, <2>2
<1>2. PollMoves(p) /\ poll'[p].at \in {"list", "idle"} /\ poll'[p].jobs = {} /\ poll'[p].notes = {}
  BY <1>0, <1>1 DEF PollOn, PollMoves, Polled, PollSteps
<1>3. OnePoll'
  <2>1. CASE ~polling /\ polling' = TRUE /\ PollOn(p, "list")
    <3>1. \A q \in Pollers : Polls(q)' <=> q = p
      BY <1>0, <1>2, <2>1 DEF JobsInv, OnePoll, Polls, PollMoves, PollOn
    <3> QED BY <2>1, <3>1 DEF OnePoll
  <2>2. CASE polling' = polling /\ PollOn(p, "idle")
    <3>1. \A q \in Pollers : Polls(q)' <=> Polls(q)
      BY <1>0, <1>2, <2>2 DEF Polls, PollMoves, PollOn
    <3> QED BY <2>2, <3>1 DEF JobsInv, OnePoll
  <2> QED BY <1>1, <2>1, <2>2
<1>4. ASSUME NEW q \in Pollers PROVE AtHand(q)'
  <2>1. CASE q = p
    BY <1>2, <2>1 DEF AtHand
  <2>2. CASE q # p
    BY <1>0, <1>2, <2>2 DEF JobsInv, AtHand, PollMoves, Untold, Reported
  <2> QED BY <2>1, <2>2
<1> QED BY <1>0, <1>1, <1>2, <1>3, <1>4, QuietPollKeepsInv

LEMMA NextJobFields ==
  ASSUME NEW jobs \in SUBSET Messages, NEW notes \in SUBSET Notes
  PROVE  /\ NextJob(jobs, notes) \in Polled
         /\ NextJob(jobs, notes).at = "check"
         /\ NextJob(jobs, notes).jobs = jobs /\ NextJob(jobs, notes).notes = notes
BY DEF NextJob, Polled, PollSteps

LEMMA ListKeepsInv ==
  ASSUME JobsInv, NEW p \in Pollers, ListSubmittedJobs(p)
  PROVE  JobsInv'
<1>0. /\ poll \in [Pollers -> Polled] /\ polling \in BOOLEAN /\ poll[p].at = "list"
      /\ UNCHANGED <<result, tracked, history, jobState, forgotten, overdue, polling, handler,
                     receipts>>
      /\ poll[p].notes = {} /\ poll[p].jobs = {}
  BY DEF JobsInv, Types, ListSubmittedJobs, At, AtHand
<1>1. failures' \in 0 .. MaxFailures
  BY JobsAssumption DEF JobsInv, Types, ListSubmittedJobs, Failure
<1>2. /\ poll' \in [Pollers -> Polled] /\ \A q \in Pollers \ {p} : poll'[q] = poll[q]
      /\ poll'[p].notes = {}
      /\ \/ poll'[p].at = "check" /\ poll'[p].jobs = {m \in Messages : Unfinished(m)}
         \/ poll'[p].at = "leave" /\ poll'[p].jobs = {}
  <2>1. CASE poll' = [poll EXCEPT ![p] = NextJob({m \in Messages : Unfinished(m)}, {})]
    BY <1>0, <2>1, NextJobFields
  <2>2. CASE PollOn(p, "leave")
    BY <1>0, <2>2 DEF PollOn, Polled, PollSteps
  <2> QED BY <2>1, <2>2 DEF ListSubmittedJobs
<1>3. PollMoves(p)
  BY <1>0, <1>1, <1>2 DEF PollMoves
<1>4. AtHand(p)'
  BY <1>0, <1>2 DEF AtHand, Unfinished
<1>5. Polls(p) /\ Polls(p)'
  BY <1>0, <1>2 DEF Polls
<1> QED BY <1>0, <1>3, <1>4, <1>5, StillOnePoll, OthersRest, QuietPollKeepsInv

\* What an answer of CUPS that ends a job says of it.
LEMMA OutcomeReported ==
  ASSUME Types, NEW m \in Messages, NEW s \in GetStatus(m), s \in Kinds
  PROVE  Reported(m, s)
<1>1. jobState[m] \in {0, 3, 4, 5, 6, 7, 8, 9}
  BY DEF Types
<1>2. ASSUME NEW n \in {0, 3, 4, 5, 6, 7, 8, 9}
      PROVE  /\ CupsJobState(n) = "completed" => n = 9
             /\ CupsJobState(n) = "failed" => n \in {7, 8}
  <2>1. CASE n \in {3, 4}
    BY <2>1 DEF CupsJobState
  <2>2. CASE n \in {5, 6}
    BY <2>2 DEF CupsJobState
  <2>3. CASE n \in {7, 8}
    BY <2>3 DEF CupsJobState
  <2>4. CASE n = 9
    BY <2>4 DEF CupsJobState
  <2>5. CASE n = 0
    BY <2>5 DEF CupsJobState
  <2> QED BY <1>2, <2>1, <2>2, <2>3, <2>4, <2>5
<1>3. s \in {"error", "unknown", CupsJobState(jobState[m])}
  BY DEF GetStatus
<1> QED BY <1>1, <1>2, <1>3 DEF Reported, Kinds

LEMMA CheckKeepsInv ==
  ASSUME JobsInv, NEW p \in Pollers, CheckJob(p)
  PROVE  JobsInv'
<1>0. /\ Types /\ poll \in [Pollers -> Polled] /\ polling \in BOOLEAN /\ poll[p].at = "check"
      /\ UNCHANGED <<result, tracked, history, jobState, forgotten, overdue, polling, handler,
                     receipts, failures>>
      /\ failures \in 0 .. MaxFailures
      /\ AtHand(p) /\ poll[p].jobs \subseteq Messages /\ poll[p].notes \subseteq Notes
  BY DEF JobsInv, Types, CheckJob, At, Polled
<1>1. PICK m \in poll[p].jobs :
        \E s \in IF Overdue(m) THEN {"timeout"} ELSE GetStatus(m) :
          poll' = [poll EXCEPT ![p] =
                     IF s \in Kinds
                     THEN [at |-> "finish", jobs |-> poll[p].jobs \ {m}, job |-> m, kind |-> s,
                           notes |-> poll[p].notes]
                     ELSE NextJob(poll[p].jobs \ {m}, poll[p].notes)]
  BY DEF CheckJob
<1>2. PICK s \in IF Overdue(m) THEN {"timeout"} ELSE GetStatus(m) :
        poll' = [poll EXCEPT ![p] =
                   IF s \in Kinds
                   THEN [at |-> "finish", jobs |-> poll[p].jobs \ {m}, job |-> m, kind |-> s,
                         notes |-> poll[p].notes]
                   ELSE NextJob(poll[p].jobs \ {m}, poll[p].notes)]
  BY <1>1
<1>3. m \in Messages /\ tracked[m] # "none"
  BY <1>0, <1>1 DEF AtHand
<1>4. s \in Kinds => Reported(m, s)
  <2>1. CASE Overdue(m)
    BY <1>2, <2>1 DEF Reported
  <2>2. CASE ~Overdue(m)
    BY <1>0, <1>2, <1>3, <2>2, OutcomeReported
  <2> QED BY <2>1, <2>2
<1> DEFINE j == poll[p].jobs \ {m}
<1>5. j \subseteq Messages /\ \A n \in j : tracked[n] # "none"
  BY <1>0 DEF AtHand
<1>6. /\ poll' \in [Pollers -> Polled] /\ \A q \in Pollers \ {p} : poll'[q] = poll[q]
      /\ poll'[p].jobs = j /\ poll'[p].notes = poll[p].notes
      /\ \/ poll'[p].at = "check"
         \/ poll'[p].at = "finish" /\ poll'[p].job = m /\ poll'[p].kind = s /\ s \in Kinds
  <2>1. CASE s \in Kinds
    <3> DEFINE r == [at |-> "finish", jobs |-> j, job |-> m, kind |-> s, notes |-> poll[p].notes]
    <3>1. poll' = [poll EXCEPT ![p] = r]
      BY <1>2, <2>1
    <3> HIDE DEF j
    <3>2. r \in Polled
      BY <1>0, <1>3, <1>5, <2>1 DEF Polled, PollSteps
    <3> QED BY <1>0, <2>1, <3>1, <3>2
  <2>2. CASE s \notin Kinds
    <3>1. poll' = [poll EXCEPT ![p] = NextJob(j, poll[p].notes)]
      BY <1>2, <2>2
    <3> HIDE DEF j
    <3> QED BY <1>0, <1>5, <3>1, NextJobFields
  <2> QED BY <2>1, <2>2
<1> HIDE DEF j
<1>7. PollMoves(p)
  BY <1>0, <1>3, <1>6 DEF PollMoves
<1>8. AtHand(p)'
  BY <1>0, <1>3, <1>4, <1>5, <1>6 DEF AtHand, Untold, Reported
<1>9. Polls(p) /\ Polls(p)'
  BY <1>0, <1>6 DEF Polls
<1> QED BY <1>0, <1>7, <1>8, <1>9, StillOnePoll, OthersRest, QuietPollKeepsInv

\* finishJob takes a job from "submitted" to its outcome, which nobody knows yet.
LEMMA FinishKeepsInv ==
  ASSUME JobsInv, NEW p \in Pollers, FinishJob(p)
  PROVE  JobsInv'
<1> DEFINE m == poll[p].job
           k == poll[p].kind
<1>0. /\ Types /\ poll \in [Pollers -> Polled] /\ polling \in BOOLEAN /\ poll[p].at = "finish"
      /\ UNCHANGED <<result, history, jobState, forgotten, overdue, polling, handler, receipts,
                     failures>>
      /\ failures \in 0 .. MaxFailures
      /\ AtHand(p) /\ m \in Messages /\ k \in Kinds /\ Polls(p)
      /\ tracked \in [Messages -> Statuses]
      /\ poll[p].jobs \subseteq Messages /\ poll[p].notes \subseteq Notes
  BY DEF JobsInv, Types, FinishJob, At, Polls, Polled
<1>1. CASE ~Unfinished(m)
  <2>1. poll' = [poll EXCEPT ![p] = NextJob(poll[p].jobs, poll[p].notes)] /\ tracked' = tracked
    BY <1>1 DEF FinishJob
  <2>2. /\ poll' \in [Pollers -> Polled] /\ \A q \in Pollers \ {p} : poll'[q] = poll[q]
        /\ poll'[p].at = "check" /\ poll'[p].jobs = poll[p].jobs /\ poll'[p].notes = poll[p].notes
    BY <1>0, <2>1, NextJobFields
  <2>3. PollMoves(p)
    BY <1>0, <2>2 DEF PollMoves
  <2>4. AtHand(p)' /\ Polls(p)'
    BY <1>0, <2>1, <2>2 DEF AtHand, Untold, Polls
  <2> QED BY <1>0, <2>1, <2>3, <2>4, StillOnePoll, OthersRest, QuietPollKeepsInv
<1>2. CASE Unfinished(m)
  <2>1. tracked' = [tracked EXCEPT ![m] = k] /\ PollOn(p, "history")
    BY <1>2 DEF FinishJob
  <2>2. /\ poll' \in [Pollers -> Polled] /\ \A q \in Pollers \ {p} : poll'[q] = poll[q]
        /\ poll'[p].at = "history" /\ poll'[p].jobs = poll[p].jobs
        /\ poll'[p].notes = poll[p].notes /\ poll'[p].job = m /\ poll'[p].kind = k
    BY <1>0, <2>1 DEF PollOn, Polled, PollSteps
  <2>3. /\ tracked' \in [Messages -> Statuses] /\ tracked'[m] = k /\ tracked[m] = "submitted"
        /\ \A n \in Messages : n # m => tracked'[n] = tracked[n]
        /\ k # "none" /\ k # "submitted"
    BY <1>0, <1>2, <2>1 DEF Unfinished, Statuses, Kinds
  <2> HIDE DEF m, k
  <2>4. PollMoves(p) /\ Polls(p)'
    BY <1>0, <2>2 DEF PollMoves, Polls
  <2>5. Untold(m)
    BY <2>3 DEF JobsInv, ToldOnce, Untold, Kinds
  <2>6. AtHand(p)'
    <3>1. \A n \in poll[p].notes : n.job \in Messages /\ tracked[n.job] = n.kind
                                    /\ n.kind # "submitted" /\ Untold(n.job)
      BY <1>0 DEF AtHand, Notes, Kinds
    <3>2. \A n \in poll[p].notes : tracked'[n.job] = n.kind
      BY <2>3, <3>1
    <3>3. \A n \in poll[p].jobs : tracked'[n] # "none"
      BY <1>0, <2>3 DEF AtHand
    <3> QED BY <1>0, <2>2, <2>3, <2>5, <3>1, <3>2, <3>3 DEF AtHand, Untold
  <2>7. Types'
    <3>1. \A q \in Pollers :
            poll'[q].at \in {"finish", "history"} => poll'[q].job \in Messages /\ poll'[q].kind \in Kinds
      BY <1>0, <2>2 DEF Types
    <3> QED BY <1>0, <2>2, <2>3, <3>1 DEF Types
  <2>8. NotYetTracked' /\ OwnPollAfter'
    BY <1>0, <2>3, <2>4, PollersAndHandlers
  <2>9. OutcomeIsTrue'
    <3>1. Reported(m, k)
      BY <1>0 DEF AtHand, m, k
    <3> QED BY <1>0, <2>3, <3>1 DEF JobsInv, OutcomeIsTrue, Reported
  <2>10. ToldOnce'
    <3>1. \A r \in receipts : r.kind \in Kinds => \A n \in r.jobs : n # m /\ n \in Messages
      BY <1>0, <2>5 DEF Untold, Types, JobsInv
    <3>2. history[m] \notin Kinds
      BY <1>0, <2>3 DEF JobsInv, ToldOnce, Kinds
    <3> QED BY <1>0, <2>3, <3>1, <3>2 DEF JobsInv, ToldOnce
  <2> QED BY <1>0, <2>4, <2>6, <2>7, <2>8, <2>9, <2>10, StillOnePoll, OthersRest DEF JobsInv
<1> QED BY <1>1, <1>2

LEMMA FinishHistoryKeepsInv ==
  ASSUME JobsInv, NEW p \in Pollers, FinishHistory(p)
  PROVE  JobsInv'
<1> DEFINE m == poll[p].job
           k == poll[p].kind
           n == poll[p].notes \cup {[job |-> m, kind |-> k]}
<1>0. /\ Types /\ poll \in [Pollers -> Polled] /\ polling \in BOOLEAN /\ poll[p].at = "history"
      /\ UNCHANGED <<result, tracked, jobState, forgotten, overdue, polling, handler, receipts>>
      /\ AtHand(p) /\ m \in Messages /\ k \in Kinds /\ Polls(p)
      /\ history \in [Messages -> Statuses]
      /\ poll[p].jobs \subseteq Messages /\ poll[p].notes \subseteq Notes
  BY DEF JobsInv, Types, FinishHistory, At, Polls, Polled
<1>1. /\ failures' \in 0 .. MaxFailures
      /\ history' \in [Messages -> Statuses]
      /\ \A o \in Messages : o # m => history'[o] = history[o]
      /\ history'[m] \in {history[m], k}
  BY <1>0, JobsAssumption DEF FinishHistory, Types, Failure, Statuses
<1>2. n \subseteq Notes
  BY <1>0 DEF Notes
<1>3. /\ poll' \in [Pollers -> Polled] /\ \A q \in Pollers \ {p} : poll'[q] = poll[q]
      /\ poll'[p].at = "check" /\ poll'[p].jobs = poll[p].jobs /\ poll'[p].notes = n
  <2>1. poll' = [poll EXCEPT ![p] = NextJob(poll[p].jobs, n)]
    BY DEF FinishHistory
  <2> HIDE DEF n
  <2> QED BY <1>0, <1>2, <2>1, NextJobFields
<1>4. PollMoves(p) /\ Polls(p)'
  BY <1>0, <1>1, <1>3 DEF PollMoves, Polls
<1>5. AtHand(p)'
  <2>1. tracked[m] = k /\ Untold(m)
    BY <1>0 DEF AtHand
  <2>2. \A o \in n : tracked[o.job] = o.kind /\ Untold(o.job)
    BY <1>0, <2>1 DEF AtHand
  <2>3. \A o \in poll[p].jobs : tracked[o] # "none"
    BY <1>0 DEF AtHand
  <2> HIDE DEF n
  <2> QED BY <1>0, <1>3, <2>2, <2>3 DEF AtHand, Untold
<1>6. Types'
  <2>1. \A q \in Pollers :
          poll'[q].at \in {"finish", "history"} => poll'[q].job \in Messages /\ poll'[q].kind \in Kinds
    BY <1>0, <1>3 DEF Types
  <2> QED BY <1>0, <1>1, <1>3, <2>1 DEF Types
<1>7. NotYetTracked' /\ OwnPollAfter'
  BY <1>0, <1>4, PollersAndHandlers
<1>8. OutcomeIsTrue'
  BY <1>0 DEF JobsInv, OutcomeIsTrue
<1>9. ToldOnce'
  <2>1. tracked[m] = k
    BY <1>0 DEF AtHand
  <2> HIDE DEF m, k
  <2> QED BY <1>0, <1>1, <2>1 DEF JobsInv, ToldOnce
<1> QED BY <1>0, <1>4, <1>5, <1>6, <1>7, <1>8, <1>9, StillOnePoll, OthersRest DEF JobsInv

\* A receipt takes its jobs from the notes: they are not told of again.
LEMMA NotifyKeepsInv ==
  ASSUME JobsInv, NEW p \in Pollers, Notify(p)
  PROVE  JobsInv'
<1>0. /\ Types /\ poll \in [Pollers -> Polled] /\ polling \in BOOLEAN
      /\ poll[p].at = "check" /\ poll[p].jobs = {}
      /\ UNCHANGED <<result, tracked, history, jobState, forgotten, overdue, polling, handler>>
      /\ AtHand(p) /\ Polls(p) /\ poll[p].notes \subseteq Notes
      /\ receipts \subseteq [kind : Kinds \cup {"submitted"}, jobs : SUBSET Messages]
  BY DEF JobsInv, Types, Notify, At, Polls, Polled
<1>1. PICK n \in poll[p].notes :
        LET group == {o \in poll[p].notes :
                        o.kind = n.kind /\ CustomerOf(o.job) = CustomerOf(n.job)}
        IN /\ \/ Deliver(n.kind, {o.job : o \in group}) /\ UNCHANGED failures
              \/ SendsMayFail /\ Failure /\ UNCHANGED receipts
           /\ poll' = [poll EXCEPT ![p].notes = @ \ group]
  BY DEF Notify
<1> DEFINE G == {o \in poll[p].notes :
                   o.kind = n.kind /\ CustomerOf(o.job) = CustomerOf(n.job)}
           J == {o.job : o \in G}
           r0 == [kind |-> n.kind, jobs |-> J]
<1>2. /\ n.kind \in Kinds /\ J \subseteq Messages /\ G \subseteq poll[p].notes
      /\ \A m \in J : tracked[m] = n.kind /\ Untold(m)
  BY <1>0 DEF AtHand, Notes
<1>3. \A o \in poll[p].notes \ G : o.job \notin J
  <2>1. \A o \in G : o.kind = n.kind /\ CustomerOf(o.job) = CustomerOf(n.job)
    OBVIOUS
  <2>2. ASSUME NEW o \in poll[p].notes, NEW g \in G, o.job = g.job
        PROVE  o \in G
    <3>1. o.kind = tracked[o.job] /\ g.kind = tracked[g.job]
      BY <1>0 DEF AtHand
    <3> QED BY <2>1, <2>2, <3>1
  <2> QED BY <2>2
<1>4. /\ receipts' \in {receipts, receipts \cup {r0}}
      /\ failures' \in 0 .. MaxFailures
  <2>1. \/ receipts' = receipts \cup {r0} /\ failures' = failures
        \/ receipts' = receipts /\ Failure
    BY <1>1 DEF Deliver
  <2> HIDE DEF r0
  <2>2. failures \in 0 .. MaxFailures
    BY <1>0 DEF Types
  <2> QED BY <2>1, <2>2, JobsAssumption DEF Failure
<1>5. poll' = [poll EXCEPT ![p].notes = poll[p].notes \ G]
  BY <1>1
<1> HIDE DEF G
<1>6. /\ poll' \in [Pollers -> Polled] /\ \A q \in Pollers \ {p} : poll'[q] = poll[q]
      /\ poll'[p].at = "check" /\ poll'[p].jobs = {} /\ poll'[p].notes = poll[p].notes \ G
  BY <1>0, <1>5 DEF Polled
<1> HIDE DEF J, r0
<1>7. /\ r0 \in [kind : Kinds \cup {"submitted"}, jobs : SUBSET Messages]
      /\ r0.kind = n.kind /\ r0.jobs = J
  BY <1>2 DEF r0
<1>8. PollMoves(p) /\ Polls(p)'
  BY <1>0, <1>4, <1>6 DEF PollMoves, Polls
<1>9. AtHand(p)'
  <2>1. \A o \in poll[p].notes \ G : tracked[o.job] = o.kind /\ Untold(o.job) /\ o.job \notin r0.jobs
    BY <1>0, <1>3, <1>7 DEF AtHand
  <2>2. \A o \in poll[p].notes \ G : Untold(o.job)'
    BY <1>4, <2>1 DEF Untold
  <2> QED BY <1>0, <1>6, <2>1, <2>2 DEF AtHand
<1>10. Types'
  <2>1. \A q \in Pollers :
          poll'[q].at \in {"finish", "history"} => poll'[q].job \in Messages /\ poll'[q].kind \in Kinds
    BY <1>0, <1>6 DEF Types
  <2>2. receipts' \subseteq [kind : Kinds \cup {"submitted"}, jobs : SUBSET Messages]
    BY <1>0, <1>4, <1>7
  <2> QED BY <1>0, <1>4, <1>6, <2>1, <2>2 DEF Types
<1>11. NotYetTracked' /\ OwnPollAfter'
  BY <1>0, <1>8, PollersAndHandlers
<1>12. OutcomeIsTrue'
  BY <1>0 DEF JobsInv, OutcomeIsTrue
<1>13. ToldOnce'
  <2>1. \A r \in receipts : r.kind \in Kinds => r.jobs \cap r0.jobs = {}
    BY <1>2, <1>7 DEF Untold
  <2>2. \A r, s \in receipts' :
          r.kind \in Kinds /\ s.kind \in Kinds /\ r.jobs \cap s.jobs # {} => r = s
    BY <1>4, <2>1 DEF JobsInv, ToldOnce
  <2>3. \A r \in receipts' : r.kind \in Kinds => \A m \in r.jobs : tracked[m] = r.kind
    BY <1>2, <1>4, <1>7 DEF JobsInv, ToldOnce
  <2> QED BY <1>0, <2>2, <2>3 DEF JobsInv, ToldOnce
<1> QED BY <1>0, <1>8, <1>9, <1>10, <1>11, <1>12, <1>13, StillOnePoll, OthersRest DEF JobsInv

LEMMA LeaveKeepsInv ==
  ASSUME JobsInv, NEW p \in Pollers, Leave(p)
  PROVE  JobsInv'
<1>0. /\ poll \in [Pollers -> Polled] /\ poll[p].at \in {"leave", "check"}
      /\ UNCHANGED <<result, tracked, history, jobState, forgotten, overdue, handler, receipts,
                     failures>>
      /\ failures \in 0 .. MaxFailures /\ Polls(p)
      /\ polling' = FALSE /\ poll' = [poll EXCEPT ![p] = Idle]
  BY DEF JobsInv, Types, Leave, At, Polls
<1>1. /\ Idle \in Polled /\ Idle.at = "idle" /\ Idle.jobs = {} /\ Idle.notes = {}
  BY DEF Idle, Polled, PollSteps
<1>2. PollMoves(p) /\ poll'[p] = Idle
  BY <1>0, <1>1 DEF PollMoves
<1>3. OnePoll'
  BY <1>0, <1>1, <1>2 DEF JobsInv, OnePoll, Polls, PollMoves
<1>4. AtHand(p)'
  BY <1>1, <1>2 DEF AtHand
<1> QED BY <1>0, <1>2, <1>3, <1>4, OthersRest, QuietPollKeepsInv

LEMMA TickKeepsInv ==
  ASSUME JobsInv, Tick
  PROVE  JobsInv'
<1>0. /\ Types /\ poll \in [Pollers -> Polled] /\ poll[Ticker].at = "idle" /\ Ticker \in Pollers
      /\ UNCHANGED <<result, tracked, history, jobState, forgotten, overdue, polling, handler,
                     receipts, failures>>
      /\ poll[Ticker].jobs = {} /\ poll[Ticker].notes = {} /\ PollOn(Ticker, "enter")
  BY DEF JobsInv, Types, Tick, At, AtHand, Pollers
<1>1. /\ poll' \in [Pollers -> Polled] /\ \A q \in Pollers \ {Ticker} : poll'[q] = poll[q]
      /\ poll'[Ticker].at = "enter" /\ poll'[Ticker].jobs = {} /\ poll'[Ticker].notes = {}
  BY <1>0 DEF PollOn, Polled, PollSteps
<1>2. Types'
  BY <1>0, <1>1 DEF Types
<1>3. NotYetTracked'
  BY <1>0 DEF JobsInv, NotYetTracked, Ahead
<1>4. OwnPollAfter'
  BY <1>0, <1>1, JobsAssumption DEF JobsInv, OwnPollAfter, Pollers
<1>5. OnePoll'
  BY <1>0, <1>1 DEF JobsInv, OnePoll, Polls
<1>6. ASSUME NEW p \in Pollers PROVE AtHand(p)'
  <2>1. CASE p = Ticker
    BY <1>1, <2>1 DEF AtHand
  <2>2. CASE p # Ticker
    BY <1>0, <1>1, <2>2 DEF JobsInv, AtHand, Untold, Reported
  <2> QED BY <2>1, <2>2
<1>7. OutcomeIsTrue' /\ ToldOnce'
  BY <1>0 DEF JobsInv, OutcomeIsTrue, ToldOnce
<1> QED BY <1>2, <1>3, <1>4, <1>5, <1>6, <1>7 DEF JobsInv

-----------------------------------------------------------------------------
\* The environment

\* CUPS changes its mind about no job that has ended.
LEMMA OutsideKeepsInv ==
  ASSUME JobsInv, NEW m \in Messages, CupsWorks(m) \/ CupsPurges(m) \/ Age(m)
  PROVE  JobsInv'
<1>0. /\ Types
      /\ UNCHANGED <<result, tracked, history, polling, handler, poll, receipts, failures>>
      /\ forgotten' \subseteq Messages /\ overdue' \subseteq Messages
  BY DEF JobsInv, Types, CupsWorks, CupsPurges, Age
<1>1. /\ jobState' \in [Messages -> {0} \cup 3 .. 9]
      /\ \A o \in Messages : jobState[o] \in {7, 8, 9} => jobState'[o] = jobState[o]
  <2>1. CASE CupsWorks(m)
    BY <1>0, <2>1 DEF CupsWorks, Types
  <2>2. CASE jobState' = jobState
    BY <1>0, <2>2 DEF Types
  <2> QED BY <2>1, <2>2 DEF CupsPurges, Age
<1>2. Types'
  BY <1>0, <1>1 DEF Types
<1>3. NotYetTracked' /\ OwnPollAfter'
  BY <1>0 DEF JobsInv, NotYetTracked, OwnPollAfter, Ahead
<1>4. OnePoll'
  BY <1>0 DEF JobsInv, OnePoll, Polls
<1>5. ASSUME NEW p \in Pollers PROVE AtHand(p)'
  <2>1. AtHand(p) /\ (poll[p].at = "finish" => poll[p].job \in Messages)
    BY DEF JobsInv, Types
  <2>2. poll[p].at = "finish" => Reported(poll[p].job, poll[p].kind)'
    BY <1>0, <1>1, <2>1 DEF AtHand, Reported
  <2> QED BY <1>0, <2>1, <2>2 DEF AtHand, Untold
<1>6. OutcomeIsTrue'
  BY <1>0, <1>1 DEF JobsInv, OutcomeIsTrue
<1>7. ToldOnce'
  BY <1>0 DEF JobsInv, ToldOnce
<1> QED BY <1>2, <1>3, <1>4, <1>5, <1>6, <1>7 DEF JobsInv

\* A restart drops what the polls have at hand and goes on with no batch.
LEMMA RestartKeepsInv ==
  ASSUME JobsInv, Restart
  PROVE  JobsInv'
<1>0. /\ Types /\ polling' = FALSE /\ failures' \in 0 .. MaxFailures
      /\ UNCHANGED <<result, tracked, history, jobState, forgotten, overdue, receipts>>
      /\ handler \in [Batches -> [at : HandlerSteps, item : Nat]]
      /\ poll' = [p \in Pollers |-> Idle]
  BY JobsAssumption DEF JobsInv, Types, Restart, Failure
<1>1. /\ Idle \in Polled /\ Idle.at = "idle" /\ Idle.jobs = {} /\ Idle.notes = {}
  BY DEF Idle, Polled, PollSteps
<1>2. /\ handler' \in [Batches -> [at : HandlerSteps, item : Nat]]
      /\ \A b \in Batches : /\ handler'[b].item = handler[b].item
                             /\ handler'[b].at \in {handler[b].at, "done"}
  <2>1. \A b \in Batches :
          handler'[b] = IF handler[b] = [at |-> "process", item |-> 1]
                        THEN handler[b] ELSE [handler[b] EXCEPT !.at = "done"]
    BY DEF Restart
  <2>2. \A b \in Batches : /\ handler'[b] \in [at : HandlerSteps, item : Nat]
                           /\ handler'[b].item = handler[b].item
                           /\ handler'[b].at \in {handler[b].at, "done"}
    <3> TAKE b \in Batches
    <3>1. CASE handler[b] = [at |-> "process", item |-> 1]
      BY <1>0, <2>1, <3>1
    <3>2. CASE handler[b] # [at |-> "process", item |-> 1]
      <4>1. handler'[b] = [handler[b] EXCEPT !.at = "done"]
        BY <2>1, <3>2
      <4> QED BY <1>0, <4>1 DEF HandlerSteps
    <3> QED BY <3>1, <3>2
  <2>3. DOMAIN handler' = Batches /\ handler' = [b \in Batches |-> handler'[b]]
    BY DEF Restart
  <2> QED BY <2>2, <2>3
<1>3. /\ \A p \in Pollers : poll'[p] = Idle
      /\ poll' \in [Pollers -> Polled]
  BY <1>0, <1>1
<1>4. Types'
  BY <1>0, <1>1, <1>2, <1>3 DEF Types
<1>5. NotYetTracked'
  <2>1. ASSUME NEW b \in Batches, NEW i \in DOMAIN Contents[b], Ahead(b, i)'
        PROVE  Ahead(b, i)
    BY <1>2, <2>1 DEF Ahead
  <2> QED BY <1>0, <2>1 DEF JobsInv, NotYetTracked
<1>6. OwnPollAfter'
  BY <1>1, <1>3 DEF OwnPollAfter, Pollers
<1>7. OnePoll'
  BY <1>0, <1>1, <1>3 DEF OnePoll, Polls
<1>8. \A p \in Pollers : AtHand(p)'
  BY <1>1, <1>3 DEF AtHand
<1>9. OutcomeIsTrue' /\ ToldOnce'
  BY <1>0 DEF JobsInv, OutcomeIsTrue, ToldOnce
<1> QED BY <1>4, <1>5, <1>6, <1>7, <1>8, <1>9 DEF JobsInv

-----------------------------------------------------------------------------

LEMMA InitJobsInv == Init => JobsInv
<1> SUFFICES ASSUME Init PROVE JobsInv
  OBVIOUS
<1>1. /\ Idle \in Polled /\ Idle.at = "idle" /\ Idle.jobs = {} /\ Idle.notes = {}
  BY DEF Idle, Polled, PollSteps
<1>2. \A p \in Pollers : poll[p] = Idle
  BY DEF Init
<1>3. /\ poll \in [Pollers -> Polled]
      /\ handler \in [Batches -> [at : HandlerSteps, item : Nat]]
      /\ \A b \in Batches : handler[b].item \in DOMAIN Contents[b]
  BY <1>1, JobsAssumption DEF Init, HandlerSteps
<1>4. Types
  <2>1. /\ result \in [Messages -> {"none", "accepted", "other", "error"}]
        /\ tracked \in [Messages -> Statuses]
        /\ history \in [Messages -> Statuses]
    BY DEF Init, Statuses
  <2>2. jobState \in [Messages -> {0} \cup 3 .. 9]
    BY DEF Init
  <2>3. forgotten = {} /\ overdue = {} /\ polling \in BOOLEAN /\ receipts = {} /\ failures = 0
    BY DEF Init
  <2>4. \A p \in Pollers : poll[p].at \notin {"finish", "history"}
    BY <1>1, <1>2
  <2> QED BY <1>3, <2>1, <2>2, <2>3, <2>4, JobsAssumption DEF Types
<1>5. NotYetTracked
  BY DEF Init, NotYetTracked, Messages
<1>6. OwnPollAfter /\ OnePoll /\ \A p \in Pollers : AtHand(p)
  BY <1>1, <1>2 DEF Init, OwnPollAfter, OnePoll, Polls, AtHand, Pollers
<1>7. OutcomeIsTrue /\ ToldOnce
  BY DEF Init, OutcomeIsTrue, ToldOnce, Kinds
<1> QED BY <1>4, <1>5, <1>6, <1>7 DEF JobsInv

LEMMA NextKeepsInv == JobsInv /\ [Next]_vars => JobsInv'
<1> SUFFICES ASSUME JobsInv, [Next]_vars PROVE JobsInv'
  OBVIOUS
<1>1. ASSUME NEW b \in Batches, Handle(b) PROVE JobsInv'
  BY <1>1, ProcessKeepsInv, TrackKeepsInv, HistoryKeepsInv, ReceiptKeepsInv DEF Handle
<1>2. ASSUME NEW p \in Pollers, Poll(p) PROVE JobsInv'
  BY <1>2, EnterKeepsInv, ListKeepsInv, CheckKeepsInv, FinishKeepsInv, FinishHistoryKeepsInv,
     NotifyKeepsInv, LeaveKeepsInv DEF Poll
<1>3. CASE Tick
  BY <1>3, TickKeepsInv
<1>4. ASSUME NEW m \in Messages, CupsWorks(m) \/ CupsPurges(m) \/ Age(m) PROVE JobsInv'
  BY <1>4, OutsideKeepsInv
<1>5. CASE Restart
  BY <1>5, RestartKeepsInv
<1>6. CASE UNCHANGED vars
  <2>1. Types' /\ OutcomeIsTrue' /\ ToldOnce'
    BY <1>6 DEF vars, JobsInv, Types, OutcomeIsTrue, ToldOnce
  <2>2. NotYetTracked' /\ OwnPollAfter' /\ OnePoll'
    BY <1>6 DEF vars, JobsInv, NotYetTracked, OwnPollAfter, OnePoll, Polls, Ahead
  <2>3. \A p \in Pollers : AtHand(p)'
    BY <1>6 DEF vars, JobsInv, AtHand, Untold, Reported
  <2> QED BY <2>1, <2>2, <2>3 DEF JobsInv
<1> QED BY <1>1, <1>2, <1>3, <1>4, <1>5, <1>6 DEF Next

LEMMA JobsInvHolds == Spec => []JobsInv
BY InitJobsInv, NextKeepsInv, PTL DEF Spec

-----------------------------------------------------------------------------

\* The variables keep their types in every behaviour of the handlers and polls.
THEOREM JobsTypesHold == Spec => []TypeOK
<1>1. JobsInv => TypeOK
  BY DEF JobsInv, Types, TypeOK, Polled, HandlerSteps, PollSteps, Notes
<1> QED BY <1>1, JobsInvHolds, PTL

\* However many batches start polls of their own beside the ticker, only one runs at
\* a time, and the flag polling is set exactly while it does (pollPrintJobs).
THEOREM NeverTwoPolls == Spec => []OnePoll
<1>1. JobsInv => OnePoll
  BY DEF JobsInv
<1> QED BY <1>1, JobsInvHolds, PTL

\* A job is stored as completed or failed only if CUPS has ended it that way
\* (pollPrintJobs, parseJobState).
THEOREM OutcomesAreTrue == Spec => []OutcomeIsTrue
<1>1. JobsInv => OutcomeIsTrue
  BY DEF JobsInv
<1> QED BY <1>1, JobsInvHolds, PTL

\* No customer hears two outcomes of a job, whatever polls, failures and restarts
\* there are, and the one they hear is the one the tables have (finishJob).
THEOREM ToldAtMostOnce == Spec => []OneOutcome
<1>1. ASSUME JobsInv, NEW m \in Messages
      PROVE  /\ Cardinality(Final(m)) <= 1
             /\ \A r \in Final(m) : r.kind = tracked[m]
             /\ history[m] \in Kinds => history[m] = tracked[m]
  <2>1. \A r, s \in Final(m) : r = s
    BY <1>1 DEF JobsInv, ToldOnce, Final
  <2>2. Cardinality(Final(m)) <= 1
    <3>1. CASE Final(m) = {}
      BY <3>1, FS_EmptySet
    <3>2. CASE Final(m) # {}
      <4>1. PICK r \in Final(m) : TRUE
        BY <3>2
      <4>2. Final(m) = {r}
        BY <2>1, <4>1
      <4> QED BY <4>2, FS_Singleton
    <3> QED BY <3>1, <3>2
  <2>3. /\ \A r \in Final(m) : r.kind = tracked[m]
        /\ history[m] \in Kinds => history[m] = tracked[m]
    BY <1>1 DEF JobsInv, ToldOnce, Final
  <2> QED BY <2>2, <2>3
<1>2. JobsInv => OneOutcome
  BY <1>1 DEF OneOutcome
<1> QED BY <1>2, JobsInvHolds, PTL
=============================================================================
