-------------------------------- MODULE PrintJobs --------------------------------
(***************************************************************************)
(* From an accepted message to the last word the customer hears about it:  *)
(* the second half of handleMenu, pollPrintJobs (gateway.go) with          *)
(* getStatus and parseJobState (cups.go), and the tables                   *)
(* tracked_print_jobs and print_history (store.go).                        *)
(*                                                                         *)
(* A goroutine per account goes through confirmed batches, a ticker polls  *)
(* CUPS, and every batch that submitted something starts a poll of its     *)
(* own.  Each SQL statement and each request is a step; the flag polling   *)
(* is behind a mutex.  CUPS is external.  The time a job has been tracked  *)
(* is whether it is overdue, past PRINT_STATUS_TIMEOUT_MS.                 *)
(***************************************************************************)
EXTENDS Naturals, Sequences, FiniteSets

CONSTANTS
  Batches,      \* batches that customers confirm
  Contents,     \* the contents of each, a sequence of msg_id values
  Customer,     \* the account and user of each batch
  Ticker,       \* the goroutine of startWorkers
  SendsMayFail, \* whether a receipt may be given up
  MaxFailures   \* bound: failures of the gateway's own, and restarts

Messages == UNION {{Contents[b][i] : i \in DOMAIN Contents[b]} : b \in Batches}
Pollers  == Batches \cup {Ticker}   \* a poll is named after the batch that starts it

ASSUME JobsAssumption ==
  /\ Ticker \notin Batches
  /\ \A b \in Batches :
       Len(Contents[b]) \in Nat \ {0} /\ DOMAIN Contents[b] = 1 .. Len(Contents[b])
  /\ \A b, d \in Batches : \A i \in DOMAIN Contents[b], j \in DOMAIN Contents[d] :
       Contents[b][i] = Contents[d][j] => b = d /\ i = j
  /\ SendsMayFail \in BOOLEAN
  /\ MaxFailures \in Nat

VARIABLES
  result,    \* what process returned for each message
  tracked,   \* table tracked_print_jobs: status of each message
  history,   \* table print_history: status of each message
  jobState,  \* the job-state CUPS would report; 0: there is no job
  forgotten, \* the jobs CUPS has purged
  overdue,   \* the rows older than PRINT_STATUS_TIMEOUT_MS
  polling,   \* the flag of that name
  handler,   \* handleMenu for each batch: where it is, and at which content
  poll,      \* pollPrintJobs of each goroutine: where it is, local variables
  receipts,  \* the receipts delivered
  failures   \* errors and restarts so far

vars == <<result, tracked, history, jobState, forgotten, overdue, polling, handler,
          poll, receipts, failures>>

Kinds    == {"completed", "failed", "timeout"}
Statuses == {"none", "submitted"} \cup Kinds   \* "none": the row is absent

CustomerOf(m) == Customer[CHOOSE b \in Batches : \E i \in DOMAIN Contents[b] : Contents[b][i] = m]

\* jobs: the rows of listSubmittedJobs still to look at; job, kind: the one that is
\* finished, and how; notes: what has been finished by this poll.
Idle == [at |-> "idle", jobs |-> {}, job |-> "none", kind |-> "none", notes |-> {}]

Init ==
  /\ result = [m \in Messages |-> "none"]
  /\ tracked = [m \in Messages |-> "none"]
  /\ history = [m \in Messages |-> "none"]
  /\ jobState = [m \in Messages |-> 0]
  /\ forgotten = {}
  /\ overdue = {}
  /\ polling = FALSE
  /\ handler = [b \in Batches |-> [at |-> "process", item |-> 1]]
  /\ poll = [p \in Pollers |-> Idle]
  /\ receipts = {}
  /\ failures = 0

Failure == failures < MaxFailures /\ failures' = failures + 1

-----------------------------------------------------------------------------
\* handleMenu after confirmPending

\* p.MsgID in the loop, and j.MessageID.
\* (Mutants: the loop runs once too often; the row is named after the first content.)
HasOneTooMany(b) == handler[b].item <= Len(Contents[b])
FirstOnly(b)     == Contents[b][1]

HasNext(b)   == handler[b].item < Len(Contents[b])
Item(b)      == Contents[b][handler[b].item]
MessageID(b) == Item(b)

\* Where the loop goes after a content.
Onward(b) ==
  handler' = [handler EXCEPT ![b] =
                IF HasNext(b) THEN [at |-> "process", item |-> @.item + 1]
                ELSE [@ EXCEPT !.at = "receipt"]]
GoOn(b, s) == handler' = [handler EXCEPT ![b].at = s]

\* process returns; the job it was accepted with starts out as pending.  An error,
\* which may be that of storing "accepted", ends handleMenu.
Process(b) ==
  /\ handler[b].at = "process"
  /\ \/ /\ result' = [result EXCEPT ![Item(b)] = "accepted"]
        /\ jobState' = [jobState EXCEPT ![Item(b)] = 3]
        /\ GoOn(b, "track")
        /\ UNCHANGED failures
     \/ /\ result' = [result EXCEPT ![Item(b)] = "other"]
        /\ Onward(b)
        /\ UNCHANGED <<jobState, failures>>
     \/ /\ result' = [result EXCEPT ![Item(b)] = "error"]
        /\ Failure
        /\ \E s \in {0, 3} : jobState' = [jobState EXCEPT ![Item(b)] = s]
        /\ GoOn(b, "done")
  /\ UNCHANGED <<tracked, history, forgotten, overdue, polling, poll, receipts>>

\* trackPrintJob and addPrintHistory insert a row; their errors are dropped.
TrackPrintJob(b) ==
  /\ handler[b].at = "track"
  /\ \/ tracked' = [tracked EXCEPT ![MessageID(b)] = "submitted"] /\ UNCHANGED failures
     \/ Failure /\ UNCHANGED tracked
  /\ GoOn(b, "history")
  /\ UNCHANGED <<result, history, jobState, forgotten, overdue, polling, poll, receipts>>

AddPrintHistory(b) ==
  /\ handler[b].at = "history"
  /\ \/ history' = [history EXCEPT ![MessageID(b)] = "submitted"] /\ UNCHANGED failures
     \/ Failure /\ UNCHANGED history
  /\ Onward(b)
  /\ UNCHANGED <<result, tracked, jobState, forgotten, overdue, polling, poll, receipts>>

Submitted(b) == {m \in Messages : /\ \E i \in DOMAIN Contents[b] : Contents[b][i] = m
                                  /\ result[m] = "accepted"}

Deliver(kind, jobs) == receipts' = receipts \cup {[kind |-> kind, jobs |-> jobs]}

\* The receipt of the batch; then, if something was submitted, a poll.
SendReceipt(b) ==
  /\ handler[b].at = "receipt"
  /\ \/ Deliver("submitted", Submitted(b)) /\ UNCHANGED failures
     \/ SendsMayFail /\ Failure /\ UNCHANGED receipts
  /\ GoOn(b, "done")
  /\ poll' = [poll EXCEPT ![b] = IF Submitted(b) # {} THEN [Idle EXCEPT !.at = "enter"] ELSE @]
  /\ UNCHANGED <<result, tracked, history, jobState, forgotten, overdue, polling>>

-----------------------------------------------------------------------------
\* pollPrintJobs

At(p, s)     == poll[p].at = s
PollOn(p, s) == poll' = [poll EXCEPT ![p].at = s]

\* The ticker fires.
Tick ==
  /\ At(Ticker, "idle")
  /\ PollOn(Ticker, "enter")
  /\ UNCHANGED <<result, tracked, history, jobState, forgotten, overdue, polling, handler,
                 receipts, failures>>

\* (Mutant: the flag is not consulted.)
EntersAlways == TRUE

MayEnter == ~polling

\* The first critical section: another poll is running, or this one goes on.
Enter(p) ==
  /\ At(p, "enter")
  /\ IF MayEnter
     THEN polling' = TRUE /\ PollOn(p, "list")
     ELSE PollOn(p, "idle") /\ UNCHANGED polling
  /\ UNCHANGED <<result, tracked, history, jobState, forgotten, overdue, handler, receipts,
                 failures>>

\* (Mutant: the WHERE clauses do not look at the status.)
HasRow(m) == tracked[m] # "none"

\* status='submitted', in the statements of listSubmittedJobs and finishJob.
Unfinished(m) == tracked[m] = "submitted"

\* Before the next job, or after the last one.
NextJob(jobs, notes) ==
  [at |-> "check", jobs |-> jobs, job |-> "none", kind |-> "none", notes |-> notes]

ListSubmittedJobs(p) ==
  /\ At(p, "list")
  /\ \/ /\ poll' = [poll EXCEPT ![p] = NextJob({m \in Messages : Unfinished(m)}, {})]
        /\ UNCHANGED failures
     \/ Failure /\ PollOn(p, "leave")
  /\ UNCHANGED <<result, tracked, history, jobState, forgotten, overdue, polling, handler,
                 receipts>>

\* (Mutant: an aborted job counts as completed.)
AbortedCompletes(s) ==
  CASE s \in {3, 4} -> "pending" [] s \in {5, 6} -> "processing"
    [] s = 7 -> "failed" [] s \in {8, 9} -> "completed" [] OTHER -> "unknown"

\* parseJobState.
CupsJobState(s) ==
  CASE s \in {3, 4} -> "pending"
    [] s \in {5, 6} -> "processing"
    [] s \in {7, 8} -> "failed"
    [] s = 9        -> "completed"
    [] OTHER        -> "unknown"

\* getStatus may get an error, and knows nothing of a job that CUPS has purged.
GetStatus(m) == {"error"} \cup
                {IF m \in forgotten THEN "unknown" ELSE CupsJobState(jobState[m])}

\* (Mutant: the age of a row is not looked at.)
OverdueNever(m) == FALSE

Overdue(m) == m \in overdue

\* What becomes of the next job: an overdue one is not asked about, and only an
\* end of the job leads anywhere.
CheckJob(p) ==
  /\ At(p, "check")
  /\ \E m \in poll[p].jobs :
       \E s \in IF Overdue(m) THEN {"timeout"} ELSE GetStatus(m) :
         LET rest == poll[p].jobs \ {m}
         IN poll' = [poll EXCEPT ![p] =
                       IF s \in Kinds
                       THEN [at |-> "finish", jobs |-> rest, job |-> m, kind |-> s,
                             notes |-> poll[p].notes]
                       ELSE NextJob(rest, poll[p].notes)]
  /\ UNCHANGED <<result, tracked, history, jobState, forgotten, overdue, polling, handler,
                 receipts, failures>>

\* finishJob, an UPDATE that tells whether the row was still unfinished.
FinishJob(p) ==
  /\ At(p, "finish")
  /\ IF Unfinished(poll[p].job)
     THEN tracked' = [tracked EXCEPT ![poll[p].job] = poll[p].kind] /\ PollOn(p, "history")
     ELSE /\ poll' = [poll EXCEPT ![p] = NextJob(poll[p].jobs, poll[p].notes)]
          /\ UNCHANGED tracked
  /\ UNCHANGED <<result, history, jobState, forgotten, overdue, polling, handler, receipts,
                 failures>>

\* finishHistory, whose error is dropped; the job is noted for the customer.
FinishHistory(p) ==
  /\ At(p, "history")
  /\ \/ /\ history' = [history EXCEPT ![poll[p].job] = IF @ = "submitted" THEN poll[p].kind ELSE @]
        /\ UNCHANGED failures
     \/ Failure /\ UNCHANGED history
  /\ LET note == [job |-> poll[p].job, kind |-> poll[p].kind]
     IN poll' = [poll EXCEPT ![p] = NextJob(poll[p].jobs, poll[p].notes \cup {note})]
  /\ UNCHANGED <<result, tracked, jobState, forgotten, overdue, polling, handler, receipts>>

\* After the loop, one receipt per customer and kind.
Notify(p) ==
  /\ At(p, "check") /\ poll[p].jobs = {}
  /\ \E n \in poll[p].notes :
       LET group == {o \in poll[p].notes :
                       o.kind = n.kind /\ CustomerOf(o.job) = CustomerOf(n.job)}
       IN /\ \/ Deliver(n.kind, {o.job : o \in group}) /\ UNCHANGED failures
             \/ SendsMayFail /\ Failure /\ UNCHANGED receipts
          /\ poll' = [poll EXCEPT ![p].notes = @ \ group]
  /\ UNCHANGED <<result, tracked, history, jobState, forgotten, overdue, polling, handler>>

\* The deferred function.
Leave(p) ==
  /\ \/ At(p, "leave")
     \/ At(p, "check") /\ poll[p].jobs = {} /\ poll[p].notes = {}
  /\ polling' = FALSE
  /\ poll' = [poll EXCEPT ![p] = Idle]
  /\ UNCHANGED <<result, tracked, history, jobState, forgotten, overdue, handler, receipts,
                 failures>>

Handle(b) == Process(b) \/ TrackPrintJob(b) \/ AddPrintHistory(b) \/ SendReceipt(b)
Poll(p)   == Enter(p) \/ ListSubmittedJobs(p) \/ CheckJob(p) \/ FinishJob(p)
             \/ FinishHistory(p) \/ Notify(p) \/ Leave(p)

-----------------------------------------------------------------------------
\* The environment

\* CUPS: a job moves on until it is canceled, aborted or completed, and is purged
\* some time after that.
CupsWorks(m) ==
  /\ jobState[m] \in 3 .. 6
  /\ \E s \in {5, 7, 8, 9} \ {jobState[m]} : jobState' = [jobState EXCEPT ![m] = s]
  /\ UNCHANGED <<result, tracked, history, forgotten, overdue, polling, handler, poll,
                 receipts, failures>>

CupsPurges(m) ==
  /\ jobState[m] \in 7 .. 9
  /\ m \notin forgotten
  /\ forgotten' = forgotten \cup {m}
  /\ UNCHANGED <<result, tracked, history, jobState, overdue, polling, handler, poll,
                 receipts, failures>>

\* The row of a message gets old.
Age(m) ==
  /\ tracked[m] # "none" /\ m \notin overdue
  /\ overdue' = overdue \cup {m}
  /\ UNCHANGED <<result, tracked, history, jobState, forgotten, polling, handler, poll,
                 receipts, failures>>

\* The program dies and starts again; a batch it was in is not resumed.  One that is
\* still before its first content may as well not have been confirmed yet.
Restart ==
  /\ Failure
  /\ polling' = FALSE
  /\ handler' = [b \in Batches |-> IF handler[b] = [at |-> "process", item |-> 1]
                                   THEN handler[b] ELSE [handler[b] EXCEPT !.at = "done"]]
  /\ poll' = [p \in Pollers |-> Idle]
  /\ UNCHANGED <<result, tracked, history, jobState, forgotten, overdue, receipts>>

Next ==
  \/ \E b \in Batches : Handle(b)
  \/ \E p \in Pollers : Poll(p)
  \/ Tick
  \/ \E m \in Messages : CupsWorks(m) \/ CupsPurges(m) \/ Age(m)
  \/ Restart

Spec == Init /\ [][Next]_vars

\* Goroutines keep running, requests end, the ticker ticks and time passes.
\* Nothing is assumed of CUPS.
FairSpec ==
  /\ Spec
  /\ \A b \in Batches : WF_vars(Handle(b))
  /\ \A p \in Pollers : WF_vars(Poll(p))
  /\ WF_vars(Tick)
  /\ \A m \in Messages : WF_vars(Age(m))

-----------------------------------------------------------------------------
\* Properties

TypeOK ==
  /\ result \in [Messages -> {"none", "accepted", "other", "error"}]
  /\ tracked \in [Messages -> Statuses]
  /\ history \in [Messages -> Statuses]
  /\ jobState \in [Messages -> {0} \cup 3 .. 9]
  /\ forgotten \subseteq Messages /\ overdue \subseteq Messages
  /\ polling \in BOOLEAN
  /\ \A b \in Batches :
       /\ handler[b].at \in {"process", "track", "history", "receipt", "done"}
       /\ handler[b].item \in DOMAIN Contents[b]
  /\ \A p \in Pollers :
       /\ poll[p].at \in {"idle", "enter", "list", "check", "finish", "history", "leave"}
       /\ poll[p].jobs \subseteq Messages
       /\ poll[p].at \in {"finish", "history"} => poll[p].job \in Messages /\ poll[p].kind \in Kinds
       /\ poll[p].notes \subseteq [job : Messages, kind : Kinds]
  /\ receipts \subseteq [kind : Kinds \cup {"submitted"}, jobs : SUBSET Messages]
  /\ failures \in 0 .. MaxFailures

Polls(p) == poll[p].at \notin {"idle", "enter"}

\* The ticker and the polls that handlers start never overlap, and the flag is set
\* exactly while one runs: no poll is kept out once the last one has gone.
OnePoll ==
  /\ \A p, q \in Pollers : Polls(p) /\ Polls(q) => p = q
  /\ polling <=> \E p \in Pollers : Polls(p)

Final(m) == {r \in receipts : r.kind \in Kinds /\ m \in r.jobs}

\* A customer hears at most one outcome of a job, it is the one the table keeps, and
\* the history keeps no other (finishJob before the note, one note per job).
OneOutcome ==
  \A m \in Messages :
    /\ Cardinality(Final(m)) <= 1
    /\ \A r \in Final(m) : r.kind = tracked[m]
    /\ history[m] \in Kinds => history[m] = tracked[m]

\* "completed" and "failed" are said of jobs of which CUPS has said so.
OutcomeIsTrue ==
  \A m \in Messages :
    /\ tracked[m] = "completed" => jobState[m] = 9
    /\ tracked[m] = "failed" => jobState[m] \in {7, 8}

\* Every job that CUPS accepted is tracked (handleMenu) ...
AcceptedIsTracked ==
  \A m \in Messages : result[m] = "accepted" ~> tracked[m] # "none"

\* ... and the customer hears the outcome of every tracked job, at the latest when
\* it is overdue, even if CUPS cannot be asked (pollPrintJobs).
CustomerIsTold ==
  \A m \in Messages : tracked[m] = "submitted" ~> Final(m) # {}

=============================================================================
