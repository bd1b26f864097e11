------------------------------ MODULE PrintPromise ------------------------------
(***************************************************************************)
(* What the gateway promises about printing, with everything else left     *)
(* out: a message is queued for printing at most once, and the verdict     *)
(* that is recorded about it is given once and is true.  "uncertain" is    *)
(* the verdict that promises nothing, and the only one after which paper   *)
(* may still come.                                                         *)
(***************************************************************************)
EXTENDS Naturals

CONSTANTS MsgIDs

VARIABLES
  paper,   \* jobs queued for each message
  verdict  \* what has been recorded about each message

vars == <<paper, verdict>>

Init ==
  /\ paper = [m \in MsgIDs |-> 0]
  /\ verdict = [m \in MsgIDs |-> "open"]

\* The printer queue takes the message.
Queue(m) ==
  /\ paper[m] = 0
  /\ verdict[m] \in {"open", "uncertain"}
  /\ paper' = [paper EXCEPT ![m] = 1]
  /\ UNCHANGED verdict

\* The outcome is known and recorded.
Decide(m, v) ==
  /\ verdict[m] = "open"
  /\ v = "accepted" => paper[m] = 1
  /\ v = "rejected" => paper[m] = 0
  /\ verdict' = [verdict EXCEPT ![m] = v]
  /\ UNCHANGED paper

\* The outcomes of a set of messages are given up together.
GiveUp(S) ==
  /\ \A m \in S : verdict[m] = "open"
  /\ verdict' = [m \in MsgIDs |-> IF m \in S THEN "uncertain" ELSE verdict[m]]
  /\ UNCHANGED paper

Next ==
  \/ \E m \in MsgIDs : Queue(m)
  \/ \E m \in MsgIDs, v \in {"accepted", "rejected", "uncertain"} : Decide(m, v)
  \/ \E S \in SUBSET MsgIDs : GiveUp(S)

Spec == Init /\ [][Next]_vars

=============================================================================
