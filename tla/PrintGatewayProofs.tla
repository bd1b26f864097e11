--------------------------- MODULE PrintGatewayProofs ---------------------------
(***************************************************************************)
(* Proofs about PrintGateway for every set of messages, users and          *)
(* goroutines and every rate limit: types, the safety invariants, the rate *)
(* limit, and the refinement of PrintPromise.                              *)
(*                                                                         *)
(* The argument: the row that reserve inserts is a lock that is never      *)
(* released.  The call that inserted it (its owner) is alone in working on *)
(* the message, the row follows its steps, and a dead owner leaves a row   *)
(* that nobody can take over.                                              *)
(***************************************************************************)
EXTENDS PrintGateway, FiniteSetTheorems, TLAPS

-----------------------------------------------------------------------------
\* The inductive invariant

\* A call that owns its message and has not finished with it.
Working(c) == /\ frame[c].created
              /\ pc[c] \notin {"idle", "returned", "failed"}

\* A call that does not own its message writes nothing.
Bystanders ==
  \A c \in Calls :
    /\ ~frame[c].created => pc[c] \in {"idle", "reserve", "get", "returned", "failed"}
    /\ pc[c] \in {"idle", "reserve"} => ~frame[c].created

SoleOwner ==
  \A c, d \in Calls : Working(c) /\ Working(d) /\ Msg(c) = Msg(d) => c = d

\* The statuses the row may have while its owner is at step s.
RowAt(s) ==
  CASE s \in {"get", "count", "downloading"} -> {"received"}
    [] s \in {"load", "validating"}          -> {"downloading"}
    [] s \in {"validate", "submitting"}      -> {"validating"}
    [] s \in {"submit", "await"}             -> {"submitting"}
    [] OTHER                                 -> InFlight

RowFollowsOwner ==
  \A c \in Calls : Working(c) => messages[Msg(c)].status \in RowAt(pc[c])

\* Nothing is posted before the row says "submitting", and then only once.
NotYetPosted ==
  /\ \A m \in MsgIDs :
       messages[m].status \in {"none", "received", "downloading", "validating"}
         => exchange[m] = "none"
  /\ \A c \in Calls : Working(c) /\ pc[c] = "submit" => exchange[Msg(c)] = "none"

PaperFollowsExchange ==
  \A m \in MsgIDs :
    /\ exchange[m] \in {"none", "sent", "refusal"} => printed[m] = 0
    /\ exchange[m] = "job" => printed[m] = 1
    /\ printed[m] <= 1

\* What the exchange must be for a verdict to be true.
Justified(status, e) ==
  /\ status = "accepted" => e = "job"
  /\ status = "rejected" => e \in {"none", "refusal"}

VerdictsJustified ==
  /\ \A m \in MsgIDs : Justified(messages[m].status, exchange[m])
  /\ \A c \in Calls :
       Working(c) /\ pc[c] = "finish" =>
         /\ frame[c].status \in Final
         /\ frame[c].status = "accepted" => messages[Msg(c)].status = "submitting"
         /\ Justified(frame[c].status, exchange[Msg(c)])

IInv == /\ TypeOK /\ Bystanders /\ SoleOwner /\ RowFollowsOwner
        /\ NotYetPosted /\ PaperFollowsExchange /\ VerdictsJustified

\* For the rate limit: a message is admitted once its count has been passed.
Admitted(m) ==
  \/ exchange[m] # "none"
  \/ \E c \in Calls :
       /\ Working(c) /\ Msg(c) = m
       /\ pc[c] \in {"downloading", "load", "validating", "validate", "submitting", "submit"}

AdmittedRows(u) == {m \in RecentRows(u, now - RateLimitWindowMS) : Admitted(m)}

RateInv == /\ \A c \in Calls : frame[c].clock <= now
           /\ \A u \in Users : Cardinality(AdmittedRows(u)) <= RateLimitCount

-----------------------------------------------------------------------------
\* Types

USE DEF At, Goto, Msg, Idle

LEMMA InitTypes == Init => TypeOK
  BY ConfigAssumption DEF Init, TypeOK, NoRow, Statuses, Frame, Steps, StoreSteps, Exchanges

\* The types of what is local to the calls.
LocalTypes == /\ pc \in [Calls -> Steps]
              /\ frame \in [Calls -> Frame]
              /\ \A c \in Calls : pc[c] # "idle" => frame[c].msg \in MsgIDs

LEMMA ClockTypes ==
  ASSUME NEW f \in Frame, NEW n \in Nat
  PROVE  [f EXCEPT !.clock = n] \in Frame /\ [f EXCEPT !.clock = n].msg = f.msg
  BY DEF Frame

LEMMA ConcludeTypes ==
  ASSUME LocalTypes, NEW c \in Calls, NEW v \in Statuses, pc[c] # "idle", Conclude(c, v)
  PROVE  LocalTypes'
<1>1. frame'[c] = [frame[c] EXCEPT !.status = v]
  BY DEF LocalTypes, Conclude
<1>2. frame'[c] \in Frame /\ frame'[c].msg = frame[c].msg
  BY <1>1 DEF LocalTypes, Frame
<1> QED
  BY <1>2 DEF LocalTypes, Conclude, Steps, StoreSteps

\* Every step of a call keeps the types.
LEMMA StepTypes == TypeOK /\ (\E c \in Calls : Step(c)) => TypeOK'
<1> SUFFICES ASSUME TypeOK, NEW c \in Calls, Step(c)
             PROVE  TypeOK'
  OBVIOUS
<1> USE DEF TypeOK, Statuses, InFlight, Final, Frame, Steps, StoreSteps, Exchanges, Answers
<1> LocalTypes
  BY DEF LocalTypes
<1>1. CASE Reserve(c)
  <2>1. frame'[c] = [frame[c] EXCEPT !.created = Inserts(Msg(c))]
    BY <1>1 DEF Reserve
  <2>2. Inserts(Msg(c)) \in BOOLEAN
    BY DEF Inserts, Stored
  <2>3. frame'[c] \in Frame /\ frame'[c].msg = frame[c].msg
    BY <2>1, <2>2
  <2>4. messages' \in [MsgIDs -> [status : Statuses, created_at : Nat]]
    BY <1>1 DEF Reserve
  <2> QED
    BY <1>1, <2>3, <2>4 DEF Reserve
<1>2. CASE ReturnPrevious(c)
  BY <1>2 DEF ReturnPrevious
<1>3. CASE CheckPermission(c)
  <2>1. CASE UserOf[Msg(c)] \notin AllowedExternalUsers
    BY <1>3, <2>1, ConcludeTypes DEF CheckPermission, LocalTypes
  <2>2. CASE UserOf[Msg(c)] \in AllowedExternalUsers
    <3>1. frame'[c] = [frame[c] EXCEPT !.clock = now]
      BY <1>3, <2>2 DEF CheckPermission, Conclude
    <3>2. frame'[c] \in Frame /\ frame'[c].msg = frame[c].msg
      <4>1. frame[c] \in Frame /\ now \in Nat
        OBVIOUS
      <4> HIDE DEF Frame
      <4> QED
        BY <3>1, <4>1, ClockTypes
    <3> HIDE DEF Frame
    <3> QED
      BY <1>3, <2>2, <3>2 DEF CheckPermission, Conclude
  <2> QED
    BY <2>1, <2>2
<1>4. CASE CountRecent(c)
  <2>1. CASE Conclude(c, "rejected")
    BY <1>4, <2>1, ConcludeTypes DEF CountRecent, LocalTypes
  <2>2. CASE Goto(c, "downloading") /\ UNCHANGED frame
    BY <1>4, <2>2 DEF CountRecent
  <2> QED
    BY <1>4, <2>1, <2>2 DEF CountRecent
<1>5. CASE StartDownload(c) \/ StartValidate(c) \/ StartSubmit(c)
  <2>1. PICK s \in InFlight, t \in Steps : Enter(c, s, t)
    BY <1>5 DEF StartDownload, StartValidate, StartSubmit
  <2> HIDE DEF Frame
  <2> QED
    BY <2>1 DEF Enter, Transition
<1>6. CASE Load(c) \/ Validate(c)
  <2>1. PICK s, t \in Steps : CheckFile(c, s, t) /\ s # "idle"
    BY <1>6 DEF Load, Validate
  <2>2. CASE Conclude(c, "rejected")
    BY <2>1, <2>2, ConcludeTypes DEF CheckFile, LocalTypes
  <2>3. CASE Goto(c, t) /\ UNCHANGED frame
    BY <2>1, <2>3 DEF CheckFile
  <2> QED
    BY <2>1, <2>2, <2>3 DEF CheckFile
<1>7. CASE Submit(c)
  BY <1>7 DEF Submit
<1>8. CASE ReadAnswer(c)
  BY <1>8 DEF ReadAnswer, Conclude, Verdict
<1>9. CASE GiveUp(c)
  BY <1>9 DEF GiveUp, Conclude, NoAnswerVerdict
<1>10. CASE Finish(c)
  BY <1>10 DEF Finish, Transition
<1>11. CASE StoreFails(c)
  BY <1>11 DEF StoreFails
<1>12. CASE Leave(c)
  BY <1>12 DEF Leave
<1> QED
  BY <1>1, <1>2, <1>3, <1>4, <1>5, <1>6, <1>7, <1>8, <1>9, <1>10, <1>11, <1>12 DEF Step

LEMMA NextTypes == TypeOK /\ [Next]_vars => TypeOK'
<1> SUFFICES ASSUME TypeOK, [Next]_vars PROVE TypeOK'
  OBVIOUS
<1>1. CASE \E c \in Calls : Step(c)
  BY <1>1, StepTypes
<1> USE DEF TypeOK, Statuses, InFlight, Final, Frame, Steps, StoreSteps, Exchanges, Answers
<1>2. CASE \E c \in Calls, m \in MsgIDs : Process(c, m)
  <2> SUFFICES ASSUME NEW c \in Calls, NEW m \in MsgIDs, Process(c, m)
               PROVE  TypeOK'
    BY <1>2
  <2>1. frame'[c] = [msg |-> m, clock |-> now, created |-> FALSE, status |-> "none"]
    BY DEF Process
  <2> QED
    BY <2>1 DEF Process
<1>3. CASE \E m \in MsgIDs : CupsTakes(m) \/ CupsRefuses(m)
  BY <1>3 DEF CupsTakes, CupsRefuses
<1>4. CASE Restart
  BY <1>4 DEF Restart, Recovered
<1>5. CASE Tick
  BY <1>5 DEF Tick
<1>6. CASE UNCHANGED vars
  BY <1>6 DEF vars
<1> QED
  BY <1>1, <1>2, <1>3, <1>4, <1>5, <1>6 DEF Next

\* Every value stays in its type, for every size of the system.
THEOREM TypesHold == Spec => []TypeOK
  BY InitTypes, NextTypes, PTL DEF Spec

-----------------------------------------------------------------------------
\* Safety

LEMMA InitInv == Init => IInv
  BY InitTypes DEF Init, IInv, Bystanders, SoleOwner, RowFollowsOwner, NotYetPosted,
     PaperFollowsExchange, VerdictsJustified, Justified, Working, NoRow

\* An owner may decide what the exchange with cups-web justifies.
LEMMA ConcludeInv ==
  ASSUME IInv, NEW c \in Calls, NEW v \in Final, Working(c), Conclude(c, v),
         v = "accepted" => messages[Msg(c)].status = "submitting",
         Justified(v, exchange[Msg(c)]),
         UNCHANGED <<messages, exchange, printed, now>>, TypeOK'
  PROVE  IInv'
<1>1. frame'[c] = [frame[c] EXCEPT !.status = v]
  BY DEF Conclude, IInv, TypeOK, Frame
<1>2. /\ frame'[c].created /\ frame'[c].msg = frame[c].msg /\ frame'[c].status = v
      /\ pc'[c] = "finish" /\ pc[c] \in Steps /\ Msg(c) \in MsgIDs
      /\ \A d \in Calls \ {c} : frame'[d] = frame[d] /\ pc'[d] = pc[d]
  BY <1>1 DEF Conclude, IInv, TypeOK, Frame, Working
<1>3. messages[Msg(c)].status \in InFlight
  BY <1>2 DEF IInv, RowFollowsOwner, RowAt, InFlight
<1>4. Bystanders'
  BY <1>2 DEF IInv, Bystanders
<1>5. SoleOwner'
  BY <1>2 DEF IInv, SoleOwner, Working
<1>6. RowFollowsOwner'
  BY <1>2, <1>3 DEF IInv, RowFollowsOwner, RowAt, Working
<1>7. NotYetPosted' /\ PaperFollowsExchange'
  BY <1>2 DEF IInv, NotYetPosted, PaperFollowsExchange, Working
<1>8. VerdictsJustified'
  BY <1>2, <1>3 DEF IInv, VerdictsJustified, Justified, Working, Final
<1> QED
  BY <1>4, <1>5, <1>6, <1>7, <1>8 DEF IInv

\* An owner that has posted nothing may reject its message.
LEMMA RejectInv ==
  ASSUME IInv, NEW c \in Calls, Working(c), messages[Msg(c)].status # "submitting",
         Conclude(c, "rejected"), UNCHANGED <<messages, exchange, printed, now>>, TypeOK'
  PROVE  IInv'
<1>1. Msg(c) \in MsgIDs /\ pc[c] \in Steps
  BY DEF IInv, TypeOK, Working
<1>2. exchange[Msg(c)] = "none"
  BY <1>1 DEF IInv, RowFollowsOwner, RowAt, NotYetPosted, InFlight
<1> QED
  BY <1>2, ConcludeInv DEF Justified, Final

\* An owner goes on to a step for which the row is as it should be.
LEMMA GotoInv ==
  ASSUME IInv, NEW c \in Calls, NEW s \in Steps \ {"idle", "reserve", "submit", "finish"},
         Goto(c, s),
         Working(c), messages[Msg(c)].status \in RowAt(s),
         UNCHANGED <<messages, frame, exchange, printed, now>>, TypeOK'
  PROVE  IInv'
<1>1. /\ pc'[c] = s /\ pc[c] \in Steps /\ frame' = frame
      /\ \A d \in Calls \ {c} : pc'[d] = pc[d]
  BY DEF IInv, TypeOK
<1>2. \A d \in Calls : Working(d)' => Working(d)
  <2> SUFFICES ASSUME NEW d \in Calls, Working(d)' PROVE Working(d)
    OBVIOUS
  <2>1. CASE d = c
    BY <2>1, <1>1 DEF Working
  <2>2. CASE d # c
    BY <2>2, <1>1 DEF Working
  <2> QED
    BY <2>1, <2>2
<1>3. Bystanders'
  <2> SUFFICES ASSUME NEW d \in Calls
               PROVE  /\ ~frame[d].created =>
                           pc'[d] \in {"idle", "reserve", "get", "returned", "failed"}
                      /\ pc'[d] \in {"idle", "reserve"} => ~frame[d].created
    BY <1>1 DEF Bystanders
  <2>1. CASE d = c
    BY <2>1, <1>1 DEF Working
  <2>2. CASE d # c
    BY <2>2, <1>1 DEF IInv, Bystanders
  <2> QED
    BY <2>1, <2>2
<1>4. SoleOwner'
  BY <1>1, <1>2 DEF IInv, SoleOwner, Working
<1>5. RowFollowsOwner'
  <2> SUFFICES ASSUME NEW d \in Calls, Working(d)'
               PROVE  messages[Msg(d)].status \in RowAt(pc'[d])
    BY DEF RowFollowsOwner, RowAt
  <2>1. CASE d = c
    BY <2>1, <1>1 DEF Working
  <2>2. CASE d # c
    BY <2>2, <1>1, <1>2 DEF IInv, RowFollowsOwner
  <2> QED
    BY <2>1, <2>2
<1>6. NotYetPosted' /\ PaperFollowsExchange'
  BY <1>1, <1>2 DEF IInv, NotYetPosted, PaperFollowsExchange
<1>7. VerdictsJustified'
  BY <1>1, <1>2 DEF IInv, VerdictsJustified, Justified
<1> QED
  BY <1>3, <1>4, <1>5, <1>6, <1>7 DEF IInv

\* A call that stops working on its message disturbs nothing.
LEMMA LeaveInv ==
  ASSUME IInv, NEW c \in Calls, pc'[c] \in {"idle", "returned", "failed"},
         pc'[c] = "idle" => ~frame'[c].created,
         \A d \in Calls \ {c} : frame'[d] = frame[d] /\ pc'[d] = pc[d],
         UNCHANGED <<messages, exchange, printed>>, TypeOK'
  PROVE  IInv'
<1>1. \A d \in Calls : Working(d)' => d # c /\ Working(d)
  BY DEF Working
<1>2. Bystanders' /\ SoleOwner'
  BY <1>1 DEF IInv, Bystanders, SoleOwner
<1>3. RowFollowsOwner'
  BY <1>1 DEF IInv, RowFollowsOwner
<1>4. NotYetPosted' /\ PaperFollowsExchange'
  BY <1>1 DEF IInv, NotYetPosted, PaperFollowsExchange
<1>5. VerdictsJustified'
  BY <1>1 DEF IInv, VerdictsJustified, Justified
<1> QED
  BY <1>2, <1>3, <1>4, <1>5 DEF IInv

\* Every step of a call keeps the invariant.
LEMMA StepInv == IInv /\ (\E c \in Calls : Step(c)) => IInv'
<1> SUFFICES ASSUME IInv, NEW c \in Calls, Step(c), TypeOK'
             PROVE  IInv'
  BY StepTypes DEF IInv
<1> USE DEF IInv, TypeOK, Frame, Bystanders, SoleOwner, RowFollowsOwner, RowAt,
            NotYetPosted, PaperFollowsExchange, VerdictsJustified, Justified, Working,
            InFlight, Final
<1>1. CASE Reserve(c)
  <2>1. /\ frame'[c].created = Inserts(Msg(c)) /\ frame'[c].msg = Msg(c)
        /\ pc[c] = "reserve" /\ pc'[c] = "get" /\ Msg(c) \in MsgIDs
        /\ \A d \in Calls \ {c} : frame'[d] = frame[d] /\ pc'[d] = pc[d]
        /\ UNCHANGED <<exchange, printed>>
    BY <1>1 DEF Reserve
  <2>2. \A m \in MsgIDs : messages'[m].status =
          IF m = Msg(c) /\ Inserts(m) THEN "received" ELSE messages[m].status
    BY <1>1 DEF Reserve
  <2>3. \A d \in Calls : Working(d) => messages[Msg(d)].status \in InFlight /\ Msg(d) \in MsgIDs
    OBVIOUS
  <2>4. \A d \in Calls \ {c} : Working(d)' <=> Working(d)
    BY <2>1
  <2>5. Working(c)' <=> messages[Msg(c)].status = "none"
    BY <2>1 DEF Inserts, Stored
  <2> HIDE DEF IInv, TypeOK, Frame, Working, Bystanders, RowFollowsOwner,
              NotYetPosted, PaperFollowsExchange, VerdictsJustified
  <2>6. SoleOwner'
    BY <2>1, <2>3, <2>4, <2>5 DEF IInv
  <2>7. RowFollowsOwner'
    BY <2>1, <2>2, <2>3, <2>4, <2>5 DEF IInv, RowFollowsOwner, Inserts, Stored
  <2>8. Bystanders'
    BY <2>1, <2>5 DEF IInv, Bystanders
  <2>9. NotYetPosted' /\ PaperFollowsExchange'
    BY <2>1, <2>2, <2>3, <2>4, <2>5 DEF IInv, NotYetPosted, PaperFollowsExchange, Inserts, Stored
  <2>10. VerdictsJustified'
    BY <2>1, <2>2, <2>3, <2>4, <2>5 DEF IInv, VerdictsJustified, Inserts, Stored
  <2> QED
    BY <2>6, <2>7, <2>8, <2>9, <2>10 DEF IInv
<1>2. CASE ReturnPrevious(c)
  <2>1. frame'[c] = [frame[c] EXCEPT !.status = messages[Msg(c)].status]
    BY <1>2 DEF ReturnPrevious
  <2>2. /\ frame'[c].created = frame[c].created /\ frame'[c].msg = Msg(c)
        /\ pc'[c] = "returned" /\ ~frame[c].created
        /\ \A d \in Calls \ {c} : frame'[d] = frame[d] /\ pc'[d] = pc[d]
        /\ UNCHANGED <<messages, exchange, printed>>
    BY <1>2, <2>1 DEF ReturnPrevious
  <2> HIDE DEF IInv, TypeOK, Frame, Working, Bystanders, SoleOwner, RowFollowsOwner, RowAt,
              NotYetPosted, PaperFollowsExchange, VerdictsJustified, Justified, Final
  <2> QED
    BY <2>2, LeaveInv
<1>3. CASE CheckPermission(c)
  <2>1. CASE UserOf[Msg(c)] \notin AllowedExternalUsers
    BY <1>3, <2>1, RejectInv DEF CheckPermission
  <2>2. CASE UserOf[Msg(c)] \in AllowedExternalUsers
    <3>1. frame'[c] = [frame[c] EXCEPT !.clock = now]
      BY <1>3, <2>2 DEF CheckPermission
    <3>2. /\ frame'[c].created /\ frame'[c].msg = Msg(c) /\ pc'[c] = "count"
          /\ \A d \in Calls \ {c} : frame'[d] = frame[d] /\ pc'[d] = pc[d]
          /\ UNCHANGED <<messages, exchange, printed>>
      BY <1>3, <2>2, <3>1 DEF CheckPermission
    <3>3. frame[c].created /\ pc[c] = "get" /\ Msg(c) \in MsgIDs
      BY <1>3 DEF CheckPermission
    <3> HIDE DEF IInv, TypeOK, Frame, Bystanders, RowFollowsOwner, SoleOwner,
                NotYetPosted, PaperFollowsExchange, VerdictsJustified
    <3>4. Bystanders'
      BY <3>2, <3>3 DEF IInv, Bystanders
    <3>5. SoleOwner'
      BY <3>2, <3>3 DEF IInv, SoleOwner
    <3>6. RowFollowsOwner'
      BY <3>2, <3>3 DEF IInv, RowFollowsOwner
    <3>7. NotYetPosted' /\ PaperFollowsExchange'
      BY <3>2, <3>3 DEF IInv, NotYetPosted, PaperFollowsExchange
    <3>8. VerdictsJustified'
      BY <3>2, <3>3 DEF IInv, VerdictsJustified
    <3> QED
      BY <3>4, <3>5, <3>6, <3>7, <3>8 DEF IInv
  <2> QED
    BY <2>1, <2>2
<1>4. CASE CountRecent(c)
  <2>1. CASE Goto(c, "downloading") /\ UNCHANGED frame
    <3>1. Working(c) /\ messages[Msg(c)].status \in RowAt("downloading")
      BY <1>4 DEF CountRecent
    <3> HIDE DEF IInv, TypeOK, Frame, Working, Bystanders, SoleOwner, RowFollowsOwner, RowAt,
                NotYetPosted, PaperFollowsExchange, VerdictsJustified, Justified, Final
    <3> QED
      BY <1>4, <2>1, <3>1, GotoInv DEF CountRecent, Steps, StoreSteps
  <2>2. Working(c) /\ messages[Msg(c)].status # "submitting"
    BY <1>4 DEF CountRecent
  <2> HIDE DEF IInv, TypeOK, Frame, Working, Bystanders, SoleOwner, RowFollowsOwner, RowAt,
              NotYetPosted, PaperFollowsExchange, VerdictsJustified, Justified, Final
  <2> QED
    BY <1>4, <2>1, <2>2, RejectInv DEF CountRecent
<1>5. CASE StartDownload(c)
  BY <1>5 DEF StartDownload, Enter, Transition
<1>6. CASE StartValidate(c)
  BY <1>6 DEF StartValidate, Enter, Transition
<1>7. CASE StartSubmit(c)
  BY <1>7 DEF StartSubmit, Enter, Transition
<1>8. CASE Load(c)
  <2>1. CASE Goto(c, "validating") /\ UNCHANGED frame
    <3>1. Working(c) /\ messages[Msg(c)].status \in RowAt("validating")
      BY <1>8 DEF Load, CheckFile
    <3> HIDE DEF IInv, TypeOK, Frame, Working, Bystanders, SoleOwner, RowFollowsOwner, RowAt,
                NotYetPosted, PaperFollowsExchange, VerdictsJustified, Justified, Final
    <3> QED
      BY <1>8, <2>1, <3>1, GotoInv DEF Load, CheckFile, Steps, StoreSteps
  <2>2. Working(c) /\ messages[Msg(c)].status # "submitting"
    BY <1>8 DEF Load, CheckFile
  <2> HIDE DEF IInv, TypeOK, Frame, Working, Bystanders, SoleOwner, RowFollowsOwner, RowAt,
              NotYetPosted, PaperFollowsExchange, VerdictsJustified, Justified, Final
  <2> QED
    BY <1>8, <2>1, <2>2, RejectInv DEF Load, CheckFile
<1>9. CASE Validate(c)
  <2>1. CASE Goto(c, "submitting") /\ UNCHANGED frame
    <3>1. Working(c) /\ messages[Msg(c)].status \in RowAt("submitting")
      BY <1>9 DEF Validate, CheckFile
    <3> HIDE DEF IInv, TypeOK, Frame, Working, Bystanders, SoleOwner, RowFollowsOwner, RowAt,
                NotYetPosted, PaperFollowsExchange, VerdictsJustified, Justified, Final
    <3> QED
      BY <1>9, <2>1, <3>1, GotoInv DEF Validate, CheckFile, Steps, StoreSteps
  <2>2. Working(c) /\ messages[Msg(c)].status # "submitting"
    BY <1>9 DEF Validate, CheckFile
  <2> HIDE DEF IInv, TypeOK, Frame, Working, Bystanders, SoleOwner, RowFollowsOwner, RowAt,
              NotYetPosted, PaperFollowsExchange, VerdictsJustified, Justified, Final
  <2> QED
    BY <1>9, <2>1, <2>2, RejectInv DEF Validate, CheckFile
<1>10. CASE Submit(c)
  <2>1. /\ Working(c) /\ Msg(c) \in MsgIDs /\ exchange[Msg(c)] = "none"
        /\ messages[Msg(c)].status = "submitting"
    BY <1>10 DEF Submit
  <2>2. /\ pc'[c] = "await" /\ \A d \in Calls \ {c} : pc'[d] = pc[d]
        /\ exchange'[Msg(c)] = "sent" /\ UNCHANGED <<messages, frame, printed>>
        /\ \A m \in MsgIDs \ {Msg(c)} : exchange'[m] = exchange[m]
    BY <1>10, <2>1 DEF Submit
  <2>3. \A d \in Calls : Working(d)' <=> Working(d)
    BY <1>10, <2>2 DEF Submit
  <2>4. \A d \in Calls \ {c} : Working(d) => Msg(d) # Msg(c) /\ Msg(d) \in MsgIDs
    BY <2>1
  <2> HIDE DEF IInv, TypeOK, Frame, Working, Bystanders, SoleOwner, RowFollowsOwner,
              NotYetPosted, PaperFollowsExchange, VerdictsJustified
  <2>5. Bystanders' /\ SoleOwner'
    BY <2>1, <2>2, <2>3 DEF IInv, Bystanders, SoleOwner, Working
  <2>6. RowFollowsOwner'
    BY <2>1, <2>2, <2>3 DEF IInv, RowFollowsOwner
  <2>7. NotYetPosted'
    BY <2>1, <2>2, <2>3, <2>4 DEF IInv, NotYetPosted
  <2>8. PaperFollowsExchange'
    BY <2>1, <2>2 DEF IInv, PaperFollowsExchange
  <2>9. VerdictsJustified'
    BY <2>1, <2>2, <2>3, <2>4 DEF IInv, VerdictsJustified
  <2> QED
    BY <2>5, <2>6, <2>7, <2>8, <2>9 DEF IInv
<1>11. CASE ReadAnswer(c)
  <2>1. /\ Working(c) /\ messages[Msg(c)].status = "submitting"
        /\ exchange[Msg(c)] \in {"job", "refusal", "fault"}
    BY <1>11 DEF ReadAnswer, Answers
  <2>2. PICK v \in Final : /\ Conclude(c, v) /\ Justified(v, exchange[Msg(c)])
    BY <1>11, <2>1 DEF ReadAnswer, Verdict
  <2> HIDE DEF IInv, TypeOK, Frame, Working, Bystanders, SoleOwner, RowFollowsOwner, RowAt,
              NotYetPosted, PaperFollowsExchange, VerdictsJustified, Justified, Final
  <2> QED
    BY <1>11, <2>1, <2>2, ConcludeInv DEF ReadAnswer
<1>12. CASE GiveUp(c)
  <2>1. Working(c)
    BY <1>12 DEF GiveUp
  <2>2. Conclude(c, "uncertain") /\ "uncertain" \in Final
    BY <1>12 DEF GiveUp, NoAnswerVerdict
  <2>3. Justified("uncertain", exchange[Msg(c)])
    OBVIOUS
  <2> HIDE DEF IInv, TypeOK, Frame, Working, Bystanders, SoleOwner, RowFollowsOwner, RowAt,
              NotYetPosted, PaperFollowsExchange, VerdictsJustified, Justified, Final
  <2> QED
    BY <1>12, <2>1, <2>2, <2>3, ConcludeInv DEF GiveUp
<1>13. CASE Finish(c)
  <2>1. /\ Working(c) /\ Msg(c) \in MsgIDs /\ frame[c].status \in Final
        /\ Justified(frame[c].status, exchange[Msg(c)])
    BY <1>13 DEF Finish
  <2>2. /\ pc'[c] = "returned" /\ \A d \in Calls \ {c} : pc'[d] = pc[d]
        /\ messages'[Msg(c)].status = frame[c].status /\ UNCHANGED <<exchange, frame, printed>>
        /\ \A m \in MsgIDs \ {Msg(c)} : messages'[m] = messages[m]
    BY <1>13, <2>1 DEF Finish, Transition
  <2>3. \A d \in Calls : Working(d)' => d # c /\ Working(d)
    BY <2>2
  <2>4. \A d \in Calls : Working(d)' => Msg(d) # Msg(c) /\ Msg(d) \in MsgIDs
    BY <2>1, <2>3
  <2>5. Bystanders'
    BY <2>2
  <2> HIDE DEF IInv, TypeOK, Frame, Working, Bystanders, SoleOwner, RowFollowsOwner,
              NotYetPosted, PaperFollowsExchange, VerdictsJustified, Justified
  <2>6. SoleOwner'
    BY <2>2, <2>3 DEF IInv, SoleOwner
  <2>7. RowFollowsOwner'
    BY <2>2, <2>3, <2>4 DEF IInv, RowFollowsOwner
  <2>8. NotYetPosted' /\ PaperFollowsExchange'
    BY <2>1, <2>2, <2>3, <2>4 DEF IInv, NotYetPosted, PaperFollowsExchange
  <2>9. VerdictsJustified'
    BY <2>1, <2>2, <2>3, <2>4 DEF IInv, VerdictsJustified
  <2> QED
    BY <2>5, <2>6, <2>7, <2>8, <2>9 DEF IInv
<1>14. CASE StoreFails(c)
  <2>1. /\ pc'[c] = "failed"
        /\ \A d \in Calls \ {c} : frame'[d] = frame[d] /\ pc'[d] = pc[d]
        /\ UNCHANGED <<messages, exchange, printed>>
    BY <1>14 DEF StoreFails
  <2> HIDE DEF IInv, TypeOK, Frame, Working, Bystanders, SoleOwner, RowFollowsOwner, RowAt,
              NotYetPosted, PaperFollowsExchange, VerdictsJustified, Justified, Final
  <2> QED
    BY <2>1, LeaveInv
<1>15. CASE Leave(c)
  <2>1. /\ ~frame'[c].created /\ pc'[c] = "idle"
        /\ \A d \in Calls \ {c} : frame'[d] = frame[d] /\ pc'[d] = pc[d]
        /\ UNCHANGED <<messages, exchange, printed>>
    BY <1>15 DEF Leave
  <2> HIDE DEF IInv, TypeOK, Frame, Working, Bystanders, SoleOwner, RowFollowsOwner, RowAt,
              NotYetPosted, PaperFollowsExchange, VerdictsJustified, Justified, Final
  <2> QED
    BY <2>1, LeaveInv
<1> QED
  BY <1>1, <1>2, <1>3, <1>4, <1>5, <1>6, <1>7, <1>8, <1>9, <1>10, <1>11, <1>12,
     <1>13, <1>14, <1>15 DEF Step

LEMMA NextInv == IInv /\ [Next]_vars => IInv'
<1> SUFFICES ASSUME IInv, [Next]_vars, TypeOK'
             PROVE  IInv'
  BY NextTypes DEF IInv
<1>1. CASE \E c \in Calls : Step(c)
  BY <1>1, StepInv
<1> USE DEF IInv, TypeOK, Frame, Bystanders, SoleOwner, RowFollowsOwner, RowAt,
            NotYetPosted, PaperFollowsExchange, VerdictsJustified, Justified, Working,
            InFlight, Final
<1>2. CASE \E c \in Calls, m \in MsgIDs : Process(c, m)
  BY <1>2 DEF Process
<1>3. CASE \E m \in MsgIDs : CupsTakes(m) \/ CupsRefuses(m)
  BY <1>3 DEF CupsTakes, CupsRefuses
<1>4. CASE Restart
  BY <1>4 DEF Restart, Recovered
<1>5. CASE Tick
  BY <1>5 DEF Tick
<1>6. CASE UNCHANGED vars
  BY <1>6 DEF vars
<1> QED
  BY <1>1, <1>2, <1>3, <1>4, <1>5, <1>6 DEF Next

LEMMA InvHolds == Spec => []IInv
  BY InitInv, NextInv, PTL DEF Spec

\* No message is queued twice: whoever delivers it again finds its row, and the
\* one owner posts it once.
THEOREM PrintsAtMostOnce == Spec => []AtMostOnePrint
<1>1. IInv => AtMostOnePrint
  BY DEF IInv, PaperFollowsExchange, AtMostOnePrint
<1> QED
  BY <1>1, InvHolds, PTL

\* A message recorded as rejected is not printed and never will be.
THEOREM RejectionIsTrue == Spec => []RejectedNeverPrints
<1>1. IInv => RejectedNeverPrints
  BY DEF IInv, PaperFollowsExchange, VerdictsJustified, Justified, RejectedNeverPrints
<1> QED
  BY <1>1, InvHolds, PTL

\* A message recorded as accepted is in the printer queue.
THEOREM AcceptanceIsTrue == Spec => []AcceptedWasPrinted
<1>1. IInv => AcceptedWasPrinted
  BY DEF IInv, PaperFollowsExchange, VerdictsJustified, Justified, AcceptedWasPrinted
<1> QED
  BY <1>1, InvHolds, PTL

LEMMA StepForward ==
  ASSUME IInv, [Next]_vars
  PROVE  \A m \in MsgIDs : Forward(messages[m].status, messages'[m].status)
<1> USE DEF Forward, InFlight, Final
<1>1. CASE \E c \in Calls : Step(c) /\ ~Reserve(c) /\ messages' # messages
  <2> PICK c \in Calls : Step(c) /\ ~Reserve(c) /\ messages' # messages
    BY <1>1
  <2>1. PICK v \in Statuses : Transition(Msg(c), v)
    BY DEF Step, ReturnPrevious, CheckPermission, CountRecent, StartDownload, Load,
       StartValidate, Validate, StartSubmit, Enter, CheckFile, Submit, ReadAnswer,
       GiveUp, Finish, StoreFails, Leave, IInv, TypeOK, Frame, Statuses
  <2> QED
    BY <2>1 DEF Step, ReturnPrevious, CheckPermission, CountRecent, StartDownload, Load,
       StartValidate, Validate, StartSubmit, Enter, CheckFile, Submit, ReadAnswer,
       GiveUp, Finish, StoreFails, Leave, Transition, IInv, TypeOK, Bystanders, Working,
       RowFollowsOwner, RowAt, VerdictsJustified
<1>2. CASE \E c \in Calls : Reserve(c)
  BY <1>2 DEF Reserve, Inserts, Stored, IInv, TypeOK
<1>3. CASE messages' = messages
  BY <1>3
<1>4. CASE Restart
  BY <1>4 DEF Restart, Recovered, IInv, TypeOK
<1> QED
  BY <1>1, <1>2, <1>3, <1>4 DEF Next, Process, CupsTakes, CupsRefuses, Tick, vars

\* The status of a row never goes back and never leaves a final value.
THEOREM StatusOnlyMovesForward == Spec => StatusMovesForward
<1>1. IInv /\ [Next]_vars =>
        [\A m \in MsgIDs : Forward(messages[m].status, messages'[m].status)]_messages
  BY StepForward
<1> QED
  BY <1>1, InvHolds, PTL DEF Spec, StatusMovesForward

-----------------------------------------------------------------------------
\* The rate limit

LEMMA SubsetCardinality ==
  ASSUME NEW S \in SUBSET MsgIDs, NEW T \in SUBSET S
  PROVE  Cardinality(T) \in Nat /\ Cardinality(S) \in Nat /\ Cardinality(T) <= Cardinality(S)
  BY FiniteMsgIDs, FS_Subset, FS_CardinalityType

\* A step that admits nobody keeps every user within the limit.
LEMMA NobodyAdmitted ==
  ASSUME RateInv, \A u \in Users : AdmittedRows(u)' \subseteq AdmittedRows(u)
  PROVE  \A u \in Users : Cardinality(AdmittedRows(u))' <= RateLimitCount
<1> TAKE u \in Users
<1>1. AdmittedRows(u) \in SUBSET MsgIDs
  BY DEF AdmittedRows, RecentRows
<1>2. Cardinality(AdmittedRows(u)') <= Cardinality(AdmittedRows(u))
      /\ Cardinality(AdmittedRows(u)') \in Nat /\ Cardinality(AdmittedRows(u)) \in Nat
  BY <1>1, SubsetCardinality
<1> QED
  BY <1>2, ConfigAssumption DEF RateInv

\* The one step that admits a message has counted every message that may be
\* admitted already: each has its row.
LEMMA AdmittedWithinCount ==
  ASSUME IInv, RateInv, NEW c \in Calls, CountRecent(c), Goto(c, "downloading"),
         UNCHANGED frame, NEW u \in Users
  PROVE  Cardinality(AdmittedRows(u))' <= RateLimitCount
<1>1. /\ UNCHANGED <<messages, exchange, printed, now, frame>>
      /\ \A d \in Calls \ {c} : pc'[d] = pc[d]
      /\ Msg(c) \in MsgIDs /\ frame[c].clock \in Nat /\ now \in Nat
      /\ RateLimitWindowMS \in Nat /\ RateLimitCount \in Nat /\ frame[c].clock <= now
  BY ConfigAssumption DEF CountRecent, IInv, TypeOK, Frame, RateInv
<1>2. \A m \in MsgIDs : Admitted(m)' => Admitted(m) \/ m = Msg(c)
  BY <1>1 DEF Admitted, Working
<1>3. \A v \in Users : RecentRows(v, now - RateLimitWindowMS)' = RecentRows(v, now - RateLimitWindowMS)
  BY <1>1 DEF RecentRows, Stored
<1>4. CASE u # UserOf[Msg(c)]
  <2>1. AdmittedRows(u)' \subseteq AdmittedRows(u)
    BY <1>2, <1>3, <1>4 DEF AdmittedRows, RecentRows
  <2>2. AdmittedRows(u) \in SUBSET MsgIDs
    BY DEF AdmittedRows, RecentRows
  <2> QED
    BY <1>1, <2>1, <2>2, SubsetCardinality DEF RateInv
<1>5. CASE u = UserOf[Msg(c)]
  <2> DEFINE Counted == RecentRows(u, frame[c].clock - RateLimitWindowMS)
  <2>1. \A m \in MsgIDs : messages[m].created_at \in Nat
    BY DEF IInv, TypeOK
  <2>2. AdmittedRows(u)' \subseteq Counted
    BY <1>1, <1>3, <2>1 DEF AdmittedRows, RecentRows
  <2>3. ~(Cardinality(Counted) > RateLimitCount)
    BY <1>5 DEF CountRecent, Conclude, IInv, TypeOK, Frame
  <2>4. Counted \in SUBSET MsgIDs
    BY DEF RecentRows
  <2>5. Cardinality(AdmittedRows(u)') <= Cardinality(Counted)
        /\ Cardinality(Counted) \in Nat /\ Cardinality(AdmittedRows(u)') \in Nat
    BY <2>2, <2>4, SubsetCardinality
  <2> QED
    BY <1>1, <2>3, <2>5
<1> QED
  BY <1>4, <1>5 DEF Promise!GiveUp

\* No other step of a call admits a message: a new row is not admitted yet.
LEMMA StepAdmitsNobody ==
  ASSUME IInv, IInv', RateInv, NEW c \in Calls, Step(c), ~CountRecent(c), NEW u \in Users
  PROVE  AdmittedRows(u)' \subseteq AdmittedRows(u)
<1>1. now' = now /\ now \in Nat /\ \A d \in Calls \ {c} : frame'[d] = frame[d] /\ pc'[d] = pc[d]
  BY DEF Step, Reserve, ReturnPrevious, CheckPermission, CountRecent, StartDownload, Load,
     StartValidate, Validate, StartSubmit, Enter, CheckFile, Submit, ReadAnswer, Conclude,
     GiveUp, Finish, StoreFails, Leave, IInv, TypeOK
<1>2. \A m \in MsgIDs : Stored(m) => messages'[m].created_at = messages[m].created_at
  BY DEF Step, Reserve, ReturnPrevious, CheckPermission, CountRecent, StartDownload, Load,
     StartValidate, Validate, StartSubmit, Enter, CheckFile, Submit, ReadAnswer, Inserts,
     Transition, GiveUp, Finish, StoreFails, Leave, IInv, TypeOK
<1>3. \A m \in MsgIDs : Admitted(m)' => Admitted(m)
  <2> SUFFICES ASSUME NEW m \in MsgIDs, Admitted(m)'
               PROVE  Admitted(m)
    OBVIOUS
  <2>1. CASE exchange'[m] # "none" /\ exchange[m] = "none"
    <3>1. pc[c] = "submit" /\ Msg(c) = m
      BY <2>1 DEF Step, Reserve, ReturnPrevious, CheckPermission, CountRecent, StartDownload,
         Load, StartValidate, Validate, StartSubmit, Enter, CheckFile, Submit, ReadAnswer,
         GiveUp, Finish, StoreFails, Leave, IInv, TypeOK
    <3> QED
      BY <3>1 DEF Admitted, Working, IInv, Bystanders
  <2>2. CASE exchange'[m] = exchange[m] /\ exchange[m] = "none"
    <3>1. PICK d \in Calls :
             /\ Working(d)' /\ Msg(d)' = m
             /\ pc'[d] \in {"downloading", "load", "validating", "validate", "submitting", "submit"}
      BY <2>2 DEF Admitted
    <3>2. CASE d # c
      BY <1>1, <3>1, <3>2 DEF Admitted, Working
    <3>3. CASE d = c
      <4>1. /\ pc[c] \in {"downloading", "load", "validating", "validate", "submitting"}
            /\ frame' = frame
        BY <3>1, <3>3 DEF Step, Reserve, ReturnPrevious, CheckPermission, StartDownload,
           Load, StartValidate, Validate, StartSubmit, Enter, CheckFile, Submit, ReadAnswer,
           Conclude, GiveUp, Finish, StoreFails, Leave, IInv, TypeOK
      <4> QED
        BY <3>1, <3>3, <4>1 DEF Admitted, Working
    <3> QED
      BY <3>2, <3>3
  <2> QED
    BY <2>1, <2>2 DEF Admitted
<1>4. \A m \in MsgIDs : Admitted(m) => Stored(m)
  BY DEF Admitted, Stored, IInv, NotYetPosted, RowFollowsOwner, RowAt, InFlight, Exchanges, TypeOK
<1> QED
  BY <1>1, <1>2, <1>3, <1>4 DEF AdmittedRows, RecentRows

LEMMA InitRate == Init => RateInv
<1> SUFFICES ASSUME Init PROVE RateInv
  OBVIOUS
<1>1. \A u \in Users : AdmittedRows(u) = {}
  BY DEF Init, AdmittedRows, RecentRows, Stored, NoRow
<1>2. \A c \in Calls : frame[c].clock <= now
  BY DEF Init
<1>3. Cardinality({}) = 0
  BY FS_EmptySet
<1> QED
  BY <1>1, <1>2, <1>3, ConfigAssumption DEF RateInv

LEMMA NextRate == IInv /\ IInv' /\ RateInv /\ [Next]_vars => RateInv'
<1> SUFFICES ASSUME IInv, IInv', RateInv, [Next]_vars
             PROVE  RateInv'
  OBVIOUS
<1>1. (\A c \in Calls : frame[c].clock <= now)'
  <2> USE DEF IInv, TypeOK, RateInv
  <2>1. CASE \E c \in Calls : Step(c)
    <3> PICK c \in Calls : Step(c)
      BY <2>1
    <3>1. now' = now /\ \A d \in Calls \ {c} : frame'[d] = frame[d]
      BY DEF Step, Reserve, ReturnPrevious, CheckPermission, CountRecent, StartDownload, Load,
         StartValidate, Validate, StartSubmit, Enter, CheckFile, Submit, ReadAnswer,
         Conclude, GiveUp, Finish, StoreFails, Leave
    <3>2. frame'[c].clock \in {frame[c].clock, now, 0}
      BY DEF Step, Reserve, ReturnPrevious, CheckPermission, CountRecent, StartDownload, Load,
         StartValidate, Validate, StartSubmit, Enter, CheckFile, Submit, ReadAnswer,
         Conclude, GiveUp, Finish, StoreFails, Leave, Frame
    <3> QED
      BY <3>1, <3>2
  <2>2. CASE \E c \in Calls, m \in MsgIDs : Process(c, m)
    BY <2>2 DEF Process, Frame
  <2>3. CASE Restart
    BY <2>3 DEF Restart
  <2>4. CASE Tick
    BY <2>4 DEF Tick, Frame
  <2>5. CASE UNCHANGED <<frame, now>>
    BY <2>5
  <2> QED
    BY <2>1, <2>2, <2>3, <2>4, <2>5 DEF Next, CupsTakes, CupsRefuses, vars
<1>2. \A u \in Users : Cardinality(AdmittedRows(u))' <= RateLimitCount
  <2>1. CASE \E c \in Calls : CountRecent(c) /\ Goto(c, "downloading") /\ UNCHANGED frame
    BY <2>1, AdmittedWithinCount
  <2>2. CASE \E c \in Calls : CountRecent(c) /\ Conclude(c, "rejected")
    <3> PICK c \in Calls : CountRecent(c) /\ Conclude(c, "rejected")
      BY <2>2
    <3>1. UNCHANGED <<messages, exchange, now>> /\ pc'[c] = "finish"
          /\ \A d \in Calls \ {c} : frame'[d] = frame[d] /\ pc'[d] = pc[d]
      BY DEF CountRecent, Conclude, IInv, TypeOK
    <3>2. \A m \in MsgIDs : Admitted(m)' => Admitted(m)
      BY <3>1 DEF Admitted, Working
    <3> QED
      BY <3>1, <3>2, NobodyAdmitted DEF AdmittedRows, RecentRows, Stored
  <2>3. CASE \E c \in Calls : Step(c) /\ ~CountRecent(c)
    BY <2>3, StepAdmitsNobody, NobodyAdmitted
  <2>4. CASE \E c \in Calls, m \in MsgIDs : Process(c, m)
    <3> PICK c \in Calls, n \in MsgIDs : Process(c, n)
      BY <2>4
    <3>1. UNCHANGED <<messages, exchange, now>> /\ ~frame'[c].created
          /\ \A d \in Calls \ {c} : frame'[d] = frame[d] /\ pc'[d] = pc[d]
      BY DEF Process, IInv, TypeOK
    <3>2. \A m \in MsgIDs : Admitted(m)' => Admitted(m)
      BY <3>1 DEF Admitted, Working
    <3> QED
      BY <3>1, <3>2, NobodyAdmitted DEF AdmittedRows, RecentRows, Stored
  <2>5. CASE \E m \in MsgIDs : CupsTakes(m) \/ CupsRefuses(m)
    <3>1. \A m \in MsgIDs : exchange'[m] # "none" => exchange[m] # "none"
      BY <2>5 DEF CupsTakes, CupsRefuses, IInv, TypeOK
    <3>2. \A m \in MsgIDs : Admitted(m)' => Admitted(m)
      BY <2>5, <3>1 DEF CupsTakes, CupsRefuses, Admitted, Working
    <3> QED
      BY <2>5, <3>2, NobodyAdmitted DEF CupsTakes, CupsRefuses, AdmittedRows, RecentRows, Stored
  <2>6. CASE Restart
    <3>1. \A m \in MsgIDs : Stored(m)' = Stored(m) /\ messages'[m].created_at = messages[m].created_at
      BY <2>6 DEF Restart, Recovered, Stored, InFlight, IInv, TypeOK
    <3>2. \A m \in MsgIDs : Admitted(m)' => Admitted(m)
      BY <2>6 DEF Restart, Admitted, Working
    <3> QED
      BY <2>6, <3>1, <3>2, NobodyAdmitted DEF Restart, AdmittedRows, RecentRows
  <2>7. CASE Tick
    <3>1. \A m \in MsgIDs : Admitted(m)' => Admitted(m)
      BY <2>7 DEF Tick, Admitted, Working
    <3>2. now' >= now /\ now \in Nat /\ now' \in Nat /\ RateLimitWindowMS \in Nat
          /\ \A m \in MsgIDs : messages[m].created_at \in Nat
      BY <2>7, ConfigAssumption DEF Tick, IInv, TypeOK
    <3> QED
      BY <2>7, <3>1, <3>2, NobodyAdmitted DEF Tick, AdmittedRows, RecentRows, Stored
  <2>8. CASE UNCHANGED vars
    BY <2>8, NobodyAdmitted DEF vars, AdmittedRows, Admitted, RecentRows, Stored, Working
  <2> QED
    BY <2>1, <2>2, <2>3, <2>4, <2>5, <2>6, <2>7, <2>8 DEF CountRecent, Next
<1> QED
  BY <1>1, <1>2 DEF RateInv

\* However the counts and the reservations of concurrent calls interleave, a
\* user gets at most RATE_LIMIT_COUNT messages of a window to the printer.
THEOREM RateLimitHolds == Spec => []RateLimited
<1>1. IInv /\ RateInv => RateLimited
  <2> SUFFICES ASSUME IInv, RateInv, NEW u \in Users
               PROVE  Cardinality({m \in RecentRows(u, now - RateLimitWindowMS) :
                                     exchange[m] # "none"}) <= RateLimitCount
    BY DEF RateLimited
  <2> DEFINE Posted == {m \in RecentRows(u, now - RateLimitWindowMS) : exchange[m] # "none"}
  <2>1. Posted \subseteq AdmittedRows(u) /\ AdmittedRows(u) \in SUBSET MsgIDs
    BY DEF AdmittedRows, Admitted, RecentRows
  <2>2. Cardinality(Posted) <= Cardinality(AdmittedRows(u))
        /\ Cardinality(Posted) \in Nat /\ Cardinality(AdmittedRows(u)) \in Nat
    BY <2>1, SubsetCardinality
  <2> QED
    BY <2>2, ConfigAssumption DEF RateInv
<1>2. Init /\ [][Next]_vars => [](IInv /\ RateInv)
  BY InitInv, NextInv, InitRate, NextRate, PTL
<1> QED
  BY <1>1, <1>2, PTL DEF Spec

-----------------------------------------------------------------------------
\* process implements PrintPromise

\* The verdict that PrintPromise sees.
Verdicts == [m \in MsgIDs |-> IF messages[m].status \in Final THEN messages[m].status ELSE "open"]

LEMMA InitPromise == Init => Promise!Init
  BY DEF Init, Promise!Init, NoRow, Final

\* cups-web taking a message is the abstract Queue: its verdict cannot have been
\* given, or it is the one that promises nothing.
LEMMA TakingPrints ==
  ASSUME IInv, NEW m \in MsgIDs, CupsTakes(m)
  PROVE  Promise!Queue(m)
<1>1. printed[m] = 0
  BY DEF CupsTakes, IInv, PaperFollowsExchange
<1>2. printed' = [printed EXCEPT ![m] = 1]
  BY <1>1 DEF CupsTakes
<1>3. Verdicts[m] \in {"open", "uncertain"}
  BY DEF CupsTakes, IInv, VerdictsJustified, Justified, Final, Verdicts
<1>4. Verdicts' = Verdicts
  BY DEF CupsTakes, Verdicts
<1> QED
  BY <1>1, <1>2, <1>3, <1>4 DEF Promise!Queue, Verdicts

\* Storing the final status is the abstract Decide.
LEMMA FinishingDecides ==
  ASSUME IInv, NEW c \in Calls, Finish(c)
  PROVE  Promise!Decide(Msg(c), frame[c].status)
<1>1. /\ Msg(c) \in MsgIDs /\ Working(c) /\ frame[c].status \in Final
      /\ Justified(frame[c].status, exchange[Msg(c)])
      /\ messages[Msg(c)].status \in InFlight
  BY DEF Finish, IInv, TypeOK, Bystanders, Working, VerdictsJustified, RowFollowsOwner, RowAt
<1>2. Verdicts[Msg(c)] = "open"
  BY <1>1 DEF Verdicts, InFlight, Final
<1>3. Verdicts' = [Verdicts EXCEPT ![Msg(c)] = frame[c].status]
  BY <1>1 DEF Finish, Transition, Verdicts, IInv, TypeOK
<1>4. /\ frame[c].status = "accepted" => printed[Msg(c)] = 1
      /\ frame[c].status = "rejected" => printed[Msg(c)] = 0
  BY <1>1 DEF IInv, PaperFollowsExchange, Justified
<1> QED
  BY <1>2, <1>3, <1>4 DEF Promise!Decide, Verdicts, Finish

\* The recovery of newStore gives up every open verdict at once.
LEMMA RestartGivesUp ==
  ASSUME IInv, Restart
  PROVE  \E S \in SUBSET MsgIDs : Promise!GiveUp(S)
<1> DEFINE S == {m \in MsgIDs : messages[m].status \in InFlight}
<1>1. \A m \in S : Verdicts[m] = "open"
  BY DEF Verdicts, InFlight, Final
<1>2. \A m \in MsgIDs : Verdicts'[m] = IF m \in S THEN "uncertain" ELSE Verdicts[m]
  BY DEF Restart, Recovered, Verdicts, InFlight, Final, IInv, TypeOK
<1>3. Verdicts' = [m \in MsgIDs |-> IF m \in S THEN "uncertain" ELSE Verdicts[m]]
  BY <1>2 DEF Verdicts
<1>4. Promise!GiveUp(S)
  BY <1>1, <1>3 DEF Promise!GiveUp, Verdicts, Restart
<1>5. S \in SUBSET MsgIDs
  OBVIOUS
<1> HIDE DEF S
<1> QED
  BY <1>4, <1>5 DEF Promise!GiveUp

LEMMA OtherStepsStutter ==
  ASSUME IInv, [Next]_vars, \A m \in MsgIDs : ~CupsTakes(m), \A c \in Calls : ~Finish(c), ~Restart
  PROVE  UNCHANGED Promise!vars
<1>1. printed' = printed
  <2>1. CASE \E c \in Calls : Step(c)
    BY <2>1 DEF Step, Reserve, ReturnPrevious, CheckPermission, CountRecent, StartDownload,
       Load, StartValidate, Validate, StartSubmit, Enter, CheckFile, Submit, ReadAnswer,
       GiveUp, StoreFails, Leave
  <2> QED
    BY <2>1 DEF Next, Process, CupsRefuses, Tick, vars
<1>2. \A m \in MsgIDs : messages'[m].status # messages[m].status =>
        messages[m].status \notin Final /\ messages'[m].status \notin Final
  <2>1. CASE UNCHANGED messages
    BY <2>1
  <2>2. CASE \E c \in Calls : Reserve(c)
    BY <2>2 DEF Reserve, Inserts, Stored, Final, IInv, TypeOK
  <2>3. CASE \E c \in Calls : StartDownload(c) \/ StartValidate(c) \/ StartSubmit(c)
    <3> PICK c \in Calls, v \in {"downloading", "validating", "submitting"}, t \in Steps : Enter(c, v, t)
      BY <2>3 DEF StartDownload, StartValidate, StartSubmit, Steps, StoreSteps
    <3>1. Working(c) /\ messages[Msg(c)].status \in InFlight
      BY DEF Enter, IInv, TypeOK, Bystanders, Working, RowFollowsOwner, RowAt, InFlight
    <3> QED
      BY <3>1 DEF Enter, Transition, InFlight, Final, IInv, TypeOK
  <2> QED
    BY <2>1, <2>2, <2>3
    DEF Next, Step, ReturnPrevious, CheckPermission, CountRecent, Load, Validate,
     CheckFile, Submit, ReadAnswer, GiveUp, StoreFails, Leave, Process, CupsRefuses, Tick, vars
<1>3. Verdicts' = Verdicts
  BY <1>2 DEF Verdicts
<1> QED
  BY <1>1, <1>3 DEF Promise!vars, Verdicts

\* Every behaviour of process keeps the promise: printed at most once, and a
\* verdict that is given once and is true.
THEOREM ImplementsPromise == Spec => KeepsPromise
<1>1. IInv /\ [Next]_vars => [Promise!Next]_(Promise!vars)
  <2> SUFFICES ASSUME IInv, [Next]_vars PROVE [Promise!Next]_(Promise!vars)
    OBVIOUS
  <2>1. CASE \E m \in MsgIDs : CupsTakes(m)
    BY <2>1, TakingPrints DEF Promise!Next
  <2>2. CASE \E c \in Calls : Finish(c)
    <3> PICK c \in Calls : Finish(c)
      BY <2>2
    <3>1. Msg(c) \in MsgIDs /\ frame[c].status \in {"accepted", "rejected", "uncertain"}
      BY DEF Finish, IInv, TypeOK, Bystanders, Working, VerdictsJustified, Final
    <3>2. Promise!Decide(Msg(c), frame[c].status)
      BY FinishingDecides
    <3>3. \E m \in MsgIDs, v \in {"accepted", "rejected", "uncertain"} : Promise!Decide(m, v)
      <4> HIDE DEF Msg
      <4> QED
        BY <3>1, <3>2 DEF Promise!Decide
    <3> QED
      BY <3>3 DEF Promise!Next
  <2>3. CASE Restart
    BY <2>3, RestartGivesUp DEF Promise!Next
  <2> QED
    BY <2>1, <2>2, <2>3, OtherStepsStutter
<1> QED
  BY <1>1, InitPromise, InvHolds, PTL DEF Spec, KeepsPromise, Promise!Spec

=============================================================================
