--------------------------- MODULE WecomClientProofs ---------------------------
(***************************************************************************)
(* Proofs about WecomClient, for any number of goroutines, replies and     *)
(* customers, any interval and any number of retries.                      *)
(*                                                                         *)
(* ShownOnce rests on WeCom counting a reply exactly when it knows its id, *)
(* and on answers telling of ids that it knows.  SlotsApart rests on the   *)
(* next free slot being an interval away from every slot taken.            *)
(* PostSurvives rests on counting: a dropped token fails one attempt of a  *)
(* call, and one more each time another goroutine stores it late.          *)
(***************************************************************************)
EXTENDS WecomClient, TLAPS

Id(r) == <<r, 0>>

\* WeCom shows a reply when it learns its id.
ShownWithId == \A r \in Replies : shown[r] = IF Id(r) \in msgids THEN 1 ELSE 0

\* An answer that reports a success is about an id WeCom knows.
ToldTrue(c) ==
  pc[c] \in {"answer", "done"} /\ IsReply(c) /\ Succeeds(c) => Id(frame[c].op) \in msgids

\* A slot that is not long past is an interval before the next free one.
SlotTaken(c) ==
  /\ frame[c].due >= -Interval
  /\ IsReply(c) /\ frame[c].due > -Interval
     => frame[c].due + Interval <= nextReplyAt[CustomerOf[frame[c].op]]

ClientInv ==
  /\ TypeOK
  /\ ShownWithId
  /\ \A c \in Goroutines : ToldTrue(c) /\ SlotTaken(c)
  /\ SlotsApart

PCs == {"done", "slot", "cache", "gettoken", "store", "request", "answer"}

\* What the invariant needs to know of a step of c, which keeps its call and slot.
KeepsCall(c) ==
  /\ accessToken' \in {"none", "good", "bad"}
  /\ nextReplyAt' = nextReplyAt
  /\ pc' \in [Goroutines -> PCs]
  /\ frame' \in [Goroutines -> Frames]
  /\ \A d \in Goroutines : frame'[d].op = frame[d].op /\ frame'[d].due = frame[d].due
  /\ \A d \in Goroutines \ {c} : pc'[d] = pc[d] /\ frame'[d] = frame[d]
  /\ pc'[c] \in {"store", "request"} => frame'[c].token # "none"
  /\ troubles' \in 0 .. 2 /\ relapses' \in [Goroutines -> 0 .. WecomAPIMaxRetries]

LEMMA NoFrameIsFrame == NoFrame \in Frames /\ NoFrame.due = -Interval /\ NoFrame.op \notin Replies
<1>1. Sync \in Ops /\ Sync \notin Replies /\ -Interval \in Int /\ 0 \in 0 .. WecomAPIMaxRetries
  BY ClientAssumption DEF Ops
<1>2. "ok" \in Answers
  BY DEF Answers
<1> QED BY <1>1, <1>2 DEF NoFrame, Frames

\* Both ways on from a failed attempt keep the call, and no token.
LEMMA NextAttemptKeepsCall ==
  ASSUME TypeOK, NEW c \in Goroutines, NextAttempt(c), MayRetry(frame[c].attempt),
         accessToken' \in {"none", "good", "bad"}, nextReplyAt' = nextReplyAt,
         troubles' \in 0 .. 2, relapses' \in [Goroutines -> 0 .. WecomAPIMaxRetries]
  PROVE  KeepsCall(c)
<1> USE ClientAssumption
<1>0. pc \in [Goroutines -> PCs] /\ frame \in [Goroutines -> Frames]
  BY DEF TypeOK, PCs
<1>1. frame' \in [Goroutines -> Frames]
  <2>1. frame'[c] = [op |-> frame[c].op, due |-> frame[c].due,
                     attempt |-> frame[c].attempt + 1, tries |-> 0, token |-> "none",
                     answer |-> "ok"]
    BY <1>0, ZenonT(40) DEF NextAttempt, Frames
  <2>2. frame'[c] \in Frames
    BY <1>0, <2>1 DEF MayRetry, Frames, Answers
  <2> QED BY <1>0, <2>2 DEF NextAttempt
<1>2. \A d \in Goroutines : frame'[d].op = frame[d].op /\ frame'[d].due = frame[d].due
  BY <1>0 DEF NextAttempt, Frames
<1>3. \A d \in Goroutines \ {c} : frame'[d] = frame[d]
  BY <1>0 DEF NextAttempt
<1>4. pc' = [pc EXCEPT ![c] = "cache"]
  BY DEF NextAttempt, Goto
<1> QED BY <1>0, <1>1, <1>2, <1>3, <1>4 DEF KeepsCall, PCs

LEMMA ReturnKeepsCall ==
  ASSUME TypeOK, NEW c \in Goroutines, NEW a \in Answers, Return(c, a),
         accessToken' \in {"none", "good", "bad"}, nextReplyAt' = nextReplyAt,
         troubles' \in 0 .. 2, relapses' \in [Goroutines -> 0 .. WecomAPIMaxRetries]
  PROVE  KeepsCall(c)
<1> USE ClientAssumption
<1>0. pc \in [Goroutines -> PCs] /\ frame \in [Goroutines -> Frames]
  BY DEF TypeOK, PCs
<1>1. frame' \in [Goroutines -> Frames]
  <2>1. frame'[c] = [op |-> frame[c].op, due |-> frame[c].due, attempt |-> 0,
                     tries |-> 0, token |-> "none", answer |-> a]
    BY <1>0, ZenonT(40) DEF Return, Frames
  <2>2. frame'[c] \in Frames
    BY <1>0, <2>1 DEF Frames
  <2> QED BY <1>0, <2>2 DEF Return
<1>2. \A d \in Goroutines : frame'[d].op = frame[d].op /\ frame'[d].due = frame[d].due
  BY <1>0 DEF Return, Frames
<1>3. \A d \in Goroutines \ {c} : frame'[d] = frame[d]
  BY <1>0 DEF Return
<1>4. pc' = [pc EXCEPT ![c] = "done"]
  BY DEF Return, Goto
<1> QED BY <1>0, <1>1, <1>2, <1>3, <1>4 DEF KeepsCall, PCs

\* Each step of a goroutine keeps its call and leaves the others alone.
LEMMA StepKeepsCall ==
  ASSUME TypeOK, NEW c \in Goroutines, Step(c)
  PROVE  KeepsCall(c)
<1> USE ClientAssumption
<1>0. /\ accessToken \in {"none", "good", "bad"} /\ pc \in [Goroutines -> PCs]
      /\ frame \in [Goroutines -> Frames] /\ troubles \in 0 .. 2
      /\ pc[c] \in {"store", "request"} => frame[c].token # "none"
      /\ relapses \in [Goroutines -> 0 .. WecomAPIMaxRetries]
  BY DEF TypeOK, PCs
<1>9. relapses' \in [Goroutines -> 0 .. WecomAPIMaxRetries]
  BY <1>0 DEF Step, Wake, ReadCache, GetToken, StoreToken, Relapse, Handle, Trouble, ReadAnswer
<1>1. CASE Wake(c)
  BY <1>0, <1>9, <1>1 DEF Wake, At, Goto, KeepsCall, PCs
<1>2. CASE ReadCache(c)
  <2>1. /\ pc' \in [Goroutines -> PCs] /\ \A d \in Goroutines \ {c} : pc'[d] = pc[d]
        /\ pc'[c] \in {"store", "request"} => accessToken # "none"
    <3>1. CASE accessToken = "none"
      BY <1>0, <1>9, <1>2, <3>1 DEF ReadCache, Goto, PCs
    <3>2. CASE accessToken # "none"
      BY <1>0, <1>9, <1>2, <3>2 DEF ReadCache, Goto, PCs
    <3> QED BY <3>1, <3>2
  <2>2. frame' = [frame EXCEPT ![c].token = accessToken, ![c].tries = 0]
    BY <1>2 DEF ReadCache
  <2>3. \A d \in Goroutines \ {c} : frame'[d] = frame[d]
    BY <1>0, <1>9, <2>2
  <2>4. frame'[c].token = accessToken /\ frame'[c].op = frame[c].op /\ frame'[c].due = frame[c].due
    BY <1>0, <1>9, <2>2 DEF Frames
  <2>5. frame'[c] = [op |-> frame[c].op, due |-> frame[c].due, attempt |-> frame[c].attempt,
                     tries |-> 0, token |-> accessToken, answer |-> frame[c].answer]
    BY <1>0, <1>9, <2>2 DEF Frames
  <2>6. frame'[c] \in Frames
    BY <1>0, <1>9, <2>5 DEF Frames
  <2>7. frame' \in [Goroutines -> Frames]
    BY <1>0, <1>9, <2>2, <2>6
  <2> QED BY <1>0, <1>9, <1>2, <2>1, <2>3, <2>4, <2>7 DEF ReadCache, KeepsCall
<1>3. CASE GetToken(c)
  <2>1. UNCHANGED <<accessToken, nextReplyAt>> /\ troubles' \in 0 .. 2
    BY <1>0, <1>9, <1>3 DEF GetToken, Trouble
  <2>2. CASE frame' = [frame EXCEPT ![c].token = "good"] /\ Goto(c, "store")
    BY <1>0, <1>9, <2>1, <2>2 DEF Goto, KeepsCall, PCs, Frames
  <2>3. CASE /\ frame' = [frame EXCEPT ![c].tries = @ + 1] /\ MayRetry(frame[c].tries)
             /\ pc[c] = "gettoken" /\ pc' = pc
    BY <1>0, <1>9, <2>1, <2>3 DEF MayRetry, KeepsCall, PCs, Frames
  <2>4. CASE NextAttempt(c) /\ MayRetry(frame[c].attempt)
    BY <1>0, <1>9, <2>1, <2>4, NextAttemptKeepsCall
  <2>5. CASE Return(c, "busy") \/ Return(c, "refused")
    BY <1>0, <1>9, <2>1, <2>5, ReturnKeepsCall DEF Answers
  <2> QED BY <1>3, <2>2, <2>3, <2>4, <2>5 DEF GetToken, At
<1>4. CASE StoreToken(c)
  BY <1>0, <1>9, <1>4 DEF StoreToken, At, Goto, KeepsCall, PCs, Frames
<1>5. CASE Handle(c)
  BY <1>0, <1>9, <1>5 DEF Handle, Goto, Trouble, KeepsCall, PCs, Frames
<1>6. CASE ReadAnswer(c)
  <2>1. accessToken' \in {"none", "good", "bad"} /\ UNCHANGED <<nextReplyAt, troubles>>
    BY <1>0, <1>6 DEF ReadAnswer, Cached
  <2>2. frame[c].answer \in Answers
    BY <1>0 DEF Frames
  <2>3. \/ NextAttempt(c) /\ MayRetry(frame[c].attempt)
        \/ Return(c, frame[c].answer)
    BY <1>6 DEF ReadAnswer
  <2> QED BY <1>0, <1>9, <2>1, <2>2, <2>3, NextAttemptKeepsCall, ReturnKeepsCall
<1> QED BY <1>1, <1>2, <1>3, <1>4, <1>5, <1>6 DEF Step

\* What WeCom shows and tells stays in step with the ids it knows.
KeepsIds(c) ==
  /\ msgids \subseteq msgids' /\ msgids' \subseteq Replies \X (0 .. WecomAPIMaxRetries)
  /\ shown' \in [Replies -> Nat]
  /\ ShownWithId'
  /\ ToldTrue(c)'

LEMMA StepKeepsIds ==
  ASSUME ClientInv, NEW c \in Goroutines, Step(c)
  PROVE  KeepsIds(c)
<1> USE ClientAssumption
<1>0. /\ TypeOK /\ ShownWithId /\ ToldTrue(c)
      /\ pc \in [Goroutines -> PCs] /\ frame \in [Goroutines -> Frames]
      /\ msgids \subseteq Replies \X (0 .. WecomAPIMaxRetries) /\ shown \in [Replies -> Nat]
  BY DEF ClientInv, TypeOK, PCs
<1>1. CASE UNCHANGED <<msgids, shown>>
  <2>1. ShownWithId'
    BY <1>0, <1>1 DEF ShownWithId, Id
  <2>2. ToldTrue(c)'
    <3>1. CASE Wake(c) \/ ReadCache(c) \/ StoreToken(c)
      <4>1. pc'[c] \notin {"answer", "done"}
        BY <1>0, <3>1 DEF Wake, ReadCache, StoreToken, Goto
      <4> QED BY <4>1 DEF ToldTrue
    <3>2. CASE GetToken(c)
      <4>1. \/ pc'[c] \in {"store", "gettoken"}
            \/ NextAttempt(c) \/ Return(c, "busy") \/ Return(c, "refused")
        BY <1>0, <3>2 DEF GetToken, At, Goto
      <4>2. CASE pc'[c] \in {"store", "gettoken"} \/ NextAttempt(c)
        BY <1>0, <4>2 DEF NextAttempt, Goto, ToldTrue
      <4>3. ASSUME NEW a \in {"busy", "refused"}, Return(c, a) PROVE frame'[c].answer = a
        BY <1>0, <4>3 DEF Return, Frames
      <4>4. CASE Return(c, "busy") \/ Return(c, "refused")
        <5>1. frame'[c].answer \in {"busy", "refused"}
          BY <4>3, <4>4
        <5> QED BY <5>1 DEF ToldTrue, Succeeds
      <4> QED BY <4>1, <4>2, <4>4
    <3>3. CASE Handle(c)
      BY <1>0, <1>1, <3>3 DEF Handle, Goto, Accept, MessageID, ToldTrue, IsReply, Succeeds, Id, Frames
    <3>4. CASE ReadAnswer(c)
      BY <1>0, <1>1, <3>4 DEF ReadAnswer, At, Goto, NextAttempt, Return, ToldTrue, IsReply, Succeeds, Id, Frames
    <3> QED BY <3>1, <3>2, <3>3, <3>4 DEF Step
  <2> QED BY <1>0, <1>1, <2>1, <2>2 DEF KeepsIds
<1>2. CASE ~UNCHANGED <<msgids, shown>>
  <2> DEFINE r == frame[c].op
  <2>1. Handle(c) /\ Accept(c)
    BY <1>2 DEF Step, Wake, ReadCache, GetToken, StoreToken, Handle, ReadAnswer
  <2>2. /\ r \in Replies /\ Id(r) \notin msgids
        /\ msgids' = msgids \cup {Id(r)}
        /\ shown' = [shown EXCEPT ![r] = @ + 1]
    BY <1>2, <2>1 DEF Accept, IsReply, MessageID, Id
  <2>3. frame'[c].op = r
    BY StepKeepsCall, <1>0 DEF KeepsCall
  <2>4. \A q \in Replies : Id(q) = Id(r) => q = r
    BY DEF Id
  <2> HIDE DEF r
  <2>5. Id(r) \in Replies \X (0 .. WecomAPIMaxRetries)
    BY <2>2 DEF Id
  <2>6. shown[r] = 0
    BY <1>0, <2>2 DEF ShownWithId
  <2>7. ASSUME NEW q \in Replies PROVE shown'[q] = IF Id(q) \in msgids' THEN 1 ELSE 0
    <3>1. CASE q = r
      BY <1>0, <2>2, <2>6, <3>1
    <3>2. CASE q # r
      BY <1>0, <2>2, <2>4, <3>2 DEF ShownWithId
    <3> QED BY <3>1, <3>2
  <2>8. ShownWithId'
    BY <2>7 DEF ShownWithId, Id
  <2>9. ToldTrue(c)'
    BY <2>2, <2>3 DEF ToldTrue, Id
  <2> QED BY <1>0, <2>2, <2>5, <2>8, <2>9 DEF KeepsIds
<1> QED BY <1>1, <1>2

LEMMA StepKeepsInv ==
  ASSUME ClientInv, NEW c \in Goroutines, Step(c)
  PROVE  ClientInv'
<1>0. TypeOK /\ KeepsCall(c) /\ KeepsIds(c)
  BY StepKeepsCall, StepKeepsIds DEF ClientInv
<1>1. TypeOK'
  <2>1. \A d \in Goroutines : pc'[d] \in {"store", "request"} => frame'[d].token # "none"
    BY <1>0 DEF TypeOK, KeepsCall
  <2> QED BY <1>0, <2>1 DEF TypeOK, KeepsCall, KeepsIds, PCs
<1>2. ASSUME NEW d \in Goroutines PROVE ToldTrue(d)'
  <2>1. CASE d = c
    BY <1>0, <2>1 DEF KeepsIds
  <2>2. CASE d # c
    BY <1>0, <2>2 DEF ClientInv, KeepsIds, KeepsCall, ToldTrue, IsReply, Succeeds, Id
  <2> QED BY <2>1, <2>2
<1>3. ASSUME NEW d \in Goroutines PROVE SlotTaken(d)'
  BY <1>0 DEF ClientInv, KeepsCall, SlotTaken, IsReply
<1>4. SlotsApart'
  BY <1>0 DEF ClientInv, KeepsCall, SlotsApart, IsReply
<1> QED BY <1>0, <1>1, <1>2, <1>3, <1>4 DEF ClientInv, KeepsIds

LEMMA StartKeepsInv ==
  ASSUME ClientInv, NEW c \in Goroutines, NEW op \in Ops, Start(c, op)
  PROVE  ClientInv'
<1> USE ClientAssumption
<1>0. /\ accessToken \in {"none", "good", "bad"} /\ pc \in [Goroutines -> PCs]
      /\ frame \in [Goroutines -> Frames] /\ nextReplyAt \in [Customers -> Nat]
      /\ UNCHANGED <<accessToken, msgids, shown, troubles>>
      /\ relapses' = [relapses EXCEPT ![c] = 0]
      /\ \A d \in Goroutines : pc[d] \in {"store", "request"} => frame[d].token # "none"
  BY DEF ClientInv, TypeOK, PCs, Start
<1> DEFINE due == IF op \in Replies THEN nextReplyAt[CustomerOf[op]] ELSE -Interval
           f   == [NoFrame EXCEPT !.op = op, !.due = due]
<1>1. due \in Int /\ due >= -Interval /\ (op \in Replies => due \in Nat /\ CustomerOf[op] \in Customers)
  BY <1>0 DEF Customers
<1>2. f \in Frames /\ f.op = op /\ f.due = due
  BY <1>1, NoFrameIsFrame DEF Frames
<1>3. /\ frame' = [frame EXCEPT ![c] = f]
      /\ pc' = [pc EXCEPT ![c] = IF op \in Replies THEN "slot" ELSE "cache"]
      /\ nextReplyAt' = IF op \in Replies
                        THEN [nextReplyAt EXCEPT ![CustomerOf[op]] = due + Interval]
                        ELSE nextReplyAt
  <2>1. CASE op \in Replies
    BY <2>1 DEF Start, Goto, NextSlot
  <2>2. CASE op \notin Replies
    <3>1. due = NoFrame.due /\ DOMAIN NoFrame = {"op", "due", "attempt", "tries", "token", "answer"}
      BY <2>2 DEF NoFrame
    <3> HIDE DEF due
    <3>2. [NoFrame EXCEPT !.op = op] = f
      BY <3>1 DEF NoFrame
    <3> QED BY <2>2, <3>2 DEF Start, Goto
  <2> QED BY <2>1, <2>2
<1> HIDE DEF due, f
<1>4. /\ frame' \in [Goroutines -> Frames] /\ frame'[c] = f
      /\ \A d \in Goroutines \ {c} : frame'[d] = frame[d] /\ pc'[d] = pc[d]
      /\ pc' \in [Goroutines -> PCs] /\ pc'[c] \in {"slot", "cache"}
  BY <1>0, <1>2, <1>3 DEF PCs
<1>5. /\ nextReplyAt' \in [Customers -> Nat]
      /\ \A u \in Customers : nextReplyAt'[u] >= nextReplyAt[u]
      /\ op \in Replies => nextReplyAt'[CustomerOf[op]] = due + Interval
  <2>1. CASE op \in Replies
    <3>1. due = nextReplyAt[CustomerOf[op]] /\ due + Interval \in Nat
      BY <1>1, <2>1 DEF due
    <3> QED BY <1>0, <1>1, <1>3, <2>1, <3>1
  <2>2. CASE op \notin Replies
    BY <1>0, <1>3, <2>2
  <2> QED BY <2>1, <2>2
<1>11. relapses' \in [Goroutines -> 0 .. WecomAPIMaxRetries]
  BY <1>0 DEF ClientInv, TypeOK
<1>6. TypeOK'
  BY <1>0, <1>11, <1>4, <1>5 DEF ClientInv, TypeOK, PCs
<1>7. ShownWithId'
  BY <1>0 DEF ClientInv, ShownWithId, Id
<1>8. ASSUME NEW d \in Goroutines PROVE ToldTrue(d)'
  BY <1>0, <1>4 DEF ClientInv, ToldTrue, IsReply, Succeeds, Id
<1>9. ASSUME NEW d \in Goroutines PROVE SlotTaken(d)'
  <2>1. CASE d = c
    BY <1>1, <1>2, <1>4, <1>5, <2>1 DEF SlotTaken, IsReply
  <2>2. CASE d # c
    <3>1. frame'[d] = frame[d] /\ SlotTaken(d) /\ frame[d].due \in Int
      BY <1>0, <1>4, <2>2 DEF ClientInv, Frames
    <3>2. IsReply(d) => CustomerOf[frame[d].op] \in Customers
      BY DEF IsReply, Customers
    <3>3. IsReply(d) =>
            /\ nextReplyAt[CustomerOf[frame[d].op]] \in Nat
            /\ nextReplyAt'[CustomerOf[frame[d].op]] \in Nat
            /\ nextReplyAt'[CustomerOf[frame[d].op]] >= nextReplyAt[CustomerOf[frame[d].op]]
      BY <1>0, <1>5, <3>2
    <3> QED BY <3>1, <3>3 DEF SlotTaken, IsReply
  <2> QED BY <2>1, <2>2
<1>10. SlotsApart'
  <2> SUFFICES ASSUME NEW a \in Goroutines, NEW b \in Goroutines, a # b,
                      IsReply(a)', IsReply(b)',
                      (CustomerOf[frame[a].op] = CustomerOf[frame[b].op])',
                      -Interval < frame'[a].due, frame'[a].due <= frame'[b].due
               PROVE  frame'[b].due - frame'[a].due >= Interval
    BY DEF SlotsApart
  <2>1. CASE a # c /\ b # c
    BY <1>4, <2>1 DEF ClientInv, SlotsApart, IsReply
  <2>2. CASE b = c
    <3>1. op \in Replies /\ frame'[b].due = due /\ due = nextReplyAt[CustomerOf[frame[a].op]]
      BY <1>2, <1>4, <2>2 DEF IsReply, due
    <3>2. frame[a].due + Interval <= due /\ frame[a].due \in Int /\ frame'[a] = frame[a]
      BY <1>0, <1>4, <2>2, <3>1 DEF ClientInv, SlotTaken, IsReply, Frames
    <3> QED BY <1>1, <3>1, <3>2
  <2>3. CASE a = c
    <3>1. op \in Replies /\ frame'[a].due = due /\ due = nextReplyAt[CustomerOf[frame[b].op]]
      BY <1>2, <1>4, <2>3 DEF IsReply, due
    <3>2. frame[b].due \in Int /\ frame'[b] = frame[b] /\ due <= frame[b].due /\ -Interval < due
      BY <1>0, <1>4, <2>3, <3>1 DEF Frames
    <3>3. frame[b].due + Interval <= due
      BY <1>1, <1>4, <2>3, <3>1, <3>2 DEF ClientInv, SlotTaken, IsReply
    <3> QED BY <1>1, <3>1, <3>2, <3>3
  <2> QED BY <2>1, <2>2, <2>3
<1> QED BY <1>6, <1>7, <1>8, <1>9, <1>10 DEF ClientInv

\* The passing of time brings slots nearer and changes nothing between them.
LEMMA TickKeepsInv == ClientInv /\ Tick => ClientInv'
<1> SUFFICES ASSUME ClientInv, Tick PROVE ClientInv'
  OBVIOUS
<1> USE ClientAssumption
<1>0. /\ frame \in [Goroutines -> Frames] /\ nextReplyAt \in [Customers -> Nat]
      /\ UNCHANGED <<accessToken, pc, msgids, shown, troubles, relapses>>
  BY DEF ClientInv, TypeOK, Tick
<1>1. /\ nextReplyAt' \in [Customers -> Nat]
      /\ \A u \in Customers : nextReplyAt'[u] = IF nextReplyAt[u] > 0 THEN nextReplyAt[u] - 1 ELSE 0
  BY <1>0 DEF Tick
<1>2. \A d \in Goroutines : frame[d].due \in Int /\ Earlier(frame[d].due) \in Int
  BY <1>0 DEF Frames, Earlier
<1>3. /\ frame' \in [Goroutines -> Frames]
      /\ \A d \in Goroutines :
           /\ frame'[d].due = Earlier(frame[d].due) /\ frame'[d].op = frame[d].op
           /\ frame'[d].token = frame[d].token /\ frame'[d].answer = frame[d].answer
  BY <1>0, <1>2 DEF Tick, Frames
<1>4. TypeOK'
  BY <1>0, <1>1, <1>3 DEF ClientInv, TypeOK
<1>5. ShownWithId'
  BY <1>0 DEF ClientInv, ShownWithId, Id
<1>6. ASSUME NEW d \in Goroutines PROVE ToldTrue(d)'
  BY <1>0, <1>3 DEF ClientInv, ToldTrue, IsReply, Succeeds, Id
<1>7. ASSUME NEW d \in Goroutines PROVE SlotTaken(d)'
  <2>1. SlotTaken(d) /\ frame[d].due \in Int /\ frame'[d].due = Earlier(frame[d].due)
    BY <1>2, <1>3 DEF ClientInv
  <2>2. frame'[d].due >= -Interval
    BY <2>1 DEF SlotTaken, Earlier
  <2>3. IsReply(d) => CustomerOf[frame[d].op] \in Customers
    BY DEF IsReply, Customers
  <2>4. IsReply(d)' <=> IsReply(d)
    BY <1>3 DEF IsReply
  <2>5. IsReply(d) =>
          /\ nextReplyAt[CustomerOf[frame[d].op]] \in Nat
          /\ nextReplyAt'[CustomerOf[frame'[d].op]] =
               IF nextReplyAt[CustomerOf[frame[d].op]] > 0
               THEN nextReplyAt[CustomerOf[frame[d].op]] - 1 ELSE 0
    BY <1>0, <1>1, <1>3, <2>3
  <2> QED BY <2>1, <2>2, <2>4, <2>5 DEF SlotTaken, Earlier
<1>8. SlotsApart'
  <2> SUFFICES ASSUME NEW a \in Goroutines, NEW b \in Goroutines, a # b,
                      IsReply(a)', IsReply(b)',
                      (CustomerOf[frame[a].op] = CustomerOf[frame[b].op])',
                      -Interval < frame'[a].due, frame'[a].due <= frame'[b].due
               PROVE  frame'[b].due - frame'[a].due >= Interval
    BY DEF SlotsApart
  <2>1. /\ frame[a].due \in Int /\ frame[b].due \in Int
        /\ frame'[a].due = Earlier(frame[a].due) /\ frame'[b].due = Earlier(frame[b].due)
    BY <1>2, <1>3
  <2>2. /\ frame[a].due > -Interval /\ frame'[a].due = frame[a].due - 1
        /\ frame[b].due > -Interval /\ frame'[b].due = frame[b].due - 1
    BY <2>1 DEF Earlier
  <2>3. /\ IsReply(a) /\ IsReply(b) /\ CustomerOf[frame[a].op] = CustomerOf[frame[b].op]
    BY <1>3 DEF IsReply
  <2>4. frame[b].due - frame[a].due >= Interval
    BY <2>1, <2>2, <2>3 DEF ClientInv, SlotsApart
  <2> QED BY <2>1, <2>2, <2>4
<1> QED BY <1>4, <1>5, <1>6, <1>7, <1>8 DEF ClientInv

\* Dropping tokens concerns neither replies nor slots.
LEMMA TokensKeepInv == ClientInv /\ (Expire \/ Revoke) => ClientInv'
<1> SUFFICES ASSUME ClientInv, Expire \/ Revoke PROVE ClientInv'
  OBVIOUS
<1>0. /\ frame \in [Goroutines -> Frames] /\ accessToken \in {"none", "good", "bad"} /\ TypeOK
  BY DEF ClientInv, TypeOK
<1>1. UNCHANGED <<nextReplyAt, pc, msgids, shown>> /\ troubles' \in 0 .. 2
      /\ accessToken' \in {"none", "good", "bad"}
      /\ relapses' \in [Goroutines -> 0 .. WecomAPIMaxRetries]
  BY <1>0, ClientAssumption DEF Expire, Revoke, Revoked, Trouble, TypeOK
<1>2. /\ frame' \in [Goroutines -> Frames]
      /\ \A d \in Goroutines :
           /\ frame'[d].due = frame[d].due /\ frame'[d].op = frame[d].op
           /\ frame'[d].answer = frame[d].answer
           /\ frame[d].token # "none" => frame'[d].token # "none"
  <2>1. CASE Expire
    BY <1>0, <2>1 DEF Expire
  <2>2. CASE Revoke
    BY <1>0, <2>2 DEF Revoke, Revoked, Frames
  <2> QED BY <2>1, <2>2
<1>3. TypeOK'
  BY <1>0, <1>1, <1>2 DEF TypeOK
<1>4. ShownWithId'
  BY <1>1 DEF ClientInv, ShownWithId, Id
<1>5. ASSUME NEW d \in Goroutines PROVE ToldTrue(d)' /\ SlotTaken(d)'
  <2>1. ToldTrue(d) /\ SlotTaken(d)
    BY DEF ClientInv
  <2> QED BY <1>1, <1>2, <2>1 DEF ToldTrue, SlotTaken, IsReply, Succeeds, Id
<1>6. SlotsApart'
  BY <1>2 DEF ClientInv, SlotsApart, IsReply
<1> QED BY <1>3, <1>4, <1>5, <1>6 DEF ClientInv

LEMMA InitClientInv == Init => ClientInv
<1> SUFFICES ASSUME Init PROVE ClientInv
  OBVIOUS
<1> USE ClientAssumption
<1>1. TypeOK
  BY NoFrameIsFrame DEF Init, TypeOK
<1>2. \A c \in Goroutines : frame[c] = NoFrame
  BY DEF Init
<1>3. ShownWithId
  BY DEF Init, ShownWithId
<1> QED BY <1>1, <1>2, <1>3, NoFrameIsFrame DEF ClientInv, ToldTrue, SlotTaken, SlotsApart, IsReply

LEMMA ClientInvHolds == Spec => []ClientInv
<1>1. ClientInv /\ [Next]_vars => ClientInv'
  <2> SUFFICES ASSUME ClientInv, [Next]_vars PROVE ClientInv'
    OBVIOUS
  <2>1. CASE UNCHANGED vars
    BY <2>1 DEF vars, ClientInv, TypeOK, ShownWithId, ToldTrue, SlotTaken, SlotsApart, IsReply, Succeeds, Id
  <2>2. CASE \E c \in Goroutines : Step(c)
    BY <2>2, StepKeepsInv
  <2>3. CASE \E c \in Goroutines, op \in Ops : Start(c, op)
    BY <2>3, StartKeepsInv
  <2> QED BY <2>1, <2>2, <2>3, TickKeepsInv, TokensKeepInv DEF Next
<1> QED BY <1>1, InitClientInv, PTL DEF Spec

\* The types of the client are kept.
THEOREM TypesHold == Spec => []TypeOK
<1>1. ClientInv => TypeOK
  BY DEF ClientInv
<1> QED BY <1>1, ClientInvHolds, PTL

\* However many goroutines send however many replies, with answers lost and requests
\* repeated, no customer sees a reply twice, and none that was reported as sent is
\* missing.
THEOREM RepliesShownOnce == Spec => []ShownOnce
<1>1. ClientInv => ShownOnce
  BY DEF ClientInv, TypeOK, PCs, ShownOnce, ShownWithId, ToldTrue, Sent, At, IsReply, Succeeds
<1> QED BY <1>1, ClientInvHolds, PTL

\* However many goroutines reply to however many customers, with any interval, slots
\* of one customer are an interval apart.
THEOREM SlotsStayApart == Spec => []SlotsApart
<1>1. ClientInv => SlotsApart
  BY DEF ClientInv
<1> QED BY <1>1, ClientInvHolds, PTL

-----------------------------------------------------------------------------
\* A post survives one thing going wrong

NoBad == accessToken # "bad" /\ \A c \in Goroutines : frame[c].token # "bad"

\* The attempt of c under way, or its next one, may fail for the token.
Spoilt(c) == accessToken = "bad" \/ frame[c].token = "bad"

\* The attempts that have failed, and one that may still fail for the token.
Spent(c) == frame[c].attempt + (IF Spoilt(c) THEN 1 ELSE 0)

Fresh(c) ==
  /\ frame[c].attempt = 0 /\ frame[c].tries = 0
  /\ pc[c] \in {"answer", "done"} => Succeeds(c)

\* As long as nothing has gone wrong, nothing is retried.
Calm == NoBad /\ \A c \in Goroutines : Fresh(c)

\* One attempt is spent on what went wrong, and one on each relapse.
Endures(c) ==
  relapses[c] < WecomAPIMaxRetries =>
    /\ Spent(c) <= relapses[c] + 1
    /\ pc[c] = "answer" =>
         /\ frame[c].answer = "token" => frame[c].token = "bad"
         /\ frame[c].answer \in {"lost", "busy"} => NoBad /\ frame[c].attempt = 0
    /\ pc[c] = "done" =>
         /\ frame[c].attempt = 0
         /\ frame[c].op = Media \/ frame[c].answer = "refused" \/ Succeeds(c)

SurvivalInv ==
  /\ troubles = 0 => Calm
  /\ troubles <= 1 => \A c \in Goroutines : Endures(c)

ClientTypes ==
  /\ accessToken \in {"none", "good", "bad"} /\ pc \in [Goroutines -> PCs]
  /\ frame \in [Goroutines -> Frames] /\ troubles \in 0 .. 2
  /\ relapses \in [Goroutines -> 0 .. WecomAPIMaxRetries]

\* The token spoils no more than before.
NoWorse ==
  /\ accessToken' = "bad" => accessToken = "bad"
  /\ NoBad => NoBad'

\* The step of a goroutine leaves the others, unless it goes wrong.
LeavesOthers(c) ==
  /\ \A d \in Goroutines \ {c} : pc'[d] = pc[d] /\ frame'[d] = frame[d]
  /\ troubles <= troubles'
  /\ troubles = troubles' /\ troubles' <= 1 => \A d \in Goroutines \ {c} : relapses'[d] = relapses[d]

\* What the step of c has to leave of its own.
LEMMA StepSurvives ==
  ASSUME ClientTypes, ClientTypes', SurvivalInv, NEW c \in Goroutines, NoWorse,
         LeavesOthers(c), troubles' = 0 => Fresh(c)', troubles' <= 1 => Endures(c)'
  PROVE  SurvivalInv'
<1> USE ClientAssumption
<1>1. ASSUME troubles' = 0 PROVE Calm'
  <2>1. Calm
    BY <1>1 DEF ClientTypes, SurvivalInv, LeavesOthers
  <2>2. ASSUME NEW d \in Goroutines PROVE Fresh(d)'
    <3>1. CASE d = c
      BY <1>1, <3>1
    <3>2. CASE d # c
      BY <2>1, <3>2 DEF Calm, Fresh, Succeeds, LeavesOthers
    <3> QED BY <3>1, <3>2
  <2> QED BY <2>1, <2>2 DEF Calm, NoWorse
<1>2. ASSUME troubles' <= 1, NEW d \in Goroutines PROVE Endures(d)'
  <2>1. CASE d = c
    BY <1>2, <2>1
  <2>2. CASE d # c
    <3>1. pc'[d] = pc[d] /\ frame'[d] = frame[d]
      BY <2>2 DEF LeavesOthers
    <3>2. Spoilt(d)' => Spoilt(d)
      BY <3>1 DEF Spoilt, NoWorse
    <3>3. CASE troubles = 0
      <4>1. Fresh(d) /\ NoBad'
        BY <3>3 DEF SurvivalInv, Calm, NoWorse
      <4>2. relapses'[d] \in Nat
        BY DEF ClientTypes
      <4>3. Spent(d)' <= relapses'[d] + 1
        BY <3>1, <4>1, <4>2 DEF Fresh, Spent
      <4> QED BY <3>1, <4>1, <4>3 DEF Fresh, Endures, Succeeds
    <3>4. CASE troubles # 0
      <4>1. Endures(d) /\ relapses'[d] = relapses[d]
        BY <1>2, <2>2, <3>4 DEF ClientTypes, SurvivalInv, LeavesOthers
      <4>2. frame[d].attempt \in Nat /\ relapses[d] \in Nat
        BY DEF ClientTypes, Frames
      <4>3. Spent(d) <= relapses[d] + 1 => Spent(d)' <= relapses'[d] + 1
        BY <3>1, <3>2, <4>1, <4>2 DEF Spent
      <4> QED BY <3>1, <4>1, <4>3 DEF Endures, NoWorse, Succeeds
    <3> QED BY <3>3, <3>4
  <2> QED BY <2>1, <2>2
<1> QED BY <1>1, <1>2 DEF SurvivalInv

\* A step on the way to the request, that is not on the way back.
LEMMA OnTheWay ==
  ASSUME ClientTypes, ClientTypes', SurvivalInv, NEW c \in Goroutines, NoWorse,
         troubles' = troubles, relapses' = relapses,
         \A d \in Goroutines \ {c} : pc'[d] = pc[d] /\ frame'[d] = frame[d],
         frame'[c].attempt = frame[c].attempt, frame'[c].tries \in {0, frame[c].tries},
         Spoilt(c)' => Spoilt(c), pc'[c] \notin {"answer", "done"}
  PROVE  SurvivalInv'
<1> USE ClientAssumption
<1>1. frame[c].attempt \in Nat /\ relapses[c] \in Nat
  BY DEF ClientTypes, Frames
<1>2. troubles <= 1 => Endures(c)'
  BY <1>1 DEF SurvivalInv, Endures, Spent
<1>3. troubles = 0 => Fresh(c)'
  BY DEF SurvivalInv, Calm, Fresh
<1> QED BY <1>2, <1>3, StepSurvives DEF LeavesOthers, ClientTypes

LEMMA ReadCacheSurvives ==
  ASSUME ClientTypes, ClientTypes', SurvivalInv, NEW c \in Goroutines, ReadCache(c)
  PROVE  SurvivalInv'
<1>1. /\ pc'[c] \in {"gettoken", "request"} /\ accessToken' = accessToken
      /\ frame'[c].token = accessToken /\ frame'[c].attempt = frame[c].attempt
      /\ frame'[c].tries = 0
      /\ \A d \in Goroutines \ {c} : pc'[d] = pc[d] /\ frame'[d] = frame[d]
      /\ troubles' = troubles /\ relapses' = relapses
  BY DEF ClientTypes, Frames, ReadCache, At, Goto
<1>2. NoWorse
  BY <1>1 DEF NoWorse, NoBad
<1>3. Spoilt(c)' => Spoilt(c)
  BY <1>1 DEF Spoilt
<1> QED BY <1>1, <1>2, <1>3, OnTheWay

LEMMA WakeSurvives ==
  ASSUME ClientTypes, ClientTypes', SurvivalInv, NEW c \in Goroutines, Wake(c)
  PROVE  SurvivalInv'
<1>1. /\ pc'[c] = "cache" /\ accessToken' = accessToken /\ frame' = frame
      /\ \A d \in Goroutines \ {c} : pc'[d] = pc[d]
      /\ troubles' = troubles /\ relapses' = relapses
  BY DEF ClientTypes, Wake, At, Goto
<1>2. NoWorse
  BY <1>1 DEF NoWorse, NoBad
<1>3. Spoilt(c)' => Spoilt(c)
  BY <1>1 DEF Spoilt
<1> QED BY <1>1, <1>2, <1>3, OnTheWay

\* A goroutine that starts a call, or ends one, starts counting anew.
LEMMA AnewEndures ==
  ASSUME ClientTypes', NEW c \in Goroutines, frame'[c].attempt = 0, pc'[c] # "answer",
         pc'[c] = "done" => frame'[c].op = Media \/ frame'[c].answer = "refused" \/ Succeeds(c)'
  PROVE  Endures(c)'
<1>1. relapses'[c] \in Nat
  BY DEF ClientTypes
<1>2. Spent(c)' <= relapses'[c] + 1
  BY <1>1 DEF Spent
<1> QED BY <1>2 DEF Endures

\* What a call that returns leaves.
LEMMA ReturnLeaves ==
  ASSUME ClientTypes, NEW c \in Goroutines, NEW a, Return(c, a)
  PROVE  /\ pc'[c] = "done" /\ frame'[c].attempt = 0 /\ frame'[c].tries = 0
         /\ frame'[c].token = "none" /\ frame'[c].answer = a /\ frame'[c].op = frame[c].op
         /\ \A d \in Goroutines \ {c} : pc'[d] = pc[d] /\ frame'[d] = frame[d]
BY DEF ClientTypes, Frames, Return, Goto

LEMMA NextAttemptLeaves ==
  ASSUME ClientTypes, NEW c \in Goroutines, NextAttempt(c)
  PROVE  /\ pc'[c] = "cache" /\ frame'[c].attempt = frame[c].attempt + 1
         /\ frame'[c].tries = 0 /\ frame'[c].token = "none"
         /\ \A d \in Goroutines \ {c} : pc'[d] = pc[d] /\ frame'[d] = frame[d]
BY DEF ClientTypes, Frames, NextAttempt, Goto

\* What goes wrong is counted, and the relapses from then on.
LEMMA TroubleCounts ==
  ASSUME ClientTypes, Trouble
  PROVE  /\ troubles' \in {1, 2} /\ (troubles' = 1 => troubles = 0)
         /\ troubles <= troubles'
         /\ \A c \in Goroutines : relapses'[c] = 0
BY DEF ClientTypes, Trouble

\* The first thing that goes wrong finds the first attempt of c.
LEMMA FirstTrouble ==
  ASSUME ClientTypes, ClientTypes', SurvivalInv, NEW c \in Goroutines, NoWorse, Trouble,
         \A d \in Goroutines \ {c} : pc'[d] = pc[d] /\ frame'[d] = frame[d],
         troubles' = 1 => Endures(c)'
  PROVE  SurvivalInv'
<1>1. troubles' \in {1, 2} /\ (troubles' = 1 => troubles = 0) /\ troubles <= troubles'
  BY TroubleCounts
<1>2. CASE troubles' = 2
  BY <1>2 DEF SurvivalInv
<1>3. CASE troubles' = 1
  <2>1. troubles' <= 1 => Endures(c)'
    BY <1>3
  <2>2. LeavesOthers(c)
    BY <1>1, <1>3 DEF LeavesOthers
  <2> QED BY <1>3, <2>1, <2>2, StepSurvives
<1> QED BY <1>1, <1>2, <1>3

LEMMA GetTokenSurvives ==
  ASSUME ClientTypes, ClientTypes', SurvivalInv, NEW c \in Goroutines, GetToken(c)
  PROVE  SurvivalInv'
<1> USE ClientAssumption
<1>1. pc[c] = "gettoken" /\ accessToken' = accessToken
  BY DEF GetToken, At
<1>2. CASE /\ frame' = [frame EXCEPT ![c].token = "good"]
           /\ Goto(c, "store")
           /\ UNCHANGED <<troubles, relapses>>
  <2>1. /\ pc'[c] = "store" /\ frame'[c].token = "good" /\ frame'[c].attempt = frame[c].attempt
        /\ frame'[c].tries = frame[c].tries
        /\ \A d \in Goroutines \ {c} : pc'[d] = pc[d] /\ frame'[d] = frame[d]
        /\ troubles' = troubles /\ relapses' = relapses
    BY <1>2 DEF ClientTypes, Frames, Goto
  <2>2. NoWorse
    BY <1>1, <2>1 DEF NoWorse, NoBad
  <2>3. Spoilt(c)' => Spoilt(c)
    BY <1>1, <2>1 DEF Spoilt
  <2> QED BY <2>1, <2>2, <2>3, OnTheWay
<1>3. CASE Trouble
  <2>1. CASE frame' = [frame EXCEPT ![c].tries = @ + 1] /\ UNCHANGED pc
    <3>1. /\ pc'[c] = "gettoken" /\ frame'[c].token = frame[c].token
          /\ frame'[c].attempt = frame[c].attempt
          /\ \A d \in Goroutines \ {c} : pc'[d] = pc[d] /\ frame'[d] = frame[d]
      BY <1>1, <2>1 DEF ClientTypes, Frames
    <3>2. NoWorse
      BY <1>1, <3>1 DEF NoWorse, NoBad
    <3>3. troubles' = 1 => Endures(c)'
      <4>1. troubles' = 1 => frame[c].attempt = 0
        BY <1>3, TroubleCounts DEF SurvivalInv, Calm, Fresh
      <4> QED BY <3>1, <4>1, AnewEndures
    <3> QED BY <1>3, <3>1, <3>2, <3>3, FirstTrouble
  <2>2. CASE NextAttempt(c) /\ ~MayRetry(frame[c].tries)
    <3>1. /\ pc'[c] = "cache" /\ frame'[c].token = "none"
          /\ \A d \in Goroutines \ {c} : pc'[d] = pc[d] /\ frame'[d] = frame[d]
      BY <2>2, NextAttemptLeaves
    <3>2. NoWorse
      BY <1>1, <3>1 DEF NoWorse, NoBad
    <3>3. troubles' = 1 => Endures(c)'
      <4>1. troubles' = 1 => frame[c].tries = 0 /\ relapses'[c] = 0
        BY <1>3, TroubleCounts DEF SurvivalInv, Calm, Fresh
      <4> QED BY <2>2, <4>1 DEF MayRetry, Endures
    <3> QED BY <1>3, <3>1, <3>2, <3>3, FirstTrouble
  <2>3. CASE \/ Return(c, "busy") /\ ~MayRetry(frame[c].tries)
             \/ Return(c, "refused")
    <3>1. /\ pc'[c] = "done" /\ frame'[c].attempt = 0 /\ frame'[c].token = "none"
          /\ \A d \in Goroutines \ {c} : pc'[d] = pc[d] /\ frame'[d] = frame[d]
      BY <2>3, ReturnLeaves
    <3>2. NoWorse
      BY <1>1, <3>1 DEF NoWorse, NoBad
    <3>3. troubles' = 1 => Endures(c)'
      <4>1. troubles' = 1 => frame[c].tries = 0 /\ relapses'[c] = 0
        BY <1>3, TroubleCounts DEF SurvivalInv, Calm, Fresh
      <4>2. CASE Return(c, "refused")
        <5>1. frame'[c].answer = "refused"
          BY <4>2, ReturnLeaves
        <5> QED BY <3>1, <5>1, AnewEndures
      <4>3. CASE ~MayRetry(frame[c].tries)
        BY <4>1, <4>3 DEF MayRetry, Endures
      <4> QED BY <2>3, <4>2, <4>3
    <3> QED BY <1>3, <3>1, <3>2, <3>3, FirstTrouble
  <2> QED BY <1>2, <2>1, <2>2, <2>3 DEF GetToken
<1> QED BY <1>2, <1>3 DEF GetToken

LEMMA StoreTokenSurvives ==
  ASSUME ClientTypes, ClientTypes', SurvivalInv, NEW c \in Goroutines, StoreToken(c)
  PROVE  SurvivalInv'
<1> USE ClientAssumption
<1>1. /\ pc[c] = "store" /\ pc'[c] = "request" /\ accessToken' = frame[c].token
      /\ frame'[c].token = frame[c].token /\ frame'[c].attempt = frame[c].attempt
      /\ frame'[c].tries = 0 /\ troubles' = troubles
      /\ \A d \in Goroutines \ {c} : pc'[d] = pc[d] /\ frame'[d] = frame[d]
  BY DEF ClientTypes, Frames, StoreToken, At, Goto
<1>2. CASE frame[c].token # "bad"
  <2>1. relapses' = relapses
    BY <1>2 DEF StoreToken
  <2>2. NoWorse
    BY <1>1, <1>2 DEF NoWorse, NoBad
  <2>3. Spoilt(c)' => Spoilt(c)
    BY <1>1, <1>2 DEF Spoilt
  <2> QED BY <1>1, <2>1, <2>2, <2>3, OnTheWay
<1>3. CASE frame[c].token = "bad"
  <2>1. troubles # 0 /\ ~NoBad
    BY <1>3 DEF SurvivalInv, Calm, NoBad
  <2>2. ASSUME troubles <= 1, NEW d \in Goroutines PROVE Endures(d)'
    <3>1. Endures(d)
      BY <2>2 DEF SurvivalInv
    <3>2. frame[d].attempt \in Nat /\ frame'[d].attempt = frame[d].attempt /\ relapses[d] \in Nat
      BY <1>1 DEF ClientTypes, Frames
    <3>3. Relapse(c)
      BY <1>3, <2>2 DEF StoreToken, ClientTypes
    <3>4. CASE d = c
      <4>1. relapses'[d] = relapses[d]
        BY <3>3, <3>4 DEF Relapse
      <4>2. Spoilt(d)
        BY <1>3, <3>4 DEF Spoilt
      <4>3. Spent(d) <= relapses[d] + 1 => Spent(d)' <= relapses'[d] + 1
        BY <3>2, <4>1, <4>2 DEF Spent
      <4> QED BY <1>1, <3>1, <3>4, <4>1, <4>3 DEF Endures
    <3>5. CASE d # c
      <4>1. pc'[d] = pc[d] /\ frame'[d] = frame[d]
        BY <1>1, <3>5
      <4>2. CASE pc[d] = "done"
        <5>1. relapses'[d] = relapses[d]
          BY <3>3, <4>2 DEF Relapse, At
        <5>2. relapses[d] < WecomAPIMaxRetries => frame[d].attempt = 0
          BY <3>1, <4>2 DEF Endures
        <5> QED BY <3>1, <3>2, <4>1, <4>2, <5>1, <5>2 DEF Endures, Spent, Succeeds
      <4>3. CASE pc[d] # "done" /\ relapses[d] < WecomAPIMaxRetries
        <5>1. relapses'[d] = relapses[d] + 1
          BY <3>3, <3>5, <4>3 DEF Relapse, At
        <5>2. Spent(d) <= relapses[d] + 1
          BY <3>1, <4>3 DEF Endures
        <5>3. Spent(d)' <= relapses'[d] + 1
          BY <3>2, <5>1, <5>2 DEF Spent
        <5> QED BY <2>1, <3>1, <4>1, <4>3, <5>3 DEF Endures
      <4>4. CASE pc[d] # "done" /\ ~(relapses[d] < WecomAPIMaxRetries)
        <5>1. relapses'[d] = relapses[d]
          BY <3>3, <4>4 DEF Relapse
        <5> QED BY <4>4, <5>1 DEF Endures
      <4> QED BY <4>2, <4>3, <4>4
    <3> QED BY <3>4, <3>5
  <2> QED BY <1>1, <2>1, <2>2 DEF SurvivalInv
<1> QED BY <1>2, <1>3

LEMMA HandleSurvives ==
  ASSUME ClientTypes, ClientTypes', SurvivalInv, NEW c \in Goroutines, Handle(c)
  PROVE  SurvivalInv'
<1> USE ClientAssumption
<1>1. PICK a \in Answers :
        /\ frame' = [frame EXCEPT ![c].answer = a]
        /\ a = "token" => frame[c].token = "bad"
        /\ IF a \in {"ok", "repeated", "token"} THEN UNCHANGED <<troubles, relapses>> ELSE Trouble
  BY DEF Handle
<1>2. /\ pc[c] = "request" /\ pc'[c] = "answer" /\ accessToken' = accessToken
      /\ frame'[c].token = frame[c].token /\ frame'[c].attempt = frame[c].attempt
      /\ frame'[c].tries = frame[c].tries /\ frame'[c].answer = a
      /\ \A d \in Goroutines \ {c} : pc'[d] = pc[d] /\ frame'[d] = frame[d]
  BY <1>1 DEF ClientTypes, Frames, Handle, At, Goto
<1>3. NoWorse
  BY <1>2 DEF NoWorse, NoBad
<1>4. Spoilt(c)' <=> Spoilt(c)
  BY <1>2 DEF Spoilt
<1>5. frame[c].attempt \in Nat /\ relapses[c] \in Nat
  BY DEF ClientTypes, Frames
<1>6. CASE a \in {"ok", "repeated", "token"}
  <2>1. troubles' = troubles /\ relapses' = relapses
    BY <1>1, <1>6
  <2>2. troubles <= 1 => Endures(c)'
    <3> SUFFICES ASSUME troubles <= 1, relapses[c] < WecomAPIMaxRetries
                 PROVE  Endures(c)'
      BY <2>1 DEF Endures
    <3>1. Spent(c) <= relapses[c] + 1
      BY DEF SurvivalInv, Endures
    <3>2. Spent(c)' <= relapses'[c] + 1
      BY <1>2, <1>4, <1>5, <2>1, <3>1 DEF Spent
    <3> QED BY <1>1, <1>2, <1>6, <3>2 DEF Endures
  <2>3. troubles = 0 => Fresh(c)'
    <3> SUFFICES ASSUME troubles = 0 PROVE Fresh(c)'
      OBVIOUS
    <3>1. Calm /\ a # "token"
      BY <1>1 DEF SurvivalInv, Calm, NoBad
    <3> QED BY <1>2, <1>6, <3>1 DEF Calm, Fresh, Succeeds
  <2> QED BY <1>2, <1>3, <2>1, <2>2, <2>3, StepSurvives DEF LeavesOthers, ClientTypes
<1>7. CASE a \notin {"ok", "repeated", "token"}
  <2>1. Trouble
    BY <1>1, <1>7
  <2>2. troubles' = 1 => Endures(c)'
    <3> SUFFICES ASSUME troubles' = 1 PROVE Endures(c)'
      OBVIOUS
    <3>1. Calm /\ relapses'[c] = 0
      BY <2>1, TroubleCounts DEF SurvivalInv
    <3>2. NoBad' /\ frame'[c].attempt = 0
      BY <1>2, <1>3, <3>1 DEF Calm, Fresh, NoWorse
    <3>3. Spent(c)' <= relapses'[c] + 1
      BY <3>1, <3>2 DEF Spent
    <3> QED BY <1>2, <1>7, <3>2, <3>3 DEF Endures
  <2> QED BY <1>2, <1>3, <2>1, <2>2, FirstTrouble
<1> QED BY <1>6, <1>7

LEMMA ReadAnswerSurvives ==
  ASSUME ClientTypes, ClientTypes', SurvivalInv, NEW c \in Goroutines, ReadAnswer(c)
  PROVE  SurvivalInv'
<1> USE ClientAssumption
<1>1. /\ pc[c] = "answer" /\ accessToken' = Cached(c) /\ troubles' = troubles
      /\ Cached(c) = accessToken \/ Cached(c) = "none"
      /\ frame[c].answer \in Answers /\ frame[c].attempt \in Nat
      /\ relapses' = relapses /\ relapses[c] \in Nat
  BY DEF ReadAnswer, At, Cached, ClientTypes, Frames
<1>2. troubles <= 1 => Endures(c)
  BY DEF SurvivalInv
<1>3. troubles <= 1 /\ relapses[c] < WecomAPIMaxRetries
      => /\ frame[c].answer = "token" => frame[c].token = "bad" /\ Spoilt(c)
         /\ frame[c].answer \in {"lost", "busy"} => NoBad /\ frame[c].attempt = 0
         /\ Spent(c) <= relapses[c] + 1
  BY <1>1, <1>2 DEF Endures, Spoilt
<1>4. CASE ~Succeeds(c) /\ Retryable(c) /\ MayRetry(frame[c].attempt)
  <2>1. NextAttempt(c)
    BY <1>4 DEF ReadAnswer
  <2>2. /\ pc'[c] = "cache" /\ frame'[c].attempt = frame[c].attempt + 1
        /\ frame'[c].tries = 0 /\ frame'[c].token = "none"
        /\ \A d \in Goroutines \ {c} : pc'[d] = pc[d] /\ frame'[d] = frame[d]
    BY <2>1, NextAttemptLeaves
  <2>3. NoWorse
    BY <1>1, <2>2 DEF NoWorse, NoBad
  <2>4. troubles # 0
    BY <1>1, <1>4 DEF SurvivalInv, Calm, Fresh
  <2>5. troubles <= 1 => Endures(c)'
    <3> SUFFICES ASSUME troubles <= 1, relapses[c] < WecomAPIMaxRetries
                 PROVE  Endures(c)'
      BY <1>1 DEF Endures
    <3>1. CASE frame[c].answer = "token"
      <4>1. Cached(c) = "none"
        BY <1>4, <3>1 DEF Retryable, Cached
      <4>2. ~Spoilt(c)'
        BY <1>1, <2>2, <4>1 DEF Spoilt
      <4>3. frame[c].attempt + 1 <= relapses[c] + 1
        BY <1>3, <3>1 DEF Spent
      <4>4. Spent(c)' <= relapses'[c] + 1
        BY <1>1, <2>2, <4>2, <4>3 DEF Spent
      <4> QED BY <2>2, <4>4 DEF Endures
    <3>2. CASE frame[c].answer \in {"lost", "busy"}
      <4>1. NoBad' /\ frame[c].attempt = 0
        BY <1>3, <2>3, <3>2 DEF NoWorse
      <4>2. ~Spoilt(c)'
        BY <4>1 DEF NoBad, Spoilt
      <4>3. Spent(c)' <= relapses'[c] + 1
        BY <1>1, <2>2, <4>1, <4>2 DEF Spent
      <4> QED BY <2>2, <4>3 DEF Endures
    <3> QED BY <1>4, <3>1, <3>2 DEF Retryable
  <2> QED BY <1>1, <2>2, <2>3, <2>4, <2>5, StepSurvives DEF LeavesOthers, ClientTypes
<1>5. CASE ~(~Succeeds(c) /\ Retryable(c) /\ MayRetry(frame[c].attempt))
  <2>1. Return(c, frame[c].answer)
    BY <1>5 DEF ReadAnswer
  <2>2. /\ pc'[c] = "done" /\ frame'[c].attempt = 0 /\ frame'[c].tries = 0
        /\ frame'[c].token = "none" /\ frame'[c].answer = frame[c].answer
        /\ frame'[c].op = frame[c].op
        /\ \A d \in Goroutines \ {c} : pc'[d] = pc[d] /\ frame'[d] = frame[d]
    BY <2>1, ReturnLeaves
  <2>3. NoWorse
    BY <1>1, <2>2 DEF NoWorse, NoBad
  <2>4. troubles = 0 => Fresh(c)'
    BY <1>1, <2>2 DEF SurvivalInv, Calm, Fresh, Succeeds
  <2>5. troubles <= 1 => Endures(c)'
    <3> SUFFICES ASSUME troubles <= 1, relapses[c] < WecomAPIMaxRetries,
                        frame[c].op # Media, frame[c].answer # "refused"
                 PROVE  Succeeds(c)
      <4>1. CASE relapses[c] < WecomAPIMaxRetries
        BY <2>2, <4>1, AnewEndures DEF Succeeds
      <4>2. CASE ~(relapses[c] < WecomAPIMaxRetries)
        BY <1>1, <4>2 DEF Endures
      <4> QED BY <4>1, <4>2
    <3>1. ASSUME ~Succeeds(c) PROVE FALSE
      <4>1. frame[c].answer \in {"token", "lost", "busy"} /\ Retryable(c)
        BY <1>1, <3>1 DEF Answers, Succeeds, Retryable
      <4>2. frame[c].attempt <= relapses[c]
        BY <1>1, <1>3, <4>1 DEF Spent
      <4> QED BY <1>1, <1>5, <3>1, <4>1, <4>2 DEF MayRetry
    <3> QED BY <3>1
  <2> QED BY <1>1, <2>2, <2>3, <2>4, <2>5, StepSurvives DEF LeavesOthers, ClientTypes
<1> QED BY <1>4, <1>5

LEMMA StartSurvives ==
  ASSUME ClientTypes, ClientTypes', SurvivalInv, NEW c \in Goroutines, NEW op \in Ops,
         Start(c, op)
  PROVE  SurvivalInv'
<1>1. /\ accessToken' = accessToken /\ troubles' = troubles
      /\ \E s \in {"slot", "cache"} : Goto(c, s)
      /\ \A d \in Goroutines \ {c} : relapses'[d] = relapses[d]
  BY DEF Start, ClientTypes
<1>2. \E f : /\ frame' = [frame EXCEPT ![c] = f]
             /\ f.token = "none" /\ f.attempt = 0 /\ f.tries = 0
  <2>1. CASE op \in Replies
    <3> DEFINE f == [NoFrame EXCEPT !.op = op, !.due = nextReplyAt[CustomerOf[op]]]
    <3>1. frame' = [frame EXCEPT ![c] = f]
      BY <2>1 DEF Start
    <3>2. f.token = "none" /\ f.attempt = 0 /\ f.tries = 0
      BY DEF NoFrame
    <3> HIDE DEF f
    <3> QED BY <3>1, <3>2
  <2>2. CASE op \notin Replies
    <3> DEFINE f == [NoFrame EXCEPT !.op = op]
    <3>1. frame' = [frame EXCEPT ![c] = f]
      BY <2>2 DEF Start
    <3>2. f.token = "none" /\ f.attempt = 0 /\ f.tries = 0
      BY DEF NoFrame
    <3> HIDE DEF f
    <3> QED BY <3>1, <3>2
  <2> QED BY <2>1, <2>2
<1>3. /\ frame'[c].token = "none" /\ frame'[c].attempt = 0 /\ frame'[c].tries = 0
      /\ \A d \in Goroutines \ {c} : frame'[d] = frame[d]
  BY <1>2 DEF ClientTypes
<1>4. pc'[c] \in {"slot", "cache"} /\ \A d \in Goroutines \ {c} : pc'[d] = pc[d]
  BY <1>1 DEF ClientTypes, Goto
<1>5. NoWorse
  BY <1>1, <1>3 DEF NoWorse, NoBad
<1>6. Endures(c)'
  BY <1>3, <1>4, AnewEndures
<1>7. Fresh(c)'
  BY <1>3, <1>4 DEF Fresh
<1> QED BY <1>1, <1>3, <1>4, <1>5, <1>6, <1>7, StepSurvives DEF LeavesOthers, ClientTypes

\* What passes by all goroutines at once and leaves their calls as they are.
LEMMA AllEndure ==
  ASSUME ClientTypes, SurvivalInv, NoWorse, pc' = pc, troubles' = troubles,
         relapses' = relapses,
         \A c \in Goroutines :
           /\ frame'[c].op = frame[c].op /\ frame'[c].attempt = frame[c].attempt
           /\ frame'[c].tries = frame[c].tries /\ frame'[c].token = frame[c].token
           /\ frame'[c].answer = frame[c].answer
  PROVE  SurvivalInv'
<1> USE ClientAssumption
<1>1. ASSUME troubles = 0 PROVE Calm'
  BY <1>1 DEF SurvivalInv, Calm, Fresh, NoWorse, Succeeds
<1>2. ASSUME troubles <= 1, NEW c \in Goroutines PROVE Endures(c)'
  <2>1. Endures(c)
    BY <1>2 DEF SurvivalInv
  <2>2. Spoilt(c)' => Spoilt(c)
    BY DEF Spoilt, NoWorse
  <2>3. frame[c].attempt \in Nat /\ relapses[c] \in Nat
    BY DEF ClientTypes, Frames
  <2>4. Spent(c) <= relapses[c] + 1 => Spent(c)' <= relapses'[c] + 1
    BY <2>2, <2>3 DEF Spent
  <2> QED BY <2>1, <2>4 DEF Endures, NoWorse, Succeeds
<1> QED BY <1>1, <1>2 DEF SurvivalInv

LEMMA TickSurvives ==
  ASSUME ClientTypes, SurvivalInv, Tick
  PROVE  SurvivalInv'
<1>1. /\ accessToken' = accessToken /\ pc' = pc /\ troubles' = troubles /\ relapses' = relapses
      /\ \A c \in Goroutines :
           /\ frame'[c].op = frame[c].op /\ frame'[c].attempt = frame[c].attempt
           /\ frame'[c].tries = frame[c].tries /\ frame'[c].token = frame[c].token
           /\ frame'[c].answer = frame[c].answer
  BY DEF Tick, ClientTypes, Frames
<1>2. NoWorse
  BY <1>1 DEF NoWorse, NoBad
<1> QED BY <1>1, <1>2, AllEndure

LEMMA ExpireSurvives ==
  ASSUME ClientTypes, SurvivalInv, Expire
  PROVE  SurvivalInv'
<1>1. /\ accessToken' = "none" /\ pc' = pc /\ frame' = frame /\ troubles' = troubles
      /\ relapses' = relapses
  BY DEF Expire
<1>2. NoWorse
  BY <1>1 DEF NoWorse, NoBad
<1> QED BY <1>1, <1>2, AllEndure

LEMMA RevokeSurvives ==
  ASSUME ClientTypes, SurvivalInv, Revoke
  PROVE  SurvivalInv'
<1>1. /\ troubles' \in {1, 2} /\ (troubles' = 1 => troubles = 0)
      /\ \A c \in Goroutines : relapses'[c] = 0
  BY TroubleCounts DEF Revoke
<1>2. ASSUME troubles = 0, NEW c \in Goroutines PROVE Endures(c)'
  <2>1. Fresh(c)
    BY <1>2 DEF SurvivalInv, Calm
  <2>2. /\ pc' = pc /\ frame'[c].attempt = frame[c].attempt
        /\ frame'[c].answer = frame[c].answer /\ frame'[c].op = frame[c].op
    BY DEF Revoke, ClientTypes, Frames
  <2>3. Spent(c)' <= relapses'[c] + 1
    BY <1>1, <2>1, <2>2 DEF Spent, Fresh
  <2>4. pc'[c] \in {"answer", "done"} => Succeeds(c)' /\ frame'[c].answer \notin {"token", "lost", "busy"}
    BY <2>1, <2>2 DEF Fresh, Succeeds
  <2> QED BY <2>1, <2>2, <2>3, <2>4 DEF Endures, Fresh
<1> QED BY <1>1, <1>2 DEF SurvivalInv

LEMMA SurvivalInvHolds == Spec => []SurvivalInv
<1>1. Init => SurvivalInv
  <2> SUFFICES ASSUME Init PROVE SurvivalInv
    OBVIOUS
  <2>1. /\ accessToken = "none" /\ troubles = 0
        /\ \A c \in Goroutines : frame[c] = NoFrame /\ pc[c] = "done" /\ relapses[c] = 0
    BY DEF Init
  <2>2. Calm
    BY <2>1 DEF Calm, NoBad, Fresh, Succeeds, NoFrame
  <2>3. ASSUME NEW c \in Goroutines PROVE Endures(c)
    <3>1. frame[c].attempt = 0 /\ pc[c] = "done" /\ Succeeds(c) /\ relapses[c] = 0
      BY <2>1 DEF NoFrame, Succeeds
    <3> QED BY <3>1 DEF Endures, Spent
  <2> QED BY <2>2, <2>3 DEF SurvivalInv
<1>2. ClientInv /\ ClientInv' /\ SurvivalInv /\ [Next]_vars => SurvivalInv'
  <2> SUFFICES ASSUME ClientInv, ClientInv', SurvivalInv, [Next]_vars PROVE SurvivalInv'
    OBVIOUS
  <2>1. ClientTypes /\ ClientTypes'
    BY DEF ClientInv, TypeOK, ClientTypes, PCs
  <2>2. CASE UNCHANGED vars
    <3>1. NoWorse
      BY <2>2 DEF vars, NoWorse, NoBad
    <3> QED BY <2>1, <2>2, <3>1, AllEndure DEF vars
  <2>3. CASE \E c \in Goroutines : Step(c)
    BY <2>1, <2>3, WakeSurvives, ReadCacheSurvives, GetTokenSurvives, StoreTokenSurvives,
       HandleSurvives, ReadAnswerSurvives DEF Step
  <2>4. CASE \E c \in Goroutines, op \in Ops : Start(c, op)
    BY <2>1, <2>4, StartSurvives
  <2>5. CASE Tick
    BY <2>1, <2>5, TickSurvives
  <2>6. CASE Expire
    BY <2>1, <2>6, ExpireSurvives
  <2>7. CASE Revoke
    BY <2>1, <2>7, RevokeSurvives
  <2> QED BY <2>2, <2>3, <2>4, <2>5, <2>6, <2>7 DEF Next
<1> QED BY <1>1, <1>2, ClientInvHolds, PTL DEF Spec

\* For any number of goroutines and any number of retries: one retry makes up for one
\* thing going wrong, whichever it is, and one more for each time another goroutine
\* caches the dropped token again; then no post fails but by WeCom's refusal.
THEOREM PostsSurvive == Spec => []PostSurvives
<1>1. ClientInv /\ SurvivalInv => PostSurvives
  BY DEF ClientInv, TypeOK, SurvivalInv, Endures, PostSurvives, At
<1> QED BY <1>1, ClientInvHolds, SurvivalInvHolds, PTL

=============================================================================
