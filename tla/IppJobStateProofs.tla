--------------------------- MODULE IppJobStateProofs ---------------------------
(***************************************************************************)
(* Proofs about the walk of IppJobState, for every answer there can be and *)
(* every name.                                                             *)
(*                                                                         *)
(* The walk ends since it gets ahead in an answer that has an end; that it *)
(* never reads outside the answer rests on where each step leaves the      *)
(* offset.  That it tells what CUPS wrote rests on the places of the       *)
(* items: in an answer that is laid out, each step leaves the walk at an   *)
(* item, or at the name or value of one, and no item before it has said    *)
(* anything of the job.                                                    *)
(***************************************************************************)
EXTENDS IppJobState, SequenceTheorems, TLAPS

Places == {"header", "tag", "name", "value", "done"}

Outcomes == {"none", "pending", "processing", "failed", "completed", "unknown", "error"}

\* How much of the answer each step can count on.
Foothold ==
  /\ At("header") => walk.offset = 0
  /\ At("name") => walk.offset <= Len(raw)
  /\ At("value") => walk.offset + 2 <= Len(raw)

IppInv ==
  /\ raw \in Seq(Byte)
  /\ walk \in [at : Places, offset : Nat, isJobState : BOOLEAN, outcome : Outcomes]
  /\ Foothold

\* A length in the answer is a natural number.
LEMMA LengthIsNat ==
  ASSUME raw \in Seq(Byte), NEW lo \in Nat, lo + 2 <= Len(raw)
  PROVE  Uint16At(lo) \in Nat
<1>1. lo + 1 \in 1 .. Len(raw) /\ lo + 2 \in 1 .. Len(raw)
  OBVIOUS
<1>2. raw[lo + 1] \in Byte /\ raw[lo + 2] \in Byte
  BY <1>1
<1>3. \A a, b \in Byte : 256 * a + b \in Nat
  BY DEF Byte
<1> QED BY <1>2, <1>3 DEF Uint16At

\* The walk ends with an outcome.
Ends == \E o \in Outcomes : Finish(o)

\* The walk goes on further ahead, at a place it can count on.
Moves(at, offset, is) ==
  /\ at \in Places /\ offset \in Nat /\ is \in BOOLEAN
  /\ walk' = Walk(at, offset, is)
  /\ offset > walk.offset
  /\ at # "header"
  /\ at = "name" => offset <= Len(raw)
  /\ at = "value" => offset + 2 <= Len(raw)

GetsAhead == \E at, offset, is : Moves(at, offset, is)

\* Every state of a job is an outcome.
LEMMA StateIsOutcome == \A value : StateOf(value) \in Outcomes \ {"none"}
<1> TAKE value
<1>1. StateOf(value) \in {"pending", "processing", "failed", "completed", "unknown"}
  BY Zenon DEF StateOf
<1> QED BY <1>1 DEF Outcomes

\* Every step ends the walk or gets ahead.
LEMMA StepGetsAhead == IppInv /\ IppNext => Ends \/ GetsAhead
<1> SUFFICES ASSUME IppInv, IppNext PROVE Ends \/ GetsAhead
  OBVIOUS
<1>1. /\ walk.offset \in Nat /\ raw \in Seq(Byte) /\ Len(raw) \in Nat
      /\ At("header") => walk.offset = 0
      /\ At("value") => walk.offset + 2 <= Len(raw)
  BY DEF IppInv, Foothold
<1>2. CASE Header
  <2>1. Finish("error") \/ Finish("unknown") \/ walk' = Walk("tag", 8, FALSE)
    <3>1. CASE Len(raw) < 8
      BY <1>2, <3>1 DEF Header
    <3>2. CASE ~(Len(raw) < 8)
      <4>1. Within(2, 4)
        BY <1>1, <3>2 DEF Within
      <4> QED BY <1>2, <3>2, <4>1 DEF Header, Reading
    <3> QED BY <3>1, <3>2
  <2>2. walk.offset = 0
    BY <1>1, <1>2 DEF Header
  <2>3. walk' = Walk("tag", 8, FALSE) => Moves("tag", 8, FALSE)
    BY <2>2 DEF Moves, Places
  <2> QED BY <2>1, <2>3 DEF Ends, GetsAhead, Outcomes
<1>3. CASE Tag
  <2>1. \/ Finish("unknown")
        \/ /\ walk.offset + 1 <= Len(raw)
           /\ walk' = Walk("tag", walk.offset + 1, FALSE) \/ walk' = Walk("name", walk.offset + 1, FALSE)
    <3>1. CASE walk.offset >= Len(raw)
      BY <1>3, <3>1 DEF Tag
    <3>2. CASE ~(walk.offset >= Len(raw))
      <4>1. Within(walk.offset, walk.offset + 1) /\ walk.offset + 1 <= Len(raw)
        BY <1>1, <3>2 DEF Within
      <4> QED BY <1>3, <3>2, <4>1 DEF Tag, Reading
    <3> QED BY <3>1, <3>2
  <2>2. CASE Finish("unknown")
    BY <2>2 DEF Ends, Outcomes
  <2>3. CASE /\ walk.offset + 1 <= Len(raw)
             /\ walk' = Walk("tag", walk.offset + 1, FALSE) \/ walk' = Walk("name", walk.offset + 1, FALSE)
    <3>1. walk.offset + 1 \in Nat /\ walk.offset + 1 > walk.offset /\ walk.offset + 1 <= Len(raw)
      BY <1>1, <2>3
    <3>2. walk' = Walk("tag", walk.offset + 1, FALSE) => Moves("tag", walk.offset + 1, FALSE)
      BY <3>1 DEF Moves, Places
    <3>3. walk' = Walk("name", walk.offset + 1, FALSE) => Moves("name", walk.offset + 1, FALSE)
      BY <3>1 DEF Moves, Places
    <3> QED BY <2>3, <3>2, <3>3 DEF GetsAhead
  <2> QED BY <2>1, <2>2, <2>3
<1>4. CASE Name
  <2> DEFINE nl == Uint16At(walk.offset)
             lo == walk.offset + 2
             is == Slice(lo, lo + nl) = JobState
  <2>1. CASE walk.offset + 4 > Len(raw)
    <3>1. Finish("error")
      BY <1>4, <2>1 DEF Name
    <3> QED BY <3>1 DEF Ends, Outcomes
  <2>2. CASE ~(walk.offset + 4 > Len(raw))
    <3>1. nl \in Nat
      BY <1>1, <2>2, LengthIsNat
    <3>2. \/ Finish("error")
          \/ /\ NameFits(nl)
             /\ IF Within(lo, lo + nl)
                THEN walk' = Walk("value", lo + nl, is)
                ELSE Finish("panic")
      <4>1. Within(walk.offset, walk.offset + 2)
        BY <1>1, <2>2 DEF Within
      <4> QED BY <1>4, <2>2, <4>1 DEF Name, Reading
    <3> HIDE DEF nl, is
    <3>3. is \in BOOLEAN
      BY DEF is
    <3>4. NameFits(nl) => Within(lo, lo + nl) /\ lo + nl + 2 <= Len(raw) /\ lo + nl \in Nat
      BY <1>1, <3>1 DEF NameFits, Within
    <3>5. CASE Finish("error")
      BY <3>5 DEF Ends, Outcomes
    <3>6. CASE NameFits(nl) /\ walk' = Walk("value", lo + nl, is)
      <4>1. lo + nl > walk.offset
        BY <1>1, <3>1
      <4>2. Moves("value", lo + nl, is)
        BY <3>3, <3>4, <3>6, <4>1 DEF Moves, Places
      <4> QED BY <4>2 DEF GetsAhead
    <3> QED BY <3>2, <3>4, <3>5, <3>6
  <2> QED BY <2>1, <2>2
<1>5. CASE Value
  <2> DEFINE vl == Uint16At(walk.offset)
             lo == walk.offset + 2
             state == StateOf(Slice(lo, lo + vl))
  <2>1. vl \in Nat
    BY <1>1, <1>5, LengthIsNat DEF Value
  <2>2. \/ Finish("error")
        \/ /\ ValueFits(vl)
           /\ IF Within(lo, lo + vl)
              THEN Finish(state) \/ walk' = Walk("tag", AfterValue(vl), FALSE)
              ELSE Finish("panic")
    <3>1. At("value") /\ Within(walk.offset, walk.offset + 2)
      BY <1>1, <1>5 DEF Value, Within
    <3> QED BY <1>5, <3>1 DEF Value, Reading
  <2>3. state \in Outcomes
    BY StateIsOutcome
  <2> HIDE DEF vl, state
  <2>4. ValueFits(vl) => Within(lo, lo + vl)
    BY <1>1, <2>1 DEF ValueFits, Within
  <2>5. CASE Finish("error") \/ Finish(state)
    BY <2>3, <2>5 DEF Ends, Outcomes
  <2>6. CASE walk' = Walk("tag", AfterValue(vl), FALSE)
    <3>1. AfterValue(vl) \in Nat /\ AfterValue(vl) > walk.offset
      BY <1>1, <2>1 DEF AfterValue
    <3>2. Moves("tag", AfterValue(vl), FALSE)
      BY <2>6, <3>1 DEF Moves, Places
    <3> QED BY <3>2 DEF GetsAhead
  <2> QED BY <2>2, <2>4, <2>5, <2>6
<1> QED BY <1>2, <1>3, <1>4, <1>5 DEF IppNext

LEMMA StepKeepsIppInv == IppInv /\ IppNext => IppInv'
<1> SUFFICES ASSUME IppInv, IppNext PROVE IppInv'
  OBVIOUS
<1>1. raw' = raw
  BY DEF IppNext, Header, Tag, Name, Value
<1>2. CASE Ends
  BY <1>1, <1>2 DEF Ends, IppInv, Foothold, At, Finish, Walk, Places
<1>3. CASE GetsAhead
  <2>1. PICK at, offset, is : Moves(at, offset, is)
    BY <1>3 DEF GetsAhead
  <2>2. walk' = [at |-> at, offset |-> offset, isJobState |-> is, outcome |-> "none"]
    BY <2>1 DEF Moves, Walk
  <2> QED BY <1>1, <2>1, <2>2 DEF Moves, IppInv, Foothold, At, Outcomes
<1> QED BY <1>2, <1>3, StepGetsAhead

\* The walk keeps to the answer for good.
LEMMA WalkKeepsToAnswer == IppSpec => []IppInv
<1>1. IppInit => IppInv
  BY DEF IppInit, IppInv, Foothold, At, Walk, Places, Outcomes
<1>2. IppInv /\ UNCHANGED ippVars => IppInv'
  BY DEF IppInv, Foothold, At, ippVars
<1> QED BY <1>1, <1>2, StepKeepsIppInv, PTL DEF IppSpec

\* No answer of any length, with any bytes in it, makes parseJobState read outside it.
THEOREM NoAnswerPanics == IppSpec => []NeverPanics
<1>1. IppInv => NeverPanics
  BY DEF IppInv, Outcomes, NeverPanics
<1> QED BY <1>1, WalkKeepsToAnswer, PTL

\* Each step of the walk gets ahead in the answer or is the last.
THEOREM WalkAdvances == IppSpec => Advances
<1>1. IppInv /\ [IppNext]_ippVars => [walk'.offset > walk.offset \/ walk'.at = "done"]_walk
  <2> SUFFICES ASSUME IppInv, IppNext
               PROVE  walk'.offset > walk.offset \/ walk'.at = "done"
    BY DEF ippVars
  <2>1. CASE Ends
    BY <2>1 DEF Ends, Finish, Walk
  <2>2. CASE GetsAhead
    BY <2>2 DEF GetsAhead, Moves, Walk
  <2> QED BY <2>1, <2>2, StepGetsAhead
<1> QED BY <1>1, WalkKeepsToAnswer, PTL DEF IppSpec, Advances

-----------------------------------------------------------------------------
\* The layout of an attribute

LEMMA Concatenated ==
  ASSUME NEW s \in Seq(Byte), NEW t \in Seq(Byte)
  PROVE  /\ s \o t \in Seq(Byte)
         /\ Len(s) \in Nat /\ Len(t) \in Nat
         /\ Len(s \o t) = Len(s) + Len(t)
         /\ \A i \in 1 .. Len(s) : (s \o t)[i] = s[i]
         /\ \A i \in 1 .. Len(t) : (s \o t)[Len(s) + i] = t[i]
<1> DEFINE st == s \o t
<1>1. /\ st \in Seq(Byte)
      /\ Len(st) = Len(s) + Len(t)
      /\ \A i \in 1 .. Len(s) + Len(t) : st[i] = IF i <= Len(s) THEN s[i] ELSE t[i - Len(s)]
  BY ConcatProperties
<1>2. Len(s) \in Nat /\ Len(t) \in Nat
  BY LenProperties
<1> HIDE DEF st
<1>3. ASSUME NEW i \in 1 .. Len(s) PROVE st[i] = s[i]
  <2>1. i \in 1 .. Len(s) + Len(t) /\ i <= Len(s)
    BY <1>2
  <2> QED BY <1>1, <2>1
<1>4. ASSUME NEW i \in 1 .. Len(t) PROVE st[Len(s) + i] = t[i]
  <2> DEFINE j == Len(s) + i
  <2>1. j \in 1 .. Len(s) + Len(t) /\ ~(j <= Len(s)) /\ j - Len(s) = i
    BY <1>2
  <2> HIDE DEF j
  <2>2. st[j] = t[i]
    BY <1>1, <2>1
  <2> QED BY <2>2 DEF j
<1>5. /\ st \in Seq(Byte) /\ Len(st) = Len(s) + Len(t)
      /\ \A i \in 1 .. Len(s) : st[i] = s[i]
      /\ \A i \in 1 .. Len(t) : st[Len(s) + i] = t[i]
  BY <1>1, <1>3, <1>4
<1> QED BY <1>2, <1>5 DEF st

\* Two bytes hold the length of a short sequence.
LEMMA LengthInBytes ==
  ASSUME NEW s \in Seq(Byte), Short(s)
  PROVE  /\ U16(Len(s)) \in Seq(Byte) /\ Len(U16(Len(s))) = 2
         /\ 256 * U16(Len(s))[1] + U16(Len(s))[2] = Len(s)
<1> DEFINE n == Len(s)
<1>1. n \in Nat /\ n < 65536
  BY LenProperties DEF Short
<1> HIDE DEF n
<1> DEFINE a == n \div 256
           b == n % 256
<1>2. a \in Byte /\ b \in Byte /\ 256 * a + b = n
  BY <1>1, SMT DEF Byte
<1>3. U16(n) = <<a, b>>
  BY DEF U16
<1> HIDE DEF a, b
<1>4. /\ U16(n) \in Seq(Byte) /\ Len(U16(n)) = 2
      /\ 256 * U16(n)[1] + U16(n)[2] = n
  BY <1>2, <1>3
<1> QED BY <1>4 DEF n

\* Where the parts of an attribute are.
AttributeParts(b, tag, name, value) ==
  /\ b \in Seq(Byte) /\ Len(b) = 5 + Len(name) + Len(value)
  /\ b[1] = tag
  /\ 256 * b[2] + b[3] = Len(name)
  /\ \A i \in 1 .. Len(name) : b[3 + i] = name[i]
  /\ 256 * b[3 + Len(name) + 1] + b[3 + Len(name) + 2] = Len(value)
  /\ \A i \in 1 .. Len(value) : b[5 + Len(name) + i] = value[i]

LEMMA AttributeIsLaidOut ==
  ASSUME NEW tag \in Byte, NEW name \in Seq(Byte), NEW value \in Seq(Byte),
         Short(name), Short(value)
  PROVE  AttributeParts(IppAttr(tag, name, value), tag, name, value)
<1> DEFINE t  == <<tag>>
           m  == Len(name)
           n  == Len(value)
           um == U16(m)
           un == U16(n)
           s1 == t \o um
           s2 == s1 \o name
           s3 == s2 \o un
           b  == s3 \o value
<1>1. t \in Seq(Byte) /\ Len(t) = 1 /\ t[1] = tag
  OBVIOUS
<1>2. m \in Nat /\ n \in Nat
  BY LenProperties
<1>3. /\ um \in Seq(Byte) /\ Len(um) = 2 /\ 256 * um[1] + um[2] = m
      /\ un \in Seq(Byte) /\ Len(un) = 2 /\ 256 * un[1] + un[2] = n
  BY LengthInBytes
<1>4. IppAttr(tag, name, value) = b
  BY Zenon DEF IppAttr
<1> HIDE DEF t, um, un
<1>5. /\ s1 \in Seq(Byte) /\ Len(s1) = Len(t) + Len(um)
      /\ \A i \in 1 .. Len(t) : s1[i] = t[i]
      /\ \A i \in 1 .. Len(um) : s1[Len(t) + i] = um[i]
  BY <1>1, <1>3, Concatenated, Zenon
<1> HIDE DEF s1
<1>6. /\ s2 \in Seq(Byte) /\ Len(s2) = Len(s1) + m
      /\ \A i \in 1 .. Len(s1) : s2[i] = s1[i]
      /\ \A i \in 1 .. m : s2[Len(s1) + i] = name[i]
  BY <1>5, Concatenated, Zenon
<1> HIDE DEF s2
<1>7. /\ s3 \in Seq(Byte) /\ Len(s3) = Len(s2) + Len(un)
      /\ \A i \in 1 .. Len(s2) : s3[i] = s2[i]
      /\ \A i \in 1 .. Len(un) : s3[Len(s2) + i] = un[i]
  <2>1. s2 \in Seq(Byte) /\ un \in Seq(Byte)
    BY <1>3, <1>6
  <2> QED BY <2>1, Concatenated, Zenon
<1> HIDE DEF s3
<1>8. /\ b \in Seq(Byte) /\ Len(b) = Len(s3) + n
      /\ \A i \in 1 .. Len(s3) : b[i] = s3[i]
      /\ \A i \in 1 .. n : b[Len(s3) + i] = value[i]
  BY <1>7, Concatenated, Zenon
<1> HIDE DEF b, m, n
<1>9. Len(s1) = 3 /\ Len(s2) = 3 + m /\ Len(s3) = 5 + m /\ Len(b) = 5 + m + n
  BY <1>1, <1>2, <1>3, <1>5, <1>6, <1>7, <1>8
<1>10. b[1] = tag /\ b[2] = um[1] /\ b[3] = um[2]
  <2>1. s1[1] = tag /\ s1[2] = um[1] /\ s1[3] = um[2]
    BY <1>1, <1>3, <1>5
  <2>2. \A i \in 1 .. 3 : b[i] = s1[i]
    BY <1>2, <1>6, <1>7, <1>8, <1>9
  <2> QED BY <2>1, <2>2
<1>11. \A i \in 1 .. m : b[3 + i] = name[i]
  <2> SUFFICES ASSUME NEW i \in 1 .. m PROVE b[3 + i] = name[i]
    OBVIOUS
  <2>1. 3 + i \in 1 .. Len(s2) /\ 3 + i \in 1 .. Len(s3)
    BY <1>2, <1>9
  <2> QED BY <1>6, <1>7, <1>8, <1>9, <2>1
<1>12. b[3 + m + 1] = un[1] /\ b[3 + m + 2] = un[2]
  <2>1. 3 + m + 1 \in 1 .. Len(s3) /\ 3 + m + 2 \in 1 .. Len(s3)
    BY <1>2, <1>9
  <2>2. s3[3 + m + 1] = un[1] /\ s3[3 + m + 2] = un[2]
    BY <1>3, <1>7, <1>9
  <2> QED BY <1>8, <2>1, <2>2
<1>13. \A i \in 1 .. n : b[5 + m + i] = value[i]
  BY <1>8, <1>9
<1>14. AttributeParts(b, tag, name, value)
  BY <1>3, <1>8, <1>9, <1>10, <1>11, <1>12, <1>13 DEF AttributeParts, m, n
<1> QED BY <1>4, <1>14

-----------------------------------------------------------------------------
\* Answers of CUPS

Silent(items, n) == \A j \in 1 .. n : items[j].says = "nothing"

LEMMA FirstSays ==
  ASSUME NEW items, NEW n \in Nat, DOMAIN items = 1 .. n, NEW k \in 1 .. n,
         Silent(items, k - 1), items[k].says # "nothing"
  PROVE  Says(items) = items[k].says
<1> DEFINE telling == {j \in DOMAIN items : items[j].says # "nothing"}
           first   == CHOOSE i \in telling : \A j \in telling : i <= j
<1>1. k \in telling /\ \A j \in telling : j \in Int
  OBVIOUS
<1>2. \A j \in telling : k <= j
  BY DEF Silent
<1>3. first = k
  <2>1. \E i \in telling : \A j \in telling : i <= j
    BY <1>1, <1>2
  <2>2. first \in telling /\ \A j \in telling : first <= j
    BY <2>1, Zenon
  <2> HIDE DEF telling, first
  <2>3. first <= k /\ k <= first /\ first \in Int /\ k \in Int
    BY <1>1, <1>2, <2>2
  <2> QED BY <2>3
<1>4. Says(items) = IF telling = {} THEN "unknown" ELSE items[first].says
  BY Zenon DEF Says
<1> HIDE DEF telling, first
<1> QED BY <1>1, <1>3, <1>4

LEMMA NothingSays ==
  ASSUME NEW items, NEW n \in Nat, DOMAIN items = 1 .. n, Silent(items, n)
  PROVE  Says(items) = "unknown"
BY DEF Silent, Says

LEMMA SliceIs ==
  ASSUME raw \in Seq(Byte), NEW lo \in Nat, NEW s \in Seq(Byte), lo + Len(s) <= Len(raw),
         \A i \in 1 .. Len(s) : raw[lo + i] = s[i]
  PROVE  Slice(lo, lo + Len(s)) = s
<1> DEFINE n == Len(s)
           from == lo + 1
           to == lo + n
           t == SubSeq(raw, from, to)
<1>1. n \in Nat /\ Len(raw) \in Nat /\ \A i \in 1 .. Len(raw) : raw[i] \in Byte
  BY LenProperties, ElementOfSeq
<1>2. from \in Int /\ to \in Int /\ \A i \in from .. to : raw[i] \in Byte
  BY <1>1
<1>3. to - from + 1 = n /\ (IF from <= to THEN to - from + 1 ELSE 0) = n
  BY <1>1
<1> HIDE DEF from, to
<1>4. t \in Seq(Byte) /\ Len(t) = n /\ \A i \in 1 .. n : t[i] = raw[from + i - 1]
  BY <1>2, <1>3, SubSeqProperties
<1>5. \A i \in 1 .. n : raw[from + i - 1] = s[i]
  <2> SUFFICES ASSUME NEW i \in 1 .. n PROVE raw[from + i - 1] = s[i]
    OBVIOUS
  <2>1. from + i - 1 = lo + i
    BY <1>1 DEF from
  <2> QED BY <2>1
<1> HIDE DEF t
<1>6. t = s
  BY <1>1, <1>4, <1>5, LenProperties
<1> QED BY <1>6 DEF Slice, t, from, to

\* What an item that the whole answer has means for the answer as it is.
Placed(start, k) ==
  LET n == Len(written.items)
      b == written.items[k].bytes
  IN /\ start[k] \in Nat /\ Len(b) \in Nat
     /\ start[k + 1] = start[k] + Len(b) /\ start[k + 1] <= start[n + 1]
     /\ \A i \in 1 .. Len(b) : start[k] + i <= Len(raw) => raw[start[k] + i] = b[i]

\* The parts of an attribute are where the walk looks for them.
AttributeAt(p, tag, name, value) ==
  LET ln == Len(name)
      lv == Len(value)
  IN /\ ln \in Nat /\ lv \in Nat
     /\ p + 1 <= Len(raw) => raw[p + 1] = tag
     /\ p + 3 <= Len(raw) => Uint16At(p + 1) = ln
     /\ p + 3 + ln <= Len(raw) => Slice(p + 3, p + 3 + ln) = name
     /\ p + 5 + ln <= Len(raw) => Uint16At(p + 3 + ln) = lv
     /\ p + 5 + ln + lv <= Len(raw) => Slice(p + 5 + ln, p + 5 + ln + lv) = value

LEMMA AttributeIsAt ==
  ASSUME raw \in Seq(Byte), NEW p \in Nat, NEW b, NEW tag, NEW name \in Seq(Byte),
         NEW value \in Seq(Byte), AttributeParts(b, tag, name, value),
         \A i \in 1 .. Len(b) : p + i <= Len(raw) => raw[p + i] = b[i]
  PROVE  AttributeAt(p, tag, name, value)
<1> DEFINE m == Len(name)
           n == Len(value)
<1>1. m \in Nat /\ n \in Nat /\ Len(b) = 5 + m + n /\ Len(raw) \in Nat
  BY LenProperties DEF AttributeParts
<1>2. \A i \in Nat \ {0} : i <= 5 + m + n /\ p + i <= Len(raw) => raw[p + i] = b[i]
  BY <1>1
<1>3. p + 1 <= Len(raw) => raw[p + 1] = tag
  BY <1>1, <1>2 DEF AttributeParts
<1>4. p + 3 <= Len(raw) => Uint16At(p + 1) = m
  <2> SUFFICES ASSUME p + 3 <= Len(raw) PROVE Uint16At(p + 1) = m
    OBVIOUS
  <2>1. raw[p + 2] = b[2] /\ raw[p + 3] = b[3]
    BY <1>1, <1>2
  <2>2. p + 1 + 1 = p + 2 /\ p + 1 + 2 = p + 3
    OBVIOUS
  <2> QED BY <2>1, <2>2 DEF Uint16At, AttributeParts
<1>5. p + 3 + m <= Len(raw) => Slice(p + 3, p + 3 + m) = name
  <2> SUFFICES ASSUME p + 3 + m <= Len(raw) PROVE Slice(p + 3, p + 3 + m) = name
    OBVIOUS
  <2> DEFINE lo == p + 3
  <2>1. ASSUME NEW i \in 1 .. m PROVE raw[lo + i] = name[i]
    <3>1. raw[p + (3 + i)] = b[3 + i] /\ p + (3 + i) = lo + i
      BY <1>1, <1>2
    <3> QED BY <3>1 DEF AttributeParts
  <2>2. lo \in Nat /\ lo + m <= Len(raw)
    OBVIOUS
  <2> HIDE DEF lo
  <2>3. Slice(lo, lo + m) = name
    BY <2>1, <2>2, SliceIs
  <2> QED BY <2>3 DEF lo
<1>6. p + 5 + m <= Len(raw) => Uint16At(p + 3 + m) = n
  <2> SUFFICES ASSUME p + 5 + m <= Len(raw) PROVE Uint16At(p + 3 + m) = n
    OBVIOUS
  <2> DEFINE i == 3 + m + 1
             j == 3 + m + 2
  <2>1. /\ i \in Nat \ {0} /\ j \in Nat \ {0} /\ i <= 5 + m + n /\ j <= 5 + m + n
        /\ p + i <= Len(raw) /\ p + j <= Len(raw)
        /\ p + i = p + 3 + m + 1 /\ p + j = p + 3 + m + 2
    BY <1>1
  <2>2. 256 * b[i] + b[j] = n
    BY DEF AttributeParts
  <2> HIDE DEF i, j
  <2>3. raw[p + i] = b[i] /\ raw[p + j] = b[j]
    BY <1>2, <2>1
  <2>4. raw[p + 3 + m + 1] = b[i] /\ raw[p + 3 + m + 2] = b[j]
    BY <2>1, <2>3
  <2> QED BY <2>2, <2>4 DEF Uint16At
<1>7. p + 5 + m + n <= Len(raw) => Slice(p + 5 + m, p + 5 + m + n) = value
  <2> SUFFICES ASSUME p + 5 + m + n <= Len(raw)
               PROVE  Slice(p + 5 + m, p + 5 + m + n) = value
    OBVIOUS
  <2> DEFINE lo == p + 5 + m
  <2>1. ASSUME NEW i \in 1 .. n PROVE raw[lo + i] = value[i]
    <3>1. raw[p + (5 + m + i)] = b[5 + m + i] /\ p + (5 + m + i) = lo + i
      BY <1>1, <1>2
    <3> QED BY <3>1 DEF AttributeParts
  <2>2. lo \in Nat /\ lo + n <= Len(raw)
    BY <1>1
  <2> HIDE DEF lo
  <2>3. Slice(lo, lo + n) = value
    BY <2>1, <2>2, SliceIs
  <2> QED BY <2>3 DEF lo
<1> QED BY <1>1, <1>3, <1>4, <1>5, <1>6, <1>7 DEF AttributeAt

\* Where the walk is in an answer that is laid out: at an item, or in an attribute.
Standing(start, k) ==
  \/ At("tag") /\ walk.offset = start[k]
  \/ /\ k \in DOMAIN written.items
     /\ \E tag, name, value :
          /\ IsAttribute(written.items[k], tag, name, value)
          /\ \/ At("name") /\ walk.offset = start[k] + 1
             \/ /\ At("value") /\ walk.offset = start[k] + 3 + Len(name)
                /\ walk.isJobState = (name = JobState)

\* The items before the walk have said nothing yet.
Walking(start, k) ==
  /\ Fulfilled(start) /\ k \in 1 .. Len(written.items) + 1
  /\ Silent(written.items, k - 1) /\ Standing(start, k)

TrueSoFar ==
  \/ written.fate = "damaged"
  \/ At("header") /\ (Refused \/ \E start : Fulfilled(start))
  \/ \E start, k : Walking(start, k)
  \/ At("done") /\ StateIsTrue

AnswerInv ==
  /\ IppInv /\ DOMAIN written.items = 1 .. Len(written.items) /\ Len(written.items) \in Nat
  /\ TrueSoFar

\* What the layout gives for the items and for the length of the answer.
LEMMA LayoutHolds ==
  ASSUME NEW start, Fulfilled(start), raw \in Seq(Byte),
         DOMAIN written.items = 1 .. Len(written.items), Len(written.items) \in Nat
  PROVE  /\ start[1] = 8
         /\ start[Len(written.items) + 1] \in Nat /\ 8 <= start[Len(written.items) + 1]
         /\ Len(raw) \in Nat /\ Len(raw) <= start[Len(written.items) + 1]
         /\ written.fate = "cut" \/ Len(raw) = start[Len(written.items) + 1]
         /\ written.fate \in {"whole", "cut"}
         /\ \A k \in 1 .. Len(written.items) + 1 : start[k] \in Nat
         /\ \A k \in 1 .. Len(written.items) :
              IsItem(written.items[k]) /\ Placed(start, k)
<1> DEFINE items == written.items
           n == Len(items)
           end == n + 1
<1>1. /\ start \in [1 .. end -> Nat] /\ start[1] = 8
      /\ \A k \in 1 .. n :
          /\ start[k + 1] = start[k] + Len(items[k].bytes) /\ start[k + 1] <= start[end]
          /\ \A i \in 1 .. Len(items[k].bytes) :
               start[k] + i <= Len(raw) => raw[start[k] + i] = items[k].bytes[i]
  BY Zenon DEF Fulfilled, LaidOut
<1>2. Len(raw) \in Nat
  BY LenProperties
<1>3. \A k \in 1 .. n : IsItem(items[k])
  BY DEF Fulfilled
<1>4. \A item : IsItem(item) => Len(item.bytes) \in Nat
  <2> SUFFICES ASSUME NEW item, IsItem(item) PROVE Len(item.bytes) \in Nat
    OBVIOUS
  <2>1. CASE item = End \/ \E tag \in Delimiters \ {EndTag} : item = Group(tag)
    BY <2>1 DEF End, Group, Item
  <2>2. CASE \E tag, name, value : IsAttribute(item, tag, name, value)
    <3>1. PICK tag, name, value : IsAttribute(item, tag, name, value)
      BY <2>2
    <3>2. AttributeParts(IppAttr(tag, name, value), tag, name, value)
      BY <3>1, AttributeIsLaidOut DEF IsAttribute
    <3>3. item.bytes = IppAttr(tag, name, value)
      BY <3>1 DEF IsAttribute, Attribute, Item
    <3> QED BY <3>2, <3>3, LenProperties DEF AttributeParts
  <2> QED BY <2>1, <2>2 DEF IsItem
<1>5. \A k \in 1 .. n + 1 : start[k] \in Nat
  BY <1>1
<1>6. ASSUME NEW k \in 1 .. n PROVE Placed(start, k)
  BY <1>1, <1>3, <1>4, <1>5, <1>6 DEF Placed
<1>7. start[end] \in Nat /\ 8 <= start[end]
  <2>1. CASE n = 0
    BY <1>1, <2>1
  <2>2. CASE n # 0
    <3>1. 1 \in 1 .. n
      BY <2>2
    <3>2. /\ start[2] = start[1] + Len(items[1].bytes) /\ start[2] <= start[end]
          /\ Len(items[1].bytes) \in Nat
      BY <1>1, <1>3, <1>4, <3>1
    <3>3. start[end] \in Nat /\ 2 \in 1 .. n + 1 /\ start[2] \in Nat
      BY <1>5, <3>1
    <3> QED BY <1>1, <3>2, <3>3
  <2> QED BY <2>1, <2>2
<1>8. /\ Len(raw) <= start[end]
      /\ written.fate = "cut" \/ Len(raw) = start[end]
      /\ written.fate \in {"whole", "cut"}
  BY <1>2, <1>7 DEF Fulfilled
<1> QED BY <1>1, <1>2, <1>3, <1>5, <1>6, <1>7, <1>8

LEMMA OneSays ==
  ASSUME NEW says, says # "nothing"
  PROVE  Says(<<Item(<<>>, says)>>) = says
<1> DEFINE items == <<Item(<<>>, says)>>
           n == 1
<1>1. /\ n \in Nat /\ DOMAIN items = 1 .. n /\ n \in 1 .. n
      /\ items[n].says = says /\ Silent(items, n - 1)
  BY DEF Item, Silent
<1> HIDE DEF items, n
<1>2. Says(items) = says
  BY <1>1, FirstSays
<1> QED BY <1>2 DEF items

\* The end and the tag of a group are a byte each, that of an attribute is its first.
LEMMA FirstByte ==
  ASSUME NEW item, IsItem(item)
  PROVE  /\ item.bytes \in Seq(Byte) /\ Len(item.bytes) \in Nat /\ Len(item.bytes) >= 1
         /\ \/ item.bytes[1] = EndTag /\ item.says = "unknown"
            \/ /\ item.bytes[1] \in Delimiters \ {EndTag} /\ Len(item.bytes) = 1
               /\ item.says = "nothing"
            \/ /\ item.bytes[1] \in Byte \ Delimiters
               /\ \E tag, name, value : IsAttribute(item, tag, name, value)
<1>1. CASE item = End
  <2>1. item.bytes = <<EndTag>> /\ item.says = "unknown" /\ EndTag \in Byte
    BY <1>1 DEF End, Item, EndTag, Byte
  <2> QED BY <2>1
<1>2. CASE \E tag \in Delimiters \ {EndTag} : item = Group(tag)
  <2>1. PICK tag \in Delimiters \ {EndTag} : item = Group(tag)
    BY <1>2
  <2>2. item.bytes = <<tag>> /\ item.says = "nothing" /\ tag \in Byte
    BY <2>1 DEF Group, Item, Delimiters, Byte
  <2> QED BY <2>1, <2>2
<1>3. CASE \E tag, name, value : IsAttribute(item, tag, name, value)
  <2>1. PICK tag, name, value : IsAttribute(item, tag, name, value)
    BY <1>3
  <2>2. AttributeParts(IppAttr(tag, name, value), tag, name, value) /\ tag \in Byte \ Delimiters
    BY <2>1, AttributeIsLaidOut DEF IsAttribute
  <2>3. item.bytes = IppAttr(tag, name, value)
    BY <2>1 DEF IsAttribute, Attribute, Item
  <2>4. Len(name) \in Nat /\ Len(value) \in Nat
    BY <2>1, LenProperties DEF IsAttribute
  <2>5. item.bytes \in Seq(Byte) /\ Len(item.bytes) \in Nat /\ Len(item.bytes) >= 1
    BY <2>2, <2>3, <2>4 DEF AttributeParts
  <2>6. item.bytes[1] \in Byte \ Delimiters
    BY <2>2, <2>3 DEF AttributeParts
  <2> QED BY <1>3, <2>5, <2>6
<1> QED BY <1>1, <1>2, <1>3 DEF IsItem

Stays == raw' = raw /\ written' = written

LEMMA TellsTruth ==
  ASSUME Stays, NEW outcome, Finish(outcome),
         \/ outcome = Says(written.items)
         \/ written.fate = "cut" /\ outcome \in {"unknown", "error"}
  PROVE  TrueSoFar'
<1>1. walk'.at = "done" /\ walk'.outcome = outcome
  BY DEF Finish, Walk
<1>2. Says(written.items)' = Says(written.items)
  BY DEF Stays, Says
<1> QED BY <1>1, <1>2 DEF TrueSoFar, StateIsTrue, At, Stays

LEMMA WalksOn ==
  ASSUME Stays, NEW start, Fulfilled(start), NEW k \in 1 .. Len(written.items) + 1,
         Silent(written.items, k - 1), Standing(start, k)'
  PROVE  TrueSoFar'
<1>1. Fulfilled(start)' /\ Silent(written.items, k - 1)' /\ Len(written.items)' = Len(written.items)
  BY DEF Stays, Fulfilled, LaidOut, Uint16At, Silent
<1> QED BY <1>1 DEF TrueSoFar, Walking

\* The walk is past item k, which says nothing.
LEMMA NextItem ==
  ASSUME Stays, NEW start, Fulfilled(start), NEW n \in Nat, n = Len(written.items),
         NEW k \in 1 .. n, Silent(written.items, k - 1), written.items[k].says = "nothing",
         walk' = Walk("tag", start[k + 1], FALSE)
  PROVE  TrueSoFar'
<1>1. k + 1 \in 1 .. Len(written.items) + 1 /\ Silent(written.items, (k + 1) - 1)
  BY DEF Silent
<1>2. Standing(start, k + 1)'
  BY DEF Standing, At, Walk
<1> QED BY <1>1, <1>2, WalksOn

LEMMA HeaderIsTrue ==
  ASSUME AnswerInv, Header, Refused \/ \E start : Fulfilled(start)
  PROVE  TrueSoFar'
<1>1. /\ Stays /\ raw \in Seq(Byte) /\ Len(raw) \in Nat
      /\ DOMAIN written.items = 1 .. Len(written.items) /\ Len(written.items) \in Nat
  BY LenProperties DEF Header, Stays, AnswerInv, IppInv
<1>2. Len(raw) >= 8 => Within(2, 4)
  BY <1>1 DEF Within
<1>3. CASE Refused
  <2> DEFINE says == IF Uint16At(2) = NotFound THEN "unknown" ELSE "error"
             items == <<Item(<<>>, says)>>
  <2>1. Len(raw) >= 8 /\ Uint16At(2) # 0 /\ written.items = items
    BY <1>3 DEF Refused
  <2>2. Finish(says)
    BY <1>1, <1>2, <2>1 DEF Header, Reading
  <2>3. says # "nothing"
    OBVIOUS
  <2> HIDE DEF says
  <2>4. Says(items) = says
    BY <2>3, OneSays
  <2> QED BY <1>1, <2>1, <2>2, <2>4, TellsTruth
<1>4. CASE \E start : Fulfilled(start)
  <2>1. PICK start : Fulfilled(start)
    BY <1>4
  <2>2. /\ start[1] = 8
        /\ written.fate = "cut" \/ Len(raw) = start[Len(written.items) + 1]
        /\ 8 <= start[Len(written.items) + 1]
    BY <1>1, <2>1, LayoutHolds
  <2>3. CASE Len(raw) < 8
    <3>1. Finish("error")
      BY <2>3 DEF Header
    <3>2. written.fate = "cut"
      BY <1>1, <2>2, <2>3
    <3> QED BY <1>1, <3>1, <3>2, TellsTruth
  <2>4. CASE Len(raw) >= 8
    <3>1. walk' = Walk("tag", 8, FALSE)
      <4>1. Uint16At(2) = 0
        BY <2>1, <2>4 DEF Fulfilled
      <4>2. Within(2, 4) /\ ~(Len(raw) < 8)
        BY <1>1, <1>2, <2>4
      <4> QED BY <4>1, <4>2, Zenon DEF Header, Reading
    <3>2. Standing(start, 1)'
      BY <2>2, <3>1 DEF Standing, At, Walk
    <3>3. 1 \in 1 .. Len(written.items) + 1 /\ Silent(written.items, 1 - 1)
      BY <1>1 DEF Silent
    <3> QED BY <1>1, <2>1, <3>2, <3>3, WalksOn
  <2> QED BY <1>1, <2>3, <2>4
<1> QED BY <1>3, <1>4

LEMMA TagIsTrue ==
  ASSUME AnswerInv, Tag, NEW start, NEW k, Walking(start, k)
  PROVE  TrueSoFar'
<1> DEFINE items == written.items
           n == Len(items)
<1>1. /\ Stays /\ raw \in Seq(Byte) /\ DOMAIN items = 1 .. n /\ n \in Nat
  BY DEF Tag, Stays, AnswerInv, IppInv
<1>2. Fulfilled(start) /\ k \in 1 .. n + 1 /\ Silent(items, k - 1)
  BY DEF Walking
<1>3. walk.offset = start[k]
  BY DEF Walking, Standing, Tag, At
<1>4. /\ start[n + 1] \in Nat /\ start[k] \in Nat /\ Len(raw) \in Nat /\ Len(raw) <= start[n + 1]
      /\ written.fate = "cut" \/ Len(raw) = start[n + 1]
      /\ \A j \in 1 .. n : IsItem(items[j]) /\ Placed(start, j)
  BY <1>1, <1>2, LayoutHolds
<1>5. CASE k = n + 1
  <2>1. walk.offset >= Len(raw)
    BY <1>3, <1>4, <1>5
  <2>2. Finish("unknown")
    BY <2>1 DEF Tag
  <2>3. Says(items) = "unknown"
    BY <1>1, <1>2, <1>5, NothingSays
  <2> QED BY <1>1, <2>2, <2>3, TellsTruth
<1>6. CASE k \in 1 .. n
  <2> DEFINE p == start[k]
             b == items[k].bytes
  <2>1. /\ p \in Nat /\ Len(b) \in Nat /\ start[k + 1] = p + Len(b) /\ start[k + 1] <= start[n + 1]
        /\ \A i \in 1 .. Len(b) : p + i <= Len(raw) => raw[p + i] = b[i]
    BY <1>4, <1>6 DEF Placed
  <2>2. IsItem(items[k])
    BY <1>4, <1>6
  <2>3. /\ Len(b) >= 1
        /\ \/ b[1] = EndTag /\ items[k].says = "unknown"
           \/ b[1] \in Delimiters \ {EndTag} /\ Len(b) = 1 /\ items[k].says = "nothing"
           \/ /\ b[1] \in Byte \ Delimiters
              /\ \E tag, name, value : IsAttribute(items[k], tag, name, value)
    BY <2>2, FirstByte
  <2>4. CASE p >= Len(raw)
    <3>1. Finish("unknown")
      BY <1>3, <2>4 DEF Tag
    <3>2. written.fate = "cut"
      BY <1>4, <2>1, <2>3, <2>4
    <3> QED BY <1>1, <3>1, <3>2, TellsTruth
  <2>5. CASE p < Len(raw)
    <3>1. raw[p + 1] = b[1] /\ Within(p, p + 1)
      BY <1>4, <2>1, <2>3, <2>5 DEF Within
    <3>2. IF b[1] = EndTag THEN Finish("unknown")
          ELSE IF b[1] \in Delimiters THEN walk' = Walk("tag", p + 1, FALSE)
          ELSE walk' = Walk("name", p + 1, FALSE)
      <4>1. ~(p >= Len(raw))
        BY <1>4, <2>1, <2>5
      <4> QED BY <1>3, <3>1, <4>1, Zenon DEF Tag, Reading
    <3>3. CASE b[1] = EndTag /\ items[k].says = "unknown"
      <4>1. Says(items) = "unknown"
        BY <1>1, <1>2, <1>6, <3>3, FirstSays
      <4> QED BY <1>1, <3>2, <3>3, <4>1, TellsTruth
    <3>4. CASE b[1] \in Delimiters \ {EndTag} /\ Len(b) = 1 /\ items[k].says = "nothing"
      <4>1. walk' = Walk("tag", start[k + 1], FALSE)
        BY <2>1, <3>2, <3>4
      <4> QED BY <1>1, <1>2, <1>6, <3>4, <4>1, NextItem
    <3>5. CASE /\ b[1] \in Byte \ Delimiters
               /\ \E tag, name, value : IsAttribute(items[k], tag, name, value)
      <4>1. walk' = Walk("name", p + 1, FALSE)
        <5>1. b[1] # EndTag /\ b[1] \notin Delimiters
          BY <3>5 DEF EndTag, Delimiters
        <5> QED BY <3>2, <5>1
      <4>2. Standing(start, k)'
        <5>1. written' = written /\ k \in DOMAIN written'.items
          BY <1>1, <1>6 DEF Stays
        <5>2. walk'.at = "name" /\ walk'.offset = start[k] + 1
          BY <4>1 DEF Walk
        <5> QED BY <3>5, <5>1, <5>2 DEF Standing, At
      <4> QED BY <1>1, <1>2, <4>2, WalksOn
    <3> QED BY <2>3, <3>3, <3>4, <3>5
  <2> QED BY <1>4, <2>1, <2>4, <2>5
<1> QED BY <1>1, <1>2, <1>5, <1>6

\* Item k is an attribute, its parts are where the layout puts them.
PlacedAttribute(start, k, tag, name, value) ==
  /\ name \in Seq(Byte) /\ value \in Seq(Byte)
  /\ AttributeAt(start[k], tag, name, value)
  /\ start[k] \in Nat /\ start[k + 1] = start[k] + 5 + Len(name) + Len(value)
  /\ start[k + 1] <= start[Len(written.items) + 1]
  /\ written.items[k].says =
       IF name = JobState /\ Len(value) = 4 THEN StateOf(value) ELSE "nothing"

LEMMA AttributeIsPlaced ==
  ASSUME raw \in Seq(Byte), NEW start, NEW k, NEW tag, NEW name, NEW value, Placed(start, k),
         IsAttribute(written.items[k], tag, name, value)
  PROVE  PlacedAttribute(start, k, tag, name, value)
<1> DEFINE p == start[k]
           b == written.items[k].bytes
<1>1. /\ name \in Seq(Byte) /\ value \in Seq(Byte)
      /\ AttributeParts(IppAttr(tag, name, value), tag, name, value)
  BY AttributeIsLaidOut DEF IsAttribute
<1>2. /\ b = IppAttr(tag, name, value)
      /\ written.items[k].says =
           IF name = JobState /\ Len(value) = 4 THEN StateOf(value) ELSE "nothing"
  BY DEF IsAttribute, Attribute, Item
<1>3. /\ p \in Nat /\ start[k + 1] = p + Len(b)
      /\ start[k + 1] <= start[Len(written.items) + 1]
      /\ \A i \in 1 .. Len(b) : p + i <= Len(raw) => raw[p + i] = b[i]
  BY DEF Placed
<1>4. AttributeParts(b, tag, name, value)
  BY <1>1, <1>2
<1> HIDE DEF p, b
<1>5. AttributeAt(p, tag, name, value)
  BY <1>1, <1>3, <1>4, AttributeIsAt
<1>6. Len(b) = 5 + Len(name) + Len(value) /\ Len(name) \in Nat /\ Len(value) \in Nat
  BY <1>1, <1>4, LenProperties DEF AttributeParts
<1>7. start[k + 1] = p + 5 + Len(name) + Len(value)
  BY <1>3, <1>6
<1> QED BY <1>1, <1>2, <1>3, <1>5, <1>7 DEF p, b, PlacedAttribute

LEMMA NameIsTrue ==
  ASSUME AnswerInv, Name, NEW start, NEW k, Walking(start, k)
  PROVE  TrueSoFar'
<1> DEFINE items == written.items
           n == Len(items)
<1>1. /\ Stays /\ raw \in Seq(Byte) /\ DOMAIN items = 1 .. n /\ n \in Nat
  BY DEF Name, Stays, AnswerInv, IppInv
<1>2. Fulfilled(start) /\ k \in 1 .. n + 1 /\ Silent(items, k - 1) /\ Standing(start, k)
  BY DEF Walking
<1>3. PICK tag, name, value :
        /\ k \in 1 .. n /\ IsAttribute(items[k], tag, name, value)
        /\ walk.offset = start[k] + 1
  <2>1. walk.at = "name" /\ "name" # "tag" /\ "name" # "value"
    BY DEF Name, At
  <2> QED BY <1>1, <1>2, <2>1 DEF Standing, At
<1>4. /\ start[n + 1] \in Nat /\ Len(raw) \in Nat
      /\ written.fate = "cut" \/ Len(raw) = start[n + 1]
      /\ Placed(start, k)
  BY <1>1, <1>2, <1>3, LayoutHolds
<1>5. PlacedAttribute(start, k, tag, name, value)
  BY <1>1, <1>3, <1>4, AttributeIsPlaced
<1> DEFINE p  == start[k]
           ln == Len(name)
           lv == Len(value)
<1>6. /\ ln \in Nat /\ lv \in Nat
      /\ p + 3 <= Len(raw) => Uint16At(p + 1) = ln
      /\ p + 3 + ln <= Len(raw) => Slice(p + 3, p + 3 + ln) = name
  BY <1>5 DEF PlacedAttribute, AttributeAt
<1>7. p \in Nat /\ p + 5 + ln + lv <= start[n + 1]
  BY <1>5, <1>6 DEF PlacedAttribute
<1> HIDE DEF p, ln, lv
<1>8. walk.offset = p + 1 /\ walk.offset + 2 = p + 3
  BY <1>3, <1>7 DEF p
<1>9. CASE Len(raw) < p + 5 + ln
  <2>1. written.fate = "cut"
    BY <1>4, <1>6, <1>7, <1>9
  <2>2. Finish("error")
    <3>1. CASE walk.offset + 4 > Len(raw)
      BY <3>1 DEF Name
    <3>2. CASE ~(walk.offset + 4 > Len(raw))
      <4>1. Within(walk.offset, walk.offset + 2) /\ Uint16At(walk.offset) = ln
        BY <1>4, <1>6, <1>7, <1>8, <3>2 DEF Within
      <4>2. ~NameFits(ln)
        BY <1>4, <1>6, <1>7, <1>8, <1>9 DEF NameFits
      <4> QED BY <3>2, <4>1, <4>2, Zenon DEF Name, Reading
    <3> QED BY <3>1, <3>2
  <2> QED BY <1>1, <2>1, <2>2, TellsTruth
<1>10. CASE Len(raw) >= p + 5 + ln
  <2>1. /\ ~(walk.offset + 4 > Len(raw))
        /\ Within(walk.offset, walk.offset + 2) /\ Uint16At(walk.offset) = ln
        /\ NameFits(ln) /\ Within(walk.offset + 2, walk.offset + 2 + ln)
    BY <1>4, <1>6, <1>7, <1>8, <1>10 DEF Within, NameFits
  <2>2. Slice(walk.offset + 2, walk.offset + 2 + ln) = name
    BY <1>4, <1>6, <1>7, <1>8, <1>10
  <2>3. walk' = Walk("value", walk.offset + 2 + ln, name = JobState)
    BY <2>1, <2>2, Zenon DEF Name, Reading
  <2>4. Standing(start, k)'
    <3>1. k \in DOMAIN written'.items /\ IsAttribute(written'.items[k], tag, name, value)
      BY <1>1, <1>3 DEF Stays
    <3>2. walk'.at = "value" /\ walk'.offset = start[k] + 3 + Len(name)
      BY <1>8, <2>3 DEF Walk, p, ln
    <3>3. walk'.isJobState = (name = JobState)
      BY <2>3, Zenon DEF Walk
    <3> QED BY <3>1, <3>2, <3>3, Zenon DEF Standing, At
  <2> QED BY <1>1, <1>2, <2>4, WalksOn
<1> QED BY <1>4, <1>6, <1>7, <1>9, <1>10

LEMMA ValueIsTrue ==
  ASSUME AnswerInv, Value, NEW start, NEW k, Walking(start, k)
  PROVE  TrueSoFar'
<1> DEFINE items == written.items
           n == Len(items)
<1>1. /\ Stays /\ raw \in Seq(Byte) /\ DOMAIN items = 1 .. n /\ n \in Nat
      /\ walk.offset + 2 <= Len(raw)
  BY DEF Value, Stays, AnswerInv, IppInv, Foothold
<1>2. Fulfilled(start) /\ k \in 1 .. n + 1 /\ Silent(items, k - 1) /\ Standing(start, k)
  BY DEF Walking
<1>3. PICK tag, name, value :
        /\ k \in 1 .. n /\ IsAttribute(items[k], tag, name, value)
        /\ walk.offset = start[k] + 3 + Len(name)
        /\ walk.isJobState = (name = JobState)
  <2>1. walk.at = "value" /\ "value" # "tag" /\ "value" # "name"
    BY DEF Value, At
  <2> QED BY <1>1, <1>2, <2>1 DEF Standing, At
<1>4. /\ start[n + 1] \in Nat /\ Len(raw) \in Nat
      /\ written.fate = "cut" \/ Len(raw) = start[n + 1]
      /\ Placed(start, k)
  BY <1>1, <1>2, <1>3, LayoutHolds
<1>5. PlacedAttribute(start, k, tag, name, value)
  BY <1>1, <1>3, <1>4, AttributeIsPlaced
<1> DEFINE p  == start[k]
           ln == Len(name)
           lv == Len(value)
<1>6. /\ ln \in Nat /\ lv \in Nat
      /\ p + 5 + ln <= Len(raw) => Uint16At(p + 3 + ln) = lv
      /\ p + 5 + ln + lv <= Len(raw) => Slice(p + 5 + ln, p + 5 + ln + lv) = value
  BY <1>5 DEF PlacedAttribute, AttributeAt
<1>7. /\ p \in Nat /\ start[k + 1] = p + 5 + ln + lv /\ start[k + 1] <= start[n + 1]
      /\ items[k].says = IF name = JobState /\ lv = 4 THEN StateOf(value) ELSE "nothing"
  BY <1>5, <1>6 DEF PlacedAttribute
<1> HIDE DEF p, ln, lv
<1>8. walk.offset = p + 3 + ln /\ walk.offset + 2 = p + 5 + ln
  BY <1>3, <1>6, <1>7 DEF p, ln
<1>9. Within(walk.offset, walk.offset + 2) /\ Uint16At(walk.offset) = lv
  BY <1>1, <1>4, <1>6, <1>7, <1>8 DEF Within
<1>10. CASE ~ValueFits(lv)
  <2>1. written.fate = "cut"
    BY <1>4, <1>6, <1>7, <1>8, <1>10 DEF ValueFits
  <2>2. Finish("error")
    BY <1>9, <1>10, Zenon DEF Value, Reading
  <2> QED BY <1>1, <2>1, <2>2, TellsTruth
<1>11. CASE ValueFits(lv)
  <2>1. Within(walk.offset + 2, walk.offset + 2 + lv)
    BY <1>4, <1>6, <1>7, <1>8, <1>11 DEF Within, ValueFits
  <2>2. Slice(walk.offset + 2, walk.offset + 2 + lv) = value
    BY <1>4, <1>6, <1>7, <1>8, <1>11 DEF ValueFits
  <2>3. IF walk.isJobState /\ lv = 4 THEN Finish(StateOf(value))
        ELSE walk' = Walk("tag", AfterValue(lv), FALSE)
    BY <1>9, <1>11, <2>1, <2>2, Zenon DEF Value, Reading
  <2>4. CASE walk.isJobState /\ lv = 4
    <3>1. items[k].says = StateOf(value)
      BY <1>3, <1>7, <2>4
    <3>2. Says(items) = items[k].says
      <4>1. items[k].says # "nothing"
        BY <3>1, StateIsOutcome DEF Outcomes
      <4> QED BY <1>1, <1>2, <1>3, <4>1, FirstSays
    <3> QED BY <1>1, <2>3, <2>4, <3>1, <3>2, TellsTruth
  <2>5. CASE ~(walk.isJobState /\ lv = 4)
    <3>1. items[k].says = "nothing"
      BY <1>3, <1>7, <2>5
    <3>2. walk' = Walk("tag", start[k + 1], FALSE)
      BY <1>7, <1>8, <2>3, <2>5 DEF AfterValue
    <3> QED BY <1>1, <1>2, <1>3, <3>1, <3>2, NextItem
  <2> QED BY <2>4, <2>5
<1> QED BY <1>10, <1>11

LEMMA TruthLasts ==
  ASSUME Stays, walk' = walk, TrueSoFar
  PROVE  TrueSoFar'
<1>1. ASSUME NEW start, Fulfilled(start) PROVE Fulfilled(start)'
  BY <1>1 DEF Stays, Fulfilled, LaidOut, Uint16At
<1>2. CASE written.fate = "damaged"
  BY <1>2 DEF TrueSoFar, Stays
<1>3. CASE At("header") /\ (Refused \/ \E start : Fulfilled(start))
  <2>1. Refused' = Refused /\ At("header")'
    BY <1>3, Zenon DEF Stays, Refused, Uint16At, At
  <2> QED BY <1>1, <1>3, <2>1, Zenon DEF TrueSoFar
<1>4. CASE \E start, k : Walking(start, k)
  <2>1. PICK start, k : Walking(start, k)
    BY <1>4
  <2>2. Standing(start, k)' /\ Silent(written.items, k - 1)' /\ written' = written
    BY <2>1, Zenon DEF Walking, Stays, Standing, Silent, At
  <2>3. Walking(start, k)'
    BY <1>1, <2>1, <2>2, Zenon DEF Walking
  <2> QED BY <2>3, Zenon DEF TrueSoFar
<1>5. CASE At("done") /\ StateIsTrue
  <2>1. At("done")' /\ StateIsTrue'
    BY <1>5, Zenon DEF Stays, StateIsTrue, Says, At
  <2> QED BY <2>1, Zenon DEF TrueSoFar
<1> QED BY <1>2, <1>3, <1>4, <1>5 DEF TrueSoFar

LEMMA StepKeepsTruth ==
  ASSUME AnswerInv, IppNext
  PROVE  TrueSoFar'
<1>1. Stays
  BY DEF IppNext, Header, Tag, Name, Value, Stays
<1>2. walk.at \in {"header", "tag", "name", "value"}
  BY DEF IppNext, Header, Tag, Name, Value, At
<1>3. CASE written.fate = "damaged"
  BY <1>1, <1>3 DEF TrueSoFar, Stays
<1>4. CASE At("header") /\ (Refused \/ \E start : Fulfilled(start))
  <2>1. Header
    BY <1>4 DEF IppNext, Tag, Name, Value, At
  <2> QED BY <1>4, <2>1, HeaderIsTrue
<1>5. CASE \E start, k : Walking(start, k)
  <2>1. PICK start, k : Walking(start, k)
    BY <1>5
  <2>2. CASE Tag
    BY <2>1, <2>2, TagIsTrue
  <2>3. CASE Name
    BY <2>1, <2>3, NameIsTrue
  <2>4. CASE Value
    BY <2>1, <2>4, ValueIsTrue
  <2>5. ~Header
    BY <2>1 DEF Walking, Standing, Header, At
  <2> QED BY <2>2, <2>3, <2>4, <2>5 DEF IppNext
<1> QED BY <1>2, <1>3, <1>4, <1>5 DEF AnswerInv, TrueSoFar, At

LEMMA AnswerInvHolds == AnswerSpec => []AnswerInv
<1>1. AnswerInit => AnswerInv
  <2> SUFFICES ASSUME AnswerInit PROVE AnswerInv
    OBVIOUS
  <2>1. IppInv /\ At("header")
    BY DEF AnswerInit, IppInit, IppInv, Foothold, At, Walk, Places, Outcomes
  <2>2. DOMAIN written.items = 1 .. Len(written.items) /\ Len(written.items) \in Nat
    BY LenProperties DEF AnswerInit
  <2>3. TrueSoFar
    BY <2>1, Zenon DEF AnswerInit, TrueSoFar
  <2> QED BY <2>1, <2>2, <2>3 DEF AnswerInv
<1>2. AnswerInv /\ [IppNext]_ippVars => AnswerInv'
  <2> SUFFICES ASSUME AnswerInv, [IppNext]_ippVars PROVE AnswerInv'
    OBVIOUS
  <2>1. CASE IppNext
    <3>1. IppInv'
      BY <2>1, StepKeepsIppInv DEF AnswerInv
    <3>2. written' = written
      BY <2>1 DEF IppNext, Header, Tag, Name, Value
    <3>3. TrueSoFar'
      BY <2>1, StepKeepsTruth
    <3> QED BY <3>1, <3>2, <3>3 DEF AnswerInv
  <2>2. CASE UNCHANGED ippVars
    <3>1. Stays /\ walk' = walk
      BY <2>2 DEF ippVars, Stays
    <3>2. TrueSoFar'
      BY <3>1, TruthLasts DEF AnswerInv
    <3>3. IppInv'
      BY <3>1 DEF AnswerInv, IppInv, Foothold, At, Stays
    <3> QED BY <3>1, <3>2, <3>3 DEF AnswerInv, Stays
  <2> QED BY <2>1, <2>2
<1> QED BY <1>1, <1>2, PTL DEF AnswerSpec

\* Whatever CUPS writes into an answer, and wherever it is cut, parseJobState ends with the
\* state that the answer gives, or if it is cut with none.
THEOREM StateTold == AnswerSpec => []StateIsTrue
<1>1. AnswerInv => StateIsTrue
  <2> SUFFICES ASSUME AnswerInv, At("done"), written.fate # "damaged"
               PROVE  StateIsTrue
    BY DEF StateIsTrue
  <2>1. ~At("header") /\ ~\E start, k : Walking(start, k)
    BY DEF At, Walking, Standing
  <2> QED BY <2>1 DEF AnswerInv, TrueSoFar
<1> QED BY <1>1, AnswerInvHolds, PTL

=============================================================================
