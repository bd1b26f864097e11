------------------------------ MODULE KfSyncProofs ------------------------------
(***************************************************************************)
(* Proofs about KfSync, for any customers, any number of messages, clicks, *)
(* errors and restarts.                                                    *)
(*                                                                         *)
(* Walk says how far the running sync has got and that everything up to    *)
(* there is handled; FreshBatch, that what is about to be passed on is     *)
(* confirmed and has not been passed on before.  Complete is about menus:  *)
(* each counts whatever its customer may still confirm with it, and lists  *)
(* all that it counts if the text has room.                                *)
(***************************************************************************)
EXTENDS KfSync, SequenceTheorems, FiniteSetTheorems, TLAPS

Steps == {"idle", "fetch", "handle", "reply", "batch", "process", "menus"}

\* The local variables of sync when WeCom holds n messages.
Frames(n) ==
  [at : Steps, cursor : 0 .. n, next : 0 .. n, more : BOOLEAN, id : 0 .. n + 1,
   confirmations : SUBSET Users, batch : SUBSET (1 .. n), item : 0 .. n,
   reply : Replies \cup {"none"}]

\* The message in hand is one of the page, and all before it have been handled.
Walk ==
  /\ At("handle") => sync.id \in sync.cursor + 1 .. sync.next + 1
  /\ sync.at \in {"reply", "batch", "process"} => sync.id \in sync.cursor + 1 .. sync.next
  /\ 1 .. kfCursor \subseteq read
  /\ 1 .. sync.cursor \subseteq read
  /\ sync.at \in {"handle", "reply", "batch", "process"} => 1 .. sync.id - 1 \subseteq read
  /\ At("reply") => sync.reply \in Replies

\* What is still to be passed on is confirmed and has never been passed on.
FreshBatch == \A i \in sync.batch : status[i] = "confirmed" /\ calls[i] = 0

KfInv == TypeOK /\ Walk /\ FreshBatch /\ PassedOnOnce

\* A click names a menu that its customer can see.
ClicksNameMenus ==
  \A c \in Sent : log[c].kind \in {"confirm", "cancel"} =>
    \E n \in menus : n.key = log[c].menu /\ log[n.key].user = log[c].user

\* A menu counts all its customer may still confirm with it, lists what it counts if
\* there is room, and no new row goes before the one it names.
Complete ==
  \A n \in menus :
    /\ n.key \in ToSet(queue) \ newest
    /\ Cardinality(n.items) <= MenuLines => n.items \subseteq n.listed
    /\ \A i \in Active(log[n.key].user) : i = n.key \/ Before(i, n.key) => i \in n.items

\* A confirmed row was confirmed by a click that has been read.
ViaClick == \A i \in Ids : status[i] = "confirmed" => i \in Sent /\ via[i] \in Sent

OfferedInv == ClicksNameMenus /\ Complete /\ ViaClick /\ ConfirmedWasOffered

-----------------------------------------------------------------------------
\* Lemmas about sequences and records

\* InsertAt puts an element at a place and moves the later ones up.
LEMMA Inserted ==
  ASSUME NEW S, NEW q \in Seq(S), NEW p \in 1 .. Len(q) + 1, NEW e \in S
  PROVE  /\ InsertAt(q, p, e) \in Seq(S)
         /\ Len(InsertAt(q, p, e)) = Len(q) + 1
         /\ \A k \in 1 .. Len(q) + 1 :
              InsertAt(q, p, e)[k] = IF k < p THEN q[k] ELSE IF k = p THEN e ELSE q[k - 1]
<1> DEFINE a == SubSeq(q, 1, p - 1)
           b == SubSeq(q, p, Len(q))
<1>0. Len(q) \in Nat /\ \A k \in 1 .. Len(q) : q[k] \in S
  BY LenProperties, ElementOfSeq
<1>1. a \in Seq(S) /\ Len(a) = p - 1 /\ \A k \in 1 .. p - 1 : a[k] = q[k]
  <2>1. \A k \in 1 .. p - 1 : q[k] \in S
    BY <1>0
  <2>2. 1 \in Int /\ p - 1 \in Int
    BY <1>0
  <2>3. /\ a \in Seq(S) /\ Len(a) = IF 1 <= p - 1 THEN p - 1 - 1 + 1 ELSE 0
        /\ \A k \in 1 .. p - 1 - 1 + 1 : a[k] = q[1 + k - 1]
    BY <2>1, <2>2, SubSeqProperties
  <2> HIDE DEF a
  <2>4. p - 1 \in Nat /\ (1 <= p - 1 => p - 1 - 1 + 1 = p - 1) /\ (~(1 <= p - 1) => p - 1 = 0)
    BY <1>0
  <2>5. ASSUME NEW k \in 1 .. p - 1
        PROVE  a[k] = q[k]
    <3>1. k \in 1 .. p - 1 - 1 + 1 /\ 1 + k - 1 = k
      BY <1>0
    <3> QED BY <2>3, <3>1
  <2>6. Len(a) = p - 1
    BY <2>3, <2>4
  <2> QED BY <2>3, <2>5, <2>6
<1>2. /\ b \in Seq(S) /\ Len(b) = Len(q) - p + 1
      /\ \A k \in 1 .. Len(q) - p + 1 : b[k] = q[p + k - 1]
  <2>1. \A k \in p .. Len(q) : q[k] \in S
    BY <1>0
  <2>2. p \in Int /\ Len(q) \in Int
    BY <1>0
  <2>3. /\ b \in Seq(S) /\ Len(b) = IF p <= Len(q) THEN Len(q) - p + 1 ELSE 0
        /\ \A k \in 1 .. Len(q) - p + 1 : b[k] = q[p + k - 1]
    BY <2>1, <2>2, SubSeqProperties
  <2> HIDE DEF b
  <2>4. ~(p <= Len(q)) => Len(q) - p + 1 = 0
    BY <1>0
  <2> QED BY <2>3, <2>4
<1>3. <<e>> \in Seq(S) /\ Len(<<e>>) = 1 /\ <<e>>[1] = e
  OBVIOUS
<1> HIDE DEF a, b
<1> DEFINE ae == a \o <<e>>
<1>4. /\ ae \in Seq(S) /\ Len(ae) = p
      /\ \A k \in 1 .. p : ae[k] = IF k <= p - 1 THEN q[k] ELSE e
  <2>1. /\ ae \in Seq(S) /\ Len(ae) = Len(a) + 1
        /\ \A k \in 1 .. Len(a) + 1 : ae[k] = IF k <= Len(a) THEN a[k] ELSE <<e>>[k - Len(a)]
    BY <1>1, <1>3, ConcatProperties
  <2> HIDE DEF ae
  <2>2. Len(ae) = p
    BY <1>0, <1>1, <2>1
  <2>3. ASSUME NEW k \in 1 .. p
        PROVE  ae[k] = IF k <= p - 1 THEN q[k] ELSE e
    <3>1. CASE k <= p - 1
      BY <1>0, <1>1, <2>1, <3>1
    <3>2. CASE k = p
      <4>1. k - Len(a) = 1 /\ ~(k <= Len(a)) /\ k \in 1 .. Len(a) + 1
        BY <1>0, <1>1, <3>2
      <4> QED BY <1>3, <1>0, <3>2, <2>1, <4>1
    <3> QED BY <1>0, <3>1, <3>2
  <2> QED BY <2>1, <2>2, <2>3
<1> HIDE DEF ae
<1>5. /\ ae \o b \in Seq(S) /\ Len(ae \o b) = Len(ae) + Len(b)
      /\ \A k \in 1 .. Len(ae) + Len(b) : (ae \o b)[k] = IF k <= Len(ae) THEN ae[k] ELSE b[k - Len(ae)]
  BY <1>2, <1>4, ConcatProperties
<1>6. InsertAt(q, p, e) = ae \o b
  BY DEF InsertAt, a, b, ae
<1>7. Len(ae) + Len(b) = Len(q) + 1
  BY <1>0, <1>2, <1>4
<1>8. ASSUME NEW k \in 1 .. Len(q) + 1, k <= p
      PROVE  (ae \o b)[k] = IF k < p THEN q[k] ELSE e
  BY <1>0, <1>4, <1>5, <1>7, <1>8
<1>9. ASSUME NEW k \in 1 .. Len(q) + 1, k > p
      PROVE  (ae \o b)[k] = q[k - 1]
  <2>1. (ae \o b)[k] = b[k - p] /\ k - p \in 1 .. Len(q) - p + 1
    BY <1>0, <1>4, <1>5, <1>7, <1>9
  <2>2. b[k - p] = q[p + (k - p) - 1] /\ p + (k - p) - 1 = k - 1
    BY <1>0, <1>2, <1>9, <2>1
  <2> QED BY <2>1, <2>2
<1> DEFINE r == ae \o b
<1>10. \A k \in 1 .. Len(q) + 1 :
         (k <= p => r[k] = IF k < p THEN q[k] ELSE e) /\ (k > p => r[k] = q[k - 1])
  BY <1>8, <1>9
<1>11. InsertAt(q, p, e) = r /\ r \in Seq(S) /\ Len(r) = Len(q) + 1
  BY <1>5, <1>6, <1>7
<1> HIDE DEF r
<1>12. \A k \in 1 .. Len(q) + 1 : r[k] = IF k < p THEN q[k] ELSE IF k = p THEN e ELSE q[k - 1]
  BY <1>0, <1>10
<1> QED BY <1>11, <1>12

\* A new element has the old ones, in their order, around it: what it goes before
\* was at its place or after it.
LEMMA InsertedOrder ==
  ASSUME NEW S, NEW q \in Seq(S), NEW p \in 1 .. Len(q) + 1, NEW e \in S, e \notin ToSet(q),
         \A i, j \in DOMAIN q : q[i] = q[j] => i = j,
         NEW r, r = InsertAt(q, p, e)
  PROVE  /\ r \in Seq(S) /\ ToSet(r) = ToSet(q) \cup {e}
         /\ \A i, j \in DOMAIN r : r[i] = r[j] => i = j
         /\ \A i, j \in DOMAIN r : i < j /\ r[j] # e =>
              IF r[i] = e THEN \E k \in p .. Len(q) : q[k] = r[j]
              ELSE \E k, l \in DOMAIN q : k < l /\ q[k] = r[i] /\ q[l] = r[j]
<1> DEFINE Old(k) == IF k < p THEN k ELSE k - 1
<1>0. Len(q) \in Nat /\ DOMAIN q = 1 .. Len(q)
  BY LenProperties
<1>1. /\ r \in Seq(S) /\ Len(r) = Len(q) + 1
      /\ \A k \in 1 .. Len(q) + 1 : r[k] = IF k < p THEN q[k] ELSE IF k = p THEN e ELSE q[k - 1]
  <2>1. /\ InsertAt(q, p, e) \in Seq(S) /\ Len(InsertAt(q, p, e)) = Len(q) + 1
        /\ \A k \in 1 .. Len(q) + 1 :
             InsertAt(q, p, e)[k] = IF k < p THEN q[k] ELSE IF k = p THEN e ELSE q[k - 1]
    BY Inserted, SMTT(40)
  <2> QED BY <2>1
<1>2. DOMAIN r = 1 .. Len(q) + 1
  BY <1>0, <1>1, LenProperties
<1>3. p \in DOMAIN r /\ r[p] = e
  BY <1>0, <1>1, <1>2
<1>4. ASSUME NEW k \in DOMAIN r, k # p
      PROVE  Old(k) \in DOMAIN q /\ r[k] = q[Old(k)] /\ (k > p => Old(k) \in p .. Len(q))
  <2>1. CASE k < p
    BY <1>0, <1>1, <1>2, <2>1
  <2>2. CASE k > p
    <3>1. ~(k < p) /\ k - 1 \in 1 .. Len(q) /\ k - 1 \in p .. Len(q)
      BY <1>0, <1>2, <2>2
    <3> QED BY <1>0, <1>1, <1>2, <1>4, <3>1
  <2> QED BY <1>0, <1>2, <1>4, <2>1, <2>2
<1>5. ASSUME NEW k \in DOMAIN r, NEW l \in DOMAIN r, k # p, l # p
      PROVE  (Old(k) = Old(l) => k = l) /\ (k < l => Old(k) < Old(l))
  BY <1>0, <1>2, <1>5
<1> HIDE DEF Old
<1>6. \A k \in DOMAIN r : k # p => r[k] # e
  BY <1>4 DEF ToSet
<1>7. ToSet(r) = ToSet(q) \cup {e}
  <2>1. ToSet(r) \subseteq ToSet(q) \cup {e}
    BY <1>3, <1>4 DEF ToSet
  <2>2. ASSUME NEW k \in DOMAIN q
        PROVE  q[k] \in ToSet(r)
    <3>1. CASE k < p
      <4>1. k \in DOMAIN r /\ r[k] = q[k]
        BY <1>0, <1>1, <1>2, <3>1
      <4> QED BY <4>1 DEF ToSet
    <3>2. CASE k >= p
      <4>1. k + 1 \in 1 .. Len(q) + 1 /\ ~(k + 1 < p) /\ k + 1 # p /\ k + 1 - 1 = k
        BY <1>0, <3>2
      <4>2. k + 1 \in DOMAIN r /\ r[k + 1] = q[k]
        BY <1>1, <1>2, <4>1
      <4> QED BY <4>2 DEF ToSet
    <3> QED BY <1>0, <3>1, <3>2
  <2>3. e \in ToSet(r)
    BY <1>3 DEF ToSet
  <2> QED BY <2>1, <2>2, <2>3 DEF ToSet
<1>8. ASSUME NEW i \in DOMAIN r, NEW j \in DOMAIN r, r[i] = r[j]
      PROVE  i = j
  <2>1. CASE i = p \/ j = p
    BY <1>3, <1>6, <1>8, <2>1
  <2>2. CASE i # p /\ j # p
    BY <1>4, <1>5, <1>8, <2>2
  <2> QED BY <2>1, <2>2
<1>9. ASSUME NEW i \in DOMAIN r, NEW j \in DOMAIN r, i < j, r[j] # e
      PROVE  IF r[i] = e THEN \E k \in p .. Len(q) : q[k] = r[j]
             ELSE \E k, l \in DOMAIN q : k < l /\ q[k] = r[i] /\ q[l] = r[j]
  <2>1. j # p
    BY <1>3, <1>9
  <2>2. CASE i = p
    <3>1. j > p
      BY <1>2, <1>9, <2>2
    <3> QED BY <1>3, <1>4, <2>1, <2>2, <3>1
  <2>3. CASE i # p
    BY <1>4, <1>5, <1>6, <1>9, <2>1, <2>3
  <2> QED BY <2>2, <2>3
<1> QED BY <1>1, <1>7, <1>8, <1>9

\* Steps of sync: the local variables stay of their type.
LEMMA IdleIsFrame ==
  ASSUME NEW n \in Nat
  PROVE  Idle \in Frames(n)
BY DEF Idle, Frames, Steps

LEMMA FrameGrows ==
  ASSUME NEW n \in Nat, NEW s \in Frames(n)
  PROVE  s \in Frames(n + 1)
BY DEF Frames

LEMMA DoneIsFrame ==
  ASSUME NEW n \in Nat, NEW s \in Frames(n), s.id \in 1 .. n
  PROVE  /\ Done(s) \in Frames(n)
         /\ Done(s).at = "handle" /\ Done(s).id = s.id + 1
         /\ Done(s).cursor = s.cursor /\ Done(s).next = s.next /\ Done(s).batch = s.batch
         /\ Done(s).confirmations = s.confirmations
<1> DEFINE k == s.id + 1
<1>1. k \in 0 .. n + 1
  OBVIOUS
<1> HIDE DEF k
<1>2. [s EXCEPT !.at = "handle", !.id = k, !.reply = "none"] \in Frames(n)
  BY <1>1 DEF Frames, Steps
<1>3. Done(s) = [s EXCEPT !.at = "handle", !.id = k, !.reply = "none"]
  BY DEF Done, k
<1> QED BY <1>2, <1>3 DEF Frames, k

-----------------------------------------------------------------------------
\* Types, and how far a sync has got

\* The names by which the proofs take TypeOK apart.
LogOK  == log \in Seq(Messages) /\ Len(log) \in 0 .. MaxLog
RowsOK ==
  /\ status \in [Ids -> {"none", "pending", "confirmed", "cancelled"}]
  /\ queue \in Seq(Sent) /\ ToSet(queue) = {i \in Ids : status[i] # "none"}
  /\ \A p, q \in DOMAIN queue : queue[p] = queue[q] => p = q
  /\ expired \cup newest \subseteq ToSet(queue)
HistOK ==
  /\ via \in [Ids -> 0 .. MaxLog] /\ calls \in [Ids -> Nat]
  /\ receipts \in [Ids -> SUBSET Replies] /\ read \subseteq Sent

LEMMA TypeParts ==
  TypeOK <=> /\ LogOK /\ RowsOK /\ HistOK
             /\ menus \subseteq [key : Sent, items : SUBSET Sent, listed : SUBSET Sent]
             /\ kfCursor \in 0 .. Len(log)
             /\ row \in [Ids -> {"none", "open"} \cup Verdicts]
             /\ sync \in Frames(Len(log))
             /\ failures \in 0 .. MaxFailures /\ setBack \in BOOLEAN
<1>1. log \in Seq(Messages) => Len(log) \in Nat
  BY LenProperties
<1>2. Len(log) \in Nat => (Len(log) <= MaxLog <=> Len(log) \in 0 .. MaxLog)
  BY KfAssumption
<1> QED BY <1>1, <1>2 DEF TypeOK, LogOK, RowsOK, HistOK, Frames, Steps, Sent

LEMMA SentAreIds ==
  ASSUME LogOK
  PROVE  Len(log) \in Nat /\ Sent \subseteq Ids
BY KfAssumption DEF LogOK, Sent, Ids

\* What a customer sends goes to the end of the log.
LEMMA LogGrows ==
  ASSUME TypeOK, Send
  PROVE  /\ LogOK' /\ Len(log') = Len(log) + 1
         /\ \A i \in Sent : log'[i] = log[i]
         /\ \/ log'[Len(log')].kind \in {"content", "other"}
            \/ \E m \in menus : /\ log'[Len(log')].menu = m.key
                                /\ log'[Len(log')].user = log[m.key].user
<1>0. LogOK /\ Len(log) < MaxLog /\ menus \subseteq [key : Sent, items : SUBSET Sent, listed : SUBSET Sent]
  BY TypeParts DEF Send
<1>1. \A m \in Messages : log' = Append(log, m) =>
        /\ LogOK' /\ Len(log') = Len(log) + 1 /\ log'[Len(log')] = m
        /\ \A i \in Sent : log'[i] = log[i]
  BY <1>0, AppendProperties, KfAssumption DEF LogOK, Sent
<1>2. CASE \E u \in Users, k \in {"content", "other"} :
             log' = Append(log, [user |-> u, kind |-> k, menu |-> 0])
  <2>1. PICK u \in Users, k \in {"content", "other"} :
          log' = Append(log, [user |-> u, kind |-> k, menu |-> 0])
    BY <1>2
  <2>2. [user |-> u, kind |-> k, menu |-> 0] \in Messages
    BY KfAssumption DEF Messages, Kinds
  <2>3. [user |-> u, kind |-> k, menu |-> 0].kind = k
    OBVIOUS
  <2> QED BY <1>1, <2>1, <2>2, <2>3
<1>3. CASE \E m \in menus, k \in {"confirm", "cancel"} :
             log' = Append(log, [user |-> log[m.key].user, kind |-> k, menu |-> m.key])
  <2>1. PICK m \in menus, k \in {"confirm", "cancel"} :
          log' = Append(log, [user |-> log[m.key].user, kind |-> k, menu |-> m.key])
    BY <1>3
  <2>2. m.key \in Sent /\ m.key \in 0 .. MaxLog
    BY <1>0, SentAreIds, KfAssumption DEF Ids
  <2>3. log[m.key] \in Messages
    BY <1>0, <2>2, ElementOfSeq DEF LogOK, Sent
  <2>4. log[m.key].user \in Users
    BY <2>3 DEF Messages
  <2> DEFINE c == [user |-> log[m.key].user, kind |-> k, menu |-> m.key]
  <2>5. c \in Messages
    BY <2>2, <2>4 DEF Messages, Kinds
  <2>6. c.menu = m.key /\ c.user = log[m.key].user
    OBVIOUS
  <2> HIDE DEF c
  <2>7. log' = Append(log, c)
    BY <2>1 DEF c
  <2> QED BY <1>1, <2>5, <2>6, <2>7
<1> QED BY <1>2, <1>3 DEF Send

\* A handler is in hand of a message that the page has.
LEMMA InHand ==
  ASSUME TypeOK, Walk
  PROVE  /\ At("handle") /\ sync.id <= sync.next => sync.id \in Sent
         /\ sync.at \in {"reply", "batch", "process"} => sync.id \in Sent
<1>1. Len(log) \in Nat /\ sync \in Frames(Len(log))
  BY TypeParts, SentAreIds
<1>2. sync.cursor \in 0 .. Len(log) /\ sync.next \in 0 .. Len(log) /\ sync.id \in 0 .. Len(log) + 1
  BY <1>1 DEF Frames
<1> QED BY <1>1, <1>2 DEF Walk, Sent, At

\* What is passed on has been sent.
LEMMA BatchWasSent ==
  ASSUME TypeOK
  PROVE  sync.batch \subseteq Ids
<1>1. sync \in Frames(Len(log)) /\ Sent \subseteq Ids
  BY TypeParts, SentAreIds
<1> QED BY <1>1 DEF Frames, Sent

\* Each step keeps the local variables of their type and Walk true.
LEMMA WalkStep ==
  ASSUME TypeOK, Walk, [Next]_vars
  PROVE  sync' \in Frames(Len(log')) /\ Walk'
<1> DEFINE n == Len(log)
<1>0. n \in Nat /\ sync \in Frames(n) /\ kfCursor \in 0 .. n /\ LogOK
  BY TypeParts, SentAreIds
<1>1. /\ sync.at \in Steps /\ sync.cursor \in 0 .. n /\ sync.next \in 0 .. n
      /\ sync.id \in 0 .. n + 1 /\ sync.batch \in SUBSET (1 .. n)
      /\ sync.confirmations \in SUBSET Users
  BY <1>0 DEF Frames
<1>2. Idle \in Frames(n) /\ Idle.at = "idle" /\ Idle.cursor = 0
  BY <1>0, IdleIsFrame DEF Idle
<1>3. /\ At("handle") /\ sync.id <= sync.next => sync.id \in 1 .. n
      /\ sync.at \in {"reply", "batch", "process"} => sync.id \in 1 .. n
  BY InHand DEF Sent
<1> HIDE DEF n
\* A handler goes on, or waits for something, with its message in hand.
<1>4. ASSUME NEW s \in Frames(n), sync' = s, log' = log, kfCursor' = kfCursor, read' = read,
             s.id = sync.id, s.cursor = sync.cursor, s.next = sync.next,
             sync.at \in {"reply", "batch", "process"} \/ (At("handle") /\ sync.id <= sync.next),
             s.at \in {"reply", "batch", "process"}, s.at = "reply" => s.reply \in Replies
      PROVE  sync' \in Frames(Len(log')) /\ Walk'
  BY <1>0, <1>1, <1>4 DEF Walk, At, n
\* A handler is done with its message.
<1>5. ASSUME NEW s \in Frames(n), sync' = s, log' = log, kfCursor' = kfCursor, MarkRead,
             s.at = "handle", s.id = sync.id + 1, s.cursor = sync.cursor, s.next = sync.next,
             sync.at \in {"reply", "batch", "process"} \/ (At("handle") /\ sync.id <= sync.next)
      PROVE  sync' \in Frames(Len(log')) /\ Walk'
  <2>1. 1 .. sync.id - 1 \subseteq read /\ sync.id \in sync.cursor + 1 .. sync.next
    BY <1>0, <1>1, <1>5 DEF Walk, At
  <2>2. s.id - 1 = sync.id /\ s.id \in s.cursor + 1 .. s.next + 1
    BY <1>1, <1>5, <2>1
  <2>3. 1 .. s.id - 1 \subseteq read'
    BY <1>1, <1>5, <2>1, <2>2 DEF MarkRead
  <2>4. read \subseteq read'
    BY <1>5 DEF MarkRead
  <2>5. 1 .. kfCursor' \subseteq read' /\ 1 .. sync'.cursor \subseteq read'
    BY <1>5, <2>4 DEF Walk
  <2> QED BY <1>5, <2>2, <2>3, <2>5 DEF Walk, At, n
\* The sync is over.
<1>6. ASSUME sync' = Idle, log' = log, kfCursor' = kfCursor, read' = read
      PROVE  sync' \in Frames(Len(log')) /\ Walk'
  BY <1>0, <1>2, <1>6 DEF Walk, At, n
<1>7. ASSUME NEW r \in Replies, Answer(r), log' = log, kfCursor' = kfCursor, read' = read,
             sync.at \in {"batch", "process"} \/ (At("handle") /\ sync.id <= sync.next)
      PROVE  sync' \in Frames(Len(log')) /\ Walk'
  <2> DEFINE s == [sync EXCEPT !.at = "reply", !.reply = r]
  <2>1. /\ s \in Frames(n) /\ s.id = sync.id /\ s.cursor = sync.cursor
        /\ s.next = sync.next /\ s.at = "reply" /\ s.reply = r
    BY <1>0 DEF Frames, Steps
  <2>2. sync' = s
    BY <1>7 DEF Answer
  <2> HIDE DEF s
  <2> QED BY <1>4, <1>7, <2>1, <2>2
<1>8. CASE Start
  <2> DEFINE s == [Idle EXCEPT !.at = "fetch", !.cursor = kfCursor]
  <2>1. s \in Frames(n) /\ s.at = "fetch" /\ s.cursor = kfCursor
    BY <1>0, <1>2 DEF Frames, Steps
  <2>2. sync' = s /\ UNCHANGED <<log, kfCursor, read>>
    BY <1>8 DEF Start, hist
  <2> HIDE DEF s
  <2> QED BY <2>1, <2>2 DEF Walk, At, n
<1>9. CASE Fetch
  <2>1. At("fetch") /\ UNCHANGED <<log, kfCursor, read>>
    BY <1>9 DEF Fetch, hist
  <2>2. PICK next \in sync.cursor .. n :
          sync' = [sync EXCEPT !.at = "handle", !.next = next,
                               !.more = next < n, !.id = sync.cursor + 1]
    BY <1>9 DEF Fetch, n
  <2> DEFINE k == sync.cursor + 1
  <2>3. k \in 0 .. n + 1 /\ next \in 0 .. n /\ (next < n) \in BOOLEAN /\ k \in sync.cursor + 1 .. next + 1
        /\ k - 1 = sync.cursor
    BY <1>0, <1>1, <2>2
  <2> DEFINE m == next < n
             s == [sync EXCEPT !.at = "handle", !.next = next, !.more = m, !.id = k]
  <2>4. sync' = s
    BY <2>2
  <2>5. m \in BOOLEAN
    BY <2>3
  <2> HIDE DEF k, m
  <2>6. s \in Frames(n)
    BY <1>0, <2>3, <2>5 DEF Frames, Steps
  <2>7. s.at = "handle" /\ s.id = k /\ s.next = next /\ s.cursor = sync.cursor
    BY <1>0 DEF Frames
  <2> HIDE DEF s
  <2> QED BY <2>1, <2>3, <2>4, <2>6, <2>7 DEF Walk, At, n
<1>10. CASE SetKfCursor
  <2>1. /\ At("handle") /\ sync.id > sync.next /\ kfCursor' \in {sync.next, kfCursor}
        /\ UNCHANGED <<log, read>>
    BY <1>10 DEF SetKfCursor, hist, PageDone
  <2> DEFINE s == [sync EXCEPT !.at = "fetch", !.cursor = sync.next]
             t == [sync EXCEPT !.at = "menus"]
  <2>2. sync' \in {s, t}
    BY <1>10 DEF SetKfCursor
  <2>3. /\ s \in Frames(n) /\ s.cursor = sync.next /\ s.at = "fetch"
        /\ t \in Frames(n) /\ t.cursor = sync.cursor /\ t.at = "menus"
    BY <1>0, <1>1 DEF Frames, Steps
  <2>4. 1 .. sync.id - 1 \subseteq read /\ sync.id - 1 = sync.next
    BY <1>1, <2>1 DEF Walk, At
  <2> HIDE DEF s, t
  <2> QED BY <2>1, <2>2, <2>3, <2>4 DEF Walk, At, n
<1>11. CASE Decline
  <2>1. UNCHANGED <<log, kfCursor, read>> /\ At("handle") /\ sync.id <= sync.next
    BY <1>11 DEF Decline, Handling, hist
  <2>2. Answer("unsupported") \/ Answer("denied")
    BY <1>11 DEF Decline
  <2>3. "unsupported" \in Replies /\ "denied" \in Replies
    BY DEF Replies
  <2> QED BY <1>7, <2>1, <2>2, <2>3
<1>12. CASE Skip
  <2>1. /\ UNCHANGED <<log, kfCursor>> /\ MarkRead /\ At("handle") /\ sync.id <= sync.next
        /\ sync' = Done(sync)
    BY <1>12 DEF Skip, Accepting, Handling
  <2> QED BY <1>0, <1>3, <1>5, <2>1, DoneIsFrame
<1>13. CASE CreatePending
  <2>1. /\ UNCHANGED <<log, kfCursor>> /\ MarkRead /\ At("handle") /\ sync.id <= sync.next
        /\ log[sync.id].user \in AllowedExternalUsers
        /\ sync' = [Done(sync) EXCEPT !.confirmations = sync.confirmations \cup {log[sync.id].user}]
    BY <1>13 DEF CreatePending, Accepting, Handling
  <2> DEFINE d == Done(sync)
             u == sync.confirmations \cup {log[sync.id].user}
             s == [d EXCEPT !.confirmations = u]
  <2>2. /\ d \in Frames(n) /\ d.at = "handle" /\ d.id = sync.id + 1
        /\ d.cursor = sync.cursor /\ d.next = sync.next
    BY <1>0, <1>3, <2>1, DoneIsFrame
  <2>3. u \in SUBSET Users
    BY <1>1, <2>1, KfAssumption
  <2>4. sync' = s
    BY <2>1
  <2> HIDE DEF d, u
  <2>5. /\ s \in Frames(n) /\ s.at = "handle" /\ s.id = sync.id + 1
        /\ s.cursor = sync.cursor /\ s.next = sync.next
    BY <2>2, <2>3 DEF Frames
  <2> HIDE DEF s
  <2> QED BY <1>5, <2>1, <2>4, <2>5
<1>14. CASE Cancel
  <2>1. UNCHANGED <<log, kfCursor, read>> /\ At("handle") /\ sync.id <= sync.next
    BY <1>14 DEF Cancel, Handling, hist
  <2>2. Answer("cancelled") \/ Answer("void")
    BY <1>14 DEF Cancel
  <2>3. "cancelled" \in Replies /\ "void" \in Replies
    BY DEF Replies
  <2> QED BY <1>7, <2>1, <2>2, <2>3
<1>15. CASE Confirm
  <2>1. UNCHANGED <<log, kfCursor, read>> /\ At("handle") /\ sync.id <= sync.next
    BY <1>15 DEF Confirm, Handling
  <2> DEFINE b == Active(Click.user)
             s == [sync EXCEPT !.at = "batch", !.batch = b]
  <2>2. sync' = s \/ Answer("void")
    BY <1>15 DEF Confirm, ToPrint
  <2>3. b \in SUBSET (1 .. n)
    BY DEF Active, Sent, n
  <2> HIDE DEF b
  <2>4. /\ s \in Frames(n) /\ s.id = sync.id /\ s.cursor = sync.cursor
        /\ s.next = sync.next /\ s.at = "batch"
    BY <1>0, <2>3 DEF Frames, Steps
  <2>5. "void" \in Replies
    BY DEF Replies
  <2> HIDE DEF s
  <2> QED BY <1>4, <1>7, <2>1, <2>2, <2>4, <2>5
<1>16. CASE Process
  <2>1. UNCHANGED <<log, kfCursor, read>> /\ At("batch")
    BY <1>16 DEF Process
  <2>2. PICK i \in sync.batch :
          \/ sync' = [sync EXCEPT !.at = "process", !.batch = @ \ {i}, !.item = i]
          \/ sync' = [sync EXCEPT !.batch = @ \ {i}]
    BY <1>16 DEF Process
  <2> DEFINE b == sync.batch \ {i}
             s == [sync EXCEPT !.at = "process", !.batch = b, !.item = i]
             t == [sync EXCEPT !.batch = b]
  <2>3. sync' = s \/ sync' = t
    BY <2>2
  <2>4. b \in SUBSET (1 .. n) /\ i \in 0 .. n
    BY <1>0, <1>1
  <2> HIDE DEF b
  <2>5. /\ s \in Frames(n) /\ s.id = sync.id /\ s.cursor = sync.cursor
        /\ s.next = sync.next /\ s.at = "process"
    BY <1>0, <2>4 DEF Frames, Steps
  <2>6. /\ t \in Frames(n) /\ t.id = sync.id /\ t.cursor = sync.cursor
        /\ t.next = sync.next /\ t.at = sync.at
    BY <1>0, <2>4 DEF Frames, Steps
  <2> HIDE DEF s, t
  <2> QED BY <1>4, <2>1, <2>3, <2>5, <2>6 DEF At
<1>17. CASE ProcessReturns
  <2>1. UNCHANGED <<log, kfCursor, read>> /\ At("process")
    BY <1>17 DEF ProcessReturns, hist
  <2> DEFINE z == 0
             s == [sync EXCEPT !.at = "batch", !.item = z]
  <2>2. sync' = s /\ z \in 0 .. n
    BY <1>0, <1>17 DEF ProcessReturns
  <2> HIDE DEF z
  <2>3. /\ s \in Frames(n) /\ s.id = sync.id /\ s.cursor = sync.cursor
        /\ s.next = sync.next /\ s.at = "batch"
    BY <1>0, <2>2 DEF Frames, Steps
  <2> HIDE DEF s
  <2> QED BY <1>4, <2>1, <2>2, <2>3 DEF At
<1>18. CASE BatchDone
  BY <1>7, <1>18 DEF BatchDone, hist, Replies, At
<1>19. CASE Reply
  <2>1. UNCHANGED <<log, kfCursor>> /\ MarkRead /\ At("reply") /\ sync' = Done(sync)
    BY <1>19 DEF Reply
  <2>2. sync.id \in 1 .. n
    BY <1>3, <2>1 DEF At
  <2> QED BY <1>0, <1>5, <2>1, <2>2, DoneIsFrame DEF At
<1>20. CASE Finish \/ SyncFails \/ Restart
  BY <1>6, <1>20 DEF Finish, SyncFails, Restart, hist
<1>21. ASSUME NEW u \in Users, SendLatestConfirmation(u)
       PROVE  sync' \in Frames(Len(log')) /\ Walk'
  <2>1. /\ UNCHANGED <<log, kfCursor, read>> /\ At("menus")
        /\ sync' = [sync EXCEPT !.confirmations = @ \ {u}]
    BY <1>21 DEF SendLatestConfirmation, hist
  <2> DEFINE c == sync.confirmations \ {u}
             s == [sync EXCEPT !.confirmations = c]
  <2>2. sync' = s /\ c \in SUBSET Users
    BY <1>1, <2>1
  <2> HIDE DEF c
  <2>3. s \in Frames(n) /\ s.cursor = sync.cursor /\ s.at = "menus"
    BY <1>0, <2>1, <2>2 DEF Frames, At
  <2> HIDE DEF s
  <2> QED BY <2>1, <2>2, <2>3 DEF Walk, At, n
<1>22. CASE Send
  <2>1. UNCHANGED <<sync, kfCursor, read>> /\ Len(log') = n + 1
    BY <1>22, LogGrows DEF Send, hist, n
  <2>2. sync' \in Frames(n + 1)
    BY <1>0, <2>1, FrameGrows
  <2> QED BY <2>1, <2>2 DEF Walk, At
<1>23. CASE Expire \/ SetBack \/ UNCHANGED vars
  BY <1>0, <1>23 DEF Expire, SetBack, vars, hist, Walk, At, n
<1> QED
  BY <1>8, <1>9, <1>10, <1>11, <1>12, <1>13, <1>14, <1>15, <1>16, <1>17, <1>18, <1>19, <1>20,
     <1>21, <1>22, <1>23 DEF Next, Sync

\* The contents of a batch are pending rows.
LEMMA ActiveAreRows ==
  ASSUME TypeOK, NEW u
  PROVE  /\ Active(u) \subseteq Sent /\ Active(u) \subseteq Ids /\ Active(u) \subseteq ToSet(queue)
         /\ \A i \in Active(u) : status[i] = "pending" /\ i \notin expired
<1>1. Sent \subseteq Ids /\ RowsOK
  BY TypeParts, SentAreIds
<1> QED BY <1>1 DEF Active, RowsOK

\* pendingBatch sets the status of its rows.
LEMMA BatchIsSet ==
  ASSUME TypeOK, NEW u, NEW v \in {"confirmed", "cancelled"}, status' = SetBatch(Active(u), v)
  PROVE  /\ status' \in [Ids -> {"none", "pending", "confirmed", "cancelled"}]
         /\ {i \in Ids : status'[i] # "none"} = {i \in Ids : status[i] # "none"}
         /\ \A i \in Ids : status'[i] = IF i \in Active(u) THEN v ELSE status[i]
<1>1. status \in [Ids -> {"none", "pending", "confirmed", "cancelled"}]
  BY TypeParts DEF RowsOK
<1>2. \A i \in Active(u) : status[i] = "pending"
  BY ActiveAreRows
<1> DEFINE A == Active(u)
<1>3. status' = [i \in Ids |-> IF i \in A THEN v ELSE status[i]]
  BY DEF SetBatch
<1>4. \A i \in A : status[i] = "pending"
  BY <1>2
<1> HIDE DEF A
<1>5. \A i \in Ids : status'[i] = IF i \in A THEN v ELSE status[i]
  BY <1>3
<1>6. status' \in [Ids -> {"none", "pending", "confirmed", "cancelled"}]
  BY <1>1, <1>3
<1>7. \A i \in Ids : status'[i] # "none" <=> status[i] # "none"
  BY <1>4, <1>5
<1> QED BY <1>5, <1>6, <1>7 DEF A

\* What has expired has a row, and is not created.
LEMMA CreatedIsNew ==
  ASSUME TypeOK, CreatePending
  PROVE  expired' = expired
BY TypeParts DEF RowsOK, CreatePending, Creates

\* Each step keeps the table pending_prints in order.
LEMMA RowsStep ==
  ASSUME TypeOK, Walk, [Next]_vars
  PROVE  RowsOK'
<1>0. RowsOK /\ LogOK /\ Len(log) \in Nat /\ Sent \subseteq Ids
  BY TypeParts, SentAreIds
<1>1. ASSUME UNCHANGED <<log, status, queue>>, expired' \subseteq ToSet(queue), newest' \subseteq newest
      PROVE  RowsOK'
  BY <1>0, <1>1 DEF RowsOK, Sent
<1>2. ASSUME UNCHANGED <<log, table>>, newest' \in {newest, {}}
      PROVE  RowsOK'
  BY <1>0, <1>1, <1>2 DEF table, RowsOK
<1>3. CASE \/ Start \/ Fetch \/ SetKfCursor \/ Decline \/ Skip \/ Process \/ ProcessReturns
           \/ BatchDone \/ Reply \/ Finish \/ SyncFails \/ Restart \/ UNCHANGED vars
  BY <1>2, <1>3 DEF Start, Fetch, SetKfCursor, Decline, Skip, Process, ProcessReturns, BatchDone,
     Reply, Finish, SyncFails, Restart, vars
<1>4. ASSUME NEW u \in Users, SendLatestConfirmation(u)
      PROVE  RowsOK'
  BY <1>2, <1>4 DEF SendLatestConfirmation
<1>5. CASE CreatePending
  <2>1. /\ sync.id \in Sent /\ status[sync.id] = "none" /\ UNCHANGED <<log, expired>>
        /\ status' = [status EXCEPT ![sync.id] = "pending"] /\ newest' = newest \cup {sync.id}
    BY <1>5, InHand, CreatedIsNew DEF CreatePending, Accepting, Handling, Creates
  <2>2. PICK p \in Places : queue' = InsertAt(queue, p, sync.id)
    BY <1>5 DEF CreatePending
  <2>3. p \in 1 .. Len(queue) + 1 /\ queue \in Seq(Sent) /\ sync.id \notin ToSet(queue)
    BY <1>0, <2>1 DEF Places, RowsOK
  <2>4. /\ queue' \in Seq(Sent) /\ ToSet(queue') = ToSet(queue) \cup {sync.id}
        /\ \A i, j \in DOMAIN queue' : queue'[i] = queue'[j] => i = j
    BY <1>0, <2>1, <2>2, <2>3, InsertedOrder DEF RowsOK
  <2>5. /\ status' \in [Ids -> {"none", "pending", "confirmed", "cancelled"}]
        /\ {i \in Ids : status'[i] # "none"} = {i \in Ids : status[i] # "none"} \cup {sync.id}
    BY <1>0, <2>1 DEF RowsOK
  <2>6. Sent' = Sent
    BY <2>1 DEF Sent
  <2> QED BY <1>0, <2>1, <2>4, <2>5, <2>6 DEF RowsOK
<1>6. ASSUME NEW u, NEW v \in {"confirmed", "cancelled"}, UNCHANGED <<log, queue, expired, newest>>,
             status' = SetBatch(Active(u), v)
      PROVE  RowsOK'
  <2>1. /\ status' \in [Ids -> {"none", "pending", "confirmed", "cancelled"}]
        /\ {i \in Ids : status'[i] # "none"} = {i \in Ids : status[i] # "none"}
    BY <1>6, BatchIsSet
  <2> QED BY <1>0, <1>6, <2>1 DEF RowsOK, Sent
<1>7. CASE Cancel
  <2>1. UNCHANGED <<log, queue, expired, newest>>
    BY <1>7 DEF Cancel
  <2>2. status' = SetBatch(Active(Click.user), "cancelled") \/ status' = status
    BY <1>7 DEF Cancel
  <2> QED BY <1>2, <1>6, <2>1, <2>2 DEF table
<1>8. CASE Confirm
  <2>1. UNCHANGED <<log, queue, expired, newest>>
    BY <1>8 DEF Confirm
  <2>2. status' = SetBatch(Active(Click.user), "confirmed") \/ status' = status
    BY <1>8 DEF Confirm
  <2> QED BY <1>2, <1>6, <2>1, <2>2 DEF table
<1>9. CASE Send
  <2>1. UNCHANGED <<status, queue, expired, newest>> /\ Len(log') = Len(log) + 1
    BY <1>9, LogGrows DEF Send, table
  <2>2. Sent \subseteq Sent'
    BY <1>0, <2>1 DEF Sent
  <2>3. queue \in Seq(Sent')
    BY <1>0, <2>2, SeqMonotonic DEF RowsOK
  <2> QED BY <1>0, <2>1, <2>3 DEF RowsOK
<1>10. CASE Expire \/ SetBack
  <2>1. UNCHANGED <<log, status, queue, newest>> /\ expired' \subseteq ToSet(queue)
    BY <1>0, <1>10 DEF Expire, SetBack, RowsOK
  <2> QED BY <1>1, <2>1
<1> QED BY <1>3, <1>4, <1>5, <1>7, <1>8, <1>9, <1>10 DEF Next, Sync

\* Menus and history name what customers have sent.
LEMMA MenusStep ==
  ASSUME TypeOK, [Next]_vars
  PROVE  LogOK' /\ menus' \subseteq [key : Sent', items : SUBSET Sent', listed : SUBSET Sent'] /\ Sent \subseteq Sent'
<1>0. LogOK /\ menus \subseteq [key : Sent, items : SUBSET Sent, listed : SUBSET Sent] /\ Len(log) \in Nat
  BY TypeParts, SentAreIds
<1>1. ASSUME UNCHANGED <<log, menus>>
      PROVE  LogOK' /\ menus' \subseteq [key : Sent', items : SUBSET Sent', listed : SUBSET Sent'] /\ Sent \subseteq Sent'
  BY <1>0, <1>1 DEF LogOK, Sent
<1>2. CASE \/ Sync /\ ~(\E u \in Users : SendLatestConfirmation(u))
           \/ SyncFails \/ Expire \/ SetBack \/ Restart \/ UNCHANGED vars
  BY <1>1, <1>2 DEF Sync, Start, Fetch, SetKfCursor, Decline, Skip, CreatePending, Cancel, Confirm,
     Process, ProcessReturns, BatchDone, Reply, Finish, SyncFails, Expire, SetBack, Restart, vars
<1>3. ASSUME NEW u \in Users, SendLatestConfirmation(u)
      PROVE  LogOK' /\ menus' \subseteq [key : Sent', items : SUBSET Sent', listed : SUBSET Sent'] /\ Sent \subseteq Sent'
  <2>1. log' = log
    BY <1>3 DEF SendLatestConfirmation
  <2>2. \/ menus' = menus
        \/ \E k \in Active(u) : menus' = menus \cup {Menu(k, Active(u))}
    BY <1>3 DEF SendLatestConfirmation
  <2>3. \A k \in Active(u) : Menu(k, Active(u)) \in [key : Sent, items : SUBSET Sent, listed : SUBSET Sent]
    BY ActiveAreRows DEF Menu, Listed
  <2>4. menus' \subseteq [key : Sent, items : SUBSET Sent, listed : SUBSET Sent]
    BY <1>0, <2>2, <2>3
  <2> QED BY <1>0, <2>1, <2>4 DEF LogOK, Sent
<1>4. CASE Send
  <2>1. LogOK' /\ Len(log') = Len(log) + 1 /\ menus' = menus
    BY <1>4, LogGrows DEF Send
  <2>2. Sent \subseteq Sent'
    BY <1>0, <2>1 DEF Sent
  <2> QED BY <1>0, <2>1, <2>2
<1> QED BY <1>2, <1>3, <1>4 DEF Next, Sync

LEMMA HistStep ==
  ASSUME TypeOK, Walk, [Next]_vars
  PROVE  HistOK'
<1>0. HistOK /\ LogOK /\ Len(log) \in Nat /\ Sent \subseteq Ids /\ Sent \subseteq Sent'
  BY TypeParts, SentAreIds, MenusStep
<1>1. ASSUME UNCHANGED <<via, calls, receipts>>, read' \subseteq read \cup Sent
      PROVE  HistOK'
  BY <1>0, <1>1 DEF HistOK
<1>2. CASE \/ Start \/ Fetch \/ SetKfCursor \/ Decline \/ Cancel \/ ProcessReturns
           \/ BatchDone \/ Finish \/ SyncFails \/ Restart \/ Send \/ Expire \/ SetBack \/ UNCHANGED vars
  BY <1>1, <1>2 DEF Start, Fetch, SetKfCursor, Decline, Cancel, ProcessReturns,
     BatchDone, Finish, SyncFails, Restart, Send, Expire, SetBack, vars, hist
<1>3. ASSUME NEW u \in Users, SendLatestConfirmation(u)
      PROVE  HistOK'
  BY <1>1, <1>3 DEF SendLatestConfirmation, hist
<1>4. CASE Skip \/ CreatePending
  <2>1. UNCHANGED <<via, calls, receipts>> /\ MarkRead /\ sync.id \in Sent
    BY <1>4, InHand DEF Skip, CreatePending, Accepting, Handling
  <2> QED BY <1>1, <2>1 DEF MarkRead
<1>5. CASE Confirm
  <2>1. UNCHANGED <<calls, receipts, read>> /\ sync.id \in Sent
    BY <1>5, InHand DEF Confirm, Handling
  <2> DEFINE A == Active(Click.user)
  <2>2. via' = [i \in Ids |-> IF i \in A THEN sync.id ELSE via[i]] \/ via' = via
    BY <1>5 DEF Confirm
  <2> HIDE DEF A
  <2>3. sync.id \in 0 .. MaxLog
    <3>1. sync.id \in Ids
      BY <1>0, <2>1
    <3> QED BY <3>1, KfAssumption DEF Ids
  <2>4. via' \in [Ids -> 0 .. MaxLog]
    BY <1>0, <2>2, <2>3 DEF HistOK
  <2> QED BY <1>0, <2>1, <2>4 DEF HistOK
<1>6. CASE Process
  <2>1. UNCHANGED <<via, receipts, read>>
    BY <1>6 DEF Process
  <2>2. PICK i \in sync.batch : calls' = [calls EXCEPT ![i] = @ + 1]
    BY <1>6 DEF Process
  <2>3. calls \in [Ids -> Nat] /\ i \in Ids
    BY <1>0, BatchWasSent DEF HistOK
  <2>4. calls' \in [Ids -> Nat]
    BY <2>2, <2>3
  <2> QED BY <1>0, <2>1, <2>4 DEF HistOK
<1>7. CASE Reply
  <2>1. UNCHANGED <<via, calls>> /\ MarkRead /\ sync.id \in Sent /\ sync.reply \in Replies
    BY <1>7, InHand DEF Reply, Walk, At
  <2>2. receipts' = [receipts EXCEPT ![sync.id] = @ \cup {sync.reply}] \/ receipts' = receipts
    BY <1>7 DEF Reply
  <2>3. receipts' \in [Ids -> SUBSET Replies]
    BY <1>0, <2>1, <2>2 DEF HistOK
  <2>4. read' \subseteq read \cup Sent
    BY <2>1 DEF MarkRead
  <2> QED BY <1>0, <2>1, <2>3, <2>4 DEF HistOK
<1> QED BY <1>2, <1>3, <1>4, <1>5, <1>6, <1>7 DEF Next, Sync

LEMMA TypeStep ==
  ASSUME TypeOK, Walk, [Next]_vars
  PROVE  TypeOK' /\ Walk'
<1>0. /\ row \in [Ids -> {"none", "open"} \cup Verdicts] /\ failures \in 0 .. MaxFailures
      /\ kfCursor \in 0 .. Len(log) /\ Len(log) \in Nat /\ sync \in Frames(Len(log))
  BY TypeParts, SentAreIds
<1>1. /\ LogOK' /\ RowsOK' /\ HistOK' /\ menus' \subseteq [key : Sent', items : SUBSET Sent', listed : SUBSET Sent']
      /\ sync' \in Frames(Len(log')) /\ Walk'
  BY WalkStep, RowsStep, HistStep, MenusStep
<1>2. row' \in [Ids -> {"none", "open"} \cup Verdicts]
  <2>1. CASE Process
    BY <1>0, <2>1 DEF Process
  <2>2. CASE ProcessReturns
    BY <1>0, <2>2 DEF ProcessReturns
  <2>3. CASE Restart
    BY <1>0, <2>3 DEF Restart, Verdicts
  <2>4. CASE row' = row
    BY <1>0, <2>4
  <2>5. ASSUME NEW u \in Users, SendLatestConfirmation(u)
        PROVE  row' = row
    BY <2>5 DEF SendLatestConfirmation
  <2>6. CASE \/ Start \/ Fetch \/ SetKfCursor \/ Decline \/ Skip \/ CreatePending \/ Cancel \/ Confirm
             \/ BatchDone \/ Reply \/ Finish \/ SyncFails \/ Send \/ Expire \/ SetBack
             \/ UNCHANGED vars
    BY <2>4, <2>6 DEF Start, Fetch, SetKfCursor, Decline, Skip, CreatePending, Cancel, Confirm,
       BatchDone, Reply, Finish, SyncFails, Send, Expire, SetBack, vars
  <2> QED BY <2>1, <2>2, <2>3, <2>4, <2>5, <2>6 DEF Next, Sync
<1>3. failures' \in 0 .. MaxFailures
  <2>1. ASSUME Failure \/ failures' = failures
        PROVE  failures' \in 0 .. MaxFailures
    BY <1>0, <2>1, KfAssumption DEF Failure
  <2>2. ASSUME NEW u \in Users, SendLatestConfirmation(u)
        PROVE  Failure \/ failures' = failures
    BY <2>2 DEF SendLatestConfirmation
  <2>3. Failure \/ failures' = failures
    BY <2>2 DEF Next, Sync, Start, Fetch, SetKfCursor, Decline, Skip, CreatePending, Cancel, Confirm,
       Process, ProcessReturns, BatchDone, Reply, Finish, SyncFails, Send, Expire, SetBack,
       Restart, vars
  <2> QED BY <2>1, <2>3
<1>4. kfCursor' \in 0 .. Len(log')
  <2>1. CASE SetKfCursor
    <3>1. kfCursor' \in {sync.next, kfCursor} /\ log' = log
      BY <2>1 DEF SetKfCursor
    <3> QED BY <1>0, <3>1 DEF Frames
  <2>2. CASE Send
    <3>1. kfCursor' = kfCursor /\ Len(log') = Len(log) + 1
      BY <2>2, LogGrows DEF Send
    <3> QED BY <1>0, <3>1
  <2>3. ASSUME NEW u \in Users, SendLatestConfirmation(u)
        PROVE  UNCHANGED <<log, kfCursor>>
    BY <2>3 DEF SendLatestConfirmation
  <2>4. SetKfCursor \/ Send \/ UNCHANGED <<log, kfCursor>>
    BY <2>3 DEF Next, Sync, Start, Fetch, Decline, Skip, CreatePending, Cancel, Confirm,
       Process, ProcessReturns, BatchDone, Reply, Finish, SyncFails, Expire, SetBack, Restart, vars
  <2> QED BY <1>0, <2>1, <2>2, <2>4
<1>7. setBack' \in BOOLEAN
  <2>1. setBack \in BOOLEAN
    BY TypeParts
  <2>2. ASSUME NEW u \in Users, SendLatestConfirmation(u)
        PROVE  setBack' = setBack
    BY <2>2 DEF SendLatestConfirmation
  <2>3. setBack' \in {setBack, TRUE}
    BY <2>2 DEF Next, Sync, Start, Fetch, SetKfCursor, Decline, Skip, CreatePending, Cancel, Confirm,
       Process, ProcessReturns, BatchDone, Reply, Finish, SyncFails, Send, Expire, SetBack,
       Restart, vars
  <2> QED BY <2>1, <2>3
<1>5. (/\ LogOK /\ RowsOK /\ HistOK
       /\ menus \subseteq [key : Sent, items : SUBSET Sent, listed : SUBSET Sent]
       /\ kfCursor \in 0 .. Len(log)
       /\ row \in [Ids -> {"none", "open"} \cup Verdicts]
       /\ sync \in Frames(Len(log))
       /\ failures \in 0 .. MaxFailures /\ setBack \in BOOLEAN)'
  BY <1>1, <1>2, <1>3, <1>4, <1>7 DEF Frames
<1>6. TypeOK'
  BY <1>5, TypeParts, PTL
<1> QED BY <1>1, <1>6

-----------------------------------------------------------------------------
\* Once, and nothing skipped

LEMMA InitHolds ==
  ASSUME Init
  PROVE  KfInv /\ OfferedInv
<1>0. log = <<>> /\ queue = <<>> /\ menus = {} /\ sync = Idle /\ kfCursor = 0
  BY DEF Init
<1>1. Len(log) = 0 /\ Sent = {} /\ log \in Seq(Messages)
  BY <1>0 DEF Sent
<1>2. queue \in Seq(Sent) /\ ToSet(queue) = {} /\ DOMAIN queue = {}
  BY <1>0 DEF ToSet
<1>3. \A i \in Ids : status[i] = "none" /\ calls[i] = 0
  BY DEF Init
<1>4. LogOK
  BY <1>1, KfAssumption DEF LogOK
<1>5. RowsOK
  BY <1>2, <1>3 DEF RowsOK, Init
<1>6. HistOK
  BY KfAssumption DEF HistOK, Init
<1>7. TypeOK
  <2>1. sync \in Frames(Len(log)) /\ kfCursor \in 0 .. Len(log) /\ failures \in 0 .. MaxFailures
    BY <1>0, <1>1, IdleIsFrame, KfAssumption DEF Init
  <2>2. row \in [Ids -> {"none", "open"} \cup Verdicts] /\ setBack \in BOOLEAN
    BY DEF Init
  <2> QED BY <1>0, <1>4, <1>5, <1>6, <2>1, <2>2, TypeParts
<1>8. Walk
  BY <1>0 DEF Walk, At, Idle
<1>9. FreshBatch /\ PassedOnOnce
  BY <1>0, <1>3 DEF FreshBatch, PassedOnOnce, Idle
<1>10. OfferedInv
  BY <1>0, <1>1, <1>3 DEF OfferedInv, ClicksNameMenus, Complete, ViaClick, ConfirmedWasOffered
<1> QED BY <1>7, <1>8, <1>9, <1>10 DEF KfInv

\* process is called for what FreshBatch holds ready; a confirmation fills it with
\* rows that were pending until then, which process has not seen.
LEMMA PassStep ==
  ASSUME KfInv, [Next]_vars
  PROVE  FreshBatch' /\ PassedOnOnce'
<1>0. /\ calls \in [Ids -> Nat] /\ sync.batch \subseteq Ids
      /\ status \in [Ids -> {"none", "pending", "confirmed", "cancelled"}]
      /\ sync \in Frames(Len(log))
  BY TypeParts, BatchWasSent DEF KfInv, HistOK, RowsOK
<1>1. FreshBatch /\ PassedOnOnce
  BY DEF KfInv
\* Nothing is passed on or confirmed.
<1>2. ASSUME calls' = calls, sync'.batch \subseteq sync.batch,
             \A i \in Ids : status[i] = "confirmed" => status'[i] = "confirmed"
      PROVE  FreshBatch' /\ PassedOnOnce'
  BY <1>0, <1>1, <1>2 DEF FreshBatch, PassedOnOnce
<1>3. ASSUME UNCHANGED <<calls, status>>, NEW s, sync' = s, s.batch \subseteq sync.batch
      PROVE  FreshBatch' /\ PassedOnOnce'
  BY <1>2, <1>3
<1>4. Idle.batch = {}
  BY DEF Idle
<1>5. CASE Start
  <2> DEFINE s == [Idle EXCEPT !.at = "fetch", !.cursor = kfCursor]
  <2>1. s.batch = {}
    BY DEF Idle
  <2>2. sync' = s /\ UNCHANGED <<calls, status>>
    BY <1>5 DEF Start, hist, table
  <2> HIDE DEF s
  <2> QED BY <1>3, <2>1, <2>2
<1>6. CASE Finish \/ SyncFails \/ Restart
  BY <1>3, <1>4, <1>6 DEF Finish, SyncFails, Restart, hist, table
<1>7. CASE Fetch \/ SetKfCursor \/ Decline \/ BatchDone \/ ProcessReturns
  <2>1. UNCHANGED <<calls, status>>
    BY <1>7 DEF Fetch, SetKfCursor, Decline, BatchDone, ProcessReturns, hist, table
  <2>2. sync'.batch = sync.batch
    BY <1>0, <1>7 DEF Fetch, SetKfCursor, Decline, BatchDone, ProcessReturns, Answer, Frames
  <2> QED BY <1>3, <2>1, <2>2
<1>8. CASE Skip \/ Reply
  <2>1. UNCHANGED <<calls, status>> /\ sync' = Done(sync)
    BY <1>8 DEF Skip, Reply, table
  <2>2. sync'.batch = sync.batch
    BY <1>0, <2>1 DEF Done, Frames
  <2> QED BY <1>3, <2>1, <2>2
<1>9. CASE CreatePending
  <2>1. /\ status[sync.id] = "none" /\ status' = [status EXCEPT ![sync.id] = "pending"] /\ calls' = calls
        /\ sync' = [Done(sync) EXCEPT !.confirmations = sync.confirmations \cup {log[sync.id].user}]
    BY <1>9 DEF CreatePending, Creates
  <2>2. sync'.batch = sync.batch
    BY <1>0, <2>1 DEF Done, Frames
  <2>3. \A i \in Ids : status[i] = "confirmed" => status'[i] = "confirmed"
    BY <1>0, <2>1
  <2> QED BY <1>2, <2>1, <2>2, <2>3
<1>10. CASE Cancel
  <2>1. calls' = calls /\ (Answer("cancelled") \/ Answer("void"))
    BY <1>10 DEF Cancel, hist
  <2>2. sync'.batch = sync.batch
    BY <1>0, <2>1 DEF Answer, Frames
  <2>3. status' = SetBatch(Active(Click.user), "cancelled") \/ status' = status
    BY <1>10 DEF Cancel
  <2>4. \A i \in Ids : status[i] = "confirmed" => status'[i] = "confirmed"
    BY <2>3, BatchIsSet, ActiveAreRows DEF KfInv
  <2> QED BY <1>2, <2>1, <2>2, <2>4
<1>11. CASE Confirm
  <2>1. calls' = calls
    BY <1>11 DEF Confirm
  <2> DEFINE A == Active(Click.user)
  <2>2. CASE sync' = [sync EXCEPT !.at = "batch", !.batch = A] /\ status' = SetBatch(A, "confirmed")
    <3>1. \A i \in Ids : status'[i] = IF i \in A THEN "confirmed" ELSE status[i]
      BY <2>2, BatchIsSet DEF KfInv
    <3>2. A \subseteq Ids /\ \A i \in A : status[i] = "pending"
      BY ActiveAreRows DEF KfInv
    <3> HIDE DEF A
    <3>3. sync'.batch = A
      BY <1>0, <2>2 DEF Frames
    <3>4. \A i \in A : calls[i] = 0
      BY <1>0, <1>1, <3>2 DEF PassedOnOnce
    <3> QED BY <1>0, <1>1, <2>1, <3>1, <3>2, <3>3, <3>4 DEF FreshBatch, PassedOnOnce
  <2>3. CASE Answer("void") /\ UNCHANGED status
    <3>1. sync'.batch = sync.batch
      BY <1>0, <2>3 DEF Answer, Frames
    <3> QED BY <1>3, <2>1, <2>3, <3>1
  <2> QED BY <1>11, <2>2, <2>3 DEF Confirm, ToPrint
<1>12. CASE Process
  <2>1. UNCHANGED status
    BY <1>12 DEF Process, table
  <2>2. PICK i \in sync.batch :
          /\ calls' = [calls EXCEPT ![i] = @ + 1]
          /\ \/ sync' = [sync EXCEPT !.at = "process", !.batch = @ \ {i}, !.item = i]
             \/ sync' = [sync EXCEPT !.batch = @ \ {i}]
    BY <1>12 DEF Process
  <2>3. sync'.batch = sync.batch \ {i}
    BY <1>0, <2>2 DEF Frames
  <2>4. i \in Ids /\ status[i] = "confirmed" /\ calls[i] = 0
    BY <1>0, <1>1 DEF FreshBatch
  <2>5. calls'[i] = 1 /\ \A j \in Ids \ {i} : calls'[j] = calls[j]
    BY <1>0, <2>2, <2>4
  <2> QED BY <1>0, <1>1, <2>1, <2>3, <2>4, <2>5 DEF FreshBatch, PassedOnOnce
<1>13. ASSUME NEW u \in Users, SendLatestConfirmation(u)
       PROVE  FreshBatch' /\ PassedOnOnce'
  <2>1. UNCHANGED <<calls, status>> /\ sync' = [sync EXCEPT !.confirmations = @ \ {u}]
    BY <1>13 DEF SendLatestConfirmation, hist, table
  <2>2. sync'.batch = sync.batch
    BY <1>0, <2>1 DEF Frames
  <2> QED BY <1>3, <2>1, <2>2
<1>14. CASE Send \/ Expire \/ SetBack \/ UNCHANGED vars
  BY <1>3, <1>14 DEF Send, Expire, SetBack, vars, table, hist
<1> QED
  BY <1>5, <1>6, <1>7, <1>8, <1>9, <1>10, <1>11, <1>12, <1>13, <1>14 DEF Next, Sync

LEMMA InvHolds == Spec => []KfInv
<1>1. Init => KfInv
  BY InitHolds
<1>2. KfInv /\ [Next]_vars => KfInv'
  BY TypeStep, PassStep DEF KfInv
<1> QED BY <1>1, <1>2, PTL DEF Spec

\* Type correctness: only what customers sent has a row, at most one each, a menu
\* or a receipt.
THEOREM KfTypesHold == Spec => []TypeOK
<1>1. KfInv => TypeOK
  BY DEF KfInv
<1> QED BY <1>1, InvHolds, PTL

\* No content is handed to process twice, nor without a confirmation, however
\* often a page is repeated (handleMenu, confirmPending).
THEOREM ContentPassedOnOnce == Spec => []PassedOnOnce
<1>1. KfInv => PassedOnOnce
  BY DEF KfInv
<1> QED BY <1>1, InvHolds, PTL

\* The stored cursor never passes a message that has not been handled to the end,
\* wherever syncs fail or the program dies (sync, setKfCursor).
THEOREM NoMessageSkipped == Spec => []NothingSkipped
<1>1. KfInv => NothingSkipped
  BY DEF KfInv, Walk, NothingSkipped
<1> QED BY <1>1, InvHolds, PTL

\* A row goes from no status to pending and from there, until it expires, to what
\* its customer decides, and stays there; what has expired stays expired unless the
\* clock is set back (createPending, pendingBatch).
THEOREM DecisionsStand == Spec => DecisionStands
<1>1. ASSUME KfInv, [Next]_vars
      PROVE  \A i \in Ids : status'[i] # status[i] =>
               \/ status[i] = "none" /\ status'[i] = "pending"
               \/ status[i] = "pending" /\ i \notin expired
  <2>0. status \in [Ids -> {"none", "pending", "confirmed", "cancelled"}]
    BY <1>1, TypeParts DEF KfInv, RowsOK
  <2>1. CASE CreatePending
    BY <2>0, <2>1 DEF CreatePending, Creates
  <2>2. ASSUME NEW u, NEW v \in {"confirmed", "cancelled"}, status' = SetBatch(Active(u), v)
        PROVE  \A i \in Ids : status'[i] # status[i] => status[i] = "pending" /\ i \notin expired
    BY <1>1, <2>2, BatchIsSet, ActiveAreRows DEF KfInv
  <2>3. CASE Cancel \/ Confirm
    <3>1. \/ status' = SetBatch(Active(Click.user), "cancelled")
          \/ status' = SetBatch(Active(Click.user), "confirmed")
          \/ status' = status
      BY <2>3 DEF Cancel, Confirm
    <3> QED BY <2>2, <3>1
  <2>4. ASSUME NEW u \in Users, SendLatestConfirmation(u)
        PROVE  status' = status
    BY <2>4 DEF SendLatestConfirmation, table
  <2>5. CreatePending \/ Cancel \/ Confirm \/ status' = status
    BY <1>1, <2>4 DEF Next, Sync, Start, Fetch, SetKfCursor, Decline, Skip, Process,
       ProcessReturns, BatchDone, Reply, Finish, SyncFails, Send, Expire, SetBack, Restart, vars, table
  <2> QED BY <2>1, <2>3, <2>5
<1>2. ASSUME KfInv, [Next]_vars
      PROVE  expired \subseteq expired' \/ setBack'
  <2>1. CASE CreatePending
    BY <1>2, <2>1, CreatedIsNew DEF KfInv
  <2>2. ASSUME NEW u \in Users, SendLatestConfirmation(u)
        PROVE  expired' = expired
    BY <2>2 DEF SendLatestConfirmation, table
  <2>3. CreatePending \/ expired \subseteq expired' \/ setBack'
    BY <1>2, <2>2 DEF Next, Sync, Start, Fetch, SetKfCursor, Decline, Skip, Cancel, Confirm, Process,
       ProcessReturns, BatchDone, Reply, Finish, SyncFails, Send, Expire, SetBack, Restart, vars, table
  <2> QED BY <2>1, <2>3
<1>3. KfInv /\ [Next]_vars =>
        [\A i \in Ids :
           /\ status'[i] # status[i] =>
                \/ status[i] = "none" /\ status'[i] = "pending"
                \/ status[i] = "pending" /\ i \notin expired
           /\ i \in expired => i \in expired' \/ setBack']_<<status, expired>>
  BY <1>1, <1>2
<1> QED BY <1>3, InvHolds, PTL DEF Spec, DecisionStands

-----------------------------------------------------------------------------
\* What a menu offers

\* A batch that the text has room for is listed in full.
LEMMA ShortIsListed ==
  ASSUME TypeOK, NEW u, Cardinality(Active(u)) <= MenuLines
  PROVE  Listed(Active(u)) = Active(u)
<1> DEFINE A == Active(u)
<1>1. IsFiniteSet(A)
  <2>1. A \subseteq 1 .. Len(log) /\ Len(log) \in Nat
    BY TypeParts, SentAreIds DEF Active, Sent
  <2>2. IsFiniteSet(1 .. Len(log))
    BY <2>1, FS_Interval
  <2> QED BY <2>1, <2>2, FS_Subset
<1>2. \A p, q \in DOMAIN queue : queue[p] = queue[q] => p = q
  BY TypeParts DEF RowsOK
<1>3. queue \in Seq(Sent) /\ DOMAIN queue \subseteq Nat
  BY TypeParts, LenProperties DEF RowsOK
<1> HIDE DEF A
<1>4. ASSUME NEW i \in A
      PROVE  Cardinality({j \in A : Before(j, i)}) < MenuLines
  <2> DEFINE B == {j \in A : Before(j, i)}
  <2>1. ~Before(i, i)
    BY <1>2, <1>3 DEF Before
  <2>2. B \subseteq A \ {i}
    BY <2>1
  <2>3. IsFiniteSet(A \ {i}) /\ Cardinality(A \ {i}) = Cardinality(A) - 1
    BY <1>1, FS_RemoveElement
  <2> HIDE DEF B
  <2>4. IsFiniteSet(B) /\ Cardinality(B) <= Cardinality(A \ {i})
    BY <2>2, <2>3, FS_Subset
  <2>5. Cardinality(A) \in Nat /\ Cardinality(B) \in Nat
    BY <1>1, <2>4, FS_CardinalityType
  <2>6. Cardinality(A) <= MenuLines /\ MenuLines \in Nat
    BY KfAssumption DEF A
  <2> QED BY <2>3, <2>4, <2>5, <2>6 DEF B
<1> QED BY <1>4 DEF Listed, A

\* Complete, with the batch written out.
LEMMA CompleteMeans ==
  Complete <=>
    \A n \in menus :
      /\ n.key \in ToSet(queue) \ newest
      /\ Cardinality(n.items) <= MenuLines => n.items \subseteq n.listed
      /\ \A i \in Sent : /\ log[i].user = log[n.key].user /\ status[i] = "pending" /\ i \notin expired
                         /\ i = n.key \/ Before(i, n.key)
                         => i \in n.items
BY DEF Complete, Active

\* A step that creates no row, sends no menu and confirms nothing.
LEMMA QuietKeepsOffered ==
  ASSUME TypeOK, OfferedInv, LogOK', Sent \subseteq Sent', \A i \in Sent : log'[i] = log[i],
         UNCHANGED <<menus, queue, via, setBack>>, newest' \subseteq newest, expired \subseteq expired',
         \A i \in Ids : status'[i] = status[i] \/ status'[i] = "cancelled",
         \A c \in Sent' \ Sent : log'[c].kind \in {"confirm", "cancel"} =>
           \E n \in menus : log'[c].menu = n.key /\ log'[c].user = log[n.key].user
  PROVE  OfferedInv'
<1>0. /\ menus \subseteq [key : Sent, items : SUBSET Sent, listed : SUBSET Sent] /\ ToSet(queue) = {i \in Ids : status[i] # "none"}
      /\ Sent \subseteq Ids /\ queue \in Seq(Sent)
  BY TypeParts, SentAreIds DEF RowsOK
<1>1. Sent' \subseteq Ids
  BY KfAssumption DEF LogOK, Sent, Ids
<1>2. ToSet(queue) \subseteq Sent
  BY <1>0, LenProperties, ElementOfSeq DEF ToSet
<1>3. ClicksNameMenus'
  <2>1. ASSUME NEW c \in Sent', log'[c].kind \in {"confirm", "cancel"}
        PROVE  \E n \in menus : n.key = log'[c].menu /\ log'[n.key].user = log'[c].user
    <3>1. \E n \in menus : n.key = log'[c].menu /\ log[n.key].user = log'[c].user
      BY <2>1 DEF OfferedInv, ClicksNameMenus
    <3> QED BY <1>0, <3>1
  <2> QED BY <2>1 DEF ClicksNameMenus
<1>4. Complete'
  <2>1. ASSUME NEW n \in menus
        PROVE  /\ n.key \in ToSet(queue') \ newest' /\ n.key \in Sent
               /\ Cardinality(n.items) <= MenuLines => n.items \subseteq n.listed
    BY <1>0, <2>1, CompleteMeans DEF OfferedInv
  <2>2. ASSUME NEW n \in menus, NEW i \in Sent', log'[i].user = log'[n.key].user,
               status'[i] = "pending", i \notin expired', i = n.key \/ Before(i, n.key)'
        PROVE  i \in n.items
    <3>1. status[i] = "pending" /\ i \notin expired /\ i \in Ids
      BY <1>1, <2>2
    <3>2. i \in Sent
      BY <1>0, <1>2, <3>1
    <3>3. log[i].user = log[n.key].user
      BY <2>1, <2>2, <3>2
    <3>4. i = n.key \/ Before(i, n.key)
      BY <2>2 DEF Before
    <3> QED BY <3>1, <3>2, <3>3, <3>4, CompleteMeans DEF OfferedInv
  <2>3. \A n \in menus' :
          /\ n.key \in ToSet(queue') \ newest'
          /\ Cardinality(n.items) <= MenuLines => n.items \subseteq n.listed
          /\ \A i \in Sent' : /\ log'[i].user = log'[n.key].user /\ status'[i] = "pending"
                              /\ i \notin expired' /\ (i = n.key \/ Before(i, n.key)')
                              => i \in n.items
    BY <2>1, <2>2
  <2> QED BY <2>3 DEF Complete, Active
<1>5. ViaClick' /\ ConfirmedWasOffered'
  <2>1. \A i \in Ids : status'[i] = "confirmed" => status[i] = "confirmed"
    OBVIOUS
  <2> QED BY <2>1 DEF OfferedInv, ViaClick, ConfirmedWasOffered
<1> QED BY <1>3, <1>4, <1>5 DEF OfferedInv

\* Unless the clock is set back, a new row goes before none that a menu names.
LEMMA CreateKeepsOffered ==
  ASSUME ~setBack, TypeOK, Walk, OfferedInv, CreatePending
  PROVE  OfferedInv'
<1>0. /\ menus \subseteq [key : Sent, items : SUBSET Sent, listed : SUBSET Sent] /\ ToSet(queue) = {i \in Ids : status[i] # "none"}
      /\ \A p, q \in DOMAIN queue : queue[p] = queue[q] => p = q
      /\ Sent \subseteq Ids /\ queue \in Seq(Sent)
      /\ status \in [Ids -> {"none", "pending", "confirmed", "cancelled"}]
  BY TypeParts, SentAreIds DEF RowsOK
<1> DEFINE e == sync.id
<1>1. /\ e \in Sent /\ status[e] = "none" /\ UNCHANGED <<log, menus, expired, via, setBack>>
      /\ status' = [status EXCEPT ![e] = "pending"] /\ newest' = newest \cup {e}
  BY InHand, CreatedIsNew DEF CreatePending, Accepting, Handling, Creates
<1>2. PICK p \in Places : queue' = InsertAt(queue, p, e)
  BY DEF CreatePending
<1> HIDE DEF e
<1>3. /\ p \in 1 .. Len(queue) + 1 /\ e \notin ToSet(queue)
      /\ \A k \in p .. Len(queue) : queue[k] \in newest
  BY <1>0, <1>1, <1>2 DEF Places
<1>4. /\ ToSet(queue') = ToSet(queue) \cup {e}
      /\ \A i, j \in DOMAIN queue' : i < j /\ queue'[j] # e =>
           IF queue'[i] = e THEN \E k \in p .. Len(queue) : queue[k] = queue'[j]
           ELSE \E k, l \in DOMAIN queue : k < l /\ queue[k] = queue'[i] /\ queue[l] = queue'[j]
  BY <1>0, <1>1, <1>2, <1>3, InsertedOrder, SMTT(40)
<1>5. ASSUME NEW n \in menus
      PROVE  n.key \in ToSet(queue) /\ n.key \notin newest /\ n.key # e /\ n.key \in Sent
  BY <1>0, <1>1, <1>5, CompleteMeans DEF OfferedInv
<1>6. ASSUME NEW n \in menus, NEW i, Before(i, n.key)'
      PROVE  i # e /\ Before(i, n.key)
  <2>1. PICK k, l \in DOMAIN queue' : k < l /\ queue'[k] = i /\ queue'[l] = n.key
    BY <1>6 DEF Before
  <2>2. queue'[l] # e
    BY <1>5, <2>1
  <2>3. i # e
    BY <1>3, <1>4, <1>5, <2>1, <2>2
  <2> QED BY <1>4, <2>1, <2>2, <2>3 DEF Before
<1>7. Complete'
  <2>1. ASSUME NEW n \in menus
        PROVE  /\ n.key \in ToSet(queue') \ newest'
               /\ Cardinality(n.items) <= MenuLines => n.items \subseteq n.listed
    BY <1>1, <1>4, <1>5, CompleteMeans DEF OfferedInv
  <2>2. ASSUME NEW n \in menus, NEW i \in Sent', log'[i].user = log'[n.key].user,
               status'[i] = "pending", i \notin expired', i = n.key \/ Before(i, n.key)'
        PROVE  i \in n.items
    <3>1. i # e /\ (i = n.key \/ Before(i, n.key))
      BY <1>5, <1>6, <2>2
    <3>2. i \in Sent
      BY <1>1, <2>2 DEF Sent
    <3>3. status[i] = "pending"
      BY <1>0, <1>1, <2>2, <3>1, <3>2
    <3> QED BY <1>1, <2>2, <3>1, <3>2, <3>3, CompleteMeans DEF OfferedInv
  <2>3. \A n \in menus' :
          /\ n.key \in ToSet(queue') \ newest'
          /\ Cardinality(n.items) <= MenuLines => n.items \subseteq n.listed
          /\ \A i \in Sent' : /\ log'[i].user = log'[n.key].user /\ status'[i] = "pending"
                              /\ i \notin expired' /\ (i = n.key \/ Before(i, n.key)')
                              => i \in n.items
    BY <1>1, <2>1, <2>2
  <2> QED BY <2>3 DEF Complete, Active
<1>8. ClicksNameMenus'
  BY <1>1 DEF OfferedInv, ClicksNameMenus, Sent
<1>9. ViaClick' /\ ConfirmedWasOffered'
  <2>1. \A i \in Ids : status'[i] = "confirmed" => status[i] = "confirmed"
    BY <1>0, <1>1
  <2> QED BY <1>1, <2>1 DEF OfferedInv, ViaClick, ConfirmedWasOffered, Sent
<1> QED BY <1>7, <1>8, <1>9 DEF OfferedInv

\* The menu that a confirmation names counts the whole batch.
LEMMA ConfirmKeepsOffered ==
  ASSUME ~setBack, TypeOK, Walk, OfferedInv, Confirm, IsLatest(Click.menu, Active(Click.user)),
         status' = SetBatch(Active(Click.user), "confirmed"),
         via' = [i \in Ids |-> IF i \in Active(Click.user) THEN sync.id ELSE via[i]]
  PROVE  OfferedInv'
<1> DEFINE c == sync.id
           A == Active(log[c].user)
<1>0. /\ c \in Sent /\ log[c].kind = "confirm" /\ UNCHANGED <<log, menus, queue, expired, newest, setBack>>
  BY InHand DEF Confirm, Handling
<1>1. PICK m \in menus : m.key = log[c].menu /\ log[m.key].user = log[c].user
  BY <1>0 DEF OfferedInv, ClicksNameMenus
<1>2. \A i \in Ids : status'[i] = IF i \in A THEN "confirmed" ELSE status[i]
  BY BatchIsSet DEF Click
<1>3. A \subseteq Sent /\ A \subseteq Ids /\ \A i \in A : log[i].user = log[c].user
  <2>1. A \subseteq Sent /\ A \subseteq Ids
    BY ActiveAreRows
  <2> QED BY <2>1 DEF Active
<1>4. A \subseteq m.items
  <2>1. \A i \in A : i = m.key \/ Before(i, m.key)
    BY <1>1 DEF IsLatest, Click
  <2>2. \A i \in Active(log[m.key].user) : i = m.key \/ Before(i, m.key) => i \in m.items
    BY DEF OfferedInv, Complete
  <2>3. Active(log[m.key].user) = A
    BY <1>1
  <2> QED BY <2>1, <2>2, <2>3
<1>5. \A i \in Ids : via'[i] = IF i \in A THEN c ELSE via[i]
  BY DEF Click
<1> HIDE DEF A, c
<1>6. ViaClick' /\ ConfirmedWasOffered'
  <2>1. ASSUME NEW i \in Ids, status'[i] = "confirmed"
        PROVE  /\ i \in Sent /\ via'[i] \in Sent /\ log[i].user = log[via'[i]].user
               /\ \E n \in menus : /\ n.key = log[via'[i]].menu /\ i \in n.items
                                   /\ Cardinality(n.items) <= MenuLines => i \in n.listed
    <3>1. CASE i \in A
      <4>1. Cardinality(m.items) <= MenuLines => m.items \subseteq m.listed
        BY DEF OfferedInv, Complete
      <4> QED BY <1>0, <1>1, <1>3, <1>4, <1>5, <3>1, <4>1
    <3>2. CASE i \notin A
      BY <1>2, <1>5, <2>1, <3>2 DEF OfferedInv, ViaClick, ConfirmedWasOffered
    <3> QED BY <3>1, <3>2
  <2>2. ViaClick'
    BY <1>0, <2>1 DEF ViaClick, Sent
  <2>3. ConfirmedWasOffered'
    BY <1>0, <2>1 DEF ConfirmedWasOffered
  <2> QED BY <2>2, <2>3
<1>7. Complete'
  <2>1. \A i \in Sent : status'[i] = "pending" => status[i] = "pending"
    BY <1>2, SentAreIds, TypeParts
  <2>2. \A n \in menus' :
          /\ n.key \in ToSet(queue') \ newest'
          /\ Cardinality(n.items) <= MenuLines => n.items \subseteq n.listed
          /\ \A i \in Sent' : /\ log'[i].user = log'[n.key].user /\ status'[i] = "pending"
                              /\ i \notin expired' /\ (i = n.key \/ Before(i, n.key)')
                              => i \in n.items
    BY <1>0, <2>1, CompleteMeans DEF OfferedInv, Sent, Before
  <2> QED BY <2>2 DEF Complete, Active
<1>8. ClicksNameMenus'
  BY <1>0 DEF OfferedInv, ClicksNameMenus, Sent
<1> QED BY <1>6, <1>7, <1>8 DEF OfferedInv

\* A new menu counts all there is.
LEMMA MenuKeepsOffered ==
  ASSUME TypeOK, OfferedInv, NEW u \in Users, SendLatestConfirmation(u)
  PROVE  OfferedInv'
<1>0. UNCHANGED <<log, status, queue, expired, via, setBack>> /\ newest' = {}
  BY DEF SendLatestConfirmation, table, hist
<1>1. \/ menus' = menus
      \/ \E k \in Active(u) : menus' = menus \cup {Menu(k, Active(u))}
  BY DEF SendLatestConfirmation
<1>2. menus \subseteq menus'
  BY <1>1
<1>3. ASSUME NEW n \in menus'
      PROVE  /\ n.key \in ToSet(queue') \ newest'
             /\ Cardinality(n.items) <= MenuLines => n.items \subseteq n.listed
             /\ \A i \in Sent : /\ log[i].user = log[n.key].user /\ status[i] = "pending"
                                /\ i \notin expired /\ (i = n.key \/ Before(i, n.key))
                                => i \in n.items
  <2>1. CASE n \in menus
    BY <1>0, <2>1, CompleteMeans DEF OfferedInv
  <2>2. CASE \E k \in Active(u) : n = Menu(k, Active(u))
    <3>1. PICK k \in Active(u) : n.key = k /\ n.items = Active(u) /\ n.listed = Listed(Active(u))
      BY <2>2 DEF Menu
    <3>2. log[k].user = u
      BY DEF Active
    <3>3. k \in ToSet(queue)
      BY ActiveAreRows
    <3>4. Cardinality(n.items) <= MenuLines => n.items \subseteq n.listed
      BY <3>1, ShortIsListed
    <3> QED BY <1>0, <3>1, <3>2, <3>3, <3>4 DEF Active
  <2> QED BY <1>1, <2>1, <2>2
<1>4. Complete'
  <2>1. \A n \in menus' :
          /\ n.key \in ToSet(queue') \ newest'
          /\ Cardinality(n.items) <= MenuLines => n.items \subseteq n.listed
          /\ \A i \in Sent' : /\ log'[i].user = log'[n.key].user /\ status'[i] = "pending"
                              /\ i \notin expired' /\ (i = n.key \/ Before(i, n.key)')
                              => i \in n.items
    BY <1>0, <1>3 DEF Sent, Before
  <2> QED BY <2>1 DEF Complete, Active
<1>5. ClicksNameMenus' /\ ViaClick' /\ ConfirmedWasOffered'
  BY <1>0, <1>2 DEF OfferedInv, ClicksNameMenus, ViaClick, ConfirmedWasOffered, Sent
<1> QED BY <1>4, <1>5 DEF OfferedInv

LEMMA OfferedStep ==
  ASSUME ~setBack', KfInv, ~setBack => OfferedInv, [Next]_vars
  PROVE  OfferedInv'
<1>a. ~SetBack
  BY DEF SetBack
<1>b. UNCHANGED setBack
  <2>1. ASSUME NEW u \in Users, SendLatestConfirmation(u)
        PROVE  setBack' = setBack
    BY <2>1 DEF SendLatestConfirmation
  <2> QED
    BY <1>a, <2>1 DEF Next, Sync, Start, Fetch, SetKfCursor, Decline, Skip, CreatePending, Cancel,
       Confirm, Process, ProcessReturns, BatchDone, Reply, Finish, SyncFails, Send, Expire,
       Restart, vars
<1>0. TypeOK /\ Walk /\ LogOK' /\ LogOK /\ Sent \subseteq Sent' /\ ~setBack /\ OfferedInv
  BY <1>b, TypeParts, MenusStep DEF KfInv
<1>1. ASSUME UNCHANGED <<log, menus, queue, via>>, newest' \subseteq newest, expired \subseteq expired',
             \A i \in Ids : status'[i] = status[i] \/ status'[i] = "cancelled"
      PROVE  OfferedInv'
  <2>1. Sent' = Sent
    BY <1>1 DEF Sent
  <2> QED BY <1>b, <1>0, <1>1, <2>1, QuietKeepsOffered
<1>2. CASE \/ Start \/ Fetch \/ SetKfCursor \/ Decline \/ Skip \/ Process \/ ProcessReturns
           \/ BatchDone \/ Reply \/ Finish \/ SyncFails \/ Restart \/ Expire \/ UNCHANGED vars
  BY <1>1, <1>2 DEF Start, Fetch, SetKfCursor, Decline, Skip, Process, ProcessReturns, BatchDone,
     Reply, Finish, SyncFails, Restart, Expire, vars, table, hist
<1>3. CASE Cancel
  <2>1. UNCHANGED <<log, menus, queue, via, newest, expired>>
    BY <1>3 DEF Cancel, hist
  <2>2. status' = SetBatch(Active(Click.user), "cancelled") \/ status' = status
    BY <1>3 DEF Cancel
  <2>3. \A i \in Ids : status'[i] = status[i] \/ status'[i] = "cancelled"
    BY <1>0, <2>2, BatchIsSet
  <2> QED BY <1>1, <2>1, <2>3
<1>4. CASE Confirm
  <2>1. UNCHANGED <<log, menus, queue, newest, expired>>
    BY <1>4 DEF Confirm
  <2>2. CASE UNCHANGED <<status, via>>
    BY <1>1, <2>1, <2>2
  <2>3. CASE ~UNCHANGED <<status, via>>
    <3>1. /\ IsLatest(Click.menu, Active(Click.user))
          /\ status' = SetBatch(Active(Click.user), "confirmed")
          /\ via' = [i \in Ids |-> IF i \in Active(Click.user) THEN sync.id ELSE via[i]]
      BY <1>4, <2>3 DEF Confirm, NamesLatest
    <3> QED BY <1>0, <1>4, <3>1, ConfirmKeepsOffered
  <2> QED BY <2>2, <2>3
<1>5. CASE CreatePending
  BY <1>0, <1>5, CreateKeepsOffered
<1>6. ASSUME NEW u \in Users, SendLatestConfirmation(u)
      PROVE  OfferedInv'
  BY <1>0, <1>6, MenuKeepsOffered
<1>7. CASE Send
  <2>1. UNCHANGED <<menus, queue, via, newest, expired, status>>
    BY <1>7 DEF Send, table, hist
  <2>2. /\ Len(log') = Len(log) + 1 /\ \A i \in Sent : log'[i] = log[i]
        /\ \/ log'[Len(log')].kind \in {"content", "other"}
           \/ \E m \in menus : /\ log'[Len(log')].menu = m.key
                               /\ log'[Len(log')].user = log[m.key].user
    BY <1>0, <1>7, LogGrows
  <2>3. \A c \in Sent' \ Sent : c = Len(log')
    BY <1>0, <2>2, SentAreIds DEF Sent
  <2>4. \A c \in Sent' \ Sent : log'[c].kind \in {"confirm", "cancel"} =>
          \E n \in menus : log'[c].menu = n.key /\ log'[c].user = log[n.key].user
    BY <2>2, <2>3
  <2> QED BY <1>b, <1>0, <2>1, <2>2, <2>4, QuietKeepsOffered
<1> QED BY <1>a, <1>2, <1>3, <1>4, <1>5, <1>6, <1>7 DEF Next, Sync

\* Unless the clock is set back, nothing is confirmed that the menu in the customer's
\* hands did not count, nor, if its text had room for all, list; a clock that is set
\* back may put a new row before the one a menu names (sendLatestConfirmation,
\* pendingBatch).
THEOREM OnlyOfferedIsConfirmed == Spec => []ConfirmedWasOffered
<1>1. Init => KfInv /\ (~setBack => OfferedInv)
  BY InitHolds
<1>2. KfInv /\ (~setBack => OfferedInv) /\ [Next]_vars => (KfInv /\ (~setBack => OfferedInv))'
  BY OfferedStep, TypeStep, PassStep DEF KfInv
<1>3. (~setBack => OfferedInv) => ConfirmedWasOffered
  BY DEF OfferedInv, ConfirmedWasOffered
<1> QED BY <1>1, <1>2, <1>3, PTL DEF Spec
==================================================================================
