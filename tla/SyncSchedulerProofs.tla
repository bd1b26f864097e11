-------------------------- MODULE SyncSchedulerProofs --------------------------
(***************************************************************************)
(* Proofs about SyncScheduler, for any accounts, tokens, goroutines and    *)
(* bounds: an account is never synced by two goroutines at a time, and its *)
(* cursor never moves back.                                                *)
(***************************************************************************)
EXTENDS SyncScheduler, TLAPS

\* A goroutine that has not ended yet is registered for its account.
Registered == \A w \in Workers : Busy(w) => syncing[Account(w)]

\* Between the reading and the storing of the cursor it does not change, and the
\* page that is handled does not end before it.
CursorIsCurrent ==
  \A w \in Workers :
    /\ pc[w] \in {"fetch", "store"} => job[w].cursor = kfCursor[Account(w)]
    /\ pc[w] = "store" => job[w].next >= job[w].cursor

IInv == TypeOK /\ Registered /\ OneSyncPerAccount /\ CursorIsCurrent

-----------------------------------------------------------------------------

LEMMA InitEstablishes == Init => IInv
<1> SUFFICES ASSUME Init PROVE IInv
  OBVIOUS
<1>1. NoJob \in [account : Accounts \cup {NoAccount}, token : Tokens \cup {NoToken},
                 cursor : 0 .. MaxSent, next : 0 .. MaxSent, more : BOOLEAN, named : BOOLEAN]
  BY SchedulerAssumption DEF NoJob
<1>2. \A w \in Workers : pc[w] = "none"
  BY DEF Init
<1>3. TypeOK
  <2>1. job \in [Workers -> [account : Accounts \cup {NoAccount}, token : Tokens \cup {NoToken},
                            cursor : 0 .. MaxSent, next : 0 .. MaxSent, more : BOOLEAN,
                            named : BOOLEAN]]
    BY <1>1 DEF Init
  <2>2. 0 \in 0 .. MaxSent
    BY SchedulerAssumption
  <2> QED
    BY <1>2, <2>1, <2>2 DEF TypeOK, Init, Busy
<1>4. Registered /\ OneSyncPerAccount /\ CursorIsCurrent
  BY <1>2 DEF Registered, OneSyncPerAccount, CursorIsCurrent, Busy
<1> QED
  BY <1>3, <1>4 DEF IInv

\* A goroutine steps inside its loop: it keeps its account, the registrations stay
\* as they are, and its cursor and its page fit the table afterwards.
LEMMA StepInsideLoop ==
  ASSUME IInv, TypeOK', NEW w \in Workers, Busy(w),
         syncing' = syncing,
         \A v \in Workers \ {w} : pc'[v] = pc[v] /\ job'[v] = job[v],
         job'[w].account = job[w].account,
         \A a \in Accounts \ {Account(w)} : kfCursor'[a] = kfCursor[a],
         pc'[w] \in {"fetch", "store"} => job'[w].cursor = kfCursor'[Account(w)],
         pc'[w] = "store" => job'[w].next >= job'[w].cursor
  PROVE  IInv'
<1>1. \A v \in Workers : Account(v)' = Account(v)
  BY DEF Account
<1>2. \A v \in Workers : Busy(v)' => Busy(v)
  BY DEF Busy
<1>3. Registered'
  BY <1>1, <1>2 DEF IInv, Registered
<1>4. OneSyncPerAccount'
  BY <1>1, <1>2 DEF IInv, OneSyncPerAccount
<1>5. CursorIsCurrent'
  <2> SUFFICES ASSUME NEW v \in Workers
               PROVE  /\ pc'[v] \in {"fetch", "store"} => job'[v].cursor = kfCursor'[Account(v)']
                      /\ pc'[v] = "store" => job'[v].next >= job'[v].cursor
    BY DEF CursorIsCurrent
  <2>1. CASE v = w
    BY <2>1, <1>1
  <2>2. CASE v # w
    <3>1. Busy(v) => Account(v) \in Accounts \ {Account(w)}
      BY <2>2 DEF IInv, OneSyncPerAccount, TypeOK
    <3>2. pc[v] \in {"fetch", "store"} => Busy(v)
      BY DEF Busy
    <3> QED
      BY <2>2, <3>1, <3>2, <1>1 DEF IInv, CursorIsCurrent
  <2> QED
    BY <2>1, <2>2
<1> QED
  BY <1>3, <1>4, <1>5 DEF IInv

LEMMA SyncFromCallbackPreserves ==
  ASSUME IInv, NEW a \in Accounts, NEW t \in Tokens, SyncFromCallback(a, t)
  PROVE  IInv'
<1> USE DEF IInv
<1>1. CASE AlreadySyncing(a)
  <2>1. pc' = pc /\ job' = job /\ kfCursor' = kfCursor
    BY <1>1 DEF SyncFromCallback
  <2>2. TypeOK'
    BY <1>1, <2>1 DEF TypeOK, SyncFromCallback, Busy, Account
  <2>3. Registered'
    BY <2>1 DEF Registered, SyncFromCallback, TypeOK, Busy, Account
  <2>4. OneSyncPerAccount' /\ CursorIsCurrent'
    BY <2>1 DEF OneSyncPerAccount, CursorIsCurrent, Busy, Account
  <2> QED
    BY <2>2, <2>3, <2>4
<1>2. CASE ~AlreadySyncing(a)
  <2>1. PICK w \in Workers :
          /\ pc[w] = "none"
          /\ pc' = [pc EXCEPT ![w] = "take"]
          /\ job' = [job EXCEPT ![w] = [NoJob EXCEPT !.account = a]]
    BY <1>2 DEF SyncFromCallback
  <2>2. ~syncing[a] /\ kfCursor' = kfCursor
    BY <1>2 DEF AlreadySyncing, SyncFromCallback
  <2>3. \A v \in Workers \ {w} : ~(Busy(v) /\ Account(v) = a)
    BY <2>2 DEF Registered
  <2>4. /\ \A v \in Workers \ {w} : pc'[v] = pc[v] /\ job'[v] = job[v]
        /\ pc'[w] = "take" /\ job'[w].account = a
    BY <2>1 DEF TypeOK, NoJob
  <2>5. TypeOK'
    <3>1. [NoJob EXCEPT !.account = a] \in
            [account : Accounts \cup {NoAccount}, token : Tokens \cup {NoToken},
             cursor : 0 .. MaxSent, next : 0 .. MaxSent, more : BOOLEAN, named : BOOLEAN]
      <4>1. NoJob \in [account : Accounts \cup {NoAccount}, token : Tokens \cup {NoToken},
                       cursor : 0 .. MaxSent, next : 0 .. MaxSent, more : BOOLEAN, named : BOOLEAN]
        BY SchedulerAssumption DEF NoJob
      <4> QED
        BY <4>1
    <3>2. \A v \in Workers : Busy(v)' => Account(v)' \in Accounts
      BY <2>4 DEF TypeOK, Busy, Account
    <3>3. \A v \in Workers : pc'[v] \in {"cursor", "fetch", "store"} => job'[v].token \in Tokens
      BY <2>4 DEF TypeOK
    <3> QED
      BY <2>1, <3>1, <3>2, <3>3 DEF TypeOK, SyncFromCallback
  <2>6. Registered'
    BY <2>4 DEF Registered, SyncFromCallback, TypeOK, Busy, Account
  <2>7. OneSyncPerAccount'
    BY <2>3, <2>4 DEF OneSyncPerAccount, Busy, Account
  <2>8. CursorIsCurrent'
    BY <2>2, <2>4 DEF CursorIsCurrent, Account
  <2> QED
    BY <2>5, <2>6, <2>7, <2>8
<1> QED
  BY <1>1, <1>2

LEMMA WorkPreserves ==
  ASSUME IInv, NEW w \in Workers, Work(w)
  PROVE  IInv'
<1> DEFINE a == Account(w)
           Jobs == [account : Accounts \cup {NoAccount}, token : Tokens \cup {NoToken},
                    cursor : 0 .. MaxSent, next : 0 .. MaxSent, more : BOOLEAN, named : BOOLEAN]
<1>1. TypeOK /\ Busy(w) /\ a \in Accounts /\ job[w] \in Jobs
  BY DEF IInv, TypeOK, Work, Take, GetKfCursor, SyncMessages, SetKfCursor, SyncFails, Exit,
         At, Busy
<1>2. CASE Take(w)
  <2>1. /\ pc' = [pc EXCEPT ![w] = AfterTake(pendingTokens[a])]
        /\ job' = [job EXCEPT ![w].token = pendingTokens[a]]
        /\ UNCHANGED <<sent, handlers, syncing, kfCursor, handled, calm>>
        /\ pendingTokens' = [pendingTokens EXCEPT ![a] = NoToken]
    BY <1>2 DEF Take, Goto
  <2>2. pendingTokens[a] \in Tokens \cup {NoToken}
    BY <1>1 DEF TypeOK
  <2>3. /\ \A v \in Workers \ {w} : pc'[v] = pc[v] /\ job'[v] = job[v]
        /\ pc'[w] \in {"exit", "cursor"}
        /\ pc'[w] = "cursor" => pendingTokens[a] \in Tokens
        /\ job'[w] = [job[w] EXCEPT !.token = pendingTokens[a]]
    BY <1>1, <2>1, <2>2 DEF TypeOK, AfterTake
  <2>4. TypeOK'
    <3>1. job'[w] \in Jobs
      BY <1>1, <2>2, <2>3
    <3>2. \A v \in Workers : Busy(v)' => Account(v)' \in Accounts
      BY <1>1, <2>3 DEF TypeOK, Busy, Account
    <3>3. \A v \in Workers : pc'[v] \in {"cursor", "fetch", "store"} => job'[v].token \in Tokens
      BY <1>1, <2>3 DEF TypeOK
    <3> QED
      BY <1>1, <2>1, <2>2, <2>3, <3>1, <3>2, <3>3 DEF TypeOK
  <2> QED
    BY <1>1, <2>1, <2>3, <2>4, StepInsideLoop
<1>3. CASE GetKfCursor(w)
  <2>1. UNCHANGED <<sent, handlers, pendingTokens, syncing, kfCursor, handled, calm>> /\ pc[w] = "cursor"
    BY <1>3 DEF GetKfCursor, At
  <2>2. CASE a \in OpenKfIDs
    <3>1. /\ pc' = [pc EXCEPT ![w] = "fetch"]
          /\ job' = [job EXCEPT ![w].cursor = kfCursor[a]]
      BY <1>3, <2>2 DEF GetKfCursor, Goto
    <3>2. /\ \A v \in Workers \ {w} : pc'[v] = pc[v] /\ job'[v] = job[v]
          /\ pc'[w] = "fetch"
          /\ job'[w] = [job[w] EXCEPT !.cursor = kfCursor[a]]
      BY <1>1, <3>1 DEF TypeOK
    <3>3. job'[w] \in Jobs /\ job'[w].cursor = kfCursor'[a] /\ job'[w].account = a
          /\ job'[w].token = job[w].token
      BY <1>1, <2>1, <3>2 DEF TypeOK, Account
    <3>4. TypeOK'
      <4>1. \A v \in Workers : Busy(v)' => Account(v)' \in Accounts
        BY <1>1, <3>2, <3>3 DEF TypeOK, Busy, Account
      <4>2. \A v \in Workers : pc'[v] \in {"cursor", "fetch", "store"} => job'[v].token \in Tokens
        BY <1>1, <2>1, <3>2, <3>3 DEF TypeOK
      <4> QED
        BY <1>1, <2>1, <3>1, <3>2, <3>3, <4>1, <4>2 DEF TypeOK
    <3> QED
      BY <1>1, <2>1, <3>2, <3>3, <3>4, StepInsideLoop DEF Account
  <2>3. CASE a \notin OpenKfIDs
    <3>1. pc' = [pc EXCEPT ![w] = "take"] /\ job' = job
      BY <1>3, <2>3 DEF GetKfCursor, Goto
    <3>2. TypeOK'
      BY <1>1, <2>1, <3>1 DEF TypeOK, Busy, Account
    <3> QED
      BY <1>1, <2>1, <3>1, <3>2, StepInsideLoop DEF TypeOK
  <2> QED
    BY <2>2, <2>3
<1>4. CASE SyncMessages(w)
  <2>1. PICK next \in job[w].cursor .. sent[a], named \in BOOLEAN :
          job' = [job EXCEPT ![w].next = next, ![w].more = next < sent[a], ![w].named = named]
    BY <1>4 DEF SyncMessages
  <2>2. /\ pc[w] = "fetch" /\ pc' = [pc EXCEPT ![w] = "store"]
        /\ UNCHANGED <<sent, handlers, pendingTokens, syncing, kfCursor, handled, calm>>
    BY <1>4 DEF SyncMessages, At, Goto
  <2>3. next \in 0 .. MaxSent /\ next >= job[w].cursor
    BY <1>1, SchedulerAssumption DEF TypeOK
  <2>4. /\ \A v \in Workers \ {w} : pc'[v] = pc[v] /\ job'[v] = job[v]
        /\ pc'[w] = "store"
        /\ job'[w] = [job[w] EXCEPT !.next = next, !.more = next < sent[a], !.named = named]
    BY <1>1, <2>1, <2>2 DEF TypeOK
  <2>5. /\ job'[w] \in Jobs /\ job'[w].cursor = job[w].cursor /\ job'[w].next = next
        /\ job'[w].account = a /\ job'[w].token = job[w].token
    <3>1. (next < sent[a]) \in BOOLEAN
      OBVIOUS
    <3>2. job'[w].account = job[w].account /\ job'[w].token = job[w].token
      BY <1>1, <2>4
    <3>3. job'[w].cursor = job[w].cursor /\ job'[w].next = next
      BY <1>1, <2>4
    <3>4. job'[w] \in Jobs
      BY <1>1, <2>3, <2>4, <3>1
    <3> QED
      BY <3>2, <3>3, <3>4 DEF Account
  <2>6. TypeOK'
    <3>1. \A v \in Workers : Busy(v)' => Account(v)' \in Accounts
      BY <1>1, <2>4, <2>5 DEF TypeOK, Busy, Account
    <3>2. \A v \in Workers : pc'[v] \in {"cursor", "fetch", "store"} => job'[v].token \in Tokens
      BY <1>1, <2>2, <2>4, <2>5 DEF TypeOK
    <3> QED
      BY <1>1, <2>1, <2>2, <2>4, <2>5, <3>1, <3>2 DEF TypeOK
  <2>7. job[w].cursor = kfCursor[a]
    BY <2>2 DEF IInv, CursorIsCurrent
  <2> QED
    BY <1>1, <2>2, <2>3, <2>4, <2>5, <2>6, <2>7, StepInsideLoop DEF Account
<1>5. CASE SetKfCursor(w)
  <2>1. /\ pc[w] = "store"
        /\ \/ pc' = [pc EXCEPT ![w] = "fetch"] /\ job[w].named
           \/ pc' = [pc EXCEPT ![w] = "take"]
        /\ UNCHANGED <<sent, handlers, pendingTokens, syncing, calm>>
        /\ handled' = [handled EXCEPT ![a] = IF @ < job[w].next THEN job[w].next ELSE @]
        /\ \/ /\ job' = [job EXCEPT ![w].cursor = job[w].next]
              /\ kfCursor' = [kfCursor EXCEPT ![a] = job[w].next]
           \/ job' = job /\ kfCursor' = kfCursor /\ ~job[w].named
    BY <1>5 DEF SetKfCursor, At, Goto
  <2>2. /\ \A v \in Workers \ {w} : pc'[v] = pc[v] /\ job'[v] = job[v]
        /\ pc'[w] \in {"fetch", "take"}
        /\ pc'[w] = "fetch" => job[w].named
        /\ \/ job'[w] = [job[w] EXCEPT !.cursor = job[w].next] /\ kfCursor'[a] = job[w].next
           \/ job'[w] = job[w] /\ ~job[w].named
        /\ kfCursor'[a] \in 0 .. MaxSent
        /\ \A b \in Accounts \ {a} : kfCursor'[b] = kfCursor[b]
    BY <1>1, <2>1 DEF TypeOK
  <2>3. /\ pc'[w] = "fetch" => job'[w].cursor = kfCursor'[a]
        /\ job'[w] \in Jobs
        /\ job'[w].account = a /\ job'[w].token = job[w].token
    BY <1>1, <2>2 DEF Account
  <2>4. TypeOK'
    <3>1. \A v \in Workers : Busy(v)' => Account(v)' \in Accounts
      BY <1>1, <2>2, <2>3 DEF TypeOK, Busy, Account
    <3>2. \A v \in Workers : pc'[v] \in {"cursor", "fetch", "store"} => job'[v].token \in Tokens
      BY <1>1, <2>1, <2>2, <2>3 DEF TypeOK
    <3>3. handled' \in [Accounts -> 0 .. MaxSent]
      BY <1>1, <2>1 DEF TypeOK
    <3>4. /\ kfCursor' \in [Accounts -> 0 .. MaxSent] /\ pc' \in [Workers -> {"none", "take",
               "cursor", "fetch", "store", "exit"}]
          /\ job' \in [Workers -> Jobs]
      BY <1>1, <2>1, <2>2, <2>3 DEF TypeOK
    <3> QED
      BY <1>1, <2>1, <3>1, <3>2, <3>3, <3>4 DEF TypeOK
  <2>5. pc'[w] # "store"
    BY <2>2
  <2> QED
    BY <1>1, <2>1, <2>2, <2>3, <2>4, <2>5, StepInsideLoop DEF Account
<1>6. CASE SyncFails(w)
  <2>1. pc' = [pc EXCEPT ![w] = "take"] /\ UNCHANGED <<sent, handlers, pendingTokens, syncing, kfCursor, job, handled, calm>>
    BY <1>6 DEF SyncFails, Goto
  <2>2. TypeOK'
    BY <1>1, <2>1 DEF TypeOK, Busy, Account
  <2> QED
    BY <1>1, <2>1, <2>2, StepInsideLoop DEF TypeOK
<1>7. CASE Exit(w)
  <2>1. /\ pc' = [pc EXCEPT ![w] = "none"] /\ job' = [job EXCEPT ![w] = NoJob]
        /\ syncing' = [syncing EXCEPT ![a] = FALSE]
        /\ UNCHANGED <<sent, handlers, pendingTokens, kfCursor, handled, calm>>
    BY <1>7 DEF Exit, Goto, Deregister
  <2>2. NoJob \in Jobs
    BY SchedulerAssumption DEF NoJob
  <2>3. /\ \A v \in Workers \ {w} : pc'[v] = pc[v] /\ job'[v] = job[v]
        /\ pc'[w] = "none"
    BY <1>1, <2>1 DEF TypeOK
  <2>4. TypeOK'
    <3>1. \A v \in Workers : Busy(v)' => Account(v)' \in Accounts
      BY <1>1, <2>3 DEF TypeOK, Busy, Account
    <3>2. \A v \in Workers : pc'[v] \in {"cursor", "fetch", "store"} => job'[v].token \in Tokens
      BY <1>1, <2>3 DEF TypeOK
    <3> QED
      BY <1>1, <2>1, <2>2, <3>1, <3>2 DEF TypeOK
  <2>5. \A v \in Workers : Busy(v)' => v # w /\ Busy(v) /\ Account(v)' = Account(v)
    BY <2>3 DEF Busy, Account
  <2>6. Registered'
    <3> SUFFICES ASSUME NEW v \in Workers, Busy(v)' PROVE syncing'[Account(v)']
      BY DEF Registered
    <3>1. Account(v) \in Accounts /\ Account(v) # a /\ syncing[Account(v)]
      BY <1>1, <2>5 DEF IInv, OneSyncPerAccount, Registered, TypeOK
    <3> QED
      BY <1>1, <2>1, <2>5, <3>1 DEF TypeOK
  <2>7. OneSyncPerAccount'
    BY <2>5 DEF IInv, OneSyncPerAccount
  <2>8. CursorIsCurrent'
    BY <2>1, <2>3 DEF IInv, CursorIsCurrent, Account
  <2> QED
    BY <2>4, <2>6, <2>7, <2>8 DEF IInv
<1> QED
  BY <1>2, <1>3, <1>4, <1>5, <1>6, <1>7 DEF Work

LEMMA NextPreserves == IInv /\ [Next]_vars => IInv'
<1> SUFFICES ASSUME IInv, [Next]_vars PROVE IInv'
  OBVIOUS
<1>1. ASSUME NEW a \in Accounts, NEW t \in Tokens, Callback(a, t) PROVE IInv'
  BY <1>1 DEF Callback, IInv, TypeOK, Registered, OneSyncPerAccount, CursorIsCurrent, Busy,
              Account
<1>2. ASSUME NEW a \in Accounts, NEW t \in Tokens, SyncFromCallback(a, t) PROVE IInv'
  BY <1>2, SyncFromCallbackPreserves
<1>3. ASSUME NEW w \in Workers, Work(w) PROVE IInv'
  BY <1>3, WorkPreserves
<1>4. ASSUME NEW a \in Accounts, Send(a) PROVE IInv'
  <2>1. sent' \in [Accounts -> 0 .. MaxSent]
    BY <1>4, SchedulerAssumption DEF Send, IInv, TypeOK
  <2> QED
    BY <1>4, <2>1 DEF Send, IInv, TypeOK, Registered, OneSyncPerAccount, CursorIsCurrent, Busy,
                      Account
<1>5. CASE Restart
  <2>1. \A w \in Workers : pc'[w] = "none"
    BY <1>5 DEF Restart
  <2>2. NoJob \in [account : Accounts \cup {NoAccount}, token : Tokens \cup {NoToken},
                   cursor : 0 .. MaxSent, next : 0 .. MaxSent, more : BOOLEAN, named : BOOLEAN]
    BY SchedulerAssumption DEF NoJob
  <2>3. TypeOK'
    <3>1. job' \in [Workers -> [account : Accounts \cup {NoAccount}, token : Tokens \cup {NoToken},
                               cursor : 0 .. MaxSent, next : 0 .. MaxSent, more : BOOLEAN,
                               named : BOOLEAN]]
      BY <1>5, <2>2 DEF Restart
    <3> QED
      BY <1>5, <2>1, <3>1 DEF Restart, IInv, TypeOK, Busy
  <2> QED
    BY <2>1, <2>3 DEF IInv, Registered, OneSyncPerAccount, CursorIsCurrent, Busy
<1>6. CASE CalmDown \/ UNCHANGED vars
  <2>1. UNCHANGED <<sent, handlers, pendingTokens, syncing, kfCursor, pc, job, handled>>
    BY <1>6 DEF CalmDown, vars
  <2>2. calm' \in BOOLEAN
    BY <1>6 DEF CalmDown, vars, IInv, TypeOK
  <2>3. TypeOK'
    BY <2>1, <2>2 DEF IInv, TypeOK, Busy, Account
  <2> QED
    BY <2>1, <2>3 DEF IInv, Registered, OneSyncPerAccount, CursorIsCurrent, Busy, Account
<1> QED
  BY <1>1, <1>2, <1>3, <1>4, <1>5, <1>6 DEF Next

\* The invariant that all theorems below rest on.
THEOREM Invariance == Spec => []IInv
BY InitEstablishes, NextPreserves, PTL DEF Spec

\* Types, and that every goroutine inside sync holds the token of a callback.
THEOREM SchedulerTypesHold == Spec => []TypeOK
<1>1. IInv => TypeOK
  BY DEF IInv
<1> QED
  BY <1>1, Invariance, PTL

\* However callbacks, the end of a sync and restarts interleave, an account has at
\* most one goroutine (the map syncing of syncFromCallback).
THEOREM NeverTwoSyncs == Spec => []OneSyncPerAccount
<1>1. IInv => OneSyncPerAccount
  BY DEF IInv
<1> QED
  BY <1>1, Invariance, PTL

\* No step of the program moves a stored cursor back (setKfCursor).
THEOREM CursorOnlyAdvances == Spec => CursorNeverBack
<1>1. ASSUME IInv, [Next]_vars
      PROVE  [\A a \in Accounts : kfCursor'[a] >= kfCursor[a]]_kfCursor
  <2>1. ASSUME NEW w \in Workers, SetKfCursor(w)
        PROVE  \A a \in Accounts : kfCursor'[a] >= kfCursor[a]
    <3>1. job[w].next >= kfCursor[Account(w)]
      BY <1>1, <2>1 DEF IInv, CursorIsCurrent, SetKfCursor, At
    <3> QED
      BY <1>1, <2>1, <3>1 DEF IInv, TypeOK, SetKfCursor
  <2>2. \/ kfCursor' = kfCursor
        \/ \E w \in Workers : SetKfCursor(w)
    BY <1>1 DEF Next, Callback, SyncFromCallback, Work, Take, GetKfCursor, SyncMessages,
                SyncFails, Exit, Send, Restart, CalmDown, vars
  <2> QED
    BY <2>1, <2>2
<1> QED
  BY <1>1, Invariance, PTL DEF Spec, CursorNeverBack

=============================================================================
