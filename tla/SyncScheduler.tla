----------------------------- MODULE SyncScheduler -----------------------------
(***************************************************************************)
(* From a callback of WeCom to a run of sync: the handler of main.go, and  *)
(* syncFromCallback with the goroutine it starts (gateway.go).             *)
(*                                                                         *)
(* The handler answers the callback before it hands it over.  A mutex      *)
(* guards the maps pendingTokens and syncing; each critical section is one *)
(* step, and everything between two of them interleaves.  sync is reduced  *)
(* to what the scheduling can spoil: the cursor it reads once, fetches     *)
(* from and stores.  KfSync models what it does with the messages.         *)
(*                                                                         *)
(* WeCom is external: it appends messages and sends a callback, with a     *)
(* token, whenever it likes.                                               *)
(***************************************************************************)
EXTENDS Naturals

CONSTANTS
  Accounts,     \* open_kfid values that callbacks name
  OpenKfIDs,    \* WECOM_OPEN_KF_IDS
  Tokens,       \* the tokens of callbacks
  Workers,      \* goroutines that syncFromCallback can start
  SyncMayFail,  \* whether a sync may return an error before all is calm
  MaxSent       \* bound: the messages sent to an account

NoToken   == "no token"
NoAccount == "no account"

ASSUME SchedulerAssumption ==
  /\ OpenKfIDs \subseteq Accounts
  /\ NoToken \notin Tokens
  /\ NoAccount \notin Accounts
  /\ SyncMayFail \in BOOLEAN
  /\ MaxSent \in Nat

VARIABLES
  sent,           \* how many messages WeCom holds for each account
  handlers,       \* callbacks answered with 200 and not handed over yet
  pendingTokens,  \* the map of that name; NoToken: no entry
  syncing,        \* the map of that name
  kfCursor,       \* table kf_cursors, as the number of messages it is past
  pc,             \* the step each goroutine is at
  job,            \* its local variables
  handled,        \* history: how many messages of each account have been handled
  calm            \* environment: nothing goes wrong any more

vars == <<sent, handlers, pendingTokens, syncing, kfCursor, pc, job, handled, calm>>

NoJob == [account |-> NoAccount, token |-> NoToken, cursor |-> 0, next |-> 0,
          more |-> FALSE, named |-> FALSE]

Init ==
  /\ sent = [a \in Accounts |-> 0]
  /\ handlers = {}
  /\ pendingTokens = [a \in Accounts |-> NoToken]
  /\ syncing = [a \in Accounts |-> FALSE]
  /\ kfCursor = [a \in Accounts |-> 0]
  /\ pc = [w \in Workers |-> "none"]
  /\ job = [w \in Workers |-> NoJob]
  /\ handled = [a \in Accounts |-> 0]
  /\ calm = FALSE

-----------------------------------------------------------------------------
\* Callbacks

\* The callback is genuine and is answered; its handler is still running.
Callback(a, t) ==
  /\ handlers' = handlers \cup {<<a, t>>}
  /\ UNCHANGED <<sent, pendingTokens, syncing, kfCursor, pc, job, handled, calm>>

\* (Mutant: the map is not consulted.)
NeverSyncing(a) == FALSE

AlreadySyncing(a) == syncing[a]

\* The handler calls syncFromCallback, which leaves its token and starts a
\* goroutine if none is registered.
SyncFromCallback(a, t) ==
  /\ <<a, t>> \in handlers
  /\ handlers' = handlers \ {<<a, t>>}
  /\ pendingTokens' = [pendingTokens EXCEPT ![a] = t]
  /\ syncing' = [syncing EXCEPT ![a] = TRUE]
  /\ IF AlreadySyncing(a)
     THEN UNCHANGED <<pc, job>>
     ELSE \E w \in Workers :
            /\ pc[w] = "none"
            /\ pc' = [pc EXCEPT ![w] = "take"]
            /\ job' = [job EXCEPT ![w] = [NoJob EXCEPT !.account = a]]
  /\ UNCHANGED <<sent, kfCursor, handled, calm>>

-----------------------------------------------------------------------------
\* The goroutine

At(w, s)   == pc[w] = s
Goto(w, s) == pc' = [pc EXCEPT ![w] = s]
Account(w) == job[w].account

\* (Mutant: whether there was an entry is ignored.)
SyncsAnyway(token) == "cursor"

AfterTake(token) == IF token = NoToken THEN "exit" ELSE "cursor"

\* Take the token out of the map; without one the loop ends.
Take(w) ==
  /\ At(w, "take")
  /\ job' = [job EXCEPT ![w].token = pendingTokens[Account(w)]]
  /\ pendingTokens' = [pendingTokens EXCEPT ![Account(w)] = NoToken]
  /\ Goto(w, AfterTake(pendingTokens[Account(w)]))
  /\ UNCHANGED <<sent, handlers, syncing, kfCursor, handled, calm>>

\* sync ignores accounts that are not configured, or reads the cursor.
GetKfCursor(w) ==
  /\ At(w, "cursor")
  /\ IF Account(w) \in OpenKfIDs
     THEN /\ Goto(w, "fetch")
          /\ job' = [job EXCEPT ![w].cursor = kfCursor[Account(w)]]
     ELSE Goto(w, "take") /\ UNCHANGED job
  /\ UNCHANGED <<sent, handlers, pendingTokens, syncing, kfCursor, handled, calm>>

MayFail == SyncMayFail /\ ~calm

\* kf/sync_msg returns some of the messages after the cursor, whether there are more,
\* and next_cursor or not.  Without one there should be no more.
SyncMessages(w) ==
  /\ At(w, "fetch")
  /\ \E next \in job[w].cursor .. sent[Account(w)] :
       /\ next = job[w].cursor => next = sent[Account(w)]
       /\ \E named \in BOOLEAN :
            /\ named \/ next = sent[Account(w)] \/ MayFail
            /\ job' = [job EXCEPT ![w].next = next, ![w].more = next < sent[Account(w)],
                                  ![w].named = named]
  /\ Goto(w, "store")
  /\ UNCHANGED <<sent, handlers, pendingTokens, syncing, kfCursor, handled, calm>>

\* The page has been handled: store next_cursor if there is one, and fetch on or
\* finish.  That there are more and no next_cursor is an error.
SetKfCursor(w) ==
  /\ At(w, "store")
  /\ handled' = [handled EXCEPT ![Account(w)] = IF @ < job[w].next THEN job[w].next ELSE @]
  /\ IF job[w].named
     THEN /\ kfCursor' = [kfCursor EXCEPT ![Account(w)] = job[w].next]
          /\ job' = [job EXCEPT ![w].cursor = job[w].next]
     ELSE UNCHANGED <<kfCursor, job>>
  /\ Goto(w, IF job[w].more /\ job[w].named THEN "fetch" ELSE "take")
  /\ UNCHANGED <<sent, handlers, pendingTokens, syncing, calm>>

\* sync returns an error wherever it stands; the goroutine logs it and loops.
SyncFails(w) ==
  /\ MayFail
  /\ pc[w] \in {"cursor", "fetch", "store"}
  /\ Goto(w, "take")
  /\ UNCHANGED <<sent, handlers, pendingTokens, syncing, kfCursor, job, handled, calm>>

\* (Mutant: the deferred function is missing.)
LeftRegistered(a) == UNCHANGED syncing

Deregister(a) == syncing' = [syncing EXCEPT ![a] = FALSE]

\* The deferred function, in a critical section of its own.
Exit(w) ==
  /\ At(w, "exit")
  /\ Deregister(Account(w))
  /\ Goto(w, "none")
  /\ job' = [job EXCEPT ![w] = NoJob]
  /\ UNCHANGED <<sent, handlers, pendingTokens, kfCursor, handled, calm>>

Work(w) ==
  Take(w) \/ GetKfCursor(w) \/ SyncMessages(w) \/ SetKfCursor(w) \/ SyncFails(w) \/ Exit(w)

-----------------------------------------------------------------------------
\* The environment

\* A message reaches WeCom.
Send(a) ==
  /\ sent[a] < MaxSent
  /\ sent' = [sent EXCEPT ![a] = @ + 1]
  /\ UNCHANGED <<handlers, pendingTokens, syncing, kfCursor, pc, job, handled, calm>>

\* The program dies and starts again: only the table survives.
Restart ==
  /\ ~calm
  /\ handlers' = {}
  /\ pendingTokens' = [a \in Accounts |-> NoToken]
  /\ syncing' = [a \in Accounts |-> FALSE]
  /\ pc' = [w \in Workers |-> "none"]
  /\ job' = [w \in Workers |-> NoJob]
  /\ UNCHANGED <<sent, kfCursor, handled, calm>>

\* The last failure is over.  Nothing makes this happen.
CalmDown ==
  /\ ~calm
  /\ calm' = TRUE
  /\ UNCHANGED <<sent, handlers, pendingTokens, syncing, kfCursor, pc, job, handled>>

Next ==
  \/ \E a \in Accounts, t \in Tokens : Callback(a, t) \/ SyncFromCallback(a, t)
  \/ \E w \in Workers : Work(w)
  \/ \E a \in Accounts : Send(a)
  \/ Restart \/ CalmDown

Spec == Init /\ [][Next]_vars

\* Goroutines keep running, the handlers' too, and requests end (the HTTP client
\* has a timeout).  Nothing is assumed of WeCom, nor that failures end.
FairSpec ==
  /\ Spec
  /\ \A w \in Workers : WF_vars(Work(w))
  /\ \A a \in Accounts, t \in Tokens : WF_vars(SyncFromCallback(a, t))

-----------------------------------------------------------------------------
\* Properties

Busy(w) == pc[w] # "none"

\* Types, and that a goroutine inside sync holds a token of a callback.
TypeOK ==
  /\ sent \in [Accounts -> 0 .. MaxSent]
  /\ handlers \subseteq Accounts \X Tokens
  /\ pendingTokens \in [Accounts -> Tokens \cup {NoToken}]
  /\ syncing \in [Accounts -> BOOLEAN]
  /\ kfCursor \in [Accounts -> 0 .. MaxSent]
  /\ pc \in [Workers -> {"none", "take", "cursor", "fetch", "store", "exit"}]
  /\ job \in [Workers -> [account : Accounts \cup {NoAccount}, token : Tokens \cup {NoToken},
                          cursor : 0 .. MaxSent, next : 0 .. MaxSent, more : BOOLEAN,
                          named : BOOLEAN]]
  /\ handled \in [Accounts -> 0 .. MaxSent] /\ calm \in BOOLEAN
  /\ \A w \in Workers : Busy(w) => Account(w) \in Accounts
  /\ \A w \in Workers : pc[w] \in {"cursor", "fetch", "store"} => job[w].token \in Tokens

\* No two goroutines sync one account at a time, whatever callbacks arrive while
\* one is starting, working or leaving (the map syncing).
OneSyncPerAccount ==
  \A v, w \in Workers : Busy(v) /\ Busy(w) /\ Account(v) = Account(w) => v = w

\* The stored cursor never moves back: no sync overwrites the cursor of a later
\* page with that of an earlier one.
CursorNeverBack ==
  [][\A a \in Accounts : kfCursor'[a] >= kfCursor[a]]_kfCursor

\* If callbacks for an account keep coming and failures end, every message sent to
\* it is handled: a callback that comes at a bad moment or was lost in a crash, a
\* failed sync and a restart delay messages, and nothing stalls for good.
FetchedInTheEnd ==
  \A a \in OpenKfIDs, n \in 1 .. MaxSent :
    <>calm /\ []<><<\E t \in Tokens : SyncFromCallback(a, t)>>_vars
      => (sent[a] >= n ~> handled[a] >= n)

\* The token of a callback is used for a sync (syncFromCallback and the deferred
\* function of its goroutine).
TokenIsUsed ==
  <>calm => \A a \in Accounts : pendingTokens[a] # NoToken ~> pendingTokens[a] = NoToken

=============================================================================
