------------------------------ MODULE IndexLock ------------------------------
(***************************************************************************)
(* The key directory's locking (index/*.go): each implementation of the   *)
(* Indexer interface guards its tree with a sync.RWMutex, and the engine  *)
(* calls it from several goroutines (DB.Put and DB.Delete update the      *)
(* index after releasing db.mu, db.go 243 and 277; NewIterator and        *)
(* ListKeys take no engine lock).  A call is the sequence of lock         *)
(* operations and tree accesses its method makes, in the method's order.  *)
(* The mutex follows Go's sync.RWMutex: once a writer waits in Lock, a    *)
(* new RLock blocks until that writer has unlocked, and Lock waits only   *)
(* for the read holds taken before it.                                    *)
(***************************************************************************)
EXTENDS Naturals, Sequences, FiniteSets, Functions

CONSTANTS
  Threads,     \* goroutines calling the index
  Keys,        \* keys (model values)
  IndexTypes,  \* the Options.IndexType values checked
  None         \* no thread

VARIABLES
  itype,       \* the index type NewIndexer built
  keys,        \* the keys in the tree
  pc,          \* thread -> position in its call's plan, 0 when idle
  call,        \* thread -> [op, key] of the call in progress
  acc,         \* thread -> TRUE while it accesses the tree
  rholds,      \* thread -> read holds it has (readerCount, per thread)
  rblocked,    \* threads blocked in RLock on readerSem
  writer,      \* the thread holding the writer mutex w, or None
  wheld,       \* the writer has the lock (its readers have drained)
  readerWait   \* read holds the pending writer still waits for

vars == <<itype, keys, pc, call, acc, rholds, rblocked, writer, wheld, readerWait>>

Ops == {"Put", "Get", "Delete", "Size", "Iterator"}

-----------------------------------------------------------------------------
(* The plan of each method: lock steps and tree accesses, in order.       *)

\* BTreeIndex: Put and Delete write under Lock; Get and Size read the tree
\* with no lock; Iterator copies it under RLock
PlanBTree(op) ==
  CASE op \in {"Put", "Delete"} -> <<"Lock", "Write", "Unlock">>
    [] op \in {"Get", "Size"}   -> <<"Read">>
    [] op = "Iterator"          -> <<"RLock", "Read", "RUnlock">>

\* Mutant: SafeHashTable.Get reads the map without RLock, as BTreeIndex.Get
\* does.
PlanHashUnlockedGet(op) ==
  CASE op \in {"Put", "Delete"} -> <<"Lock", "Write", "Unlock">>
    [] op = "Get"               -> <<"Read">>
    [] OTHER                    -> <<"RLock", "Read", "RUnlock">>

\* SafeHashTable: every method under the lock; Iterator is not implemented
PlanHash(op) ==
  IF op \in {"Put", "Delete"} THEN <<"Lock", "Write", "Unlock">>
  ELSE <<"RLock", "Read", "RUnlock">>

\* Mutant: AdaptiveRadixTree.Size unlocks twice (an explicit RUnlock beside
\* the deferred one).
PlanARTDoubleRUnlock(op) ==
  CASE op \in {"Put", "Delete"} -> <<"Lock", "Write", "Unlock">>
    [] op = "Size"              -> <<"RLock", "Read", "RUnlock", "RUnlock">>
    [] OTHER                    -> <<"RLock", "Read", "RUnlock">>

\* AdaptiveRadixTree: as the hash table; newArtIterator sizes its slice with
\* t.Size() of the tree, not through art.Size()
PlanART(op) ==
  IF op \in {"Put", "Delete"} THEN <<"Lock", "Write", "Unlock">>
  ELSE <<"RLock", "Read", "RUnlock">>

\* MySkipList: as the hash table, except that Iterator, holding RLock, calls
\* NewSkipListIterator, which calls sl.Size() and so RLock again
PlanSkipList(op) ==
  CASE op \in {"Put", "Delete"} -> <<"Lock", "Write", "Unlock">>
    [] op \in {"Get", "Size"}   -> <<"RLock", "Read", "RUnlock">>
    [] op = "Iterator" ->
         <<"RLock", "RLock", "Read", "RUnlock", "Read", "RUnlock">>

Plan(op) ==
  CASE itype = "BTree"    -> PlanBTree(op)
    [] itype = "Hash"     -> PlanHash(op)
    [] itype = "ART"      -> PlanART(op)
    [] itype = "SkipList" -> PlanSkipList(op)

\* the methods the engine may call: SafeHashTable.Iterator panics
OpsOf(t) == IF t = "Hash" THEN Ops \ {"Iterator"} ELSE Ops

\* the step thread t is at
At(t) == IF pc[t] = 0 THEN "Idle" ELSE Plan(call[t].op)[pc[t]]

\* pc after thread t finishes its step: the next one, or idle after the last
After(t) == IF pc[t] = Len(Plan(call[t].op)) THEN 0 ELSE pc[t] + 1

\* the read holds of all threads (the readers a Lock must wait for)
ReadHolds == SumFunction(rholds)

-----------------------------------------------------------------------------
(* Actions of thread t.                                                    *)

\* the engine calls a method of the index (Indexer interface)
Call(t) ==
  /\ pc[t] = 0
  /\ \E o \in OpsOf(itype), k \in Keys :
       /\ call' = [call EXCEPT ![t] = [op |-> o, key |-> k]]
       /\ pc' = [pc EXCEPT ![t] = 1]
  /\ UNCHANGED <<itype, keys, acc, rholds, rblocked, writer, wheld, readerWait>>

\* RWMutex.RLock: a read hold at once when no writer waits or holds;
\* otherwise the thread blocks on readerSem until Unlock
RLock(t) ==
  /\ At(t) = "RLock"
  /\ t \notin rblocked
  /\ IF writer = None
     THEN /\ rholds' = [rholds EXCEPT ![t] = @ + 1]
          /\ pc' = [pc EXCEPT ![t] = After(t)]
          /\ UNCHANGED rblocked
     ELSE /\ rblocked' = rblocked \cup {t}
          /\ UNCHANGED <<rholds, pc>>
  /\ UNCHANGED <<itype, keys, call, acc, writer, wheld, readerWait>>

\* RWMutex.RUnlock: drop a read hold; a pending writer waits for one less
RUnlock(t) ==
  /\ At(t) = "RUnlock"
  /\ rholds' = [rholds EXCEPT ![t] = @ - 1]
  /\ readerWait' = IF writer # None /\ ~wheld THEN readerWait - 1 ELSE readerWait
  /\ pc' = [pc EXCEPT ![t] = After(t)]
  /\ UNCHANGED <<itype, keys, call, acc, rblocked, writer, wheld>>

\* RWMutex.Lock, first half: take the writer mutex w and announce the
\* writer, which then waits for the read holds taken so far
Lock(t) ==
  /\ At(t) = "Lock"
  /\ writer = None
  /\ writer' = t
  /\ readerWait' = ReadHolds
  /\ UNCHANGED <<itype, keys, pc, call, acc, rholds, rblocked, wheld>>

\* RWMutex.Lock, second half: woken on writerSem when they are gone
LockAcquire(t) ==
  /\ At(t) = "Lock"
  /\ writer = t /\ ~wheld
  /\ readerWait = 0
  /\ wheld' = TRUE
  /\ pc' = [pc EXCEPT ![t] = After(t)]
  /\ UNCHANGED <<itype, keys, call, acc, rholds, rblocked, writer, readerWait>>

\* Mutant: Unlock does not wake the readers blocked in RLock.
UnlockNoWake(t) ==
  /\ At(t) = "Unlock"
  /\ writer' = None
  /\ wheld' = FALSE
  /\ pc' = [pc EXCEPT ![t] = After(t)]
  /\ UNCHANGED <<itype, keys, call, acc, rholds, rblocked, readerWait>>

\* RWMutex.Unlock: release w, and every reader blocked in RLock gets its
\* read hold and goes on
Unlock(t) ==
  /\ At(t) = "Unlock"
  /\ writer' = None
  /\ wheld' = FALSE
  /\ rholds' = [u \in Threads |-> IF u \in rblocked THEN rholds[u] + 1 ELSE rholds[u]]
  /\ pc' = [u \in Threads |-> IF u = t THEN After(t)
                              ELSE IF u \in rblocked THEN After(u) ELSE pc[u]]
  /\ rblocked' = {}
  /\ UNCHANGED <<itype, keys, call, acc, readerWait>>

\* a read or write of the tree begins (Find, Get, Len, ForEach, Insert...)
BeginAccess(t) ==
  /\ At(t) \in {"Read", "Write"}
  /\ ~acc[t]
  /\ acc' = [acc EXCEPT ![t] = TRUE]
  /\ UNCHANGED <<itype, keys, pc, call, rholds, rblocked, writer, wheld, readerWait>>

\* the access ends: a Put inserts the key, a Delete removes it
EndAccess(t) ==
  /\ acc[t]
  /\ acc' = [acc EXCEPT ![t] = FALSE]
  /\ keys' = CASE At(t) = "Write" /\ call[t].op = "Put"    -> keys \cup {call[t].key}
               [] At(t) = "Write" /\ call[t].op = "Delete" -> keys \ {call[t].key}
               [] OTHER                                    -> keys
  /\ pc' = [pc EXCEPT ![t] = After(t)]
  /\ UNCHANGED <<itype, call, rholds, rblocked, writer, wheld, readerWait>>

-----------------------------------------------------------------------------
\* NewIndexer(Options.IndexType): an empty tree and an unlocked mutex
Init ==
  /\ itype \in IndexTypes
  /\ keys = {}
  /\ pc = [t \in Threads |-> 0]
  /\ call = [t \in Threads |-> [op |-> "Get", key |-> CHOOSE k \in Keys : TRUE]]
  /\ acc = [t \in Threads |-> FALSE]
  /\ rholds = [t \in Threads |-> 0]
  /\ rblocked = {}
  /\ writer = None
  /\ wheld = FALSE
  /\ readerWait = 0

\* the steps a thread takes inside a call
Step(t) ==
  RLock(t) \/ RUnlock(t) \/ Lock(t) \/ LockAcquire(t) \/ Unlock(t)
  \/ BeginAccess(t) \/ EndAccess(t)

Next == \E t \in Threads : Call(t) \/ Step(t)

\* The Go scheduler runs a runnable goroutine (weak fairness of its steps);
\* sync.Mutex's starvation mode hands w to a writer that has waited, so a
\* writer intermittently able to take w takes it (strong fairness of Lock).
\* No thread is obliged to call the index.
Fairness == \A t \in Threads : WF_vars(Step(t)) /\ SF_vars(Lock(t))

Spec == Init /\ [][Next]_vars /\ Fairness

-----------------------------------------------------------------------------
(* Properties.                                                             *)

\* The type invariant: counts of read holds and of the readers a pending
\* writer waits for never go below zero.
ILTypeOK ==
  /\ itype \in IndexTypes
  /\ keys \subseteq Keys
  /\ pc \in [Threads -> Nat]
  /\ acc \in [Threads -> BOOLEAN]
  /\ rholds \in [Threads -> Nat]
  /\ rblocked \subseteq Threads
  /\ writer \in Threads \cup {None}
  /\ wheld \in BOOLEAN
  /\ readerWait \in Nat

\* No data race on the tree: while one goroutine writes it (ReplaceOrInsert,
\* Insert, Delete under Lock) no other goroutine reads or writes it, for
\* every pair of index methods the engine may call at once (DB.Put's
\* index.Put after db.mu is released against DB.Get, NewIterator, ListKeys).
NoDataRace ==
  \A t, u \in Threads :
    (t # u /\ acc[t] /\ acc[u]) => At(t) # "Write" /\ At(u) # "Write"

\* Every index call returns: no goroutine stays blocked in the RWMutex, not
\* even when an Iterator and a Put or Delete run at once.
CallsReturn == \A t \in Threads : pc[t] # 0 ~> pc[t] = 0
=============================================================================
