--------------------------- MODULE GuardedHashSet ---------------------------
(***************************************************************************)
(* Threads sharing one HashSet under one capu Mutex, as spec.md section 5  *)
(* requires: the caller holds the lock for the duration of every mutating  *)
(* call and for the whole lifetime of an iterator.  HashSet is not         *)
(* synchronised itself; the Mutex is recursive, so a thread may lock again *)
(* while it holds the lock, and it must unlock as often as lock() said     *)
(* CAPU_OK.                                                                *)
(*                                                                         *)
(* Each thread runs the client loop, at most MaxOps calls of its own:      *)
(*   idle --lock()--> waiting --(mutex free)--> held                       *)
(*   idle --trylock()--> held, or idle when it returned false              *)
(*   held --put/remove/clear--> held                                       *)
(*   held --begin()--> iter --++--> iter --(== end())--> held              *)
(*   held, iter --lock() again / unlock()--> (nesting up to MaxNest)       *)
(*   held --unlock() of the last level--> idle --> done                    *)
(* where held[t] counts the lock() / trylock() calls that reported         *)
(* success and have not been matched by an unlock() reporting success.     *)
(* An idle thread may also call unlock() without holding the lock.  When   *)
(* every thread is done (joined), the owner of the set and the mutex       *)
(* destroys both: ~HashSet, then ~Mutex.                                   *)
(***************************************************************************)
EXTENDS HashTable

CONSTANTS
  Threads, NoThread, MaxRecursion,
  TheSet,      \* the shared HashSet object
  BitSize,     \* its constructor's bitsize
  MaxNest,     \* how deep a thread nests lock() calls
  MaxOps       \* how many calls each thread makes (lock, trylock, unlock
               \* of nothing, put/remove/clear, begin)

VARIABLES alive, table, iter, ret, owner, depth, pc, held,
  ops,        \* calls made so far by each thread
  destroyRc   \* what ~Mutex's pthread_mutex_destroy returned, once run

vars == <<alive, table, iter, ret, owner, depth, pc, held, ops, destroyRc>>

NotDestroyed == -1

HS == INSTANCE HashSet WITH Sets <- {TheSet}, Iters <- Threads,
        BitSizes <- {BitSize}, DEFAULT_HASH_SET_BIT_SIZE <- BitSize

M == INSTANCE Mutex

Init ==
  /\ alive = {TheSet}
  /\ table = [s \in {TheSet} |-> NewTable(BitSize)]
  /\ iter = [t \in Threads |-> HS!Dead]
  /\ ret = CAPU_OK
  /\ M!MutexInit
  /\ pc = [t \in Threads |-> "idle"]
  /\ held = [t \in Threads |-> 0]
  /\ ops = [t \in Threads |-> 0]
  /\ destroyRc = NotDestroyed

\* One more call of thread t, within its budget.
Work(t) == ops[t] < MaxOps /\ ops' = [ops EXCEPT ![t] = @ + 1]

\* The client's bookkeeping after a lock call that returned status st.
AfterLock(t, st) ==
  /\ held' = [held EXCEPT ![t] = IF st = CAPU_OK THEN @ + 1 ELSE @]
  /\ pc' = [pc EXCEPT ![t] = CASE @ \in {"held", "iter"} -> @
                                [] st = CAPU_OK          -> "held"
                                [] OTHER                 -> "idle"]

\* m.lock() called by a thread that holds nothing: it may block.
CallLock(t) ==
  /\ pc[t] = "idle"
  /\ Work(t)
  /\ pc' = [pc EXCEPT ![t] = "waiting"]
  /\ UNCHANGED <<alive, table, iter, ret, owner, depth, held, destroyRc>>

\* m.lock() returns: pthread_mutex_lock is enabled once no other thread
\* owns the mutex.
Lock(t) ==
  /\ pc[t] = "waiting"
  /\ M!PthreadLock(t)
  /\ AfterLock(t, M!lock(t))
  /\ UNCHANGED <<alive, table, iter, ret, ops, destroyRc>>

\* m.lock() again while holding it: the recursive mutex never blocks its
\* owner, but refuses past its recursion limit.
NestedLock(t) ==
  /\ pc[t] \in {"held", "iter"} /\ held[t] < MaxNest
  /\ Work(t)
  /\ M!PthreadLock(t)
  /\ AfterLock(t, M!lock(t))
  /\ UNCHANGED <<alive, table, iter, ret, destroyRc>>

\* m.trylock(): the client counts a level only when it returned true.
TryLock(t) ==
  /\ pc[t] \in {"idle", "held", "iter"} /\ held[t] < MaxNest
  /\ Work(t)
  /\ M!PthreadTryLock(t)
  /\ AfterLock(t, IF M!trylock(t) THEN CAPU_OK ELSE CAPU_ERROR)
  /\ UNCHANGED <<alive, table, iter, ret, destroyRc>>

\* m.unlock() of a level the client holds; the last level is released
\* only outside a traversal.
Unlock(t) ==
  /\ held[t] > 1 \/ (held[t] = 1 /\ pc[t] = "held")
  /\ M!PthreadUnlock(t)
  /\ held' = [held EXCEPT ![t] = IF M!unlock(t) = CAPU_OK THEN @ - 1 ELSE @]
  /\ pc' = [pc EXCEPT ![t] = IF held'[t] = 0 THEN "idle" ELSE @]
  /\ UNCHANGED <<alive, table, iter, ret, ops, destroyRc>>

\* m.unlock() from a thread that holds nothing: EPERM, reported as
\* CAPU_ERROR, and nothing changes.
StrayUnlock(t) ==
  /\ pc[t] = "idle"
  /\ Work(t)
  /\ M!PthreadUnlock(t)
  /\ UNCHANGED <<alive, table, iter, ret, pc, held, destroyRc>>

\* set.put / set.remove / set.clear under the lock.
Mutate(t) ==
  /\ pc[t] = "held"
  /\ Work(t)
  /\ \/ \E k \in Keys : HS!put(TheSet, k) \/ HS!remove(TheSet, k)
     \/ HS!clear(TheSet)
  /\ UNCHANGED <<owner, depth, pc, held, destroyRc>>

\* for (it = set.begin(); it != set.end(); ++it) under the lock.
StartIteration(t) ==
  /\ pc[t] = "held"
  /\ Work(t)
  /\ HS!begin(t, TheSet)
  /\ pc' = [pc EXCEPT ![t] = "iter"]
  /\ UNCHANGED <<owner, depth, held, destroyRc>>

StepIteration(t) ==
  /\ pc[t] = "iter"
  /\ HS!Advance(t)
  /\ UNCHANGED <<owner, depth, pc, held, ops, destroyRc>>

FinishIteration(t) ==
  /\ pc[t] = "iter"
  /\ iter[t].cur = End
  /\ pc' = [pc EXCEPT ![t] = "held"]
  /\ UNCHANGED <<alive, table, iter, ret, owner, depth, held, ops, destroyRc>>

\* The thread returns from its work and is joined.
Finish(t) ==
  /\ pc[t] = "idle"
  /\ pc' = [pc EXCEPT ![t] = "done"]
  /\ UNCHANGED <<alive, table, iter, ret, owner, depth, held, ops, destroyRc>>

\* After every thread has been joined: ~HashSet, then ~Mutex.
Teardown ==
  /\ \A t \in Threads : pc[t] = "done"
  /\ destroyRc = NotDestroyed
  /\ HS!Destroy(TheSet)
  /\ destroyRc' = M!DestroyRc
  /\ UNCHANGED <<owner, depth, pc, held, ops>>

\* Both objects are gone: the program has ended.
Terminated ==
  /\ destroyRc # NotDestroyed
  /\ UNCHANGED vars

Thread(t) ==
  \/ CallLock(t) \/ Lock(t) \/ NestedLock(t) \/ TryLock(t)
  \/ Unlock(t) \/ StrayUnlock(t) \/ Mutate(t)
  \/ StartIteration(t) \/ StepIteration(t) \/ FinishIteration(t) \/ Finish(t)

Next == (\E t \in Threads : Thread(t)) \/ Teardown \/ Terminated

Spec == Init /\ [][Next]_vars

\* A thread that can run is eventually scheduled (the OS scheduler), and
\* the joining thread eventually tears down.  pthread_mutex_lock promises
\* no fairness among waiters, so a waiting thread's Lock is only weakly
\* fair as part of its thread: it may lose the mutex to others any number
\* of times while they still have calls to make.
FairSpec == Spec /\ \A t \in Threads : WF_vars(Thread(t)) /\ WF_vars(Teardown)

---------------------------------------------------------------------------
(* Properties *)

TypeOK ==
  /\ HS!TypeOK
  /\ owner \in Threads \cup {NoThread}
  /\ depth \in 0 .. MaxRecursion
  /\ pc \in [Threads -> {"idle", "waiting", "held", "iter", "done"}]
  /\ held \in [Threads -> 0 .. MaxNest]
  /\ ops \in [Threads -> 0 .. MaxOps]
  /\ destroyRc \in {NotDestroyed, 0, M!EBUSY}

\* The levels each client believes it holds, counted from the statuses
\* lock(), trylock() and unlock() returned, are exactly the recursive
\* mutex's lock count when it owns the mutex, and none otherwise: a thread
\* that acts on those statuses neither leaves the mutex locked nor
\* releases it early.
HeldMatchesLockCount ==
  \A t \in Threads : held[t] = IF owner = t THEN depth ELSE 0

\* No thread's traversal is ever invalidated: while a thread walks the set
\* between begin() and end(), no other thread's put, remove or clear gets
\* in, including after a refused recursive lock() or a failed trylock().
IterationNeverInvalidated ==
  \A t \in Threads : pc[t] = "iter" => iter[t] # HS!Dead

\* Every thread eventually returns and is joined: a thread blocked in
\* lock() is eventually given the mutex, and each client, acting on the
\* statuses lock(), trylock() and unlock() return, unwinds every level it
\* took.  A status that misreports (EAGAIN at the recursion limit taken for
\* CAPU_OK) leaves a client holding a level it can never release, and
\* every lock() of another thread then blocks for good.
EveryThreadReturns == \A t \in Threads : <>(pc[t] = "done")

=============================================================================
