------------------------------- MODULE Mutex -------------------------------
(***************************************************************************)
(* capu::posix::Mutex (src/.../capu/os/Posix/Mutex.h): a pthread mutex of  *)
(* type PTHREAD_MUTEX_RECURSIVE, and the translation of the pthread return *)
(* codes into status_t / bool by lock(), trylock() and unlock().           *)
(*                                                                         *)
(* The pthread state is what POSIX specifies for a recursive mutex:       *)
(*   owner : the thread holding it, or NoThread                            *)
(*   depth : its lock count; a lock by the owner at the implementation's  *)
(*           limit MaxRecursion fails with EAGAIN                          *)
(* pthread_mutex_lock blocks while another thread owns the mutex: the      *)
(* action is then not enabled.                                             *)
(***************************************************************************)
EXTENDS Naturals

CONSTANTS
  Threads,
  NoThread,
  MaxRecursion   \* the recursive lock count pthread refuses to exceed

ASSUME NoThread \notin Threads /\ MaxRecursion \in Nat \ {0}

VARIABLES owner, depth

\* pthread error numbers (Linux values)
EPERM  == 1
EAGAIN == 11
EBUSY  == 16

\* Mutex(): pthread_mutexattr_settype(RECURSIVE), pthread_mutex_init.
MutexInit == owner = NoThread /\ depth = 0

Acquire(t) == owner' = t /\ depth' = depth + 1

---------------------------------------------------------------------------
(* pthread_mutex_lock: its return code, and its effect when it returns *)

\* Mutant: a lock count without the recursion limit.
LockRcNoLimit(t) == 0

LockRc(t) == IF owner = t /\ depth = MaxRecursion THEN EAGAIN ELSE 0

PthreadLock(t) ==
  /\ owner \in {NoThread, t}
  /\ IF LockRc(t) = 0 THEN Acquire(t) ELSE UNCHANGED <<owner, depth>>

\* pthread_mutex_trylock: EBUSY instead of blocking.
TryLockRc(t) ==
  CASE owner = NoThread -> 0
    [] owner = t        -> LockRc(t)
    [] OTHER            -> EBUSY

PthreadTryLock(t) ==
  IF TryLockRc(t) = 0 THEN Acquire(t) ELSE UNCHANGED <<owner, depth>>

\* pthread_mutex_unlock: EPERM unless the caller owns the mutex.
UnlockRc(t) == IF owner = t THEN 0 ELSE EPERM

\* Mutant: the owner cleared one level too late (at depth 0, not 1).
PthreadUnlockKeepOwner(t) ==
  IF UnlockRc(t) = 0
  THEN /\ depth' = depth - 1
       /\ owner' = IF depth = 0 THEN NoThread ELSE t
  ELSE UNCHANGED <<owner, depth>>

PthreadUnlock(t) ==
  IF UnlockRc(t) = 0
  THEN /\ depth' = depth - 1
       /\ owner' = IF depth = 1 THEN NoThread ELSE t
  ELSE UNCHANGED <<owner, depth>>

\* Mutex::~Mutex(): pthread_mutex_destroy, then pthread_mutexattr_destroy,
\* both results discarded.  DestroyRc is what the destroy returns: EBUSY
\* while a thread owns the mutex.  The caller never sees it.
DestroyRc == IF owner = NoThread THEN 0 ELSE EBUSY

---------------------------------------------------------------------------
(* The wrapper: what Mutex::lock, trylock and unlock return *)

\* Mutant: lock() that reports CAPU_OK whatever pthread returned.
lockIgnoringRc(t) == "CAPU_OK"

\* Mutex::lock(): CAPU_OK iff pthread_mutex_lock returned 0.
lock(t) == IF LockRc(t) = 0 THEN "CAPU_OK" ELSE "CAPU_ERROR"

\* Mutant: trylock() with the test of pthread's result inverted.
trylockInverted(t) == TryLockRc(t) # 0

\* Mutex::trylock(): true iff pthread_mutex_trylock returned 0.
trylock(t) == TryLockRc(t) = 0

\* Mutant: unlock() with the two outcomes swapped.
unlockInverted(t) == IF UnlockRc(t) = 0 THEN "CAPU_ERROR" ELSE "CAPU_OK"

\* Mutex::unlock(): CAPU_OK iff pthread_mutex_unlock returned 0.
unlock(t) == IF UnlockRc(t) = 0 THEN "CAPU_OK" ELSE "CAPU_ERROR"

=============================================================================
