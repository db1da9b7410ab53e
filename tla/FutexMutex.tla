----------------------------- MODULE FutexMutex -----------------------------
(***************************************************************************)
(* pfunc::mutex on Linux (src/pfunc/mutex.hpp, PFUNC_HAVE_FUTEX): one       *)
(* 32-bit word, the atomic operations of src/pfunc/pfunc_atomics.h on it,   *)
(* and the futex system calls of src/pfunc/futex.h.  One action is one      *)
(* atomic operation or one system call, so every interleaving of the        *)
(* threads' calls of lock(), trylock() and unlock() is a behaviour.         *)
(*                                                                         *)
(* The spin of lock() (mutex.hpp:50-53) is not a step of its own: it        *)
(* changes nothing, and however it ends futex_wait is called.               *)
(***************************************************************************)
EXTENDS Naturals

CONSTANTS
  Threads,       \* the threads that use the mutex
  NoThread,      \* not a thread
  AcquiredMeans  \* the result of trylock() its caller takes for "I hold the lock"

ASSUME ThreadsAssumption == NoThread \notin Threads
ASSUME AcquiredMeansAssumption == AcquiredMeans \in BOOLEAN

VARIABLES
  val,           \* the word
  place          \* where each thread is in lock(), trylock() or unlock()

mutexVars == <<val, place>>

Free == 0                  \* PFUNC_MUTEX_FREE
Locked == 1                \* PFUNC_MUTEX_LOCKED
LockedWithWaiters == 2     \* PFUNC_MUTEX_LOCKED_WITH_WAITERS

MutexInit ==
  /\ val = Free
  /\ place = [t \in Threads |-> "idle"]

Move(t, from, to) ==
  /\ place[t] = from
  /\ place' = [place EXCEPT ![t] = to]

(***************************************************************************)
(* The atomic operations: what they leave in the word.  Both return the    *)
(* word's old value, which the actions read as val.                        *)
(***************************************************************************)
CompareAndSwap(exchg, comp) == val' = IF val = comp THEN exchg ELSE val

FetchAndStore(new) == val' = new

-----------------------------------------------------------------------------
\* lock(): the first CAS takes a free mutex, or the slow path begins.
Lock(t) ==
  /\ Move(t, "idle", IF val = Free THEN "critical" ELSE "mark")
  /\ CompareAndSwap(Locked, Free)

\* The slow path announces a waiter; a mutex found free is tried at once.
Mark(t) ==
  /\ Move(t, "mark", IF val = Free THEN "retry" ELSE "wait")
  /\ CompareAndSwap(LockedWithWaiters, Locked)

\* futex_wait: the kernel compares the word and puts the thread to sleep in
\* one step, or returns at once.
MutexWait(t) ==
  /\ Move(t, "wait", IF val = LockedWithWaiters THEN "asleep" ELSE "retry")
  /\ UNCHANGED val

\* Fault: a woken thread takes the mutex as if it were the only waiter.
RetryAsLocked(t) ==
  /\ Move(t, "retry", IF val = Free THEN "critical" ELSE "mark")
  /\ CompareAndSwap(Locked, Free)

\* Fault: a woken thread takes the wake-up itself for the mutex.
RetryTrustsWakeup(t) ==
  /\ Move(t, "retry", "critical")
  /\ FetchAndStore(LockedWithWaiters)

\* The loop's condition.  A thread that has waited takes the mutex as
\* LOCKED_WITH_WAITERS, for it cannot know that nobody else sleeps.
Retry(t) ==
  /\ Move(t, "retry", IF val = Free THEN "critical" ELSE "mark")
  /\ CompareAndSwap(LockedWithWaiters, Free)

\* The futex system call may also return because of a signal.
Interrupted(t) ==
  /\ Move(t, "asleep", "retry")
  /\ UNCHANGED val

\* trylock() returns TRUE when the CAS did NOT find the mutex free.  Its
\* caller goes on to its critical section on AcquiredMeans.
TryLockResult == val # Free

TryLock(t) ==
  /\ Move(t, "idle", IF TryLockResult = AcquiredMeans THEN "critical" ELSE "idle")
  /\ CompareAndSwap(Locked, Free)

\* unlock(): free the word; only if it said there may be waiters, wake one.
Unlock(t) ==
  /\ Move(t, "critical", IF val <= Locked THEN "idle" ELSE "wake")
  /\ FetchAndStore(Free)

\* futex_wake (&val, 1): the kernel wakes one of the sleepers, if any.
Asleep == {t \in Threads : place[t] = "asleep"}

FutexWake(t) ==
  /\ place[t] = "wake"
  /\ \/ \E s \in Asleep : place' = [place EXCEPT ![t] = "idle", ![s] = "retry"]
     \/ Asleep = {} /\ place' = [place EXCEPT ![t] = "idle"]
  /\ UNCHANGED val

\* The steps of a thread inside a call, and of the one that holds the mutex.
Progressing(t) ==
  Mark(t) \/ MutexWait(t) \/ Retry(t) \/ Unlock(t) \/ FutexWake(t)

MutexStep(t) == Lock(t) \/ TryLock(t) \/ Interrupted(t) \/ Progressing(t)

MutexNext == \E t \in Threads : MutexStep(t)

MutexSpec == MutexInit /\ [][MutexNext]_mutexVars

\* The operating system runs every runnable thread, and critical sections
\* end.  Nobody has to call lock(), and no signal has to arrive.
MutexFairness == \A t \in Threads : WF_mutexVars(Progressing(t))

-----------------------------------------------------------------------------
\* The word holds one of its three values and every thread is somewhere in
\* the three functions (mutex.hpp:31-76).
TypeOK ==
  /\ val \in {Free, Locked, LockedWithWaiters}
  /\ place \in [Threads -> {"idle", "mark", "wait", "asleep", "retry",
                         "critical", "wake"}]

\* Two threads are never both between a lock() or successful trylock() and
\* the unlock() that ends it (mutex.hpp:40-76).
MutualExclusion ==
  \A s, t \in Threads : place[s] = "critical" /\ place[t] = "critical" => s = t

\* A held mutex never reads as free: unlock()'s plain store is the only one
\* that frees it (mutex.hpp:71-76).
HeldIsNotFree == (\E t \in Threads : place[t] = "critical") => val # Free

\* Whoever sleeps in futex_wait can still be woken: either the word says
\* so, and the holder's unlock() will wake one, or a thread is on its way
\* to wake, to take the mutex or to announce itself (mutex.hpp:43-60,71-75).
NoLostWakeup ==
  Asleep # {} =>
    \/ val = LockedWithWaiters
    \/ \E t \in Threads : place[t] \in {"mark", "wait", "retry", "wake"}

\* A mutex marked as having waiters is owned, so somebody will unlock() it
\* (mutex.hpp:45-47,58-60).
WaitersImplyOwner ==
  val # Free => \E t \in Threads : place[t] = "critical"

\* As long as somebody wants the mutex, somebody gets it; not each of them
\* in turn, for a running thread may overtake a woken one (mutex.hpp:41).
SomebodyGetsIt ==
  (\E t \in Threads : place[t] \in {"mark", "wait", "asleep", "retry"})
    ~> (\E t \in Threads : place[t] = "critical")

\* The mutex implements the abstract lock (mutex.hpp:29-76): its owner is
\* the thread in its critical section.
Owner ==
  IF \E t \in Threads : place[t] = "critical"
  THEN CHOOSE t \in Threads : place[t] = "critical"
  ELSE NoThread

AL == INSTANCE AbstractLock WITH owner <- Owner

ImplementsLock == AL!Spec
=============================================================================
