-------------------------- MODULE FutexMutexProofs --------------------------
(***************************************************************************)
(* Proofs about FutexMutex for any set of threads, under the reading of    *)
(* trylock()'s result that the code implements (FALSE: acquired).          *)
(***************************************************************************)
EXTENDS FutexMutex, TLAPS

\* The word is FREE exactly while nobody is in its critical section: the
\* strengthening that makes mutual exclusion inductive (mutex.hpp:40-76).
WordTellsOwner ==
  /\ HeldIsNotFree
  /\ WaitersImplyOwner

\* The inductive invariant of the mutex (mutex.hpp:40-76).
IInv == TypeOK /\ MutualExclusion /\ WordTellsOwner /\ NoLostWakeup

\* The caller of trylock() reads its result as the code means it.
ReadsResult == AcquiredMeans = FALSE

USE DEF Free, Locked, LockedWithWaiters

\* Every mutex starts free and unused (mutex.hpp:38).
LEMMA InitIInv == MutexInit => IInv
  BY DEF MutexInit, IInv, TypeOK, MutualExclusion, WordTellsOwner, HeldIsNotFree,
         WaitersImplyOwner, NoLostWakeup, Asleep

\* No operation of the mutex leaves the word or a thread outside its type
\* (mutex.hpp:40-76).
LEMMA TypeStep == TypeOK /\ [MutexNext]_mutexVars => TypeOK'
<1> SUFFICES ASSUME TypeOK, [MutexNext]_mutexVars PROVE TypeOK'
  OBVIOUS
<1> USE DEF TypeOK, Move, CompareAndSwap, FetchAndStore
<1>1. ASSUME NEW t \in Threads, Lock(t) PROVE TypeOK'
  BY <1>1 DEF Lock
<1>2. ASSUME NEW t \in Threads, TryLock(t) PROVE TypeOK'
  BY <1>2 DEF TryLock
<1>3. ASSUME NEW t \in Threads, Interrupted(t) PROVE TypeOK'
  BY <1>3 DEF Interrupted
<1>4. ASSUME NEW t \in Threads, Mark(t) PROVE TypeOK'
  BY <1>4 DEF Mark
<1>5. ASSUME NEW t \in Threads, MutexWait(t) PROVE TypeOK'
  BY <1>5 DEF MutexWait
<1>6. ASSUME NEW t \in Threads, Retry(t) PROVE TypeOK'
  BY <1>6 DEF Retry
<1>7. ASSUME NEW t \in Threads, Unlock(t) PROVE TypeOK'
  BY <1>7 DEF Unlock
<1>8. ASSUME NEW t \in Threads, FutexWake(t) PROVE TypeOK'
  BY <1>8 DEF FutexWake, Asleep
<1>9. CASE UNCHANGED mutexVars
  BY <1>9 DEF mutexVars
<1>10. QED
  BY <1>1, <1>2, <1>3, <1>4, <1>5, <1>6, <1>7, <1>8, <1>9
     DEF MutexNext, MutexStep, Progressing

\* Only Lock, Retry and TryLock enter a critical section, and each of them
\* found the word free; only unlock() frees it (mutex.hpp:40-76).
LEMMA OwnerStep ==
  ASSUME ReadsResult, TypeOK, MutualExclusion, WordTellsOwner, [MutexNext]_mutexVars
  PROVE  MutualExclusion' /\ WordTellsOwner'
<1> USE DEF TypeOK, MutualExclusion, WordTellsOwner, HeldIsNotFree,
            WaitersImplyOwner, Move, CompareAndSwap, FetchAndStore
<1> DEFINE P == MutualExclusion' /\ WordTellsOwner'
<1>1. ASSUME NEW t \in Threads, Lock(t) PROVE P
  BY <1>1 DEF Lock
<1>2. ASSUME NEW t \in Threads, TryLock(t) PROVE P
  <2>1. (TryLockResult = AcquiredMeans) <=> val = Free
    BY DEF TryLockResult, ReadsResult
  <2>2. CASE val = Free
    BY <1>2, <2>1, <2>2 DEF TryLock
  <2>3. CASE val # Free
    BY <1>2, <2>1, <2>3 DEF TryLock
  <2>4. QED
    BY <2>2, <2>3
<1>3. ASSUME NEW t \in Threads, Interrupted(t) PROVE P
  BY <1>3 DEF Interrupted
<1>4. ASSUME NEW t \in Threads, Mark(t) PROVE P
  BY <1>4 DEF Mark
<1>5. ASSUME NEW t \in Threads, MutexWait(t) PROVE P
  BY <1>5 DEF MutexWait
<1>6. ASSUME NEW t \in Threads, Retry(t) PROVE P
  BY <1>6 DEF Retry
<1>7. ASSUME NEW t \in Threads, Unlock(t) PROVE P
  BY <1>7 DEF Unlock
<1>8. ASSUME NEW t \in Threads, FutexWake(t) PROVE P
  BY <1>8 DEF FutexWake, Asleep
<1>9. CASE UNCHANGED mutexVars
  BY <1>9 DEF mutexVars
<1>10. QED
  BY <1>1, <1>2, <1>3, <1>4, <1>5, <1>6, <1>7, <1>8, <1>9
     DEF MutexNext, MutexStep, Progressing

\* A sleeper never loses its last hope of being woken: the steps that take
\* the word away from LOCKED_WITH_WAITERS leave a thread about to wake, and
\* a woken thread restores it before it sleeps or owns (mutex.hpp:43-60,71-75).
LEMMA WakeupStep ==
  ASSUME TypeOK, NoLostWakeup, [MutexNext]_mutexVars
  PROVE  NoLostWakeup'
<1> USE DEF TypeOK, NoLostWakeup, Asleep, Move, CompareAndSwap, FetchAndStore
<1>1. ASSUME NEW t \in Threads, Lock(t) PROVE NoLostWakeup'
  BY <1>1 DEF Lock
<1>2. ASSUME NEW t \in Threads, TryLock(t) PROVE NoLostWakeup'
  BY <1>2 DEF TryLock
<1>3. ASSUME NEW t \in Threads, Interrupted(t) PROVE NoLostWakeup'
  BY <1>3 DEF Interrupted
<1>4. ASSUME NEW t \in Threads, Mark(t) PROVE NoLostWakeup'
  BY <1>4 DEF Mark
<1>5. ASSUME NEW t \in Threads, MutexWait(t) PROVE NoLostWakeup'
  BY <1>5 DEF MutexWait
<1>6. ASSUME NEW t \in Threads, Retry(t) PROVE NoLostWakeup'
  BY <1>6 DEF Retry
<1>7. ASSUME NEW t \in Threads, Unlock(t) PROVE NoLostWakeup'
  BY <1>7 DEF Unlock
<1>8. ASSUME NEW t \in Threads, FutexWake(t) PROVE NoLostWakeup'
  BY <1>8 DEF FutexWake
<1>9. CASE UNCHANGED mutexVars
  BY <1>9 DEF mutexVars
<1>10. QED
  BY <1>1, <1>2, <1>3, <1>4, <1>5, <1>6, <1>7, <1>8, <1>9
     DEF MutexNext, MutexStep, Progressing

\* Type correctness, whatever the callers of trylock() believe.
THEOREM TypeCorrect == MutexSpec => []TypeOK
<1>1. MutexInit => TypeOK
  BY InitIInv DEF IInv
<1>2. QED
  BY <1>1, TypeStep, PTL DEF MutexSpec

\* A sleeping thread can always still be woken, whatever the callers of
\* trylock() believe (mutex.hpp:43-60,71-75).
THEOREM WakeupsAreNotLost == MutexSpec => []NoLostWakeup
<1>1. MutexInit => NoLostWakeup
  BY InitIInv DEF IInv
<1>2. TypeOK /\ NoLostWakeup /\ [MutexNext]_mutexVars => NoLostWakeup'
  BY WakeupStep
<1>3. QED
  BY <1>1, <1>2, TypeCorrect, PTL DEF MutexSpec

\* The inductive invariant holds of every behaviour.
LEMMA Invariance == ASSUME ReadsResult PROVE MutexSpec => []IInv
<1>1. IInv /\ [MutexNext]_mutexVars => IInv'
  BY ReadsResult, TypeStep, OwnerStep, WakeupStep DEF IInv
<1>2. QED
  BY <1>1, InitIInv, PTL DEF MutexSpec

\* For any number of threads, at most one is between lock() and unlock(),
\* and the word is marked exactly while one is (mutex.hpp:40-76).
THEOREM MutexIsExclusive ==
  ASSUME ReadsResult
  PROVE  MutexSpec => [](MutualExclusion /\ WaitersImplyOwner)
<1>1. IInv => MutualExclusion /\ WaitersImplyOwner
  BY DEF IInv, WordTellsOwner
<1>2. QED
  BY <1>1, Invariance, PTL

\* What Owner is: the one thread in its critical section, or nobody.
OwnerIs ==
  /\ \A t \in Threads : place[t] = "critical" => Owner = t
  /\ (\A t \in Threads : place[t] # "critical") => Owner = NoThread

LEMMA OwnerIsUnique ==
  /\ MutualExclusion => OwnerIs
  /\ MutualExclusion' => OwnerIs'
<1>1. MutualExclusion => OwnerIs
  BY DEF MutualExclusion, OwnerIs, Owner
<1>2. MutualExclusion' => OwnerIs'
  BY DEF MutualExclusion, OwnerIs, Owner
<1>3. QED
  BY <1>1, <1>2

\* Every step of the futex mutex is a step of the abstract lock or leaves
\* its owner alone: the successful CAS is the acquisition and the store of
\* FREE the release (mutex.hpp:29-76).
LEMMA LockStep ==
  ASSUME ReadsResult, IInv, IInv', [MutexNext]_mutexVars
  PROVE  [AL!Next]_Owner
<1> USE DEF IInv, TypeOK, WordTellsOwner, HeldIsNotFree, WaitersImplyOwner,
            Move, CompareAndSwap, FetchAndStore
<1>1. OwnerIs /\ OwnerIs'
  BY OwnerIsUnique
<1> USE <1>1 DEF OwnerIs
<1> DEFINE P == [AL!Next]_Owner
<1>2. ASSUME NEW t \in Threads, val = Free,
             place' = [place EXCEPT ![t] = "critical"]
      PROVE  AL!Acquire(t)
  <2>1. Owner = NoThread
    BY <1>2
  <2>2. Owner' = t
    BY <1>2
  <2>3. QED
    BY <2>1, <2>2 DEF AL!Acquire
<1>3. ASSUME \A t \in Threads : place[t] = "critical" <=> place'[t] = "critical"
      PROVE  Owner' = Owner
  <2>1. CASE \E t \in Threads : place[t] = "critical"
    BY <1>3, <2>1
  <2>2. CASE \A t \in Threads : place[t] # "critical"
    BY <1>3, <2>2
  <2>3. QED
    BY <2>1, <2>2
<1>4. ASSUME NEW t \in Threads, Lock(t) PROVE P
  <2>1. CASE val = Free
    BY <1>4, <2>1, <1>2 DEF Lock, AL!Next
  <2>2. CASE val # Free
    BY <1>4, <2>2, <1>3 DEF Lock
  <2>3. QED
    BY <2>1, <2>2
<1>5. ASSUME NEW t \in Threads, TryLock(t) PROVE P
  <2>1. (TryLockResult = AcquiredMeans) <=> val = Free
    BY DEF TryLockResult, ReadsResult
  <2>2. CASE val = Free
    BY <1>5, <2>1, <2>2, <1>2 DEF TryLock, AL!Next
  <2>3. CASE val # Free
    BY <1>5, <2>1, <2>3, <1>3 DEF TryLock
  <2>4. QED
    BY <2>2, <2>3
<1>6. ASSUME NEW t \in Threads, Interrupted(t) PROVE P
  BY <1>6, <1>3 DEF Interrupted
<1>7. ASSUME NEW t \in Threads, Mark(t) PROVE P
  BY <1>7, <1>3 DEF Mark
<1>8. ASSUME NEW t \in Threads, MutexWait(t) PROVE P
  BY <1>8, <1>3 DEF MutexWait
<1>9. ASSUME NEW t \in Threads, Retry(t) PROVE P
  <2>1. CASE val = Free
    BY <1>9, <2>1, <1>2 DEF Retry, AL!Next
  <2>2. CASE val # Free
    BY <1>9, <2>2, <1>3 DEF Retry
  <2>3. QED
    BY <2>1, <2>2
<1>10. ASSUME NEW t \in Threads, Unlock(t) PROVE P
  <2>1. Owner = t
    BY <1>10 DEF Unlock
  <2>2. \A s \in Threads : place'[s] # "critical"
    BY <1>10 DEF Unlock, MutualExclusion
  <2>3. Owner' = NoThread
    BY <2>2
  <2>4. QED
    BY <2>1, <2>3 DEF AL!Release, AL!Next
<1>11. ASSUME NEW t \in Threads, FutexWake(t) PROVE P
  BY <1>11, <1>3 DEF FutexWake, Asleep
<1>12. CASE UNCHANGED mutexVars
  BY <1>12, <1>3 DEF mutexVars
<1>13. QED
  BY <1>4, <1>5, <1>6, <1>7, <1>8, <1>9, <1>10, <1>11, <1>12
     DEF MutexNext, MutexStep, Progressing

\* For any number of threads, pfunc::mutex implements a lock that has at
\* most one owner (mutex.hpp:29-76).
THEOREM MutexImplementsLock == ASSUME ReadsResult PROVE MutexSpec => ImplementsLock
<1>1. MutexInit => AL!Init
  BY DEF MutexInit, AL!Init, Owner
<1>2. QED
  BY <1>1, Invariance, LockStep, PTL DEF MutexSpec, ImplementsLock, AL!Spec
=============================================================================
