------------------------------ MODULE WinCond ------------------------------
(***************************************************************************)
(* pfunc::detail::cond on Windows (src/pfunc/cond.hpp, PFUNC_WINDOWS): a    *)
(* condition variable made of a count of the waiters, a semaphore they     *)
(* queue at and an auto-reset event by which the last one of a broadcast   *)
(* lets the broadcaster go on; with the mutex of src/pfunc/mutex.hpp.      *)
(*                                                                         *)
(* The threads call wait() and broadcast() while they hold the mutex, as   *)
(* event.hpp and barrier.hpp do, and signal() with it or without.  One     *)
(* action is one call of the system or one critical section of             *)
(* num_waiters_lock; the errors of the system are those of a full          *)
(* semaphore, which is the one the class can cause.                        *)
(***************************************************************************)
EXTENDS Integers, FiniteSets

CONSTANTS
  Threads,    \* the threads that use the condition variable
  NoThread,   \* not a thread
  MaxCount    \* MAX_COUNT, the maximum count of the semaphore

ASSUME ThreadsAssumption == IsFiniteSet(Threads) /\ NoThread \notin Threads
ASSUME MaxCountAssumption == MaxCount \in Nat

VARIABLES
  signals,        \* whether the program calls signal(); never changes
  owner,          \* who holds the mutex
  section,        \* who holds num_waiters_lock between two actions
  num_waiters,
  thread_queue,   \* the count of the semaphore
  all_awake,      \* whether all_awake_event is signaled
  was_broadcast,
  pc,             \* where each thread is in lock(), wait(), signal() or broadcast()
  called          \* history: the waiters a broadcast has been for

vars == <<signals, owner, section, num_waiters, thread_queue, all_awake, was_broadcast, pc, called>>

Init ==
  /\ signals \in BOOLEAN
  /\ owner = NoThread /\ section = NoThread
  /\ num_waiters = 0 /\ thread_queue = 0
  /\ all_awake = FALSE /\ was_broadcast = FALSE
  /\ pc = [t \in Threads |-> "idle"]
  /\ called = {}

At(places) == {t \in Threads : pc[t] \in places}

Goto(t, from, to) ==
  /\ pc[t] = from
  /\ pc' = [pc EXCEPT ![t] = to]

\* A critical section of num_waiters_lock, entered and left.
Section == section = NoThread /\ UNCHANGED section

\* ReleaseSemaphore (thread_queue, n, 0), and when it fails.
Fits(n) == thread_queue + n <= MaxCount
ReleaseSemaphore(n) == Fits(n) /\ thread_queue' = thread_queue + n

-----------------------------------------------------------------------------
\* The mutex: WaitForSingleObject (mtx, INFINITE) and ReleaseMutex; a
\* trylock() that fails changes nothing.
Acquire(t) == owner = NoThread /\ owner' = t

Lock(t) ==
  /\ Goto(t, "idle", "critical")
  /\ Acquire(t)
  /\ UNCHANGED <<signals, section, num_waiters, thread_queue, all_awake, was_broadcast, called>>

Unlock(t) ==
  /\ Goto(t, "critical", "idle")
  /\ owner' = NoThread
  /\ UNCHANGED <<signals, section, num_waiters, thread_queue, all_awake, was_broadcast, called>>

-----------------------------------------------------------------------------
\* wait(): the waiter counts itself ...
Count(t) ==
  /\ Goto(t, "critical", "counted")
  /\ Section
  /\ num_waiters' = num_waiters + 1
  /\ UNCHANGED <<signals, owner, thread_queue, all_awake, was_broadcast, called>>

\* ... gives the mutex up and queues at the semaphore in one call ...
Queue(t) ==
  /\ Goto(t, "counted", "queued")
  /\ owner' = NoThread
  /\ UNCHANGED <<signals, section, num_waiters, thread_queue, all_awake, was_broadcast, called>>

\* ... which returns when somebody has released the semaphore.
Wake(t) ==
  /\ Goto(t, "queued", "awake")
  /\ thread_queue > 0 /\ thread_queue' = thread_queue - 1
  /\ UNCHANGED <<signals, owner, section, num_waiters, all_awake, was_broadcast, called>>

\* Fault: every waiter of a broadcast takes itself for the last one.
CountDownAlwaysLast(t) ==
  /\ Goto(t, "awake", IF was_broadcast THEN "last" ELSE "relock")
  /\ Section
  /\ num_waiters' = num_waiters - 1
  /\ UNCHANGED <<signals, owner, thread_queue, all_awake, was_broadcast, called>>

\* Fault: the last waiter is looked for before the waiter is subtracted.
CountDownTooLate(t) ==
  /\ Goto(t, "awake", IF was_broadcast /\ num_waiters = 0 THEN "last" ELSE "relock")
  /\ Section
  /\ num_waiters' = num_waiters - 1
  /\ UNCHANGED <<signals, owner, thread_queue, all_awake, was_broadcast, called>>

\* The waiter uncounts itself and finds out whether it is the last one.
CountDown(t) ==
  /\ Goto(t, "awake", IF was_broadcast /\ num_waiters = 1 THEN "last" ELSE "relock")
  /\ Section
  /\ num_waiters' = num_waiters - 1
  /\ UNCHANGED <<signals, owner, thread_queue, all_awake, was_broadcast, called>>

\* The last one signals the event and waits for the mutex in one call.
AllAwake(t) ==
  /\ Goto(t, "last", "relock")
  /\ all_awake' = TRUE
  /\ UNCHANGED <<signals, owner, section, num_waiters, thread_queue, was_broadcast, called>>

Relock(t) ==
  /\ Goto(t, "relock", "critical")
  /\ Acquire(t)
  /\ called' = called \ {t}
  /\ UNCHANGED <<signals, section, num_waiters, thread_queue, all_awake, was_broadcast>>

-----------------------------------------------------------------------------
\* Where a call of signal() or broadcast() returns to.
Caller(t) == IF owner = t THEN "critical" ELSE "idle"

\* signal(): the count is looked at in a critical section ...
Signal(t) ==
  /\ signals
  /\ Goto(t, Caller(t), IF num_waiters > 0 THEN "signal" ELSE Caller(t))
  /\ Section
  /\ UNCHANGED <<signals, owner, num_waiters, thread_queue, all_awake, was_broadcast, called>>

\* ... and the semaphore is released after it; a full one is an exception.
ReleaseOne(t) ==
  /\ Goto(t, "signal", Caller(t))
  /\ \/ ReleaseSemaphore(1)
     \/ ~Fits(1) /\ UNCHANGED thread_queue
  /\ UNCHANGED <<signals, owner, section, num_waiters, all_awake, was_broadcast, called>>

\* Fault: broadcast() counts the broadcaster, too.
BroadcastOneMore(t) ==
  /\ num_waiters > 0
  /\ Goto(t, "critical", "broadcast")
  /\ Section
  /\ was_broadcast' = TRUE
  /\ ReleaseSemaphore(num_waiters + 1)
  /\ called' = called \cup At({"queued", "awake"})
  /\ UNCHANGED <<signals, owner, num_waiters, all_awake>>

\* broadcast(): as many are released as are counted, in the critical section.
Broadcast(t) ==
  /\ num_waiters > 0
  /\ Goto(t, "critical", "broadcast")
  /\ Section
  /\ was_broadcast' = TRUE
  /\ ReleaseSemaphore(num_waiters)
  /\ called' = called \cup At({"queued", "awake"})
  /\ UNCHANGED <<signals, owner, num_waiters, all_awake>>

\* Nobody waits.
BroadcastToNobody(t) ==
  /\ num_waiters = 0
  /\ pc[t] = "critical" /\ Section
  /\ UNCHANGED vars

\* The semaphore is full: the exception leaves num_waiters_lock locked, and
\* the mutex too when it passes through notify() or the barrier.  The thread
\* stops here: what it might do after catching the exception, inside a section
\* that only it can enter again, is not modelled.
BroadcastFails(t) ==
  /\ num_waiters > 0 /\ ~Fits(num_waiters)
  /\ Goto(t, "critical", "thrown")
  /\ section = NoThread /\ section' = t
  /\ was_broadcast' = TRUE
  /\ UNCHANGED <<signals, owner, num_waiters, thread_queue, all_awake, called>>

\* The broadcaster waits for the event, which is reset by that ...
Released(t) ==
  /\ Goto(t, "broadcast", "released")
  /\ all_awake /\ all_awake' = FALSE
  /\ UNCHANGED <<signals, owner, section, num_waiters, thread_queue, was_broadcast, called>>

\* Fault: the flag is not reset.
EndBroadcastForgotten(t) ==
  /\ Goto(t, "released", "critical")
  /\ UNCHANGED <<signals, owner, section, num_waiters, thread_queue, all_awake, was_broadcast, called>>

\* ... and resets the flag outside any critical section.
EndBroadcast(t) ==
  /\ Goto(t, "released", "critical")
  /\ was_broadcast' = FALSE
  /\ UNCHANGED <<signals, owner, section, num_waiters, thread_queue, all_awake, called>>

InWait(t) == Queue(t) \/ Wake(t) \/ CountDown(t) \/ AllAwake(t)
InBroadcast(t) == Released(t) \/ EndBroadcast(t)

Step(t) ==
  \/ Lock(t) \/ Unlock(t)
  \/ Count(t) \/ InWait(t) \/ Relock(t)
  \/ Signal(t) \/ ReleaseOne(t)
  \/ Broadcast(t) \/ BroadcastToNobody(t) \/ BroadcastFails(t) \/ InBroadcast(t)

Next == \E t \in Threads : Step(t)

Spec == Init /\ [][Next]_vars

\* A thread inside a call is scheduled.  Nothing is asked of a thread that
\* could make a call, nor of the mutex.
Fairness == \A t \in Threads : WF_vars(InWait(t)) /\ WF_vars(InBroadcast(t))

FairSpec == Spec /\ Fairness

-----------------------------------------------------------------------------
\* The counts are those of the threads: num_waiters of the threads between
\* the two critical sections of wait(), and the mutex, num_waiters_lock and
\* the semaphore are where the calls have left them (cond.hpp:170-228).
TypeOK ==
  /\ signals \in BOOLEAN /\ was_broadcast \in BOOLEAN /\ all_awake \in BOOLEAN
  /\ pc \in [Threads -> {"idle", "critical", "counted", "queued", "awake", "last", "relock",
                         "signal", "broadcast", "released", "thrown"}]
  /\ owner \in Threads \cup {NoThread} /\ section \in At({"thrown"}) \cup {NoThread}
  /\ num_waiters = Cardinality(At({"counted", "queued", "awake"}))
  /\ thread_queue \in 0 .. MaxCount
  /\ called \subseteq At({"queued", "awake", "last", "relock"})

\* broadcast() does not return before every thread that waited when it was
\* called has woken up and counted itself down (cond.hpp:170-228, 257-300).
BroadcastReachesAll ==
  \A t \in Threads : pc[t] = "released" => called \cap At({"queued", "awake"}) = {}

\* The auto-reset event is signaled only for the broadcast that waits for it:
\* left over, it would end the next one early (cond.hpp:195-206, 282-296).
EventIsFresh ==
  all_awake => /\ At({"broadcast"}) # {}
               /\ At({"last"}) = {}

\* In a program without signal(), a wait returns only after a broadcast that
\* was called while it waited, and a broadcast releases all who wait: what
\* event.hpp and barrier.hpp take every condition variable for.
C == INSTANCE CondVar WITH waiting <- At({"queued"}) \ called
ImplementsCondVar == C!Spec

\* A broadcast ends: the semaphore has a count for every waiter, and the
\* last of them finds out that it is (cond.hpp:257-300).
BroadcastReturns == \A t \in Threads : pc[t] = "broadcast" ~> pc[t] = "critical"
=============================================================================
