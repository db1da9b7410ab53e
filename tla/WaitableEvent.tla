--------------------------- MODULE WaitableEvent ---------------------------
(***************************************************************************)
(* The completion event of a task that is not nested: the two classes      *)
(* event<waitable_event> of src/pfunc/event.hpp, one on a futex and one on *)
(* a mutex and a condition variable, the part of task::wait(), test() and  *)
(* notify() that uses them (src/pfunc/task.hpp), and the reset() by the    *)
(* next spawn of the handle.                                               *)
(*                                                                         *)
(* Every waiter receives one completion per round: it calls wait(), or     *)
(* test() until that returns true.  A notifier is a worker thread that     *)
(* runs the task of the round and then calls notify().  One action is one  *)
(* load, one atomic operation or one system call.  A signal that ends a    *)
(* futex_wait early and a spurious wake-up of the condition variable are   *)
(* left out: wait() has no loop to handle one.                             *)
(*                                                                         *)
(* In the class on a condition variable the first test of wait() guards    *)
(* only lock(): a thread that finds the event complete unlocks a mutex it  *)
(* has not locked.  What that does is undefined: the mutex is free         *)
(* afterwards, whoever held it, or it is unchanged.                        *)
(***************************************************************************)
EXTENDS Integers, FiniteSets

CONSTANTS
  Waiters,         \* the threads the task's num_waiters attribute counts
  Notifiers,       \* the worker threads that may run the task
  ReuseAfterWake,  \* TRUE: the handle is spawned again only when notify()
                   \* has returned, and not as soon as the waits have
  MaxRounds,       \* bound: how often the handle is spawned
  Builds,          \* the classes considered, of "futex" and "cond"
  CondWaiters      \* those of the waiters that may call wait() on a
                   \* condition variable; the others only test

ASSUME ActorsAssumption ==
  Waiters \cap Notifiers = {} /\ IsFiniteSet(Waiters) /\ Waiters # {}
ASSUME ReuseAssumption == ReuseAfterWake \in BOOLEAN
ASSUME RoundsAssumption == MaxRounds \in Nat
ASSUME BuildsAssumption == Builds \subseteq {"futex", "cond"}
ASSUME CondWaitersAssumption == CondWaiters \subseteq Waiters

VARIABLES
  impl,          \* the class, which depends on the build and never changes
  event_state,   \* the state, and the futex word
  num_waiters,   \* completions not yet received
  pc,            \* where each waiter and notifier is
  pending,       \* the task has been spawned and its function has not returned
  round,         \* how often the handle has been spawned
  lck            \* the threads that hold the mutex: nobody or one

vars == <<impl, event_state, num_waiters, pc, pending, round, lck>>

Inactive == 0      \* PFUNC_INACTIVE
Incomplete == 1    \* PFUNC_ACTIVE_INCOMPLETE
Complete == 2      \* PFUNC_ACTIVE_COMPLETE

Init ==
  /\ impl \in Builds
  /\ lck = {}
  /\ event_state = Inactive
  /\ num_waiters = 1
  /\ pc = [a \in Waiters \cup Notifiers |-> IF a \in Waiters THEN "out" ELSE "idle"]
  /\ pending = FALSE
  /\ round = 0

Goto(a, from, to) ==
  /\ pc[a] = from
  /\ pc' = [pc EXCEPT ![a] = to]

\* Fault: the event keeps the state of the previous round.
ResetForgotten ==
  /\ round < MaxRounds
  /\ \A w \in Waiters : pc[w] = "out"
  /\ ReuseAfterWake => \A n \in Notifiers : pc[n] = "idle"
  /\ num_waiters' = Cardinality(Waiters)
  /\ pc' = [a \in Waiters \cup Notifiers |-> IF a \in Waiters THEN "call" ELSE pc[a]]
  /\ pending' = TRUE
  /\ round' = round + 1
  /\ UNCHANGED <<impl, lck, event_state>>

\* spawn_task() of a handle whose waits have all returned: reset() of the
\* event, and the waiters begin to wait for the new round.
Reset ==
  /\ round < MaxRounds
  /\ \A w \in Waiters : pc[w] = "out"
  /\ ReuseAfterWake => \A n \in Notifiers : pc[n] = "idle"
  /\ num_waiters' = Cardinality(Waiters)
  /\ event_state' = Incomplete
  /\ pc' = [a \in Waiters \cup Notifiers |-> IF a \in Waiters THEN "call" ELSE pc[a]]
  /\ pending' = TRUE
  /\ round' = round + 1
  /\ UNCHANGED <<impl, lck>>

-----------------------------------------------------------------------------
\* wait() on a futex: sleep unless the event is seen not to be incomplete.
Wait(w) ==
  /\ impl = "futex"
  /\ Goto(w, "call", IF event_state = Incomplete THEN "sleep" ELSE "receive")
  /\ UNCHANGED <<impl, lck, event_state, num_waiters, pending, round>>

\* Fault: the thread goes to sleep without the kernel's comparison.
FutexWaitBlindly(w) ==
  /\ Goto(w, "sleep", "asleep")
  /\ UNCHANGED <<impl, lck, event_state, num_waiters, pending, round>>

\* The wait ends at once if the event has changed.  (It may also end for no
\* reason, or by a signal; that is not modelled, and would do what a late wake
\* of an earlier use does.)
FutexWait(w) ==
  /\ Goto(w, "sleep", IF event_state = Incomplete THEN "asleep" ELSE "receive")
  /\ UNCHANGED <<impl, lck, event_state, num_waiters, pending, round>>

\* "After wake up": wait() does not look at the event again.
ReceiveWait(w) ==
  /\ Goto(w, "receive", IF num_waiters = 0 THEN "last" ELSE "out")
  /\ num_waiters' = num_waiters - 1
  /\ UNCHANGED <<impl, lck, event_state, pending, round>>

\* test(): false while incomplete; a test of an inactive event is true and
\* receives nothing.
Test(w) ==
  /\ event_state # Incomplete
  /\ Goto(w, "call", IF event_state = Inactive THEN "out" ELSE "tested")
  /\ UNCHANGED <<impl, lck, event_state, num_waiters, pending, round>>

\* Fault: the last but one deactivates the event.
ReceiveTestEarly(w) ==
  /\ Goto(w, "tested", IF num_waiters <= 2 THEN "last" ELSE "out")
  /\ num_waiters' = num_waiters - 1
  /\ UNCHANGED <<impl, lck, event_state, pending, round>>

ReceiveTest(w) ==
  /\ Goto(w, "tested", IF num_waiters = 1 THEN "last" ELSE "out")
  /\ num_waiters' = num_waiters - 1
  /\ UNCHANGED <<impl, lck, event_state, pending, round>>

\* The one that counted num_waiters down makes the event inactive.
Deactivate(w) ==
  /\ Goto(w, "last", "out")
  /\ event_state' = Inactive
  /\ UNCHANGED <<impl, lck, num_waiters, pending, round>>

-----------------------------------------------------------------------------
\* wait() on a condition variable.  Between the first test and the second
\* no completion is taken back, so that whoever does not lock does not park.
LookFirst(w) ==
  /\ impl = "cond" /\ w \in CondWaiters
  /\ Goto(w, "call", IF event_state = Incomplete THEN "lock" ELSE "unlock")
  /\ UNCHANGED <<impl, lck, event_state, num_waiters, pending, round>>

\* lock() of a waiter and of notify(), and its return from cnd.wait().
LockEvent(a) ==
  /\ lck = {}
  /\ lck' = {a}
  /\ \/ Goto(a, "lock", IF a \in Waiters THEN "look" ELSE "broadcast")
     \/ Goto(a, "relock", "unlock")
  /\ UNCHANGED <<impl, event_state, num_waiters, pending, round>>

LookAgain(w) ==
  /\ Goto(w, "look", IF event_state = Incomplete THEN "park" ELSE "unlock")
  /\ UNCHANGED <<impl, lck, event_state, num_waiters, pending, round>>

\* The mutex after a thread has unlocked it: free, or unchanged if another
\* thread holds it.  (On Windows ReleaseMutex refuses that, and unlock() throws
\* in a build with exceptions, which is not modelled.)
Unlocked(a) == {{}, lck \ {a}}

\* cnd.wait(): unlock and sleep in one step.
Park(w) ==
  /\ Goto(w, "park", "parked")
  /\ lck' \in Unlocked(w)
  /\ UNCHANGED <<impl, event_state, num_waiters, pending, round>>

UnlockEvent(a) ==
  /\ Goto(a, "unlock", IF a \in Waiters THEN "receive" ELSE "idle")
  /\ lck' \in Unlocked(a)
  /\ UNCHANGED <<impl, event_state, num_waiters, pending, round>>

WaiterStep(w) ==
  \/ Wait(w) \/ FutexWait(w) \/ ReceiveWait(w)
  \/ Test(w) \/ ReceiveTest(w) \/ Deactivate(w)
  \/ LookFirst(w) \/ LockEvent(w) \/ LookAgain(w) \/ Park(w) \/ UnlockEvent(w)

-----------------------------------------------------------------------------
\* Fault: notify() broadcasts without the mutex.
NotifyUnlocked(n) ==
  /\ pending
  /\ Goto(n, "idle", IF impl = "futex" THEN "wake" ELSE "broadcast")
  /\ pending' = FALSE
  /\ event_state' = Complete
  /\ UNCHANGED <<impl, lck, num_waiters, round>>

\* The function returns and notify() stores the completion ...
Notify(n) ==
  /\ pending
  /\ Goto(n, "idle", IF impl = "futex" THEN "wake" ELSE "lock")
  /\ pending' = FALSE
  /\ event_state' = Complete
  /\ UNCHANGED <<impl, lck, num_waiters, round>>

\* ... and then, in a system call of its own, wakes everybody who sleeps on
\* the event's address.
WakeAll(n) ==
  /\ pc[n] = "wake"
  /\ pc' = [a \in Waiters \cup Notifiers |->
              IF a = n THEN "idle" ELSE IF pc[a] = "asleep" THEN "receive" ELSE pc[a]]
  /\ UNCHANGED <<impl, lck, event_state, num_waiters, pending, round>>

\* ... or, with the mutex held, everybody who sleeps on the condition.
Broadcast(n) ==
  /\ pc[n] = "broadcast"
  /\ pc' = [a \in Waiters \cup Notifiers |->
              IF a = n THEN "unlock" ELSE IF pc[a] = "parked" THEN "relock" ELSE pc[a]]
  /\ UNCHANGED <<impl, lck, event_state, num_waiters, pending, round>>

Finish(n) == WakeAll(n) \/ LockEvent(n) \/ Broadcast(n) \/ UnlockEvent(n)

NotifierStep(n) == Notify(n) \/ Finish(n)

Ended == round = MaxRounds /\ (\A a \in Waiters : pc[a] = "out") /\ UNCHANGED vars

Next ==
  \/ Reset
  \/ \E w \in Waiters : WaiterStep(w)
  \/ \E n \in Notifiers : NotifierStep(n)
  \/ Ended

Spec == Init /\ [][Next]_vars

\* The system runs every thread; the task is run by some worker.
Fairness ==
  /\ \A w \in Waiters : WF_vars(WaiterStep(w))
  /\ WF_vars(\E n \in Notifiers : Notify(n))
  /\ \A n \in Notifiers : WF_vars(Finish(n))

FairSpec == Spec /\ Fairness

-----------------------------------------------------------------------------
\* A wait() or a successful test() returns only when the task's function
\* has returned (event.hpp:91-100, 57-71).
WaitMeansComplete ==
  \A w \in Waiters :
    pc[w] \in {"relock", "unlock", "receive", "tested", "last", "out"} => ~pending

\* The event is inactive only when every waiter has received the completion
\* of the round (event.hpp:66-70, 97-99).
InactiveMeansReceived ==
  event_state = Inactive /\ round > 0 =>
    \A w \in Waiters : pc[w] \in {"out", "last"}

\* A waiter that sleeps will be woken: the completion is still to come, or
\* a notifier is about to wake (event.hpp:94-109).
NoLostNotification ==
  (\E w \in Waiters : pc[w] = "asleep") =>
    pending \/ \E n \in Notifiers : pc[n] = "wake"

\* The same of a waiter on the condition variable, which counts on its being
\* asleep, and not only about to, when the mutex is free (event.hpp:130-155).
NoLostBroadcast ==
  (\E w \in Waiters : pc[w] = "parked") =>
    pending \/ \E n \in Notifiers : pc[n] \in {"lock", "broadcast"}

\* Everybody who waits for a spawned task returns (event.hpp:94-109,
\* 130-155).
EverybodyReturns == pending ~> \A w \in Waiters : pc[w] = "out"
=============================================================================
