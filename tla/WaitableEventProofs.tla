------------------------ MODULE WaitableEventProofs ------------------------
(***************************************************************************)
(* Proofs about WaitableEvent for any number of waiters, notifiers and     *)
(* rounds, and for both classes.  That a wait is not ended early and that  *)
(* no sleeper is missed needs ReuseAfterWake: without it a notifier may    *)
(* still be about to wake the sleepers of the previous round.  That nobody *)
(* is left on the condition variable needs that one thread waits there:    *)
(* with two, one of them may unlock the other one's mutex.                 *)
(***************************************************************************)
EXTENDS WaitableEvent, FiniteSetTheorems, TLAPS

States == {"out", "call", "sleep", "asleep", "receive", "tested", "last", "idle", "wake",
           "lock", "look", "park", "parked", "relock", "broadcast", "unlock"}

\* The part of TypeOK the other invariants rest on.
Places == pc \in [Waiters \cup Notifiers -> States] /\ pending \in BOOLEAN

\* The event is incomplete exactly while the task is pending ...
IncompleteMeansPending == event_state = Incomplete <=> pending

\* ... and nobody is left over from the round before.
WakeMeansNotified == \A n \in Notifiers : pc[n] # "idle" => ~pending

\* Only in a build with futexes does anybody sleep on one.
OneClass ==
  /\ \A w \in Waiters : pc[w] \in {"sleep", "asleep"} => impl = "futex"
  /\ \A w \in Waiters : pc[w] \in {"lock", "look", "park", "parked"} => impl = "cond"

IInv == /\ Places
        /\ OneClass
        /\ IncompleteMeansPending
        /\ WakeMeansNotified
        /\ WaitMeansComplete
        /\ NoLostNotification

USE DEF Inactive, Incomplete, Complete

-----------------------------------------------------------------------------
\* The invariant holds initially: nobody waits for anything.
LEMMA InitIInv == Init => IInv
<1> SUFFICES ASSUME Init PROVE IInv
  OBVIOUS
<1> USE DEF Init
<1>1. \A a \in Waiters \cup Notifiers : pc[a] \in {"out", "idle"}
  OBVIOUS
<1>2. Places
  BY DEF Places, States
<1>3. IncompleteMeansPending
  <2>1. event_state # Incomplete /\ ~pending
    OBVIOUS
  <2>. QED
    BY <2>1 DEF IncompleteMeansPending
<1>4. WakeMeansNotified /\ WaitMeansComplete
  BY DEF WakeMeansNotified, WaitMeansComplete
<1>5. NoLostNotification /\ OneClass
  BY <1>1 DEF NoLostNotification, OneClass
<1>. QED
  BY <1>2, <1>3, <1>4, <1>5 DEF IInv

\* Spawning the handle again preserves it, for every notifier is idle.
LEMMA ResetStep == ASSUME ReuseAfterWake = TRUE, IInv, Reset PROVE IInv'
  BY ActorsAssumption
  DEF ActorsAssumption, Reset, IInv, Places, States, IncompleteMeansPending, WakeMeansNotified, OneClass,
      WaitMeansComplete, NoLostNotification

\* Every step of a waiter preserves it.
LEMMA WaiterPreserves ==
  ASSUME NEW w \in Waiters, IInv, WaiterStep(w) PROVE IInv'
<1> USE ActorsAssumption
    DEF ActorsAssumption, IInv, Places, States, IncompleteMeansPending, WakeMeansNotified, OneClass,
        WaitMeansComplete, NoLostNotification, Goto
<1>1. CASE Wait(w)
  BY <1>1 DEF Wait
<1>2. CASE FutexWait(w)
  BY <1>2 DEF FutexWait
<1>3. CASE ReceiveWait(w)
  BY <1>3 DEF ReceiveWait
<1>4. CASE Test(w)
  BY <1>4 DEF Test
<1>5. CASE ReceiveTest(w)
  BY <1>5 DEF ReceiveTest
<1>6. CASE Deactivate(w)
  BY <1>6 DEF Deactivate
<1>7. CASE LookFirst(w)
  BY <1>7 DEF LookFirst
<1>8. CASE LockEvent(w)
  BY <1>8 DEF LockEvent
<1>9. CASE LookAgain(w)
  BY <1>9 DEF LookAgain
<1>10. CASE Park(w)
  BY <1>10 DEF Park
<1>11. CASE UnlockEvent(w)
  BY <1>11 DEF UnlockEvent
<1>. QED
  BY <1>1, <1>2, <1>3, <1>4, <1>5, <1>6, <1>7, <1>8, <1>9, <1>10, <1>11 DEF WaiterStep

\* Every step of a notifier preserves it.
LEMMA NotifierPreserves ==
  ASSUME NEW n \in Notifiers, IInv, NotifierStep(n) PROVE IInv'
<1> USE ActorsAssumption
    DEF ActorsAssumption, IInv, Places, States, IncompleteMeansPending, WakeMeansNotified, OneClass,
        WaitMeansComplete, NoLostNotification, Goto
<1>1. CASE Notify(n)
  <2> USE <1>1 DEF Notify
  <2>1. Places'
    BY Zenon
  <2>2. event_state' # Incomplete /\ ~pending'
    OBVIOUS
  <2>3. IncompleteMeansPending' /\ WakeMeansNotified' /\ WaitMeansComplete'
    BY <2>2
  <2>4. impl = "futex" => pc'[n] = "wake"
    OBVIOUS
  <2>5. NoLostNotification'
    BY <2>4
  <2>6. OneClass'
    OBVIOUS
  <2>. QED
    BY <2>1, <2>3, <2>5, <2>6
<1>2. CASE WakeAll(n)
  BY <1>2 DEF WakeAll
<1>3. CASE LockEvent(n)
  BY <1>3 DEF LockEvent
<1>4. CASE Broadcast(n)
  BY <1>4 DEF Broadcast
<1>5. CASE UnlockEvent(n)
  BY <1>5 DEF UnlockEvent
<1>. QED
  BY <1>1, <1>2, <1>3, <1>4, <1>5 DEF NotifierStep, Finish

-----------------------------------------------------------------------------
\* The inductive invariant, of a handle that is spawned again only when
\* notify() has returned.
LEMMA Invariance == ASSUME ReuseAfterWake = TRUE PROVE Spec => []IInv
<1>1. IInv /\ [Next]_vars => IInv'
  <2> SUFFICES ASSUME IInv, [Next]_vars PROVE IInv'
    OBVIOUS
  <2>1. CASE Reset
    BY <2>1, ResetStep
  <2>2. ASSUME NEW w \in Waiters, WaiterStep(w) PROVE IInv'
    BY <2>2, WaiterPreserves
  <2>3. ASSUME NEW n \in Notifiers, NotifierStep(n) PROVE IInv'
    BY <2>3, NotifierPreserves
  <2>4. CASE UNCHANGED vars
    BY <2>4
    DEF vars, IInv, Places, IncompleteMeansPending, WakeMeansNotified, OneClass,
        WaitMeansComplete, NoLostNotification
  <2>. QED
    BY <2>1, <2>2, <2>3, <2>4 DEF Next, Ended
<1>. QED
  BY <1>1, InitIInv, PTL DEF Spec

\* A wait() or a successful test() returns only when the function of the
\* task has returned (event.hpp:63-71,94-100).
THEOREM WaitsAreNotCutShort ==
  ASSUME ReuseAfterWake = TRUE PROVE Spec => []WaitMeansComplete
<1>1. IInv => WaitMeansComplete
  BY DEF IInv
<1>. QED
  BY <1>1, Invariance, PTL

\* Whoever sleeps in futex_wait is still going to be woken
\* (event.hpp:94-109).
THEOREM NotificationsAreNotLost ==
  ASSUME ReuseAfterWake = TRUE PROVE Spec => []NoLostNotification
<1>1. IInv => NoLostNotification
  BY DEF IInv
<1>. QED
  BY <1>1, Invariance, PTL
-----------------------------------------------------------------------------
\* The class on a condition variable.  One notifier is at work at a time,
\* and only the threads that may wait there use the mutex.
OneNotifier ==
  \A m, n \in Notifiers : pc[m] # "idle" /\ pc[n] # "idle" => m = n
OnlyCondWaiters ==
  \A w \in Waiters :
    pc[w] \in {"lock", "look", "park", "parked", "relock", "unlock"} => w \in CondWaiters

\* Whoever looks again or is about to sleep holds the mutex ...
LookerHolds == \A w \in Waiters : pc[w] \in {"look", "park"} => lck = {w}

\* ... and does not while a notifier broadcasts.  The mutex of a notifier is
\* unlocked by another only when nobody is left who could lock it and park.
NotifierExcludes ==
  \A n \in Notifiers : pc[n] \in {"broadcast", "unlock"} =>
    /\ \A w \in Waiters : pc[w] \notin {"look", "park"}
    /\ lck = {n} \/ \A w \in Waiters : pc[w] # "lock"

BroadcastToCome ==
  (\E w \in Waiters : pc[w] \in {"park", "parked"}) =>
    pending \/ \E n \in Notifiers : pc[n] \in {"lock", "broadcast"}

CondInv == /\ IInv
           /\ OneNotifier
           /\ OnlyCondWaiters
           /\ LookerHolds
           /\ NotifierExcludes
           /\ BroadcastToCome

\* It holds initially.
LEMMA InitCondInv == Init => CondInv
<1> SUFFICES ASSUME Init PROVE CondInv
  OBVIOUS
<1>1. \A a \in Waiters \cup Notifiers : pc[a] \in {"out", "idle"}
  BY DEF Init
<1>2. \A n \in Notifiers : pc[n] = "idle"
  BY ActorsAssumption DEF ActorsAssumption, Init
<1>. QED
  BY <1>1, <1>2, InitIInv
  DEF CondInv, OneNotifier, OnlyCondWaiters, LookerHolds, NotifierExcludes, BroadcastToCome

\* Spawning preserves it.
LEMMA ResetCond == ASSUME ReuseAfterWake = TRUE, CondInv, Reset PROVE CondInv'
<1>1. IInv'
  BY ResetStep DEF CondInv
<1>2. /\ \A w \in Waiters : pc'[w] = "call"
      /\ \A n \in Notifiers : pc'[n] = "idle"
  BY ActorsAssumption DEF ActorsAssumption, Reset
<1>. QED
  BY <1>1, <1>2
  DEF CondInv, OneNotifier, OnlyCondWaiters, LookerHolds, NotifierExcludes, BroadcastToCome

\* A step of a waiter preserves it when no other thread waits on the
\* condition variable.
LEMMA WaiterCond ==
  ASSUME NEW v, CondWaiters \subseteq {v}, CondInv, NEW w \in Waiters, WaiterStep(w)
  PROVE  CondInv'
<1>1. IInv'
  BY WaiterPreserves DEF CondInv
<1> USE ActorsAssumption, CondWaitersAssumption
    DEF ActorsAssumption, CondWaitersAssumption, CondInv, IInv, Places, States, Goto,
        IncompleteMeansPending, WakeMeansNotified, OneNotifier, OnlyCondWaiters,
        LookerHolds, NotifierExcludes, BroadcastToCome
<1>2. CASE Wait(w)
  BY <1>1, <1>2 DEF Wait
<1>3. CASE FutexWait(w)
  BY <1>1, <1>3 DEF FutexWait
<1>4. CASE ReceiveWait(w)
  BY <1>1, <1>4 DEF ReceiveWait
<1>5. CASE Test(w)
  BY <1>1, <1>5 DEF Test
<1>6. CASE ReceiveTest(w)
  BY <1>1, <1>6 DEF ReceiveTest
<1>7. CASE Deactivate(w)
  BY <1>1, <1>7 DEF Deactivate
<1>8. CASE LookFirst(w)
  BY <1>1, <1>8 DEF LookFirst
<1>9. CASE LockEvent(w)
  BY <1>1, <1>9 DEF LockEvent
<1>10. CASE LookAgain(w)
  BY <1>1, <1>10 DEF LookAgain
<1>11. CASE Park(w)
  BY <1>1, <1>11 DEF Park, Unlocked
<1>12. CASE UnlockEvent(w)
  BY <1>1, <1>12 DEF UnlockEvent, Unlocked
<1>. QED
  BY <1>2, <1>3, <1>4, <1>5, <1>6, <1>7, <1>8, <1>9, <1>10, <1>11, <1>12 DEF WaiterStep

\* A step of a notifier preserves it.
LEMMA NotifierCond ==
  ASSUME CondInv, NEW n \in Notifiers, NotifierStep(n) PROVE CondInv'
<1>1. IInv'
  BY NotifierPreserves DEF CondInv
<1> USE ActorsAssumption
    DEF ActorsAssumption, CondInv, IInv, Places, States, Goto,
        IncompleteMeansPending, WakeMeansNotified, OneClass, OneNotifier, OnlyCondWaiters,
        LookerHolds, NotifierExcludes, BroadcastToCome
<1>2. CASE Notify(n)
  BY <1>1, <1>2 DEF Notify
<1>3. CASE WakeAll(n)
  BY <1>1, <1>3 DEF WakeAll
<1>4. CASE LockEvent(n)
  BY <1>1, <1>4 DEF LockEvent
<1>5. CASE Broadcast(n)
  BY <1>1, <1>5 DEF Broadcast
<1>6. CASE UnlockEvent(n)
  BY <1>1, <1>6 DEF UnlockEvent, Unlocked
<1>. QED
  BY <1>2, <1>3, <1>4, <1>5, <1>6 DEF NotifierStep, Finish

\* With one thread that waits on the condition variable, a broadcast is
\* still to come while it sleeps there (event.hpp:130-155).
THEOREM BroadcastsAreNotLost ==
  ASSUME ReuseAfterWake = TRUE, NEW v, CondWaiters \subseteq {v}
  PROVE  Spec => []NoLostBroadcast
<1>1. CondInv /\ [Next]_vars => CondInv'
  <2> SUFFICES ASSUME CondInv, [Next]_vars PROVE CondInv'
    OBVIOUS
  <2>1. CASE Reset
    BY <2>1, ResetCond
  <2>2. ASSUME NEW w \in Waiters, WaiterStep(w) PROVE CondInv'
    BY <2>2, WaiterCond
  <2>3. ASSUME NEW n \in Notifiers, NotifierStep(n) PROVE CondInv'
    BY <2>3, NotifierCond
  <2>4. CASE UNCHANGED vars
    BY <2>4
    DEF vars, CondInv, IInv, Places, IncompleteMeansPending, WakeMeansNotified, OneClass,
        WaitMeansComplete, NoLostNotification, OneNotifier, OnlyCondWaiters, LookerHolds,
        NotifierExcludes, BroadcastToCome
  <2>. QED
    BY <2>1, <2>2, <2>3, <2>4 DEF Next, Ended
<1>2. CondInv => NoLostBroadcast
  BY DEF CondInv, BroadcastToCome, NoLostBroadcast
<1>. QED
  BY <1>1, <1>2, InitCondInv, PTL DEF Spec
-----------------------------------------------------------------------------
\* The count of the completions.  Unreceived are the waiters that have still
\* to receive the one of the round; num_waiters counts them, and whoever
\* deactivates the event has found none.  This rests neither on
\* ReuseAfterWake nor on who waits on which class.
Unreceived == {w \in Waiters : pc[w] \notin {"out", "last"}}

Counted ==
  /\ pc \in [Waiters \cup Notifiers -> States]
  /\ round \in Nat
  /\ round > 0 => num_waiters = Cardinality(Unreceived)
  /\ round = 0 \/ event_state = Inactive \/ (\E w \in Waiters : pc[w] = "last")
       => Unreceived = {}

\* A step after which the same waiters have still to receive, nobody has become
\* the last one and the event is not inactive if it was not.
LEMMA SameUnreceived ==
  ASSUME Counted, UNCHANGED <<num_waiters, round>>,
         pc' \in [Waiters \cup Notifiers -> States],
         \A w \in Waiters : /\ pc[w] \in {"out", "last"} <=> pc'[w] \in {"out", "last"}
                            /\ pc'[w] = "last" => pc[w] = "last",
         event_state' = Inactive =>
           event_state = Inactive \/ \E w \in Waiters : pc[w] = "last"
  PROVE  Counted'
<1>1. Unreceived' = Unreceived
  BY DEF Unreceived
<1>. QED
  BY <1>1 DEF Counted

\* One waiter receives its completion; it may be the last one to.
LEMMA OneReceived ==
  ASSUME Counted, NEW w \in Waiters, UNCHANGED <<event_state, round>>,
         pc[w] \notin {"out", "last"},
         num_waiters' = num_waiters - 1,
         pc' = [pc EXCEPT ![w] = "out"] \/ (pc' = [pc EXCEPT ![w] = "last"] /\ num_waiters <= 1)
  PROVE  Counted'
<1>1. w \in Unreceived /\ round # 0 /\ event_state # Inactive
      /\ \A v \in Waiters : pc[v] # "last"
  BY DEF Counted, Unreceived
<1>2. IsFiniteSet(Unreceived)
  BY ActorsAssumption, FS_Subset DEF ActorsAssumption, Unreceived
<1>3. /\ Cardinality(Unreceived) \in Nat
      /\ IsFiniteSet(Unreceived \ {w})
      /\ Cardinality(Unreceived \ {w}) = Cardinality(Unreceived) - 1
  BY <1>1, <1>2, FS_CardinalityType, FS_RemoveElement
<1>4. pc' \in [Waiters \cup Notifiers -> States]
  BY DEF Counted, States
<1>5. Unreceived' = Unreceived \ {w}
  BY DEF Unreceived, Counted
<1>6. round' \in Nat /\ round' > 0 /\ num_waiters' = Cardinality(Unreceived')
  BY <1>1, <1>3, <1>5 DEF Counted
<1>7. ASSUME NEW v \in Waiters, pc'[v] = "last"
      PROVE  Unreceived' = {}
  <2>1. pc' = [pc EXCEPT ![w] = "last"] /\ num_waiters <= 1
    BY <1>1, <1>7 DEF Counted
  <2>2. Cardinality(Unreceived \ {w}) = 0
    <3>1. num_waiters = Cardinality(Unreceived) /\ Cardinality(Unreceived \ {w}) \in Nat
      BY <1>1, <1>3, FS_CardinalityType DEF Counted
    <3>. QED
      BY <1>3, <2>1, <3>1
  <2>. QED
    BY <1>3, <1>5, <2>2, FS_EmptySet
<1>. QED
  BY <1>1, <1>4, <1>6, <1>7 DEF Counted

(***************************************************************************)
(* The event is inactive only when every waiter has received the           *)
(* completion of the round, whoever waits, whoever tests, and even when    *)
(* the handle is spawned again before notify() has returned                *)
(* (event.hpp:66-70,97-99).                                                *)
(***************************************************************************)
THEOREM InactiveOnlyWhenReceived == Spec => []InactiveMeansReceived
<1>1. Init => Counted
  <2> SUFFICES ASSUME Init PROVE Counted
    OBVIOUS
  <2>1. Unreceived = {}
    BY DEF Init, Unreceived
  <2>2. pc \in [Waiters \cup Notifiers -> States] /\ round = 0
    BY DEF Init, States
  <2>. QED
    BY <2>1, <2>2 DEF Counted
<1>2. Counted /\ [Next]_vars => Counted'
  <2> SUFFICES ASSUME Counted, [Next]_vars PROVE Counted'
    OBVIOUS
  <2>1. CASE Reset
    <3>1. /\ num_waiters' = Cardinality(Waiters) /\ event_state' = Incomplete
          /\ round' \in Nat /\ round' # 0 /\ \A w \in Waiters : pc'[w] = "call"
          /\ pc' \in [Waiters \cup Notifiers -> States]
      BY <2>1 DEF Reset, Counted, States
    <3>2. Unreceived' = Waiters
      BY <3>1 DEF Unreceived
    <3>. QED
      BY <3>1, <3>2 DEF Counted
  <2>2. ASSUME NEW w \in Waiters, WaiterStep(w) PROVE Counted'
    <3>1. CASE ReceiveWait(w)
      <4>1. /\ UNCHANGED <<event_state, round>> /\ pc[w] = "receive" /\ num_waiters' = num_waiters - 1
            /\ \/ pc' = [pc EXCEPT ![w] = "out"]
               \/ pc' = [pc EXCEPT ![w] = "last"] /\ num_waiters = 0
        BY <3>1 DEF ReceiveWait, Goto
      <4>. QED
        BY <4>1, OneReceived
    <3>2. CASE ReceiveTest(w)
      <4>1. /\ UNCHANGED <<event_state, round>> /\ pc[w] = "tested" /\ num_waiters' = num_waiters - 1
            /\ \/ pc' = [pc EXCEPT ![w] = "out"]
               \/ pc' = [pc EXCEPT ![w] = "last"] /\ num_waiters = 1
        BY <3>2 DEF ReceiveTest, Goto
      <4>. QED
        BY <4>1, OneReceived
    <3>3. CASE Test(w)
      <4>1. event_state # Inactive
        BY <3>3 DEF Test, Goto, Counted, Unreceived
      <4>. QED
        BY <3>3, <4>1, SameUnreceived DEF Test, Goto, Counted, States
    <3>4. CASE Deactivate(w)
      BY <3>4, SameUnreceived DEF Deactivate, Goto, Counted, States
    <3>5. CASE Wait(w) \/ FutexWait(w) \/ LookFirst(w) \/ LookAgain(w) \/ Park(w)
      BY <3>5, SameUnreceived DEF Wait, FutexWait, LookFirst, LookAgain, Park, Goto, Counted, States
    <3>6. CASE LockEvent(w) \/ UnlockEvent(w)
      BY <3>6, SameUnreceived DEF LockEvent, UnlockEvent, Goto, Counted, States
    <3>. QED
      BY <2>2, <3>1, <3>2, <3>3, <3>4, <3>5, <3>6 DEF WaiterStep
  <2>3. ASSUME NEW n \in Notifiers, NotifierStep(n) PROVE Counted'
    <3> USE ActorsAssumption DEF ActorsAssumption
    <3>1. CASE Notify(n) \/ LockEvent(n) \/ UnlockEvent(n)
      BY <3>1, SameUnreceived DEF Notify, LockEvent, UnlockEvent, Goto, Counted, States
    <3>2. CASE WakeAll(n) \/ Broadcast(n)
      BY <3>2, SameUnreceived DEF WakeAll, Broadcast, Counted, States
    <3>. QED
      BY <2>3, <3>1, <3>2 DEF NotifierStep, Finish
  <2>4. CASE UNCHANGED vars
    BY <2>4, SameUnreceived DEF vars, Counted
  <2>. QED
    BY <2>1, <2>2, <2>3, <2>4 DEF Next, Ended
<1>3. Counted => InactiveMeansReceived
  BY DEF Counted, Unreceived, InactiveMeansReceived
<1>. QED
  BY <1>1, <1>2, <1>3, PTL DEF Spec
=============================================================================
