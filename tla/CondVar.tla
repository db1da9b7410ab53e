------------------------------ MODULE CondVar ------------------------------
(***************************************************************************)
(* What the condition variables of src/pfunc/cond.hpp promise to the event *)
(* and to the start-up barrier, whose threads hold the mutex in every call *)
(* of wait() and broadcast(): wait() gives the mutex up and joins the      *)
(* waiters in one step, broadcast() releases all of them, and nobody else  *)
(* does.  Only where signal() is used may a waiter wake for nothing.       *)
(***************************************************************************)
CONSTANTS Threads, NoThread

VARIABLES
  signals,  \* whether the program calls signal(); never changes
  owner,    \* who holds the mutex
  waiting   \* who waits for the condition

vars == <<signals, owner, waiting>>

Init == signals \in BOOLEAN /\ owner = NoThread /\ waiting = {}

\* lock(), and the end of a wait().
Lock(t) ==
  /\ owner = NoThread /\ t \notin waiting
  /\ owner' = t /\ UNCHANGED <<signals, waiting>>

Unlock(t) ==
  /\ owner = t
  /\ owner' = NoThread /\ UNCHANGED <<signals, waiting>>

Wait(t) ==
  /\ owner = t
  /\ owner' = NoThread /\ waiting' = waiting \cup {t}
  /\ UNCHANGED signals

Broadcast(t) ==
  /\ owner = t
  /\ waiting' = {} /\ UNCHANGED <<signals, owner>>

WakeUp(t) ==
  /\ signals /\ t \in waiting
  /\ waiting' = waiting \ {t} /\ UNCHANGED <<signals, owner>>

Next == \E t \in Threads : Lock(t) \/ Unlock(t) \/ Wait(t) \/ Broadcast(t) \/ WakeUp(t)

Spec == Init /\ [][Next]_vars
=============================================================================
