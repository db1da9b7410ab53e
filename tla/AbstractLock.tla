---------------------------- MODULE AbstractLock ----------------------------
(***************************************************************************)
(* What pfunc::mutex promises to the code that uses it: at any time at     *)
(* most one thread owns the lock, it became the owner while nobody was,    *)
(* and only the owner gives the lock up.                                   *)
(***************************************************************************)
CONSTANTS Threads,   \* the threads that use the lock
          NoThread   \* the owner of a free lock

VARIABLE owner

Init == owner = NoThread

Acquire(t) ==
  /\ owner = NoThread
  /\ owner' = t

Release(t) ==
  /\ owner = t
  /\ owner' = NoThread

Next == \E t \in Threads : Acquire(t) \/ Release(t)

Spec == Init /\ [][Next]_owner
=============================================================================
