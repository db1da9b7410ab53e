------------------------------ MODULE ForkJoin ------------------------------
(***************************************************************************)
(* What the task manager promises to a program whose functions wait for    *)
(* every task they spawn: each spawn of a task is one execution of its     *)
(* function, it lies between the spawn and the return of the wait, and     *)
(* both happen while the function that owns the task is running.           *)
(***************************************************************************)
CONSTANTS Tasks,   \* the task handles of the program
          Main,    \* the main program
          Parent   \* whose function owns a handle

VARIABLE phase

Init == phase = [t \in Tasks |-> "free"]

Become(t, from, to) ==
  /\ phase[t] = from
  /\ phase' = [phase EXCEPT ![t] = to]

Active(p) == p = Main \/ (p \in Tasks /\ phase[p] = "running")

Spawn(t) == Active(Parent[t]) /\ Become(t, "free", "ready")

Start(t) == Become(t, "ready", "running")

\* A function returns when it has joined all its children.
Finish(t) ==
  /\ Become(t, "running", "done")
  /\ \A u \in Tasks : Parent[u] = t => phase[u] = "free"

Join(t) == Active(Parent[t]) /\ Become(t, "done", "free")

Next == \E t \in Tasks : Spawn(t) \/ Start(t) \/ Finish(t) \/ Join(t)

Spec == Init /\ [][Next]_phase
=============================================================================
