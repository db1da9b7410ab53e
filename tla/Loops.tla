------------------------------- MODULE Loops -------------------------------
(***************************************************************************)
(* The parallel loops on the task manager, in a build with exceptions      *)
(* (src/pfunc/parallel_for.hpp, parallel_reduce.hpp, parallel_while.hpp,   *)
(* space_1D.hpp, exception.hpp): one loop, spawned as a task that is not   *)
(* nested by a main program that waits for it, as the tutorial does.       *)
(*                                                                         *)
(* The queues are one set of tasks that any worker may take: every task of *)
(* a loop has the default attribute, which cilkS, lifoS and fifoS accept   *)
(* on top of any other.  Under prioS no wait would accept another piece of *)
(* its own loop (TaskMgr has that).                                        *)
(***************************************************************************)
EXTENDS Integers, Sequences, SequencesExt, FiniteSetsExt

CONSTANTS
  Workers,         \* the threads
  Modulus,         \* 2 ^ the width of size_t
  base_case_size,  \* space_1D::base_case_size
  Kinds,           \* the loops considered
  Spaces,          \* the spaces considered
  Throwers         \* sets of indices for which the user's function throws

Index == 0 .. Modulus - 1
Space == {s \in [begin : Index, end : Index] : s.begin <= s.end}

ASSUME ModulusAssumption == Modulus \in Nat \ {0}
ASSUME BaseCaseAssumption == base_case_size \in Index \ {0}
ASSUME KindsAssumption == Kinds \subseteq {"for", "reduce", "while"}
ASSUME SpacesAssumption == Spaces \subseteq Space
ASSUME ThrowersAssumption == Throwers \subseteq SUBSET Index

VARIABLES
  kind,      \* the loop of this program
  whole,     \* its space
  throws,    \* the indices for which its function throws
  at,        \* where each task is; its domain are the tasks created so far
  space,     \* what is left of each task's space
  kids,      \* the tasks each one has spawned and not joined, oldest first
  acc,       \* the indices each task's ReduceExecutable has accumulated
  except,    \* whether a task stores an exception
  dead,      \* handles destroyed before their tasks were complete
  applied,   \* how often the function was applied to each index
  stack,     \* the tasks on each worker's C++ stack, the bottom first
  status     \* the main program, and the process

program == <<kind, whole, throws>>
handles == <<at, space, kids, acc, except, dead>>
vars == <<program, handles, applied, stack, status>>

Root == <<>>
Tasks == DOMAIN at
Indices(s) == s.begin .. s.end - 1
Alive == status \in {"spawned", "waiting"}

-----------------------------------------------------------------------------
(***************************************************************************)
(* space_1D, with the arithmetic of size_t.                                *)
(***************************************************************************)
Length(s) == (s.end - s.begin) % Modulus

CanSplit(s) == Length(s) > base_case_size

\* Fault: the mean of the two ends.
MeanOfEnds(s) == ((s.begin + s.end) % Modulus) \div 2

SplitPoint(s) == (s.begin + Length(s) \div 2) % Modulus

Left(s) == [begin |-> s.begin, end |-> SplitPoint(s)]

Right(s) == [begin |-> SplitPoint(s), end |-> s.end]

-----------------------------------------------------------------------------
Init ==
  /\ kind \in Kinds /\ whole \in Spaces /\ throws \in Throwers
  /\ at = [t \in {Root} |-> "queued"]
  /\ space = [t \in {Root} |-> whole]
  /\ kids = [t \in {Root} |-> <<>>]
  /\ acc = [t \in {Root} |-> <<>>]
  /\ except = [t \in {Root} |-> FALSE]
  /\ dead = {}
  /\ applied = [i \in Index |-> 0]
  /\ stack = [w \in Workers |-> <<>>]
  /\ status = "spawned"

(***************************************************************************)
(* The body of a loop.  A task of a for or reduce loop keeps the left half *)
(* of its space and spawns the right one; the first task of a while loop   *)
(* spawns one task for each element.                                       *)
(***************************************************************************)
Divisible(t) ==
  IF kind = "while" THEN t = Root /\ space[t].begin # space[t].end
                    ELSE CanSplit(space[t])

PieceOf(s) == IF kind = "while" THEN [begin |-> s.begin, end |-> s.begin + 1] ELSE Right(s)

RestOf(s) == IF kind = "while" THEN [begin |-> s.begin + 1, end |-> s.end] ELSE Left(s)

Extend(f, t, v) == [u \in Tasks \cup {t} |-> IF u = t THEN v ELSE f[u]]

\* The task that is on top of a worker's stack is at this point.
At(w, point) == Alive /\ stack[w] # <<>> /\ at[Last(stack[w])] = point

\* The ReduceExecutable of a task is destroyed with its handle.
Dangling(t) == t \in dead /\ kind = "reduce"

\* split() of the space and, in a reduction, of the ReduceExecutable; spawn().
Spawn(w) ==
  /\ At(w, "body")
  /\ LET t == Last(stack[w])
         child == Append(t, Len(kids[t]) + 1)
     IN  /\ Divisible(t)
         /\ ~ Dangling(t)
         /\ at' = Extend(at, child, "queued")
         /\ space' = [Extend(space, child, PieceOf(space[t])) EXCEPT ![t] = RestOf(@)]
         /\ kids' = [Extend(kids, child, <<>>) EXCEPT ![t] = Append(@, child)]
         /\ acc' = Extend(acc, child, <<>>)
         /\ except' = Extend(except, child, FALSE)
  /\ UNCHANGED <<program, dead, applied, stack, status>>

\* An exception leaves the body of t: the handles in its frames are destroyed
\* (those of a while loop are on the heap), and run() stores it.
Unwind(t, others) ==
  /\ at' = [at EXCEPT ![t] = "notify"]
  /\ except' = [u \in Tasks |-> except[u] \/ u \in {t} \cup others]
  /\ dead' = IF kind = "while" THEN dead ELSE dead \cup ToSet(kids[t])
  /\ UNCHANGED <<space, kids, acc>>

\* The function is applied to a piece that is not split.  A piece for which it
\* throws counts as not applied: exact for a base case of one index, as in the
\* runs; of a larger one the indices in front of the first that throws have been
\* applied as well.
Apply(w) ==
  /\ At(w, "body")
  /\ LET t == Last(stack[w])
     IN  /\ ~ Divisible(t)
         /\ ~ Dangling(t)
         /\ IF Indices(space[t]) \cap throws # {}
              THEN Unwind(t, {}) /\ UNCHANGED applied
              ELSE /\ applied' = [i \in Index |->
                                    IF i \in Indices(space[t]) THEN applied[i] + 1 ELSE applied[i]]
                   /\ acc' = [acc EXCEPT ![t] = @ \o [i \in 1 .. Length(space[t]) |->
                                                        space[t].begin + i - 1]]
                   /\ space' = [space EXCEPT ![t].begin = space[t].end]
                   /\ at' = [at EXCEPT ![t] = "join"]
                   /\ UNCHANGED <<kids, except, dead>>
  /\ UNCHANGED <<program, stack, status>>

\* Fault: the tasks are waited for and joined in the order of their spawns.
FirstSpawned(t) == Head(kids[t])

\* The next task to wait for: the innermost frame's, or the next of the vector.
Awaited(t) == IF kind = "while" THEN Head(kids[t]) ELSE Last(kids[t])

\* The ones that are left when it has been waited for.
Others(t) == IF kind = "while" THEN Tail(kids[t]) ELSE Front(kids[t])

\* task::wait() rethrows what the task stores already.
Wait(w) ==
  /\ At(w, "join")
  /\ LET t == Last(stack[w])
     IN  IF kids[t] = <<>>
           THEN at' = [at EXCEPT ![t] = "notify"] /\ UNCHANGED <<space, kids, acc, except, dead>>
           ELSE IF except[Awaited(t)] THEN Unwind(t, {})
           ELSE at' = [at EXCEPT ![t] = "wait"] /\ UNCHANGED <<space, kids, acc, except, dead>>
  /\ UNCHANGED <<program, applied, stack, status>>

\* get_task() tests the event; a wait that is over joins what it waited for.
Check(w) ==
  /\ At(w, "wait")
  /\ LET t == Last(stack[w])
         u == Awaited(t)
     IN  IF at[u] = "done"
           THEN /\ at' = [at EXCEPT ![t] = "join"]
                /\ kids' = [kids EXCEPT ![t] = Others(t)]
                /\ acc' = IF kind = "reduce" THEN [acc EXCEPT ![t] = @ \o acc[u]] ELSE acc
           ELSE at' = [at EXCEPT ![t] = "look"] /\ UNCHANGED <<kids, acc>>
  /\ UNCHANGED <<program, space, except, dead, applied, stack, status>>

-----------------------------------------------------------------------------
(***************************************************************************)
(* The workers.                                                            *)
(***************************************************************************)
Queued == {t \in Tasks : at[t] = "queued"}

\* Fault: a thread that waits finds nothing.
ExposedToIdle(w) == IF stack[w] = <<>> THEN Queued ELSE {}

\* What get() can return to a worker.
Exposed(w) == Queued

MayTake(w) == IF stack[w] = <<>> THEN TRUE ELSE at[Last(stack[w])] = "look"

\* A task is taken, by an idle worker or on top of one that waits.
Take(w) ==
  /\ Alive /\ MayTake(w)
  /\ \E t \in Exposed(w) \ dead :
       /\ stack' = [stack EXCEPT ![w] = Append(@, t)]
       /\ at' = [u \in Tasks |-> IF u = t THEN "body"
                                 ELSE IF stack[w] # <<>> /\ u = Last(stack[w]) THEN "wait"
                                 ELSE at[u]]
  /\ UNCHANGED <<program, space, kids, acc, except, dead, applied, status>>

\* get() has found nothing.
Nothing(w) ==
  /\ At(w, "look") /\ Exposed(w) = {}
  /\ at' = [at EXCEPT ![Last(stack[w])] = "wait"]
  /\ UNCHANGED <<program, space, kids, acc, except, dead, applied, stack, status>>

Complete(w, t) ==
  /\ at' = [at EXCEPT ![t] = "done"]
  /\ UNCHANGED <<space, kids, acc, except, dead, status>>

\* Fault: notify() completes the task whether or not it stores an exception.
NotifyAnyway(w, t) == Complete(w, t)

\* notify() rethrows what the task stores.  The exception leaves the wait it
\* was called from, which stores it in the task that is waited for, and then the
\* body that waits; on a worker that waits for nothing it ends the process.
Notified(w, t) ==
  IF ~ except[t] THEN Complete(w, t)
  ELSE IF Len(stack[w]) = 1
    THEN status' = "terminated" /\ UNCHANGED handles
    ELSE LET below == stack[w][Len(stack[w]) - 1]
         IN  Unwind(below, {Awaited(below)}) /\ UNCHANGED status

Notify(w) ==
  /\ At(w, "notify") /\ Last(stack[w]) \notin dead
  /\ Notified(w, Last(stack[w]))
  /\ stack' = [stack EXCEPT ![w] = Front(@)]
  /\ UNCHANGED <<program, applied>>

\* A worker uses a handle, or a ReduceExecutable, that has been destroyed: what
\* happens from there on is undefined.
UseDestroyed(w) ==
  /\ Alive
  /\ \/ MayTake(w) /\ Exposed(w) \cap dead # {}
     \/ At(w, "notify") /\ Last(stack[w]) \in dead
     \/ At(w, "body") /\ Dangling(Last(stack[w]))
  /\ status' = "undefined"
  /\ UNCHANGED <<program, handles, applied, stack>>

-----------------------------------------------------------------------------
(***************************************************************************)
(* The main program: spawn(), which Init stands for, and wait().           *)
(***************************************************************************)
MainWait ==
  /\ status = "spawned"
  /\ status' = IF except[Root] THEN "caught" ELSE "waiting"
  /\ UNCHANGED <<program, handles, applied, stack>>

MainReturns ==
  /\ status = "waiting" /\ at[Root] = "done"
  /\ status' = "returned"
  /\ UNCHANGED <<program, handles, applied, stack>>

Step(w) ==
  \/ Spawn(w) \/ Apply(w) \/ Wait(w) \/ Check(w)
  \/ Take(w) \/ Nothing(w) \/ Notify(w) \/ UseDestroyed(w)

Next ==
  \/ \E w \in Workers : Step(w)
  \/ MainWait
  \/ MainReturns
  \/ ~ Alive /\ UNCHANGED vars

Spec == Init /\ [][Next]_vars

\* The system runs every thread.
FairSpec ==
  /\ Spec
  /\ \A w \in Workers : WF_vars(Step(w))
  /\ WF_vars(MainWait \/ MainReturns)

-----------------------------------------------------------------------------
\* An index of the loop has been applied once, or it is in the space of one task
\* and has not been applied; no other index is touched
\* (parallel_for.hpp:57-96, parallel_while.hpp:89-97, space_1D.hpp:60-77).
SpacesPartition ==
  \A i \in Index :
    applied[i] + Cardinality({t \in Tasks : i \in Indices(space[t])})
      = IF i \in Indices(whole) THEN 1 ELSE 0

\* A wait for a loop returns only when its function has been applied to all of
\* its space, once; in particular when the function has thrown it does not
\* return (task.hpp:103-128,156-164).
ReturnMeansApplied ==
  status = "returned" =>
    applied = [i \in Index |-> IF i \in Indices(whole) THEN 1 ELSE 0]

\* A reduction joins the pieces in the order of their spaces, so its operation
\* need not commute (parallel_reduce.hpp:69-101).
ReducesInOrder ==
  status = "returned" /\ kind = "reduce" =>
    acc[Root] = [i \in 1 .. Length(whole) |-> whole.begin + i - 1]

\* The main program gets an answer, or the process ends.
LoopEnds == <>~ Alive

\* An exception of the loop's function does not end the process: it is delivered
\* to the main program, which waits for the loop and could handle it
\* (exception.hpp:90-115, task.hpp:103-128,156-164).
ExceptionsAreDelivered == status # "terminated"
=============================================================================
