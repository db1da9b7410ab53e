------------------------------ MODULE MatMult ------------------------------
(***************************************************************************)
(* The C++ interface (pfunc::global of src/pfunc/pfunc.hpp) under the       *)
(* program src/examples/cxx/matmult.cpp: two square matrices multiplied by *)
(* divide and conquer.  A call of dgemm_op::operator() splits C into four  *)
(* quadrants and runs two batches of four multiplications, three of them   *)
(* spawned and one called in place.  Matrices, functors and task handles   *)
(* are objects in the frame of the call that splits, and the tasks refer   *)
(* to them; the handles of the first batch are spawned again in the second.*)
(*                                                                         *)
(* A call is named by its path: <<>> is the task main spawns, and          *)
(* Append(c, <<b, q>>) is what c does for quadrant q in batch b.  Threads  *)
(* and queues are those of ForkJoin, which TaskMgr implements.  A sum is   *)
(* the sequence of its terms, since the addition of doubles is not         *)
(* associative; a term is a pair of indices into the storage of A and B.   *)
(***************************************************************************)
EXTENDS Integers, SequencesExt

CONSTANTS
  Sizes,      \* records of problem_dim and problem_base_case_dim
  MaxSplits   \* bound: no path is longer

\* get_closest_power_of_2() and the assertion of main: a dimension that is
\* split has two equal halves, down to the base case, which MaxSplits reach.
ASSUME SizesAssumption ==
  /\ MaxSplits \in Nat
  /\ \A s \in Sizes :
       /\ s.dim \in Nat /\ s.base \in 1 .. s.dim
       /\ \E half \in [0 .. MaxSplits -> 1 .. s.dim] :
            /\ half[0] = s.dim /\ half[MaxSplits] <= s.base
            /\ \A k \in 1 .. MaxSplits : half[k - 1] > s.base => half[k - 1] = 2 * half[k]

VARIABLES
  size,             \* never changes
  program,          \* where main is
  global_tmanager,  \* whether the pointer to the global task manager is set
  at,               \* where each call is
  step,             \* its batch, and the quadrant it is at in a batch
  functor,          \* the dgemm_op it is called on
  task,             \* the event of each task handle
  cells,            \* the storage of C
  loaded,           \* what a call in its base case has read of C
  waking            \* whether a worker is still inside notify() of root_task

matmultVars == <<size, program, global_tmanager, at, step, functor, task, cells, loaded, waking>>

-----------------------------------------------------------------------------
\* A divisible_matrix; the stride is that of the whole matrix.
Matrix(dim, start) == [dim |-> dim, start |-> start]

Split(x, quadrant) ==
  LET half == x.dim \div 2
  IN  Matrix(half, x.start + (<<0, half, half * size.dim, half * size.dim + half>>)[quadrant])

Element(x, i, j) == x.start + i * size.dim + j

Elements(x) == {Element(x, i, j) : i, j \in 0 .. x.dim - 1}

\* The quadrants of A and B that each functor multiplies, by quadrant of C
\* and by batch.
Factors == << << <<1, 1>>, <<2, 3>> >>,
              << <<1, 2>>, <<2, 4>> >>,
              << <<3, 1>>, <<4, 3>> >>,
              << <<3, 2>>, <<4, 4>> >> >>

\* Fault: a batch does both products of two quadrants.
FunctorByQuadrant(op, bq) ==
  LET quadrant == 2 * bq[1] - (IF bq[2] < 3 THEN 1 ELSE 0)
      factors == Factors[quadrant][2 - (bq[2] % 2)]
  IN  [A |-> Split(op.A, factors[1]), B |-> Split(op.B, factors[2]), C |-> Split(op.C, quadrant)]

\* The functor of one quadrant in one batch.
Functor(op, bq) ==
  LET factors == Factors[bq[2]][bq[1]]
  IN  [A |-> Split(op.A, factors[1]), B |-> Split(op.B, factors[2]), C |-> Split(op.C, bq[2])]

Whole == Matrix(size.dim, 0)
NoFunctor == <<>>

Quadrants == 1 .. 4
InPlace == 4   \* the quadrant that is not spawned

Products == SeqOf({1, 2} \X Quadrants, MaxSplits)
IsSpawned(c) == c # <<>> => Last(c)[2] # InPlace

\* The handle of a spawned call, which both batches use.
Handle(c) == IF c = <<>> THEN c ELSE Append(Front(c), <<0, Last(c)[2]>>)
TaskHandles == {Handle(c) : c \in {d \in Products : IsSpawned(d)}}

Child(c) == Append(c, step[c])

MatMultInit ==
  /\ size \in Sizes
  /\ program = "start" /\ global_tmanager = FALSE
  /\ at = [c \in Products |-> "none"]
  /\ step = [c \in Products |-> <<1, 1>>]
  /\ functor = [c \in Products |-> NoFunctor]
  /\ task = [h \in TaskHandles |-> "inactive"]
  /\ cells = [e \in 0 .. size.dim * size.dim - 1 |-> <<>>]
  /\ loaded = [c \in Products |-> <<>>]
  /\ waking = FALSE

-----------------------------------------------------------------------------
\* global::spawn and global::wait; a wait by the only waiter receives.
GlobalSpawn(c) == task' = [task EXCEPT ![Handle(c)] = "incomplete"]

GlobalWait(c) ==
  /\ task[Handle(c)] # "incomplete"
  /\ task' = [task EXCEPT ![Handle(c)] = "inactive"]

SetGlobal == global_tmanager' = TRUE
ClearGlobal == global_tmanager' = FALSE

\* The main program.
ProgramInit ==
  /\ program = "start" /\ program' = "spawn"
  /\ SetGlobal
  /\ UNCHANGED <<size, at, step, functor, task, cells, loaded, waking>>

ProgramSpawn ==
  /\ program = "spawn" /\ program' = "wait"
  /\ GlobalSpawn(<<>>)
  /\ functor' = [functor EXCEPT ![<<>>] = [A |-> Whole, B |-> Whole, C |-> Whole]]
  /\ at' = [at EXCEPT ![<<>>] = "queued"]
  /\ UNCHANGED <<size, global_tmanager, step, cells, loaded, waking>>

ProgramWait ==
  /\ program = "wait" /\ program' = "clear"
  /\ GlobalWait(<<>>)
  /\ UNCHANGED <<size, global_tmanager, at, step, functor, cells, loaded, waking>>

ProgramClear ==
  /\ program = "clear" /\ program' = "return"
  /\ ClearGlobal
  /\ UNCHANGED <<size, at, step, functor, task, cells, loaded, waking>>

\* The objects of main are destroyed in the reverse order of their
\* declarations: root_dgemm and root_task first.
ProgramReturn ==
  /\ program = "return" /\ program' = "join"
  /\ UNCHANGED <<size, global_tmanager, at, step, functor, task, cells, loaded, waking>>

\* ~taskmgr() waits for its threads, which leave notify() before they end.
ProgramJoin ==
  /\ program = "join" /\ program' = "end"
  /\ ~ waking
  /\ UNCHANGED <<size, global_tmanager, at, step, functor, task, cells, loaded, waking>>

ProgramStep ==
  ProgramInit \/ ProgramSpawn \/ ProgramWait \/ ProgramClear \/ ProgramReturn \/ ProgramJoin

-----------------------------------------------------------------------------
\* A worker takes the task and calls its functor.
TakeTask(c) ==
  /\ at[c] = "queued" /\ at' = [at EXCEPT ![c] = "enter"]
  /\ UNCHANGED <<size, program, global_tmanager, step, functor, task, cells, loaded, waking>>

Enter(c) ==
  /\ at[c] = "enter"
  /\ at' = [at EXCEPT ![c] = IF functor[c].A.dim <= size.base THEN "load" ELSE "spawn"]
  /\ UNCHANGED <<size, program, global_tmanager, step, functor, task, cells, loaded, waking>>

\* The functor for the present quadrant is called on, by a task or in place.
CallFunctor(c) == functor' = [functor EXCEPT ![Child(c)] = Functor(functor[c], step[c])]

\* One of the first three quadrants of a batch.
Spawn(c) ==
  /\ at[c] = "spawn" /\ step[c][2] # InPlace
  /\ CallFunctor(c) /\ GlobalSpawn(Child(c))
  /\ at' = [at EXCEPT ![Child(c)] = "queued"]
  /\ step' = [step EXCEPT ![c][2] = @ + 1]
  /\ UNCHANGED <<size, program, global_tmanager, cells, loaded, waking>>

\* The fourth one is called in place.
CallInline(c) ==
  /\ at[c] = "spawn" /\ step[c][2] = InPlace
  /\ CallFunctor(c)
  /\ at' = [at EXCEPT ![c] = "called", ![Child(c)] = "enter"]
  /\ UNCHANGED <<size, program, global_tmanager, step, task, cells, loaded, waking>>

Returned(c) ==
  /\ at[c] = "called" /\ at[Child(c)] = "left"
  /\ at' = [at EXCEPT ![c] = "wait"]
  /\ step' = [step EXCEPT ![c][2] = 1]
  /\ UNCHANGED <<size, program, global_tmanager, functor, task, cells, loaded, waking>>

\* Fault: the last batch is not waited for.
WaitBetween(c) ==
  /\ at[c] = "wait"
  /\ IF step[c][1] = 2 THEN UNCHANGED task ELSE GlobalWait(Child(c))
  /\ \/ /\ step[c][2] < 3
        /\ step' = [step EXCEPT ![c][2] = @ + 1] /\ UNCHANGED at
     \/ /\ step[c] = <<1, 3>>
        /\ step' = [step EXCEPT ![c] = <<2, 1>>]
        /\ at' = [at EXCEPT ![c] = "spawn"]
     \/ /\ step[c] = <<2, 3>>
        /\ at' = [at EXCEPT ![c] = "left"] /\ UNCHANGED step
  /\ UNCHANGED <<size, program, global_tmanager, functor, cells, loaded, waking>>

\* One of the three waits of a batch; then the next batch, or the return.
Wait(c) ==
  /\ at[c] = "wait"
  /\ GlobalWait(Child(c))
  /\ \/ /\ step[c][2] < 3
        /\ step' = [step EXCEPT ![c][2] = @ + 1] /\ UNCHANGED at
     \/ /\ step[c] = <<1, 3>>
        /\ step' = [step EXCEPT ![c] = <<2, 1>>]
        /\ at' = [at EXCEPT ![c] = "spawn"]
     \/ /\ step[c] = <<2, 3>>
        /\ at' = [at EXCEPT ![c] = "left"] /\ UNCHANGED step
  /\ UNCHANGED <<size, program, global_tmanager, functor, cells, loaded, waking>>

\* dgemm_three_loop: C(i,j) += sum is a read and a write; all are read, then
\* all are written, which is the longest they can be apart.
Load(c) ==
  /\ at[c] = "load" /\ at' = [at EXCEPT ![c] = "store"]
  /\ loaded' = [loaded EXCEPT ![c] = cells]
  /\ UNCHANGED <<size, program, global_tmanager, step, functor, task, cells, waking>>

Store(c) ==
  LET op == functor[c]
      Row(e) == (e - op.C.start) \div size.dim
      Column(e) == (e - op.C.start) % size.dim
      Sum(i, j) == [k \in 1 .. op.A.dim |-> <<Element(op.A, i, k - 1), Element(op.B, k - 1, j)>>]
  IN  /\ at[c] = "store" /\ at' = [at EXCEPT ![c] = "left"]
      /\ cells' = [e \in DOMAIN cells |->
           IF e \in Elements(op.C) THEN loaded[c][e] \o Sum(Row(e), Column(e)) ELSE cells[e]]
      /\ loaded' = [loaded EXCEPT ![c] = <<>>]
      /\ UNCHANGED <<size, program, global_tmanager, step, functor, task, waking>>

\* The worker notifies when the functor has returned.  The event of a nested
\* task is completed by one store.  root_task is not nested: its event is
\* completed by a store and its waiter woken after that.  (Main may go on after
\* the store whether or not it sleeps; root_task is spawned once, so that no
\* earlier notify() can wake it before.)
NotifyTask(c) ==
  /\ IsSpawned(c) /\ at[c] = "left"
  /\ at' = [at EXCEPT ![c] = "done"]
  /\ task' = [task EXCEPT ![Handle(c)] = "complete"]
  /\ waking' = (waking \/ c = <<>>)
  /\ UNCHANGED <<size, program, global_tmanager, step, functor, cells, loaded>>

\* The futex is woken, or the condition variable under the lock of the event.
WakeRoot ==
  /\ waking /\ waking' = FALSE
  /\ UNCHANGED <<size, program, global_tmanager, at, step, functor, task, cells, loaded>>

ProductStep(c) ==
  \/ TakeTask(c) \/ Enter(c) \/ Spawn(c) \/ CallInline(c) \/ Returned(c) \/ Wait(c)
  \/ Load(c) \/ Store(c) \/ NotifyTask(c)

ProgramEnded == program = "end" /\ UNCHANGED matmultVars

MatMultNext == ProgramStep \/ (\E c \in Products : ProductStep(c)) \/ WakeRoot \/ ProgramEnded

MatMultSpec == MatMultInit /\ [][MatMultNext]_matmultVars

-----------------------------------------------------------------------------
\* A task that is queued or runs refers to the functor, the matrices and the
\* handle in the frame of the call that spawned it, and calls through the
\* global pointer: up to the store that completes it, that frame has not
\* returned, nor has main cleared the pointer (matmult.cpp:253-306,
\* pfunc.hpp:543-553, 692-724).  What comes after that store is a question of
\* root_task only, and of HandleOutlivesNotify.
FramesAreAlive ==
  \A c \in Products : at[c] \notin {"none", "done"} /\ (at[c] = "left" => IsSpawned(c)) =>
    /\ global_tmanager
    /\ IF c = <<>> THEN program = "wait" ELSE at[Front(c)] \in {"spawn", "called", "wait"}

\* What taskmgr.hpp:230-232 asks of a program is enough for the library: a task
\* that lives "till the wait on this task is complete" is not used after that.
\* The program fails it by the design of event.hpp:105-109 and 148-153.
HandleOutlivesNotify == waking => program \in {"wait", "clear", "return"}

\* No two tasks write to the same elements at the same time, and every element
\* of the product is the sum of the right terms, each once and in the order of
\* a sequential program, however the tasks are scheduled, as soon as main has
\* waited for root_task
\* (matmult.cpp:15-33, 202-218, 268-306).
ProductIsRight ==
  LET Writers == {c \in Products : at[c] = "store"}
      Index == 0 .. size.dim - 1
      Product(i, j) == [k \in 1 .. size.dim |-> <<Element(Whole, i, k - 1), Element(Whole, k - 1, j)>>]
  IN  /\ \A c, d \in Writers : c # d => Elements(functor[c].C) \cap Elements(functor[d].C) = {}
      /\ program \notin {"start", "spawn", "wait"} => \A i, j \in Index : cells[Element(Whole, i, j)] = Product(i, j)
=============================================================================
