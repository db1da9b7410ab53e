------------------------------- MODULE Group -------------------------------
(***************************************************************************)
(* Groups of tasks, their ranks and their barriers (src/pfunc/group.hpp,   *)
(* set_group(), wait() and barrier() of src/pfunc/task.hpp), and what a    *)
(* worker does with its stack while a task of a group waits in a barrier:  *)
(* progress_barrier() of src/pfunc/taskmgr.hpp with the group predicates   *)
(* of src/pfunc/predicate.hpp.                                             *)
(*                                                                         *)
(* The main program spawns the tasks and waits for them, each as often as  *)
(* MaxRounds says; a task executes its group's barrier Crossings times and *)
(* returns.  There is one queue.  One action is one critical section of    *)
(* the queue's or the group's mutex, one atomic operation or one load of   *)
(* the phase: trylock() is that of the pthreads build, which returns TRUE  *)
(* when it has acquired the mutex (FutexMutex shows the other one).        *)
(***************************************************************************)
EXTENDS Integers, Sequences, FiniteSets, SequencesExt

CONSTANTS
  Workers,       \* the threads of the task manager
  Tasks,         \* the task handles of the program
  NoTask,        \* not a task
  Groups,        \* the groups, the task manager's default_group included
  GroupOf,       \* the group each task is spawned into
  Size,          \* group_size
  Level,         \* the level of each task's attribute, and its priority
  Kinds,         \* the scheduling policies and types of barrier considered
  Crossings,     \* bound: how often a task executes the barrier
  MaxRounds      \* bound: how often each handle is spawned

ASSUME ActorsAssumption ==
  /\ IsFiniteSet(Workers) /\ IsFiniteSet(Tasks)
  /\ Workers \cap Tasks = {} /\ NoTask \notin Workers \cup Tasks
ASSUME GroupsAssumption ==
  /\ GroupOf \in [Tasks -> Groups] /\ Size \in [Groups -> Nat]
  /\ Level \in [Tasks -> Nat]
ASSUME KindsAssumption ==
  Kinds \subseteq {"cilkS", "lifoS", "fifoS", "prioS"} \X {"spin", "steal"}
ASSUME ProgramAssumption ==
  /\ Crossings \in Nat /\ MaxRounds \in [Tasks -> Nat]

VARIABLES
  policy,         \* the queue policy, fixed for a run
  type_of_barrier, \* the barrier type, fixed for a run
  queue,          \* the queue
  rank_token,     \* the next rank a group gives out
  barrier_count,  \* the tasks in a group's barrier
  barrier_phase,  \* the phase of a group's barrier
  rank,           \* the rank each task got when it was spawned
  my_phase,       \* the phase each task read when it entered the barrier
  pc,             \* where each task is
  arrived,        \* barriers each task has entered since it was spawned
  crossed,        \* barriers it has left
  round,          \* how often each task has been spawned
  top,            \* the task a worker executes, or the worker's own loop
  under,          \* the context a task was started from
  stealing        \* the workers in progress_barrier(), which have seen no change of the phase

barriers == <<barrier_count, barrier_phase, my_phase, arrived, crossed>>
stack == <<top, under, stealing>>
vars == <<policy, type_of_barrier, queue, rank_token, rank, barriers, pc, round, stack>>

Members(g) == {t \in Tasks : GroupOf[t] = g}

\* Spawning without a group leaves the default one, whose size is 0.
Grouped(t) == Size[GroupOf[t]] > 0

Init ==
  /\ \E k \in Kinds : policy = k[1] /\ type_of_barrier = k[2]
  /\ queue = <<>>
  /\ rank_token = [g \in Groups |-> 0]
  /\ barrier_count = [g \in Groups |-> 0]
  /\ barrier_phase = [g \in Groups |-> FALSE]
  /\ rank = [t \in Tasks |-> 0]
  /\ my_phase = [t \in Tasks |-> FALSE]
  /\ pc = [t \in Tasks |-> "free"]
  /\ arrived = [t \in Tasks |-> 0]
  /\ crossed = [t \in Tasks |-> 0]
  /\ round = [t \in Tasks |-> 0]
  /\ top = [w \in Workers |-> w]
  /\ under = [t \in Tasks |-> NoTask]
  /\ stealing = {}

-----------------------------------------------------------------------------
\* The discipline of the program: a group is spawned as a whole and waited
\* for as a whole.  Without it ranks are not unique, for leave_group() gives
\* back the newest rank and not that of the task that leaves.
MaySpawn(t) ==
  \A s \in Members(GroupOf[t]) : round[s] > round[t] \/ pc[s] = "free"

MayWait(t) == \A s \in Members(GroupOf[t]) : round[s] = round[t]

Put(s, t) == IF policy \in {"cilkS", "lifoS"} THEN <<t>> \o s ELSE Append(s, t)

\* Fault: the token is read but not advanced.
JoinGroupReads(g) == rank_token' = rank_token

\* join_group(): a fetch-and-add whose old value is the rank.
JoinGroup(g) == rank_token' = [rank_token EXCEPT ![g] = @ + 1]

\* leave_group(), called by whoever waits for the task: the token goes back
\* by one, whatever rank that task had.
LeaveGroup(g) == rank_token' = [rank_token EXCEPT ![g] = @ - 1]

\* spawn_task(): join the group, reset the completion, put.
Spawn(t) ==
  /\ pc[t] = "free" /\ round[t] < MaxRounds[t] /\ MaySpawn(t)
  /\ IF Grouped(t)
     THEN JoinGroup(GroupOf[t]) /\ rank' = [rank EXCEPT ![t] = rank_token[GroupOf[t]]]
     ELSE UNCHANGED <<rank_token, rank>>
  /\ round' = [round EXCEPT ![t] = @ + 1]
  /\ arrived' = [arrived EXCEPT ![t] = 0]
  /\ crossed' = [crossed EXCEPT ![t] = 0]
  /\ pc' = [pc EXCEPT ![t] = "ready"]
  /\ queue' = Put(queue, t)
  /\ UNCHANGED <<policy, type_of_barrier, barrier_count, barrier_phase, my_phase, stack>>

\* task::wait() of a task that is complete.
Wait(t) ==
  /\ pc[t] = "done" /\ MayWait(t)
  /\ IF Grouped(t) THEN LeaveGroup(GroupOf[t]) ELSE UNCHANGED rank_token
  /\ pc' = [pc EXCEPT ![t] = "free"]
  /\ UNCHANGED <<policy, type_of_barrier, queue, rank, barriers, round, stack>>

-----------------------------------------------------------------------------
\* The position of the queue that get() looks at: the front, or under prioS
\* a task of greatest priority.
Exposed ==
  IF policy = "prioS"
  THEN {i \in DOMAIN queue : \A j \in DOMAIN queue : Level[queue[j]] <= Level[queue[i]]}
  ELSE {1} \cap DOMAIN queue

\* Fault: tasks of the same group are accepted.
AnyGroup(prev, t) == TRUE

\* The candidate is compared with the task that waits in the barrier, and
\* with no other task of the stack.
OtherGroup(prev, t) == GroupOf[prev] # GroupOf[t]

CilkGroupPred(prev, t) == Level[prev] <= Level[t] /\ OtherGroup(prev, t)
PrioGroupPred(prev, t) == Level[prev] < Level[t] /\ OtherGroup(prev, t)

GroupPred(prev, t) ==
  CASE policy = "cilkS" -> CilkGroupPred(prev, t)
    [] policy = "prioS" -> PrioGroupPred(prev, t)
    [] OTHER -> OtherGroup(prev, t)

Push(w, i) ==
  LET t == queue[i]
  IN  /\ queue' = RemoveAt(queue, i)
      /\ pc' = [pc EXCEPT ![t] = "body"]
      /\ top' = [top EXCEPT ![w] = t]
      /\ under' = [under EXCEPT ![t] = top[w]]
      /\ UNCHANGED <<policy, type_of_barrier, rank_token, rank, barriers, round>>

\* A worker with nothing to do takes any task.
Get(w) ==
  /\ top[w] = w
  /\ \E i \in Exposed : Push(w, i)
  /\ UNCHANGED stealing

\* The loop of barrier_steal(): the phase has not changed ...
LookAtPhase(w) ==
  /\ top[w] \in Tasks /\ pc[top[w]] = "barrier" /\ type_of_barrier = "steal"
  /\ w \notin stealing
  /\ my_phase[top[w]] = barrier_phase[GroupOf[top[w]]]
  /\ stealing' = stealing \cup {w}
  /\ UNCHANGED <<policy, type_of_barrier, queue, rank_token, rank, barriers, pc, round, top, under>>

\* ... and progress_barrier() takes one task, if the predicate lets it, and
\* runs it to its end.  The phase may have changed by now.
ProgressBarrier(w) ==
  LET accepted == {i \in Exposed : GroupPred(top[w], queue[i])}
  IN  /\ w \in stealing /\ stealing' = stealing \ {w}
      /\ \/ \E i \in accepted : Push(w, i)
         \/ /\ accepted = {}
            /\ UNCHANGED <<policy, type_of_barrier, queue, rank_token, rank, barriers, pc, round, top, under>>

\* Fault: the last task does not reset the count.
ArriveForgetsReset(t, g) ==
  IF barrier_count[g] + 1 = Size[g]
  THEN /\ UNCHANGED barrier_count
       /\ barrier_phase' = [barrier_phase EXCEPT ![g] = ~@]
       /\ pc' = pc
  ELSE /\ barrier_count' = [barrier_count EXCEPT ![g] = @ + 1]
       /\ pc' = [pc EXCEPT ![t] = "barrier"]
       /\ UNCHANGED barrier_phase

\* Fault: the last but one opens the barrier.
ArriveOneShort(t, g) ==
  IF barrier_count[g] + 2 >= Size[g]
  THEN /\ barrier_count' = [barrier_count EXCEPT ![g] = 0]
       /\ barrier_phase' = [barrier_phase EXCEPT ![g] = ~@]
       /\ pc' = pc
  ELSE /\ barrier_count' = [barrier_count EXCEPT ![g] = @ + 1]
       /\ pc' = [pc EXCEPT ![t] = "barrier"]
       /\ UNCHANGED barrier_phase

\* The critical section of barrier_spin() and barrier_steal().
Arrive(t, g) ==
  IF barrier_count[g] + 1 = Size[g]
  THEN /\ barrier_count' = [barrier_count EXCEPT ![g] = 0]
       /\ barrier_phase' = [barrier_phase EXCEPT ![g] = ~@]
       /\ pc' = pc
  ELSE /\ barrier_count' = [barrier_count EXCEPT ![g] = @ + 1]
       /\ pc' = [pc EXCEPT ![t] = "barrier"]
       /\ UNCHANGED barrier_phase

\* A task calls barrier(); a group of one or none has no barrier.
Barrier(w) ==
  LET t == top[w]
      g == GroupOf[t]
  IN  /\ t \in Tasks /\ pc[t] = "body" /\ arrived[t] < Crossings
      /\ arrived' = [arrived EXCEPT ![t] = @ + 1]
      /\ my_phase' = [my_phase EXCEPT ![t] = barrier_phase[g]]
      /\ IF Size[g] > 1 THEN Arrive(t, g) ELSE UNCHANGED <<barrier_count, barrier_phase, pc>>
      /\ crossed' = [crossed EXCEPT ![t] = IF pc'[t] = "body" THEN @ + 1 ELSE @]
      /\ UNCHANGED <<policy, type_of_barrier, queue, rank_token, rank, round, stack>>

\* The task sees the phase change.
Leave(w) ==
  LET t == top[w]
  IN  /\ t \in Tasks /\ pc[t] = "barrier" /\ w \notin stealing
      /\ my_phase[t] # barrier_phase[GroupOf[t]]
      /\ pc' = [pc EXCEPT ![t] = "body"]
      /\ crossed' = [crossed EXCEPT ![t] = @ + 1]
      /\ UNCHANGED <<policy, type_of_barrier, queue, rank_token, rank, barrier_count,
                     barrier_phase, my_phase, arrived, round, stack>>

\* The function returns and notify() completes the task.
Finish(w) ==
  LET t == top[w]
  IN  /\ t \in Tasks /\ pc[t] = "body" /\ crossed[t] = Crossings
      /\ pc' = [pc EXCEPT ![t] = "done"]
      /\ top' = [top EXCEPT ![w] = under[t]]
      /\ under' = [under EXCEPT ![t] = NoTask]
      /\ UNCHANGED <<policy, type_of_barrier, queue, rank_token, rank, barriers, round, stealing>>

\* A worker looks again: nothing in the queue, or the phase has not changed
\* for a task that spins.
Poll(w) ==
  /\ \/ top[w] = w /\ queue = <<>>
     \/ /\ top[w] \in Tasks /\ pc[top[w]] = "barrier" /\ type_of_barrier = "spin"
        /\ my_phase[top[w]] = barrier_phase[GroupOf[top[w]]]
  /\ UNCHANGED vars

MainStep == \E t \in Tasks : Spawn(t) \/ Wait(t)

WorkerStep(w) ==
  Get(w) \/ LookAtPhase(w) \/ ProgressBarrier(w) \/ Barrier(w) \/ Leave(w) \/ Finish(w)

Next == MainStep \/ \E w \in Workers : WorkerStep(w) \/ Poll(w)

Spec == Init /\ [][Next]_vars

\* The system runs every thread, and the functions of the tasks return.
Fairness == WF_vars(MainStep) /\ \A w \in Workers : WF_vars(WorkerStep(w))

FairSpec == Spec /\ Fairness

-----------------------------------------------------------------------------
Active(t) == pc[t] # "free"

\* No task is past a barrier that another task of its group has not reached,
\* however often the barrier has been used before (group.hpp:35-74).
BarrierSeparates ==
  \A s, t \in Tasks :
    GroupOf[s] = GroupOf[t] /\ Size[GroupOf[s]] > 1 /\ round[s] = round[t] =>
      crossed[t] <= arrived[s]

\* The count is the number of tasks that wait for the present phase to end:
\* those that still have to notice the last change are not in it
\* (group.hpp:38-47,61-70).
CountIsWaiting ==
  \A g \in Groups :
    barrier_count[g] =
      Cardinality({t \in Members(g) : pc[t] = "barrier" /\ my_phase[t] = barrier_phase[g]})

\* The active tasks of a group have different ranks, all below its size
\* (design.tex:482-486, group.hpp:79-90, task.hpp:77-84,125).
RanksAreUnique ==
  \A t \in Tasks :
    Grouped(t) /\ Active(t) =>
      /\ rank[t] < Size[GroupOf[t]]
      /\ \A s \in Tasks \ {t} :
           GroupOf[s] = GroupOf[t] /\ Active(s) => rank[s] # rank[t]

\* Every task passes its barriers and the program ends, when no group is
\* larger than the number of workers (design.tex:502-506,525-526).
EverybodyFinishes == <>(\A t \in Tasks : pc[t] = "free" /\ round[t] = MaxRounds[t])
=============================================================================
