------------------------------ MODULE StartUp ------------------------------
(***************************************************************************)
(* The start of a task manager: its constructor creates the threads of     *)
(* every queue and waits until all of them are about to work; a thread     *)
(* publishes its attribute, crosses the start-up barrier and counts itself *)
(* (src/pfunc/taskmgr.hpp, barrier.hpp, thread.hpp).                       *)
(*                                                                         *)
(* barrier.hpp has two barriers: one on a futex, and one on a mutex and a  *)
(* condition variable, whose critical section is one action here.  Thread  *)
(* attributes are in the table indexed by pfunc_thread_self_id, as where   *)
(* the compiler has thread local storage.                                  *)
(***************************************************************************)
EXTENDS Integers, Sequences, FiniteSets, FiniteSetsExt

CONSTANTS
  Shapes,     \* the values of thds_per_queue considered, sequences of numbers
  Barriers    \* the implementations of the barrier considered

ASSUME ShapesAssumption == Shapes \subseteq Seq(Nat) \ {<<>>}
ASSUME BarriersAssumption == Barriers \subseteq {"futex", "cond"}

VARIABLES
  barrierImpl,  \* the barrier of this build
  thds,         \* threads_per_queue
  loop,         \* the constructor's i and j
  index,        \* its index
  data,         \* thread_data, by thread ID
  main,         \* where the constructor is
  table,        \* tls_attr_map
  phase,        \* barrier_phase
  count,        \* barrier_count
  at,           \* where each thread is
  myPhase,      \* my_phase of each thread
  startCount    \* thread_start_count

constructor == <<loop, index, data, main>>
barrier == <<phase, count, myPhase>>
startUpVars == <<barrierImpl, thds, constructor, table, barrier, at, startCount>>

\* What the two loops of the constructor run through: as many pairs as the
\* numbers of a shape add up to.
Iterations(shape) == UNION {{i} \X (0 .. shape[i + 1] - 1) : i \in 0 .. Len(shape) - 1}

Total(shape) == Cardinality(Iterations(shape))

NumThreads == Total(thds)
NumQueues == Len(thds)

\* The thread IDs; the constructor's own is num_threads.
Workers == 0 .. NumThreads - 1

Unset == [id |-> -1, queue |-> -1]
ThreadAttr(id, q) == [id |-> id, queue |-> q]

\* Fault: one thread less.
BarrierForgetsOne == NumThreads - 1

\* initialize() of the start-up barrier.
BarrierSize == NumThreads

FirstIndex == -1

StartUpInit ==
  /\ barrierImpl \in Barriers
  /\ thds \in Shapes
  /\ loop = [i |-> 0, j |-> 0]
  /\ index = FirstIndex
  /\ data = [w \in Workers |-> Unset]
  /\ main = "create"
  /\ table = [id \in 0 .. NumThreads |->
                IF id = NumThreads THEN ThreadAttr(id, 0) ELSE Unset]
  /\ phase = 0
  /\ count = IF barrierImpl = "futex" THEN BarrierSize ELSE 0
  /\ at = [w \in Workers |-> "none"]
  /\ myPhase = [w \in Workers |-> 0]
  /\ startCount = 0

-----------------------------------------------------------------------------
(***************************************************************************)
(* The constructor.                                                        *)
(***************************************************************************)
AttrOfNext(id) == ThreadAttr(id, loop.i)

CreateThread ==
  /\ main = "create" /\ loop.i < NumQueues /\ loop.j < thds[loop.i + 1]
  /\ index' = index + 1
  /\ data' = [data EXCEPT ![index'] = AttrOfNext(index')]
  /\ at' = [at EXCEPT ![index'] = "set"]
  /\ loop' = [loop EXCEPT !.j = @ + 1]
  /\ UNCHANGED <<barrierImpl, thds, main, table, barrier, startCount>>

NextQueue ==
  /\ main = "create" /\ loop.i < NumQueues /\ loop.j = thds[loop.i + 1]
  /\ loop' = [i |-> loop.i + 1, j |-> 0]
  /\ main' = IF loop'.i = NumQueues THEN "await" ELSE "create"
  /\ UNCHANGED <<barrierImpl, thds, index, data, table, barrier, at, startCount>>

\* Fault: the constructor returns when the first thread has started.
FirstHasStarted == startCount > 0

AllHaveStarted == startCount = NumThreads

\* The loop on thread_start_count ends.
Return ==
  /\ main = "await" /\ AllHaveStarted
  /\ main' = "ready"
  /\ UNCHANGED <<barrierImpl, thds, loop, index, data, table, barrier, at, startCount>>

-----------------------------------------------------------------------------
(***************************************************************************)
(* A thread, up to its first call of get_task().                           *)
(***************************************************************************)
Go(w, from, to) == at[w] = from /\ at' = [at EXCEPT ![w] = to]

\* pfunc_thread_self_id is set and with it the table: tls_set().
TlsSet(w) ==
  /\ Go(w, "set", IF barrierImpl = "futex" THEN "phase" ELSE "enter")
  /\ table' = [table EXCEPT ![data[w].id] = data[w]]
  /\ UNCHANGED <<barrierImpl, thds, constructor, barrier, startCount>>

ReadPhase(w) ==
  /\ Go(w, "phase", "arrive")
  /\ myPhase' = [myPhase EXCEPT ![w] = phase]
  /\ UNCHANGED <<barrierImpl, thds, constructor, table, phase, count, startCount>>

\* pfunc_fetch_and_add_32 (&barrier_count, -1)
Arrive(w) ==
  /\ Go(w, "arrive", IF count = 1 THEN "reset" ELSE "look")
  /\ count' = count - 1
  /\ UNCHANGED <<barrierImpl, thds, constructor, table, phase, myPhase, startCount>>

ResetCount(w) ==
  /\ Go(w, "reset", "toggle")
  /\ count' = BarrierSize
  /\ UNCHANGED <<barrierImpl, thds, constructor, table, phase, myPhase, startCount>>

Toggle(w) ==
  /\ Go(w, "toggle", "wake")
  /\ phase' = 1 - phase
  /\ UNCHANGED <<barrierImpl, thds, constructor, table, count, myPhase, startCount>>

\* Fault: a broadcast that wakes one thread.
WakesOne(w) ==
  LET asleep == {v \in Workers : at[v] = "asleep"}
  IN  IF asleep = {} THEN at' = [at EXCEPT ![w] = "through"]
      ELSE \E u \in asleep : at' = [at EXCEPT ![w] = "through", ![u] = "look"]

\* Every sleeping thread goes back to the head of its loop, w goes through.
Wakes(w) ==
  at' = [v \in Workers |-> IF v = w THEN "through"
                           ELSE IF at[v] = "asleep" THEN "look" ELSE at[v]]

\* futex_wake (&barrier_phase, INT_MAX)
PhaseWake(w) ==
  /\ at[w] = "wake" /\ Wakes(w)
  /\ UNCHANGED <<barrierImpl, thds, constructor, table, barrier, startCount>>

\* The condition of the loop.  On a futex the thread spins before it sleeps;
\* cnd.wait() sleeps at once, for it holds the mutex that it releases.
Look(w) ==
  /\ Go(w, "look", IF phase # myPhase[w] THEN "through"
                     ELSE IF barrierImpl = "futex" THEN "wait" ELSE "asleep")
  /\ UNCHANGED <<barrierImpl, thds, constructor, table, barrier, startCount>>

\* Fault: the thread sleeps whatever the phase is.
PhaseWaitBlindly(w) ==
  /\ Go(w, "wait", "asleep")
  /\ UNCHANGED <<barrierImpl, thds, constructor, table, barrier, startCount>>

PhaseWait(w) ==
  /\ Go(w, "wait", IF phase = myPhase[w] THEN "asleep" ELSE "look")
  /\ UNCHANGED <<barrierImpl, thds, constructor, table, barrier, startCount>>

\* A signal, or a spurious wake-up of the condition variable.
PhaseInterrupted(w) ==
  /\ Go(w, "asleep", "look")
  /\ UNCHANGED <<barrierImpl, thds, constructor, table, barrier, startCount>>

\* The barrier on a condition variable.
Enter(w) ==
  /\ at[w] = "enter"
  /\ myPhase' = [myPhase EXCEPT ![w] = phase]
  /\ IF count + 1 = BarrierSize
       THEN count' = 0 /\ phase' = 1 - phase /\ Wakes(w)
       ELSE count' = count + 1 /\ UNCHANGED phase /\ at' = [at EXCEPT ![w] = "asleep"]
  /\ UNCHANGED <<barrierImpl, thds, constructor, table, startCount>>

\* pfunc_fetch_and_add_32 (&thread_start_count, 1), which is atomic on x86 and
\* with generic.h; win.h can lose a count (ImplementsAtomicWord of Atomics).
Started(w) ==
  /\ Go(w, "through", "working")
  /\ startCount' = startCount + 1
  /\ UNCHANGED <<barrierImpl, thds, constructor, table, barrier>>

StartUpStep(w) ==
  \/ TlsSet(w) \/ ReadPhase(w) \/ Arrive(w) \/ ResetCount(w) \/ Toggle(w) \/ PhaseWake(w)
  \/ Look(w) \/ PhaseWait(w) \/ Enter(w) \/ Started(w)

Construct == CreateThread \/ NextQueue \/ Return

StartUpNext ==
  \/ Construct
  \/ \E w \in Workers : StartUpStep(w) \/ PhaseInterrupted(w)
  \/ main = "ready" /\ UNCHANGED startUpVars

StartUpSpec == StartUpInit /\ [][StartUpNext]_startUpVars

\* The IDs of any of the shapes.
Ids == 0 .. Max({Total(shape) : shape \in Shapes}) - 1

\* The system runs every thread; that a sleeping one is interrupted is not
\* assumed.
StartUpFairness ==
  /\ WF_startUpVars(Construct)
  /\ \A w \in Ids : WF_startUpVars(w \in Workers /\ StartUpStep(w))

-----------------------------------------------------------------------------
\* A thread is through the barrier only when all have been created and have got
\* as far as the barrier, their attributes published: "Wait for all the threads
\* to get here" (taskmgr.hpp:626-635, barrier.hpp:40-57,81-96).
StartTogether ==
  \A w \in Workers : at[w] \in {"through", "working"} =>
    \A v \in Workers : table[v] = data[v] /\ table[v] # Unset

\* When the constructor returns every thread is about to look for tasks, and
\* each queue has the threads asked for (taskmgr.hpp:466-489,643-644).
ReadyMeansWorking ==
  main = "ready" =>
    /\ \A w \in Workers : at[w] = "working"
    /\ \A q \in 0 .. NumQueues - 1 :
         Cardinality({w \in Workers : data[w].queue = q}) = thds[q + 1]

\* A thread that sleeps although the phase has changed is still going to be
\* woken (barrier.hpp:45-56,81-96).
NoSleeperForgotten ==
  \A w \in Workers : at[w] = "asleep" /\ phase # myPhase[w] =>
    \E v \in Workers : at[v] = "wake"

\* A constructor that has created a thread returns (taskmgr.hpp:466-489).
EverybodyStarts == (\E w \in Workers : at[w] # "none") ~> main = "ready"
=============================================================================
