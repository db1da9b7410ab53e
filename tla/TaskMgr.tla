------------------------------ MODULE TaskMgr ------------------------------
(***************************************************************************)
(* The task manager of PFunc: worker threads that take tasks from a set of *)
(* queues and run them (src/pfunc/taskmgr.hpp), the queue policies         *)
(* (cilk.hpp, lifo.hpp, fifo.hpp, prio.hpp), the predicates that decide    *)
(* which task a waiting thread may take (predicate.hpp), and the           *)
(* completion event of a task (event.hpp, task.hpp).                       *)
(*                                                                         *)
(* The user's program is a fork/join one: the body of a task spawns and    *)
(* waits for the tasks whose handles it owns, in any order, and returns    *)
(* when it has waited for all of them.  A handle may be spawned again      *)
(* after the wait.  The main thread does the same and then destroys the    *)
(* task manager.                                                           *)
(*                                                                         *)
(* A worker's C++ stack is the chain of contexts from top[w] through under *)
(* down to the worker's own loop: while a task waits for another, its      *)
(* thread runs further tasks on top of it.  One action is one access to    *)
(* shared state: a test of an event, a critical section of one queue's     *)
(* mutex (FutexMutex shows that they exclude one another), a store, a      *)
(* system call that puts a thread to sleep or wakes the sleepers.          *)
(***************************************************************************)
EXTENDS Integers, Sequences, FiniteSets, SequencesExt

CONSTANTS
  Workers,      \* the threads the task manager creates
  Main,         \* the thread that creates it, whose id is num_threads
  Tasks,        \* the task handles of the program
  NoTask,       \* NULL
  NumQueues,    \* num_queues
  QueueOf,      \* the queue each worker is attached to
  Parent,       \* the task, or Main, whose body owns the handle
  Attrs,        \* the attributes each handle may be spawned with
  Policies,     \* the scheduling policies considered
  ReuseAfterWake,  \* TRUE: a handle is spawned with an attribute that is not
                   \* nested only when no thread is inside its notify()
  MaxSpawns,    \* bound: how often each handle is spawned
  MaxAttempts   \* task_max_attempts, 2000000 by default

Queues == 0 .. NumQueues - 1
CurrentQueue == 65535    \* QUEUE_CURRENT_THREAD

Attributes == [level : Nat, priority : Nat, queue : Queues \cup {CurrentQueue},
               nested : BOOLEAN]

ASSUME ThreadsAssumption ==
  /\ Workers \cap Tasks = {} /\ Main \notin Workers \cup Tasks
  /\ NoTask \notin Workers \cup Tasks \cup {Main}
ASSUME QueuesAssumption == NumQueues \in 1 .. CurrentQueue /\ QueueOf \in [Workers -> Queues]
ASSUME ProgramAssumption ==
  /\ Parent \in [Tasks -> Tasks \cup {Main}]
  /\ Attrs \in [Tasks -> SUBSET Attributes]
\* Handles live in the bodies that own them: no set of tasks owns itself.
ASSUME ForestAssumption == \A S \in SUBSET Tasks : S # {} => \E t \in S : Parent[t] \notin S
ASSUME ReuseAssumption == ReuseAfterWake \in BOOLEAN
ASSUME PoliciesAssumption == Policies \subseteq {"cilkS", "lifoS", "fifoS", "prioS"}
ASSUME BoundsAssumption == MaxSpawns \in [Tasks -> Nat] /\ MaxAttempts \in Nat \ {0}

\* The programs the library serves: no late wake-up of a handle meets a
\* sleeper of the next spawn, since the program sees to that, or since every
\* handle is nested in all of its spawns or has only one.
SafeReuse ==
  \/ ReuseAfterWake
  \/ \A t \in Tasks : (\A a \in Attrs[t] : a.nested) \/ MaxSpawns[t] <= 1

VARIABLES
  policy,     \* the queue policy: a template argument, fixed for a run
  queue,      \* task_queue_set::data: one sequence of handles per queue
  event,      \* event_state of each handle's completion event
  attr,       \* each handle's attribute
  owed,       \* the handles spawned and not yet waited for
  spawns,     \* how often each handle has been spawned
  runs,       \* how often each handle's function has returned
  pc,         \* where each context is
  target,     \* the handle a context waits for
  scan,       \* the queues a worker has tried in this call of get()
  tries,      \* num_attempts of a worker's call of get_task()
  got,        \* return_value of a worker's call of get_task()
  top,        \* the context a worker executes
  under,      \* the context a task was started from
  waking,     \* the handle whose sleepers a worker is about to wake
  cache,      \* task_cache: the task each worker believes it executes
  saved,      \* progress_wait()'s current_task
  cancelled   \* thread_state

program == <<attr, owed, spawns, runs>>
getter  == <<scan, tries, got>>
stack   == <<top, under, waking>>
copies  == <<cache, saved>>
vars == <<policy, queue, event, program, pc, target, getter, stack, copies, cancelled>>

Contexts == Workers \cup Tasks \cup {Main}

\* A default-constructed attribute; task_cache starts with it.
DefaultAttribute ==
  [level |-> 0, priority |-> 0, queue |-> CurrentQueue, nested |-> TRUE]

ShallowCopy(t) == [of |-> t, attr |-> attr[t]]

Init ==
  /\ policy \in Policies
  /\ queue = [q \in Queues |-> <<>>]
  /\ event = [t \in Tasks |-> "inactive"]
  /\ attr = [t \in Tasks |-> DefaultAttribute]
  /\ owed = {}
  /\ spawns = [t \in Tasks |-> 0]
  /\ runs = [t \in Tasks |-> 0]
  /\ pc = [c \in Contexts |-> IF c \in Workers THEN "check"
                              ELSE IF c = Main THEN "body" ELSE "idle"]
  /\ target = [c \in Contexts |-> NoTask]
  /\ scan = [w \in Workers |-> 0]
  /\ tries = [w \in Workers |-> MaxAttempts]
  /\ got = [w \in Workers |-> NoTask]
  /\ top = [w \in Workers |-> w]
  /\ under = [t \in Tasks |-> NoTask]
  /\ waking = [w \in Workers |-> NoTask]
  /\ cache = [w \in Workers |-> [of |-> NoTask, attr |-> DefaultAttribute]]
  /\ saved = [t \in Tasks |-> [of |-> NoTask, attr |-> DefaultAttribute]]
  /\ cancelled = [w \in Workers |-> FALSE]

-----------------------------------------------------------------------------
(***************************************************************************)
(* The queues.  Put is the critical section of put(); Exposed is the set   *)
(* of positions that get() may look at in a queue: it tests the predicate  *)
(* on one task only and passes on to the next queue if that one fails.     *)
(***************************************************************************)
CilkPut(s, t) == <<t>> \o s
LifoPut(s, t) == <<t>> \o s
FifoPut(s, t) == Append(s, t)
PrioPut(s, t) == Append(s, t)

Put(s, t) ==
  CASE policy = "cilkS" -> CilkPut(s, t)
    [] policy = "lifoS" -> LifoPut(s, t)
    [] policy = "fifoS" -> FifoPut(s, t)
    [] OTHER -> PrioPut(s, t)

\* Own queue from the front, a victim's from the back.
CilkExposed(s, own) == IF own THEN {1} ELSE {Len(s)}
LifoExposed(s) == {1}
FifoExposed(s) == {1}

\* A std::priority_queue: a task of greatest priority, any one of them.
PrioExposed(s) ==
  {i \in DOMAIN s : \A j \in DOMAIN s : attr[s[j]].priority <= attr[s[i]].priority}

\* Fault: the task is looked at on one side and popped on the other.
PopFront(s, i) == Tail(s)

Pop(s, i) == RemoveAt(s, i)

Exposed(s, own) ==
  IF s = <<>> THEN {}
  ELSE CASE policy = "cilkS" -> CilkExposed(s, own)
         [] policy = "lifoS" -> LifoExposed(s)
         [] policy = "fifoS" -> FifoExposed(s)
         [] OTHER -> PrioExposed(s)

(***************************************************************************)
(* The predicates.  An idle worker takes any task; a worker inside a wait  *)
(* compares the candidate with the attribute copied from its task_cache.   *)
(***************************************************************************)
\* Fault: the levels are compared the wrong way round.
CilkTakesAncestors(prev, t) == prev.level >= attr[t].level

CilkWaitingPred(prev, t) == prev.level <= attr[t].level

\* Fault: a task of the same priority is accepted as well.
PrioTakesPeers(prev, t) == prev.priority <= attr[t].priority

PrioWaitingPred(prev, t) == prev.priority < attr[t].priority

WaitingPred(prev, t) ==
  CASE policy = "cilkS" -> CilkWaitingPred(prev, t)
    [] policy = "prioS" -> PrioWaitingPred(prev, t)
    [] OTHER -> TRUE

Pred(c, t) == c \in Workers \/ WaitingPred(saved[c].attr, t)

-----------------------------------------------------------------------------
(***************************************************************************)
(* User code: the body of a task on a worker, or the main program.         *)
(***************************************************************************)
InBody(c) == pc[c] = "body"

\* Fault: the completion event of a handle is not reset when it is spawned.
ResetForgotten(t) == event' = event

ResetCompletion(t) == event' = [event EXCEPT ![t] = "incomplete"]

\* The attributes t may be spawned with now.
Usable(t) ==
  {a \in Attrs[t] : ReuseAfterWake /\ ~a.nested => \A w \in Workers : waking[w] # t}

\* spawn_task(): the handle is set up, then put on its queue.  The main
\* thread's own queue is queue 0.
Spawn(c, own, t) ==
  /\ InBody(c) /\ Parent[t] = c /\ t \notin owed
  /\ spawns[t] < MaxSpawns[t]
  /\ \E a \in Usable(t) :
       LET q == IF a.queue = CurrentQueue THEN own ELSE a.queue
       IN  /\ attr' = [attr EXCEPT ![t] = a]
           /\ queue' = [queue EXCEPT ![q] = Put(@, t)]
  /\ ResetCompletion(t)
  /\ owed' = owed \cup {t}
  /\ spawns' = [spawns EXCEPT ![t] = @ + 1]
  /\ UNCHANGED <<policy, runs, pc, target, getter, stack, copies, cancelled>>

\* task::wait(): a nested task's event is tested while the thread makes
\* progress elsewhere, another one's is slept on.
BeginWait(c, t, progress) ==
  /\ InBody(c) /\ Parent[t] = c /\ t \in owed
  /\ target' = [target EXCEPT ![c] = t]
  /\ pc' = [pc EXCEPT ![c] = IF attr[t].nested THEN progress ELSE "block"]
  /\ UNCHANGED <<policy, queue, event, program, stack, cancelled, cache, scan, got>>

\* The wait returns to the body that called it.
EndWait(c) ==
  /\ owed' = owed \ {target[c]}
  /\ target' = [target EXCEPT ![c] = NoTask]
  /\ pc' = [pc EXCEPT ![c] = "body"]
  /\ UNCHANGED <<policy, queue, attr, spawns, runs, getter, stack, copies, cancelled>>

\* event<waitable_event>::wait(): the kernel puts the thread to sleep if the
\* event is incomplete.
Sleep(c) ==
  /\ pc[c] = "block" /\ event[target[c]] = "incomplete"
  /\ pc' = [pc EXCEPT ![c] = "asleep"]
  /\ UNCHANGED <<policy, queue, event, program, target, getter, stack, copies, cancelled>>

\* Whoever has been woken returns without a second look at the event; the
\* wait leaves the event as it is.
WakeUp(c) ==
  /\ pc[c] = "woken" \/ (pc[c] = "block" /\ event[target[c]] # "incomplete")
  /\ EndWait(c)
  /\ UNCHANGED event

\* event_base::test() of a task with one waiter: the test that finds it
\* complete makes it inactive.
Tested(t) == [event EXCEPT ![t] = IF @ = "complete" THEN "inactive" ELSE @]

\* progress_wait() on the main thread: test and yield.
MainPoll ==
  /\ pc[Main] = "poll" /\ event[target[Main]] # "incomplete"
  /\ event' = Tested(target[Main])
  /\ EndWait(Main)

\* ~taskmgr(): flag every worker, then join them all.
Shutdown ==
  /\ InBody(Main) /\ \A t \in owed : Parent[t] # Main
  /\ pc' = [pc EXCEPT ![Main] = "cancel"]
  /\ UNCHANGED <<policy, queue, event, program, target, getter, stack, copies, cancelled>>

Cancel(w) ==
  /\ pc[Main] = "cancel"
  /\ cancelled' = [cancelled EXCEPT ![w] = TRUE]
  /\ UNCHANGED <<policy, queue, event, program, pc, target, getter, stack, copies>>

Join ==
  /\ pc[Main] = "cancel"
  /\ \A w \in Workers : cancelled[w] /\ pc[w] = "exited"
  /\ pc' = [pc EXCEPT ![Main] = "done"]
  /\ UNCHANGED <<policy, queue, event, program, target, getter, stack, copies, cancelled>>

MainStep ==
  \/ \E t \in Tasks : Spawn(Main, 0, t)
  \/ \E t \in Tasks : BeginWait(Main, t, "poll") /\ UNCHANGED <<tries, saved>>
  \/ Sleep(Main) \/ WakeUp(Main)
  \/ MainPoll
  \/ Shutdown
  \/ \E w \in Workers : Cancel(w)
  \/ Join

-----------------------------------------------------------------------------
(***************************************************************************)
(* A worker.  Its context c = top[w] is its own loop, which asks get_task  *)
(* for a task until it is cancelled, or a task.                            *)
(***************************************************************************)
WorkerSpawn(w, t) == top[w] \in Tasks /\ Spawn(top[w], QueueOf[w], t)

\* progress_wait() keeps a copy of the cache and starts a call of get_task().
WorkerWait(w, t) ==
  /\ top[w] \in Tasks
  /\ BeginWait(top[w], t, "check")
  /\ tries' = [tries EXCEPT ![w] = MaxAttempts]
  /\ saved' = [saved EXCEPT ![top[w]] = cache[w]]

WorkerSleep(w) == top[w] \in Tasks /\ Sleep(top[w])

WorkerWakeUp(w) == top[w] \in Tasks /\ WakeUp(top[w])

\* The completion predicate of the context's call of get_task().
Completed(c) == IF c \in Workers THEN cancelled[c]
                ELSE event[target[c]] # "incomplete"

\* The predicate is evaluated, and with it the event is tested.
TestCompletion(c) == event' = IF c \in Workers THEN event ELSE Tested(target[c])

\* The head of get_task()'s inner loop.
Check(w) ==
  LET c == top[w]
      again == ~Completed(c) /\ tries[w] > 0
  IN  /\ pc[c] = "check"
      /\ TestCompletion(c)
      /\ pc' = [pc EXCEPT ![c] = IF again THEN "scan" ELSE "recheck"]
      /\ tries' = [tries EXCEPT ![w] = IF again THEN @ - 1 ELSE @]
      /\ UNCHANGED <<policy, queue, program, target, scan, got, stack, copies, cancelled>>

\* test_and_get() on the next queue of get()'s round.
Scan(w) ==
  LET c == top[w]
      q == (QueueOf[w] + scan[w]) % NumQueues
      next == (scan[w] + 1) % NumQueues
      found == {i \in Exposed(queue[q], scan[w] = 0) : Pred(c, queue[q][i])}
  IN  /\ pc[c] = "scan"
      /\ \/ \E i \in found :
              /\ got' = [got EXCEPT ![w] = queue[q][i]]
              /\ queue' = [queue EXCEPT ![q] = Pop(@, i)]
              /\ scan' = [scan EXCEPT ![w] = 0]
              /\ pc' = [pc EXCEPT ![c] = "recheck"]
         \/ /\ found = {}
            /\ scan' = [scan EXCEPT ![w] = next]
            /\ pc' = [pc EXCEPT ![c] = IF next = 0 THEN "check" ELSE "scan"]
            /\ UNCHANGED <<queue, got>>
      /\ UNCHANGED <<policy, event, program, target, tries, stack, copies, cancelled>>

\* Fewer attempts after a yield.
HalfAttempts == MaxAttempts \div 2

\* Fault: the attempts are doubled instead.
BackoffDoubles == 2 * MaxAttempts

Backoff == IF HalfAttempts = 0 THEN 1 ELSE HalfAttempts

\* The end of get_task()'s outer loop: the predicate a second time.  Nothing
\* found and nothing to wait for: yield and begin again with fewer attempts.
Yield(w) ==
  LET c == top[w]
  IN  /\ pc[c] = "recheck" /\ ~Completed(c) /\ got[w] = NoTask
      /\ pc' = [pc EXCEPT ![c] = "check"]
      /\ tries' = [tries EXCEPT ![w] = Backoff]
      /\ UNCHANGED <<policy, queue, event, program, target, scan, got, stack, copies, cancelled>>

\* get_task() returns a task: set the cache and call its function.
Start(w) ==
  LET c == top[w]
      t == got[w]
  IN  /\ pc[c] = "recheck" /\ t # NoTask
      /\ TestCompletion(c)
      /\ got' = [got EXCEPT ![w] = NoTask]
      /\ cache' = [cache EXCEPT ![w] = ShallowCopy(t)]
      /\ top' = [top EXCEPT ![w] = t]
      /\ under' = [under EXCEPT ![t] = c]
      /\ pc' = [pc EXCEPT ![c] = "nested", ![t] = "body"]
      /\ UNCHANGED <<policy, queue, program, target, scan, tries, saved, waking, cancelled>>

\* get_task() returns NULL to progress_wait(), and the wait is over ...
LeaveWait(w) ==
  LET c == top[w]
  IN  /\ pc[c] = "recheck" /\ Completed(c) /\ got[w] = NoTask
      /\ c \in Tasks
      /\ TestCompletion(c)
      /\ EndWait(c)

\* ... or to the worker's loop, and the thread exits.
Exit(w) ==
  /\ top[w] = w
  /\ pc[w] = "recheck" /\ Completed(w) /\ got[w] = NoTask
  /\ pc' = [pc EXCEPT ![w] = "exited"]
  /\ UNCHANGED <<policy, queue, event, program, target, getter, stack, copies, cancelled>>

\* The task's function returns.
Return(w) ==
  LET c == top[w]
  IN  /\ c \in Tasks /\ InBody(c) /\ \A t \in owed : Parent[t] # c
      /\ runs' = [runs EXCEPT ![c] = @ + 1]
      /\ pc' = [pc EXCEPT ![c] = "notify"]
      /\ UNCHANGED <<policy, queue, event, attr, owed, spawns, target, getter, stack,
                     copies, cancelled>>

\* Where a context goes on when the task on top of it has been notified: a
\* worker's loop asks for the next task, progress_wait() has yet to restore.
Resumed(b) == IF b \in Workers THEN "check" ELSE "restore"

\* task::notify() completes the event.  Of a nested task that is all; the
\* event of another one is on a futex, whose sleepers are woken afterwards.
Notify(w) ==
  LET c == top[w]
      b == under[c]
  IN  /\ c \in Tasks /\ pc[c] = "notify"
      /\ event' = [event EXCEPT ![c] = "complete"]
      /\ top' = [top EXCEPT ![w] = b]
      /\ under' = [under EXCEPT ![c] = NoTask]
      /\ waking' = [waking EXCEPT ![w] = IF attr[c].nested THEN NoTask ELSE c]
      /\ pc' = [pc EXCEPT ![c] = "idle", ![b] = IF attr[c].nested THEN Resumed(b) ELSE "wake"]
      /\ tries' = [tries EXCEPT ![w] = MaxAttempts]
      /\ UNCHANGED <<policy, queue, program, target, scan, got, copies, cancelled>>

\* Fault: the notifier wakes nobody.
WakeForgotten(w) ==
  /\ pc[top[w]] = "wake"
  /\ waking' = [waking EXCEPT ![w] = NoTask]
  /\ pc' = [pc EXCEPT ![top[w]] = Resumed(top[w])]
  /\ UNCHANGED <<policy, queue, event, program, target, getter, top, under, copies, cancelled>>

\* The second half of notify(): everybody who sleeps on the address of the
\* event, for whichever spawn of the handle.
Wake(w) ==
  /\ pc[top[w]] = "wake"
  /\ waking' = [waking EXCEPT ![w] = NoTask]
  /\ pc' = [c \in Contexts |-> IF c = top[w] THEN Resumed(c)
                               ELSE IF pc[c] = "asleep" /\ target[c] = waking[w] THEN "woken"
                               ELSE pc[c]]
  /\ UNCHANGED <<policy, queue, event, program, target, getter, top, under, copies, cancelled>>

\* Fault: the cache keeps the task that has just been run.
RestoreNothing(w) ==
  LET c == top[w]
  IN  /\ c \in Tasks /\ pc[c] = "restore"
      /\ pc' = [pc EXCEPT ![c] = "check"]
      /\ UNCHANGED <<policy, queue, event, program, target, getter, stack, copies, cancelled>>

\* progress_wait() resets the cache to the task that waits.
Restore(w) ==
  LET c == top[w]
  IN  /\ c \in Tasks /\ pc[c] = "restore"
      /\ cache' = [cache EXCEPT ![w] = saved[c]]
      /\ pc' = [pc EXCEPT ![c] = "check"]
      /\ UNCHANGED <<policy, queue, event, program, target, getter, stack, saved, cancelled>>

WorkerStep(w) ==
  \/ \E t \in Tasks : WorkerSpawn(w, t) \/ WorkerWait(w, t)
  \/ WorkerSleep(w) \/ WorkerWakeUp(w)
  \/ Check(w) \/ Scan(w) \/ Yield(w)
  \/ Start(w) \/ LeaveWait(w) \/ Exit(w)
  \/ Return(w) \/ Notify(w) \/ Wake(w) \/ Restore(w)

\* The program has ended.
Ended == pc[Main] = "done" /\ UNCHANGED vars

Next == MainStep \/ (\E w \in Workers : WorkerStep(w)) \/ Ended

Spec == Init /\ [][Next]_vars

\* The operating system runs every thread, and the program's functions,
\* which spawn a bounded number of tasks, return.
Fairness == WF_vars(MainStep) /\ \A w \in Workers : WF_vars(WorkerStep(w))

FairSpec == Spec /\ Fairness

-----------------------------------------------------------------------------
PCs == {"idle", "body", "poll", "block", "asleep", "woken", "cancel", "done", "check",
        "scan", "recheck", "nested", "notify", "wake", "restore", "exited"}

Copies == [of : Tasks \cup {NoTask}, attr : Attributes]

\* Every variable keeps its type; queues hold handles only.
TypeOK ==
  /\ policy \in Policies
  /\ queue \in [Queues -> Seq(Tasks)]
  /\ event \in [Tasks -> {"inactive", "incomplete", "complete"}]
  /\ attr \in [Tasks -> Attributes]
  /\ owed \subseteq Tasks
  /\ spawns \in [Tasks -> Nat]
  /\ runs \in [Tasks -> Nat]
  /\ pc \in [Contexts -> PCs]
  /\ target \in [Contexts -> Tasks \cup {NoTask}]
  /\ scan \in [Workers -> Queues]
  /\ tries \in [Workers -> 0 .. MaxAttempts]
  /\ got \in [Workers -> Tasks \cup {NoTask}]
  /\ top \in [Workers -> Workers \cup Tasks]
  /\ under \in [Tasks -> Workers \cup Tasks \cup {NoTask}]
  /\ waking \in [Workers -> Tasks \cup {NoTask}]
  /\ cache \in [Workers -> Copies]
  /\ saved \in [Tasks -> Copies]
  /\ cancelled \in [Workers -> BOOLEAN]

\* The places a handle is in: positions of queues, hands of workers, and
\* the stack of the worker that runs it.
InQueues(t) ==
  UNION {{<<q, i>> : i \in {j \in DOMAIN queue[q] : queue[q][j] = t}} : q \in Queues}

InHands(t) == {w \in Workers : got[w] = t}

OnStack(t) == {c \in {t} : pc[c] # "idle"}

Places(t) == InQueues(t) \cup InHands(t) \cup OnStack(t)

\* A spawned task that is not complete is in exactly one place, any other in
\* none: no task is lost between two queues and none is run twice
\* (cilk.hpp:68-181, taskmgr.hpp:559-593,648-655).
OnePlace ==
  \A t \in Tasks :
    Cardinality(Places(t)) = IF event[t] = "incomplete" THEN 1 ELSE 0

\* When a wait has returned, the function has run once for every spawn
\* (task.hpp:116-128, taskmgr.hpp:679-726).
WaitMeansRun ==
  \A t \in Tasks : /\ t \notin owed => runs[t] = spawns[t]
                   /\ t \in owed => runs[t] \in {spawns[t] - 1, spawns[t]}

\* While a task's code runs, the cache of its thread is a copy of that task,
\* whatever the thread ran meanwhile on top of it (taskmgr.hpp:650,701-716).
CacheIsCurrent ==
  \A w \in Workers :
    top[w] \in Tasks /\ pc[top[w]] \notin {"wake", "restore"} =>
      cache[w] = ShallowCopy(top[w])

\* On a thread's stack levels never decrease under cilkS and priorities
\* strictly increase under prioS, which bounds the stack
\* (predicate.hpp:133-139,230-236).
StackIsOrdered ==
  \A t \in Tasks :
    under[t] \in Tasks =>
      /\ policy = "cilkS" => attr[under[t]].level <= attr[t].level
      /\ policy = "prioS" => attr[under[t]].priority < attr[t].priority

\* The task manager is destroyed with empty queues: no task of a program
\* that waits for its tasks is left behind (taskmgr.hpp:497-524).
NothingLeftBehind ==
  pc[Main] = "done" => /\ \A q \in Queues : queue[q] = <<>>
                       /\ \A t \in Tasks : event[t] # "incomplete"

\* The task manager implements fork/join (task.hpp:72-164,
\* taskmgr.hpp:281-298,559-726): a task is ready from its spawn, running
\* while a worker has it on its stack, done when it has been notified, and
\* free again when the wait for it has returned.
Phase ==
  [t \in Tasks |-> IF t \notin owed THEN "free"
                   ELSE IF event[t] # "incomplete" THEN "done"
                   ELSE IF pc[t] = "idle" THEN "ready" ELSE "running"]

FJ == INSTANCE ForkJoin WITH phase <- Phase

ImplementsForkJoin == FJ!Spec

\* Every fork/join program comes to its end (taskmgr.hpp:559-726).
Termination == <>(pc[Main] = "done")
=============================================================================
