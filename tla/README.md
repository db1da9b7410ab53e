# A verification development for PFunc

PFunc is a C++ library for task parallelism: a program spawns tasks, a task
manager runs them on a fixed set of threads, and a wait for a task lets the
waiting thread run other tasks meanwhile.  These TLA+ modules model its
synchronisation primitives, its task manager, its groups and loops, and a program
on each of its two interfaces; TLC checks them on small instances and TLAPS proves
theorems about them for every instance.

## The system

| part | source | state | operations | used by |
|---|---|---|---|---|
| mutex | `mutex.hpp`, `futex.h` | one word | `lock`, `trylock`, `unlock` | queues, groups, user code |
| atomic operations | `pfunc_atomics.h`, `asm/` | one word; a mutex per operation in `generic.h` | compare-and-swap, fetch-and-store, fetch-and-add, fenced read and write | mutex, event, barrier, group, user code |
| completion event | `event.hpp` | `event_state`, `num_waiters` | `reset`, `wait`, `test`, `notify` | task |
| task | `task.hpp` | attribute, group, rank, function, two events, an exception | `reset_completion`, `run`, `wait`, `test`, `notify`, `barrier` | task manager, user code |
| attribute | `attribute.hpp` | level, priority, queue, `num_waiters`, nested, grouped | - | task, predicates, queues |
| task queues | `task_queue_set.hpp`, `cilk.hpp`, `lifo.hpp`, `fifo.hpp`, `prio.hpp` | a container and a mutex per queue | `put`, `get` | task manager |
| predicates | `predicate.hpp` | the waiting task | regular, waiting, group | `get` |
| task manager | `taskmgr.hpp` | queues, `task_cache`, `thread_state`, threads | constructor, `spawn_task`, `get_task`, worker loop, `progress_wait`, `progress_barrier`, destructor | everything |
| group | `group.hpp` | `rank_token`, `barrier_count`, `barrier_phase`, a mutex | `join_group`, `leave_group`, `barrier` | task |
| start-up barrier | `barrier.hpp` | count, phase | `operator()` | the constructor's threads |
| thread manager | `thread.hpp`, `trampolines.hpp` | a table of thread attributes | create, exit, join, yield, `tls_set`, `tls_get` | task manager |
| exceptions | `exception.hpp` | an exception pointer per object | store, rethrow | everything |
| loops | `parallel_for.hpp`, `parallel_reduce.hpp`, `parallel_while.hpp`, `space_1D.hpp` | - | recursive spawn and wait | user code |
| condition variable | `cond.hpp` | the system's; on Windows a semaphore, a count and an event | `wait`, `signal`, `broadcast` | event, start-up barrier |
| C++ interface | `pfunc.hpp`, `generator.hpp` | a global task manager | spawn, wait, `wait_any`, `wait_all`, `test_all` | user code |
| C interface | `lib/pfunc_c.cpp`, `lib/pfunc_pack.cpp`, `pfunc.h` | a global task manager per policy | the same, and `pfunc_pack`, `pfunc_unpack` | user code |

How they interact: user code calls `spawn`, which joins the group, resets the
handle's event and puts the handle in a queue.  A worker's loop gets a handle
from its own queue or steals one, copies it to the worker's `task_cache`, runs
the function and notifies the event.  The function may spawn and wait itself: a
wait for a *nested* task calls `progress_wait`, which runs further tasks on the
same C++ stack until the event tests complete; a wait for any other task sleeps
on its event.  A barrier of a group spins, or runs further tasks the same way
(`progress_barrier`).  All shared state is guarded by the queues' mutexes, by the
group's mutex, or by the atomic operations on an event.

The hard behaviours, each at its line in `PROJECT.json`: lost wake-ups in the
mutex and the event; a handle spawned again while its last notification is still
under way; scans over several queues that hold one mutex at a time; stacks of
tasks that wait for one another, which only predicates keep from deadlock; the
cache that must follow the stack; barriers used again before everybody has left;
ranks given back out of order; shutdown while workers poll; the last of a
broadcast's waiters, who alone may release the broadcaster; atomic operations that
are several accesses; objects in frames that tasks refer to.

What makes each part correct, in a sentence: the **mutex** excludes, is never
marked without an owner, and loses no wake-up; an **event** ends no wait before
the function has returned and misses no sleeper; the **queues** neither lose nor
duplicate a task; the **task manager** runs each spawn once, between the spawn
and the end of the wait, and every fork/join program ends; the **group** gives
active tasks different ranks below its size, and nobody passes a barrier that
somebody of the group has not reached; a **condition variable** releases at a
broadcast all who wait and nobody else; the **atomic operations** take effect in
one step; the **loops** apply every index once; and through the **interfaces** a
program gets the results it would compute alone.

## The modules

**`AbstractLock`** is what a mutex promises: an owner, acquired when there is
none.  **`FutexMutex`** is the class for Linux.  `val` is its word, `place[t]`
where a thread is in the three functions.  `Lock` is the first compare-and-swap
of `lock()`; `Mark`, `MutexWait` and `Retry` are the three steps of its loop;
`Interrupted` is a signal; `Unlock` and `FutexWake` are the two steps of
`unlock()`.  The spin before `futex_wait` is no step: it changes nothing, and
`futex_wait` is called however it ends.  `AcquiredMeans` is the result of
`trylock()` that its caller takes for success: the code returns `true` when it
has *not* got the mutex, while `sync.tex` and `barrier_spin()` read `true` as
success, as the comment on the pthreads class does.  With that reading the mutex
does not exclude at all; the runs are about callers that read it as it is.

**`WaitableEvent`** is the event of a task that is not nested, with the waits and tests of
one handle and its spawns (`Reset`); `impl` says which of its two classes a build has.  On a
futex, `Wait`, `FutexWait` and `ReceiveWait` are the steps of `wait()`, and `Notify` and
`WakeAll` those of `notify()`.  On a condition variable `wait()` is `LookFirst`,
`LockEvent`, `LookAgain`, `Park` (the system's wait: unlock and sleep at once), `LockEvent`
and `UnlockEvent`, and `notify()` is `Notify`, `LockEvent`, `Broadcast` and `UnlockEvent`.
`lck` holds the thread that has the mutex; a thread that unlocks what it does not hold frees
it or leaves it as it is (`Unlocked`), for that is undefined.  `wait()` does so whenever its
first look finds the event complete.  `CondWaiters` are the threads that may call `wait()`
there.  `Test` and `ReceiveTest` are `test()` and `Deactivate` the last receiver's store, in
both classes.  `ReuseAfterWake` tells whether the handle is spawned again only after
`notify()` has returned, or as soon as its waits have.  A signal that interrupts
`futex_wait` is left out; `wait()` would take it for the completion.  So is a `ReleaseMutex`
of Windows that fails and throws.

**`ForkJoin`** is what the task manager promises to a program whose functions
wait for everything they spawn: a handle is free, ready, running, done and free
again, its owner running all the while.  **`TaskMgr`** is the task manager.  A
*context* is a worker's loop, a task or the main program; `pc[c]` is its place,
`top[w]` the context worker `w` executes, `under[t]` the context `t` was started
from, so that `top` and `under` are the C++ stacks.  `Spawn`, `BeginWait` and the
ends of waits (`WakeUp`, `MainPoll`, `LeaveWait`) are user code.  `Check`, `Scan`,
`Yield`, `Start` are `get_task()`: the test at the head of its inner loop, one
`test_and_get` on one queue per step, the test at the end of its outer loop.
`Return`, `Notify`, `Wake` and `Restore` are the rest of the loops of the worker and of
`progress_wait()`; `Shutdown`, `Cancel`, `Join` and `Exit` the destructor.
`policy` is the template argument that selects a queue and its predicates; it
never changes.  A queue's critical section is one step, which `FutexMutex`
justifies, and a nested task's event has one waiter.

The event of a task that is not nested is the one on a futex, step by step: `Notify` stores
the completion, and `Wake`, a step later, wakes whoever sleeps on the address of the event
at that time, for whichever spawn of the handle; `Sleep` is the look of `futex_wait` and
`WakeUp` the end of the wait, which does not look again.  `waking[w]` is the handle whose
sleepers `w` has still to wake.  A program that spawns such a handle again as soon as its
wait has returned may therefore be woken by the round before.  `ReuseAfterWake` says that
the program waits for `notify()` to return; the library has no call with which it could, so
this is a condition on programs, met for instance by the handles that are spawned once, and
not a fact.  `SafeReuse` is that condition: `ReuseAfterWake`, or every handle is nested in
all its spawns or has only one.  The run `taskmgr` and all theorems about `TaskMgr` assume
it; without it the second wait ends early, which `event_reuse` shows on the event alone.

**`Group`** has the same stacks and one queue, with the tasks' functions reduced to what
concerns groups: cross the barrier `Crossings` times and return.  `JoinGroup` and
`LeaveGroup` are the fetch-and-adds on `rank_token`; `Arrive` is the critical section that
`barrier_spin()` and `barrier_steal()` share; `Leave` is a look at the phase that finds it
changed, `Poll` one of the spinning barrier that does not.  In the stealing barrier that
look is `LookAtPhase`, and `ProgressBarrier`, a step later, takes a task that the group
predicate accepts and runs it on top, even if the phase has changed meanwhile, or returns
without one.  The program spawns and waits for a group as a whole: `leave_group()` gives
back the newest rank, so a handle waited for and spawned again while a task of a higher rank
is active would get that one's rank, against `design.tex`.  The mutex is that of the
pthreads build, on which `trylock()` returns what `barrier_spin()` expects.

**`StartUp`** is the start of a task manager.  `CreateThread`, `NextQueue` and
`Return` are the loops of the constructor; `loop`, `index` and `data` its
variables.  A thread takes `TlsSet`, the barrier and `Started`, and is then about
to call `get_task()`, where `TaskMgr` and `Group` begin.  The barrier on a futex
is `ReadPhase`, `Arrive`, and either `ResetCount`, `Toggle`, `PhaseWake` or the loop
of `Look` and `PhaseWait`; the one on a condition variable is `Enter` and `Look`,
for all it does is done under its mutex.  `barrierImpl` says which of the two a build
has.  Nothing is said of thread creation that fails.  `Started` is one atomic addition; on
Windows it is not, as `platform_library` shows, and a lost one leaves the constructor in its
loop for ever.

**`Loops`** is one parallel loop, spawned by a main program that waits for it, in
a build with exceptions.  A task is named by its path: `<<>>` is the loop, and the
`n`-th task it spawns appends `n`.  `space[t]` is what is left of a task's space,
`stack[w]` the C++ stack of a worker.  `Spawn` is one level of the recursion of
`parallel_for` and `parallel_reduce`, which keeps the left half and spawns the
right one, or one iteration of `parallel_while`; `Apply` calls the user's function;
`Wait`, `Check` and `Nothing` are `wait_all()` and `progress_wait()`; `Take` runs a
task on an idle worker or on top of a task that waits.  `Apply` may throw: `Unwind`
is what follows inside a body - handles in its frames are destroyed, `run()` stores
the exception - and `Notified` what `notify()` does with it: it rethrows it into
the wait below on the same stack, or out of the thread, which ends the process.  A
worker that meets a destroyed handle, or a body that would spawn from a destroyed functor,
is `UseDestroyed`, and nothing is said of what follows.  A piece whose function throws
counts as not applied at all, which is exact for pieces of one index, as in the run.

**`Pack`** is `pfunc_pack()` and `pfunc_unpack()`: which types a format may name,
how wide each is on an ABI, and the bytes that are copied.  **`CInterface`** runs the
tutorial's `parallel_fib()` over the C interface: a main program sets up a task
manager and makes it the global one (`TaskMgrInit`, `GlobalInit`), spawns a task per
number (`MainSpawn`), collects them with `wait_all` (`MainWait`) or by calling
`test_all` until all are complete (`MainTest`), clears the handles and then the
rest.  `Start` to `Notify` are the functions: unpack, pack for two further calls, of
which one is spawned and one made in place, join, sum.  The scheduling is that of
`ForkJoin`: what is spawned starts some time later.  Attributes and groups are
objects, as `spawn_c` requires, which dereferences both; the tutorial passes `NULL`.

**`MatMult`** runs `examples/cxx/matmult.cpp` over the C++ interface: `ProgramInit` to
`ProgramJoin` are `main` and `pfunc::global` under it, and a call of the functor splits its
matrices and does two batches of four products, of which it spawns three (`Spawn`), makes
the fourth itself (`CallInline`, `Returned`) and waits for the three (`Wait`); the task
handles of the first batch are those of the second.  A call is named by its path, and a
matrix is its first index and its dimension, as in `divisible_matrix`.  `Load` and `Store`
are the two halves of the loops at the bottom, so that two tasks on one block would lose
terms.  The parts of a product are nested tasks, which one store completes.  The root task
is not: `NotifyTask` is its store and `WakeRoot` the use of its handle after that, while
`main`, which may have seen the store, clears the global pointer (`ProgramClear`), returns
(`ProgramReturn`: `root_dgemm` and `root_task` are destroyed first, being declared last) and
joins the workers in `~taskmgr` (`ProgramJoin`).  A sum is the sequence of its terms: the
result has to be that of the sequential program, bit for bit.

**`CondVar`** is what `event.hpp` and `barrier.hpp` take a condition variable for:
`wait()` joins the waiters and gives the mutex up in one step, `broadcast()` releases
all waiters, and nobody leaves otherwise.  **`WinCond`** is the class for Windows.
`wait()` is `Count`, `Queue`, `Wake`, `CountDown`, possibly `AllAwake`, and `Relock`;
`broadcast()` is `Broadcast`, `Released` and `EndBroadcast`, or one of
`BroadcastToNobody` and `BroadcastFails`; `signal()` is `Signal` and `ReleaseOne`.
`thread_queue` is the count of the semaphore, `all_awake` the auto-reset event,
`section` the holder of `num_waiters_lock`.  Only a thread with the mutex calls `wait()`
or `broadcast()`, as in the event and in the barrier; without it a thread could wait
between the broadcast and the event, and the event would be left set for the next
broadcast.  `signal()` needs no mutex and leaves a surplus in the semaphore when it meets
a broadcast; `signals` tells whether the program calls it, and only then may a waiter of
`CondVar` wake for nothing.  When the semaphore is full, `broadcast()` throws with
`num_waiters_lock` locked and every later call of the class blocks: with signals
and a broadcast the count can get there, and the run says nothing of what must
happen after that; the thread that throws is stopped there.

**`AtomicWord`** is what `pfunc_atomics.h` promises of a word: between its call and its
return an operation takes effect in one step and returns what the code in the header's
comment returns, a compare-and-swap that succeeds the new value; the arithmetic wraps
around.  **`Atomics`** is how the platforms do it: `Execute` is a locked instruction, `Load`
and `Store` the two accesses of the unlocked `xadd` of `win.h`, and `LockMutex`,
`LoadLocked`, `Store`, `UnlockMutex` an operation of `generic.h` under its own mutex (it is
`static`, so that each translation unit has a set of its own; the model is of a program in
which one unit makes all the calls on the word).  `discipline` is a platform with the
threads that may call each operation.  The `cmpxchg` of x86 and Windows returns the *old*
value.  Whoever called it knows the value it compared with and can tell success from failure
in either form: `Outcome` is the result the header's code would have given, and
`ImplementsAtomicWord` is about outcomes.  `Sound` are the disciplines under which the
operations of a platform are atomic together; the library's own uses exceed them on Windows
and with `generic.h`.  It is a hypothesis of a theorem, and no assumption of the module.

The same module has the fenced write and read.  `posted[t]` are the stores of a thread that
have not reached memory; `Drain` lets one do so, in any order.  `early[t]` is a value of the
data that the processor of a reader has loaded ahead of the flag (`LoadAhead`).  `ReadFlag`
and `ReadFence` are the two halves of `pfunc_read_with_fence`: the fence waits for the
thread's stores and drops what was loaded too early.

The `MC` modules hold the programs and constants TLC runs, one `.cfg` per run.
Operators whose comment begins with "Fault:" are not used by any specification:
each is the form an action or operator would take with a plausible bug, and
`PROJECT.json` pairs it with a property that tells the two apart.

## The runs

Runs that pass:

| run | instance | shows |
|---|---|---|
| `blocking` | one of three components at a time.  `FutexMutex`: 4 threads, any mix of `lock()` and `trylock()` | exclusion, no lost wake-up, somebody always gets it, `AbstractLock` is implemented |
| | `WaitableEvent`: 3 waiters, each by `wait()` or `test()`, 2 notifiers, 3 rounds, both classes; on a condition variable one thread may `wait()` | waits are not cut short, not missed, no thread parks after the broadcast, and the event becomes inactive only after everybody has received |
| | `StartUp`: 4 threads on one queue, 3 queues with a thread each, 2 and 1, 0 and 2; both barriers | nobody looks for tasks before all have published their attributes, no sleeper is left in the barrier, the constructor returns, and only when all work, every queue with the threads asked for |
| `taskmgr` | 2 workers, 2 queues, tasks t1 > t2 > t3 (t3 spawned twice, as nested or as not nested, and if not, only after `notify()`) and root t4, all four policies | each spawn is run once and joined after it (`ForkJoin`), a handle is in one place, the caches follow the stacks, stacks are ordered, nothing is left at the end, and the end comes |
| `platform` | the condition variable with 4 threads and a semaphore of at most 4, with and without `signal()`; the atomic operations on a word of 2 bits with 3 threads, on three platforms under eight disciplines, all of them `Sound` | the condition variable implements `CondVar`, a broadcast reaches all who waited and returns, the event is never left over; the operations implement `AtomicWord`, and who sees a flag sees the data it announces |
| `group` | 3 workers, a group of 3 spawned twice, 2 crossings each, one task outside it; spinning under fifoS, stealing under cilkS and prioS | barriers separate, the count is the number of those who wait, ranks are unique, everybody finishes |
| `interface` | C: `parallel_fib` of 2 and of 3, spawned by the main program; four formats, one of them refused; ABIs of 64 and of 32 bits; `wait_all` and `test_all`. C++: the matrix product for dimension 2 and base case 2 and 1, and for dimension 4 and base case 2 | C: each call unpacks what was packed for it from a buffer of the right size, calls only through what is alive, and returns the right number; at the end every buffer is freed and every handle cleared. C++: the frame a task refers to has not returned before the task is complete, no two tasks write to one element, and when `main` has waited the product has the right terms in the right order |
| `loops` | 2 workers; for, reduce and while over spaces of 0, 1, 3 and 4 indices up to the last of `size_t`; nothing, the first or the last index throws | every index is in one task's space or has been applied, the wait returns only when all have been, once, and never for a loop that has thrown; a reduction is in order; the loop ends or the process does |

Runs that show a disagreement between the code and what the repository says:

| run | shows |
|---|---|
| `event_reuse` | a handle spawned again as soon as its wait has returned: the old `futex_wake` ends the new wait before the task has run |
| `event_cond` | on a condition variable, two threads in `wait()`: one sees the event complete and unlocks a mutex it has not locked, which frees the one the other holds before it sleeps; the broadcast comes first and it sleeps for ever |
| `loops_throw` | a task whose function throws ends the process although somebody waits for it: `notify()` rethrows on the worker what `run()` has stored |
| `matmult_root` | in the smallest of `matmult.cpp`'s products `main` sees the completion of `root_task`, returns and destroys it while the worker has still to wake its waiter through it; a handle that lives until its wait has returned, which is what `taskmgr.hpp` asks for, is not enough |
| `platform_library` | two uses the library itself makes of the atomic operations: three threads that add to one word with the `xadd` of `win.h`, and three that use the portable compare-and-swap and fetch-and-store on one word.  Neither is atomic; TLC's counterexample is an addition lost on Windows |
| `group_steal` | two groups of two on two workers with stealing barriers: the predicate looks only at the top of the stack, tasks of one group end up on one stack, and nobody can leave |

Bounds.  `blocking`: the component is chosen at the start and the other two stay as they are.
Of the mutex four threads are a holder, one that wakes, one that sleeps and
one that overtakes; there is no other bound.  `taskmgr`: `MaxSpawns` is how often
a handle is spawned, `MaxAttempts = 1` makes every path through `get_task()`
short without removing any; three tasks on one chain give a stack on which
`progress_wait()` runs tasks twice over, and the second root gives each worker
something that does not belong to its stack.  Of the event three rounds let a late
wake-up meet a later round and the one after it; on a condition variable one
thread in `wait()` and two that test is what its mutex bears, as `event_cond` shows
with two.  `group`: two crossings let a
fast task enter the second barrier before a slow one has left the first, and two
rounds let ranks be given back and out again; lifoS and fifoS behave as cilkS does there,
for the levels in this program are accepted.  Of the start-up four threads are one
that flips the phase and three that are before, at and in their sleep; each
thread crosses the barrier once, as in the code.

`loops`: `Modulus = 8` stands for the width of `size_t`; with a base case of one,
four indices give a recursion of two levels, in which a piece is split on another
worker and waits there too.

`interface`: with `MaxDepth = 3`, the number 3 gives a call that spawns a call that
spawns, and the second number is collected while the first one's task runs or after it;
the formats have types of all widths, unaligned.  The matrix product recurses once
(`MaxSplits = 1`): the seven calls below a call that splits already meet in every order,
and with a second level the schedules are too many; the theorems are about any depth.
The base case decides whether a product of dimension 2 is split, and with dimension 4 a
leaf has several elements, of which the stride is that of the whole.

`platform`: of four threads one broadcasts, two wait and are woken in either order and
one signals or comes late; a maximum count of 4 is what one broadcast and one surplus
signal fill.  A word of two bits wraps around after three additions.  `Disciplines` are
the uses under which the operations are atomic: all on x86; on Windows all but `xadd`,
or `xadd` by a thread that alone modifies the word; with `generic.h` one modifying operation,
or several of one thread.  `platform_library` has the library's uses
beyond them.  `MaxRounds` is how
often data are published, three being enough for a reader to be behind by two.
Deadlock is not checked there: after the exception of a full semaphore all threads may
block.

`matmult_root` needs nothing but the one root task.

Levels and priorities in `taskmgr` are the depths of the tasks, as the tutorial prescribes,
and t3 and the roots may sit on a queue of their own.  `Termination` needs the second
worker.  Under prioS with default attributes, which all have one priority, a wait accepts
nothing, and with one worker it never ends; the tutorial asks for priorities that grow with
the depth.  Under cilkS only the front of the own queue is tested, and with one worker and
one queue a root task spawned later, of a lower level, hides the child for ever.

## Fairness

Each thread that can take a step takes one eventually (weak fairness per thread): the
operating system schedules every runnable thread.  In `WinCond` it covers the steps inside
`wait()` up to the mutex and inside `broadcast()`, and no call.  In `FutexMutex` this covers
steps inside a call and the `unlock()` of a holder, never the decision to call `lock()`; in
`TaskMgr` and `Group` it includes that functions return and that the main program goes on
spawning and waiting; in `Loops` the same, and a worker whose `get()` finds a task takes
one; in `StartUp`, in the behaviours of `blocking` that are about it, it includes the
constructor, and excludes that a sleeping thread is interrupted.  In `WaitableEvent` it
covers each waiter, and each notifier once it has stored the completion; that the mutex of
the condition variable is not held for ever follows, for its holder goes on.  `Atomics` and
the programs of the interfaces state no liveness: that tasks run and waits end is
`TaskMgr`'s.  No strong fairness is assumed: a thread may lose the race for the mutex for
ever, and liveness of the mutex is that *somebody* gets it.

## The proofs

`FutexMutexProofs` proves, for any set of threads: `TypeCorrect`,
`WakeupsAreNotLost` - both for either reading of `trylock()` - and, under
`ReadsResult` (the caller takes FALSE for success), `MutexIsExclusive` and
`MutexImplementsLock`.  Exclusion alone is not inductive, for a held mutex could
read as free and be taken again; the invariant adds `HeldIsNotFree` and
`WaitersImplyOwner`: the word is not free exactly when somebody is in a critical
section.  The refinement then maps a step that enters a critical section to
`Acquire`, one that leaves it to `Release`, and any other to a stutter.

`WaitableEventProofs` proves `WaitsAreNotCutShort` and `NotificationsAreNotLost`
for any number of waiters, notifiers and rounds, assuming `ReuseAfterWake`.  The
inductive invariant relates the event to the task (`Incomplete` exactly while the
function has not returned) and says that nobody who is about to wake belongs to a
round that is over; without the assumption that part is false, which is what
`event_reuse` shows.  `BroadcastsAreNotLost` is about the condition variable, for
any number of threads of which at most one calls `wait()`.  Only that thread can unlock
wrongly, and when it does it is past its own sleep.  `LookerHolds` says that between
its second look and its sleep it has the mutex; `NotifierExcludes` that it is not
there while a notifier broadcasts, nor on its way there if that notifier has lost
the mutex; `BroadcastToCome` that the broadcast has not been made while it is about
to sleep or sleeps.  `InactiveOnlyWhenReceived` needs none of these conditions: in both
classes, however early the handle is spawned again and whoever waits, `num_waiters` is
the number of waiters that have still to receive the completion (`Counted`), so that
the one who finds it used up and deactivates the event is the last of all.

`TaskMgrProofs` proves, for any program, any workers and queues and every policy, from the
hypothesis `SafeReuse`, that types are kept (`Typed`) and that a handle is in one place at a time
(`NoTaskIsLost`).  The inductive invariant `IInv` says where a handle can be:
`Stacks`, the workers' stacks are disjoint chains; `Queued` and `Held`, a handle in
a queue or in a hand is idle, incomplete and nowhere else; `Incomplete`, an
incomplete one is owed and is somewhere.  `Wakes` and `Roused` are about the late wake-ups:
whose sleepers a worker has still to wake, and that a thread which has been woken finds its
task complete.  That is where `SafeReuse` enters, for without it the first round's wake-up
may meet the second round's sleeper and everything else falls with it: a handle is owed no
more while it is still queued, and may be queued twice.  Most actions are `Quiet`: they move one
context and no handle.  The other four (`SpawnShape`, `TakeShape`, `StartShape`,
`NotifyShape`) move one handle between two places, and rest on `PutFacts` and
`PopFacts`, which say what `put()` and `get()` do to the positions of a queue.

The second part of the module adds the `Ledger`: a context in a wait waits for a task of
its own that is still owed, one outside its body owes nothing, and a task has run
once for every spawn but the one under way.  From it follow `WaitReturnsAfterRun`,
the refinement `TaskMgrImplementsForkJoin` - `Spawn`, `Start`, `Notify` and the
ends of waits map to the four steps of `ForkJoin`, the rest stutters - and
`EmptyAtTheEnd`, where `ForestAssumption` enters: a task left behind would be owed
by an active task, which is owed too, and so on for ever.

The third part adds that a waiting task's `saved` is a copy of itself and
that a task in a worker's hand may run on top of the one that waits; from this
follow `CacheFollowsStack` and `StacksAreOrdered`.  The second needs the first:
`get()` compares a candidate with the copy in the cache, not with the stack.

`PlatformProofs` has two parts.  The first is about the condition variable, for any number
of threads and any maximum count, with and without `signal()`.  `WinCondTyped`,
`BroadcastIsComplete` and `EventBelongsToBroadcast` follow from an invariant about the
broadcaster.  It holds the mutex from its call to its return (`OwnerHolds`), so nobody
joins the waiters meanwhile and all who are left are called (`BroadcastCalls`); a set flag
has a broadcaster (`FlagHasOwner`), which is not the one that has been released, because
then nobody waits; so the one who counts down to zero is the last of all and its event
goes to that broadcaster (`LastIsLast`).  `ThrownLocks` excludes the broadcaster that
threw: after it nobody enters the critical section. `WinCondImplements` needs one fact
more, `OnlyCalledWake`: without `signal()` the semaphore has exactly one count for each
called thread that is still queued, so that nobody else gets through.  `Lock` and `Relock`
map to `Lock`, `Queue` to `Wait`, `Broadcast` to `Broadcast`, the wake-up of a thread that
no broadcast has called to `WakeUp`, and the rest stutters.

`GroupProofs` proves `RanksDiffer`, `CountsAreRight` and `BarriersHold` for any tasks,
groups, workers and policies, under `GroupsAreWhole`: a group has as many tasks as its
size says.  Ranks: the token is the number of active tasks (`Tokens`), and while a group
is being spawned, which is when its tasks are in two rounds (`Rounds`), all ranks are
below it, so that the next one is new.  Barriers: `Opened(t)` are the barriers of its
round that t has entered and that have been opened.  All tasks of a round agree on it
(`Opening`), because a barrier opens when the count says that all but one wait, and the
count is exactly those who wait in the present phase (`Count`): a task left behind in
the phase before would be missing from it.  `Queued` is needed for the stealing barrier:
what is taken from the queue is a ready task and not one that waits.

`StartUpProofs` proves `NobodyStartsEarly`, `ConstructorIsRight` and `NobodySleepsOn`
for any number of queues, any threads per queue - none included - and both barriers.
`Creation` counts the iterations of the constructor's two loops that are behind it:
their number is `index + 1`, and a queue has as many threads as iterations of its own,
so that at the end `index` is the last identifier and no table entry is left out.
`Gate` says that while somebody has not arrived nobody is beyond the barrier and its
count is the number of those who have; `Opener` that one thread opens it, and is still
going to wake whoever sleeps on the old phase.  A thread publishes its attributes before
it arrives (`Published`), which gives the first theorem; `startCount` is the number of
threads that are at work, which gives the second.

`LoopsProofs` proves `SplitPartitions` about `space_1D`, for every width and base
case: no subtraction or addition wraps around, the split point is strictly inside,
and the halves partition the space.  On it rest three theorems about the tasks of a
loop, for any space, any width, base case and number of workers, whatever their
schedule and whatever is thrown.  The tasks are a tree by their paths, in which all
below a complete task are complete (`Tree`); a task has its children in `kids` until it
has waited for them (`Family`); a task is on one stack, and only the one on top moves
(`Stacks`); one that has applied what it had has an empty space (`Progress`).
`Partition` says that an index is in one space, or has been applied once:
`NoIndexIsLost`.  With the root complete all tasks are, so that all spaces are empty
and every index has been applied when the wait returns: `ReturnsWhenApplied`.  A wait
returns only for a complete root (`Returned`), and a task that has stored an exception
never completes.  For `ReductionsKeepTheOrder`
the invariant has to remember what a task was given: there are original spaces such
that what a task has accumulated, what is left of its space and what its children were
given, the last one first, lie one behind the other (`Ordered`).  Most actions are
`Calm`, they create no task and apply nothing; the others split a space, apply one or
join the last child.

The second part of `PlatformProofs` proves, for any number of threads and any width of the
word, that the operations implement `AtomicWord` if they are used by a discipline that is
`Sound` (`OperationsAreAtomic`).  An operation takes effect where it writes, or reads and
does not write; the invariant says that what a thread has read is still in the word when it
writes (`Fresh`).  This holds because whoever is between the read and the write either holds
the mutex of its operation (`Holds`), and no other thread uses another one, or adds to a word
that no other thread modifies (`Exclusion`).  `Sound` is exactly that; the library's uses
outside it fail, as `platform_library` shows.  On x86 every discipline is sound, so that
`LockedOperationsAreAtomic` has no hypothesis but the platform: this is what the other
modules, whose atomic operations are single steps, rest on.
`FlagsFollowTheirData` is about the fenced accesses: a store of data that is still on its
way belongs to the one publisher, which has not posted a flag for it (`Posted`), so that a
flag in memory never exceeds the data there; behind the fence of the read nothing that was
loaded early is left, and what is read then is as new as the flag (`Seen`).

`InterfacesProofs` is about the programs on the two interfaces.  Both are trees of calls
that are named by their paths, so that the module begins with what front, last element
and prefixes of a path are.  It also begins with recursion.  The values of `Fib`,
`Offset` and `Packed` are recursive functions, each the one that `CHOOSE` finds for its
equation, and nothing is known of it before one such function exists.
`RecursionExists` builds it for any set, from `NatSetInduction`, which is induction for a
set in the place of a predicate and comes from the well-foundedness of `<`.

Of the C program it proves the three properties for any numbers, any formats and sizes of
types, and both ways of collecting tasks.  `PackedFacts` is the packing: by induction over
the format a prefix of the buffer is what has been packed, so that its length is the
computed size and what lies at the offset of an argument is that argument.
`CallsGetTheirArguments` follows, for a buffer is what was packed until it is unpacked and
freed (`BufferInv`).  For `CallsUseWhatIsAlive` the invariant says where the two calls that
a call makes are by the place of that call: before it calls there are none, at its join
both exist, and when it has returned they have too, and the handle is cleared
(`FamilyInv`); all calls that an active call is part of are at their joins (`TreeInv`);
the event of an active handle is incomplete (`EventInv`); and where main is says which of
its tasks it has spawned and which it has received (`MainInv`).  While a call runs,
everything on its path is therefore still waiting for it, main included.
`CallsComputeTheirNumbers` adds that a number is that of the caller less one or two, is
bounded by the length of the path, and has its Fibonacci number as result once the call
has returned (`NumberInv`).

Of the C++ program it proves `TasksFindTheirFrames` - up to the store that completes a task,
for beyond it the root task may find nothing, as `matmult_root` shows - and
`ProductsAreRight` for any matrices and base cases for which `main`'s assertion and its
power of two make halves equal down to the base case.  `step[c]`, the batch and the quadrant
a call is at, says exactly which of its parts have begun and which have ended (`PartsInv`).
Here a handle is used twice: it could be complete from the first batch while the task of the
second runs, but the second batch begins only when all of the first is over
(`OneAfterTheOther`, `SharedHandle`).  For the product, a call *owns* its block of C if it
does not divide it and is of the present batch of a call that does (`Owns`).  The blocks
that are owned are disjoint (`BlocksInv`), and each element of one has exactly the terms
that come before the columns of A its owner multiplies, or up to their end when the owner
has returned (`CellsInv`).  Only three steps change who owns what (`BlocksMove`): a call
hands its block to its first batch (`EnterBlocks`), the first batch to the second
(`BatchBlocks`), and the second back to the call (`JoinBlocks`); that the quadrants make up
the block and that the second half of the columns follows the first is `QuarterFacts`.
`StoreBlocks` is the base case, which adds its terms to its own block.

The assumptions about the constants are those of the modules: that threads and
tasks differ, that a worker has a queue, that the parent of a handle is a task or
the main program and attributes are attributes, and `ForestAssumption`.  In
`Loops` the base case is at least 1: with 0, which the code does not exclude, a
space of one index would be split for ever.  TLC evaluates all of them on every
run.  The types an invariant needs are stated with it and proved; a run checks one
only where a bug could break it and nothing else shows it.

In `Atomics` the arguments are operations on words, disciplines are disciplines in which at
most one thread publishes, and half the range of a word, `2 ^ (Bits - 1)`, is a positive
number, which the provers, who do not know powers, could not tell.

In `CInterface` no number exceeds `MaxDepth`, which bounds the paths, and the sizes of
types are positive.  In `MatMult` halving the dimension `MaxSplits` times reaches the base
case, and every dimension above the base case is even, as `get_closest_power_of_2()`
ensures; for a power of two and a base case there is such a `MaxSplits`.  The base case is
at least 1: `main` accepts 0 as well, and then a matrix of one element would be split into
four of none.

Only model-checked:

- liveness (`SomebodyGetsIt`, `Termination`, `EverybodyReturns`, `EverybodyStarts`,
  `EverybodyFinishes`, `LoopEnds`, `BroadcastReturns`), which is outside the prover's
  reach, for it would need ENABLED and fairness.

Every invariant that a passing run checks is stated by a theorem.  Those about `TaskMgr`
and `OperationsAreAtomic` have the hypotheses above, and the event's need `ReuseAfterWake`.

## Not modelled, and the plan

What could be added next: tests of grouped tasks, each of which leaves the group again
(`task.hpp:144`); several waiters of a nested task, whose event `get_task()` tests
twice; user functions that catch what a wait throws; two task managers of one thread,
of which the second replaces the identity (`pfunc_thread_self_id`) the first looks
attributes up with.

Left out for good: the system's own mutexes, condition variables and threads, PAPI
counters, the configuration of the build, the setters and getters of the interfaces,
the table of threads of builds without thread local storage (an unguarded map), and
functions with nothing to explore: `wait_any` of the C interface returns at once, that
of C++ calls a function that does not exist, the C++ `test_all` writes every result to
one place and returns the last, and `BARRIER_WAIT` has no code.

What the repository says of the atomic operations and what the models follow, the code,
differ in more than `platform_library` shows: a compare-and-swap that succeeds returns the
new value in `pfunc_atomics.h:74` and in `generic.h`, the old one on x86 and Windows;
`sync.tex` puts the fence of a read before it and that of a write after it, while the code
does the reverse, so that a program that writes one word and then reads another gets no
order from them; and the operations on 64 bits that `sync.tex` describes do not exist.
