----------------------------- MODULE CInterface -----------------------------
(***************************************************************************)
(* The C interface (src/lib/pfunc_c.cpp) and the packing of arguments      *)
(* under the program it was written for: parallel_fib() of the tutorial    *)
(* (src/tutorial/pack.tex), called by a main program that sets the global  *)
(* task manager up, collects its tasks and takes everything down again.    *)
(*                                                                         *)
(* A call of parallel_fib() is named by its path: <<i>> is the task main   *)
(* spawns for Numbers[i], Append(c, 1) the call that c spawns and          *)
(* Append(c, 2) the one it makes itself.  Threads and queues are those of  *)
(* ForkJoin, which TaskMgr implements: a spawned task is started some time *)
(* later and runs beside everything else.  Attributes are the default      *)
(* ones, no rank is asked for, and memory can always be allocated.         *)
(***************************************************************************)
EXTENDS Integers, Pack

CONSTANTS
  Numbers,   \* the arguments of the tasks main spawns
  Formats,   \* what is packed: "int, int*" and further arguments
  ABIs,      \* the sizes of the types
  MaxDepth   \* bound: no path is longer

ASSUME NumbersAssumption ==
  /\ Numbers \in Seq(Nat) /\ Numbers # <<>>
  /\ MaxDepth \in Nat \ {0} /\ \A i \in DOMAIN Numbers : Numbers[i] <= MaxDepth

ASSUME FormatsAssumption ==
  /\ \A f \in Formats : f \in Seq([base : Bases, stars : Nat])
  /\ \A a \in ABIs : /\ a.int \in Nat \ {0} /\ a.long \in Nat \ {0}
                    /\ a.pointer \in Nat \ {0} /\ a.double \in Nat \ {0}

VARIABLES
  abi, format,  \* never change
  method,       \* how main collects its tasks; never changes
  mgr,          \* whether the task manager exists
  global,       \* whether the global task manager is set
  main,         \* where the main program is
  next,         \* the index of the loop main is in
  completed,    \* the array that test_all fills
  pc,           \* where each call is
  event,        \* the handle of a spawned call, and the state of its event
  buffer,       \* the buffer a call's arguments are packed into
  got,          \* what a call has unpacked
  number,       \* the value that its first argument stands for
  result        \* what it has written through its second argument

vars == <<abi, format, method, mgr, global, main, next, completed, pc, event, buffer, got, number, result>>
fixed == <<abi, format, method>>
mainVars == <<mgr, global, main, next, completed>>

-----------------------------------------------------------------------------
\* The program.
Fib[n \in Nat] == IF n < 2 THEN n ELSE Fib[n - 1] + Fib[n - 2]

\* The paths.
Calls == {c \in SeqOf(1 .. Len(Numbers) + 1, MaxDepth) :
            c # <<>> /\ c[1] \in DOMAIN Numbers /\ \A k \in 2 .. Len(c) : c[k] \in {1, 2}}

Roots == {<<i>> : i \in DOMAIN Numbers}
Handles == Roots \cup {c \in Calls : Last(c) = 1}
Spawned(c) == Append(c, 1)
Inline(c) == Append(c, 2)

\* An argument is the call it is for and its place in the format.
Arguments(c) == [i \in DOMAIN format |-> <<c, i>>]

NoNumber == -1
NoResult == -1
Freed == << <<>> >>

Init ==
  /\ abi \in ABIs /\ format \in Formats /\ method \in {"wait_all", "test_all"}
  /\ mgr = FALSE /\ global = FALSE
  /\ main = "init" /\ next = 1
  /\ completed = [i \in DOMAIN Numbers |-> FALSE]
  /\ pc = [c \in Calls |-> "none"]
  /\ event = [h \in Handles |-> "none"]
  /\ buffer = [c \in Calls |-> <<>>]
  /\ got = [c \in Calls |-> <<>>]
  /\ number = [c \in Calls |-> NoNumber]
  /\ result = [c \in Calls |-> NoResult]

-----------------------------------------------------------------------------
\* pfunc_pack() for a call.
PackFor(c) == Packed(abi, format, Arguments(c))

\* pfunc_cilk_task_init() and spawn_c_gbl(), with what the caller has packed.
SpawnGlobal(h) ==
  /\ event' = [event EXCEPT ![h] = "incomplete"]
  /\ buffer' = [buffer EXCEPT ![h] = PackFor(h)]

TaskMgrInit == mgr' = TRUE
TaskMgrClear == mgr' = FALSE

\* pfunc_cilk_init() refuses a task manager that does not exist, and
\* pfunc_cilk_clear() to clear what is not set; both return a code only.
GlobalInit == global' = (global \/ mgr')
GlobalClear == global' = FALSE

MainInit ==
  /\ main = "init"
  /\ TaskMgrInit /\ GlobalInit
  /\ main' = "spawn"
  /\ UNCHANGED <<fixed, next, completed, pc, event, buffer, got, number, result>>

\* pfunc_pack() refuses the format; main does not spawn.
MainRefused ==
  /\ main = "spawn" /\ ~Valid(format)
  /\ main' = "clear"
  /\ UNCHANGED <<fixed, mgr, global, next, completed, pc, event, buffer, got, number, result>>

MainSpawn ==
  /\ main = "spawn" /\ Valid(format)
  /\ SpawnGlobal(<<next>>)
  /\ number' = [number EXCEPT ![<<next>>] = Numbers[next]]
  /\ pc' = [pc EXCEPT ![<<next>>] = "ready"]
  /\ next' = IF next = Len(Numbers) THEN 1 ELSE next + 1
  /\ main' = IF next = Len(Numbers) THEN "collect" ELSE "spawn"
  /\ UNCHANGED <<fixed, mgr, global, completed, got, result>>

\* test() of a handle's event: the only waiter receives the completion.
TestPasses(h) == event[h] # "incomplete"
Received(h) == [event EXCEPT ![h] = "inactive"]

\* One turn of the loop of pfunc_cilk_wait_all_gbl(): one task after the other.
MainWait ==
  /\ main = "collect" /\ method = "wait_all"
  /\ TestPasses(<<next>>)
  /\ event' = Received(<<next>>)
  /\ next' = IF next = Len(Numbers) THEN 1 ELSE next + 1
  /\ main' = IF next = Len(Numbers) THEN "collected" ELSE "collect"
  /\ UNCHANGED <<fixed, mgr, global, completed, pc, buffer, got, number, result>>

\* Fault: the result of the last test stands for all.
LastIsComplete(flags) == flags[Len(Numbers)]

\* What main looks for in the array.
AllAreComplete(flags) == \A i \in DOMAIN flags : flags[i]

\* One turn of the loop of pfunc_cilk_test_all_gbl(), called until all are complete.
MainTest ==
  /\ main = "collect" /\ method = "test_all"
  /\ completed' = [completed EXCEPT ![next] = TestPasses(<<next>>)]
  /\ event' = IF TestPasses(<<next>>) THEN Received(<<next>>) ELSE event
  /\ next' = IF next = Len(Numbers) THEN 1 ELSE next + 1
  /\ main' = IF next = Len(Numbers) /\ AllAreComplete(completed') THEN "collected" ELSE "collect"
  /\ UNCHANGED <<fixed, mgr, global, pc, buffer, got, number, result>>

\* pfunc_cilk_task_clear() of every handle.
MainClearTasks ==
  /\ main = "collected"
  /\ event' = [h \in Handles |-> IF h \in Roots THEN "cleared" ELSE event[h]]
  /\ main' = "clear"
  /\ UNCHANGED <<fixed, mgr, global, next, completed, pc, buffer, got, number, result>>

MainClear ==
  /\ main = "clear"
  /\ GlobalClear /\ TaskMgrClear
  /\ main' = "end"
  /\ UNCHANGED <<fixed, next, completed, pc, event, buffer, got, number, result>>

MainStep ==
  \/ MainInit \/ MainRefused \/ MainSpawn \/ MainWait \/ MainTest
  \/ MainClearTasks \/ MainClear

-----------------------------------------------------------------------------
\* run() of a spawned task on some worker.
Start(h) ==
  /\ pc[h] = "ready"
  /\ pc' = [pc EXCEPT ![h] = "unpack"]
  /\ UNCHANGED <<fixed, mainVars, event, buffer, got, number, result>>

\* pfunc_unpack() copies the arguments and frees the buffer.
Unpack(c) ==
  /\ pc[c] = "unpack"
  /\ got' = [got EXCEPT ![c] = Unpacked(abi, format, buffer[c])]
  /\ buffer' = [buffer EXCEPT ![c] = Freed]
  /\ pc' = [pc EXCEPT ![c] = "branch"]
  /\ UNCHANGED <<fixed, mainVars, event, number, result>>

\* The arguments of an inner call: packed together, the first one spawned.
Branch(c) ==
  /\ pc[c] = "branch" /\ number[c] >= 2
  /\ number' = [number EXCEPT ![Spawned(c)] = number[c] - 1, ![Inline(c)] = number[c] - 2]
  /\ event' = [event EXCEPT ![Spawned(c)] = "incomplete"]
  /\ buffer' = [buffer EXCEPT ![Spawned(c)] = PackFor(Spawned(c)),
                              ![Inline(c)] = PackFor(Inline(c))]
  /\ pc' = [pc EXCEPT ![c] = "inline", ![Spawned(c)] = "ready", ![Inline(c)] = "unpack"]
  /\ UNCHANGED <<fixed, mainVars, got, result>>

BaseCase(c) ==
  /\ pc[c] = "branch" /\ number[c] < 2
  /\ result' = [result EXCEPT ![c] = number[c]]
  /\ pc' = [pc EXCEPT ![c] = "return"]
  /\ UNCHANGED <<fixed, mainVars, event, buffer, got, number>>

\* Fault: the sum is taken without a wait for the spawned call.
JoinEarly(c) ==
  /\ pc[c] = "inline" /\ pc[Inline(c)] = "return"
  /\ event' = [event EXCEPT ![Spawned(c)] = "cleared"]
  /\ result' = [result EXCEPT ![c] = result[Spawned(c)] + result[Inline(c)]]
  /\ pc' = [pc EXCEPT ![c] = "return"]
  /\ UNCHANGED <<fixed, mainVars, buffer, got, number>>

\* The call made in place has returned; wait_gbl() and task_clear().
Join(c) ==
  /\ pc[c] = "inline" /\ pc[Inline(c)] = "return"
  /\ TestPasses(Spawned(c))
  /\ event' = [event EXCEPT ![Spawned(c)] = "cleared"]
  /\ result' = [result EXCEPT ![c] = result[Spawned(c)] + result[Inline(c)]]
  /\ pc' = [pc EXCEPT ![c] = "return"]
  /\ UNCHANGED <<fixed, mainVars, buffer, got, number>>

\* The worker notifies when the spawned call has returned.
Notify(h) ==
  /\ pc[h] = "return" /\ event[h] = "incomplete"
  /\ event' = [event EXCEPT ![h] = "complete"]
  /\ UNCHANGED <<fixed, mainVars, pc, buffer, got, number, result>>

CallStep(c) == Unpack(c) \/ Branch(c) \/ BaseCase(c) \/ Join(c)
TaskStep(h) == Start(h) \/ Notify(h)

Ended == main = "end" /\ UNCHANGED vars

Next ==
  \/ MainStep
  \/ \E c \in Calls : CallStep(c)
  \/ \E h \in Handles : TaskStep(h)
  \/ Ended

Spec == Init /\ [][Next]_vars

-----------------------------------------------------------------------------
\* A function unpacks what was packed for it, whole, from a buffer of the
\* size computed from the format (pfunc_pack.cpp:313-481, 483-644).
ArgumentsArrive ==
  \A c \in Calls :
    /\ buffer[c] \notin {<<>>, Freed} => Len(buffer[c]) = BufferSize(abi, format)
    /\ got[c] # <<>> =>
         got[c] = [i \in DOMAIN format |-> Bytes(<<c, i>>, Width(abi, format[i]))]

\* A call that still runs has a task manager to call through, its own handle
\* and those of the calls it is part of (pfunc_c.cpp:600-745).
UsesAreAlive ==
  \A c \in Calls : pc[c] \in {"ready", "unpack", "branch", "inline"} =>
    /\ mgr /\ global
    /\ \A k \in 1 .. Len(c) :
         SubSeq(c, 1, k) \in Handles => event[SubSeq(c, 1, k)] = "incomplete"

\* What is read is right: a call returns with its number, and main ends with
\* the numbers it asked for, every call that was made returned, its buffer
\* freed and its handle cleared (pack.tex:25-55, pfunc_c.cpp:336-406).
ResultsAreRight ==
  /\ \A c \in Calls : pc[c] = "return" => result[c] = Fib[number[c]]
  /\ main = "end" /\ Valid(format) =>
       /\ \A i \in DOMAIN Numbers : pc[<<i>>] = "return" /\ number[<<i>>] = Numbers[i]
       /\ \A c \in Calls : \/ pc[c] = "none" /\ buffer[c] = <<>>
                           \/ pc[c] = "return" /\ buffer[c] = Freed
       /\ \A h \in Handles : event[h] = IF pc[h] = "none" THEN "none" ELSE "cleared"
=============================================================================
