------------------------------ MODULE Atomics ------------------------------
(***************************************************************************)
(* The atomic operations of src/pfunc/asm/ on one word, as the platforms   *)
(* execute them, and the fences of their reads and writes.                 *)
(*                                                                         *)
(* x86.h uses one locked instruction per operation.  win.h does too, but   *)
(* for its xadd, which without the lock prefix reads and writes the word   *)
(* in two accesses.  generic.h, which PowerPC uses, has a mutex for each   *)
(* operation and width: two calls of one operation exclude each other, two *)
(* different operations do not.  (The mutexes are static, one set for each *)
(* translation unit; the callers here are in one.)  Which threads may call *)
(* which operation is therefore part of what makes them atomic: the        *)
(* discipline.                                                             *)
(*                                                                         *)
(* A store leaves its thread some time before it is in memory, two stores  *)
(* in any order, and a load may be executed ahead of those before it; a    *)
(* fence waits until the stores are in memory, and no load passes it.      *)
(***************************************************************************)
EXTENDS Integers

CONSTANTS
  Callers,       \* the threads
  NoCaller,      \* not a thread
  Bits,          \* the width of a word, one at least
  Arguments,     \* the operations, with their arguments, that are called
  Disciplines,   \* records of a platform and of the threads that may call each operation
  MaxRounds      \* bound: how often data are published

Platforms == {"x86", "win", "generic"}
Modifying == {"cas", "fas", "faa"}
Calls == Modifying \cup {"read", "publish", "collect"}

VARIABLES
  discipline,  \* never changes
  word,
  lock,        \* who holds the mutex of each operation
  point,       \* where each thread is
  op,          \* the operation it executes
  reg,         \* what it has loaded, and its result
  memory,      \* two more words, the published data and the flag that says so
  posted,      \* the stores of each thread that are not in memory yet
  seen,        \* the flag and the data each thread has read
  early        \* the data that a thread has loaded ahead of the flag, if any

atomicsVars == <<discipline, word, lock, point, op, reg, memory, posted, seen, early>>
wordVars == <<word, lock, op, reg>>
fenceVars == <<memory, posted, seen, early>>

\* The cmpxchg of x86 and Windows returns what it found, the header's code and
\* the portable one what it left.  A caller that knows comprnd can tell the one
\* from the other: this is what the header's code would have returned.
Outcome(t) ==
  IF op[t].name = "cas" /\ discipline.platform # "generic" /\ reg[t] = op[t].comprnd
    THEN op[t].exchg
    ELSE reg[t]

CallOf(t) ==
  IF point[t] \in {"execute", "load", "lock", "critical", "store"}
    THEN [at |-> "pending", op |-> op[t]]
  ELSE IF point[t] \in {"unlock", "return"} THEN [at |-> "done", result |-> Outcome(t)]
  ELSE [at |-> "out"]

A == INSTANCE AtomicWord WITH
  Threads <- Callers, call <- [t \in Callers |-> CallOf(t)]

\* The disciplines under which the operations are atomic together.  On x86 any
\* is; on Windows nobody may change a word that another thread adds to, and
\* with mutexes no two threads may call different operations.  The library
\* goes beyond both (taskmgr.hpp:644, event.hpp:67 and 98, group.hpp:80-89;
\* mutex.hpp:33-60).
Sound(d) ==
  /\ d.platform = "win" =>
       \A t \in d.may["faa"], u \in UNION {d.may[n] : n \in Modifying} : t = u
  /\ d.platform = "generic" =>
       \A m, n \in Modifying : m # n => \A t \in d.may[m], u \in d.may[n] : t = u

ASSUME ConstantsAssumption ==
  /\ NoCaller \notin Callers
  /\ A!Half \in Nat \ {0}
  /\ Arguments \subseteq A!Operations
  /\ Disciplines \subseteq [platform : Platforms, may : [Calls -> SUBSET Callers]]
  /\ \A d \in Disciplines : \A t, u \in d.may["publish"] : t = u
  /\ MaxRounds \in Nat

NoOperation == [name |-> "none"]

AtomicsInit ==
  /\ discipline \in Disciplines
  /\ word = 0
  /\ lock = [name \in Modifying |-> NoCaller]
  /\ point = [t \in Callers |-> "out"]
  /\ op = [t \in Callers |-> NoOperation]
  /\ reg = [t \in Callers |-> 0]
  /\ memory = [data |-> 0, flag |-> 0]
  /\ posted = [t \in Callers |-> {}]
  /\ seen = [t \in Callers |-> [flag |-> 0, data |-> 0]]
  /\ early = [t \in Callers |-> {}]

Move(t, from, to) ==
  /\ point[t] = from
  /\ point' = [point EXCEPT ![t] = to]

Fenced(t) == posted[t] = {}

-----------------------------------------------------------------------------
\* How a platform executes an operation: in one instruction, in two accesses,
\* or under the operation's mutex.
FirstStep(name) ==
  CASE name = "read" -> "load"
    [] name \in Modifying /\ discipline.platform = "generic" -> "lock"
    [] name = "faa" /\ discipline.platform = "win" -> "load"
    [] OTHER -> "execute"

Call(t) ==
  \E o \in Arguments :
    /\ t \in discipline.may[o.name]
    /\ Move(t, "out", FirstStep(o.name))
    /\ op' = [op EXCEPT ![t] = o]
    /\ UNCHANGED <<discipline, word, lock, reg, fenceVars>>

\* lock cmpxchg, xchg and lock xadd, and the Interlocked functions.
Execute(t) ==
  /\ Move(t, "execute", "return")
  /\ word' = A!After(op[t], word)
  /\ reg' = [reg EXCEPT ![t] = word]
  /\ UNCHANGED <<discipline, lock, op, fenceVars>>

\* pfunc_read_with_fence, and the first access of an xadd without a lock.
Load(t) ==
  /\ Move(t, "load", IF op[t].name = "read" THEN "return" ELSE "store")
  /\ reg' = [reg EXCEPT ![t] = word]
  /\ UNCHANGED <<discipline, word, lock, op, fenceVars>>

\* Fault: all operations are executed without their mutex.
LockForgotten(t) ==
  /\ Move(t, "lock", "critical")
  /\ UNCHANGED <<discipline, wordVars, fenceVars>>

\* pthread_mutex_lock of the operation's own mutex.
LockMutex(t) ==
  /\ Move(t, "lock", "critical")
  /\ lock[op[t].name] = NoCaller
  /\ lock' = [lock EXCEPT ![op[t].name] = t]
  /\ UNCHANGED <<discipline, word, op, reg, fenceVars>>

\* The word is read in the critical section; a compare-and-swap that fails
\* has its result.
LoadLocked(t) ==
  /\ Move(t, "critical",
          IF op[t].name = "cas" /\ op[t].comprnd # word THEN "unlock" ELSE "store")
  /\ reg' = [reg EXCEPT ![t] = word]
  /\ UNCHANGED <<discipline, word, lock, op, fenceVars>>

\* The word is written; the result of a compare-and-swap under a mutex is
\* the new value.
Store(t) ==
  /\ Move(t, "store", IF discipline.platform = "generic" THEN "unlock" ELSE "return")
  /\ word' = A!After(op[t], reg[t])
  /\ reg' = IF op[t].name = "cas" THEN [reg EXCEPT ![t] = op[t].exchg] ELSE reg
  /\ UNCHANGED <<discipline, lock, op, fenceVars>>

UnlockMutex(t) ==
  /\ Move(t, "unlock", "return")
  /\ lock' = [lock EXCEPT ![op[t].name] = NoCaller]
  /\ UNCHANGED <<discipline, word, op, reg, fenceVars>>

Return(t) ==
  /\ Move(t, "return", "out")
  /\ op' = [op EXCEPT ![t] = NoOperation] /\ reg' = [reg EXCEPT ![t] = 0]
  /\ UNCHANGED <<discipline, word, lock, fenceVars>>

-----------------------------------------------------------------------------
\* A thread writes its data ...
Publish(t) ==
  /\ t \in discipline.may["publish"] /\ memory.data < MaxRounds
  /\ Move(t, "out", "write")
  /\ posted' = [posted EXCEPT ![t] = @ \cup {[at |-> "data", value |-> memory.data + 1]}]
  /\ UNCHANGED <<discipline, wordVars, memory, seen, early>>

\* Fault: the write that sets the flag has no fence before it.
WriteUnfenced(t) ==
  /\ Move(t, "write", "out")
  /\ posted' = [posted EXCEPT ![t] = @ \cup {[at |-> "flag", value |-> memory.flag + 1]}]
  /\ UNCHANGED <<discipline, wordVars, memory, seen, early>>

\* ... and sets the flag with pfunc_write_with_fence: the fence, then the store.
WriteWithFence(t) ==
  /\ Fenced(t)
  /\ Move(t, "write", "out")
  /\ posted' = [posted EXCEPT ![t] = @ \cup {[at |-> "flag", value |-> memory.data]}]
  /\ UNCHANGED <<discipline, wordVars, memory, seen, early>>

\* A store reaches the memory.
Drain(t) ==
  \E store \in posted[t] :
    /\ memory' = [memory EXCEPT ![store.at] = store.value]
    /\ posted' = [posted EXCEPT ![t] = @ \ {store}]
    /\ UNCHANGED <<discipline, wordVars, point, seen, early>>

\* A reader's processor executes the load of the data before its turn.
LoadAhead(t) ==
  /\ t \in discipline.may["collect"] /\ point[t] \in {"out", "fence"}
  /\ early' = [early EXCEPT ![t] = {memory.data}]
  /\ UNCHANGED <<discipline, wordVars, point, memory, posted, seen>>

\* A reader of the flag: pfunc_read_with_fence, the load ...
ReadFlag(t) ==
  /\ t \in discipline.may["collect"]
  /\ Move(t, "out", "fence")
  /\ seen' = [seen EXCEPT ![t].flag = memory.flag]
  /\ UNCHANGED <<discipline, wordVars, memory, posted, early>>

\* Fault: the read has no fence after it.
FenceForgotten(t) ==
  /\ Move(t, "fence", "read")
  /\ UNCHANGED <<discipline, wordVars, fenceVars>>

\* ... then the fence, after which the data have to be loaded (again) ...
ReadFence(t) ==
  /\ Fenced(t)
  /\ Move(t, "fence", "read")
  /\ early' = [early EXCEPT ![t] = {}]
  /\ UNCHANGED <<discipline, wordVars, memory, posted, seen>>

\* ... and then the data.
Collect(t) ==
  /\ Move(t, "read", "out")
  /\ \E value \in IF early[t] = {} THEN {memory.data} ELSE early[t] :
       seen' = [seen EXCEPT ![t].data = value]
  /\ early' = [early EXCEPT ![t] = {}]
  /\ UNCHANGED <<discipline, wordVars, memory, posted>>

AtomicsStep(t) ==
  \/ Call(t) \/ Execute(t) \/ Load(t)
  \/ LockMutex(t) \/ LoadLocked(t) \/ Store(t) \/ UnlockMutex(t) \/ Return(t)
  \/ Publish(t) \/ WriteWithFence(t) \/ Drain(t)
  \/ LoadAhead(t) \/ ReadFlag(t) \/ ReadFence(t) \/ Collect(t)

AtomicsNext == \E t \in Callers : AtomicsStep(t)

AtomicsSpec == AtomicsInit /\ [][AtomicsNext]_atomicsVars

-----------------------------------------------------------------------------
\* The operations are atomic: a step of the platform is a step of the word the
\* header describes, or none, up to how a compare-and-swap says what it did
\* (pfunc_atomics.h:29-180).
ImplementsAtomicWord == A!Spec

\* Who has seen the flag sees the data it was set for, whatever the order in
\* which stores reach the memory and loads are executed (pfunc_atomics.h:182-224).
PublishedDataAreSeen ==
  \A t \in Callers : point[t] = "out" => seen[t].data >= seen[t].flag
=============================================================================
