--------------------------- MODULE PlatformProofs ---------------------------
(***************************************************************************)
(* Proofs about the two components under the others that are algorithms of *)
(* their own: the condition variable of Windows and the atomic operations. *)
(***************************************************************************)
EXTENDS WinCond, Atomics, FiniteSetTheorems, TLAPS

-----------------------------------------------------------------------------
(***************************************************************************)
(* The condition variable, for any number of threads and any size of the   *)
(* semaphore, with and without signal().  The argument is about the        *)
(* broadcaster: from its broadcast() to the event it waits for it holds    *)
(* the mutex, so that nobody joins the waiters, and all who are left are   *)
(* waiters it has called.  The last of them to count itself down therefore *)
(* is the last one of all, and the only one.                               *)
(***************************************************************************)
Waiting == At({"queued", "awake"})
Counted == At({"counted", "queued", "awake"})
CalledQueue == At({"queued"}) \cap called

Places == {"idle", "critical", "counted", "queued", "awake", "last", "relock",
           "signal", "broadcast", "released", "thrown"}

\* TypeOK, the count of the waiters apart.
Kinds ==
  /\ signals \in BOOLEAN /\ was_broadcast \in BOOLEAN /\ all_awake \in BOOLEAN
  /\ pc \in [Threads -> Places]
  /\ owner \in Threads \cup {NoThread}
  /\ section \in Threads \cup {NoThread}
  /\ section # NoThread => pc[section] = "thrown"
  /\ thread_queue \in 0 .. MaxCount
  /\ \A t \in called : t \in Threads /\ pc[t] \in {"queued", "awake", "last", "relock"}

CountIsRight == num_waiters = Cardinality(Counted)

\* Who is in one of these places holds the mutex.
OwnerHolds ==
  \A t \in Threads : pc[t] \in {"critical", "counted", "broadcast", "released", "thrown"} => owner = t

\* A thread that has thrown has left num_waiters_lock locked.
ThrownLocks == \A t \in Threads : pc[t] = "thrown" => section # NoThread

\* The flag is set by a broadcaster that has not reset it.
FlagHasOwner ==
  was_broadcast => \E b \in Threads : pc[b] \in {"broadcast", "released", "thrown"}

\* A broadcaster waits for threads it has called, and for no others.
BroadcastCalls ==
  /\ \A b \in Threads : pc[b] = "broadcast" => Waiting \subseteq called
  /\ Waiting \cap called # {} => \E b \in Threads : pc[b] = "broadcast"

\* The last waiter is the last one, and the event is its message to the
\* broadcaster.
LastIsLast ==
  /\ \A s, t \in Threads : pc[s] = "last" /\ pc[t] = "last" => s = t
  /\ \A t \in Threads : pc[t] = "last" =>
       ~all_awake /\ Waiting = {} /\ \E b \in Threads : pc[b] = "broadcast"
  /\ all_awake => Waiting = {} /\ \E b \in Threads : pc[b] = "broadcast"
  /\ \A t \in Threads : pc[t] = "released" => Waiting = {}

\* Without signal() the semaphore has a count for every thread that has been
\* called and is still queued there, and nobody else passes it.
OnlyCalledWake ==
  ~signals => /\ \A t \in Threads : pc[t] # "signal"
              /\ thread_queue = Cardinality(CalledQueue)
              /\ At({"awake"}) \subseteq called

Shape == /\ Kinds
         /\ CountIsRight
         /\ OwnerHolds
         /\ ThrownLocks
         /\ FlagHasOwner
         /\ BroadcastCalls
         /\ LastIsLast

IInv == Shape /\ OnlyCalledWake

-----------------------------------------------------------------------------
\* Sets of threads are finite.
LEMMA AtIsFinite ==
  /\ IsFiniteSet(Counted) /\ Cardinality(Counted) \in Nat
  /\ IsFiniteSet(CalledQueue) /\ Cardinality(CalledQueue) \in Nat
<1>1. Counted \subseteq Threads /\ CalledQueue \subseteq Threads
  BY DEF Counted, CalledQueue, At
<1>. QED
  BY <1>1, ThreadsAssumption, FS_Subset, FS_CardinalityType DEF ThreadsAssumption

\* The two parts of TypeOK.
LEMMA TypeOKParts == Kinds /\ CountIsRight => TypeOK
BY DEF Kinds, CountIsRight, TypeOK, Counted, At, Places

\* What a step of one thread does to the places of all.
LEMMA OnlyOneMoves ==
  ASSUME Kinds, NEW t \in Threads, NEW from, NEW to \in Places, Goto(t, from, to)
  PROVE  /\ pc[t] = from /\ pc' \in [Threads -> Places]
         /\ \A u \in Threads : pc'[u] = IF u = t THEN to ELSE pc[u]
BY DEF Kinds, Places, Goto

-----------------------------------------------------------------------------
\* Nobody waits in an initial state.
LEMMA InitIInv == Init => IInv
<1> SUFFICES ASSUME Init PROVE IInv
  OBVIOUS
<1>1. \A t \in Threads : pc[t] = "idle"
  BY DEF Init
<1>2. Counted = {} /\ CalledQueue = {} /\ Waiting = {} /\ At({"awake"}) = {}
  BY <1>1 DEF Counted, CalledQueue, Waiting, At
<1>3. Cardinality(Counted) = 0 /\ Cardinality(CalledQueue) = 0
  BY <1>2, FS_EmptySet
<1>4. Kinds /\ CountIsRight
  <2>1. 0 \in 0 .. MaxCount
    BY MaxCountAssumption
  <2>2. pc \in [Threads -> Places] /\ called = {}
    BY DEF Init, Places
  <2>. QED
    BY <1>3, <2>1, <2>2 DEF Init, Kinds, CountIsRight
<1>5. OwnerHolds /\ ThrownLocks /\ FlagHasOwner
  BY <1>1 DEF Init, OwnerHolds, ThrownLocks, FlagHasOwner
<1>6. BroadcastCalls /\ LastIsLast
  BY <1>1, <1>2 DEF Init, BroadcastCalls, LastIsLast
<1>7. OnlyCalledWake
  BY <1>1, <1>2, <1>3 DEF Init, OnlyCalledWake
<1>. QED
  BY <1>4, <1>5, <1>6, <1>7 DEF IInv, Shape

\* lock() and unlock().
LEMMA LockKeeps ==
  ASSUME Shape, NEW t \in Threads, Lock(t) \/ Unlock(t) \/ Relock(t)
  PROVE  Shape'
<1> USE DEF Shape, Acquire
<1>1. PICK from \in {"idle", "critical", "relock"}, to \in {"idle", "critical"} : Goto(t, from, to)
  BY DEF Lock, Unlock, Relock
<1>2. /\ pc[t] = from /\ pc' \in [Threads -> Places]
      /\ \A u \in Threads : pc'[u] = IF u = t THEN to ELSE pc[u]
  BY <1>1, OnlyOneMoves DEF Places
<1>3. /\ UNCHANGED <<signals, section, num_waiters, thread_queue, all_awake, was_broadcast>>
      /\ called' \in {called, called \ {t}}
      /\ owner' = IF to = "critical" THEN t ELSE NoThread
      /\ (to = "critical" => owner = NoThread) /\ (to = "idle" => from = "critical")
  BY <1>1, <1>2 DEF Lock, Unlock, Relock, Goto
<1>4. Counted' = Counted /\ Waiting' = Waiting /\ t \notin Waiting
  BY <1>2 DEF Counted, Waiting, At
<1>5. Kinds' /\ CountIsRight'
  <2>1. CountIsRight'
    BY <1>3, <1>4 DEF CountIsRight
  <2>2. section' # NoThread => pc'[section'] = "thrown"
    BY <1>2, <1>3 DEF Kinds
  <2>3. \A u \in called' : u \in Threads /\ pc'[u] \in {"queued", "awake", "last", "relock"}
    <3>1. from = "relock" => called' = called \ {t}
      BY <1>1, <1>2 DEF Lock, Unlock, Relock, Goto
    <3>. QED
      BY <1>2, <1>3, <3>1 DEF Kinds
  <2>. QED
    BY <1>2, <1>3, <2>1, <2>2, <2>3 DEF Kinds
<1>6. OwnerHolds'
  BY <1>2, <1>3, ThreadsAssumption DEF OwnerHolds, ThreadsAssumption
<1>7. ThrownLocks' /\ FlagHasOwner'
  BY <1>2, <1>3 DEF ThrownLocks, FlagHasOwner
<1>8. BroadcastCalls'
  BY <1>2, <1>3, <1>4 DEF BroadcastCalls
<1>9. LastIsLast'
  BY <1>2, <1>3, <1>4 DEF LastIsLast
<1>. QED
  BY <1>5, <1>6, <1>7, <1>8, <1>9

\* signal(): the mutex stays where it is.
LEMMA SignalKeeps ==
  ASSUME Shape, NEW t \in Threads, Signal(t) \/ ReleaseOne(t)
  PROVE  Shape'
<1> USE DEF Shape
<1> DEFINE from == pc[t]
           to == pc'[t]
<1>1. /\ pc' \in [Threads -> Places]
      /\ \A u \in Threads \ {t} : pc'[u] = pc[u]
      /\ from \in {"idle", "critical", "signal"} /\ to \in {"idle", "critical", "signal"}
      /\ to = "critical" => owner = t
  BY DEF Signal, ReleaseOne, Goto, Caller, Kinds, Places
<1>2. /\ UNCHANGED <<signals, owner, section, num_waiters, all_awake, was_broadcast, called>>
      /\ thread_queue' \in {thread_queue} \cup {n \in 0 .. MaxCount : n = thread_queue + 1}
  BY MaxCountAssumption DEF Signal, ReleaseOne, Section, ReleaseSemaphore, Fits, Kinds, MaxCountAssumption
<1>3. Counted' = Counted /\ Waiting' = Waiting
  BY <1>1 DEF Counted, Waiting, At
<1>4. Kinds' /\ CountIsRight'
  BY <1>1, <1>2, <1>3 DEF Kinds, CountIsRight
<1>5. OwnerHolds' /\ ThrownLocks' /\ FlagHasOwner'
  BY <1>1, <1>2 DEF OwnerHolds, ThrownLocks, FlagHasOwner
<1>6. BroadcastCalls' /\ LastIsLast'
  BY <1>1, <1>2, <1>3 DEF BroadcastCalls, LastIsLast
<1>. QED
  BY <1>4, <1>5, <1>6

\* wait() up to the semaphore: nobody can get there during a broadcast.
LEMMA CountKeeps ==
  ASSUME Shape, NEW t \in Threads, Count(t)
  PROVE  Shape'
<1> USE DEF Shape
<1>1. /\ pc[t] = "critical" /\ pc' \in [Threads -> Places]
      /\ \A u \in Threads : pc'[u] = IF u = t THEN "counted" ELSE pc[u]
  BY OnlyOneMoves DEF Count, Places
<1>2. /\ UNCHANGED <<signals, owner, section, thread_queue, all_awake, was_broadcast, called>>
      /\ num_waiters' = num_waiters + 1
  BY DEF Count, Section
<1>3. Counted' = Counted \cup {t} /\ t \notin Counted /\ Waiting' = Waiting
  BY <1>1 DEF Counted, Waiting, At
<1>4. CountIsRight'
  BY <1>2, <1>3, AtIsFinite, FS_AddElement DEF CountIsRight
<1>5. Kinds' /\ OwnerHolds' /\ ThrownLocks' /\ FlagHasOwner'
  BY <1>1, <1>2, ThreadsAssumption DEF Kinds, OwnerHolds, ThrownLocks, FlagHasOwner, ThreadsAssumption
<1>6. BroadcastCalls' /\ LastIsLast'
  BY <1>1, <1>2, <1>3 DEF BroadcastCalls, LastIsLast
<1>. QED
  BY <1>4, <1>5, <1>6

LEMMA QueueKeeps ==
  ASSUME Shape, NEW t \in Threads, Queue(t)
  PROVE  Shape'
<1> USE DEF Shape
<1>1. /\ pc[t] = "counted" /\ pc' \in [Threads -> Places]
      /\ \A u \in Threads : pc'[u] = IF u = t THEN "queued" ELSE pc[u]
  BY OnlyOneMoves DEF Queue, Places
<1>2. /\ UNCHANGED <<signals, section, num_waiters, thread_queue, all_awake, was_broadcast, called>>
      /\ owner' = NoThread
  BY DEF Queue
<1>3. Counted' = Counted /\ Waiting' = Waiting \cup {t} /\ t \notin called
  BY <1>1 DEF Counted, Waiting, At, Kinds
\* t holds the mutex, so there is no broadcaster.
<1>4. \A b \in Threads : pc[b] \notin {"critical", "broadcast", "released", "thrown"}
  BY <1>1 DEF OwnerHolds
<1>5. Kinds' /\ CountIsRight'
  BY <1>1, <1>2, <1>3, <1>4 DEF Kinds, CountIsRight
<1>6. OwnerHolds'
  BY <1>1, <1>2, <1>4 DEF OwnerHolds
<1>7. ThrownLocks' /\ FlagHasOwner'
  BY <1>1, <1>2 DEF ThrownLocks, FlagHasOwner
<1>8. BroadcastCalls' /\ LastIsLast'
  BY <1>1, <1>2, <1>3, <1>4 DEF BroadcastCalls, LastIsLast
<1>. QED
  BY <1>5, <1>6, <1>7, <1>8

LEMMA WakeKeeps ==
  ASSUME Shape, NEW t \in Threads, Wake(t)
  PROVE  Shape'
<1> USE DEF Shape
<1>1. /\ pc[t] = "queued" /\ pc' \in [Threads -> Places]
      /\ \A u \in Threads : pc'[u] = IF u = t THEN "awake" ELSE pc[u]
  BY OnlyOneMoves DEF Wake, Places
<1>2. /\ UNCHANGED <<signals, owner, section, num_waiters, all_awake, was_broadcast, called>>
      /\ thread_queue' \in 0 .. MaxCount
  BY MaxCountAssumption DEF Wake, Kinds
<1>3. Counted' = Counted /\ Waiting' = Waiting
  BY <1>1 DEF Counted, Waiting, At
<1>4. Kinds' /\ CountIsRight'
  BY <1>1, <1>2, <1>3 DEF Kinds, CountIsRight
<1>5. OwnerHolds' /\ ThrownLocks' /\ FlagHasOwner'
  BY <1>1, <1>2 DEF OwnerHolds, ThrownLocks, FlagHasOwner
<1>6. BroadcastCalls' /\ LastIsLast'
  BY <1>1, <1>2, <1>3 DEF BroadcastCalls, LastIsLast
<1>. QED
  BY <1>4, <1>5, <1>6

\* The end of a wait: who finds out that it is the last one is the last of all.
LEMMA CountDownKeeps ==
  ASSUME Shape, NEW t \in Threads, CountDown(t)
  PROVE  Shape'
<1> USE DEF Shape
<1> DEFINE to == IF was_broadcast /\ num_waiters = 1 THEN "last" ELSE "relock"
<1>1. /\ pc[t] = "awake" /\ pc' \in [Threads -> Places]
      /\ \A u \in Threads : pc'[u] = IF u = t THEN to ELSE pc[u]
  BY OnlyOneMoves DEF CountDown, Places
<1>2. /\ UNCHANGED <<signals, owner, section, thread_queue, all_awake, was_broadcast, called>>
      /\ num_waiters' = num_waiters - 1 /\ section = NoThread
  BY DEF CountDown, Section
<1>3. /\ Counted' = Counted \ {t} /\ t \in Counted
      /\ Waiting' = Waiting \ {t} /\ t \in Waiting
  BY <1>1 DEF Counted, Waiting, At
<1>4. CountIsRight'
  BY <1>2, <1>3, AtIsFinite, FS_RemoveElement DEF CountIsRight
<1>5. Kinds'
  BY <1>1, <1>2 DEF Kinds
<1>6. OwnerHolds' /\ ThrownLocks' /\ FlagHasOwner'
  BY <1>1, <1>2 DEF OwnerHolds, ThrownLocks, FlagHasOwner
<1>7. BroadcastCalls'
  BY <1>1, <1>2, <1>3 DEF BroadcastCalls
\* A thread that waits excludes everything LastIsLast is about.
<1>8. ~all_awake /\ \A u \in Threads : pc[u] \notin {"last", "released"}
  BY <1>3 DEF LastIsLast
<1>9. to = "last" => Waiting' = {} /\ \E b \in Threads : pc'[b] = "broadcast"
  <2> SUFFICES ASSUME was_broadcast, num_waiters = 1
               PROVE  Waiting' = {} /\ \E b \in Threads : pc'[b] = "broadcast"
    OBVIOUS
  <2>1. Counted' = {}
    <3>1. Cardinality(Counted) = 1
      BY DEF CountIsRight
    <3>2. IsFiniteSet(Counted \ {t}) /\ Cardinality(Counted \ {t}) = 0
      BY <1>3, <3>1, AtIsFinite, FS_RemoveElement
    <3>. QED
      BY <1>3, <3>2, FS_EmptySet
  <2>2. Waiting' = {}
    BY <2>1 DEF Counted, Waiting, At
  <2>3. PICK b \in Threads : pc[b] \in {"broadcast", "released", "thrown"}
    BY DEF FlagHasOwner
  <2>4. pc[b] = "broadcast"
    BY <1>2, <1>8, <2>3 DEF ThrownLocks
  <2>. QED
    BY <1>1, <2>2, <2>4
<1>10. LastIsLast'
  BY <1>1, <1>2, <1>8, <1>9 DEF LastIsLast
<1>. QED
  BY <1>4, <1>5, <1>6, <1>7, <1>10

LEMMA AllAwakeKeeps ==
  ASSUME Shape, NEW t \in Threads, AllAwake(t)
  PROVE  Shape'
<1> USE DEF Shape
<1>1. /\ pc[t] = "last" /\ pc' \in [Threads -> Places]
      /\ \A u \in Threads : pc'[u] = IF u = t THEN "relock" ELSE pc[u]
  BY OnlyOneMoves DEF AllAwake, Places
<1>2. /\ UNCHANGED <<signals, owner, section, num_waiters, thread_queue, was_broadcast, called>>
      /\ all_awake' = TRUE
  BY DEF AllAwake
<1>3. Counted' = Counted /\ Waiting' = Waiting
  BY <1>1 DEF Counted, Waiting, At
<1>4. Kinds' /\ CountIsRight'
  BY <1>1, <1>2, <1>3 DEF Kinds, CountIsRight
<1>5. OwnerHolds' /\ ThrownLocks' /\ FlagHasOwner' /\ BroadcastCalls'
  BY <1>1, <1>2, <1>3 DEF OwnerHolds, ThrownLocks, FlagHasOwner, BroadcastCalls
<1>6. LastIsLast'
  BY <1>1, <1>2, <1>3 DEF LastIsLast
<1>. QED
  BY <1>4, <1>5, <1>6

\* broadcast(): its caller holds the mutex, and all that are counted wait.
LEMMA BroadcastKeeps ==
  ASSUME Shape, NEW t \in Threads, Broadcast(t)
  PROVE  Shape'
<1> USE DEF Shape
<1>1. /\ pc[t] = "critical" /\ pc' \in [Threads -> Places]
      /\ \A u \in Threads : pc'[u] = IF u = t THEN "broadcast" ELSE pc[u]
  BY OnlyOneMoves DEF Broadcast, Places
<1>2. /\ UNCHANGED <<signals, owner, section, num_waiters, all_awake>>
      /\ was_broadcast' = TRUE /\ called' = called \cup Waiting
      /\ num_waiters > 0 /\ thread_queue' = thread_queue + num_waiters
      /\ thread_queue + num_waiters <= MaxCount
  BY DEF Broadcast, Section, Waiting, ReleaseSemaphore, Fits
<1>3. Counted' = Counted /\ Waiting' = Waiting
  BY <1>1 DEF Counted, Waiting, At
<1>4. \A u \in Threads \ {t} : pc[u] \notin {"critical", "counted", "broadcast", "released", "thrown"}
  BY <1>1 DEF OwnerHolds
<1>5. Waiting # {}
  <2>1. Counted # {}
    BY <1>2, FS_EmptySet DEF CountIsRight
  <2>. QED
    BY <2>1, <1>1, <1>4 DEF Counted, Waiting, At
<1>6. Kinds' /\ CountIsRight'
  <2>1. CountIsRight'
    BY <1>2, <1>3 DEF CountIsRight
  <2>2. thread_queue' \in 0 .. MaxCount
    BY <1>2, AtIsFinite, MaxCountAssumption DEF Kinds, CountIsRight
  <2>3. \A u \in called' : u \in Threads /\ pc'[u] \in {"queued", "awake", "last", "relock"}
    BY <1>1, <1>2 DEF Kinds, Waiting, At
  <2>. QED
    BY <1>1, <1>2, <2>1, <2>2, <2>3 DEF Kinds
<1>7. OwnerHolds' /\ ThrownLocks' /\ FlagHasOwner'
  BY <1>1, <1>2 DEF OwnerHolds, ThrownLocks, FlagHasOwner
<1>8. BroadcastCalls'
  BY <1>1, <1>2, <1>3, <1>4 DEF BroadcastCalls
<1>9. LastIsLast'
  BY <1>1, <1>2, <1>3, <1>4, <1>5 DEF LastIsLast
<1>. QED
  BY <1>6, <1>7, <1>8, <1>9

\* The exception of a full semaphore.
LEMMA BroadcastFailsKeeps ==
  ASSUME Shape, NEW t \in Threads, BroadcastFails(t)
  PROVE  Shape'
<1> USE DEF Shape
<1>1. /\ pc[t] = "critical" /\ pc' \in [Threads -> Places]
      /\ \A u \in Threads : pc'[u] = IF u = t THEN "thrown" ELSE pc[u]
  BY OnlyOneMoves DEF BroadcastFails, Places
<1>2. /\ UNCHANGED <<signals, owner, num_waiters, thread_queue, all_awake, called>>
      /\ was_broadcast' = TRUE /\ section = NoThread /\ section' = t
  BY DEF BroadcastFails
<1>3. Counted' = Counted /\ Waiting' = Waiting
  BY <1>1 DEF Counted, Waiting, At
<1>4. Kinds' /\ CountIsRight'
  BY <1>1, <1>2, <1>3 DEF Kinds, CountIsRight
<1>5. OwnerHolds' /\ FlagHasOwner'
  BY <1>1, <1>2 DEF OwnerHolds, FlagHasOwner
<1>6. ThrownLocks'
  BY <1>1, <1>2, ThreadsAssumption DEF ThrownLocks
<1>7. BroadcastCalls' /\ LastIsLast'
  BY <1>1, <1>2, <1>3 DEF BroadcastCalls, LastIsLast
<1>. QED
  BY <1>4, <1>5, <1>6, <1>7

\* The event reaches the broadcaster, which resets it.
LEMMA ReleasedKeeps ==
  ASSUME Shape, NEW t \in Threads, Released(t)
  PROVE  Shape'
<1> USE DEF Shape
<1>1. /\ pc[t] = "broadcast" /\ pc' \in [Threads -> Places]
      /\ \A u \in Threads : pc'[u] = IF u = t THEN "released" ELSE pc[u]
  BY OnlyOneMoves DEF Released, Places
<1>2. /\ UNCHANGED <<signals, owner, section, num_waiters, thread_queue, was_broadcast, called>>
      /\ all_awake /\ all_awake' = FALSE
  BY DEF Released
<1>3. Counted' = Counted /\ Waiting' = Waiting
  BY <1>1 DEF Counted, Waiting, At
<1>4. Waiting = {} /\ \A u \in Threads : pc[u] # "last"
  BY <1>2 DEF LastIsLast
<1>5. Kinds' /\ CountIsRight'
  BY <1>1, <1>2, <1>3 DEF Kinds, CountIsRight
<1>6. OwnerHolds' /\ ThrownLocks' /\ FlagHasOwner'
  BY <1>1, <1>2 DEF OwnerHolds, ThrownLocks, FlagHasOwner
<1>7. BroadcastCalls' /\ LastIsLast'
  BY <1>1, <1>2, <1>3, <1>4 DEF BroadcastCalls, LastIsLast
<1>. QED
  BY <1>5, <1>6, <1>7

LEMMA EndBroadcastKeeps ==
  ASSUME Shape, NEW t \in Threads, EndBroadcast(t)
  PROVE  Shape'
<1> USE DEF Shape
<1>1. /\ pc[t] = "released" /\ pc' \in [Threads -> Places]
      /\ \A u \in Threads : pc'[u] = IF u = t THEN "critical" ELSE pc[u]
  BY OnlyOneMoves DEF EndBroadcast, Places
<1>2. /\ UNCHANGED <<signals, owner, section, num_waiters, thread_queue, all_awake, called>>
      /\ was_broadcast' = FALSE
  BY DEF EndBroadcast
<1>3. Counted' = Counted /\ Waiting' = Waiting
  BY <1>1 DEF Counted, Waiting, At
<1>4. Kinds' /\ CountIsRight'
  BY <1>1, <1>2, <1>3 DEF Kinds, CountIsRight
<1>5. OwnerHolds' /\ ThrownLocks' /\ FlagHasOwner'
  BY <1>1, <1>2 DEF OwnerHolds, ThrownLocks, FlagHasOwner
<1>6. BroadcastCalls' /\ LastIsLast'
  BY <1>1, <1>2, <1>3 DEF BroadcastCalls, LastIsLast
<1>. QED
  BY <1>4, <1>5, <1>6

-----------------------------------------------------------------------------
\* Without signal() only waiters that a broadcast has called pass the
\* semaphore.
LEMMA WokenIsCalled ==
  ASSUME IInv, ~signals, NEW t \in Threads, Wake(t)
  PROVE  t \in called
<1>1. pc[t] = "queued" /\ thread_queue > 0
  BY DEF Wake, Goto
<1>2. Cardinality(CalledQueue) # 0
  BY <1>1 DEF IInv, OnlyCalledWake
<1>3. Waiting \cap called # {}
  BY <1>2, FS_EmptySet DEF CalledQueue, Waiting, At
<1>. QED
  BY <1>1, <1>3 DEF IInv, Shape, BroadcastCalls, Waiting, At

\* The steps after which the same threads are called and queued.
LEMMA OthersWake ==
  ASSUME IInv, NEW t \in Threads,
         \/ Lock(t) \/ Unlock(t) \/ Relock(t) \/ Count(t) \/ Queue(t) \/ CountDown(t) \/ AllAwake(t)
         \/ BroadcastFails(t) \/ Released(t) \/ EndBroadcast(t)
  PROVE  /\ OnlyCalledWake'
         /\ \A u \in Threads \ {t} : pc'[u] = pc[u]
         /\ pc[t] # "queued" /\ (pc'[t] = "queued" => t \notin called)
         /\ signals' = signals /\ thread_queue' = thread_queue /\ called' \in {called, called \ {t}}
<1> USE DEF IInv, Shape
<1> DEFINE to == pc'[t]
<1>1. /\ \A u \in Threads \ {t} : pc'[u] = pc[u]
      /\ pc[t] \notin {"queued", "signal"} /\ to \notin {"awake", "signal"}
      /\ to = "queued" => pc[t] = "counted"
  BY DEF Lock, Unlock, Relock, Count, Queue, CountDown, AllAwake, BroadcastFails, Released, EndBroadcast,
         Goto, Kinds
<1>2. /\ signals' = signals /\ thread_queue' = thread_queue /\ called' \in {called, called \ {t}}
      /\ called' # called => to = "critical"
  BY DEF Lock, Unlock, Relock, Count, Queue, CountDown, AllAwake, BroadcastFails, Released, EndBroadcast,
         Goto, Kinds
<1>3. pc[t] = "counted" => t \notin called
  BY DEF Kinds
<1>4. CalledQueue' = CalledQueue
  BY <1>1, <1>2, <1>3 DEF CalledQueue, At
<1>5. At({"awake"})' \subseteq At({"awake"}) \ (IF to = "critical" THEN {t} ELSE {})
  BY <1>1 DEF At
<1>6. OnlyCalledWake'
  BY <1>1, <1>2, <1>4, <1>5 DEF OnlyCalledWake
<1>. QED
  BY <1>1, <1>2, <1>3, <1>6

LEMMA WakeWakes ==
  ASSUME IInv, NEW t \in Threads, Wake(t)
  PROVE  OnlyCalledWake'
<1> SUFFICES ASSUME ~signals PROVE OnlyCalledWake'
  BY DEF Wake, OnlyCalledWake
<1>1. /\ pc[t] = "queued"
      /\ \A u \in Threads : pc'[u] = IF u = t THEN "awake" ELSE pc[u]
      /\ UNCHANGED <<signals, called>> /\ thread_queue' = thread_queue - 1
  BY OnlyOneMoves DEF Wake, Places, IInv, Shape
<1>2. t \in called
  BY WokenIsCalled
<1>3. CalledQueue' = CalledQueue \ {t} /\ t \in CalledQueue
  BY <1>1, <1>2 DEF CalledQueue, At
<1>4. Cardinality(CalledQueue') = Cardinality(CalledQueue) - 1
  BY <1>3, AtIsFinite, FS_RemoveElement
<1>5. At({"awake"})' = At({"awake"}) \cup {t}
  BY <1>1 DEF At
<1>. QED
  BY <1>1, <1>2, <1>4, <1>5 DEF IInv, OnlyCalledWake

LEMMA BroadcastWakes ==
  ASSUME IInv, NEW t \in Threads, Broadcast(t)
  PROVE  OnlyCalledWake' /\ At({"queued"})' \subseteq called'
<1> USE DEF IInv, Shape
<1>1. /\ pc[t] = "critical"
      /\ \A u \in Threads : pc'[u] = IF u = t THEN "broadcast" ELSE pc[u]
      /\ UNCHANGED signals /\ called' = called \cup Waiting /\ thread_queue' = thread_queue + num_waiters
  BY OnlyOneMoves DEF Broadcast, Places, ReleaseSemaphore, Waiting
\* The broadcaster holds the mutex.
<1>2. \A u \in Threads : pc[u] \notin {"counted", "broadcast"}
  BY <1>1 DEF OwnerHolds
<1>3. Waiting \cap called = {}
  BY <1>2 DEF BroadcastCalls
<1>4. At({"queued"})' \subseteq called'
  BY <1>1 DEF At, Waiting
<1>5. ASSUME ~signals PROVE OnlyCalledWake'
  <2>1. CalledQueue = {} /\ At({"awake"}) = {}
    BY <1>3, <1>5 DEF OnlyCalledWake, CalledQueue, Waiting, At
  <2>2. thread_queue = 0
    BY <1>5, <2>1, FS_EmptySet DEF OnlyCalledWake
  <2>3. CalledQueue' = Counted /\ At({"awake"})' = {}
    BY <1>1, <1>2, <2>1 DEF CalledQueue, Counted, Waiting, At
  <2>4. thread_queue' = Cardinality(CalledQueue')
    BY <1>1, <2>2, <2>3, AtIsFinite DEF CountIsRight
  <2>5. \A u \in Threads : pc'[u] # "signal"
    BY <1>1, <1>5 DEF OnlyCalledWake
  <2>. QED
    BY <2>3, <2>4, <2>5 DEF OnlyCalledWake
<1>. QED
  BY <1>1, <1>4, <1>5 DEF OnlyCalledWake

\* signal() is not called without signals.
LEMMA SignalWakes ==
  ASSUME IInv, NEW t \in Threads, Signal(t) \/ ReleaseOne(t)
  PROVE  OnlyCalledWake' /\ signals /\ At({"queued"})' = At({"queued"}) /\ UNCHANGED <<signals, owner, called>>
<1>1. signals
  BY DEF Signal, ReleaseOne, Goto, IInv, OnlyCalledWake
<1>2. UNCHANGED <<signals, owner, called>>
  BY DEF Signal, ReleaseOne
<1>3. \A u \in Threads : pc'[u] = "queued" <=> pc[u] = "queued"
  BY DEF Signal, ReleaseOne, Goto, Caller, IInv, Shape, Kinds
<1>. QED
  BY <1>1, <1>2, <1>3 DEF OnlyCalledWake, At

\* Every step keeps the invariant.
LEMMA StepIInv == IInv /\ [Next]_vars => IInv'
<1> SUFFICES ASSUME IInv, [Next]_vars PROVE IInv'
  OBVIOUS
<1>1. CASE UNCHANGED vars
  BY <1>1 DEF vars, IInv, Shape, Kinds, CountIsRight, OwnerHolds, ThrownLocks, FlagHasOwner, BroadcastCalls,
              LastIsLast, OnlyCalledWake, CalledQueue, Counted, Waiting, At
<1>2. ASSUME NEW t \in Threads, Step(t) PROVE IInv'
  <2>1. CASE Lock(t) \/ Unlock(t) \/ Relock(t)
    BY <2>1, LockKeeps, OthersWake DEF IInv
  <2>2. CASE Count(t)
    BY <2>2, CountKeeps, OthersWake DEF IInv
  <2>3. CASE Queue(t)
    BY <2>3, QueueKeeps, OthersWake DEF IInv
  <2>4. CASE Wake(t)
    BY <2>4, WakeKeeps, WakeWakes DEF IInv
  <2>5. CASE CountDown(t)
    BY <2>5, CountDownKeeps, OthersWake DEF IInv
  <2>6. CASE AllAwake(t)
    BY <2>6, AllAwakeKeeps, OthersWake DEF IInv
  <2>7. CASE Signal(t) \/ ReleaseOne(t)
    BY <2>7, SignalKeeps, SignalWakes DEF IInv
  <2>8. CASE Broadcast(t)
    BY <2>8, BroadcastKeeps, BroadcastWakes DEF IInv
  <2>9. CASE BroadcastToNobody(t)
    BY <1>1, <2>9 DEF BroadcastToNobody
  <2>10. CASE BroadcastFails(t)
    BY <2>10, BroadcastFailsKeeps, OthersWake DEF IInv
  <2>11. CASE Released(t)
    BY <2>11, ReleasedKeeps, OthersWake DEF IInv
  <2>12. CASE EndBroadcast(t)
    BY <2>12, EndBroadcastKeeps, OthersWake DEF IInv
  <2>. QED
    BY <1>2, <2>1, <2>2, <2>3, <2>4, <2>5, <2>6, <2>7, <2>8, <2>9, <2>10, <2>11, <2>12
       DEF Step, InWait, InBroadcast
<1>. QED
  BY <1>1, <1>2 DEF Next

LEMMA InvariantHolds == Spec => []IInv
<1>. QED
  BY InitIInv, StepIInv, PTL DEF Spec

-----------------------------------------------------------------------------
\* num_waiters is the number of the threads between the two critical sections
\* of wait(), the semaphore never exceeds its maximum, and num_waiters_lock is
\* left locked by a thread that has thrown only (cond.hpp:170-300).
THEOREM WinCondTyped == Spec => []TypeOK
<1>1. IInv => TypeOK
  BY TypeOKParts DEF IInv, Shape
<1>. QED
  BY <1>1, InvariantHolds, PTL

\* broadcast() returns only after every thread that waited when it was called
\* has woken up and counted itself down (cond.hpp:170-228, 257-300).
THEOREM BroadcastIsComplete == Spec => []BroadcastReachesAll
<1>1. IInv => BroadcastReachesAll
  BY DEF IInv, Shape, LastIsLast, BroadcastReachesAll, Waiting
<1>. QED
  BY <1>1, InvariantHolds, PTL

\* The auto-reset event is signaled once for each broadcast, and never left
\* over for the next one (cond.hpp:195-206, 282-296).
THEOREM EventBelongsToBroadcast == Spec => []EventIsFresh
<1>1. IInv => EventIsFresh
  BY DEF IInv, Shape, LastIsLast, EventIsFresh, At
<1>. QED
  BY <1>1, InvariantHolds, PTL

-----------------------------------------------------------------------------
\* The waiters of CondVar are those that no broadcast has called yet.
Uncalled == At({"queued"}) \ called

\* The initial states are those of CondVar.
LEMMA InitImplements == Init => C!Init
BY DEF Init, C!Init, At

\* The steps that are none in CondVar.
LEMMA QuietStutters ==
  ASSUME NEW t \in Threads, IInv,
         Count(t) \/ CountDown(t) \/ AllAwake(t) \/ BroadcastFails(t) \/ Released(t) \/ EndBroadcast(t)
  PROVE  UNCHANGED C!vars
<1>1. Uncalled' = Uncalled
  BY OthersWake DEF Uncalled, At, Count, CountDown, AllAwake, BroadcastFails, Released, EndBroadcast, Goto, IInv, Shape, Kinds
<1>2. UNCHANGED <<signals, owner>>
  BY DEF Count, CountDown, AllAwake, BroadcastFails, Released, EndBroadcast
<1>. QED
  BY <1>1, <1>2 DEF C!vars, Uncalled

\* Every step is one of CondVar or none.
LEMMA StepImplements == IInv /\ [Next]_vars => [C!Next]_(C!vars)
<1> SUFFICES ASSUME IInv, [Next]_vars PROVE [C!Next]_(C!vars)
  OBVIOUS
<1>1. CASE UNCHANGED vars
  BY <1>1 DEF vars, C!vars, At
<1>2. ASSUME NEW t \in Threads, Step(t) PROVE C!Next \/ UNCHANGED C!vars
  <2>1. CASE Lock(t) \/ Relock(t)
    <3>1. /\ pc[t] # "queued" /\ pc'[t] # "queued" /\ owner = NoThread /\ owner' = t /\ UNCHANGED signals
          /\ Uncalled' = Uncalled
      BY <2>1, OthersWake DEF Lock, Relock, Goto, Acquire, IInv, Shape, Kinds, Uncalled, At
    <3>2. C!Lock(t)
      BY <3>1 DEF C!Lock, Uncalled, At
    <3>. QED
      BY <3>2 DEF C!Next
  <2>2. CASE Unlock(t)
    <3>1. /\ pc[t] = "critical" /\ owner' = NoThread /\ UNCHANGED signals /\ Uncalled' = Uncalled
      BY <2>2, OthersWake DEF Unlock, Goto, IInv, Shape, Kinds, Uncalled, At
    <3>2. C!Unlock(t)
      BY <3>1 DEF C!Unlock, Uncalled, IInv, Shape, OwnerHolds
    <3>. QED
      BY <3>2 DEF C!Next
  <2>3. CASE Queue(t)
    <3>1. /\ pc[t] = "counted" /\ owner' = NoThread /\ UNCHANGED signals
          /\ Uncalled' = Uncalled \cup {t}
      BY <2>3, OthersWake DEF Queue, Goto, IInv, Shape, Kinds, Uncalled, At
    <3>2. C!Wait(t)
      BY <3>1 DEF C!Wait, Uncalled, IInv, Shape, OwnerHolds
    <3>. QED
      BY <3>2 DEF C!Next
  <2>4. CASE Wake(t)
    <3>1. pc[t] = "queued" /\ UNCHANGED <<signals, owner, called>> /\ At({"queued"})' = At({"queued"}) \ {t}
      BY <2>4, OnlyOneMoves DEF Wake, Places, At, IInv, Shape
    <3>2. CASE t \in called
      BY <3>1, <3>2 DEF C!vars
    <3>3. CASE t \notin called
      <4>1. signals
        BY <2>4, <3>3, WokenIsCalled DEF IInv, Shape, Kinds
      <4>2. t \in Uncalled /\ Uncalled' = Uncalled \ {t}
        BY <3>1, <3>3 DEF Uncalled, At
      <4>3. C!WakeUp(t)
        BY <3>1, <4>1, <4>2 DEF C!WakeUp, Uncalled
      <4>. QED
        BY <4>3 DEF C!Next
    <3>. QED
      BY <3>2, <3>3
  <2>5. CASE Broadcast(t)
    <3>1. UNCHANGED <<signals, owner>> /\ owner = t
      BY <2>5 DEF Broadcast, Goto, IInv, Shape, OwnerHolds
    <3>2. C!Broadcast(t)
      BY <2>5, <3>1, BroadcastWakes DEF C!Broadcast
    <3>. QED
      BY <3>2 DEF C!Next
  <2>6. CASE Signal(t) \/ ReleaseOne(t)
    BY <2>6, SignalWakes DEF C!vars
  <2>7. CASE BroadcastToNobody(t)
    BY <2>7 DEF BroadcastToNobody, vars, C!vars, At
  <2>8. CASE Count(t) \/ CountDown(t) \/ AllAwake(t) \/ BroadcastFails(t) \/ Released(t) \/ EndBroadcast(t)
    BY <2>8, QuietStutters
  <2>. QED
    BY <1>2, <2>1, <2>2, <2>3, <2>4, <2>5, <2>6, <2>7, <2>8 DEF Step, InWait, InBroadcast
<1>. QED
  BY <1>1, <1>2 DEF Next

\* The condition variable of Windows is the one CondVar describes: without
\* signal() a wait ends by a broadcast only, and a broadcast ends all of them
\* (cond.hpp:170-300).
THEOREM WinCondImplements == Spec => ImplementsCondVar
<1>. QED
  BY InitImplements, StepImplements, InvariantHolds, PTL DEF Spec, ImplementsCondVar, C!Spec

-----------------------------------------------------------------------------
(***************************************************************************)
(* The atomic operations: on each platform, under every sound discipline,  *)
(* a word of any width is the atomic word of the header, and who has seen  *)
(* a flag sees the data that were published before it.                     *)
(***************************************************************************)

(***************************************************************************)
(* The inductive invariant of the word.                                    *)
(***************************************************************************)
Points == {"out", "execute", "load", "lock", "critical", "store", "unlock", "return", "write", "fence", "read"}

WordTypeOK ==
  /\ discipline \in Disciplines
  /\ word \in A!Values
  /\ lock \in [Modifying -> Callers \cup {NoCaller}]
  /\ point \in [Callers -> Points]
  /\ op \in [Callers -> Arguments \cup {NoOperation}]
  /\ reg \in [Callers -> A!Values]

\* A thread executes an operation it may call, at a point its platform has.
Executes(t) ==
  /\ point[t] \in {"execute", "load", "lock", "critical", "store", "unlock"} =>
       op[t] \in Arguments /\ t \in discipline.may[op[t].name]
  /\ point[t] = "execute" =>
       /\ op[t].name \in Modifying /\ discipline.platform # "generic"
       /\ op[t].name = "faa" => discipline.platform = "x86"
  /\ point[t] = "load" => op[t].name = "read" \/ (op[t].name = "faa" /\ discipline.platform = "win")
  /\ point[t] \in {"lock", "critical", "unlock"} =>
       op[t].name \in Modifying /\ discipline.platform = "generic"
  /\ point[t] = "store" =>
       \/ op[t].name \in Modifying /\ discipline.platform = "generic"
       \/ op[t].name = "faa" /\ discipline.platform = "win"

\* The mutex of an operation is held in its critical section.
Holds(t) ==
  point[t] \in {"critical", "store", "unlock"} /\ discipline.platform = "generic" =>
    lock[op[t].name] = t

\* What a thread has read has not changed when it writes.
Fresh(t) ==
  point[t] = "store" =>
    reg[t] = word /\ (op[t].name = "cas" => op[t].comprnd = word)

\* The discipline is sound, and stays so.
WordInv ==
  /\ WordTypeOK
  /\ Sound(discipline)
  /\ \A t \in Callers : Executes(t) /\ Holds(t) /\ Fresh(t)

-----------------------------------------------------------------------------
(***************************************************************************)
(* What an operation leaves in a word is a word.                           *)
(***************************************************************************)
LEMMA AfterIsAWord ==
  ASSUME NEW o \in Arguments, NEW w \in A!Values
  PROVE  A!After(o, w) \in A!Values
<1>1. A!Half \in Nat \ {0} /\ o \in A!Operations
  BY ConstantsAssumption
<1>2. ASSUME NEW n \in Int
      PROVE  A!Wrap(n) \in A!Values
  <2> DEFINE h == A!Half
             m == 2 * h
             r == (n + h) % m
  <2>1. h \in Nat \ {0} /\ m \in Nat \ {0} /\ m = h + h /\ n + h \in Int
    BY <1>1
  <2> HIDE DEF h, m
  <2>2. r \in 0 .. m - 1
    BY <2>1
  <2> HIDE DEF r
  <2>3. r - h \in -h .. h - 1
    BY <2>1, <2>2
  <2>4. A!Wrap(n) = r - h
    BY DEF A!Wrap, r, m, h
  <2>. QED
    BY <2>3, <2>4 DEF A!Values, h
<1>3. A!Values \subseteq Int
  BY <1>1 DEF A!Values
<1>4. CASE o \in [name : {"cas"}, comprnd : A!Values, exchg : A!Values]
  <2>1. o.name = "cas" /\ o.exchg \in A!Values
    BY <1>4
  <2>. QED
    BY <2>1 DEF A!After
<1>5. CASE o \in [name : {"fas"}, new_val : A!Values]
  <2>1. o.name = "fas" /\ o.new_val \in A!Values
    BY <1>5
  <2>. QED
    BY <2>1 DEF A!After
<1>6. CASE o \in [name : {"faa"}, addend : A!Values]
  <2>1. o.name = "faa" /\ w + o.addend \in Int
    <3>1. o.name = "faa" /\ o.addend \in A!Values
      BY <1>6
    <3>2. w \in Int /\ o.addend \in Int
      BY <1>3, <3>1
    <3>. QED
      BY <3>1, <3>2
  <2>. QED
    BY <1>2, <2>1 DEF A!After
<1>7. CASE o \in [name : {"read"}]
  <2>1. o.name = "read"
    BY <1>7
  <2>. QED
    BY <2>1 DEF A!After
<1>. QED
  BY <1>1, <1>4, <1>5, <1>6, <1>7 DEF A!Operations

\* The operations by their names.
LEMMA Names ==
  ASSUME NEW o \in Arguments
  PROVE  /\ o.name \in Modifying \cup {"read"}
         /\ o.name = "cas" => o.comprnd \in A!Values /\ o.exchg \in A!Values
  BY ConstantsAssumption DEF A!Operations, Modifying

\* While a thread is between the read and the write of an operation, no other
\* one is, nor is about to execute an operation of one access.
LEMMA Exclusion ==
  ASSUME WordInv, NEW t \in Callers, NEW u \in Callers, t # u,
         point[t] = "store"
  PROVE  point[u] \notin {"execute", "store"}
<1>1. Sound(discipline)
  BY DEF WordInv
<1>2. /\ t \in discipline.may[op[t].name]
      /\ \/ op[t].name \in Modifying /\ discipline.platform = "generic" /\ lock[op[t].name] = t
         \/ op[t].name = "faa" /\ discipline.platform = "win"
  BY DEF WordInv, Executes, Holds
<1>3. ASSUME point[u] \in {"execute", "store"}
      PROVE  /\ u \in discipline.may[op[u].name]
             /\ op[u].name \in Modifying
             /\ point[u] = "execute" =>
                  discipline.platform # "generic" /\ (op[u].name = "faa" => discipline.platform = "x86")
             /\ point[u] = "store" => \/ discipline.platform = "generic" /\ lock[op[u].name] = u
                                      \/ op[u].name = "faa" /\ discipline.platform = "win"
  BY <1>3 DEF WordInv, Executes, Holds, Modifying
<1>4. ASSUME point[u] \in {"execute", "store"}
      PROVE  FALSE
  <2>1. CASE discipline.platform = "generic"
    BY <1>1, <1>2, <1>3, <1>4, <2>1 DEF Sound
  <2>2. CASE discipline.platform = "win"
    BY <1>1, <1>2, <1>3, <1>4, <2>2 DEF Sound, Modifying
  <2>. QED
    BY <1>2, <2>1, <2>2
<1>. QED
  BY <1>4

-----------------------------------------------------------------------------
(***************************************************************************)
(* One step of one thread.  The other threads stay where they are, so what *)
(* has to be shown of them is that the mutexes and the word are still      *)
(* theirs.                                                                 *)
(***************************************************************************)
LEMMA OneThread ==
  ASSUME WordInv, NEW t \in Callers, discipline' = discipline,
         WordTypeOK', Executes(t)', Holds(t)', Fresh(t)',
         \A u \in Callers \ {t} : point'[u] = point[u] /\ op'[u] = op[u] /\ reg'[u] = reg[u],
         \A n \in Modifying : lock'[n] = lock[n] \/ lock[n] \notin Callers \ {t},
         word' = word \/ \A u \in Callers \ {t} : point[u] # "store"
  PROVE  WordInv'
<1>1. ASSUME NEW u \in Callers \ {t}
      PROVE  Executes(u)' /\ Holds(u)' /\ Fresh(u)'
  <2>1. Executes(u) /\ Holds(u) /\ Fresh(u)
    BY DEF WordInv
  <2>2. Executes(u)'
    BY <2>1 DEF Executes
  <2>3. Holds(u)'
    <3>1. ASSUME point[u] \in {"critical", "store", "unlock"}, discipline.platform = "generic"
          PROVE  lock'[op[u].name] = u
      <4>1. op[u].name \in Modifying /\ lock[op[u].name] = u
        BY <2>1, <3>1 DEF Executes, Holds
      <4>. QED
        BY <4>1
    <3>. QED
      BY <3>1 DEF Holds
  <2>4. Fresh(u)'
    BY <2>1 DEF Fresh
  <2>. QED
    BY <2>2, <2>3, <2>4
<1>. QED
  BY <1>1 DEF WordInv, Sound

\* What the word of the header does at a step that is not one of an operation.
Stutters == A!vars' = A!vars

LEMMA StutterFacts ==
  ASSUME discipline' = discipline, word' = word, \A u \in Callers : CallOf(u)' = CallOf(u)
  PROVE  Stutters
  BY DEF Stutters, A!vars

\* How the call of one thread changes.
LEMMA OneCall ==
  ASSUME NEW t \in Callers, NEW c, CallOf(t)' = c,
         \A u \in Callers \ {t} : CallOf(u)' = CallOf(u)
  PROVE  [u \in Callers |-> CallOf(u)]' = [[u \in Callers |-> CallOf(u)] EXCEPT ![t] = c]
  OBVIOUS

LEMMA CallStep ==
  ASSUME WordInv, NEW t \in Callers, Call(t)
  PROVE  WordInv' /\ A!Next
<1>1. PICK o \in Arguments :
        /\ t \in discipline.may[o.name]
        /\ Move(t, "out", FirstStep(o.name))
        /\ op' = [op EXCEPT ![t] = o]
        /\ UNCHANGED <<discipline, word, lock, reg>>
  BY DEF Call
<1> DEFINE p == FirstStep(o.name)
<1>2. /\ o.name \in Modifying \cup {"read"} /\ discipline.platform \in Platforms
      /\ point \in [Callers -> Points] /\ op \in [Callers -> Arguments \cup {NoOperation}]
  BY Names, ConstantsAssumption DEF WordInv, WordTypeOK
<1>3. \/ p = "load" /\ (o.name = "read" \/ (o.name = "faa" /\ discipline.platform = "win"))
      \/ p = "lock" /\ o.name \in Modifying /\ discipline.platform = "generic"
      \/ p = "execute" /\ o.name \in Modifying /\ discipline.platform # "generic"
         /\ (o.name = "faa" => discipline.platform = "x86")
  BY <1>2 DEF FirstStep, Platforms, Modifying
<1> HIDE DEF p
<1>4. /\ point[t] = "out" /\ point'[t] = p /\ op'[t] = o
      /\ \A u \in Callers \ {t} : point'[u] = point[u] /\ op'[u] = op[u]
      /\ point' = [point EXCEPT ![t] = p]
  BY <1>1, <1>2 DEF Move, p
<1>5. WordTypeOK'
  BY <1>1, <1>2, <1>3, <1>4 DEF WordInv, WordTypeOK, Points
<1>6. Executes(t)' /\ Holds(t)' /\ Fresh(t)'
  BY <1>1, <1>3, <1>4 DEF Executes, Holds, Fresh
<1>7. WordInv'
  BY <1>1, <1>4, <1>5, <1>6, OneThread
<1>8. A!Next
  <2>1. CallOf(t) = [at |-> "out"] /\ CallOf(t)' = [at |-> "pending", op |-> o]
    BY <1>3, <1>4 DEF CallOf, Outcome
  <2>2. \A u \in Callers \ {t} : CallOf(u)' = CallOf(u)
    BY <1>1, <1>4 DEF CallOf, Outcome
  <2>3. A!Call(t, o)
    BY <1>1, <2>1, <2>2, OneCall DEF A!Call, A!Out, A!Pending
  <2>. QED
    BY <2>3, ConstantsAssumption DEF A!Next
<1>. QED
  BY <1>7, <1>8

\* A thread performs its operation on the word it finds.
LEMMA Performs ==
  ASSUME NEW t \in Callers, NEW o \in Arguments,
         CallOf(t) = [at |-> "pending", op |-> o],
         word' = A!After(o, word),
         CallOf(t)' = [at |-> "done", result |-> A!Result(o, word)],
         \A u \in Callers \ {t} : CallOf(u)' = CallOf(u)
  PROVE  A!Next
<1>1. A!Perform(t, o)
  BY OneCall DEF A!Perform, A!Pending, A!Done
<1>. QED
  BY <1>1, ConstantsAssumption DEF A!Next

LEMMA ExecuteStep ==
  ASSUME WordInv, NEW t \in Callers, Execute(t)
  PROVE  WordInv' /\ A!Next
<1> DEFINE o == op[t]
<1>1. /\ point[t] = "execute" /\ point' = [point EXCEPT ![t] = "return"]
      /\ word' = A!After(o, word) /\ reg' = [reg EXCEPT ![t] = word]
      /\ UNCHANGED <<discipline, lock, op>>
  BY DEF Execute, Move
<1>2. /\ o \in Arguments /\ discipline.platform # "generic"
      /\ word \in A!Values /\ A!After(o, word) \in A!Values
      /\ point \in [Callers -> Points] /\ reg \in [Callers -> A!Values]
  BY <1>1, AfterIsAWord DEF WordInv, WordTypeOK, Executes
<1>3. /\ point'[t] = "return" /\ reg'[t] = word
      /\ \A u \in Callers \ {t} : point'[u] = point[u] /\ reg'[u] = reg[u]
  BY <1>1, <1>2
<1>4. WordTypeOK'
  BY <1>1, <1>2 DEF WordInv, WordTypeOK, Points, A!Values, A!Half
<1>5. Executes(t)' /\ Holds(t)' /\ Fresh(t)'
  BY <1>3 DEF Executes, Holds, Fresh
<1>6. \A u \in Callers \ {t} : point[u] # "store"
  BY <1>1, Exclusion
<1>7. WordInv'
  BY <1>1, <1>3, <1>4, <1>5, <1>6, OneThread
<1>8. A!Next
  <2>1. /\ CallOf(t) = [at |-> "pending", op |-> o]
        /\ CallOf(t)' = [at |-> "done", result |-> IF o.name = "cas" /\ word = o.comprnd THEN o.exchg ELSE word]
        /\ \A u \in Callers \ {t} : CallOf(u)' = CallOf(u)
    BY <1>1, <1>2, <1>3 DEF CallOf, Outcome
  <2> HIDE DEF o
  <2>2. A!Result(o, word) = IF o.name = "cas" /\ word = o.comprnd THEN o.exchg ELSE word
    BY DEF A!Result, A!After
  <2>. QED
    BY <1>1, <1>2, <2>1, <2>2, Performs
<1>. QED
  BY <1>7, <1>8

LEMMA LoadStep ==
  ASSUME WordInv, NEW t \in Callers, Load(t)
  PROVE  WordInv' /\ (A!Next \/ Stutters)
<1> DEFINE o == op[t]
           p == IF o.name = "read" THEN "return" ELSE "store"
<1>1. /\ point[t] = "load" /\ point' = [point EXCEPT ![t] = p]
      /\ reg' = [reg EXCEPT ![t] = word]
      /\ UNCHANGED <<discipline, word, lock, op>>
  BY DEF Load, Move
<1>2. /\ o \in Arguments /\ word \in A!Values /\ t \in discipline.may[o.name]
      /\ o.name = "read" \/ (o.name = "faa" /\ discipline.platform = "win")
      /\ point \in [Callers -> Points] /\ reg \in [Callers -> A!Values]
  BY <1>1 DEF WordInv, WordTypeOK, Executes
<1>3. /\ point'[t] = p /\ reg'[t] = word /\ p \in {"return", "store"} /\ op'[t] = o
      /\ \A u \in Callers \ {t} : point'[u] = point[u] /\ reg'[u] = reg[u]
  BY <1>1, <1>2
<1>4. WordTypeOK'
  BY <1>1, <1>2, <1>3 DEF WordInv, WordTypeOK, Points, A!Values, A!Half
<1>5. Executes(t)' /\ Holds(t)' /\ Fresh(t)'
  BY <1>1, <1>2, <1>3 DEF Executes, Holds, Fresh, Modifying
<1>6. WordInv'
  BY <1>1, <1>3, <1>4, <1>5, OneThread
<1>7. CASE o.name = "read"
  <2>1. /\ CallOf(t) = [at |-> "pending", op |-> o]
        /\ CallOf(t)' = [at |-> "done", result |-> word]
        /\ \A u \in Callers \ {t} : CallOf(u)' = CallOf(u)
    BY <1>1, <1>2, <1>3, <1>7 DEF CallOf, Outcome
  <2>2. A!After(o, word) = word
    BY <1>7 DEF A!After
  <2> HIDE DEF o
  <2>3. A!Result(o, word) = word
    BY <2>2 DEF A!Result
  <2>. QED
    BY <1>1, <1>2, <1>6, <2>1, <2>2, <2>3, Performs
<1>8. CASE o.name # "read"
  <2>1. \A u \in Callers : CallOf(u)' = CallOf(u)
    BY <1>1, <1>3, <1>8 DEF CallOf, Outcome
  <2>. QED
    BY <1>1, <1>6, <2>1, StutterFacts
<1>. QED
  BY <1>7, <1>8

LEMMA LockStep ==
  ASSUME WordInv, NEW t \in Callers, LockMutex(t)
  PROVE  WordInv' /\ Stutters
<1> DEFINE n == op[t].name
<1>1. /\ point[t] = "lock" /\ point' = [point EXCEPT ![t] = "critical"]
      /\ lock[n] = NoCaller /\ lock' = [lock EXCEPT ![n] = t]
      /\ UNCHANGED <<discipline, word, op, reg>>
  BY DEF LockMutex, Move
<1>2. /\ op[t] \in Arguments /\ n \in Modifying /\ t \in discipline.may[n]
      /\ discipline.platform = "generic" /\ NoCaller \notin Callers
      /\ point \in [Callers -> Points] /\ lock \in [Modifying -> Callers \cup {NoCaller}]
  BY <1>1, ConstantsAssumption DEF WordInv, WordTypeOK, Executes
<1>3. /\ point'[t] = "critical" /\ lock'[n] = t
      /\ \A u \in Callers \ {t} : point'[u] = point[u]
      /\ \A m \in Modifying : lock'[m] = lock[m] \/ lock[m] \notin Callers \ {t}
  BY <1>1, <1>2
<1>4. WordTypeOK'
  BY <1>1, <1>2 DEF WordInv, WordTypeOK, Points, A!Values, A!Half
<1>5. Executes(t)' /\ Holds(t)' /\ Fresh(t)'
  BY <1>1, <1>2, <1>3 DEF Executes, Holds, Fresh
<1>6. WordInv'
  BY <1>1, <1>3, <1>4, <1>5, OneThread
<1>7. \A u \in Callers : CallOf(u)' = CallOf(u)
  BY <1>1, <1>3 DEF CallOf, Outcome
<1>. QED
  BY <1>1, <1>6, <1>7, StutterFacts

LEMMA LoadLockedStep ==
  ASSUME WordInv, NEW t \in Callers, LoadLocked(t)
  PROVE  WordInv' /\ (A!Next \/ Stutters)
<1> DEFINE o == op[t]
           p == IF o.name = "cas" /\ o.comprnd # word THEN "unlock" ELSE "store"
<1>1. /\ point[t] = "critical" /\ point' = [point EXCEPT ![t] = p]
      /\ reg' = [reg EXCEPT ![t] = word]
      /\ UNCHANGED <<discipline, word, lock, op>>
  BY DEF LoadLocked, Move
<1>2. /\ o \in Arguments /\ word \in A!Values /\ t \in discipline.may[o.name]
      /\ o.name \in Modifying /\ discipline.platform = "generic" /\ lock[o.name] = t
      /\ point \in [Callers -> Points] /\ reg \in [Callers -> A!Values]
  BY <1>1 DEF WordInv, WordTypeOK, Executes, Holds
<1>3. /\ point'[t] = p /\ reg'[t] = word /\ p \in {"unlock", "store"} /\ op'[t] = o
      /\ \A u \in Callers \ {t} : point'[u] = point[u] /\ reg'[u] = reg[u]
  BY <1>1, <1>2
<1>4. WordTypeOK'
  BY <1>1, <1>2, <1>3 DEF WordInv, WordTypeOK, Points, A!Values, A!Half
<1>5. Executes(t)' /\ Holds(t)' /\ Fresh(t)'
  BY <1>1, <1>2, <1>3 DEF Executes, Holds, Fresh, Modifying
<1>6. WordInv'
  BY <1>1, <1>3, <1>4, <1>5, OneThread
<1>7. CASE o.name = "cas" /\ o.comprnd # word
  <2>1. /\ CallOf(t) = [at |-> "pending", op |-> o]
        /\ CallOf(t)' = [at |-> "done", result |-> word]
        /\ \A u \in Callers \ {t} : CallOf(u)' = CallOf(u)
    BY <1>1, <1>2, <1>3, <1>7 DEF CallOf, Outcome
  <2>2. A!After(o, word) = word
    BY <1>7 DEF A!After
  <2> HIDE DEF o
  <2>3. A!Result(o, word) = word
    BY <2>2 DEF A!Result
  <2>. QED
    BY <1>1, <1>2, <1>6, <2>1, <2>2, <2>3, Performs
<1>8. CASE ~ (o.name = "cas" /\ o.comprnd # word)
  <2>1. \A u \in Callers : CallOf(u)' = CallOf(u)
    BY <1>1, <1>3, <1>8 DEF CallOf, Outcome
  <2>. QED
    BY <1>1, <1>6, <2>1, StutterFacts
<1>. QED
  BY <1>7, <1>8

LEMMA StoreStep ==
  ASSUME WordInv, NEW t \in Callers, Store(t)
  PROVE  WordInv' /\ A!Next
<1> DEFINE o == op[t]
           p == IF discipline.platform = "generic" THEN "unlock" ELSE "return"
           r == IF o.name = "cas" THEN o.exchg ELSE word
<1>1. /\ point[t] = "store" /\ point' = [point EXCEPT ![t] = p]
      /\ word' = A!After(o, reg[t])
      /\ reg' = IF o.name = "cas" THEN [reg EXCEPT ![t] = o.exchg] ELSE reg
      /\ UNCHANGED <<discipline, lock, op>>
  BY DEF Store, Move
<1>2. /\ o \in Arguments /\ word \in A!Values /\ t \in discipline.may[o.name]
      /\ o.name \in Modifying
      /\ discipline.platform = "generic" => lock[o.name] = t
      /\ o.name # "faa" => discipline.platform = "generic"
      /\ reg[t] = word /\ (o.name = "cas" => o.comprnd = word)
      /\ point \in [Callers -> Points] /\ reg \in [Callers -> A!Values]
  BY <1>1 DEF WordInv, WordTypeOK, Executes, Holds, Fresh, Modifying
<1>3. /\ A!After(o, word) \in A!Values
      /\ o.name = "cas" => o.exchg \in A!Values /\ A!After(o, word) = o.exchg
  BY <1>2, AfterIsAWord, Names DEF A!After
<1>4. /\ point'[t] = p /\ reg'[t] = r /\ p \in {"unlock", "return"} /\ op'[t] = o
      /\ reg' = [reg EXCEPT ![t] = r]
      /\ \A u \in Callers \ {t} : point'[u] = point[u] /\ reg'[u] = reg[u]
  BY <1>1, <1>2
<1>5. WordTypeOK'
  BY <1>1, <1>2, <1>3, <1>4 DEF WordInv, WordTypeOK, Points, A!Values, A!Half
<1>6. Executes(t)' /\ Holds(t)' /\ Fresh(t)'
  BY <1>1, <1>2, <1>4 DEF Executes, Holds, Fresh
<1>7. \A u \in Callers \ {t} : point[u] # "store"
  BY <1>1, Exclusion
<1>8. WordInv'
  BY <1>1, <1>4, <1>5, <1>6, <1>7, OneThread
<1>9. A!Next
  <2>1. /\ CallOf(t) = [at |-> "pending", op |-> o]
        /\ CallOf(t)' = [at |-> "done", result |-> r]
        /\ \A u \in Callers \ {t} : CallOf(u)' = CallOf(u)
    BY <1>1, <1>2, <1>4 DEF CallOf, Outcome
  <2>2. A!Result(o, word) = r
    BY <1>2, <1>3 DEF A!Result
  <2>3. word' = A!After(o, word)
    BY <1>1, <1>2
  <2> HIDE DEF o, r
  <2>. QED
    BY <1>1, <1>2, <2>1, <2>2, <2>3, Performs
<1>. QED
  BY <1>8, <1>9

LEMMA UnlockStep ==
  ASSUME WordInv, NEW t \in Callers, UnlockMutex(t)
  PROVE  WordInv' /\ Stutters
<1> DEFINE n == op[t].name
<1>1. /\ point[t] = "unlock" /\ point' = [point EXCEPT ![t] = "return"]
      /\ lock' = [lock EXCEPT ![n] = NoCaller]
      /\ UNCHANGED <<discipline, word, op, reg>>
  BY DEF UnlockMutex, Move
<1>2. /\ n \in Modifying /\ discipline.platform = "generic" /\ lock[n] = t
      /\ point \in [Callers -> Points] /\ lock \in [Modifying -> Callers \cup {NoCaller}]
  BY <1>1 DEF WordInv, WordTypeOK, Executes, Holds
<1>3. /\ point'[t] = "return"
      /\ \A u \in Callers \ {t} : point'[u] = point[u]
      /\ \A m \in Modifying : lock'[m] = lock[m] \/ lock[m] \notin Callers \ {t}
  BY <1>1, <1>2
<1>4. WordTypeOK'
  BY <1>1, <1>2 DEF WordInv, WordTypeOK, Points, A!Values, A!Half
<1>5. Executes(t)' /\ Holds(t)' /\ Fresh(t)'
  BY <1>3 DEF Executes, Holds, Fresh
<1>6. WordInv'
  BY <1>1, <1>3, <1>4, <1>5, OneThread
<1>7. \A u \in Callers : CallOf(u)' = CallOf(u)
  BY <1>1, <1>3 DEF CallOf, Outcome
<1>. QED
  BY <1>1, <1>6, <1>7, StutterFacts

LEMMA ReturnStep ==
  ASSUME WordInv, NEW t \in Callers, Return(t)
  PROVE  WordInv' /\ A!Next
<1>1. /\ point[t] = "return" /\ point' = [point EXCEPT ![t] = "out"]
      /\ op' = [op EXCEPT ![t] = NoOperation] /\ reg' = [reg EXCEPT ![t] = 0]
      /\ UNCHANGED <<discipline, word, lock>>
  BY DEF Return, Move
<1>2. /\ point \in [Callers -> Points] /\ op \in [Callers -> Arguments \cup {NoOperation}]
      /\ reg \in [Callers -> A!Values] /\ 0 \in A!Values
  BY ConstantsAssumption DEF WordInv, WordTypeOK, A!Values
<1>3. /\ point'[t] = "out"
      /\ \A u \in Callers \ {t} : point'[u] = point[u] /\ op'[u] = op[u] /\ reg'[u] = reg[u]
  BY <1>1, <1>2
<1>4. WordTypeOK'
  BY <1>1, <1>2 DEF WordInv, WordTypeOK, Points, A!Values, A!Half
<1>5. Executes(t)' /\ Holds(t)' /\ Fresh(t)'
  BY <1>3 DEF Executes, Holds, Fresh
<1>6. WordInv'
  BY <1>1, <1>3, <1>4, <1>5, OneThread
<1>7. A!Next
  <2>1. /\ CallOf(t) = [at |-> "done", result |-> Outcome(t)] /\ CallOf(t)' = [at |-> "out"]
        /\ \A u \in Callers \ {t} : CallOf(u)' = CallOf(u)
    BY <1>1, <1>3 DEF CallOf, Outcome
  <2>2. A!Return(t, Outcome(t))
    BY <1>1, <2>1, OneCall DEF A!Return, A!Out, A!Done
  <2>3. Outcome(t) \in A!Values
    <3>1. op[t].name = "cas" /\ op[t] \in Arguments => op[t].exchg \in A!Values
      BY Names
    <3>2. op[t] \notin Arguments => op[t].name = "none"
      BY <1>2 DEF WordInv, WordTypeOK, NoOperation
    <3>. QED
      BY <1>2, <3>1, <3>2 DEF Outcome
  <2>. QED
    BY <2>2, <2>3 DEF A!Next
<1>. QED
  BY <1>6, <1>7

\* The steps of the fenced reads and writes are none of the word's.
LEMMA FenceStep ==
  ASSUME WordInv, NEW t \in Callers, UNCHANGED <<discipline, wordVars>>,
         \/ point' = point
         \/ /\ point[t] \in {"out", "write", "fence", "read"}
            /\ \E p \in {"out", "write", "fence", "read"} : point' = [point EXCEPT ![t] = p]
  PROVE  WordInv' /\ Stutters
<1> USE DEF wordVars
<1>1. CASE point' = point
  <2>1. WordInv'
    BY <1>1 DEF WordInv, WordTypeOK, Sound, Executes, Holds, Fresh, A!Values, A!Half
  <2>2. \A u \in Callers : CallOf(u)' = CallOf(u)
    BY <1>1 DEF CallOf, Outcome
  <2>. QED
    BY <2>1, <2>2, StutterFacts
<1>2. ASSUME point[t] \in {"out", "write", "fence", "read"},
             NEW p \in {"out", "write", "fence", "read"}, point' = [point EXCEPT ![t] = p]
      PROVE  WordInv' /\ Stutters
  <2>1. point \in [Callers -> Points]
    BY DEF WordInv, WordTypeOK
  <2>2. point'[t] = p /\ \A u \in Callers \ {t} : point'[u] = point[u]
    BY <1>2, <2>1
  <2>3. WordTypeOK'
    BY <1>2, <2>1 DEF WordInv, WordTypeOK, Points, A!Values, A!Half
  <2>4. Executes(t)' /\ Holds(t)' /\ Fresh(t)'
    BY <1>2, <2>2 DEF Executes, Holds, Fresh
  <2>5. WordInv'
    BY <2>2, <2>3, <2>4, OneThread
  <2>6. \A u \in Callers : CallOf(u)' = CallOf(u)
    BY <1>2, <2>2 DEF CallOf, Outcome
  <2>. QED
    BY <2>5, <2>6, StutterFacts
<1>. QED
  BY <1>1, <1>2

LEMMA WordStep ==
  ASSUME WordInv, [AtomicsNext]_atomicsVars
  PROVE  WordInv' /\ (A!Next \/ Stutters)
<1>1. ASSUME NEW t \in Callers, AtomicsStep(t)
      PROVE  WordInv' /\ (A!Next \/ Stutters)
  <2>1. CASE \/ Publish(t) \/ WriteWithFence(t) \/ Drain(t)
             \/ LoadAhead(t) \/ ReadFlag(t) \/ ReadFence(t) \/ Collect(t)
    <3>1. UNCHANGED <<discipline, wordVars>>
      BY <2>1 DEF Publish, WriteWithFence, Drain, LoadAhead, ReadFlag, ReadFence, Collect
    <3>2. \/ point' = point
          \/ /\ point[t] \in {"out", "write", "fence", "read"}
             /\ \E p \in {"out", "write", "fence", "read"} : point' = [point EXCEPT ![t] = p]
      BY <2>1 DEF Publish, WriteWithFence, Drain, LoadAhead, ReadFlag, ReadFence, Collect, Move
    <3>. QED
      BY <3>1, <3>2, FenceStep
  <2>. QED
    BY <1>1, <2>1, CallStep, ExecuteStep, LoadStep, LockStep, LoadLockedStep, StoreStep,
       UnlockStep, ReturnStep DEF AtomicsStep
<1>2. ASSUME UNCHANGED atomicsVars
      PROVE  WordInv' /\ Stutters
  <2>1. WordInv'
    BY <1>2 DEF atomicsVars, WordInv, WordTypeOK, Sound, Executes, Holds, Fresh, A!Values, A!Half
  <2>2. \A u \in Callers : CallOf(u)' = CallOf(u)
    BY <1>2 DEF atomicsVars, CallOf, Outcome
  <2>. QED
    BY <1>2, <2>1, <2>2, StutterFacts DEF atomicsVars
<1>. QED
  BY <1>1, <1>2 DEF AtomicsNext

(***************************************************************************)
(* The operations on a word are those of the header, up to how a compare-  *)
(* and-swap says what it did, if its discipline is sound: each takes       *)
(* effect in one step between its call and its return.  Nothing is said of *)
(* the uses that are not, such as the additions of several threads on      *)
(* Windows; the runs show that they fail                                   *)
(* (pfunc_atomics.h:29-180, asm/generic.h:6-40, asm/win.h:118-161).        *)
(***************************************************************************)
THEOREM OperationsAreAtomic == AtomicsSpec /\ Sound(discipline) => ImplementsAtomicWord
<1>1. AtomicsInit /\ Sound(discipline) => WordInv /\ A!Init
  <2> SUFFICES ASSUME AtomicsInit, Sound(discipline)
               PROVE  WordInv /\ A!Init
    OBVIOUS
  <2>1. 0 \in A!Values
    BY ConstantsAssumption DEF A!Values
  <2>2. WordTypeOK
    BY <2>1 DEF AtomicsInit, WordTypeOK, Points
  <2>3. \A t \in Callers : point[t] = "out"
    BY DEF AtomicsInit
  <2>4. WordInv
    BY <2>2, <2>3 DEF WordInv, Executes, Holds, Fresh
  <2>5. \A t \in Callers : CallOf(t) = [at |-> "out"]
    BY <2>3 DEF CallOf, Outcome
  <2>6. A!Init
    BY <2>5 DEF AtomicsInit, A!Init, A!Out
  <2>. QED
    BY <2>4, <2>6
<1>2. WordInv /\ [AtomicsNext]_atomicsVars => WordInv' /\ [A!Next]_(A!vars)
  BY WordStep DEF Stutters
<1>. QED
  BY <1>1, <1>2, PTL DEF AtomicsSpec, ImplementsAtomicWord, A!Spec

(***************************************************************************)
(* On x86 they are so whoever calls what: any number of threads may mix    *)
(* all the operations on one word, as the library does (asm/x86.h:42-137). *)
(***************************************************************************)
THEOREM LockedOperationsAreAtomic ==
  AtomicsSpec /\ discipline.platform = "x86" => ImplementsAtomicWord
<1>1. discipline.platform = "x86" => Sound(discipline)
  BY DEF Sound
<1>. QED
  BY <1>1, OperationsAreAtomic, PTL

-----------------------------------------------------------------------------
(***************************************************************************)
(* The inductive invariant of the fences.  A store of data that is on its  *)
(* way is the next one, of the one thread that publishes, and has no flag  *)
(* behind it: a flag is only posted for data that are in memory.  A reader *)
(* that is past its fence has nothing that it loaded before.               *)
(***************************************************************************)
Stores == [at : {"data", "flag"}, value : Nat]

FenceTypeOK ==
  /\ discipline \in Disciplines
  /\ point \in [Callers -> Points]
  /\ memory \in [data : Nat, flag : Nat]
  /\ posted \in [Callers -> SUBSET Stores]
  /\ seen \in [Callers -> [flag : Nat, data : Nat]]
  /\ early \in [Callers -> SUBSET Nat]

Posted(t) ==
  /\ point[t] = "write" \/ posted[t] # {} => t \in discipline.may["publish"]
  /\ \A store \in posted[t] :
       /\ store.at = "data" => point[t] = "write" /\ store.value = memory.data + 1
       /\ store.at = "flag" => store.value <= memory.data

Seen(t) ==
  /\ seen[t].flag <= memory.data
  /\ point[t] = "read" => early[t] = {}
  /\ point[t] \notin {"fence", "read"} => seen[t].flag <= seen[t].data

FenceInv ==
  /\ FenceTypeOK
  /\ memory.flag <= memory.data
  /\ \A t \in Callers : Posted(t) /\ Seen(t)

LEMMA PublishStep ==
  ASSUME FenceInv, NEW t \in Callers, Publish(t)
  PROVE  FenceInv'
<1> DEFINE new == [at |-> "data", value |-> memory.data + 1]
<1>1. /\ t \in discipline.may["publish"] /\ point[t] = "out" /\ point' = [point EXCEPT ![t] = "write"]
      /\ posted' = [posted EXCEPT ![t] = @ \cup {new}]
      /\ UNCHANGED <<discipline, memory, seen, early>>
  BY DEF Publish, Move
<1>2. /\ FenceTypeOK /\ new \in Stores /\ new.at = "data" /\ new.value = memory.data + 1
  BY DEF FenceInv, FenceTypeOK, Stores
<1> HIDE DEF new
<1>3. /\ point'[t] = "write" /\ posted'[t] = posted[t] \cup {new}
      /\ \A u \in Callers \ {t} : point'[u] = point[u] /\ posted'[u] = posted[u]
  BY <1>1, <1>2 DEF FenceTypeOK
<1>4. FenceTypeOK'
  BY <1>1, <1>2 DEF FenceTypeOK, Points, Stores
<1>5. \A u \in Callers : Posted(u)' /\ Seen(u)'
  BY <1>1, <1>2, <1>3 DEF FenceInv, Posted, Seen
<1>. QED
  BY <1>1, <1>4, <1>5 DEF FenceInv

LEMMA WriteStep ==
  ASSUME FenceInv, NEW t \in Callers, WriteWithFence(t)
  PROVE  FenceInv'
<1> DEFINE new == [at |-> "flag", value |-> memory.data]
<1>1. /\ posted[t] = {} /\ point[t] = "write" /\ point' = [point EXCEPT ![t] = "out"]
      /\ posted' = [posted EXCEPT ![t] = @ \cup {new}]
      /\ UNCHANGED <<discipline, memory, seen, early>>
  BY DEF WriteWithFence, Fenced, Move
<1>2. /\ FenceTypeOK /\ new \in Stores /\ new.at = "flag" /\ new.value <= memory.data
  BY DEF FenceInv, FenceTypeOK, Stores
<1> HIDE DEF new
<1>3. /\ point'[t] = "out" /\ posted'[t] = {new}
      /\ \A u \in Callers \ {t} : point'[u] = point[u] /\ posted'[u] = posted[u]
  BY <1>1, <1>2 DEF FenceTypeOK
<1>4. FenceTypeOK'
  BY <1>1, <1>2 DEF FenceTypeOK, Points, Stores
<1>5. \A u \in Callers : Posted(u)' /\ Seen(u)'
  BY <1>1, <1>2, <1>3 DEF FenceInv, Posted, Seen
<1>. QED
  BY <1>1, <1>4, <1>5 DEF FenceInv

LEMMA DrainStep ==
  ASSUME FenceInv, NEW t \in Callers, Drain(t)
  PROVE  FenceInv'
<1>1. PICK store \in posted[t] :
        /\ memory' = [memory EXCEPT ![store.at] = store.value]
        /\ posted' = [posted EXCEPT ![t] = @ \ {store}]
        /\ UNCHANGED <<discipline, point, seen, early>>
  BY DEF Drain, wordVars
<1>2. /\ FenceTypeOK /\ store \in Stores /\ memory.flag <= memory.data
      /\ memory \in [data : Nat, flag : Nat]
      /\ \A u \in discipline.may["publish"], v \in discipline.may["publish"] : u = v
  BY ConstantsAssumption DEF FenceInv, FenceTypeOK
<1>3. /\ posted'[t] = posted[t] \ {store}
      /\ \A u \in Callers \ {t} : posted'[u] = posted[u]
  BY <1>1, <1>2 DEF FenceTypeOK
\* Nobody else has a store on its way.
<1>4. \A u \in Callers \ {t} : posted[u] = {}
  BY <1>2 DEF FenceInv, Posted
<1>5. CASE store.at = "data"
  <2>1. point[t] = "write" /\ store.value = memory.data + 1
    BY <1>5 DEF FenceInv, Posted
  <2>2. memory'.data = memory.data + 1 /\ memory'.flag = memory.flag
        /\ memory' \in [data : Nat, flag : Nat]
    <3>1. memory' = [memory EXCEPT !["data"] = store.value]
      BY <1>1, <1>5
    <3>. QED
      BY <1>2, <2>1, <3>1 DEF Stores
  <2>3. \A s \in posted'[t] : s \in Stores /\ s.at # "data"
    <3>1. ASSUME NEW s \in posted[t], s.at = "data"
          PROVE  s = store
      <4>1. s \in Stores /\ s.value = store.value
        BY <2>1, <3>1 DEF FenceInv, Posted, FenceTypeOK
      <4>. QED
        BY <1>2, <1>5, <3>1, <4>1 DEF Stores
    <3>. QED
      BY <1>2, <1>3, <3>1 DEF FenceTypeOK
  <2>4. FenceTypeOK'
    BY <1>1, <1>2, <2>2 DEF FenceTypeOK, Stores
  <2>5. Posted(t)'
    <3>1. \A s \in posted'[t] : s.at = "flag" => s.value <= memory.data /\ s.value \in Int
      BY <1>3, <2>3 DEF FenceInv, Posted, Stores
    <3>2. memory.data \in Int
      BY <1>2
    <3>. QED
      BY <1>1, <1>3, <2>1, <2>2, <2>3, <3>1, <3>2 DEF FenceInv, Posted
  <2>6. \A u \in Callers \ {t} : Posted(u)'
    BY <1>1, <1>3, <1>4 DEF FenceInv, Posted
  <2>7. \A u \in Callers : Seen(u)'
    BY <1>1, <1>2, <2>2 DEF FenceInv, FenceTypeOK, Seen
  <2>8. memory'.flag <= memory'.data
    BY <1>2, <2>2
  <2>. QED
    BY <2>4, <2>5, <2>6, <2>7, <2>8 DEF FenceInv
<1>6. CASE store.at = "flag"
  <2>1. store.value <= memory.data
    BY <1>6 DEF FenceInv, Posted
  <2>2. memory'.data = memory.data /\ memory'.flag = store.value
        /\ memory' \in [data : Nat, flag : Nat]
    <3>1. memory' = [memory EXCEPT !["flag"] = store.value]
      BY <1>1, <1>6
    <3>. QED
      BY <1>2, <3>1 DEF Stores
  <2>3. FenceTypeOK'
    BY <1>1, <1>2, <2>2 DEF FenceTypeOK, Stores
  <2>4. \A u \in Callers : Posted(u)' /\ Seen(u)'
    BY <1>1, <1>3, <2>2 DEF FenceInv, Posted, Seen
  <2>. QED
    BY <2>1, <2>2, <2>3, <2>4 DEF FenceInv
<1>. QED
  BY <1>2, <1>5, <1>6 DEF Stores

LEMMA ReaderStep ==
  ASSUME FenceInv, NEW t \in Callers,
         LoadAhead(t) \/ ReadFlag(t) \/ ReadFence(t) \/ Collect(t)
  PROVE  FenceInv'
<1>1. FenceTypeOK /\ memory \in [data : Nat, flag : Nat] /\ memory.flag <= memory.data
      /\ seen[t] \in [flag : Nat, data : Nat]
  BY DEF FenceInv, FenceTypeOK
<1>2. CASE LoadAhead(t)
  <2>1. /\ point[t] \in {"out", "fence"}
        /\ early' = [early EXCEPT ![t] = {memory.data}]
        /\ UNCHANGED <<discipline, point, memory, posted, seen>>
    BY <1>2 DEF LoadAhead
  <2>2. \A u \in Callers \ {t} : early'[u] = early[u]
    BY <1>1, <2>1 DEF FenceTypeOK
  <2>3. FenceTypeOK'
    BY <1>1, <2>1 DEF FenceTypeOK, Stores
  <2>. QED
    BY <1>1, <2>1, <2>2, <2>3 DEF FenceInv, Posted, Seen
<1>3. CASE ReadFlag(t)
  <2>1. /\ point[t] = "out" /\ point' = [point EXCEPT ![t] = "fence"]
        /\ seen' = [seen EXCEPT ![t].flag = memory.flag]
        /\ UNCHANGED <<discipline, memory, posted, early>>
    BY <1>3 DEF ReadFlag, Move
  <2>2. /\ point'[t] = "fence" /\ seen'[t].flag = memory.flag
        /\ \A u \in Callers \ {t} : point'[u] = point[u] /\ seen'[u] = seen[u]
    BY <1>1, <2>1 DEF FenceTypeOK
  <2>3. FenceTypeOK'
    <3>1. seen' \in [Callers -> [flag : Nat, data : Nat]]
      BY <1>1, <2>1 DEF FenceTypeOK
    <3>. QED
      BY <1>1, <2>1, <3>1 DEF FenceTypeOK, Points, Stores
  <2>. QED
    BY <1>1, <2>1, <2>2, <2>3 DEF FenceInv, Posted, Seen
<1>4. CASE ReadFence(t)
  <2>1. /\ point[t] = "fence" /\ point' = [point EXCEPT ![t] = "read"]
        /\ posted[t] = {}
        /\ early' = [early EXCEPT ![t] = {}]
        /\ UNCHANGED <<discipline, memory, posted, seen>>
    BY <1>4 DEF ReadFence, Fenced, Move
  <2>2. /\ point'[t] = "read" /\ early'[t] = {}
        /\ \A u \in Callers \ {t} : point'[u] = point[u] /\ early'[u] = early[u]
    BY <1>1, <2>1 DEF FenceTypeOK
  <2>3. FenceTypeOK'
    BY <1>1, <2>1 DEF FenceTypeOK, Points, Stores
  <2>. QED
    BY <1>1, <2>1, <2>2, <2>3 DEF FenceInv, Posted, Seen
<1>5. CASE Collect(t)
  <2>1. early[t] = {}
    BY <1>5 DEF Collect, Move, FenceInv, Seen
  <2>2. /\ point[t] = "read" /\ point' = [point EXCEPT ![t] = "out"]
        /\ seen' = [seen EXCEPT ![t].data = memory.data]
        /\ early' = [early EXCEPT ![t] = {}]
        /\ UNCHANGED <<discipline, memory, posted>>
    BY <1>5, <2>1 DEF Collect, Move
  <2>3. /\ point'[t] = "out" /\ seen'[t].data = memory.data /\ seen'[t].flag = seen[t].flag
        /\ \A u \in Callers \ {t} : point'[u] = point[u] /\ seen'[u] = seen[u] /\ early'[u] = early[u]
    BY <1>1, <2>2 DEF FenceTypeOK
  <2>4. FenceTypeOK'
    <3>1. seen' \in [Callers -> [flag : Nat, data : Nat]]
      BY <1>1, <2>2 DEF FenceTypeOK
    <3>2. early' \in [Callers -> SUBSET Nat]
      BY <1>1, <2>2 DEF FenceTypeOK
    <3>. QED
      BY <1>1, <2>2, <3>1, <3>2 DEF FenceTypeOK, Points, Stores
  <2>. QED
    BY <1>1, <2>2, <2>3, <2>4 DEF FenceInv, Posted, Seen
<1>. QED
  BY <1>2, <1>3, <1>4, <1>5

\* The steps of an operation on the word publish nothing and read no flag.
LEMMA OperationStep ==
  ASSUME FenceInv, NEW t \in Callers, UNCHANGED <<discipline, fenceVars>>,
         NEW p \in Points \ {"write", "fence", "read"}, point' = [point EXCEPT ![t] = p],
         point[t] \notin {"write", "fence", "read"}
  PROVE  FenceInv'
<1>1. FenceTypeOK /\ UNCHANGED <<memory, posted, seen, early>>
  BY DEF FenceInv, fenceVars
<1>2. point'[t] = p /\ \A u \in Callers \ {t} : point'[u] = point[u]
  BY <1>1 DEF FenceTypeOK
<1>3. FenceTypeOK'
  BY <1>1 DEF FenceTypeOK, Points, Stores
<1>. QED
  BY <1>1, <1>2, <1>3 DEF FenceInv, Posted, Seen

LEMMA FencesInvariant == AtomicsSpec => []FenceInv
<1>1. AtomicsInit => FenceInv
  BY DEF AtomicsInit, FenceInv, FenceTypeOK, Posted, Seen, Points, Stores
<1>2. FenceInv /\ [AtomicsNext]_atomicsVars => FenceInv'
  <2> SUFFICES ASSUME FenceInv, [AtomicsNext]_atomicsVars
               PROVE  FenceInv'
    OBVIOUS
  <2>1. ASSUME NEW t \in Callers, AtomicsStep(t)
        PROVE  FenceInv'
    <3>1. ASSUME Call(t) \/ Execute(t) \/ Load(t) \/ LockMutex(t) \/ LoadLocked(t) \/ Store(t)
                 \/ UnlockMutex(t) \/ Return(t)
          PROVE  FenceInv'
      <4>1. UNCHANGED <<discipline, fenceVars>>
        BY <3>1 DEF Call, Execute, Load, LockMutex, LoadLocked, Store, UnlockMutex, Return
      <4>2. /\ point[t] \notin {"write", "fence", "read"}
            /\ \E p \in Points \ {"write", "fence", "read"} : point' = [point EXCEPT ![t] = p]
        BY <3>1 DEF Call, Execute, Load, LockMutex, LoadLocked, Store, UnlockMutex, Return, Move,
                    FirstStep, Points
      <4>. QED
        BY <4>1, <4>2, OperationStep
    <3>. QED
      BY <2>1, <3>1, PublishStep, WriteStep, DrainStep, ReaderStep DEF AtomicsStep
  <2>2. ASSUME UNCHANGED atomicsVars
        PROVE  FenceInv'
    BY <2>2 DEF atomicsVars, FenceInv, FenceTypeOK, Posted, Seen
  <2>. QED
    BY <2>1, <2>2 DEF AtomicsNext
<1>. QED
  BY <1>1, <1>2, PTL DEF AtomicsSpec

(***************************************************************************)
(* Who has seen a flag that was written with a fence sees the data it was  *)
(* set for, in whatever order stores reach the memory and loads are        *)
(* executed, as long as one thread publishes (pfunc_atomics.h:182-224).    *)
(***************************************************************************)
THEOREM FlagsFollowTheirData == AtomicsSpec => []PublishedDataAreSeen
<1>1. FenceInv => PublishedDataAreSeen
  BY DEF FenceInv, FenceTypeOK, Seen, PublishedDataAreSeen
<1>. QED
  BY <1>1, FencesInvariant, PTL
=============================================================================
