--------------------------- MODULE TaskMgrProofs ---------------------------
(***************************************************************************)
(* Proofs about TaskMgr for any program, any number of workers and queues, *)
(* and every policy: where a handle can be, and what the stacks of the     *)
(* workers look like.                                                      *)
(***************************************************************************)
EXTENDS TaskMgr, FiniteSetTheorems, SequenceTheorems, TLAPS

(***************************************************************************)
(* The inductive invariant.                                                *)
(***************************************************************************)
\* The workers' stacks are disjoint chains: a task is on one exactly while
\* it is active, what it was started from is nested below it and below
\* nothing else, and what a worker executes is on top.
Stacks ==
  /\ \A t \in Tasks : pc[t] = "idle" <=> under[t] = NoTask
  /\ \A t \in Tasks : under[t] # NoTask => pc[under[t]] = "nested"
  /\ \A t, u \in Tasks : under[t] = under[u] /\ under[t] # NoTask => t = u
  /\ \A w \in Workers : pc[top[w]] \notin {"idle", "nested"}
  /\ \A v, w \in Workers : top[v] = top[w] => v = w

\* A handle in a queue is idle and incomplete, and in one position.
Queued ==
  /\ \A q \in Queues : \A i \in DOMAIN queue[q] :
       pc[queue[q][i]] = "idle" /\ event[queue[q][i]] = "incomplete"
  /\ \A p, q \in Queues : \A i \in DOMAIN queue[p], j \in DOMAIN queue[q] :
       queue[p][i] = queue[q][j] => p = q /\ i = j

\* A handle that get() has returned is idle, incomplete, in one worker's
\* hand and in no queue, and that worker is about to start it.
Held ==
  /\ \A w \in Workers : got[w] # NoTask =>
       pc[got[w]] = "idle" /\ event[got[w]] = "incomplete" /\ pc[top[w]] = "recheck"
  /\ \A v, w \in Workers : got[v] = got[w] /\ got[v] # NoTask => v = w
  /\ \A w \in Workers : \A q \in Queues : \A i \in DOMAIN queue[q] : queue[q][i] # got[w]

\* An active task is incomplete, and an incomplete one has not been waited
\* for and is somewhere.
Incomplete ==
  /\ \A t \in Tasks : pc[t] # "idle" => event[t] = "incomplete"
  /\ \A t \in Tasks : event[t] = "incomplete" => t \in owed
  /\ \A t \in Tasks : event[t] = "incomplete" =>
       \/ pc[t] # "idle"
       \/ \E w \in Workers : got[w] = t
       \/ \E q \in Queues : \E i \in DOMAIN queue[q] : queue[q][i] = t

-----------------------------------------------------------------------------
(***************************************************************************)
(* Facts about the operators.                                              *)
(***************************************************************************)
\* Where a position was before the one at i was taken out, or put in.
After(i, j) == IF j < i THEN j ELSE j + 1
Before(i, j) == IF j < i THEN j ELSE j - 1

\* get() takes one element out of a queue and leaves the order of the others.
LEMMA PopFacts ==
  ASSUME NEW S, NEW s \in Seq(S), NEW i \in DOMAIN s
  PROVE  /\ Pop(s, i) \in Seq(S)
         /\ \A j \in DOMAIN Pop(s, i) : Pop(s, i)[j] = s[After(i, j)]
         /\ \A j \in DOMAIN Pop(s, i) : After(i, j) \in DOMAIN s \ {i}
         /\ \A j, k \in DOMAIN Pop(s, i) : After(i, j) = After(i, k) => j = k
         /\ \A k \in DOMAIN s : k # i =>
              \E j \in DOMAIN Pop(s, i) : Pop(s, i)[j] = s[k]
<1> DEFINE n == Len(s)
           a == SubSeq(s, 1, i - 1)
           b == SubSeq(s, i + 1, n)
<1>1. n \in Nat /\ DOMAIN s = 1 .. n /\ i \in 1 .. n /\ \A j \in 1 .. n : s[j] \in S
  BY LenProperties
<1>2. a \in Seq(S) /\ Len(a) = i - 1 /\ \A j \in 1 .. i - 1 : a[j] = s[j]
  <2>1. \A j \in 1 .. i - 1 : s[j] \in S
    BY <1>1
  <2>. QED
    BY <1>1, <2>1, SubSeqProperties
<1>3. b \in Seq(S) /\ Len(b) = n - i /\ \A j \in 1 .. n - i : b[j] = s[i + j]
  <2>1. \A j \in i + 1 .. n : s[j] \in S
    BY <1>1
  <2>. QED
    BY <1>1, <2>1, SubSeqProperties
<1>4. Pop(s, i) = a \o b
  BY DEF Pop, RemoveAt
<1> HIDE DEF n, a, b
<1>5. /\ a \o b \in Seq(S)
      /\ Len(a \o b) = n - 1
      /\ \A j \in 1 .. n - 1 : (a \o b)[j] = IF j <= i - 1 THEN a[j] ELSE b[j - (i - 1)]
  <2>1. /\ a \o b \in Seq(S)
        /\ Len(a \o b) = Len(a) + Len(b)
        /\ \A j \in 1 .. Len(a) + Len(b) :
             (a \o b)[j] = IF j <= Len(a) THEN a[j] ELSE b[j - Len(a)]
    BY <1>2, <1>3, ConcatProperties
  <2>2. Len(a) + Len(b) = n - 1
    BY <1>1, <1>2, <1>3
  <2>. QED
    BY <1>2, <2>1, <2>2
<1>6. DOMAIN Pop(s, i) = 1 .. n - 1
  BY <1>4, <1>5, LenProperties
<1>7. ASSUME NEW j \in 1 .. n - 1
      PROVE  Pop(s, i)[j] = s[After(i, j)]
  <2> USE DEF After
  <2>1. CASE j < i
    BY <1>1, <1>2, <1>4, <1>5, <2>1
  <2>2. CASE ~(j < i)
    <3>1. j - (i - 1) \in 1 .. n - i /\ i + (j - (i - 1)) = j + 1 /\ ~(j <= i - 1)
      BY <1>1, <2>2
    <3>2. Pop(s, i)[j] = b[j - (i - 1)]
      BY <1>4, <1>5, <3>1
    <3>3. b[j - (i - 1)] = s[j + 1]
      BY <1>3, <3>1
    <3>. QED
      BY <2>2, <3>2, <3>3
  <2>. QED
    BY <2>1, <2>2
<1>8. ASSUME NEW k \in 1 .. n, k # i
      PROVE  \E j \in 1 .. n - 1 : Pop(s, i)[j] = s[k]
  <2>1. CASE k < i
    <3>1. k \in 1 .. n - 1
      BY <1>1, <2>1
    <3>. QED
      BY <1>7, <2>1, <3>1 DEF After
  <2>2. CASE k > i
    <3>1. k - 1 \in 1 .. n - 1 /\ ~(k - 1 < i) /\ (k - 1) + 1 = k
      BY <1>1, <2>2
    <3>. QED
      BY <1>7, <3>1 DEF After
  <2>. QED
    BY <1>1, <1>8, <2>1, <2>2
<1>9. \A j \in 1 .. n - 1 : After(i, j) \in (1 .. n) \ {i}
  BY <1>1 DEF After
<1>10. \A j, k \in 1 .. n - 1 : After(i, j) = After(i, k) => j = k
  BY <1>1 DEF After
<1>11. Pop(s, i) \in Seq(S)
  BY <1>4, <1>5
<1>. QED
  BY <1>1, <1>6, <1>7, <1>8, <1>9, <1>10, <1>11

PutAt(s, t, m) ==
  /\ Put(s, t)[m] = t
  /\ \A j \in DOMAIN Put(s, t) \ {m} : /\ Before(m, j) \in DOMAIN s
                                      /\ Put(s, t)[j] = s[Before(m, j)]
  /\ \A j, k \in DOMAIN Put(s, t) \ {m} : Before(m, j) = Before(m, k) => j = k

\* put() adds the handle at one end.
LEMMA PutFacts ==
  ASSUME NEW S, NEW s \in Seq(S), NEW t \in S
  PROVE  /\ Put(s, t) \in Seq(S)
         /\ \E m \in DOMAIN Put(s, t) : PutAt(s, t, m)
         /\ \A k \in DOMAIN s : \E j \in DOMAIN Put(s, t) : Put(s, t)[j] = s[k]
<1>1. Len(s) \in Nat /\ DOMAIN s = 1 .. Len(s) /\ \A j \in 1 .. Len(s) : s[j] \in S
  BY LenProperties
<1>2. Put(s, t) = <<t>> \o s \/ Put(s, t) = Append(s, t)
  BY Zenon DEF Put, CilkPut, LifoPut, FifoPut, PrioPut
<1>3. CASE Put(s, t) = <<t>> \o s
  <2>1. <<t>> \in Seq(S) /\ Len(<<t>>) = 1 /\ <<t>>[1] = t
    OBVIOUS
  <2> DEFINE a == <<t>>
  <2> HIDE DEF a
  <2>2. /\ a \o s \in Seq(S) /\ Len(a \o s) = 1 + Len(s)
        /\ \A j \in 1 .. 1 + Len(s) : (a \o s)[j] = IF j <= 1 THEN a[j] ELSE s[j - 1]
    BY <2>1, ConcatProperties DEF a
  <2>3. DOMAIN (a \o s) = 1 .. 1 + Len(s)
    BY <2>2, LenProperties
  <2>4. (a \o s)[1] = t
    BY <1>1, <2>1, <2>2 DEF a
  <2>5. \A j \in 1 .. 1 + Len(s) : j # 1 => j - 1 \in 1 .. Len(s) /\ (a \o s)[j] = s[j - 1] /\ ~(j < 1)
    BY <1>1, <2>2
  <2>6. \A k \in 1 .. Len(s) : k + 1 \in 1 .. 1 + Len(s) /\ (a \o s)[k + 1] = s[k]
    BY <1>1, <2>2
  <2>7. Put(s, t) = a \o s /\ 1 \in 1 .. 1 + Len(s)
    BY <1>1, <1>3 DEF a
  <2>8. 1 \in DOMAIN Put(s, t) /\ PutAt(s, t, 1)
    <3>1. \A j, k \in (1 .. 1 + Len(s)) \ {1} : Before(1, j) = Before(1, k) => j = k
      BY <1>1 DEF Before
    <3>. QED
      BY <1>1, <2>3, <2>4, <2>5, <2>7, <3>1 DEF PutAt, Before
  <2>9. \A k \in DOMAIN s : \E j \in DOMAIN Put(s, t) : Put(s, t)[j] = s[k]
    BY <1>1, <2>3, <2>6, <2>7
  <2>. QED
    BY <2>2, <2>7, <2>8, <2>9
<1>4. CASE Put(s, t) = Append(s, t)
  <2> DEFINE b == Append(s, t)
  <2>1. /\ b \in Seq(S) /\ Len(b) = Len(s) + 1 /\ DOMAIN b = 1 .. Len(s) + 1
        /\ b[Len(s) + 1] = t
        /\ \A j \in 1 .. Len(s) : b[j] = s[j]
    BY <1>1
  <2> HIDE DEF b
  <2>2. \A j \in 1 .. Len(s) + 1 : j # Len(s) + 1 => j < Len(s) + 1 /\ j \in 1 .. Len(s)
    BY <1>1
  <2>3. \A k \in 1 .. Len(s) : k \in 1 .. Len(s) + 1
    BY <1>1
  <2>4. Put(s, t) = b /\ Len(s) + 1 \in 1 .. Len(s) + 1
    BY <1>1, <1>4 DEF b
  <2>5. Len(s) + 1 \in DOMAIN Put(s, t) /\ PutAt(s, t, Len(s) + 1)
    <3>1. \A j, k \in (1 .. Len(s) + 1) \ {Len(s) + 1} :
            Before(Len(s) + 1, j) = Before(Len(s) + 1, k) => j = k
      BY <1>1 DEF Before
    <3>. QED
      BY <1>1, <2>1, <2>2, <2>4, <3>1 DEF PutAt, Before
  <2>. QED
    BY <1>1, <2>1, <2>3, <2>4, <2>5
<1>. QED
  BY <1>2, <1>3, <1>4
\* get() looks at elements of the queue only.
LEMMA ExposedIsIn ==
  ASSUME NEW S, NEW s \in Seq(S), NEW own, NEW i \in Exposed(s, own)
  PROVE  i \in DOMAIN s
<1>1. s # <<>>
  BY Zenon DEF Exposed
<1>2. i \in {1, Len(s)} \/ i \in PrioExposed(s)
  BY <1>1, Zenon DEF Exposed, CilkExposed, LifoExposed, FifoExposed
<1>3. DOMAIN s = 1 .. Len(s) /\ Len(s) \in Nat \ {0}
  BY <1>1, LenProperties, EmptySeq
<1>. QED
  BY <1>2, <1>3 DEF PrioExposed

-----------------------------------------------------------------------------
(***************************************************************************)
(* Types.                                                                  *)
(***************************************************************************)
LEMMA QueueNumbers == 0 \in Queues /\ \A n \in Int : n % NumQueues \in Queues
<1>1. NumQueues \in Nat \ {0}
  <2>1. CurrentQueue \in Int
    BY DEF CurrentQueue
  <2>2. NumQueues \in 1 .. CurrentQueue
    BY QueuesAssumption
  <2>. QED
    BY <2>1, <2>2
<1>. QED
  BY <1>1 DEF Queues

\* What is known of a worker, its context and its wait.
LEMMA Typing ==
  ASSUME TypeOK, NEW w \in Workers
  PROVE  /\ top[w] \in Contexts /\ top[w] # Main
         /\ top[w] \in Workers \/ top[w] \in Tasks
         /\ QueueOf[w] \in Queues
         /\ Queues \subseteq Int
BY ThreadsAssumption, QueuesAssumption DEF TypeOK, Contexts, Queues

\* A spawn puts the handle on one queue, with one of its attributes.
LEMMA SpawnPuts ==
  ASSUME TypeOK, NEW own \in Queues, NEW t \in Tasks, NEW c, Spawn(c, own, t)
  PROVE  \E q \in Queues : \E a \in Attributes :
           /\ queue' = [queue EXCEPT ![q] = Put(@, t)]
           /\ attr' = [attr EXCEPT ![t] = a]
<1>1. PICK a \in Usable(t) :
        LET q == IF a.queue = CurrentQueue THEN own ELSE a.queue
        IN  /\ attr' = [attr EXCEPT ![t] = a]
            /\ queue' = [queue EXCEPT ![q] = Put(@, t)]
  BY Zenon DEF Spawn
<1>2. a \in Attributes
  BY ProgramAssumption DEF Usable
<1>3. (IF a.queue = CurrentQueue THEN own ELSE a.queue) \in Queues
  BY <1>2 DEF Attributes
<1>. QED
  BY <1>1, <1>2, <1>3, Zenon

LEMMA SpawnTypes ==
  ASSUME TypeOK, NEW own \in Queues, NEW t \in Tasks, NEW c, Spawn(c, own, t)
  PROVE  TypeOK'
<1>1. PICK q \in Queues, a \in Attributes :
           /\ queue' = [queue EXCEPT ![q] = Put(@, t)]
           /\ attr' = [attr EXCEPT ![t] = a]
  BY SpawnPuts
<1>2. Put(queue[q], t) \in Seq(Tasks)
  BY PutFacts DEF TypeOK
<1>3. queue' \in [Queues -> Seq(Tasks)]
  BY <1>1, <1>2 DEF TypeOK
<1>4. attr' \in [Tasks -> Attributes]
  BY <1>1 DEF TypeOK
<1>. QED
  BY <1>3, <1>4 DEF TypeOK, Spawn, ResetCompletion, getter, stack, copies

LEMMA WaitTypes ==
  ASSUME TypeOK
  PROVE  /\ \A t \in Tasks : BeginWait(Main, t, "poll") /\ UNCHANGED <<tries, saved>> => TypeOK'
         /\ \A w \in Workers, t \in Tasks : WorkerWait(w, t) => TypeOK'
         /\ \A c \in Contexts : Sleep(c) \/ WakeUp(c) => TypeOK'
         /\ MainPoll => TypeOK'
<1> USE DEF TypeOK, program, getter, stack, copies, PCs
<1>1. ASSUME NEW t \in Tasks, BeginWait(Main, t, "poll"), UNCHANGED <<tries, saved>>
      PROVE  TypeOK'
  BY <1>1 DEF BeginWait, Contexts
<1>2. ASSUME NEW w \in Workers, NEW t \in Tasks, WorkerWait(w, t)
      PROVE  TypeOK'
  <2>1. top[w] \in Tasks /\ MaxAttempts \in 0 .. MaxAttempts
    BY <1>2, BoundsAssumption DEF WorkerWait
  <2>2. tries' \in [Workers -> 0 .. MaxAttempts] /\ saved' \in [Tasks -> Copies]
    BY <1>2, <2>1 DEF WorkerWait
  <2>3. target' \in [Contexts -> Tasks \cup {NoTask}] /\ pc' \in [Contexts -> PCs]
    BY <1>2 DEF WorkerWait, BeginWait
  <2>. QED
    BY <1>2, <2>2, <2>3 DEF WorkerWait, BeginWait
<1>3. ASSUME NEW c \in Contexts, Sleep(c) \/ WakeUp(c)
      PROVE  TypeOK'
  <2>1. CASE Sleep(c)
    BY <2>1 DEF Sleep
  <2>2. CASE WakeUp(c)
    BY <2>2 DEF WakeUp, EndWait
  <2>. QED
    BY <1>3, <2>1, <2>2
<1>4. ASSUME MainPoll
      PROVE  TypeOK'
  BY <1>4 DEF MainPoll, EndWait, Tested, Contexts
<1>. QED
  BY <1>1, <1>2, <1>3, <1>4

LEMMA MainTypes == TypeOK /\ (Shutdown \/ Join \/ \E w \in Workers : Cancel(w)) => TypeOK'
<1> USE DEF TypeOK, program, getter, stack, copies, PCs
<1>. SUFFICES ASSUME TypeOK, Shutdown \/ Join \/ \E w \in Workers : Cancel(w)
              PROVE  TypeOK'
  OBVIOUS
<1>1. CASE Shutdown
  BY <1>1 DEF Shutdown
<1>2. CASE Join
  BY <1>2 DEF Join
<1>3. CASE \E w \in Workers : Cancel(w)
  BY <1>3 DEF Cancel
<1>. QED
  BY <1>1, <1>2, <1>3

\* get_task() and get().
LEMMA GetTypes ==
  ASSUME TypeOK, NEW w \in Workers
  PROVE  /\ Check(w) => TypeOK'
         /\ Scan(w) => TypeOK'
         /\ Yield(w) => TypeOK'
<1> USE DEF TypeOK, program, getter, stack, copies, PCs
<1>1. ASSUME Check(w)
      PROVE  TypeOK'
  <2>1. event' \in [Tasks -> {"inactive", "incomplete", "complete"}]
    BY <1>1 DEF Check, TestCompletion, Tested
  <2>2. tries' \in [Workers -> 0 .. MaxAttempts]
    <3>1. tries' = tries \/ (tries[w] > 0 /\ tries' = [tries EXCEPT ![w] = @ - 1])
      BY <1>1 DEF Check
    <3>2. tries[w] > 0 => tries[w] - 1 \in 0 .. MaxAttempts
      BY BoundsAssumption
    <3>. QED
      BY <3>1, <3>2
  <2>3. pc' \in [Contexts -> PCs]
    BY <1>1 DEF Check
  <2>. QED
    BY <1>1, <2>1, <2>2, <2>3 DEF Check
<1>2. ASSUME Scan(w)
      PROVE  TypeOK'
  <2> DEFINE c == top[w]
             q == (QueueOf[w] + scan[w]) % NumQueues
             next == (scan[w] + 1) % NumQueues
             found == {i \in Exposed(queue[q], scan[w] = 0) : Pred(c, queue[q][i])}
  <2>1. q \in Queues /\ next \in Queues /\ 0 \in Queues
    <3>1. QueueOf[w] + scan[w] \in Int /\ scan[w] + 1 \in Int
      <4>1. QueueOf[w] \in Queues /\ scan[w] \in Queues /\ Queues \subseteq Int
        BY Typing
      <4>2. QueueOf[w] \in Int /\ scan[w] \in Int
        BY <4>1
      <4>. QED
        BY <4>2
    <3>. QED
      BY <3>1, QueueNumbers
  <2>2. CASE \E i \in found :
              /\ got' = [got EXCEPT ![w] = queue[q][i]]
              /\ queue' = [queue EXCEPT ![q] = Pop(@, i)]
              /\ scan' = [scan EXCEPT ![w] = 0]
              /\ pc' = [pc EXCEPT ![c] = "recheck"]
    <3>1. PICK i \in found :
              /\ got' = [got EXCEPT ![w] = queue[q][i]]
              /\ queue' = [queue EXCEPT ![q] = Pop(@, i)]
              /\ scan' = [scan EXCEPT ![w] = 0]
              /\ pc' = [pc EXCEPT ![c] = "recheck"]
      BY <2>2
    <3>2. i \in DOMAIN queue[q]
      BY <2>1, ExposedIsIn
    <3> HIDE DEF q, found
    <3>3. queue[q][i] \in Tasks /\ Pop(queue[q], i) \in Seq(Tasks)
      BY <2>1, <3>2, PopFacts, LenProperties
    <3>. QED
      BY <1>2, <2>1, <3>1, <3>3 DEF Scan
  <2>3. CASE /\ found = {}
             /\ scan' = [scan EXCEPT ![w] = next]
             /\ pc' = [pc EXCEPT ![c] = IF next = 0 THEN "check" ELSE "scan"]
             /\ UNCHANGED <<queue, got>>
    <3> HIDE DEF q, found, next
    <3>. QED
      BY <1>2, <2>1, <2>3 DEF Scan
  <2>. QED
    BY <1>2, <2>2, <2>3 DEF Scan
<1>3. ASSUME Yield(w)
      PROVE  TypeOK'
  <2>1. Backoff \in 0 .. MaxAttempts
    BY BoundsAssumption DEF Backoff, HalfAttempts
  <2>. QED
    BY <1>3, <2>1 DEF Yield
<1>. QED
  BY <1>1, <1>2, <1>3

\* Running a task, on top of the context that took it.
LEMMA RunTypes ==
  ASSUME TypeOK, Stacks, NEW w \in Workers
  PROVE  /\ Start(w) => TypeOK'
         /\ LeaveWait(w) => TypeOK'
         /\ Exit(w) => TypeOK'
         /\ Return(w) => TypeOK'
         /\ Notify(w) => TypeOK'
         /\ Wake(w) => TypeOK'
         /\ Restore(w) => TypeOK'
<1> USE DEF TypeOK, program, getter, stack, copies, PCs
<1>0. top[w] \in Contexts
  BY Typing
<1>1. ASSUME Start(w)
      PROVE  TypeOK'
  <2>1. got[w] \in Tasks /\ got[w] \in Contexts
    BY <1>1 DEF Start, Contexts
  <2>2. event' \in [Tasks -> {"inactive", "incomplete", "complete"}]
    BY <1>1 DEF Start, TestCompletion, Tested
  <2>3. cache' \in [Workers -> Copies]
    BY <1>1, <2>1 DEF Start, ShallowCopy, Copies
  <2>4. pc' \in [Contexts -> PCs]
    BY <1>1 DEF Start
  <2>. QED
    BY <1>1, <2>1, <2>2, <2>3, <2>4 DEF Start
<1>2. ASSUME LeaveWait(w)
      PROVE  TypeOK'
  <2>1. event' \in [Tasks -> {"inactive", "incomplete", "complete"}]
    BY <1>2 DEF LeaveWait, TestCompletion, Tested
  <2>2. pc' \in [Contexts -> PCs] /\ target' \in [Contexts -> Tasks \cup {NoTask}] /\ owed' \subseteq Tasks
    BY <1>2 DEF LeaveWait, EndWait
  <2>. QED
    BY <1>2, <2>1, <2>2 DEF LeaveWait, EndWait
<1>3. ASSUME Exit(w)
      PROVE  TypeOK'
  BY <1>3 DEF Exit
<1>4. ASSUME Return(w)
      PROVE  TypeOK'
  <2>1. pc' \in [Contexts -> PCs]
    BY <1>4 DEF Return
  <2>2. runs' \in [Tasks -> Nat]
    BY <1>4 DEF Return
  <2>. QED
    BY <1>4, <2>1, <2>2 DEF Return
<1>5. ASSUME Notify(w)
      PROVE  TypeOK'
  <2>1. top[w] \in Tasks /\ under[top[w]] \in Workers \cup Tasks
    BY <1>5, <1>0 DEF Notify, Stacks
  <2>2. pc' \in [Contexts -> PCs] /\ waking' \in [Workers -> Tasks \cup {NoTask}]
    BY <1>5, <2>1 DEF Notify, Resumed
  <2>3. tries' \in [Workers -> 0 .. MaxAttempts]
    BY <1>5, BoundsAssumption DEF Notify
  <2>. QED
    BY <1>5, <2>1, <2>2, <2>3 DEF Notify
<1>6. ASSUME Restore(w)
      PROVE  TypeOK'
  BY <1>6 DEF Restore
<1>7. ASSUME Wake(w)
      PROVE  TypeOK'
  <2>1. pc' \in [Contexts -> PCs]
    BY <1>7 DEF Wake, Resumed
  <2>. QED
    BY <1>7, <2>1 DEF Wake
<1>. QED
  BY <1>1, <1>2, <1>3, <1>4, <1>5, <1>6, <1>7

\* Every step keeps the types.
LEMMA TypeStep == TypeOK /\ Stacks /\ [Next]_vars => TypeOK'
<1>. SUFFICES ASSUME TypeOK, Stacks, [Next]_vars
              PROVE  TypeOK'
  OBVIOUS
<1>1. ASSUME MainStep
      PROVE  TypeOK'
  <2>1. Main \in Contexts
    BY DEF Contexts
  <2>. QED
    BY <1>1, <2>1, QueueNumbers, SpawnTypes, WaitTypes, MainTypes DEF MainStep
<1>2. ASSUME NEW w \in Workers, WorkerStep(w)
      PROVE  TypeOK'
  <2>1. top[w] \in Contexts /\ QueueOf[w] \in Queues
    BY Typing
  <2>. QED
    BY <1>2, <2>1, SpawnTypes, WaitTypes, GetTypes, RunTypes
       DEF WorkerStep, WorkerSpawn, WorkerSleep, WorkerWakeUp
<1>3. ASSUME UNCHANGED vars
      PROVE  TypeOK'
  BY <1>3 DEF TypeOK, vars, program, getter, stack, copies
<1>. QED
  BY <1>1, <1>2, <1>3 DEF Next, Ended

-----------------------------------------------------------------------------
(***************************************************************************)
(* Where the handles are.  Most actions move no handle and leave the       *)
(* stacks alone: they move one context from one point of its code to       *)
(* another, and let a wait end only for a task that is complete.           *)
(***************************************************************************)
\* The contexts that run the program's own code.
Callers == Tasks \cup {Main}

\* Whoever has been woken has been woken for the spawn it waits for.
Roused == \A c \in Callers : pc[c] = "woken" => event[target[c]] # "incomplete"

Still ==
  /\ UNCHANGED <<queue, got, top, under>>
  /\ \A t \in Tasks : event'[t] = "incomplete" <=> event[t] = "incomplete"
  /\ \A t \in Tasks : event[t] = "incomplete" /\ t \in owed => t \in owed'
  /\ \A d \in Contexts : /\ pc'[d] = "idle" <=> pc[d] = "idle"
                         /\ pc'[d] = "nested" <=> pc[d] = "nested"
  /\ \A w \in Workers : got[w] # NoTask /\ pc[top[w]] = "recheck" => pc'[top[w]] = "recheck"

Quiet(c) ==
  /\ UNCHANGED <<queue, got, top, under>>
  /\ \A t \in Tasks : event'[t] = "incomplete" <=> event[t] = "incomplete"
  /\ \A t \in Tasks : event[t] = "incomplete" /\ t \in owed => t \in owed'
  /\ pc[c] \notin {"idle", "nested"}
  /\ \A w \in Workers : top[w] = c /\ pc[c] = "recheck" => got[w] = NoTask
  /\ \E there \in PCs \ {"idle", "nested"} : pc' = [pc EXCEPT ![c] = there]

Shape == Stacks /\ Queued /\ Held /\ Incomplete

LEMMA StillStep ==
  ASSUME TypeOK, Shape, Still
  PROVE  Shape'
<1>1. /\ UNCHANGED <<queue, got, top, under>>
      /\ \A t \in Tasks : event'[t] = "incomplete" <=> event[t] = "incomplete"
      /\ \A t \in Tasks : event[t] = "incomplete" /\ t \in owed => t \in owed'
      /\ \A d \in Contexts : /\ pc'[d] = "idle" <=> pc[d] = "idle"
                             /\ pc'[d] = "nested" <=> pc[d] = "nested"
      /\ \A w \in Workers : got[w] # NoTask /\ pc[top[w]] = "recheck" => pc'[top[w]] = "recheck"
  BY DEF Still
<1>2. \A t \in Tasks : t \in Contexts
  BY DEF Contexts
<1>3. \A w \in Workers : top[w] \in Contexts
  BY Typing
<1>4. \A q \in Queues : \A i \in DOMAIN queue[q] : queue[q][i] \in Tasks
  BY ElementOfSeq, LenProperties DEF TypeOK
<1>5. Stacks'
  <2>1. \A t \in Tasks : under[t] # NoTask => under[t] \in Contexts
    BY DEF Contexts, TypeOK
  <2>. QED
    BY <1>1, <1>2, <1>3, <2>1 DEF Shape, Stacks, TypeOK
<1>6. Queued'
  BY <1>1, <1>2, <1>4 DEF Shape, Queued, TypeOK
<1>7. Held'
  BY <1>1, <1>2, <1>3 DEF Shape, Held, TypeOK
<1>8. Incomplete'
  <2>1. \A t \in Tasks : pc'[t] # "idle" => event'[t] = "incomplete"
    BY <1>1, <1>2 DEF Shape, Incomplete, TypeOK
  <2>2. \A t \in Tasks : event'[t] = "incomplete" => t \in owed'
    BY <1>1, <1>2 DEF Shape, Incomplete, TypeOK
  <2>3. \A t \in Tasks : event'[t] = "incomplete" =>
          \/ pc'[t] # "idle"
          \/ \E w \in Workers : got[w] = t
          \/ \E q \in Queues : \E i \in DOMAIN queue[q] : queue[q][i] = t
    BY <1>1, <1>2 DEF Shape, Incomplete, TypeOK
  <2>. QED
    BY <1>1, <2>1, <2>2, <2>3 DEF Incomplete
<1>. QED
  BY <1>5, <1>6, <1>7, <1>8 DEF Shape

LEMMA QuietStep ==
  ASSUME TypeOK, Shape, NEW c \in Contexts, Quiet(c)
  PROVE  Shape'
<1>1. \A w \in Workers : top[w] \in Contexts
  BY Typing
<1>2. PICK there \in PCs \ {"idle", "nested"} : pc' = [pc EXCEPT ![c] = there]
  BY DEF Quiet
<1>3. \A d \in Contexts : pc'[d] = IF d = c THEN there ELSE pc[d]
  BY <1>2 DEF TypeOK
<1>4. Still
  BY <1>1, <1>3 DEF Quiet, Still, TypeOK
<1>. QED
  BY <1>4, StillStep

\* So does the thread that wakes the sleepers of an event.
LEMMA WakeIsStill ==
  ASSUME TypeOK, NEW w \in Workers, Wake(w)
  PROVE  Still
<1>1. \A v \in Workers : top[v] \in Contexts
  BY Typing
<1>2. \A d \in Contexts :
        pc'[d] = IF d = top[w] THEN Resumed(d)
                 ELSE IF pc[d] = "asleep" /\ target[d] = waking[w] THEN "woken" ELSE pc[d]
  BY DEF Wake
<1>3. pc[top[w]] = "wake" /\ UNCHANGED <<queue, event, owed, got, top, under>>
  BY DEF Wake, program, getter
<1>4. \A d \in Contexts : /\ pc'[d] = "idle" <=> pc[d] = "idle"
                          /\ pc'[d] = "nested" <=> pc[d] = "nested"
                          /\ pc[d] = "recheck" => pc'[d] = "recheck"
  BY <1>2, <1>3 DEF Resumed
<1>. QED
  BY <1>1, <1>3, <1>4 DEF Still, TypeOK

\* A test never changes which tasks are incomplete.
LEMMA TestKeepsIncomplete ==
  ASSUME TypeOK, NEW u, NEW t \in Tasks
  PROVE  Tested(u)[t] = "incomplete" <=> event[t] = "incomplete"
BY DEF TypeOK, Tested

\* A wait that ends takes its task out of owed, and no incomplete one.
LEMMA EndWaitIsQuiet ==
  ASSUME TypeOK, NEW c \in Contexts, EndWait(c), event[target[c]] # "incomplete",
         event' = event \/ event' = Tested(target[c]),
         pc[c] \in {"block", "woken", "poll", "recheck"},
         \A w \in Workers : top[w] = c /\ pc[c] = "recheck" => got[w] = NoTask
  PROVE  Quiet(c)
<1>1. \A t \in Tasks : event'[t] = "incomplete" <=> event[t] = "incomplete"
  BY TestKeepsIncomplete
<1>2. \A t \in Tasks : event[t] = "incomplete" /\ t \in owed => t \in owed'
  BY DEF EndWait
<1>3. pc' = [pc EXCEPT ![c] = "body"] /\ UNCHANGED <<queue, got, top, under>>
  BY DEF EndWait, getter, stack
<1>. QED
  BY <1>1, <1>2, <1>3 DEF Quiet, PCs

LEMMA MainIsQuiet ==
  ASSUME TypeOK, Roused, MainStep, ~ \E t \in Tasks : Spawn(Main, 0, t)
  PROVE  Quiet(Main)
<1>1. Main \in Contexts /\ Main \in Callers
  BY DEF Contexts, Callers
<1>2. \A w \in Workers : top[w] # Main
  BY Typing
<1>3. CASE \E t \in Tasks : BeginWait(Main, t, "poll")
  BY <1>2, <1>3 DEF BeginWait, InBody, Quiet, program, stack, PCs
<1>4. CASE WakeUp(Main)
  <2>1. event[target[Main]] # "incomplete"
    BY <1>1, <1>4 DEF WakeUp, Roused
  <2>. QED
    BY <1>1, <1>2, <1>4, <2>1, EndWaitIsQuiet DEF WakeUp
<1>5. CASE MainPoll
  BY <1>1, <1>2, <1>5, EndWaitIsQuiet DEF MainPoll
<1>6. CASE Shutdown
  BY <1>2, <1>6 DEF Shutdown, InBody, Quiet, program, getter, stack, PCs
<1>7. CASE \E w \in Workers : Cancel(w)
  <2>1. pc' = [pc EXCEPT ![Main] = "cancel"] /\ pc[Main] = "cancel"
    BY <1>1, <1>7 DEF Cancel, TypeOK
  <2>. QED
    BY <1>2, <1>7, <2>1 DEF Cancel, Quiet, program, getter, stack, PCs
<1>8. CASE Join
  BY <1>2, <1>8 DEF Join, Quiet, program, getter, stack, PCs
<1>9. CASE Sleep(Main)
  BY <1>2, <1>9 DEF Sleep, Quiet, program, getter, stack, PCs
<1>. QED
  BY <1>3, <1>4, <1>5, <1>6, <1>7, <1>8, <1>9 DEF MainStep

LEMMA WorkerIsQuiet ==
  ASSUME TypeOK, Stacks, Roused, NEW w \in Workers,
         \/ \E t \in Tasks : WorkerWait(w, t)
         \/ WorkerSleep(w) \/ WorkerWakeUp(w) \/ Check(w) \/ Yield(w) \/ LeaveWait(w) \/ Exit(w)
         \/ Return(w) \/ Restore(w)
         \/ Scan(w) /\ UNCHANGED <<queue, got>>
  PROVE  Quiet(top[w])
<1> DEFINE c == top[w]
<1>0. c \in Contexts /\ \A v \in Workers : top[v] = c => v = w
  BY Typing DEF Stacks
<1>1. CASE \E t \in Tasks : WorkerWait(w, t)
  BY <1>0, <1>1 DEF WorkerWait, BeginWait, InBody, Quiet, program, stack, PCs
<1>2. CASE WorkerWakeUp(w)
  <2>1. c \in Callers /\ event[target[c]] # "incomplete"
    BY <1>2 DEF WorkerWakeUp, WakeUp, Callers, Roused
  <2>. QED
    BY <1>0, <1>2, <2>1, EndWaitIsQuiet DEF WorkerWakeUp, WakeUp
<1>3. CASE Check(w)
  <2>1. \A t \in Tasks : event'[t] = "incomplete" <=> event[t] = "incomplete"
    BY <1>3, TestKeepsIncomplete DEF Check, TestCompletion
  <2>. QED
    BY <1>0, <1>3, <2>1 DEF Check, Quiet, program, stack, PCs
<1>4. CASE Yield(w)
  BY <1>0, <1>4 DEF Yield, Quiet, program, stack, PCs
<1>5. CASE LeaveWait(w)
  <2>1. c \notin Workers
    BY <1>5, ThreadsAssumption DEF LeaveWait
  <2>2. event[target[c]] # "incomplete" /\ event' = Tested(target[c])
    BY <1>5, <2>1 DEF LeaveWait, Completed, TestCompletion
  <2>. QED
    BY <1>0, <1>5, <2>2, EndWaitIsQuiet DEF LeaveWait
<1>6. CASE Exit(w)
  BY <1>0, <1>6 DEF Exit, Quiet, program, getter, stack, PCs
<1>7. CASE Return(w)
  BY <1>0, <1>7 DEF Return, InBody, Quiet, getter, stack, PCs
<1>8. CASE Restore(w)
  BY <1>0, <1>8 DEF Restore, Quiet, program, getter, stack, PCs
<1>9. CASE Scan(w) /\ UNCHANGED <<queue, got>>
  <2>1. /\ pc[c] = "scan"
        /\ \E there \in {"recheck", "check", "scan"} : pc' = [pc EXCEPT ![c] = there]
        /\ UNCHANGED <<event, program, stack>>
    BY <1>9 DEF Scan
  <2>. QED
    BY <1>0, <1>9, <2>1 DEF Quiet, program, stack, PCs
<1>10. CASE WorkerSleep(w)
  BY <1>0, <1>10 DEF WorkerSleep, Sleep, Quiet, program, getter, stack, PCs
<1>. QED
  BY <1>1, <1>2, <1>3, <1>4, <1>5, <1>6, <1>7, <1>8, <1>9, <1>10

-----------------------------------------------------------------------------
(***************************************************************************)
(* The four actions that move a handle: onto a queue, into a hand, onto a  *)
(* stack, and off it.                                                      *)
(***************************************************************************)
Queuing(t) == \E q \in Queues : \E i \in DOMAIN queue[q] : queue[q][i] = t

\* A handle that is not owed is nowhere.
LEMMA NotOwed ==
  ASSUME TypeOK, Shape, NEW t \in Tasks, t \notin owed
  PROVE  event[t] # "incomplete" /\ pc[t] = "idle" /\ ~Queuing(t) /\ \A w \in Workers : got[w] # t
BY ThreadsAssumption DEF TypeOK, Shape, Queued, Held, Incomplete, Queuing

LEMMA SpawnShape ==
  ASSUME TypeOK, Shape, NEW own \in Queues, NEW t \in Tasks, NEW c, Spawn(c, own, t)
  PROVE  Shape'
<1>1. PICK q \in Queues : queue' = [queue EXCEPT ![q] = Put(@, t)]
  BY SpawnPuts
<1>2. PICK m \in DOMAIN Put(queue[q], t) : PutAt(queue[q], t, m)
  BY PutFacts DEF TypeOK
<1> DEFINE Old(p, i) == IF p = q THEN Before(m, i) ELSE i
           New(p, i) == p = q /\ i = m
<1>3. queue'[q] = Put(queue[q], t) /\ \A p \in Queues : p # q => queue'[p] = queue[p]
  BY <1>1 DEF TypeOK
<1>4. ASSUME NEW p \in Queues, NEW i \in DOMAIN queue'[p], ~New(p, i)
      PROVE  Old(p, i) \in DOMAIN queue[p] /\ queue'[p][i] = queue[p][Old(p, i)]
  BY <1>2, <1>3, <1>4 DEF PutAt
<1>5. ASSUME NEW p \in Queues, NEW i \in DOMAIN queue'[p], NEW j \in DOMAIN queue'[p],
             ~New(p, i), ~New(p, j), Old(p, i) = Old(p, j)
      PROVE  i = j
  BY <1>2, <1>3, <1>5 DEF PutAt
<1>6. m \in DOMAIN queue'[q] /\ queue'[q][m] = t
  BY <1>2, <1>3 DEF PutAt
<1>7. ASSUME NEW p \in Queues, NEW k \in DOMAIN queue[p]
      PROVE  \E i \in DOMAIN queue'[p] : queue'[p][i] = queue[p][k]
  <2>1. CASE p = q
    <3>1. queue[q] \in Seq(Tasks)
      BY DEF TypeOK
    <3>2. \A j \in DOMAIN queue[q] : \E i \in DOMAIN Put(queue[q], t) :
             Put(queue[q], t)[i] = queue[q][j]
      BY <3>1, PutFacts
    <3>. QED
      BY <1>3, <2>1, <3>2
  <2>2. CASE p # q
    BY <1>3, <2>2
  <2>. QED
    BY <2>1, <2>2
<1> HIDE DEF Old
<1>8. /\ t \notin owed /\ event' = [event EXCEPT ![t] = "incomplete"] /\ owed' = owed \cup {t}
      /\ UNCHANGED <<pc, got, top, under>>
  BY DEF Spawn, ResetCompletion, getter, stack
<1>9. event[t] # "incomplete" /\ pc[t] = "idle" /\ ~Queuing(t) /\ \A w \in Workers : got[w] # t
  BY <1>8, NotOwed
<1>10. \A u \in Tasks : event'[u] = IF u = t THEN "incomplete" ELSE event[u]
  BY <1>8 DEF TypeOK
<1>11. \A p \in Queues : \A k \in DOMAIN queue[p] : queue[p][k] # t /\ queue[p][k] \in Tasks
  BY <1>9, LenProperties, ElementOfSeq DEF Queuing, TypeOK
<1>12. Stacks'
  BY <1>8 DEF Shape, Stacks
<1>13. Queued'
  <2>1. ASSUME NEW p \in Queues, NEW i \in DOMAIN queue'[p]
        PROVE  pc[queue'[p][i]] = "idle" /\ event'[queue'[p][i]] = "incomplete"
    <3>1. CASE New(p, i)
      BY <1>6, <1>9, <1>10, <3>1
    <3>2. CASE ~New(p, i)
      BY <1>4, <1>10, <1>11, <3>2 DEF Shape, Queued
    <3>. QED
      BY <3>1, <3>2
  <2>2. ASSUME NEW p \in Queues, NEW r \in Queues,
               NEW i \in DOMAIN queue'[p], NEW j \in DOMAIN queue'[r],
               queue'[p][i] = queue'[r][j]
        PROVE  p = r /\ i = j
    <3>1. CASE New(p, i) \/ New(r, j)
      BY <1>4, <1>6, <1>11, <2>2, <3>1
    <3>2. CASE ~New(p, i) /\ ~New(r, j)
      <4>1. p = r /\ Old(p, i) = Old(r, j)
        BY <1>4, <2>2, <3>2 DEF Shape, Queued
      <4>. QED
        BY <1>5, <3>2, <4>1
    <3>. QED
      BY <3>1, <3>2
  <2>. QED
    BY <1>8, <2>1, <2>2 DEF Queued
<1>14. Held'
  <2>1. \A w \in Workers : got[w] # NoTask =>
           pc[got[w]] = "idle" /\ event'[got[w]] = "incomplete" /\ pc[top[w]] = "recheck"
    BY <1>9, <1>10 DEF Shape, Held, TypeOK
  <2>2. ASSUME NEW w \in Workers, NEW p \in Queues, NEW i \in DOMAIN queue'[p]
        PROVE  queue'[p][i] # got[w]
    <3>1. CASE New(p, i)
      BY <1>6, <1>9, <3>1
    <3>2. CASE ~New(p, i)
      BY <1>4, <3>2 DEF Shape, Held
    <3>. QED
      BY <3>1, <3>2
  <2>. QED
    BY <1>8, <2>1, <2>2 DEF Shape, Held
<1>15. Incomplete'
  <2>1. \A u \in Tasks : pc[u] # "idle" => event'[u] = "incomplete"
    BY <1>9, <1>10 DEF Shape, Incomplete
  <2>2. \A u \in Tasks : event'[u] = "incomplete" => u \in owed'
    BY <1>8, <1>10 DEF Shape, Incomplete
  <2>3. ASSUME NEW u \in Tasks, event'[u] = "incomplete"
        PROVE  \/ pc[u] # "idle"
               \/ \E w \in Workers : got[w] = u
               \/ \E p \in Queues : \E i \in DOMAIN queue'[p] : queue'[p][i] = u
    <3>1. CASE u = t
      BY <1>6, <3>1
    <3>2. CASE u # t
      BY <1>7, <1>10, <2>3, <3>2 DEF Shape, Incomplete
    <3>. QED
      BY <3>1, <3>2
  <2>. QED
    BY <1>8, <2>1, <2>2, <2>3 DEF Incomplete
<1>. QED
  BY <1>12, <1>13, <1>14, <1>15 DEF Shape

\* get() takes a handle from a queue into the worker's hand.
Take(w, q, i) ==
  /\ got' = [got EXCEPT ![w] = queue[q][i]]
  /\ queue' = [queue EXCEPT ![q] = Pop(@, i)]
  /\ pc[top[w]] = "scan" /\ pc' = [pc EXCEPT ![top[w]] = "recheck"]
  /\ UNCHANGED <<event, owed, top, under>>

LEMMA ScanTakes ==
  ASSUME TypeOK, NEW w \in Workers, Scan(w), ~UNCHANGED <<queue, got>>
  PROVE  \E q \in Queues : \E i \in DOMAIN queue[q] : Take(w, q, i)
<1> DEFINE q == (QueueOf[w] + scan[w]) % NumQueues
<1>1. QueueOf[w] + scan[w] \in Int
  BY Typing DEF TypeOK
<1>2. q \in Queues
  BY <1>1, QueueNumbers
<1> HIDE DEF q
<1>3. PICK i \in Exposed(queue[q], scan[w] = 0) :
              /\ got' = [got EXCEPT ![w] = queue[q][i]]
              /\ queue' = [queue EXCEPT ![q] = Pop(@, i)]
              /\ pc' = [pc EXCEPT ![top[w]] = "recheck"]
  BY DEF Scan, q
<1>4. i \in DOMAIN queue[q]
  BY <1>2, <1>3, ExposedIsIn DEF TypeOK
<1>. QED
  BY <1>2, <1>3, <1>4 DEF Scan, Take, program, stack

LEMMA TakeShape ==
  ASSUME TypeOK, Shape, NEW w \in Workers, NEW q \in Queues, NEW n \in DOMAIN queue[q],
         Take(w, q, n)
  PROVE  Shape'
<1> DEFINE t == queue[q][n]
           Old(p, i) == IF p = q THEN After(n, i) ELSE i
<1>0. t \in Tasks /\ top[w] \in Contexts
  <2>1. queue[q] \in Seq(Tasks)
    BY DEF TypeOK
  <2>2. t \in Tasks
    BY <2>1, LenProperties, ElementOfSeq
  <2>. QED
    BY <2>2, Typing
<1>1. queue'[q] = Pop(queue[q], n) /\ \A p \in Queues : p # q => queue'[p] = queue[p]
  BY DEF Take, TypeOK
<1>2. ASSUME NEW p \in Queues, NEW i \in DOMAIN queue'[p]
      PROVE  Old(p, i) \in DOMAIN queue[p] /\ queue'[p][i] = queue[p][Old(p, i)]
             /\ (p = q => Old(p, i) # n)
  <2>1. CASE p = q
    BY <1>1, <2>1, PopFacts DEF TypeOK
  <2>2. CASE p # q
    BY <1>1, <2>2
  <2>. QED
    BY <2>1, <2>2
<1>3. ASSUME NEW p \in Queues, NEW i \in DOMAIN queue'[p], NEW j \in DOMAIN queue'[p],
             Old(p, i) = Old(p, j)
      PROVE  i = j
  BY <1>1, <1>3, PopFacts DEF TypeOK
<1>4. ASSUME NEW p \in Queues, NEW k \in DOMAIN queue[p], ~(p = q /\ k = n)
      PROVE  \E i \in DOMAIN queue'[p] : queue'[p][i] = queue[p][k]
  <2>1. CASE p = q
    <3>1. queue[q] \in Seq(Tasks)
      BY DEF TypeOK
    <3>2. \A j \in DOMAIN queue[q] : j # n =>
             \E i \in DOMAIN Pop(queue[q], n) : Pop(queue[q], n)[i] = queue[q][j]
      BY <3>1, PopFacts, ZenonT(30)
    <3>. QED
      BY <1>1, <1>4, <2>1, <3>2
  <2>2. CASE p # q
    BY <1>1, <2>2
  <2>. QED
    BY <2>1, <2>2
<1> HIDE DEF Old
<1>5. pc[t] = "idle" /\ event[t] = "incomplete" /\ \A v \in Workers : got[v] # t
  BY DEF Shape, Queued, Held
<1>6. \A p \in Queues : \A i \in DOMAIN queue'[p] : queue'[p][i] # t /\ queue'[p][i] \in Tasks
  <2>1. \A p \in Queues : \A i \in DOMAIN queue[p] : queue[p][i] \in Tasks
    BY LenProperties, ElementOfSeq DEF TypeOK
  <2>. QED
    BY <1>2, <2>1 DEF Shape, Queued
<1>7. \A c \in Contexts : pc'[c] = IF c = top[w] THEN "recheck" ELSE pc[c]
  BY DEF Take, TypeOK
<1>8. \A v \in Workers : got'[v] = IF v = w THEN t ELSE got[v]
  BY DEF Take, TypeOK
<1>9. \A u \in Tasks : u \in Contexts /\ (pc'[u] = "idle" <=> pc[u] = "idle")
  BY <1>7 DEF Take, Contexts
<1>10. got[w] = NoTask
  BY DEF Shape, Held, Take
<1> HIDE DEF t
<1>11. Stacks'
  <2>1. \A c \in Contexts : pc'[c] = "nested" <=> pc[c] = "nested"
    BY <1>7 DEF Take
  <2>2. \A u \in Tasks : under[u] # NoTask => under[u] \in Contexts
    BY DEF TypeOK, Contexts
  <2>3. \A v \in Workers : top[v] \in Contexts /\ pc'[top[v]] \notin {"idle", "nested"}
    BY <1>7, Typing DEF Shape, Stacks
  <2>. QED
    BY <1>9, <2>1, <2>2, <2>3 DEF Shape, Stacks, Take
<1>12. Queued'
  <2>1. ASSUME NEW p \in Queues, NEW i \in DOMAIN queue'[p]
        PROVE  pc'[queue'[p][i]] = "idle" /\ event[queue'[p][i]] = "incomplete"
    BY <1>2, <1>6, <1>9 DEF Shape, Queued
  <2>2. ASSUME NEW p \in Queues, NEW r \in Queues,
               NEW i \in DOMAIN queue'[p], NEW j \in DOMAIN queue'[r],
               queue'[p][i] = queue'[r][j]
        PROVE  p = r /\ i = j
    <3>1. p = r /\ Old(p, i) = Old(r, j)
      BY <1>2, <2>2 DEF Shape, Queued
    <3>. QED
      BY <1>3, <3>1
  <2>. QED
    BY <2>1, <2>2 DEF Queued, Take
<1>13. Held'
  <2>1. ASSUME NEW v \in Workers, got'[v] # NoTask
        PROVE  pc'[got'[v]] = "idle" /\ event[got'[v]] = "incomplete" /\ pc'[top[v]] = "recheck"
    <3>1. CASE v = w
      BY <1>0, <1>5, <1>7, <1>8, <1>9, <3>1
    <3>2. CASE v # w
      <4>1. got[v] \in Tasks /\ top[v] \in Contexts
        BY <1>8, <2>1, <3>2, Typing DEF TypeOK
      <4>. QED
        BY <1>7, <1>8, <1>9, <2>1, <3>2, <4>1 DEF Shape, Held
    <3>. QED
      BY <3>1, <3>2
  <2>2. \A u, v \in Workers : got'[u] = got'[v] /\ got'[u] # NoTask => u = v
    BY <1>5, <1>8 DEF Shape, Held
  <2>3. ASSUME NEW v \in Workers, NEW p \in Queues, NEW i \in DOMAIN queue'[p]
        PROVE  queue'[p][i] # got'[v]
    BY <1>2, <1>6, <1>8 DEF Shape, Held
  <2>. QED
    BY <2>1, <2>2, <2>3 DEF Held, Take
<1>14. Incomplete'
  <2>1. \A u \in Tasks : pc'[u] # "idle" => event[u] = "incomplete"
    BY <1>9 DEF Shape, Incomplete
  <2>2. ASSUME NEW u \in Tasks, event[u] = "incomplete"
        PROVE  \/ pc'[u] # "idle"
               \/ \E v \in Workers : got'[v] = u
               \/ \E p \in Queues : \E i \in DOMAIN queue'[p] : queue'[p][i] = u
    <3>1. CASE u = t
      BY <1>8, <3>1
    <3>2. CASE pc[u] # "idle"
      BY <1>9, <3>2
    <3>3. CASE \E v \in Workers : got[v] = u
      BY <1>8, <1>10, <3>3, ThreadsAssumption
    <3>4. CASE u # t /\ \E p \in Queues : \E i \in DOMAIN queue[p] : queue[p][i] = u
      BY <1>4, <3>4 DEF t
    <3>. QED
      BY <2>2, <3>1, <3>2, <3>3, <3>4 DEF Shape, Incomplete
  <2>. QED
    BY <2>1, <2>2 DEF Shape, Incomplete, Take
<1>. QED
  BY <1>11, <1>12, <1>13, <1>14 DEF Shape

LEMMA StartShape ==
  ASSUME TypeOK, Shape, NEW w \in Workers, Start(w)
  PROVE  Shape'
<1> DEFINE c == top[w]
           t == got[w]
<1>1. /\ t \in Tasks /\ c \in Contexts /\ t \in Contexts
      /\ pc[c] = "recheck" /\ pc[t] = "idle" /\ event[t] = "incomplete"
      /\ c # NoTask /\ c # t
  BY Typing, ThreadsAssumption DEF Start, TypeOK, Shape, Held, Contexts
<1>2. \A u \in Tasks : event'[u] = "incomplete" <=> event[u] = "incomplete"
  BY TestKeepsIncomplete DEF Start, TestCompletion
<1>3. \A d \in Contexts : pc'[d] = IF d = t THEN "body" ELSE IF d = c THEN "nested" ELSE pc[d]
  BY <1>1 DEF Start, TypeOK
<1>4. /\ \A v \in Workers : top'[v] = IF v = w THEN t ELSE top[v]
      /\ \A v \in Workers : got'[v] = IF v = w THEN NoTask ELSE got[v]
      /\ \A u \in Tasks : under'[u] = IF u = t THEN c ELSE under[u]
      /\ UNCHANGED <<queue, owed>>
  BY <1>1 DEF Start, TypeOK, program
<1>5. \A p \in Queues : \A i \in DOMAIN queue[p] : queue[p][i] \in Tasks /\ queue[p][i] # t
  <2>1. \A p \in Queues : \A i \in DOMAIN queue[p] : queue[p][i] \in Tasks
    BY LenProperties, ElementOfSeq DEF TypeOK
  <2>. QED
    BY <2>1 DEF Shape, Held
<1>6. \A u \in Tasks : u \in Contexts
  BY DEF Contexts
<1>7. \A v \in Workers : top[v] \in Contexts /\ (v # w => top[v] # c) /\ top[v] # t
  BY <1>1, Typing DEF Shape, Stacks
<1>8. \A u \in Tasks : under[u] # NoTask => under[u] \in Contexts /\ under[u] # t /\ under[u] # c
  BY <1>1 DEF TypeOK, Contexts, Shape, Stacks
<1>9. \A v \in Workers : v # w => got[v] # t
  BY <1>1, ThreadsAssumption DEF Shape, Held
<1> HIDE DEF c, t
<1>10. Stacks'
  <2>1. \A u \in Tasks : pc'[u] = "idle" <=> under'[u] = NoTask
    BY <1>1, <1>3, <1>4, <1>6 DEF Shape, Stacks
  <2>2. \A u \in Tasks : under'[u] # NoTask => pc'[under'[u]] = "nested"
    BY <1>1, <1>3, <1>4, <1>8 DEF Shape, Stacks
  <2>3. \A u, x \in Tasks : under'[u] = under'[x] /\ under'[u] # NoTask => u = x
    BY <1>1, <1>4, <1>8 DEF Shape, Stacks
  <2>4. \A v \in Workers : pc'[top'[v]] \notin {"idle", "nested"}
    BY <1>1, <1>3, <1>4, <1>7 DEF Shape, Stacks
  <2>5. \A u, v \in Workers : top'[u] = top'[v] => u = v
    BY <1>4, <1>7 DEF Shape, Stacks
  <2>. QED
    BY <2>1, <2>2, <2>3, <2>4, <2>5 DEF Stacks
<1>11. Queued'
  <2>1. \A p \in Queues : \A i \in DOMAIN queue[p] :
           pc'[queue[p][i]] = "idle" /\ event'[queue[p][i]] = "incomplete"
    BY <1>1, <1>2, <1>3, <1>5, <1>6 DEF Shape, Queued
  <2>. QED
    BY <1>4, <2>1 DEF Shape, Queued
<1>12. Held'
  <2>1. ASSUME NEW v \in Workers, got'[v] # NoTask
        PROVE  pc'[got'[v]] = "idle" /\ event'[got'[v]] = "incomplete" /\ pc'[top'[v]] = "recheck"
    <3>1. v # w /\ got[v] \in Tasks /\ got[v] # NoTask /\ got[v] # t
      BY <1>4, <1>9, <2>1 DEF TypeOK
    <3>2. pc[got[v]] = "idle" /\ event[got[v]] = "incomplete" /\ pc[top[v]] = "recheck"
      BY <3>1 DEF Shape, Held
    <3>. QED
      BY <1>1, <1>2, <1>3, <1>4, <1>6, <1>7, <3>1, <3>2
  <2>2. \A u, v \in Workers : got'[u] = got'[v] /\ got'[u] # NoTask => u = v
    BY <1>4 DEF Shape, Held
  <2>3. \A v \in Workers : \A p \in Queues : \A i \in DOMAIN queue[p] : queue[p][i] # got'[v]
    BY <1>4, <1>5, ThreadsAssumption DEF Shape, Held
  <2>. QED
    BY <1>4, <2>1, <2>2, <2>3 DEF Held
<1>13. Incomplete'
  <2>1. \A u \in Tasks : pc'[u] # "idle" => event'[u] = "incomplete"
    BY <1>1, <1>2, <1>3, <1>6 DEF Shape, Incomplete
  <2>2. \A u \in Tasks : event'[u] = "incomplete" => u \in owed'
    BY <1>2, <1>4 DEF Shape, Incomplete
  <2>3. ASSUME NEW u \in Tasks, event'[u] = "incomplete"
        PROVE  \/ pc'[u] # "idle"
               \/ \E v \in Workers : got'[v] = u
               \/ \E p \in Queues : \E i \in DOMAIN queue[p] : queue[p][i] = u
    <3>1. CASE u = t
      BY <1>1, <1>3, <3>1
    <3>2. CASE pc[u] # "idle"
      BY <1>1, <1>3, <1>6, <3>2
    <3>3. CASE u # t /\ \E v \in Workers : got[v] = u
      BY <1>4, <3>3 DEF t
    <3>. QED
      BY <1>2, <2>3, <3>1, <3>2, <3>3 DEF Shape, Incomplete
  <2>. QED
    BY <1>4, <2>1, <2>2, <2>3 DEF Incomplete
<1>. QED
  BY <1>10, <1>11, <1>12, <1>13 DEF Shape

LEMMA NotifyShape ==
  ASSUME TypeOK, Shape, NEW w \in Workers, Notify(w)
  PROVE  Shape'
<1> DEFINE c == top[w]
           b == under[c]
<1>1. /\ c \in Tasks /\ c \in Contexts /\ b \in Contexts /\ b # NoTask
      /\ pc[c] = "notify" /\ pc[b] = "nested" /\ b # c
  BY ThreadsAssumption DEF Notify, TypeOK, Shape, Stacks, Contexts
<1>2. \A u \in Tasks : event'[u] = IF u = c THEN "complete" ELSE event[u]
  BY <1>1 DEF Notify, TypeOK
<1>3. /\ \A d \in Contexts : d # c /\ d # b => pc'[d] = pc[d]
      /\ pc'[c] = "idle" /\ pc'[b] \in {"check", "restore", "wake"}
  BY <1>1 DEF Notify, Resumed, TypeOK
<1>4. /\ \A v \in Workers : top'[v] = IF v = w THEN b ELSE top[v]
      /\ \A u \in Tasks : under'[u] = IF u = c THEN NoTask ELSE under[u]
      /\ UNCHANGED <<queue, owed, got>>
  BY <1>1 DEF Notify, TypeOK, program
<1>5. \A u \in Tasks : u \in Contexts
  BY DEF Contexts
<1>6. \A v \in Workers : top[v] \in Contexts /\ (v # w => top[v] # c) /\ top[v] # b
  BY <1>1, Typing DEF Shape, Stacks
<1>7. \A u \in Tasks : under[u] # NoTask =>
         under[u] \in Contexts /\ under[u] # c /\ (u # c => under[u] # b)
  BY <1>1 DEF TypeOK, Contexts, Shape, Stacks
<1>8. \A p \in Queues : \A i \in DOMAIN queue[p] :
         queue[p][i] \in Tasks /\ queue[p][i] # c /\ queue[p][i] # b
  <2>1. \A p \in Queues : \A i \in DOMAIN queue[p] : queue[p][i] \in Tasks
    BY LenProperties, ElementOfSeq DEF TypeOK
  <2>. QED
    BY <1>1, <2>1 DEF Shape, Queued
<1>9. \A v \in Workers : got[v] # NoTask => got[v] \in Tasks /\ got[v] # c /\ got[v] # b /\ v # w
  BY <1>1 DEF Shape, Held, TypeOK
<1> HIDE DEF c, b
<1>10. Stacks'
  <2>1. \A u \in Tasks : pc'[u] = "idle" <=> under'[u] = NoTask
    <3>1. \A u \in Tasks : u # c /\ u # b => (pc'[u] = "idle" <=> under'[u] = NoTask)
      BY <1>3, <1>4, <1>5 DEF Shape, Stacks
    <3>2. b \in Tasks => under[b] # NoTask
      BY <1>1 DEF Shape, Stacks
    <3>. QED
      BY <1>1, <1>3, <1>4, <3>1, <3>2
  <2>2. \A u \in Tasks : under'[u] # NoTask => pc'[under'[u]] = "nested"
    BY <1>1, <1>3, <1>4, <1>7 DEF Shape, Stacks
  <2>3. \A u, x \in Tasks : under'[u] = under'[x] /\ under'[u] # NoTask => u = x
    BY <1>4 DEF Shape, Stacks
  <2>4. \A v \in Workers : pc'[top'[v]] \notin {"idle", "nested"}
    BY <1>3, <1>4, <1>6 DEF Shape, Stacks
  <2>5. \A u, v \in Workers : top'[u] = top'[v] => u = v
    BY <1>4, <1>6 DEF Shape, Stacks
  <2>. QED
    BY <2>1, <2>2, <2>3, <2>4, <2>5 DEF Stacks
<1>11. Queued'
  <2>1. \A p \in Queues : \A i \in DOMAIN queue[p] :
           pc'[queue[p][i]] = "idle" /\ event'[queue[p][i]] = "incomplete"
    BY <1>2, <1>3, <1>5, <1>8 DEF Shape, Queued
  <2>. QED
    BY <1>4, <2>1 DEF Shape, Queued
<1>12. Held'
  <2>1. ASSUME NEW v \in Workers, got[v] # NoTask
        PROVE  pc'[got[v]] = "idle" /\ event'[got[v]] = "incomplete" /\ pc'[top'[v]] = "recheck"
    <3>1. pc[got[v]] = "idle" /\ event[got[v]] = "incomplete" /\ pc[top[v]] = "recheck"
      BY <2>1 DEF Shape, Held
    <3>. QED
      BY <1>2, <1>3, <1>4, <1>5, <1>6, <1>9, <2>1, <3>1
  <2>. QED
    BY <1>4, <2>1 DEF Shape, Held
<1>13. Incomplete'
  <2>1. \A u \in Tasks : pc'[u] # "idle" => event'[u] = "incomplete"
    BY <1>1, <1>2, <1>3, <1>5 DEF Shape, Incomplete
  <2>2. \A u \in Tasks : event'[u] = "incomplete" => u \in owed'
    BY <1>2, <1>4 DEF Shape, Incomplete
  <2>3. ASSUME NEW u \in Tasks, event'[u] = "incomplete"
        PROVE  \/ pc'[u] # "idle"
               \/ \E v \in Workers : got[v] = u
               \/ \E p \in Queues : \E i \in DOMAIN queue[p] : queue[p][i] = u
    BY <1>2, <1>3, <1>5, <2>3 DEF Shape, Incomplete
  <2>. QED
    BY <1>4, <2>1, <2>2, <2>3 DEF Incomplete
<1>. QED
  BY <1>10, <1>11, <1>12, <1>13 DEF Shape

-----------------------------------------------------------------------------
(***************************************************************************)
(* The invariant holds.                                                    *)
(***************************************************************************)
IInv == TypeOK /\ Shape

LEMMA IInvInit == Init => IInv
<1>. SUFFICES ASSUME Init
              PROVE  IInv
  OBVIOUS
<1>. USE DEF Init
<1>1. /\ \A w \in Workers : w \in Contexts /\ w \notin Tasks /\ w # Main
      /\ \A t \in Tasks : t \in Contexts /\ t # NoTask /\ t # Main
  BY ThreadsAssumption DEF Contexts
<1>2. TypeOK
  <2>1. DefaultAttribute \in Attributes
    BY DEF DefaultAttribute, Attributes
  <2>2. queue \in [Queues -> Seq(Tasks)] /\ scan \in [Workers -> Queues]
    BY QueueNumbers, EmptySeq
  <2>3. tries \in [Workers -> 0 .. MaxAttempts]
    BY BoundsAssumption
  <2>4. pc \in [Contexts -> PCs]
    BY DEF PCs
  <2>5. cache \in [Workers -> Copies] /\ saved \in [Tasks -> Copies]
    BY <2>1 DEF Copies
  <2>. QED
    BY <2>1, <2>2, <2>3, <2>4, <2>5 DEF TypeOK
<1>3. \A q \in Queues : queue[q] = <<>> /\ DOMAIN queue[q] = {}
  OBVIOUS
<1>4. Stacks
  BY <1>1 DEF Stacks
<1>5. Queued /\ Held /\ Incomplete
  BY <1>1, <1>3 DEF Queued, Held, Incomplete
<1>. QED
  BY <1>2, <1>4, <1>5 DEF IInv, Shape

LEMMA IInvStep == IInv /\ Roused /\ [Next]_vars => IInv'
<1>. SUFFICES ASSUME TypeOK, Shape, Roused, [Next]_vars
              PROVE  TypeOK' /\ Shape'
  BY DEF IInv
<1>1. TypeOK'
  BY TypeStep DEF Shape
<1>2. CASE MainStep
  <2>1. Main \in Contexts
    BY DEF Contexts
  <2>. QED
    BY <1>1, <1>2, <2>1, QueueNumbers, SpawnShape, MainIsQuiet, QuietStep
<1>3. ASSUME NEW w \in Workers, WorkerStep(w)
      PROVE  Shape'
  <2>1. top[w] \in Contexts /\ QueueOf[w] \in Queues /\ Stacks
    BY Typing DEF Shape
  <2>2. CASE \E t \in Tasks : WorkerSpawn(w, t)
    BY <2>1, <2>2, SpawnShape DEF WorkerSpawn
  <2>3. CASE Start(w)
    BY <2>3, StartShape
  <2>4. CASE Notify(w)
    BY <2>4, NotifyShape
  <2>5. CASE Scan(w) /\ ~UNCHANGED <<queue, got>>
    BY <2>5, ScanTakes, TakeShape
  <2>6. CASE \/ \E t \in Tasks : WorkerWait(w, t)
             \/ WorkerSleep(w) \/ WorkerWakeUp(w) \/ Check(w) \/ Yield(w) \/ LeaveWait(w) \/ Exit(w)
             \/ Return(w) \/ Restore(w)
             \/ Scan(w) /\ UNCHANGED <<queue, got>>
    BY <2>1, <2>6, WorkerIsQuiet, QuietStep
  <2>7. CASE Wake(w)
    BY <2>7, WakeIsStill, StillStep
  <2>. QED
    BY <1>3, <2>2, <2>3, <2>4, <2>5, <2>6, <2>7 DEF WorkerStep
<1>4. CASE UNCHANGED vars
  BY <1>1, <1>4 DEF Shape, Stacks, Queued, Held, Incomplete, vars, program, getter, stack
<1>. QED
  BY <1>1, <1>2, <1>3, <1>4 DEF Next, Ended

-----------------------------------------------------------------------------
(***************************************************************************)
(* No handle is lost between the queues, the hands and the stacks, and     *)
(* none is in two places (cilk.hpp:68-181, taskmgr.hpp:559-593,648-655).   *)
(***************************************************************************)
LEMMA IInvImpliesOnePlace == IInv => OnePlace
<1>. SUFFICES ASSUME IInv, NEW t \in Tasks
              PROVE  Cardinality(Places(t)) = IF event[t] = "incomplete" THEN 1 ELSE 0
  BY DEF OnePlace
<1>. USE DEF IInv, Shape
<1>1. ASSUME NEW q \in Queues, NEW i \in DOMAIN queue[q], queue[q][i] = t
      PROVE  <<q, i>> \in InQueues(t)
  BY <1>1 DEF InQueues
<1>2. CASE event[t] # "incomplete"
  <2>1. InQueues(t) = {} /\ InHands(t) = {} /\ OnStack(t) = {}
    BY <1>2, ThreadsAssumption DEF Queued, Held, Incomplete, InQueues, InHands, OnStack
  <2>. QED
    BY <1>2, <2>1, FS_EmptySet DEF Places
<1>3. CASE event[t] = "incomplete"
  <2>1. \E x : Places(t) = {x}
    <3>1. CASE pc[t] # "idle"
      <4>1. InQueues(t) = {} /\ InHands(t) = {} /\ OnStack(t) = {t}
        BY <3>1, ThreadsAssumption DEF Queued, Held, InQueues, InHands, OnStack
      <4>. QED
        BY <4>1 DEF Places
    <3>2. CASE pc[t] = "idle" /\ \E w \in Workers : got[w] = t
      <4>1. PICK w \in Workers : got[w] = t
        BY <3>2
      <4>2. InQueues(t) = {} /\ InHands(t) = {w} /\ OnStack(t) = {}
        BY <3>2, <4>1, ThreadsAssumption DEF Held, InQueues, InHands, OnStack
      <4>. QED
        BY <4>2 DEF Places
    <3>3. CASE pc[t] = "idle" /\ \E q \in Queues : \E i \in DOMAIN queue[q] : queue[q][i] = t
      <4>0. PICK q \in Queues : \E i \in DOMAIN queue[q] : queue[q][i] = t
        BY <3>3
      <4>1. PICK i \in DOMAIN queue[q] : queue[q][i] = t
        BY <4>0
      <4>2. InQueues(t) = {<<q, i>>}
        BY <4>1, <1>1 DEF Queued, InQueues
      <4>3. InHands(t) = {} /\ OnStack(t) = {}
        BY <3>3, <4>1 DEF Held, InHands, OnStack
      <4>. QED
        BY <4>2, <4>3 DEF Places
    <3>. QED
      BY <1>3, <3>1, <3>2, <3>3 DEF Incomplete
  <2>. QED
    BY <1>3, <2>1, FS_Singleton
<1>. QED
  BY <1>2, <1>3

-----------------------------------------------------------------------------
(***************************************************************************)
(* Proofs about what TaskMgr promises to a fork/join program: each spawn   *)
(* is one execution, a wait returns after it, nothing is left behind, and  *)
(* the whole implements ForkJoin.                                          *)
(***************************************************************************)

\* A context inside a wait waits for a task of its own that is still owed.
WaitPoints == {"poll", "block", "asleep", "woken", "check", "scan", "recheck", "nested",
               "wake", "restore"}

Waits ==
  \A c \in Callers : pc[c] \in WaitPoints => target[c] \in owed /\ Parent[target[c]] = c

\* A context that is not in its body owes nothing.
OutsideBody == {"idle", "notify", "cancel", "done"}

OwesNothing ==
  \A c \in Callers : pc[c] \in OutsideBody => \A t \in owed : Parent[t] # c

\* A task has run once for every spawn but the one under way.
Counted ==
  \A t \in Tasks : runs[t] = IF event[t] = "incomplete" /\ pc[t] # "notify"
                             THEN spawns[t] - 1 ELSE spawns[t]

Ledger == Waits /\ OwesNothing /\ Counted

LEMMA LedgerInit == Init => Ledger
BY ThreadsAssumption DEF Init, Ledger, Waits, OwesNothing, Counted, Callers, Contexts,
   WaitPoints, OutsideBody

-----------------------------------------------------------------------------
(***************************************************************************)
(* Steps that neither spawn, nor begin or end a wait, nor end a function.  *)
(***************************************************************************)
Settled ==
  /\ UNCHANGED <<owed, spawns, runs, target>>
  /\ \A t \in Tasks : event'[t] = "incomplete" <=> event[t] = "incomplete"
  /\ \A c \in Callers : pc'[c] \in WaitPoints => pc[c] \in WaitPoints
  /\ \A c \in Callers : pc'[c] \in OutsideBody => pc[c] \in OutsideBody
  /\ \A c \in Callers : pc'[c] = "notify" <=> pc[c] = "notify"

LEMMA SettledStep == Ledger /\ Settled => Ledger'
<1>. SUFFICES ASSUME Ledger, Settled
              PROVE  Ledger'
  OBVIOUS
<1>. USE DEF Ledger, Settled, Callers
<1>1. Waits'
  BY DEF Waits
<1>2. OwesNothing'
  BY DEF OwesNothing
<1>3. Counted'
  BY DEF Counted
<1>. QED
  BY <1>1, <1>2, <1>3

LEMMA GetIsSettled ==
  ASSUME TypeOK, NEW w \in Workers, Check(w) \/ Scan(w) \/ Yield(w) \/ Restore(w)
  PROVE  Settled
<1> DEFINE c == top[w]
<1>. USE DEF WaitPoints, OutsideBody, Callers, Contexts, PCs
<1>1. /\ pc[c] \in {"check", "scan", "recheck", "restore"}
      /\ \E there \in {"check", "scan", "recheck"} : pc' = [pc EXCEPT ![c] = there]
      /\ UNCHANGED <<owed, spawns, runs, target>>
      /\ event' = event \/ event' = Tested(target[c])
  <2>1. CASE Check(w)
    BY <2>1 DEF Check, TestCompletion, program
  <2>2. CASE Scan(w)
    <3>1. pc' = [pc EXCEPT ![c] = "recheck"] \/ pc' = [pc EXCEPT ![c] = "check"]
          \/ pc' = [pc EXCEPT ![c] = "scan"]
      BY <2>2 DEF Scan
    <3>. QED
      BY <2>2, <3>1 DEF Scan, program
  <2>3. CASE Yield(w)
    BY <2>3 DEF Yield, program
  <2>4. CASE Restore(w)
    BY <2>4 DEF Restore, program
  <2>. QED
    BY <2>1, <2>2, <2>3, <2>4
<1>2. \A t \in Tasks : event'[t] = "incomplete" <=> event[t] = "incomplete"
  BY <1>1, TestKeepsIncomplete
<1>3. \A d \in Contexts : d # c => pc'[d] = pc[d]
  BY <1>1 DEF TypeOK
<1>4. pc'[c] \in {"check", "scan", "recheck"}
  BY <1>1, Typing DEF TypeOK
<1>. QED
  BY <1>1, <1>2, <1>3, <1>4 DEF Settled

LEMMA StartIsSettled ==
  ASSUME TypeOK, Shape, NEW w \in Workers, Start(w)
  PROVE  Settled
<1> DEFINE c == top[w]
           t == got[w]
<1>1. /\ t \in Tasks /\ c \in Contexts /\ c # t
      /\ pc[c] = "recheck" /\ pc[t] = "idle"
  BY Typing DEF Start, TypeOK, Shape, Held
<1>2. \A u \in Tasks : event'[u] = "incomplete" <=> event[u] = "incomplete"
  BY TestKeepsIncomplete DEF Start, TestCompletion
<1>3. \A d \in Contexts : pc'[d] = IF d = t THEN "body" ELSE IF d = c THEN "nested" ELSE pc[d]
  BY <1>1 DEF Start, TypeOK
<1>4. \A d \in Callers : d \in Contexts
  BY DEF Callers, Contexts
<1>5. UNCHANGED <<owed, spawns, runs, target>>
  BY DEF Start, program
<1> HIDE DEF c, t
<1>6. \A u \in Tasks : u \in Callers
  BY DEF Callers
<1>. QED
  BY <1>1, <1>2, <1>3, <1>4, <1>5, <1>6 DEF Settled, WaitPoints, OutsideBody

LEMMA OthersAreSettled ==
  ASSUME TypeOK, Join \/ \E w \in Workers : Cancel(w) \/ Exit(w)
  PROVE  Settled
<1>. USE DEF Settled, program, WaitPoints, OutsideBody, Callers, Contexts, TypeOK
<1>1. CASE Join
  BY <1>1 DEF Join
<1>2. ASSUME NEW w \in Workers, Cancel(w)
      PROVE  Settled
  BY <1>2 DEF Cancel
<1>3. ASSUME NEW w \in Workers, Exit(w)
      PROVE  Settled
  BY <1>3, ThreadsAssumption DEF Exit
<1>. QED
  BY <1>1, <1>2, <1>3

LEMMA SleepIsSettled ==
  ASSUME TypeOK, NEW c \in Callers, Sleep(c)
  PROVE  Settled
BY DEF Sleep, Settled, program, WaitPoints, OutsideBody, Callers, Contexts, TypeOK

LEMMA WakeIsSettled ==
  ASSUME TypeOK, NEW w \in Workers, Wake(w)
  PROVE  Settled
<1>1. \A d \in Callers :
        \/ pc[d] = "wake" /\ pc'[d] \in {"check", "restore"}
        \/ pc[d] = "asleep" /\ pc'[d] = "woken"
        \/ pc'[d] = pc[d]
  BY DEF Wake, Resumed, Callers, Contexts
<1>. QED
  BY <1>1 DEF Wake, Settled, program, WaitPoints, OutsideBody

-----------------------------------------------------------------------------
(***************************************************************************)
(* The other steps.                                                        *)
(***************************************************************************)
LEMMA SpawnLedger ==
  ASSUME TypeOK, Shape, Ledger, NEW own \in Queues, NEW t \in Tasks,
         NEW c \in Callers, Spawn(c, own, t)
  PROVE  Ledger'
<1>1. /\ pc[c] = "body" /\ Parent[t] = c /\ t \notin owed
      /\ owed' = owed \cup {t} /\ UNCHANGED <<pc, target, runs>>
      /\ \A u \in Tasks : event'[u] = IF u = t THEN "incomplete" ELSE event[u]
      /\ \A u \in Tasks : spawns'[u] = IF u = t THEN spawns[t] + 1 ELSE spawns[u]
  BY DEF Spawn, InBody, ResetCompletion, TypeOK
<1>2. event[t] # "incomplete" /\ pc[t] = "idle"
  BY <1>1, NotOwed
<1>3. Waits'
  BY <1>1 DEF Ledger, Waits
<1>4. OwesNothing'
  BY <1>1 DEF Ledger, OwesNothing, OutsideBody
<1>5. Counted'
  <2>1. runs[t] = spawns[t] /\ spawns[t] \in Nat
    BY <1>2 DEF Ledger, Counted, TypeOK
  <2>2. spawns'[t] - 1 = spawns[t]
    BY <1>1, <2>1
  <2>. QED
    BY <1>1, <1>2, <2>1, <2>2 DEF Ledger, Counted
<1>. QED
  BY <1>3, <1>4, <1>5 DEF Ledger

LEMMA BeginWaitLedger ==
  ASSUME TypeOK, Ledger, NEW t \in Tasks, NEW c \in Callers, NEW progress \in {"poll", "check"},
         BeginWait(c, t, progress)
  PROVE  Ledger'
<1>1. /\ pc[c] = "body" /\ Parent[t] = c /\ t \in owed
      /\ UNCHANGED <<owed, event, runs, spawns>>
      /\ \A d \in Callers : d # c => pc'[d] = pc[d] /\ target'[d] = target[d]
      /\ target'[c] = t /\ pc'[c] \in {"poll", "check", "block"}
  BY DEF BeginWait, InBody, TypeOK, program, Callers, Contexts
<1>2. Waits'
  BY <1>1 DEF Ledger, Waits, WaitPoints
<1>3. OwesNothing'
  BY <1>1 DEF Ledger, OwesNothing, OutsideBody
<1>4. Counted'
  BY <1>1 DEF Ledger, Counted, Callers
<1>. QED
  BY <1>2, <1>3, <1>4 DEF Ledger

LEMMA EndWaitLedger ==
  ASSUME TypeOK, Ledger, NEW c \in Callers, EndWait(c), pc[c] \in WaitPoints,
         event' = event \/ event' = Tested(target[c])
  PROVE  Ledger'
<1>1. /\ owed' = owed \ {target[c]} /\ UNCHANGED <<runs, spawns>>
      /\ \A d \in Callers : d # c => pc'[d] = pc[d] /\ target'[d] = target[d]
      /\ pc'[c] = "body" /\ pc[c] # "notify"
      /\ target[c] \in owed /\ Parent[target[c]] = c
  BY DEF EndWait, TypeOK, Callers, Contexts, Ledger, Waits, WaitPoints
<1>2. \A u \in Tasks : event'[u] = "incomplete" <=> event[u] = "incomplete"
  BY TestKeepsIncomplete
<1>3. Waits'
  BY <1>1 DEF Ledger, Waits, WaitPoints
<1>4. OwesNothing'
  BY <1>1 DEF Ledger, OwesNothing, OutsideBody
<1>5. Counted'
  BY <1>1, <1>2 DEF Ledger, Counted, Callers
<1>. QED
  BY <1>3, <1>4, <1>5 DEF Ledger

LEMMA ReturnLedger ==
  ASSUME TypeOK, Shape, Ledger, NEW w \in Workers, Return(w)
  PROVE  Ledger'
<1> DEFINE c == top[w]
<1>1. /\ c \in Tasks /\ pc[c] = "body" /\ pc'[c] = "notify"
      /\ \A t \in owed : Parent[t] # c
      /\ UNCHANGED <<owed, event, spawns, target>>
      /\ \A d \in Callers : d # c => pc'[d] = pc[d]
      /\ \A u \in Tasks : runs'[u] = IF u = c THEN runs[c] + 1 ELSE runs[u]
  BY DEF Return, InBody, TypeOK, Callers, Contexts
<1>2. event[c] = "incomplete"
  BY <1>1 DEF Shape, Incomplete
<1> HIDE DEF c
<1>3. Waits'
  BY <1>1 DEF Ledger, Waits, WaitPoints
<1>4. OwesNothing'
  BY <1>1 DEF Ledger, OwesNothing, OutsideBody
<1>5. Counted'
  <2>1. runs'[c] = spawns[c]
    <3>1. runs'[c] = runs[c] + 1 /\ runs[c] = spawns[c] - 1
      BY <1>1, <1>2 DEF Ledger, Counted
    <3>2. spawns[c] \in Nat
      BY <1>1 DEF TypeOK
    <3>. QED
      BY <3>1, <3>2
  <2>. QED
    BY <1>1, <2>1 DEF Ledger, Counted, Callers
<1>. QED
  BY <1>3, <1>4, <1>5 DEF Ledger

LEMMA NotifyLedger ==
  ASSUME TypeOK, Shape, Ledger, NEW w \in Workers, Notify(w)
  PROVE  Ledger'
<1> DEFINE c == top[w]
           b == under[c]
<1>1. /\ c \in Tasks /\ b # c /\ pc[c] = "notify" /\ pc[b] = "nested"
  BY DEF Notify, TypeOK, Shape, Stacks
<1>2. /\ UNCHANGED <<owed, runs, spawns, target>>
      /\ \A u \in Tasks : event'[u] = IF u = c THEN "complete" ELSE event[u]
  BY <1>1 DEF Notify, TypeOK, program
<1>3. /\ \A d \in Callers : d # c /\ d # b => pc'[d] = pc[d]
      /\ pc'[c] = "idle"
      /\ b \in Callers => pc'[b] \in {"wake", "restore"}
  BY <1>1, ThreadsAssumption DEF Notify, Resumed, TypeOK, Callers, Contexts
<1> HIDE DEF c, b
<1>4. Waits'
  BY <1>1, <1>2, <1>3 DEF Ledger, Waits, WaitPoints
<1>5. OwesNothing'
  BY <1>1, <1>2, <1>3 DEF Ledger, OwesNothing, OutsideBody
<1>6. Counted'
  BY <1>1, <1>2, <1>3 DEF Ledger, Counted, Callers
<1>. QED
  BY <1>4, <1>5, <1>6 DEF Ledger

LEMMA ShutdownLedger == TypeOK /\ Ledger /\ Shutdown => Ledger'
<1>. SUFFICES ASSUME TypeOK, Ledger, Shutdown
              PROVE  Ledger'
  OBVIOUS
<1>1. /\ pc[Main] = "body" /\ pc'[Main] = "cancel"
      /\ \A t \in owed : Parent[t] # Main
      /\ UNCHANGED <<owed, event, runs, spawns, target>>
      /\ \A d \in Callers : d # Main => pc'[d] = pc[d]
  BY DEF Shutdown, InBody, TypeOK, program, Callers, Contexts
<1>2. Waits' /\ OwesNothing' /\ Counted'
  BY <1>1, ThreadsAssumption
     DEF Ledger, Waits, OwesNothing, Counted, WaitPoints, OutsideBody, Callers
<1>. QED
  BY <1>2 DEF Ledger

LEMMA LedgerStep == IInv /\ Ledger /\ [Next]_vars => Ledger'
<1>. SUFFICES ASSUME TypeOK, Shape, Ledger, [Next]_vars
              PROVE  Ledger'
  BY DEF IInv
<1>1. CASE MainStep
  <2>1. Main \in Callers /\ 0 \in Queues
    BY QueueNumbers DEF Callers
  <2>2. CASE \E t \in Tasks : Spawn(Main, 0, t)
    BY <2>1, <2>2, SpawnLedger
  <2>3. CASE \E t \in Tasks : BeginWait(Main, t, "poll")
    BY <2>1, <2>3, BeginWaitLedger
  <2>4. CASE WakeUp(Main) \/ MainPoll
    BY <2>1, <2>4, EndWaitLedger DEF WakeUp, MainPoll, WaitPoints
  <2>5. CASE Shutdown
    BY <2>5, ShutdownLedger
  <2>6. CASE Join \/ \E w \in Workers : Cancel(w)
    BY <2>6, OthersAreSettled, SettledStep
  <2>7. CASE Sleep(Main)
    BY <2>1, <2>7, SleepIsSettled, SettledStep
  <2>. QED
    BY <1>1, <2>2, <2>3, <2>4, <2>5, <2>6, <2>7 DEF MainStep
<1>2. ASSUME NEW w \in Workers, WorkerStep(w)
      PROVE  Ledger'
  <2>1. QueueOf[w] \in Queues /\ \A t \in Tasks : t \in Callers
    BY Typing DEF Callers
  <2>2. CASE \E t \in Tasks : WorkerSpawn(w, t)
    BY <2>1, <2>2, SpawnLedger DEF WorkerSpawn
  <2>3. CASE \E t \in Tasks : WorkerWait(w, t)
    BY <2>1, <2>3, BeginWaitLedger DEF WorkerWait
  <2>4. CASE WorkerWakeUp(w)
    BY <2>1, <2>4, EndWaitLedger DEF WorkerWakeUp, WakeUp, WaitPoints
  <2>5. CASE LeaveWait(w)
    <3>1. event' = event \/ event' = Tested(target[top[w]])
      BY <2>5 DEF LeaveWait, TestCompletion
    <3>. QED
      BY <2>1, <2>5, <3>1, EndWaitLedger DEF LeaveWait, WaitPoints
  <2>6. CASE Return(w)
    BY <2>6, ReturnLedger
  <2>7. CASE Notify(w)
    BY <2>7, NotifyLedger
  <2>8. CASE Start(w)
    BY <2>8, StartIsSettled, SettledStep
  <2>9. CASE Check(w) \/ Scan(w) \/ Yield(w) \/ Restore(w)
    BY <2>9, GetIsSettled, SettledStep
  <2>10. CASE Exit(w)
    BY <2>10, OthersAreSettled, SettledStep
  <2>11. CASE WorkerSleep(w)
    BY <2>1, <2>11, SleepIsSettled, SettledStep DEF WorkerSleep
  <2>12. CASE Wake(w)
    BY <2>12, WakeIsSettled, SettledStep
  <2>. QED
    BY <1>2, <2>2, <2>3, <2>4, <2>5, <2>6, <2>7, <2>8, <2>9, <2>10, <2>11, <2>12 DEF WorkerStep
<1>3. CASE UNCHANGED vars
  BY <1>3 DEF Ledger, Waits, OwesNothing, Counted, vars, program
<1>. QED
  BY <1>1, <1>2, <1>3 DEF Next, Ended

-----------------------------------------------------------------------------
(***************************************************************************)
(* Who is woken.  notify() completes the event of a task that is not       *)
(* nested and wakes the sleepers later, when the handle may have been      *)
(* spawned again; a sleeper does not look at the event when it is woken.   *)
(***************************************************************************)
\* The points of a wait for a task that is not nested.
Blocked == {"block", "asleep", "woken"}

\* A handle whose sleepers are about to be woken is complete, or has been
\* spawned again as a nested one, for which nobody sleeps.
Wakes ==
  /\ \A t \in Tasks : event[t] = "incomplete" => spawns[t] >= 1
  /\ \A w \in Workers : waking[w] # NoTask =>
       /\ spawns[waking[w]] >= 1
       /\ attr[waking[w]].nested \/ event[waking[w]] # "incomplete"
  /\ \A c \in Callers : pc[c] \in Blocked => ~attr[target[c]].nested
  /\ Roused

LEMMA WakesInit == Init => Wakes
BY ThreadsAssumption DEF Init, Wakes, Roused, Blocked, Callers, Contexts

\* Most steps neither spawn nor complete, and nobody begins to block.
Aside ==
  /\ UNCHANGED <<attr, spawns, waking>>
  /\ \A t \in Tasks : event'[t] = "incomplete" <=> event[t] = "incomplete"
  /\ \A c \in Callers : pc'[c] \in Blocked => pc'[c] = pc[c] /\ target'[c] = target[c]

\* Whoever blocks waits for a task.
LEMMA BlockedTargets ==
  ASSUME TypeOK, Ledger, NEW c \in Callers, pc[c] \in Blocked
  PROVE  target[c] \in Tasks /\ target[c] \in owed
BY DEF TypeOK, Ledger, Waits, WaitPoints, Blocked

LEMMA AsideStep ==
  ASSUME TypeOK, Ledger, Wakes, Aside
  PROVE  Wakes'
<1>1. \A c \in Callers : pc[c] \in Blocked => target[c] \in Tasks
  BY BlockedTargets
<1>2. \A w \in Workers : waking[w] # NoTask => waking[w] \in Tasks
  BY DEF TypeOK
<1>. QED
  BY <1>1, <1>2 DEF Wakes, Roused, Aside, Blocked

LEMMA GetIsAside ==
  ASSUME TypeOK, Shape, NEW w \in Workers,
         Check(w) \/ Scan(w) \/ Yield(w) \/ Restore(w) \/ Start(w) \/ Exit(w) \/ Return(w)
  PROVE  Aside
<1> DEFINE c == top[w]
<1>1. c \in Contexts /\ \A d \in Callers : d \in Contexts
  BY Typing DEF Callers, Contexts
<1>2. UNCHANGED <<attr, spawns, waking, target>>
  BY DEF Check, Scan, Yield, Restore, Start, Exit, Return, program, stack
<1>3. \A t \in Tasks : event'[t] = "incomplete" <=> event[t] = "incomplete"
  <2>1. event' = event \/ event' = Tested(target[c])
    BY DEF Check, Scan, Yield, Restore, Start, Exit, Return, TestCompletion
  <2>. QED
    BY <2>1, TestKeepsIncomplete
<1>4. \A d \in Contexts : pc'[d] = pc[d] \/ pc'[d] \notin Blocked
  <2>1. CASE Start(w)
    <3>1. pc' = [pc EXCEPT ![c] = "nested", ![got[w]] = "body"]
      BY <2>1 DEF Start
    <3>. QED
      BY <3>1 DEF TypeOK, Blocked
  <2>2. CASE Scan(w)
    <3>1. pc' = [pc EXCEPT ![c] = "recheck"] \/ pc' = [pc EXCEPT ![c] = "check"]
          \/ pc' = [pc EXCEPT ![c] = "scan"]
      BY <2>2 DEF Scan
    <3>. QED
      BY <3>1 DEF TypeOK, Blocked
  <2>3. CASE Check(w) \/ Yield(w) \/ Restore(w) \/ Exit(w) \/ Return(w)
    <3>1. \E there \in {"scan", "recheck", "check", "exited", "notify"} :
            pc' = [pc EXCEPT ![c] = there] \/ pc' = [pc EXCEPT ![w] = there]
      BY <2>3 DEF Check, Yield, Restore, Exit, Return
    <3>. QED
      BY <3>1 DEF TypeOK, Blocked
  <2>. QED
    BY <2>1, <2>2, <2>3
<1>. QED
  BY <1>1, <1>2, <1>3, <1>4 DEF Aside

LEMMA EndWaitIsAside ==
  ASSUME TypeOK, NEW c \in Contexts, EndWait(c), event' = event \/ event' = Tested(target[c])
  PROVE  Aside
<1>1. \A t \in Tasks : event'[t] = "incomplete" <=> event[t] = "incomplete"
  BY TestKeepsIncomplete
<1>2. \A d \in Callers : d \in Contexts /\ (d # c => pc'[d] = pc[d] /\ target'[d] = target[d])
  BY DEF EndWait, TypeOK, Callers, Contexts
<1>3. pc'[c] = "body" /\ UNCHANGED <<attr, spawns, waking>>
  BY DEF EndWait, TypeOK, stack
<1>. QED
  BY <1>1, <1>2, <1>3 DEF Aside, Blocked

LEMMA SpawnWakes ==
  ASSUME SafeReuse, TypeOK, Ledger, Wakes, NEW own, NEW t \in Tasks, NEW c, Spawn(c, own, t)
  PROVE  Wakes'
<1>1. PICK a \in Usable(t) : attr' = [attr EXCEPT ![t] = a]
  BY Zenon DEF Spawn
<1>2. /\ t \notin owed /\ spawns[t] < MaxSpawns[t] /\ UNCHANGED <<pc, target, waking>>
      /\ \A u \in Tasks : event'[u] = IF u = t THEN "incomplete" ELSE event[u]
      /\ \A u \in Tasks : spawns'[u] = IF u = t THEN spawns[t] + 1 ELSE spawns[u]
      /\ \A u \in Tasks : attr'[u] = IF u = t THEN a ELSE attr[u]
  BY <1>1 DEF Spawn, ResetCompletion, TypeOK, stack
<1>3. \A d \in Callers : pc[d] \in Blocked => target[d] \in Tasks /\ target[d] # t
  BY <1>2, BlockedTargets
<1>4. ASSUME NEW w \in Workers, waking[w] = t
      PROVE  a.nested
  <2>1. spawns[t] >= 1 /\ spawns[t] \in Nat /\ MaxSpawns[t] \in Nat
    BY <1>4, ThreadsAssumption, BoundsAssumption DEF Wakes, TypeOK
  <2>2. ~(MaxSpawns[t] <= 1)
    BY <1>2, <2>1
  <2>. QED
    BY <1>1, <1>4, <2>2 DEF SafeReuse, Usable
<1>5. \A u \in Tasks : spawns[u] \in Nat /\ spawns'[u] >= spawns[u]
  <2>1. \A u \in Tasks : spawns[u] \in Nat
    BY DEF TypeOK
  <2>. QED
    BY <1>2, <2>1
<1>6. ASSUME NEW u \in Tasks, event'[u] = "incomplete"
      PROVE  spawns'[u] >= 1
  BY <1>2, <1>5, <1>6 DEF Wakes
<1>7. ASSUME NEW w \in Workers, waking[w] # NoTask
      PROVE  /\ spawns'[waking[w]] >= 1
             /\ attr'[waking[w]].nested \/ event'[waking[w]] # "incomplete"
  <2>1. waking[w] \in Tasks /\ spawns[waking[w]] >= 1
    BY <1>7 DEF TypeOK, Wakes
  <2>2. spawns'[waking[w]] >= 1
    BY <1>2, <1>5, <2>1
  <2>3. attr'[waking[w]].nested \/ event'[waking[w]] # "incomplete"
    BY <1>2, <1>4, <1>7, <2>1 DEF Wakes
  <2>. QED
    BY <2>2, <2>3
<1>8. \A d \in Callers : pc[d] \in Blocked => ~attr'[target[d]].nested
  BY <1>2, <1>3 DEF Wakes
<1>9. Roused'
  BY <1>2, <1>3 DEF Wakes, Roused, Blocked
<1>. QED
  BY <1>2, <1>6, <1>7, <1>8, <1>9 DEF Wakes

LEMMA WaitWakes ==
  ASSUME TypeOK, Ledger, Wakes, NEW t \in Tasks, NEW c \in Callers,
         NEW progress \in {"poll", "check"}, BeginWait(c, t, progress)
  PROVE  Wakes'
<1>1. /\ UNCHANGED <<event, attr, spawns, waking>>
      /\ \A d \in Callers : d # c => pc'[d] = pc[d] /\ target'[d] = target[d]
      /\ target'[c] = t /\ pc'[c] \in {"poll", "check", "block"}
      /\ pc'[c] = "block" => ~attr[t].nested
  BY DEF BeginWait, TypeOK, program, stack, Callers, Contexts
<1>. QED
  BY <1>1 DEF Wakes, Roused, Blocked

LEMMA SleepWakes ==
  ASSUME TypeOK, Wakes, NEW c \in Callers, Sleep(c)
  PROVE  Wakes'
<1>1. /\ UNCHANGED <<event, attr, spawns, waking, target>>
      /\ \A d \in Callers : d # c => pc'[d] = pc[d]
      /\ pc[c] = "block" /\ pc'[c] = "asleep"
  BY DEF Sleep, TypeOK, program, stack, Callers, Contexts
<1>. QED
  BY <1>1 DEF Wakes, Roused, Blocked

LEMMA NotifyWakes ==
  ASSUME TypeOK, Shape, Ledger, Wakes, NEW w \in Workers, Notify(w)
  PROVE  Wakes'
<1> DEFINE c == top[w]
           b == under[c]
<1>1. c \in Tasks /\ b # c /\ pc[c] = "notify" /\ event[c] = "incomplete" /\ pc[b] = "nested"
  BY DEF Notify, TypeOK, Shape, Stacks, Incomplete
<1>2. /\ UNCHANGED <<attr, spawns, target>>
      /\ \A u \in Tasks : event'[u] = IF u = c THEN "complete" ELSE event[u]
      /\ \A v \in Workers : waking'[v] = IF v # w THEN waking[v]
                                        ELSE IF attr[c].nested THEN NoTask ELSE c
  BY <1>1 DEF Notify, TypeOK, program
<1>3. \A d \in Callers : pc'[d] \in Blocked => pc'[d] = pc[d]
  BY <1>1 DEF Notify, Resumed, TypeOK, Callers, Contexts, Blocked
<1>4. \A d \in Callers : pc[d] \in Blocked => target[d] \in Tasks
  BY BlockedTargets
<1> HIDE DEF c, b
<1>5. \A v \in Workers : waking[v] # NoTask => waking[v] \in Tasks
  BY DEF TypeOK
<1>. QED
  BY <1>1, <1>2, <1>3, <1>4, <1>5 DEF Wakes, Roused, Blocked

LEMMA WakeWakes ==
  ASSUME TypeOK, Ledger, Wakes, NEW w \in Workers, Wake(w)
  PROVE  Wakes'
<1>1. /\ UNCHANGED <<event, attr, spawns, target>>
      /\ \A v \in Workers : waking'[v] = IF v = w THEN NoTask ELSE waking[v]
      /\ \A d \in Callers : \/ pc'[d] = pc[d]
                            \/ pc[d] = "asleep" /\ target[d] = waking[w]
                            \/ pc'[d] \in {"check", "restore"}
  <2>1. \A d \in Callers :
          pc'[d] = IF d = top[w] THEN Resumed(d)
                   ELSE IF pc[d] = "asleep" /\ target[d] = waking[w] THEN "woken" ELSE pc[d]
    BY DEF Wake, Callers, Contexts
  <2>2. /\ UNCHANGED <<event, attr, spawns, target>>
        /\ \A v \in Workers : waking'[v] = IF v = w THEN NoTask ELSE waking[v]
    BY DEF Wake, program, TypeOK
  <2>3. ASSUME NEW d \in Callers
        PROVE  \/ pc'[d] = pc[d]
               \/ pc[d] = "asleep" /\ target[d] = waking[w]
               \/ pc'[d] \in {"check", "restore"}
    BY <2>1, Zenon DEF Resumed
  <2>. QED
    BY <2>2, <2>3
<1>2. \A d \in Callers : pc'[d] \in Blocked => pc[d] \in Blocked
  BY <1>1 DEF Blocked
<1>3. ASSUME NEW d \in Callers, pc[d] = "asleep", target[d] = waking[w]
      PROVE  event[target[d]] # "incomplete"
  <2>1. target[d] \in Tasks /\ ~attr[target[d]].nested
    BY <1>3, BlockedTargets DEF Wakes, Blocked
  <2>. QED
    BY <1>3, <2>1, ThreadsAssumption DEF Wakes
<1>4. Roused'
  BY <1>1, <1>3 DEF Wakes, Roused
<1>. QED
  BY <1>1, <1>2, <1>4 DEF Wakes

LEMMA WakesStep ==
  ASSUME SafeReuse, IInv, Ledger, Wakes, [Next]_vars
  PROVE  Wakes'
<1>0. TypeOK /\ Shape
  BY DEF IInv
<1>1. CASE MainStep
  <2>1. Main \in Callers /\ Main \in Contexts
    BY DEF Callers, Contexts
  <2>2. CASE \E t \in Tasks : Spawn(Main, 0, t)
    BY <1>0, <2>2, SpawnWakes
  <2>3. CASE \E t \in Tasks : BeginWait(Main, t, "poll")
    BY <1>0, <2>1, <2>3, WaitWakes
  <2>4. CASE Sleep(Main)
    BY <1>0, <2>1, <2>4, SleepWakes
  <2>5. CASE WakeUp(Main) \/ MainPoll
    BY <1>0, <2>1, <2>5, EndWaitIsAside, AsideStep DEF WakeUp, MainPoll
  <2>6. CASE Shutdown \/ Join \/ \E w \in Workers : Cancel(w)
    <3>1. UNCHANGED <<attr, spawns, waking, event, target>>
      BY <2>6 DEF Shutdown, Join, Cancel, program, stack
    <3>2. pc' = pc \/ \E there \in {"cancel", "done"} : pc' = [pc EXCEPT ![Main] = there]
      BY <2>6 DEF Shutdown, Join, Cancel
    <3>3. \A d \in Callers : pc'[d] = pc[d] \/ pc'[d] \notin Blocked
      BY <1>0, <3>2 DEF TypeOK, Callers, Contexts, Blocked
    <3>. QED
      BY <1>0, <3>1, <3>3, AsideStep DEF Aside
  <2>. QED
    BY <1>1, <2>2, <2>3, <2>4, <2>5, <2>6 DEF MainStep
<1>2. ASSUME NEW w \in Workers, WorkerStep(w)
      PROVE  Wakes'
  <2>1. top[w] \in Contexts /\ \A t \in Tasks : t \in Callers
    BY <1>0, Typing DEF Callers
  <2>2. CASE \E t \in Tasks : WorkerSpawn(w, t)
    BY <1>0, <2>2, SpawnWakes DEF WorkerSpawn
  <2>3. CASE \E t \in Tasks : WorkerWait(w, t)
    BY <1>0, <2>1, <2>3, WaitWakes DEF WorkerWait
  <2>4. CASE WorkerSleep(w)
    BY <1>0, <2>1, <2>4, SleepWakes DEF WorkerSleep
  <2>5. CASE WorkerWakeUp(w) \/ LeaveWait(w)
    <3>1. EndWait(top[w]) /\ (event' = event \/ event' = Tested(target[top[w]]))
      BY <2>5 DEF WorkerWakeUp, WakeUp, LeaveWait, TestCompletion
    <3>. QED
      BY <1>0, <2>1, <3>1, EndWaitIsAside, AsideStep
  <2>6. CASE Notify(w)
    BY <1>0, <2>6, NotifyWakes
  <2>7. CASE Wake(w)
    BY <1>0, <2>7, WakeWakes
  <2>8. CASE Check(w) \/ Scan(w) \/ Yield(w) \/ Restore(w) \/ Start(w) \/ Exit(w) \/ Return(w)
    BY <1>0, <2>8, GetIsAside, AsideStep
  <2>. QED
    BY <1>2, <2>2, <2>3, <2>4, <2>5, <2>6, <2>7, <2>8 DEF WorkerStep
<1>3. CASE UNCHANGED vars
  BY <1>0, <1>3, AsideStep DEF Aside, vars, program, stack
<1>. QED
  BY <1>1, <1>2, <1>3 DEF Next, Ended

JInv == IInv /\ Ledger /\ Wakes

LEMMA JInvariance ==
  ASSUME SafeReuse
  PROVE  Spec => []JInv
<1>1. Init => JInv
  BY IInvInit, LedgerInit, WakesInit DEF JInv
<1>2. JInv /\ [Next]_vars => JInv'
  BY IInvStep, LedgerStep, WakesStep DEF JInv, Wakes
<1>. QED
  BY <1>1, <1>2, PTL DEF Spec

-----------------------------------------------------------------------------
(***************************************************************************)
(* What follows from the invariant.                                        *)
(***************************************************************************)
\* The variables keep their types for any program, workers and queues, if no
\* late wake-up can meet the next spawn of a handle.
THEOREM Typed ==
  ASSUME SafeReuse
  PROVE  Spec => []TypeOK
<1>1. JInv => TypeOK
  BY DEF JInv, IInv
<1>. QED
  BY <1>1, JInvariance, PTL

\* In such a program a spawned task that is not complete is in exactly one
\* place and any other in none, whatever the workers, the queues and the
\* policy (cilk.hpp:68-181, taskmgr.hpp:559-593,648-655).
THEOREM NoTaskIsLost ==
  ASSUME SafeReuse
  PROVE  Spec => []OnePlace
<1>1. JInv => OnePlace
  BY IInvImpliesOnePlace DEF JInv
<1>. QED
  BY <1>1, JInvariance, PTL

\* In such a program a wait returns after its task has run, once for every
\* spawn of it, although notify() wakes its sleepers in a second step and
\* they do not look again (task.hpp:116-128, event.hpp:94-109,
\* taskmgr.hpp:679-726).
THEOREM WaitReturnsAfterRun ==
  ASSUME SafeReuse
  PROVE  Spec => []WaitMeansRun
<1>1. JInv => WaitMeansRun
  BY DEF JInv, IInv, Shape, Incomplete, Ledger, Counted, WaitMeansRun
<1>. QED
  BY <1>1, JInvariance, PTL

\* When the task manager has been destroyed no task is in a queue or
\* incomplete, if no late wake-up can end a wait: one that were would be
\* owed, by a task that is active and therefore owed itself, and so on
\* without end (taskmgr.hpp:497-524, event.hpp:94-109).
THEOREM EmptyAtTheEnd ==
  ASSUME SafeReuse
  PROVE  Spec => []NothingLeftBehind
<1>1. ASSUME JInv, pc[Main] = "done"
      PROVE  owed = {}
  <2>. USE DEF JInv, IInv, Shape
  <2>1. owed \in SUBSET Tasks
    BY <1>1 DEF TypeOK
  <2>2. \A t \in owed : Parent[t] \in Tasks /\ Parent[t] \in owed
    <3>. SUFFICES ASSUME NEW t \in owed
                  PROVE  Parent[t] \in Tasks /\ Parent[t] \in owed
      OBVIOUS
    <3>1. Parent[t] \in Callers
      BY <2>1, ProgramAssumption DEF Callers
    <3>2. pc[Parent[t]] \notin OutsideBody
      BY <1>1, <3>1 DEF Ledger, OwesNothing
    <3>3. Parent[t] \in Tasks /\ pc[Parent[t]] # "idle"
      BY <1>1, <3>1, <3>2 DEF Callers, OutsideBody
    <3>. QED
      BY <1>1, <3>3 DEF Incomplete
  <2>. QED
    BY <2>1, <2>2, ForestAssumption
<1>2. ASSUME JInv, pc[Main] = "done"
      PROVE  \A t \in Tasks : event[t] # "incomplete"
  BY <1>1, <1>2 DEF JInv, IInv, Shape, Incomplete
<1>3. ASSUME JInv, pc[Main] = "done", NEW q \in Queues
      PROVE  queue[q] = <<>>
  <2>1. queue[q] \in Seq(Tasks) /\ DOMAIN queue[q] = 1 .. Len(queue[q])
    BY <1>3, LenProperties DEF JInv, IInv, TypeOK
  <2>2. \A i \in DOMAIN queue[q] : queue[q][i] \in Tasks /\ event[queue[q][i]] = "incomplete"
    BY <1>3, <2>1, ElementOfSeq DEF JInv, IInv, Shape, Queued
  <2>3. DOMAIN queue[q] = {}
    BY <1>2, <1>3, <2>2
  <2>4. Len(queue[q]) \in Nat \ {0} => 1 \in 1 .. Len(queue[q])
    OBVIOUS
  <2>. QED
    BY <2>1, <2>3, <2>4, EmptySeq
<1>4. JInv => NothingLeftBehind
  BY <1>2, <1>3 DEF NothingLeftBehind
<1>. QED
  BY <1>4, JInvariance, PTL

-----------------------------------------------------------------------------
(***************************************************************************)
(* The refinement.                                                         *)
(***************************************************************************)
PhaseOf(t) == IF t \notin owed THEN "free"
              ELSE IF event[t] # "incomplete" THEN "done"
              ELSE IF pc[t] = "idle" THEN "ready" ELSE "running"

\* A task changes its phase alone.
LEMMA PhaseChanges ==
  ASSUME NEW t \in Tasks, NEW from, NEW to, PhaseOf(t) = from, PhaseOf(t)' = to,
         \A u \in Tasks \ {t} : PhaseOf(u)' = PhaseOf(u)
  PROVE  FJ!Become(t, from, to)
BY DEF FJ!Become, Phase, PhaseOf

LEMMA PhaseStays ==
  ASSUME \A u \in Tasks : PhaseOf(u)' = PhaseOf(u)
  PROVE  Phase' = Phase
BY DEF Phase, PhaseOf

\* A caller in its body, or in a wait, is active.
LEMMA CallerIsActive ==
  ASSUME JInv, NEW c \in Callers, pc[c] \notin OutsideBody
  PROVE  FJ!Active(c)
<1>1. c \in Tasks => c \in owed /\ event[c] = "incomplete" /\ pc[c] # "idle"
  BY DEF JInv, IInv, Shape, Incomplete, OutsideBody
<1>. QED
  BY <1>1 DEF FJ!Active, Phase, Callers

LEMMA SettledStutters ==
  ASSUME Settled, \A t \in Tasks : pc'[t] = "idle" <=> pc[t] = "idle"
  PROVE  Phase' = Phase
BY PhaseStays DEF Settled, PhaseOf

LEMMA SpawnMaps ==
  ASSUME JInv, NEW own \in Queues, NEW t \in Tasks, NEW c \in Callers, Spawn(c, own, t)
  PROVE  FJ!Next
<1>. USE DEF JInv, IInv
<1>1. /\ pc[c] = "body" /\ Parent[t] = c /\ t \notin owed
      /\ owed' = owed \cup {t} /\ pc' = pc
      /\ \A u \in Tasks : event'[u] = IF u = t THEN "incomplete" ELSE event[u]
  BY DEF Spawn, InBody, ResetCompletion, TypeOK
<1>2. pc[t] = "idle"
  BY <1>1, NotOwed
<1>3. FJ!Become(t, "free", "ready")
  <2>1. PhaseOf(t) = "free" /\ PhaseOf(t)' = "ready"
    BY <1>1, <1>2 DEF PhaseOf
  <2>2. \A u \in Tasks \ {t} : PhaseOf(u)' = PhaseOf(u)
    BY <1>1 DEF PhaseOf
  <2>. QED
    BY <2>1, <2>2, PhaseChanges
<1>4. FJ!Active(Parent[t])
  BY <1>1, CallerIsActive DEF OutsideBody
<1>. QED
  BY <1>3, <1>4 DEF FJ!Next, FJ!Spawn

LEMMA EndWaitMaps ==
  ASSUME JInv, NEW c \in Callers, EndWait(c), pc[c] \in WaitPoints,
         event[target[c]] # "incomplete", event' = event \/ event' = Tested(target[c])
  PROVE  FJ!Next
<1>. USE DEF JInv, IInv
<1>1. PICK t \in owed : t = target[c] /\ t \in Tasks /\ Parent[t] = c
  BY DEF Ledger, Waits, TypeOK
<1>2. owed' = owed \ {t} /\ \A u \in Tasks : pc'[u] = "idle" <=> pc[u] = "idle"
  BY <1>1 DEF EndWait, TypeOK, Callers, Contexts, WaitPoints
<1>3. \A u \in Tasks : event'[u] = "incomplete" <=> event[u] = "incomplete"
  BY TestKeepsIncomplete
<1>4. FJ!Become(t, "done", "free")
  <2>1. PhaseOf(t) = "done" /\ PhaseOf(t)' = "free"
    BY <1>1, <1>2 DEF PhaseOf
  <2>2. \A u \in Tasks \ {t} : PhaseOf(u)' = PhaseOf(u)
    BY <1>2, <1>3 DEF PhaseOf
  <2>. QED
    BY <1>1, <2>1, <2>2, PhaseChanges
<1>5. FJ!Active(Parent[t])
  BY <1>1, CallerIsActive DEF OutsideBody, WaitPoints
<1>. QED
  BY <1>1, <1>4, <1>5 DEF FJ!Next, FJ!Join

LEMMA StartMaps ==
  ASSUME JInv, NEW w \in Workers, Start(w)
  PROVE  FJ!Next
<1> DEFINE c == top[w]
<1>. USE DEF JInv, IInv
<1>0. PICK t \in Tasks : t = got[w]
  BY DEF Start, TypeOK
<1>1. /\ c \in Contexts /\ c # t
      /\ pc[c] = "recheck" /\ pc[t] = "idle" /\ event[t] = "incomplete" /\ t \in owed
  BY <1>0, Typing DEF Start, TypeOK, Shape, Held, Incomplete
<1>2. \A u \in Tasks : event'[u] = "incomplete" <=> event[u] = "incomplete"
  BY TestKeepsIncomplete DEF Start, TestCompletion
<1>3. \A d \in Contexts : pc'[d] = IF d = t THEN "body" ELSE IF d = c THEN "nested" ELSE pc[d]
  BY <1>0, <1>1 DEF Start, TypeOK
<1>4. owed' = owed /\ \A u \in Tasks : u \in Contexts
  BY DEF Start, program, Contexts
<1> HIDE DEF c
<1>5. PhaseOf(t) = "ready" /\ PhaseOf(t)' = "running"
  BY <1>1, <1>2, <1>3, <1>4 DEF PhaseOf
<1>6. \A u \in Tasks \ {t} : PhaseOf(u)' = PhaseOf(u)
  BY <1>1, <1>2, <1>3, <1>4 DEF PhaseOf
<1>. QED
  BY <1>1, <1>5, <1>6, PhaseChanges DEF FJ!Next, FJ!Start

LEMMA NotifyMaps ==
  ASSUME JInv, NEW w \in Workers, Notify(w)
  PROVE  FJ!Next
<1> DEFINE b == under[top[w]]
<1>. USE DEF JInv, IInv
<1>0. PICK c \in Tasks : c = top[w]
  BY DEF Notify
<1>1. /\ b # c /\ pc[c] = "notify" /\ pc[b] = "nested"
      /\ event[c] = "incomplete" /\ c \in owed
  BY <1>0 DEF Notify, TypeOK, Shape, Stacks, Incomplete
<1>2. /\ owed' = owed
      /\ \A u \in Tasks : event'[u] = IF u = c THEN "complete" ELSE event[u]
  BY <1>0, <1>1 DEF Notify, TypeOK, program
<1>3. \A u \in Tasks \ {c} : pc'[u] = "idle" <=> pc[u] = "idle"
  BY <1>0, <1>1 DEF Notify, Resumed, TypeOK, Contexts
<1>4. \A u \in Tasks : Parent[u] = c => u \notin owed
  BY <1>1 DEF Ledger, OwesNothing, Callers, OutsideBody
<1> HIDE DEF b
<1>5. PhaseOf(c) = "running" /\ PhaseOf(c)' = "done"
  BY <1>1, <1>2 DEF PhaseOf
<1>6. \A u \in Tasks \ {c} : PhaseOf(u)' = PhaseOf(u)
  BY <1>2, <1>3 DEF PhaseOf
<1>7. \A u \in Tasks : Parent[u] = c => Phase[u] = "free"
  BY <1>4 DEF Phase
<1>. QED
  BY <1>1, <1>5, <1>6, <1>7, PhaseChanges DEF FJ!Next, FJ!Finish

\* Every step of the task manager is a step of ForkJoin or changes no phase.
LEMMA StepMaps == JInv /\ [Next]_vars => FJ!Next \/ Phase' = Phase
<1>. SUFFICES ASSUME JInv, [Next]_vars
              PROVE  FJ!Next \/ Phase' = Phase
  OBVIOUS
<1>0. TypeOK /\ Shape /\ Stacks /\ Roused /\ \A t \in Tasks : t \in Contexts /\ t \in Callers
  BY DEF JInv, IInv, Shape, Wakes, Callers, Contexts
<1>1. ASSUME NEW c \in Contexts, Quiet(c), owed' = owed
      PROVE  Phase' = Phase
  <2>1. \A t \in Tasks : pc'[t] = "idle" <=> pc[t] = "idle"
    BY <1>0, <1>1 DEF Quiet, TypeOK
  <2>2. \A t \in Tasks : PhaseOf(t)' = PhaseOf(t)
    BY <1>1, <2>1 DEF Quiet, PhaseOf
  <2>. QED
    BY <2>2, PhaseStays
<1>2. CASE MainStep
  <2>1. Main \in Callers /\ Main \in Contexts /\ 0 \in Queues
    BY QueueNumbers DEF Callers, Contexts
  <2>2. CASE \E t \in Tasks : Spawn(Main, 0, t)
    BY <2>1, <2>2, SpawnMaps
  <2>3. CASE WakeUp(Main) \/ MainPoll
    <3>1. event[target[Main]] # "incomplete"
      BY <1>0, <2>1, <2>3 DEF WakeUp, MainPoll, Roused
    <3>. QED
      BY <2>1, <2>3, <3>1, EndWaitMaps DEF WakeUp, MainPoll, WaitPoints
  <2>4. ASSUME ~ \E t \in Tasks : Spawn(Main, 0, t), ~(WakeUp(Main) \/ MainPoll)
        PROVE  Phase' = Phase
    <3>1. owed' = owed
      BY <1>2, <2>4 DEF MainStep, BeginWait, Sleep, Shutdown, Cancel, Join, program
    <3>. QED
      BY <1>0, <1>1, <1>2, <2>1, <2>4, <3>1, MainIsQuiet
  <2>. QED
    BY <2>2, <2>3, <2>4
<1>3. ASSUME NEW w \in Workers, WorkerStep(w)
      PROVE  FJ!Next \/ Phase' = Phase
  <2>1. QueueOf[w] \in Queues /\ top[w] \in Contexts
    BY <1>0, Typing
  <2>2. CASE \E t \in Tasks : WorkerSpawn(w, t)
    BY <1>0, <2>1, <2>2, SpawnMaps DEF WorkerSpawn
  <2>3. CASE WorkerWakeUp(w)
    <3>1. event[target[top[w]]] # "incomplete"
      BY <1>0, <2>3 DEF WorkerWakeUp, WakeUp, Roused
    <3>. QED
      BY <1>0, <2>3, <3>1, EndWaitMaps DEF WorkerWakeUp, WakeUp, WaitPoints
  <2>4. CASE LeaveWait(w)
    <3>1. top[w] \in Callers /\ top[w] \notin Workers
      BY <1>0, <2>4, ThreadsAssumption DEF LeaveWait
    <3>2. event[target[top[w]]] # "incomplete" /\ event' = Tested(target[top[w]])
      BY <2>4, <3>1 DEF LeaveWait, Completed, TestCompletion
    <3>. QED
      BY <2>4, <3>1, <3>2, EndWaitMaps DEF LeaveWait, WaitPoints
  <2>5. CASE Start(w)
    BY <2>5, StartMaps
  <2>6. CASE Notify(w)
    BY <2>6, NotifyMaps
  <2>7. CASE \/ \E t \in Tasks : WorkerWait(w, t)
             \/ WorkerSleep(w) \/ Check(w) \/ Yield(w) \/ Exit(w) \/ Return(w) \/ Restore(w)
             \/ Scan(w) /\ UNCHANGED <<queue, got>>
    <3>1. owed' = owed
      BY <2>7 DEF WorkerWait, BeginWait, WorkerSleep, Sleep, Check, Yield, Exit, Return, Restore, Scan, program
    <3>. QED
      BY <1>0, <1>1, <2>1, <2>7, <3>1, WorkerIsQuiet
  <2>8. CASE Scan(w) /\ ~UNCHANGED <<queue, got>>
    <3>1. UNCHANGED <<owed, event>> /\ \A t \in Tasks : pc'[t] = "idle" <=> pc[t] = "idle"
      BY <1>0, <2>1, <2>8, ScanTakes DEF Take, TypeOK
    <3>. QED
      BY <3>1, PhaseStays DEF PhaseOf
  <2>9. CASE Wake(w)
    <3>1. Settled /\ Still
      BY <1>0, <2>9, WakeIsSettled, WakeIsStill
    <3>2. \A t \in Tasks : pc'[t] = "idle" <=> pc[t] = "idle"
      BY <1>0, <3>1 DEF Still, TypeOK
    <3>. QED
      BY <3>1, <3>2, SettledStutters
  <2>. QED
    BY <1>3, <2>2, <2>3, <2>4, <2>5, <2>6, <2>7, <2>8, <2>9 DEF WorkerStep
<1>4. CASE UNCHANGED vars
  BY <1>4, PhaseStays DEF vars, program, PhaseOf
<1>. QED
  BY <1>2, <1>3, <1>4 DEF Next, Ended

\* The task manager implements ForkJoin: each spawn of a task is one
\* execution of its function, between the spawn and the return of the wait,
\* while the function that owns it is running, if no late wake-up can meet
\* the next spawn of a handle (task.hpp:72-164, event.hpp:94-109,
\* taskmgr.hpp:281-298,559-726).
THEOREM TaskMgrImplementsForkJoin ==
  ASSUME SafeReuse
  PROVE  Spec => ImplementsForkJoin
<1>1. Init => FJ!Init
  BY DEF Init, FJ!Init, Phase
<1>2. JInv /\ [Next]_vars => [FJ!Next]_Phase
  BY StepMaps
<1>. QED
  BY <1>1, <1>2, JInvariance, PTL DEF Spec, ImplementsForkJoin, FJ!Spec

-----------------------------------------------------------------------------
(***************************************************************************)
(* Proofs about the stacks of TaskMgr's workers: the cache of a worker     *)
(* follows its stack, and the predicates of the policies order the tasks   *)
(* on it.                                                                  *)
(***************************************************************************)

\* A waiting task keeps a copy of itself from the head of its wait to its
\* end, and a worker's cache is one except between the end of a task and
\* the restore.
InWait == {"check", "scan", "recheck", "nested", "wake", "restore"}

\* Between the end of a task and the restore.
Unrestored == {"wake", "restore"}

Copied ==
  /\ \A w \in Workers :
       top[w] \in Tasks /\ pc[top[w]] \notin Unrestored => cache[w] = ShallowCopy(top[w])
  /\ \A t \in Tasks : pc[t] \in InWait => saved[t] = ShallowCopy(t)

\* The policy lets t run on top of c, and did so for every task on a stack
\* and every one about to be started there.
Admits(c, t) ==
  /\ policy = "cilkS" => attr[c].level <= attr[t].level
  /\ policy = "prioS" => attr[c].priority < attr[t].priority

Ordered ==
  /\ \A t \in Tasks : under[t] \in Tasks => Admits(under[t], t)
  /\ \A w \in Workers : got[w] # NoTask /\ top[w] \in Tasks => Admits(top[w], got[w])

SInv == IInv /\ Copied /\ Ordered

-----------------------------------------------------------------------------
\* Steps that touch no copy, no attribute and no stack.
Calm ==
  /\ UNCHANGED <<policy, attr, got, top, under, cache, saved>>
  /\ \A t \in Tasks : pc'[t] \in InWait => pc[t] \in InWait
  /\ \A t \in Tasks : pc[t] \in Unrestored => pc'[t] \in Unrestored

LEMMA CalmStep == Copied /\ Ordered /\ Calm => Copied' /\ Ordered'
BY DEF Copied, Ordered, Calm, Admits, ShallowCopy, InWait

LEMMA MainIsCalm ==
  ASSUME TypeOK, MainStep, ~ \E t \in Tasks : Spawn(Main, 0, t)
  PROVE  Calm
<1>1. \A t \in Tasks : pc'[t] = pc[t]
  <2>1. pc' = pc \/ \E p \in PCs : pc' = [pc EXCEPT ![Main] = p]
    BY DEF MainStep, BeginWait, Sleep, WakeUp, MainPoll, EndWait, Shutdown, Cancel, Join, PCs
  <2>2. \A t \in Tasks : t # Main /\ t \in Contexts
    BY ThreadsAssumption DEF Contexts
  <2>. QED
    BY <2>1, <2>2 DEF TypeOK
<1>2. UNCHANGED <<policy, attr, got, top, under, cache, saved>>
  BY DEF MainStep, BeginWait, Sleep, WakeUp, MainPoll, EndWait, Shutdown, Cancel, Join,
         program, getter, stack, copies
<1>. QED
  BY <1>1, <1>2 DEF Calm

LEMMA WorkerIsCalm ==
  ASSUME TypeOK, NEW w \in Workers,
         \/ WorkerSleep(w) \/ WorkerWakeUp(w) \/ Check(w) \/ Yield(w)
         \/ LeaveWait(w) \/ Exit(w) \/ Return(w)
         \/ Scan(w) /\ UNCHANGED <<queue, got>>
  PROVE  Calm
<1> DEFINE c == top[w]
<1>1. UNCHANGED <<policy, attr, got, top, under, cache, saved>>
  BY DEF WorkerSleep, Sleep, WorkerWakeUp, WakeUp, Check, Yield, LeaveWait, Exit, Return,
         Scan, EndWait,
         program, getter, stack, copies
<1>2. /\ pc[c] \notin Unrestored
      /\ \/ pc[c] \in InWait /\ \E p \in InWait \ Unrestored : pc' = [pc EXCEPT ![c] = p]
         \/ \E p \in {"asleep", "body", "exited", "notify"} : pc' = [pc EXCEPT ![c] = p]
  <2>. USE DEF Unrestored
  <2>1. CASE WorkerSleep(w) \/ WorkerWakeUp(w) \/ LeaveWait(w) \/ Exit(w) \/ Return(w)
    BY <2>1 DEF WorkerSleep, Sleep, WorkerWakeUp, WakeUp, LeaveWait, Exit, Return, EndWait, InBody
  <2>2. CASE Check(w) \/ Yield(w)
    BY <2>2 DEF Check, Yield, InWait
  <2>3. CASE Scan(w)
    <3>1. pc' = [pc EXCEPT ![c] = "recheck"] \/ pc' = [pc EXCEPT ![c] = "check"]
          \/ pc' = [pc EXCEPT ![c] = "scan"]
      BY <2>3 DEF Scan
    <3>. QED
      BY <2>3, <3>1 DEF Scan, InWait
  <2>. QED
    BY <2>1, <2>2, <2>3
<1>3. \A t \in Tasks : t \in Contexts
  BY DEF Contexts
<1> HIDE DEF c
<1>. QED
  BY <1>1, <1>2, <1>3 DEF Calm, InWait, Unrestored, TypeOK

LEMMA WakeIsCalm ==
  ASSUME TypeOK, NEW w \in Workers, Wake(w)
  PROVE  Calm
<1>1. \A t \in Tasks : t \in Contexts /\ t \notin Workers
  BY ThreadsAssumption DEF Contexts
<1>2. \A t \in Tasks : pc'[t] = IF t = top[w] THEN "restore"
                                ELSE IF pc[t] = "asleep" /\ target[t] = waking[w] THEN "woken"
                                ELSE pc[t]
  BY <1>1 DEF Wake, Resumed
<1>3. pc[top[w]] = "wake" /\ UNCHANGED <<policy, attr, got, top, under, cache, saved>>
  BY DEF Wake, program, getter, copies
<1>. QED
  BY <1>2, <1>3 DEF Calm, InWait, Unrestored

\* A handle that is spawned is on no stack and in no hand.
LEMMA SpawnStack ==
  ASSUME SInv, NEW own \in Queues, NEW t \in Tasks, NEW c, Spawn(c, own, t)
  PROVE  Copied' /\ Ordered'
<1>. USE DEF SInv, IInv
<1>1. /\ t \notin owed /\ UNCHANGED <<policy, pc, got, top, under, cache, saved>>
      /\ \A u \in Tasks \ {t} : attr'[u] = attr[u]
  BY DEF Spawn, TypeOK, getter, stack, copies
<1>2. pc[t] = "idle" /\ \A w \in Workers : got[w] # t
  BY <1>1, NotOwed
<1>3. Copied'
  BY <1>1, <1>2 DEF Copied, ShallowCopy, Shape, Stacks, InWait
<1>4. Ordered'
  <2>1. \A u \in Tasks : under[u] \in Tasks => u # t /\ under[u] # t
    BY <1>2, ThreadsAssumption DEF Shape, Stacks
  <2>2. \A w \in Workers : top[w] # t
    BY <1>2 DEF Shape, Stacks
  <2>. QED
    BY <1>1, <1>2, <2>1, <2>2 DEF Ordered, Admits, TypeOK
<1>. QED
  BY <1>3, <1>4

LEMMA WaitStack ==
  ASSUME SInv, NEW w \in Workers, NEW t \in Tasks, WorkerWait(w, t)
  PROVE  Copied' /\ Ordered'
<1> DEFINE c == top[w]
<1>. USE DEF SInv, IInv
<1>1. /\ c \in Tasks /\ c \in Contexts /\ pc[c] = "body"
      /\ UNCHANGED <<policy, attr, got, top, under, cache>>
      /\ \A u \in Tasks \ {c} : pc'[u] = pc[u] /\ saved'[u] = saved[u]
      /\ saved'[c] = cache[w]
  BY DEF WorkerWait, BeginWait, InBody, program, stack, TypeOK, Contexts
<1>2. pc'[c] \notin Unrestored
  BY <1>1 DEF WorkerWait, BeginWait, TypeOK, Unrestored
<1>3. cache[w] = ShallowCopy(c)
  BY <1>1 DEF Copied, Unrestored
<1> HIDE DEF c
<1>4. Copied'
  <2>1. \A v \in Workers :
          top[v] \in Tasks /\ pc'[top[v]] \notin Unrestored => cache[v] = ShallowCopy(top[v])
    BY <1>1, <1>3 DEF Copied, Unrestored
  <2>2. \A u \in Tasks : pc'[u] \in InWait => saved'[u] = ShallowCopy(u)
    BY <1>1, <1>3 DEF Copied
  <2>. QED
    BY <1>1, <2>1, <2>2 DEF Copied, ShallowCopy
<1>5. Ordered'
  BY <1>1 DEF Ordered, Admits
<1>. QED
  BY <1>4, <1>5

\* get() accepts a task inside a wait only if it may run on top of the
\* task that waits.
LEMMA TakeStack ==
  ASSUME SInv, NEW w \in Workers, Scan(w), ~UNCHANGED <<queue, got>>
  PROVE  Copied' /\ Ordered'
<1> DEFINE q == (QueueOf[w] + scan[w]) % NumQueues
<1>. USE DEF SInv, IInv
<1>0. PICK c \in Contexts : c = top[w]
  BY Typing
<1>1. PICK i \in Exposed(queue[q], scan[w] = 0) :
        /\ Pred(c, queue[q][i])
        /\ got' = [got EXCEPT ![w] = queue[q][i]]
        /\ pc' = [pc EXCEPT ![c] = "recheck"]
  BY <1>0 DEF Scan
<1>2. PICK t : t = queue[q][i]
  OBVIOUS
<1>3. /\ UNCHANGED <<policy, attr, top, under, cache, saved>>
      /\ pc[c] = "scan"
      /\ \A v \in Workers : got'[v] = IF v = w THEN t ELSE got[v]
      /\ \A u \in Tasks : pc'[u] = IF u = c THEN "recheck" ELSE pc[u]
  BY <1>0, <1>1, <1>2 DEF Scan, program, stack, copies, TypeOK, Contexts
<1>4. c \in Tasks => Admits(c, t)
  <2>1. SUFFICES ASSUME c \in Tasks
                 PROVE  Admits(c, t)
    OBVIOUS
  <2>2. saved[c].attr = attr[c]
    <3>1. saved[c] = ShallowCopy(c)
      BY <1>3, <2>1 DEF Copied, InWait
    <3>. QED
      BY <3>1 DEF ShallowCopy
  <2>3. WaitingPred(attr[c], t)
    BY <1>1, <1>2, <2>1, <2>2, ThreadsAssumption DEF Pred
  <2>4. policy = "cilkS" => CilkWaitingPred(attr[c], t)
    BY <2>3, Zenon DEF WaitingPred
  <2>5. policy = "prioS" => policy # "cilkS"
    OBVIOUS
  <2>6. policy = "prioS" => PrioWaitingPred(attr[c], t)
    BY <2>3, <2>5, Zenon DEF WaitingPred
  <2>. QED
    BY <2>4, <2>6 DEF Admits, CilkWaitingPred, PrioWaitingPred
<1> HIDE DEF q
<1>5. Copied'
  BY <1>0, <1>3 DEF Copied, ShallowCopy, InWait, Unrestored
<1>6. Ordered'
  BY <1>0, <1>3, <1>4 DEF Ordered, Admits
<1>. QED
  BY <1>5, <1>6

LEMMA StartStack ==
  ASSUME SInv, NEW w \in Workers, Start(w)
  PROVE  Copied' /\ Ordered'
<1> DEFINE c == top[w]
           t == got[w]
<1>. USE DEF SInv, IInv
<1>1. /\ t \in Tasks /\ t # NoTask /\ c \in Contexts /\ t \in Contexts /\ c # t
      /\ pc[c] = "recheck" /\ pc[t] = "idle"
  BY Typing DEF Start, TypeOK, Shape, Held, Contexts
<1>2. /\ UNCHANGED <<policy, attr, saved>>
      /\ \A d \in Contexts : pc'[d] = IF d = t THEN "body" ELSE IF d = c THEN "nested" ELSE pc[d]
      /\ \A v \in Workers : top'[v] = IF v = w THEN t ELSE top[v]
      /\ \A v \in Workers : got'[v] = IF v = w THEN NoTask ELSE got[v]
      /\ \A v \in Workers : cache'[v] = IF v = w THEN ShallowCopy(t) ELSE cache[v]
      /\ \A u \in Tasks : under'[u] = IF u = t THEN c ELSE under[u]
  BY <1>1 DEF Start, TypeOK, program
<1>3. c \in Tasks => Admits(c, t)
  BY <1>1 DEF Ordered
<1>4. \A v \in Workers : top[v] \in Contexts /\ (v # w => top[v] # c) /\ top[v] # t
  BY <1>1, Typing DEF Shape, Stacks
<1>5. \A u \in Tasks : u \in Contexts
  BY DEF Contexts
<1> HIDE DEF c, t
<1>6. Copied'
  <2>1. \A v \in Workers :
          top'[v] \in Tasks /\ pc'[top'[v]] \notin Unrestored => cache'[v] = ShallowCopy(top'[v])
    BY <1>1, <1>2, <1>4 DEF Copied
  <2>2. \A u \in Tasks : pc'[u] \in InWait => saved'[u] = ShallowCopy(u)
    BY <1>1, <1>2, <1>5 DEF Copied, InWait
  <2>. QED
    BY <1>2, <2>1, <2>2 DEF Copied, ShallowCopy
<1>7. Ordered'
  <2>1. \A u \in Tasks : under'[u] \in Tasks => Admits(under'[u], u)
    BY <1>2, <1>3 DEF Ordered
  <2>2. \A v \in Workers : got'[v] # NoTask /\ top'[v] \in Tasks => Admits(top'[v], got'[v])
    BY <1>2 DEF Ordered
  <2>. QED
    BY <1>2, <2>1, <2>2 DEF Ordered, Admits
<1>. QED
  BY <1>6, <1>7

LEMMA NotifyStack ==
  ASSUME SInv, NEW w \in Workers, Notify(w)
  PROVE  Copied' /\ Ordered'
<1> DEFINE c == top[w]
           b == under[c]
<1>. USE DEF SInv, IInv
<1>1. /\ c \in Tasks /\ c \in Contexts /\ b \in Contexts
      /\ pc[c] = "notify" /\ pc[b] = "nested" /\ b # c
  BY ThreadsAssumption DEF Notify, TypeOK, Shape, Stacks, Contexts
<1>2. /\ UNCHANGED <<policy, attr, got, cache, saved>>
      /\ \A d \in Contexts : d # c /\ d # b => pc'[d] = pc[d]
      /\ pc'[c] = "idle" /\ (b \in Tasks => pc'[b] \in Unrestored)
      /\ \A v \in Workers : top'[v] = IF v = w THEN b ELSE top[v]
      /\ \A u \in Tasks : under'[u] = IF u = c THEN NoTask ELSE under[u]
  BY <1>1, ThreadsAssumption DEF Notify, Resumed, Unrestored, TypeOK, program, copies
<1>3. \A v \in Workers : top[v] \in Contexts /\ (v # w => top[v] # c) /\ top[v] # b
  BY <1>1, Typing DEF Shape, Stacks
<1>4. \A u \in Tasks : u \in Contexts
  BY DEF Contexts
<1>5. got[w] = NoTask
  BY <1>1 DEF Shape, Held
<1> HIDE DEF c, b
<1>6. Copied'
  <2>1. \A v \in Workers :
          top'[v] \in Tasks /\ pc'[top'[v]] \notin Unrestored => cache[v] = ShallowCopy(top'[v])
    BY <1>1, <1>2, <1>3 DEF Copied
  <2>2. \A u \in Tasks : pc'[u] \in InWait => saved[u] = ShallowCopy(u)
    BY <1>1, <1>2, <1>4 DEF Copied, InWait
  <2>. QED
    BY <1>2, <2>1, <2>2 DEF Copied, ShallowCopy
<1>7. Ordered'
  <2>1. \A u \in Tasks : under'[u] \in Tasks => Admits(under'[u], u)
    BY <1>2, ThreadsAssumption DEF Ordered
  <2>2. \A v \in Workers : got[v] # NoTask /\ top'[v] \in Tasks => Admits(top'[v], got[v])
    BY <1>2, <1>5 DEF Ordered
  <2>. QED
    BY <1>2, <2>1, <2>2 DEF Ordered, Admits
<1>. QED
  BY <1>6, <1>7

LEMMA RestoreStack ==
  ASSUME SInv, NEW w \in Workers, Restore(w)
  PROVE  Copied' /\ Ordered'
<1> DEFINE c == top[w]
<1>. USE DEF SInv, IInv
<1>1. /\ c \in Tasks /\ pc[c] = "restore"
      /\ UNCHANGED <<policy, attr, got, top, under, saved>>
      /\ \A u \in Tasks \ {c} : pc'[u] = pc[u]
      /\ \A v \in Workers : cache'[v] = IF v = w THEN saved[c] ELSE cache[v]
  BY DEF Restore, TypeOK, program, getter, stack
<1>2. pc'[c] \notin Unrestored /\ saved[c] = ShallowCopy(c)
  BY <1>1 DEF Restore, Unrestored, TypeOK, Contexts, Copied, InWait
<1>3. \A v \in Workers : top[v] = c => v = w
  BY DEF Shape, Stacks
<1>4. Copied'
  <2>1. \A v \in Workers :
          top[v] \in Tasks /\ pc'[top[v]] \notin Unrestored => cache'[v] = ShallowCopy(top[v])
    BY <1>1, <1>2, <1>3 DEF Copied
  <2>2. \A u \in Tasks : pc'[u] \in InWait => saved[u] = ShallowCopy(u)
    BY <1>1, <1>2 DEF Copied, InWait
  <2>. QED
    BY <1>1, <2>1, <2>2 DEF Copied, ShallowCopy
<1>5. Ordered'
  BY <1>1 DEF Ordered, Admits
<1>. QED
  BY <1>4, <1>5

-----------------------------------------------------------------------------
LEMMA SInvStep == SInv /\ Roused /\ [Next]_vars => SInv'
<1>. SUFFICES ASSUME SInv, [Next]_vars
              PROVE  Copied' /\ Ordered'
  BY IInvStep DEF SInv
<1>0. TypeOK /\ Copied /\ Ordered
  BY DEF SInv, IInv
<1>1. CASE MainStep
  BY <1>0, <1>1, QueueNumbers, SpawnStack, MainIsCalm, CalmStep
<1>2. ASSUME NEW w \in Workers, WorkerStep(w)
      PROVE  Copied' /\ Ordered'
  <2>1. QueueOf[w] \in Queues
    BY <1>0, Typing
  <2>2. CASE \E t \in Tasks : WorkerSpawn(w, t)
    BY <2>1, <2>2, SpawnStack DEF WorkerSpawn
  <2>3. CASE \E t \in Tasks : WorkerWait(w, t)
    BY <2>3, WaitStack
  <2>4. CASE Start(w)
    BY <2>4, StartStack
  <2>5. CASE Notify(w)
    BY <2>5, NotifyStack
  <2>6. CASE Restore(w)
    BY <2>6, RestoreStack
  <2>7. CASE Scan(w) /\ ~UNCHANGED <<queue, got>>
    BY <2>7, TakeStack
  <2>8. CASE \/ WorkerSleep(w) \/ WorkerWakeUp(w) \/ Check(w) \/ Yield(w)
             \/ LeaveWait(w) \/ Exit(w) \/ Return(w)
             \/ Scan(w) /\ UNCHANGED <<queue, got>>
    BY <1>0, <2>8, WorkerIsCalm, CalmStep
  <2>9. CASE Wake(w)
    BY <1>0, <2>9, WakeIsCalm, CalmStep
  <2>. QED
    BY <1>2, <2>2, <2>3, <2>4, <2>5, <2>6, <2>7, <2>8, <2>9 DEF WorkerStep
<1>3. CASE UNCHANGED vars
  BY <1>0, <1>3 DEF Copied, Ordered, Admits, ShallowCopy, vars, program, getter, stack, copies
<1>. QED
  BY <1>1, <1>2, <1>3 DEF Next, Ended

LEMMA SInvariance ==
  ASSUME SafeReuse
  PROVE  Spec => []SInv
<1>1. Init => SInv
  <2>1. Init => Copied /\ Ordered
    BY ThreadsAssumption DEF Init, Copied, Ordered, Contexts, InWait
  <2>. QED
    BY <2>1, IInvInit DEF SInv
<1>2. JInv => Roused
  BY DEF JInv, Wakes
<1>. QED
  BY <1>1, <1>2, SInvStep, JInvariance, PTL DEF Spec

\* While a task's code runs, the cache of its thread is a copy of that task,
\* if no late wake-up can meet the next spawn of a handle
\* (taskmgr.hpp:650,701-716).
THEOREM CacheFollowsStack ==
  ASSUME SafeReuse
  PROVE  Spec => []CacheIsCurrent
<1>1. SInv => CacheIsCurrent
  BY DEF SInv, Copied, CacheIsCurrent, Unrestored
<1>. QED
  BY <1>1, SInvariance, PTL

\* Levels never decrease on a stack under cilkS and priorities increase
\* under prioS, for any attributes, if no late wake-up can meet the next
\* spawn of a handle (predicate.hpp:133-139,230-236).
THEOREM StacksAreOrdered ==
  ASSUME SafeReuse
  PROVE  Spec => []StackIsOrdered
<1>1. SInv => StackIsOrdered
  BY DEF SInv, Ordered, Admits, StackIsOrdered
<1>. QED
  BY <1>1, SInvariance, PTL
=============================================================================
