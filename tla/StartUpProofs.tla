--------------------------- MODULE StartUpProofs ---------------------------
(***************************************************************************)
(* Proofs about the start of a task manager, for any number of queues and  *)
(* of threads and for both barriers.                                       *)
(***************************************************************************)
EXTENDS StartUp, FiniteSetTheorems, TLAPS

PlacesOf(barrierOf) ==
  IF barrierOf = "futex"
    THEN {"none", "set", "phase", "arrive", "reset", "toggle", "wake", "look", "wait",
          "asleep", "through", "working"}
    ELSE {"none", "set", "enter", "look", "asleep", "through", "working"}

Attrs == [id : Workers \cup {NumThreads}, queue : 0 .. NumQueues - 1] \cup {Unset}

TypeOK ==
  /\ barrierImpl \in {"futex", "cond"}
  /\ thds \in Seq(Nat)
  /\ loop \in [i : 0 .. NumQueues, j : Nat]
  /\ index \in Int
  /\ data \in [Workers -> Attrs]
  /\ main \in {"create", "await", "ready"}
  /\ table \in [0 .. NumThreads -> Attrs]
  /\ phase \in {0, 1}
  /\ count \in Int
  /\ at \in [Workers -> PlacesOf(barrierImpl)]
  /\ myPhase \in [Workers -> {0, 1}]
  /\ startCount \in Int

\* The iterations that are behind the constructor.
Behind == {p \in Iterations(thds) : p[1] < loop.i \/ (p[1] = loop.i /\ p[2] < loop.j)}

On(q) == {w \in Workers : data[w].queue = q}

\* The constructor has created a thread in every iteration behind it, with
\* IDs in order and on the queue of the iteration.
Creation ==
  /\ loop.i < NumQueues => loop.j <= thds[loop.i + 1]
  /\ main = "create" \/ loop.i = NumQueues
  /\ index + 1 = Cardinality(Behind)
  /\ \A w \in Workers : IF w <= index THEN at[w] # "none" /\ data[w].id = w
                                      ELSE at[w] = "none" /\ data[w] = Unset
  /\ \A q \in 0 .. NumQueues - 1 :
       Cardinality(On(q)) = IF q < loop.i THEN thds[q + 1] ELSE IF q = loop.i THEN loop.j ELSE 0

\* A thread beyond its first step has published its attribute.
Published == \A w \in Workers : at[w] \notin {"none", "set"} => table[w] = data[w]

\* The threads that have not arrived at the barrier, and those that know that
\* all have.
Before == {"none", "set", "enter", "phase", "arrive"}
Beyond == {"reset", "toggle", "wake", "through", "working"}

Arrived == {w \in Workers : at[w] \notin Before}

\* As long as somebody has not arrived the phase is the first, nobody is
\* beyond and the count says how many have arrived.
Gate ==
  /\ \A w \in Workers : myPhase[w] = 0
  /\ \A w \in Workers : at[w] \in Before =>
       /\ phase = 0
       /\ \A v \in Workers : at[v] \notin Beyond
       /\ Cardinality(Arrived) = IF barrierImpl = "futex" THEN BarrierSize - count ELSE count

\* One thread opens the barrier and wakes those that sleep.
Opens == {"reset", "toggle", "wake"}

Opener ==
  /\ \A v, w \in Workers : at[v] \in Opens /\ at[w] \in Opens => v = w
  /\ \A w \in Workers : at[w] \in {"reset", "toggle"} => phase = 0
  /\ \A w \in Workers : at[w] = "asleep" /\ phase = 1 => \E v \in Workers : at[v] = "wake"

\* The threads counted by the constructor.
AtWork == {w \in Workers : at[w] = "working"}

Counted ==
  /\ startCount = Cardinality(AtWork)
  /\ main = "ready" => startCount = NumThreads

IInv == TypeOK /\ Creation /\ Published /\ Gate /\ Opener /\ Counted

-----------------------------------------------------------------------------
(***************************************************************************)
(* The iterations and the threads.                                         *)
(***************************************************************************)
LEMMA IterationsAreFinite ==
  ASSUME NEW shape \in Seq(Nat)
  PROVE  /\ IsFiniteSet(Iterations(shape)) /\ Total(shape) \in Nat
         /\ \A p \in Iterations(shape) : p = <<p[1], p[2]>>
         /\ \A i, j : <<i, j>> \in Iterations(shape) <=>
              i \in 0 .. Len(shape) - 1 /\ j \in 0 .. shape[i + 1] - 1
<1> DEFINE row(i) == {i} \X (0 .. shape[i + 1] - 1)
           rows == {row(i) : i \in 0 .. Len(shape) - 1}
<1>1. Len(shape) \in Nat /\ \A i \in 0 .. Len(shape) - 1 : shape[i + 1] \in Nat
  OBVIOUS
<1>2. ASSUME NEW i \in 0 .. Len(shape) - 1
      PROVE  IsFiniteSet(row(i))
  <2>1. 0 \in Int /\ shape[i + 1] - 1 \in Int
    BY <1>1
  <2>2. IsFiniteSet(0 .. shape[i + 1] - 1)
    BY <2>1, FS_Interval, Zenon
  <2>3. IsFiniteSet({i})
    BY FS_Singleton
  <2>. QED
    BY <2>2, <2>3, FS_Product
<1>3. IsFiniteSet(0 .. Len(shape) - 1)
  BY <1>1, FS_Interval
<1>4. IsFiniteSet(rows)
  <2> DEFINE f == [i \in 0 .. Len(shape) - 1 |-> row(i)]
  <2>1. f \in Surjection(0 .. Len(shape) - 1, rows)
    BY DEF Surjection
  <2>. QED
    BY <1>3, <2>1, FS_Surjection
<1>5. IsFiniteSet(Iterations(shape))
  BY <1>2, <1>4, FS_UNION DEF Iterations
<1>6. Total(shape) \in Nat
  BY <1>5, FS_CardinalityType DEF Total
<1>7. /\ \A p \in Iterations(shape) : p = <<p[1], p[2]>>
      /\ \A i, j : <<i, j>> \in Iterations(shape) <=>
           i \in 0 .. Len(shape) - 1 /\ j \in 0 .. shape[i + 1] - 1
  BY DEF Iterations
<1>. QED
  BY <1>5, <1>6, <1>7

LEMMA Numbers ==
  ASSUME TypeOK
  PROVE  /\ NumQueues \in Nat /\ NumThreads \in Nat /\ BarrierSize = NumThreads
         /\ Workers \subseteq Nat /\ IsFiniteSet(Workers) /\ Cardinality(Workers) = NumThreads
         /\ \A q \in 0 .. NumQueues - 1 : thds[q + 1] \in Nat
<1>1. NumQueues \in Nat /\ NumThreads \in Nat /\ \A q \in 0 .. NumQueues - 1 : thds[q + 1] \in Nat
  BY IterationsAreFinite DEF TypeOK, NumQueues, NumThreads
<1>2. 0 \in Int /\ NumThreads - 1 \in Int
  BY <1>1
<1>3. /\ IsFiniteSet(Workers)
      /\ Cardinality(Workers) = IF 0 > NumThreads - 1 THEN 0 ELSE NumThreads - 1 - 0 + 1
  BY <1>2, FS_Interval, Zenon DEF Workers
<1>4. Cardinality(Workers) = NumThreads
  BY <1>1, <1>3
<1>. QED
  BY <1>1, <1>3, <1>4 DEF Workers, BarrierSize

\* One more thread in a set of threads.
LEMMA OneMore ==
  ASSUME TypeOK, NEW S, S \subseteq Workers, NEW w \in Workers, w \notin S
  PROVE  /\ Cardinality(S) \in Nat
         /\ Cardinality(S \cup {w}) = Cardinality(S) + 1
         /\ Cardinality(S) + 1 = NumThreads => S \cup {w} = Workers
<1>1. IsFiniteSet(S) /\ Cardinality(S) \in Nat
  BY Numbers, FS_Subset, FS_CardinalityType
<1>2. Cardinality(S \cup {w}) = Cardinality(S) + 1
  BY <1>1, FS_AddElement
<1>3. S \cup {w} \in SUBSET Workers
  OBVIOUS
<1>4. Cardinality(Workers) = Cardinality(S \cup {w}) => Workers = S \cup {w}
  BY <1>3, Numbers, FS_Subset
<1>. QED
  BY <1>1, <1>2, <1>4, Numbers

LEMMA Fixed ==
  ASSUME UNCHANGED <<barrierImpl, thds>>
  PROVE  /\ NumQueues' = NumQueues /\ NumThreads' = NumThreads /\ BarrierSize' = BarrierSize
         /\ Workers' = Workers /\ Iterations(thds)' = Iterations(thds)
         /\ PlacesOf(barrierImpl)' = PlacesOf(barrierImpl) /\ Attrs' = Attrs
BY DEF NumQueues, NumThreads, BarrierSize, Workers, PlacesOf, Attrs

-----------------------------------------------------------------------------
(***************************************************************************)
(* The initial states.                                                     *)
(***************************************************************************)
LEMMA IInvInit == StartUpInit => IInv
<1> SUFFICES ASSUME StartUpInit PROVE IInv
  OBVIOUS
<1>1. thds \in Seq(Nat) /\ Len(thds) \in Nat /\ Len(thds) > 0 /\ barrierImpl \in {"futex", "cond"}
  BY ShapesAssumption, BarriersAssumption DEF StartUpInit
<1>2. NumThreads \in Nat /\ NumQueues \in Nat /\ NumQueues > 0
  BY <1>1, IterationsAreFinite DEF NumThreads, NumQueues
<1>3. TypeOK
  <2>1. \A id \in 0 .. NumThreads : id # NumThreads => id \in Workers
    BY <1>2 DEF Workers
  <2>2. ThreadAttr(NumThreads, 0) \in Attrs /\ Unset \in Attrs
    BY <1>2 DEF Attrs, ThreadAttr
  <2>. QED
    BY <1>1, <1>2, <2>1, <2>2 DEF StartUpInit, TypeOK, PlacesOf, BarrierSize, FirstIndex, Unset
<1>4. Cardinality({}) = 0 /\ \A S : S = {} => Cardinality(S) = 0
  BY FS_EmptySet
<1>5. Behind = {}
  BY <1>1, IterationsAreFinite DEF StartUpInit, Behind
<1>6. \A q \in 0 .. NumQueues - 1 : On(q) = {}
  BY <1>2 DEF StartUpInit, On, Unset
<1>7. Creation
  BY <1>1, <1>2, <1>3, <1>4, <1>5, <1>6, Numbers DEF StartUpInit, Creation, FirstIndex, NumQueues, Workers
<1>8. Arrived = {} /\ AtWork = {}
  BY DEF StartUpInit, Arrived, Before, AtWork
<1>9. Published /\ Gate /\ Opener /\ Counted
  BY <1>2, <1>4, <1>8 DEF StartUpInit, Published, Gate, Opener, Counted, Before, Beyond, Opens, BarrierSize
<1>. QED
  BY <1>3, <1>7, <1>9 DEF IInv

-----------------------------------------------------------------------------
(***************************************************************************)
(* The constructor's steps.                                                *)
(***************************************************************************)
LEMMA CreateFacts ==
  ASSUME IInv, CreateThread
  PROVE  /\ index' \in Workers /\ at[index'] = "none" /\ data[index'] = Unset
         /\ Cardinality(Behind') = index' + 1
         /\ loop.i \in 0 .. NumQueues - 1 /\ loop.j \in 0 .. thds[loop.i + 1] - 1
<1> USE DEF IInv
<1> DEFINE p == <<loop.i, loop.j>>
<1>1. /\ thds' = thds /\ barrierImpl' = barrierImpl /\ index' = index + 1 /\ loop.i \in 0 .. NumQueues - 1
      /\ loop.j \in 0 .. thds[loop.i + 1] - 1
      /\ loop'.i = loop.i /\ loop'.j = loop.j + 1
  <2>1. /\ loop \in [i : 0 .. NumQueues, j : Nat] /\ NumQueues \in Nat
        /\ loop.i < NumQueues /\ loop.j < thds[loop.i + 1]
        /\ loop' = [loop EXCEPT !.j = @ + 1]
    BY Numbers DEF CreateThread, TypeOK
  <2>2. loop.i \in 0 .. NumQueues - 1 /\ loop.j \in Nat
    BY <2>1
  <2>3. thds[loop.i + 1] \in Nat
    BY <2>2, Numbers
  <2>. QED
    BY <2>1, <2>2, <2>3 DEF CreateThread
<1>2. p \in Iterations(thds) /\ p \notin Behind
  <2>1. p \in Iterations(thds)
    BY <1>1, IterationsAreFinite DEF TypeOK, NumQueues
  <2>2. loop.i \in Int /\ loop.j \in Int
    BY DEF TypeOK
  <2>. QED
    BY <2>1, <2>2 DEF Behind
<1>3. Behind' = Behind \cup {p}
  <2>1. \A x \in Iterations(thds) :
          x \in Behind' <=> x \in Behind \/ (x[1] = loop.i /\ x[2] = loop.j)
    <3> TAKE x \in Iterations(thds)
    <3>1. x[1] \in Int /\ x[2] \in Int
      BY IterationsAreFinite DEF TypeOK
    <3>. QED
      BY <1>1, <3>1, Fixed DEF Behind
  <2>2. \A x \in Iterations(thds) : x[1] = loop.i /\ x[2] = loop.j <=> x = p
    BY IterationsAreFinite DEF TypeOK
  <2>. QED
    BY <1>1, <1>2, <2>1, <2>2, Fixed DEF Behind
<1>4. /\ IsFiniteSet(Behind) /\ Cardinality(Behind) \in Nat
      /\ Cardinality(Behind') <= NumThreads
  <2>1. Behind \in SUBSET Iterations(thds) /\ Behind' \in SUBSET Iterations(thds)
    BY <1>2, <1>3 DEF Behind
  <2>2. IsFiniteSet(Iterations(thds)) /\ Cardinality(Iterations(thds)) = NumThreads
    BY IterationsAreFinite DEF TypeOK, NumThreads, Total
  <2>. QED
    BY <2>1, <2>2, FS_Subset, FS_CardinalityType
<1>5. Cardinality(Behind') = Cardinality(Behind) + 1
  BY <1>2, <1>3, <1>4, FS_AddElement
<1>6. index' \in Workers /\ index' > index
  BY <1>1, <1>4, <1>5, Numbers DEF Creation, Workers, TypeOK
<1>. QED
  BY <1>1, <1>5, <1>6, Numbers DEF Creation, TypeOK

LEMMA CreateStep ==
  ASSUME IInv, CreateThread
  PROVE  IInv'
<1> USE DEF IInv
<1> DEFINE n == index'
<1>1. /\ n \in Workers /\ at[n] = "none" /\ data[n] = Unset /\ n = index + 1
      /\ Cardinality(Behind') = n + 1
  BY CreateFacts DEF CreateThread
<1>2. /\ UNCHANGED <<barrierImpl, thds, main, table, phase, count, myPhase, startCount>>
      /\ data' = [data EXCEPT ![n] = ThreadAttr(n, loop.i)]
      /\ at' = [at EXCEPT ![n] = "set"]
      /\ loop' = [loop EXCEPT !.j = @ + 1]
      /\ main = "create" /\ loop.i \in 0 .. NumQueues - 1 /\ loop.j \in 0 .. thds[loop.i + 1] - 1
  <2>1. loop.i \in 0 .. NumQueues - 1 /\ loop.j \in 0 .. thds[loop.i + 1] - 1
    BY CreateFacts
  <2>. QED
    BY <2>1 DEF CreateThread, AttrOfNext, barrier
<1> HIDE DEF n
<1>3. TypeOK'
  <2>1. ThreadAttr(n, loop.i) \in Attrs
    BY <1>1, <1>2 DEF ThreadAttr, Attrs
  <2>2. n \in Int
    BY <1>1, Numbers
  <2>4. loop' \in [i : 0 .. NumQueues, j : Nat]
    <3>1. loop \in [i : 0 .. NumQueues, j : Nat] /\ loop.j + 1 \in Nat
      BY DEF TypeOK
    <3>. QED
      BY <1>2, <3>1
  <2>3. data' \in [Workers -> Attrs] /\ at' \in [Workers -> PlacesOf(barrierImpl)]
    BY <1>1, <1>2, <2>1 DEF TypeOK, PlacesOf
  <2>. QED
    BY <1>2, <2>2, <2>3, <2>4, Fixed DEF TypeOK, n
<1>4. \A q \in 0 .. NumQueues - 1 :
        Cardinality(On(q)') = Cardinality(On(q)) + (IF q = loop.i THEN 1 ELSE 0)
  <2> TAKE q \in 0 .. NumQueues - 1
  <2>1. data'[n].queue = loop.i /\ data[n].queue = -1 /\ \A w \in Workers \ {n} : data'[w] = data[w]
    BY <1>1, <1>2 DEF TypeOK, ThreadAttr, Unset
  <2>2. On(q) \subseteq Workers /\ n \notin On(q)
    BY <2>1, Numbers DEF On
  <2>3. On(q)' = IF q = loop.i THEN On(q) \cup {n} ELSE On(q)
    BY <1>1, <1>2, <2>1, Fixed DEF On
  <2>4. Cardinality(On(q)) \in Nat /\ Cardinality(On(q) \cup {n}) = Cardinality(On(q)) + 1
    BY <1>1, <2>2, OneMore
  <2>5. CASE q = loop.i
    BY <2>3, <2>4, <2>5
  <2>6. CASE q # loop.i
    BY <2>3, <2>4, <2>6
  <2>. QED
    BY <2>5, <2>6
<1>5. Creation'
  <2>1. \A w \in Workers : IF w <= n THEN at'[w] # "none" /\ data'[w].id = w
                                    ELSE at'[w] = "none" /\ data'[w] = Unset
    <3> TAKE w \in Workers
    <3>1. w \in Nat /\ index \in Int /\ n = index + 1
      BY <1>1, Numbers DEF TypeOK
    <3>2. CASE w = n
      BY <1>1, <1>2, <3>1, <3>2 DEF TypeOK, ThreadAttr
    <3>3. CASE w # n
      <4>1. at'[w] = at[w] /\ data'[w] = data[w]
        BY <1>2, <3>3 DEF TypeOK
      <4>2. w <= n <=> w <= index
        BY <3>1, <3>3
      <4>3. IF w <= index THEN at[w] # "none" /\ data[w].id = w
                          ELSE at[w] = "none" /\ data[w] = Unset
        BY DEF Creation
      <4>. QED
        BY <4>1, <4>2, <4>3
    <3>. QED
      BY <3>2, <3>3
  <2>2. \A q \in 0 .. NumQueues - 1 :
          Cardinality(On(q)') = IF q < loop.i THEN thds[q + 1]
                                ELSE IF q = loop.i THEN loop.j + 1 ELSE 0
    BY <1>2, <1>4, Numbers DEF Creation
  <2>3. loop'.i = loop.i /\ loop'.j = loop.j + 1
    BY <1>2 DEF TypeOK
  <2>. QED
    BY <1>1, <1>2, <2>1, <2>2, <2>3, Fixed, Numbers DEF Creation, n
<1>6. Published'
  BY <1>1, <1>2, Fixed DEF Published, TypeOK
<1>7. Arrived' = Arrived /\ AtWork' = AtWork
  BY <1>1, <1>2, Fixed DEF Arrived, AtWork, Before, TypeOK
<1>8. Gate'
  BY <1>1, <1>2, <1>7, Fixed DEF Gate, Before, Beyond, TypeOK
<1>9. Opener'
  BY <1>1, <1>2, Fixed DEF Opener, Opens, TypeOK
<1>10. Counted'
  BY <1>2, <1>7, Fixed DEF Counted
<1>. QED
  BY <1>3, <1>5, <1>6, <1>8, <1>9, <1>10

LEMMA NextQueueStep ==
  ASSUME IInv, NextQueue
  PROVE  IInv'
<1> USE DEF IInv
<1>1. /\ UNCHANGED <<barrierImpl, thds, index, data, table, phase, count, myPhase, at, startCount>>
      /\ main = "create" /\ loop.i \in 0 .. NumQueues - 1 /\ loop.j = thds[loop.i + 1]
      /\ loop' = [i |-> loop.i + 1, j |-> 0]
      /\ main' = IF loop.i + 1 = NumQueues THEN "await" ELSE "create"
  BY Numbers DEF NextQueue, barrier, TypeOK
<1>2. TypeOK'
  BY <1>1, Fixed, Numbers DEF TypeOK
<1>3. Behind' = Behind
  <2>0. loop'.i = loop.i + 1 /\ loop'.j = 0 /\ loop.i \in Int
    BY <1>1
  <2>1. \A x \in Iterations(thds) : x \in Behind' <=> x \in Behind
    <3> TAKE x \in Iterations(thds)
    <3>1. x[1] \in 0 .. NumQueues - 1 /\ x[2] \in 0 .. thds[x[1] + 1] - 1
      BY IterationsAreFinite DEF TypeOK, NumQueues
    <3>2. x[1] \in Int /\ x[2] \in Nat
      BY <3>1, Numbers
    <3>3. x \in Behind' <=> x[1] < loop.i + 1 \/ (x[1] = loop.i + 1 /\ x[2] < 0)
      BY <1>1, <2>0, Fixed DEF Behind
    <3>4. x \in Behind <=> x[1] < loop.i \/ (x[1] = loop.i /\ x[2] < thds[loop.i + 1])
      BY <1>1 DEF Behind
    <3>5. x[1] = loop.i => x[2] < thds[loop.i + 1]
      BY <1>1, <3>1, Numbers
    <3>. QED
      BY <2>0, <3>2, <3>3, <3>4, <3>5
  <2>. QED
    BY <1>1, <2>1, Fixed DEF Behind
<1>4. \A q \in 0 .. NumQueues - 1 : On(q)' = On(q)
  BY <1>1, Fixed DEF On
<1>5. Creation'
  BY <1>1, <1>3, <1>4, Fixed, Numbers DEF Creation
<1>6. Arrived' = Arrived /\ AtWork' = AtWork
  BY <1>1, Fixed DEF Arrived, AtWork
<1>7. Published' /\ Gate' /\ Opener' /\ Counted'
  BY <1>1, <1>6, Fixed DEF Published, Gate, Opener, Counted
<1>. QED
  BY <1>2, <1>5, <1>7

LEMMA ReturnStep ==
  ASSUME IInv, Return
  PROVE  IInv'
<1> USE DEF IInv
<1>1. /\ UNCHANGED <<barrierImpl, thds, loop, index, data, table, phase, count, myPhase, at, startCount>>
      /\ main = "await" /\ main' = "ready" /\ startCount = NumThreads
  BY DEF Return, AllHaveStarted, barrier
<1>2. TypeOK'
  BY <1>1, Fixed DEF TypeOK
<1>3. Behind' = Behind /\ \A q : On(q)' = On(q)
  BY <1>1, Fixed DEF Behind, On
<1>4. Creation'
  BY <1>1, <1>3, Fixed DEF Creation
<1>5. Arrived' = Arrived /\ AtWork' = AtWork
  BY <1>1, Fixed DEF Arrived, AtWork
<1>6. Published' /\ Gate' /\ Opener' /\ Counted'
  BY <1>1, <1>5, Fixed DEF Published, Gate, Opener, Counted
<1>. QED
  BY <1>2, <1>4, <1>6

-----------------------------------------------------------------------------
(***************************************************************************)
(* The threads' steps.                                                     *)
(***************************************************************************)
\* A thread's step leaves the constructor and the existence of threads alone.
LEMMA TypeFrame ==
  ASSUME TypeOK, UNCHANGED <<barrierImpl, thds, constructor>>,
         at' \in [Workers -> PlacesOf(barrierImpl)],
         table' \in [0 .. NumThreads -> Attrs],
         phase' \in {0, 1}, count' \in Int, startCount' \in Int,
         myPhase' \in [Workers -> {0, 1}]
  PROVE  TypeOK'
<1>1. UNCHANGED <<barrierImpl, thds, loop, index, data, main>>
  BY DEF constructor
<1>. QED
  BY <1>1, Fixed DEF TypeOK

LEMMA Frame ==
  ASSUME IInv, UNCHANGED <<barrierImpl, thds, constructor>>,
         at' \in [Workers -> PlacesOf(barrierImpl)],
         \A v \in Workers : at'[v] = "none" <=> at[v] = "none"
  PROVE  Creation'
<1>1. UNCHANGED <<barrierImpl, thds, loop, index, data, main>>
  BY DEF constructor
<1>2. Behind' = Behind /\ \A q : On(q)' = On(q)
  BY <1>1, Fixed DEF Behind, On
<1>. QED
  BY <1>1, <1>2, Fixed DEF IInv, Creation

\* Before the barrier.
LEMMA TlsSetStep ==
  ASSUME IInv, NEW w \in Workers, TlsSet(w)
  PROVE  IInv'
<1> USE DEF IInv
<1>1. /\ UNCHANGED <<barrierImpl, thds, constructor, phase, count, myPhase, startCount>>
      /\ at[w] = "set" /\ at' = [at EXCEPT ![w] = IF barrierImpl = "futex" THEN "phase" ELSE "enter"]
      /\ table' = [table EXCEPT ![data[w].id] = data[w]]
  BY DEF TlsSet, Go, barrier
<1>2. data[w].id = w /\ data' = data /\ w \in 0 .. NumThreads
  BY <1>1, Numbers DEF Creation, constructor, Workers
<1>10. at' \in [Workers -> PlacesOf(barrierImpl)]
  BY <1>1 DEF TypeOK, PlacesOf
<1>3. TypeOK'
  BY <1>1, <1>2, <1>10, TypeFrame DEF TypeOK
<1>4. Creation'
  BY <1>1, <1>10, Frame DEF TypeOK, PlacesOf
<1>5. Published'
  <2>1. \A v \in Workers : v \in 0 .. NumThreads
    BY Numbers DEF Workers
  <2>2. table'[w] = data[w] /\ \A v \in Workers \ {w} : table'[v] = table[v] /\ at'[v] = at[v]
    BY <1>1, <1>2, <2>1 DEF TypeOK
  <2>. QED
    BY <1>1, <1>2, <2>2, Fixed DEF Published
<1>6. Arrived' = Arrived /\ AtWork' = AtWork
  BY <1>1, Fixed DEF Arrived, AtWork, Before, TypeOK
<1>7. Gate'
  BY <1>1, <1>6, Fixed DEF Gate, Before, Beyond, TypeOK
<1>8. Opener'
  BY <1>1, Fixed DEF Opener, Opens, TypeOK
<1>9. Counted'
  BY <1>1, <1>6, Fixed DEF Counted, constructor
<1>. QED
  BY <1>3, <1>4, <1>5, <1>7, <1>8, <1>9

LEMMA ReadPhaseStep ==
  ASSUME IInv, NEW w \in Workers, ReadPhase(w)
  PROVE  IInv'
<1> USE DEF IInv
<1>1. /\ UNCHANGED <<barrierImpl, thds, constructor, table, phase, count, startCount>>
      /\ at[w] = "phase" /\ at' = [at EXCEPT ![w] = "arrive"]
      /\ myPhase' = [myPhase EXCEPT ![w] = phase]
  BY DEF ReadPhase, Go
<1>9. at' \in [Workers -> PlacesOf(barrierImpl)]
  BY <1>1 DEF TypeOK, PlacesOf
<1>2. TypeOK'
  BY <1>1, <1>9, TypeFrame DEF TypeOK
<1>3. Creation'
  BY <1>1, <1>9, Frame DEF TypeOK
<1>4. Published'
  BY <1>1, Fixed DEF Published, TypeOK, constructor
<1>5. Arrived' = Arrived /\ AtWork' = AtWork
  BY <1>1, Fixed DEF Arrived, AtWork, Before, TypeOK
<1>6. Gate'
  BY <1>1, <1>5, Fixed DEF Gate, Before, Beyond, TypeOK
<1>7. Opener'
  BY <1>1, Fixed DEF Opener, Opens, TypeOK
<1>8. Counted'
  BY <1>1, <1>5, Fixed DEF Counted, constructor
<1>. QED
  BY <1>2, <1>3, <1>4, <1>6, <1>7, <1>8

\* At the barrier.
LEMMA ArriveStep ==
  ASSUME IInv, NEW w \in Workers, Arrive(w)
  PROVE  IInv'
<1> USE DEF IInv
<1>1. /\ UNCHANGED <<barrierImpl, thds, constructor, table, phase, myPhase, startCount>>
      /\ at[w] = "arrive" /\ at' = [at EXCEPT ![w] = IF count = 1 THEN "reset" ELSE "look"]
      /\ count' = count - 1
  BY DEF Arrive, Go
<1>2. barrierImpl = "futex"
  BY <1>1 DEF TypeOK, PlacesOf
<1>12. at' \in [Workers -> PlacesOf(barrierImpl)]
  BY <1>1, <1>2 DEF TypeOK, PlacesOf
<1>3. TypeOK'
  BY <1>1, <1>12, TypeFrame DEF TypeOK
<1>4. Creation'
  BY <1>1, <1>12, Frame DEF TypeOK
<1>5. Published'
  BY <1>1, Fixed DEF Published, TypeOK, constructor
<1>6. phase = 0 /\ (\A v \in Workers : at[v] \notin Beyond) /\ Cardinality(Arrived) = BarrierSize - count
  BY <1>1, <1>2 DEF Gate, Before
<1>7. Arrived' = Arrived \cup {w} /\ w \notin Arrived /\ Arrived \subseteq Workers /\ AtWork' = AtWork
  BY <1>1, Fixed DEF Arrived, AtWork, Before, TypeOK
<1>8. /\ Cardinality(Arrived') = BarrierSize - count'
      /\ count = 1 => Arrived' = Workers
  <2>1. count \in Int /\ BarrierSize = NumThreads /\ NumThreads \in Nat
    BY Numbers DEF TypeOK
  <2>2. /\ Cardinality(Arrived') = BarrierSize - count + 1
        /\ BarrierSize - count + 1 = NumThreads => Arrived' = Workers
    BY <1>6, <1>7, OneMore
  <2>. QED
    BY <1>1, <2>1, <2>2
<1>9. Gate'
  <2>1. CASE count = 1
    BY <1>1, <1>6, <1>8, <2>1, Fixed DEF Gate, Arrived
  <2>2. CASE count # 1
    BY <1>1, <1>2, <1>6, <1>8, <2>2, Fixed DEF Gate, Beyond, TypeOK
  <2>. QED
    BY <2>1, <2>2
<1>10. Opener'
  BY <1>1, <1>6, Fixed DEF Opener, Opens, Beyond, TypeOK
<1>11. Counted'
  BY <1>1, <1>7, Fixed DEF Counted, constructor
<1>. QED
  BY <1>3, <1>4, <1>5, <1>9, <1>10, <1>11

LEMMA EnterStep ==
  ASSUME IInv, NEW w \in Workers, Enter(w)
  PROVE  IInv'
<1> USE DEF IInv
<1>1. /\ UNCHANGED <<barrierImpl, thds, constructor, table, startCount>>
      /\ at[w] = "enter" /\ myPhase' = [myPhase EXCEPT ![w] = phase]
      /\ IF count + 1 = BarrierSize
           THEN count' = 0 /\ phase' = 1 - phase /\ Wakes(w)
           ELSE count' = count + 1 /\ phase' = phase /\ at' = [at EXCEPT ![w] = "asleep"]
  BY DEF Enter
<1>2. barrierImpl = "cond"
  BY <1>1 DEF TypeOK, PlacesOf
<1>3. phase = 0 /\ (\A v \in Workers : at[v] \notin Beyond) /\ Cardinality(Arrived) = count
  BY <1>1, <1>2 DEF Gate, Before
<1>4. w \notin Arrived /\ Arrived \subseteq Workers
  BY <1>1 DEF Arrived, Before
<1>5. /\ Cardinality(Arrived \cup {w}) = count + 1
      /\ count + 1 = BarrierSize => Arrived \cup {w} = Workers
  BY <1>3, <1>4, OneMore, Numbers DEF TypeOK
<1>6. at' \in [Workers -> PlacesOf(barrierImpl)]
  BY <1>1, <1>2 DEF TypeOK, PlacesOf, Wakes
<1>7. TypeOK'
  <2>1. phase' \in {0, 1} /\ count' \in Int
    BY <1>1, <1>3 DEF TypeOK
  <2>2. myPhase' \in [Workers -> {0, 1}]
    BY <1>1 DEF TypeOK
  <2>. QED
    BY <1>1, <1>6, <2>1, <2>2, TypeFrame DEF TypeOK
<1>8. \A v \in Workers \ {w} :
        /\ at[v] # "asleep" => at'[v] = at[v]
        /\ at[v] = "asleep" => at'[v] \in {"asleep", "look"}
  BY <1>1 DEF Wakes, TypeOK
<1>9. at'[w] \in {"through", "asleep"}
  BY <1>1 DEF Wakes, TypeOK
<1>10. Creation'
  BY <1>1, <1>6, <1>8, <1>9, Frame
<1>11. Published'
  BY <1>1, <1>8, <1>9, Fixed DEF Published, constructor
<1>12. AtWork' = AtWork /\ Arrived' = Arrived \cup {w}
  BY <1>1, <1>8, <1>9, Fixed DEF AtWork, Arrived, Before
<1>13. \A v \in Workers : myPhase'[v] = 0
  BY <1>1, <1>3 DEF Gate, TypeOK
<1>14. Gate' /\ Opener'
  <2>1. CASE count + 1 = BarrierSize
    <3>1. \A v \in Workers : at'[v] \notin Before
      BY <1>5, <1>12, <2>1, Fixed DEF Arrived
    <3>2. \A v \in Workers : at'[v] # "asleep"
      BY <1>1, <2>1 DEF Wakes
    <3>3. \A v \in Workers : at'[v] \notin Opens
      BY <1>2, <1>6 DEF PlacesOf, Opens
    <3>. QED
      BY <1>1, <1>13, <3>1, <3>2, <3>3, Fixed DEF Gate, Opener, Opens
  <2>2. CASE count + 1 # BarrierSize
    <3>1. phase' = 0 /\ count' = count + 1 /\ at'[w] = "asleep"
          /\ \A v \in Workers \ {w} : at'[v] = at[v]
      BY <1>1, <1>3, <2>2 DEF TypeOK
    <3>2. \A v \in Workers : at'[v] \notin Beyond
      BY <1>3, <3>1 DEF Beyond
    <3>. QED
      BY <1>1, <1>2, <1>5, <1>12, <1>13, <3>1, <3>2, Fixed DEF Gate, Opener, Opens, Beyond
  <2>. QED
    BY <2>1, <2>2
<1>15. Counted'
  BY <1>1, <1>12, Fixed DEF Counted, constructor
<1>. QED
  BY <1>7, <1>10, <1>11, <1>14, <1>15

\* A thread that has arrived keeps the sets that are counted.
LEMMA InsideFrame ==
  ASSUME IInv, NEW w \in Workers, at[w] \notin Before,
         UNCHANGED <<barrierImpl, thds, constructor, table, myPhase>>,
         at' \in [Workers -> PlacesOf(barrierImpl)], at'[w] \notin Before,
         \A v \in Workers \ {w} : at'[v] \notin Before <=> at[v] \notin Before,
         \A v \in Workers \ {w} : at[v] \in Before => at'[v] = at[v],
         phase' \in {0, 1}, count' \in Int, startCount' \in Int
  PROVE  TypeOK' /\ Creation' /\ Published' /\ Arrived' = Arrived
<1> USE DEF IInv
<1>1. TypeOK'
  BY TypeFrame DEF TypeOK
<1>2. \A v \in Workers : at'[v] = "none" <=> at[v] = "none"
  BY DEF Before
<1>3. Creation'
  BY <1>2, Frame
<1>4. \A v \in Workers : at'[v] \notin {"none", "set"} => at[v] \notin {"none", "set"}
  BY DEF Before
<1>5. Published'
  BY <1>4, Fixed DEF Published, constructor
<1>6. Arrived' = Arrived
  BY Fixed DEF Arrived
<1>. QED
  BY <1>1, <1>3, <1>5, <1>6

\* The thread that opens the barrier.
LEMMA ResetCountStep ==
  ASSUME IInv, NEW w \in Workers, ResetCount(w)
  PROVE  IInv'
<1> USE DEF IInv
<1>1. /\ UNCHANGED <<barrierImpl, thds, constructor, table, phase, myPhase, startCount>>
      /\ at[w] = "reset" /\ at' = [at EXCEPT ![w] = "toggle"]
      /\ count' = BarrierSize
  BY DEF ResetCount, Go
<1>2. at' \in [Workers -> PlacesOf(barrierImpl)] /\ count' \in Int
  <2>1. count' \in Int
    BY <1>1, Numbers
  <2>. QED
    BY <1>1, <2>1 DEF TypeOK, PlacesOf
<1>3. TypeOK' /\ Creation' /\ Published'
  BY <1>1, <1>2, InsideFrame DEF TypeOK, Before
<1>4. \A v \in Workers : at[v] \notin Before
  BY <1>1 DEF Gate, Beyond
<1>5. Gate'
  BY <1>1, <1>4, Fixed DEF Gate, Before, TypeOK
<1>6. Opener'
  BY <1>1, Fixed DEF Opener, Opens, TypeOK
<1>7. AtWork' = AtWork
  BY <1>1, Fixed DEF AtWork, TypeOK
<1>8. Counted'
  BY <1>1, <1>7, Fixed DEF Counted, constructor
<1>. QED
  BY <1>3, <1>5, <1>6, <1>8

LEMMA ToggleStep ==
  ASSUME IInv, NEW w \in Workers, Toggle(w)
  PROVE  IInv'
<1> USE DEF IInv
<1>1. /\ UNCHANGED <<barrierImpl, thds, constructor, table, count, myPhase, startCount>>
      /\ at[w] = "toggle" /\ at' = [at EXCEPT ![w] = "wake"]
      /\ phase' = 1 - phase
  BY DEF Toggle, Go
<1>2. phase = 0 /\ phase' = 1
  BY <1>1 DEF Opener
<1>3. at' \in [Workers -> PlacesOf(barrierImpl)]
  BY <1>1 DEF TypeOK, PlacesOf
<1>4. TypeOK' /\ Creation' /\ Published'
  BY <1>1, <1>2, <1>3, InsideFrame DEF TypeOK, Before
<1>5. \A v \in Workers : at[v] \notin Before
  BY <1>1 DEF Gate, Beyond
<1>6. Gate'
  BY <1>1, <1>5, Fixed DEF Gate, Before, TypeOK
<1>7. Opener'
  BY <1>1, Fixed DEF Opener, Opens, TypeOK
<1>8. AtWork' = AtWork
  BY <1>1, Fixed DEF AtWork, TypeOK
<1>9. Counted'
  BY <1>1, <1>8, Fixed DEF Counted, constructor
<1>. QED
  BY <1>4, <1>6, <1>7, <1>9

LEMMA WakeAllStep ==
  ASSUME IInv, NEW w \in Workers, PhaseWake(w)
  PROVE  IInv'
<1> USE DEF IInv
<1>1. /\ UNCHANGED <<barrierImpl, thds, constructor, table, phase, count, myPhase, startCount>>
      /\ at[w] = "wake"
      /\ at' = [v \in Workers |-> IF v = w THEN "through"
                                  ELSE IF at[v] = "asleep" THEN "look" ELSE at[v]]
  BY DEF PhaseWake, Wakes, barrier
<1>2. at' \in [Workers -> PlacesOf(barrierImpl)]
  BY <1>1 DEF TypeOK, PlacesOf
<1>3. \A v \in Workers \ {w} :
        /\ at'[v] \notin Before <=> at[v] \notin Before
        /\ at[v] \in Before => at'[v] = at[v]
  BY <1>1 DEF Before
<1>4. TypeOK' /\ Creation' /\ Published'
  BY <1>1, <1>2, <1>3, InsideFrame DEF TypeOK, Before
<1>5. \A v \in Workers : at'[v] \notin Before
  <2>1. \A v \in Workers : at[v] \notin Before
    BY <1>1 DEF Gate, Beyond
  <2>2. at'[w] \notin Before
    BY <1>1 DEF Before
  <2>. QED
    BY <1>3, <2>1, <2>2
<1>6. Gate'
  BY <1>1, <1>5, Fixed DEF Gate
<1>7. Opener'
  BY <1>1, Fixed DEF Opener, Opens
<1>8. AtWork' = AtWork
  BY <1>1, Fixed DEF AtWork
<1>9. Counted'
  BY <1>1, <1>8, Fixed DEF Counted, constructor
<1>. QED
  BY <1>4, <1>6, <1>7, <1>9

\* The threads that wait for it.
LEMMA WaitingStep ==
  ASSUME IInv, NEW w \in Workers, Look(w) \/ PhaseWait(w) \/ PhaseInterrupted(w)
  PROVE  IInv'
<1> USE DEF IInv
<1>1. UNCHANGED <<barrierImpl, thds, constructor, table, phase, count, myPhase, startCount>>
  BY DEF Look, PhaseWait, PhaseInterrupted, barrier
<1>2. PICK to \in {"look", "wait", "asleep", "through"} :
        /\ at[w] \in {"look", "wait", "asleep"} /\ at' = [at EXCEPT ![w] = to]
        /\ to = "through" => phase = 1
        /\ to = "asleep" => phase = 0
        /\ to = "wait" => barrierImpl = "futex"
  <2>1. phase # myPhase[w] <=> phase = 1
    BY DEF Gate, TypeOK
  <2>. QED
    BY <2>1 DEF Look, PhaseWait, PhaseInterrupted, Go, TypeOK
<1>3. at' \in [Workers -> PlacesOf(barrierImpl)]
  BY <1>1, <1>2 DEF TypeOK, PlacesOf
<1>4. TypeOK' /\ Creation' /\ Published' /\ Arrived' = Arrived
  BY <1>1, <1>2, <1>3, InsideFrame DEF TypeOK, Before
<1>5. Gate'
  BY <1>1, <1>2, <1>4, Fixed DEF Gate, Before, Beyond, TypeOK
<1>6. Opener'
  <2>1. at'[w] = to /\ \A v \in Workers \ {w} : at'[v] = at[v]
    BY <1>2 DEF TypeOK
  <2>2. \A v \in Workers : at'[v] \in Opens <=> at[v] \in Opens
    BY <1>2, <2>1 DEF Opens
  <2>3. \A v \in Workers : at'[v] \in Opens => at'[v] = at[v]
    BY <1>2, <2>1 DEF Opens
  <2>4. \A v \in Workers : at'[v] = "asleep" /\ phase = 1 => at[v] = "asleep"
    BY <1>2, <2>1
  <2>. QED
    BY <1>1, <2>2, <2>3, <2>4, Fixed DEF Opener, Opens
<1>7. AtWork' = AtWork
  BY <1>1, <1>2, Fixed DEF AtWork, TypeOK
<1>8. Counted'
  BY <1>1, <1>7, Fixed DEF Counted, constructor
<1>. QED
  BY <1>4, <1>5, <1>6, <1>8

LEMMA StartedStep ==
  ASSUME IInv, NEW w \in Workers, Started(w)
  PROVE  IInv'
<1> USE DEF IInv
<1>1. /\ UNCHANGED <<barrierImpl, thds, constructor, table, phase, count, myPhase>>
      /\ at[w] = "through" /\ at' = [at EXCEPT ![w] = "working"]
      /\ startCount' = startCount + 1
  BY DEF Started, Go, barrier
<1>2. at' \in [Workers -> PlacesOf(barrierImpl)] /\ startCount' \in Int
  BY <1>1 DEF TypeOK, PlacesOf
<1>3. TypeOK' /\ Creation' /\ Published' /\ Arrived' = Arrived
  BY <1>1, <1>2, InsideFrame DEF TypeOK, Before
<1>4. Gate'
  BY <1>1, <1>3, Fixed DEF Gate, Before, Beyond, TypeOK
<1>5. Opener'
  BY <1>1, Fixed DEF Opener, Opens, TypeOK
<1>6. AtWork' = AtWork \cup {w} /\ w \notin AtWork /\ AtWork \subseteq Workers
  BY <1>1, Fixed DEF AtWork, TypeOK
<1>7. startCount' = Cardinality(AtWork')
  BY <1>1, <1>6, OneMore DEF Counted
<1>8. main # "ready"
  <2>1. AtWork \cup {w} \in SUBSET Workers
    BY <1>6
  <2>2. Cardinality(AtWork \cup {w}) <= NumThreads
    BY <2>1, Numbers, FS_Subset
  <2>. QED
    BY <1>1, <1>6, <1>7, <2>2, Numbers DEF Counted, TypeOK
<1>9. Counted'
  BY <1>1, <1>7, <1>8, Fixed DEF Counted, constructor
<1>. QED
  BY <1>3, <1>4, <1>5, <1>9

-----------------------------------------------------------------------------
(***************************************************************************)
(* The theorems.                                                           *)
(***************************************************************************)
LEMMA IInvStep == IInv /\ [StartUpNext]_startUpVars => IInv'
<1> SUFFICES ASSUME IInv, [StartUpNext]_startUpVars PROVE IInv'
  OBVIOUS
<1>1. CASE CreateThread
  BY <1>1, CreateStep
<1>2. CASE NextQueue
  BY <1>2, NextQueueStep
<1>3. CASE Return
  BY <1>3, ReturnStep
<1>4. ASSUME NEW w \in Workers, TlsSet(w)
      PROVE  IInv'
  BY <1>4, TlsSetStep
<1>5. ASSUME NEW w \in Workers, ReadPhase(w)
      PROVE  IInv'
  BY <1>5, ReadPhaseStep
<1>6. ASSUME NEW w \in Workers, Arrive(w)
      PROVE  IInv'
  BY <1>6, ArriveStep
<1>7. ASSUME NEW w \in Workers, ResetCount(w)
      PROVE  IInv'
  BY <1>7, ResetCountStep
<1>8. ASSUME NEW w \in Workers, Toggle(w)
      PROVE  IInv'
  BY <1>8, ToggleStep
<1>9. ASSUME NEW w \in Workers, PhaseWake(w)
      PROVE  IInv'
  BY <1>9, WakeAllStep
<1>10. ASSUME NEW w \in Workers, Look(w) \/ PhaseWait(w) \/ PhaseInterrupted(w)
       PROVE  IInv'
  BY <1>10, WaitingStep
<1>11. ASSUME NEW w \in Workers, Enter(w)
       PROVE  IInv'
  BY <1>11, EnterStep
<1>12. ASSUME NEW w \in Workers, Started(w)
       PROVE  IInv'
  BY <1>12, StartedStep
<1>13. ASSUME UNCHANGED startUpVars
       PROVE  IInv'
  <2>1. UNCHANGED <<barrierImpl, thds, constructor, table, phase, count, myPhase, at, startCount>>
    BY <1>13 DEF startUpVars, barrier
  <2>2. TypeOK' /\ Creation'
    BY <2>1, TypeFrame, Frame DEF IInv, TypeOK
  <2>3. Arrived' = Arrived /\ AtWork' = AtWork
    BY <2>1, Fixed DEF Arrived, AtWork
  <2>4. Published' /\ Gate' /\ Opener' /\ Counted'
    BY <2>1, <2>3, Fixed DEF IInv, Published, Gate, Opener, Counted, constructor
  <2>. QED
    BY <2>2, <2>4 DEF IInv
<1>. QED
  BY <1>1, <1>2, <1>3, <1>4, <1>5, <1>6, <1>7, <1>8, <1>9, <1>10, <1>11, <1>12, <1>13
     DEF StartUpNext, Construct, StartUpStep

LEMMA Invariance == StartUpSpec => []IInv
BY IInvInit, IInvStep, PTL DEF StartUpSpec

\* No thread is through the start-up barrier before all have been created and
\* have published their attributes, so get_task() never asks for one that is
\* missing (taskmgr.hpp:626-634, barrier.hpp:40-57,81-96).
THEOREM NobodyStartsEarly == StartUpSpec => []StartTogether
<1>1. IInv => StartTogether
  <2> SUFFICES ASSUME IInv, NEW w \in Workers, at[w] \in {"through", "working"}, NEW v \in Workers
               PROVE  table[v] = data[v] /\ table[v] # Unset
    BY DEF StartTogether
  <2>1. at[v] \notin Before
    BY DEF IInv, Gate, Beyond
  <2>2. table[v] = data[v] /\ data[v].id = v
    BY <2>1 DEF IInv, Published, Creation, Before
  <2>3. v \in Nat
    BY Numbers DEF IInv
  <2>. QED
    BY <2>2, <2>3 DEF Unset
<1>. QED
  BY <1>1, Invariance, PTL

\* When the constructor returns all threads are about to look for tasks, and
\* every queue has the threads asked for (taskmgr.hpp:466-489,643-644).
THEOREM ConstructorIsRight == StartUpSpec => []ReadyMeansWorking
<1>1. IInv => ReadyMeansWorking
  <2> SUFFICES ASSUME IInv, main = "ready"
               PROVE  /\ \A w \in Workers : at[w] = "working"
                      /\ \A q \in 0 .. NumQueues - 1 : Cardinality(On(q)) = thds[q + 1]
    BY DEF ReadyMeansWorking, On
  <2>1. Cardinality(AtWork) = Cardinality(Workers) /\ AtWork \in SUBSET Workers
    BY Numbers DEF IInv, Counted, AtWork
  <2>2. AtWork = Workers
    BY <2>1, Numbers, FS_Subset DEF IInv
  <2>3. loop.i = NumQueues
    BY DEF IInv, Creation
  <2>. QED
    BY <2>2, <2>3, Numbers DEF IInv, Creation, AtWork
<1>. QED
  BY <1>1, Invariance, PTL

\* A thread that sleeps in the barrier although the phase has changed is still
\* going to be woken (barrier.hpp:45-56,81-96).
THEOREM NobodySleepsOn == StartUpSpec => []NoSleeperForgotten
<1>1. IInv => NoSleeperForgotten
  BY DEF IInv, NoSleeperForgotten, Opener, Gate, TypeOK
<1>. QED
  BY <1>1, Invariance, PTL
=============================================================================
