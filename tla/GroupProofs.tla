---------------------------- MODULE GroupProofs ----------------------------
(***************************************************************************)
(* Proofs about Group for any number of workers, tasks and groups, and     *)
(* every policy and type of barrier.  Two counts carry the argument: the   *)
(* token of a group is the number of its active tasks, and the count of    *)
(* its barrier the number of those that wait in the present phase.  The    *)
(* phase ends when all but one wait, so that nobody is left behind in the  *)
(* one before, and all have passed the same number of barriers.            *)
(***************************************************************************)
EXTENDS Group, FiniteSetTheorems, SequenceTheorems, TLAPS

\* A group is as large as the program says.
GroupsAreWhole == \A g \in Groups : Size[g] > 0 => Cardinality(Members(g)) = Size[g]

Actives(g) == {t \in Members(g) : Active(t)}

Waits(t) == pc[t] = "barrier" /\ my_phase[t] = barrier_phase[GroupOf[t]]
Waiters(g) == {t \in Members(g) : Waits(t)}

\* The barriers of its round a task has entered that have been opened since.
Opened(t) == IF Waits(t) THEN arrived[t] - 1 ELSE arrived[t]

Typed ==
  /\ queue \in Seq(Tasks)
  /\ rank_token \in [Groups -> Int] /\ rank \in [Tasks -> Int]
  /\ barrier_count \in [Groups -> Nat] /\ barrier_phase \in [Groups -> BOOLEAN]
  /\ my_phase \in [Tasks -> BOOLEAN]
  /\ pc \in [Tasks -> {"free", "ready", "body", "barrier", "done"}]
  /\ arrived \in [Tasks -> Nat] /\ crossed \in [Tasks -> Nat] /\ round \in [Tasks -> Nat]

\* A task in the queue is ready, and it is there once.
Queued ==
  /\ \A i \in DOMAIN queue : pc[queue[i]] = "ready"
  /\ \A i, j \in DOMAIN queue : queue[i] = queue[j] => i = j

\* The tasks of a group are in one round, or in two while it is spawned.
Rounds ==
  \A s, t \in Tasks : GroupOf[s] = GroupOf[t] /\ round[s] < round[t] =>
    pc[s] = "free" /\ pc[t] # "free" /\ round[t] = round[s] + 1

\* While a group is spawned its ranks are below the token, which is the next.
Tokens ==
  /\ \A g \in Groups : Size[g] > 0 => rank_token[g] = Cardinality(Actives(g))
  /\ \A s, t \in Tasks : GroupOf[s] = GroupOf[t] /\ Grouped(t) /\ round[s] < round[t] =>
       rank[t] < rank_token[GroupOf[t]]

Ranks == Rounds /\ Tokens /\ RanksAreUnique

Count == \A g \in Groups : barrier_count[g] = Cardinality(Waiters(g))

\* A task in the barrier has entered one more than it has left.
Crossing ==
  \A t \in Tasks :
    /\ arrived[t] = crossed[t] + (IF pc[t] = "barrier" THEN 1 ELSE 0)
    /\ pc[t] = "barrier" => Size[GroupOf[t]] > 1

\* All tasks of a round have passed the same number of open barriers, and
\* none while the group is still being spawned.
Opening ==
  \A s, t \in Tasks : GroupOf[s] = GroupOf[t] /\ Size[GroupOf[t]] > 1 =>
    /\ round[s] = round[t] => Opened(s) = Opened(t)
    /\ round[s] < round[t] => Opened(t) = 0

Barriers == Count /\ Crossing /\ Opening

IInv == Typed /\ Queued /\ Ranks /\ Barriers

-----------------------------------------------------------------------------
\* Sets of tasks are finite.
LEMMA MembersAreFinite ==
  ASSUME NEW g
  PROVE  /\ IsFiniteSet(Members(g)) /\ Cardinality(Members(g)) \in Nat
         /\ IsFiniteSet(Actives(g)) /\ Cardinality(Actives(g)) \in Nat
         /\ IsFiniteSet(Waiters(g)) /\ Cardinality(Waiters(g)) \in Nat
<1>1. Members(g) \subseteq Tasks /\ Actives(g) \subseteq Tasks /\ Waiters(g) \subseteq Tasks
  BY DEF Members, Actives, Waiters
<1>. QED
  BY <1>1, ActorsAssumption, FS_Subset, FS_CardinalityType DEF ActorsAssumption

\* The group of a task and its size.
LEMMA GroupFacts ==
  ASSUME NEW t \in Tasks
  PROVE  GroupOf[t] \in Groups /\ Size[GroupOf[t]] \in Nat
BY GroupsAssumption DEF GroupsAssumption

\* Where the element at a position was before the one at i was taken out.
Old(i, j) == IF j < i THEN j ELSE j + 1

LEMMA RemoveShape ==
  ASSUME NEW S, NEW s \in Seq(S), NEW i \in DOMAIN s
  PROVE  /\ RemoveAt(s, i) \in Seq(S) /\ DOMAIN RemoveAt(s, i) = 1 .. Len(s) - 1
         /\ \A j \in 1 .. Len(s) - 1 : RemoveAt(s, i)[j] = s[Old(i, j)] /\ Old(i, j) \in DOMAIN s \ {i}
<1> DEFINE n == Len(s)
           a == SubSeq(s, 1, i - 1)
           b == SubSeq(s, i + 1, n)
<1>1. n \in Nat /\ DOMAIN s = 1 .. n /\ i \in 1 .. n /\ \A j \in 1 .. n : s[j] \in S
  BY LenProperties
<1>2. a \in Seq(S) /\ Len(a) = i - 1 /\ \A j \in 1 .. i - 1 : a[j] = s[j]
  <2>1. \A j \in 1 .. i - 1 : s[j] \in S
    BY <1>1
  <2>. QED
    BY <1>1, <2>1, SubSeqProperties
<1>3. b \in Seq(S) /\ Len(b) = n - i /\ \A j \in 1 .. n - i : b[j] = s[i + j]
  <2>1. \A j \in i + 1 .. n : s[j] \in S
    BY <1>1
  <2>. QED
    BY <1>1, <2>1, SubSeqProperties
<1>4. RemoveAt(s, i) = a \o b
  BY DEF RemoveAt
<1> HIDE DEF n, a, b
<1>5. /\ a \o b \in Seq(S)
      /\ Len(a \o b) = n - 1
      /\ \A j \in 1 .. n - 1 : (a \o b)[j] = IF j <= i - 1 THEN a[j] ELSE b[j - (i - 1)]
  <2>1. /\ a \o b \in Seq(S)
        /\ Len(a \o b) = Len(a) + Len(b)
        /\ \A j \in 1 .. Len(a) + Len(b) :
             (a \o b)[j] = IF j <= Len(a) THEN a[j] ELSE b[j - Len(a)]
    BY <1>2, <1>3, ConcatProperties
  <2>2. Len(a) + Len(b) = n - 1
    BY <1>1, <1>2, <1>3
  <2>. QED
    BY <1>2, <2>1, <2>2
<1>6. DOMAIN (a \o b) = 1 .. n - 1
  BY <1>5, LenProperties
<1>7. ASSUME NEW j \in 1 .. n - 1
      PROVE  (a \o b)[j] = s[Old(i, j)] /\ Old(i, j) \in (1 .. n) \ {i}
  <2>1. CASE j < i
    BY <1>1, <1>2, <1>5, <2>1 DEF Old
  <2>2. CASE ~(j < i)
    <3>1. j - (i - 1) \in 1 .. n - i /\ i + (j - (i - 1)) = j + 1 /\ ~(j <= i - 1)
      BY <1>1, <2>2
    <3>2. (a \o b)[j] = b[j - (i - 1)]
      BY <1>5, <3>1
    <3>3. b[j - (i - 1)] = s[j + 1]
      BY <1>3, <3>1
    <3>. QED
      BY <1>1, <2>2, <3>2, <3>3 DEF Old
  <2>. QED
    BY <2>1, <2>2
<1>. QED
  BY <1>1, <1>4, <1>5, <1>6, <1>7 DEF n

\* get() takes a task out of the queue and adds none.
LEMMA RemoveFacts ==
  ASSUME NEW S, NEW s \in Seq(S), NEW i \in DOMAIN s,
         \A j, k \in DOMAIN s : s[j] = s[k] => j = k
  PROVE  /\ RemoveAt(s, i) \in Seq(S)
         /\ \A j \in DOMAIN RemoveAt(s, i) : \E k \in DOMAIN s \ {i} : RemoveAt(s, i)[j] = s[k]
         /\ \A j, k \in DOMAIN RemoveAt(s, i) : RemoveAt(s, i)[j] = RemoveAt(s, i)[k] => j = k
<1> DEFINE r == RemoveAt(s, i)
<1>1. /\ r \in Seq(S) /\ DOMAIN r = 1 .. Len(s) - 1
      /\ \A j \in DOMAIN r : r[j] = s[Old(i, j)] /\ Old(i, j) \in DOMAIN s \ {i}
  BY RemoveShape
<1>2. \A j, k \in DOMAIN r : Old(i, j) = Old(i, k) => j = k
  <2>1. Len(s) \in Nat /\ i \in 1 .. Len(s)
    BY LenProperties
  <2>. QED
    BY <1>1, <2>1 DEF Old
<1> HIDE DEF r
<1>. QED
  BY <1>1, <1>2 DEF r

\* put() adds a task at one end.
LEMMA PutFacts ==
  ASSUME NEW S, NEW s \in Seq(S), NEW t \in S,
         \A j, k \in DOMAIN s : s[j] = s[k] => j = k,
         \A j \in DOMAIN s : s[j] # t
  PROVE  /\ Put(s, t) \in Seq(S)
         /\ \A j \in DOMAIN Put(s, t) : Put(s, t)[j] = t \/ \E k \in DOMAIN s : Put(s, t)[j] = s[k]
         /\ \A j, k \in DOMAIN Put(s, t) : Put(s, t)[j] = Put(s, t)[k] => j = k
<1> DEFINE n == Len(s)
<1>1. n \in Nat /\ DOMAIN s = 1 .. n /\ \A j \in 1 .. n : s[j] \in S
  BY LenProperties
<1>2. CASE Put(s, t) = <<t>> \o s
  <2>1. <<t>> \in Seq(S) /\ Len(<<t>>) = 1 /\ <<t>>[1] = t
    OBVIOUS
  <2>2. /\ <<t>> \o s \in Seq(S)
        /\ Len(<<t>> \o s) = 1 + n
        /\ \A j \in 1 .. 1 + n : (<<t>> \o s)[j] = IF j <= 1 THEN <<t>>[j] ELSE s[j - 1]
    BY <2>1, ConcatProperties
  <2>3. DOMAIN (<<t>> \o s) = 1 .. n + 1
    BY <1>1, <2>2, LenProperties
  <2> DEFINE r == <<t>> \o s
  <2>4. r[1] = t /\ \A j \in 2 .. n + 1 : r[j] = s[j - 1] /\ j - 1 \in DOMAIN s
    BY <1>1, <2>1, <2>2
  <2> HIDE DEF r, n
  <2>5. \A j, k \in 1 .. n + 1 : r[j] = r[k] => j = k
    <3>1. \A j \in 1 .. n + 1 : j = 1 \/ j \in 2 .. n + 1
      BY <1>1
    <3>2. \A j \in 2 .. n + 1 : r[j] # t
      BY <2>4
    <3>3. ASSUME NEW j \in 2 .. n + 1, NEW k \in 2 .. n + 1, r[j] = r[k] PROVE j = k
      <4>1. j - 1 = k - 1
        BY <2>4, <3>3
      <4>. QED
        BY <1>1, <4>1
    <3>. QED
      BY <2>4, <3>1, <3>2, <3>3
  <2>6. \A j \in 1 .. n + 1 : r[j] = t \/ \E k \in DOMAIN s : r[j] = s[k]
    <3>1. \A j \in 1 .. n + 1 : j = 1 \/ j \in 2 .. n + 1
      BY <1>1
    <3>. QED
      BY <2>4, <3>1
  <2>. QED
    BY <1>2, <2>2, <2>3, <2>5, <2>6 DEF r
<1>3. CASE Put(s, t) = Append(s, t)
  <2>1. /\ Append(s, t) \in Seq(S) /\ Len(Append(s, t)) = n + 1
        /\ \A j \in 1 .. n : Append(s, t)[j] = s[j]
        /\ Append(s, t)[n + 1] = t
    BY <1>1, AppendProperties
  <2>2. DOMAIN Append(s, t) = 1 .. n + 1
    BY <2>1, LenProperties
  <2>3. \A j \in 1 .. n + 1 : j \in 1 .. n \/ j = n + 1
    BY <1>1
  <2> DEFINE r == Append(s, t)
  <2> HIDE DEF r, n
  <2>4. \A j, k \in 1 .. n + 1 : r[j] = r[k] => j = k
    BY <1>1, <2>1, <2>3 DEF r
  <2>. QED
    BY <1>1, <1>3, <2>1, <2>2, <2>3, <2>4 DEF r
<1>. QED
  BY <1>2, <1>3, Zenon DEF Put

-----------------------------------------------------------------------------
\* No task has been spawned in an initial state.
LEMMA InitIInv == Init => IInv
<1> SUFFICES ASSUME Init PROVE IInv
  OBVIOUS
<1>1. \A t \in Tasks : /\ pc[t] = "free" /\ round[t] = 0 /\ arrived[t] = 0 /\ crossed[t] = 0
  BY DEF Init
<1>2. Typed
  <2>1. queue = <<>> /\ <<>> \in Seq(Tasks)
    BY DEF Init
  <2>. QED
    BY <2>1 DEF Init, Typed
<1>3. Queued
  BY DEF Init, Queued
<1>4. \A g \in Groups : Actives(g) = {} /\ Waiters(g) = {}
  BY <1>1 DEF Actives, Waiters, Members, Active, Waits
<1>5. \A g \in Groups : Cardinality(Actives(g)) = 0 /\ Cardinality(Waiters(g)) = 0
  BY <1>4, FS_EmptySet
<1>6. Ranks
  <2>1. Rounds /\ RanksAreUnique
    BY <1>1 DEF Rounds, RanksAreUnique, Active
  <2>2. Tokens
    BY <1>1, <1>5 DEF Init, Tokens
  <2>. QED
    BY <2>1, <2>2 DEF Ranks
<1>7. Barriers
  <2>1. Count
    BY <1>5 DEF Init, Count
  <2>2. Crossing /\ Opening
    BY <1>1 DEF Crossing, Opening, Opened, Waits
  <2>. QED
    BY <2>1, <2>2 DEF Barriers
<1>. QED
  BY <1>2, <1>3, <1>6, <1>7 DEF IInv

\* A step that spawns nothing and waits for nothing leaves the ranks alone.
LEMMA QuietRanks ==
  ASSUME Ranks, UNCHANGED <<rank_token, rank, round>>,
         \A t \in Tasks : pc'[t] = "free" <=> pc[t] = "free"
  PROVE  Ranks'
<1>1. \A t \in Tasks : Active(t)' = Active(t)
  BY DEF Active
<1>2. \A g \in Groups : Actives(g)' = Actives(g)
  BY <1>1 DEF Actives, Members
<1>3. Rounds'
  BY DEF Ranks, Rounds
<1>4. Tokens'
  BY <1>2 DEF Ranks, Tokens, Grouped
<1>5. RanksAreUnique'
  BY <1>1 DEF Ranks, RanksAreUnique, Grouped
<1>. QED
  BY <1>3, <1>4, <1>5 DEF Ranks

\* A step outside the barriers leaves them alone.
LEMMA QuietBarriers ==
  ASSUME Barriers, UNCHANGED <<barriers, round>>,
         \A t \in Tasks : pc'[t] = "barrier" <=> pc[t] = "barrier"
  PROVE  Barriers'
<1>1. UNCHANGED <<barrier_count, barrier_phase, my_phase, arrived, crossed, round>>
  BY DEF barriers
<1>2. \A t \in Tasks : Waits(t)' = Waits(t)
  BY <1>1 DEF Waits
<1>3. \A g \in Groups : Waiters(g)' = Waiters(g)
  BY <1>2 DEF Waiters, Members
<1>4. \A t \in Tasks : Opened(t)' = Opened(t)
  BY <1>1, <1>2 DEF Opened
<1>5. Count'
  BY <1>1, <1>3 DEF Barriers, Count
<1>6. Crossing'
  BY <1>1 DEF Barriers, Crossing
<1>7. Opening'
  BY <1>1, <1>4 DEF Barriers, Opening
<1>. QED
  BY <1>5, <1>6, <1>7 DEF Barriers

\* The queue, when nothing is put or taken.
LEMMA QuietQueue ==
  ASSUME Typed, Queued, queue' = queue,
         \A t \in Tasks : pc[t] = "ready" => pc'[t] = "ready"
  PROVE  Queued'
<1>1. \A i \in DOMAIN queue : queue[i] \in Tasks
  BY LenProperties, ElementOfSeq DEF Typed
<1>. QED
  BY <1>1 DEF Queued

-----------------------------------------------------------------------------
\* spawn_task(): the rank is the number of those spawned before.
LEMMA SpawnKeepsRanks ==
  ASSUME GroupsAreWhole, Typed, Ranks, NEW t \in Tasks, Spawn(t)
  PROVE  Ranks'
<1> DEFINE g == GroupOf[t]
<1> USE DEF Ranks
<1>1. /\ pc[t] = "free" /\ \A u \in Tasks : pc'[u] = IF u = t THEN "ready" ELSE pc[u]
      /\ \A u \in Tasks : round'[u] = IF u = t THEN round[t] + 1 ELSE round[u]
      /\ \A u \in Tasks : round[u] \in Nat /\ rank[u] \in Int
      /\ \A h \in Groups : rank_token[h] \in Int
  BY DEF Spawn, Typed
<1>2. \A s \in Tasks : GroupOf[s] = g => round[s] > round[t] \/ pc[s] = "free"
  BY DEF Spawn, MaySpawn, Members
<1>3. \A s \in Tasks : GroupOf[s] = g => ~(round[s] < round[t])
  BY <1>1 DEF Rounds
<1>4. \A s \in Tasks : GroupOf[s] = g /\ round[s] > round[t] => round[s] = round[t] + 1 /\ pc[s] # "free"
  BY <1>1 DEF Rounds
<1>5. g \in Groups /\ Size[g] \in Nat
  BY GroupFacts
<1>6. Rounds'
  <2> SUFFICES ASSUME NEW s \in Tasks, NEW u \in Tasks, GroupOf[s] = GroupOf[u], round'[s] < round'[u]
               PROVE  pc'[s] = "free" /\ pc'[u] # "free" /\ round'[u] = round'[s] + 1
    BY DEF Rounds
  <2>1. CASE s # t /\ u # t
    BY <1>1, <2>1 DEF Rounds
  <2>2. CASE u = t
    BY <1>1, <1>2, <1>3, <1>4, <2>2
  <2>3. CASE s = t /\ u # t
    <3>1. round[u] > round[t] + 1
      BY <1>1, <2>3
    <3>. QED
      BY <1>1, <1>4, <2>3, <3>1
  <2>. QED
    BY <2>1, <2>2, <2>3
<1>7. /\ Actives(g)' = Actives(g) \cup {t} /\ t \notin Actives(g) /\ t \in Members(g)
      /\ \A h \in Groups : h # g => Actives(h)' = Actives(h)
  BY <1>1 DEF Actives, Members, Active
<1>8. Cardinality(Actives(g)') = Cardinality(Actives(g)) + 1
  BY <1>7, MembersAreFinite, FS_AddElement
<1>9. CASE ~Grouped(t)
  <2>1. UNCHANGED <<rank_token, rank>> /\ Size[g] = 0
    BY <1>5, <1>9 DEF Spawn, Grouped
  <2>2. Tokens'
    BY <1>1, <1>7, <2>1 DEF Tokens, Grouped
  <2>3. RanksAreUnique'
    BY <1>1, <2>1 DEF RanksAreUnique, Grouped, Active
  <2>. QED
    BY <1>6, <2>2, <2>3
<1>10. CASE Grouped(t)
  <2>1. /\ \A h \in Groups : rank_token'[h] = IF h = g THEN rank_token[g] + 1 ELSE rank_token[h]
        /\ \A u \in Tasks : rank'[u] = IF u = t THEN rank_token[g] ELSE rank[u]
    BY <1>5, <1>10 DEF Spawn, JoinGroup, Typed
  <2>2. rank_token[g] = Cardinality(Actives(g)) /\ Size[g] > 0
    BY <1>5, <1>10 DEF Tokens, Grouped
  <2>3. rank_token[g] < Size[g]
    <3>1. Actives(g) \cup {t} \subseteq Members(g)
      BY <1>7 DEF Actives
    <3>2. Cardinality(Actives(g) \cup {t}) <= Cardinality(Members(g))
      BY <3>1, MembersAreFinite, FS_Subset
    <3>. QED
      BY <1>5, <1>7, <1>8, <2>2, <3>2, MembersAreFinite DEF GroupsAreWhole
  <2>4. \A s \in Tasks : GroupOf[s] = g /\ Active(s) => rank[s] < rank_token[g]
    BY <1>2, <1>10 DEF Active, Tokens, Grouped
  <2>5. Tokens'
    <3>1. \A h \in Groups : Size[h] > 0 => rank_token'[h] = Cardinality(Actives(h)')
      BY <1>5, <1>7, <1>8, <2>1, <2>2 DEF Tokens
    <3>2. ASSUME NEW s \in Tasks, NEW u \in Tasks, GroupOf[s] = GroupOf[u], Grouped(u), round'[s] < round'[u]
          PROVE  rank'[u] < rank_token'[GroupOf[u]]
      <4>1. GroupOf[u] \in Groups
        BY GroupFacts
      <4>2. CASE u = t
        BY <1>1, <1>5, <2>1, <4>2
      <4>3. CASE u # t /\ GroupOf[u] = g
        <5>1. Active(u)
          BY <1>1, <1>6, <3>2, <4>3 DEF Rounds, Active
        <5>. QED
          BY <1>1, <1>5, <2>1, <2>4, <4>3, <5>1
      <4>4. CASE GroupOf[u] # g
        BY <1>1, <2>1, <3>2, <4>1, <4>4 DEF Tokens
      <4>. QED
        BY <4>2, <4>3, <4>4
    <3>. QED
      BY <3>1, <3>2 DEF Tokens, Grouped
  <2>6. RanksAreUnique'
    <3> SUFFICES ASSUME NEW u \in Tasks, Grouped(u), Active(u)'
                 PROVE  /\ rank'[u] < Size[GroupOf[u]]
                        /\ \A s \in Tasks \ {u} : GroupOf[s] = GroupOf[u] /\ Active(s)' => rank'[s] # rank'[u]
      BY DEF RanksAreUnique, Grouped
    <3>1. \A s \in Tasks : Active(s)' <=> s = t \/ Active(s)
      BY <1>1 DEF Active
    <3>2. CASE u = t
      BY <1>1, <2>1, <2>3, <2>4, <3>1, <3>2
    <3>3. CASE u # t
      <4>1. Active(u) /\ rank'[u] = rank[u] /\ rank[u] < Size[GroupOf[u]]
        BY <2>1, <3>1, <3>3 DEF RanksAreUnique
      <4>2. ASSUME NEW s \in Tasks \ {u}, GroupOf[s] = GroupOf[u], Active(s)' PROVE rank'[s] # rank'[u]
        <5>1. CASE s = t
          BY <1>1, <2>1, <2>4, <4>1, <4>2, <5>1
        <5>2. CASE s # t
          BY <2>1, <3>1, <4>1, <4>2, <5>2 DEF RanksAreUnique
        <5>. QED
          BY <5>1, <5>2
      <4>. QED
        BY <4>1, <4>2
    <3>. QED
      BY <3>2, <3>3
  <2>. QED
    BY <1>6, <2>5, <2>6
<1>. QED
  BY <1>9, <1>10

\* A task that is spawned has passed no barrier of its round, nor has anybody
\* else of the group.
LEMMA SpawnKeepsBarriers ==
  ASSUME Typed, Rounds, Barriers, NEW t \in Tasks, Spawn(t)
  PROVE  Barriers'
<1> USE DEF Barriers
<1>1. /\ pc[t] = "free" /\ \A u \in Tasks : pc'[u] = IF u = t THEN "ready" ELSE pc[u]
      /\ \A u \in Tasks : /\ round'[u] = IF u = t THEN round[t] + 1 ELSE round[u]
                          /\ arrived'[u] = IF u = t THEN 0 ELSE arrived[u]
                          /\ crossed'[u] = IF u = t THEN 0 ELSE crossed[u]
      /\ \A u \in Tasks : round[u] \in Nat
      /\ UNCHANGED <<barrier_count, barrier_phase, my_phase>>
  BY DEF Spawn, Typed
<1>2. \A s \in Tasks : GroupOf[s] = GroupOf[t] => round[s] >= round[t]
  BY <1>1 DEF Rounds
<1>3. \A s \in Tasks : GroupOf[s] = GroupOf[t] /\ round[s] > round[t] => round[s] = round[t] + 1
  BY <1>1 DEF Rounds
<1>4. \A u \in Tasks : Waits(u)' = Waits(u) /\ ~Waits(t)
  BY <1>1 DEF Waits
<1>5. \A u \in Tasks : Opened(u)' = IF u = t THEN 0 ELSE Opened(u)
  BY <1>1, <1>4 DEF Opened
<1>6. \A g \in Groups : Waiters(g)' = Waiters(g)
  BY <1>4 DEF Waiters, Members
<1>7. Count'
  BY <1>1, <1>6 DEF Count
<1>8. Crossing'
  BY <1>1 DEF Crossing
<1>9. Opening'
  <2> SUFFICES ASSUME NEW s \in Tasks, NEW u \in Tasks, GroupOf[s] = GroupOf[u], Size[GroupOf[u]] > 1
               PROVE  /\ round'[s] = round'[u] => Opened(s)' = Opened(u)'
                      /\ round'[s] < round'[u] => Opened(u)' = 0
    BY DEF Opening
  <2>1. CASE s # t /\ u # t
    BY <1>1, <1>5, <2>1 DEF Opening
  <2>2. CASE u = t
    <3>1. CASE s = t
      BY <1>1, <1>5, <2>2, <3>1
    <3>2. CASE s # t
      <4>1. round[s] = round[t] + 1 => Opened(s) = 0
        BY <1>1, <2>2 DEF Opening
      <4>. QED
        BY <1>1, <1>5, <2>2, <3>2, <4>1
    <3>. QED
      BY <3>1, <3>2
  <2>3. CASE s = t /\ u # t
    <3>1. round[u] > round[t] => Opened(u) = 0
      BY <1>1, <2>3 DEF Opening
    <3>. QED
      BY <1>1, <1>5, <2>3, <3>1
  <2>. QED
    BY <2>1, <2>2, <2>3
<1>. QED
  BY <1>7, <1>8, <1>9

LEMMA SpawnKeeps ==
  ASSUME GroupsAreWhole, IInv, NEW t \in Tasks, Spawn(t)
  PROVE  IInv'
<1> USE DEF IInv
<1>1. pc[t] = "free" /\ queue' = Put(queue, t) /\ pc' = [pc EXCEPT ![t] = "ready"]
  BY DEF Spawn
<1>2. /\ \A j, k \in DOMAIN queue : queue[j] = queue[k] => j = k
      /\ \A j \in DOMAIN queue : queue[j] # t
  BY <1>1 DEF Queued
<1>3. /\ queue' \in Seq(Tasks)
      /\ \A j \in DOMAIN queue' : queue'[j] = t \/ \E k \in DOMAIN queue : queue'[j] = queue[k]
      /\ \A j, k \in DOMAIN queue' : queue'[j] = queue'[k] => j = k
  <2>1. queue \in Seq(Tasks)
    BY DEF Typed
  <2> DEFINE q == Put(queue, t)
  <2>2. /\ q \in Seq(Tasks)
        /\ \A j \in DOMAIN q : q[j] = t \/ \E k \in DOMAIN queue : q[j] = queue[k]
        /\ \A j, k \in DOMAIN q : q[j] = q[k] => j = k
    BY <1>2, <2>1, PutFacts
  <2>. QED
    BY <1>1, <2>2
<1>4. \A j \in DOMAIN queue : queue[j] \in Tasks
  BY LenProperties, ElementOfSeq DEF Typed
<1>5. Queued'
  <2>1. pc'[t] = "ready" /\ \A u \in Tasks \ {t} : pc'[u] = pc[u]
    BY <1>1 DEF Typed
  <2>2. \A k \in DOMAIN queue : pc'[queue[k]] = "ready"
    BY <1>2, <1>4, <2>1 DEF Queued
  <2>3. \A j \in DOMAIN queue' : pc'[queue'[j]] = "ready"
    BY <1>3, <2>1, <2>2
  <2>. QED
    BY <1>3, <2>3 DEF Queued
<1>6. Typed'
  <2>1. rank_token' \in [Groups -> Int] /\ rank' \in [Tasks -> Int]
    BY GroupFacts DEF Spawn, JoinGroup, Typed
  <2>2. /\ round' = [round EXCEPT ![t] = @ + 1]
        /\ arrived' = [arrived EXCEPT ![t] = 0] /\ crossed' = [crossed EXCEPT ![t] = 0]
        /\ UNCHANGED <<barrier_count, barrier_phase, my_phase>>
    BY DEF Spawn
  <2>. QED
    BY <1>1, <1>3, <2>1, <2>2 DEF Typed
<1>. QED
  BY <1>5, <1>6, SpawnKeepsRanks, SpawnKeepsBarriers DEF Ranks

\* task::wait(): the whole group is in one round.
LEMMA WaitKeeps ==
  ASSUME IInv, NEW t \in Tasks, Wait(t)
  PROVE  IInv'
<1> USE DEF IInv
<1> DEFINE g == GroupOf[t]
<1>1. /\ pc[t] = "done" /\ \A u \in Tasks : pc'[u] = IF u = t THEN "free" ELSE pc[u]
      /\ \A s \in Tasks : GroupOf[s] = g => round[s] = round[t]
      /\ UNCHANGED <<queue, rank, barriers, round>>
  BY DEF Wait, MayWait, Members, Typed
<1>2. g \in Groups /\ Size[g] \in Nat
  BY GroupFacts
<1>3. Typed'
  <2>1. rank_token' \in [Groups -> Int]
    BY <1>2 DEF Wait, LeaveGroup, Typed
  <2>. QED
    BY <1>1, <2>1 DEF Wait, Typed, barriers
<1>4. Queued'
  BY <1>1, QuietQueue
<1>5. Barriers'
  BY <1>1, QuietBarriers
<1>6. Rounds'
  <2>1. \A u \in Tasks : round[u] \in Nat
    BY DEF Typed
  <2>2. ASSUME NEW s \in Tasks, NEW u \in Tasks, GroupOf[s] = GroupOf[u], round[s] < round[u]
        PROVE  pc'[s] = "free" /\ pc'[u] # "free" /\ round[u] = round[s] + 1
    <3>1. GroupOf[u] # g
      BY <1>1, <2>1, <2>2
    <3>. QED
      BY <1>1, <2>2, <3>1 DEF Ranks, Rounds
  <2>. QED
    BY <1>1, <2>2 DEF Rounds
<1>7. /\ Actives(g)' = Actives(g) \ {t} /\ t \in Actives(g)
      /\ \A h \in Groups : h # g => Actives(h)' = Actives(h)
  BY <1>1 DEF Actives, Members, Active
<1>8. Cardinality(Actives(g)') = Cardinality(Actives(g)) - 1
  BY <1>7, MembersAreFinite, FS_RemoveElement
<1>9. \A h \in Groups : rank_token'[h] = IF h = g /\ Size[g] > 0 THEN rank_token[g] - 1 ELSE rank_token[h]
  BY <1>2 DEF Wait, LeaveGroup, Grouped, Typed
<1>10. Tokens'
  <2>1. \A h \in Groups : Size[h] > 0 => rank_token'[h] = Cardinality(Actives(h)')
    <3>1. \A h \in Groups : Size[h] > 0 => rank_token[h] = Cardinality(Actives(h))
      BY DEF Ranks, Tokens
    <3>. QED
      BY <1>2, <1>7, <1>8, <1>9, <3>1
  <2>2. ASSUME NEW s \in Tasks, NEW u \in Tasks, GroupOf[s] = GroupOf[u], Grouped(u), round'[s] < round'[u]
        PROVE  rank'[u] < rank_token'[GroupOf[u]]
    <3>1. GroupOf[u] # g
      BY <1>1, <2>2 DEF Typed
    <3>. QED
      BY <1>1, <1>9, <2>2, <3>1, GroupFacts DEF Ranks, Tokens
  <2>. QED
    BY <2>1, <2>2 DEF Tokens, Grouped
<1>11. RanksAreUnique'
  BY <1>1 DEF Ranks, RanksAreUnique, Active, Grouped
<1>. QED
  BY <1>3, <1>4, <1>5, <1>6, <1>10, <1>11 DEF Ranks

-----------------------------------------------------------------------------
\* get() and the start of a task's function.
LEMMA PushKeeps ==
  ASSUME IInv, NEW w \in Workers, NEW i \in DOMAIN queue, Push(w, i)
  PROVE  IInv'
<1> USE DEF IInv
<1> DEFINE t == queue[i]
<1>1. \A j \in DOMAIN queue : queue[j] \in Tasks
  BY LenProperties, ElementOfSeq DEF Typed
<1>2. /\ t \in Tasks /\ pc[t] = "ready" /\ queue' = RemoveAt(queue, i)
      /\ \A u \in Tasks : pc'[u] = IF u = t THEN "body" ELSE pc[u]
      /\ pc' \in [Tasks -> {"free", "ready", "body", "barrier", "done"}]
      /\ UNCHANGED <<rank_token, rank, barriers, round>>
  BY <1>1 DEF Push, Queued, Typed
<1> HIDE DEF t
<1>3. /\ queue' \in Seq(Tasks)
      /\ \A j \in DOMAIN queue' : \E k \in DOMAIN queue \ {i} : queue'[j] = queue[k]
      /\ \A j, k \in DOMAIN queue' : queue'[j] = queue'[k] => j = k
  <2>1. queue \in Seq(Tasks) /\ \A j, k \in DOMAIN queue : queue[j] = queue[k] => j = k
    BY DEF Typed, Queued
  <2> DEFINE q == RemoveAt(queue, i)
  <2>2. /\ q \in Seq(Tasks)
        /\ \A j \in DOMAIN q : \E k \in DOMAIN queue \ {i} : q[j] = queue[k]
        /\ \A j, k \in DOMAIN q : q[j] = q[k] => j = k
    BY <2>1, RemoveFacts
  <2>. QED
    BY <1>2, <2>2
<1>4. Typed'
  BY <1>2, <1>3 DEF Typed, barriers
<1>5. Queued'
  <2>1. ASSUME NEW j \in DOMAIN queue' PROVE pc'[queue'[j]] = "ready"
    <3>1. PICK k \in DOMAIN queue \ {i} : queue'[j] = queue[k]
      BY <1>3
    <3>2. queue[k] # t
      BY <3>1 DEF Queued, t
    <3>. QED
      BY <1>1, <1>2, <3>1, <3>2 DEF Queued
  <2>. QED
    BY <1>3, <2>1 DEF Queued
<1>. QED
  BY <1>2, <1>4, <1>5, QuietRanks, QuietBarriers

LEMMA FinishKeeps ==
  ASSUME IInv, NEW w \in Workers, Finish(w)
  PROVE  IInv'
<1> USE DEF IInv
<1>1. PICK t \in Tasks :
        /\ pc[t] = "body" /\ pc' = [pc EXCEPT ![t] = "done"]
        /\ UNCHANGED <<queue, rank_token, rank, barriers, round>>
  BY DEF Finish
<1>2. \A u \in Tasks : pc'[u] = IF u = t THEN "done" ELSE pc[u]
  BY <1>1 DEF Typed
<1>3. Typed'
  BY <1>1 DEF Typed, barriers
<1>. QED
  BY <1>1, <1>2, <1>3, QuietQueue, QuietRanks, QuietBarriers

\* The task has seen the phase change: it was among those left behind.
LEMMA LeaveKeeps ==
  ASSUME IInv, NEW w \in Workers, Leave(w)
  PROVE  IInv'
<1> USE DEF IInv
<1>1. PICK t \in Tasks :
        /\ pc[t] = "barrier" /\ my_phase[t] # barrier_phase[GroupOf[t]]
        /\ pc' = [pc EXCEPT ![t] = "body"] /\ crossed' = [crossed EXCEPT ![t] = @ + 1]
        /\ UNCHANGED <<queue, rank_token, rank, barrier_count, barrier_phase, my_phase, arrived, round>>
  BY DEF Leave
<1>2. \A u \in Tasks : /\ pc'[u] = IF u = t THEN "body" ELSE pc[u]
                       /\ crossed'[u] = IF u = t THEN crossed[t] + 1 ELSE crossed[u]
  BY <1>1 DEF Typed
<1>3. Typed'
  BY <1>1 DEF Typed
<1>4. \A u \in Tasks : Waits(u)' = Waits(u)
  <2>1. ~Waits(t) /\ ~Waits(t)'
    BY <1>1, <1>2 DEF Waits
  <2>2. \A u \in Tasks \ {t} : Waits(u)' = Waits(u)
    BY <1>1, <1>2 DEF Waits
  <2>. QED
    BY <2>1, <2>2 DEF Waits
<1>5. \A u \in Tasks : Opened(u)' = Opened(u)
  BY <1>1, <1>4 DEF Opened
<1>6. \A g \in Groups : Waiters(g)' = Waiters(g)
  BY <1>4 DEF Waiters, Members
<1>7. Count'
  BY <1>1, <1>6 DEF Barriers, Count
<1>8. Crossing'
  <2>1. \A u \in Tasks : crossed[u] \in Nat /\ arrived[u] \in Nat
    BY DEF Typed
  <2>. QED
    BY <1>1, <1>2, <2>1 DEF Barriers, Crossing
<1>9. Opening'
  BY <1>1, <1>5 DEF Barriers, Opening
<1>. QED
  BY <1>1, <1>2, <1>3, <1>7, <1>8, <1>9, QuietQueue, QuietRanks DEF Barriers

-----------------------------------------------------------------------------
\* What a call of barrier() does, whichever branch it takes.
LEMMA BarrierFacts ==
  ASSUME Typed, NEW w \in Workers, Barrier(w)
  PROVE  LET t == top[w]
             g == GroupOf[t]
         IN  /\ t \in Tasks /\ g \in Groups /\ Size[g] \in Nat
             /\ pc[t] = "body" /\ pc' \in {pc, [pc EXCEPT ![t] = "barrier"]}
             /\ arrived' = [arrived EXCEPT ![t] = @ + 1]
             /\ my_phase' = [my_phase EXCEPT ![t] = barrier_phase[g]]
             /\ crossed' = [crossed EXCEPT ![t] = IF pc'[t] = "body" THEN @ + 1 ELSE @]
             /\ UNCHANGED <<queue, rank_token, rank, round>>
BY GroupFacts DEF Barrier, Arrive

\* The group has no barrier.
LEMMA NoBarrierKeeps ==
  ASSUME IInv, NEW w \in Workers, Barrier(w), ~(Size[GroupOf[top[w]]] > 1)
  PROVE  Typed' /\ Barriers'
<1> USE DEF IInv, Barriers
<1>0. PICK t \in Tasks : t = top[w]
  BY BarrierFacts
<1>1. UNCHANGED <<barrier_count, barrier_phase, pc>>
  BY DEF Barrier
<1>2. /\ t \in Tasks /\ pc[t] = "body" /\ barrier_phase[GroupOf[t]] \in BOOLEAN
      /\ arrived' = [arrived EXCEPT ![t] = @ + 1] /\ crossed' = [crossed EXCEPT ![t] = @ + 1]
      /\ my_phase' = [my_phase EXCEPT ![t] = barrier_phase[GroupOf[t]]]
      /\ UNCHANGED <<queue, rank_token, rank, round>>
  BY <1>0, <1>1, BarrierFacts DEF Typed
<1>3. Typed'
  BY <1>1, <1>2 DEF Typed
<1>4. \A u \in Tasks : /\ arrived'[u] = IF u = t THEN arrived[t] + 1 ELSE arrived[u]
                       /\ crossed'[u] = IF u = t THEN crossed[t] + 1 ELSE crossed[u]
                       /\ u # t => my_phase'[u] = my_phase[u]
                       /\ arrived[u] \in Nat /\ crossed[u] \in Nat
  BY <1>2 DEF Typed
<1>5. \A u \in Tasks : Waits(u)' <=> Waits(u)
  BY <1>1, <1>2, <1>4 DEF Waits
<1>6. \A g \in Groups : Waiters(g)' = Waiters(g)
  BY <1>5 DEF Waiters, Members
<1>7. Count'
  BY <1>1, <1>6 DEF Count
<1>8. Crossing'
  BY <1>1, <1>2, <1>4 DEF Crossing
<1>9. \A u \in Tasks \ {t} : Opened(u)' = Opened(u)
  BY <1>4, <1>5 DEF Opened
<1>10. Opening'
  BY <1>0, <1>2, <1>9 DEF Opening
<1>. QED
  BY <1>3, <1>7, <1>8, <1>10

\* Somebody else of the group is still to come.
LEMMA ArriveKeeps ==
  ASSUME IInv, NEW w \in Workers, Barrier(w), Size[GroupOf[top[w]]] > 1,
         barrier_count[GroupOf[top[w]]] + 1 # Size[GroupOf[top[w]]]
  PROVE  Typed' /\ Barriers'
<1> USE DEF IInv, Barriers
<1>0. PICK t \in Tasks : t = top[w]
  BY BarrierFacts
<1> DEFINE g == GroupOf[t]
<1>1. /\ barrier_count' = [barrier_count EXCEPT ![g] = @ + 1]
      /\ pc' = [pc EXCEPT ![t] = "barrier"]
      /\ UNCHANGED barrier_phase
  BY <1>0 DEF Barrier, Arrive
<1>2. /\ t \in Tasks /\ g \in Groups /\ pc[t] = "body" /\ barrier_phase[g] \in BOOLEAN
      /\ arrived' = [arrived EXCEPT ![t] = @ + 1] /\ my_phase' = [my_phase EXCEPT ![t] = barrier_phase[g]]
      /\ UNCHANGED <<queue, rank_token, rank, round, crossed>>
  <2>1. t \in Tasks /\ pc'[t] = "barrier"
    BY <1>0, <1>1, BarrierFacts DEF Typed
  <2>2. crossed' = [crossed EXCEPT ![t] = crossed[t]]
    BY <1>0, <2>1, BarrierFacts
  <2>3. crossed' = crossed
    BY <2>2 DEF Typed
  <2>. QED
    BY <1>0, <2>1, <2>3, BarrierFacts DEF Typed
<1>3. Typed'
  <2>1. barrier_count' \in [Groups -> Nat]
    BY <1>1, <1>2 DEF Typed
  <2>2. pc' \in [Tasks -> {"free", "ready", "body", "barrier", "done"}]
    BY <1>1 DEF Typed
  <2>3. arrived' \in [Tasks -> Nat]
    <3>1. arrived \in [Tasks -> Nat] /\ arrived[t] + 1 \in Nat
      BY DEF Typed
    <3>. QED
      BY <1>2, <3>1
  <2>4. my_phase' \in [Tasks -> BOOLEAN]
    BY <1>2 DEF Typed
  <2>. QED
    BY <1>1, <1>2, <2>1, <2>2, <2>3, <2>4 DEF Typed
<1>4. \A u \in Tasks : /\ arrived'[u] = IF u = t THEN arrived[t] + 1 ELSE arrived[u]
                       /\ pc'[u] = IF u = t THEN "barrier" ELSE pc[u]
                       /\ my_phase'[u] = IF u = t THEN barrier_phase[g] ELSE my_phase[u]
                       /\ arrived[u] \in Nat /\ crossed[u] \in Nat
  BY <1>1, <1>2 DEF Typed
<1>5. \A u \in Tasks : (Waits(u)' <=> (u = t \/ Waits(u))) /\ ~Waits(t)
  BY <1>1, <1>2, <1>4 DEF Waits
<1>6. /\ Waiters(g)' = Waiters(g) \cup {t} /\ t \notin Waiters(g)
      /\ \A h \in Groups : h # g => Waiters(h)' = Waiters(h)
  BY <1>2, <1>5 DEF Waiters, Members
<1>7. Count'
  <2>1. Cardinality(Waiters(g)') = Cardinality(Waiters(g)) + 1
    BY <1>6, MembersAreFinite, FS_AddElement
  <2>2. \A h \in Groups : barrier_count'[h] = IF h = g THEN barrier_count[g] + 1 ELSE barrier_count[h]
    BY <1>1 DEF Typed
  <2>. QED
    BY <1>6, <2>1, <2>2 DEF Count
<1>8. Crossing'
  BY <1>0, <1>2, <1>4 DEF Crossing
<1>9. \A u \in Tasks : Opened(u)' = Opened(u)
  <2>1. Opened(t) = arrived[t] /\ Opened(t)' = (arrived[t] + 1) - 1
    BY <1>2, <1>4, <1>5 DEF Opened
  <2>2. \A u \in Tasks \ {t} : Opened(u)' = Opened(u)
    BY <1>4, <1>5 DEF Opened
  <2>. QED
    BY <1>4, <2>1, <2>2
<1>10. Opening'
  BY <1>0, <1>2, <1>9 DEF Opening
<1>. QED
  BY <1>3, <1>7, <1>8, <1>10

\* The last of the group opens the barrier: all the others wait for that.
LEMMA LastKeeps ==
  ASSUME GroupsAreWhole, IInv, NEW w \in Workers, Barrier(w), Size[GroupOf[top[w]]] > 1,
         barrier_count[GroupOf[top[w]]] + 1 = Size[GroupOf[top[w]]]
  PROVE  Typed' /\ Barriers'
<1> USE DEF IInv, Barriers
<1>0. PICK t \in Tasks : t = top[w]
  BY BarrierFacts
<1> DEFINE g == GroupOf[t]
<1>1. /\ barrier_count' = [barrier_count EXCEPT ![g] = 0]
      /\ barrier_phase' = [barrier_phase EXCEPT ![g] = ~@]
      /\ pc' = pc
  BY <1>0 DEF Barrier, Arrive
<1>2. /\ t \in Tasks /\ g \in Groups /\ Size[g] \in Nat /\ pc[t] = "body" /\ barrier_phase[g] \in BOOLEAN
      /\ arrived' = [arrived EXCEPT ![t] = @ + 1] /\ my_phase' = [my_phase EXCEPT ![t] = barrier_phase[g]]
      /\ crossed' = [crossed EXCEPT ![t] = @ + 1]
      /\ UNCHANGED <<queue, rank_token, rank, round>>
  BY <1>0, <1>1, BarrierFacts DEF Typed
<1>3. Typed'
  <2>1. barrier_phase' \in [Groups -> BOOLEAN]
    BY <1>1, <1>2 DEF Typed
  <2>2. barrier_count' \in [Groups -> Nat]
    BY <1>1, <1>2 DEF Typed
  <2>3. pc' \in [Tasks -> {"free", "ready", "body", "barrier", "done"}]
    BY <1>1 DEF Typed
  <2>4. my_phase' \in [Tasks -> BOOLEAN]
    BY <1>2 DEF Typed
  <2>5. arrived' \in [Tasks -> Nat] /\ crossed' \in [Tasks -> Nat]
    <3>1. /\ arrived \in [Tasks -> Nat] /\ arrived[t] + 1 \in Nat
          /\ crossed \in [Tasks -> Nat] /\ crossed[t] + 1 \in Nat
      BY DEF Typed
    <3>. QED
      BY <1>2, <3>1
  <2>. QED
    BY <1>2, <2>1, <2>2, <2>3, <2>4, <2>5 DEF Typed
<1>4. \A u \in Tasks : /\ arrived'[u] = IF u = t THEN arrived[t] + 1 ELSE arrived[u]
                       /\ crossed'[u] = IF u = t THEN crossed[t] + 1 ELSE crossed[u]
                       /\ my_phase'[u] = IF u = t THEN barrier_phase[g] ELSE my_phase[u]
                       /\ arrived[u] \in Nat /\ crossed[u] \in Nat /\ round[u] \in Nat
  BY <1>2 DEF Typed
<1>5. \A h \in Groups : /\ barrier_phase'[h] = IF h = g THEN ~barrier_phase[g] ELSE barrier_phase[h]
                        /\ barrier_count'[h] = IF h = g THEN 0 ELSE barrier_count[h]
  BY <1>1 DEF Typed
\* All but t wait in the phase that ends.
<1>6. \A u \in Tasks : GroupOf[u] = g /\ u # t => Waits(u)
  <2>1. t \notin Waiters(g) /\ t \in Members(g)
    BY <1>2 DEF Waiters, Waits, Members
  <2>2. Cardinality(Waiters(g) \cup {t}) = Cardinality(Waiters(g)) + 1
    BY <2>1, MembersAreFinite, FS_AddElement
  <2>3. Cardinality(Waiters(g) \cup {t}) = Cardinality(Members(g))
    BY <1>0, <1>2, <2>2 DEF Count, GroupsAreWhole
  <2>4. Waiters(g) \cup {t} \subseteq Members(g)
    BY <2>1 DEF Waiters
  <2>5. Waiters(g) \cup {t} = Members(g)
    BY <2>3, <2>4, MembersAreFinite, FS_Subset
  <2>6. \A u \in Members(g) : u # t => u \in Waiters(g)
    BY <2>5
  <2>. QED
    BY <2>6 DEF Members, Waiters
<1>7. \A u \in Tasks : GroupOf[u] = g => ~Waits(u)'
  <2>1. ~Waits(t)'
    BY <1>1, <1>2 DEF Waits
  <2>2. ASSUME NEW u \in Tasks, GroupOf[u] = g, u # t PROVE ~Waits(u)'
    <3>1. my_phase'[u] = barrier_phase[g]
      BY <1>4, <1>6, <2>2 DEF Waits
    <3>. QED
      BY <1>2, <1>5, <2>2, <3>1 DEF Waits
  <2>. QED
    BY <2>1, <2>2
<1>8. \A u \in Tasks : GroupOf[u] # g => (Waits(u)' <=> Waits(u))
  BY <1>1, <1>2, <1>4, <1>5, GroupFacts DEF Waits
<1>9. Waiters(g)' = {} /\ \A h \in Groups : h # g => Waiters(h)' = Waiters(h)
  BY <1>7, <1>8 DEF Waiters, Members
<1>10. Count'
  <2>1. Cardinality(Waiters(g)') = 0
    BY <1>9, FS_EmptySet
  <2>. QED
    BY <1>5, <1>9, <2>1 DEF Count
<1>11. Crossing'
  BY <1>1, <1>2, <1>4 DEF Crossing
<1>12. /\ \A u \in Tasks : GroupOf[u] = g => Opened(u) \in Int /\ Opened(u)' = Opened(u) + 1
       /\ \A u \in Tasks : GroupOf[u] # g => Opened(u)' = Opened(u)
  <2>1. Opened(t) = arrived[t] /\ Opened(t)' = arrived[t] + 1
    BY <1>2, <1>4, <1>7 DEF Opened, Waits
  <2>2. \A u \in Tasks : GroupOf[u] = g /\ u # t => Opened(u) = arrived[u] - 1 /\ Opened(u)' = arrived[u]
    BY <1>4, <1>6, <1>7 DEF Opened
  <2>3. \A u \in Tasks : GroupOf[u] # g => Opened(u)' = Opened(u)
    BY <1>4, <1>8 DEF Opened
  <2>. QED
    BY <1>4, <2>1, <2>2, <2>3
\* Nobody is free, so that the group is in one round.
<1>13. \A s, u \in Tasks : GroupOf[s] = g /\ GroupOf[u] = g => ~(round[s] < round[u])
  <2>1. \A s \in Tasks : GroupOf[s] = g => pc[s] # "free"
    BY <1>2, <1>6 DEF Waits
  <2>. QED
    BY <2>1 DEF Ranks, Rounds
<1>14. Opening'
  <2> SUFFICES ASSUME NEW s \in Tasks, NEW u \in Tasks, GroupOf[s] = GroupOf[u], Size[GroupOf[u]] > 1
               PROVE  /\ round[s] = round[u] => Opened(s)' = Opened(u)'
                      /\ round[s] < round[u] => Opened(u)' = 0
    BY <1>2 DEF Opening
  <2>1. CASE GroupOf[u] = g
    BY <1>12, <1>13, <2>1 DEF Opening
  <2>2. CASE GroupOf[u] # g
    BY <1>12, <2>2 DEF Opening
  <2>. QED
    BY <2>1, <2>2
<1>. QED
  BY <1>3, <1>10, <1>11, <1>14

LEMMA BarrierKeeps ==
  ASSUME GroupsAreWhole, IInv, NEW w \in Workers, Barrier(w)
  PROVE  IInv'
<1> DEFINE t == top[w]
<1>1. /\ t \in Tasks /\ pc[t] = "body" /\ pc' \in {pc, [pc EXCEPT ![t] = "barrier"]}
      /\ UNCHANGED <<queue, rank_token, rank, round>>
  BY BarrierFacts DEF IInv
<1>2. \A u \in Tasks : (pc'[u] = "free" <=> pc[u] = "free") /\ (pc[u] = "ready" => pc'[u] = "ready")
  BY <1>1 DEF IInv, Typed
<1>3. Queued' /\ Ranks'
  BY <1>1, <1>2, QuietQueue, QuietRanks DEF IInv
<1>4. Typed' /\ Barriers'
  BY NoBarrierKeeps, ArriveKeeps, LastKeeps
<1>. QED
  BY <1>3, <1>4 DEF IInv

-----------------------------------------------------------------------------
LEMMA StepIInv ==
  ASSUME GroupsAreWhole
  PROVE  IInv /\ [Next]_vars => IInv'
<1> SUFFICES ASSUME IInv, [Next]_vars PROVE IInv'
  OBVIOUS
<1>1. CASE UNCHANGED <<queue, rank_token, rank, barriers, pc, round>>
  <2>1. Typed'
    BY <1>1 DEF IInv, Typed, barriers
  <2>. QED
    BY <1>1, <2>1, QuietQueue, QuietRanks, QuietBarriers DEF IInv
<1>2. CASE MainStep
  BY <1>2, SpawnKeeps, WaitKeeps DEF MainStep
<1>3. ASSUME NEW w \in Workers, WorkerStep(w) PROVE IInv'
  <2>1. ASSUME NEW i \in DOMAIN queue, Push(w, i)
        PROVE  IInv'
    BY <2>1, PushKeeps
  <2>2. CASE Get(w)
    BY <2>1, <2>2 DEF Get, Exposed
  <2>3. CASE ProgressBarrier(w)
    BY <1>1, <2>1, <2>3 DEF ProgressBarrier, Exposed
  <2>4. CASE LookAtPhase(w)
    BY <1>1, <2>4 DEF LookAtPhase
  <2>. QED
    BY <1>3, <2>2, <2>3, <2>4, BarrierKeeps, LeaveKeeps, FinishKeeps DEF WorkerStep
<1>4. ASSUME NEW w \in Workers, Poll(w) PROVE IInv'
  BY <1>1, <1>4 DEF Poll, vars
<1>. QED
  BY <1>1, <1>2, <1>3, <1>4 DEF Next, vars

LEMMA InvariantHolds ==
  ASSUME GroupsAreWhole
  PROVE  Spec => []IInv
<1>. QED
  BY InitIInv, StepIInv, PTL DEF Spec

\* The active tasks of a group have different ranks below its size, when the
\* group is spawned and waited for as a whole (group.hpp:79-90, task.hpp:77-84).
THEOREM RanksDiffer ==
  ASSUME GroupsAreWhole
  PROVE  Spec => []RanksAreUnique
<1>1. IInv => RanksAreUnique
  BY DEF IInv, Ranks
<1>. QED
  BY <1>1, InvariantHolds, PTL

\* The count of a barrier is the number of tasks that wait for the present
\* phase to end (group.hpp:35-74).
THEOREM CountsAreRight ==
  ASSUME GroupsAreWhole
  PROVE  Spec => []CountIsWaiting
<1>1. \A g \in Groups : Waiters(g) = {t \in Members(g) : pc[t] = "barrier" /\ my_phase[t] = barrier_phase[g]}
  BY DEF Waiters, Waits, Members
<1>2. IInv => CountIsWaiting
  BY <1>1 DEF IInv, Barriers, Count, CountIsWaiting
<1>. QED
  BY <1>2, InvariantHolds, PTL

\* No task is past a barrier that another one of its group has not reached,
\* however often the barrier is used, for any size of the group and any number
\* of workers (group.hpp:35-74).
THEOREM BarriersHold ==
  ASSUME GroupsAreWhole
  PROVE  Spec => []BarrierSeparates
<1>1. IInv => BarrierSeparates
  <2> SUFFICES ASSUME IInv, NEW s \in Tasks, NEW t \in Tasks,
                      GroupOf[s] = GroupOf[t], Size[GroupOf[s]] > 1, round[s] = round[t]
               PROVE  crossed[t] <= arrived[s]
    BY DEF BarrierSeparates
  <2>1. arrived[s] \in Nat /\ arrived[t] \in Nat /\ crossed[t] \in Nat
    BY DEF IInv, Typed
  <2>2. Opened(s) = Opened(t) /\ Opened(s) <= arrived[s]
    BY <2>1 DEF IInv, Barriers, Opening, Opened
  <2>3. crossed[t] <= Opened(t)
    BY <2>1 DEF IInv, Barriers, Crossing, Opened, Waits
  <2>. QED
    BY <2>1, <2>2, <2>3 DEF Opened
<1>. QED
  BY <1>1, InvariantHolds, PTL
=============================================================================
