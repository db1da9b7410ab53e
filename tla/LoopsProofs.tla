---------------------------- MODULE LoopsProofs ----------------------------
(***************************************************************************)
(* Proofs about the loops, for every width of size_t, every base case, any *)
(* space and any number of workers, whatever is thrown.                    *)
(***************************************************************************)
EXTENDS Loops, SequenceTheorems, FiniteSetTheorems, TLAPS

-----------------------------------------------------------------------------
(***************************************************************************)
(* The arithmetic of space_1D.                                             *)
(***************************************************************************)

(***************************************************************************)
(* A number below the modulus is not changed by the arithmetic of size_t.  *)
(***************************************************************************)
LEMMA NoWrap ==
  ASSUME NEW n \in Index
  PROVE  n % Modulus = n
  BY ModulusAssumption, SMT DEF Index

(***************************************************************************)
(* The subtractions and the addition of space_1D do not wrap around, and a *)
(* space that can be split has its split point strictly inside             *)
(* (space_1D.hpp:34,67).                                                   *)
(***************************************************************************)
LEMMA SplitPointInside ==
  ASSUME NEW s \in Space
  PROVE  /\ Length(s) = s.end - s.begin
         /\ CanSplit(s) => /\ SplitPoint(s) \in Index
                           /\ s.begin < SplitPoint(s) /\ SplitPoint(s) < s.end
<1>1. /\ s.begin \in Index /\ s.end \in Index /\ s.begin <= s.end
      /\ Modulus \in Nat /\ Modulus > 0 /\ base_case_size \in Nat /\ base_case_size > 0
  BY ModulusAssumption, BaseCaseAssumption DEF Space, Index
<1>2. s.end - s.begin \in Index
  BY <1>1 DEF Index
<1>3. Length(s) = s.end - s.begin
  BY <1>2, NoWrap DEF Length
<1>4. ASSUME CanSplit(s)
      PROVE  SplitPoint(s) \in Index /\ s.begin < SplitPoint(s) /\ SplitPoint(s) < s.end
  <2> DEFINE m == s.begin + (s.end - s.begin) \div 2
  <2>1. s.end - s.begin >= 2
    BY <1>1, <1>3, <1>4 DEF CanSplit, Index
  <2>2. m \in Index /\ s.begin < m /\ m < s.end
    BY <1>1, <2>1 DEF Index
  <2>3. SplitPoint(s) = m
    BY <1>3, <2>2, NoWrap DEF SplitPoint
  <2> QED
    BY <2>2, <2>3
<1> QED
  BY <1>3, <1>4

(***************************************************************************)
(* The two halves of a space are spaces, have no index in common, have all *)
(* of its indices between them, and neither of them is empty or all of it: *)
(* splitting covers each index once and comes to an end                    *)
(* (space_1D.hpp:60-77).                                                   *)
(***************************************************************************)
THEOREM SplitPartitions ==
  ASSUME NEW s \in Space, CanSplit(s)
  PROVE  /\ Left(s) \in Space /\ Right(s) \in Space
         /\ Indices(Left(s)) \cap Indices(Right(s)) = {}
         /\ Indices(Left(s)) \cup Indices(Right(s)) = Indices(s)
         /\ Length(Left(s)) > 0 /\ Length(Left(s)) < Length(s)
         /\ Length(Right(s)) > 0 /\ Length(Right(s)) < Length(s)
<1> DEFINE m == SplitPoint(s)
<1>1. m \in Index /\ s.begin < m /\ m < s.end
  BY SplitPointInside
<1>2. s.begin \in Index /\ s.end \in Index /\ Index \subseteq Int
  BY ModulusAssumption DEF Space, Index
<1>3. /\ Left(s) = [begin |-> s.begin, end |-> m]
      /\ Right(s) = [begin |-> m, end |-> s.end]
  BY DEF Left, Right
<1>9. m \in Int /\ s.begin \in Int /\ s.end \in Int /\ s.begin < m /\ m < s.end
  BY <1>1, <1>2
<1> HIDE DEF m
<1>4. Left(s) \in Space /\ Right(s) \in Space
  BY <1>1, <1>2, <1>3 DEF Space, Index
<1>5. /\ Length(s) = s.end - s.begin
      /\ Length(Left(s)) = m - s.begin
      /\ Length(Right(s)) = s.end - m
  BY <1>3, <1>4, SplitPointInside
<1>6. /\ Indices(s) = s.begin .. s.end - 1
      /\ Indices(Left(s)) = s.begin .. m - 1
      /\ Indices(Right(s)) = m .. s.end - 1
  BY <1>3 DEF Indices
<1>7. /\ (s.begin .. m - 1) \cap (m .. s.end - 1) = {}
      /\ (s.begin .. m - 1) \cup (m .. s.end - 1) = s.begin .. s.end - 1
  <2> DEFINE L == s.begin .. m - 1
             R == m .. s.end - 1
             S == s.begin .. s.end - 1
  <2>1. \A x : ~ (x \in L /\ x \in R) /\ (x \in L \/ x \in R <=> x \in S)
    BY <1>9
  <2> HIDE DEF L, R, S
  <2>2. L \cap R = {} /\ L \cup R = S
    BY <2>1
  <2> QED
    BY <2>2 DEF L, R, S
<1>8. /\ m - s.begin > 0 /\ m - s.begin < s.end - s.begin
      /\ s.end - m > 0 /\ s.end - m < s.end - s.begin
  BY <1>9
<1> QED
  BY <1>4, <1>5, <1>6, <1>7, <1>8

-----------------------------------------------------------------------------
(***************************************************************************)
(* The inductive invariant.                                                *)
(***************************************************************************)
Paths == Seq(Nat)

Points == {"queued", "body", "join", "wait", "look", "notify", "done"}

TypeOK ==
  /\ kind \in {"for", "reduce", "while"} /\ whole \in Space
  /\ Root \in Tasks /\ Tasks \subseteq Paths
  /\ at \in [Tasks -> Points]
  /\ space \in [Tasks -> Space]
  /\ kids \in [Tasks -> Seq(Paths)]
  /\ acc \in [Tasks -> Seq(Int)]
  /\ except \in [Tasks -> BOOLEAN]
  /\ applied \in [Index -> Nat]
  /\ stack \in [Workers -> Seq(Paths)]
  /\ status \in {"spawned", "waiting", "caught", "returned", "terminated", "undefined"}

\* A task whose function has applied what was left to it, and one whose
\* function has returned.
Applied(t) == at[t] \in {"join", "wait", "look", "done"} \/ (at[t] = "notify" /\ ~ except[t])
Finished(t) == at[t] = "done" \/ (at[t] = "notify" /\ ~ except[t])

\* The tasks form a tree, in which all tasks below a complete one are complete.
Tree ==
  \A u \in Tasks : \A k \in 0 .. Len(u) - 1 :
    SubSeq(u, 1, k) \in Tasks /\ (at[SubSeq(u, 1, k)] = "done" => at[u] = "done")

\* A task has its children in kids until they are complete and it has waited
\* for them; the children of one that still spawns are numbered.
Family ==
  /\ \A t \in Tasks : \A i \in DOMAIN kids[t] :
       kids[t][i] \in Tasks \ {Root} /\ Front(kids[t][i]) = t
  /\ \A u \in Tasks \ {Root} :
       \/ at[u] = "done"
       \/ \E i \in DOMAIN kids[Front(u)] : kids[Front(u)][i] = u
  /\ \A u \in Tasks \ {Root} :
       at[Front(u)] \in {"queued", "body"} => Last(u) <= Len(kids[Front(u)])

Progress ==
  /\ \A t \in Tasks : at[t] \in {"wait", "look"} => kids[t] # <<>>
  /\ \A t \in Tasks : Finished(t) => kids[t] = <<>>
  /\ \A t \in Tasks : Applied(t) => space[t].begin = space[t].end

\* A task is on one stack, where only the one on top moves.
Stacks ==
  /\ \A w \in Workers : \A i \in DOMAIN stack[w] :
       /\ stack[w][i] \in Tasks
       /\ IF i = Len(stack[w]) THEN at[stack[w][i]] \notin {"queued", "done"}
                               ELSE at[stack[w][i]] = "wait"
  /\ \A v, w \in Workers : \A i \in DOMAIN stack[v], j \in DOMAIN stack[w] :
       stack[v][i] = stack[w][j] => v = w /\ i = j

\* Each index of the loop is in one space or has been applied.
Partition ==
  \A i \in Index :
    IF i \in Indices(whole)
      THEN \/ applied[i] = 0 /\ \E t \in Tasks : \A u \in Tasks : i \in Indices(space[u]) <=> u = t
           \/ applied[i] = 1 /\ \A u \in Tasks : i \notin Indices(space[u])
      ELSE applied[i] = 0 /\ \A u \in Tasks : i \notin Indices(space[u])

Returned == status = "returned" => at[Root] = "done"

IInv == TypeOK /\ Tree /\ Family /\ Progress /\ Stacks /\ Partition /\ Returned

-----------------------------------------------------------------------------
(***************************************************************************)
(* Sequences, and the names of tasks.                                      *)
(***************************************************************************)
LEMMA PrefixFacts ==
  ASSUME NEW S, NEW s \in Seq(S), NEW k \in 0 .. Len(s)
  PROVE  /\ SubSeq(s, 1, k) \in Seq(S) /\ Len(SubSeq(s, 1, k)) = k
         /\ \A i \in 1 .. k : SubSeq(s, 1, k)[i] = s[i]
<1>1. Len(s) \in Nat /\ k \in Int /\ \A i \in 1 .. k : s[i] \in S
  BY LenProperties
<1>2. /\ SubSeq(s, 1, k) \in Seq(S)
      /\ Len(SubSeq(s, 1, k)) = IF 1 <= k THEN k - 1 + 1 ELSE 0
      /\ \A i \in 1 .. k - 1 + 1 : SubSeq(s, 1, k)[i] = s[1 + i - 1]
  BY <1>1, SubSeqProperties
<1>3. k - 1 + 1 = k /\ (~ (1 <= k) => k = 0) /\ \A i \in 1 .. k : 1 + i - 1 = i
  BY <1>1
<1>. QED
  BY <1>2, <1>3

LEMMA FrontLast ==
  ASSUME NEW S, NEW s \in Seq(S), s # <<>>
  PROVE  /\ Len(s) \in Nat \ {0} /\ DOMAIN s = 1 .. Len(s)
         /\ Last(s) = s[Len(s)] /\ Last(s) \in S
         /\ Front(s) \in Seq(S) /\ Len(Front(s)) = Len(s) - 1
         /\ Front(s) = SubSeq(s, 1, Len(s) - 1)
         /\ \A i \in 1 .. Len(s) - 1 : Front(s)[i] = s[i]
<1>1. Len(s) \in Nat \ {0} /\ DOMAIN s = 1 .. Len(s) /\ s[Len(s)] \in S
  BY EmptySeq, LenProperties
<1>2. Len(s) - 1 \in 0 .. Len(s)
  BY <1>1
<1>3. /\ SubSeq(s, 1, Len(s) - 1) \in Seq(S) /\ Len(SubSeq(s, 1, Len(s) - 1)) = Len(s) - 1
      /\ \A i \in 1 .. Len(s) - 1 : SubSeq(s, 1, Len(s) - 1)[i] = s[i]
  BY <1>2, PrefixFacts
<1>. QED
  BY <1>1, <1>3 DEF Front, Last

LEMMA PathPrefix ==
  ASSUME NEW u \in Paths, NEW k \in 0 .. Len(u) - 1
  PROVE  /\ SubSeq(u, 1, k) \in Paths
         /\ SubSeq(u, 1, k + 1) \in Paths \ {Root}
         /\ Front(SubSeq(u, 1, k + 1)) = SubSeq(u, 1, k)
         /\ k + 1 \in 1 .. Len(u)
         /\ k + 1 = Len(u) => SubSeq(u, 1, k + 1) = u
<1> USE DEF Paths
<1> DEFINE c == SubSeq(u, 1, k + 1)
           a == SubSeq(u, 1, k)
<1>1. Len(u) \in Nat /\ k \in 0 .. Len(u) /\ k + 1 \in 0 .. Len(u) /\ k + 1 \in 1 .. Len(u)
  BY LenProperties
<1>2. /\ c \in Seq(Nat) /\ Len(c) = k + 1 /\ \A i \in 1 .. k + 1 : c[i] = u[i]
      /\ a \in Seq(Nat) /\ Len(a) = k /\ \A i \in 1 .. k : a[i] = u[i]
  BY <1>1, PrefixFacts
<1> HIDE DEF a, c
<1>3. c # Root
  BY <1>1, <1>2, EmptySeq DEF Root
<1>4. /\ Front(c) \in Seq(Nat) /\ Len(Front(c)) = Len(c) - 1
      /\ \A i \in 1 .. Len(c) - 1 : Front(c)[i] = c[i]
  BY <1>2, <1>3, FrontLast DEF Root
<1>5. Len(c) - 1 = k /\ \A i \in 1 .. k : i \in 1 .. k + 1
  BY <1>1, <1>2
<1>6. Front(c) = a
  <2>1. Len(Front(c)) = Len(a) /\ \A i \in 1 .. Len(Front(c)) : Front(c)[i] = a[i]
    BY <1>2, <1>4, <1>5
  <2>. QED
    BY <1>2, <1>4, <2>1, SeqEqual
<1>7. k + 1 = Len(u) => c = u
  BY SubSeqFull DEF c
<1>. QED
  BY <1>1, <1>2, <1>3, <1>6, <1>7 DEF a, c

LEMMA PathChild ==
  ASSUME NEW t \in Paths, NEW n \in Nat
  PROVE  /\ Append(t, n) \in Paths \ {Root}
         /\ Front(Append(t, n)) = t /\ Last(Append(t, n)) = n
         /\ Len(t) \in Nat /\ Len(Append(t, n)) = Len(t) + 1
         /\ SubSeq(Append(t, n), 1, Len(t)) = t
         /\ \A k \in 0 .. Len(t) - 1 : SubSeq(Append(t, n), 1, k) = SubSeq(t, 1, k)
<1> USE DEF Paths
<1> DEFINE c == Append(t, n)
<1>1. /\ c \in Seq(Nat) /\ c # <<>> /\ Len(c) = Len(t) + 1 /\ Len(t) \in Nat
      /\ \A i \in 1 .. Len(t) : c[i] = t[i]
      /\ c[Len(t) + 1] = n
  BY AppendProperties, LenProperties
<1> HIDE DEF c
<1>2. /\ Last(c) = c[Len(c)] /\ Front(c) \in Seq(Nat) /\ Len(Front(c)) = Len(c) - 1
      /\ \A i \in 1 .. Len(c) - 1 : Front(c)[i] = c[i]
      /\ Front(c) = SubSeq(c, 1, Len(c) - 1)
  BY <1>1, FrontLast
<1>3. Len(c) - 1 = Len(t)
  BY <1>1
<1>4. Front(c) = t
  BY <1>1, <1>2, <1>3, SeqEqual
<1>5. ASSUME NEW k \in 0 .. Len(t) - 1
      PROVE  SubSeq(c, 1, k) = SubSeq(t, 1, k)
  <2>1. k \in 0 .. Len(t) /\ k \in 0 .. Len(c) /\ \A i \in 1 .. k : i \in 1 .. Len(t)
    BY <1>1
  <2>2. /\ SubSeq(c, 1, k) \in Seq(Nat) /\ Len(SubSeq(c, 1, k)) = k
        /\ \A i \in 1 .. k : SubSeq(c, 1, k)[i] = c[i]
    BY <1>1, <2>1, PrefixFacts
  <2>3. /\ SubSeq(t, 1, k) \in Seq(Nat) /\ Len(SubSeq(t, 1, k)) = k
        /\ \A i \in 1 .. k : SubSeq(t, 1, k)[i] = t[i]
    BY <1>1, <2>1, PrefixFacts
  <2>. QED
    BY <1>1, <2>1, <2>2, <2>3, SeqEqual
<1>. QED
  BY <1>1, <1>2, <1>3, <1>4, <1>5 DEF Root, c

-----------------------------------------------------------------------------
(***************************************************************************)
(* Steps that create no task and apply nothing: tasks move on.             *)
(***************************************************************************)
Calm ==
  /\ UNCHANGED <<kind, whole, space, kids, acc, applied>>
  /\ at' \in [Tasks -> Points] /\ except' \in [Tasks -> BOOLEAN]
  /\ \A t \in Tasks :
       /\ except[t] => except'[t]
       /\ at'[t] \in {"queued", "body"} => at[t] \in {"queued", "body"}
       /\ at'[t] \in {"wait", "look"} => kids[t] # <<>>
       /\ at[t] = "done" => at'[t] = "done"
       /\ at'[t] = "done" => Finished(t)
       /\ Finished(t)' => kids[t] = <<>>
       /\ Applied(t)' => Applied(t)

LEMMA CalmStep ==
  ASSUME IInv, Calm
  PROVE  Tree' /\ Family' /\ Progress' /\ Partition' /\ Tasks' = Tasks
<1> USE DEF IInv
<1>1. Tasks' = Tasks
  BY DEF Calm, Tasks
<1>2. ASSUME NEW u \in Tasks, NEW k \in 0 .. Len(u) - 1
      PROVE  /\ SubSeq(u, 1, k) \in Tasks
             /\ at'[SubSeq(u, 1, k)] = "done" => at'[u] = "done"
  <2> DEFINE a == SubSeq(u, 1, k)
             c == SubSeq(u, 1, k + 1)
  <2>1. a \in Tasks /\ (at[a] = "done" => at[u] = "done")
    BY DEF Tree
  <2>2. /\ c \in Paths \ {Root} /\ Front(c) = a
        /\ k + 1 \in 1 .. Len(u) /\ (k + 1 = Len(u) => c = u)
    BY PathPrefix DEF TypeOK
  <2>3. Len(u) \in Nat
    BY LenProperties DEF TypeOK, Paths
  <2>4. c \in Tasks /\ (at[c] = "done" => at[u] = "done")
    <3>1. CASE k + 1 = Len(u)
      BY <2>2, <3>1
    <3>2. CASE k + 1 # Len(u)
      <4>1. k + 1 \in 0 .. Len(u) - 1
        BY <2>2, <2>3, <3>2
      <4>. QED
        BY <4>1 DEF Tree
    <3>. QED
      BY <3>1, <3>2
  <2> HIDE DEF a, c
  <2>5. ASSUME at'[a] = "done", at[a] # "done"
        PROVE  at[c] = "done"
    <3>1. DOMAIN kids[a] = {}
      <4>1. kids[a] = <<>>
        BY <2>1, <2>5 DEF Calm, Progress
      <4>. QED
        BY <4>1
    <3>. QED
      BY <2>2, <2>4, <3>1 DEF Family
  <2>. QED
    BY <2>1, <2>4, <2>5 DEF Calm, a
<1>3. Tree'
  BY <1>1, <1>2 DEF Tree
<1>4. Family'
  <2>1. \A u \in Tasks \ {Root} : Front(u) \in Tasks
    <3> TAKE u \in Tasks \ {Root}
    <3>1. u \in Seq(Nat) /\ u # <<>>
      BY DEF TypeOK, Paths, Root
    <3>2. Len(u) \in Nat \ {0} /\ Front(u) = SubSeq(u, 1, Len(u) - 1)
      BY <3>1, FrontLast
    <3>3. Len(u) - 1 \in 0 .. Len(u) - 1
      BY <3>2
    <3>. QED
      BY <3>2, <3>3 DEF Tree
  <2>. QED
    BY <1>1, <2>1 DEF Family, Calm
<1>5. Progress'
  BY <1>1 DEF Progress, Calm
<1>6. Partition'
  BY <1>1 DEF Partition, Calm, Index, Indices
<1>. QED
  BY <1>1, <1>3, <1>4, <1>5, <1>6

-----------------------------------------------------------------------------
(***************************************************************************)
(* The stacks.                                                             *)
(***************************************************************************)
Top(w) == Last(stack[w])

LEMMA TopFacts ==
  ASSUME IInv, NEW w \in Workers, stack[w] # <<>>
  PROVE  /\ Len(stack[w]) \in Nat \ {0} /\ Len(stack[w]) \in DOMAIN stack[w]
         /\ Top(w) = stack[w][Len(stack[w])] /\ Top(w) \in Tasks
         /\ at[Top(w)] \notin {"queued", "done"}
<1>1. stack[w] \in Seq(Paths)
  BY DEF IInv, TypeOK
<1>2. /\ Len(stack[w]) \in Nat \ {0} /\ DOMAIN stack[w] = 1 .. Len(stack[w])
      /\ Top(w) = stack[w][Len(stack[w])]
  BY <1>1, FrontLast DEF Top
<1>. QED
  BY <1>2 DEF IInv, Stacks

\* The task on top of a stack moves, and those that are not on top of one and
\* not in the stacks.
LEMMA TopMoves ==
  ASSUME IInv, NEW w \in Workers, stack[w] # <<>>, stack' = stack,
         at' \in [Tasks -> Points], at'[Top(w)] \notin {"queued", "done"},
         \A t \in Tasks \ {Top(w)} : at'[t] = at[t]
  PROVE  Stacks'
<1> USE DEF IInv
<1>1. Tasks' = Tasks
  BY DEF Tasks
<1>2. /\ Len(stack[w]) \in DOMAIN stack[w] /\ Top(w) = stack[w][Len(stack[w])] /\ Top(w) \in Tasks
  BY TopFacts
<1>3. ASSUME NEW v \in Workers, NEW i \in DOMAIN stack[v]
      PROVE  /\ stack[v][i] \in Tasks
             /\ IF i = Len(stack[v]) THEN at'[stack[v][i]] \notin {"queued", "done"}
                                     ELSE at'[stack[v][i]] = "wait"
  <2>1. CASE stack[v][i] = Top(w)
    <3>1. v = w /\ i = Len(stack[w])
      BY <1>2, <2>1 DEF Stacks
    <3>. QED
      BY <1>2, <3>1
  <2>2. CASE stack[v][i] # Top(w)
    BY <2>2 DEF Stacks
  <2>. QED
    BY <2>1, <2>2
<1>. QED
  BY <1>1, <1>3 DEF Stacks

\* The task on top is taken off, and the one below it, if any, goes to "wait"
\* or "notify".
LEMMA PopStack ==
  ASSUME IInv, NEW w \in Workers, stack[w] # <<>>,
         stack' = [stack EXCEPT ![w] = Front(@)],
         at' \in [Tasks -> Points],
         \A t \in Tasks : at'[t] # at[t] =>
           \/ t = Top(w)
           \/ Len(stack[w]) > 1 /\ t = stack[w][Len(stack[w]) - 1] /\ at'[t] = "notify"
  PROVE  Stacks' /\ stack' \in [Workers -> Seq(Paths)]
<1> USE DEF IInv
<1> DEFINE s == stack[w]
           n == Len(s)
<1>1. Tasks' = Tasks
  BY DEF Tasks
<1>2. n \in Nat \ {0} /\ n \in DOMAIN s /\ Top(w) = s[n] /\ Top(w) \in Tasks
  BY TopFacts
<1>3. s \in Seq(Paths) /\ s # <<>>
  BY DEF TypeOK
<1>4. /\ DOMAIN s = 1 .. n /\ Front(s) \in Seq(Paths) /\ Len(Front(s)) = n - 1
      /\ \A i \in 1 .. n - 1 : Front(s)[i] = s[i]
  BY <1>3, FrontLast
<1>5. DOMAIN Front(s) = 1 .. n - 1
  BY <1>4, LenProperties
<1>6. stack' \in [Workers -> Seq(Paths)] /\ stack'[w] = Front(s) /\ \A v \in Workers \ {w} : stack'[v] = stack[v]
  BY <1>4 DEF TypeOK
<1> HIDE DEF s, n
<1>7. ASSUME NEW i \in 1 .. n - 1
      PROVE  /\ s[i] \in Tasks /\ s[i] # Top(w)
             /\ i = n - 1 => at'[s[i]] \notin {"queued", "done"}
             /\ i # n - 1 => at'[s[i]] = "wait"
  <2>1. i \in 1 .. n /\ i # n /\ n - 1 \in 1 .. n
    BY <1>2
  <2>2. s[i] \in Tasks /\ at[s[i]] = "wait" /\ s[i] # Top(w)
    BY <1>2, <1>4, <2>1 DEF Stacks, s, n
  <2>3. s[i] = s[n - 1] => i = n - 1
    BY <1>4, <2>1 DEF Stacks, s, n
  <2>4. at'[s[i]] # at[s[i]] => s[i] = s[n - 1] /\ at'[s[i]] = "notify"
    BY <2>2 DEF s, n
  <2>. QED
    BY <2>2, <2>3, <2>4
<1>8. ASSUME NEW v \in Workers \ {w}, NEW i \in DOMAIN stack[v]
      PROVE  /\ stack[v][i] \in Tasks
             /\ IF i = Len(stack[v]) THEN at'[stack[v][i]] \notin {"queued", "done"}
                                     ELSE at'[stack[v][i]] = "wait"
             /\ \A j \in 1 .. n : stack[v][i] # s[j]
  <2>1. \A j \in 1 .. n : stack[v][i] # s[j]
    BY <1>4 DEF Stacks, s, n
  <2>2. at'[stack[v][i]] = at[stack[v][i]]
    <3>1. n > 1 => n - 1 \in 1 .. n
      BY <1>2
    <3>. QED
      BY <1>2, <1>4, <2>1, <3>1 DEF Stacks, s, n
  <2>. QED
    BY <2>1, <2>2 DEF Stacks
<1>9. ASSUME NEW v \in Workers, NEW i \in DOMAIN stack'[v]
      PROVE  /\ stack'[v][i] \in Tasks
             /\ IF i = Len(stack'[v]) THEN at'[stack'[v][i]] \notin {"queued", "done"}
                                      ELSE at'[stack'[v][i]] = "wait"
  <2>1. CASE v = w
    BY <1>4, <1>5, <1>6, <1>7, <2>1
  <2>2. CASE v # w
    BY <1>6, <1>8, <2>2
  <2>. QED
    BY <2>1, <2>2
<1>10. \A u, v \in Workers : \A i \in DOMAIN stack'[u], j \in DOMAIN stack'[v] :
         stack'[u][i] = stack'[v][j] => u = v /\ i = j
  <2>1. ASSUME NEW v \in Workers, NEW i \in DOMAIN stack'[v]
        PROVE  i \in DOMAIN stack[v] /\ stack'[v][i] = stack[v][i]
    <3>1. CASE v = w
      <4>1. i \in 1 .. n - 1 /\ i \in 1 .. n
        BY <1>2, <1>5, <1>6, <3>1
      <4>. QED
        BY <1>4, <1>6, <3>1, <4>1 DEF s, n
    <3>2. CASE v # w
      BY <1>6, <3>2
    <3>. QED
      BY <3>1, <3>2
  <2>. QED
    BY <2>1 DEF Stacks
<1>. QED
  BY <1>1, <1>6, <1>9, <1>10 DEF Stacks

\* A task that is on no stack is put on top of one whose top may wait.
LEMMA PushStack ==
  ASSUME IInv, NEW w \in Workers, NEW t \in Tasks, at[t] = "queued",
         stack' = [stack EXCEPT ![w] = Append(@, t)],
         at' = [u \in Tasks |-> IF u = t THEN "body"
                                ELSE IF stack[w] # <<>> /\ u = Last(stack[w]) THEN "wait"
                                ELSE at[u]]
  PROVE  Stacks' /\ stack' \in [Workers -> Seq(Paths)]
<1> USE DEF IInv
<1> DEFINE s == stack[w]
           n == Len(s)
<1>1. Tasks' = Tasks /\ at'[t] = "body"
  BY DEF Tasks
<1>2. s \in Seq(Paths) /\ t \in Paths
  BY DEF TypeOK
<1>3. /\ n \in Nat /\ DOMAIN s = 1 .. n /\ Append(s, t) \in Seq(Paths)
      /\ Len(Append(s, t)) = n + 1 /\ Append(s, t)[n + 1] = t
      /\ \A i \in 1 .. n : Append(s, t)[i] = s[i]
  BY <1>2, AppendProperties, LenProperties
<1>4. DOMAIN Append(s, t) = 1 .. n + 1
  BY <1>3, LenProperties
<1>5. /\ stack' \in [Workers -> Seq(Paths)] /\ stack'[w] = Append(s, t)
      /\ \A v \in Workers \ {w} : stack'[v] = stack[v]
  BY <1>3 DEF TypeOK
<1> HIDE DEF s, n
<1>6. s # <<>> => n \in DOMAIN s /\ Last(s) = s[n]
  <2>1. ASSUME s # <<>>
        PROVE  Len(s) \in Nat \ {0} /\ DOMAIN s = 1 .. Len(s) /\ Last(s) = s[Len(s)]
    BY <1>2, <2>1, FrontLast
  <2>. QED
    BY <2>1 DEF n
\* t is on no stack.
<1>7. \A v \in Workers : \A i \in DOMAIN stack[v] : stack[v][i] # t
  BY DEF Stacks
<1>8. ASSUME NEW i \in 1 .. n
      PROVE  s[i] \in Tasks /\ at'[s[i]] = "wait"
  <2>1. s[i] \in Tasks /\ s[i] # t /\ (i # n => at[s[i]] = "wait")
    BY <1>3, <1>7 DEF Stacks, s, n
  <2>2. i = n => s # <<>> /\ s[i] = Last(s)
    <3>1. s = <<>> => n = 0
      BY DEF n
    <3>. QED
      BY <1>3, <1>6, <3>1
  <2>. QED
    BY <2>1, <2>2 DEF s
<1>9. ASSUME NEW v \in Workers \ {w}, NEW i \in DOMAIN stack[v]
      PROVE  stack[v][i] \in Tasks /\ at'[stack[v][i]] = at[stack[v][i]]
  <2>1. stack[v][i] \in Tasks /\ stack[v][i] # t
    BY <1>7 DEF Stacks
  <2>2. s # <<>> => stack[v][i] # Last(s)
    BY <1>6 DEF Stacks, s
  <2>. QED
    BY <2>1, <2>2 DEF s
<1>10. ASSUME NEW v \in Workers, NEW i \in DOMAIN stack'[v]
       PROVE  /\ stack'[v][i] \in Tasks
              /\ IF i = Len(stack'[v]) THEN at'[stack'[v][i]] \notin {"queued", "done"}
                                       ELSE at'[stack'[v][i]] = "wait"
  <2>1. CASE v = w
    <3>1. i \in 1 .. n \/ i = n + 1
      BY <1>3, <1>4, <1>5, <2>1
    <3>2. n + 1 \notin 1 .. n /\ Len(stack'[v]) = n + 1
      BY <1>3, <1>5, <2>1
    <3>3. CASE i = n + 1
      <4>1. stack'[v][i] = t
        BY <1>3, <1>5, <2>1, <3>3
      <4>. QED
        BY <1>1, <3>2, <3>3, <4>1
    <3>4. CASE i \in 1 .. n
      <4>1. stack'[v][i] = s[i]
        BY <1>3, <1>5, <2>1, <3>4
      <4>. QED
        BY <1>8, <3>2, <3>4, <4>1
    <3>. QED
      BY <3>1, <3>3, <3>4
  <2>2. CASE v # w
    BY <1>5, <1>9, <2>2 DEF Stacks
  <2>. QED
    BY <2>1, <2>2
<1>11. \A u, v \in Workers : \A i \in DOMAIN stack'[u], j \in DOMAIN stack'[v] :
         stack'[u][i] = stack'[v][j] => u = v /\ i = j
  <2>1. ASSUME NEW v \in Workers, NEW i \in DOMAIN stack'[v]
        PROVE  \/ v = w /\ i = n + 1 /\ stack'[v][i] = t
               \/ i \in DOMAIN stack[v] /\ stack'[v][i] = stack[v][i] /\ stack[v][i] # t
    <3>1. CASE v = w
      <4>1. i \in 1 .. n \/ i = n + 1
        BY <1>3, <1>4, <1>5, <3>1
      <4>. QED
        BY <1>3, <1>5, <1>7, <3>1, <4>1 DEF s, n
    <3>2. CASE v # w
      BY <1>5, <1>7, <3>2
    <3>. QED
      BY <3>1, <3>2
  <2>. QED
    BY <2>1 DEF Stacks
<1>. QED
  BY <1>1, <1>5, <1>10, <1>11 DEF Stacks

-----------------------------------------------------------------------------
(***************************************************************************)
(* The calm steps, one lemma for each action.                              *)
(***************************************************************************)
LEMMA CalmInvariant ==
  ASSUME IInv, Calm, Stacks', stack' \in [Workers -> Seq(Paths)],
         status' = status \/ status' \in {"waiting", "caught", "terminated", "undefined"}
                          \/ (status' = "returned" /\ at[Root] = "done")
  PROVE  IInv'
<1>1. Tree' /\ Family' /\ Progress' /\ Partition' /\ Tasks' = Tasks
  BY CalmStep
<1>2. TypeOK'
  <2>1. kind' = kind /\ whole' = whole /\ space' = space /\ kids' = kids /\ acc' = acc
        /\ applied' = applied /\ at' \in [Tasks -> Points] /\ except' \in [Tasks -> BOOLEAN]
    BY DEF Calm
  <2>. QED
    BY <1>1, <2>1 DEF IInv, TypeOK, Space, Index, Paths
<1>3. Returned'
  BY DEF IInv, Returned, TypeOK, Calm
<1>. QED
  BY <1>1, <1>2, <1>3 DEF IInv

\* A task moves from one point of its function to another.
LEMMA MoveCalm ==
  ASSUME IInv, NEW t \in Tasks, NEW p \in Points \ {"queued", "body"},
         at' = [at EXCEPT ![t] = p], at[t] # "done",
         p = "done" => Finished(t), p \in {"wait", "look"} => kids[t] # <<>>,
         p = "notify" => kids[t] = <<>>,
         Applied(t),
         UNCHANGED <<kind, whole, space, kids, acc, except, applied>>
  PROVE  Calm
  BY DEF IInv, TypeOK, Calm, Applied, Finished, Progress

\* An exception leaves a task's function.
LEMMA UnwindCalm ==
  ASSUME IInv, NEW t \in Tasks, NEW others, Unwind(t, others), at[t] # "done",
         UNCHANGED <<kind, whole, applied>>
  PROVE  Calm
<1>1. /\ at' = [at EXCEPT ![t] = "notify"] /\ except' = [u \in Tasks |-> except[u] \/ u \in {t} \cup others]
      /\ UNCHANGED <<space, kids, acc>>
  BY DEF Unwind
<1>2. /\ at \in [Tasks -> Points] /\ except \in [Tasks -> BOOLEAN]
  BY DEF IInv, TypeOK
<1>3. at' \in [Tasks -> Points] /\ except' \in [Tasks -> BOOLEAN]
  BY <1>1, <1>2 DEF Points
<1>4. except'[t] /\ at'[t] = "notify" /\ \A u \in Tasks \ {t} : at'[u] = at[u]
  BY <1>1, <1>2
<1>5. \A u \in Tasks : except[u] => except'[u]
  BY <1>1
<1>. QED
  BY <1>1, <1>3, <1>4, <1>5 DEF Calm, IInv, Progress, Applied, Finished

\* A step of the task on top of a stack that leaves the stacks alone.
LEMMA TopCalm ==
  ASSUME IInv, Calm, NEW w \in Workers, Alive, stack[w] # <<>>, UNCHANGED <<stack, status>>,
         at'[Top(w)] \notin {"queued", "done"},
         \A t \in Tasks \ {Top(w)} : at'[t] = at[t]
  PROVE  IInv'
<1>1. at' \in [Tasks -> Points]
  BY DEF Calm
<1>2. stack' \in [Workers -> Seq(Paths)]
  BY DEF IInv, TypeOK
<1>. QED
  BY <1>1, <1>2, TopMoves, CalmInvariant

LEMMA WaitStep ==
  ASSUME IInv, NEW w \in Workers, Wait(w)
  PROVE  IInv' /\ Calm
<1> DEFINE t == Top(w)
<1>1. /\ stack[w] # <<>> /\ Alive /\ t \in Tasks /\ at[t] = "join" /\ at \in [Tasks -> Points]
  BY TopFacts DEF Wait, At, Top, IInv, TypeOK
<1>2. UNCHANGED <<kind, whole, applied, stack, status>>
  BY DEF Wait, program
<1>3. \/ kids[t] = <<>> /\ at' = [at EXCEPT ![t] = "notify"] /\ UNCHANGED <<space, kids, acc, except>>
      \/ Unwind(t, {})
      \/ kids[t] # <<>> /\ at' = [at EXCEPT ![t] = "wait"] /\ UNCHANGED <<space, kids, acc, except>>
  BY DEF Wait, Top
<1>4. Applied(t)
  BY <1>1 DEF Applied
<1> HIDE DEF t
<1>5. Calm
  <2>1. CASE kids[t] = <<>> /\ at' = [at EXCEPT ![t] = "notify"] /\ UNCHANGED <<space, kids, acc, except>>
    BY <1>1, <1>2, <1>4, <2>1, MoveCalm DEF Points
  <2>2. CASE Unwind(t, {})
    BY <1>1, <1>2, <2>2, UnwindCalm
  <2>3. CASE kids[t] # <<>> /\ at' = [at EXCEPT ![t] = "wait"] /\ UNCHANGED <<space, kids, acc, except>>
    BY <1>1, <1>2, <1>4, <2>3, MoveCalm DEF Points
  <2>. QED
    BY <1>3, <2>1, <2>2, <2>3
<1>6. at' = [at EXCEPT ![t] = "notify"] \/ at' = [at EXCEPT ![t] = "wait"]
  BY <1>3 DEF Unwind
<1>. QED
  BY <1>1, <1>2, <1>5, <1>6, TopCalm DEF t

LEMMA NothingStep ==
  ASSUME IInv, NEW w \in Workers, Nothing(w)
  PROVE  IInv' /\ Calm
<1> DEFINE t == Top(w)
<1>1. /\ stack[w] # <<>> /\ Alive /\ t \in Tasks /\ at[t] = "look" /\ at \in [Tasks -> Points]
      /\ kids[t] # <<>>
  BY TopFacts DEF Nothing, At, Top, IInv, TypeOK, Progress
<1>2. UNCHANGED <<kind, whole, space, kids, acc, except, applied, stack, status>>
      /\ at' = [at EXCEPT ![t] = "wait"]
  BY DEF Nothing, program, Top
<1>4. Applied(t)
  BY <1>1 DEF Applied
<1> HIDE DEF t
<1>5. Calm
  BY <1>1, <1>2, <1>4, MoveCalm DEF Points
<1>. QED
  BY <1>1, <1>2, <1>5, TopCalm DEF t

LEMMA TakeStep ==
  ASSUME IInv, NEW w \in Workers, Take(w)
  PROVE  IInv' /\ Calm
<1>1. PICK t \in Tasks :
        /\ at[t] = "queued"
        /\ stack' = [stack EXCEPT ![w] = Append(@, t)]
        /\ at' = [u \in Tasks |-> IF u = t THEN "body"
                                  ELSE IF stack[w] # <<>> /\ u = Last(stack[w]) THEN "wait"
                                  ELSE at[u]]
  BY DEF Take, Exposed, Queued
<1>2. /\ UNCHANGED <<kind, whole, space, kids, acc, except, applied, status>>
      /\ stack[w] # <<>> => at[Last(stack[w])] = "look"
  BY DEF Take, MayTake, program
<1>3. Stacks' /\ stack' \in [Workers -> Seq(Paths)]
  BY <1>1, PushStack
<1>4. at \in [Tasks -> Points] /\ except \in [Tasks -> BOOLEAN]
  BY DEF IInv, TypeOK
<1>5. ASSUME NEW u \in Tasks
      PROVE  \/ at[u] = "queued" /\ at'[u] = "body"
             \/ at[u] = "look" /\ at'[u] = "wait"
             \/ at'[u] = at[u]
  BY <1>1, <1>2
<1>6. at' \in [Tasks -> Points]
  BY <1>1, <1>4 DEF Points
<1>7. Calm
  BY <1>2, <1>4, <1>5, <1>6 DEF Calm, IInv, Progress, Applied, Finished
<1>. QED
  BY <1>2, <1>3, <1>7, CalmInvariant

LEMMA NotifyStep ==
  ASSUME IInv, NEW w \in Workers, Notify(w)
  PROVE  IInv' /\ Calm
<1> DEFINE t == Top(w)
           s == stack[w]
           below == s[Len(s) - 1]
<1>1. /\ s # <<>> /\ Alive /\ t \in Tasks /\ at[t] = "notify" /\ at \in [Tasks -> Points]
      /\ except \in [Tasks -> BOOLEAN] /\ Len(s) \in Nat \ {0}
  BY TopFacts DEF Notify, At, Top, IInv, TypeOK
<1>2. /\ UNCHANGED <<kind, whole, applied>> /\ stack' = [stack EXCEPT ![w] = Front(@)]
      /\ Notified(w, t)
  BY DEF Notify, program, Top
<1>3. CASE ~ except[t]
  <2>1. at' = [at EXCEPT ![t] = "done"] /\ UNCHANGED <<space, kids, acc, except, status>>
    BY <1>2, <1>3 DEF Notified, Complete
  <2>2. Applied(t) /\ Finished(t)
    BY <1>1, <1>3 DEF Applied, Finished
  <2>3. Calm
    <3> HIDE DEF t
    <3>. QED
      BY <1>1, <1>2, <2>1, <2>2, MoveCalm DEF Points
  <2>4. Stacks' /\ stack' \in [Workers -> Seq(Paths)]
    <3>1. at' \in [Tasks -> Points] /\ \A u \in Tasks : at'[u] # at[u] => u = Top(w)
      BY <2>1, <2>3 DEF Calm
    <3>. QED
      BY <1>1, <1>2, <3>1, PopStack
  <2>. QED
    BY <2>1, <2>3, <2>4, CalmInvariant
<1>4. ASSUME except[t], Len(s) = 1
      PROVE  IInv' /\ Calm
  <2>1. status' = "terminated" /\ UNCHANGED <<at, space, kids, acc, except>>
    BY <1>2, <1>4 DEF Notified, handles
  <2>2. Calm
    BY <1>1, <1>2, <2>1 DEF Calm, IInv, Progress, Applied, Finished
  <2>3. Stacks' /\ stack' \in [Workers -> Seq(Paths)]
    BY <1>1, <1>2, <2>1, PopStack
  <2>. QED
    BY <2>1, <2>2, <2>3, CalmInvariant
<1>5. ASSUME except[t], Len(s) # 1
      PROVE  IInv' /\ Calm
  <2>1. Unwind(below, {Awaited(below)}) /\ status' = status
    BY <1>2, <1>5 DEF Notified
  <2>2. below \in Tasks /\ at[below] = "wait" /\ Len(s) > 1
    <3>1. s \in Seq(Paths)
      BY DEF IInv, TypeOK
    <3>2. DOMAIN s = 1 .. Len(s)
      BY <3>1, LenProperties
    <3>3. Len(s) - 1 \in DOMAIN s /\ Len(s) - 1 # Len(s) /\ Len(s) > 1
      <4> DEFINE n == Len(s)
      <4>1. n \in Nat \ {0} /\ n # 1 /\ DOMAIN s = 1 .. n
        BY <1>1, <1>5, <3>2
      <4> HIDE DEF n, s
      <4>2. n - 1 \in 1 .. n /\ n - 1 # n /\ n > 1
        BY <4>1
      <4>. QED
        BY <4>1, <4>2 DEF n
    <3>. QED
      BY <3>3 DEF IInv, Stacks
  <2>3. Calm
    <3> HIDE DEF below
    <3>. QED
      BY <1>2, <2>1, <2>2, UnwindCalm
  <2>4. Stacks' /\ stack' \in [Workers -> Seq(Paths)]
    <3>1. /\ at' \in [Tasks -> Points]
          /\ \A u \in Tasks : at'[u] # at[u] => u = below /\ at'[u] = "notify"
      BY <2>1, <2>3 DEF Calm, Unwind
    <3>. QED
      BY <1>1, <1>2, <2>2, <3>1, PopStack
  <2>. QED
    BY <2>1, <2>3, <2>4, CalmInvariant
<1>. QED
  BY <1>3, <1>4, <1>5

\* Steps that move no task.
LEMMA StillStep ==
  ASSUME IInv, UNCHANGED <<program, handles, applied, stack>>,
         status' = status \/ status' \in {"waiting", "caught", "terminated", "undefined"}
                          \/ (status' = "returned" /\ at[Root] = "done")
  PROVE  IInv' /\ Calm
<1>1. Calm
  BY DEF Calm, IInv, TypeOK, Progress, Applied, Finished, program, handles
<1>2. Stacks' /\ stack' \in [Workers -> Seq(Paths)]
  BY DEF IInv, TypeOK, Stacks, Tasks, handles
<1>. QED
  BY <1>1, <1>2, CalmInvariant

-----------------------------------------------------------------------------
(***************************************************************************)
(* The steps that are not calm: a wait that is over, an application, and   *)
(* the creation of a task.                                                 *)
(***************************************************************************)

\* A wait that is over takes what it waited for out of kids, and nothing else.
LEMMA AwaitedOthers ==
  ASSUME NEW t \in Tasks, kids[t] \in Seq(Paths), kids[t] # <<>>
  PROVE  /\ Awaited(t) \in Paths /\ Others(t) \in Seq(Paths)
         /\ \E k \in DOMAIN kids[t] : kids[t][k] = Awaited(t)
         /\ \A i \in DOMAIN Others(t) : \E k \in DOMAIN kids[t] : Others(t)[i] = kids[t][k]
         /\ \A k \in DOMAIN kids[t] :
              kids[t][k] = Awaited(t) \/ \E i \in DOMAIN Others(t) : Others(t)[i] = kids[t][k]
<1> DEFINE s == kids[t]
           n == Len(s)
<1>1. s \in Seq(Paths) /\ s # <<>>
  OBVIOUS
<1> HIDE DEF s
<1>2. /\ n \in Nat \ {0} /\ DOMAIN s = 1 .. n
      /\ Last(s) = s[n] /\ Last(s) \in Paths
      /\ Front(s) \in Seq(Paths) /\ Len(Front(s)) = n - 1
      /\ \A i \in 1 .. n - 1 : Front(s)[i] = s[i]
  BY <1>1, FrontLast
<1>3. /\ Head(s) \in Paths /\ Tail(s) \in Seq(Paths) /\ Head(s) = s[1]
      /\ Len(Tail(s)) = n - 1 /\ \A i \in 1 .. n - 1 : Tail(s)[i] = s[i + 1]
  BY <1>1, HeadTailProperties
<1>4. DOMAIN Front(s) = 1 .. n - 1 /\ DOMAIN Tail(s) = 1 .. n - 1
  BY <1>2, <1>3, LenProperties
<1> HIDE DEF n
<1>5. CASE kind = "while"
  <2>1. Awaited(t) = Head(s) /\ Others(t) = Tail(s)
    BY <1>5 DEF Awaited, Others, s
  <2>2. 1 \in 1 .. n /\ \A i \in 1 .. n - 1 : i + 1 \in 1 .. n
    BY <1>2
  <2>3. ASSUME NEW k \in 1 .. n
        PROVE  s[k] = Head(s) \/ \E i \in 1 .. n - 1 : Tail(s)[i] = s[k]
    <3>1. k = 1 \/ (k - 1 \in 1 .. n - 1 /\ k - 1 + 1 = k)
      BY <1>2
    <3>. QED
      BY <1>3, <3>1
  <2>4. /\ \E k \in 1 .. n : s[k] = Head(s)
        /\ \A i \in 1 .. n - 1 : \E k \in 1 .. n : Tail(s)[i] = s[k]
    BY <1>3, <2>2
  <2>5. /\ Awaited(t) \in Paths /\ Others(t) \in Seq(Paths)
        /\ \E k \in DOMAIN s : s[k] = Awaited(t)
    BY <1>2, <1>3, <2>1, <2>4
  <2>6. DOMAIN s = 1 .. n /\ DOMAIN Others(t) = 1 .. n - 1
    BY <1>2, <1>4, <2>1
  <2>7. \A i \in DOMAIN Others(t) : \E k \in DOMAIN s : Others(t)[i] = s[k]
    BY <2>1, <2>4, <2>6, Zenon
  <2>8. \A k \in DOMAIN s :
          s[k] = Awaited(t) \/ \E i \in DOMAIN Others(t) : Others(t)[i] = s[k]
    BY <2>1, <2>3, <2>6, Zenon
  <2>. QED
    BY <2>5, <2>7, <2>8 DEF s
<1>6. CASE kind # "while"
  <2>1. Awaited(t) = Last(s) /\ Others(t) = Front(s)
    BY <1>6 DEF Awaited, Others, s
  <2>2. n \in 1 .. n /\ \A i \in 1 .. n - 1 : i \in 1 .. n
    BY <1>2
  <2>3. ASSUME NEW k \in 1 .. n
        PROVE  s[k] = Last(s) \/ \E i \in 1 .. n - 1 : Front(s)[i] = s[k]
    <3>1. k = n \/ k \in 1 .. n - 1
      BY <1>2
    <3>. QED
      BY <1>2, <3>1
  <2>4. /\ \E k \in 1 .. n : s[k] = Last(s)
        /\ \A i \in 1 .. n - 1 : \E k \in 1 .. n : Front(s)[i] = s[k]
    BY <1>2, <2>2
  <2>5. /\ Awaited(t) \in Paths /\ Others(t) \in Seq(Paths)
        /\ \E k \in DOMAIN s : s[k] = Awaited(t)
    BY <1>2, <2>1, <2>4
  <2>6. DOMAIN s = 1 .. n /\ DOMAIN Others(t) = 1 .. n - 1
    BY <1>2, <1>4, <2>1
  <2>7. \A i \in DOMAIN Others(t) : \E k \in DOMAIN s : Others(t)[i] = s[k]
    BY <2>1, <2>4, <2>6, Zenon
  <2>8. \A k \in DOMAIN s :
          s[k] = Awaited(t) \/ \E i \in DOMAIN Others(t) : Others(t)[i] = s[k]
    BY <2>1, <2>3, <2>6, Zenon
  <2>. QED
    BY <2>5, <2>7, <2>8 DEF s
<1>. QED
  BY <1>5, <1>6

\* The prefixes of a task's name, its own but for the last element included.
LEMMA FrontInTasks ==
  ASSUME IInv, NEW u \in Tasks \ {Root}
  PROVE  Front(u) \in Tasks
<1>1. u \in Seq(Nat) /\ u # <<>>
  BY DEF IInv, TypeOK, Paths, Root
<1>2. Len(u) \in Nat \ {0} /\ Front(u) = SubSeq(u, 1, Len(u) - 1)
  BY <1>1, FrontLast
<1>3. Len(u) - 1 \in 0 .. Len(u) - 1
  BY <1>2
<1>. QED
  BY <1>2, <1>3 DEF IInv, Tree

LEMMA CheckStep ==
  ASSUME IInv, NEW w \in Workers, Check(w)
  PROVE  IInv' /\ (Calm \/ at[Awaited(Top(w))] = "done")
<1> USE DEF IInv
<1> DEFINE t == Top(w)
           u == Awaited(t)
<1>1. /\ stack[w] # <<>> /\ Alive /\ t \in Tasks /\ at[t] = "wait" /\ at \in [Tasks -> Points]
      /\ kids[t] # <<>> /\ kids[t] \in Seq(Paths)
  BY TopFacts DEF Check, At, Top, TypeOK, Progress
<1>2. UNCHANGED <<kind, whole, space, except, applied, stack, status>>
  BY DEF Check, program
<1>3. Applied(t)
  BY <1>1 DEF Applied
<1>4. ASSUME at[u] # "done"
      PROVE  IInv' /\ Calm
  <2>1. at' = [at EXCEPT ![t] = "look"] /\ UNCHANGED <<kids, acc>>
    BY <1>4 DEF Check, Top
  <2> HIDE DEF t, u
  <2>2. Calm
    BY <1>1, <1>2, <1>3, <2>1, MoveCalm DEF Points
  <2>. QED
    BY <1>1, <1>2, <2>1, <2>2, TopCalm DEF t
<1>5. ASSUME at[u] = "done"
      PROVE  IInv'
  <2>1. /\ at' = [at EXCEPT ![t] = "join"] /\ kids' = [kids EXCEPT ![t] = Others(t)]
        /\ acc' = IF kind = "reduce" THEN [acc EXCEPT ![t] = @ \o acc[u]] ELSE acc
    BY <1>5 DEF Check, Top
  <2>2. /\ u \in Paths /\ Others(t) \in Seq(Paths)
        /\ \E k \in DOMAIN kids[t] : kids[t][k] = u
        /\ \A i \in DOMAIN Others(t) : \E k \in DOMAIN kids[t] : Others(t)[i] = kids[t][k]
        /\ \A k \in DOMAIN kids[t] :
             kids[t][k] = u \/ \E i \in DOMAIN Others(t) : Others(t)[i] = kids[t][k]
    BY <1>1, AwaitedOthers
  <2>3. u \in Tasks
    BY <1>1, <2>2 DEF Family
  <2> HIDE DEF u
  <2>4. Tasks' = Tasks /\ at'[t] = "join" /\ kids'[t] = Others(t)
        /\ \A x \in Tasks \ {t} : at'[x] = at[x] /\ kids'[x] = kids[x]
    BY <1>1, <2>1 DEF Tasks, TypeOK
  <2>5. TypeOK'
    <3>1. at' \in [Tasks -> Points] /\ kids' \in [Tasks -> Seq(Paths)]
      BY <1>1, <2>1, <2>2 DEF TypeOK, Points
    <3>2. acc' \in [Tasks -> Seq(Int)]
      <4>1. acc[t] \in Seq(Int) /\ acc[u] \in Seq(Int) /\ acc \in [Tasks -> Seq(Int)]
        BY <1>1, <2>3 DEF TypeOK
      <4>2. acc[t] \o acc[u] \in Seq(Int)
        BY <4>1, ConcatProperties
      <4>. QED
        BY <2>1, <4>1, <4>2
    <3>. QED
      BY <1>2, <2>4, <3>1, <3>2 DEF TypeOK, Space, Index, Paths
  <2>6. Tree'
    BY <1>1, <2>4 DEF Tree
  <2>7. Family'
    <3>1. \A x \in Tasks \ {Root} : Front(x) \in Tasks
      BY FrontInTasks
    <3>2. ASSUME NEW x \in Tasks, NEW i \in DOMAIN kids'[x]
          PROVE  kids'[x][i] \in Tasks \ {Root} /\ Front(kids'[x][i]) = x
      BY <2>2, <2>4 DEF Family
    <3>3. ASSUME NEW x \in Tasks \ {Root}
          PROVE  at'[x] = "done" \/ \E i \in DOMAIN kids'[Front(x)] : kids'[Front(x)][i] = x
      <4>1. CASE at[x] = "done"
        BY <1>1, <2>4, <4>1
      <4>2. CASE Front(x) # t
        BY <1>1, <2>4, <3>1, <4>2 DEF Family
      <4>3. CASE Front(x) = t /\ at[x] # "done"
        BY <1>5, <2>2, <2>4, <4>3 DEF Family, u
      <4>. QED
        BY <4>1, <4>2, <4>3
    <3>4. ASSUME NEW x \in Tasks \ {Root}, at'[Front(x)] \in {"queued", "body"}
          PROVE  Last(x) <= Len(kids'[Front(x)])
      BY <2>4, <3>1, <3>4 DEF Family
    <3>. QED
      BY <2>4, <3>2, <3>3, <3>4 DEF Family
  <2>8. Progress'
    BY <1>1, <1>2, <1>3, <2>4 DEF Progress, Applied, Finished
  <2>9. Stacks'
    <3>1. at' \in [Tasks -> Points]
      BY <2>4, <2>5 DEF TypeOK
    <3>. QED
      BY <1>1, <1>2, <2>4, <3>1, TopMoves DEF t
  <2>10. Partition'
    BY <1>2, <2>4 DEF Partition, Index, Indices
  <2>11. Returned'
    BY <1>1, <1>2 DEF Returned, Alive
  <2>. QED
    BY <2>5, <2>6, <2>7, <2>8, <2>9, <2>10, <2>11
<1>. QED
  BY <1>4, <1>5

\* What is left of a space whose indices have all been applied.
LEMMA SpentSpace ==
  ASSUME NEW s \in Space
  PROVE  [s EXCEPT !.begin = s.end] = [begin |-> s.end, end |-> s.end]
<1>1. PICK b \in Index, e \in Index : s = [begin |-> b, end |-> e]
  BY DEF Space
<1>. QED
  BY <1>1

\* What a ReduceExecutable accumulates for a space.
LEMMA PieceIsSeq ==
  ASSUME NEW s \in Space
  PROVE  /\ [i \in 1 .. Length(s) |-> s.begin + i - 1] \in Seq(Int)
         /\ Length(s) \in Nat
<1> DEFINE n == Length(s)
           b == s.begin
<1>1. s.begin \in Int /\ s.end \in Int /\ s.begin <= s.end /\ Length(s) = s.end - s.begin
  BY SplitPointInside, ModulusAssumption DEF Space, Index
<1>2. n \in Nat /\ b \in Int
  BY <1>1
<1> HIDE DEF n, b
<1>3. [i \in 1 .. n |-> b + i - 1] \in [1 .. n -> Int]
  BY <1>2
<1>. QED
  BY <1>2, <1>3, SeqDef DEF n, b

LEMMA ApplyStep ==
  ASSUME IInv, NEW w \in Workers, Apply(w)
  PROVE  IInv' /\ (Calm \/ at' = [at EXCEPT ![Top(w)] = "join"])
<1> USE DEF IInv
<1> DEFINE t == Top(w)
           mine == Indices(space[t])
<1>1. /\ stack[w] # <<>> /\ Alive /\ t \in Tasks /\ at[t] = "body" /\ at \in [Tasks -> Points]
      /\ space[t] \in Space
  BY TopFacts DEF Apply, At, Top, TypeOK
<1>2. UNCHANGED <<kind, whole, stack, status>>
  BY DEF Apply, program
<1>3. ASSUME Unwind(t, {}), UNCHANGED applied
      PROVE  IInv' /\ Calm
  <2>1. Calm
    <3> HIDE DEF t, mine
    <3>. QED
      BY <1>1, <1>2, <1>3, UnwindCalm
  <2>. QED
    BY <1>1, <1>2, <1>3, <2>1, TopCalm DEF Unwind
<1>4. ASSUME /\ applied' = [i \in Index |-> IF i \in mine THEN applied[i] + 1 ELSE applied[i]]
             /\ acc' = [acc EXCEPT ![t] = @ \o [i \in 1 .. Length(space[t]) |->
                                                  space[t].begin + i - 1]]
             /\ space' = [space EXCEPT ![t].begin = space[t].end]
             /\ at' = [at EXCEPT ![t] = "join"]
             /\ UNCHANGED <<kids, except>>
      PROVE  IInv'
  <2> DEFINE b == space[t].begin
             e == space[t].end
             spent == [begin |-> e, end |-> e]
  <2>1. /\ b \in Index /\ e \in Index /\ e <= e /\ Index \subseteq Int
        /\ Length(space[t]) = e - b /\ b <= e
    BY <1>1, SplitPointInside, ModulusAssumption DEF Space, Index
  <2>2. Tasks' = Tasks /\ at'[t] = "join" /\ space'[t] = spent /\ space \in [Tasks -> Space]
        /\ \A x \in Tasks \ {t} : at'[x] = at[x] /\ space'[x] = space[x]
    <3>1. space \in [Tasks -> Space]
      BY DEF TypeOK
    <3>2. [space[t] EXCEPT !.begin = space[t].end] = spent
      BY <1>1, SpentSpace
    <3> HIDE DEF t, spent
    <3>3. space' = [space EXCEPT ![t] = [space[t] EXCEPT !.begin = space[t].end]]
      BY <1>4, <3>1
    <3>. QED
      BY <1>1, <1>4, <3>1, <3>2, <3>3 DEF Tasks
  <2>3. spent \in Space /\ Indices(spent) = {}
    <3>1. e \in Index /\ e \in Int /\ spent.begin = e /\ spent.end = e
          /\ spent \in [begin : Index, end : Index]
      BY <2>1
    <3> HIDE DEF e, spent
    <3>2. \A i : i \notin e .. e - 1
      BY <3>1
    <3>3. e <= e /\ e .. e - 1 = {}
      BY <3>1, <3>2
    <3>. QED
      BY <3>1, <3>3 DEF Space, Indices
  <2>4. TypeOK'
    <3>1. at' \in [Tasks -> Points] /\ space' \in [Tasks -> Space]
      <4>1. space' \in [Tasks -> Space]
        <5> HIDE DEF t, spent
        <5>1. space' = [space EXCEPT ![t].begin = space[t].end] /\ DOMAIN space = Tasks
          BY <1>4, <2>2
        <5>2. DOMAIN space' = Tasks /\ space' = [x \in Tasks |-> space'[x]]
          BY <5>1
        <5>3. \A x \in Tasks : space'[x] \in Space
          BY <2>2, <2>3
        <5>. QED
          BY <5>2, <5>3
      <4>. QED
        BY <1>1, <1>4, <4>1 DEF Points
    <3>2. acc' \in [Tasks -> Seq(Int)]
      <4> DEFINE piece == [i \in 1 .. Length(space[t]) |-> space[t].begin + i - 1]
      <4>2. piece \in Seq(Int)
        BY <1>1, PieceIsSeq
      <4>3. acc[t] \in Seq(Int) /\ acc \in [Tasks -> Seq(Int)]
        BY <1>1 DEF TypeOK
      <4> HIDE DEF piece
      <4>4. acc[t] \o piece \in Seq(Int)
        BY <4>2, <4>3, ConcatProperties
      <4>. QED
        BY <1>4, <4>3, <4>4 DEF piece
    <3>3. applied' \in [Index -> Nat]
      <4>1. applied \in [Index -> Nat]
        BY DEF TypeOK
      <4> HIDE DEF mine
      <4>. QED
        BY <1>4, <4>1
    <3>4. kids' \in [Tasks -> Seq(Paths)] /\ except' \in [Tasks -> BOOLEAN]
      BY <1>4 DEF TypeOK
    <3>. QED
      BY <1>2, <2>2, <3>1, <3>2, <3>3, <3>4 DEF TypeOK, Space, Index, Paths
  <2> HIDE DEF t, b, e, spent, mine
  <2>5. Tree'
    BY <1>1, <2>2 DEF Tree
  <2>6. Family'
    <3>1. \A x \in Tasks \ {Root} : Front(x) \in Tasks
      BY FrontInTasks
    <3>. QED
      BY <1>1, <1>4, <2>2, <3>1 DEF Family
  <2>7. Progress'
    <3>1. \A x \in Tasks : /\ at'[x] \in {"wait", "look"} => kids'[x] # <<>>
                           /\ Finished(x)' => kids'[x] = <<>>
      BY <1>1, <1>4, <2>2 DEF Progress, Finished
    <3>2. ASSUME NEW x \in Tasks, Applied(x)'
          PROVE  space'[x].begin = space'[x].end
      <4>1. CASE x = t
        BY <2>2, <4>1 DEF spent
      <4>2. CASE x # t
        BY <1>4, <2>2, <3>2, <4>2 DEF Progress, Applied
      <4>. QED
        BY <4>1, <4>2
    <3>. QED
      BY <2>2, <3>1, <3>2 DEF Progress
  <2>8. Stacks'
    <3>1. at' \in [Tasks -> Points]
      BY <2>2, <2>4 DEF TypeOK
    <3>. QED
      BY <1>1, <1>2, <2>2, <3>1, TopMoves DEF t
  <2>9. Partition'
    <3>1. ASSUME NEW i \in Index
          PROVE  IF i \in Indices(whole)
                   THEN \/ /\ applied'[i] = 0
                           /\ \E x \in Tasks : \A u \in Tasks : i \in Indices(space'[u]) <=> u = x
                        \/ applied'[i] = 1 /\ \A u \in Tasks : i \notin Indices(space'[u])
                   ELSE applied'[i] = 0 /\ \A u \in Tasks : i \notin Indices(space'[u])
      <4>1. applied'[i] = IF i \in mine THEN applied[i] + 1 ELSE applied[i]
        BY <1>4
      <4>2. i \notin Indices(space'[t]) /\ \A u \in Tasks \ {t} : space'[u] = space[u]
        BY <2>2, <2>3
      <4>3. CASE i \in mine
        <5>1. /\ i \in Indices(whole) /\ applied[i] = 0
              /\ \E x \in Tasks : \A u \in Tasks : i \in Indices(space[u]) <=> u = x
          BY <1>1, <4>3 DEF Partition, mine
        <5>2. \A u \in Tasks \ {t} : i \notin Indices(space[u])
          BY <1>1, <4>3, <5>1 DEF mine
        <5>3. applied'[i] = 1
          BY <4>1, <4>3, <5>1
        <5>. QED
          BY <4>2, <5>1, <5>2, <5>3
      <4>4. CASE i \notin mine
        <5>1. applied'[i] = applied[i] /\ \A u \in Tasks : i \in Indices(space'[u]) <=> i \in Indices(space[u])
          BY <4>1, <4>2, <4>4 DEF mine
        <5>. QED
          BY <5>1 DEF Partition
      <4>. QED
        BY <4>3, <4>4
    <3>. QED
      BY <1>2, <2>2, <3>1 DEF Partition, Index, Indices
  <2>10. Returned'
    BY <1>1, <1>2 DEF Returned, Alive
  <2>. QED
    BY <2>4, <2>5, <2>6, <2>7, <2>8, <2>9, <2>10
<1>. QED
  BY <1>3, <1>4 DEF Apply, Top

\* The piece that is split off and the rest are spaces, and have each index of
\* the space between them.
LEMMA PieceAndRest ==
  ASSUME NEW s \in Space,
         kind = "while" => s.begin # s.end,
         kind # "while" => CanSplit(s)
  PROVE  /\ PieceOf(s) \in Space /\ RestOf(s) \in Space
         /\ \A i : i \in Indices(s) <=> i \in Indices(PieceOf(s)) \/ i \in Indices(RestOf(s))
         /\ \A i : ~ (i \in Indices(PieceOf(s)) /\ i \in Indices(RestOf(s)))
<1>1. ASSUME kind = "while"
      PROVE  /\ PieceOf(s) \in Space /\ RestOf(s) \in Space
             /\ Indices(PieceOf(s)) = {s.begin}
             /\ Indices(RestOf(s)) = s.begin + 1 .. s.end - 1
             /\ s.begin \in Int /\ s.end \in Int /\ s.begin < s.end
  <2>1. /\ s.begin \in Int /\ s.end \in Int /\ s.begin < s.end /\ Modulus \in Int
        /\ s.begin \in 0 .. Modulus - 1 /\ s.end \in 0 .. Modulus - 1
    BY <1>1, ModulusAssumption DEF Space, Index
  <2>2. /\ PieceOf(s) = [begin |-> s.begin, end |-> s.begin + 1]
        /\ RestOf(s) = [begin |-> s.begin + 1, end |-> s.end]
    BY <1>1 DEF PieceOf, RestOf
  <2>3. /\ s.begin + 1 \in 0 .. Modulus - 1 /\ s.begin <= s.begin + 1 /\ s.begin + 1 <= s.end
        /\ s.begin .. s.begin + 1 - 1 = {s.begin}
    BY <2>1
  <2>. QED
    BY <2>1, <2>2, <2>3 DEF Space, Index, Indices
<1>2. ASSUME kind # "while"
      PROVE  /\ PieceOf(s) \in Space /\ RestOf(s) \in Space
             /\ Indices(RestOf(s)) \cap Indices(PieceOf(s)) = {}
             /\ Indices(RestOf(s)) \cup Indices(PieceOf(s)) = Indices(s)
  BY <1>2, SplitPartitions DEF PieceOf, RestOf
<1>3. CASE kind = "while"
  <2>1. \A i : i \in s.begin .. s.end - 1 <=> i = s.begin \/ i \in s.begin + 1 .. s.end - 1
    BY <1>1, <1>3
  <2>2. s.begin \notin s.begin + 1 .. s.end - 1
    BY <1>1, <1>3
  <2>. QED
    BY <1>1, <1>3, <2>1, <2>2 DEF Indices
<1>4. CASE kind # "while"
  BY <1>2, <1>4
<1>. QED
  BY <1>3, <1>4

\* The task that a body creates has a name of its own.
LEMMA ChildIsNew ==
  ASSUME IInv, NEW t \in Tasks, at[t] = "body"
  PROVE  Append(t, Len(kids[t]) + 1) \notin Tasks
<1>1. t \in Paths /\ Len(kids[t]) \in Nat
  BY LenProperties DEF IInv, TypeOK
<1> DEFINE m == Len(kids[t]) + 1
           c == Append(t, m)
<1>2. c \in Paths \ {Root} /\ Front(c) = t /\ Last(c) = Len(kids[t]) + 1
  <2>1. m \in Nat
    BY <1>1
  <2> HIDE DEF m
  <2>2. c \in Paths \ {Root} /\ Front(c) = t /\ Last(c) = m
    BY <1>1, <2>1, PathChild
  <2>. QED
    BY <2>2 DEF m
<1> HIDE DEF c
<1>3. ASSUME c \in Tasks
      PROVE  FALSE
  <2>1. Last(c) <= Len(kids[t])
    BY <1>2, <1>3 DEF IInv, Family
  <2>. QED
    BY <1>1, <1>2, <2>1
<1>. QED
  BY <1>3 DEF c

LEMMA SpawnStep ==
  ASSUME IInv, NEW w \in Workers, Spawn(w)
  PROVE  IInv'
<1> USE DEF IInv
<1> DEFINE t == Top(w)
           n == Len(kids[t])
           c == Append(t, n + 1)
<1>1. /\ stack[w] # <<>> /\ Alive /\ t \in Tasks /\ at[t] = "body"
      /\ space[t] \in Space /\ kids[t] \in Seq(Paths) /\ t \in Paths
  BY TopFacts DEF Spawn, At, Top, TypeOK
<1>2. UNCHANGED <<kind, whole, applied, stack, status>>
  BY DEF Spawn, program
<1>3. /\ Divisible(t)
      /\ at' = Extend(at, c, "queued")
      /\ space' = [Extend(space, c, PieceOf(space[t])) EXCEPT ![t] = RestOf(@)]
      /\ kids' = [Extend(kids, c, <<>>) EXCEPT ![t] = Append(@, c)]
      /\ acc' = Extend(acc, c, <<>>)
      /\ except' = Extend(except, c, FALSE)
  BY DEF Spawn, Top
<1>4. c \notin Tasks /\ c # t
  BY <1>1, ChildIsNew
<1>5. n \in Nat
  BY <1>1, LenProperties
<1>6. /\ c \in Paths \ {Root} /\ Front(c) = t /\ Last(c) = n + 1
      /\ Len(t) \in Nat /\ Len(c) = Len(t) + 1 /\ SubSeq(c, 1, Len(t)) = t
      /\ \A k \in 0 .. Len(t) - 1 : SubSeq(c, 1, k) = SubSeq(t, 1, k)
  <2> DEFINE m == n + 1
  <2>1. m \in Nat /\ t \in Paths
    BY <1>1, <1>5
  <2> HIDE DEF m, n, t
  <2>2. /\ Append(t, m) \in Paths \ {Root} /\ Front(Append(t, m)) = t /\ Last(Append(t, m)) = m
        /\ Len(t) \in Nat /\ Len(Append(t, m)) = Len(t) + 1 /\ SubSeq(Append(t, m), 1, Len(t)) = t
        /\ \A k \in 0 .. Len(t) - 1 : SubSeq(Append(t, m), 1, k) = SubSeq(t, 1, k)
    BY <2>1, PathChild
  <2>. QED
    BY <2>2 DEF m
<1> HIDE DEF t, n, c
<1>7. /\ Tasks' = Tasks \cup {c}
      /\ at'[c] = "queued" /\ \A x \in Tasks : at'[x] = at[x]
  BY <1>3, <1>4 DEF Extend, Tasks
<1>8. /\ space'[c] = PieceOf(space[t]) /\ space'[t] = RestOf(space[t])
      /\ \A x \in Tasks \ {t} : space'[x] = space[x]
      /\ DOMAIN space' = Tasks' /\ space' = [x \in Tasks' |-> space'[x]]
  BY <1>1, <1>3, <1>4, <1>7 DEF Extend
<1>9. /\ kids'[c] = <<>> /\ kids'[t] = Append(kids[t], c)
      /\ \A x \in Tasks \ {t} : kids'[x] = kids[x]
      /\ DOMAIN kids' = Tasks' /\ kids' = [x \in Tasks' |-> kids'[x]]
  BY <1>1, <1>3, <1>4, <1>7 DEF Extend
<1>10. /\ PieceOf(space[t]) \in Space /\ RestOf(space[t]) \in Space
       /\ \A i : i \in Indices(space[t]) <=>
                   i \in Indices(PieceOf(space[t])) \/ i \in Indices(RestOf(space[t]))
       /\ \A i : ~ (i \in Indices(PieceOf(space[t])) /\ i \in Indices(RestOf(space[t])))
  BY <1>1, <1>3, PieceAndRest DEF Divisible
<1>11. /\ Append(kids[t], c) \in Seq(Paths) /\ DOMAIN kids[t] = 1 .. n
       /\ Len(Append(kids[t], c)) = n + 1 /\ DOMAIN Append(kids[t], c) = 1 .. n + 1
       /\ \A i \in 1 .. n : Append(kids[t], c)[i] = kids[t][i]
       /\ Append(kids[t], c)[n + 1] = c
  <2>1. c \in Paths
    BY <1>6
  <2>2. /\ Append(kids[t], c) \in Seq(Paths)
        /\ Len(Append(kids[t], c)) = Len(kids[t]) + 1
        /\ \A i \in 1 .. Len(kids[t]) : Append(kids[t], c)[i] = kids[t][i]
        /\ Append(kids[t], c)[Len(kids[t]) + 1] = c
    BY <1>1, <2>1, AppendProperties
  <2>. QED
    BY <1>1, <2>2, LenProperties DEF n
<1>12. TypeOK'
  <2>1. Root \in Tasks' /\ Tasks' \subseteq Paths
    BY <1>6, <1>7 DEF TypeOK
  <2>2. /\ at' \in [Tasks' -> Points] /\ acc' \in [Tasks' -> Seq(Int)]
        /\ except' \in [Tasks' -> BOOLEAN]
    <3>1. /\ <<>> \in Seq(Int) /\ "queued" \in Points
          /\ at \in [Tasks -> Points] /\ acc \in [Tasks -> Seq(Int)] /\ except \in [Tasks -> BOOLEAN]
      BY EmptySeq DEF TypeOK, Points
    <3>. QED
      BY <1>3, <1>7, <3>1 DEF Extend
  <2>3. space' \in [Tasks' -> Space]
    <3>1. \A x \in Tasks' : space'[x] \in Space
      BY <1>1, <1>7, <1>8, <1>10 DEF TypeOK
    <3>. QED
      BY <1>8, <3>1
  <2>4. kids' \in [Tasks' -> Seq(Paths)]
    <3>1. <<>> \in Seq(Paths)
      BY EmptySeq
    <3>2. \A x \in Tasks' : kids'[x] \in Seq(Paths)
      BY <1>1, <1>7, <1>9, <1>11, <3>1 DEF TypeOK
    <3>. QED
      BY <1>9, <3>2
  <2>. QED
    BY <1>2, <2>1, <2>2, <2>3, <2>4 DEF TypeOK, Space, Index, Paths
<1>13. Tree'
  <2>1. ASSUME NEW u \in Tasks, NEW k \in 0 .. Len(u) - 1
        PROVE  SubSeq(u, 1, k) \in Tasks' /\ (at'[SubSeq(u, 1, k)] = "done" => at'[u] = "done")
    BY <1>7 DEF Tree
  <2>2. ASSUME NEW k \in 0 .. Len(c) - 1
        PROVE  SubSeq(c, 1, k) \in Tasks' /\ at'[SubSeq(c, 1, k)] # "done"
    <3>1. CASE k = Len(t)
      BY <1>1, <1>6, <1>7, <3>1
    <3>2. CASE k # Len(t)
      <4> DEFINE l == Len(t)
      <4>1. l \in Nat /\ Len(c) = l + 1
        BY <1>6
      <4>2. k \in 0 .. Len(c) - 1 /\ k # l
        BY <3>2
      <4>3. l \in Nat /\ k # l /\ k \in 0 .. l + 1 - 1
        <5> HIDE DEF l
        <5>. QED
          BY <4>1, <4>2
      <4> HIDE DEF l
      <4>4. k \in 0 .. l - 1
        BY <4>3
      <4>5. SubSeq(c, 1, k) = SubSeq(t, 1, k) /\ k \in 0 .. Len(t) - 1
        BY <1>6, <4>4 DEF l
      <4>6. SubSeq(t, 1, k) \in Tasks /\ at[SubSeq(t, 1, k)] # "done"
        BY <1>1, <4>5 DEF Tree
      <4>. QED
        BY <1>7, <4>5, <4>6
    <3>. QED
      BY <3>1, <3>2
  <2>. QED
    BY <1>7, <2>1, <2>2 DEF Tree
<1>14. Family'
  <2>1. \A x \in Tasks \ {Root} : Front(x) \in Tasks
    BY FrontInTasks
  <2>2. ASSUME NEW x \in Tasks', NEW i \in DOMAIN kids'[x]
        PROVE  kids'[x][i] \in Tasks' \ {Root} /\ Front(kids'[x][i]) = x
    <3>1. CASE x = c
      <4>1. DOMAIN kids'[x] = {}
        BY <1>9, <3>1
      <4>. QED
        BY <4>1
    <3>2. CASE x = t
      <4>1. i \in 1 .. n \/ i = n + 1
        BY <1>5, <1>9, <1>11, <3>2
      <4>. QED
        BY <1>1, <1>6, <1>7, <1>9, <1>11, <3>2, <4>1 DEF Family
    <3>3. CASE x \in Tasks \ {t}
      BY <1>7, <1>9, <3>3 DEF Family
    <3>. QED
      BY <1>7, <3>1, <3>2, <3>3
  <2>3. ASSUME NEW x \in Tasks' \ {Root}
        PROVE  at'[x] = "done" \/ \E i \in DOMAIN kids'[Front(x)] : kids'[Front(x)][i] = x
    <3>1. CASE x = c
      <4>1. n + 1 \in 1 .. n + 1
        BY <1>5
      <4>. QED
        BY <1>6, <1>9, <1>11, <3>1, <4>1
    <3>2. CASE x \in Tasks /\ Front(x) = t
      <4>1. \A i \in 1 .. n : i \in 1 .. n + 1
        BY <1>5
      <4>2. at[x] = "done" \/ \E i \in 1 .. n : kids[t][i] = x
        BY <1>11, <3>2 DEF Family
      <4>. QED
        BY <1>7, <1>9, <1>11, <3>2, <4>1, <4>2
    <3>3. CASE x \in Tasks /\ Front(x) # t
      BY <1>7, <1>9, <2>1, <3>3 DEF Family
    <3>. QED
      BY <1>7, <3>1, <3>2, <3>3
  <2>4. ASSUME NEW x \in Tasks' \ {Root}, at'[Front(x)] \in {"queued", "body"}
        PROVE  Last(x) <= Len(kids'[Front(x)])
    <3>1. CASE x = c
      <4>1. Len(kids'[Front(x)]) = n + 1 /\ Last(x) = n + 1 /\ n + 1 \in Int
        BY <1>5, <1>6, <1>9, <1>11, <3>1
      <4>. QED
        BY <4>1
    <3>2. CASE x \in Tasks
      <4>1. Front(x) \in Tasks /\ at[Front(x)] = at'[Front(x)]
        BY <1>7, <2>1, <3>2
      <4>2. Last(x) <= Len(kids[Front(x)])
        BY <2>4, <3>2, <4>1 DEF Family
      <4>3. CASE Front(x) = t
        <5>1. x \in Seq(Nat) /\ x # <<>>
          BY <3>2 DEF TypeOK, Paths, Root
        <5>2. Last(x) \in Nat
          BY <5>1, FrontLast
        <5>3. Last(x) <= n /\ Len(kids'[Front(x)]) = n + 1
          BY <1>9, <1>11, <4>2, <4>3 DEF n
        <5>. QED
          BY <1>5, <5>2, <5>3
      <4>4. CASE Front(x) # t
        BY <1>9, <4>1, <4>2, <4>4
      <4>. QED
        BY <4>3, <4>4
    <3>. QED
      BY <1>7, <3>1, <3>2
  <2>. QED
    BY <2>2, <2>3, <2>4 DEF Family
<1>15. Progress'
  <2>1. except'[t] = except[t] /\ \A x \in Tasks : except'[x] = except[x]
    BY <1>1, <1>3, <1>4 DEF Extend
  <2>2. ASSUME NEW x \in Tasks'
        PROVE  /\ at'[x] \in {"wait", "look"} => kids'[x] # <<>>
               /\ Finished(x)' => kids'[x] = <<>>
               /\ Applied(x)' => space'[x].begin = space'[x].end
    <3>1. CASE x = c \/ x = t
      BY <1>1, <1>7, <3>1 DEF Finished, Applied
    <3>2. CASE x \in Tasks \ {t}
      BY <1>7, <1>8, <1>9, <2>1, <3>2 DEF Progress, Finished, Applied
    <3>. QED
      BY <1>7, <3>1, <3>2
  <2>. QED
    BY <2>2 DEF Progress
<1>16. Stacks'
  BY <1>2, <1>7 DEF Stacks
<1>17. Partition'
  <2>1. ASSUME NEW i \in Index
        PROVE  IF i \in Indices(whole)
                 THEN \/ /\ applied[i] = 0
                         /\ \E x \in Tasks' : \A u \in Tasks' : i \in Indices(space'[u]) <=> u = x
                      \/ applied[i] = 1 /\ \A u \in Tasks' : i \notin Indices(space'[u])
                 ELSE applied[i] = 0 /\ \A u \in Tasks' : i \notin Indices(space'[u])
    <3>1. CASE i \in Indices(space[t])
      <4>1. /\ i \in Indices(whole) /\ applied[i] = 0
            /\ \A u \in Tasks \ {t} : i \notin Indices(space[u])
        BY <1>1, <3>1 DEF Partition
      <4>2. \/ i \in Indices(space'[c]) /\ i \notin Indices(space'[t])
            \/ i \in Indices(space'[t]) /\ i \notin Indices(space'[c])
        BY <1>8, <1>10, <3>1
      <4>3. \A u \in Tasks \ {t} : i \notin Indices(space'[u])
        BY <1>8, <4>1
      <4>. QED
        BY <1>1, <1>7, <4>1, <4>2, <4>3
    <3>2. CASE i \notin Indices(space[t])
      <4>1. i \notin Indices(space'[c]) /\ \A u \in Tasks : i \in Indices(space'[u]) <=> i \in Indices(space[u])
        BY <1>8, <1>10, <3>2
      <4>2. IF i \in Indices(whole)
              THEN \/ /\ applied[i] = 0
                      /\ \E x \in Tasks : \A u \in Tasks : i \in Indices(space[u]) <=> u = x
                   \/ applied[i] = 1 /\ \A u \in Tasks : i \notin Indices(space[u])
              ELSE applied[i] = 0 /\ \A u \in Tasks : i \notin Indices(space[u])
        BY DEF Partition
      <4>. QED
        BY <1>4, <1>7, <4>1, <4>2
    <3>. QED
      BY <3>1, <3>2
  <2>2. Indices(whole)' = Indices(whole) /\ Index' = Index /\ applied' = applied
    BY <1>2 DEF Indices, Index
  <2>. QED
    BY <2>1, <2>2 DEF Partition, Indices
<1>18. Returned'
  BY <1>1, <1>2 DEF Returned, Alive
<1>. QED
  BY <1>12, <1>13, <1>14, <1>15, <1>16, <1>17, <1>18

-----------------------------------------------------------------------------
(***************************************************************************)
(* The theorems.                                                           *)
(***************************************************************************)
LEMMA InitInvariant == Init => IInv
<1> SUFFICES ASSUME Init
             PROVE  IInv
  OBVIOUS
<1> USE DEF Init
<1>1. /\ Tasks = {Root} /\ at[Root] = "queued" /\ kids[Root] = <<>> /\ space[Root] = whole
      /\ Len(Root) = 0 /\ Root \in Paths /\ DOMAIN kids[Root] = {} /\ Root = <<>>
  BY EmptySeq DEF Tasks, Root, Paths
<1>2. \A w \in Workers : stack[w] = <<>> /\ DOMAIN stack[w] = {}
  OBVIOUS
<1>3. TypeOK
  <2>1. kind \in {"for", "reduce", "while"} /\ whole \in Space
    BY KindsAssumption, SpacesAssumption
  <2>2. applied \in [Index -> Nat] /\ stack \in [Workers -> Seq(Paths)]
    BY EmptySeq
  <2>3. /\ at \in [{Root} -> Points] /\ space \in [{Root} -> Space]
        /\ kids \in [{Root} -> Seq(Paths)] /\ acc \in [{Root} -> Seq(Int)]
        /\ except \in [{Root} -> BOOLEAN]
    BY <2>1, EmptySeq DEF Points
  <2>. QED
    BY <1>1, <2>1, <2>2, <2>3 DEF TypeOK
<1>4. Tree
  <2>1. \A k : k \notin 0 .. Len(Root) - 1
    BY <1>1
  <2>. QED
    BY <1>1, <2>1 DEF Tree
<1>5. Family
  BY <1>1 DEF Family
<1>6. Progress
  BY <1>1 DEF Progress, Finished, Applied
<1>7. Stacks
  BY <1>2 DEF Stacks
<1>8. Partition
  BY <1>1 DEF Partition
<1>9. Returned
  BY DEF Returned
<1>. QED
  BY <1>3, <1>4, <1>5, <1>6, <1>7, <1>8, <1>9 DEF IInv

(***************************************************************************)
(* The inductive invariant is one, one step for each action.               *)
(***************************************************************************)
THEOREM Invariance == Spec => []IInv
<1>1. Init => IInv
  BY InitInvariant
<1>2. IInv /\ [Next]_vars => IInv'
  <2> SUFFICES ASSUME IInv, [Next]_vars
               PROVE  IInv'
    OBVIOUS
  <2>1. ASSUME NEW w \in Workers, Step(w)
        PROVE  IInv'
    <3>1. ASSUME UseDestroyed(w)
          PROVE  IInv'
      BY <3>1, StillStep DEF UseDestroyed
    <3>. QED
      BY <2>1, <3>1, SpawnStep, ApplyStep, WaitStep, CheckStep, TakeStep, NothingStep,
         NotifyStep DEF Step
  <2>2. ASSUME MainWait
        PROVE  IInv'
    BY <2>2, StillStep DEF MainWait
  <2>3. ASSUME MainReturns
        PROVE  IInv'
    BY <2>3, StillStep DEF MainReturns
  <2>4. ASSUME UNCHANGED vars
        PROVE  IInv'
    BY <2>4, StillStep DEF vars
  <2>. QED
    BY <2>1, <2>2, <2>3, <2>4 DEF Next
<1>. QED
  BY <1>1, <1>2, PTL DEF Spec

(***************************************************************************)
(* Whatever the workers' schedule and whatever is thrown, an index of the  *)
(* loop has been applied once, or is in the space of exactly one task and  *)
(* has not been applied; no other index is touched                         *)
(* (parallel_for.hpp:57-96, parallel_while.hpp:89-97, space_1D.hpp:60-77). *)
(***************************************************************************)
THEOREM NoIndexIsLost == Spec => []SpacesPartition
<1>1. IInv => SpacesPartition
  <2> SUFFICES ASSUME IInv, NEW i \in Index
               PROVE  applied[i] + Cardinality({t \in Tasks : i \in Indices(space[t])})
                        = IF i \in Indices(whole) THEN 1 ELSE 0
    BY DEF SpacesPartition
  <2> DEFINE having == {t \in Tasks : i \in Indices(space[t])}
  <2>1. \/ i \in Indices(whole) /\ applied[i] = 0 /\ \E t : having = {t}
        \/ i \in Indices(whole) /\ applied[i] = 1 /\ having = {}
        \/ i \notin Indices(whole) /\ applied[i] = 0 /\ having = {}
    <3>1. ASSUME NEW x \in Tasks, \A u \in Tasks : i \in Indices(space[u]) <=> u = x
          PROVE  having = {x}
      BY <3>1
    <3>2. (\A u \in Tasks : i \notin Indices(space[u])) => having = {}
      OBVIOUS
    <3>. QED
      BY <3>1, <3>2 DEF IInv, Partition
  <2>2. Cardinality({}) = 0 /\ \A t : Cardinality({t}) = 1
    BY FS_EmptySet, FS_Singleton
  <2> HIDE DEF having
  <2>3. applied[i] + Cardinality(having) = IF i \in Indices(whole) THEN 1 ELSE 0
    <3>1. \/ i \in Indices(whole) /\ applied[i] = 0 /\ Cardinality(having) = 1
          \/ i \in Indices(whole) /\ applied[i] = 1 /\ Cardinality(having) = 0
          \/ i \notin Indices(whole) /\ applied[i] = 0 /\ Cardinality(having) = 0
      BY <2>1, <2>2, Zenon
    <3>. QED
      BY <3>1
  <2>. QED
    BY <2>3 DEF having
<1>. QED
  BY <1>1, Invariance, PTL

(***************************************************************************)
(* When the wait for a loop returns, its function has been applied once to *)
(* each index of the loop, and to no other: no task of it is left, and a   *)
(* loop whose function has thrown does not return                          *)
(* (task.hpp:103-128,156-164).                                             *)
(***************************************************************************)
THEOREM ReturnsWhenApplied == Spec => []ReturnMeansApplied
<1>1. IInv => ReturnMeansApplied
  <2> SUFFICES ASSUME IInv, status = "returned"
               PROVE  applied = [i \in Index |-> IF i \in Indices(whole) THEN 1 ELSE 0]
    BY DEF ReturnMeansApplied
  <2> USE DEF IInv
  <2>1. ASSUME NEW u \in Tasks
        PROVE  at[u] = "done"
    <3>1. u \in Seq(Nat)
      BY DEF TypeOK, Paths
    <3>2. CASE u = Root
      BY <3>2 DEF Returned
    <3>3. CASE u # Root
      <4>1. 0 \in 0 .. Len(u) - 1 /\ 0 \in 0 .. Len(u)
        <5>1. Len(u) \in Nat \ {0}
          BY <3>1, <3>3, FrontLast DEF Root
        <5>. QED
          BY <5>1
      <4>2. SubSeq(u, 1, 0) \in Seq(Nat) /\ Len(SubSeq(u, 1, 0)) = 0
        BY <3>1, <4>1, PrefixFacts
      <4>3. SubSeq(u, 1, 0) = Root
        BY <4>2, EmptySeq DEF Root
      <4>. QED
        BY <4>1, <4>3 DEF Tree, Returned
    <3>. QED
      BY <3>2, <3>3
  <2>2. ASSUME NEW u \in Tasks, NEW i
        PROVE  i \notin Indices(space[u])
    <3>1. space[u].begin = space[u].end /\ space[u].end \in Int
      BY <2>1, ModulusAssumption DEF Progress, Applied, TypeOK, Space, Index
    <3>. QED
      BY <3>1 DEF Indices
  <2>3. \A i \in Index : applied[i] = IF i \in Indices(whole) THEN 1 ELSE 0
    BY <2>2 DEF Partition
  <2>. QED
    BY <2>3 DEF TypeOK
<1>. QED
  BY <1>1, Invariance, PTL

-----------------------------------------------------------------------------
(***************************************************************************)
(* A reduction joins in the order of the spaces.  Every task has got a     *)
(* space when it was created, org of it, of which the children in kids     *)
(* still have the right part: what lies before Stop is the task's own      *)
(* space until it is applied, and from then on it is what the task has     *)
(* accumulated, in order.                                                  *)
(***************************************************************************)
Run(b, e) == [i \in 1 .. e - b |-> b + i - 1]

Stop(k, org, t) == IF k[t] = <<>> THEN org[t].end ELSE org[Last(k[t])].begin

InOrder(org) ==
  /\ org[Root] = whole
  /\ \A t \in Tasks :
       /\ org[t].begin <= Stop(kids, org, t)
       /\ kids[t] # <<>> => org[kids[t][1]].end = org[t].end
       /\ \A i \in 1 .. Len(kids[t]) - 1 : org[kids[t][i + 1]].end = org[kids[t][i]].begin
       /\ at[t] \in {"queued", "body"} =>
            acc[t] = <<>> /\ space[t] = [begin |-> org[t].begin, end |-> Stop(kids, org, t)]
       /\ Applied(t) => acc[t] = Run(org[t].begin, Stop(kids, org, t))

Ordered == kind = "reduce" => \E org \in [Tasks -> Space] : InOrder(org)

\* Adjacent runs of indices are one when they are put together.
LEMMA RunsJoin ==
  ASSUME NEW a \in Int, NEW b \in Int, NEW c \in Int, a <= b, b <= c
  PROVE  Run(a, b) \o Run(b, c) = Run(a, c)
<1> DEFINE m == b - a
           n == c - b
           k == c - a
           p == Run(a, b)
           q == Run(b, c)
           r == Run(a, c)
<1>1. m \in Nat /\ n \in Nat /\ k \in Nat /\ k = m + n /\ a + m = b
  OBVIOUS
<1>2. /\ p = [i \in 1 .. m |-> a + i - 1]
      /\ q = [i \in 1 .. n |-> b + i - 1]
      /\ r = [i \in 1 .. k |-> a + i - 1]
  BY DEF Run
<1> HIDE DEF m, n, k, p, q, r
<1>3. p \in [1 .. m -> Int] /\ q \in [1 .. n -> Int] /\ r \in [1 .. k -> Int]
  BY <1>1, <1>2
<1>4. p \in Seq(Int) /\ q \in Seq(Int) /\ r \in Seq(Int)
  BY <1>1, <1>3, SeqDef
<1>5. Len(p) = m /\ Len(q) = n /\ Len(r) = k
  BY <1>1, <1>3, <1>4, LenProperties
<1>6. /\ p \o q \in Seq(Int) /\ Len(p \o q) = m + n
      /\ \A i \in 1 .. m + n : (p \o q)[i] = IF i <= m THEN p[i] ELSE q[i - m]
  BY <1>4, <1>5, ConcatProperties
<1>7. ASSUME NEW i \in 1 .. k
      PROVE  (p \o q)[i] = r[i]
  <2>1. CASE i <= m
    <3>1. i \in 1 .. m /\ i \in 1 .. m + n
      BY <1>1, <2>1
    <3>. QED
      BY <1>2, <1>6, <2>1, <3>1
  <2>2. CASE ~ (i <= m)
    <3>1. i - m \in 1 .. n /\ i \in 1 .. m + n /\ b + (i - m) - 1 = a + i - 1
      BY <1>1, <2>2
    <3>. QED
      BY <1>2, <1>6, <2>2, <3>1
  <2>. QED
    BY <2>1, <2>2
<1>8. Len(p \o q) = Len(r)
  BY <1>1, <1>5, <1>6
<1>9. p \o q = r
  BY <1>4, <1>5, <1>6, <1>7, <1>8, SeqEqual
<1>. QED
  BY <1>9 DEF p, q, r

\* A step after which nothing has been joined, created or applied.
LEMMA CalmOrdered ==
  ASSUME Ordered, Calm
  PROVE  Ordered'
<1> USE DEF Calm
<1>1. Tasks' = Tasks /\ kind' = kind
  BY DEF Tasks
<1>2. ASSUME NEW org \in [Tasks -> Space], InOrder(org)
      PROVE  InOrder(org)'
  <2>1. \A t \in Tasks : Stop(kids', org, t) = Stop(kids, org, t)
    BY DEF Stop
  <2>. QED
    BY <1>1, <1>2, <2>1 DEF InOrder
<1>. QED
  BY <1>1, <1>2 DEF Ordered, Space, Index

\* The space of a task is applied: what is in front of Stop is accumulated.
LEMMA ApplyOrdered ==
  ASSUME IInv, Ordered, NEW w \in Workers, Apply(w)
  PROVE  Ordered'
<1> DEFINE t == Top(w)
<1>1. CASE Calm
  BY <1>1, CalmOrdered
<1>2. ASSUME ~ Calm
      PROVE  Ordered'
  <2>1. at' = [at EXCEPT ![t] = "join"]
    BY <1>2, ApplyStep
  <2>2. t \in Tasks /\ at[t] = "body" /\ at \in [Tasks -> Points]
    BY TopFacts DEF Apply, At, Top, IInv, TypeOK
  <2>3. /\ acc' = [acc EXCEPT ![t] = @ \o [i \in 1 .. Length(space[t]) |-> space[t].begin + i - 1]]
        /\ space' = [space EXCEPT ![t].begin = space[t].end]
        /\ UNCHANGED <<kids, kind, whole, except>>
    <3>1. ~ Unwind(t, {})
      <4>1. at'[t] # "notify"
        BY <2>1, <2>2
      <4>. QED
        BY <2>2, <4>1 DEF Unwind
    <3>. QED
      BY <3>1 DEF Apply, Top, program
  <2> HIDE DEF t
  <2>4. Tasks' = Tasks /\ at'[t] = "join" /\ \A x \in Tasks \ {t} : at'[x] = at[x]
    BY <2>1, <2>2 DEF Tasks
  <2>5. ASSUME NEW org \in [Tasks -> Space], InOrder(org)
        PROVE  InOrder(org)'
    <3> DEFINE b == org[t].begin
               e == Stop(kids, org, t)
    <3>1. acc[t] = <<>> /\ space[t] = [begin |-> b, end |-> e] /\ space[t] \in Space
      BY <2>2, <2>5 DEF InOrder, IInv, TypeOK
    <3>2. Length(space[t]) = e - b /\ [i \in 1 .. Length(space[t]) |-> space[t].begin + i - 1] \in Seq(Int)
      BY <3>1, SplitPointInside, PieceIsSeq
    <3>3. [i \in 1 .. Length(space[t]) |-> space[t].begin + i - 1] = Run(b, e)
      BY <3>1, <3>2 DEF Run
    <3>4. acc'[t] = Run(b, e) /\ \A x \in Tasks \ {t} : acc'[x] = acc[x]
      <4>1. <<>> \o Run(b, e) = Run(b, e)
        BY <3>2, <3>3, ConcatEmptySeq
      <4>2. acc \in [Tasks -> Seq(Int)]
        BY DEF IInv, TypeOK
      <4>. QED
        BY <2>2, <2>3, <3>1, <3>3, <4>1, <4>2
    <3>5. \A x \in Tasks : Stop(kids', org, x) = Stop(kids, org, x)
      BY <2>3 DEF Stop
    <3>6. \A x \in Tasks \ {t} : space'[x] = space[x]
      BY <2>3 DEF IInv, TypeOK
    <3> HIDE DEF b, e
    <3>7. ASSUME NEW x \in Tasks
          PROVE  /\ at'[x] \in {"queued", "body"} =>
                      /\ acc'[x] = <<>>
                      /\ space'[x] = [begin |-> org[x].begin, end |-> Stop(kids, org, x)]
                 /\ Applied(x)' => acc'[x] = Run(org[x].begin, Stop(kids, org, x))
      <4>1. CASE x = t
        BY <2>4, <3>4, <4>1 DEF b, e
      <4>2. CASE x # t
        BY <2>3, <2>4, <2>5, <3>4, <3>6, <4>2 DEF InOrder, Applied
      <4>. QED
        BY <4>1, <4>2
    <3>. QED
      BY <2>3, <2>4, <2>5, <3>5, <3>7 DEF InOrder
  <2>. QED
    BY <2>3, <2>4, <2>5 DEF Ordered, Space, Index
<1>. QED
  BY <1>1, <1>2

\* The last child is joined: its run follows the one of the task.
LEMMA CheckOrdered ==
  ASSUME IInv, Ordered, NEW w \in Workers, Check(w)
  PROVE  Ordered'
<1> DEFINE t == Top(w)
           u == Awaited(t)
<1>1. CASE Calm
  BY <1>1, CalmOrdered
<1>2. ASSUME ~ Calm, kind = "reduce"
      PROVE  Ordered'
  <2>1. /\ t \in Tasks /\ at[t] = "wait" /\ at \in [Tasks -> Points] /\ at[u] = "done"
        /\ kids[t] \in Seq(Paths) /\ kids[t] # <<>>
    BY <1>2, TopFacts, CheckStep DEF Check, At, Top, IInv, TypeOK, Progress
  <2>2. /\ at' = [at EXCEPT ![t] = "join"] /\ kids' = [kids EXCEPT ![t] = Front(kids[t])]
        /\ acc' = [acc EXCEPT ![t] = @ \o acc[u]]
        /\ UNCHANGED <<kind, whole, space, except>> /\ u = Last(kids[t])
    BY <1>2, <2>1 DEF Check, Top, program, Others, Awaited
  <2> DEFINE s == kids[t]
             n == Len(s)
  <2>3. /\ n \in Nat \ {0} /\ DOMAIN s = 1 .. n /\ u = s[n]
        /\ Front(s) \in Seq(Paths) /\ Len(Front(s)) = n - 1
        /\ \A i \in 1 .. n - 1 : Front(s)[i] = s[i]
    BY <2>1, <2>2, FrontLast
  <2> HIDE DEF t, u, s, n
  <2>4. /\ Tasks' = Tasks /\ at'[t] = "join" /\ kids'[t] = Front(s)
        /\ \A x \in Tasks \ {t} : at'[x] = at[x] /\ kids'[x] = kids[x] /\ acc'[x] = acc[x]
        /\ acc'[t] = acc[t] \o acc[u]
    <3>1. kids \in [Tasks -> Seq(Paths)] /\ acc \in [Tasks -> Seq(Int)]
      BY DEF IInv, TypeOK
    <3>. QED
      BY <2>1, <2>2, <3>1 DEF Tasks, s
  <2>5. u \in Tasks /\ kids[u] = <<>> /\ Applied(u) /\ Applied(t) /\ u # t
    <3>1. n \in DOMAIN s
      BY <2>3
    <3>2. u \in Tasks
      BY <2>1, <2>3, <3>1 DEF IInv, Family, s
    <3>. QED
      BY <2>1, <3>2 DEF IInv, Progress, Finished, Applied
  <2>6. ASSUME NEW org \in [Tasks -> Space], InOrder(org)
        PROVE  InOrder(org)'
    <3>1. Stop(kids, org, t) = org[u].begin /\ Stop(kids, org, u) = org[u].end
      BY <2>1, <2>2, <2>5 DEF Stop
    <3>2. acc[t] = Run(org[t].begin, org[u].begin) /\ acc[u] = Run(org[u].begin, org[u].end)
      BY <2>1, <2>5, <2>6, <3>1 DEF InOrder
    <3>3. /\ org[t].begin \in Int /\ org[u].begin \in Int /\ org[u].end \in Int
          /\ org[t].begin <= org[u].begin /\ org[u].begin <= org[u].end
      <4>1. org[t] \in Space /\ org[u] \in Space
        BY <2>1, <2>5
      <4>2. \A x \in Space : x.begin \in Int /\ x.end \in Int /\ x.begin <= x.end
        BY ModulusAssumption DEF Space, Index
      <4>3. org[t].begin <= org[u].begin
        BY <2>1, <2>6, <3>1 DEF InOrder
      <4>. QED
        BY <4>1, <4>2, <4>3
    <3>4. acc'[t] = Run(org[t].begin, org[u].end) /\ org[t].begin <= org[u].end
      <4> DEFINE i == org[t].begin
                 j == org[u].begin
                 k == org[u].end
      <4>1. i \in Int /\ j \in Int /\ k \in Int /\ i <= j /\ j <= k
        BY <3>3
      <4>2. acc'[t] = Run(i, j) \o Run(j, k)
        BY <2>4, <3>2
      <4> HIDE DEF i, j, k
      <4>3. Run(i, j) \o Run(j, k) = Run(i, k) /\ i <= k
        BY <4>1, RunsJoin
      <4>. QED
        BY <4>2, <4>3 DEF i, k
    <3>5. /\ s # <<>> /\ org[s[1]].end = org[t].end
          /\ \A i \in 1 .. n - 1 : org[s[i + 1]].end = org[s[i]].begin
      BY <2>1, <2>6 DEF InOrder, s, n
    \* What was joined lies just in front of what is left to be joined.
    <3>6. Stop(kids', org, t) = org[u].end
      <4>1. CASE n = 1
        <5>1. Front(s) = <<>>
          BY <2>3, <4>1, EmptySeq
        <5>. QED
          BY <2>3, <2>4, <3>5, <4>1, <5>1 DEF Stop
      <4>2. CASE n # 1
        <5>1. n - 1 \in 1 .. n - 1 /\ n - 1 # 0 /\ n - 1 + 1 = n
          BY <2>3, <4>2
        <5>2. Front(s) # <<>>
          BY <2>3, <5>1, EmptySeq
        <5>3. Last(Front(s)) = s[n - 1]
          BY <2>3, <5>1, <5>2, FrontLast
        <5>. QED
          BY <2>3, <2>4, <3>5, <5>1, <5>2, <5>3 DEF Stop
      <4>. QED
        BY <4>1, <4>2
    <3>7. /\ Front(s) # <<>> => org[Front(s)[1]].end = org[t].end
          /\ \A i \in 1 .. Len(Front(s)) - 1 : org[Front(s)[i + 1]].end = org[Front(s)[i]].begin
      <4>1. Front(s) # <<>> => 1 \in 1 .. n - 1
        <5>1. Front(s) # <<>> => n - 1 # 0
          BY <2>3, EmptySeq
        <5>. QED
          BY <2>3, <5>1
      <4>2. \A i \in 1 .. n - 1 - 1 : i \in 1 .. n - 1 /\ i + 1 \in 1 .. n - 1
        BY <2>3
      <4>. QED
        BY <2>3, <3>5, <4>1, <4>2
    <3>8. \A x \in Tasks \ {t} : Stop(kids', org, x) = Stop(kids, org, x)
      BY <2>4 DEF Stop
    <3>9. ASSUME NEW x \in Tasks
          PROVE  /\ org[x].begin <= Stop(kids', org, x)
                 /\ kids'[x] # <<>> => org[kids'[x][1]].end = org[x].end
                 /\ \A i \in 1 .. Len(kids'[x]) - 1 : org[kids'[x][i + 1]].end = org[kids'[x][i]].begin
                 /\ at'[x] \in {"queued", "body"} =>
                      /\ acc'[x] = <<>>
                      /\ space'[x] = [begin |-> org[x].begin, end |-> Stop(kids', org, x)]
                 /\ Applied(x)' => acc'[x] = Run(org[x].begin, Stop(kids', org, x))
      <4>1. CASE x = t
        BY <2>4, <3>4, <3>6, <3>7, <4>1
      <4>2. CASE x # t
        <5>1. Applied(x)' => Applied(x)
          BY <2>2, <2>4, <4>2 DEF Applied
        <5>2. /\ org[x].begin <= Stop(kids, org, x)
              /\ kids[x] # <<>> => org[kids[x][1]].end = org[x].end
              /\ \A i \in 1 .. Len(kids[x]) - 1 : org[kids[x][i + 1]].end = org[kids[x][i]].begin
              /\ at[x] \in {"queued", "body"} =>
                   /\ acc[x] = <<>>
                   /\ space[x] = [begin |-> org[x].begin, end |-> Stop(kids, org, x)]
              /\ Applied(x) => acc[x] = Run(org[x].begin, Stop(kids, org, x))
          BY <2>6 DEF InOrder
        <5>3. /\ kids'[x] = kids[x] /\ at'[x] = at[x] /\ acc'[x] = acc[x] /\ space'[x] = space[x]
              /\ Stop(kids', org, x) = Stop(kids, org, x)
          BY <2>2, <2>4, <3>8, <4>2
        <5>. QED
          BY <5>1, <5>2, <5>3
      <4>. QED
        BY <4>1, <4>2
    <3>. QED
      BY <2>2, <2>4, <2>6, <3>9 DEF InOrder
  <2>. QED
    BY <2>2, <2>4, <2>6 DEF Ordered, Space, Index
<1>3. CASE kind # "reduce"
  BY <1>3 DEF Ordered, Check, program
<1>. QED
  BY <1>1, <1>2, <1>3

\* A child is given the right part of what is left to its parent.
LEMMA SpawnOrdered ==
  ASSUME IInv, Ordered, NEW w \in Workers, Spawn(w)
  PROVE  Ordered'
<1> DEFINE t == Top(w)
           n == Len(kids[t])
           c == Append(t, n + 1)
<1>0. CASE kind # "reduce"
  BY <1>0 DEF Ordered, Spawn, program
<1>1. ASSUME kind = "reduce"
      PROVE  Ordered'
  <2>1. /\ t \in Tasks /\ at[t] = "body" /\ space[t] \in Space /\ kids[t] \in Seq(Paths)
        /\ t \in Paths
    BY TopFacts DEF Spawn, At, Top, IInv, TypeOK
  <2>2. c \notin Tasks /\ c # t
    BY <2>1, ChildIsNew
  <2>3. /\ CanSplit(space[t]) /\ UNCHANGED <<kind, whole>>
        /\ at' = Extend(at, c, "queued")
        /\ space' = [Extend(space, c, Right(space[t])) EXCEPT ![t] = Left(space[t])]
        /\ kids' = [Extend(kids, c, <<>>) EXCEPT ![t] = Append(kids[t], c)]
        /\ acc' = Extend(acc, c, <<>>)
        /\ except' = Extend(except, c, FALSE)
    <3>1. t \in Tasks \cup {c}
      BY <2>1
    <3>2. /\ Divisible(t) /\ UNCHANGED <<kind, whole>>
          /\ at' = Extend(at, c, "queued")
          /\ space' = [Extend(space, c, PieceOf(space[t])) EXCEPT ![t] = RestOf(@)]
          /\ kids' = [Extend(kids, c, <<>>) EXCEPT ![t] = Append(@, c)]
          /\ acc' = Extend(acc, c, <<>>)
          /\ except' = Extend(except, c, FALSE)
      BY DEF Spawn, Top, program
    <3> HIDE DEF t, n, c
    <3>3. /\ Extend(space, c, PieceOf(space[t]))[t] = space[t]
          /\ Extend(kids, c, <<>>)[t] = kids[t]
      BY <2>1, <2>2, <3>1 DEF Extend
    <3>4. /\ space' = [Extend(space, c, PieceOf(space[t])) EXCEPT ![t] = RestOf(space[t])]
          /\ kids' = [Extend(kids, c, <<>>) EXCEPT ![t] = Append(kids[t], c)]
      BY <3>2, <3>3
    <3>5. CanSplit(space[t]) /\ PieceOf(space[t]) = Right(space[t]) /\ RestOf(space[t]) = Left(space[t])
      BY <1>1, <3>2 DEF Divisible, PieceOf, RestOf
    <3>. QED
      BY <3>2, <3>4, <3>5
  <2>4. n \in Nat /\ DOMAIN kids[t] = 1 .. n /\ c \in Paths
    <3>1. Tasks' \subseteq Paths
      BY SpawnStep DEF IInv, TypeOK
    <3>2. c \in Tasks'
      BY <2>3 DEF Extend, Tasks
    <3>. QED
      BY <2>1, <3>1, <3>2, LenProperties
  <2>5. /\ Append(kids[t], c) \in Seq(Paths) /\ Append(kids[t], c) # <<>>
        /\ Len(Append(kids[t], c)) = n + 1
        /\ \A i \in 1 .. n : Append(kids[t], c)[i] = kids[t][i]
        /\ Append(kids[t], c)[n + 1] = c
    BY <2>1, <2>4, AppendProperties
  <2>6. Last(Append(kids[t], c)) = c
    BY <2>5, FrontLast
  <2> HIDE DEF t, n, c
  <2>7. /\ Tasks' = Tasks \cup {c} /\ at'[c] = "queued" /\ acc'[c] = <<>>
        /\ kids'[c] = <<>> /\ kids'[t] = Append(kids[t], c)
        /\ space'[c] = Right(space[t]) /\ space'[t] = Left(space[t])
        /\ \A x \in Tasks : at'[x] = at[x] /\ acc'[x] = acc[x] /\ except'[x] = except[x]
        /\ \A x \in Tasks \ {t} : kids'[x] = kids[x] /\ space'[x] = space[x]
    BY <2>1, <2>3, <2>2 DEF Extend, Tasks
  <2>8. ASSUME NEW org \in [Tasks -> Space], InOrder(org)
        PROVE  \E more \in [Tasks' -> Space'] : InOrder(more)'
    <3> DEFINE b == org[t].begin
               e == Stop(kids, org, t)
               m == SplitPoint(space[t])
    <3>1. space[t] = [begin |-> b, end |-> e] /\ acc[t] = <<>>
      BY <2>1, <2>8 DEF InOrder
    <3>2. /\ Right(space[t]) = [begin |-> m, end |-> e]
          /\ Left(space[t]) = [begin |-> b, end |-> m]
          /\ Right(space[t]) \in Space /\ Left(space[t]) \in Space
          /\ b < m /\ m < e /\ m \in Index /\ b \in Index /\ e \in Index
      <4>1. Right(space[t]) \in Space /\ Left(space[t]) \in Space
        BY <2>1, <2>3, SplitPartitions
      <4>2. m \in Index /\ space[t].begin < m /\ m < space[t].end
        BY <2>1, <2>3, SplitPointInside
      <4>3. space[t].begin = b /\ space[t].end = e /\ b \in Index /\ e \in Index
        BY <2>1, <3>1 DEF Space
      <4>. QED
        BY <4>1, <4>2, <4>3 DEF Right, Left
    <3>3. PICK more \in [Tasks \cup {c} -> Space] :
            /\ more[c] = [begin |-> m, end |-> e]
            /\ \A x \in Tasks : more[x] = org[x]
      <4> DEFINE f == [x \in Tasks \cup {c} |-> IF x = c THEN Right(space[t]) ELSE org[x]]
      <4>1. f \in [Tasks \cup {c} -> Space] /\ f[c] = Right(space[t]) /\ \A x \in Tasks : f[x] = org[x]
        BY <2>2, <3>2
      <4> HIDE DEF f
      <4>. QED
        BY <3>2, <4>1
    <3> HIDE DEF m, b, e
    \* The children of a task are tasks, whose spaces are what they were.
    <3>4. \A x \in Tasks : \A i \in DOMAIN kids[x] : more[kids[x][i]] = org[kids[x][i]]
      BY <3>3 DEF IInv, Family
    <3>5. \A x \in Tasks : /\ kids[x] # <<>> => /\ Len(kids[x]) \in Nat \ {0}
                                                /\ Last(kids[x]) = kids[x][Len(kids[x])]
                                                /\ Len(kids[x]) \in DOMAIN kids[x]
                                                /\ 1 \in DOMAIN kids[x]
                           /\ \A i \in 1 .. Len(kids[x]) - 1 : i \in DOMAIN kids[x] /\ i + 1 \in DOMAIN kids[x]
      <4> TAKE x \in Tasks
      <4> DEFINE s == kids[x]
                 l == Len(s)
      <4>1. s \in Seq(Paths)
        BY DEF IInv, TypeOK
      <4> HIDE DEF s
      <4>2. l \in Nat /\ DOMAIN s = 1 .. l /\ (s # <<>> => l # 0 /\ Last(s) = s[l])
        BY <4>1, LenProperties, FrontLast
      <4> HIDE DEF l
      <4>3. /\ s # <<>> => l \in Nat \ {0} /\ l \in 1 .. l /\ 1 \in 1 .. l
            /\ \A i \in 1 .. l - 1 : i \in 1 .. l /\ i + 1 \in 1 .. l
        BY <4>2
      <4>. QED
        BY <4>2, <4>3 DEF s, l
    <3>6. /\ Stop(kids', more, t) = m /\ Stop(kids', more, c) = e
          /\ \A x \in Tasks \ {t} : Stop(kids', more, x) = Stop(kids, org, x)
      <4>1. Stop(kids', more, t) = m
        BY <2>5, <2>6, <2>7, <3>3 DEF Stop
      <4>2. Stop(kids', more, c) = e
        BY <2>7, <3>3 DEF Stop
      <4>3. ASSUME NEW x \in Tasks \ {t}
            PROVE  Stop(kids', more, x) = Stop(kids, org, x)
        <5>1. kids'[x] = kids[x]
          BY <2>7
        <5>2. CASE kids[x] = <<>>
          BY <3>3, <5>1, <5>2 DEF Stop
        <5>3. CASE kids[x] # <<>>
          <6>1. more[Last(kids[x])] = org[Last(kids[x])]
            BY <3>4, <3>5, <5>3
          <6>. QED
            BY <5>1, <5>3, <6>1 DEF Stop
        <5>. QED
          BY <5>2, <5>3
      <4>. QED
        BY <4>1, <4>2, <4>3
    <3>7. ASSUME NEW x \in Tasks \ {t}
          PROVE  /\ more[x].begin <= Stop(kids', more, x)
                 /\ kids'[x] # <<>> => more[kids'[x][1]].end = more[x].end
                 /\ \A i \in 1 .. Len(kids'[x]) - 1 : more[kids'[x][i + 1]].end = more[kids'[x][i]].begin
                 /\ at'[x] \in {"queued", "body"} =>
                      /\ acc'[x] = <<>>
                      /\ space'[x] = [begin |-> more[x].begin, end |-> Stop(kids', more, x)]
                 /\ Applied(x)' => acc'[x] = Run(more[x].begin, Stop(kids', more, x))
      <4>1. Applied(x)' => Applied(x)
        BY <2>7 DEF Applied
      <4>2. kids'[x] = kids[x] /\ more[x] = org[x] /\ Stop(kids', more, x) = Stop(kids, org, x)
        BY <2>7, <3>3, <3>6
      <4>3. /\ kids[x] # <<>> => more[kids[x][1]].end = more[x].end
            /\ \A i \in 1 .. Len(kids[x]) - 1 : more[kids[x][i + 1]].end = more[kids[x][i]].begin
        <5>1. /\ kids[x] # <<>> => org[kids[x][1]].end = org[x].end
              /\ \A i \in 1 .. Len(kids[x]) - 1 : org[kids[x][i + 1]].end = org[kids[x][i]].begin
          BY <2>8 DEF InOrder
        <5>2. /\ kids[x] # <<>> => more[kids[x][1]] = org[kids[x][1]]
              /\ \A i \in 1 .. Len(kids[x]) - 1 :
                   more[kids[x][i + 1]] = org[kids[x][i + 1]] /\ more[kids[x][i]] = org[kids[x][i]]
          BY <3>4, <3>5
        <5>3. more[x] = org[x]
          BY <3>3
        <5>. QED
          BY <5>1, <5>2, <5>3
      <4>4. /\ more[x].begin <= Stop(kids', more, x)
            /\ at[x] \in {"queued", "body"} =>
                 /\ acc[x] = <<>>
                 /\ space[x] = [begin |-> more[x].begin, end |-> Stop(kids', more, x)]
            /\ Applied(x) => acc[x] = Run(more[x].begin, Stop(kids', more, x))
        BY <2>8, <4>2 DEF InOrder
      <4>. QED
        BY <2>7, <4>1, <4>2, <4>3, <4>4
    <3>8. /\ more[t].begin <= Stop(kids', more, t)
          /\ kids'[t] # <<>> => more[kids'[t][1]].end = more[t].end
          /\ \A i \in 1 .. Len(kids'[t]) - 1 : more[kids'[t][i + 1]].end = more[kids'[t][i]].begin
          /\ at'[t] \in {"queued", "body"} =>
               /\ acc'[t] = <<>>
               /\ space'[t] = [begin |-> more[t].begin, end |-> Stop(kids', more, t)]
          /\ at'[t] = "body"
      <4>1. more[t].begin = b /\ more[t].end = org[t].end /\ Stop(kids', more, t) = m
        BY <2>1, <3>3, <3>6 DEF b
      <4>2. b <= m
        BY <3>2, ModulusAssumption DEF Index
      <4>3. more[kids'[t][1]].end = more[t].end
        <5>1. CASE n = 0
          <6>1. kids[t] = <<>>
            BY <2>1, <5>1, EmptySeq DEF n
          <6>2. kids'[t][1] = c /\ e = org[t].end
            BY <2>5, <2>7, <5>1, <6>1 DEF Stop, e
          <6>. QED
            BY <3>3, <4>1, <6>2
        <5>2. CASE n # 0
          <6>1. 1 \in 1 .. n /\ kids[t] # <<>>
            <7>1. kids[t] # <<>>
              BY <2>1, <5>2, EmptySeq DEF n
            <7>. QED
              BY <2>4, <5>2, <7>1
          <6>2. kids'[t][1] = kids[t][1]
            BY <2>5, <2>7, <6>1
          <6>3. org[kids[t][1]].end = org[t].end /\ more[kids[t][1]] = org[kids[t][1]]
            BY <2>1, <2>4, <2>8, <3>4, <6>1 DEF InOrder
          <6>. QED
            BY <4>1, <6>2, <6>3
        <5>. QED
          BY <5>1, <5>2
      <4>4. ASSUME NEW i \in 1 .. Len(kids'[t]) - 1
            PROVE  more[kids'[t][i + 1]].end = more[kids'[t][i]].begin
        <5>1. i \in 1 .. n /\ n + 1 - 1 = n
          BY <2>4, <2>5, <2>7
        <5>2. CASE i = n
          <6>1. kids'[t][i + 1] = c /\ kids'[t][i] = kids[t][n] /\ n \in DOMAIN kids[t]
            BY <2>4, <2>5, <2>7, <5>1, <5>2
          <6>2. kids[t] # <<>>
            BY <2>1, <2>4, <5>1, <5>2, EmptySeq DEF n
          <6>3. e = org[kids[t][n]].begin
            BY <2>1, <3>5, <6>2 DEF e, Stop, n
          <6>4. more[kids[t][n]] = org[kids[t][n]]
            BY <2>1, <3>4, <6>1
          <6>. QED
            BY <3>3, <6>1, <6>3, <6>4
        <5>3. CASE i # n
          <6>1. i \in 1 .. n - 1 /\ i + 1 \in 1 .. n
            BY <2>4, <5>1, <5>3
          <6>2. kids'[t][i + 1] = kids[t][i + 1] /\ kids'[t][i] = kids[t][i]
            BY <2>5, <2>7, <5>1, <6>1
          <6>3. org[kids[t][i + 1]].end = org[kids[t][i]].begin
            BY <2>1, <2>8, <6>1 DEF InOrder, n
          <6>. QED
            BY <2>1, <2>4, <3>4, <5>1, <6>1, <6>2, <6>3
        <5>. QED
          BY <5>2, <5>3
      <4>5. acc'[t] = <<>> /\ space'[t] = [begin |-> b, end |-> m] /\ at'[t] = "body"
        BY <2>1, <2>7, <3>1, <3>2
      <4>. QED
        BY <4>1, <4>2, <4>3, <4>4, <4>5
    <3>9. /\ more[c].begin <= Stop(kids', more, c)
          /\ kids'[c] = <<>>
          /\ acc'[c] = <<>> /\ space'[c] = [begin |-> more[c].begin, end |-> Stop(kids', more, c)]
      <4>1. m <= e
        BY <3>2, ModulusAssumption DEF Index
      <4>. QED
        BY <2>7, <3>2, <3>3, <3>6, <4>1
    <3>10. more[Root] = whole' /\ Space' = Space
      BY <2>3, <2>8, <3>3 DEF InOrder, Space, Index, IInv, TypeOK
    <3>11. InOrder(more)'
      <4>1. \A i : i \notin 1 .. Len(kids'[c]) - 1
        <5>1. Len(kids'[c]) = 0
          BY <3>9
        <5>. QED
          BY <5>1
      <4>2. ASSUME NEW x \in Tasks \cup {c}
            PROVE  /\ more[x].begin <= Stop(kids', more, x)
                   /\ kids'[x] # <<>> => more[kids'[x][1]].end = more[x].end
                   /\ \A i \in 1 .. Len(kids'[x]) - 1 : more[kids'[x][i + 1]].end = more[kids'[x][i]].begin
                   /\ at'[x] \in {"queued", "body"} =>
                        /\ acc'[x] = <<>>
                        /\ space'[x] = [begin |-> more[x].begin, end |-> Stop(kids', more, x)]
                   /\ Applied(x)' => acc'[x] = Run(more[x].begin, Stop(kids', more, x))
        <5>1. CASE x = c
          BY <2>7, <3>9, <4>1, <5>1 DEF Applied
        <5>2. CASE x = t
          BY <3>8, <5>2 DEF Applied
        <5>3. CASE x \in Tasks \ {t}
          BY <3>7, <5>3
        <5>. QED
          BY <5>1, <5>2, <5>3
      <4>. QED
        BY <2>7, <3>10, <4>2 DEF InOrder
    <3>. QED
      BY <2>7, <3>3, <3>10, <3>11
  <2>. QED
    BY <1>1, <2>3, <2>8 DEF Ordered
<1>. QED
  BY <1>0, <1>1

(***************************************************************************)
(* When the wait for a reduction returns, its pieces have been joined in   *)
(* the order of their spaces, whichever worker reduced which of them and   *)
(* when: the operation need not commute (parallel_reduce.hpp:69-101).      *)
(***************************************************************************)
THEOREM ReductionsKeepTheOrder == Spec => []ReducesInOrder
<1>1. Init => Ordered
  <2> SUFFICES ASSUME Init, kind = "reduce"
               PROVE  \E org \in [Tasks -> Space] : InOrder(org)
    BY DEF Ordered
  <2>1. space \in [Tasks -> Space] /\ Tasks = {Root}
    BY InitInvariant DEF IInv, TypeOK, Init, Tasks
  <2>2. /\ space[Root] = whole /\ kids[Root] = <<>> /\ acc[Root] = <<>> /\ at[Root] = "queued"
        /\ whole \in Space
    BY InitInvariant DEF IInv, TypeOK, Init
  <2>3. /\ whole = [begin |-> whole.begin, end |-> whole.end] /\ whole.begin <= whole.end
        /\ Len(kids[Root]) = 0 /\ \A i : i \notin 1 .. 0 - 1
    BY <2>2 DEF Space
  <2>4. InOrder(space)
    BY <2>1, <2>2, <2>3 DEF InOrder, Stop, Applied
  <2>. QED
    BY <2>1, <2>4
<1>2. IInv /\ Ordered /\ [Next]_vars => Ordered'
  <2> SUFFICES ASSUME IInv, Ordered, [Next]_vars
               PROVE  Ordered'
    OBVIOUS
  <2>1. ASSUME NEW w \in Workers, Step(w)
        PROVE  Ordered'
    <3>1. ASSUME UseDestroyed(w)
          PROVE  Calm
      BY <3>1, StillStep DEF UseDestroyed
    <3>. QED
      BY <2>1, <3>1, SpawnOrdered, ApplyOrdered, CheckOrdered, WaitStep, TakeStep, NothingStep,
         NotifyStep, CalmOrdered DEF Step
  <2>2. ASSUME MainWait \/ MainReturns \/ UNCHANGED vars
        PROVE  Ordered'
    <3>1. Calm
      BY <2>2, StillStep DEF MainWait, MainReturns, vars
    <3>. QED
      BY <3>1, CalmOrdered
  <2>. QED
    BY <2>1, <2>2 DEF Next
<1>3. IInv /\ Ordered => ReducesInOrder
  <2> SUFFICES ASSUME IInv, Ordered, status = "returned", kind = "reduce"
               PROVE  acc[Root] = [i \in 1 .. Length(whole) |-> whole.begin + i - 1]
    BY DEF ReducesInOrder
  <2>1. PICK org \in [Tasks -> Space] : InOrder(org)
    BY DEF Ordered
  <2>2. Root \in Tasks /\ Applied(Root) /\ kids[Root] = <<>>
    BY DEF IInv, TypeOK, Returned, Applied, Progress, Finished
  <2>3. acc[Root] = Run(whole.begin, whole.end)
    BY <2>1, <2>2 DEF InOrder, Stop
  <2>4. Length(whole) = whole.end - whole.begin
    BY SplitPointInside DEF IInv, TypeOK
  <2>. QED
    BY <2>3, <2>4 DEF Run
<1>. QED
  BY <1>1, <1>2, <1>3, Invariance, PTL DEF Spec
=============================================================================
