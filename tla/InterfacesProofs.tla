--------------------------- MODULE InterfacesProofs ---------------------------
(***************************************************************************)
(* Proofs about the programs that use the library through its C and C++    *)
(* interfaces, for any numbers, formats and sizes of types, and for any    *)
(* matrices.  Both are trees of calls, named by their paths; recursion and *)
(* paths come first, then the packing of arguments and the C program, then *)
(* the C++ program.                                                        *)
(***************************************************************************)
EXTENDS CInterface, MatMult, SequenceTheorems, WellFoundedInduction, TLAPS

-----------------------------------------------------------------------------
(***************************************************************************)
(* Recursion on the natural numbers, as functions: neither a rule of       *)
(* induction nor a definition may be stated for every predicate.           *)
(***************************************************************************)
\* Induction, for a set: what a set that has 0 and every successor holds.
LEMMA NatSetInduction ==
  ASSUME NEW S, 0 \in S, \A n \in Nat : n \in S => n + 1 \in S
  PROVE  \A n \in Nat : n \in S
<1> DEFINE T == Nat \ S
           R == {p \in Nat \X Nat : p[1] < p[2]}
<1> SUFFICES ASSUME T # {} PROVE FALSE
  OBVIOUS
<1>0. OpToRel(<, Nat) = R
  BY Zenon DEF OpToRel
<1>1. \E x \in T : \A y \in T : ~ (<<y, x>> \in R)
  <2>1. IsWellFoundedOn(R, Nat)
    BY <1>0, NatLessThanWellFounded, Zenon
  <2> HIDE DEF R
  <2>2. T \subseteq Nat
    OBVIOUS
  <2> QED BY <2>1, <2>2, WFMin, Zenon
<1>2. PICK x \in T : \A y \in T : ~ (<<y, x>> \in R)
  BY <1>1
<1>3. x \in Nat /\ x # 0 /\ x - 1 \in Nat /\ x - 1 < x /\ (x - 1) + 1 = x
  OBVIOUS
<1>4. x - 1 \in T
  BY <1>3
<1>5. <<x - 1, x>> \in R
  BY <1>3
<1> QED
  BY <1>2, <1>4, <1>5

(***************************************************************************)
(* Functions defined by primitive recursion exist.                         *)
(***************************************************************************)
IsRecursive(f, S, f0, G) ==
  f \in [Nat -> S] /\ f[0] = f0 /\ \A n \in Nat : f[n + 1] = G[<<n, f[n]>>]

\* A function defined by recursion on the natural numbers exists.
LEMMA RecursionExists ==
  ASSUME NEW S, NEW f0 \in S, NEW G \in [Nat \X S -> S]
  PROVE  \E f : IsRecursive(f, S, f0, G)
<1> DEFINE Part(n) == {g \in [0 .. n -> S] : g[0] = f0 /\ \A k \in 0 .. n - 1 : g[k + 1] = G[<<k, g[k]>>]}
           E == {n \in Nat : Part(n) # {}}
           U == {m \in Nat : \A a, b \in Nat : m <= a /\ m <= b =>
                               \A g \in Part(a), h \in Part(b) : g[m] = h[m]}
<1>1. \A n \in Nat : n \in E
  <2>1. 0 \in E
    <3>1. [k \in 0 .. 0 |-> f0] \in Part(0)
      OBVIOUS
    <3>. QED
      BY <3>1
  <2>2. ASSUME NEW n \in Nat, n \in E
        PROVE  n + 1 \in E
    <3>1. PICK g \in [0 .. n -> S] : g[0] = f0 /\ \A k \in 0 .. n - 1 : g[k + 1] = G[<<k, g[k]>>]
      BY <2>2
    <3> DEFINE v == G[<<n, g[n]>>]
               h == [k \in 0 .. n + 1 |-> IF k = n + 1 THEN v ELSE g[k]]
    <3>2. v \in S
      BY <3>1
    <3> HIDE DEF v
    <3>3. h \in [0 .. n + 1 -> S] /\ h[0] = f0
      BY <3>1, <3>2
    <3>4. ASSUME NEW k \in 0 .. (n + 1) - 1
          PROVE  h[k + 1] = G[<<k, h[k]>>]
      <4>1. k \in 0 .. n /\ h[k] = g[k]
        OBVIOUS
      <4>2. CASE k = n
        <5>1. h[n + 1] = v /\ h[n] = g[n]
          OBVIOUS
        <5>. QED
          BY <4>2, <5>1 DEF v
      <4>3. CASE k # n
        <5>1. k \in 0 .. n - 1 /\ h[k + 1] = g[k + 1]
          BY <4>1, <4>3
        <5>. QED
          BY <3>1, <4>1, <5>1
      <4>. QED
        BY <4>2, <4>3
    <3> HIDE DEF h
    <3>5. h \in Part(n + 1)
      BY <3>3, <3>4
    <3>. QED
      BY <3>5
  <2> HIDE DEF E
  <2>. QED
    BY <2>1, <2>2, NatSetInduction
<1>2. \A m \in Nat : m \in U
  <2>1. 0 \in U
    OBVIOUS
  <2>2. ASSUME NEW m \in Nat, m \in U
        PROVE  m + 1 \in U
    <3>1. ASSUME NEW a \in Nat, NEW b \in Nat, m + 1 <= a, m + 1 <= b, NEW g \in Part(a), NEW h \in Part(b)
          PROVE  g[m + 1] = h[m + 1]
      <4>1. m <= a /\ m <= b /\ m \in 0 .. a - 1 /\ m \in 0 .. b - 1
        BY <3>1
      <4>2. g[m] = h[m]
        <5> HIDE DEF Part
        <5>. QED
          BY <2>2, <4>1
      <4>3. g[m + 1] = G[<<m, g[m]>>] /\ h[m + 1] = G[<<m, h[m]>>]
        BY <4>1
      <4>. QED
        BY <4>2, <4>3
    <3> HIDE DEF Part
    <3>. QED
      BY <3>1
  <2> HIDE DEF U
  <2>. QED
    BY <2>1, <2>2, NatSetInduction
<1> DEFINE p == [n \in Nat |-> CHOOSE g \in Part(n) : TRUE]
           f == [n \in Nat |-> p[n][n]]
<1>3. \A n \in Nat : p[n] \in Part(n)
  <2> HIDE DEF Part
  <2>. QED
    BY <1>1
<1> HIDE DEF p, E
<1>4. f \in [Nat -> S] /\ f[0] = f0
  <2>1. ASSUME NEW n \in Nat
        PROVE  p[n][n] \in S
    <3>1. p[n] \in [0 .. n -> S] /\ n \in 0 .. n
      BY <1>3
    <3>. QED
      BY <3>1
  <2>2. p[0][0] = f0
    BY <1>3
  <2>. QED
    BY <2>1, <2>2
<1>5. ASSUME NEW n \in Nat
      PROVE  f[n + 1] = G[<<n, f[n]>>]
  <2>1. p[n + 1][n + 1] = G[<<n, p[n + 1][n]>>]
    <3>1. p[n + 1] \in Part(n + 1) /\ n \in 0 .. (n + 1) - 1
      BY <1>3
    <3>. QED
      BY <3>1
  <2>2. p[n + 1][n] = p[n][n]
    <3>1. n \in U /\ n + 1 \in Nat /\ n <= n /\ n <= n + 1
      <4> HIDE DEF U
      <4>. QED
        BY <1>2
    <3>2. p[n] \in Part(n) /\ p[n + 1] \in Part(n + 1)
      BY <1>3
    <3> HIDE DEF Part
    <3>. QED
      BY <3>1, <3>2
  <2>. QED
    BY <2>1, <2>2
<1> HIDE DEF f
<1>. QED
  BY <1>4, <1>5 DEF IsRecursive

-----------------------------------------------------------------------------
(***************************************************************************)
(* Sequences as the paths to calls.                                        *)
(***************************************************************************)
\* What a prefix of a sequence holds.
LEMMA PrefixFacts ==
  ASSUME NEW S, NEW s \in Seq(S), NEW k \in 0 .. Len(s)
  PROVE  /\ SubSeq(s, 1, k) \in Seq(S) /\ Len(SubSeq(s, 1, k)) = k
         /\ \A i \in 1 .. k : SubSeq(s, 1, k)[i] = s[i]
<1>1. Len(s) \in Nat /\ k \in Int /\ \A i \in 1 .. k : s[i] \in S
  BY LenProperties
<1>2. /\ SubSeq(s, 1, k) \in Seq(S)
      /\ Len(SubSeq(s, 1, k)) = IF 1 <= k THEN k - 1 + 1 ELSE 0
      /\ \A i \in 1 .. k - 1 + 1 : SubSeq(s, 1, k)[i] = s[1 + i - 1]
  BY <1>1, SubSeqProperties
<1>3. k - 1 + 1 = k /\ (~ (1 <= k) => k = 0) /\ \A i \in 1 .. k : 1 + i - 1 = i
  BY <1>1
<1>. QED
  BY <1>2, <1>3

\* What the front and the last element of a sequence are.
LEMMA FrontLast ==
  ASSUME NEW S, NEW s \in Seq(S), s # <<>>
  PROVE  /\ Len(s) \in Nat \ {0} /\ DOMAIN s = 1 .. Len(s)
         /\ Last(s) = s[Len(s)] /\ Last(s) \in S
         /\ Front(s) \in Seq(S) /\ Len(Front(s)) = Len(s) - 1
         /\ Front(s) = SubSeq(s, 1, Len(s) - 1)
         /\ \A i \in 1 .. Len(s) - 1 : Front(s)[i] = s[i]
<1>1. Len(s) \in Nat \ {0} /\ DOMAIN s = 1 .. Len(s) /\ s[Len(s)] \in S
  BY EmptySeq, LenProperties
<1>2. Len(s) - 1 \in 0 .. Len(s)
  BY <1>1
<1>3. /\ SubSeq(s, 1, Len(s) - 1) \in Seq(S) /\ Len(SubSeq(s, 1, Len(s) - 1)) = Len(s) - 1
      /\ \A i \in 1 .. Len(s) - 1 : SubSeq(s, 1, Len(s) - 1)[i] = s[i]
  BY <1>2, PrefixFacts
<1>. QED
  BY <1>1, <1>3 DEF Front, Last

\* A sequence is its front and its last element.
LEMMA FrontAppend ==
  ASSUME NEW S, NEW s \in Seq(S), s # <<>>
  PROVE  s = Append(Front(s), Last(s))
<1> DEFINE d == Append(Front(s), Last(s))
           n == Len(s)
<1>1. /\ n \in Nat \ {0} /\ Last(s) = s[n] /\ Last(s) \in S
      /\ Front(s) \in Seq(S) /\ Len(Front(s)) = n - 1 /\ \A i \in 1 .. n - 1 : Front(s)[i] = s[i]
  BY FrontLast
<1>2. d \in Seq(S) /\ Len(d) = (n - 1) + 1 /\ d[(n - 1) + 1] = Last(s)
      /\ \A i \in 1 .. n - 1 : d[i] = Front(s)[i]
  BY <1>1, AppendProperties
<1> HIDE DEF d
<1>3. Len(d) = n /\ \A i \in 1 .. n : d[i] = s[i]
  <2>1. (n - 1) + 1 = n /\ \A i \in 1 .. n : i = n \/ i \in 1 .. n - 1
    BY <1>1
  <2>. QED
    BY <1>1, <1>2, <2>1
<1>. QED
  BY <1>2, <1>3, SeqEqual DEF d

\* The sequences up to a length.
LEMMA SeqOfFacts ==
  ASSUME NEW S, NEW n \in Nat, NEW s
  PROVE  s \in SeqOf(S, n) <=> s \in Seq(S) /\ Len(s) <= n
<1>1. ASSUME s \in SeqOf(S, n)
      PROVE  s \in Seq(S) /\ Len(s) <= n
  <2>1. PICK m \in 0 .. n : s \in [1 .. m -> S]
    BY <1>1 DEF SeqOf
  <2>2. s \in Seq(S)
    BY <2>1, SeqDef
  <2>3. Len(s) \in Nat /\ DOMAIN s = 1 .. Len(s)
    BY <2>2, LenProperties
  <2>4. Len(s) = m
    BY <2>1, <2>3
  <2>. QED
    BY <2>1, <2>2, <2>4
<1>2. ASSUME s \in Seq(S), Len(s) <= n
      PROVE  s \in SeqOf(S, n)
  <2>1. s \in [1 .. Len(s) -> S] /\ Len(s) \in 0 .. n
    BY <1>2, LenProperties
  <2>. QED
    BY <2>1 DEF SeqOf
<1>. QED
  BY <1>1, <1>2

\* The path to a call passes through the calls it is part of.
LEMMA PathPrefix ==
  ASSUME NEW S, NEW u \in Seq(S), NEW k \in 0 .. Len(u) - 1
  PROVE  /\ SubSeq(u, 1, k) \in Seq(S)
         /\ SubSeq(u, 1, k + 1) \in Seq(S) \ {<<>>}
         /\ Front(SubSeq(u, 1, k + 1)) = SubSeq(u, 1, k)
         /\ k + 1 \in 1 .. Len(u)
         /\ k + 1 = Len(u) => SubSeq(u, 1, k + 1) = u
<1> DEFINE c == SubSeq(u, 1, k + 1)
           a == SubSeq(u, 1, k)
<1>1. Len(u) \in Nat /\ k \in 0 .. Len(u) /\ k + 1 \in 0 .. Len(u) /\ k + 1 \in 1 .. Len(u)
  BY LenProperties
<1>2. /\ c \in Seq(S) /\ Len(c) = k + 1 /\ \A i \in 1 .. k + 1 : c[i] = u[i]
      /\ a \in Seq(S) /\ Len(a) = k /\ \A i \in 1 .. k : a[i] = u[i]
  BY <1>1, PrefixFacts
<1> HIDE DEF a, c
<1>3. c # <<>>
  BY <1>1, <1>2, EmptySeq
<1>4. /\ Front(c) \in Seq(S) /\ Len(Front(c)) = Len(c) - 1
      /\ \A i \in 1 .. Len(c) - 1 : Front(c)[i] = c[i]
  BY <1>2, <1>3, FrontLast
<1>5. Len(c) - 1 = k /\ \A i \in 1 .. k : i \in 1 .. k + 1
  BY <1>1, <1>2
<1>6. Front(c) = a
  <2>1. Len(Front(c)) = Len(a) /\ \A i \in 1 .. Len(Front(c)) : Front(c)[i] = a[i]
    BY <1>2, <1>4, <1>5
  <2>. QED
    BY <1>2, <1>4, <2>1, SeqEqual
<1>7. k + 1 = Len(u) => c = u
  BY SubSeqFull DEF c
<1>. QED
  BY <1>1, <1>2, <1>3, <1>6, <1>7 DEF a, c

\* The path to a call that a call makes.
LEMMA PathChild ==
  ASSUME NEW S, NEW t \in Seq(S), NEW n \in S
  PROVE  /\ Append(t, n) \in Seq(S) \ {<<>>}
         /\ Front(Append(t, n)) = t /\ Last(Append(t, n)) = n
         /\ Len(t) \in Nat /\ Len(Append(t, n)) = Len(t) + 1
         /\ SubSeq(Append(t, n), 1, Len(t)) = t
         /\ \A k \in 0 .. Len(t) - 1 : SubSeq(Append(t, n), 1, k) = SubSeq(t, 1, k)
<1> DEFINE c == Append(t, n)
<1>1. /\ c \in Seq(S) /\ c # <<>> /\ Len(c) = Len(t) + 1 /\ Len(t) \in Nat
      /\ \A i \in 1 .. Len(t) : c[i] = t[i]
      /\ c[Len(t) + 1] = n
  BY AppendProperties, LenProperties
<1> HIDE DEF c
<1>2. /\ Last(c) = c[Len(c)] /\ Front(c) \in Seq(S) /\ Len(Front(c)) = Len(c) - 1
      /\ \A i \in 1 .. Len(c) - 1 : Front(c)[i] = c[i]
      /\ Front(c) = SubSeq(c, 1, Len(c) - 1)
  BY <1>1, FrontLast
<1>3. Len(c) - 1 = Len(t)
  BY <1>1
<1>4. Front(c) = t
  BY <1>1, <1>2, <1>3, SeqEqual
<1>5. ASSUME NEW k \in 0 .. Len(t) - 1
      PROVE  SubSeq(c, 1, k) = SubSeq(t, 1, k)
  <2>1. k \in 0 .. Len(t) /\ k \in 0 .. Len(c) /\ \A i \in 1 .. k : i \in 1 .. Len(t)
    BY <1>1
  <2>2. /\ SubSeq(c, 1, k) \in Seq(S) /\ Len(SubSeq(c, 1, k)) = k
        /\ \A i \in 1 .. k : SubSeq(c, 1, k)[i] = c[i]
    BY <1>1, <2>1, PrefixFacts
  <2>3. /\ SubSeq(t, 1, k) \in Seq(S) /\ Len(SubSeq(t, 1, k)) = k
        /\ \A i \in 1 .. k : SubSeq(t, 1, k)[i] = t[i]
    BY <1>1, <2>1, PrefixFacts
  <2>. QED
    BY <1>1, <2>1, <2>2, <2>3, SeqEqual
<1>. QED
  BY <1>1, <1>2, <1>3, <1>4, <1>5 DEF c

-----------------------------------------------------------------------------
(***************************************************************************)
(* A buffer holds what was packed, each argument where it is looked for.   *)
(***************************************************************************)

\* A function defined by recursion up to a length.
IsRecursiveTo(f, S, f0, n, G) ==
  f \in [0 .. n -> S] /\ f[0] = f0 /\ \A k \in 1 .. n : f[k] = G[<<k, f[k - 1]>>]

\* A function defined by recursion up to a length exists.
LEMMA BoundedRecursion ==
  ASSUME NEW S, NEW f0 \in S, NEW n \in Nat, NEW G \in [(1 .. n) \X S -> S]
  PROVE  \E f : IsRecursiveTo(f, S, f0, n, G)
<1> DEFINE H == [a \in Nat \X S |-> IF a[1] < n THEN G[<<a[1] + 1, a[2]>>] ELSE a[2]]
<1>1. H \in [Nat \X S -> S]
  <2>1. ASSUME NEW a \in Nat \X S
        PROVE  (IF a[1] < n THEN G[<<a[1] + 1, a[2]>>] ELSE a[2]) \in S
    <3>1. a[1] \in Nat /\ a[2] \in S
      OBVIOUS
    <3>2. CASE a[1] < n
      <4>1. <<a[1] + 1, a[2]>> \in (1 .. n) \X S
        BY <3>1, <3>2
      <4>. QED
        BY <3>2, <4>1
    <3>. QED
      BY <3>1, <3>2
  <2>. QED
    BY <2>1
<1>2. PICK h : IsRecursive(h, S, f0, H)
  <2> HIDE DEF H
  <2>. QED
    BY <1>1, RecursionExists
<1>3. h \in [Nat -> S] /\ h[0] = f0 /\ \A m \in Nat : h[m + 1] = H[<<m, h[m]>>]
  <2> HIDE DEF H
  <2>. QED
    BY <1>2 DEF IsRecursive
<1> DEFINE f == [k \in 0 .. n |-> h[k]]
<1>4. f \in [0 .. n -> S] /\ f[0] = f0
  BY <1>3
<1>5. ASSUME NEW k \in 1 .. n
      PROVE  f[k] = G[<<k, f[k - 1]>>]
  <2> DEFINE m == k - 1
  <2>1. m \in Nat /\ m < n /\ m + 1 = k /\ m \in 0 .. n /\ k \in 0 .. n
    OBVIOUS
  <2> HIDE DEF m
  <2>2. h[m + 1] = H[<<m, h[m]>>] /\ h[m] \in S
    <3> HIDE DEF H, f
    <3>. QED
      BY <1>3, <2>1
  <2>3. H[<<m, h[m]>>] = G[<<m + 1, h[m]>>]
    BY <2>1, <2>2
  <2>4. f[k] = h[k] /\ f[m] = h[m]
    BY <2>1
  <2>5. f[k] = G[<<k, f[m]>>]
    BY <2>1, <2>2, <2>3, <2>4
  <2>. QED
    BY <2>5 DEF m
<1> HIDE DEF f
<1>. QED
  BY <1>4, <1>5 DEF IsRecursiveTo

IsFormat(f) == f \in Seq([base : Bases, stars : Nat]) /\ Valid(f)
IsABI(a) ==
  a.int \in Nat \ {0} /\ a.long \in Nat \ {0} /\ a.pointer \in Nat \ {0} /\ a.double \in Nat \ {0}

\* Every type of a valid format has a size.
LEMMA WidthFacts ==
  ASSUME NEW a, IsABI(a), NEW f, IsFormat(f), NEW k \in 1 .. Len(f)
  PROVE  Width(a, f[k]) \in Nat \ {0}
<1>1. f[k] \in [base : Bases, stars : Nat] /\ f[k].stars \in Stars(f[k].base)
  BY LenProperties DEF IsFormat, Valid
<1>2. CASE f[k].stars > 0
  BY <1>2 DEF Width, IsABI
<1>3. CASE ~ (f[k].stars > 0)
  <2>1. f[k].stars = 0
    BY <1>1, <1>3
  <2>2. f[k].base \in {"int", "unsigned int", "long int", "double"}
    <3>1. 0 \notin 1 .. 2 /\ 0 \notin {1} /\ 0 \in Stars(f[k].base)
      BY <1>1, <2>1
    <3>2. f[k].base \notin {"char", "unsigned char", "float"}
      <4>1. CASE f[k].base \in {"char", "unsigned char", "float"}
        <5>1. Stars(f[k].base) = 1 .. 2
          BY <4>1 DEF Stars
        <5>. QED
          BY <3>1, <5>1
      <4>. QED
        BY <4>1
    <3>3. f[k].base # "void"
      <4>1. CASE f[k].base = "void"
        <5>1. Stars(f[k].base) = {1}
          BY <4>1 DEF Stars
        <5>. QED
          BY <3>1, <5>1
      <4>. QED
        BY <4>1
    <3>4. f[k].base \in Bases
      BY <1>1
    <3>. QED
      BY <3>2, <3>3, <3>4 DEF Bases
  <2>3. CASE f[k].base \in {"int", "unsigned int"}
    BY <1>3, <2>1, <2>3 DEF Width, IsABI
  <2>4. CASE f[k].base = "long int"
    BY <1>3, <2>1, <2>4 DEF Width, IsABI
  <2>5. CASE f[k].base = "double"
    BY <1>3, <2>1, <2>5 DEF Width, IsABI
  <2>. QED
    BY <2>2, <2>3, <2>4, <2>5
<1>. QED
  BY <1>2, <1>3

\* Offsets are sums of sizes.
LEMMA OffsetFacts ==
  ASSUME NEW a, IsABI(a), NEW f, IsFormat(f)
  PROVE  \E sum \in [0 .. Len(f) -> Nat] :
           /\ sum[0] = 0
           /\ \A k \in 1 .. Len(f) : sum[k] = sum[k - 1] + Width(a, f[k])
           /\ \A i : Offset(a, f, i) = sum[i - 1]
<1> DEFINE n == Len(f)
           G == [p \in (1 .. n) \X Nat |-> p[2] + Width(a, f[p[1]])]
<1>1. n \in Nat
  BY LenProperties DEF IsFormat
<1>2. G \in [(1 .. n) \X Nat -> Nat]
  BY WidthFacts
<1>3. PICK s \in [0 .. n -> Nat] : s[0] = 0 /\ \A k \in 1 .. n : s[k] = G[<<k, s[k - 1]>>]
  <2>1. 0 \in Nat
    OBVIOUS
  <2> HIDE DEF G, n
  <2>2. \E s : IsRecursiveTo(s, Nat, 0, n, G)
    BY <1>1, <1>2, <2>1, BoundedRecursion
  <2>. QED
    BY <2>2 DEF IsRecursiveTo
<1>4. ASSUME NEW k \in 1 .. n
      PROVE  s[k] = s[k - 1] + Width(a, f[k])
  <2>1. k - 1 \in 0 .. n
    BY <1>1
  <2>2. <<k, s[k - 1]>> \in (1 .. n) \X Nat
    BY <2>1
  <2>. QED
    BY <1>3, <2>2
<1>5. s = [k \in 0 .. Len(f) |-> IF k = 0 THEN 0 ELSE s[k - 1] + Width(a, f[k])]
  <2>1. s = [k \in 0 .. n |-> s[k]]
    OBVIOUS
  <2>2. \A k \in 0 .. n : s[k] = IF k = 0 THEN 0 ELSE s[k - 1] + Width(a, f[k])
    BY <1>1, <1>3, <1>4
  <2>. QED
    BY <2>1, <2>2
<1>6. PICK g : /\ g = [k \in 0 .. Len(f) |-> IF k = 0 THEN 0 ELSE g[k - 1] + Width(a, f[k])]
               /\ \A i : Offset(a, f, i) = g[i - 1]
  <2>1. \E g : g = [k \in 0 .. Len(f) |-> IF k = 0 THEN 0 ELSE g[k - 1] + Width(a, f[k])]
    BY <1>5
  <2>. QED
    BY <2>1 DEF Offset
<1>7. g[0] = 0 /\ \A k \in 1 .. n : g[k] = g[k - 1] + Width(a, f[k])
  <2>1. 0 \in 0 .. Len(f) /\ \A k \in 1 .. n : k \in 0 .. Len(f) /\ k # 0
    BY <1>1
  <2>. QED
    BY <1>6, <2>1
<1>8. \A m \in Nat : m \in {k \in Nat : k <= n => g[k] \in Nat}
  <2> DEFINE T == {k \in Nat : k <= n => g[k] \in Nat}
  <2>1. 0 \in T
    BY <1>7
  <2>2. ASSUME NEW m \in Nat, m \in T
        PROVE  m + 1 \in T
    <3>1. ASSUME m + 1 <= n
          PROVE  g[m + 1] \in Nat
      <4>1. m + 1 \in 1 .. n /\ (m + 1) - 1 = m /\ m <= n
        BY <1>1, <3>1
      <4>2. g[m + 1] = g[m] + Width(a, f[m + 1]) /\ Width(a, f[m + 1]) \in Nat
        BY <1>7, <4>1, WidthFacts
      <4>. QED
        BY <2>2, <4>1, <4>2
    <3>. QED
      BY <3>1
  <2> HIDE DEF T
  <2>3. \A m \in Nat : m \in T
    BY <2>1, <2>2, NatSetInduction
  <2>. QED
    BY <2>3 DEF T
<1>9. g \in [0 .. n -> Nat]
  <2>1. \A k \in 0 .. n : g[k] \in Nat
    BY <1>1, <1>8
  <2>2. g = [k \in 0 .. n |-> g[k]]
    BY <1>6
  <2>. QED
    BY <2>1, <2>2
<1>. QED
  BY <1>6, <1>7, <1>9

\* The bytes of arguments, and the sequence that one argument is.
BytesOf(x, f) == {<<x[i], j>> : i \in DOMAIN f, j \in Nat}

\* An argument has the bytes of its width.
LEMMA BytesFacts ==
  ASSUME NEW x, NEW f, NEW i \in DOMAIN f, NEW w \in Nat
  PROVE  Bytes(x[i], w) \in Seq(BytesOf(x, f)) /\ Len(Bytes(x[i], w)) = w
<1> DEFINE B == BytesOf(x, f)
           b == Bytes(x[i], w)
<1>1. b \in [1 .. w -> B]
  BY DEF Bytes, BytesOf
<1> HIDE DEF B, b
<1>2. b \in Seq(B)
  BY <1>1, SeqDef
<1>3. Len(b) = w
  <2>1. DOMAIN b = 1 .. w /\ Len(b) \in Nat /\ DOMAIN b = 1 .. Len(b)
    BY <1>1, <1>2, LenProperties
  <2>. QED
    BY <2>1
<1>. QED
  BY <1>2, <1>3 DEF B, b

\* What follows is appended and leaves what was there.
LEMMA AppendedFacts ==
  ASSUME NEW S, NEW s \in Seq(S), NEW t \in Seq(S)
  PROVE  /\ s \o t \in Seq(S) /\ Len(s \o t) = Len(s) + Len(t)
         /\ \A m, n \in 1 .. Len(s) : SubSeq(s \o t, m, n) = SubSeq(s, m, n)
         /\ t # <<>> => SubSeq(s \o t, Len(s) + 1, Len(s) + Len(t)) = t
<1>1. s \o t \in Seq(S) /\ Len(s \o t) = Len(s) + Len(t)
  BY ConcatProperties
<1>2. \A m, n \in 1 .. Len(s) : SubSeq(s \o t, m, n) = SubSeq(s, m, n)
  BY SubSeqOfConcat1
<1>3. ASSUME t # <<>>
      PROVE  SubSeq(s \o t, Len(s) + 1, Len(s) + Len(t)) = t
  <2> DEFINE a == Len(s)
             b == Len(t)
             m == a + 1
             n == a + b
  <2>1. a \in Nat /\ b \in Nat \ {0}
    BY <1>3, EmptySeq, LenProperties
  <2> HIDE DEF a, b
  <2>2. m \in a + 1 .. a + b /\ n \in a + 1 .. a + b /\ m - a = 1 /\ n - a = b
    BY <2>1
  <2> HIDE DEF m, n
  <2>3. SubSeq(s \o t, m, n) = SubSeq(t, m - a, n - a)
    BY <2>2, SubSeqOfConcat2 DEF a, b
  <2>4. SubSeq(t, 1, b) = t
    BY SubSeqFull DEF b
  <2>. QED
    BY <2>2, <2>3, <2>4 DEF m, n, a, b
<1>. QED
  BY <1>1, <1>2, <1>3

\* What is packed has the computed size, and is found back where it is looked for
\* (pfunc_pack.cpp:313-481, 483-644).
LEMMA PackedFacts ==
  ASSUME NEW a, IsABI(a), NEW f, IsFormat(f), NEW x
  PROVE  /\ Len(Packed(a, f, x)) = BufferSize(a, f)
         /\ Unpacked(a, f, Packed(a, f, x)) = [i \in DOMAIN f |-> Bytes(x[i], Width(a, f[i]))]
<1> DEFINE n == Len(f)
           B == BytesOf(x, f)
           piece(k) == Bytes(x[k], Width(a, f[k]))
           G == [p \in (1 .. n) \X Seq(B) |-> p[2] \o piece(p[1])]
<1>1. n \in Nat /\ DOMAIN f = 1 .. n
  BY LenProperties DEF IsFormat
<1>2. PICK sum \in [0 .. n -> Nat] :
        /\ sum[0] = 0
        /\ \A k \in 1 .. n : sum[k] = sum[k - 1] + Width(a, f[k])
        /\ \A i : Offset(a, f, i) = sum[i - 1]
  BY OffsetFacts
<1>3. ASSUME NEW k \in 1 .. n
      PROVE  piece(k) \in Seq(B) /\ Len(piece(k)) = Width(a, f[k]) /\ Width(a, f[k]) \in Nat \ {0}
  <2>1. Width(a, f[k]) \in Nat \ {0} /\ k \in DOMAIN f
    BY <1>1, WidthFacts
  <2>. QED
    BY <2>1, BytesFacts
<1>4. G \in [(1 .. n) \X Seq(B) -> Seq(B)]
  <2>1. \A p \in (1 .. n) \X Seq(B) : p[2] \o piece(p[1]) \in Seq(B)
    <3> HIDE DEF piece, B, n
    <3>. QED
      BY <1>3, AppendedFacts
  <2>. QED
    BY <2>1
<1>5. PICK s \in [0 .. n -> Seq(B)] : s[0] = <<>> /\ \A k \in 1 .. n : s[k] = G[<<k, s[k - 1]>>]
  <2>1. <<>> \in Seq(B)
    BY EmptySeq
  <2> HIDE DEF G, n, B
  <2>2. \E s : IsRecursiveTo(s, Seq(B), <<>>, n, G)
    BY <1>1, <1>4, <2>1, BoundedRecursion
  <2>. QED
    BY <2>2 DEF IsRecursiveTo
<1>6. ASSUME NEW k \in 1 .. n
      PROVE  s[k] = s[k - 1] \o piece(k)
  <2>1. k - 1 \in 0 .. n
    BY <1>1
  <2>2. <<k, s[k - 1]>> \in (1 .. n) \X Seq(B)
    BY <1>5, <2>1
  <2>. QED
    BY <1>5, <2>2
<1>7. s = [k \in 0 .. Len(f) |-> IF k = 0 THEN <<>> ELSE s[k - 1] \o Bytes(x[k], Width(a, f[k]))]
  <2>1. s = [k \in 0 .. n |-> s[k]]
    BY <1>5
  <2>2. \A k \in 0 .. n : s[k] = IF k = 0 THEN <<>> ELSE s[k - 1] \o piece(k)
    BY <1>1, <1>5, <1>6
  <2>. QED
    BY <2>1, <2>2
<1>8. PICK g : /\ g = [k \in 0 .. Len(f) |-> IF k = 0 THEN <<>> ELSE g[k - 1] \o Bytes(x[k], Width(a, f[k]))]
               /\ Packed(a, f, x) = g[n]
  <2>1. \E g : g = [k \in 0 .. Len(f) |-> IF k = 0 THEN <<>> ELSE g[k - 1] \o Bytes(x[k], Width(a, f[k]))]
    BY <1>7
  <2>. QED
    BY <2>1 DEF Packed
<1>9. g[0] = <<>> /\ \A k \in 1 .. n : g[k] = g[k - 1] \o piece(k)
  <2>1. 0 \in 0 .. Len(f) /\ \A k \in 1 .. n : k \in 0 .. Len(f) /\ k # 0
    BY <1>1
  <2>. QED
    BY <1>8, <2>1
<1> DEFINE Holds(k) == /\ g[k] \in Seq(B) /\ Len(g[k]) = sum[k]
                       /\ \A j \in 1 .. k : /\ sum[j - 1] + 1 \in 1 .. sum[k] /\ sum[j] \in 1 .. sum[k]
                                            /\ SubSeq(g[k], sum[j - 1] + 1, sum[j]) = piece(j)
           T == {k \in Nat : k <= n => Holds(k)}
<1>10. \A k \in Nat : k \in T
  <2>1. 0 \in T
    <3>1. Holds(0)
      BY <1>2, <1>9, EmptySeq
    <3>. QED
      BY <3>1
  <2>2. ASSUME NEW k \in Nat, k \in T
        PROVE  k + 1 \in T
    <3>1. ASSUME k + 1 <= n
          PROVE  Holds(k + 1)
      <4> DEFINE w == Width(a, f[k + 1])
                 t == piece(k + 1)
      <4>1. k + 1 \in 1 .. n /\ (k + 1) - 1 = k /\ k <= n /\ k \in 0 .. n /\ k + 1 \in 0 .. n
        BY <1>1, <3>1
      <4>2. Holds(k)
        <5> HIDE DEF Holds
        <5>. QED
          BY <2>2, <4>1
      <4>3. t \in Seq(B) /\ Len(t) = w /\ w \in Nat \ {0} /\ g[k + 1] = g[k] \o t /\ sum[k + 1] = sum[k] + w
        BY <1>2, <1>3, <1>9, <4>1
      <4>4. sum[k] \in Nat
        BY <1>2, <4>1
      <4>5. t # <<>>
        <5> HIDE DEF t, w
        <5>. QED
          BY <4>3, EmptySeq
      <4>6. g[k] \in Seq(B) /\ Len(g[k]) = sum[k]
        BY <4>2
      <4> HIDE DEF w, t
      <4>7. /\ g[k + 1] \in Seq(B) /\ Len(g[k + 1]) = sum[k] + w
            /\ \A m, l \in 1 .. sum[k] : SubSeq(g[k + 1], m, l) = SubSeq(g[k], m, l)
            /\ SubSeq(g[k + 1], sum[k] + 1, sum[k] + w) = t
        <5> DEFINE u == g[k]
        <5>1. u \in Seq(B) /\ Len(u) = sum[k] /\ g[k + 1] = u \o t
          BY <4>3, <4>6
        <5> HIDE DEF u, B
        <5>2. /\ u \o t \in Seq(B) /\ Len(u \o t) = Len(u) + Len(t)
              /\ \A m, l \in 1 .. Len(u) : SubSeq(u \o t, m, l) = SubSeq(u, m, l)
              /\ SubSeq(u \o t, Len(u) + 1, Len(u) + Len(t)) = t
          BY SMTT(30), <4>3, <4>5, <5>1, AppendedFacts
        <5>3. Len(t) = w
          BY <4>3
        <5>. QED
          BY <5>1, <5>2, <5>3 DEF u
      <4>8. ASSUME NEW j \in 1 .. k + 1
            PROVE  /\ sum[j - 1] + 1 \in 1 .. sum[k + 1] /\ sum[j] \in 1 .. sum[k + 1]
                   /\ SubSeq(g[k + 1], sum[j - 1] + 1, sum[j]) = piece(j)
        <5>1. CASE j = k + 1
          <6>1. j - 1 = k /\ piece(j) = t
            BY <5>1 DEF t
          <6>2. sum[k] + 1 \in 1 .. sum[k] + w /\ sum[k] + w \in 1 .. sum[k] + w
            BY <4>3, <4>4
          <6> HIDE DEF piece
          <6>. QED
            BY <4>3, <4>7, <5>1, <6>1, <6>2
        <5>2. CASE j # k + 1
          <6>1. j \in 1 .. k
            BY <5>2
          <6>2. /\ sum[j - 1] + 1 \in 1 .. sum[k] /\ sum[j] \in 1 .. sum[k]
                /\ SubSeq(g[k], sum[j - 1] + 1, sum[j]) = piece(j)
            BY <4>2, <6>1
          <6>3. \A m \in 1 .. sum[k] : m \in 1 .. sum[k] + w
            BY <4>3, <4>4
          <6> HIDE DEF piece
          <6>. QED
            BY <4>3, <4>7, <6>2, <6>3
        <5>. QED
          BY <5>1, <5>2
      <4>. QED
        BY <4>3, <4>7, <4>8
    <3> HIDE DEF Holds
    <3>. QED
      BY <3>1
  <2> HIDE DEF T
  <2>. QED
    BY <2>1, <2>2, NatSetInduction
<1>11. Holds(n)
  <2>1. n \in T
    <3> HIDE DEF T, n
    <3>. QED
      BY <1>1, <1>10
  <2> HIDE DEF Holds
  <2>. QED
    BY <1>1, <2>1
<1>12. Len(Packed(a, f, x)) = BufferSize(a, f)
  <2>1. Offset(a, f, n + 1) = sum[n]
    <3>1. (n + 1) - 1 = n
      BY <1>1
    <3>. QED
      BY <1>2, <3>1
  <2>. QED
    BY <1>8, <1>11, <2>1 DEF BufferSize
<1>13. ASSUME NEW i \in 1 .. n
       PROVE  SubSeq(g[n], Offset(a, f, i) + 1, Offset(a, f, i) + Width(a, f[i])) = piece(i)
  <2>1. Offset(a, f, i) = sum[i - 1] /\ sum[i] = sum[i - 1] + Width(a, f[i])
    BY <1>2
  <2>. QED
    BY <1>11, <2>1
<1>. QED
  BY <1>1, <1>8, <1>12, <1>13 DEF Unpacked

-----------------------------------------------------------------------------
(***************************************************************************)
(* The C program.                                                          *)
(***************************************************************************)
\* The function that CHOOSE picks for Fib has its recursion.
LEMMA FibIsRecursive ==
  /\ Fib \in [Nat -> Nat]
  /\ \A n \in Nat : Fib[n] = IF n < 2 THEN n ELSE Fib[n - 1] + Fib[n - 2]
<1> DEFINE S == Nat \X Nat
           G == [a \in Nat \X S |-> <<a[2][2], a[2][1] + a[2][2]>>]
<1>1. G \in [Nat \X S -> S]
  OBVIOUS
<1>2. PICK f \in [Nat -> S] : f[0] = <<0, 1>> /\ \A n \in Nat : f[n + 1] = G[<<n, f[n]>>]
  <2>1. <<0, 1>> \in S
    OBVIOUS
  <2> HIDE DEF S, G
  <2>2. \E f : IsRecursive(f, S, <<0, 1>>, G)
    BY <1>1, <2>1, RecursionExists
  <2>. QED
    BY <2>2 DEF IsRecursive
<1>3. ASSUME NEW n \in Nat
      PROVE  f[n] \in Nat \X Nat /\ f[n + 1][1] = f[n][2] /\ f[n + 1][2] = f[n][1] + f[n][2]
  <2>1. f[n] \in Nat \X Nat
    OBVIOUS
  <2>2. f[n + 1] = G[<<n, f[n]>>] /\ <<n, f[n]>> \in Nat \X S
    BY <1>2
  <2>3. G[<<n, f[n]>>] = <<f[n][2], f[n][1] + f[n][2]>>
    BY <2>1
  <2>. QED
    BY <2>1, <2>2, <2>3
<1> DEFINE g == [n \in Nat |-> f[n][1]]
<1>4. g \in [Nat -> Nat]
  BY <1>3
<1>5. g = [n \in Nat |-> IF n < 2 THEN n ELSE g[n - 1] + g[n - 2]]
  <2>1. ASSUME NEW n \in Nat
        PROVE  g[n] = IF n < 2 THEN n ELSE g[n - 1] + g[n - 2]
    <3>1. f[0][1] = 0 /\ f[1][1] = 1
      BY <1>2, <1>3, 0 + 1 = 1
    <3>2. CASE n < 2
      <4>1. n = 0 \/ n = 1
        BY <3>2
      <4>. QED
        BY <3>1, <4>1
    <3>3. CASE ~ (n < 2)
      <4>1. n - 2 \in Nat /\ n - 1 \in Nat /\ (n - 2) + 1 = n - 1 /\ (n - 1) + 1 = n
        BY <3>3
      <4>2. /\ f[n - 1][1] = f[n - 2][2] /\ f[n - 1][2] = f[n - 2][1] + f[n - 2][2]
            /\ f[n][1] = f[n - 1][2]
        BY <1>3, <4>1
      <4>3. f[n - 2][1] \in Nat /\ f[n - 2][2] \in Nat
        BY <1>3, <4>1
      <4>. QED
        BY <3>3, <4>1, <4>2, <4>3
    <3>. QED
      BY <3>2, <3>3
  <2> HIDE DEF g
  <2>2. g = [n \in Nat |-> g[n]]
    BY <1>4
  <2>. QED
    BY <2>1, <2>2
<1> HIDE DEF g
<1>6. Fib = [n \in Nat |-> IF n < 2 THEN n ELSE Fib[n - 1] + Fib[n - 2]]
  BY <1>5 DEF Fib
<1>7. \A n \in Nat : Fib[n] = IF n < 2 THEN n ELSE Fib[n - 1] + Fib[n - 2]
  BY <1>6
<1>8. \A n \in Nat : Fib[n] \in Nat
  <2> DEFINE T == {n \in Nat : Fib[n] \in Nat /\ Fib[n + 1] \in Nat}
  <2>1. 0 \in T
    BY <1>7, 0 + 1 = 1
  <2>2. ASSUME NEW n \in Nat, n \in T
        PROVE  n + 1 \in T
    <3>1. Fib[n] \in Nat /\ Fib[n + 1] \in Nat
      BY <2>2
    <3>2. n + 2 \in Nat /\ ~ (n + 2 < 2) /\ (n + 2) - 1 = n + 1 /\ (n + 2) - 2 = n
      OBVIOUS
    <3>3. Fib[n + 2] = Fib[n + 1] + Fib[n]
      BY <1>7, <3>2
    <3>4. n + 1 \in Nat /\ (n + 1) + 1 = n + 2
      OBVIOUS
    <3>. QED
      BY <3>1, <3>3, <3>4
  <2> HIDE DEF T
  <2>3. \A n \in Nat : n \in T
    BY <2>1, <2>2, NatSetInduction
  <2>. QED
    BY <2>3 DEF T
<1>. QED
  BY <1>6, <1>7, <1>8

-----------------------------------------------------------------------------
(***************************************************************************)
(* The calls of parallel_fib(), a tree by their paths.                     *)
(***************************************************************************)
Steps == 1 .. Len(Numbers) + 1

\* A path begins with a task of main, and goes on with one of two calls.
LEMMA CallFacts ==
  ASSUME NEW c \in Calls
  PROVE  /\ c \in Seq(Steps) /\ c # <<>> /\ Len(c) \in 1 .. MaxDepth
         /\ c[1] \in DOMAIN Numbers /\ \A k \in 2 .. Len(c) : c[k] \in {1, 2}
<1>1. c \in SeqOf(Steps, MaxDepth) /\ c # <<>> /\ MaxDepth \in Nat
  BY NumbersAssumption DEF Calls, Steps
<1>2. c \in Seq(Steps) /\ Len(c) <= MaxDepth
  BY <1>1, SeqOfFacts
<1>3. Len(c) \in Nat \ {0}
  BY <1>1, <1>2, EmptySeq
<1>. QED
  BY <1>1, <1>2, <1>3 DEF Calls

\* What is a path.
LEMMA IsCall ==
  ASSUME NEW c \in Seq(Steps), Len(c) \in 1 .. MaxDepth, c[1] \in DOMAIN Numbers,
         \A k \in 2 .. Len(c) : c[k] \in {1, 2}
  PROVE  c \in Calls
<1>1. c # <<>> /\ MaxDepth \in Nat /\ Len(c) <= MaxDepth
  BY EmptySeq, NumbersAssumption
<1>2. c \in SeqOf(Steps, MaxDepth)
  BY <1>1, SeqOfFacts
<1>. QED
  BY <1>1, <1>2 DEF Calls, Steps

\* The numbers are in reach of the paths.
LEMMA NumbersFacts ==
  /\ Len(Numbers) \in Nat \ {0} /\ DOMAIN Numbers = 1 .. Len(Numbers)
  /\ \A i \in DOMAIN Numbers : i \in Steps /\ Numbers[i] \in Nat /\ Numbers[i] <= MaxDepth
  /\ 1 \in Steps /\ 2 \in Steps /\ MaxDepth \in Nat \ {0}
<1>1. Len(Numbers) \in Nat /\ Len(Numbers) # 0 /\ DOMAIN Numbers = 1 .. Len(Numbers)
      /\ \A i \in 1 .. Len(Numbers) : Numbers[i] \in Nat
  BY NumbersAssumption, LenProperties, EmptySeq
<1>. QED
  BY <1>1, NumbersAssumption DEF Steps

\* The tasks main spawns.
LEMMA RootFacts ==
  /\ \A i \in DOMAIN Numbers : <<i>> \in Roots
  /\ \A c \in Roots : c \in Calls /\ c \in Handles /\ Len(c) = 1 /\ c[1] \in DOMAIN Numbers /\ c = <<c[1]>>
  /\ \A c \in Calls : Len(c) = 1 => c \in Roots
<1>1. \A i \in DOMAIN Numbers : <<i>> \in Roots
  BY DEF Roots
<1>2. ASSUME NEW c \in Roots
      PROVE  c \in Calls /\ c \in Handles /\ Len(c) = 1 /\ c[1] \in DOMAIN Numbers /\ c = <<c[1]>>
  <2>1. PICK i \in DOMAIN Numbers : c = <<i>>
    BY DEF Roots
  <2>2. i \in Steps /\ 1 \in 1 .. MaxDepth
    BY NumbersFacts
  <2>3. c \in Seq(Steps) /\ Len(c) = 1 /\ c[1] = i
    BY <2>1, <2>2
  <2>4. c \in Calls
    <3>1. Len(c) \in 1 .. MaxDepth /\ 2 .. Len(c) = {}
      BY <2>2, <2>3
    <3>. QED
      BY <2>3, <3>1, IsCall
  <2>. QED
    BY <2>1, <2>3, <2>4 DEF Handles
<1>3. ASSUME NEW c \in Calls, Len(c) = 1
      PROVE  c \in Roots
  <2>1. c \in Seq(Steps) /\ c[1] \in DOMAIN Numbers
    BY CallFacts
  <2>2. c = <<c[1]>>
    <3>1. <<c[1]>> \in Seq(Steps) /\ Len(<<c[1]>>) = 1 /\ <<c[1]>>[1] = c[1]
      BY <2>1, NumbersFacts
    <3>2. \A i \in 1 .. Len(c) : c[i] = <<c[1]>>[i]
      BY <1>3, <3>1
    <3>. QED
      BY <1>3, <2>1, <3>1, <3>2, SeqEqual
  <2>. QED
    BY <2>1, <2>2, <1>1
<1>. QED
  BY <1>1, <1>2, <1>3

Inner == Calls \ Roots

\* A call that another one makes.
LEMMA InnerFacts ==
  ASSUME NEW c \in Inner
  PROVE  /\ c \in Calls /\ Len(c) \in 2 .. MaxDepth
         /\ Front(c) \in Calls /\ Len(Front(c)) = Len(c) - 1
         /\ Last(c) \in {1, 2} /\ c = Append(Front(c), Last(c))
         /\ c \in Handles <=> Last(c) = 1
<1>1. /\ c \in Seq(Steps) /\ c # <<>> /\ Len(c) \in 1 .. MaxDepth
      /\ c[1] \in DOMAIN Numbers /\ \A k \in 2 .. Len(c) : c[k] \in {1, 2}
  BY CallFacts DEF Inner
<1>2. Len(c) # 1
  BY RootFacts DEF Inner
<1>3. Len(c) \in 2 .. MaxDepth /\ MaxDepth \in Nat
  <2> DEFINE n == Len(c)
  <2>1. MaxDepth \in Nat /\ n \in 1 .. MaxDepth /\ n # 1
    BY <1>1, <1>2, NumbersFacts
  <2> HIDE DEF n
  <2>2. n \in 2 .. MaxDepth
    BY <2>1
  <2>. QED
    BY <2>1, <2>2 DEF n
<1>4. /\ Last(c) = c[Len(c)] /\ Front(c) \in Seq(Steps) /\ Len(Front(c)) = Len(c) - 1
      /\ \A i \in 1 .. Len(c) - 1 : Front(c)[i] = c[i]
  BY <1>1, FrontLast
<1>5. Front(c) \in Calls
  <2>1. /\ Len(Front(c)) \in 1 .. MaxDepth /\ 1 \in 1 .. Len(c) - 1
        /\ \A k \in 2 .. Len(Front(c)) : k \in 1 .. Len(c) - 1 /\ k \in 2 .. Len(c)
    BY <1>3, <1>4
  <2>2. Front(c)[1] = c[1] /\ \A k \in 2 .. Len(Front(c)) : Front(c)[k] = c[k]
    BY <1>4, <2>1
  <2>3. Front(c)[1] \in DOMAIN Numbers /\ \A k \in 2 .. Len(Front(c)) : Front(c)[k] \in {1, 2}
    BY <1>1, <2>1, <2>2
  <2>. QED
    BY <1>4, <2>1, <2>3, IsCall
<1>6. Last(c) \in {1, 2}
  <2>1. Len(c) \in 2 .. Len(c)
    BY <1>3
  <2>. QED
    BY <1>1, <1>4, <2>1
<1>7. c = Append(Front(c), Last(c))
  BY <1>1, FrontAppend
<1>8. c \in Handles <=> Last(c) = 1
  BY DEF Handles, Inner
<1>. QED
  BY <1>3, <1>4, <1>5, <1>6, <1>7, <1>8 DEF Inner

\* The two calls that a call makes.
LEMMA ChildFacts ==
  ASSUME NEW c \in Calls, Len(c) < MaxDepth, NEW q \in {1, 2}
  PROVE  /\ Append(c, q) \in Inner
         /\ Front(Append(c, q)) = c /\ Last(Append(c, q)) = q
         /\ Len(Append(c, q)) = Len(c) + 1
         /\ SubSeq(Append(c, q), 1, Len(c)) = c
         /\ \A k \in 0 .. Len(c) - 1 : SubSeq(Append(c, q), 1, k) = SubSeq(c, 1, k)
<1> DEFINE d == Append(c, q)
<1>1. /\ c \in Seq(Steps) /\ Len(c) \in 1 .. MaxDepth /\ c[1] \in DOMAIN Numbers
      /\ \A k \in 2 .. Len(c) : c[k] \in {1, 2}
  BY CallFacts
<1>2. q \in Steps
  BY NumbersFacts
<1>3. /\ d \in Seq(Steps) /\ Front(d) = c /\ Last(d) = q /\ Len(d) = Len(c) + 1
      /\ SubSeq(d, 1, Len(c)) = c
      /\ \A k \in 0 .. Len(c) - 1 : SubSeq(d, 1, k) = SubSeq(c, 1, k)
  BY <1>1, <1>2, PathChild
<1>4. /\ \A i \in 1 .. Len(c) : d[i] = c[i]
      /\ d[Len(c) + 1] = q
  BY <1>1, <1>2, AppendProperties
<1> HIDE DEF d
<1>5. Len(d) \in 1 .. MaxDepth /\ Len(d) # 1 /\ d[1] \in DOMAIN Numbers
  <2>1. 1 \in 1 .. Len(c) /\ MaxDepth \in Nat
    BY <1>1, NumbersFacts
  <2>. QED
    BY <1>1, <1>3, <1>4, <2>1
<1>6. ASSUME NEW k \in 2 .. Len(d)
      PROVE  d[k] \in {1, 2}
  <2>1. k = Len(c) + 1 \/ (k \in 1 .. Len(c) /\ k \in 2 .. Len(c))
    BY <1>1, <1>3
  <2>. QED
    BY <1>1, <1>4, <2>1
<1>7. d \in Inner
  BY <1>3, <1>5, <1>6, IsCall, RootFacts DEF Inner
<1>. QED
  BY <1>3, <1>7 DEF d

\* The calls that a call is part of.
LEMMA PrefixFactsOfCall ==
  ASSUME NEW c \in Calls, NEW k \in 1 .. Len(c) - 1
  PROVE  /\ SubSeq(c, 1, k) \in Calls /\ Len(SubSeq(c, 1, k)) = k
         /\ SubSeq(c, 1, k + 1) \in Inner /\ Front(SubSeq(c, 1, k + 1)) = SubSeq(c, 1, k)
         /\ k + 1 \in 1 .. Len(c) /\ (k + 1 = Len(c) => SubSeq(c, 1, k + 1) = c)
<1>1. /\ c \in Seq(Steps) /\ Len(c) \in 1 .. MaxDepth /\ c[1] \in DOMAIN Numbers
      /\ MaxDepth \in Nat /\ \A i \in 2 .. Len(c) : c[i] \in {1, 2}
  BY CallFacts, NumbersFacts
<1>2. ASSUME NEW m \in 1 .. Len(c)
      PROVE  SubSeq(c, 1, m) \in Calls /\ Len(SubSeq(c, 1, m)) = m
  <2>1. m \in 0 .. Len(c) /\ m \in 1 .. MaxDepth /\ 1 \in 1 .. m
        /\ \A i \in 2 .. m : i \in 1 .. m /\ i \in 2 .. Len(c)
    BY <1>1
  <2>2. /\ SubSeq(c, 1, m) \in Seq(Steps) /\ Len(SubSeq(c, 1, m)) = m
        /\ \A i \in 1 .. m : SubSeq(c, 1, m)[i] = c[i]
    BY <1>1, <2>1, PrefixFacts
  <2>3. SubSeq(c, 1, m)[1] \in DOMAIN Numbers /\ \A i \in 2 .. m : SubSeq(c, 1, m)[i] \in {1, 2}
    BY <1>1, <2>1, <2>2
  <2>. QED
    BY <2>1, <2>2, <2>3, IsCall
<1>3. k \in 0 .. Len(c) - 1 /\ k \in 1 .. Len(c) /\ k + 1 \in 1 .. Len(c) /\ k + 1 # 1
  BY <1>1
<1>4. /\ Front(SubSeq(c, 1, k + 1)) = SubSeq(c, 1, k)
      /\ k + 1 = Len(c) => SubSeq(c, 1, k + 1) = c
  BY <1>1, <1>3, PathPrefix
<1>5. SubSeq(c, 1, k + 1) \in Inner
  BY <1>2, <1>3, RootFacts DEF Inner
<1>. QED
  BY <1>2, <1>3, <1>4, <1>5

-----------------------------------------------------------------------------
(***************************************************************************)
(* The inductive invariant of the C program.                               *)
(***************************************************************************)
Active == {"ready", "unpack", "branch", "inline"}

CTypeOK ==
  /\ abi \in ABIs /\ format \in Formats /\ method \in {"wait_all", "test_all"}
  /\ mgr \in BOOLEAN /\ global \in BOOLEAN
  /\ main \in {"init", "spawn", "collect", "collected", "clear", "end"}
  /\ next \in DOMAIN Numbers
  /\ completed \in [DOMAIN Numbers -> BOOLEAN]
  /\ pc \in [Calls -> Active \cup {"none", "return"}]
  /\ event \in [Handles -> {"none", "incomplete", "complete", "inactive", "cleared"}]
  /\ number \in [Calls -> Int] /\ result \in [Calls -> Int]
  /\ buffer = [c \in Calls |-> buffer[c]] /\ got = [c \in Calls |-> got[c]]

\* Where main is says which of its tasks have been spawned and which collected.
MainInv ==
  /\ main \notin {"init", "end"} => mgr = TRUE /\ global = TRUE
  /\ main \in {"collect", "collected"} => Valid(format)
  /\ main = "init" => next = 1
  /\ main \in {"init", "spawn"} => \A i \in DOMAIN Numbers : ~ completed[i]
  /\ \A i \in DOMAIN Numbers :
       /\ pc[<<i>>] # "none" => Valid(format) /\ number[<<i>>] = Numbers[i]
       /\ main = "init" => pc[<<i>>] = "none"
       /\ main = "spawn" => (pc[<<i>>] = "none" <=> next <= i)
       /\ main \in {"collect", "collected"} => pc[<<i>>] # "none"
       /\ main = "collect" /\ ((method = "wait_all" /\ i < next) \/ completed[i]) => event[<<i>>] # "incomplete"
       /\ main = "collected" => event[<<i>>] # "incomplete"
       /\ main \in {"clear", "end"} =>
            IF Valid(format) THEN event[<<i>>] = "cleared" ELSE pc[<<i>>] = "none"

\* The event of a handle says whether its call has returned.
EventInv ==
  \A h \in Handles :
    /\ event[h] = "none" <=> pc[h] = "none"
    /\ pc[h] \in Active => event[h] = "incomplete"

\* A call and the two that it makes.
FamilyInv ==
  \A c \in Inner :
    /\ pc[Front(c)] \in {"none", "ready", "unpack", "branch"} => pc[c] = "none"
    /\ pc[Front(c)] = "inline" => pc[c] # "none"
    /\ pc[Front(c)] = "return" => /\ pc[c] \in {"none", "return"}
                                  /\ c \in Handles => event[c] \in {"none", "cleared"}
    /\ pc[c] # "none" => number[c] = number[Front(c)] - Last(c)

\* The calls that an active call is part of have all called.
TreeInv ==
  \A c \in Calls : \A k \in 1 .. Len(c) - 1 : pc[c] \in Active => pc[SubSeq(c, 1, k)] = "inline"

NumberInv ==
  \A c \in Calls :
    /\ pc[c] # "none" => number[c] \in Nat /\ number[c] + Len(c) <= MaxDepth + 1
    /\ pc[c] = "inline" => number[c] >= 2
    /\ pc[c] = "return" => result[c] = Fib[number[c]]

BufferInv ==
  \A c \in Calls :
    /\ pc[c] = "none" => buffer[c] = <<>> /\ got[c] = <<>>
    /\ pc[c] \in {"ready", "unpack"} => buffer[c] = PackFor(c) /\ got[c] = <<>>
    /\ pc[c] \in {"branch", "inline", "return"} =>
         buffer[c] = Freed /\ got[c] = Unpacked(abi, format, PackFor(c))

CInv == CTypeOK /\ MainInv /\ EventInv /\ FamilyInv /\ TreeInv /\ NumberInv /\ BufferInv

-----------------------------------------------------------------------------
(***************************************************************************)
(* Each step of the C program keeps the invariant.  Main moves no call but *)
(* the ones it spawns.                                                     *)
(***************************************************************************)
\* Which calls are tasks of main, and which of other calls.
LEMMA CallsAndHandles ==
  /\ \A i \in DOMAIN Numbers : <<i>> \in Roots
  /\ \A c \in Roots : c \in Calls /\ c \in Handles /\ c \notin Inner
  /\ \A h \in Handles : h \in Calls
  /\ \A c \in Inner : c \in Calls /\ c \notin Roots /\ Front(c) \in Calls
  /\ \A c \in Calls : c \in Inner \/ \E i \in DOMAIN Numbers : c = <<i>>
<1>1. \A h \in Handles : h \in Calls
  BY RootFacts DEF Handles
<1>2. \A c \in Inner : Front(c) \in Calls
  BY InnerFacts
<1>. QED
  BY <1>1, <1>2, RootFacts DEF Inner, Roots

\* A step that moves no call.
Still ==
  /\ UNCHANGED <<fixed, pc, buffer, got, number, result>>
  /\ \A c \in Inner \cap Handles : event'[c] = event[c]

\* What main does to its own tasks leaves the others as they are.
LEMMA StillStep ==
  ASSUME CInv, Still
  PROVE  FamilyInv' /\ TreeInv' /\ NumberInv' /\ BufferInv'
<1>1. FamilyInv'
  BY DEF CInv, Still, FamilyInv
<1>2. TreeInv'
  BY DEF CInv, Still, TreeInv
<1>3. NumberInv'
  BY DEF CInv, Still, NumberInv
<1>4. BufferInv'
  BY DEF CInv, Still, BufferInv, PackFor, Arguments, fixed
<1>. QED
  BY <1>1, <1>2, <1>3, <1>4

\* Main tests its tasks in turn.
LEMMA NextTurn ==
  ASSUME NEW i \in DOMAIN Numbers
  PROVE  (IF i = Len(Numbers) THEN 1 ELSE i + 1) \in DOMAIN Numbers
<1> DEFINE n == Len(Numbers)
<1>1. n \in Nat /\ DOMAIN Numbers = 1 .. n /\ i \in 1 .. n
  BY NumbersFacts
<1> HIDE DEF n
<1>2. (IF i = n THEN 1 ELSE i + 1) \in 1 .. n
  BY <1>1
<1>. QED
  BY <1>1, <1>2 DEF n

\* main_init: the task manager, the group and the attribute.
LEMMA MainInitStep ==
  ASSUME CInv, MainInit
  PROVE  CInv'
<1> USE DEF CInv
<1>1. Still
  BY DEF MainInit, Still
<1>2. CTypeOK' /\ EventInv'
  BY DEF MainInit, CTypeOK, EventInv, TaskMgrInit, GlobalInit, fixed
<1>3. MainInv'
  <2>1. mgr' = TRUE /\ global' = TRUE /\ main' = "spawn" /\ next = 1 /\ main = "init"
    BY DEF MainInit, TaskMgrInit, GlobalInit, MainInv
  <2>2. \A i \in DOMAIN Numbers : 1 <= i
    BY NumbersFacts
  <2>. QED
    BY <2>1, <2>2 DEF MainInit, MainInv, fixed
<1>. QED
  BY <1>1, <1>2, <1>3, StillStep

\* A format that is refused ends main.
LEMMA MainRefusedStep ==
  ASSUME CInv, MainRefused
  PROVE  CInv'
<1> USE DEF CInv
<1>1. Still
  BY DEF MainRefused, Still
<1>2. CTypeOK' /\ EventInv'
  BY DEF MainRefused, CTypeOK, EventInv, fixed
<1>3. MainInv'
  BY DEF MainRefused, MainInv, fixed
<1>. QED
  BY <1>1, <1>2, <1>3, StillStep

\* Main packs and spawns.
LEMMA MainSpawnStep ==
  ASSUME CInv, MainSpawn
  PROVE  CInv'
<1> DEFINE r == <<next>>
<1>1. next \in DOMAIN Numbers /\ next \in 1 .. Len(Numbers) /\ Len(Numbers) \in Nat
      /\ Numbers[next] \in Nat /\ Numbers[next] <= MaxDepth /\ MaxDepth \in Nat
  BY NumbersFacts DEF CInv, CTypeOK
<1>2. r \in Roots /\ r \in Calls /\ r \in Handles /\ r \notin Inner /\ Len(r) = 1
  BY <1>1, CallsAndHandles
<1>3. \A i \in DOMAIN Numbers : <<i>> \in Calls /\ <<i>> \in Handles /\ (<<i>> = r <=> i = next)
  BY CallsAndHandles
<1>4. /\ main = "spawn" /\ Valid(format) /\ pc[r] = "none"
      /\ UNCHANGED <<abi, format, method, mgr, global, completed, got, result>>
      /\ pc' = [pc EXCEPT ![r] = "ready"] /\ event' = [event EXCEPT ![r] = "incomplete"]
      /\ buffer' = [buffer EXCEPT ![r] = PackFor(r)] /\ number' = [number EXCEPT ![r] = Numbers[next]]
      /\ next' = IF next = Len(Numbers) THEN 1 ELSE next + 1
      /\ main' = IF next = Len(Numbers) THEN "collect" ELSE "spawn"
  BY <1>1 DEF MainSpawn, SpawnGlobal, fixed, CInv, MainInv
<1> HIDE DEF r
<1>5. /\ pc'[r] = "ready" /\ \A c \in Calls \ {r} : pc'[c] = pc[c]
      /\ number'[r] = Numbers[next] /\ \A c \in Calls \ {r} : number'[c] = number[c]
      /\ event'[r] = "incomplete" /\ \A h \in Handles \ {r} : event'[h] = event[h]
      /\ buffer'[r] = PackFor(r) /\ \A c \in Calls \ {r} : buffer'[c] = buffer[c]
  BY <1>2, <1>4 DEF CInv, CTypeOK
<1>6. CTypeOK'
  <2>1. next' \in DOMAIN Numbers
    BY <1>1, <1>4, NumbersFacts
  <2>2. /\ pc' \in [Calls -> Active \cup {"none", "return"}]
        /\ event' \in [Handles -> {"none", "incomplete", "complete", "inactive", "cleared"}]
        /\ number' \in [Calls -> Int]
        /\ buffer' = [c \in Calls |-> buffer'[c]]
    <3>1. pc' \in [Calls -> Active \cup {"none", "return"}]
      BY <1>4 DEF CInv, CTypeOK, Active
    <3>2. event' \in [Handles -> {"none", "incomplete", "complete", "inactive", "cleared"}]
      BY <1>4 DEF CInv, CTypeOK
    <3>3. number' \in [Calls -> Int]
      <4>1. number \in [Calls -> Int] /\ Numbers[next] \in Int
        BY <1>1 DEF CInv, CTypeOK
      <4>. QED
        BY <1>4, <4>1
    <3>4. buffer' = [c \in Calls |-> buffer'[c]]
      BY <1>4 DEF CInv, CTypeOK
    <3>. QED
      BY <3>1, <3>2, <3>3, <3>4
  <2>. QED
    BY <1>4, <2>1, <2>2 DEF CInv, CTypeOK
<1>7. MainInv'
  <2>1. /\ mgr' = TRUE /\ global' = TRUE /\ main' \in {"spawn", "collect"}
        /\ main' = "collect" => next' = 1
        /\ \A i \in DOMAIN Numbers : ~ completed'[i]
    BY <1>4 DEF CInv, MainInv
  <2>2. ASSUME NEW i \in DOMAIN Numbers
        PROVE  /\ pc'[<<i>>] # "none" => Valid(format') /\ number'[<<i>>] = Numbers[i]
               /\ main' = "spawn" => (pc'[<<i>>] = "none" <=> next' <= i)
               /\ main' = "collect" => pc'[<<i>>] # "none" /\ ~ (i < next')
    <3>1. i \in 1 .. Len(Numbers)
      BY NumbersFacts
    <3>2. /\ pc[<<i>>] # "none" => number[<<i>>] = Numbers[i]
          /\ pc[<<i>>] = "none" <=> next <= i
      BY <1>4 DEF CInv, MainInv
    <3>3. CASE i = next
      BY <1>1, <1>3, <1>4, <1>5, <3>1, <3>3
    <3>4. CASE i # next
      <4>1. pc'[<<i>>] = pc[<<i>>] /\ number'[<<i>>] = number[<<i>>]
        BY <1>3, <1>5, <3>4
      <4>. QED
        BY <1>1, <1>4, <3>1, <3>2, <3>4, <4>1
    <3>. QED
      BY <3>3, <3>4
  <2>. QED
    BY <1>4, <2>1, <2>2 DEF MainInv
<1>8. EventInv'
  BY <1>2, <1>5, CallsAndHandles DEF CInv, EventInv, Active
<1>9. FamilyInv'
  <2>1. ASSUME NEW c \in Inner
        PROVE  /\ c \in Calls \ {r} /\ Front(c) \in Calls
               /\ Front(c) = r => pc[c] = "none"
    BY <1>2, <1>4, CallsAndHandles DEF CInv, FamilyInv
  <2>. QED
    BY <1>5, <2>1 DEF CInv, FamilyInv
<1>10. TreeInv'
  <2>1. ASSUME NEW c \in Calls, NEW k \in 1 .. Len(c) - 1, pc'[c] \in Active
        PROVE  pc'[SubSeq(c, 1, k)] = "inline"
    <3>1. c # r
      <4>1. 1 .. Len(r) - 1 = {}
        BY <1>2
      <4>. QED
        BY <4>1
    <3>2. SubSeq(c, 1, k) \in Calls /\ pc[SubSeq(c, 1, k)] = "inline"
      BY <1>5, <2>1, <3>1, PrefixFactsOfCall DEF CInv, TreeInv
    <3>. QED
      BY <1>4, <1>5, <3>2
  <2>. QED
    BY <2>1 DEF TreeInv
<1>11. NumberInv'
  <2>1. number'[r] \in Nat /\ number'[r] + Len(r) <= MaxDepth + 1
    BY <1>1, <1>2, <1>5
  <2>. QED
    BY ZenonT(30), <1>2, <1>4, <1>5, <2>1 DEF CInv, NumberInv
<1>12. BufferInv'
  BY ZenonT(30), <1>2, <1>4, <1>5 DEF CInv, BufferInv, PackFor, Arguments
<1>. QED
  BY <1>6, <1>7, <1>8, <1>9, <1>10, <1>11, <1>12 DEF CInv

\* Main waits for one or for all of its tasks.
LEMMA MainWaitStep ==
  ASSUME CInv, MainWait
  PROVE  CInv'
<1> USE DEF CInv
<1> DEFINE r == <<next>>
<1>1. next \in 1 .. Len(Numbers) /\ Len(Numbers) \in Nat /\ DOMAIN Numbers = 1 .. Len(Numbers)
  BY NumbersFacts DEF CTypeOK
<1>2. r \in Roots /\ r \in Calls /\ r \in Handles /\ r \notin Inner
  BY <1>1, CallsAndHandles
<1>3. \A i \in DOMAIN Numbers : <<i>> \in Calls /\ <<i>> \in Handles /\ (<<i>> = r <=> i = next)
  BY CallsAndHandles
<1>4. /\ main = "collect" /\ method = "wait_all" /\ event[r] # "incomplete"
      /\ event' = [event EXCEPT ![r] = "inactive"]
      /\ next' = IF next = Len(Numbers) THEN 1 ELSE next + 1
      /\ main' = IF next = Len(Numbers) THEN "collected" ELSE "collect"
      /\ UNCHANGED <<abi, format, method, mgr, global, completed, pc, buffer, got, number, result>>
  BY DEF MainWait, TestPasses, Received, fixed
<1> HIDE DEF r
<1>5. event'[r] = "inactive" /\ \A h \in Handles \ {r} : event'[h] = event[h]
  BY <1>2, <1>4 DEF CTypeOK
<1>6. Still
  BY <1>2, <1>4, <1>5 DEF Still, fixed
<1>7. CTypeOK'
  <2>1. event' \in [Handles -> {"none", "incomplete", "complete", "inactive", "cleared"}]
    BY <1>4 DEF CTypeOK
  <2>2. next' \in DOMAIN Numbers
    BY <1>1, <1>4, NextTurn
  <2>. QED
    BY <1>4, <2>1, <2>2 DEF CTypeOK
<1>8. EventInv'
  <2>1. pc[r] # "none" /\ pc[r] \notin Active
    BY <1>1, <1>2, <1>4 DEF MainInv, EventInv, r
  <2>. QED
    BY <1>4, <1>5, <2>1 DEF EventInv
<1>9. MainInv'
  <2>1. ASSUME NEW i \in DOMAIN Numbers
        PROVE  /\ main' = "collect" /\ (i < next' \/ completed[i]) => event'[<<i>>] # "incomplete"
               /\ main' = "collected" => event'[<<i>>] # "incomplete"
    <3>1. i < next \/ completed[i] => event[<<i>>] # "incomplete"
      BY <1>4 DEF MainInv
    <3>2. i < next \/ i = next \/ completed[i] => event'[<<i>>] # "incomplete"
      BY <1>3, <1>5, <3>1
    <3>. QED
      BY <1>1, <1>4, <3>2
  <2>. QED
    BY <1>4, <2>1 DEF MainInv
<1>. QED
  BY <1>6, <1>7, <1>8, <1>9, StillStep

\* Main tests a task.
LEMMA MainTestStep ==
  ASSUME CInv, MainTest
  PROVE  CInv'
<1> USE DEF CInv
<1> DEFINE r == <<next>>
<1>1. next \in 1 .. Len(Numbers) /\ Len(Numbers) \in Nat /\ DOMAIN Numbers = 1 .. Len(Numbers)
  BY NumbersFacts DEF CTypeOK
<1>2. r \in Roots /\ r \in Calls /\ r \in Handles /\ r \notin Inner
  BY <1>1, CallsAndHandles
<1>3. \A i \in DOMAIN Numbers : <<i>> \in Calls /\ <<i>> \in Handles /\ (<<i>> = r <=> i = next)
  BY CallsAndHandles
<1>4. /\ main = "collect" /\ method = "test_all"
      /\ completed' = [completed EXCEPT ![next] = (event[r] # "incomplete")]
      /\ event' = IF event[r] # "incomplete" THEN [event EXCEPT ![r] = "inactive"] ELSE event
      /\ next' = IF next = Len(Numbers) THEN 1 ELSE next + 1
      /\ main' \in {"collect", "collected"}
      /\ main' = "collected" => \A i \in DOMAIN completed' : completed'[i]
      /\ UNCHANGED <<abi, format, method, mgr, global, pc, buffer, got, number, result>>
  BY DEF MainTest, TestPasses, Received, AllAreComplete, fixed
<1> HIDE DEF r
<1>5. /\ event[r] # "incomplete" => event'[r] = "inactive"
      /\ event[r] = "incomplete" => event'[r] = "incomplete"
      /\ \A h \in Handles \ {r} : event'[h] = event[h]
  BY <1>2, <1>4 DEF CTypeOK
<1>6. Still
  BY <1>2, <1>4, <1>5 DEF Still, fixed
<1>7. CTypeOK'
  <2>1. event' \in [Handles -> {"none", "incomplete", "complete", "inactive", "cleared"}]
    BY <1>4 DEF CTypeOK
  <2>2. next' \in DOMAIN Numbers
    BY <1>1, <1>4, NextTurn
  <2>3. completed' \in [DOMAIN Numbers -> BOOLEAN]
    BY <1>4 DEF CTypeOK
  <2>. QED
    BY <1>4, <2>1, <2>2, <2>3 DEF CTypeOK
<1>8. EventInv'
  <2>1. pc[r] # "none" /\ (event[r] # "incomplete" => pc[r] \notin Active)
    BY <1>1, <1>2, <1>4 DEF MainInv, EventInv, r
  <2>. QED
    BY <1>4, <1>5, <2>1 DEF EventInv
<1>9. MainInv'
  <2>1. ASSUME NEW i \in DOMAIN Numbers, completed'[i]
        PROVE  event'[<<i>>] # "incomplete"
    <3>1. CASE i = next
      <4>1. completed'[next] = (event[r] # "incomplete")
        BY <1>1, <1>4 DEF CTypeOK
      <4>. QED
        BY <1>3, <1>5, <2>1, <3>1, <4>1
    <3>2. CASE i # next
      <4>1. completed[i]
        BY <1>4, <2>1, <3>2 DEF CTypeOK
      <4>2. event[<<i>>] # "incomplete"
        BY <1>4, <4>1 DEF MainInv
      <4>. QED
        BY <1>3, <1>5, <3>2, <4>2
    <3>. QED
      BY <3>1, <3>2
  <2>2. DOMAIN completed' = DOMAIN Numbers
    BY <1>7 DEF CTypeOK
  <2>. QED
    BY <1>4, <2>1, <2>2 DEF MainInv
<1>. QED
  BY <1>6, <1>7, <1>8, <1>9, StillStep

\* Main clears its handles.
LEMMA MainClearTasksStep ==
  ASSUME CInv, MainClearTasks
  PROVE  CInv'
<1> USE DEF CInv
<1>1. /\ main = "collected" /\ main' = "clear"
      /\ event' = [h \in Handles |-> IF h \in Roots THEN "cleared" ELSE event[h]]
      /\ UNCHANGED <<abi, format, method, mgr, global, next, completed, pc, buffer, got, number, result>>
  BY DEF MainClearTasks, fixed
<1>2. /\ \A h \in Handles \ Roots : event'[h] = event[h]
      /\ \A h \in Roots : event'[h] = "cleared"
  BY <1>1, CallsAndHandles
<1>3. Still
  BY <1>1, <1>2, CallsAndHandles DEF Still, fixed
<1>4. CTypeOK'
  <2>1. event' \in [Handles -> {"none", "incomplete", "complete", "inactive", "cleared"}]
    BY <1>1 DEF CTypeOK
  <2>. QED
    BY <1>1, <2>1 DEF CTypeOK
<1>5. ASSUME NEW h \in Roots
      PROVE  pc[h] # "none" /\ pc[h] \notin Active
  <2>1. PICK i \in DOMAIN Numbers : h = <<i>>
    BY DEF Roots
  <2>. QED
    BY <1>1, <2>1, CallsAndHandles DEF MainInv, EventInv
<1>6. EventInv'
  BY <1>1, <1>2, <1>5, CallsAndHandles DEF EventInv
<1>7. MainInv'
  BY <1>1, <1>2, CallsAndHandles DEF MainInv
<1>. QED
  BY <1>3, <1>4, <1>6, <1>7, StillStep

\* Main clears the task manager.
LEMMA MainClearStep ==
  ASSUME CInv, MainClear
  PROVE  CInv'
<1> USE DEF CInv
<1>1. Still
  BY DEF MainClear, Still
<1>2. CTypeOK' /\ EventInv'
  BY DEF MainClear, CTypeOK, EventInv, TaskMgrClear, GlobalClear, fixed
<1>3. MainInv'
  BY DEF MainClear, MainInv, fixed
<1>. QED
  BY <1>1, <1>2, <1>3, StillStep

(***************************************************************************)
(* The steps of calls.                                                     *)
(***************************************************************************)

\* A call moves on that is not about to make calls or to return from them.
LEMMA MoveStep ==
  ASSUME CInv, NEW c \in Calls, NEW p \in {"unpack", "branch", "return"},
         UNCHANGED <<fixed, mainVars, event, number>>,
         pc' = [pc EXCEPT ![c] = p],
         \/ pc[c] = "ready" /\ p = "unpack"
         \/ pc[c] = "unpack" /\ p = "branch"
         \/ pc[c] = "branch" /\ p = "return"
  PROVE  /\ pc' \in [Calls -> Active \cup {"none", "return"}]
         /\ MainInv' /\ EventInv' /\ FamilyInv' /\ TreeInv'
<1> USE DEF CInv
<1>1. /\ pc'[c] = p /\ \A d \in Calls \ {c} : pc'[d] = pc[d]
      /\ pc[c] \in Active \ {"inline"} /\ p \in (Active \cup {"return"}) \ {"inline"}
      /\ UNCHANGED <<abi, format, method, mgr, global, main, next, completed, event, number>>
  BY DEF CTypeOK, Active, fixed, mainVars
<1>2. pc' \in [Calls -> Active \cup {"none", "return"}]
  BY DEF CTypeOK, Active
<1>3. MainInv'
  <2>1. \A i \in DOMAIN Numbers : <<i>> \in Calls /\ (pc'[<<i>>] = "none" <=> pc[<<i>>] = "none")
    BY <1>1, CallsAndHandles DEF Active
  <2>. QED
    BY <1>1, <2>1 DEF MainInv
<1>4. EventInv'
  <2>1. \A h \in Handles : /\ h \in Calls /\ (pc'[h] = "none" <=> pc[h] = "none")
                           /\ pc'[h] \in Active => pc[h] \in Active
    BY <1>1, CallsAndHandles DEF Active
  <2>. QED
    BY <1>1, <2>1 DEF EventInv
<1>5. ASSUME NEW d \in Calls, NEW k \in 1 .. Len(d) - 1, SubSeq(d, 1, k) = c
      PROVE  pc[d] \notin Active
  BY <1>1, <1>5 DEF TreeInv
<1>6. FamilyInv'
  <2> SUFFICES ASSUME NEW d \in Inner
               PROVE  /\ pc'[Front(d)] \in {"none", "ready", "unpack", "branch"} => pc'[d] = "none"
                      /\ pc'[Front(d)] = "inline" => pc'[d] # "none"
                      /\ pc'[Front(d)] = "return" => /\ pc'[d] \in {"none", "return"}
                                                     /\ d \in Handles => event[d] \in {"none", "cleared"}
                      /\ pc'[d] # "none" => number[d] = number[Front(d)] - Last(d)
    BY <1>1 DEF FamilyInv
  <2>1. d \in Calls /\ Front(d) \in Calls
    BY CallsAndHandles
  <2>2. /\ pc[Front(d)] \in {"none", "ready", "unpack", "branch"} => pc[d] = "none"
        /\ pc[Front(d)] = "inline" => pc[d] # "none"
        /\ pc[Front(d)] = "return" => /\ pc[d] \in {"none", "return"}
                                      /\ d \in Handles => event[d] \in {"none", "cleared"}
        /\ pc[d] # "none" => number[d] = number[Front(d)] - Last(d)
    BY DEF FamilyInv
  <2>3. CASE d = c
    <3>1. pc[Front(d)] = "inline" /\ Front(d) # c
      <4>1. pc[d] \in Active
        BY <1>1, <2>3
      <4>. QED
        BY <2>1, <2>2, <4>1, <1>1, <2>3 DEF CTypeOK, Active
    <3>. QED
      BY <1>1, <2>1, <2>2, <2>3, <3>1 DEF Active
  <2>4. CASE d # c /\ Front(d) = c
    <3>1. pc[d] = "none"
      BY <1>1, <2>2, <2>4 DEF Active
    <3>2. d \in Handles => event[d] = "none"
      BY <3>1 DEF EventInv
    <3>. QED
      BY <1>1, <2>1, <2>4, <3>1, <3>2 DEF Active
  <2>5. CASE d # c /\ Front(d) # c
    BY <1>1, <2>1, <2>2, <2>5
  <2>. QED
    BY <2>3, <2>4, <2>5
<1>7. TreeInv'
  <2>1. ASSUME NEW d \in Calls, NEW k \in 1 .. Len(d) - 1, pc'[d] \in Active
        PROVE  pc'[SubSeq(d, 1, k)] = "inline"
    <3>1. pc[d] \in Active
      BY <1>1, <2>1
    <3>2. SubSeq(d, 1, k) \in Calls /\ pc[SubSeq(d, 1, k)] = "inline"
      BY <3>1, PrefixFactsOfCall DEF TreeInv
    <3>. QED
      BY <1>1, <3>2
  <2>. QED
    BY <2>1 DEF TreeInv
<1>. QED
  BY <1>2, <1>3, <1>4, <1>6, <1>7

\* A worker takes a task.
LEMMA StartStep ==
  ASSUME CInv, NEW h \in Handles, Start(h)
  PROVE  CInv'
<1> USE DEF CInv
<1>1. h \in Calls
  BY CallsAndHandles
<1>2. /\ pc[h] = "ready" /\ pc' = [pc EXCEPT ![h] = "unpack"]
      /\ UNCHANGED <<fixed, mainVars, event, buffer, got, number, result>>
  BY DEF Start
<1>3. /\ pc' \in [Calls -> Active \cup {"none", "return"}]
      /\ MainInv' /\ EventInv' /\ FamilyInv' /\ TreeInv'
  BY <1>1, <1>2, MoveStep
<1>4. CTypeOK'
  BY <1>2, <1>3 DEF CTypeOK, fixed, mainVars
<1>5. pc'[h] = "unpack" /\ \A d \in Calls \ {h} : pc'[d] = pc[d]
  BY <1>1, <1>2 DEF CTypeOK
<1>6. NumberInv'
  BY <1>1, <1>2, <1>5 DEF NumberInv
<1>7. BufferInv'
  BY <1>1, <1>2, <1>5 DEF BufferInv, PackFor, Arguments, fixed
<1>. QED
  BY <1>3, <1>4, <1>6, <1>7

\* The function unpacks its arguments.
LEMMA UnpackStep ==
  ASSUME CInv, NEW c \in Calls, Unpack(c)
  PROVE  CInv'
<1> USE DEF CInv
<1>2. /\ pc[c] = "unpack" /\ pc' = [pc EXCEPT ![c] = "branch"]
      /\ got' = [got EXCEPT ![c] = Unpacked(abi, format, buffer[c])]
      /\ buffer' = [buffer EXCEPT ![c] = Freed]
      /\ UNCHANGED <<fixed, mainVars, event, number, result>>
  BY DEF Unpack
<1>3. /\ pc' \in [Calls -> Active \cup {"none", "return"}]
      /\ MainInv' /\ EventInv' /\ FamilyInv' /\ TreeInv'
  BY <1>2, MoveStep
<1>4. CTypeOK'
  <2>1. buffer' = [d \in Calls |-> buffer'[d]] /\ got' = [d \in Calls |-> got'[d]]
    BY <1>2 DEF CTypeOK
  <2>. QED
    BY <1>2, <1>3, <2>1 DEF CTypeOK, fixed, mainVars
<1>5. /\ pc'[c] = "branch" /\ buffer'[c] = Freed /\ got'[c] = Unpacked(abi, format, buffer[c])
      /\ \A d \in Calls \ {c} : pc'[d] = pc[d] /\ buffer'[d] = buffer[d] /\ got'[d] = got[d]
  BY <1>2 DEF CTypeOK
<1>6. NumberInv'
  BY <1>2, <1>5 DEF NumberInv
<1>7. BufferInv'
  BY <1>2, <1>5 DEF BufferInv, PackFor, Arguments, fixed
<1>. QED
  BY <1>3, <1>4, <1>6, <1>7

\* The base case of the recursion.
LEMMA BaseCaseStep ==
  ASSUME CInv, NEW c \in Calls, BaseCase(c)
  PROVE  CInv'
<1> USE DEF CInv
<1>2. /\ pc[c] = "branch" /\ number[c] < 2 /\ pc' = [pc EXCEPT ![c] = "return"]
      /\ result' = [result EXCEPT ![c] = number[c]]
      /\ UNCHANGED <<fixed, mainVars, event, buffer, got, number>>
  BY DEF BaseCase
<1>3. /\ pc' \in [Calls -> Active \cup {"none", "return"}]
      /\ MainInv' /\ EventInv' /\ FamilyInv' /\ TreeInv'
  BY <1>2, MoveStep
<1>4. CTypeOK'
  <2>1. result' \in [Calls -> Int]
    BY <1>2 DEF CTypeOK
  <2>. QED
    BY <1>2, <1>3, <2>1 DEF CTypeOK, fixed, mainVars
<1>5. /\ pc'[c] = "return" /\ result'[c] = number[c]
      /\ \A d \in Calls \ {c} : pc'[d] = pc[d] /\ result'[d] = result[d]
  BY <1>2 DEF CTypeOK
<1>6. NumberInv'
  <2>1. number[c] \in Nat /\ Fib[number[c]] = number[c]
    BY <1>2, FibIsRecursive DEF NumberInv
  <2>. QED
    BY <1>2, <1>5, <2>1 DEF NumberInv
<1>7. BufferInv'
  BY <1>2, <1>5 DEF BufferInv, PackFor, Arguments, fixed
<1>. QED
  BY <1>3, <1>4, <1>6, <1>7

\* The worker notifies.
LEMMA NotifyStep ==
  ASSUME CInv, NEW h \in Handles, Notify(h)
  PROVE  CInv'
<1> USE DEF CInv
<1>1. /\ h \in Calls /\ pc[h] = "return" /\ event[h] = "incomplete"
      /\ event' = [event EXCEPT ![h] = "complete"]
      /\ UNCHANGED <<fixed, mainVars, pc, buffer, got, number, result>>
  BY CallsAndHandles DEF Notify
<1>2. event'[h] = "complete" /\ \A g \in Handles \ {h} : event'[g] = event[g]
  BY <1>1 DEF CTypeOK
<1>3. CTypeOK'
  <2>1. event' \in [Handles -> {"none", "incomplete", "complete", "inactive", "cleared"}]
    BY <1>1 DEF CTypeOK
  <2>. QED
    BY <1>1, <2>1 DEF CTypeOK, fixed, mainVars
<1>4. EventInv'
  BY <1>1, <1>2 DEF EventInv, Active
<1>5. MainInv'
  <2>1. ASSUME NEW i \in DOMAIN Numbers
        PROVE  /\ event[<<i>>] # "incomplete" => event'[<<i>>] # "incomplete"
               /\ event[<<i>>] = "cleared" => event'[<<i>>] = "cleared"
    BY <1>1, <1>2, CallsAndHandles
  <2>. QED
    BY <1>1, <2>1 DEF MainInv, fixed, mainVars
<1>6. FamilyInv'
  <2>1. \A c \in Inner \cap Handles : event[c] \in {"none", "cleared"} => event'[c] = event[c]
    BY <1>1, <1>2
  <2>. QED
    BY <1>1, <2>1 DEF FamilyInv
<1>7. TreeInv' /\ NumberInv' /\ BufferInv'
  BY <1>1 DEF TreeInv, NumberInv, BufferInv, PackFor, Arguments, fixed
<1>. QED
  BY <1>3, <1>4, <1>5, <1>6, <1>7

\* A call that branches is at least as far from the bound as its number.
LEMMA BranchStep ==
  ASSUME CInv, NEW c \in Calls, Branch(c)
  PROVE  CInv'
<1> USE DEF CInv
<1> DEFINE s == Spawned(c)
           i == Inline(c)
<1>1. /\ number[c] \in Nat /\ number[c] >= 2 /\ Len(c) < MaxDepth /\ Len(c) \in Nat /\ Len(c) >= 1
      /\ number[c] + Len(c) <= MaxDepth + 1
  <2>1. pc[c] = "branch" /\ number[c] >= 2
    BY DEF Branch
  <2>2. Len(c) \in Nat /\ Len(c) >= 1 /\ MaxDepth \in Nat
    BY CallFacts, NumbersFacts
  <2>3. number[c] \in Nat /\ number[c] + Len(c) <= MaxDepth + 1
    BY <2>1 DEF NumberInv
  <2>. QED
    BY <2>1, <2>2, <2>3
<1>2. /\ s \in Inner /\ Front(s) = c /\ Last(s) = 1 /\ Len(s) = Len(c) + 1
      /\ i \in Inner /\ Front(i) = c /\ Last(i) = 2 /\ Len(i) = Len(c) + 1
      /\ SubSeq(s, 1, Len(c)) = c /\ SubSeq(i, 1, Len(c)) = c
      /\ \A k \in 0 .. Len(c) - 1 : SubSeq(s, 1, k) = SubSeq(c, 1, k) /\ SubSeq(i, 1, k) = SubSeq(c, 1, k)
  BY <1>1, ChildFacts DEF Spawned, Inline
<1>3. s \in Calls /\ s \in Handles /\ i \in Calls /\ i \notin Handles /\ s # i /\ s # c /\ i # c
  <2>1. s \in Calls /\ s \in Handles /\ i \in Calls /\ i \notin Handles
    BY <1>2, InnerFacts
  <2>2. Len(s) # Len(c) /\ Len(i) # Len(c)
    <3> HIDE DEF s, i
    <3> DEFINE n == Len(c)
    <3>1. Len(s) = n + 1 /\ Len(i) = n + 1 /\ n \in Nat
      BY <1>1, <1>2
    <3> HIDE DEF n
    <3>2. Len(s) # n /\ Len(i) # n
      BY <3>1
    <3>. QED
      BY <3>2 DEF n
  <2>3. s # i
    BY <2>1
  <2>. QED
    BY <2>1, <2>2, <2>3
<1>4. \A d \in Inner : Front(d) = c => d = s \/ d = i
  BY InnerFacts DEF Spawned, Inline
<1>5. /\ pc[c] = "branch"
      /\ event' = [event EXCEPT ![s] = "incomplete"]
      /\ buffer' = [buffer EXCEPT ![s] = PackFor(s), ![i] = PackFor(i)]
      /\ number' = [number EXCEPT ![s] = number[c] - 1, ![i] = number[c] - 2]
      /\ pc' = [pc EXCEPT ![c] = "inline", ![s] = "ready", ![i] = "unpack"]
      /\ UNCHANGED <<abi, format, method, mgr, global, main, next, completed, got, result>>
  BY DEF Branch, fixed, mainVars
<1> HIDE DEF s, i
<1>6. /\ pc'[c] = "inline" /\ pc'[s] = "ready" /\ pc'[i] = "unpack"
      /\ \A d \in Calls \ {c, s, i} : pc'[d] = pc[d]
      /\ number'[s] = number[c] - 1 /\ number'[i] = number[c] - 2
      /\ \A d \in Calls \ {s, i} : number'[d] = number[d]
      /\ buffer'[s] = PackFor(s) /\ buffer'[i] = PackFor(i)
      /\ \A d \in Calls \ {s, i} : buffer'[d] = buffer[d]
      /\ event'[s] = "incomplete" /\ \A h \in Handles \ {s} : event'[h] = event[h]
  BY <1>3, <1>5 DEF CTypeOK
<1>7. number'[c] = number[c] /\ buffer'[c] = buffer[c]
  <2>1. c \in Calls \ {s, i}
    BY <1>3
  <2>. QED
    BY <1>6, <2>1
<1>8. pc[s] = "none" /\ pc[i] = "none"
  BY <1>2, <1>5 DEF FamilyInv
<1>9. CTypeOK'
  <2>1. pc' \in [Calls -> Active \cup {"none", "return"}]
    BY <1>5 DEF CTypeOK, Active
  <2>2. event' \in [Handles -> {"none", "incomplete", "complete", "inactive", "cleared"}]
    BY <1>5 DEF CTypeOK
  <2>3. number' \in [Calls -> Int]
    <3>1. number[c] - 1 \in Int /\ number[c] - 2 \in Int
      BY <1>1
    <3>. QED
      BY <1>5, <3>1 DEF CTypeOK
  <2>4. buffer' = [d \in Calls |-> buffer'[d]]
    BY <1>5 DEF CTypeOK
  <2>. QED
    BY <1>5, <2>1, <2>2, <2>3, <2>4 DEF CTypeOK
<1>10. MainInv'
  <2>1. ASSUME NEW j \in DOMAIN Numbers
        PROVE  /\ pc'[<<j>>] = "none" <=> pc[<<j>>] = "none"
               /\ number'[<<j>>] = number[<<j>>] /\ event'[<<j>>] = event[<<j>>]
    <3>1. <<j>> \in Calls \ {s, i} /\ <<j>> \in Handles \ {s}
      BY <1>2, CallsAndHandles
    <3>. QED
      BY <1>5, <1>6, <3>1
  <2>. QED
    BY ZenonT(30), <1>5, <2>1 DEF MainInv
<1>11. EventInv'
  <2>1. ASSUME NEW h \in Handles
        PROVE  /\ event'[h] = "none" <=> pc'[h] = "none"
               /\ pc'[h] \in Active => event'[h] = "incomplete"
    <3>1. /\ event[h] = "none" <=> pc[h] = "none"
          /\ pc[h] \in Active => event[h] = "incomplete"
      BY DEF EventInv
    <3>2. h \in Calls
      BY CallsAndHandles
    <3>3. CASE h = s
      BY <1>6, <3>3
    <3>4. CASE h = c
      <4>1. pc[h] \in Active
        BY <1>5, <3>4 DEF Active
      <4>. QED
        BY <1>3, <1>6, <3>1, <3>4, <4>1
    <3>5. CASE h # s /\ h # c
      BY <1>3, <1>6, <3>1, <3>2, <3>5
    <3>. QED
      BY <3>3, <3>4, <3>5
  <2>. QED
    BY <2>1 DEF EventInv
<1>12. FamilyInv'
  <2> SUFFICES ASSUME NEW d \in Inner
               PROVE  /\ pc'[Front(d)] \in {"none", "ready", "unpack", "branch"} => pc'[d] = "none"
                      /\ pc'[Front(d)] = "inline" => pc'[d] # "none"
                      /\ pc'[Front(d)] = "return" => /\ pc'[d] \in {"none", "return"}
                                                     /\ d \in Handles => event'[d] \in {"none", "cleared"}
                      /\ pc'[d] # "none" => number'[d] = number'[Front(d)] - Last(d)
    BY DEF FamilyInv
  <2>1. d \in Calls /\ Front(d) \in Calls
    BY CallsAndHandles
  <2>2. /\ pc[Front(d)] \in {"none", "ready", "unpack", "branch"} => pc[d] = "none"
        /\ pc[Front(d)] = "inline" => pc[d] # "none"
        /\ pc[Front(d)] = "return" => /\ pc[d] \in {"none", "return"}
                                      /\ d \in Handles => event[d] \in {"none", "cleared"}
        /\ pc[d] # "none" => number[d] = number[Front(d)] - Last(d)
    BY DEF FamilyInv
  <2>3. CASE d = s \/ d = i
    BY <1>2, <1>3, <1>6, <2>3
  <2>4. CASE d = c
    <3>1. pc[Front(d)] = "inline"
      BY <1>5, <2>1, <2>2, <2>4 DEF CTypeOK, Active
    <3>2. Front(d) \notin {c, s, i}
      BY <1>5, <1>8, <3>1
    <3>3. pc'[Front(d)] = "inline" /\ number'[Front(d)] = number[Front(d)]
      BY <1>6, <2>1, <3>1, <3>2
    <3>4. pc'[d] = "inline" /\ number'[d] = number[d] /\ pc[d] = "branch"
      BY <1>7, <1>5, <1>6, <2>4
    <3>. QED
      BY <2>2, <3>3, <3>4
  <2>5. CASE d \notin {c, s, i}
    <3>1. Front(d) # c
      BY <1>4, <2>5
    <3>2. CASE Front(d) = s \/ Front(d) = i
      <4>1. pc[d] = "none"
        BY <1>8, <2>2, <3>2
      <4>. QED
        BY <1>6, <2>1, <2>5, <3>2, <4>1
    <3>3. CASE Front(d) \notin {s, i}
      <4>1. pc'[Front(d)] = pc[Front(d)] /\ number'[Front(d)] = number[Front(d)]
        BY <1>6, <2>1, <3>1, <3>3
      <4>2. pc'[d] = pc[d] /\ number'[d] = number[d] /\ (d \in Handles => event'[d] = event[d])
        BY <1>6, <2>1, <2>5
      <4>. QED
        BY <2>2, <4>1, <4>2
    <3>. QED
      BY <3>2, <3>3
  <2>. QED
    BY <2>3, <2>4, <2>5
<1>13. TreeInv'
  <2>1. ASSUME NEW d \in Calls, NEW k \in 1 .. Len(d) - 1, pc'[d] \in Active
        PROVE  pc'[SubSeq(d, 1, k)] = "inline"
    <3> DEFINE a == SubSeq(d, 1, k)
    <3>1. a \in Calls /\ k \in Int /\ k >= 1 /\ k <= Len(d) - 1
      BY PrefixFactsOfCall, CallFacts
    <3>2. a = c \/ pc[a] = "inline"
      <4>1. CASE d = s \/ d = i
        <5>1. k = Len(c) \/ (k \in 0 .. Len(c) - 1 /\ k \in 1 .. Len(c) - 1)
          <6> DEFINE n == Len(c)
          <6>1. n \in Nat /\ k \in Int /\ k >= 1 /\ k <= (n + 1) - 1
            BY <1>1, <1>2, <3>1, <4>1
          <6> HIDE DEF n
          <6>2. k = n \/ (k \in 0 .. n - 1 /\ k \in 1 .. n - 1)
            BY <6>1
          <6>. QED
            BY <6>2 DEF n
        <5>2. CASE k = Len(c)
          BY <1>2, <4>1, <5>2
        <5>3. CASE k \in 0 .. Len(c) - 1 /\ k \in 1 .. Len(c) - 1
          <6>1. a = SubSeq(c, 1, k)
            BY <1>2, <4>1, <5>3
          <6>2. pc[c] \in Active
            BY <1>5 DEF Active
          <6>. QED
            BY <5>3, <6>1, <6>2 DEF TreeInv
        <5>. QED
          BY <5>1, <5>2, <5>3
      <4>2. CASE d \notin {s, i}
        <5>1. pc[d] \in Active
          BY <1>5, <1>6, <2>1, <4>2 DEF Active
        <5>. QED
          BY <5>1 DEF TreeInv
      <4>. QED
        BY <4>1, <4>2
    <3> HIDE DEF a
    <3>3. pc'[a] = "inline"
      BY <1>5, <1>6, <1>8, <3>1, <3>2
    <3>. QED
      BY <3>3 DEF a
  <2>. QED
    BY <2>1 DEF TreeInv
<1>14. NumberInv'
  <2>1. /\ number'[s] \in Nat /\ number'[s] + Len(s) <= MaxDepth + 1
        /\ number'[i] \in Nat /\ number'[i] + Len(i) <= MaxDepth + 1
        /\ number'[c] = number[c]
    <3> DEFINE n == Len(c)
               m == number[c]
    <3>1. m \in Nat /\ m >= 2 /\ n \in Nat /\ m + n <= MaxDepth + 1 /\ MaxDepth \in Nat
      BY <1>1, NumbersFacts
    <3>2. number'[s] = m - 1 /\ number'[i] = m - 2 /\ number'[c] = m /\ Len(s) = n + 1 /\ Len(i) = n + 1
      BY <1>2, <1>3, <1>6
    <3> HIDE DEF n, m
    <3>3. m - 1 \in Nat /\ m - 2 \in Nat /\ (m - 1) + (n + 1) <= MaxDepth + 1 /\ (m - 2) + (n + 1) <= MaxDepth + 1
      BY <3>1
    <3>. QED
      BY <3>2, <3>3 DEF m
  <2>2. ASSUME NEW d \in Calls
        PROVE  /\ pc'[d] # "none" => number'[d] \in Nat /\ number'[d] + Len(d) <= MaxDepth + 1
               /\ pc'[d] = "inline" => number'[d] >= 2
               /\ pc'[d] = "return" => result'[d] = Fib[number'[d]]
    <3>1. /\ pc[d] # "none" => number[d] \in Nat /\ number[d] + Len(d) <= MaxDepth + 1
          /\ pc[d] = "inline" => number[d] >= 2
          /\ pc[d] = "return" => result[d] = Fib[number[d]]
      BY DEF NumberInv
    <3>2. CASE d = s \/ d = i
      BY <1>6, <2>1, <3>2
    <3>3. CASE d = c
      BY <1>1, <1>6, <2>1, <3>3
    <3>4. CASE d \notin {c, s, i}
      BY <1>5, <1>6, <3>1, <3>4
    <3>. QED
      BY <3>2, <3>3, <3>4
  <2>. QED
    BY <2>2 DEF NumberInv
<1>15. BufferInv'
  <2>1. \A d \in Calls : PackFor(d)' = PackFor(d)
    BY <1>5 DEF PackFor, Arguments
  <2>2. ASSUME NEW d \in Calls
        PROVE  /\ pc'[d] = "none" => buffer'[d] = <<>> /\ got'[d] = <<>>
               /\ pc'[d] \in {"ready", "unpack"} => buffer'[d] = PackFor(d) /\ got'[d] = <<>>
               /\ pc'[d] \in {"branch", "inline", "return"} =>
                    buffer'[d] = Freed /\ got'[d] = Unpacked(abi, format, PackFor(d))
    <3>1. /\ pc[d] = "none" => buffer[d] = <<>> /\ got[d] = <<>>
          /\ pc[d] \in {"ready", "unpack"} => buffer[d] = PackFor(d) /\ got[d] = <<>>
          /\ pc[d] \in {"branch", "inline", "return"} =>
               buffer[d] = Freed /\ got[d] = Unpacked(abi, format, PackFor(d))
      BY DEF BufferInv
    <3>2. got' = got
      BY <1>5
    <3>3. CASE d = s \/ d = i
      BY <1>6, <1>8, <3>1, <3>2, <3>3
    <3>4. CASE d = c
      <4>1. pc[d] = "branch" /\ pc'[d] = "inline" /\ buffer'[d] = buffer[d] /\ got'[d] = got[d]
        BY <1>7, <1>5, <1>6, <3>2, <3>4
      <4>. QED
        BY <3>1, <4>1
    <3>5. CASE d \notin {c, s, i}
      BY <1>6, <3>1, <3>2, <3>5
    <3>. QED
      BY <3>3, <3>4, <3>5
  <2>. QED
    BY <1>5, <2>1, <2>2 DEF BufferInv
<1>. QED
  BY <1>9, <1>10, <1>11, <1>12, <1>13, <1>14, <1>15

\* A call waits for the task it has spawned and adds.
LEMMA JoinStep ==
  ASSUME CInv, NEW c \in Calls, Join(c)
  PROVE  CInv'
<1> USE DEF CInv
<1> DEFINE s == Spawned(c)
           i == Inline(c)
<1>1. pc[c] = "inline" /\ number[c] \in Nat /\ number[c] >= 2 /\ Len(c) < MaxDepth
  <2>1. pc[c] = "inline" /\ number[c] \in Nat /\ number[c] >= 2 /\ number[c] + Len(c) <= MaxDepth + 1
    BY DEF Join, NumberInv
  <2>2. Len(c) \in Nat /\ MaxDepth \in Nat
    BY CallFacts, NumbersFacts
  <2>. QED
    BY <2>1, <2>2
<1>2. /\ s \in Inner /\ Front(s) = c /\ Last(s) = 1 /\ s \in Calls /\ s \in Handles
      /\ i \in Inner /\ Front(i) = c /\ Last(i) = 2 /\ i \in Calls /\ i \notin Handles
  <2>1. s \in Inner /\ Front(s) = c /\ Last(s) = 1 /\ i \in Inner /\ Front(i) = c /\ Last(i) = 2
    BY <1>1, ChildFacts DEF Spawned, Inline
  <2>. QED
    BY <2>1, InnerFacts
<1>3. \A d \in Inner : Front(d) = c => d = s \/ d = i
  BY InnerFacts DEF Spawned, Inline
<1>4. /\ pc[i] = "return" /\ event[s] # "incomplete"
      /\ event' = [event EXCEPT ![s] = "cleared"]
      /\ result' = [result EXCEPT ![c] = result[s] + result[i]]
      /\ pc' = [pc EXCEPT ![c] = "return"]
      /\ UNCHANGED <<abi, format, method, mgr, global, main, next, completed, buffer, got, number>>
  BY DEF Join, TestPasses, fixed, mainVars
<1> HIDE DEF s, i
<1>5. /\ pc'[c] = "return" /\ \A d \in Calls \ {c} : pc'[d] = pc[d]
      /\ result'[c] = result[s] + result[i] /\ \A d \in Calls \ {c} : result'[d] = result[d]
      /\ event'[s] = "cleared" /\ \A h \in Handles \ {s} : event'[h] = event[h]
  BY <1>2, <1>4 DEF CTypeOK
<1>6. pc[s] = "return"
  <2>1. pc[s] # "none" /\ pc[s] \notin Active
    BY <1>1, <1>2, <1>4 DEF FamilyInv, EventInv
  <2>. QED
    BY <1>2, <2>1 DEF CTypeOK
<1>7. /\ number[s] = number[c] - 1 /\ number[i] = number[c] - 2
      /\ result[s] = Fib[number[s]] /\ result[i] = Fib[number[i]]
  BY <1>2, <1>4, <1>6 DEF FamilyInv, NumberInv
<1>8. result'[c] = Fib[number[c]]
  <2>1. Fib[number[c]] = Fib[number[c] - 1] + Fib[number[c] - 2]
    <3> DEFINE n == number[c]
    <3>1. n \in Nat /\ ~ (n < 2)
      BY <1>1
    <3> HIDE DEF n
    <3>2. Fib[n] = Fib[n - 1] + Fib[n - 2]
      BY <3>1, FibIsRecursive
    <3>. QED
      BY <3>2 DEF n
  <2>. QED
    BY <1>5, <1>7, <2>1
<1>9. CTypeOK'
  <2>1. pc' \in [Calls -> Active \cup {"none", "return"}]
    BY <1>4 DEF CTypeOK
  <2>2. event' \in [Handles -> {"none", "incomplete", "complete", "inactive", "cleared"}]
    BY <1>4 DEF CTypeOK
  <2>3. result' \in [Calls -> Int]
    <3>1. result[s] + result[i] \in Int
      BY <1>2 DEF CTypeOK
    <3>. QED
      BY <1>4, <3>1 DEF CTypeOK
  <2>. QED
    BY <1>4, <2>1, <2>2, <2>3 DEF CTypeOK
<1>10. MainInv'
  <2>1. ASSUME NEW j \in DOMAIN Numbers
        PROVE  (pc'[<<j>>] = "none" <=> pc[<<j>>] = "none") /\ event'[<<j>>] = event[<<j>>]
    <3>1. <<j>> \in Calls /\ <<j>> \in Handles \ {s}
      BY <1>2, CallsAndHandles
    <3>. QED
      BY <1>1, <1>5, <3>1
  <2>. QED
    BY <1>4, <2>1 DEF MainInv
<1>11. EventInv'
  <2>1. \A h \in Handles : /\ h \in Calls /\ (pc'[h] = "none" <=> pc[h] = "none")
                           /\ pc'[h] \in Active => pc[h] \in Active
    BY <1>1, <1>5, CallsAndHandles DEF Active
  <2>2. pc'[s] = "return" /\ event'[s] = "cleared"
    BY <1>2, <1>5, <1>6
  <2>. QED
    BY <1>5, <2>1, <2>2 DEF EventInv, Active
<1>12. ASSUME NEW d \in Calls, NEW k \in 1 .. Len(d) - 1, SubSeq(d, 1, k) = c
       PROVE  pc[d] \notin Active
  <2> DEFINE e == SubSeq(d, 1, k + 1)
  <2>1. e \in Inner /\ Front(e) = c /\ k + 1 \in 1 .. Len(d) /\ (k + 1 = Len(d) => e = d)
    BY <1>12, PrefixFactsOfCall
  <2>2. pc[e] = "return"
    BY <1>3, <1>4, <1>6, <2>1
  <2>3. k + 1 # Len(d) => k + 1 \in 1 .. Len(d) - 1
    BY <2>1, CallFacts
  <2>. QED
    BY <2>1, <2>2, <2>3 DEF TreeInv, Active
<1>13. FamilyInv'
  <2> SUFFICES ASSUME NEW d \in Inner
               PROVE  /\ pc'[Front(d)] \in {"none", "ready", "unpack", "branch"} => pc'[d] = "none"
                      /\ pc'[Front(d)] = "inline" => pc'[d] # "none"
                      /\ pc'[Front(d)] = "return" => /\ pc'[d] \in {"none", "return"}
                                                     /\ d \in Handles => event'[d] \in {"none", "cleared"}
                      /\ pc'[d] # "none" => number[d] = number[Front(d)] - Last(d)
    BY <1>4 DEF FamilyInv
  <2>1. d \in Calls /\ Front(d) \in Calls
    BY CallsAndHandles
  <2>2. /\ pc[Front(d)] \in {"none", "ready", "unpack", "branch"} => pc[d] = "none"
        /\ pc[Front(d)] = "inline" => pc[d] # "none"
        /\ pc[Front(d)] = "return" => /\ pc[d] \in {"none", "return"}
                                      /\ d \in Handles => event[d] \in {"none", "cleared"}
        /\ pc[d] # "none" => number[d] = number[Front(d)] - Last(d)
    BY DEF FamilyInv
  <2>3. CASE Front(d) = c
    BY <1>1, <1>2, <1>3, <1>4, <1>5, <1>6, <2>2, <2>3
  <2>4. CASE Front(d) # c
    <3>1. pc'[Front(d)] = pc[Front(d)] /\ d # s
      BY <1>2, <1>5, <2>1, <2>4
    <3>2. d \in Handles => event'[d] = event[d]
      BY <1>5, <3>1
    <3>3. CASE d = c
      BY <1>1, <1>5, <2>2, <3>1, <3>2, <3>3
    <3>4. CASE d # c
      BY <1>5, <2>1, <2>2, <3>1, <3>2, <3>4
    <3>. QED
      BY <3>3, <3>4
  <2>. QED
    BY <2>3, <2>4
<1>14. TreeInv'
  <2>1. ASSUME NEW d \in Calls, NEW k \in 1 .. Len(d) - 1, pc'[d] \in Active
        PROVE  pc'[SubSeq(d, 1, k)] = "inline"
    <3>1. pc[d] \in Active
      BY <1>1, <1>5, <2>1 DEF Active
    <3>2. SubSeq(d, 1, k) \in Calls /\ pc[SubSeq(d, 1, k)] = "inline" /\ SubSeq(d, 1, k) # c
      BY <1>12, <3>1, PrefixFactsOfCall DEF TreeInv
    <3>. QED
      BY <1>5, <3>2
  <2>. QED
    BY <2>1 DEF TreeInv
<1>15. NumberInv'
  BY <1>1, <1>4, <1>5, <1>8 DEF NumberInv
<1>16. BufferInv'
  BY <1>1, <1>4, <1>5 DEF BufferInv, PackFor, Arguments
<1>. QED
  BY <1>9, <1>10, <1>11, <1>13, <1>14, <1>15, <1>16

-----------------------------------------------------------------------------
(***************************************************************************)
(* The theorems about the C program.                                       *)
(***************************************************************************)
\* The invariant holds at first.
LEMMA CInitially == Init => CInv
<1> SUFFICES ASSUME Init
             PROVE  CInv
  OBVIOUS
<1> USE DEF Init
<1>1. CTypeOK
  <2>1. next \in DOMAIN Numbers
    BY NumbersFacts
  <2>2. number \in [Calls -> Int] /\ result \in [Calls -> Int]
    BY DEF NoNumber, NoResult
  <2>3. pc \in [Calls -> Active \cup {"none", "return"}] /\ completed \in [DOMAIN Numbers -> BOOLEAN]
    OBVIOUS
  <2>4. event \in [Handles -> {"none", "incomplete", "complete", "inactive", "cleared"}]
    OBVIOUS
  <2>5. buffer = [c \in Calls |-> buffer[c]] /\ got = [c \in Calls |-> got[c]]
    OBVIOUS
  <2>. QED
    BY <2>1, <2>2, <2>3, <2>4, <2>5 DEF CTypeOK
<1>2. \A i \in DOMAIN Numbers : pc[<<i>>] = "none" /\ ~ completed[i]
  BY CallsAndHandles
<1>3. MainInv
  BY <1>2 DEF MainInv
<1>4. EventInv
  BY CallsAndHandles DEF EventInv, Active
<1>5. FamilyInv
  BY CallsAndHandles DEF FamilyInv
<1>6. TreeInv /\ NumberInv /\ BufferInv
  BY DEF TreeInv, NumberInv, BufferInv, Active
<1>. QED
  BY <1>1, <1>3, <1>4, <1>5, <1>6 DEF CInv

\* Every step keeps it.
LEMMA CPreserved == CInv /\ [Next]_vars => CInv'
<1> SUFFICES ASSUME CInv, [Next]_vars
             PROVE  CInv'
  OBVIOUS
<1>1. CASE MainStep
  BY <1>1, MainInitStep, MainRefusedStep, MainSpawnStep, MainWaitStep, MainTestStep,
     MainClearTasksStep, MainClearStep DEF MainStep
<1>2. ASSUME NEW c \in Calls, CallStep(c)
      PROVE  CInv'
  BY <1>2, UnpackStep, BranchStep, BaseCaseStep, JoinStep DEF CallStep
<1>3. ASSUME NEW h \in Handles, TaskStep(h)
      PROVE  CInv'
  BY <1>3, StartStep, NotifyStep DEF TaskStep
<1>4. CASE UNCHANGED vars
  <2>1. Still
    BY <1>4 DEF vars, Still, fixed
  <2>2. CTypeOK' /\ MainInv' /\ EventInv'
    BY <1>4 DEF vars, CInv, CTypeOK, MainInv, EventInv
  <2>. QED
    BY <2>1, <2>2, StillStep DEF CInv
<1>. QED
  BY <1>1, <1>2, <1>3, <1>4 DEF Next, Ended

\* It is an invariant.
LEMMA CInvariant == Spec => []CInv
<1>. QED
  BY CInitially, CPreserved, PTL DEF Spec

\* An active call is part of active calls only, the first of them a root.
LEMMA PartOfActive ==
  ASSUME CInv, NEW c \in Calls, pc[c] \in Active
  PROVE  /\ \A k \in 1 .. Len(c) : pc[SubSeq(c, 1, k)] \in Active
         /\ \E j \in DOMAIN Numbers : pc[<<j>>] \in Active
<1> USE DEF CInv
<1>1. c \in Seq(Steps) /\ Len(c) \in Nat /\ Len(c) >= 1
  BY CallFacts
<1>2. ASSUME NEW k \in 1 .. Len(c)
      PROVE  pc[SubSeq(c, 1, k)] \in Active
  <2>1. CASE k = Len(c)
    <3>1. SubSeq(c, 1, k) = c
      BY <1>1, <2>1, SubSeqFull
    <3>. QED
      BY <3>1
  <2>2. CASE k # Len(c)
    <3>1. k \in 1 .. Len(c) - 1
      BY <1>1, <2>2
    <3>. QED
      BY <3>1 DEF TreeInv, Active
  <2>. QED
    BY <2>1, <2>2
<1>3. \E j \in DOMAIN Numbers : SubSeq(c, 1, 1) = <<j>>
  <2>1. 1 \in 1 .. Len(c) /\ 1 \in 0 .. Len(c)
    BY <1>1
  <2>2. /\ SubSeq(c, 1, 1) \in Seq(Steps) /\ Len(SubSeq(c, 1, 1)) = 1
        /\ SubSeq(c, 1, 1)[1] = c[1]
    BY <1>1, <2>1, PrefixFacts
  <2>3. c[1] \in DOMAIN Numbers
    BY CallFacts
  <2>4. SubSeq(c, 1, 1) = <<c[1]>>
    <3>1. <<c[1]>> \in Seq(Steps) /\ Len(<<c[1]>>) = 1 /\ <<c[1]>>[1] = c[1]
      BY <2>3, NumbersFacts
    <3>2. \A m \in 1 .. 1 : SubSeq(c, 1, 1)[m] = <<c[1]>>[m]
      BY <2>2, <3>1
    <3>. QED
      BY <2>2, <3>1, <3>2, SeqEqual
  <2>. QED
    BY <2>3, <2>4
<1>4. 1 \in 1 .. Len(c)
  BY <1>1
<1>. QED
  BY <1>2, <1>3, <1>4

(***************************************************************************)
(* Whatever the numbers, a call that has not returned finds the task       *)
(* manager set up, its own handle in use and those of the calls it is part *)
(* of, however main collects its tasks (pfunc_c.cpp:600-745).              *)
(***************************************************************************)
THEOREM CallsUseWhatIsAlive == Spec => []UsesAreAlive
<1>1. ASSUME CInv
      PROVE  UsesAreAlive
  <2> USE <1>1 DEF CInv
  <2> SUFFICES ASSUME NEW c \in Calls, pc[c] \in Active
               PROVE  /\ mgr /\ global
                      /\ \A k \in 1 .. Len(c) :
                           SubSeq(c, 1, k) \in Handles => event[SubSeq(c, 1, k)] = "incomplete"
    BY DEF UsesAreAlive, Active
  <2>1. \A k \in 1 .. Len(c) : SubSeq(c, 1, k) \in Handles => event[SubSeq(c, 1, k)] = "incomplete"
    BY PartOfActive DEF EventInv
  <2>2. PICK j \in DOMAIN Numbers : pc[<<j>>] \in Active
    BY PartOfActive
  <2>3. event[<<j>>] = "incomplete" /\ pc[<<j>>] # "none"
    <3>1. <<j>> \in Handles
      BY CallsAndHandles
    <3>. QED
      BY <2>2, <3>1 DEF EventInv, Active
  <2>4. main \notin {"init", "end"}
    BY <2>3 DEF MainInv
  <2>. QED
    BY <2>1, <2>4 DEF MainInv
<1>. QED
  BY <1>1, CInvariant, PTL

(***************************************************************************)
(* Whatever the numbers and the way main collects its tasks, every call    *)
(* returns with its Fibonacci number, and when main has ended every call   *)
(* that was made has returned, its buffer freed and its handle cleared     *)
(* (pack.tex:25-55, pfunc_c.cpp:336-406).                                  *)
(***************************************************************************)
THEOREM CallsComputeTheirNumbers == Spec => []ResultsAreRight
<1>1. ASSUME CInv
      PROVE  ResultsAreRight
  <2> USE <1>1 DEF CInv
  <2>1. \A c \in Calls : pc[c] = "return" => result[c] = Fib[number[c]]
    BY DEF NumberInv
  <2>2. ASSUME main = "end", Valid(format)
        PROVE  /\ \A i \in DOMAIN Numbers : pc[<<i>>] = "return" /\ number[<<i>>] = Numbers[i]
               /\ \A c \in Calls : \/ pc[c] = "none" /\ buffer[c] = <<>>
                                   \/ pc[c] = "return" /\ buffer[c] = Freed
               /\ \A h \in Handles : event[h] = IF pc[h] = "none" THEN "none" ELSE "cleared"
    <3>1. ASSUME NEW i \in DOMAIN Numbers
          PROVE  pc[<<i>>] = "return" /\ number[<<i>>] = Numbers[i] /\ event[<<i>>] = "cleared"
      <4>1. event[<<i>>] = "cleared" /\ (pc[<<i>>] # "none" => number[<<i>>] = Numbers[i])
        BY <2>2 DEF MainInv
      <4>2. <<i>> \in Handles /\ <<i>> \in Calls
        BY CallsAndHandles
      <4>3. pc[<<i>>] # "none" /\ pc[<<i>>] \notin Active
        BY <4>1, <4>2 DEF EventInv
      <4>. QED
        BY <4>1, <4>2, <4>3 DEF CTypeOK
    <3>2. ASSUME NEW c \in Calls
          PROVE  pc[c] \in {"none", "return"}
      <4>1. pc[c] \notin Active
        BY <3>1, PartOfActive DEF Active
      <4>. QED
        BY <4>1 DEF CTypeOK
    <3>3. \A c \in Calls : \/ pc[c] = "none" /\ buffer[c] = <<>>
                           \/ pc[c] = "return" /\ buffer[c] = Freed
      BY <3>2 DEF BufferInv
    <3>4. ASSUME NEW h \in Handles
          PROVE  event[h] = IF pc[h] = "none" THEN "none" ELSE "cleared"
      <4>1. h \in Calls /\ (event[h] = "none" <=> pc[h] = "none")
        BY CallsAndHandles DEF EventInv
      <4>2. CASE h \in Roots
        <5>1. \E i \in DOMAIN Numbers : h = <<i>>
          BY <4>2 DEF Roots
        <5>. QED
          BY <3>1, <5>1
      <4>3. CASE h \notin Roots
        <5>1. h \in Inner /\ Front(h) \in Calls
          BY <4>1, <4>3, CallsAndHandles DEF Inner
        <5>2. pc[h] # "none" => pc[Front(h)] = "return"
          BY <3>2, <5>1 DEF FamilyInv
        <5>. QED
          BY <4>1, <5>1, <5>2 DEF FamilyInv
      <4>. QED
        BY <4>2, <4>3
    <3>. QED
      BY <3>1, <3>3, <3>4
  <2>. QED
    BY <2>1, <2>2 DEF ResultsAreRight
<1>. QED
  BY <1>1, CInvariant, PTL

\* Nothing is called when main's arguments cannot be packed.
CallsAreValid == \A c \in Calls : pc[c] # "none" => Valid(format)

\* A call exists only if the format is supported.
LEMMA CallsAreValidAlways == Spec => []CallsAreValid
<1>1. Init => CallsAreValid
  BY DEF Init, CallsAreValid
<1>2. ASSUME CInv, CallsAreValid, [Next]_vars
      PROVE  CallsAreValid'
  <2>1. format' = format /\ (pc' = pc \/ Valid(format))
    <3>1. CASE MainStep
      BY <3>1 DEF MainStep, MainInit, MainRefused, MainSpawn, MainWait, MainTest, MainClearTasks, MainClear, fixed
    <3>2. ASSUME NEW c \in Calls, CallStep(c)
          PROVE  format' = format /\ Valid(format)
      <4>1. format' = format /\ pc[c] # "none"
        BY <3>2 DEF CallStep, Unpack, Branch, BaseCase, Join, fixed
      <4>. QED
        BY <1>2, <4>1 DEF CallsAreValid
    <3>3. ASSUME NEW h \in Handles, TaskStep(h)
          PROVE  format' = format /\ Valid(format)
      <4>1. format' = format /\ pc[h] # "none" /\ h \in Calls
        BY <3>3, CallsAndHandles DEF TaskStep, Start, Notify, fixed
      <4>. QED
        BY <1>2, <4>1 DEF CallsAreValid
    <3>4. CASE UNCHANGED vars
      BY <3>4 DEF vars
    <3>. QED
      BY <1>2, <3>1, <3>2, <3>3, <3>4 DEF Next, Ended
  <2>. QED
    BY <1>2, <2>1 DEF CallsAreValid
<1>. QED
  BY <1>1, <1>2, CInvariant, PTL DEF Spec

(***************************************************************************)
(* Whatever the format and the sizes of the types, a function unpacks, in  *)
(* any interleaving, exactly the bytes that were packed for its call, from *)
(* a buffer of the computed size (pfunc_pack.cpp:313-481, 483-644).        *)
(***************************************************************************)
THEOREM CallsGetTheirArguments == Spec => []ArgumentsArrive
<1>1. ASSUME CInv, CallsAreValid
      PROVE  ArgumentsArrive
  <2> USE <1>1 DEF CInv
  <2> SUFFICES ASSUME NEW c \in Calls
               PROVE  /\ buffer[c] \notin {<<>>, Freed} => Len(buffer[c]) = BufferSize(abi, format)
                      /\ got[c] # <<>> =>
                           got[c] = [i \in DOMAIN format |-> Bytes(<<c, i>>, Width(abi, format[i]))]
    BY DEF ArgumentsArrive
  <2>1. CASE pc[c] = "none"
    BY <2>1 DEF BufferInv
  <2>2. CASE pc[c] # "none"
    <3>1. IsFormat(format) /\ IsABI(abi)
      BY <2>2, FormatsAssumption DEF CTypeOK, CallsAreValid, IsFormat, IsABI
    <3>2. /\ Len(PackFor(c)) = BufferSize(abi, format)
          /\ Unpacked(abi, format, PackFor(c)) =
               [i \in DOMAIN format |-> Bytes(Arguments(c)[i], Width(abi, format[i]))]
      BY <3>1, PackedFacts DEF PackFor
    <3>3. \A i \in DOMAIN format : Arguments(c)[i] = <<c, i>>
      BY DEF Arguments
    <3>4. Unpacked(abi, format, PackFor(c)) = [i \in DOMAIN format |-> Bytes(<<c, i>>, Width(abi, format[i]))]
      BY <3>2, <3>3, Zenon
    <3>5. pc[c] \in {"ready", "unpack"} \/ pc[c] \in {"branch", "inline", "return"}
      BY <2>2 DEF CTypeOK, Active
    <3>. QED
      BY <3>2, <3>4, <3>5 DEF BufferInv
  <2>. QED
    BY <2>1, <2>2
<1>. QED
  BY <1>1, CInvariant, CallsAreValidAlways, PTL

-----------------------------------------------------------------------------
(***************************************************************************)
(* The calls of dgemm_op, a tree by their paths.                           *)
(***************************************************************************)
Labels == {1, 2} \X Quadrants
Parts == Products \ {<<>>}

\* The first call, and a call that another one makes.
LEMMA PartFacts ==
  /\ <<>> \in Products /\ IsSpawned(<<>>) /\ Len(<<>>) = 0 /\ MaxSplits \in Nat
  /\ \A c \in Products : c \in Seq(Labels) /\ Len(c) \in 0 .. MaxSplits /\ (c # <<>> => c \in Parts)
  /\ \A c \in Parts : /\ c \in Products /\ c # <<>> /\ Len(c) \in 1 .. MaxSplits
                      /\ Front(c) \in Products /\ Len(Front(c)) = Len(c) - 1 /\ Front(c) # c
                      /\ Last(c) \in Labels /\ c = Append(Front(c), Last(c))
                      /\ IsSpawned(c) <=> Last(c)[2] # InPlace
<1>1. MaxSplits \in Nat
  BY SizesAssumption
<1>2. <<>> \in Products /\ IsSpawned(<<>>) /\ Len(<<>>) = 0
  <2>1. <<>> \in Seq(Labels) /\ Len(<<>>) = 0 /\ 0 <= MaxSplits
    BY <1>1, EmptySeq
  <2>. QED
    BY <1>1, <2>1, SeqOfFacts DEF Products, Labels, IsSpawned
<1>3. ASSUME NEW c \in Products
      PROVE  c \in Seq(Labels) /\ Len(c) \in 0 .. MaxSplits
  <2>1. c \in Seq(Labels) /\ Len(c) <= MaxSplits
    BY <1>1, SeqOfFacts DEF Products, Labels
  <2>. QED
    BY <1>1, <2>1, LenProperties
<1>4. ASSUME NEW c \in Parts
      PROVE  /\ c \in Products /\ c # <<>> /\ Len(c) \in 1 .. MaxSplits
             /\ Front(c) \in Products /\ Len(Front(c)) = Len(c) - 1 /\ Front(c) # c
             /\ Last(c) \in Labels /\ c = Append(Front(c), Last(c))
             /\ IsSpawned(c) <=> Last(c)[2] # InPlace
  <2> DEFINE n == Len(c)
  <2>1. c \in Products /\ c # <<>> /\ c \in Seq(Labels) /\ n \in 0 .. MaxSplits
    BY <1>3 DEF Parts
  <2>2. /\ n \in Nat \ {0} /\ Front(c) \in Seq(Labels) /\ Len(Front(c)) = n - 1 /\ Last(c) \in Labels
        /\ c = Append(Front(c), Last(c))
    BY <2>1, FrontLast, FrontAppend
  <2> HIDE DEF n
  <2>3. n \in 1 .. MaxSplits /\ n - 1 <= MaxSplits /\ n - 1 # n
    BY <1>1, <2>1, <2>2
  <2>4. Front(c) \in Products
    BY <1>1, <2>2, <2>3, SeqOfFacts DEF Products, Labels
  <2>. QED
    BY <2>1, <2>2, <2>3, <2>4 DEF IsSpawned, n
<1>. QED
  BY <1>1, <1>2, <1>3, <1>4 DEF Parts

\* A call that a call makes.
LEMMA PartOf ==
  ASSUME NEW c \in Products, Len(c) < MaxSplits, NEW l \in Labels
  PROVE  /\ Append(c, l) \in Parts /\ Append(c, l) \in Products
         /\ Front(Append(c, l)) = c /\ Last(Append(c, l)) = l
         /\ Append(c, l) # c /\ Append(c, l) # <<>> /\ Len(Append(c, l)) = Len(c) + 1
<1> DEFINE d == Append(c, l)
           n == Len(c)
<1>1. c \in Seq(Labels) /\ n \in Nat /\ n < MaxSplits /\ MaxSplits \in Nat
  BY PartFacts
<1>2. d \in Seq(Labels) /\ d # <<>> /\ Front(d) = c /\ Last(d) = l /\ Len(d) = n + 1
  BY <1>1, PathChild
<1> HIDE DEF d, n
<1>3. n + 1 <= MaxSplits /\ n + 1 # n
  BY <1>1
<1>4. d \in Products
  BY <1>1, <1>2, <1>3, SeqOfFacts DEF Products, Labels
<1>. QED
  BY <1>2, <1>3, <1>4 DEF Parts, d, n

\* Only the two batches of a call share a handle.
LEMMA HandleFacts ==
  /\ \A c \in Products : IsSpawned(c) => Handle(c) \in TaskHandles
  /\ \A c \in Parts : Handle(c) # Handle(<<>>)
  /\ \A c, d \in Parts : Handle(c) = Handle(d) => Front(c) = Front(d) /\ Last(c)[2] = Last(d)[2]
<1> DEFINE L == (0 .. 2) \X Quadrants
<1>1. \A c \in Products : IsSpawned(c) => Handle(c) \in TaskHandles
  BY DEF TaskHandles
<1>2. ASSUME NEW c \in Parts
      PROVE  /\ Front(c) \in Seq(L) /\ <<0, Last(c)[2]>> \in L
             /\ Handle(c) = Append(Front(c), <<0, Last(c)[2]>>)
  <2>1. c # <<>> /\ Front(c) \in Products /\ Last(c) \in Labels
    BY PartFacts
  <2>2. Front(c) \in Seq(Labels) /\ Labels \subseteq L
    BY <2>1, PartFacts DEF Labels
  <2>3. Front(c) \in Seq(L)
    BY <2>2, SeqMonotonic
  <2>. QED
    BY <2>1, <2>3 DEF Handle, Labels
<1> HIDE DEF L
<1>3. ASSUME NEW c \in Parts
      PROVE  Handle(c) # <<>>
  <2> DEFINE a == Front(c)
             l == <<0, Last(c)[2]>>
  <2>1. a \in Seq(L) /\ l \in L /\ Handle(c) = Append(a, l)
    BY <1>2
  <2> HIDE DEF a, l
  <2>. QED
    BY <2>1, AppendProperties
<1>4. Handle(<<>>) = <<>>
  BY DEF Handle
<1>5. ASSUME NEW c \in Parts, NEW d \in Parts, Handle(c) = Handle(d)
      PROVE  Front(c) = Front(d) /\ Last(c)[2] = Last(d)[2]
  <2>1. Front(c) = Front(d) /\ <<0, Last(c)[2]>> = <<0, Last(d)[2]>>
    <3> DEFINE a == Front(c)
               b == Front(d)
               l == <<0, Last(c)[2]>>
               m == <<0, Last(d)[2]>>
    <3>1. a \in Seq(L) /\ l \in L /\ b \in Seq(L) /\ m \in L /\ Append(a, l) = Append(b, m)
      BY <1>2, <1>5
    <3> HIDE DEF a, b, l, m
    <3>2. a = b /\ l = m
      BY <3>1, AppendInjective
    <3>. QED
      BY <3>2 DEF a, b, l, m
  <2>. QED
    BY <2>1
<1>. QED
  BY <1>1, <1>3, <1>4, <1>5

\* The dimension of the matrices that a call multiplies, by the length of its path.
IsHalving(half, s) ==
  /\ half \in [0 .. MaxSplits -> 1 .. s.dim]
  /\ half[0] = s.dim /\ half[MaxSplits] <= s.base
  /\ \A k \in 1 .. MaxSplits : half[k - 1] > s.base => half[k - 1] = 2 * half[k]

Halving(s) == CHOOSE half : IsHalving(half, s)

\* The dimension of a call that splits is twice that of its parts.
LEMMA HalvingFacts ==
  ASSUME NEW s \in Sizes
  PROVE  /\ s.dim \in Nat \ {0} /\ s.base \in Nat
         /\ Halving(s)[0] = s.dim
         /\ \A k \in 0 .. MaxSplits : /\ Halving(s)[k] \in 1 .. s.dim
                                      /\ Halving(s)[k] > s.base =>
                                           k < MaxSplits /\ Halving(s)[k] = 2 * Halving(s)[k + 1]
<1>1. IsHalving(Halving(s), s)
  <2>1. \E half : IsHalving(half, s)
    BY SizesAssumption DEF IsHalving
  <2>. QED
    BY <2>1 DEF Halving
<1> DEFINE half == Halving(s)
<1>2. s.dim \in Nat /\ s.base \in 1 .. s.dim /\ MaxSplits \in Nat
  BY SizesAssumption
<1>3. /\ half \in [0 .. MaxSplits -> 1 .. s.dim]
      /\ half[0] = s.dim /\ half[MaxSplits] <= s.base
      /\ \A k \in 1 .. MaxSplits : half[k - 1] > s.base => half[k - 1] = 2 * half[k]
  BY <1>1 DEF IsHalving
<1> HIDE DEF half
<1>4. ASSUME NEW k \in 0 .. MaxSplits, half[k] > s.base
      PROVE  k < MaxSplits /\ half[k] = 2 * half[k + 1]
  <2>1. k # MaxSplits
    <3>1. CASE k = MaxSplits
      <4>1. half[k] \in 1 .. s.dim
        BY <1>3
      <4>. QED
        BY <1>2, <1>3, <1>4, <3>1, <4>1
    <3>. QED
      BY <3>1
  <2>2. k + 1 \in 1 .. MaxSplits /\ (k + 1) - 1 = k
    BY <1>2, <2>1
  <2>. QED
    BY SMTT(30), <1>2, <1>3, <1>4, <2>1, <2>2
<1>. QED
  BY <1>2, <1>3, <1>4 DEF half

-----------------------------------------------------------------------------
(***************************************************************************)
(* The inductive invariant of the C++ program.                             *)
(***************************************************************************)
Places == {"none", "queued", "enter", "spawn", "called", "wait", "load", "store", "left", "done"}

MTypeOK ==
  /\ size \in Sizes
  /\ program \in {"start", "spawn", "wait", "clear", "return", "join", "end"}
  /\ global_tmanager \in BOOLEAN
  /\ at \in [Products -> Places]
  /\ step \in [Products -> Labels]
  /\ functor = [c \in Products |-> functor[c]]
  /\ task \in [TaskHandles -> {"inactive", "incomplete", "complete"}]
  /\ cells = [e \in 0 .. size.dim * size.dim - 1 |-> cells[e]]
  /\ loaded = [c \in Products |-> loaded[c]]

\* Where main is says where the first call is.
ProgramInv ==
  /\ program \in {"spawn", "wait", "clear"} => global_tmanager
  /\ program \in {"start", "spawn"} => at[<<>>] = "none"
  /\ program = "wait" => at[<<>>] # "none"
  /\ program \in {"clear", "return", "join", "end"} => at[<<>>] = "done"

Dim(c) == Halving(size)[Len(c)]
Splits(c) == Dim(c) > size.base
Divides(c) == at[c] \in {"spawn", "called", "wait"}

PlaceInv ==
  \A c \in Products :
    /\ at[c] \in {"none", "queued", "enter"} => step[c] = <<1, 1>>
    /\ Divides(c) => Splits(c)
    /\ at[c] \in {"load", "store"} => ~ Splits(c)
    /\ at[c] = "called" => step[c][2] = InPlace
    /\ at[c] = "wait" => step[c][2] # InPlace
    /\ ~ IsSpawned(c) => at[c] \notin {"queued", "done"}

\* A handle is in use as long as its task is not done.
TaskInv ==
  \A c \in Products : IsSpawned(c) /\ at[c] \notin {"none", "done"} => task[Handle(c)] = "incomplete"

\* Which of its calls a call has begun, and which it has seen the end of.
Begun(c, l) ==
  \/ at[c] = "spawn" /\ (l[1] < step[c][1] \/ (l[1] = step[c][1] /\ l[2] < step[c][2]))
  \/ at[c] \in {"called", "wait"} /\ l[1] <= step[c][1]
  \/ at[c] \in {"left", "done"} /\ Splits(c)

Over(c, l) ==
  \/ at[c] \in {"spawn", "called", "wait"} /\ l[1] < step[c][1]
  \/ at[c] = "wait" /\ l[1] = step[c][1] /\ (l[2] = InPlace \/ l[2] < step[c][2])
  \/ at[c] \in {"left", "done"} /\ Splits(c)

Final(c) == IF IsSpawned(c) THEN "done" ELSE "left"

PartsInv ==
  \A c \in Parts :
    /\ at[c] # "none" <=> Begun(Front(c), Last(c))
    /\ Over(Front(c), Last(c)) => at[c] = Final(c)

\* The functor of a call, and where its matrices are.
OpAt(d, r, m, j) ==
  [A |-> Matrix(d, r * size.dim + m), B |-> Matrix(d, m * size.dim + j), C |-> Matrix(d, r * size.dim + j)]
IsOp(op, d) == \E r, m, j \in 0 .. size.dim - d : op = OpAt(d, r, m, j)

OpOf(c) ==
  IF c = <<>> THEN [A |-> Whole, B |-> Whole, C |-> Whole] ELSE Functor(functor[Front(c)], Last(c))

OpInv == \A c \in Products : at[c] # "none" => functor[c] = OpOf(c) /\ IsOp(functor[c], Dim(c))

MInv == MTypeOK /\ ProgramInv /\ PlaceInv /\ TaskInv /\ PartsInv /\ OpInv

\* The calls that have a block of C to themselves: those that do not divide
\* it, of the present batch of a call that does.
Owns(c) == ~ Divides(c) /\ (c # <<>> => Divides(Front(c)) /\ Last(c)[1] = step[Front(c)][1])
Block(c) == Elements(OpOf(c).C)

\* The first terms of an element of the product, in order.
Terms(e, m) ==
  [k \in 1 .. m |-> <<(e \div size.dim) * size.dim + (k - 1), (k - 1) * size.dim + (e % size.dim)>>]

\* How many a block has.
Reached(c) == (OpOf(c).A.start % size.dim) + (IF at[c] \in {"left", "done"} THEN Dim(c) ELSE 0)

BlocksInv == \A c, d \in Products : Owns(c) /\ Owns(d) /\ c # d => Block(c) \cap Block(d) = {}

CellsInv ==
  \A c \in Products : Owns(c) =>
    \A e \in Block(c) : /\ cells[e] = Terms(e, Reached(c))
                        /\ at[c] = "store" => loaded[c][e] = cells[e]

-----------------------------------------------------------------------------
(***************************************************************************)
(* The arithmetic of blocks.                                               *)
(***************************************************************************)

\* Rows and columns are found back in the index of an element.
LEMMA RowsAndColumns ==
  ASSUME NEW n \in Nat \ {0}
  PROVE  /\ \A e \in Nat : e \div n \in Nat /\ e % n \in 0 .. n - 1 /\ e = (e \div n) * n + (e % n)
         /\ \A a \in Nat, b \in 0 .. n - 1 :
              /\ (a * n + b) \div n = a /\ (a * n + b) % n = b /\ a * n + b \in Nat
              /\ a < n => a * n + b \in 0 .. n * n - 1
<1>1. ASSUME NEW e \in Nat
      PROVE  e \div n \in Nat /\ e % n \in 0 .. n - 1 /\ e = (e \div n) * n + (e % n)
  OBVIOUS
<1>2. ASSUME NEW a \in Nat, NEW b \in 0 .. n - 1
      PROVE  /\ (a * n + b) \div n = a /\ (a * n + b) % n = b /\ a * n + b \in Nat
             /\ a < n => a * n + b \in 0 .. n * n - 1
  <2> DEFINE e == a * n + b
             q == e \div n
  <2>1. a * n \in Nat /\ e \in Nat
    OBVIOUS
  <2>2. q \in Nat /\ e % n \in 0 .. n - 1 /\ e = q * n + (e % n)
    BY <1>1, <2>1
  <2>3. (a - q) * n = (e % n) - b
    <3>1. (a - q) * n = a * n - q * n
      BY <2>2
    <3> HIDE DEF q
    <3>2. q * n \in Int /\ a * n \in Int
      BY <2>2
    <3>. QED
      BY <2>2, <3>1, <3>2
  <2>4. a - q < 1 /\ a - q > -1
    <3> DEFINE k == a - q
               f == e % n
    <3>1. k \in Int /\ f \in 0 .. n - 1 /\ k * n = f - b
      BY <2>2, <2>3
    <3> HIDE DEF k, f
    <3>2. k >= 1 => k * n >= n
      BY <3>1
    <3>3. k <= -1 => k * n <= -n
      BY <3>1
    <3>4. k < 1 /\ k > -1
      BY <3>1, <3>2, <3>3
    <3>. QED
      BY <3>4 DEF k
  <2>5. a = q
    <3> HIDE DEF q
    <3>. QED
      BY <2>2, <2>4
  <2>6. e % n = b
    <3> HIDE DEF q
    <3>1. a * n \in Nat /\ a * n + b = a * n + (e % n)
      BY <2>1, <2>2, <2>5
    <3> DEFINE p == a * n
               f == e % n
    <3> HIDE DEF p, f, e
    <3>. QED
      BY <2>2, <3>1 DEF f
  <2>7. a < n => e \in 0 .. n * n - 1
    <3> SUFFICES ASSUME a < n
                 PROVE  e \in 0 .. n * n - 1
      OBVIOUS
    <3>1. a * n <= (n - 1) * n /\ (n - 1) * n = n * n - n /\ n * n \in Nat
      OBVIOUS
    <3> DEFINE p == a * n
               s == n * n
    <3>2. p \in Nat /\ p <= s - n /\ s \in Nat
      BY <2>1, <3>1
    <3> HIDE DEF p, s
    <3>3. p + b \in 0 .. s - 1
      BY <3>2
    <3>. QED
      BY <3>3 DEF p, s
  <2>. QED
    BY <2>1, <2>5, <2>6, <2>7
<1>. QED
  BY <1>1, <1>2

Down(q, h) == IF q \in {3, 4} THEN h ELSE 0
Right(q, h) == IF q \in {2, 4} THEN h ELSE 0
Ahead(b, h) == IF b = 2 THEN h ELSE 0

\* The quadrants of a matrix.
LEMMA SplitFacts ==
  ASSUME size.dim \in Nat, NEW h \in Nat, NEW r \in Nat, NEW j \in Nat, NEW q \in Quadrants
  PROVE  Split(Matrix(2 * h, r * size.dim + j), q)
           = Matrix(h, (r + Down(q, h)) * size.dim + (j + Right(q, h)))
<1> DEFINE n == size.dim
           t == r * n + j
<1>1. (2 * h) \div 2 = h
  OBVIOUS
<1>2. Split(Matrix(2 * h, t), q) = Matrix(h, t + (<<0, h, h * n, h * n + h>>)[q])
  BY <1>1 DEF Split, Matrix
<1>3. t + (<<0, h, h * n, h * n + h>>)[q] = (r + Down(q, h)) * n + (j + Right(q, h))
  <2> DEFINE a == r * n
             b == h * n
  <2>1. (r + h) * n = a + b /\ (r + 0) * n = a /\ a \in Nat /\ b \in Nat
    OBVIOUS
  <2>2. (<<0, h, b, b + h>>)[q] = (IF q \in {3, 4} THEN b ELSE 0) + (IF q \in {2, 4} THEN h ELSE 0)
    BY <2>1 DEF Quadrants
  <2>3. (r + Down(q, h)) * n = a + (IF q \in {3, 4} THEN b ELSE 0)
    BY <2>1 DEF Down
  <2>4. Right(q, h) = IF q \in {2, 4} THEN h ELSE 0
    BY DEF Right
  <2> DEFINE x == (r + Down(q, h)) * n
             y == Right(q, h)
             z == (<<0, h, b, b + h>>)[q]
  <2>5. t = a + j /\ y \in Nat
    BY <2>4
  <2> HIDE DEF a, b, x, y, z, t, n
  <2>6. t + z = x + (j + y)
    <3>1. x \in Nat /\ z \in Nat
      BY <2>1, <2>2, <2>3, <2>4 DEF x, z
    <3>2. x = a + (IF q \in {3, 4} THEN b ELSE 0) /\ y = (IF q \in {2, 4} THEN h ELSE 0)
          /\ z = (IF q \in {3, 4} THEN b ELSE 0) + (IF q \in {2, 4} THEN h ELSE 0)
      BY <2>2, <2>3, <2>4 DEF x, y, z
    <3>. QED
      BY <2>1, <2>5, <3>2
  <2>. QED
    BY <2>6 DEF x, y, z, b
<1>. QED
  BY <1>2, <1>3

\* The functor of a part multiplies the right quadrants.
LEMMA FunctorFacts ==
  ASSUME size.dim \in Nat, NEW h \in Nat, NEW r \in Nat, NEW m \in Nat, NEW j \in Nat, NEW l \in Labels
  PROVE  Functor(OpAt(2 * h, r, m, j), l)
           = OpAt(h, r + Down(l[2], h), m + Ahead(l[1], h), j + Right(l[2], h))
<1> DEFINE n == size.dim
           f == Factors[l[2]][l[1]]
<1>1. l[1] \in {1, 2} /\ l[2] \in Quadrants
  BY DEF Labels
<1>2. /\ f[1] \in Quadrants /\ f[2] \in Quadrants
      /\ Down(f[1], h) = Down(l[2], h) /\ Right(f[1], h) = Ahead(l[1], h)
      /\ Down(f[2], h) = Ahead(l[1], h) /\ Right(f[2], h) = Right(l[2], h)
  <2>1. l[2] = 1 \/ l[2] = 2 \/ l[2] = 3 \/ l[2] = 4
    BY <1>1 DEF Quadrants
  <2>2. CASE l[1] = 1
    <3>1. CASE l[2] = 1
      <4>1. f = <<1, 1>>
        BY <2>2, <3>1 DEF Factors
      <4>. QED
        BY <2>2, <3>1, <4>1 DEF Quadrants, Down, Right, Ahead
    <3>2. CASE l[2] = 2
      <4>1. f = <<1, 2>>
        BY <2>2, <3>2 DEF Factors
      <4>. QED
        BY <2>2, <3>2, <4>1 DEF Quadrants, Down, Right, Ahead
    <3>3. CASE l[2] = 3
      <4>1. f = <<3, 1>>
        BY <2>2, <3>3 DEF Factors
      <4>. QED
        BY <2>2, <3>3, <4>1 DEF Quadrants, Down, Right, Ahead
    <3>4. CASE l[2] = 4
      <4>1. f = <<3, 2>>
        BY <2>2, <3>4 DEF Factors
      <4>. QED
        BY <2>2, <3>4, <4>1 DEF Quadrants, Down, Right, Ahead
    <3>. QED
      BY <2>1, <3>1, <3>2, <3>3, <3>4
  <2>3. CASE l[1] = 2
    <3>1. CASE l[2] = 1
      <4>1. f = <<2, 3>>
        BY <2>3, <3>1 DEF Factors
      <4>. QED
        BY <2>3, <3>1, <4>1 DEF Quadrants, Down, Right, Ahead
    <3>2. CASE l[2] = 2
      <4>1. f = <<2, 4>>
        BY <2>3, <3>2 DEF Factors
      <4>. QED
        BY <2>3, <3>2, <4>1 DEF Quadrants, Down, Right, Ahead
    <3>3. CASE l[2] = 3
      <4>1. f = <<4, 3>>
        BY <2>3, <3>3 DEF Factors
      <4>. QED
        BY <2>3, <3>3, <4>1 DEF Quadrants, Down, Right, Ahead
    <3>4. CASE l[2] = 4
      <4>1. f = <<4, 4>>
        BY <2>3, <3>4 DEF Factors
      <4>. QED
        BY <2>3, <3>4, <4>1 DEF Quadrants, Down, Right, Ahead
    <3>. QED
      BY <2>1, <3>1, <3>2, <3>3, <3>4
  <2>. QED
    BY <1>1, <2>2, <2>3
<1>3. /\ Split(Matrix(2 * h, r * n + m), f[1]) = Matrix(h, (r + Down(l[2], h)) * n + (m + Ahead(l[1], h)))
      /\ Split(Matrix(2 * h, m * n + j), f[2]) = Matrix(h, (m + Ahead(l[1], h)) * n + (j + Right(l[2], h)))
      /\ Split(Matrix(2 * h, r * n + j), l[2]) = Matrix(h, (r + Down(l[2], h)) * n + (j + Right(l[2], h)))
  <2> DEFINE x == f[1]
             y == f[2]
             z == l[2]
  <2>1. Split(Matrix(2 * h, r * n + m), x) = Matrix(h, (r + Down(x, h)) * n + (m + Right(x, h)))
    <3>1. x \in Quadrants
      BY <1>2
    <3> HIDE DEF x
    <3>. QED
      BY <3>1, SplitFacts
  <2>2. Split(Matrix(2 * h, m * n + j), y) = Matrix(h, (m + Down(y, h)) * n + (j + Right(y, h)))
    <3>1. y \in Quadrants
      BY <1>2
    <3> HIDE DEF y
    <3>. QED
      BY <3>1, SplitFacts
  <2>3. Split(Matrix(2 * h, r * n + j), z) = Matrix(h, (r + Down(z, h)) * n + (j + Right(z, h)))
    <3>1. z \in Quadrants
      BY <1>1
    <3> HIDE DEF z
    <3>. QED
      BY <3>1, SplitFacts
  <2> HIDE DEF f
  <2>. QED
    BY <1>2, <2>1, <2>2, <2>3
<1>. QED
  BY <1>3 DEF Functor, OpAt

\* A call hands on blocks of the matrices.
LEMMA PartIsOp ==
  ASSUME size.dim \in Nat, NEW h \in Nat, NEW op, IsOp(op, 2 * h), NEW l \in Labels
  PROVE  IsOp(Functor(op, l), h)
<1>1. PICK r, m, j \in 0 .. size.dim - 2 * h : op = OpAt(2 * h, r, m, j)
  BY DEF IsOp
<1>2. Functor(op, l) = OpAt(h, r + Down(l[2], h), m + Ahead(l[1], h), j + Right(l[2], h))
  BY <1>1, FunctorFacts
<1>3. \A i \in 0 .. size.dim - 2 * h : i + 0 \in 0 .. size.dim - h /\ i + h \in 0 .. size.dim - h
  OBVIOUS
<1>4. /\ r + Down(l[2], h) \in 0 .. size.dim - h
      /\ m + Ahead(l[1], h) \in 0 .. size.dim - h
      /\ j + Right(l[2], h) \in 0 .. size.dim - h
  BY <1>3 DEF Down, Right, Ahead
<1>. QED
  BY <1>2, <1>4 DEF IsOp

-----------------------------------------------------------------------------
(***************************************************************************)
(* The steps of the calls.                                                 *)
(***************************************************************************)
\* A label is a batch and a quadrant.
LEMMA LabelFacts ==
  /\ \A l \in Labels : l[1] \in {1, 2} /\ l[2] \in Quadrants
  /\ \A l, m \in Labels : l = m <=> l[1] = m[1] /\ l[2] = m[2]
  /\ \A b \in {1, 2}, q \in Quadrants : <<b, q>> \in Labels
  /\ InPlace \in Quadrants /\ \A q \in Quadrants : q # InPlace => q + 1 \in Quadrants /\ q < InPlace
BY DEF Labels, Quadrants, InPlace

\* A call that stands where it was sees its calls as it did.
LEMMA SameView ==
  ASSUME size' = size, NEW p \in Products, at'[p] = at[p], step'[p] = step[p], NEW l
  PROVE  (Begun(p, l)' <=> Begun(p, l)) /\ (Over(p, l)' <=> Over(p, l))
BY DEF Begun, Over, Splits, Dim

\* The arithmetic is that of the matrices of main.
LEMMA SameSize ==
  ASSUME size' = size
  PROVE  /\ \A op, l : Functor(op, l)' = Functor(op, l)
         /\ \A op, d : IsOp(op, d)' <=> IsOp(op, d)
         /\ \A x : Elements(x)' = Elements(x)
         /\ \A e, m : Terms(e, m)' = Terms(e, m)
         /\ \A c : Dim(c)' = Dim(c) /\ (Splits(c)' <=> Splits(c)) /\ (IsSpawned(c)' <=> IsSpawned(c))
         /\ Whole' = Whole
<1>1. \A op, l : Functor(op, l)' = Functor(op, l)
  BY DEF Functor, Split
<1>2. \A op, d : IsOp(op, d)' <=> IsOp(op, d)
  BY DEF IsOp, OpAt
<1>3. \A x : Elements(x)' = Elements(x)
  BY DEF Elements, Element
<1>4. \A e, m : Terms(e, m)' = Terms(e, m)
  BY DEF Terms
<1>5. \A c : Dim(c)' = Dim(c) /\ (Splits(c)' <=> Splits(c)) /\ (IsSpawned(c)' <=> IsSpawned(c))
  BY DEF Dim, Splits, IsSpawned
<1>6. Whole' = Whole
  BY DEF Whole
<1>. QED
  BY <1>1, <1>2, <1>3, <1>4, <1>5, <1>6

\* Of two batches, the first is over when the second begins.
LEMMA OneAfterTheOther ==
  ASSUME MInv, NEW c \in Parts, NEW d \in Parts, Front(c) = Front(d), Last(c)[1] < Last(d)[1], at[d] # "none"
  PROVE  at[c] = Final(c)
<1> DEFINE p == Front(c)
           s == step[p]
<1>1. p \in Products /\ Last(c) \in Labels /\ Last(d) \in Labels /\ s \in Labels
  BY PartFacts DEF MInv, MTypeOK
<1>2. Begun(p, Last(d))
  BY DEF MInv, PartsInv
<1>3. Last(c)[1] \in Int /\ Last(d)[1] \in Int /\ s[1] \in Int
  BY <1>1, LabelFacts
<1>4. Over(p, Last(c))
  BY <1>2, <1>3 DEF Begun, Over
<1>. QED
  BY <1>4 DEF MInv, PartsInv

\* A call moves, and perhaps one that it begins.
LEMMA PartsStep ==
  ASSUME MInv, NEW c \in Products, NEW k \in Products,
         \/ k = c
         \/ k \in Parts /\ Front(k) = c /\ at[k] = "none" /\ at'[k] \in {"queued", "enter"},
         size' = size,
         \A d \in Products : d # c /\ d # k => at'[d] = at[d],
         \A d \in Products : d # c => step'[d] = step[d],
         at[c] # "none", at[c] # Final(c), at'[c] # "none",
         \A d \in Parts : Front(d) = c =>
           /\ at'[d] # "none" <=> Begun(c, Last(d))'
           /\ Over(c, Last(d))' => at'[d] = Final(d)
  PROVE  PartsInv'
<1> SUFFICES ASSUME NEW d \in Parts, Front(d) # c
             PROVE  /\ at'[d] # "none" <=> Begun(Front(d), Last(d))'
                    /\ Over(Front(d), Last(d))' => at'[d] = Final(d)
  <2>1. \A d \in Parts : Final(d)' = Final(d)
    BY DEF Final, IsSpawned
  <2>2. ASSUME NEW d \in Parts
        PROVE  /\ at'[d] # "none" <=> Begun(Front(d), Last(d))'
               /\ Over(Front(d), Last(d))' => at'[d] = Final(d)
    <3>1. CASE Front(d) = c
      BY <3>1
    <3>2. CASE Front(d) # c
      BY <3>2
    <3>. QED
      BY <3>1, <3>2
  <2>. QED
    BY <2>1, <2>2 DEF PartsInv
<1> DEFINE p == Front(d)
           l == Last(d)
<1>1. d \in Products /\ p \in Products
  BY PartFacts
<1>2. /\ at[d] # "none" <=> Begun(p, l)
      /\ Over(p, l) => at[d] = Final(d)
  BY DEF MInv, PartsInv
<1>3. k # c => d # k
  OBVIOUS
<1> HIDE DEF p, l
<1>4. CASE p = k
  <2>1. k # c /\ at[k] = "none" /\ at'[k] \in {"queued", "enter"}
    BY <1>4 DEF p
  <2>2. ~ Begun(p, l) /\ ~ Begun(p, l)' /\ ~ Over(p, l)'
    BY <1>4, <2>1 DEF Begun, Over
  <2>3. d # c /\ d # k
    BY <1>2, <1>3, <2>1, <2>2
  <2>. QED
    BY <1>1, <1>2, <2>2, <2>3 DEF p, l
<1>5. CASE p # k
  <2>1. p # c
    BY DEF p
  <2>2. (Begun(p, l)' <=> Begun(p, l)) /\ (Over(p, l)' <=> Over(p, l))
    BY <1>1, <1>5, <2>1, SameView
  <2>3. CASE d = c
    BY <1>2, <2>2, <2>3 DEF p, l
  <2>4. CASE d # c
    <3>1. at'[d] = at[d]
      BY <1>1, <1>3, <2>4
    <3>. QED
      BY <1>2, <2>2, <3>1 DEF p, l
  <2>. QED
    BY <2>3, <2>4
<1>. QED
  BY <1>4, <1>5

\* No call is begun.
LEMMA SameOps ==
  ASSUME MInv, size' = size, functor' = functor, \A d \in Products : at'[d] = "none" <=> at[d] = "none"
  PROVE  OpInv'
<1>1. \A d : OpOf(d)' = OpOf(d)
  BY SameSize DEF OpOf
<1>2. ASSUME NEW d \in Products, at'[d] # "none"
      PROVE  functor'[d] = OpOf(d)' /\ IsOp(functor[d], Dim(d))'
  <2>1. functor[d] = OpOf(d) /\ IsOp(functor[d], Dim(d))
    BY <1>2 DEF MInv, OpInv
  <2>2. Dim(d)' = Dim(d) /\ (IsOp(functor[d], Dim(d))' <=> IsOp(functor[d], Dim(d)))
    BY SameSize DEF IsOp, OpAt
  <2>. QED
    BY <1>1, <2>1, <2>2
<1>. QED
  BY <1>2 DEF OpInv

\* A call moves on without a call of its own.
LEMMA CallMoves ==
  ASSUME MInv, NEW c \in Products, NEW q \in Places,
         UNCHANGED <<size, program, global_tmanager, step, functor, task>>,
         at' = [at EXCEPT ![c] = q],
         \/ at[c] = "queued" /\ q = "enter"
         \/ at[c] = "enter" /\ q = IF Splits(c) THEN "spawn" ELSE "load"
         \/ at[c] = "load" /\ q = "store"
         \/ at[c] = "store" /\ q = "left"
  PROVE  at' \in [Products -> Places] /\ ProgramInv' /\ PlaceInv' /\ TaskInv' /\ PartsInv' /\ OpInv'
<1> USE DEF MInv
<1>1. /\ at'[c] = q /\ \A d \in Products : d # c => at'[d] = at[d]
      /\ at[c] \notin {"none", "left", "done"} /\ q \notin {"none", "done"}
  BY DEF MTypeOK
<1>2. at' \in [Products -> Places]
  BY DEF MTypeOK
<1>3. \A d \in Products : at'[d] = "none" <=> at[d] = "none"
  BY <1>1
<1>4. ProgramInv'
  BY <1>1, <1>3, PartFacts DEF ProgramInv
<1>5. PlaceInv'
  <2>1. ASSUME NEW d \in Products
        PROVE  /\ at'[d] \in {"none", "queued", "enter"} => step[d] = <<1, 1>>
               /\ at'[d] \in {"spawn", "called", "wait"} => Splits(d)
               /\ at'[d] \in {"load", "store"} => ~ Splits(d)
               /\ at'[d] = "called" => step[d][2] = InPlace
               /\ at'[d] = "wait" => step[d][2] # InPlace
               /\ ~ IsSpawned(d) => at'[d] \notin {"queued", "done"}
    BY <1>1 DEF PlaceInv, Divides
  <2>2. \A d : (Splits(d)' <=> Splits(d)) /\ (IsSpawned(d)' <=> IsSpawned(d))
    BY DEF Splits, Dim, IsSpawned
  <2>. QED
    BY <2>1, <2>2 DEF PlaceInv, Divides
<1>6. TaskInv'
  <2>1. \A d \in Products : at'[d] \notin {"none", "done"} => at[d] \notin {"none", "done"}
    BY <1>1
  <2>. QED
    BY <2>1 DEF TaskInv, IsSpawned, Handle
<1>7. PartsInv'
  <2>1. ASSUME NEW d \in Parts, Front(d) = c
        PROVE  /\ at'[d] # "none" <=> Begun(c, Last(d))'
               /\ Over(c, Last(d))' => at'[d] = Final(d)
    <3>1. d \in Products /\ d # c /\ Last(d)[1] \in {1, 2} /\ Last(d)[2] \in Quadrants
      BY <2>1, PartFacts, LabelFacts
    <3>2. ~ Begun(c, Last(d))
      BY <1>1 DEF Begun
    <3>3. at'[d] = "none"
      BY <1>1, <2>1, <3>1, <3>2 DEF PartsInv
    <3>4. Splits(c)' <=> Splits(c)
      BY DEF Splits, Dim
    <3>5. ~ Begun(c, Last(d))' /\ ~ Over(c, Last(d))'
      <4>1. CASE q \in {"enter", "load", "store"}
        BY <1>1, <4>1 DEF Begun, Over
      <4>2. CASE q = "spawn"
        <5>1. step'[c] = <<1, 1>>
          BY <4>2 DEF PlaceInv
        <5>2. ~ (Last(d)[1] < 1) /\ ~ (Last(d)[2] < 1)
          BY <3>1 DEF Quadrants
        <5>. QED
          BY <1>1, <4>2, <5>1, <5>2 DEF Begun, Over
      <4>3. CASE q = "left"
        <5>1. ~ Splits(c)
          BY <4>3 DEF PlaceInv
        <5>. QED
          BY <1>1, <3>4, <4>3, <5>1 DEF Begun, Over
      <4>. QED
        BY <4>1, <4>2, <4>3
    <3>. QED
      BY <3>3, <3>5
  <2>2. at[c] # "none" /\ at[c] # Final(c) /\ at'[c] # "none"
    BY <1>1 DEF Final
  <2>. QED
    BY <1>1, <2>1, <2>2, PartsStep
<1>8. OpInv'
  BY <1>3, SameOps
<1>. QED
  BY <1>2, <1>4, <1>5, <1>6, <1>7, <1>8

\* The call that a call is about to begin, or waits for.
LEMMA ChildOf ==
  ASSUME MInv, NEW c \in Products, Divides(c) \/ (Splits(c) /\ at[c] # "none")
  PROVE  /\ Child(c) \in Parts /\ Child(c) \in Products /\ Front(Child(c)) = c /\ Last(Child(c)) = step[c]
         /\ Child(c) # c /\ Child(c) # <<>> /\ step[c] \in Labels /\ Len(c) < MaxSplits
         /\ Dim(c) \in Nat /\ Dim(Child(c)) \in Nat \ {0} /\ Dim(c) = 2 * Dim(Child(c))
         /\ \A l \in Labels : Append(c, l) \in Parts /\ Dim(Append(c, l)) = Dim(Child(c))
         /\ \A d \in Parts : Front(d) = c => (d = Child(c) <=> Last(d) = step[c])
         /\ functor[c] = OpOf(c) /\ IsOp(functor[c], Dim(c)) /\ size.dim \in Nat \ {0}
<1> DEFINE n == Len(c)
           half == Halving(size)
<1>1. step[c] \in Labels /\ n \in 0 .. MaxSplits /\ MaxSplits \in Nat /\ size \in Sizes
  BY PartFacts DEF MInv, MTypeOK
<1>2. Splits(c) /\ at[c] # "none"
  BY DEF MInv, PlaceInv, Divides
<1>3. /\ size.dim \in Nat \ {0} /\ half[n] \in 1 .. size.dim /\ n < MaxSplits /\ half[n] = 2 * half[n + 1]
      /\ \A k \in 0 .. MaxSplits : half[k] \in 1 .. size.dim
  BY <1>1, <1>2, HalvingFacts DEF Splits, Dim
<1>4. \A l \in Labels : /\ Append(c, l) \in Parts /\ Append(c, l) \in Products
                        /\ Front(Append(c, l)) = c /\ Last(Append(c, l)) = l
                        /\ Append(c, l) # c /\ Append(c, l) # <<>> /\ Len(Append(c, l)) = n + 1
  BY <1>3, PartOf
<1>5. \A l \in Labels : Dim(Append(c, l)) = half[n + 1]
  BY <1>4 DEF Dim
<1>6. half[n + 1] \in Nat \ {0} /\ half[n] \in Nat
  <2>1. n + 1 \in 0 .. MaxSplits
    BY <1>1, <1>3
  <2>2. half[n + 1] \in 1 .. size.dim
    BY <1>3, <2>1
  <2> HIDE DEF half, n
  <2>. QED
    BY <1>3, <2>2
<1>7. functor[c] = OpOf(c) /\ IsOp(functor[c], Dim(c))
  BY <1>2 DEF MInv, OpInv
<1>8. \A d \in Parts : Front(d) = c => (d = Child(c) <=> Last(d) = step[c])
  BY <1>1, <1>4, PartFacts DEF Child
<1>9. Dim(c) = half[n]
  BY DEF Dim
<1> HIDE DEF n, half
<1>. QED
  BY <1>1, <1>3, <1>4, <1>5, <1>6, <1>7, <1>8, <1>9 DEF Child, n

\* The functor of a call that is begun.
LEMMA OpsStep ==
  ASSUME MInv, NEW c \in Products, at[c] = "spawn", size' = size, CallFunctor(c),
         \A d \in Products : d # Child(c) /\ at'[d] # "none" => at[d] # "none",
         at[Child(c)] = "none"
  PROVE  /\ OpInv' /\ functor' = [d \in Products |-> functor'[d]]
         /\ \A d \in Products : d # Child(c) => functor'[d] = functor[d]
         /\ functor'[Child(c)] = OpOf(Child(c))
         /\ \A d \in Products : Front(d) # Child(c) \/ d = <<>> => OpOf(d)' = OpOf(d)
<1> DEFINE k == Child(c)
           op == Functor(functor[c], step[c])
<1>1. /\ k \in Parts /\ k \in Products /\ Front(k) = c /\ Last(k) = step[c] /\ k # c /\ k # <<>>
      /\ step[c] \in Labels /\ Dim(k) \in Nat /\ Dim(c) = 2 * Dim(k) /\ IsOp(functor[c], Dim(c))
      /\ size.dim \in Nat
  BY ChildOf DEF Divides
<1>2. functor' = [functor EXCEPT ![k] = op]
  BY DEF CallFunctor
<1> HIDE DEF k
<1>3. functor'[k] = op /\ \A d \in Products : d # k => functor'[d] = functor[d]
  BY <1>1, <1>2 DEF MInv, MTypeOK
<1>4. functor' = [d \in Products |-> functor'[d]]
  BY <1>2 DEF MInv, MTypeOK
<1>5. IsOp(op, Dim(k))
  BY <1>1, PartIsOp
<1>6. \A d \in Products : Front(d) # k \/ d = <<>> => OpOf(d)' = OpOf(d)
  <2>1. ASSUME NEW d \in Products, Front(d) # k, d # <<>>
        PROVE  OpOf(d)' = OpOf(d)
    <3>1. Front(d) \in Products
      BY <2>1, PartFacts
    <3>2. functor'[Front(d)] = functor[Front(d)]
      BY <1>3, <2>1, <3>1
    <3>. QED
      BY <2>1, <3>2, SameSize DEF OpOf
  <2>2. OpOf(<<>>)' = OpOf(<<>>)
    BY SameSize DEF OpOf
  <2>. QED
    BY <2>1, <2>2
<1>7. op = OpOf(k)
  BY <1>1 DEF OpOf
<1>8. OpInv'
  <2>1. ASSUME NEW d \in Products, at'[d] # "none"
        PROVE  functor'[d] = OpOf(d)' /\ IsOp(functor'[d], Dim(d))
    <3>1. CASE d = k
      <4>1. Front(d) # k
        BY <1>1, <3>1
      <4>. QED
        BY <1>1, <1>3, <1>5, <1>6, <1>7, <3>1, <4>1
    <3>2. CASE d # k
      <4>1. at[d] # "none"
        BY <2>1, <3>2 DEF k
      <4>2. functor[d] = OpOf(d) /\ IsOp(functor[d], Dim(d)) /\ functor'[d] = functor[d]
        BY <1>3, <3>2, <4>1 DEF MInv, OpInv
      <4>3. d = <<>> \/ Front(d) # k
        <5>1. CASE d # <<>>
          <6>1. d \in Parts
            BY <5>1, PartFacts
          <6>2. Begun(Front(d), Last(d))
            BY <4>1, <6>1 DEF MInv, PartsInv
          <6>3. at[Front(d)] # "none"
            BY <6>2 DEF Begun
          <6>. QED
            BY <6>3 DEF k
        <5>. QED
          BY <5>1
      <4>. QED
        BY <1>6, <4>2, <4>3
    <3>. QED
      BY <3>1, <3>2
  <2>2. ASSUME NEW d \in Products, at'[d] # "none"
        PROVE  IsOp(functor[d], Dim(d))'
    <3>1. \A x : IsOp(x, Dim(d))' <=> IsOp(x, Dim(d))
      BY SameSize DEF IsOp, OpAt, Dim
    <3> DEFINE y == functor'[d]
    <3>2. IsOp(y, Dim(d))
      BY <2>1, <2>2
    <3>. QED
      BY <3>2 DEF IsOp, OpAt, Dim
  <2>. QED
    BY <2>1, <2>2 DEF OpInv
<1>. QED
  BY <1>1, <1>3, <1>4, <1>6, <1>7, <1>8 DEF k

\* A call spawns the next of its parts.
LEMMA SpawnStep ==
  ASSUME MInv, NEW c \in Products, Spawn(c)
  PROVE  MInv'
<1> USE DEF MInv
<1> DEFINE k == Child(c)
           s == step[c]
<1>1. /\ at[c] = "spawn" /\ s[2] # InPlace /\ CallFunctor(c)
      /\ task' = [task EXCEPT ![Handle(k)] = "incomplete"]
      /\ at' = [at EXCEPT ![k] = "queued"]
      /\ step' = [step EXCEPT ![c][2] = @ + 1]
      /\ UNCHANGED <<size, program, global_tmanager, cells, loaded>>
  BY DEF Spawn, GlobalSpawn
<1>2. /\ k \in Parts /\ k \in Products /\ Front(k) = c /\ Last(k) = s /\ k # c /\ k # <<>>
      /\ s \in Labels /\ \A d \in Parts : Front(d) = c => (d = k <=> Last(d) = s)
  BY <1>1, ChildOf DEF Divides
<1> HIDE DEF k
<1>3. s[1] \in {1, 2} /\ s[2] \in 1 .. 3 /\ s = <<s[1], s[2]>> /\ IsSpawned(k)
  BY SMTT(30), <1>1, <1>2, PartFacts DEF Labels, Quadrants, InPlace
<1>4. /\ step'[c] = <<s[1], s[2] + 1>> /\ \A d \in Products : d # c => step'[d] = step[d]
      /\ step' \in [Products -> Labels]
  <2>1. [s EXCEPT ![2] = @ + 1] = <<s[1], s[2] + 1>> /\ <<s[1], s[2] + 1>> \in Labels
    BY <1>2, <1>3 DEF Labels, Quadrants
  <2>. QED
    BY <1>1, <2>1 DEF MTypeOK
<1>5. at'[k] = "queued" /\ \A d \in Products : d # k => at'[d] = at[d]
  BY <1>1, <1>2 DEF MTypeOK
<1>6. at[k] = "none"
  <2>1. ~ Begun(c, s)
    BY <1>1, <1>3 DEF Begun
  <2>. QED
    BY <1>2, <2>1 DEF PartsInv
<1>7. OpInv' /\ functor' = [d \in Products |-> functor'[d]]
  BY <1>1, <1>5, <1>6, OpsStep DEF k
<1>8. MTypeOK'
  <2>1. at' \in [Products -> Places]
    BY <1>1 DEF MTypeOK, Places
  <2>2. task' \in [TaskHandles -> {"inactive", "incomplete", "complete"}]
    BY <1>1 DEF MTypeOK
  <2>. QED
    BY <1>1, <1>4, <1>7, <2>1, <2>2 DEF MTypeOK
<1>9. ProgramInv'
  BY <1>1, <1>2, <1>5, PartFacts DEF ProgramInv
<1>10. PlaceInv'
  <2>1. ASSUME NEW d \in Products
        PROVE  /\ at'[d] \in {"none", "queued", "enter"} => step'[d] = <<1, 1>>
               /\ at'[d] \in {"spawn", "called", "wait"} => Splits(d)
               /\ at'[d] \in {"load", "store"} => ~ Splits(d)
               /\ at'[d] = "called" => step'[d][2] = InPlace
               /\ at'[d] = "wait" => step'[d][2] # InPlace
               /\ ~ IsSpawned(d) => at'[d] \notin {"queued", "done"}
    <3>1. CASE d = k
      BY <1>2, <1>3, <1>4, <1>5, <1>6, <3>1 DEF PlaceInv
    <3>2. CASE d = c
      BY <1>1, <1>2, <1>5, <3>2 DEF PlaceInv, Divides
    <3>3. CASE d # k /\ d # c
      BY <1>4, <1>5, <3>3 DEF PlaceInv, Divides
    <3>. QED
      BY <3>1, <3>2, <3>3
  <2>. QED
    BY <1>1, <2>1, SameSize DEF PlaceInv, Divides, Splits, Dim
<1>11. TaskInv'
  <2>1. ASSUME NEW d \in Products, IsSpawned(d), at'[d] \notin {"none", "done"}
        PROVE  task'[Handle(d)] = "incomplete"
    <3>1. CASE d = k
      BY <1>1, <1>2, <1>3, <3>1, HandleFacts DEF MTypeOK
    <3>2. CASE d # k
      BY <1>1, <1>5, <2>1, <3>2, HandleFacts DEF MTypeOK, TaskInv
    <3>. QED
      BY <3>1, <3>2
  <2>. QED
    BY <2>1 DEF TaskInv, IsSpawned, Handle
<1>12. PartsInv'
  <2>1. ASSUME NEW d \in Parts, Front(d) = c
        PROVE  /\ at'[d] # "none" <=> Begun(c, Last(d))'
               /\ Over(c, Last(d))' => at'[d] = Final(d)
    <3> DEFINE l == Last(d)
    <3>1. l \in Labels /\ l[1] \in {1, 2} /\ l[2] \in 1 .. 4 /\ d \in Products
          /\ (l = s <=> l[1] = s[1] /\ l[2] = s[2])
      BY <1>2, PartFacts, LabelFacts DEF Quadrants
    <3> HIDE DEF l
    <3>2. Begun(c, l)' <=> (Begun(c, l) \/ (l[1] = s[1] /\ l[2] = s[2]))
      <4>1. l[2] < s[2] + 1 <=> l[2] < s[2] \/ l[2] = s[2]
        BY <1>3, <3>1
      <4>2. at'[c] = "spawn" /\ step'[c][1] = s[1] /\ step'[c][2] = s[2] + 1
        BY <1>1, <1>2, <1>4, <1>5
      <4>. QED
        BY <1>1, <4>1, <4>2 DEF Begun
    <3>3. Over(c, l)' <=> Over(c, l)
      <4>1. at'[c] = "spawn" /\ step'[c][1] = s[1]
        BY <1>1, <1>2, <1>4, <1>5
      <4>. QED
        BY <1>1, <4>1 DEF Over
    <3>4. /\ at[d] # "none" <=> Begun(c, l)
          /\ Over(c, l) => at[d] = Final(d)
      BY <2>1 DEF PartsInv, l
    <3>5. d = k <=> l = s
      BY <1>2, <2>1 DEF l
    <3>6. ~ Over(c, s)
      BY <1>1, <1>3 DEF Over
    <3>7. CASE d = k
      BY <1>5, <3>1, <3>2, <3>3, <3>5, <3>6, <3>7 DEF l
    <3>8. CASE d # k
      <4>1. at'[d] = at[d]
        BY <1>5, <3>1, <3>8
      <4>. QED
        BY <3>1, <3>2, <3>3, <3>4, <3>5, <3>8, <4>1 DEF l
    <3>. QED
      BY <3>7, <3>8
  <2>2. at[c] # "none" /\ at[c] # Final(c) /\ at'[c] # "none"
    BY <1>1, <1>2, <1>5 DEF Final
  <2>. QED
    BY <1>1, <1>2, <1>4, <1>5, <1>6, <2>1, <2>2, PartsStep
<1>. QED
  BY <1>7, <1>8, <1>9, <1>10, <1>11, <1>12

\* A call calls the last part of a batch in place.
LEMMA CallInlineStep ==
  ASSUME MInv, NEW c \in Products, CallInline(c)
  PROVE  MInv'
<1> USE DEF MInv
<1> DEFINE k == Child(c)
           s == step[c]
<1>1. /\ at[c] = "spawn" /\ s[2] = InPlace /\ CallFunctor(c)
      /\ at' = [at EXCEPT ![c] = "called", ![k] = "enter"]
      /\ UNCHANGED <<size, program, global_tmanager, step, task, cells, loaded>>
  BY DEF CallInline
<1>2. /\ k \in Parts /\ k \in Products /\ Front(k) = c /\ Last(k) = s /\ k # c /\ k # <<>>
      /\ s \in Labels /\ \A d \in Parts : Front(d) = c => (d = k <=> Last(d) = s)
  BY <1>1, ChildOf DEF Divides
<1> HIDE DEF k
<1>3. s[1] \in {1, 2} /\ s[2] = 4 /\ ~ IsSpawned(k)
  BY <1>1, <1>2, PartFacts DEF Labels, Quadrants, InPlace
<1>5. /\ at'[k] = "enter" /\ at'[c] = "called" /\ \A d \in Products : d # k /\ d # c => at'[d] = at[d]
      /\ at' \in [Products -> Places]
  BY <1>1, <1>2 DEF MTypeOK, Places
<1>6. at[k] = "none"
  <2>1. ~ Begun(c, s)
    BY <1>1, <1>3 DEF Begun
  <2>. QED
    BY <1>2, <2>1 DEF PartsInv
<1>7. OpInv' /\ functor' = [d \in Products |-> functor'[d]]
  <2>1. \A d \in Products : d # k /\ at'[d] # "none" => at[d] # "none"
    BY <1>1, <1>5
  <2>. QED
    BY <1>1, <1>6, <2>1, OpsStep DEF k
<1>8. MTypeOK'
  BY <1>1, <1>5, <1>7 DEF MTypeOK
<1>9. ProgramInv'
  <2>1. (at'[<<>>] = "none" <=> at[<<>>] = "none") /\ (at[<<>>] = "done" => at'[<<>>] = "done")
    BY <1>1, <1>2, <1>5, PartFacts
  <2>. QED
    BY <1>1, <2>1 DEF ProgramInv
<1>10. PlaceInv'
  <2>1. ASSUME NEW d \in Products
        PROVE  /\ at'[d] \in {"none", "queued", "enter"} => step[d] = <<1, 1>>
               /\ at'[d] \in {"spawn", "called", "wait"} => Splits(d)
               /\ at'[d] \in {"load", "store"} => ~ Splits(d)
               /\ at'[d] = "called" => step[d][2] = InPlace
               /\ at'[d] = "wait" => step[d][2] # InPlace
               /\ ~ IsSpawned(d) => at'[d] \notin {"queued", "done"}
    <3>1. CASE d = k
      BY <1>2, <1>5, <1>6, <3>1 DEF PlaceInv
    <3>2. CASE d = c
      BY <1>1, <1>2, <1>5, <3>2 DEF PlaceInv, Divides
    <3>3. CASE d # k /\ d # c
      BY <1>5, <3>3 DEF PlaceInv, Divides
    <3>. QED
      BY <3>1, <3>2, <3>3
  <2>. QED
    BY <1>1, <2>1, SameSize DEF PlaceInv, Divides, Splits, Dim
<1>11. TaskInv'
  <2>1. ASSUME NEW d \in Products, IsSpawned(d), at'[d] \notin {"none", "done"}
        PROVE  task[Handle(d)] = "incomplete"
    <3>1. d # k
      BY <1>3, <2>1
    <3>2. at[d] \notin {"none", "done"}
      BY <1>1, <1>5, <2>1, <3>1
    <3>. QED
      BY <2>1, <3>2 DEF TaskInv
  <2>. QED
    BY <1>1, <2>1 DEF TaskInv, IsSpawned, Handle
<1>12. PartsInv'
  <2>1. ASSUME NEW d \in Parts, Front(d) = c
        PROVE  /\ at'[d] # "none" <=> Begun(c, Last(d))'
               /\ Over(c, Last(d))' => at'[d] = Final(d)
    <3> DEFINE l == Last(d)
    <3>1. l \in Labels /\ l[1] \in {1, 2} /\ l[2] \in 1 .. 4 /\ d \in Products /\ d # c
          /\ (l = s <=> l[1] = s[1] /\ l[2] = s[2])
      BY <1>2, <2>1, PartFacts, LabelFacts DEF Quadrants
    <3> HIDE DEF l
    <3>2. Begun(c, l)' <=> (Begun(c, l) \/ (l[1] = s[1] /\ l[2] = s[2]))
      <4>1. (l[1] <= s[1] <=> l[1] < s[1] \/ l[1] = s[1]) /\ (l[2] < s[2] \/ l[2] = s[2])
        BY <1>3, <3>1
      <4>. QED
        BY <1>1, <1>5, <4>1 DEF Begun
    <3>3. Over(c, l)' <=> Over(c, l)
      BY <1>1, <1>5 DEF Over
    <3>4. /\ at[d] # "none" <=> Begun(c, l)
          /\ Over(c, l) => at[d] = Final(d)
      BY <2>1 DEF PartsInv, l
    <3>5. d = k <=> l = s
      BY <1>2, <2>1 DEF l
    <3>6. ~ Over(c, s)
      BY <1>1, <1>3 DEF Over
    <3>7. CASE d = k
      BY <1>5, <3>1, <3>2, <3>3, <3>5, <3>6, <3>7 DEF l
    <3>8. CASE d # k
      <4>1. at'[d] = at[d]
        BY <1>5, <3>1, <3>8
      <4>. QED
        BY <3>1, <3>2, <3>3, <3>4, <3>5, <3>8, <4>1 DEF l
    <3>. QED
      BY <3>7, <3>8
  <2>2. at[c] # "none" /\ at[c] # Final(c) /\ at'[c] # "none"
    BY <1>1, <1>5 DEF Final
  <2>. QED
    BY ZenonT(30), <1>1, <1>2, <1>5, <1>6, <2>1, <2>2, PartsStep
<1>. QED
  BY <1>7, <1>8, <1>9, <1>10, <1>11, <1>12

\* The call in place has returned.
LEMMA ReturnedStep ==
  ASSUME MInv, NEW c \in Products, Returned(c)
  PROVE  MInv'
<1> USE DEF MInv
<1> DEFINE k == Child(c)
           s == step[c]
<1>1. /\ at[c] = "called" /\ at[k] = "left"
      /\ at' = [at EXCEPT ![c] = "wait"] /\ step' = [step EXCEPT ![c][2] = 1]
      /\ UNCHANGED <<size, program, global_tmanager, functor, task, cells, loaded>>
  BY DEF Returned
<1>2. /\ k \in Parts /\ k \in Products /\ Front(k) = c /\ Last(k) = s /\ k # c /\ k # <<>>
      /\ s \in Labels /\ \A d \in Parts : Front(d) = c => (d = k <=> Last(d) = s)
  BY <1>1, ChildOf DEF Divides
<1> HIDE DEF k
<1>3. s[1] \in {1, 2} /\ s[2] = 4 /\ ~ IsSpawned(k)
  BY <1>1, <1>2, PartFacts DEF Labels, PlaceInv, InPlace
<1>4. /\ step'[c] = <<s[1], 1>> /\ \A d \in Products : d # c => step'[d] = step[d]
      /\ step' \in [Products -> Labels]
  <2>1. [s EXCEPT ![2] = 1] = <<s[1], 1>> /\ <<s[1], 1>> \in Labels
    BY <1>2, <1>3 DEF Labels, Quadrants
  <2>. QED
    BY <1>1, <2>1 DEF MTypeOK
<1>5. /\ at'[c] = "wait" /\ \A d \in Products : d # c => at'[d] = at[d]
      /\ at' \in [Products -> Places]
  BY <1>1 DEF MTypeOK, Places
<1>6. \A d \in Products : at'[d] = "none" <=> at[d] = "none"
  BY <1>1, <1>5
<1>7. MTypeOK'
  BY <1>1, <1>4, <1>5 DEF MTypeOK
<1>8. ProgramInv'
  <2>1. at[<<>>] = "done" => at'[<<>>] = "done"
    BY <1>1, <1>5, PartFacts
  <2>. QED
    BY <1>1, <1>6, <2>1, PartFacts DEF ProgramInv
<1>9. PlaceInv'
  <2>1. ASSUME NEW d \in Products
        PROVE  /\ at'[d] \in {"none", "queued", "enter"} => step'[d] = <<1, 1>>
               /\ at'[d] \in {"spawn", "called", "wait"} => Splits(d)
               /\ at'[d] \in {"load", "store"} => ~ Splits(d)
               /\ at'[d] = "called" => step'[d][2] = InPlace
               /\ at'[d] = "wait" => step'[d][2] # InPlace
               /\ ~ IsSpawned(d) => at'[d] \notin {"queued", "done"}
    <3>1. CASE d = c
      BY <1>1, <1>4, <1>5, <3>1 DEF PlaceInv, Divides, InPlace
    <3>2. CASE d # c
      BY <1>4, <1>5, <3>2 DEF PlaceInv, Divides
    <3>. QED
      BY <3>1, <3>2
  <2>. QED
    BY <1>1, <2>1, SameSize DEF PlaceInv, Divides, Splits, Dim
<1>10. TaskInv'
  <2>1. \A d \in Products : at'[d] \notin {"none", "done"} => at[d] \notin {"none", "done"}
    BY <1>1, <1>5
  <2>. QED
    BY <1>1, <2>1 DEF TaskInv, IsSpawned, Handle
<1>11. PartsInv'
  <2>1. ASSUME NEW d \in Parts, Front(d) = c
        PROVE  /\ at'[d] # "none" <=> Begun(c, Last(d))'
               /\ Over(c, Last(d))' => at'[d] = Final(d)
    <3> DEFINE l == Last(d)
    <3>1. l \in Labels /\ l[1] \in {1, 2} /\ l[2] \in 1 .. 4 /\ d \in Products /\ d # c
          /\ (l = s <=> l[1] = s[1] /\ l[2] = s[2])
      BY <1>2, <2>1, PartFacts, LabelFacts DEF Quadrants
    <3> HIDE DEF l
    <3>2. Begun(c, l)' <=> Begun(c, l)
      BY <1>1, <1>4, <1>5 DEF Begun
    <3>3. Over(c, l)' <=> Over(c, l) \/ l = s
      <4>1. ~ (l[2] < 1)
        BY <3>1
      <4>. QED
        BY <1>1, <1>3, <1>4, <1>5, <3>1, <4>1 DEF Over, InPlace
    <3>4. /\ at[d] # "none" <=> Begun(c, l)
          /\ Over(c, l) => at[d] = Final(d)
      BY <2>1 DEF PartsInv, l
    <3>5. l = s => at[d] = Final(d)
      BY <1>1, <1>2, <1>3, <2>1 DEF Final, l
    <3>. QED
      BY <1>5, <3>1, <3>2, <3>3, <3>4, <3>5 DEF l
  <2>2. at[c] # "none" /\ at[c] # Final(c) /\ at'[c] # "none"
    BY <1>1, <1>5 DEF Final
  <2>. QED
    BY <1>1, <1>4, <1>5, <2>1, <2>2, PartsStep
<1>12. OpInv'
  BY <1>1, <1>6, SameOps
<1>. QED
  BY <1>7, <1>8, <1>9, <1>10, <1>11, <1>12

\* The other task of a handle is done or not begun.
LEMMA SharedHandle ==
  ASSUME MInv, NEW d \in Products, NEW e \in Products, IsSpawned(d), IsSpawned(e), Handle(d) = Handle(e), d # e
  PROVE  /\ d \in Parts /\ e \in Parts /\ Front(d) = Front(e)
         /\ Last(d)[2] = Last(e)[2] /\ Last(d)[1] # Last(e)[1]
         /\ Last(d)[1] < Last(e)[1] /\ at[e] # "none" => at[d] = "done"
<1>1. d \in Parts /\ e \in Parts
  BY HandleFacts, PartFacts
<1>2. Front(d) = Front(e) /\ Last(d)[2] = Last(e)[2]
  BY <1>1, HandleFacts
<1>3. Last(d)[1] # Last(e)[1]
  <2>1. Last(d) \in Labels /\ Last(e) \in Labels /\ d = Append(Front(d), Last(d)) /\ e = Append(Front(e), Last(e))
    BY <1>1, PartFacts
  <2>2. Last(d) # Last(e)
    BY <1>2, <2>1
  <2>. QED
    BY <1>2, <2>1, <2>2, LabelFacts
<1>4. Last(d)[1] < Last(e)[1] /\ at[e] # "none" => at[d] = "done"
  BY <1>1, <1>2, OneAfterTheOther DEF Final
<1>. QED
  BY <1>1, <1>2, <1>3, <1>4

\* A worker notifies the end of a call.
LEMMA NotifyTaskStep ==
  ASSUME MInv, NEW c \in Products, NotifyTask(c)
  PROVE  MInv'
<1> USE DEF MInv
<1>1. /\ IsSpawned(c) /\ at[c] = "left"
      /\ at' = [at EXCEPT ![c] = "done"] /\ task' = [task EXCEPT ![Handle(c)] = "complete"]
      /\ UNCHANGED <<size, program, global_tmanager, step, functor, cells, loaded>>
  BY DEF NotifyTask
<1>2. /\ at'[c] = "done" /\ \A d \in Products : d # c => at'[d] = at[d]
      /\ at' \in [Products -> Places]
  BY <1>1 DEF MTypeOK, Places
<1>3. \A d \in Products : at'[d] = "none" <=> at[d] = "none"
  BY <1>1, <1>2
<1>4. MTypeOK'
  BY <1>1, <1>2 DEF MTypeOK
<1>5. ProgramInv'
  <2>1. at[<<>>] = "done" => at'[<<>>] = "done"
    BY <1>1, <1>2, PartFacts
  <2>. QED
    BY <1>1, <1>3, <2>1, PartFacts DEF ProgramInv
<1>6. PlaceInv'
  <2>1. ASSUME NEW d \in Products
        PROVE  /\ at'[d] \in {"none", "queued", "enter"} => step[d] = <<1, 1>>
               /\ at'[d] \in {"spawn", "called", "wait"} => Splits(d)
               /\ at'[d] \in {"load", "store"} => ~ Splits(d)
               /\ at'[d] = "called" => step[d][2] = InPlace
               /\ at'[d] = "wait" => step[d][2] # InPlace
               /\ ~ IsSpawned(d) => at'[d] \notin {"queued", "done"}
    BY <1>1, <1>2 DEF PlaceInv, Divides
  <2>. QED
    BY <1>1, <2>1, SameSize DEF PlaceInv, Divides, Splits, Dim
<1>7. TaskInv'
  <2>1. ASSUME NEW d \in Products, IsSpawned(d), at'[d] \notin {"none", "done"}
        PROVE  task'[Handle(d)] = "incomplete"
    <3>1. d # c /\ at[d] \notin {"none", "done"}
      BY <1>2, <2>1
    <3>2. Handle(d) # Handle(c)
      <4>1. ASSUME Handle(d) = Handle(c)
            PROVE  FALSE
        <5>1. d \in Parts /\ c \in Parts /\ Last(d)[1] # Last(c)[1]
          BY <1>1, <2>1, <3>1, <4>1, SharedHandle
        <5>2. ~ (Last(d)[1] < Last(c)[1]) /\ ~ (Last(c)[1] < Last(d)[1])
          BY <1>1, <2>1, <3>1, <4>1, SharedHandle
        <5>3. Last(d)[1] \in {1, 2} /\ Last(c)[1] \in {1, 2}
          BY <5>1, PartFacts, LabelFacts
        <5>. QED
          BY <5>1, <5>2, <5>3
      <4>. QED
        BY <4>1
    <3>3. Handle(d) \in TaskHandles
      BY <2>1, HandleFacts
    <3>. QED
      BY <1>1, <2>1, <3>1, <3>2, <3>3 DEF MTypeOK, TaskInv
  <2>. QED
    BY <2>1 DEF TaskInv, IsSpawned, Handle
<1>8. PartsInv'
  <2>1. ASSUME NEW d \in Parts, Front(d) = c
        PROVE  /\ at'[d] # "none" <=> Begun(c, Last(d))'
               /\ Over(c, Last(d))' => at'[d] = Final(d)
    <3>1. d \in Products /\ d # c
      BY <2>1, PartFacts
    <3>2. (Begun(c, Last(d))' <=> Begun(c, Last(d))) /\ (Over(c, Last(d))' <=> Over(c, Last(d)))
      BY <1>1, <1>2, SameSize DEF Begun, Over
    <3>. QED
      BY <1>2, <2>1, <3>1, <3>2 DEF PartsInv
  <2>2. at[c] # "none" /\ at[c] # Final(c) /\ at'[c] # "none"
    BY <1>1, <1>2 DEF Final
  <2>. QED
    BY <1>1, <1>2, <2>1, <2>2, PartsStep
<1>9. OpInv'
  BY <1>1, <1>3, SameOps
<1>. QED
  BY <1>4, <1>5, <1>6, <1>7, <1>8, <1>9

\* What a wait that returns has seen: the end of the task it is for.
LEMMA WaitPasses ==
  ASSUME MInv, NEW c \in Products, at[c] = "wait", task[Handle(Child(c))] # "incomplete"
  PROVE  /\ IsSpawned(Child(c)) /\ at[Child(c)] = "done"
         /\ step[c][1] \in {1, 2} /\ step[c][2] \in 1 .. 3
         /\ \A d \in Parts : Front(d) = c /\ (Over(c, Last(d)) \/ Last(d) = step[c]) => at[d] = Final(d)
<1> USE DEF MInv
<1> DEFINE k == Child(c)
           s == step[c]
<1>1. /\ k \in Parts /\ k \in Products /\ Front(k) = c /\ Last(k) = s
      /\ s \in Labels /\ \A d \in Parts : Front(d) = c => (d = k <=> Last(d) = s)
  BY ChildOf DEF Divides
<1> HIDE DEF k
<1>2. s[1] \in {1, 2} /\ s[2] \in 1 .. 3 /\ IsSpawned(k)
  BY <1>1, PartFacts DEF Labels, Quadrants, InPlace, PlaceInv
<1>3. at[k] # "none"
  <2>1. Begun(c, s)
    BY <1>2 DEF Begun
  <2>. QED
    BY <1>1, <2>1 DEF PartsInv
<1>4. at[k] = "done"
  BY <1>1, <1>2, <1>3 DEF TaskInv, k
<1>. QED
  BY <1>1, <1>2, <1>4 DEF k, PartsInv, Final

\* A call waits for the next of its parts.
LEMMA WaitStep ==
  ASSUME MInv, NEW c \in Products, Wait(c)
  PROVE  MInv'
<1> USE DEF MInv
<1> DEFINE k == Child(c)
           s == step[c]
<1>1. /\ at[c] = "wait" /\ task[Handle(k)] # "incomplete"
      /\ task' = [task EXCEPT ![Handle(k)] = "inactive"]
      /\ UNCHANGED <<size, program, global_tmanager, functor, cells, loaded>>
  BY DEF Wait, GlobalWait
<1>2. /\ k \in Parts /\ k \in Products /\ Front(k) = c /\ Last(k) = s /\ k # c /\ k # <<>>
      /\ s \in Labels /\ \A d \in Parts : Front(d) = c => (d = k <=> Last(d) = s)
  BY <1>1, ChildOf DEF Divides
<1>3. s[1] \in {1, 2} /\ s[2] \in 1 .. 3 /\ IsSpawned(k) /\ at[k] = "done" /\ Splits(c)
  BY <1>1, WaitPasses DEF PlaceInv, Divides
<1>4. \/ s[2] < 3 /\ at' = at /\ step' = [step EXCEPT ![c][2] = @ + 1]
      \/ s[1] = 1 /\ s[2] = 3 /\ at' = [at EXCEPT ![c] = "spawn"] /\ step' = [step EXCEPT ![c] = <<2, 1>>]
      \/ s[1] = 2 /\ s[2] = 3 /\ at' = [at EXCEPT ![c] = "left"] /\ step' = step
  BY DEF Wait
<1> HIDE DEF k
<1>5. /\ at'[c] \in {"wait", "spawn", "left"} /\ \A d \in Products : d # c => at'[d] = at[d]
      /\ at' \in [Products -> Places]
      /\ step' \in [Products -> Labels] /\ \A d \in Products : d # c => step'[d] = step[d]
      /\ \/ s[2] < 3 /\ at'[c] = "wait" /\ step'[c] = <<s[1], s[2] + 1>>
         \/ s[1] = 1 /\ s[2] = 3 /\ at'[c] = "spawn" /\ step'[c] = <<2, 1>>
         \/ s[1] = 2 /\ s[2] = 3 /\ at'[c] = "left" /\ step'[c] = s
  <2>1. CASE s[2] < 3 /\ at' = at /\ step' = [step EXCEPT ![c][2] = @ + 1]
    <3>1. [s EXCEPT ![2] = @ + 1] = <<s[1], s[2] + 1>> /\ <<s[1], s[2] + 1>> \in Labels
      BY <1>2, <1>3 DEF Labels, Quadrants
    <3>. QED
      BY <1>1, <2>1, <3>1 DEF MTypeOK
  <2>2. CASE s[1] = 1 /\ s[2] = 3 /\ at' = [at EXCEPT ![c] = "spawn"] /\ step' = [step EXCEPT ![c] = <<2, 1>>]
    <3>1. <<2, 1>> \in Labels
      BY DEF Labels, Quadrants
    <3>. QED
      BY <2>2, <3>1 DEF MTypeOK, Places
  <2>3. CASE s[1] = 2 /\ s[2] = 3 /\ at' = [at EXCEPT ![c] = "left"] /\ step' = step
    BY <2>3 DEF MTypeOK, Places
  <2>. QED
    BY <1>4, <2>1, <2>2, <2>3
<1>6. \A d \in Products : at'[d] = "none" <=> at[d] = "none"
  BY <1>1, <1>5
<1>7. MTypeOK'
  <2>1. task' \in [TaskHandles -> {"inactive", "incomplete", "complete"}]
    BY <1>1 DEF MTypeOK
  <2>. QED
    BY <1>1, <1>5, <2>1 DEF MTypeOK
<1>8. ProgramInv'
  <2>1. at[<<>>] = "done" => at'[<<>>] = "done"
    BY <1>1, <1>5, PartFacts
  <2>. QED
    BY <1>1, <1>6, <2>1, PartFacts DEF ProgramInv
<1>9. PlaceInv'
  <2>1. ASSUME NEW d \in Products
        PROVE  /\ at'[d] \in {"none", "queued", "enter"} => step'[d] = <<1, 1>>
               /\ at'[d] \in {"spawn", "called", "wait"} => Splits(d)
               /\ at'[d] \in {"load", "store"} => ~ Splits(d)
               /\ at'[d] = "called" => step'[d][2] = InPlace
               /\ at'[d] = "wait" => step'[d][2] # InPlace
               /\ ~ IsSpawned(d) => at'[d] \notin {"queued", "done"}
    <3>1. CASE d = c
      <4>1. at'[c] = "wait" => step'[c][2] # InPlace
        BY <1>3, <1>5 DEF InPlace
      <4>. QED
        BY <1>3, <1>5, <3>1, <4>1
    <3>2. CASE d # c
      BY <1>5, <3>2 DEF PlaceInv, Divides
    <3>. QED
      BY <3>1, <3>2
  <2>. QED
    BY <1>1, <2>1, SameSize DEF PlaceInv, Divides, Splits, Dim
<1>10. TaskInv'
  <2>1. ASSUME NEW d \in Products, IsSpawned(d), at'[d] \notin {"none", "done"}
        PROVE  task'[Handle(d)] = "incomplete"
    <3>1. at[d] \notin {"none", "done"} /\ d # k
      BY <1>1, <1>2, <1>3, <1>5, <2>1
    <3>2. Handle(d) # Handle(k)
      <4>1. ASSUME Handle(d) = Handle(k)
            PROVE  FALSE
        <5>1. d \in Parts /\ Front(d) = c /\ Last(d)[1] # s[1] /\ ~ (Last(d)[1] < s[1])
          BY <1>2, <1>3, <2>1, <3>1, <4>1, SharedHandle
        <5>2. Last(d)[1] \in {1, 2}
          BY <5>1, PartFacts, LabelFacts
        <5>3. ~ (Last(d)[1] <= s[1])
          BY <1>3, <5>1, <5>2
        <5>4. ~ Begun(c, Last(d))
          BY <1>1, <5>3 DEF Begun
        <5>. QED
          BY <3>1, <5>1, <5>4 DEF PartsInv
      <4>. QED
        BY <4>1
    <3>3. Handle(d) \in TaskHandles
      BY <2>1, HandleFacts
    <3>. QED
      BY <1>1, <2>1, <3>1, <3>2, <3>3 DEF MTypeOK, TaskInv
  <2>. QED
    BY <2>1 DEF TaskInv, IsSpawned, Handle
<1>11. PartsInv'
  <2>1. ASSUME NEW d \in Parts, Front(d) = c
        PROVE  /\ at'[d] # "none" <=> Begun(c, Last(d))'
               /\ Over(c, Last(d))' => at'[d] = Final(d)
    <3> DEFINE l == Last(d)
    <3>1. l \in Labels /\ l[1] \in {1, 2} /\ l[2] \in 1 .. 4 /\ d \in Products /\ d # c
          /\ (l = s <=> l[1] = s[1] /\ l[2] = s[2])
      BY <1>2, <2>1, PartFacts, LabelFacts DEF Quadrants
    <3>2. /\ at[d] # "none" <=> Begun(c, l)
          /\ Over(c, l) \/ l = s => at[d] = Final(d)
      BY <1>1, <2>1, WaitPasses DEF PartsInv, k
    <3> HIDE DEF l
    <3>3. Begun(c, l)' <=> Begun(c, l)
      <4>1. CASE s[2] < 3 /\ at'[c] = "wait" /\ step'[c] = <<s[1], s[2] + 1>>
        BY <1>1, <4>1 DEF Begun
      <4>2. CASE s[1] = 1 /\ s[2] = 3 /\ at'[c] = "spawn" /\ step'[c] = <<2, 1>>
        <5>1. l[1] <= 1 <=> (l[1] < 2 \/ (l[1] = 2 /\ l[2] < 1))
          BY <3>1
        <5>. QED
          BY <1>1, <4>2, <5>1 DEF Begun
      <4>3. CASE s[1] = 2 /\ s[2] = 3 /\ at'[c] = "left" /\ step'[c] = s
        <5>1. l[1] <= 2
          BY <3>1
        <5>2. Splits(c)'
          BY <1>1, <1>3, SameSize
        <5>. QED
          BY <1>1, <4>3, <5>1, <5>2 DEF Begun
      <4>. QED
        BY <1>5, <4>1, <4>2, <4>3
    <3>4. Over(c, l)' => Over(c, l) \/ l = s
      <4>1. CASE s[2] < 3 /\ at'[c] = "wait" /\ step'[c] = <<s[1], s[2] + 1>>
        <5>1. l[2] < s[2] + 1 <=> l[2] < s[2] \/ l[2] = s[2]
          BY <1>3, <3>1
        <5>. QED
          BY <1>1, <3>1, <4>1, <5>1 DEF Over
      <4>2. CASE s[1] = 1 /\ s[2] = 3 /\ at'[c] = "spawn" /\ step'[c] = <<2, 1>>
        <5>1. l[1] < 2 => l[1] = 1 /\ (l[2] = 4 \/ l[2] < 3 \/ l[2] = 3)
          BY <3>1
        <5>. QED
          BY <1>1, <3>1, <4>2, <5>1 DEF Over, InPlace
      <4>3. CASE s[1] = 2 /\ s[2] = 3 /\ at'[c] = "left" /\ step'[c] = s
        <5>1. (l[1] < 2 \/ l[1] = 2) /\ (l[2] = 4 \/ l[2] < 3 \/ l[2] = 3)
          BY <3>1
        <5>. QED
          BY <1>1, <3>1, <4>3, <5>1 DEF Over, InPlace
      <4>. QED
        BY <1>5, <4>1, <4>2, <4>3
    <3>. QED
      BY <1>5, <3>1, <3>2, <3>3, <3>4 DEF l
  <2>2. at[c] # "none" /\ at[c] # Final(c) /\ at'[c] # "none"
    BY <1>1, <1>5 DEF Final
  <2>. QED
    BY <1>1, <1>5, <2>1, <2>2, PartsStep
<1>12. OpInv'
  BY <1>1, <1>6, SameOps
<1>. QED
  BY <1>7, <1>8, <1>9, <1>10, <1>11, <1>12

\* A call is taken, enters, loads or stores.
LEMMA MoveSteps ==
  ASSUME MInv, NEW c \in Products, TakeTask(c) \/ Enter(c) \/ Load(c) \/ Store(c)
  PROVE  MInv'
<1> USE DEF MInv
<1>1. UNCHANGED <<size, program, global_tmanager, step, functor, task>>
  BY DEF TakeTask, Enter, Load, Store
<1>2. PICK q \in Places : /\ at' = [at EXCEPT ![c] = q]
                          /\ \/ at[c] = "queued" /\ q = "enter"
                             \/ at[c] = "enter" /\ q = IF Splits(c) THEN "spawn" ELSE "load"
                             \/ at[c] = "load" /\ q = "store"
                             \/ at[c] = "store" /\ q = "left"
  <2>1. CASE TakeTask(c)
    BY <2>1 DEF TakeTask, Places
  <2>2. CASE Enter(c)
    <3>1. at[c] = "enter" /\ at' = [at EXCEPT ![c] = IF functor[c].A.dim <= size.base THEN "load" ELSE "spawn"]
      BY <2>2 DEF Enter
    <3>2. functor[c].A.dim = Dim(c)
      <4>1. IsOp(functor[c], Dim(c))
        BY <3>1 DEF OpInv
      <4>2. PICK r, m, j \in 0 .. size.dim - Dim(c) : functor[c] = OpAt(Dim(c), r, m, j)
        BY <4>1 DEF IsOp
      <4>. QED
        BY <4>2 DEF OpAt, Matrix
    <3>3. Dim(c) <= size.base <=> ~ Splits(c)
      <4>1. Len(c) \in 0 .. MaxSplits /\ size \in Sizes
        BY PartFacts DEF MTypeOK
      <4>2. Dim(c) \in 1 .. size.dim /\ size.base \in Nat /\ size.dim \in Nat
        BY <4>1, HalvingFacts DEF Dim
      <4>. QED
        BY <4>2 DEF Splits
    <3>. QED
      BY <3>1, <3>2, <3>3 DEF Places
  <2>3. CASE Load(c) \/ Store(c)
    BY <2>3 DEF Load, Store, Places
  <2>. QED
    BY <2>1, <2>2, <2>3
<1>3. at' \in [Products -> Places] /\ ProgramInv' /\ PlaceInv' /\ TaskInv' /\ PartsInv' /\ OpInv'
  BY <1>1, <1>2, CallMoves
<1>4. loaded' = [d \in Products |-> loaded'[d]]
  BY DEF TakeTask, Enter, Load, Store, MTypeOK
<1>5. cells' = [e \in 0 .. size.dim * size.dim - 1 |-> cells'[e]]
  <2>1. CASE cells' = cells
    BY <2>1 DEF MTypeOK
  <2>2. CASE Store(c)
    <3>1. DOMAIN cells = 0 .. size.dim * size.dim - 1
      BY DEF MTypeOK
    <3>. QED
      BY <2>2, <3>1 DEF Store
  <2>. QED
    BY <2>1, <2>2 DEF TakeTask, Enter, Load
<1>6. MTypeOK'
  BY <1>1, <1>3, <1>4, <1>5 DEF MTypeOK
<1>. QED
  BY <1>3, <1>6

\* Main sets up, waits, clears and returns.
LEMMA ProgramSteps ==
  ASSUME MInv, ProgramInit \/ ProgramWait \/ ProgramClear \/ ProgramReturn \/ ProgramJoin
  PROVE  MInv'
<1> USE DEF MInv
<1>1. UNCHANGED <<size, at, step, functor, cells, loaded>>
  BY DEF ProgramInit, ProgramWait, ProgramClear, ProgramReturn, ProgramJoin
<1>2. MTypeOK' /\ ProgramInv'
  <2>1. CASE ProgramWait
    <3>1. task[Handle(<<>>)] # "incomplete" /\ at[<<>>] # "none"
      BY <2>1 DEF ProgramWait, GlobalWait, ProgramInv
    <3>2. at[<<>>] = "done"
      BY <3>1, PartFacts DEF TaskInv
    <3>3. task' \in [TaskHandles -> {"inactive", "incomplete", "complete"}]
      BY <2>1 DEF ProgramWait, GlobalWait, MTypeOK
    <3>. QED
      BY <1>1, <2>1, <3>2, <3>3 DEF ProgramWait, MTypeOK, ProgramInv
  <2>2. CASE ProgramInit
    BY <1>1, <2>2 DEF ProgramInit, SetGlobal, MTypeOK, ProgramInv
  <2>3. CASE ProgramClear
    BY <1>1, <2>3 DEF ProgramClear, ClearGlobal, MTypeOK, ProgramInv
  <2>4. CASE ProgramReturn \/ ProgramJoin
    BY <1>1, <2>4 DEF ProgramReturn, ProgramJoin, MTypeOK, ProgramInv
  <2>. QED
    BY <2>1, <2>2, <2>3, <2>4
<1>3. PlaceInv' /\ PartsInv'
  BY <1>1 DEF PlaceInv, Divides, Splits, Dim, IsSpawned, PartsInv, Begun, Over, Final
<1>4. TaskInv'
  <2>1. CASE task' = task
    BY <1>1, <2>1 DEF TaskInv, IsSpawned, Handle
  <2>2. CASE ProgramWait
    <3>1. task' = [task EXCEPT ![Handle(<<>>)] = "inactive"] /\ task[Handle(<<>>)] # "incomplete"
      BY <2>2 DEF ProgramWait, GlobalWait
    <3>2. ASSUME NEW c \in Products, IsSpawned(c), at[c] \notin {"none", "done"}
          PROVE  task'[Handle(c)] = "incomplete"
      <4>1. task[Handle(c)] = "incomplete" /\ Handle(c) \in TaskHandles
        BY <3>2, HandleFacts DEF TaskInv
      <4>. QED
        BY <3>1, <4>1 DEF MTypeOK
    <3>. QED
      BY <1>1, <3>2 DEF TaskInv, IsSpawned, Handle
  <2>. QED
    BY <2>1, <2>2 DEF ProgramInit, ProgramClear, ProgramReturn, ProgramJoin
<1>5. OpInv'
  BY <1>1, SameOps
<1>. QED
  BY <1>2, <1>3, <1>4, <1>5

\* Main spawns the first call.
LEMMA ProgramSpawnStep ==
  ASSUME MInv, ProgramSpawn
  PROVE  MInv'
<1> USE DEF MInv
<1> DEFINE op == [A |-> Whole, B |-> Whole, C |-> Whole]
<1>1. /\ program = "spawn" /\ program' = "wait"
      /\ task' = [task EXCEPT ![Handle(<<>>)] = "incomplete"]
      /\ functor' = [functor EXCEPT ![<<>>] = op] /\ at' = [at EXCEPT ![<<>>] = "queued"]
      /\ UNCHANGED <<size, global_tmanager, step, cells, loaded>>
  BY DEF ProgramSpawn, GlobalSpawn
<1>2. <<>> \in Products /\ <<>> \notin Parts /\ IsSpawned(<<>>) /\ at[<<>>] = "none"
  BY <1>1, PartFacts DEF ProgramInv
<1>3. /\ at'[<<>>] = "queued" /\ \A d \in Products : d # <<>> => at'[d] = at[d]
      /\ functor'[<<>>] = op /\ \A d \in Products : d # <<>> => functor'[d] = functor[d]
      /\ at' \in [Products -> Places] /\ functor' = [d \in Products |-> functor'[d]]
      /\ task' \in [TaskHandles -> {"inactive", "incomplete", "complete"}]
  BY <1>1, <1>2 DEF MTypeOK, Places
<1>4. MTypeOK' /\ ProgramInv'
  BY <1>1, <1>3 DEF MTypeOK, ProgramInv
<1>5. PlaceInv'
  <2>1. ASSUME NEW d \in Products
        PROVE  /\ at'[d] \in {"none", "queued", "enter"} => step[d] = <<1, 1>>
               /\ at'[d] \in {"spawn", "called", "wait"} => Splits(d)
               /\ at'[d] \in {"load", "store"} => ~ Splits(d)
               /\ at'[d] = "called" => step[d][2] = InPlace
               /\ at'[d] = "wait" => step[d][2] # InPlace
               /\ ~ IsSpawned(d) => at'[d] \notin {"queued", "done"}
    BY <1>2, <1>3 DEF PlaceInv, Divides
  <2>. QED
    BY <1>1, <2>1, SameSize DEF PlaceInv, Divides, Splits, Dim
<1>6. TaskInv'
  <2>1. ASSUME NEW d \in Products, IsSpawned(d), at'[d] \notin {"none", "done"}
        PROVE  task'[Handle(d)] = "incomplete"
    <3>1. Handle(d) \in TaskHandles
      BY <2>1, HandleFacts
    <3>2. CASE d = <<>>
      BY <1>1, <3>1, <3>2 DEF MTypeOK
    <3>3. CASE d # <<>>
      BY <1>1, <1>3, <2>1, <3>1, <3>3 DEF MTypeOK, TaskInv
    <3>. QED
      BY <3>2, <3>3
  <2>. QED
    BY <2>1 DEF TaskInv, IsSpawned, Handle
<1>7. ASSUME NEW d \in Parts, Front(d) = <<>>
      PROVE  at[d] = "none"
  <2>1. ~ Begun(Front(d), Last(d))
    BY <1>2, <1>7 DEF Begun
  <2>. QED
    BY <2>1 DEF PartsInv
<1>8. PartsInv'
  <2>1. ASSUME NEW d \in Parts
        PROVE  /\ at'[d] # "none" <=> Begun(Front(d), Last(d))'
               /\ Over(Front(d), Last(d))' => at'[d] = Final(d)
    <3>1. d \in Products /\ d # <<>> /\ Front(d) \in Products
      BY PartFacts
    <3>2. CASE Front(d) = <<>>
      <4>1. at'[d] = "none"
        BY <1>3, <1>7, <3>1, <3>2
      <4>2. ~ Begun(<<>>, Last(d))' /\ ~ Over(<<>>, Last(d))'
        BY <1>3 DEF Begun, Over
      <4>. QED
        BY <3>2, <4>1, <4>2
    <3>3. CASE Front(d) # <<>>
      <4> DEFINE p == Front(d)
                 l == Last(d)
      <4>1. at'[p] = at[p] /\ step'[p] = step[p] /\ at'[d] = at[d] /\ p \in Products
        BY <1>1, <1>3, <3>1, <3>3
      <4>2. (at[d] # "none" <=> Begun(p, l)) /\ (Over(p, l) => at[d] = Final(d))
        BY DEF PartsInv
      <4> HIDE DEF p, l
      <4>3. (Begun(p, l)' <=> Begun(p, l)) /\ (Over(p, l)' <=> Over(p, l))
        BY <1>1, <4>1, SameView
      <4>4. (at'[d] # "none" <=> Begun(p, l)') /\ (Over(p, l)' => at'[d] = Final(d))
        BY <4>1, <4>2, <4>3
      <4>. QED
        BY <4>4 DEF p, l
    <3>. QED
      BY <3>2, <3>3
  <2>2. \A d : Final(d)' = Final(d)
    BY DEF Final, IsSpawned
  <2>. QED
    BY <2>1, <2>2 DEF PartsInv
<1>9. OpInv'
  <2>1. IsOp(op, Dim(<<>>))
    <3>1. size.dim \in Nat \ {0} /\ Dim(<<>>) = size.dim
      BY HalvingFacts, PartFacts DEF MTypeOK, Dim
    <3>2. Matrix(size.dim, 0) = Matrix(size.dim, 0 * size.dim + 0)
      BY <3>1
    <3>3. op = OpAt(size.dim, 0, 0, 0)
      BY <3>2 DEF Whole, OpAt
    <3>4. 0 \in 0 .. size.dim - size.dim
      BY <3>1
    <3>. QED
      BY <3>1, <3>3, <3>4 DEF IsOp
  <2>2. ASSUME NEW d \in Products, at'[d] # "none"
        PROVE  functor'[d] = OpOf(d)' /\ IsOp(functor'[d], Dim(d))
    <3>1. CASE d = <<>>
      BY <1>3, <2>1, <3>1, SameSize, <1>1 DEF OpOf
    <3>2. CASE d # <<>>
      <4>1. d \in Parts /\ Front(d) \in Products /\ at[d] # "none"
        BY <1>3, <2>2, <3>2, PartFacts
      <4>2. Front(d) # <<>>
        BY <1>7, <4>1
      <4>3. functor[d] = OpOf(d) /\ IsOp(functor[d], Dim(d)) /\ functor'[d] = functor[d]
        BY <1>3, <3>2, <4>1 DEF OpInv
      <4>4. OpOf(d)' = OpOf(d)
        BY <1>1, <1>3, <3>2, <4>1, <4>2, SameSize DEF OpOf
      <4>. QED
        BY <4>3, <4>4
    <3>. QED
      BY <3>1, <3>2
  <2>3. ASSUME NEW d \in Products, at'[d] # "none"
        PROVE  IsOp(functor[d], Dim(d))'
    <3> DEFINE y == functor'[d]
    <3>1. IsOp(y, Dim(d))
      BY <2>2, <2>3
    <3>. QED
      BY <1>1, <3>1 DEF IsOp, OpAt, Dim
  <2>. QED
    BY <2>2, <2>3 DEF OpInv
<1>. QED
  BY <1>4, <1>5, <1>6, <1>8, <1>9

\* The invariant holds at first.
LEMMA MInitially == MatMultInit => MInv
<1> SUFFICES ASSUME MatMultInit
             PROVE  MInv
  OBVIOUS
<1> USE DEF MatMultInit
<1>1. \A c \in Products : at[c] = "none" /\ step[c] = <<1, 1>>
  OBVIOUS
<1>2. MTypeOK
  <2>1. step \in [Products -> Labels]
    BY DEF Labels, Quadrants
  <2>2. task \in [TaskHandles -> {"inactive", "incomplete", "complete"}]
    OBVIOUS
  <2>3. at \in [Products -> Places]
    BY DEF Places
  <2>. QED
    BY <2>1, <2>2, <2>3 DEF MTypeOK
<1>3. ProgramInv /\ PlaceInv /\ TaskInv /\ OpInv
  BY <1>1, PartFacts DEF ProgramInv, PlaceInv, Divides, TaskInv, OpInv
<1>4. PartsInv
  BY <1>1, PartFacts DEF PartsInv, Begun, Over
<1>. QED
  BY <1>2, <1>3, <1>4 DEF MInv

\* Every step keeps it.
LEMMA MPreserved == MInv /\ [MatMultNext]_matmultVars => MInv'
<1> SUFFICES ASSUME MInv, [MatMultNext]_matmultVars
             PROVE  MInv'
  OBVIOUS
<1>1. CASE ProgramStep
  BY <1>1, ProgramSteps, ProgramSpawnStep DEF ProgramStep
<1>2. ASSUME NEW c \in Products, ProductStep(c)
      PROVE  MInv'
  BY <1>2, MoveSteps, SpawnStep, CallInlineStep, ReturnedStep, WaitStep, NotifyTaskStep DEF ProductStep
<1>3. CASE WakeRoot \/ UNCHANGED matmultVars
  <2>. UNCHANGED <<size, program, global_tmanager, at, step, functor, task, cells, loaded>>
    BY <1>3 DEF WakeRoot, matmultVars
  <2>1. MTypeOK' /\ ProgramInv'
    BY DEF MInv, MTypeOK, ProgramInv
  <2>2. PlaceInv' /\ PartsInv'
    BY DEF MInv, PlaceInv, Divides, Splits, Dim, IsSpawned, PartsInv, Begun, Over, Final
  <2>3. TaskInv'
    BY DEF MInv, TaskInv, IsSpawned, Handle
  <2>4. OpInv'
    BY SameOps DEF MInv
  <2>. QED
    BY <2>1, <2>2, <2>3, <2>4 DEF MInv
<1>. QED
  BY <1>1, <1>2, <1>3 DEF MatMultNext, ProgramEnded

\* It is an invariant.
LEMMA MInvariant == MatMultSpec => []MInv
<1>. QED
  BY MInitially, MPreserved, PTL DEF MatMultSpec

\* A call that has not ended keeps those that it is part of, up to main, waiting.
LEMMA CallersWait ==
  ASSUME MInv
  PROVE  \A c \in Products : at[c] \notin {"none", Final(c)} /\ at[c] # "done" =>
           /\ at[<<>>] \notin {"none", "done"}
           /\ c # <<>> => Divides(Front(c)) /\ Last(c)[1] = step[Front(c)][1]
<1> DEFINE Runs(c) == at[c] \notin {"none", Final(c)} /\ at[c] # "done"
<1>1. ASSUME NEW c \in Products, Runs(c), c # <<>>
      PROVE  Divides(Front(c)) /\ Last(c)[1] = step[Front(c)][1] /\ Front(c) \in Products /\ Len(Front(c)) = Len(c) - 1
  <2> DEFINE p == Front(c)
             l == Last(c)
  <2>1. c \in Parts /\ p \in Products /\ Len(p) = Len(c) - 1 /\ l \in Labels
    BY <1>1, PartFacts
  <2>2. Begun(p, l) /\ ~ Over(p, l)
    BY <1>1, <2>1 DEF MInv, PartsInv
  <2>3. l[1] \in {1, 2} /\ step[p][1] \in {1, 2}
    BY <2>1, LabelFacts DEF MInv, MTypeOK
  <2> HIDE DEF p, l
  <2>4. Divides(p)
    BY <2>2 DEF Begun, Over, Divides
  <2>5. l[1] = step[p][1]
    BY <2>2, <2>3, <2>4 DEF Begun, Over, Divides
  <2>. QED
    BY <2>1, <2>4, <2>5 DEF p, l
<1>2. \A c \in Products : Divides(c) => Runs(c)
  BY DEF Divides, Final
<1> HIDE DEF Runs
<1> DEFINE T == {n \in Nat : \A c \in Products : Len(c) = n /\ Runs(c) => Runs(<<>>)}
<1>3. \A n \in Nat : n \in T
  <2>1. 0 \in T
    <3>1. \A c \in Products : Len(c) = 0 => c = <<>>
      BY PartFacts
    <3>. QED
      BY <3>1
  <2>2. ASSUME NEW n \in Nat, n \in T
        PROVE  n + 1 \in T
    <3>1. ASSUME NEW c \in Products, Len(c) = n + 1, Runs(c)
          PROVE  Runs(<<>>)
      <4>1. c # <<>>
        BY <3>1, PartFacts
      <4>2. Front(c) \in Products /\ Len(Front(c)) = n /\ Runs(Front(c))
        BY <1>1, <1>2, <3>1, <4>1
      <4>. QED
        BY <2>2, <4>2
    <3>. QED
      BY <3>1
  <2> HIDE DEF T
  <2>. QED
    BY <2>1, <2>2, NatSetInduction
<1>4. ASSUME NEW c \in Products, Runs(c)
      PROVE  Runs(<<>>)
  <2>1. Len(c) \in Nat
    BY PartFacts
  <2>. QED
    BY <1>3, <1>4, <2>1
<1>. QED
  BY <1>1, <1>4 DEF Runs

(***************************************************************************)
(* Whatever the sizes of the matrices, a task that is queued or runs finds *)
(* the frame of the call that spawned it, with the functor, the matrices   *)
(* and the handle it refers to, and the global task manager                *)
(* (matmult.cpp:253-306, pfunc.hpp:543-553, 692-724).                      *)
(***************************************************************************)
THEOREM TasksFindTheirFrames == MatMultSpec => []FramesAreAlive
<1>1. ASSUME MInv
      PROVE  FramesAreAlive
  <2> SUFFICES ASSUME NEW c \in Products, at[c] \notin {"none", "done"}, at[c] = "left" => IsSpawned(c)
               PROVE  /\ global_tmanager
                      /\ IF c = <<>> THEN program = "wait" ELSE at[Front(c)] \in {"spawn", "called", "wait"}
    BY DEF FramesAreAlive
  <2>1. at[c] # Final(c)
    BY DEF Final
  <2>2. /\ at[<<>>] \notin {"none", "done"}
        /\ c # <<>> => Divides(Front(c))
    BY <1>1, <2>1, CallersWait
  <2>3. program = "wait" /\ global_tmanager
    BY <1>1, <2>2 DEF MInv, MTypeOK, ProgramInv
  <2>. QED
    BY <2>2, <2>3 DEF Divides
<1>. QED
  BY <1>1, MInvariant, PTL

-----------------------------------------------------------------------------
(***************************************************************************)
(* Blocks, their quadrants and the terms of a sum.                         *)
(***************************************************************************)

\* The elements of a block are those in its rows and columns.
LEMMA ElementsFacts ==
  ASSUME size.dim \in Nat \ {0}, NEW d \in Nat \ {0}, NEW r \in 0 .. size.dim - d, NEW j \in 0 .. size.dim - d
  PROVE  \A e : e \in Elements(Matrix(d, r * size.dim + j)) <=>
                  e \in Nat /\ e \div size.dim \in r .. r + d - 1 /\ e % size.dim \in j .. j + d - 1
<1> DEFINE n == size.dim
           x == Matrix(d, r * n + j)
<1>1. n \in Nat \ {0}
  OBVIOUS
<1>2. x.dim = d /\ \A i, k : Element(x, i, k) = (r * n + j) + i * n + k
  BY DEF Matrix, Element
<1> HIDE DEF x, n
<1>3. ASSUME NEW i \in 0 .. d - 1, NEW k \in 0 .. d - 1
      PROVE  LET e == Element(x, i, k)
             IN  e \in Nat /\ e \div n = r + i /\ e % n = j + k
  <2>1. (r + i) * n = r * n + i * n /\ r * n \in Nat /\ i * n \in Nat
    BY <1>1
  <2>2. r + i \in Nat /\ j + k \in 0 .. n - 1
    BY <1>1 DEF n
  <2> DEFINE a == r + i
             b == j + k
             u == r * n
             v == i * n
             w == a * n
  <2>3. Element(x, i, k) = a * n + b
    <3>1. Element(x, i, k) = (u + j) + v + k /\ w = u + v /\ u \in Nat /\ v \in Nat /\ b = j + k
      BY <1>2, <2>1
    <3> HIDE DEF a, b, u, v, w
    <3>2. Element(x, i, k) = w + b
      BY <3>1
    <3>. QED
      BY <3>2 DEF w
  <2> HIDE DEF a, b
  <2>4. (a * n + b) \div n = a /\ (a * n + b) % n = b /\ a * n + b \in Nat
    <3>1. a \in Nat /\ b \in 0 .. n - 1
      BY <2>2 DEF a, b
    <3>. QED
      BY <1>1, <3>1, RowsAndColumns
  <2>. QED
    BY <2>3, <2>4 DEF a, b
<1>4. ASSUME NEW e \in Nat, e \div n \in r .. r + d - 1, e % n \in j .. j + d - 1
      PROVE  \E i, k \in 0 .. d - 1 : e = Element(x, i, k)
  <2> DEFINE a == e \div n
             b == e % n
             i == a - r
             k == b - j
  <2>1. i \in 0 .. d - 1 /\ k \in 0 .. d - 1
    <3>1. a \in r .. r + d - 1 /\ b \in j .. j + d - 1
      BY <1>4
    <3> HIDE DEF a, b
    <3>. QED
      BY <3>1
  <2>2. a \in Nat /\ b \in Nat /\ e = a * n + b
    <3>1. a \in Nat /\ b \in 0 .. n - 1 /\ e = a * n + b
      BY <1>1, RowsAndColumns
    <3> HIDE DEF a, b
    <3>. QED
      BY <1>1, <3>1
  <2>3. Element(x, i, k) = e
    <3>1. Element(x, i, k) = (r * n + j) + i * n + k
      BY <1>2
    <3> HIDE DEF a, b
    <3>2. (a - r) * n = a * n - r * n /\ a * n \in Nat /\ r * n \in Nat
      BY <1>1, <2>2
    <3> DEFINE u == r * n
               v == a * n
               w == (a - r) * n
    <3>3. Element(x, i, k) = (u + j) + w + (b - j) /\ w = v - u /\ e = v + b /\ u \in Nat /\ v \in Nat
      BY <2>2, <3>1, <3>2
    <3> HIDE DEF u, v, w
    <3>. QED
      BY <2>2, <3>3
  <2> HIDE DEF i, k
  <2>. QED
    BY <2>1, <2>3
<1>5. ASSUME NEW e, e \in Elements(x)
      PROVE  e \in Nat /\ e \div n \in r .. r + d - 1 /\ e % n \in j .. j + d - 1
  <2>1. PICK i, k \in 0 .. d - 1 : e = Element(x, i, k)
    BY <1>2, <1>5 DEF Elements
  <2>2. e \in Nat /\ e \div n = r + i /\ e % n = j + k
    BY <1>3, <2>1
  <2>. QED
    BY <2>2
<1>6. \A e : e \in Elements(x) <=> \E i, k \in 0 .. d - 1 : e = Element(x, i, k)
  BY <1>2 DEF Elements
<1>7. \A e : e \in Elements(x) <=> e \in Nat /\ e \div n \in r .. r + d - 1 /\ e % n \in j .. j + d - 1
  BY <1>4, <1>5, <1>6
<1>. QED
  BY <1>7 DEF n, x

\* A half of the rows, or of the columns, is on either side of the middle.
LEMMA HalvesFacts ==
  ASSUME NEW h \in Nat \ {0}, NEW r \in Nat
  PROVE  /\ \A q \in Quadrants : Down(q, h) \in {0, h} /\ Right(q, h) \in {0, h}
         /\ \A a \in Int : a \in r .. r + 2 * h - 1 <=> a \in r .. r + h - 1 \/ a \in r + h .. r + h + h - 1
         /\ \A a \in Int : ~ (a \in r .. r + h - 1 /\ a \in r + h .. r + h + h - 1)
         /\ \A q, p \in Quadrants : q # p => Down(q, h) # Down(p, h) \/ Right(q, h) # Right(p, h)
         /\ \A x, y \in {0, h} : \E q \in Quadrants : Down(q, h) = x /\ Right(q, h) = y
<1>1. \A q \in Quadrants : Down(q, h) \in {0, h} /\ Right(q, h) \in {0, h}
  BY DEF Down, Right
<1>2. /\ \A a \in Int : a \in r .. r + 2 * h - 1 <=> a \in r .. r + h - 1 \/ a \in r + h .. r + h + h - 1
      /\ \A a \in Int : ~ (a \in r .. r + h - 1 /\ a \in r + h .. r + h + h - 1)
  OBVIOUS
<1>3. \A q, p \in Quadrants : q # p => Down(q, h) # Down(p, h) \/ Right(q, h) # Right(p, h)
  BY DEF Down, Right, Quadrants
<1>4. ASSUME NEW x \in {0, h}, NEW y \in {0, h}
      PROVE  \E q \in Quadrants : Down(q, h) = x /\ Right(q, h) = y
  <2>1. 1 \in Quadrants /\ Down(1, h) = 0 /\ Right(1, h) = 0
    BY DEF Down, Right, Quadrants
  <2>2. 2 \in Quadrants /\ Down(2, h) = 0 /\ Right(2, h) = h
    BY DEF Down, Right, Quadrants
  <2>3. 3 \in Quadrants /\ Down(3, h) = h /\ Right(3, h) = 0
    BY DEF Down, Right, Quadrants
  <2>4. 4 \in Quadrants /\ Down(4, h) = h /\ Right(4, h) = h
    BY DEF Down, Right, Quadrants
  <2>. QED
    BY <2>1, <2>2, <2>3, <2>4
<1>. QED
  BY <1>1, <1>2, <1>3, <1>4

\* The blocks of the four quadrants make up that of the call, in either batch;
\* a batch goes on where the other has ended.
LEMMA QuarterFacts ==
  ASSUME size.dim \in Nat \ {0}, NEW h \in Nat \ {0}, NEW op, IsOp(op, 2 * h)
  PROVE  /\ \A l \in Labels : Elements(Functor(op, l).C) \subseteq Elements(op.C)
         /\ \A l, m \in Labels : l[2] # m[2] => Elements(Functor(op, l).C) \cap Elements(Functor(op, m).C) = {}
         /\ \A e \in Elements(op.C) : \E q \in Quadrants : \A b \in {1, 2} : e \in Elements(Functor(op, <<b, q>>).C)
         /\ \A l \in Labels : Functor(op, l).A.start % size.dim = (op.A.start % size.dim) + Ahead(l[1], h)
         /\ op.A.start % size.dim \in Nat
         /\ \A q \in Quadrants : Functor(op, <<1, q>>).C = Functor(op, <<2, q>>).C
<1> DEFINE n == size.dim
<1>1. PICK r, m, j \in 0 .. n - 2 * h : op = OpAt(2 * h, r, m, j)
  BY DEF IsOp
<1>2. \A l \in Labels : Functor(op, l) = OpAt(h, r + Down(l[2], h), m + Ahead(l[1], h), j + Right(l[2], h))
  BY <1>1, FunctorFacts
<1> DEFINE C(q) == Matrix(h, (r + Down(q, h)) * n + (j + Right(q, h)))
<1>3. \A l \in Labels : Functor(op, l).C = C(l[2])
  BY <1>2 DEF OpAt
<1>4. \A e : e \in Elements(op.C) <=>
               e \in Nat /\ e \div n \in r .. r + 2 * h - 1 /\ e % n \in j .. j + 2 * h - 1
  <2>1. op.C = Matrix(2 * h, r * n + j) /\ 2 * h \in Nat \ {0}
    BY <1>1 DEF OpAt
  <2>. QED
    BY <1>1, <2>1, ElementsFacts
<1>5. ASSUME NEW q \in Quadrants
      PROVE  \A e : e \in Elements(C(q)) <=>
               e \in Nat /\ e \div n \in r + Down(q, h) .. r + Down(q, h) + h - 1
                         /\ e % n \in j + Right(q, h) .. j + Right(q, h) + h - 1
  <2> DEFINE x == r + Down(q, h)
             y == j + Right(q, h)
  <2>1. x \in 0 .. n - h /\ y \in 0 .. n - h
    <3>1. Down(q, h) \in {0, h} /\ Right(q, h) \in {0, h}
      BY HalvesFacts
    <3>. QED
      BY <3>1
  <2> HIDE DEF x, y
  <2>2. \A e : e \in Elements(Matrix(h, x * n + y)) <=>
                 e \in Nat /\ e \div n \in x .. x + h - 1 /\ e % n \in y .. y + h - 1
    BY <2>1, ElementsFacts
  <2>. QED
    BY <2>2 DEF x, y
<1> HIDE DEF C
<1>6. ASSUME NEW e \in Nat
      PROVE  e \div n \in Int /\ e % n \in Int
  <2> DEFINE a == e \div n
             b == e % n
  <2>1. n \in Nat \ {0}
    OBVIOUS
  <2> HIDE DEF n
  <2>2. a \in Nat /\ b \in 0 .. n - 1
    BY <2>1, RowsAndColumns
  <2> HIDE DEF a, b
  <2>3. a \in Int /\ b \in Int
    BY <2>1, <2>2
  <2>. QED
    BY <2>3 DEF a, b
<1>7. /\ \A q \in Quadrants : Down(q, h) \in {0, h} /\ Right(q, h) \in {0, h}
      /\ r \in Nat /\ j \in Nat /\ m \in Nat
  BY HalvesFacts
<1>8. ASSUME NEW q \in Quadrants
      PROVE  Elements(C(q)) \subseteq Elements(op.C)
  <2> SUFFICES ASSUME NEW e \in Elements(C(q))
               PROVE  e \in Elements(op.C)
    OBVIOUS
  <2>1. /\ e \in Nat /\ e \div n \in r + Down(q, h) .. r + Down(q, h) + h - 1
        /\ e % n \in j + Right(q, h) .. j + Right(q, h) + h - 1
    BY <1>5
  <2> DEFINE a == e \div n
             b == e % n
  <2>2. a \in Int /\ b \in Int
    BY <1>6, <2>1
  <2>3. a \in r .. r + 2 * h - 1 /\ b \in j .. j + 2 * h - 1
    <3>1. Down(q, h) \in {0, h} /\ Right(q, h) \in {0, h}
      BY <1>7
    <3>2. a \in r + Down(q, h) .. r + Down(q, h) + h - 1 /\ b \in j + Right(q, h) .. j + Right(q, h) + h - 1
      BY <2>1
    <3> HIDE DEF a, b, n
    <3>. QED
      BY <1>7, <2>2, <3>1, <3>2
  <2>. QED
    BY <1>4, <2>1, <2>3
<1>9. ASSUME NEW q \in Quadrants, NEW p \in Quadrants, q # p, NEW e \in Elements(C(q)), e \in Elements(C(p))
      PROVE  FALSE
  <2> DEFINE a == e \div n
             b == e % n
  <2>1. /\ a \in r + Down(q, h) .. r + Down(q, h) + h - 1 /\ b \in j + Right(q, h) .. j + Right(q, h) + h - 1
        /\ a \in r + Down(p, h) .. r + Down(p, h) + h - 1 /\ b \in j + Right(p, h) .. j + Right(p, h) + h - 1
        /\ e \in Nat
    BY <1>5, <1>9
  <2>2. a \in Int /\ b \in Int
    BY <1>6, <2>1
  <2>3. Down(q, h) # Down(p, h) \/ Right(q, h) # Right(p, h)
    BY <1>7, <1>9, HalvesFacts
  <2> HIDE DEF a, b, n
  <2>4. Down(q, h) = Down(p, h)
    BY <1>7, <2>1, <2>2
  <2>5. Right(q, h) = Right(p, h)
    BY <1>7, <2>1, <2>2
  <2>. QED
    BY <2>3, <2>4, <2>5
<1>10. ASSUME NEW e \in Elements(op.C)
       PROVE  \E q \in Quadrants : e \in Elements(C(q))
  <2> DEFINE a == e \div n
             b == e % n
  <2>1. e \in Nat /\ a \in r .. r + 2 * h - 1 /\ b \in j .. j + 2 * h - 1
    BY <1>4
  <2>2. a \in Int /\ b \in Int
    BY <1>6, <2>1
  <2>3. \E x, y \in {0, h} : a \in r + x .. r + x + h - 1 /\ b \in j + y .. j + y + h - 1
    <3> HIDE DEF a, b, n
    <3>1. \E x \in {0, h} : a \in r + x .. r + x + h - 1
      BY <1>7, <2>1, <2>2
    <3>2. \E y \in {0, h} : b \in j + y .. j + y + h - 1
      BY <1>7, <2>1, <2>2
    <3>. QED
      BY <3>1, <3>2
  <2>4. PICK x, y \in {0, h} : a \in r + x .. r + x + h - 1 /\ b \in j + y .. j + y + h - 1
    BY <2>3
  <2>5. PICK q \in Quadrants : Down(q, h) = x /\ Right(q, h) = y
    BY <1>7, HalvesFacts
  <2>. QED
    BY <1>5, <2>1, <2>4, <2>5
<1>11. ASSUME NEW l \in Labels
       PROVE  /\ Functor(op, l).A.start % n = (op.A.start % n) + Ahead(l[1], h)
              /\ op.A.start % n \in Nat
  <2>1. op.A.start = r * n + m
    BY <1>1 DEF OpAt, Matrix
  <2> DEFINE x == r + Down(l[2], h)
             y == m + Ahead(l[1], h)
  <2>2. Functor(op, l).A.start = x * n + y
    BY <1>2 DEF OpAt, Matrix
  <2>3. x \in Nat /\ y \in 0 .. n - 1 /\ m \in 0 .. n - 1
    <3>1. l[2] \in Quadrants /\ Ahead(l[1], h) \in {0, h}
      BY DEF Labels, Ahead
    <3>2. Down(l[2], h) \in {0, h}
      BY <1>7, <3>1
    <3>. QED
      BY <1>7, <3>1, <3>2
  <2> HIDE DEF x
  <2>4. (r * n + m) % n = m
    BY <1>7, <2>3, RowsAndColumns
  <2>5. (x * n + y) % n = y
    <3> HIDE DEF y
    <3>. QED
      BY <1>7, <2>3, RowsAndColumns
  <2>. QED
    BY <1>7, <2>1, <2>2, <2>4, <2>5
<1> HIDE DEF n
<1>12. \A l \in Labels : l[1] \in {1, 2} /\ l[2] \in Quadrants
  BY DEF Labels
<1>13. \A b \in {1, 2}, q \in Quadrants : <<b, q>> \in Labels /\ (<<b, q>>)[1] = b /\ (<<b, q>>)[2] = q
  BY DEF Labels
<1>14. <<1, 1>> \in Labels
  BY DEF Labels, Quadrants
<1>15. /\ \A l \in Labels : Elements(Functor(op, l).C) \subseteq Elements(op.C)
       /\ \A l, k \in Labels : l[2] # k[2] => Elements(Functor(op, l).C) \cap Elements(Functor(op, k).C) = {}
       /\ \A q \in Quadrants : Functor(op, <<1, q>>).C = Functor(op, <<2, q>>).C
  BY <1>3, <1>8, <1>9, <1>12, <1>13
<1>16. \A e \in Elements(op.C) : \E q \in Quadrants : \A b \in {1, 2} : e \in Elements(Functor(op, <<b, q>>).C)
  <2> SUFFICES ASSUME NEW e \in Elements(op.C)
               PROVE  \E q \in Quadrants : \A b \in {1, 2} : e \in Elements(Functor(op, <<b, q>>).C)
    OBVIOUS
  <2>1. PICK q \in Quadrants : e \in Elements(C(q))
    BY <1>10
  <2>2. \A b \in {1, 2} : Functor(op, <<b, q>>).C = C(q)
    BY <1>3, <1>13
  <2>. QED
    BY <2>1, <2>2
<1>. QED
  BY <1>11, <1>14, <1>15, <1>16 DEF n

\* The terms of a sum go on where they have ended.
LEMMA MoreTerms ==
  ASSUME NEW m \in Nat, NEW d \in Nat, NEW f, f = [k \in 1 .. m + d |-> f[k]]
  PROVE  [k \in 1 .. m |-> f[k]] \o [k \in 1 .. d |-> f[m + k]] = f
<1> DEFINE S == {f[k] : k \in 1 .. m + d}
           s == [k \in 1 .. m |-> f[k]]
           t == [k \in 1 .. d |-> f[m + k]]
<1>1. s \in Seq(S) /\ Len(s) = m
  <2>1. s \in [1 .. m -> S]
    OBVIOUS
  <2> HIDE DEF S, s
  <2>. QED
    BY <2>1, SeqDef
<1>2. t \in Seq(S) /\ Len(t) = d
  <2>1. t \in [1 .. d -> S]
    OBVIOUS
  <2> HIDE DEF S, t
  <2>. QED
    BY <2>1, SeqDef
<1>3. f \in Seq(S) /\ Len(f) = m + d
  <2>1. f \in [1 .. m + d -> S] /\ m + d \in Nat
    OBVIOUS
  <2> HIDE DEF S
  <2>. QED
    BY <2>1, SeqDef
<1>4. /\ \A k \in 1 .. m : s[k] = f[k]
      /\ \A k \in 1 .. d : t[k] = f[m + k]
  OBVIOUS
<1> HIDE DEF S, s, t
<1>5. /\ s \o t \in Seq(S) /\ Len(s \o t) = m + d
      /\ \A k \in 1 .. m + d : (s \o t)[k] = IF k <= m THEN s[k] ELSE t[k - m]
  BY <1>1, <1>2, ConcatProperties
<1>6. ASSUME NEW k \in 1 .. m + d
      PROVE  (s \o t)[k] = f[k]
  <2>1. CASE k <= m
    <3>1. k \in 1 .. m
      BY <2>1
    <3>2. (s \o t)[k] = s[k]
      BY <1>5, <2>1
    <3>3. s[k] = f[k]
      BY <1>4, <3>1
    <3>. QED
      BY <3>2, <3>3
  <2>2. CASE ~ (k <= m)
    <3>1. k - m \in 1 .. d /\ m + (k - m) = k
      BY <2>2
    <3>. QED
      BY <1>4, <1>5, <2>2, <3>1
  <2>. QED
    BY <2>1, <2>2
<1>7. s \o t = f
  BY <1>3, <1>5, <1>6, SeqEqual
<1>. QED
  BY <1>7 DEF s, t

\* What a call in its base case adds to an element of its block.
LEMMA StoreFacts ==
  ASSUME size.dim \in Nat \ {0}, NEW d \in Nat \ {0}, NEW op, IsOp(op, d), NEW e \in Elements(op.C)
  PROVE  LET n == size.dim
             i == (e - op.C.start) \div n
             j == (e - op.C.start) % n
             m == op.A.start % n
         IN  /\ op.A.dim = d
             /\ Terms(e, m) \o [k \in 1 .. d |-> <<Element(op.A, i, k - 1), Element(op.B, k - 1, j)>>]
                  = Terms(e, m + d)
             /\ e \in 0 .. n * n - 1 /\ m \in Nat
<1> DEFINE n == size.dim
           i == (e - op.C.start) \div n
           j == (e - op.C.start) % n
           a == e \div n
           b == e % n
<1>1. PICK r, m, p \in 0 .. n - d : op = OpAt(d, r, m, p)
  BY DEF IsOp
<1>2. /\ op.A = Matrix(d, r * n + m) /\ op.B = Matrix(d, m * n + p) /\ op.C = Matrix(d, r * n + p)
      /\ op.A.dim = d /\ op.A.start = r * n + m /\ op.B.start = m * n + p /\ op.C.start = r * n + p
  BY <1>1 DEF OpAt, Matrix
<1>3. e \in Nat /\ a \in r .. r + d - 1 /\ b \in p .. p + d - 1
  BY <1>2, ElementsFacts
<1>4. /\ a \in Nat /\ b \in 0 .. n - 1 /\ e = a * n + b
      /\ r \in Nat /\ m \in 0 .. n - 1 /\ p \in 0 .. n - 1 /\ n \in Nat \ {0} /\ a < n
  <2>1. a \in Nat /\ b \in 0 .. n - 1 /\ e = a * n + b
    BY <1>3, RowsAndColumns
  <2> HIDE DEF a, b
  <2>. QED
    BY <1>3, <2>1
<1>5. (r * n + m) % n = m
  BY <1>4, RowsAndColumns
<1>6. e \in 0 .. n * n - 1
  <2> HIDE DEF a, b
  <2>. QED
    BY <1>4, RowsAndColumns
<1>7. i = a - r /\ j = b - p
  <2> HIDE DEF n, a, b
  <2>1. a - r \in Nat /\ b - p \in 0 .. n - 1
    BY <1>3, <1>4
  <2> DEFINE x == a - r
             y == b - p
  <2>2. (a - r) * n = a * n - r * n /\ a * n \in Nat /\ r * n \in Nat
    BY <1>4
  <2>3. e - op.C.start = x * n + y
    <3> DEFINE u == a * n
               v == r * n
               w == x * n
    <3>1. w = u - v /\ e = u + b /\ op.C.start = v + p /\ u \in Nat /\ v \in Nat
      BY <1>2, <1>4, <2>2
    <3>2. y = b - p /\ y \in Int
      BY <1>4
    <3> HIDE DEF u, v, w, x, y
    <3>3. e - op.C.start = w + y
      BY <1>4, <3>1, <3>2
    <3>. QED
      BY <3>3 DEF w
  <2>4. x \in Nat /\ y \in 0 .. n - 1
    BY <2>1
  <2> HIDE DEF x, y
  <2>5. (x * n + y) \div n = x /\ (x * n + y) % n = y
    BY <1>4, <2>4, RowsAndColumns
  <2>. QED
    BY <2>3, <2>5 DEF x, y
<1> DEFINE f == Terms(e, m + d)
           t == [k \in 1 .. d |-> <<Element(op.A, i, k - 1), Element(op.B, k - 1, j)>>]
<1>8. /\ f = [k \in 1 .. m + d |-> f[k]]
      /\ Terms(e, m) = [k \in 1 .. m |-> f[k]]
  <2>1. f = [k \in 1 .. m + d |-> <<a * n + (k - 1), (k - 1) * n + b>>]
    BY DEF Terms
  <2>2. Terms(e, m) = [k \in 1 .. m |-> <<a * n + (k - 1), (k - 1) * n + b>>]
    BY DEF Terms
  <2>3. \A k \in 1 .. m : k \in 1 .. m + d
    BY <1>4
  <2> HIDE DEF f, a, b, n
  <2>. QED
    BY <2>1, <2>2, <2>3
<1>9. t = [k \in 1 .. d |-> f[m + k]]
  <2> SUFFICES ASSUME NEW k \in 1 .. d
               PROVE  <<Element(op.A, i, k - 1), Element(op.B, k - 1, j)>> = f[m + k]
    OBVIOUS
  <2>1. m + k \in 1 .. m + d /\ m + k - 1 \in Nat /\ k - 1 \in Nat
    BY <1>4
  <2>2. f[m + k] = <<a * n + (m + k - 1), (m + k - 1) * n + b>>
    BY <2>1 DEF Terms
  <2>3. Element(op.A, i, k - 1) = a * n + (m + k - 1)
    <3>1. Element(op.A, i, k - 1) = (r * n + m) + (a - r) * n + (k - 1)
      BY <1>2, <1>7 DEF Element
    <3> HIDE DEF a, n
    <3>2. (a - r) * n = a * n - r * n /\ a * n \in Nat /\ r * n \in Nat
      BY <1>4
    <3> DEFINE u == a * n
               v == r * n
               w == (a - r) * n
    <3>3. Element(op.A, i, k - 1) = (v + m) + w + (k - 1) /\ w = u - v /\ u \in Nat /\ v \in Nat
      BY <3>1, <3>2
    <3> HIDE DEF u, v, w
    <3>4. Element(op.A, i, k - 1) = u + (m + k - 1)
      BY <1>4, <3>3
    <3>. QED
      BY <3>4 DEF u
  <2>4. Element(op.B, k - 1, j) = (m + k - 1) * n + b
    <3>1. Element(op.B, k - 1, j) = (m * n + p) + (k - 1) * n + (b - p)
      BY <1>2, <1>7 DEF Element
    <3> HIDE DEF b, n
    <3>2. (m + k - 1) * n = m * n + (k - 1) * n /\ m * n \in Nat /\ (k - 1) * n \in Nat
      <4> DEFINE g == k - 1
      <4>1. g \in Nat /\ m + k - 1 = m + g /\ m \in Nat
        BY <1>4
      <4> HIDE DEF g
      <4>2. (m + g) * n = m * n + g * n /\ m * n \in Nat /\ g * n \in Nat
        BY <1>4, <4>1
      <4>. QED
        BY <4>1, <4>2 DEF g
    <3> DEFINE u == m * n
               v == (k - 1) * n
               w == (m + k - 1) * n
    <3>3. Element(op.B, k - 1, j) = (u + p) + v + (b - p) /\ w = u + v /\ u \in Nat /\ v \in Nat
      BY <3>1, <3>2
    <3> HIDE DEF u, v, w
    <3>4. Element(op.B, k - 1, j) = w + b
      BY <1>4, <3>3
    <3>. QED
      BY <3>4 DEF w
  <2>. QED
    BY <2>2, <2>3, <2>4
<1> HIDE DEF f, t
<1>10. Terms(e, m) \o t = f
  <2>1. m \in Nat
    BY <1>4
  <2>. QED
    BY <1>8, <1>9, <2>1, MoreTerms
<1>11. op.A.start % n = m /\ m \in Nat
  BY <1>2, <1>4, <1>5
<1>. QED
  BY <1>2, <1>6, <1>10, <1>11 DEF f, t

-----------------------------------------------------------------------------
(***************************************************************************)
(* Every call finds, in a block of its own, the terms of the calls before. *)
(***************************************************************************)
IsOver(c) == at[c] \in {"left", "done"}

\* A step after which some calls own the blocks that others have owned.
LEMMA BlocksMove ==
  ASSUME BlocksInv, CellsInv, size' = size, cells' = cells,
         NEW Old \in SUBSET {c \in Products : Owns(c)}, NEW New,
         \A d \in Products : Owns(d)' /\ d \notin New =>
            /\ Owns(d) /\ d \notin Old /\ OpOf(d)' = OpOf(d) /\ (IsOver(d)' <=> IsOver(d))
            /\ at'[d] = "store" => loaded'[d] = cells \/ (at[d] = "store" /\ loaded'[d] = loaded[d]),
         \A d \in New : at'[d] # "store",
         \A d \in New : \A e \in Block(d)' : \E c \in Old : e \in Block(c) /\ Reached(c) = Reached(d)',
         \A d, c \in New : d # c => Block(d)' \cap Block(c)' = {}
  PROVE  BlocksInv' /\ CellsInv'
<1>1. \A d \in Products : OpOf(d)' = OpOf(d) => Block(d)' = Block(d)
  BY SameSize DEF Block
<1>2. \A d \in Products : OpOf(d)' = OpOf(d) /\ (IsOver(d)' <=> IsOver(d)) => Reached(d)' = Reached(d)
  BY SameSize DEF Reached, IsOver
<1>3. \A e, m : Terms(e, m)' = Terms(e, m)
  BY SameSize
<1>4. ASSUME NEW d \in Products, Owns(d)', NEW e, e \in Block(d)'
      PROVE  \E c \in Products : /\ Owns(c) /\ e \in Block(c) /\ Reached(c) = Reached(d)'
                                 /\ IF d \in New THEN c \in Old ELSE c = d
  <2>1. CASE d \in New
    <3>1. PICK c \in Old : e \in Block(c) /\ Reached(c) = Reached(d)'
      BY <1>4, <2>1
    <3>. QED
      BY <2>1, <3>1
  <2>2. CASE d \notin New
    BY <1>1, <1>2, <1>4, <2>2
  <2>. QED
    BY <2>1, <2>2
<1>5. BlocksInv'
  <2>1. ASSUME NEW d \in Products, NEW c \in Products, Owns(d)', Owns(c)', d # c, NEW e, e \in Block(d)', e \in Block(c)'
        PROVE  FALSE
    <3>1. PICK x \in Products : Owns(x) /\ e \in Block(x) /\ IF d \in New THEN x \in Old ELSE x = d
      BY <1>4, <2>1
    <3>2. PICK y \in Products : Owns(y) /\ e \in Block(y) /\ IF c \in New THEN y \in Old ELSE y = c
      BY <1>4, <2>1
    <3>3. x = y
      BY <3>1, <3>2 DEF BlocksInv
    <3>4. (d \in New <=> c \in New)
      BY <2>1, <3>1, <3>2, <3>3
    <3>. QED
      BY <2>1, <3>1, <3>2, <3>3, <3>4
  <2>2. \A d, c \in Products : Owns(d)' /\ Owns(c)' /\ d # c => Block(d)' \cap Block(c)' = {}
    BY <2>1
  <2>. QED
    BY <2>2 DEF BlocksInv
<1>6. CellsInv'
  <2>1. ASSUME NEW d \in Products, Owns(d)', NEW e, e \in Block(d)'
        PROVE  cells[e] = Terms(e, Reached(d)')
    <3>1. PICK c \in Products : Owns(c) /\ e \in Block(c) /\ Reached(c) = Reached(d)'
      BY <1>4, <2>1
    <3>. QED
      BY <3>1 DEF CellsInv
  <2>2. ASSUME NEW d \in Products, Owns(d)', NEW e, e \in Block(d)', at'[d] = "store"
        PROVE  loaded'[d][e] = cells[e]
    <3>1. d \notin New /\ Owns(d) /\ OpOf(d)' = OpOf(d)
      BY <2>2
    <3>2. CASE loaded'[d] = cells
      BY <3>2
    <3>3. CASE at[d] = "store" /\ loaded'[d] = loaded[d]
      <4>1. e \in Block(d)
        BY <1>1, <2>2, <3>1
      <4>. QED
        BY <3>1, <3>3, <4>1 DEF CellsInv
    <3>. QED
      BY <2>2, <3>1, <3>2, <3>3
  <2>3. ASSUME NEW d \in Products, Owns(d)', NEW e, e \in Block(d)'
        PROVE  /\ cells'[e] = Terms(e, Reached(d))'
               /\ at'[d] = "store" => loaded'[d][e] = cells'[e]
    <3>1. Terms(e, Reached(d))' = Terms(e, Reached(d)')
      BY DEF Terms
    <3>. QED
      BY <2>1, <2>2, <2>3, <3>1
  <2>. QED
    BY <2>3 DEF CellsInv
<1>. QED
  BY <1>5, <1>6

\* A step after which the same calls own their blocks.
LEMMA SameOwners ==
  ASSUME BlocksInv, CellsInv, size' = size, cells' = cells,
         \A d \in Products : /\ Divides(d)' <=> Divides(d)
                             /\ Divides(d) => step'[d][1] = step[d][1] /\ functor'[d] = functor[d]
                             /\ IsOver(d)' <=> IsOver(d)
                             /\ at'[d] = "store" => \/ loaded'[d] = cells
                                                    \/ at[d] = "store" /\ loaded'[d] = loaded[d]
  PROVE  /\ BlocksInv' /\ CellsInv'
         /\ \A d \in Products : Owns(d)' => Owns(d) /\ OpOf(d)' = OpOf(d)
<1>1. ASSUME NEW d \in Products, Owns(d)'
      PROVE  Owns(d) /\ OpOf(d)' = OpOf(d)
  <2>1. CASE d = <<>>
    BY <1>1, <2>1, SameSize DEF Owns, OpOf
  <2>2. CASE d # <<>>
    <3>1. Front(d) \in Products
      BY <2>2, PartFacts
    <3>2. Divides(Front(d))' /\ Last(d)[1] = step'[Front(d)][1] /\ ~ Divides(d)'
      BY <1>1, <2>2 DEF Owns
    <3>3. Divides(Front(d)) /\ step'[Front(d)][1] = step[Front(d)][1] /\ functor'[Front(d)] = functor[Front(d)]
      BY <3>1, <3>2
    <3>4. OpOf(d)' = OpOf(d)
      BY <2>2, <3>3, SameSize DEF OpOf
    <3>. QED
      BY <2>2, <3>2, <3>3, <3>4 DEF Owns
  <2>. QED
    BY <2>1, <2>2
<1>2. {} \in SUBSET {c \in Products : Owns(c)}
  OBVIOUS
<1>3. BlocksInv' /\ CellsInv'
  BY <1>1, <1>2, BlocksMove
<1>. QED
  BY <1>1, <1>3

\* The steps after which the same calls own their blocks, with the same terms.
LEMMA QuietSteps ==
  ASSUME MInv, BlocksInv, CellsInv, NEW c \in Products,
         \/ TakeTask(c) \/ Spawn(c) \/ CallInline(c) \/ Returned(c) \/ Load(c) \/ NotifyTask(c)
         \/ Enter(c) /\ at'[c] = "load"
         \/ Wait(c) /\ at'[c] = "wait"
  PROVE  BlocksInv' /\ CellsInv'
<1> DEFINE Quiet(d) == /\ Divides(d)' <=> Divides(d)
                       /\ Divides(d) => step'[d][1] = step[d][1] /\ functor'[d] = functor[d]
                       /\ IsOver(d)' <=> IsOver(d)
                       /\ at'[d] = "store" => \/ loaded'[d] = cells
                                              \/ at[d] = "store" /\ loaded'[d] = loaded[d]
<1>1. at \in [Products -> Places] /\ step \in [Products -> Labels] /\ size.dim \in Nat
  BY HalvingFacts DEF MInv, MTypeOK
<1>2. CASE TakeTask(c) \/ NotifyTask(c) \/ (Enter(c) /\ at'[c] = "load")
  <2>1. ASSUME NEW d \in Products
        PROVE  Quiet(d)
    BY <1>1, <1>2 DEF TakeTask, NotifyTask, Enter, Divides, IsOver
  <2>2. size' = size /\ cells' = cells
    BY <1>2 DEF TakeTask, NotifyTask, Enter
  <2>. QED
    BY <2>1, <2>2, SameOwners
<1>3. CASE Load(c)
  <2>1. ASSUME NEW d \in Products
        PROVE  Quiet(d)
    <3>1. loaded'[d] = cells \/ (loaded'[d] = loaded[d] /\ d # c)
      BY <1>3 DEF Load, MInv, MTypeOK
    <3>. QED
      BY <1>1, <1>3, <3>1 DEF Load, Divides, IsOver
  <2>2. size' = size /\ cells' = cells
    BY <1>3 DEF Load
  <2>. QED
    BY <2>1, <2>2, SameOwners
<1>4. CASE Spawn(c) \/ CallInline(c)
  <2> DEFINE k == Child(c)
  <2>1. at[c] = "spawn" /\ CallFunctor(c) /\ UNCHANGED <<size, cells, loaded>>
    BY <1>4 DEF Spawn, CallInline
  <2>2. k \in Products /\ k \in Parts /\ k # c /\ Front(k) = c /\ Last(k) = step[c] /\ step[c] \in Labels
    BY <2>1, ChildOf DEF Divides
  <2>3. at[k] = "none"
    <3>1. ~ Begun(c, step[c])
      <4>1. step[c][1] \in Nat /\ step[c][2] \in Nat
        BY <2>2 DEF Labels, Quadrants
      <4>. QED
        BY <2>1, <4>1 DEF Begun
    <3>. QED
      BY <2>2, <3>1 DEF MInv, PartsInv
  <2>4. at'[k] \in {"queued", "enter"} /\ at'[c] \in {"spawn", "called"}
        /\ \A d \in Products : d # k /\ d # c => at'[d] = at[d]
    <3>1. CASE Spawn(c)
      BY <1>1, <2>1, <2>2, <3>1 DEF Spawn
    <3>2. CASE CallInline(c)
      BY <1>1, <2>1, <2>2, <3>2 DEF CallInline
    <3>. QED
      BY <1>4, <3>1, <3>2
  <2>5. \A d \in Products : step'[d][1] = step[d][1]
    <3>1. CASE Spawn(c)
      BY <1>1, <3>1 DEF Spawn, Labels
    <3>2. CASE CallInline(c)
      BY <3>2 DEF CallInline
    <3>. QED
      BY <1>4, <3>1, <3>2
  <2>6. \A d \in Products : d # k => functor'[d] = functor[d]
    BY <2>1, <2>2 DEF CallFunctor, MInv, MTypeOK
  <2> HIDE DEF k
  <2>7. ASSUME NEW d \in Products
        PROVE  Quiet(d)
    BY <2>1, <2>3, <2>4, <2>5, <2>6 DEF Divides, IsOver
  <2>. QED
    BY <2>1, <2>7, SameOwners
<1>5. CASE Returned(c) \/ (Wait(c) /\ at'[c] = "wait")
  <2>1. UNCHANGED <<size, functor, cells, loaded>> /\ Divides(c)
    BY <1>5 DEF Returned, Wait, Divides
  <2>2. at'[c] = "wait" /\ \A d \in Products : d # c => at'[d] = at[d]
    BY <1>1, <1>5 DEF Returned, Wait
  <2>3. \A d \in Products : step'[d][1] = step[d][1]
    <3>1. CASE Returned(c)
      BY <1>1, <3>1 DEF Returned, Labels
    <3>2. CASE Wait(c) /\ at'[c] = "wait"
      <4>1. step' = [step EXCEPT ![c][2] = @ + 1]
        BY <1>1, <3>2 DEF Wait
      <4>. QED
        BY <1>1, <4>1 DEF Labels
    <3>. QED
      BY <1>5, <3>1, <3>2
  <2>4. ASSUME NEW d \in Products
        PROVE  Quiet(d)
    BY <2>1, <2>2, <2>3 DEF Divides, IsOver
  <2>. QED
    BY <2>1, <2>4, SameOwners
<1>. QED
  BY <1>2, <1>3, <1>4, <1>5

\* Main leaves the blocks to the calls.
LEMMA ProgramBlocks ==
  ASSUME MInv, BlocksInv, CellsInv, ProgramStep
  PROVE  BlocksInv' /\ CellsInv'
<1>1. at \in [Products -> Places] /\ <<>> \in Products
  BY PartFacts DEF MInv, MTypeOK
<1>2. UNCHANGED <<size, step, cells, loaded>>
  BY DEF ProgramStep, ProgramInit, ProgramSpawn, ProgramWait, ProgramClear, ProgramReturn, ProgramJoin
<1>3. CASE UNCHANGED <<at, functor>>
  <2>1. \A d \in Products : /\ Divides(d)' <=> Divides(d)
                            /\ IsOver(d)' <=> IsOver(d)
    BY <1>3 DEF Divides, IsOver
  <2>. QED
    BY <1>2, <1>3, <2>1, SameOwners
<1>4. CASE ProgramSpawn
  <2>1. at[<<>>] = "none" /\ at' = [at EXCEPT ![<<>>] = "queued"]
    BY <1>4 DEF ProgramSpawn, MInv, ProgramInv
  <2>2. \A d \in Products : d # <<>> => functor'[d] = functor[d]
    BY <1>1, <1>4 DEF ProgramSpawn, MInv, MTypeOK
  <2>3. \A d \in Products : /\ Divides(d)' <=> Divides(d)
                            /\ Divides(d) => functor'[d] = functor[d]
                            /\ IsOver(d)' <=> IsOver(d)
                            /\ at'[d] = "store" => at[d] = "store"
    <3>1. at'[<<>>] = "queued" /\ \A d \in Products : d # <<>> => at'[d] = at[d]
      BY <1>1, <2>1
    <3> DEFINE o == <<>>
    <3> HIDE DEF o
    <3>. QED
      BY <2>1, <2>2, <3>1 DEF Divides, IsOver
  <2>. QED
    BY <1>2, <2>3, SameOwners
<1>. QED
  BY <1>3, <1>4 DEF ProgramStep, ProgramInit, ProgramWait, ProgramClear, ProgramReturn, ProgramJoin

\* A call in its base case adds its terms to its block only.
LEMMA StoreBlocks ==
  ASSUME MInv, BlocksInv, CellsInv, NEW c \in Products, Store(c)
  PROVE  BlocksInv' /\ CellsInv'
<1> DEFINE op == functor[c]
           Row(e) == (e - op.C.start) \div size.dim
           Column(e) == (e - op.C.start) % size.dim
           Sum(i, j) == [k \in 1 .. op.A.dim |-> <<Element(op.A, i, k - 1), Element(op.B, k - 1, j)>>]
<1>1. /\ at[c] = "store" /\ at' = [at EXCEPT ![c] = "left"]
      /\ cells' = [e \in DOMAIN cells |->
           IF e \in Elements(op.C) THEN loaded[c][e] \o Sum(Row(e), Column(e)) ELSE cells[e]]
      /\ loaded' = [loaded EXCEPT ![c] = <<>>]
      /\ UNCHANGED <<size, step, functor>>
  BY DEF Store
<1>2. at \in [Products -> Places] /\ size \in Sizes /\ DOMAIN cells = 0 .. size.dim * size.dim - 1
      /\ loaded = [d \in Products |-> loaded[d]]
  BY DEF MInv, MTypeOK
<1>3. size.dim \in Nat \ {0} /\ Dim(c) \in Nat \ {0}
  <2>1. Len(c) \in 0 .. MaxSplits
    BY PartFacts
  <2>2. size.dim \in Nat \ {0} /\ Dim(c) \in 1 .. size.dim
    BY <1>2, <2>1, HalvingFacts DEF Dim
  <2>. QED
    BY <2>2
<1>4. Owns(c) /\ op = OpOf(c) /\ IsOp(op, Dim(c))
  <2>1. c # <<>> => Divides(Front(c)) /\ Last(c)[1] = step[Front(c)][1]
    BY <1>1, CallersWait DEF Final
  <2>2. op = OpOf(c) /\ IsOp(op, Dim(c))
    BY <1>1 DEF MInv, OpInv
  <2>. QED
    BY <1>1, <2>1, <2>2 DEF Owns, Divides
<1>5. \A d \in Products : /\ Owns(d)' <=> Owns(d)
                          /\ OpOf(d)' = OpOf(d) /\ Block(d)' = Block(d)
  <2>1. \A d \in Products : Divides(d)' <=> Divides(d)
    BY <1>1, <1>2 DEF Divides
  <2>2. \A d \in Products : OpOf(d)' = OpOf(d)
    BY <1>1, SameSize DEF OpOf
  <2>3. ASSUME NEW d \in Products
        PROVE  Owns(d)' <=> Owns(d)
    <3>1. d # <<>> => Front(d) \in Products
      BY PartFacts
    <3>. QED
      BY <1>1, <2>1, <3>1 DEF Owns
  <2>4. \A d \in Products : Block(d)' = Block(d)
    BY <1>1, <2>2, SameSize DEF Block
  <2>. QED
    BY <2>2, <2>3, <2>4
<1>6. BlocksInv'
  BY <1>5 DEF BlocksInv
<1>7. Block(c) = Elements(op.C)
  BY <1>4 DEF Block
<1>8. ASSUME NEW d \in Products, d # c, Owns(d), NEW e, e \in Block(d)
      PROVE  /\ cells'[e] = Terms(e, Reached(d))
             /\ at'[d] = "store" => loaded'[d][e] = cells'[e]
             /\ Reached(d)' = Reached(d)
  <2>1. e \notin Elements(op.C)
    BY <1>4, <1>7, <1>8 DEF BlocksInv
  <2>2. e \in DOMAIN cells
    <3>1. PICK h \in Nat \ {0} : IsOp(OpOf(d), h)
      <4>1. CASE d = <<>>
        <5>1. OpOf(d) = OpAt(size.dim, 0, 0, 0)
          <6>1. 0 * size.dim + 0 = 0
            BY <1>3
          <6>. QED
            BY <4>1, <6>1 DEF OpOf, OpAt, Whole
        <5>2. 0 \in 0 .. size.dim - size.dim
          BY <1>3
        <5>3. IsOp(OpOf(d), size.dim)
          BY <5>1, <5>2 DEF IsOp
        <5>. QED
          BY <1>3, <5>3
      <4>2. CASE d # <<>>
        <5>1. d \in Parts /\ Front(d) \in Products /\ Divides(Front(d)) /\ Last(d) \in Labels
          BY <1>8, <4>2, PartFacts DEF Owns
        <5>2. PICK h \in Nat \ {0} : IsOp(functor[Front(d)], 2 * h)
          BY <5>1, ChildOf
        <5>3. OpOf(d) = Functor(functor[Front(d)], Last(d))
          BY <4>2 DEF OpOf
        <5>. QED
          BY <1>3, <5>1, <5>2, <5>3, PartIsOp
      <4>. QED
        BY <4>1, <4>2
    <3> DEFINE x == OpOf(d)
    <3>2. IsOp(x, h) /\ e \in Elements(x.C)
      BY <1>8, <3>1 DEF Block
    <3> HIDE DEF x
    <3>3. e \in 0 .. size.dim * size.dim - 1
      BY <1>3, <3>2, StoreFacts
    <3>. QED
      BY <1>2, <3>3
  <2>3. cells'[e] = cells[e]
    BY <1>1, <2>1, <2>2
  <2>4. at'[d] = at[d] /\ loaded'[d] = loaded[d]
    BY <1>1, <1>2, <1>8
  <2>5. Reached(d)' = Reached(d)
    BY <1>1, <1>5, <2>4, SameSize DEF Reached
  <2>. QED
    BY <1>8, <2>3, <2>4, <2>5 DEF CellsInv
<1>9. ASSUME NEW e, e \in Block(c)
      PROVE  cells'[e] = Terms(e, Reached(c)') /\ at'[c] # "store"
  <2> DEFINE m == op.A.start % size.dim
  <2>1. /\ op.A.dim = Dim(c)
        /\ Terms(e, m) \o Sum(Row(e), Column(e)) = Terms(e, m + Dim(c))
        /\ e \in 0 .. size.dim * size.dim - 1 /\ m \in Nat
    <3> DEFINE o == op
    <3>1. IsOp(o, Dim(c)) /\ e \in Elements(o.C)
      BY <1>4, <1>7, <1>9
    <3> HIDE DEF o
    <3>2. /\ o.A.dim = Dim(c)
          /\ Terms(e, o.A.start % size.dim) \o
               [k \in 1 .. Dim(c) |-> <<Element(o.A, (e - o.C.start) \div size.dim, k - 1),
                                        Element(o.B, k - 1, (e - o.C.start) % size.dim)>>]
               = Terms(e, (o.A.start % size.dim) + Dim(c))
          /\ e \in 0 .. size.dim * size.dim - 1 /\ o.A.start % size.dim \in Nat
      BY <1>3, <3>1, StoreFacts
    <3>. QED
      BY <3>2 DEF o
  <2>2. cells'[e] = loaded[c][e] \o Sum(Row(e), Column(e))
    BY <1>1, <1>2, <1>7, <1>9, <2>1
  <2>3. Reached(c) = m
    <3>1. at[c] \notin {"left", "done"} /\ Reached(c) = m + 0
      BY <1>1, <1>4 DEF Reached
    <3> HIDE DEF m
    <3>. QED
      BY <2>1, <3>1
  <2>4. loaded[c][e] = Terms(e, m)
    BY <1>1, <1>4, <1>9, <2>3 DEF CellsInv
  <2>5. at'[c] = "left"
    BY <1>1, <1>2
  <2>6. Reached(c)' = m + Dim(c)
    BY <1>1, <1>4, <1>5, <2>5, SameSize DEF Reached
  <2>. QED
    BY <2>1, <2>2, <2>4, <2>5, <2>6
<1>10. CellsInv'
  <2>1. ASSUME NEW d \in Products, Owns(d)', NEW e, e \in Block(d)'
        PROVE  /\ cells'[e] = Terms(e, Reached(d))'
               /\ at'[d] = "store" => loaded'[d][e] = cells'[e]
    <3>1. Owns(d) /\ e \in Block(d)
      BY <1>5, <2>1
    <3>2. Terms(e, Reached(d))' = Terms(e, Reached(d)')
      BY <1>1 DEF Terms
    <3>. QED
      BY <1>8, <1>9, <3>1, <3>2
  <2>. QED
    BY <2>1 DEF CellsInv
<1>. QED
  BY <1>6, <1>10

\* The blocks of the parts of a call.
LEMMA QuarterBlocks ==
  ASSUME MInv, NEW c \in Products, Splits(c), at[c] # "none"
  PROVE  LET h == Dim(Child(c))
             m == OpOf(c).A.start % size.dim
         IN  /\ h \in Nat /\ m \in Nat /\ Dim(c) = 2 * h
             /\ \A l \in Labels : Append(c, l) \in Parts /\ Front(Append(c, l)) = c /\ Last(Append(c, l)) = l
             /\ \A d \in Parts : Front(d) = c =>
                  /\ Last(d) \in Labels /\ d = Append(c, Last(d)) /\ Dim(d) = h
                  /\ Block(d) \subseteq Block(c)
                  /\ OpOf(d).A.start % size.dim = m + Ahead(Last(d)[1], h)
             /\ \A d, k \in Parts : Front(d) = c /\ Front(k) = c /\ Last(d)[2] # Last(k)[2] =>
                  Block(d) \cap Block(k) = {}
             /\ \A q \in Quadrants : Block(Append(c, <<1, q>>)) = Block(Append(c, <<2, q>>))
             /\ \A e \in Block(c) : \E q \in Quadrants : \A b \in {1, 2} : e \in Block(Append(c, <<b, q>>))
<1> DEFINE h == Dim(Child(c))
           op == functor[c]
           m == op.A.start % size.dim
<1>1. /\ h \in Nat \ {0} /\ Dim(c) = 2 * h
      /\ \A l \in Labels : Append(c, l) \in Parts /\ Dim(Append(c, l)) = h
      /\ op = OpOf(c) /\ IsOp(op, 2 * h) /\ size.dim \in Nat \ {0} /\ Len(c) < MaxSplits
  BY ChildOf
<1>2. \A l \in Labels : /\ Front(Append(c, l)) = c /\ Last(Append(c, l)) = l /\ Append(c, l) # <<>>
  BY <1>1, PartOf
<1>3. \A l \in Labels : OpOf(Append(c, l)) = Functor(op, l)
  BY <1>2 DEF OpOf
<1>4. \A d \in Parts : Front(d) = c => Last(d) \in Labels /\ d = Append(c, Last(d))
  BY PartFacts
<1> HIDE DEF h, op
<1>5. /\ \A l \in Labels : Elements(Functor(op, l).C) \subseteq Elements(op.C)
      /\ \A l, k \in Labels : l[2] # k[2] => Elements(Functor(op, l).C) \cap Elements(Functor(op, k).C) = {}
      /\ \A e \in Elements(op.C) : \E q \in Quadrants : \A b \in {1, 2} : e \in Elements(Functor(op, <<b, q>>).C)
      /\ \A l \in Labels : Functor(op, l).A.start % size.dim = (op.A.start % size.dim) + Ahead(l[1], h)
      /\ op.A.start % size.dim \in Nat
      /\ \A q \in Quadrants : Functor(op, <<1, q>>).C = Functor(op, <<2, q>>).C
  <2> HIDE DEF m
  <2>1. size.dim \in Nat \ {0} /\ h \in Nat \ {0} /\ IsOp(op, 2 * h)
    BY <1>1
  <2>. QED
    BY <2>1, QuarterFacts
<1>6. m \in Nat /\ \A l \in Labels : Functor(op, l).A.start % size.dim = m + Ahead(l[1], h)
  BY <1>5
<1> HIDE DEF m
<1>7. Block(c) = Elements(op.C) /\ \A l \in Labels : Block(Append(c, l)) = Elements(Functor(op, l).C)
  BY <1>1, <1>3 DEF Block
<1>8. \A b \in {1, 2}, q \in Quadrants : <<b, q>> \in Labels
  BY LabelFacts
<1>9. ASSUME NEW d \in Parts, Front(d) = c
      PROVE  /\ Last(d) \in Labels /\ d = Append(c, Last(d)) /\ Dim(d) = h
             /\ Block(d) \subseteq Block(c)
             /\ OpOf(d).A.start % size.dim = m + Ahead(Last(d)[1], h)
  <2> DEFINE l == Last(d)
  <2>1. l \in Labels /\ d = Append(c, l)
    BY <1>4, <1>9
  <2> HIDE DEF l
  <2>2. Dim(d) = h /\ Block(d) \subseteq Block(c) /\ OpOf(d) = Functor(op, l)
    BY <1>1, <1>3, <1>5, <1>7, <2>1
  <2>. QED
    BY <1>6, <2>1, <2>2 DEF l
<1>10. ASSUME NEW d \in Parts, NEW k \in Parts, Front(d) = c, Front(k) = c, Last(d)[2] # Last(k)[2]
      PROVE  Block(d) \cap Block(k) = {}
  <2> DEFINE x == Last(d)
             y == Last(k)
  <2>1. x \in Labels /\ y \in Labels /\ d = Append(c, x) /\ k = Append(c, y) /\ x[2] # y[2]
    BY <1>4, <1>10
  <2> HIDE DEF x, y
  <2>. QED
    BY <1>5, <1>7, <2>1
<1>11. \A q \in Quadrants : Block(Append(c, <<1, q>>)) = Block(Append(c, <<2, q>>))
  BY <1>5, <1>7, <1>8
<1>12. \A e \in Block(c) : \E q \in Quadrants : \A b \in {1, 2} : e \in Block(Append(c, <<b, q>>))
  BY <1>5, <1>7, <1>8
<1>. QED
  BY <1>1, <1>2, <1>9, <1>10, <1>6, <1>11, <1>12 DEF h, op, m

\* A call that divides hands its block to the parts of the first batch.
LEMMA EnterBlocks ==
  ASSUME MInv, MInv', BlocksInv, CellsInv, NEW c \in Products, Enter(c), at'[c] # "load"
  PROVE  BlocksInv' /\ CellsInv'
<1> DEFINE New == {d \in Parts : Front(d) = c /\ Last(d)[1] = 1}
<1>1. /\ at[c] = "enter" /\ at'[c] = "spawn" /\ \A d \in Products : d # c => at'[d] = at[d]
      /\ UNCHANGED <<size, step, functor, cells, loaded>>
  BY DEF Enter, MInv, MTypeOK
<1>2. step[c] = <<1, 1>>
  BY <1>1 DEF MInv, PlaceInv
<1>3. Splits(c)
  BY <1>1, SameSize DEF MInv, PlaceInv, Divides
<1>4. Owns(c)
  BY <1>1, CallersWait DEF Owns, Divides, Final
<1>5. \A d : OpOf(d)' = OpOf(d) /\ Block(d)' = Block(d) /\ Dim(d)' = Dim(d)
  BY <1>1, SameSize DEF OpOf, Block
<1>6. ASSUME NEW d \in Products, Owns(d)', d \notin New
      PROVE  Owns(d) /\ d # c
  <2>1. d # c
    BY <1>1, <1>6 DEF Owns, Divides
  <2>2. ~ Divides(d)
    BY <1>1, <1>6, <2>1 DEF Owns, Divides
  <2>3. CASE d # <<>>
    <3>1. d \in Parts /\ Front(d) \in Products
      BY <2>3, PartFacts
    <3>2. Divides(Front(d))' /\ Last(d)[1] = step[Front(d)][1]
      BY <1>1, <1>6, <2>3 DEF Owns
    <3>3. Front(d) # c
      BY <1>2, <1>6, <3>1, <3>2
    <3>. QED
      BY <1>1, <2>1, <2>2, <3>1, <3>2, <3>3 DEF Owns, Divides
  <2>. QED
    BY <2>1, <2>2, <2>3 DEF Owns
<1>7. ASSUME NEW d \in New
      PROVE  at[d] = "none" /\ at'[d] = "none" /\ d \in Parts /\ Front(d) = c /\ Last(d)[1] = 1
  <2>1. d \in Parts /\ Front(d) = c /\ Last(d)[1] = 1 /\ d \in Products /\ d # c
    BY PartFacts
  <2>2. at[d] = "none"
    BY <1>1, <2>1 DEF MInv, PartsInv, Begun
  <2>. QED
    BY <1>1, <2>1, <2>2
<1> HIDE DEF New
<1>8. ASSUME NEW d \in New
      PROVE  /\ \A e \in Block(d)' : e \in Block(c)
             /\ Reached(c) = Reached(d)'
  <2>1. Block(d)' = Block(d) /\ Block(d) \subseteq Block(c)
    BY <1>1, <1>3, <1>5, <1>7, QuarterBlocks
  <2> DEFINE m == OpOf(c).A.start % size.dim
  <2>2. m \in Nat /\ OpOf(d).A.start % size.dim = m + 0
    BY <1>1, <1>3, <1>7, QuarterBlocks DEF Ahead
  <2>3. Reached(c) = m + 0
    BY <1>1 DEF Reached
  <2>4. Reached(d)' = (OpOf(d).A.start % size.dim) + 0
    BY <1>1, <1>5, <1>7 DEF Reached
  <2> HIDE DEF m
  <2>5. Reached(d)' = m
    BY <2>2, <2>4
  <2>. QED
    BY <2>1, <2>2, <2>3, <2>5
<1>9. ASSUME NEW d \in New, NEW k \in New, d # k
      PROVE  Block(d)' \cap Block(k)' = {}
  <2>1. Last(d)[2] # Last(k)[2]
    <3>1. Last(d) \in Labels /\ d = Append(c, Last(d)) /\ Last(k) \in Labels /\ k = Append(c, Last(k))
      BY <1>7, PartFacts
    <3>2. Last(d)[1] = Last(k)[1]
      BY <1>7
    <3>3. Last(d) # Last(k)
      BY <1>9, <3>1
    <3>. QED
      BY <3>1, <3>2, <3>3, LabelFacts
  <2>2. Block(d) \cap Block(k) = {}
    BY <1>1, <1>3, <1>7, <2>1, QuarterBlocks
  <2>. QED
    BY <1>5, <2>2
<1> DEFINE Old == {c}
<1>10. Old \in SUBSET {d \in Products : Owns(d)}
  BY <1>4
<1>11. \A d \in Products : Owns(d)' /\ d \notin New =>
         /\ Owns(d) /\ d \notin Old /\ OpOf(d)' = OpOf(d) /\ (IsOver(d)' <=> IsOver(d))
         /\ at'[d] = "store" => at[d] = "store" /\ loaded'[d] = loaded[d]
  BY <1>1, <1>5, <1>6 DEF IsOver
<1>12. \A d \in New : \A e \in Block(d)' : \E k \in Old : e \in Block(k) /\ Reached(k) = Reached(d)'
  BY <1>8
<1>13. \A d \in New : at'[d] # "store"
  BY <1>7
<1> HIDE DEF Old
<1>. QED
  BY SMTT(30), <1>1, <1>9, <1>10, <1>11, <1>12, <1>13, BlocksMove

\* The second batch takes the blocks over from the first.
LEMMA BatchBlocks ==
  ASSUME MInv, BlocksInv, CellsInv, NEW c \in Products, Wait(c), at'[c] = "spawn"
  PROVE  BlocksInv' /\ CellsInv'
<1> DEFINE Old == {d \in Parts : Front(d) = c /\ Last(d)[1] = 1}
           New == {d \in Parts : Front(d) = c /\ Last(d)[1] = 2}
<1>1. /\ at[c] = "wait" /\ \A d \in Products : d # c => at'[d] = at[d] /\ step'[d] = step[d]
      /\ step[c] = <<1, 3>> /\ step'[c] = <<2, 1>>
      /\ UNCHANGED <<size, functor, cells, loaded>> /\ task[Handle(Child(c))] # "incomplete"
  BY DEF Wait, GlobalWait, MInv, MTypeOK
<1>2. Divides(c) /\ Splits(c) /\ at[c] # "none"
  BY <1>1 DEF MInv, PlaceInv, Divides
<1>3. \A d : OpOf(d)' = OpOf(d) /\ Block(d)' = Block(d) /\ Dim(d)' = Dim(d)
  BY <1>1, SameSize DEF OpOf, Block
<1>4. ASSUME NEW d \in Old
      PROVE  Owns(d) /\ IsOver(d) /\ d \in Parts /\ d \in Products /\ Front(d) = c /\ Last(d)[1] = 1
  <2>1. d \in Parts /\ d \in Products /\ Front(d) = c /\ Last(d)[1] = 1 /\ d # <<>> /\ Last(d) \in Labels
    BY PartFacts
  <2>2. Over(c, Last(d)) \/ Last(d) = step[c]
    <3>1. Last(d)[2] \in Quadrants
      BY <2>1, LabelFacts
    <3>2. Last(d)[2] = InPlace \/ Last(d)[2] < 3 \/ Last(d)[2] = 3
      BY <3>1 DEF Quadrants, InPlace
    <3>3. Last(d)[2] = 3 => Last(d) = step[c]
      BY <1>1, <2>1 DEF Labels
    <3>. QED
      BY <1>1, <2>1, <3>2, <3>3 DEF Over
  <2>3. at[d] = Final(d)
    BY <1>1, <2>1, <2>2, WaitPasses
  <2>4. ~ Divides(d) /\ IsOver(d)
    BY <2>3 DEF Divides, Final, IsOver
  <2>. QED
    BY <1>1, <1>2, <2>1, <2>4 DEF Owns
<1>5. ASSUME NEW d \in Products, Owns(d)', d \notin New
      PROVE  Owns(d) /\ d # c /\ d \notin Old
  <2>1. d # c
    BY <1>5 DEF Owns, Divides
  <2>2. ~ Divides(d)
    BY <1>1, <1>5, <2>1 DEF Owns, Divides
  <2>3. CASE d # <<>>
    <3>1. d \in Parts /\ Front(d) \in Products
      BY <2>3, PartFacts
    <3>2. Divides(Front(d))' /\ Last(d)[1] = step'[Front(d)][1]
      BY <1>5, <2>3 DEF Owns
    <3>3. Front(d) # c
      BY <1>1, <1>5, <3>1, <3>2
    <3>. QED
      BY <1>1, <2>1, <2>2, <3>1, <3>2, <3>3 DEF Owns, Divides
  <2>4. CASE d = <<>>
    BY <2>1, <2>2, <2>4 DEF Owns, Parts
  <2>. QED
    BY <2>3, <2>4
<1>6. ASSUME NEW d \in New
      PROVE  at'[d] = "none" /\ d \in Parts /\ Front(d) = c /\ Last(d)[1] = 2
  <2>1. d \in Parts /\ Front(d) = c /\ Last(d)[1] = 2 /\ d \in Products /\ d # c
    BY PartFacts
  <2>2. at[d] = "none"
    BY <1>1, <2>1 DEF MInv, PartsInv, Begun
  <2>. QED
    BY <1>1, <2>1, <2>2
<1>7. ASSUME NEW d \in New, NEW e \in Block(d)
      PROVE  \E k \in Old : e \in Block(k) /\ Reached(k) = Reached(d)'
  <2> DEFINE q == Last(d)[2]
             k == Append(c, <<1, q>>)
             m == OpOf(c).A.start % size.dim
             h == Dim(Child(c))
  <2>1. q \in Quadrants /\ Last(d) = <<2, q>> /\ d = Append(c, <<2, q>>)
    BY <1>6, PartFacts DEF Labels
  <2> HIDE DEF q
  <2>2. <<1, q>> \in Labels
    BY <2>1, LabelFacts
  <2>3. k \in Old /\ k \in Parts /\ Front(k) = c /\ Last(k)[1] = 1
    BY <1>2, <2>2, QuarterBlocks
  <2>4. e \in Block(k)
    BY <1>2, <2>1, QuarterBlocks
  <2> HIDE DEF k
  <2>5. /\ OpOf(k).A.start % size.dim = m + 0 /\ OpOf(d).A.start % size.dim = m + h
        /\ Dim(k) = h /\ h \in Nat /\ m \in Nat
    BY <1>2, <1>6, <2>3, QuarterBlocks DEF Ahead
  <2>6. Reached(k) = (OpOf(k).A.start % size.dim) + Dim(k)
    BY <1>4, <2>3 DEF Reached, IsOver
  <2>7. Reached(d)' = (OpOf(d).A.start % size.dim) + 0
    BY <1>1, <1>3, <1>6 DEF Reached
  <2> HIDE DEF m, h
  <2>8. Reached(k) = Reached(d)'
    BY <2>5, <2>6, <2>7
  <2>. QED
    BY <2>3, <2>4, <2>8
<1> HIDE DEF Old, New
<1>8. ASSUME NEW d \in New, NEW k \in New, d # k
      PROVE  Block(d)' \cap Block(k)' = {}
  <2>1. Last(d)[2] # Last(k)[2]
    <3>1. Last(d) \in Labels /\ d = Append(c, Last(d)) /\ Last(k) \in Labels /\ k = Append(c, Last(k))
      BY <1>6, PartFacts
    <3>2. Last(d)[1] = Last(k)[1]
      BY <1>6
    <3>3. Last(d) # Last(k)
      BY <1>8, <3>1
    <3>. QED
      BY <3>1, <3>2, <3>3, LabelFacts
  <2>2. Block(d) \cap Block(k) = {}
    BY <1>2, <1>6, <2>1, QuarterBlocks
  <2>. QED
    BY <1>3, <2>2
<1>9. Old \in SUBSET {d \in Products : Owns(d)}
  BY <1>4
<1>10. \A d \in Products : Owns(d)' /\ d \notin New =>
         /\ Owns(d) /\ d \notin Old /\ OpOf(d)' = OpOf(d) /\ (IsOver(d)' <=> IsOver(d))
         /\ at'[d] = "store" => at[d] = "store" /\ loaded'[d] = loaded[d]
  BY <1>1, <1>3, <1>5 DEF IsOver
<1>11. \A d \in New : \A e \in Block(d)' : \E k \in Old : e \in Block(k) /\ Reached(k) = Reached(d)'
  BY <1>3, <1>7
<1>12. \A d \in New : at'[d] # "store"
  BY <1>6
<1>. QED
  BY ZenonT(30), <1>1, <1>8, <1>9, <1>10, <1>11, <1>12, BlocksMove

\* When its second batch has ended, a call has its block back.
LEMMA JoinBlocks ==
  ASSUME MInv, BlocksInv, CellsInv, NEW c \in Products, Wait(c), at'[c] = "left"
  PROVE  BlocksInv' /\ CellsInv'
<1> DEFINE Old == {d \in Parts : Front(d) = c /\ Last(d)[1] = 2}
<1>1. /\ at[c] = "wait" /\ \A d \in Products : d # c => at'[d] = at[d]
      /\ step[c] = <<2, 3>>
      /\ UNCHANGED <<size, step, functor, cells, loaded>> /\ task[Handle(Child(c))] # "incomplete"
  BY DEF Wait, GlobalWait, MInv, MTypeOK
<1>2. Divides(c) /\ Splits(c) /\ at[c] # "none"
  BY <1>1 DEF MInv, PlaceInv, Divides
<1>3. \A d : OpOf(d)' = OpOf(d) /\ Block(d)' = Block(d) /\ Dim(d)' = Dim(d)
  BY <1>1, SameSize DEF OpOf, Block
<1>4. ASSUME NEW d \in Old
      PROVE  Owns(d) /\ IsOver(d) /\ d \in Parts /\ d \in Products /\ Front(d) = c /\ Last(d)[1] = 2
  <2>1. d \in Parts /\ d \in Products /\ Front(d) = c /\ Last(d)[1] = 2 /\ d # <<>> /\ Last(d) \in Labels
    BY PartFacts
  <2>2. Over(c, Last(d)) \/ Last(d) = step[c]
    <3>1. Last(d)[2] \in Quadrants
      BY <2>1, LabelFacts
    <3>2. Last(d)[2] = InPlace \/ Last(d)[2] < 3 \/ Last(d)[2] = 3
      BY <3>1 DEF Quadrants, InPlace
    <3>3. Last(d)[2] = 3 => Last(d) = step[c]
      BY <1>1, <2>1 DEF Labels
    <3>. QED
      BY <1>1, <2>1, <3>2, <3>3 DEF Over
  <2>3. at[d] = Final(d)
    BY <1>1, <2>1, <2>2, WaitPasses
  <2>4. ~ Divides(d) /\ IsOver(d)
    BY <2>3 DEF Divides, Final, IsOver
  <2>. QED
    BY <1>1, <1>2, <2>1, <2>4 DEF Owns
<1>5. ASSUME NEW d \in Products, Owns(d)', d # c
      PROVE  Owns(d) /\ d \notin Old
  <2>1. ~ Divides(d)
    BY <1>1, <1>5 DEF Owns, Divides
  <2>2. CASE d # <<>>
    <3>1. d \in Parts /\ Front(d) \in Products
      BY <2>2, PartFacts
    <3>2. Divides(Front(d))' /\ Last(d)[1] = step[Front(d)][1]
      BY <1>1, <1>5, <2>2 DEF Owns
    <3>3. Front(d) # c
      BY <3>2 DEF Divides
    <3>. QED
      BY <1>1, <2>1, <3>1, <3>2, <3>3 DEF Owns, Divides
  <2>3. CASE d = <<>>
    BY <2>1, <2>3 DEF Owns, Parts
  <2>. QED
    BY <2>2, <2>3
<1>6. ASSUME NEW e \in Block(c)
      PROVE  \E k \in Old : e \in Block(k) /\ Reached(k) = Reached(c)'
  <2> DEFINE m == OpOf(c).A.start % size.dim
             h == Dim(Child(c))
  <2>1. PICK q \in Quadrants : \A b \in {1, 2} : e \in Block(Append(c, <<b, q>>))
    <3>1. \A x \in Block(c) : \E q \in Quadrants : \A b \in {1, 2} : x \in Block(Append(c, <<b, q>>))
      BY <1>2, QuarterBlocks
    <3>. QED
      BY <3>1
  <2> DEFINE k == Append(c, <<2, q>>)
  <2>2. <<2, q>> \in Labels
    BY <2>1, LabelFacts
  <2>3. k \in Old /\ k \in Parts /\ Front(k) = c /\ Last(k)[1] = 2 /\ e \in Block(k)
    BY <1>2, <2>1, <2>2, QuarterBlocks
  <2> HIDE DEF k
  <2>4. /\ OpOf(k).A.start % size.dim = m + h
        /\ Dim(k) = h /\ h \in Nat /\ m \in Nat /\ Dim(c) = 2 * h
    BY <1>2, <2>3, QuarterBlocks DEF Ahead
  <2>5. Reached(k) = (OpOf(k).A.start % size.dim) + Dim(k)
    BY <1>4, <2>3 DEF Reached, IsOver
  <2>6. Reached(c)' = m + Dim(c)
    BY <1>1, <1>3 DEF Reached
  <2> HIDE DEF m, h
  <2>7. Reached(k) = Reached(c)'
    BY <2>4, <2>5, <2>6
  <2>. QED
    BY <2>3, <2>7
<1> HIDE DEF Old
<1> DEFINE New == {c}
<1>7. Old \in SUBSET {d \in Products : Owns(d)}
  BY <1>4
<1>8. \A d \in Products : Owns(d)' /\ d \notin New =>
         /\ Owns(d) /\ d \notin Old /\ OpOf(d)' = OpOf(d) /\ (IsOver(d)' <=> IsOver(d))
         /\ at'[d] = "store" => at[d] = "store" /\ loaded'[d] = loaded[d]
  BY <1>1, <1>3, <1>5 DEF IsOver
<1>9. \A d \in New : \A e \in Block(d)' : \E k \in Old : e \in Block(k) /\ Reached(k) = Reached(d)'
  BY <1>3, <1>6
<1>10. \A d \in New : at'[d] # "store"
  OBVIOUS
<1>11. \A d, k \in New : d # k => Block(d)' \cap Block(k)' = {}
  OBVIOUS
<1> HIDE DEF New
<1>. QED
  <2>1. size' = size /\ cells' = cells
    BY <1>1
  <2>. QED
    BY <1>7, <1>8, <1>9, <1>10, <1>11, <2>1, BlocksMove

\* At first the first call owns all of C, which is empty.
LEMMA BlocksInitially == MatMultInit => BlocksInv /\ CellsInv
<1> SUFFICES ASSUME MatMultInit
             PROVE  BlocksInv /\ CellsInv
  OBVIOUS
<1>1. /\ \A d \in Products : at[d] = "none"
      /\ cells = [e \in 0 .. size.dim * size.dim - 1 |-> <<>>] /\ size \in Sizes
  BY DEF MatMultInit
<1>2. \A d \in Products : Owns(d) => d = <<>>
  <2>1. ASSUME NEW d \in Products, d # <<>>
        PROVE  ~ Owns(d)
    <3>1. Front(d) \in Products
      BY <2>1, PartFacts
    <3>. QED
      BY <1>1, <2>1, <3>1 DEF Owns, Divides
  <2>. QED
    BY <2>1
<1>3. BlocksInv
  BY <1>2 DEF BlocksInv
<1>4. size.dim \in Nat \ {0}
  BY <1>1, HalvingFacts
<1> DEFINE o == <<>>
<1>5. o \in Products /\ OpOf(o) = OpAt(size.dim, 0, 0, 0) /\ OpOf(o).A.start = 0 /\ Block(o) = Elements(OpOf(o).C)
  <2>1. 0 * size.dim + 0 = 0
    BY <1>4
  <2>. QED
    BY <2>1, PartFacts DEF OpOf, OpAt, Whole, Matrix, Block
<1> HIDE DEF o
<1>6. IsOp(OpOf(o), size.dim)
  <2>1. 0 \in 0 .. size.dim - size.dim
    BY <1>4
  <2>. QED
    BY <1>5, <2>1 DEF IsOp
<1>7. Reached(o) = 0
  <2>1. 0 % size.dim = 0
    <3> DEFINE n == size.dim
    <3>1. n \in Nat \ {0}
      BY <1>4
    <3> HIDE DEF n
    <3>2. 0 % n = 0
      BY <3>1
    <3>. QED
      BY <3>2 DEF n
  <2>. QED
    BY <1>1, <1>5, <2>1 DEF Reached
<1>8. ASSUME NEW e \in Block(o)
      PROVE  cells[e] = Terms(e, Reached(o)) /\ at[o] # "store"
  <2> DEFINE op == OpOf(o)
  <2>1. IsOp(op, size.dim) /\ e \in Elements(op.C)
    BY <1>5, <1>6
  <2> HIDE DEF op
  <2>2. e \in 0 .. size.dim * size.dim - 1
    BY <1>4, <2>1, StoreFacts
  <2>3. Terms(e, 0) = <<>>
    <3>1. 1 .. 0 = {}
      OBVIOUS
    <3>. QED
      BY <3>1 DEF Terms
  <2>. QED
    BY <1>1, <1>5, <1>7, <2>2, <2>3
<1>9. CellsInv
  BY <1>2, <1>8 DEF CellsInv, o
<1>. QED
  BY <1>3, <1>9

\* Every step keeps the blocks apart, and the terms in them in order.
LEMMA BlocksPreserved == MInv /\ BlocksInv /\ CellsInv /\ [MatMultNext]_matmultVars => BlocksInv' /\ CellsInv'
<1> SUFFICES ASSUME MInv, BlocksInv, CellsInv, [MatMultNext]_matmultVars
             PROVE  BlocksInv' /\ CellsInv'
  OBVIOUS
<1>1. MInv'
  BY MPreserved
<1>2. CASE ProgramStep
  BY <1>2, ProgramBlocks
<1>3. ASSUME NEW c \in Products, ProductStep(c)
      PROVE  BlocksInv' /\ CellsInv'
  <2>1. at \in [Products -> Places]
    BY DEF MInv, MTypeOK
  <2>2. CASE TakeTask(c) \/ Spawn(c) \/ CallInline(c) \/ Returned(c) \/ Load(c) \/ NotifyTask(c)
    BY <2>2, QuietSteps
  <2>3. CASE Enter(c)
    BY <1>1, <2>3, QuietSteps, EnterBlocks
  <2>4. CASE Wait(c)
    <3>1. at'[c] \in {"wait", "spawn", "left"}
      BY <2>1, <2>4 DEF Wait
    <3>. QED
      BY <2>4, <3>1, QuietSteps, BatchBlocks, JoinBlocks
  <2>5. CASE Store(c)
    BY <2>5, StoreBlocks
  <2>. QED
    BY <1>3, <2>2, <2>3, <2>4, <2>5 DEF ProductStep
<1>4. CASE WakeRoot \/ UNCHANGED matmultVars
  <2>. UNCHANGED <<size, at, step, functor, cells, loaded>>
    BY <1>4 DEF WakeRoot, matmultVars
  <2>1. \A d \in Products : /\ Divides(d)' <=> Divides(d)
                            /\ IsOver(d)' <=> IsOver(d)
    BY DEF Divides, IsOver
  <2>. QED
    BY <2>1, SameOwners
<1>. QED
  BY <1>2, <1>3, <1>4 DEF MatMultNext, ProgramEnded

\* Elements that two calls write to at the same time, or a term that is lost,
\* added twice or out of order, cannot be: each call adds to a block that no
\* other has, and finds there what the ones before it have left
\* (matmult.cpp:15-33, 202-218, 268-306).
THEOREM ProductsAreRight == MatMultSpec => []ProductIsRight
<1> DEFINE Inv == MInv /\ BlocksInv /\ CellsInv
<1>1. ASSUME MInv, BlocksInv, CellsInv
      PROVE  ProductIsRight
  <2>1. ASSUME NEW c \in Products, at[c] = "store"
        PROVE  Owns(c) /\ Block(c) = Elements(functor[c].C)
    <3>1. c # <<>> => Divides(Front(c)) /\ Last(c)[1] = step[Front(c)][1]
      BY <1>1, <2>1, CallersWait DEF Final
    <3>2. functor[c] = OpOf(c)
      BY <1>1, <2>1 DEF MInv, OpInv
    <3>. QED
      BY <2>1, <3>1, <3>2 DEF Owns, Divides, Block
  <2>2. ASSUME NEW c \in Products, NEW d \in Products, at[c] = "store", at[d] = "store", c # d
        PROVE  Elements(functor[c].C) \cap Elements(functor[d].C) = {}
    <3>1. Owns(c) /\ Owns(d) /\ Block(c) = Elements(functor[c].C) /\ Block(d) = Elements(functor[d].C)
      BY <2>1, <2>2
    <3>. QED
      BY <1>1, <2>2, <3>1 DEF BlocksInv
  <2> DEFINE n == size.dim
  <2>3. ASSUME program \notin {"start", "spawn", "wait"}, NEW i \in 0 .. n - 1, NEW j \in 0 .. n - 1
        PROVE  cells[Element(Whole, i, j)] =
                 [k \in 1 .. n |-> <<Element(Whole, i, k - 1), Element(Whole, k - 1, j)>>]
    <3>1. n \in Nat \ {0} /\ Dim(<<>>) = n
      BY <1>1, HalvingFacts, PartFacts DEF MInv, MTypeOK, Dim
    <3> DEFINE e == i * n + j
    <3>2. /\ e \in Nat /\ e \div n = i /\ e % n = j
          /\ Element(Whole, i, j) = e
      <4>1. i \in Nat
        OBVIOUS
      <4>2. e \in Nat /\ e \div n = i /\ e % n = j
        <5> HIDE DEF n
        <5>. QED
          BY <3>1, <4>1, RowsAndColumns
      <4>3. Element(Whole, i, j) = 0 + i * n + j
        BY DEF Element, Whole, Matrix
      <4> HIDE DEF n
      <4>4. i * n \in Nat
        BY <3>1, <4>1
      <4> DEFINE p == i * n
      <4>5. p \in Nat /\ Element(Whole, i, j) = 0 + p + j /\ e = p + j
        BY <4>3, <4>4
      <4> HIDE DEF p, e
      <4>6. Element(Whole, i, j) = e
        BY <4>5
      <4>. QED
        BY <4>2, <4>6
    <3>3. at[<<>>] = "done" /\ <<>> \in Products
      BY <1>1, <2>3, PartFacts DEF MInv, MTypeOK, ProgramInv
    <3>4. Owns(<<>>)
      BY <3>3 DEF Owns, Divides
    <3>5. e \in Block(<<>>)
      <4>1. Block(<<>>) = {Element(Whole, x, y) : x, y \in 0 .. n - 1}
        BY DEF Block, OpOf, Elements, Whole, Matrix
      <4> HIDE DEF n, e
      <4>2. Element(Whole, i, j) \in Block(<<>>)
        BY <4>1
      <4>. QED
        BY <3>2, <4>2
    <3>6. Reached(<<>>) = n
      <4>1. Reached(<<>>) = (0 % n) + n
        BY <3>1, <3>3 DEF Reached, OpOf, Whole, Matrix
      <4> HIDE DEF n
      <4>. QED
        BY <3>1, <4>1
    <3>7. cells[e] = Terms(e, n)
      BY <1>1, <3>3, <3>4, <3>5, <3>6 DEF CellsInv
    <3>8. Terms(e, n) = [k \in 1 .. n |-> <<i * n + (k - 1), (k - 1) * n + j>>]
      BY <3>2 DEF Terms
    <3>9. ASSUME NEW k \in 1 .. n
          PROVE  /\ Element(Whole, i, k - 1) = i * n + (k - 1)
                 /\ Element(Whole, k - 1, j) = (k - 1) * n + j
      <4>1. /\ Element(Whole, i, k - 1) = 0 + i * n + (k - 1)
            /\ Element(Whole, k - 1, j) = 0 + (k - 1) * n + j
        BY DEF Element, Whole, Matrix
      <4> HIDE DEF n
      <4>2. i * n \in Nat /\ (k - 1) * n \in Nat
        <5> DEFINE g == k - 1
        <5>1. g \in Nat /\ i \in Nat
          BY <3>1
        <5> HIDE DEF g
        <5>2. i * n \in Nat /\ g * n \in Nat
          BY <3>1, <5>1
        <5>. QED
          BY <5>2 DEF g
      <4> DEFINE p == i * n
                 q == (k - 1) * n
      <4>3. p \in Nat /\ q \in Nat /\ Element(Whole, i, k - 1) = 0 + p + (k - 1) /\ Element(Whole, k - 1, j) = 0 + q + j
        BY <4>1, <4>2
      <4> HIDE DEF p, q
      <4>4. Element(Whole, i, k - 1) = p + (k - 1) /\ Element(Whole, k - 1, j) = q + j
        BY <3>1, <4>3
      <4>. QED
        BY <4>4 DEF p, q
    <3> HIDE DEF n, e
    <3>. QED
      BY <3>2, <3>7, <3>8, <3>9
  <2>. QED
    BY <2>2, <2>3 DEF ProductIsRight
<1>2. MatMultInit => Inv
  BY MInitially, BlocksInitially
<1>3. Inv /\ [MatMultNext]_matmultVars => Inv'
  BY MPreserved, BlocksPreserved
<1>4. Inv => ProductIsRight
  BY <1>1
<1>. QED
  BY <1>2, <1>3, <1>4, PTL DEF MatMultSpec
===============================================================================
