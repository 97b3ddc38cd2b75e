----------------------------- MODULE DataLemmas -----------------------------
(***************************************************************************)
(* What the proofs about the models need to know of finite sets put in     *)
(* order (the smallest element of an order, the largest number, the        *)
(* sequence that sorting a set of numbers gives) and of sequences: what is *)
(* concatenated, what holds of every sequence because it passes on when an *)
(* element is appended, what a step repeated a number of times comes to,   *)
(* and pieces of which each takes up where the one before it ends.         *)
(***************************************************************************)
EXTENDS FiniteSetsExt, SequencesExt, FiniteSetTheorems, FunctionTheorems,
        SequenceTheorems, WellFoundedInduction, TLAPS

\* A finite set has an element that no other precedes.
LEMMA MinimalElement ==
  ASSUME NEW S, IsFiniteSet(S), S # {}, NEW R,
         \A x \in S : <<x, x>> \notin R,
         \A x, y, z \in S : <<x, y>> \in R /\ <<y, z>> \in R => <<x, z>> \in R
  PROVE  \E m \in S : \A t \in S : <<t, m>> \notin R
<1> DEFINE Before(x) == {y \in S : <<y, x>> \in R}
           All == {Before(x) : x \in S}
<1>1. IsWellFoundedOn(StrictSubsetOrdering(S), FiniteSubsetsOf(S))
  BY FS_StrictSubsetOrderingWellFounded
<1>2. All \subseteq FiniteSubsetsOf(S)
  BY FS_Subset DEF FiniteSubsetsOf
<1>3. All # {}
  <2>1. PICK x \in S : TRUE
    OBVIOUS
  <2>2. Before(x) \in All
    OBVIOUS
  <2> QED BY <2>2
<1> HIDE DEF All
<1>4. PICK least \in All : \A B \in All : ~ (<<B, least>> \in StrictSubsetOrdering(S))
  BY <1>1, <1>2, <1>3, WFMin
<1>5. PICK m \in S : least = Before(m)
  BY DEF All
<1>6. ASSUME NEW t \in S, <<t, m>> \in R PROVE FALSE
  <2>1. Before(t) \subseteq Before(m)
    BY <1>6
  <2>2. t \in Before(m) /\ t \notin Before(t)
    BY <1>6
  <2>3. <<Before(t), Before(m)>> \in StrictSubsetOrdering(S)
    BY <2>1, <2>2 DEF StrictSubsetOrdering
  <2> QED BY <2>3, <1>4, <1>5 DEF All
<1> QED BY <1>6

\* The largest number of a set, as Max chooses it.
LEMMA MaxIsLargest ==
  ASSUME NEW S, IsFiniteSet(S), S # {}, S \subseteq Int
  PROVE  Max(S) \in S /\ \A x \in S : x <= Max(S)
<1> DEFINE R == {p \in S \X S : p[1] > p[2]}
<1>1. \A x, y \in S : <<x, y>> \in R <=> x > y
  OBVIOUS
<1> HIDE DEF R
<1>2. \A x \in S : <<x, x>> \notin R
  BY <1>1
<1>3. \A x, y, z \in S : <<x, y>> \in R /\ <<y, z>> \in R => <<x, z>> \in R
  BY <1>1
<1>4. PICK m \in S : \A t \in S : <<t, m>> \notin R
  BY <1>2, <1>3, MinimalElement
<1>5. ASSUME NEW x \in S PROVE x <= m
  <2>1. ~(x > m)
    BY <1>1, <1>4
  <2>2. x \in Int /\ m \in Int
    OBVIOUS
  <2> QED BY <2>1, <2>2
<1> QED BY <1>5 DEF Max

\* Every element of S has a place of its own, in the order R.
IsRanking(rank, S, R) ==
  /\ rank \in [S -> 1 .. Cardinality(S)]
  /\ \A i \in 1 .. Cardinality(S) : \E x \in S : rank[x] = i
  /\ \A x, y \in S : <<x, y>> \in R <=> rank[x] < rank[y]

\* The place of an element in a strict total order: how many there are up to it.
LEMMA Ranked ==
  ASSUME NEW S, IsFiniteSet(S), NEW R, NEW rank,
         \A x \in S : <<x, x>> \notin R,
         \A x, y, z \in S : <<x, y>> \in R /\ <<y, z>> \in R => <<x, z>> \in R,
         \A x, y \in S : x = y \/ <<x, y>> \in R \/ <<y, x>> \in R,
         rank = [x \in S |-> Cardinality({y \in S : y = x \/ <<y, x>> \in R})]
  PROVE  IsRanking(rank, S, R)
<1> DEFINE n == Cardinality(S)
           UpTo(x) == {y \in S : y = x \/ <<y, x>> \in R}
<1>1. n \in Nat
  BY FS_CardinalityType
<1>2. ASSUME NEW x \in S PROVE IsFiniteSet(UpTo(x)) /\ rank[x] \in 1 .. n
  <2>1. IsFiniteSet(UpTo(x)) /\ Cardinality(UpTo(x)) <= n
    BY FS_Subset
  <2>2. UpTo(x) # {}
    OBVIOUS
  <2> HIDE DEF UpTo
  <2>3. Cardinality(UpTo(x)) \in Nat /\ Cardinality(UpTo(x)) # 0
    BY <2>1, <2>2, FS_CardinalityType, FS_EmptySet
  <2>4. rank[x] = Cardinality(UpTo(x))
    BY DEF UpTo
  <2> QED BY <1>1, <2>1, <2>3, <2>4
<1>3. ASSUME NEW x \in S, NEW y \in S, <<x, y>> \in R PROVE rank[x] < rank[y]
  <2>1. UpTo(x) \subseteq UpTo(y)
    BY <1>3
  <2>2. y \in UpTo(y) /\ y \notin UpTo(x)
    BY <1>3
  <2>3. rank[x] = Cardinality(UpTo(x)) /\ rank[y] = Cardinality(UpTo(y))
    OBVIOUS
  <2>4. IsFiniteSet(UpTo(y))
    BY <1>2
  <2> HIDE DEF UpTo
  <2>5. Cardinality(UpTo(x)) <= Cardinality(UpTo(y)) /\ Cardinality(UpTo(x)) # Cardinality(UpTo(y))
    BY <2>1, <2>2, <2>4, FS_Subset
  <2>6. rank[x] \in Nat /\ rank[y] \in Nat
    BY <1>2
  <2> QED BY <2>3, <2>5, <2>6
<1>4. rank \in [S -> 1 .. n]
  <2>1. rank = [x \in S |-> rank[x]]
    OBVIOUS
  <2>2. \A x \in S : rank[x] \in 1 .. n
    BY <1>2
  <2> HIDE DEF n
  <2> QED BY <2>1, <2>2, Zenon
<1>5. ASSUME NEW x \in S, NEW y \in S, rank[x] < rank[y] PROVE <<x, y>> \in R
  <2>1. 1 .. n \subseteq Int
    OBVIOUS
  <2>2. rank[x] \in Int /\ rank[y] \in Int
    BY <1>2, <2>1, Zenon
  <2>3. x # y /\ ~(rank[y] < rank[x])
    BY <1>5, <2>2
  <2> QED BY <2>3, <1>3
<1>6. rank \in Injection(S, 1 .. n)
  <2>1. ASSUME NEW x \in S, NEW y \in S, rank[x] = rank[y] PROVE x = y
    <3>1. rank[x] \in Int /\ ~(rank[x] < rank[y]) /\ ~(rank[y] < rank[x])
      BY <1>2, <2>1
    <3> QED BY <3>1, <1>3
  <2> HIDE DEF n
  <2> QED BY <1>4, <2>1, Fun_IsInj
<1>7. IsFiniteSet(1 .. n) /\ Cardinality(1 .. n) = n
  BY <1>1, FS_Interval
<1>8. rank \in Surjection(S, 1 .. n)
  BY <1>6, <1>7, FS_Injection
<1>9. ASSUME NEW i \in 1 .. n PROVE \E x \in S : rank[x] = i
  <2> HIDE DEF n
  <2> QED BY <1>8 DEF Surjection
<1> QED BY <1>3, <1>4, <1>5, <1>9 DEF IsRanking

-----------------------------------------------------------------------------
\* Sequences without repetitions that share no element.
LEMMA InjectiveConcat ==
  ASSUME NEW S, NEW a \in Seq(S), NEW b \in Seq(S), IsInjective(a), IsInjective(b),
         Range(a) \cap Range(b) = {}
  PROVE  a \o b \in Seq(S) /\ IsInjective(a \o b) /\ Range(a \o b) = Range(a) \cup Range(b)
<1> DEFINE m == Len(a)
           n == Len(b)
           c == a \o b
<1>1. /\ m \in Nat /\ n \in Nat /\ DOMAIN a = 1 .. m /\ DOMAIN b = 1 .. n
  BY LenProperties
<1>2. /\ c \in Seq(S) /\ Len(c) = m + n
      /\ \A i \in 1 .. m + n : c[i] = IF i <= m THEN a[i] ELSE b[i - m]
  BY ConcatProperties
<1>3. DOMAIN c = 1 .. m + n
  BY <1>2, LenProperties
<1> HIDE DEF m, n, c
<1>4. ASSUME NEW i \in 1 .. m + n
      PROVE  \/ i \in 1 .. m /\ c[i] = a[i] /\ c[i] \in Range(a)
             \/ i - m \in 1 .. n /\ c[i] = b[i - m] /\ c[i] \in Range(b) /\ ~(i <= m)
  <2>1. CASE i <= m
    <3>1. i \in 1 .. m
      BY <1>1, <2>1
    <3> QED BY <1>1, <1>2, <2>1, <3>1 DEF Range
  <2>2. CASE ~(i <= m)
    <3>1. i - m \in 1 .. n
      BY <1>1, <2>2
    <3> QED BY <1>1, <1>2, <2>2, <3>1 DEF Range
  <2> QED BY <2>1, <2>2
<1>5. IsInjective(c)
  <2> SUFFICES ASSUME NEW i \in 1 .. m + n, NEW j \in 1 .. m + n, c[i] = c[j]
               PROVE  i = j
    BY <1>3 DEF IsInjective
  <2>1. CASE i <= m
    <3>1. i \in 1 .. m /\ c[i] = a[i] /\ c[i] \in Range(a)
      BY <1>4, <2>1
    <3>2. j \in 1 .. m /\ c[j] = a[j]
      BY <1>4, <3>1
    <3> QED BY <1>1, <3>1, <3>2 DEF IsInjective
  <2>2. CASE ~(i <= m)
    <3>1. i - m \in 1 .. n /\ c[i] = b[i - m] /\ c[i] \in Range(b)
      BY <1>1, <1>4, <2>2
    <3>2. j - m \in 1 .. n /\ c[j] = b[j - m]
      BY <1>4, <3>1
    <3>3. i - m = j - m
      BY <1>1, <3>1, <3>2 DEF IsInjective
    <3> QED BY <1>1, <3>3
  <2> QED BY <2>1, <2>2
<1>6. Range(c) \subseteq Range(a) \cup Range(b)
  BY <1>3, <1>4 DEF Range
<1>7. Range(a) \subseteq Range(c)
  <2> SUFFICES ASSUME NEW i \in 1 .. m PROVE a[i] \in Range(c)
    BY <1>1 DEF Range
  <2>1. i \in 1 .. m + n /\ i <= m
    BY <1>1
  <2> QED BY <1>2, <1>3, <2>1 DEF Range
<1>8. Range(b) \subseteq Range(c)
  <2> SUFFICES ASSUME NEW i \in 1 .. n PROVE b[i] \in Range(c)
    BY <1>1 DEF Range
  <2>1. i + m \in 1 .. m + n /\ ~(i + m <= m) /\ (i + m) - m = i
    BY <1>1
  <2> QED BY <1>2, <1>3, <2>1 DEF Range
<1> QED BY <1>2, <1>5, <1>6, <1>7, <1>8 DEF c

\* FlattenSeq has no definition by cases to unfold; what it yields for a sequence
\* is the last of the concatenations of its beginnings.
Beginnings(flat, seqs, S) ==
  /\ flat \in [0 .. Len(seqs) -> Seq(S)] /\ flat[0] = <<>>
  /\ \A i \in 1 .. Len(seqs) : flat[i] = flat[i - 1] \o seqs[i]

\* A fact that holds of 0 and passes on from a number to the next holds up to n.
LEMMA UpTo ==
  ASSUME NEW n \in Nat, NEW G, 0 \in G, \A i \in 0 .. n - 1 : i \in G => i + 1 \in G
  PROVE  \A i \in 0 .. n : i \in G
<1> DEFINE bad == {i \in 0 .. n : i \notin G}
           R == {p \in bad \X bad : p[1] < p[2]}
<1> SUFFICES ASSUME bad # {} PROVE FALSE
  OBVIOUS
<1>1. IsFiniteSet(bad)
  <2>1. IsFiniteSet(0 .. n)
    BY FS_Interval
  <2> QED BY <2>1, FS_Subset
<1>2. \A x, y \in bad : <<x, y>> \in R <=> x < y
  OBVIOUS
<1>3. \A x \in bad : x \in 0 .. n /\ x \notin G
  OBVIOUS
<1>4. \A x \in 0 .. n : x \notin G => x \in bad
  OBVIOUS
<1> HIDE DEF bad, R
<1>5. \A x \in bad : <<x, x>> \notin R
  BY <1>2, <1>3
<1>6. \A x, y, z \in bad : <<x, y>> \in R /\ <<y, z>> \in R => <<x, z>> \in R
  BY <1>2, <1>3
<1>7. PICK m \in bad : \A t \in bad : <<t, m>> \notin R
  BY <1>1, <1>5, <1>6, MinimalElement
<1>8. m \in 0 .. n /\ m # 0
  BY <1>3, <1>7
<1>9. m - 1 \in 0 .. n - 1 /\ m - 1 \in 0 .. n /\ m - 1 < m /\ (m - 1) + 1 = m
  BY <1>8
<1>10. m - 1 \notin bad
  BY <1>2, <1>7, <1>9
<1>11. m \in G
  BY <1>4, <1>9, <1>10
<1> QED BY <1>3, <1>7, <1>11

LEMMA EmptyConcat ==
  ASSUME NEW S, NEW s \in Seq(S)
  PROVE  <<>> \o s = s /\ s \o <<>> = s
BY ConcatEmptySeq

\* The concatenations of the beginnings, as the recursion of FlattenSeq has them.
LEMMA BeginningsExist ==
  ASSUME NEW S, NEW seqs \in Seq(Seq(S))
  PROVE  \E flat : Beginnings(flat, seqs, S)
<1> DEFINE n == Len(seqs)
           Begin(m, f) == /\ f \in [0 .. m -> Seq(S)] /\ f[0] = <<>>
                          /\ \A i \in 1 .. m : f[i] = f[i - 1] \o seqs[i]
           G == {m \in 0 .. n : \E f : Begin(m, f)}
<1>1. n \in Nat /\ \A i \in 1 .. n : seqs[i] \in Seq(S)
  BY LenProperties, ElementOfSeq
<1>2. 0 \in G
  <2>1. [i \in 0 .. 0 |-> <<>>] \in [0 .. 0 -> Seq(S)]
    BY EmptySeq
  <2> DEFINE f == [i \in 0 .. 0 |-> <<>>]
  <2>2. f[0] = <<>> /\ \A i \in 1 .. 0 : f[i] = f[i - 1] \o seqs[i]
    OBVIOUS
  <2>3. Begin(0, f)
    BY <2>1, <2>2
  <2> HIDE DEF Begin, f
  <2> QED BY <1>1, <2>3
<1>3. ASSUME NEW m \in 0 .. n - 1, m \in G PROVE m + 1 \in G
  <2> HIDE DEF n
  <2>1. PICK f : Begin(m, f)
    BY <1>3
  <2>2. m \in Nat /\ m \in 0 .. m /\ m + 1 \in 1 .. n /\ m + 1 \in 0 .. n
    BY <1>1
  <2> DEFINE h == [i \in 0 .. m + 1 |-> IF i = m + 1 THEN f[m] \o seqs[m + 1] ELSE f[i]]
  <2>3. f[m] \o seqs[m + 1] \in Seq(S)
    BY <1>1, <2>1, <2>2, ConcatProperties
  <2>4. \A i \in 0 .. m + 1 : h[i] = IF i = m + 1 THEN f[m] \o seqs[m + 1] ELSE f[i]
    OBVIOUS
  <2>5. h \in [0 .. m + 1 -> Seq(S)]
    <3>1. \A i \in 0 .. m + 1 : i # m + 1 => i \in 0 .. m
      BY <2>2
    <3> QED BY <2>1, <2>3, <3>1
  <2> HIDE DEF h
  <2>6. ASSUME NEW i \in 1 .. m + 1 PROVE h[i] = h[i - 1] \o seqs[i]
    <3>1. i - 1 \in 0 .. m /\ i - 1 \in 0 .. m + 1 /\ i - 1 # m + 1 /\ i \in 0 .. m + 1
      BY <2>2
    <3>2. h[i - 1] = f[i - 1]
      BY <2>4, <3>1
    <3>3. CASE i = m + 1
      <4>1. i - 1 = m
        BY <2>2, <3>3
      <4> QED BY <2>4, <3>1, <3>2, <3>3, <4>1
    <3>4. CASE i # m + 1
      <4>1. i \in 1 .. m
        BY <2>2, <3>4
      <4> QED BY <2>1, <2>4, <3>1, <3>2, <3>4, <4>1
    <3> QED BY <3>3, <3>4
  <2>7. h[0] = <<>>
    <3>1. 0 \in 0 .. m + 1 /\ 0 # m + 1
      BY <2>2
    <3> QED BY <2>1, <2>4, <3>1
  <2>8. Begin(m + 1, h)
    BY <2>5, <2>6, <2>7
  <2> HIDE DEF Begin
  <2> QED BY <2>2, <2>8
<1>4. n \in G
  <2> HIDE DEF G, n
  <2>1. \A i \in 0 .. n : i \in G
    BY <1>1, <1>2, <1>3, UpTo
  <2> QED BY <1>1, <2>1
<1> QED BY <1>4 DEF Beginnings

\* Two sequences have the same n first elements.
SameUpTo(s, t, n) ==
  /\ n \in Nat /\ Len(s) \in Nat /\ Len(t) \in Nat /\ n <= Len(s) /\ n <= Len(t)
  /\ \A i \in 1 .. n : s[i] = t[i]

LEMMA BeginningsAgree ==
  ASSUME NEW S, NEW s, NEW t, NEW f, NEW g, NEW n,
         Beginnings(f, s, S), Beginnings(g, t, S), SameUpTo(s, t, n)
  PROVE  f[n] = g[n]
<1>0. /\ n \in Nat /\ Len(s) \in Nat /\ Len(t) \in Nat /\ n <= Len(s) /\ n <= Len(t)
      /\ \A i \in 1 .. n : s[i] = t[i]
  BY DEF SameUpTo
<1> DEFINE G == {i \in 0 .. n : f[i] = g[i]}
<1>1. 0 \in G
  BY <1>0 DEF Beginnings
<1>2. ASSUME NEW i \in 0 .. n - 1, i \in G PROVE i + 1 \in G
  <2>1. /\ i + 1 \in 1 .. n /\ i + 1 \in 1 .. Len(s) /\ i + 1 \in 1 .. Len(t)
        /\ (i + 1) - 1 = i /\ i + 1 \in 0 .. n
    BY <1>0
  <2>2. f[i + 1] = f[i] \o s[i + 1] /\ g[i + 1] = g[i] \o t[i + 1]
    BY <2>1 DEF Beginnings
  <2> QED BY <1>0, <1>2, <2>1, <2>2
<1> HIDE DEF G
<1>3. \A i \in 0 .. n : i \in G
  BY <1>0, <1>1, <1>2, UpTo
<1>4. n \in G
  BY <1>0, <1>3
<1> QED BY <1>4 DEF G

\* FlattenSeq is the last beginning.
LEMMA FlattenIsLast ==
  ASSUME NEW S, NEW seqs \in Seq(Seq(S)), NEW flat, Beginnings(flat, seqs, S)
  PROVE  FlattenSeq(seqs) = flat[Len(seqs)]
<1> DEFINE n == Len(seqs)
           Next(g) == [i \in 1 .. n |-> IF i = 1 THEN seqs[i] ELSE g[i - 1] \o seqs[i]]
           c == CHOOSE g : g = Next(g)
           h == [i \in 1 .. n |-> flat[i]]
<1>1. n \in Nat /\ \A i \in 1 .. n : seqs[i] \in Seq(S)
  BY LenProperties, ElementOfSeq
<1>2. CASE n = 0
  <2>1. seqs = <<>>
    BY <1>2, EmptySeq
  <2>2. FlattenSeq(seqs) = <<>>
    BY <1>2, <2>1 DEF FlattenSeq
  <2> QED BY <1>2, <2>2 DEF Beginnings
<1>3. CASE n # 0
  <2>1. FlattenSeq(seqs) = c[n]
    BY <1>3 DEF FlattenSeq
  <2>2. h = Next(h)
    <3> HIDE DEF n
    <3>1. ASSUME NEW i \in 1 .. n PROVE h[i] = IF i = 1 THEN seqs[i] ELSE h[i - 1] \o seqs[i]
      <4>1. flat[i] = flat[i - 1] \o seqs[i]
        BY DEF Beginnings, n
      <4>2. CASE i = 1
        <5>1. flat[i - 1] = <<>>
          BY <4>2 DEF Beginnings
        <5> QED BY <1>1, <4>1, <4>2, <5>1, EmptyConcat
      <4>3. CASE i # 1
        <5>1. i - 1 \in 1 .. n
          BY <1>1, <4>3
        <5> QED BY <4>1, <4>3, <5>1
      <4> QED BY <4>2, <4>3
    <3> QED BY <3>1
  <2>3. c = Next(c)
    <3> HIDE DEF Next, h
    <3> QED BY <2>2
  <2> DEFINE f == [i \in 0 .. n |-> IF i = 0 THEN <<>> ELSE c[i]]
             G == {i \in 0 .. n : f[i] = flat[i]}
  <2>4. \A i \in 1 .. n : c[i] = IF i = 1 THEN seqs[i] ELSE c[i - 1] \o seqs[i]
    BY <2>3
  <2> HIDE DEF c, n, Next
  <2>5. 0 \in G
    BY <1>1 DEF Beginnings
  <2>6. ASSUME NEW i \in 0 .. n - 1, i \in G PROVE i + 1 \in G
    <3>1. i + 1 \in 1 .. n /\ i + 1 \in 0 .. n /\ (i + 1) - 1 = i /\ i + 1 # 0 /\ i \in 0 .. n
      BY <1>1
    <3>2. flat[i + 1] = flat[i] \o seqs[i + 1]
      BY <3>1 DEF Beginnings, n
    <3>3. f[i + 1] = c[i + 1] /\ f[i] = flat[i]
      BY <2>6, <3>1
    <3>4. c[i + 1] = IF i + 1 = 1 THEN seqs[i + 1] ELSE c[i] \o seqs[i + 1]
      BY <2>4, <3>1
    <3>5. CASE i = 0
      <4>1. flat[i] = <<>>
        BY <3>5 DEF Beginnings
      <4> QED BY <1>1, <3>1, <3>2, <3>3, <3>4, <3>5, <4>1, EmptyConcat
    <3>6. CASE i # 0
      <4>1. f[i] = c[i] /\ i + 1 # 1
        BY <3>1, <3>6
      <4> QED BY <3>1, <3>2, <3>3, <3>4, <4>1
    <3> QED BY <3>5, <3>6
  <2> HIDE DEF G
  <2>7. \A i \in 0 .. n : i \in G
    BY <1>1, <2>5, <2>6, UpTo
  <2>8. n \in G /\ n \in 0 .. n
    BY <1>1, <2>7
  <2>9. c[n] = flat[n]
    BY <1>3, <2>8 DEF G
  <2> QED BY <2>1, <2>9 DEF n
<1> QED BY <1>2, <1>3

LEMMA FlattenIsSeq ==
  ASSUME NEW S, NEW seqs \in Seq(Seq(S))
  PROVE  FlattenSeq(seqs) \in Seq(S)
<1>1. PICK flat : Beginnings(flat, seqs, S)
  BY BeginningsExist
<1>2. Len(seqs) \in 0 .. Len(seqs)
  <2>1. Len(seqs) \in Nat
    BY LenProperties
  <2> QED BY <2>1
<1>3. flat[Len(seqs)] \in Seq(S)
  BY <1>1, <1>2 DEF Beginnings
<1>4. FlattenSeq(seqs) = flat[Len(seqs)]
  BY <1>1, FlattenIsLast
<1> QED BY <1>3, <1>4

\* A sequence more is one more to concatenate.
LEMMA FlattenAppend ==
  ASSUME NEW S, NEW seqs \in Seq(Seq(S)), NEW s \in Seq(S)
  PROVE  FlattenSeq(Append(seqs, s)) = FlattenSeq(seqs) \o s
<1> DEFINE n == Len(seqs)
           more == Append(seqs, s)
<1>1. /\ n \in Nat /\ more \in Seq(Seq(S)) /\ Len(more) = n + 1 /\ more[n + 1] = s
      /\ \A i \in 1 .. n : more[i] = seqs[i]
  BY LenProperties, AppendProperties
<1> HIDE DEF n, more
<1>2. PICK f : Beginnings(f, seqs, S)
  BY BeginningsExist
<1>3. PICK g : Beginnings(g, more, S)
  BY <1>1, BeginningsExist
<1>4. f[n] = g[n]
  <2>1. n <= Len(seqs) /\ n <= Len(more) /\ Len(seqs) \in Nat /\ Len(more) \in Nat
    BY <1>1 DEF n
  <2>2. \A i \in 1 .. n : seqs[i] = more[i]
    BY <1>1
  <2>3. SameUpTo(seqs, more, n)
    BY <1>1, <2>1, <2>2 DEF SameUpTo
  <2> QED BY <1>2, <1>3, <2>3, BeginningsAgree
<1>5. g[n + 1] = g[n] \o s
  <2>1. n + 1 \in 1 .. Len(more) /\ (n + 1) - 1 = n
    BY <1>1
  <2> QED BY <1>1, <1>3, <2>1 DEF Beginnings
<1>6. FlattenSeq(seqs) = f[n] /\ FlattenSeq(more) = g[n + 1]
  BY <1>1, <1>2, <1>3, FlattenIsLast DEF n
<1> QED BY <1>4, <1>5, <1>6 DEF more

\* All elements of a sequence of sequences.
Elements(seqs) == UNION {Range(seqs[i]) : i \in DOMAIN seqs}

\* Sequences without repetitions, and no element in two of them.
Apart(seqs) ==
  /\ \A i \in DOMAIN seqs : IsInjective(seqs[i])
  /\ \A i, j \in DOMAIN seqs : i # j => Range(seqs[i]) \cap Range(seqs[j]) = {}

LEMMA FlattenApart ==
  ASSUME NEW S, NEW seqs \in Seq(Seq(S)), Apart(seqs)
  PROVE  IsInjective(FlattenSeq(seqs)) /\ Range(FlattenSeq(seqs)) = Elements(seqs)
<1> DEFINE n == Len(seqs)
           Before(m) == UNION {Range(seqs[i]) : i \in 1 .. m}
<1>1. n \in Nat /\ DOMAIN seqs = 1 .. n /\ \A i \in 1 .. n : seqs[i] \in Seq(S)
  BY LenProperties, ElementOfSeq
<1>2. PICK f : Beginnings(f, seqs, S)
  BY BeginningsExist
<1> DEFINE G == {m \in 0 .. n : IsInjective(f[m]) /\ Range(f[m]) = Before(m)}
<1>3. f[0] = <<>> /\ \A i \in 0 .. n : f[i] \in Seq(S)
  BY <1>2 DEF Beginnings
<1>4. 0 \in G
  <2>1. IsInjective(<<>>) /\ Range(<<>>) = {}
    BY EmptySeq DEF IsInjective, Range
  <2>2. Before(0) = {}
    OBVIOUS
  <2>3. 0 \in 0 .. n
    BY <1>1
  <2> HIDE DEF Before, n
  <2> QED BY <1>3, <2>1, <2>2, <2>3
<1>5. ASSUME NEW m \in 0 .. n - 1, m \in G PROVE m + 1 \in G
  <2> HIDE DEF n
  <2>1. /\ m \in 0 .. n /\ m + 1 \in 1 .. n /\ m + 1 \in 0 .. n /\ (m + 1) - 1 = m
        /\ \A i \in 1 .. m : i \in 1 .. n /\ i # m + 1
        /\ \A i \in 1 .. m + 1 : i \in 1 .. m \/ i = m + 1
        /\ \A i \in 1 .. m : i \in 1 .. m + 1
        /\ m + 1 \in 1 .. m + 1
    BY <1>1
  <2>2. f[m + 1] = f[m] \o seqs[m + 1]
    BY <1>2, <2>1 DEF Beginnings, n
  <2>3. f[m] \in Seq(S) /\ seqs[m + 1] \in Seq(S) /\ IsInjective(f[m]) /\ Range(f[m]) = Before(m)
    BY <1>1, <1>3, <1>5, <2>1
  <2>4. IsInjective(seqs[m + 1]) /\ Before(m) \cap Range(seqs[m + 1]) = {}
    BY <1>1, <2>1 DEF Apart
  <2>5. Before(m + 1) = Before(m) \cup Range(seqs[m + 1])
    BY <2>1
  <2> DEFINE a == f[m]
             b == seqs[m + 1]
  <2>6. a \in Seq(S) /\ b \in Seq(S) /\ IsInjective(a) /\ IsInjective(b) /\ Range(a) \cap Range(b) = {}
    BY <2>3, <2>4
  <2> HIDE DEF a, b, Before
  <2>7. IsInjective(a \o b) /\ Range(a \o b) = Range(a) \cup Range(b)
    BY <2>6, InjectiveConcat
  <2> QED BY <2>1, <2>2, <2>3, <2>5, <2>7 DEF a, b
<1> HIDE DEF G, Before, n
<1>6. \A i \in 0 .. n : i \in G
  BY <1>1, <1>4, <1>5, UpTo
<1>7. n \in G
  BY <1>1, <1>6
<1>8. FlattenSeq(seqs) = f[n]
  BY <1>2, FlattenIsLast DEF n
<1>9. Before(n) = Elements(seqs)
  BY <1>1 DEF Before, Elements
<1> QED BY <1>7, <1>8, <1>9 DEF G

\* What a sequence ends with.
LEMMA SuffixOfConcat ==
  ASSUME NEW S, NEW s \in Seq(S), NEW t \in Seq(S)
  PROVE  IsSuffix(t, s \o t)
<1> DEFINE m == Len(s)
           n == Len(t)
           u == s \o t
<1>1. /\ m \in Nat /\ n \in Nat /\ u \in Seq(S) /\ Len(u) = m + n
      /\ \A i \in 1 .. m + n : u[i] = IF i <= m THEN s[i] ELSE t[i - m]
  BY LenProperties, ConcatProperties
<1>2. \A i \in 1 .. n : t[i] \in S
  BY ElementOfSeq
<1>3. \A i \in 1 .. m + n : u[i] \in S
  BY <1>1, ElementOfSeq
<1> DEFINE rt == Reverse(t)
           ru == Reverse(u)
<1>4. rt = [i \in 1 .. n |-> t[(n - i) + 1]] /\ ru = [i \in 1 .. m + n |-> u[((m + n) - i) + 1]]
  BY <1>1 DEF Reverse
<1> HIDE DEF m, n, u, rt, ru
<1>5. rt \in Seq(S) /\ Len(rt) = n
  <2>1. \A i \in 1 .. n : (n - i) + 1 \in 1 .. n
    BY <1>1
  <2>2. rt \in [1 .. n -> S]
    BY <1>2, <1>4, <2>1
  <2> QED BY <1>1, <2>2, SeqDef, LenProperties
<1>6. ru \in Seq(S) /\ Len(ru) = m + n
  <2>1. \A i \in 1 .. m + n : ((m + n) - i) + 1 \in 1 .. m + n
    BY <1>1
  <2>2. ru \in [1 .. m + n -> S]
    BY <1>3, <1>4, <2>1
  <2>3. m + n \in Nat
    BY <1>1
  <2> QED BY <2>2, <2>3, SeqDef, LenProperties
<1>7. \A i \in 1 .. n : ru[i] = rt[i]
  <2> SUFFICES ASSUME NEW i \in 1 .. n PROVE ru[i] = rt[i]
    OBVIOUS
  <2>1. i \in 1 .. m + n /\ ((m + n) - i) + 1 \in 1 .. m + n /\ ~(((m + n) - i) + 1 <= m)
        /\ (((m + n) - i) + 1) - m = (n - i) + 1
    BY <1>1
  <2> QED BY <1>1, <1>4, <2>1
<1>8. n <= m + n
  BY <1>1
<1>9. SubSeq(rt, 1, n) = SubSeq(ru, 1, n)
  <2>1. SubSeq(rt, 1, n) = [i \in 1 .. n |-> rt[i]] /\ SubSeq(ru, 1, n) = [i \in 1 .. n |-> ru[i]]
    <3>1. (1 - 1) + 1 = 1
      OBVIOUS
    <3> QED BY <1>1, <1>5, <1>6, <1>8, SubSeqProperties
  <2> QED BY <1>7, <2>1
<1> QED BY <1>5, <1>6, <1>8, <1>9 DEF IsSuffix, IsPrefix, u, rt, ru, m, n

LEMMA EmptySuffix ==
  ASSUME NEW S, NEW s \in Seq(S)
  PROVE  IsSuffix(<<>>, s) /\ IsSuffix(s, s)
<1>1. <<>> \in Seq(S)
  BY EmptySeq
<1>2. s \o <<>> = s /\ <<>> \o s = s
  BY EmptyConcat
<1> QED BY <1>1, <1>2, SuffixOfConcat

-----------------------------------------------------------------------------
\* What holds of the empty sequence and passes on when an element is appended
\* holds of every sequence.
LEMMA ByAppending ==
  ASSUME NEW S, NEW G, <<>> \in G,
         \A t \in Seq(S) : \A x \in S : t \in G => Append(t, x) \in G
  PROVE  Seq(S) \subseteq G
<1> SUFFICES ASSUME NEW s \in Seq(S) PROVE s \in G
  OBVIOUS
<1> DEFINE n == Len(s)
           H == {m \in 0 .. n : SubSeq(s, 1, m) \in G}
<1>1. n \in Nat /\ s \in [1 .. n -> S] /\ \A i \in 1 .. n : s[i] \in S
  BY LenProperties, ElementOfSeq
<1>2. 0 \in H
  <2>1. SubSeq(s, 1, 0) = <<>>
    <3>1. 1 \in Int /\ 0 \in Int /\ 0 < 1
      OBVIOUS
    <3> QED BY <3>1, SubSeqEmpty
  <2>2. 0 \in 0 .. n
    BY <1>1
  <2>3. SubSeq(s, 1, 0) \in G
    BY <2>1
  <2> HIDE DEF n
  <2> QED BY <2>2, <2>3
<1>3. ASSUME NEW m \in 0 .. n - 1, m \in H PROVE m + 1 \in H
  <2>1. /\ m \in Nat /\ m \in 0 .. n /\ m + 1 \in 0 .. n /\ m + 1 \in 1 .. n
        /\ \A i \in 1 .. m : i \in 1 .. n
    BY <1>1
  <2> DEFINE t == SubSeq(s, 1, m)
  <2>2. s[m + 1] \in S /\ t \in Seq(S) /\ t \in G
    <3>1. \A i \in 1 .. m : s[i] \in S
      BY <1>1, <2>1
    <3>2. 1 \in Int /\ m \in Int
      BY <2>1
    <3>3. t \in Seq(S)
      BY <1>1, <2>1, <3>1, <3>2, SubSeqProperties
    <3> QED BY <1>1, <1>3, <2>1, <3>3
  <2>3. SubSeq(s, 1, m + 1) = t \o <<s[m + 1]>>
    <3>1. 1 \in 1 .. Len(s) /\ m + 1 \in 1 .. Len(s) /\ (m + 1) - 1 = m
      BY <2>1
    <3> QED BY <3>1, SubSeqRecursiveSecond
  <2>4. Append(t, s[m + 1]) = t \o <<s[m + 1]>>
    BY <2>2, AppendIsConcat
  <2>5. Append(t, s[m + 1]) \in G
    <3> HIDE DEF t
    <3> QED BY <2>2
  <2> HIDE DEF n, t
  <2> QED BY <2>1, <2>3, <2>4, <2>5
<1> HIDE DEF H
<1>4. \A m \in 0 .. n : m \in H
  <2> HIDE DEF n
  <2> QED BY <1>1, <1>2, <1>3, UpTo
<1>5. n \in H
  BY <1>1, <1>4
<1>6. SubSeq(s, 1, n) = s
  BY SubSeqFull
<1> QED BY <1>5, <1>6 DEF H

\* The sequences that F has for the elements of s, one after the other.
Flat(F, s) == FlattenSeq([i \in DOMAIN s |-> F[s[i]]])

\* Each element of S has a sequence over R.
Maps(F, S, R) == F \in [S -> Seq(R)]

LEMMA MappedIsSeq ==
  ASSUME NEW S, NEW R, NEW F, Maps(F, S, R), NEW s \in Seq(S)
  PROVE  [i \in DOMAIN s |-> F[s[i]]] \in Seq(Seq(R))
<1>1. Len(s) \in Nat /\ DOMAIN s = 1 .. Len(s) /\ \A i \in 1 .. Len(s) : s[i] \in S
  BY LenProperties, ElementOfSeq
<1>2. [i \in DOMAIN s |-> F[s[i]]] \in [1 .. Len(s) -> Seq(R)]
  BY <1>1 DEF Maps
<1> QED BY <1>1, <1>2, SeqDef

LEMMA FlatIsSeq ==
  ASSUME NEW S, NEW R, NEW F, Maps(F, S, R), NEW s \in Seq(S)
  PROVE  Flat(F, s) \in Seq(R)
BY MappedIsSeq, FlattenIsSeq DEF Flat

LEMMA FlatEmpty == ASSUME NEW F PROVE Flat(F, <<>>) = <<>>
<1>1. [i \in DOMAIN <<>> |-> F[<<>>[i]]] = <<>>
  OBVIOUS
<1>2. FlattenSeq(<<>>) = <<>>
  BY DEF FlattenSeq
<1> QED BY <1>1, <1>2 DEF Flat

LEMMA FlatAppend ==
  ASSUME NEW S, NEW R, NEW F, Maps(F, S, R), NEW s \in Seq(S), NEW x \in S
  PROVE  Flat(F, Append(s, x)) = Flat(F, s) \o F[x]
<1> DEFINE t == Append(s, x)
           a == [i \in DOMAIN s |-> F[s[i]]]
           b == [i \in DOMAIN t |-> F[t[i]]]
<1>1. /\ Len(s) \in Nat /\ DOMAIN s = 1 .. Len(s) /\ t \in Seq(S) /\ Len(t) = Len(s) + 1
      /\ DOMAIN t = 1 .. Len(s) + 1 /\ t[Len(s) + 1] = x /\ \A i \in 1 .. Len(s) : t[i] = s[i]
  BY LenProperties, AppendProperties
<1>2. a \in Seq(Seq(R)) /\ b \in Seq(Seq(R)) /\ F[x] \in Seq(R)
  <2> HIDE DEF t
  <2>1. a \in Seq(Seq(R))
    BY MappedIsSeq
  <2>2. b \in Seq(Seq(R))
    <3>1. t \in Seq(S)
      BY <1>1
    <3> QED BY <3>1, MappedIsSeq
  <2> QED BY <2>1, <2>2 DEF Maps
<1>3. DOMAIN a = 1 .. Len(s) /\ DOMAIN b = 1 .. Len(s) + 1
  BY <1>1
<1>4. Len(a) = Len(s) /\ Len(b) = Len(s) + 1
  <2> HIDE DEF a, b
  <2> QED BY <1>1, <1>2, <1>3, LenProperties
<1>5. /\ \A i \in 1 .. Len(s) : b[i] = a[i]
      /\ b[Len(s) + 1] = F[x]
  <2> HIDE DEF t
  <2> QED BY <1>1
<1> DEFINE c == Append(a, F[x])
<1>6. /\ c \in Seq(Seq(R)) /\ Len(c) = Len(s) + 1 /\ c[Len(s) + 1] = F[x]
      /\ \A i \in 1 .. Len(s) : c[i] = a[i]
  <2> HIDE DEF a
  <2> QED BY <1>2, <1>4, AppendProperties
<1> HIDE DEF a, b, c, t
<1>7. \A i \in 1 .. Len(s) + 1 : i \in 1 .. Len(s) \/ i = Len(s) + 1
  BY <1>1
<1>8. b = c
  <2>1. \A i \in 1 .. Len(b) : b[i] = c[i]
    BY <1>4, <1>5, <1>6, <1>7
  <2>2. Len(b) = Len(c)
    BY <1>4, <1>6
  <2> QED BY <1>2, <1>6, <2>1, <2>2, SeqEqual
<1>9. FlattenSeq(c) = FlattenSeq(a) \o F[x]
  BY <1>2, FlattenAppend DEF c
<1> QED BY <1>8, <1>9 DEF Flat, a, b, t

LEMMA FlatOne ==
  ASSUME NEW S, NEW R, NEW F, Maps(F, S, R), NEW x \in S
  PROVE  Flat(F, <<x>>) = F[x]
<1>1. Append(<<>>, x) = <<x>> /\ <<>> \in Seq(S) /\ F[x] \in Seq(R)
  BY EmptySeq DEF Maps
<1>2. Flat(F, Append(<<>>, x)) = Flat(F, <<>>) \o F[x]
  BY <1>1, FlatAppend
<1>3. <<>> \o F[x] = F[x]
  BY <1>1, EmptyConcat
<1> QED BY <1>1, <1>2, <1>3, FlatEmpty

LEMMA FlatConcat ==
  ASSUME NEW S, NEW R, NEW F, Maps(F, S, R), NEW s \in Seq(S), NEW t \in Seq(S)
  PROVE  Flat(F, s \o t) = Flat(F, s) \o Flat(F, t)
<1> DEFINE G == {u \in Seq(S) : Flat(F, s \o u) = Flat(F, s) \o Flat(F, u)}
<1>1. <<>> \in G
  <2>1. <<>> \in Seq(S) /\ s \o <<>> = s
    BY EmptySeq, EmptyConcat
  <2>2. Flat(F, s) \o <<>> = Flat(F, s)
    BY FlatIsSeq, EmptyConcat
  <2> QED BY <2>1, <2>2, FlatEmpty
<1>2. ASSUME NEW u \in Seq(S), NEW x \in S, u \in G PROVE Append(u, x) \in G
  <2>1. s \o Append(u, x) = Append(s \o u, x) /\ s \o u \in Seq(S) /\ Append(u, x) \in Seq(S)
    <3>1. s \o u \in Seq(S) /\ Append(u, x) \in Seq(S) /\ <<x>> \in Seq(S)
      BY ConcatProperties, AppendProperties
    <3>2. Append(u, x) = u \o <<x>> /\ Append(s \o u, x) = (s \o u) \o <<x>>
      BY <3>1, AppendIsConcat
    <3>3. s \o (u \o <<x>>) = (s \o u) \o <<x>>
      BY <3>1, ConcatAssociative
    <3> QED BY <3>1, <3>2, <3>3
  <2>2. Flat(F, Append(s \o u, x)) = Flat(F, s \o u) \o F[x]
    <3>1. s \o u \in Seq(S)
      BY <2>1
    <3> DEFINE v == s \o u
    <3> HIDE DEF v
    <3>2. v \in Seq(S)
      BY <3>1 DEF v
    <3>3. Flat(F, Append(v, x)) = Flat(F, v) \o F[x]
      BY <3>2, FlatAppend
    <3> QED BY <3>3 DEF v
  <2>3. Flat(F, Append(u, x)) = Flat(F, u) \o F[x]
    BY FlatAppend
  <2>4. (Flat(F, s) \o Flat(F, u)) \o F[x] = Flat(F, s) \o (Flat(F, u) \o F[x])
    <3>1. Flat(F, s) \in Seq(R) /\ Flat(F, u) \in Seq(R) /\ F[x] \in Seq(R)
      BY FlatIsSeq DEF Maps
    <3> DEFINE a == Flat(F, s)
               b == Flat(F, u)
               c == F[x]
    <3> HIDE DEF a, b, c
    <3>2. a \in Seq(R) /\ b \in Seq(R) /\ c \in Seq(R)
      BY <3>1 DEF a, b, c
    <3>3. (a \o b) \o c = a \o (b \o c)
      BY <3>2, ConcatAssociative
    <3> QED BY <3>3 DEF a, b, c
  <2>5. Flat(F, s \o u) = Flat(F, s) \o Flat(F, u)
    BY <1>2
  <2> QED BY <2>1, <2>2, <2>3, <2>4, <2>5
<1> HIDE DEF G
<1>3. Seq(S) \subseteq G
  BY <1>1, <1>2, ByAppending
<1> QED BY <1>3 DEF G

\* One sequence of one element for each gives them back.
LEMMA FlatSingles ==
  ASSUME NEW S, NEW s \in Seq(S)
  PROVE  Flat([x \in S |-> <<x>>], s) = s
<1> DEFINE F == [x \in S |-> <<x>>]
           G == {t \in Seq(S) : Flat(F, t) = t}
<1>1. Maps(F, S, S)
  BY DEF Maps
<1>2. <<>> \in G
  <2>1. <<>> \in Seq(S)
    BY EmptySeq
  <2> HIDE DEF F
  <2> QED BY <2>1, FlatEmpty
<1>3. ASSUME NEW t \in Seq(S), NEW x \in S, t \in G PROVE Append(t, x) \in G
  <2>1. F[x] = <<x>>
    OBVIOUS
  <2> HIDE DEF F
  <2>2. Flat(F, Append(t, x)) = Flat(F, t) \o F[x]
    BY <1>1, FlatAppend
  <2>3. Append(t, x) = t \o <<x>> /\ Append(t, x) \in Seq(S)
    BY AppendIsConcat, AppendProperties
  <2>4. Flat(F, t) = t
    BY <1>3
  <2> QED BY <2>1, <2>2, <2>3, <2>4
<1> HIDE DEF G
<1>4. Seq(S) \subseteq G
  BY <1>2, <1>3, ByAppending
<1> QED BY <1>4 DEF G, F

\* Sequences that are not empty are together at least as long as there are of them.
LEMMA FlatIsLong ==
  ASSUME NEW S, NEW R, NEW F, Maps(F, S, R), \A x \in S : F[x] # <<>>, NEW s \in Seq(S)
  PROVE  Len(s) <= Len(Flat(F, s))
<1> DEFINE G == {t \in Seq(S) : Len(t) <= Len(Flat(F, t))}
<1>1. <<>> \in G
  BY FlatEmpty, EmptySeq
<1>2. ASSUME NEW t \in Seq(S), NEW x \in S, t \in G PROVE Append(t, x) \in G
  <2>1. Flat(F, Append(t, x)) = Flat(F, t) \o F[x]
    BY FlatAppend
  <2>2. Flat(F, t) \in Seq(R) /\ F[x] \in Seq(R) /\ F[x] # <<>>
    BY FlatIsSeq DEF Maps
  <2> DEFINE a == Flat(F, t)
             b == F[x]
  <2> HIDE DEF a, b
  <2>3. a \in Seq(R) /\ b \in Seq(R) /\ b # <<>> /\ Len(t) <= Len(a)
    BY <1>2, <2>2 DEF a, b
  <2>4. Len(b) \in Nat /\ Len(b) # 0 /\ Len(a) \in Nat /\ Len(t) \in Nat
    BY <2>3, LenProperties, EmptySeq
  <2>5. Len(a \o b) = Len(a) + Len(b)
    BY <2>3, ConcatProperties
  <2>6. Append(t, x) \in Seq(S) /\ Len(Append(t, x)) = Len(t) + 1
    BY AppendProperties
  <2>7. Len(Append(t, x)) <= Len(a \o b)
    BY <2>3, <2>4, <2>5, <2>6
  <2> QED BY <2>1, <2>6, <2>7 DEF a, b
<1> HIDE DEF G
<1>3. Seq(S) \subseteq G
  BY <1>1, <1>2, ByAppending
<1> QED BY <1>3 DEF G

-----------------------------------------------------------------------------
\* A step repeated n times.
Repeated(f, n, x, step) ==
  /\ DOMAIN f = 0 .. n /\ f[0] = x
  /\ \A i \in 0 .. n - 1 : f[i + 1] = step[f[i]]

LEMMA Repeats ==
  ASSUME NEW S, NEW x \in S, NEW step \in [S -> S], NEW n \in Nat
  PROVE  \E f \in [0 .. n -> S] : Repeated(f, n, x, step)
<1> DEFINE G == {m \in 0 .. n : \E f \in [0 .. m -> S] : Repeated(f, m, x, step)}
<1>1. 0 \in G
  <2> DEFINE f == [i \in 0 .. 0 |-> x]
  <2>1. f \in [0 .. 0 -> S] /\ Repeated(f, 0, x, step)
    BY DEF Repeated
  <2>2. 0 \in 0 .. n
    OBVIOUS
  <2> HIDE DEF f
  <2> QED BY <2>1, <2>2
<1>2. ASSUME NEW m \in 0 .. n - 1, m \in G PROVE m + 1 \in G
  <2>1. PICK f \in [0 .. m -> S] : Repeated(f, m, x, step)
    BY <1>2
  <2>2. m \in Nat /\ m \in 0 .. m /\ m + 1 \in 0 .. n /\ f[m] \in S
    OBVIOUS
  <2> DEFINE h == [i \in 0 .. m + 1 |-> IF i = m + 1 THEN step[f[m]] ELSE f[i]]
  <2>3. \A i \in 0 .. m + 1 : i # m + 1 => i \in 0 .. m
    BY <2>2
  <2>4. h \in [0 .. m + 1 -> S]
    BY <2>2, <2>3
  <2>5. DOMAIN h = 0 .. m + 1 /\ h[m + 1] = step[f[m]] /\ \A i \in 0 .. m : h[i] = f[i]
    BY <2>2
  <2> HIDE DEF h
  <2>6. h[0] = x
    BY <2>1, <2>2, <2>5 DEF Repeated
  <2>7. ASSUME NEW i \in 0 .. m PROVE h[i + 1] = step[h[i]]
    <3>1. CASE i = m
      BY <2>2, <2>5, <3>1
    <3>2. CASE i # m
      <4>1. i \in 0 .. m - 1 /\ i + 1 \in 0 .. m
        BY <2>2, <3>2
      <4>2. f[i + 1] = step[f[i]]
        BY <2>1, <4>1 DEF Repeated
      <4> QED BY <2>5, <4>1, <4>2
    <3> QED BY <3>1, <3>2
  <2>8. Repeated(h, m + 1, x, step)
    <3>1. (m + 1) - 1 = m
      BY <2>2
    <3> QED BY <2>5, <2>6, <2>7, <3>1 DEF Repeated
  <2> QED BY <2>2, <2>4, <2>8
<1> HIDE DEF G
<1>3. \A m \in 0 .. n : m \in G
  BY <1>1, <1>2, UpTo
<1>4. n \in G
  BY <1>3
<1> QED BY <1>4 DEF G

\* Pieces are put one after the other, each telling where the next one is.
Linked(f, n, next, piece) ==
  /\ DOMAIN f = 1 .. n + 1 /\ f[n + 1] = <<>>
  /\ \A i \in 1 .. n : f[i] = <<piece[i]>> \o f[next[i]]

\* The same from the place m on.
LinkedFrom(f, m, n, next, piece) ==
  /\ f[n + 1] = <<>>
  /\ \A i \in m .. n : f[i] = <<piece[i]>> \o f[next[i]]

LEMMA Links ==
  ASSUME NEW S, NEW n \in Nat, NEW piece \in [1 .. n -> S], NEW next \in [1 .. n -> 1 .. n + 1],
         \A i \in 1 .. n : next[i] > i
  PROVE  \E f \in [1 .. n + 1 -> Seq(S)] : Linked(f, n, next, piece)
<1> DEFINE G == {d \in 0 .. n : \E f \in [1 .. n + 1 -> Seq(S)] :
                                    LinkedFrom(f, n + 1 - d, n, next, piece)}
<1>1. 0 \in G
  <2> DEFINE f == [i \in 1 .. n + 1 |-> <<>>]
  <2>1. f \in [1 .. n + 1 -> Seq(S)] /\ f[n + 1] = <<>>
    BY EmptySeq
  <2> HIDE DEF f
  <2>2. LinkedFrom(f, n + 1 - 0, n, next, piece)
    BY <2>1 DEF LinkedFrom
  <2>3. 0 \in 0 .. n
    OBVIOUS
  <2> QED BY <2>1, <2>2, <2>3
<1>2. ASSUME NEW d \in 0 .. n - 1, d \in G PROVE d + 1 \in G
  <2>1. PICK f \in [1 .. n + 1 -> Seq(S)] : LinkedFrom(f, n + 1 - d, n, next, piece)
    BY <1>2
  <2> DEFINE m == n - d
  <2>2. /\ m \in 1 .. n /\ n + 1 - d = m + 1 /\ n + 1 - (d + 1) = m /\ d + 1 \in 0 .. n
        /\ next[m] \in 1 .. n + 1 /\ next[m] > m /\ n + 1 \in 1 .. n + 1 /\ m # n + 1
    OBVIOUS
  <2> HIDE DEF m
  <2> DEFINE h == [f EXCEPT ![m] = <<piece[m]>> \o f[next[m]]]
  <2>3. <<piece[m]>> \o f[next[m]] \in Seq(S)
    <3>1. <<piece[m]>> \in Seq(S) /\ f[next[m]] \in Seq(S)
      BY <2>2
    <3> QED BY <3>1, ConcatProperties
  <2>4. m \in 1 .. n + 1
    BY <2>2
  <2>5. h \in [1 .. n + 1 -> Seq(S)]
    BY <2>3
  <2>6. /\ h[m] = <<piece[m]>> \o f[next[m]]
        /\ \A i \in 1 .. n + 1 : i # m => h[i] = f[i]
    BY <2>4
  <2> HIDE DEF h
  <2>7. h[n + 1] = <<>>
    BY <2>1, <2>2, <2>6 DEF LinkedFrom
  <2>8. ASSUME NEW i \in m .. n PROVE h[i] = <<piece[i]>> \o h[next[i]]
    <3>1. i \in 1 .. n /\ i \in 1 .. n + 1 /\ next[i] \in 1 .. n + 1 /\ next[i] # m
      <4>1. i \in 1 .. n
        BY <2>2
      <4>2. next[i] \in 1 .. n + 1 /\ next[i] > i
        BY <4>1
      <4> QED BY <2>2, <4>1, <4>2
    <3>2. h[next[i]] = f[next[i]]
      BY <2>6, <3>1
    <3>3. CASE i = m
      BY <2>6, <3>2, <3>3
    <3>4. CASE i # m
      <4>1. i \in m + 1 .. n
        BY <2>2, <3>4
      <4>2. f[i] = <<piece[i]>> \o f[next[i]]
        BY <2>1, <2>2, <4>1 DEF LinkedFrom
      <4> QED BY <2>6, <3>1, <3>2, <3>4, <4>2
    <3> QED BY <3>3, <3>4
  <2>9. LinkedFrom(h, n + 1 - (d + 1), n, next, piece)
    BY <2>2, <2>7, <2>8 DEF LinkedFrom
  <2> QED BY <2>2, <2>5, <2>9
<1> HIDE DEF G
<1>3. \A d \in 0 .. n : d \in G
  BY <1>1, <1>2, UpTo
<1>4. n \in G /\ n + 1 - n = 1
  BY <1>3
<1>5. PICK f \in [1 .. n + 1 -> Seq(S)] : LinkedFrom(f, 1, n, next, piece)
  BY <1>4 DEF G
<1> QED BY <1>5 DEF Linked, LinkedFrom

\* A quotient is the number whose multiple is just below.
LEMMA DivExact ==
  ASSUME NEW n \in Nat, NEW k \in Nat \ {0}
  PROVE  /\ n \div k \in Nat
         /\ k * (n \div k) <= n
         /\ n < k * (n \div k) + k
OBVIOUS

\* A pair is finite.
LEMMA PairIsFinite == ASSUME NEW a, NEW b PROVE IsFiniteSet({a, b})
<1>1. IsFiniteSet({a} \cup {b})
  BY FS_Singleton, FS_Union
<1>2. {a, b} = {a} \cup {b}
  OBVIOUS
<1> QED BY <1>1, <1>2

\* The larger and the smaller of two numbers.
LEMMA MaxOfTwo == ASSUME NEW a \in Int, NEW b \in Int PROVE Max({a, b}) = IF a > b THEN a ELSE b
<1>1. IF a > b THEN a \in {a, b} /\ \A x \in {a, b} : a >= x
               ELSE b \in {a, b} /\ \A x \in {a, b} : b >= x
  OBVIOUS
<1>2. Max({a, b}) \in {a, b} /\ \A x \in {a, b} : Max({a, b}) >= x
  BY <1>1 DEF Max
<1> QED BY <1>2

LEMMA MinOfTwo == ASSUME NEW a \in Int, NEW b \in Int PROVE Min({a, b}) = IF a < b THEN a ELSE b
<1>1. IF a < b THEN a \in {a, b} /\ \A x \in {a, b} : a <= x
               ELSE b \in {a, b} /\ \A x \in {a, b} : b <= x
  OBVIOUS
<1>2. Min({a, b}) \in {a, b} /\ \A x \in {a, b} : Min({a, b}) <= x
  BY <1>1 DEF Min
<1> QED BY <1>2

\* A set with at most one member.
LEMMA AtMostOne ==
  ASSUME NEW S, IsFiniteSet(S), Cardinality(S) <= 1
  PROVE  \A x, y \in S : x = y
<1>1. Cardinality(S) \in Nat
  BY FS_CardinalityType
<1>2. Cardinality(S) = 0 \/ Cardinality(S) = 1
  BY <1>1
<1>3. CASE Cardinality(S) = 0
  BY <1>3, FS_EmptySet
<1>4. CASE Cardinality(S) = 1
  BY <1>4, FS_Singleton
<1> QED BY <1>2, <1>3, <1>4

\* The union of a concatenation of sets.
LEMMA UnionOfBoth ==
  ASSUME NEW M, NEW N, IsFiniteSet(M), IsFiniteSet(N), M \cap N = {}
  PROVE  /\ Cardinality(M \cup N) = Cardinality(M) + Cardinality(N)
         /\ Cardinality(M) \in Nat /\ Cardinality(N) \in Nat
<1>1. Cardinality(M \cup N) = Cardinality(M) + Cardinality(N) - Cardinality(M \cap N)
  BY FS_Union
<1>2. Cardinality(M) \in Nat /\ Cardinality(N) \in Nat /\ Cardinality(M \cap N) = 0
  BY FS_CardinalityType, FS_EmptySet
<1> QED BY <1>1, <1>2

\* What a concatenation without repetitions is made of.
LEMMA ConcatInjective ==
  ASSUME NEW S, NEW a \in Seq(S), NEW b \in Seq(S), IsInjective(a \o b)
  PROVE  IsInjective(a) /\ Range(a) \cap Range(b) = {}
<1> DEFINE m == Len(a)
           n == Len(b)
           c == a \o b
<1>1. /\ m \in Nat /\ n \in Nat /\ DOMAIN a = 1 .. m /\ DOMAIN b = 1 .. n
  BY LenProperties
<1>2. /\ c \in Seq(S) /\ Len(c) = m + n
      /\ \A i \in 1 .. m + n : c[i] = IF i <= m THEN a[i] ELSE b[i - m]
  BY ConcatProperties
<1>3. DOMAIN c = 1 .. m + n
  BY <1>2, LenProperties
<1>4. \A i, j \in 1 .. m + n : c[i] = c[j] => i = j
  BY <1>3 DEF IsInjective
<1> HIDE DEF m, n, c
<1>5. \A i \in 1 .. m : i \in 1 .. m + n /\ c[i] = a[i] /\ i <= m
  BY <1>1, <1>2
<1>6. ASSUME NEW i \in 1 .. n PROVE i + m \in 1 .. m + n /\ c[i + m] = b[i] /\ ~(i + m <= m)
  <2>1. i + m \in 1 .. m + n /\ ~(i + m <= m) /\ (i + m) - m = i
    BY <1>1
  <2> QED BY <1>2, <2>1
<1>7. IsInjective(a)
  BY <1>1, <1>4, <1>5 DEF IsInjective
<1>8. ASSUME NEW x \in Range(a), x \in Range(b) PROVE FALSE
  <2>1. PICK i \in 1 .. m : a[i] = x
    BY <1>1 DEF Range
  <2>2. PICK j \in 1 .. n : b[j] = x
    BY <1>1, <1>8 DEF Range
  <2>3. c[i] = c[j + m]
    BY <1>5, <1>6, <2>1, <2>2
  <2>4. i = j + m
    BY <1>4, <1>5, <1>6, <2>3
  <2> QED BY <1>5, <1>6, <2>4
<1> QED BY <1>7, <1>8

\* Where what F has for the elements is without repetitions, so are its parts,
\* and no two of them share anything.
LEMMA FlatSeparate ==
  ASSUME NEW S, NEW R, NEW F, Maps(F, S, R), NEW s \in Seq(S)
  PROVE  /\ \A i \in DOMAIN s : Range(F[s[i]]) \subseteq Range(Flat(F, s))
         /\ IsInjective(Flat(F, s)) =>
              \A i, j \in DOMAIN s : i # j => Range(F[s[i]]) \cap Range(F[s[j]]) = {}
<1> DEFINE Inside(t) == \A i \in DOMAIN t : Range(F[t[i]]) \subseteq Range(Flat(F, t))
           Split(t) == IsInjective(Flat(F, t)) =>
                         \A i, j \in DOMAIN t : i # j => Range(F[t[i]]) \cap Range(F[t[j]]) = {}
           G == {t \in Seq(S) : Inside(t) /\ Split(t)}
<1>1. <<>> \in G
  <2>1. <<>> \in Seq(S) /\ DOMAIN <<>> = {}
    BY EmptySeq
  <2> QED BY <2>1
<1>2. ASSUME NEW t \in Seq(S), NEW x \in S, t \in G PROVE Append(t, x) \in G
  <2> DEFINE u == Append(t, x)
             n == Len(t)
  <2>1. /\ n \in Nat /\ u \in Seq(S) /\ DOMAIN t = 1 .. n /\ DOMAIN u = 1 .. n + 1
        /\ \A i \in 1 .. n : u[i] = t[i]
        /\ u[n + 1] = x
    BY AppendProperties, LenProperties
  <2> DEFINE a == Flat(F, t)
             b == F[x]
             c == Flat(F, u)
  <2>2. a \in Seq(R) /\ b \in Seq(R) /\ c = a \o b
    <3>1. a \in Seq(R)
      BY FlatIsSeq
    <3>2. c = a \o b
      BY FlatAppend
    <3> QED BY <3>1, <3>2 DEF Maps
  <2>3. Inside(t) /\ Split(t)
    BY <1>2
  <2>4. /\ \A i \in 1 .. n : Range(F[t[i]]) \subseteq Range(a)
        /\ IsInjective(a) =>
             \A i, j \in 1 .. n : i # j => Range(F[t[i]]) \cap Range(F[t[j]]) = {}
    BY <2>1, <2>3
  <2> HIDE DEF a, b, c, u, n
  <2>5. Range(c) = Range(a) \cup Range(b)
    BY <2>2, RangeConcatenation
  <2>6. \A i \in 1 .. n + 1 : i \in 1 .. n \/ i = n + 1
    BY <2>1
  <2>7. \A i \in 1 .. n : F[u[i]] = F[t[i]]
    BY <2>1
  <2>8. F[u[n + 1]] = b
    BY <2>1 DEF b
  <2>9. \A i \in DOMAIN u : Range(F[u[i]]) \subseteq Range(c)
    BY <2>1, <2>4, <2>5, <2>6, <2>7, <2>8
  <2>10. ASSUME IsInjective(c), NEW i \in DOMAIN u, NEW j \in DOMAIN u, i # j
         PROVE  Range(F[u[i]]) \cap Range(F[u[j]]) = {}
    <3>1. IsInjective(a) /\ Range(a) \cap Range(b) = {}
      BY <2>2, <2>10, ConcatInjective
    <3>2. CASE i \in 1 .. n /\ j \in 1 .. n
      BY <2>4, <2>7, <2>10, <3>1, <3>2
    <3>3. CASE i \in 1 .. n /\ j = n + 1
      BY <2>4, <2>7, <2>8, <3>1, <3>3
    <3>4. CASE i = n + 1 /\ j \in 1 .. n
      BY <2>4, <2>7, <2>8, <3>1, <3>4
    <3> QED BY <2>1, <2>6, <2>10, <3>2, <3>3, <3>4
  <2> QED BY <2>1, <2>9, <2>10 DEF c, u
<1>3. s \in G
  <2> HIDE DEF G
  <2> QED BY <1>1, <1>2, ByAppending
<1> QED BY <1>3

\* ... and, where it has something for each, the elements.
LEMMA FlatInjective ==
  ASSUME NEW S, NEW R, NEW F, Maps(F, S, R), \A x \in S : F[x] # <<>>, NEW s \in Seq(S),
         IsInjective(Flat(F, s))
  PROVE  IsInjective(s)
<1> SUFFICES ASSUME NEW i \in DOMAIN s, NEW j \in DOMAIN s, s[i] = s[j], i # j PROVE FALSE
  BY DEF IsInjective
<1>1. s[i] \in S
  BY ElementOfSeq, LenProperties
<1> DEFINE a == F[s[i]]
<1>2. a \in Seq(R) /\ a # <<>>
  BY <1>1 DEF Maps
<1>3. Range(a) \cap Range(a) = {}
  <2>1. Range(F[s[i]]) \cap Range(F[s[j]]) = {}
    BY FlatSeparate
  <2> QED BY <2>1
<1> HIDE DEF a
<1>4. Len(a) \in Nat \ {0} /\ DOMAIN a = 1 .. Len(a)
  BY <1>2, EmptySeq, LenProperties
<1>5. a[1] \in Range(a)
  <2>1. 1 \in DOMAIN a
    BY <1>4
  <2> QED BY <2>1 DEF Range
<1> QED BY <1>3, <1>5
=============================================================================
