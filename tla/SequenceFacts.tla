--------------------------- MODULE SequenceFacts ---------------------------
(***************************************************************************)
(* Facts about natural numbers and sequences that the proofs need and the  *)
(* library does not state: the least and the greatest element of a set, an *)
(* induction in which the predicate is a set, what FlattenSeq returns, and *)
(* where each element of sequences that are joined stands.                 *)
(***************************************************************************)
EXTENDS Integers, SequencesExt, SequenceTheorems, FiniteSetTheorems,
        WellFoundedInduction, TLAPS

LessThan == {ss \in Nat \X Nat : ss[1] < ss[2]}

\* A set of naturals that is not empty has a least element.
LEMMA LeastElement ==
  ASSUME NEW T \in SUBSET Nat, T # {}
  PROVE  \E n \in T : \A m \in T : n <= m
<1>1. IsWellFoundedOn(LessThan, Nat)
  BY Zenon, NatLessThanWellFounded DEF OpToRel, LessThan
<1>2. PICK n \in T : \A m \in T : ~ (<<m, n>> \in LessThan)
  BY <1>1, WFMin
<1>3. \A m \in T : m < n => <<m, n>> \in LessThan
  BY DEF LessThan
<1>4. ASSUME NEW m \in T PROVE n <= m
  <2>1. ~ (m < n)
    BY <1>2, <1>3
  <2>2. QED
    BY <2>1
<1>5. QED
  BY <1>2, <1>4

\* Induction: a set with 0 that is closed under successor holds every natural.
LEMMA EveryNatural ==
  ASSUME NEW T \in SUBSET Nat, 0 \in T, \A n \in T : n + 1 \in T
  PROVE  T = Nat
<1>1. SUFFICES ASSUME Nat \ T # {} PROVE FALSE
  OBVIOUS
<1>2. PICK n \in Nat \ T : \A m \in Nat \ T : n <= m
  BY <1>1, LeastElement
<1>3. n # 0 /\ n - 1 \in Nat /\ n - 1 \notin Nat \ T
  BY <1>2
<1>4. QED
  BY <1>2, <1>3

\* Min returns the least element.
LEMMA MinIs ==
  ASSUME NEW T \in SUBSET Nat, T # {}
  PROVE  Min(T) \in T /\ \A m \in T : Min(T) <= m
<1>1. \E n \in T : \A m \in T : n <= m
  BY LeastElement
<1>2. QED
  BY <1>1 DEF Min

\* Max returns the greatest element of a set that has a bound.
LEMMA MaxIs ==
  ASSUME NEW N \in Nat, NEW T \in SUBSET (0..N), T # {}
  PROVE  Max(T) \in T /\ \A m \in T : m <= Max(T)
<1> DEFINE Bounds == {b \in Nat : \A m \in T : m <= b}
<1>1. N \in Bounds
  OBVIOUS
<1>2. PICK b \in Bounds : \A c \in Bounds : b <= c
  <2>1. Bounds \in SUBSET Nat /\ Bounds # {}
    BY <1>1
  <2> HIDE DEF Bounds
  <2>2. QED
    BY <2>1, LeastElement
<1>3. b \in T
  <2>1. SUFFICES ASSUME b \notin T PROVE FALSE
    OBVIOUS
  <2>2. PICK t \in T : TRUE
    OBVIOUS
  <2>3. b # 0 /\ b - 1 \in Bounds
    BY <2>1, <2>2
  <2>4. QED
    BY <1>2, <2>3
<1>4. \E x \in T : \A y \in T : x >= y
  BY <1>2, <1>3
<1>5. QED
  BY <1>4 DEF Max

-----------------------------------------------------------------------------
(* FlattenSeq.                                                             *)

IsFlatten(ss, g, n) ==
  g = [i \in 1..n |-> IF i = 1 THEN ss[i] ELSE g[i - 1] \o ss[i]]

\* The function by which FlattenSeq is defined exists.
LEMMA FlattenExists ==
  ASSUME NEW S, NEW ss \in Seq(Seq(S))
  PROVE  \E g : IsFlatten(ss, g, Len(ss))
<1> DEFINE T == {n \in Nat : \E g : IsFlatten(ss, g, n)}
<1>1. 0 \in T
  <2>1. IsFlatten(ss, [i \in 1..0 |-> ss[i]], 0)
    BY DEF IsFlatten
  <2>2. QED
    BY <2>1
<1>2. ASSUME NEW n \in T PROVE n + 1 \in T
  <2>1. PICK g : IsFlatten(ss, g, n)
    OBVIOUS
  <2> DEFINE h == [i \in 1..n + 1 |-> IF i <= n THEN g[i]
                                      ELSE IF i = 1 THEN ss[i] ELSE g[i - 1] \o ss[i]]
  <2>2. \A i \in 1..n : g[i] = IF i = 1 THEN ss[i] ELSE g[i - 1] \o ss[i]
    BY <2>1 DEF IsFlatten
  <2>3. ASSUME NEW i \in 1..n + 1
        PROVE  h[i] = IF i = 1 THEN ss[i] ELSE h[i - 1] \o ss[i]
    <3>1. CASE i = 1
      BY <2>2, <3>1
    <3>2. CASE i # 1
      <4>1. i - 1 \in 1..n + 1 /\ i - 1 <= n
        BY <3>2
      <4>2. h[i - 1] = g[i - 1]
        BY <4>1
      <4>3. h[i] = g[i - 1] \o ss[i]
        <5>1. CASE i <= n
          <6>1. i \in 1..n /\ h[i] = g[i]
            BY <5>1
          <6>2. QED
            BY <2>2, <3>2, <6>1
        <5>2. CASE ~ (i <= n)
          BY <3>2, <5>2
        <5>3. QED
          BY <5>1, <5>2
      <4> HIDE DEF h
      <4>4. QED
        BY <3>2, <4>2, <4>3
    <3>3. QED
      BY <3>1, <3>2
  <2>4. IsFlatten(ss, h, n + 1)
    <3>1. h = [i \in 1..n + 1 |-> h[i]]
      OBVIOUS
    <3> HIDE DEF h
    <3>2. QED
      BY <2>3, <3>1 DEF IsFlatten
  <2>5. QED
    BY <2>4
<1>3. T = Nat
  <2>1. T \in SUBSET Nat
    OBVIOUS
  <2> HIDE DEF T
  <2>2. QED
    BY <1>1, <1>2, <2>1, EveryNatural
<1>4. QED
  BY <1>3, LenProperties

\* FlattenSeq builds its result one sequence after the other.
LEMMA FlattenSteps ==
  ASSUME NEW S, NEW ss \in Seq(Seq(S)), Len(ss) # 0
  PROVE  \E flat : /\ FlattenSeq(ss) = flat[Len(ss)]
                   /\ \A i \in 1..Len(ss) : flat[i] = IF i = 1 THEN ss[i] ELSE flat[i - 1] \o ss[i]
<1> DEFINE flat == CHOOSE g : g = [i \in 1..Len(ss) |->
                                     IF i = 1 THEN ss[i] ELSE g[i - 1] \o ss[i]]
<1>1. FlattenSeq(ss) = flat[Len(ss)]
  BY DEF FlattenSeq
<1>2. IsFlatten(ss, flat, Len(ss))
  BY FlattenExists DEF IsFlatten
<1> HIDE DEF flat
<1>3. \A i \in 1..Len(ss) : flat[i] = IF i = 1 THEN ss[i] ELSE flat[i - 1] \o ss[i]
  BY <1>2 DEF IsFlatten
<1>4. QED
  BY <1>1, <1>3

\* FlattenSeq puts sequences one after the other: what it returns has the elements
\* of them all.
LEMMA FlattenIs ==
  ASSUME NEW S, NEW ss \in Seq(Seq(S))
  PROVE  /\ FlattenSeq(ss) \in Seq(S)
         /\ \A x : x \in ToSet(FlattenSeq(ss)) <=> \E i \in DOMAIN ss : x \in ToSet(ss[i])
<1>1. CASE Len(ss) = 0
  <2>1. ss = <<>>
    BY <1>1, EmptySeq
  <2>2. FlattenSeq(ss) = <<>>
    BY <1>1, <2>1 DEF FlattenSeq
  <2>3. ToSet(<<>>) = {} /\ DOMAIN ss = {} /\ <<>> \in Seq(S)
    BY <2>1 DEF ToSet
  <2>4. QED
    BY <2>2, <2>3
<1>2. CASE Len(ss) # 0
  <2>1. PICK flat : /\ FlattenSeq(ss) = flat[Len(ss)]
                    /\ \A i \in 1..Len(ss) : flat[i] = IF i = 1 THEN ss[i] ELSE flat[i - 1] \o ss[i]
    BY <1>2, FlattenSteps
  <2> DEFINE Ok(n) == /\ flat[n] \in Seq(S)
                      /\ \A x : x \in ToSet(flat[n]) <=> \E i \in 1..n : x \in ToSet(ss[i])
             T == {n \in Nat : n \in 1..Len(ss) => Ok(n)}
  <2>4. 0 \in T
    OBVIOUS
  <2>5. ASSUME NEW n \in T PROVE n + 1 \in T
    <3>1. CASE n + 1 \notin 1..Len(ss)
      BY <3>1
    <3>2. CASE n + 1 \in 1..Len(ss)
      <4> DEFINE m == n + 1
      <4>0. m \in 1..Len(ss) /\ m - 1 = n /\ (m = 1 <=> n = 0)
        BY <3>2
      <4> HIDE DEF m
      <4>1. ss[n + 1] \in Seq(S)
        BY <3>2, ElementOfSeq
      <4>2. CASE n = 0
        <5>1. flat[n + 1] = ss[n + 1]
          <6>1. flat[m] = ss[m]
            BY <2>1, <4>0, <4>2
          <6>2. QED
            BY <6>1 DEF m
        <5>2. 1..n + 1 = {n + 1}
          BY <4>2
        <5>3. /\ flat[n + 1] \in Seq(S)
              /\ \A x : x \in ToSet(flat[n + 1])
                          <=> \E i \in 1..n + 1 : x \in ToSet(ss[i])
          BY <4>1, <5>1, <5>2
        <5>4. QED
          BY <5>3
      <4>3. CASE n # 0
        <5>1. n \in 1..Len(ss) /\ Ok(n)
          BY <3>2, <4>3, LenProperties
        <5>2. flat[n + 1] = flat[n] \o ss[n + 1]
          <6>1. flat[m] = flat[m - 1] \o ss[m]
            BY <2>1, <4>0, <4>3
          <6>2. QED
            BY <4>0, <6>1 DEF m
        <5>3. flat[n] \in Seq(S)
          BY <5>1
        <5>4. /\ flat[n] \o ss[n + 1] \in Seq(S)
              /\ Range(flat[n] \o ss[n + 1]) = Range(flat[n]) \cup Range(ss[n + 1])
          BY <4>1, <5>3, ConcatProperties, RangeConcatenation
        <5>5. /\ flat[n + 1] \in Seq(S)
              /\ ToSet(flat[n + 1]) = ToSet(flat[n]) \cup ToSet(ss[n + 1])
          BY <5>2, <5>4 DEF ToSet, Range
        <5>6. 1..n + 1 = (1..n) \cup {n + 1}
          BY <5>1
        <5>7. ASSUME NEW x
              PROVE  x \in ToSet(flat[n + 1]) <=> \E i \in 1..n + 1 : x \in ToSet(ss[i])
          BY <5>1, <5>5, <5>6
        <5>8. QED
          BY <5>5, <5>7
      <4>4. QED
        BY <4>2, <4>3
    <3>3. QED
      BY <3>1, <3>2
  <2>6. T = Nat
    <3>1. T \in SUBSET Nat
      OBVIOUS
    <3> HIDE DEF T
    <3>2. QED
      BY <2>4, <2>5, <3>1, EveryNatural
  <2>7. Len(ss) \in T /\ Len(ss) \in 1..Len(ss) /\ DOMAIN ss = 1..Len(ss)
    BY <1>2, <2>6, LenProperties
  <2>8. QED
    BY <2>1, <2>7
<1>3. QED
  BY <1>1, <1>2
-----------------------------------------------------------------------------
(* Where the elements of a sequence stand in what it is made into.            *)

\* What the two parts of a joined sequence hold.
LEMMA Joined ==
  ASSUME NEW S, NEW s \in Seq(S), NEW t \in Seq(S)
  PROVE  /\ s \o t \in Seq(S) /\ Len(s \o t) = Len(s) + Len(t) /\ Len(s) \in Nat /\ Len(t) \in Nat
         /\ \A k \in 1 .. Len(s) : (s \o t)[k] = s[k]
         /\ \A k \in 1 .. Len(t) : (s \o t)[Len(s) + k] = t[k]
<1>1. /\ s \o t \in Seq(S) /\ Len(s \o t) = Len(s) + Len(t) /\ Len(s) \in Nat /\ Len(t) \in Nat
      /\ \A k \in 1 .. Len(s) + Len(t) : (s \o t)[k] = IF k <= Len(s) THEN s[k] ELSE t[k - Len(s)]
  BY ConcatProperties, LenProperties
<1>2. ASSUME NEW k \in 1 .. Len(s) PROVE (s \o t)[k] = s[k]
  <2>1. k \in 1 .. Len(s) + Len(t) /\ k <= Len(s)
    BY <1>1
  <2>2. QED
    BY <1>1, <2>1
<1>3. ASSUME NEW k \in 1 .. Len(t) PROVE (s \o t)[Len(s) + k] = t[k]
  <2> DEFINE x == Len(s) + k
  <2>1. x \in 1 .. Len(s) + Len(t) /\ ~ (x <= Len(s)) /\ x - Len(s) = k
    BY <1>1
  <2> HIDE DEF x
  <2>2. (s \o t)[x] = t[k]
    BY <1>1, <2>1
  <2>3. QED
    BY <2>2 DEF x
<1>4. QED
  BY <1>1, <1>2, <1>3


\* N sequences are joined one after the other.
Joins(flat, ss, N) == \A i \in 1 .. N : flat[i] = IF i = 1 THEN ss[i] ELSE flat[i - 1] \o ss[i]

\* What is joined so far is a sequence over the same elements.
LEMMA JoinedTyped ==
  ASSUME NEW S, NEW N \in Nat, NEW ss, NEW flat, \A i \in 1 .. N : ss[i] \in Seq(S),
         Joins(flat, ss, N)
  PROVE  \A i \in 1 .. N : flat[i] \in Seq(S)
<1> DEFINE T == {m \in Nat : m \in 1 .. N => flat[m] \in Seq(S)}
<1>1. 0 \in T
  OBVIOUS
<1>2. ASSUME NEW m \in T, m + 1 \in 1 .. N PROVE flat[m + 1] \in Seq(S)
  <2> DEFINE n == m + 1
  <2>1. n \in 1 .. N /\ n - 1 = m /\ m \in Nat /\ (m \in 1 .. N => flat[m] \in Seq(S))
    BY <1>2
  <2>2. n # 1 => m \in 1 .. N
    BY <1>2
  <2> HIDE DEF n
  <2>3. CASE n = 1
    <3>1. flat[n] = ss[n]
      BY <2>1, <2>3 DEF Joins
    <3>2. flat[n] \in Seq(S)
      BY <2>1, <3>1
    <3>3. QED
      BY <3>2 DEF n
  <2>4. CASE n # 1
    <3>1. flat[n] = flat[m] \o ss[n]
      <4>1. flat[n] = flat[n - 1] \o ss[n]
        BY <2>1, <2>4 DEF Joins
      <4>2. QED
        BY <2>1, <4>1
    <3> DEFINE a == flat[m]
               b == ss[n]
               c == flat[n]
    <3>2. a \in Seq(S) /\ b \in Seq(S) /\ c = a \o b
      BY <2>1, <2>2, <2>4, <3>1
    <3> HIDE DEF a, b, c
    <3>3. c \in Seq(S)
      BY <3>2, ConcatProperties
    <3>4. QED
      BY <3>3 DEF c, n
  <2>5. QED
    BY <2>3, <2>4
<1>3. \A m \in T : m + 1 \in T
  BY <1>2
<1>4. T = Nat
  <2>1. T \in SUBSET Nat
    OBVIOUS
  <2> HIDE DEF T
  <2>2. QED
    BY <1>1, <1>3, <2>1, EveryNatural
<1>5. QED
  BY <1>4

\* Where each of N sequences stands when they are joined.
Layout(all, ss, at, N) ==
  /\ at[0] = 0 /\ at[N] = Len(all)
  /\ \A i \in 1 .. N :
       /\ at[i] = at[i - 1] + Len(ss[i])
       /\ \A k \in 1 .. Len(ss[i]) : all[at[i - 1] + k] = ss[i][k]

\* One more sequence joined leaves those before it where they stand.
LEMMA LayoutGrows ==
  ASSUME NEW S, NEW N \in Nat, NEW m \in Nat, m + 1 <= N, NEW all \in Seq(S),
         NEW ss \in [1 .. N -> Seq(S)], NEW at \in [0 .. N -> Nat], Layout(all, ss, at, m),
         at[m + 1] = at[m] + Len(ss[m + 1])
  PROVE  Layout(all \o ss[m + 1], ss, at, m + 1)
<1> DEFINE b == ss[m + 1]
           new == all \o b
<1>1. m + 1 \in 1 .. N /\ (m + 1) - 1 = m
  OBVIOUS
<1>2. b \in Seq(S)
  BY <1>1
<1>0. at[m] = Len(all) /\ at[m + 1] = at[m] + Len(b)
  BY DEF Layout
<1> HIDE DEF b
<1>3. /\ new \in Seq(S) /\ Len(new) = Len(all) + Len(b) /\ Len(all) \in Nat /\ Len(b) \in Nat
      /\ \A k \in 1 .. Len(all) : new[k] = all[k]
      /\ \A k \in 1 .. Len(b) : new[Len(all) + k] = b[k]
  BY <1>2, Joined
<1> HIDE DEF new
<1>4. at[0] = 0 /\ at[m + 1] = Len(new)
  BY <1>0, <1>3 DEF Layout
<1>5. \A i \in 1 .. m : at[i - 1] \in Nat /\ at[i] \in Nat /\ Len(ss[i]) \in Nat /\ ss[i] \in Seq(S)
  <2>1. ASSUME NEW i \in 1 .. m
        PROVE at[i - 1] \in Nat /\ at[i] \in Nat /\ Len(ss[i]) \in Nat /\ ss[i] \in Seq(S)
    <3>1. i \in 1 .. N /\ i \in 0 .. N /\ i - 1 \in 0 .. N
      OBVIOUS
    <3>2. ss[i] \in Seq(S)
      BY <3>1
    <3>3. QED
      BY <3>1, <3>2, LenProperties
  <2>2. QED
    BY <2>1
<1>6. \A i \in 1 .. m : at[i] <= Len(all)
  <2> DEFINE T == {j \in Nat : j <= m => at[m - j] <= Len(all)}
  <2>1. 0 \in T
    BY <1>0, <1>3
  <2>2. ASSUME NEW j \in T PROVE j + 1 \in T
    <3>1. CASE j + 1 <= m
      <4> DEFINE i == m - j
      <4>1. i \in 1 .. m /\ m - (j + 1) = i - 1 /\ at[i] <= Len(all)
        BY <3>1
      <4> HIDE DEF i
      <4>2. at[i] = at[i - 1] + Len(ss[i])
        BY <4>1 DEF Layout
      <4>3. at[i - 1] <= Len(all)
        <5>1. at[i - 1] \in Nat /\ at[i] \in Nat /\ Len(ss[i]) \in Nat
          BY <1>5, <4>1
        <5> DEFINE p == at[i - 1]
                   q == at[i]
                   l == Len(ss[i])
                   n == Len(all)
        <5>2. p \in Nat /\ l \in Nat /\ n \in Nat /\ q = p + l /\ q <= n
          BY <1>3, <4>1, <4>2, <5>1
        <5> HIDE DEF p, q, l, n
        <5>3. p <= n
          BY <5>2
        <5>4. QED
          BY <5>3 DEF p, n
      <4>4. QED
        BY <4>1, <4>3
    <3>2. QED
      BY <3>1
  <2>3. T = Nat
    <3>1. T \in SUBSET Nat
      OBVIOUS
    <3> HIDE DEF T
    <3>2. QED
      BY <2>1, <2>2, <3>1, EveryNatural
  <2>4. ASSUME NEW i \in 1 .. m PROVE at[i] <= Len(all)
    <3>1. m - i \in Nat /\ m - i <= m /\ m - (m - i) = i
      OBVIOUS
    <3>2. QED
      BY <2>3, <3>1
  <2>5. QED
    BY <2>4
<1>7. ASSUME NEW i \in 1 .. m + 1
      PROVE  /\ at[i] = at[i - 1] + Len(ss[i])
             /\ \A k \in 1 .. Len(ss[i]) : new[at[i - 1] + k] = ss[i][k]
  <2>1. CASE i = m + 1
    <3>1. i - 1 = m /\ ss[i] = b
      BY <2>1 DEF b
    <3>2. \A k \in 1 .. Len(b) : new[at[m] + k] = b[k]
      BY <1>0, <1>3
    <3>3. QED
      BY <1>0, <2>1, <3>1, <3>2
  <2>2. CASE i # m + 1
    <3>1. i \in 1 .. m
      BY <2>2
    <3>2. /\ at[i] = at[i - 1] + Len(ss[i])
          /\ \A k \in 1 .. Len(ss[i]) : all[at[i - 1] + k] = ss[i][k]
      BY <3>1 DEF Layout
    <3>3. at[i - 1] \in Nat /\ at[i] \in Nat /\ Len(ss[i]) \in Nat /\ at[i] <= Len(all)
      BY <1>5, <1>6, <3>1
    <3>4. ASSUME NEW k \in 1 .. Len(ss[i]) PROVE new[at[i - 1] + k] = ss[i][k]
      <4> DEFINE x == at[i - 1] + k
      <4>1. x \in 1 .. Len(all)
        <5> DEFINE p == at[i - 1]
                   q == at[i]
                   l == Len(ss[i])
                   n == Len(all)
        <5>1. p \in Nat /\ l \in Nat /\ n \in Nat /\ q = p + l /\ q <= n /\ k \in 1 .. l
          BY <1>3, <3>2, <3>3
        <5> HIDE DEF p, q, l, n
        <5>2. p + k \in 1 .. n
          BY <5>1
        <5>3. QED
          BY <5>2 DEF p, n
      <4>0. all[x] = ss[i][k]
        BY <3>2
      <4> HIDE DEF x
      <4>2. new[x] = ss[i][k]
        BY <1>3, <4>0, <4>1
      <4>3. QED
        BY <4>2 DEF x
    <3>5. QED
      BY <3>2, <3>4
  <2>3. QED
    BY <2>1, <2>2
<1>8. Layout(new, ss, at, m + 1)
  BY <1>1, <1>4, <1>7 DEF Layout
<1>9. QED
  BY <1>8 DEF new, b

\* N sequences that are joined one after the other have a layout.
LEMMA JoinedLayout ==
  ASSUME NEW S, NEW N \in Nat \ {0}, NEW ss \in [1 .. N -> Seq(S)], NEW flat, Joins(flat, ss, N)
  PROVE  \E at \in [0 .. N -> Nat] : flat[N] \in Seq(S) /\ Layout(flat[N], ss, at, N)
<1> DEFINE at == [i \in 0 .. N |-> IF i = 0 THEN 0 ELSE Len(flat[i])]
           T == {m \in Nat : m \in 1 .. N => Layout(flat[m], ss, at, m)}
<1>1. \A i \in 1 .. N : flat[i] \in Seq(S)
  BY JoinedTyped
<1>2. at[0] = 0 /\ \A i \in 1 .. N : at[i] = Len(flat[i])
  OBVIOUS
<1>3. at \in [0 .. N -> Nat]
  <2>1. \A i \in 1 .. N : Len(flat[i]) \in Nat
    BY <1>1, LenProperties
  <2>2. QED
    BY <2>1
<1> HIDE DEF at
<1>4. 0 \in T
  OBVIOUS
<1>5. ASSUME NEW m \in T PROVE m + 1 \in T
  <2>1. CASE m + 1 \notin 1 .. N
    BY <2>1
  <2>2. CASE m = 0
    <3>1. flat[1] = ss[1] /\ ss[1] \in Seq(S) /\ at[1] = Len(flat[1])
      BY <1>2 DEF Joins
    <3>2. at[1 - 1] = 0 /\ Len(ss[1]) \in Nat
      BY <1>2, <3>1, LenProperties
    <3>3. /\ at[1] = at[1 - 1] + Len(ss[1])
          /\ \A k \in 1 .. Len(ss[1]) : flat[1][at[1 - 1] + k] = ss[1][k]
      BY <3>1, <3>2
    <3>4. Layout(flat[1], ss, at, 1)
      BY <1>2, <3>1, <3>3 DEF Layout
    <3>5. QED
      BY <2>2, <3>4
  <2>3. CASE m # 0 /\ m + 1 \in 1 .. N
    <3>1. m \in Nat /\ m \in 1 .. N /\ m + 1 <= N /\ Layout(flat[m], ss, at, m)
      BY <2>3
    <3>2. flat[m + 1] = flat[m] \o ss[m + 1]
      <4> DEFINE n == m + 1
      <4>1. n \in 1 .. N /\ n # 1 /\ n - 1 = m
        BY <2>3, <3>1
      <4> HIDE DEF n
      <4>2. flat[n] = flat[n - 1] \o ss[n]
        BY <4>1 DEF Joins
      <4>3. flat[n] = flat[m] \o ss[n]
        BY <4>1, <4>2
      <4>4. QED
        BY <4>3 DEF n
    <3> DEFINE a == flat[m]
               b == ss[m + 1]
               c == flat[m + 1]
    <3>3. /\ a \in Seq(S) /\ b \in Seq(S) /\ c = a \o b
          /\ at[m] = Len(a) /\ at[m + 1] = Len(c)
      BY <1>1, <1>2, <2>3, <3>1, <3>2
    <3>4. at[m + 1] = at[m] + Len(b)
      <4> HIDE DEF a, b, c
      <4>1. QED
        BY <3>3, Joined
    <3>5. \A x \in Seq(S) : Layout(x, ss, at, m) => Layout(x \o ss[m + 1], ss, at, m + 1)
      <4> HIDE DEF T, a, c
      <4>1. QED
        BY <1>3, <3>1, <3>4, LayoutGrows
    <3>6. Layout(flat[m + 1], ss, at, m + 1)
      BY <3>1, <3>2, <3>3, <3>5
    <3>7. QED
      BY <3>6
  <2>4. QED
    BY <2>1, <2>2, <2>3
<1>6. T = Nat
  <2>1. T \in SUBSET Nat
    OBVIOUS
  <2> HIDE DEF T
  <2>2. QED
    BY <1>4, <1>5, <2>1, EveryNatural
<1>7. Layout(flat[N], ss, at, N)
  <2>1. N \in T /\ N \in 1 .. N
    <3> HIDE DEF T
    <3>1. QED
      BY <1>6
  <2>2. QED
    BY <2>1
<1>8. flat[N] \in Seq(S)
  BY <1>1
<1>9. QED
  BY <1>3, <1>7, <1>8

\* Where each sequence stands in what FlattenSeq returns.
LEMMA FlattenLayout ==
  ASSUME NEW S, NEW ss \in Seq(Seq(S)), Len(ss) # 0
  PROVE  \E at \in [0 .. Len(ss) -> Nat] :
           FlattenSeq(ss) \in Seq(S) /\ Layout(FlattenSeq(ss), ss, at, Len(ss))
<1>1. PICK flat : /\ FlattenSeq(ss) = flat[Len(ss)]
                  /\ \A i \in 1 .. Len(ss) : flat[i] = IF i = 1 THEN ss[i] ELSE flat[i - 1] \o ss[i]
  BY FlattenSteps
<1> DEFINE N == Len(ss)
<1>2. N \in Nat \ {0} /\ ss \in [1 .. N -> Seq(S)]
  BY LenProperties
<1>3. Joins(flat, ss, N)
  BY <1>1 DEF Joins
<1>4. FlattenSeq(ss) = flat[N]
  BY <1>1
<1> HIDE DEF N
<1>5. \E at \in [0 .. N -> Nat] : flat[N] \in Seq(S) /\ Layout(flat[N], ss, at, N)
  BY <1>2, <1>3, JoinedLayout
<1>6. \E at \in [0 .. N -> Nat] :
        FlattenSeq(ss) \in Seq(S) /\ Layout(FlattenSeq(ss), ss, at, N)
  BY <1>4, <1>5
<1>7. QED
  BY <1>6 DEF N

\* A part of a sequence that has the elements of another is that other.
LEMMA PartIs ==
  ASSUME NEW S, NEW d \in Seq(S), NEW t \in Seq(S), NEW a \in Nat, a + Len(t) <= Len(d),
         \A k \in 1 .. Len(t) : d[a + k] = t[k]
  PROVE  SubSeq(d, a + 1, a + Len(t)) = t
<1> DEFINE l == Len(t)
           x == SubSeq(d, a + 1, a + l)
<1>1. l \in Nat /\ Len(d) \in Nat /\ DOMAIN t = 1 .. l /\ DOMAIN d = 1 .. Len(d)
  BY LenProperties
<1>2. \A i \in a + 1 .. a + l : d[i] \in S
  <2>1. \A i \in a + 1 .. a + l : i \in 1 .. Len(d)
    BY <1>1
  <2>2. QED
    BY <2>1, ElementOfSeq
<1>3. /\ x \in Seq(S)
      /\ Len(x) = IF a + 1 <= a + l THEN (a + l) - (a + 1) + 1 ELSE 0
      /\ \A i \in 1 .. (a + l) - (a + 1) + 1 : x[i] = d[(a + 1) + i - 1]
  <2> DEFINE m == a + 1
             n == a + l
  <2>1. m \in Int /\ n \in Int /\ \A i \in m .. n : d[i] \in S
    BY <1>1, <1>2
  <2>2. x = SubSeq(d, m, n)
    OBVIOUS
  <2> HIDE DEF m, n, x
  <2>3. /\ x \in Seq(S) /\ Len(x) = (IF m <= n THEN n - m + 1 ELSE 0)
        /\ \A i \in 1 .. n - m + 1 : x[i] = d[m + i - 1]
    BY <2>1, <2>2, SubSeqProperties
  <2>4. QED
    BY <2>3 DEF m, n
<1> HIDE DEF x
<1>4. Len(x) = l
  BY <1>1, <1>3
<1>5. ASSUME NEW i \in 1 .. l PROVE x[i] = t[i]
  <2>1. i \in 1 .. (a + l) - (a + 1) + 1 /\ (a + 1) + i - 1 = a + i
    BY <1>1
  <2>2. x[i] = d[a + i]
    BY <1>3, <2>1
  <2>3. QED
    BY <2>2
<1>6. x = t
  BY <1>3, <1>4, <1>5, SeqEqual
<1>7. QED
  BY <1>6 DEF x

\* No sequence stands past the end.
LEMMA LayoutBound ==
  ASSUME NEW N \in Nat, NEW ss, \A i \in 1 .. N : Len(ss[i]) \in Nat,
         NEW at \in [0 .. N -> Nat], NEW all, Len(all) \in Nat, Layout(all, ss, at, N)
  PROVE  \A i \in 0 .. N : at[i] <= Len(all)
<1> DEFINE T == {j \in Nat : j <= N => at[N - j] <= Len(all)}
<1>1. 0 \in T
  BY DEF Layout
<1>2. ASSUME NEW j \in T PROVE j + 1 \in T
  <2>1. CASE j + 1 <= N
    <3> DEFINE i == N - j
               p == at[i - 1]
               q == at[i]
               l == Len(ss[i])
               n == Len(all)
    <3>1. i \in 1 .. N /\ i - 1 \in 0 .. N /\ N - (j + 1) = i - 1 /\ q <= n
      BY <2>1
    <3> HIDE DEF i
    <3>2. p \in Nat /\ q \in Nat /\ l \in Nat /\ q = p + l
      BY <3>1 DEF Layout
    <3>3. p <= n
      <4> HIDE DEF p, q, l
      <4>1. QED
        BY <3>1, <3>2
    <3>4. QED
      BY <3>1, <3>3
  <2>2. QED
    BY <2>1
<1>3. T = Nat
  <2>1. T \in SUBSET Nat
    OBVIOUS
  <2> HIDE DEF T
  <2>2. QED
    BY <1>1, <1>2, <2>1, EveryNatural
<1>4. ASSUME NEW i \in 0 .. N PROVE at[i] <= Len(all)
  <2>1. N - i \in Nat /\ N - i <= N /\ N - (N - i) = i
    OBVIOUS
  <2>2. QED
    BY <1>3, <2>1
<1>5. QED
  BY <1>4

\* The first i elements are the first i - 1 and the i-th.
LEMMA FirstPages ==
  ASSUME NEW S, NEW pages \in Seq(S), NEW i \in 1 .. Len(pages)
  PROVE  /\ SubSeq(pages, 1, i - 1) \in Seq(S)
         /\ SubSeq(pages, 1, i) = Append(SubSeq(pages, 1, i - 1), pages[i])
<1>1. Len(pages) \in Nat /\ i \in Nat /\ 1 \in 1 .. Len(pages) /\ i \in 1 .. Len(pages)
  BY LenProperties
<1> DEFINE taken == SubSeq(pages, 1, i - 1)
<1>2. taken \in Seq(S)
  <2> DEFINE m == 1
             n == i - 1
  <2>1. \A k \in m .. n : pages[k] \in S
    BY <1>1, ElementOfSeq
  <2>2. m \in Int /\ n \in Int
    BY <1>1
  <2> HIDE DEF m, n
  <2>3. SubSeq(pages, m, n) \in Seq(S)
    BY <2>1, <2>2, SubSeqProperties
  <2>4. QED
    BY Zenon, <2>3 DEF m, n
<1>3. pages[i] \in S
  BY ElementOfSeq
<1>4. SubSeq(pages, 1, i) = taken \o <<pages[i]>>
  <2>1. \A m \in 1 .. Len(pages) : \A n \in m .. Len(pages) :
          SubSeq(pages, m, n) = SubSeq(pages, m, n - 1) \o <<pages[n]>>
    BY SubSeqRecursiveSecond
  <2>2. i \in 1 .. Len(pages) /\ 1 \in 1 .. Len(pages)
    BY <1>1
  <2>3. QED
    BY Zenon, <2>1, <2>2
<1> HIDE DEF taken
<1>5. Append(taken, pages[i]) = taken \o <<pages[i]>>
  BY <1>2, <1>3, AppendIsConcat
<1>6. QED
  BY Zenon, <1>2, <1>4, <1>5 DEF taken


\* Sequences of one length n, one behind the other.
Evenly(all, ss, n, N) ==
  /\ Len(all) = n * N
  /\ \A i \in 1 .. N : \A k \in 1 .. n : all[n * (i - 1) + k] = ss[i][k]

\* FlattenSeq lays them out so.
LEMMA EvenLayout ==
  ASSUME NEW S, NEW N \in Nat \ {0}, NEW ss \in [1 .. N -> Seq(S)], NEW n \in Nat,
         \A i \in 1 .. N : Len(ss[i]) = n
  PROVE  FlattenSeq(ss) \in Seq(S) /\ Evenly(FlattenSeq(ss), ss, n, N)
<1>1. ss \in Seq(Seq(S)) /\ Len(ss) = N /\ Len(ss) # 0
  <2>1. ss \in Seq(Seq(S))
    BY SeqDef
  <2>2. DOMAIN ss = 1 .. N /\ DOMAIN ss = 1 .. Len(ss) /\ Len(ss) \in Nat
    BY <2>1, LenProperties
  <2>3. QED
    BY <2>1, <2>2
<1> DEFINE all == FlattenSeq(ss)
<1>2. PICK at \in [0 .. N -> Nat] : all \in Seq(S) /\ Layout(all, ss, at, N)
  <2>1. \E at \in [0 .. Len(ss) -> Nat] :
          FlattenSeq(ss) \in Seq(S) /\ Layout(FlattenSeq(ss), ss, at, Len(ss))
    BY <1>1, FlattenLayout
  <2>2. QED
    BY Zenon, <1>1, <2>1
<1> HIDE DEF all
<1>3. at[0] = 0 /\ at[N] = Len(all)
  BY <1>2 DEF Layout
<1>4. ASSUME NEW i \in 1 .. N
      PROVE  /\ at[i] = at[i - 1] + n
             /\ \A k \in 1 .. n : all[at[i - 1] + k] = ss[i][k]
  BY <1>2 DEF Layout
<1> DEFINE T == {i \in Nat : i <= N => at[i] = n * i}
<1>5. 0 \in T
  BY <1>3
<1>6. ASSUME NEW i \in T PROVE i + 1 \in T
  <2>1. SUFFICES ASSUME i + 1 <= N PROVE at[i + 1] = n * (i + 1)
    OBVIOUS
  <2>2. at[i] = n * i
    BY <1>6, <2>1
  <2>3. at[i + 1] = at[i] + n
    <3> DEFINE j == i + 1
    <3>1. j \in 1 .. N /\ j - 1 = i
      BY <2>1
    <3> HIDE DEF j
    <3>2. at[j] = at[j - 1] + n
      BY <1>4, <3>1
    <3>3. QED
      BY <3>1, <3>2 DEF j
  <2>4. n * (i + 1) = n * i + n
    OBVIOUS
  <2>5. QED
    BY <2>2, <2>3, <2>4
<1> HIDE DEF T
<1>7. T = Nat
  <2>1. T \in SUBSET Nat
    BY DEF T
  <2>2. QED
    BY <1>5, <1>6, <2>1, EveryNatural
<1>8. ASSUME NEW i \in 0 .. N PROVE at[i] = n * i
  <2>1. i \in Nat /\ i <= N
    OBVIOUS
  <2>2. i \in T
    BY <1>7, <2>1
  <2>3. QED
    BY <2>1, <2>2 DEF T
<1>9. Len(all) = n * N
  BY <1>3, <1>8
<1>10. ASSUME NEW i \in 1 .. N, NEW k \in 1 .. n PROVE all[n * (i - 1) + k] = ss[i][k]
  <2>1. i - 1 \in 0 .. N
    OBVIOUS
  <2>2. at[i - 1] = n * (i - 1)
    BY <1>8, <2>1
  <2>3. all[at[i - 1] + k] = ss[i][k]
    BY <1>4
  <2>4. QED
    BY Zenon, <2>2, <2>3
<1>11. QED
  BY <1>2, <1>9, <1>10 DEF all, Evenly

Parts(ss, S, n, N) == ss \in [1 .. N -> Seq(S)] /\ \A i \in 1 .. N : Len(ss[i]) = n
PartAt(all, n, i) == SubSeq(all, (i - 1) * n + 1, ((i - 1) + 1) * n)

\* One of them is the part of the whole where it stands.
LEMMA EvenPart ==
  ASSUME NEW S, NEW N \in Nat \ {0}, NEW n \in Nat, NEW ss, Parts(ss, S, n, N),
         NEW i \in 1 .. N
  PROVE  PartAt(FlattenSeq(ss), n, i) = ss[i]
<1> DEFINE all == FlattenSeq(ss)
           a == (i - 1) * n
           t == ss[i]
<1>0. ss \in [1 .. N -> Seq(S)] /\ \A j \in 1 .. N : Len(ss[j]) = n
  BY Zenon DEF Parts
<1>1. all \in Seq(S) /\ Evenly(all, ss, n, N)
  BY <1>0, EvenLayout
<1> HIDE DEF all
<1>2. t \in Seq(S) /\ Len(t) = n
  BY <1>0
<1>3. a \in Nat /\ ((i - 1) + 1) * n = a + n /\ n * (i - 1) = a /\ a + n <= n * N
  <2>1. i - 1 \in Nat /\ i <= N
    OBVIOUS
  <2>2. a \in Nat /\ ((i - 1) + 1) * n = a + n /\ n * (i - 1) = a /\ a + n = n * i
    BY <2>1
  <2>3. n * i <= n * N
    BY <2>1
  <2> HIDE DEF a
  <2>4. QED
    BY <2>2, <2>3
<1>4. Len(all) = n * N /\ \A k \in 1 .. n : all[n * (i - 1) + k] = t[k]
  BY <1>1 DEF Evenly
<1> HIDE DEF a, t
<1>5. a + Len(t) <= Len(all) /\ \A k \in 1 .. Len(t) : all[a + k] = t[k]
  <2>1. a + n <= Len(all)
    BY <1>3, <1>4
  <2>2. \A k \in 1 .. n : all[a + k] = t[k]
    BY Zenon, <1>3, <1>4
  <2>3. QED
    BY Zenon, <1>2, <2>1, <2>2
<1>6. SubSeq(all, a + 1, a + Len(t)) = t
  BY <1>1, <1>2, <1>3, <1>5, PartIs
<1>7. SubSeq(all, a + 1, ((i - 1) + 1) * n) = t
  BY Zenon, <1>2, <1>3, <1>6
<1>8. QED
  BY Zenon, <1>7 DEF all, a, t, PartAt

-----------------------------------------------------------------------------
(* Quotients.                                                               *)

\* What a quotient is.
LEMMA Divided ==
  ASSUME NEW a \in Nat, NEW n \in Nat \ {0}
  PROVE  a \div n \in Nat /\ n * (a \div n) <= a /\ a < n * (a \div n) + n
OBVIOUS

\* When a number is the quotient.
LEMMA QuotientIs ==
  ASSUME NEW a \in Nat, NEW n \in Nat \ {0}, NEW q \in Nat, n * q <= a, a < n * q + n
  PROVE  a \div n = q
OBVIOUS

\* A quotient and its remainder.
LEMMA Remainder ==
  ASSUME NEW k \in Nat, NEW n \in Nat \ {0}
  PROVE  k % n \in 0 .. n - 1 /\ k \div n \in Nat /\ k = n * (k \div n) + (k % n)
OBVIOUS

\* Three sequences, joined from the left and from the right.
Regroups(x, y, v) == (x \o y) \o v = x \o (y \o v)

\* It does not matter which of three sequences are joined first.
LEMMA JoinInAnyOrder ==
  ASSUME NEW S, NEW x \in Seq(S), NEW y \in Seq(S), NEW v \in Seq(S)
  PROVE  Regroups(x, y, v)
BY ConcatAssociative DEF Regroups

\* Positions m to n of the part from i to j, counted in the whole.
PartsOf(s, i, j, m, n) == SubSeq(SubSeq(s, i, j), m, n) = SubSeq(s, i + m - 1, i + n - 1)

\* A part of a part is a part.
LEMMA PartOfPart ==
  ASSUME NEW S, NEW s \in Seq(S), NEW i \in 1 .. Len(s), NEW j \in 1 .. Len(s),
         NEW m \in 1 .. j - i + 1, NEW n \in 1 .. j - i + 1
  PROVE  PartsOf(s, i, j, m, n)
BY SubSeqOfSubSeq DEF PartsOf

\* The same for a part of the front.
LEMMA PartOfFront ==
  ASSUME NEW S, NEW s \in Seq(S), NEW z \in 1 .. Len(s), NEW m \in 1 .. z, NEW n \in 1 .. z
  PROVE  SubSeq(SubSeq(s, 1, z), m, n) = SubSeq(s, m, n)
<1>1. /\ 1 \in 1 .. Len(s) /\ m \in 1 .. z - 1 + 1 /\ n \in 1 .. z - 1 + 1
      /\ 1 + m - 1 = m /\ 1 + n - 1 = n
  BY LenProperties
<1>2. PartsOf(s, 1, z, m, n)
  BY <1>1, PartOfPart
<1>3. QED
  BY Zenon, <1>1, <1>2 DEF PartsOf

\* The steps of FlattenSeq, by their name.
LEMMA FlattenJoins ==
  ASSUME NEW S, NEW ss \in Seq(Seq(S)), Len(ss) # 0
  PROVE  \E flat : FlattenSeq(ss) = flat[Len(ss)] /\ Joins(flat, ss, Len(ss))
BY FlattenSteps DEF Joins
=============================================================================
