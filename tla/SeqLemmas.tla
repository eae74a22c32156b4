----------------------------- MODULE SeqLemmas ------------------------------
(***************************************************************************)
(* Induction on the natural numbers for sets, and what FlattenSeq, a       *)
(* recursive function, computes.                                           *)
(***************************************************************************)
EXTENDS SequencesExt, Integers, TLAPS, WellFoundedInduction, SequenceTheorems,
        FiniteSetTheorems

\* A set of naturals that is not empty has a least element.
LEMMA LeastNatural ==
  ASSUME NEW T \in SUBSET Nat, T # {}
  PROVE  \E x \in T : \A y \in T : x <= y
<1> DEFINE R == {ss \in Nat \X Nat : ss[1] < ss[2]}
<1>1. IsWellFoundedOn(R, Nat)
  BY NatLessThanWellFounded, Zenon DEF OpToRel
<1>2. \A x, y \in Nat : <<y, x>> \in R <=> y < x
  OBVIOUS
<1> HIDE DEF R
<1>3. PICK x \in T : \A y \in T : <<y, x>> \notin R
  BY WFMin, <1>1
<1>4. ASSUME NEW y \in T PROVE x <= y
  <2>1. x \in Nat /\ y \in Nat
    OBVIOUS
  <2>2. ~(y < x)
    BY <1>2, <1>3, <2>1, Zenon
  <2>3. QED
    BY <2>1, <2>2
<1>5. QED
  BY <1>4

\* Induction, for a predicate given as the set where it holds.
LEMMA SetInduction ==
  ASSUME NEW T \in SUBSET Nat, 0 \in T, \A n \in T : n + 1 \in T
  PROVE  \A n \in Nat : n \in T
<1> SUFFICES ASSUME Nat \ T # {} PROVE FALSE
  OBVIOUS
<1>1. PICK x \in Nat \ T : \A y \in Nat \ T : x <= y
  BY LeastNatural
<1>2. x - 1 \in Nat /\ x - 1 \in T
  BY <1>1
<1>3. QED
  BY <1>1, <1>2

-----------------------------------------------------------------------------
(* Cutting a sequence in two.                                              *)

\* The two parts put together are the whole.
LEMMA SplitAt ==
  ASSUME NEW S, NEW s \in Seq(S), NEW n \in 0..Len(s)
  PROVE  /\ SubSeq(s, 1, n) \in Seq(S) /\ Len(SubSeq(s, 1, n)) = n
         /\ SubSeq(s, n + 1, Len(s)) \in Seq(S) /\ Len(SubSeq(s, n + 1, Len(s))) = Len(s) - n
         /\ SubSeq(s, 1, n) \o SubSeq(s, n + 1, Len(s)) = s
<1> DEFINE a == SubSeq(s, 1, n)
           b == SubSeq(s, n + 1, Len(s))
<1>1. a \in Seq(S) /\ Len(a) = n /\ \A i \in 1..n : a[i] = s[i]
  OBVIOUS
<1>2. b \in Seq(S) /\ Len(b) = Len(s) - n /\ \A i \in 1..Len(s) - n : b[i] = s[n + i]
  OBVIOUS
<1> HIDE DEF a, b
<1>3. a \o b \in Seq(S) /\ Len(a \o b) = Len(s)
  <2>1. a \o b \in Seq(S) /\ Len(a \o b) = Len(a) + Len(b)
    BY <1>1, <1>2, ConcatProperties, Zenon
  <2>2. QED
    BY <1>1, <1>2, <2>1
<1>4. ASSUME NEW i \in 1..Len(s) PROVE (a \o b)[i] = s[i]
  <2>1. (a \o b)[i] = IF i <= n THEN a[i] ELSE b[i - n]
    BY <1>1, <1>2
  <2>2. CASE i <= n
    BY <1>1, <2>1, <2>2
  <2>3. CASE ~(i <= n)
    <3>1. i - n \in 1..Len(s) - n /\ n + (i - n) = i
      BY <2>3
    <3>2. QED
      BY <1>2, <2>1, <2>3, <3>1
  <2>4. QED
    BY <2>2, <2>3
<1>5. a \o b = s
  BY <1>3, <1>4, SeqEqual
<1>6. QED
  BY <1>1, <1>2, <1>5 DEF a, b

-----------------------------------------------------------------------------
(* FlattenSeq(s) is the last value of the function flatten of its          *)
(* definition.                                                             *)

Flattens(g, s, n) == g = [i \in 1..n |-> IF i = 1 THEN s[i] ELSE g[i - 1] \o s[i]]

\* The equation, value by value.
LEMMA FlattensAt ==
  ASSUME NEW s, NEW n \in Nat, NEW g
  PROVE  Flattens(g, s, n) <=>
           /\ g = [i \in 1..n |-> g[i]]
           /\ \A i \in 1..n : g[i] = IF i = 1 THEN s[i] ELSE g[i - 1] \o s[i]
<1> DEFINE F == [i \in 1..n |-> IF i = 1 THEN s[i] ELSE g[i - 1] \o s[i]]
<1>1. \A i \in 1..n : F[i] = IF i = 1 THEN s[i] ELSE g[i - 1] \o s[i]
  BY Zenon
<1>2. F = [i \in 1..n |-> F[i]]
  BY Zenon
<1>3. Flattens(g, s, n) <=> g = F
  BY Zenon DEF Flattens
<1> HIDE DEF F
<1>4. QED
  BY <1>1, <1>2, <1>3, Zenon

\* There is such a function.
LEMMA FlattenExists == ASSUME NEW s PROVE \A n \in Nat : \E g : Flattens(g, s, n)
<1> DEFINE T == {n \in Nat : \E g : Flattens(g, s, n)}
<1>1. 0 \in T
  <2> DEFINE g == [i \in 1..0 |-> 0]
  <2>1. Flattens(g, s, 0)
    BY DEF Flattens
  <2>2. QED
    BY <2>1
<1>2. ASSUME NEW n \in T PROVE n + 1 \in T
  <2>1. n \in Nat
    OBVIOUS
  <2>2. PICK g : Flattens(g, s, n)
    OBVIOUS
  <2> DEFINE e(i) == IF i = 1 THEN s[i] ELSE g[i - 1] \o s[i]
             h == [i \in 1..n + 1 |-> e(i)]
  <2>3. \A i \in 1..n : g[i] = IF i = 1 THEN s[i] ELSE g[i - 1] \o s[i]
    BY <2>1, <2>2, FlattensAt
  <2>4. \A i \in 1..n + 1 : h[i] = e(i)
    BY Zenon
  <2>5. h = [i \in 1..n + 1 |-> h[i]]
    BY Zenon
  <2> HIDE DEF h
  <2>6. \A i \in 1..n + 1 : i # 1 => i - 1 \in 1..n /\ i - 1 \in 1..n + 1
    BY <2>1
  <2>7. \A i \in 1..n + 1 : i # 1 => h[i - 1] = g[i - 1]
    BY <2>3, <2>4, <2>6, Zenon
  <2>8. \A i \in 1..n + 1 : h[i] = IF i = 1 THEN s[i] ELSE h[i - 1] \o s[i]
    BY <2>4, <2>7, Zenon
  <2>9. n + 1 \in Nat
    BY <2>1
  <2>10. Flattens(h, s, n + 1)
    BY <2>5, <2>8, <2>9, FlattensAt, Zenon
  <2>11. QED
    BY <2>9, <2>10
<1> HIDE DEF T
<1>3. \A n \in Nat : n \in T
  <2>1. T \in SUBSET Nat
    BY DEF T
  <2>2. QED
    BY <1>1, <1>2, <2>1, SetInduction
<1>4. QED
  BY <1>3 DEF T

Agree(s, t, n) == \A i \in 1..n : s[i] = t[i]

\* Its values depend on the sequences up to there only.
LEMMA FlattenUnique ==
  ASSUME NEW s, NEW t, NEW n \in Nat, NEW m \in Nat, n <= m,
         Agree(s, t, n),
         NEW g, Flattens(g, s, n), NEW h, Flattens(h, t, m)
  PROVE  Agree(g, h, n)
<1> USE DEF Agree
<1>1. \A i \in 1..n : g[i] = IF i = 1 THEN s[i] ELSE g[i - 1] \o s[i]
  BY FlattensAt
<1>2. \A i \in 1..m : h[i] = IF i = 1 THEN t[i] ELSE h[i - 1] \o t[i]
  BY FlattensAt
<1> DEFINE T == {i \in Nat : i \in 1..n => g[i] = h[i]}
<1>3. 0 \in T
  OBVIOUS
<1>4. ASSUME NEW i \in T PROVE i + 1 \in T
  <2> SUFFICES ASSUME i + 1 \in 1..n PROVE g[i + 1] = h[i + 1]
    OBVIOUS
  <2>1. i + 1 \in 1..m /\ i \in Nat /\ (i + 1) - 1 = i
    OBVIOUS
  <2>2. i + 1 # 1 => i \in 1..n
    OBVIOUS
  <2>3. g[i + 1] = IF i + 1 = 1 THEN s[i + 1] ELSE g[i] \o s[i + 1]
    BY <1>1, <2>1
  <2>4. h[i + 1] = IF i + 1 = 1 THEN t[i + 1] ELSE h[i] \o t[i + 1]
    BY <1>2, <2>1
  <2>5. i + 1 # 1 => g[i] = h[i]
    BY <2>2
  <2>6. QED
    BY <2>3, <2>4, <2>5, Zenon
<1> HIDE DEF T
<1>5. \A i \in Nat : i \in T
  <2>1. T \in SUBSET Nat
    BY DEF T
  <2>2. QED
    BY <1>3, <1>4, <2>1, SetInduction
<1>6. QED
  BY <1>5 DEF T

\* FlattenSeq in terms of any such function.
LEMMA FlattenIs ==
  ASSUME NEW s, NEW n \in Nat \ {0}, Len(s) = n, NEW g, Flattens(g, s, n)
  PROVE  FlattenSeq(s) = g[n]
<1> DEFINE f == CHOOSE h : h = [i \in 1..Len(s) |-> IF i = 1 THEN s[i] ELSE h[i - 1] \o s[i]]
<1>1. FlattenSeq(s) = f[n]
  BY DEF FlattenSeq
<1>2. \E h : h = [i \in 1..Len(s) |-> IF i = 1 THEN s[i] ELSE h[i - 1] \o s[i]]
  BY FlattenExists DEF Flattens
<1>3. f = [i \in 1..Len(s) |-> IF i = 1 THEN s[i] ELSE f[i - 1] \o s[i]]
  BY <1>2
<1> HIDE DEF f
<1>4. Flattens(f, s, n)
  BY <1>3 DEF Flattens
<1>5. Agree(f, g, n)
  BY <1>4, FlattenUnique DEF Agree
<1>6. QED
  BY <1>1, <1>5 DEF Agree

\* FlattenSeq by recursion on its argument: of nothing it is empty.
LEMMA FlattenEmpty == FlattenSeq(<<>>) = <<>>
BY DEF FlattenSeq

\* One sequence more adds its elements at the end.
LEMMA FlattenAppend ==
  ASSUME NEW S, NEW s \in Seq(Seq(S)), NEW x \in Seq(S)
  PROVE  FlattenSeq(Append(s, x)) = FlattenSeq(s) \o x
<1> DEFINE t == Append(s, x)
           n == Len(s)
<1>1. n \in Nat /\ Len(t) = n + 1 /\ t[n + 1] = x /\ \A i \in 1..n : t[i] = s[i]
  OBVIOUS
<1>2. n + 1 \in Nat
  OBVIOUS
<1> HIDE DEF t, n
<1>3. PICK h : Flattens(h, t, n + 1)
  BY <1>2, FlattenExists, Zenon
<1>4. FlattenSeq(t) = h[n + 1]
  BY <1>1, <1>3, FlattenIs
<1>5. h[n + 1] = IF n + 1 = 1 THEN t[n + 1] ELSE h[(n + 1) - 1] \o t[n + 1]
  <2>1. n + 1 \in Nat /\ n + 1 \in 1..n + 1
    BY <1>1
  <2>2. \A i \in 1..n + 1 : h[i] = IF i = 1 THEN t[i] ELSE h[i - 1] \o t[i]
    BY <1>3, <2>1, FlattensAt
  <2>3. QED
    BY <2>1, <2>2, Zenon
<1>6. CASE n = 0
  <2>1. s = <<>>
    BY <1>6 DEF n
  <2>2. FlattenSeq(s) = <<>>
    BY <2>1, FlattenEmpty
  <2>3. <<>> \o x = x
    OBVIOUS
  <2>4. QED
    BY <1>1, <1>4, <1>5, <1>6, <2>2, <2>3 DEF t
<1>7. CASE n # 0
  <2>1. PICK g : Flattens(g, s, n)
    BY <1>1, FlattenExists
  <2>2. FlattenSeq(s) = g[n]
    BY <1>1, <1>7, <2>1, FlattenIs DEF n
  <2>3. g[n] = h[n]
    <3>1. n \in Nat /\ n + 1 \in Nat /\ n <= n + 1 /\ n \in 1..n
      BY <1>1, <1>7
    <3>2. Agree(s, t, n)
      BY <1>1 DEF Agree
    <3>3. Agree(g, h, n)
      BY <1>3, <2>1, <3>1, <3>2, FlattenUnique, Zenon
    <3>4. QED
      BY <3>1, <3>3 DEF Agree
  <2>4. (n + 1) - 1 = n /\ n + 1 # 1
    BY <1>1, <1>7
  <2>5. QED
    BY <1>1, <1>4, <1>5, <2>2, <2>3, <2>4 DEF t
<1>8. QED
  BY <1>6, <1>7

\* The part of FlattenSeq(s) that comes from the first k sequences.
Flat(s, k) == FlattenSeq(SubSeq(s, 1, k))

\* The part from k + 1 sequences, by that from k.
LEMMA FlatNext ==
  ASSUME NEW S, NEW s \in Seq(Seq(S)), NEW k \in 0..Len(s), k < Len(s)
  PROVE  Flat(s, k + 1) = Flat(s, k) \o s[k + 1]
<1>1. SubSeq(s, 1, k + 1) = Append(SubSeq(s, 1, k), s[k + 1])
  OBVIOUS
<1>2. SubSeq(s, 1, k) \in Seq(Seq(S)) /\ s[k + 1] \in Seq(S)
  OBVIOUS
<1>3. QED
  BY <1>1, <1>2, FlattenAppend DEF Flat

\* Each part is a sequence over the same set.
LEMMA FlatType ==
  ASSUME NEW S, NEW s \in Seq(Seq(S))
  PROVE  \A k \in 0..Len(s) : Flat(s, k) \in Seq(S)
<1> DEFINE T == {k \in Nat : k <= Len(s) => Flat(s, k) \in Seq(S)}
<1>1. 0 \in T
  <2>1. SubSeq(s, 1, 0) = <<>>
    OBVIOUS
  <2>2. Flat(s, 0) = <<>>
    BY <2>1, FlattenEmpty DEF Flat
  <2>3. QED
    BY <2>2, EmptySeq
<1>2. ASSUME NEW k \in T PROVE k + 1 \in T
  <2> SUFFICES ASSUME k + 1 <= Len(s) PROVE Flat(s, k + 1) \in Seq(S)
    OBVIOUS
  <2>1. k \in 0..Len(s) /\ k < Len(s) /\ Flat(s, k) \in Seq(S)
    OBVIOUS
  <2>2. Flat(s, k + 1) = Flat(s, k) \o s[k + 1]
    BY <2>1, FlatNext
  <2>3. s[k + 1] \in Seq(S)
    BY <2>1
  <2>4. Flat(s, k) \o s[k + 1] \in Seq(S)
    BY <2>1, <2>3, ConcatProperties, Zenon
  <2>5. QED
    BY <2>2, <2>4, Zenon
<1> HIDE DEF T
<1>3. \A k \in Nat : k \in T
  <2>1. T \in SUBSET Nat
    BY DEF T
  <2>2. QED
    BY <1>1, <1>2, <2>1, SetInduction
<1>4. QED
  BY <1>3 DEF T

\* It is a prefix of the whole.
LEMMA FlatPrefix ==
  ASSUME NEW S, NEW s \in Seq(Seq(S)), NEW k \in 0..Len(s)
  PROVE  /\ Len(Flat(s, k)) <= Len(FlattenSeq(s))
         /\ Flat(s, k) = SubSeq(FlattenSeq(s), 1, Len(Flat(s, k)))
<1> DEFINE P(j) == /\ Len(Flat(s, k)) <= Len(Flat(s, j))
                   /\ Flat(s, k) = SubSeq(Flat(s, j), 1, Len(Flat(s, k)))
           T == {d \in Nat : k + d <= Len(s) => P(k + d)}
<1>1. 0 \in T
  <2>1. Flat(s, k) \in Seq(S)
    BY FlatType
  <2>2. P(k)
    BY <2>1
  <2>3. k + 0 = k
    OBVIOUS
  <2>4. QED
    BY <2>2, <2>3
<1>2. ASSUME NEW d \in T PROVE d + 1 \in T
  <2> SUFFICES ASSUME k + (d + 1) <= Len(s) PROVE P(k + (d + 1))
    OBVIOUS
  <2> DEFINE j == k + d
  <2>1. j \in 0..Len(s) /\ j < Len(s) /\ j + 1 = k + (d + 1) /\ d \in Nat
    OBVIOUS
  <2>2. P(j)
    BY <2>1
  <2> HIDE DEF j
  <2>3. Flat(s, k) \in Seq(S) /\ Flat(s, j) \in Seq(S) /\ s[j + 1] \in Seq(S)
    BY <2>1, FlatType
  <2>4. Flat(s, j + 1) = Flat(s, j) \o s[j + 1]
    BY <2>1, FlatNext
  <2>5. P(j + 1)
    <3> DEFINE a == Flat(s, k)  b == Flat(s, j)  c == s[j + 1]
    <3>1. a \in Seq(S) /\ b \in Seq(S) /\ c \in Seq(S) /\ Len(a) <= Len(b)
           /\ a = SubSeq(b, 1, Len(a))
      BY <2>2, <2>3
    <3> HIDE DEF a, b, c
    <3>2. Len(a) <= Len(b \o c)
      BY <3>1
    <3>3. SubSeq(b \o c, 1, Len(a)) = SubSeq(b, 1, Len(a))
      BY <3>1
    <3>4. QED
      BY <2>4, <3>1, <3>2, <3>3 DEF a, b, c
  <2>6. QED
    BY <2>1, <2>5
<1> HIDE DEF T
<1>3. Len(s) - k \in T
  <2>1. T \in SUBSET Nat
    BY DEF T
  <2>2. Len(s) - k \in Nat
    OBVIOUS
  <2>3. QED
    BY <1>1, <1>2, <2>1, <2>2, SetInduction
<1>4. P(Len(s))
  BY <1>3 DEF T
<1>5. Flat(s, Len(s)) = FlattenSeq(s)
  <2>1. SubSeq(s, 1, Len(s)) = s
    BY SubSeqFull
  <2>2. QED
    BY <2>1 DEF Flat
<1>6. QED
  BY <1>4, <1>5

-----------------------------------------------------------------------------
(* Counting.                                                               *)

\* How many elements of a sequence are in P.
Count(s, P) == Cardinality({i \in DOMAIN s : s[i] \in P})

\* One by one.
LEMMA CountAppend ==
  ASSUME NEW R, NEW s \in Seq(R), NEW x \in R, NEW P
  PROVE  Count(s \o <<x>>, P) = Count(s, P) + IF x \in P THEN 1 ELSE 0
<1> DEFINE S == {i \in DOMAIN s : s[i] \in P}
           t == s \o <<x>>
           T == {i \in DOMAIN t : t[i] \in P}
<1>1. Len(t) = Len(s) + 1 /\ DOMAIN t = 1..Len(s) + 1 /\ DOMAIN s = 1..Len(s)
       /\ t[Len(s) + 1] = x /\ \A i \in 1..Len(s) : t[i] = s[i]
  OBVIOUS
<1>2. Len(s) + 1 \notin S /\ Len(s) \in Nat
  BY <1>1
<1> HIDE DEF t
<1>3. T = IF x \in P THEN S \cup {Len(s) + 1} ELSE S
  BY <1>1
<1> HIDE DEF S, T
<1>4. IsFiniteSet(S) /\ Cardinality(S) \in Nat
  <2>1. S \subseteq 1..Len(s) /\ 1 \in Int /\ Len(s) \in Int
    BY <1>1 DEF S
  <2>2. IsFiniteSet(1..Len(s))
    BY <2>1, FS_Interval
  <2>3. QED
    BY <2>1, <2>2, FS_Subset, FS_CardinalityType
<1>5. Cardinality(S \cup {Len(s) + 1}) = Cardinality(S) + 1
       /\ IsFiniteSet(S \cup {Len(s) + 1})
  BY <1>2, <1>4, FS_AddElement
<1>6. Cardinality(T) = Cardinality(S) + IF x \in P THEN 1 ELSE 0
  BY <1>3, <1>4, <1>5
<1>7. QED
  BY <1>6 DEF S, T, t, Count
=============================================================================
