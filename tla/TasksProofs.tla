----------------------------- MODULE TasksProofs -----------------------------
(***************************************************************************)
(* What the helpers of Tasks on sequences return, for sequences of every    *)
(* length: First, InsertedAt, Without, Ascending and Selected.             *)
(***************************************************************************)
EXTENDS Tasks, FiniteSetTheorems, SequenceTheorems, WellFoundedInduction, TLAPS

\* A set of numbers that is not empty has a least one.
LEMMA Least ==
    ASSUME NEW S \in SUBSET Nat, S # {}
    PROVE  \E k \in S : \A j \in S : k <= j
<1>1. PICK k \in S : \A j \in S : <<j, k>> \notin OpToRel(<, Nat)
  BY NatLessThanWellFounded, WFMin, Zenon
<1>2. \A j \in S : ~(j < k)
  BY <1>1 DEF OpToRel
<1> QED
  BY <1>2

\* So has a finite one a greatest.
LEMMA Greatest ==
    ASSUME NEW n \in Nat, NEW S \in SUBSET (0 .. n), S # {}
    PROVE  \E k \in S : \A j \in S : j <= k
<1> DEFINE Mirror == {m \in 0 .. n : n - m \in S}
<1>0. Mirror \in SUBSET Nat /\ \A j \in S : j \in 0 .. n
  OBVIOUS
<1>1. PICK k \in S : TRUE
  OBVIOUS
<1>2. n - k \in 0 .. n /\ n - (n - k) = k
  BY <1>0
<1>3. Mirror # {}
  BY <1>2
<1>4. PICK m \in Mirror : \A j \in Mirror : m <= j
  BY <1>0, <1>3, Least
<1>5. n - m \in S /\ m \in 0 .. n
  OBVIOUS
<1>6. ASSUME NEW j \in S PROVE j <= n - m
  <2>1. j \in 0 .. n /\ n - j \in 0 .. n /\ n - (n - j) = j
    BY <1>0
  <2>2. m <= n - j
    BY <2>1, <1>4
  <2> QED
    BY <2>1, <2>2, <1>5
<1> QED
  BY <1>5, <1>6

\* The index First returns for those that pass the test: the least, or 0.
LEMMA FirstOf ==
    ASSUME NEW S \in SUBSET Nat,
           NEW k, k = IF S = {} THEN 0 ELSE CHOOSE i \in S : \A j \in S : i <= j
    PROVE  S # {} => k \in S /\ \A j \in S : k <= j
  BY Least

\* slices.Delete and slices.Insert, index by index.
LEMMA WithoutProperties ==
    ASSUME NEW T, NEW seq \in Seq(T), NEW k \in 1 .. Len(seq)
    PROVE  /\ Without(seq, k) \in Seq(T) /\ Len(Without(seq, k)) = Len(seq) - 1
           /\ \A i \in 1 .. Len(seq) - 1 :
                 Without(seq, k)[i] = IF i < k THEN seq[i] ELSE seq[i + 1]
<1> DEFINE front == SubSeq(seq, 1, k - 1)
           back == SubSeq(seq, k + 1, Len(seq))
<1>0. Len(seq) \in Nat /\ k \in Int
  BY LenProperties
<1>1. /\ front \in Seq(T) /\ Len(front) = k - 1
      /\ \A i \in 1 .. k - 1 : front[i] = seq[i]
  BY SubSeqProperties
<1>2. /\ back \in Seq(T) /\ Len(back) = Len(seq) - k
      /\ \A i \in 1 .. Len(seq) - k : back[i] = seq[k + i]
  BY SubSeqProperties
<1> HIDE DEF front, back
<1>3. /\ front \o back \in Seq(T) /\ Len(front \o back) = Len(front) + Len(back)
      /\ \A i \in 1 .. Len(front) + Len(back) :
            (front \o back)[i] = IF i <= Len(front) THEN front[i] ELSE back[i - Len(front)]
  BY <1>1, <1>2, ConcatProperties
<1>4. Without(seq, k) = front \o back
  BY DEF Without, front, back
<1>a. Len(front) + Len(back) = Len(seq) - 1
  BY <1>0, <1>1, <1>2
<1>5. Len(Without(seq, k)) = Len(seq) - 1
  BY <1>3, <1>4, <1>a
<1>6. ASSUME NEW i \in 1 .. Len(seq) - 1
      PROVE  Without(seq, k)[i] = IF i < k THEN seq[i] ELSE seq[i + 1]
  <2>1. Without(seq, k)[i] = IF i <= k - 1 THEN front[i] ELSE back[i - (k - 1)]
    BY <1>0, <1>1, <1>3, <1>4, <1>a
  <2>2. CASE i < k
    BY <2>1, <2>2, <1>0, <1>1
  <2>3. CASE ~(i < k)
    <3>1. i - (k - 1) \in 1 .. Len(seq) - k /\ k + (i - (k - 1)) = i + 1
      BY <2>3, <1>0
    <3> QED
      BY <2>1, <2>3, <3>1, <1>0, <1>2
  <2> QED
    BY <2>2, <2>3, <1>0
<1> QED
  BY <1>3, <1>4, <1>5, <1>6

LEMMA InsertedAtProperties ==
    ASSUME NEW T, NEW seq \in Seq(T), NEW at \in 0 .. Len(seq), NEW e \in T
    PROVE  /\ InsertedAt(seq, at, e) \in Seq(T) /\ Len(InsertedAt(seq, at, e)) = Len(seq) + 1
           /\ \A i \in 1 .. Len(seq) + 1 :
                 InsertedAt(seq, at, e)[i] =
                     IF i <= at THEN seq[i] ELSE IF i = at + 1 THEN e ELSE seq[i - 1]
<1> DEFINE front == SubSeq(seq, 1, at)
           back == SubSeq(seq, at + 1, Len(seq))
           most == front \o <<e>>
<1>0. Len(seq) \in Nat /\ at \in Nat
  BY LenProperties
<1>1. /\ front \in Seq(T) /\ Len(front) = at
      /\ \A i \in 1 .. at : front[i] = seq[i]
  BY SubSeqProperties
<1>2. /\ back \in Seq(T) /\ Len(back) = Len(seq) - at
      /\ \A i \in 1 .. Len(seq) - at : back[i] = seq[at + i]
  BY SubSeqProperties
<1> HIDE DEF front, back
<1>3. /\ most \in Seq(T) /\ Len(most) = at + 1
      /\ \A i \in 1 .. at + 1 : most[i] = IF i <= at THEN front[i] ELSE e
  BY <1>1, ConcatProperties
<1> HIDE DEF most
<1>4. /\ most \o back \in Seq(T) /\ Len(most \o back) = Len(seq) + 1
      /\ \A i \in 1 .. Len(seq) + 1 :
            (most \o back)[i] = IF i <= at + 1 THEN most[i] ELSE back[i - (at + 1)]
  BY <1>2, <1>3, ConcatProperties
<1>5. InsertedAt(seq, at, e) = most \o back
  BY DEF InsertedAt, most, front, back
<1>6. ASSUME NEW i \in 1 .. Len(seq) + 1
      PROVE  InsertedAt(seq, at, e)[i] =
                 IF i <= at THEN seq[i] ELSE IF i = at + 1 THEN e ELSE seq[i - 1]
  <2>1. CASE i <= at + 1
    BY <2>1, <1>1, <1>3, <1>4, <1>5
  <2>2. CASE ~(i <= at + 1)
    <3>1. i - (at + 1) \in 1 .. Len(seq) - at /\ at + (i - (at + 1)) = i - 1
      BY <2>2, <1>0
    <3>2. (most \o back)[i] = back[i - (at + 1)]
      BY <2>2, <1>4
    <3>3. back[i - (at + 1)] = seq[i - 1]
      BY <3>1, <1>2
    <3>4. ~(i <= at) /\ i # at + 1
      BY <2>2, <1>0
    <3> QED
      BY <3>2, <3>3, <3>4, <1>5
  <2> QED
    BY <2>1, <2>2
<1> QED
  BY <1>4, <1>5, <1>6

-----------------------------------------------------------------------------

\* How many numbers of S are below k: the more, the greater k.
Rank(S, k) == Cardinality({j \in S : j < k})

LEMMA RankProperties ==
    ASSUME NEW S \in SUBSET Nat, IsFiniteSet(S)
    PROVE  /\ Cardinality(S) \in Nat
           /\ \A k \in S : Rank(S, k) \in 0 .. Cardinality(S) - 1
           /\ \A k, l \in S : k < l => Rank(S, k) < Rank(S, l)
           /\ \A n \in 1 .. Cardinality(S) : \E k \in S : Rank(S, k) = n - 1
<1>1. Cardinality(S) \in Nat
  BY FS_CardinalityType
<1>2. ASSUME NEW k \in S PROVE Rank(S, k) \in 0 .. Cardinality(S) - 1
  <2>1. {j \in S : j < k} \in SUBSET (S \ {k})
    OBVIOUS
  <2>2. IsFiniteSet(S \ {k}) /\ Cardinality(S \ {k}) = Cardinality(S) - 1
    BY FS_RemoveElement
  <2>3. Rank(S, k) \in Nat /\ Rank(S, k) <= Cardinality(S \ {k})
    BY <2>1, <2>2, FS_Subset, FS_CardinalityType DEF Rank
  <2> QED
    BY <2>2, <2>3, <1>1
<1>3. ASSUME NEW k \in S, NEW l \in S, k < l PROVE Rank(S, k) < Rank(S, l)
  <2> DEFINE B == {j \in S : j < k}
             C == {j \in S : j < l}
  <2>0. ~(k < k) /\ \A j \in S : j < k => j < l
    BY <1>3
  <2>1. B \cup {k} \in SUBSET C /\ k \notin B /\ B \in SUBSET S /\ C \in SUBSET S
    BY <2>0, <1>3
  <2>2. IsFiniteSet(B) /\ IsFiniteSet(C)
    BY <2>1, FS_Subset
  <2>3. Cardinality(B \cup {k}) = Cardinality(B) + 1
    BY <2>1, <2>2, FS_AddElement
  <2>4. Cardinality(B \cup {k}) <= Cardinality(C)
    BY <2>1, <2>2, FS_Subset
  <2>5. Cardinality(B) \in Nat /\ Cardinality(C) \in Nat
    BY <2>2, FS_CardinalityType
  <2> QED
    BY <2>3, <2>4, <2>5 DEF Rank
<1>4. ASSUME NEW n \in 1 .. Cardinality(S) PROVE \E k \in S : Rank(S, k) = n - 1
  <2> DEFINE N == Cardinality(S)
             T == 0 .. N - 1
             rank == [k \in S |-> Rank(S, k)]
  <2>0. N \in Nat /\ 0 \in Int /\ N - 1 \in Int
    BY <1>1
  <2>1. IsFiniteSet(T) /\ Cardinality(T) = N
    BY <2>0, FS_Interval
  <2>2. rank \in [S -> T]
    BY <1>2
  <2>3. \A k, l \in S : rank[k] = rank[l] => k = l
    <3> SUFFICES ASSUME NEW k \in S, NEW l \in S, Rank(S, k) = Rank(S, l), k # l
                 PROVE  FALSE
      OBVIOUS
    <3>1. Rank(S, k) \in Nat /\ Rank(S, l) \in Nat
      BY <1>1, <1>2
    <3> QED
      BY <1>3, <3>1
  <2> HIDE DEF rank, T
  <2>4. rank \in Injection(S, T)
    BY <2>2, <2>3 DEF Injection, IsInjective
  <2>5. rank \in Surjection(S, T)
    BY <2>1, <2>4, FS_Injection
  <2>6. \A t \in T : \E k \in S : rank[k] = t
    BY <2>5 DEF Surjection
  <2>7. n - 1 \in T
    BY <1>1 DEF T
  <2> QED
    BY <2>6, <2>7 DEF rank
<1> QED
  BY <1>1, <1>2, <1>3, <1>4

\* Ascending goes through S from the least to the greatest.
LEMMA AscendingProperties ==
    ASSUME NEW S \in SUBSET Nat, IsFiniteSet(S)
    PROVE  /\ Cardinality(S) \in Nat /\ Ascending(S) \in Seq(S)
           /\ Len(Ascending(S)) = Cardinality(S) /\ DOMAIN Ascending(S) = 1 .. Cardinality(S)
           /\ \A n \in 1 .. Cardinality(S) : Ascending(S)[n] \in S
           /\ \A n, m \in 1 .. Cardinality(S) : n < m => Ascending(S)[n] < Ascending(S)[m]
           /\ \A k \in S : \E n \in 1 .. Cardinality(S) : Ascending(S)[n] = k
<1> DEFINE N == Cardinality(S)
           at == Ascending(S)
<1>1. /\ N \in Nat
      /\ \A k \in S : Rank(S, k) \in 0 .. N - 1
      /\ \A k, l \in S : k < l => Rank(S, k) < Rank(S, l)
      /\ \A n \in 1 .. N : \E k \in S : Rank(S, k) = n - 1
  BY RankProperties
<1>2. at = [n \in 1 .. N |-> CHOOSE k \in S : Rank(S, k) = n - 1]
  BY DEF Ascending, Rank
<1> HIDE DEF N, at
<1>3. \A n \in 1 .. N : at[n] \in S /\ Rank(S, at[n]) = n - 1
  BY <1>1, <1>2
<1>4. ASSUME NEW n \in 1 .. N, NEW m \in 1 .. N, n < m PROVE at[n] < at[m]
  <2>0. n \in Int /\ m \in Int /\ n - 1 < m - 1
    BY <1>1, <1>4
  <2>1. at[n] \in Nat /\ at[m] \in Nat /\ Rank(S, at[n]) < Rank(S, at[m])
    BY <2>0, <1>3
  <2>2. Rank(S, at[n]) \in Int /\ Rank(S, at[m]) \in Int
    BY <1>1, <1>3
  <2> QED
    BY <1>1, <1>3, <2>1, <2>2
<1>5. ASSUME NEW k \in S PROVE \E n \in 1 .. N : at[n] = k
  <2> DEFINE n == Rank(S, k) + 1
  <2>1. n \in 1 .. N /\ Rank(S, k) \in Int
    BY <1>1
  <2>2. at[n] \in S /\ Rank(S, at[n]) = Rank(S, k)
    BY <2>1, <1>3
  <2>3. at[n] = k
    <3>1. at[n] \in Nat /\ k \in Nat
      BY <2>2
    <3>2. ~(Rank(S, k) < Rank(S, k))
      BY <2>1
    <3> QED
      BY <2>2, <3>1, <3>2, <1>1
  <2> QED
    BY <2>1, <2>3
<1>6. at \in Seq(S) /\ Len(at) = N /\ DOMAIN at = 1 .. N
  BY <1>1, <1>2, <1>3
<1> QED
  BY <1>1, <1>3, <1>4, <1>5, <1>6 DEF N, at

\* Selected keeps the elements at the places of S, and their order.
LEMMA SelectedProperties ==
    ASSUME NEW T, NEW seq \in Seq(T), NEW S \in SUBSET DOMAIN seq
    PROVE  /\ IsFiniteSet(S) /\ S \in SUBSET Nat /\ Cardinality(S) \in Nat
           /\ Selected(seq, S) \in Seq(T) /\ Len(Selected(seq, S)) = Cardinality(S)
           /\ DOMAIN Selected(seq, S) = 1 .. Cardinality(S)
           /\ \A n \in 1 .. Cardinality(S) : Selected(seq, S)[n] = seq[Ascending(S)[n]]
<1>1. DOMAIN seq = 1 .. Len(seq) /\ Len(seq) \in Nat
  BY LenProperties
<1>0. IsFiniteSet(1 .. Len(seq))
  BY <1>1, FS_Interval
<1>2. IsFiniteSet(S) /\ S \in SUBSET Nat
  BY <1>0, <1>1, FS_Subset
<1>3. /\ Cardinality(S) \in Nat /\ DOMAIN Ascending(S) = 1 .. Cardinality(S)
      /\ \A n \in 1 .. Cardinality(S) : Ascending(S)[n] \in S
  BY <1>2, AscendingProperties
<1>4. Selected(seq, S) = [n \in 1 .. Cardinality(S) |-> seq[Ascending(S)[n]]]
  BY <1>3 DEF Selected
<1>5. \A k \in S : seq[k] \in T
  BY <1>1
<1> QED
  BY <1>2, <1>3, <1>4, <1>5
=============================================================================
