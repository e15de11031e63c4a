---------------------------- MODULE ReorderProofs ----------------------------
(***************************************************************************)
(* calculateStableItemIDs finds a largest set of items that are in the      *)
(* order wanted already, for lists of every length.                        *)
(***************************************************************************)
EXTENDS Reorder, TasksProofs

\* The equation that defines Chains has a solution.
LEMMA ChainsExist ==
    ASSUME NEW idx \in Seq(Nat)
    PROVE  Chains(idx) = [i \in 0 .. Len(idx) |->
                             IF i = 0 THEN <<>>
                             ELSE Append(Chains(idx)[i - 1], ChainTo(idx, Chains(idx)[i - 1], i))]
<1> DEFINE N == Len(idx)
           Solves(f, n) ==
               f = [i \in 0 .. n |-> IF i = 0 THEN <<>> ELSE Append(f[i - 1], ChainTo(idx, f[i - 1], i))]
           Unsolved == {n \in 0 .. N : ~\E f : Solves(f, n)}
<1>0. N \in Nat
  BY LenProperties
<1>1. SUFFICES Unsolved = {}
  <2>1. ASSUME Unsolved = {} PROVE \E f : Solves(f, N)
    BY <2>1, <1>0
  <2>2. Chains(idx) = CHOOSE f : Solves(f, N)
    BY DEF Chains
  <2> HIDE DEF Solves
  <2>3. ASSUME Unsolved = {} PROVE Solves(Chains(idx), N)
    BY <2>1, <2>2, <2>3
  <2> QED
    BY <2>3 DEF Solves
<1>2. SUFFICES ASSUME Unsolved # {} PROVE FALSE
  OBVIOUS
<1>3. PICK n \in Unsolved : \A m \in Unsolved : n <= m
  <2>1. Unsolved \in SUBSET Nat
    BY <1>0
  <2> QED
    BY <2>1, <1>2, Least
<1>4. n \in 0 .. N /\ ~\E f : Solves(f, n)
  OBVIOUS
<1>5. CASE n = 0
  <2>1. Solves([i \in 0 .. 0 |-> <<>>], 0)
    OBVIOUS
  <2> QED
    BY <2>1, <1>4, <1>5
<1>6. CASE n # 0
  <2>1. n - 1 \in 0 .. N /\ n - 1 \notin Unsolved
    <3>1. n \in Nat /\ n - 1 \in 0 .. N /\ ~(n <= n - 1)
      BY <1>0, <1>4, <1>6
    <3> HIDE DEF Unsolved
    <3> QED
      BY <3>1, <1>3
  <2>2. PICK f : Solves(f, n - 1)
    BY <2>1
  <2> DEFINE last == Append(f[n - 1], ChainTo(idx, f[n - 1], n))
             g == [i \in 0 .. n |-> IF i = n THEN last ELSE f[i]]
  <2>3. ASSUME NEW i \in 0 .. n
        PROVE  g[i] = IF i = 0 THEN <<>> ELSE Append(g[i - 1], ChainTo(idx, g[i - 1], i))
    <3>1. CASE i = 0
      BY <3>1, <1>4, <1>6, <2>2
    <3>2. CASE i = n
      BY <3>2, <1>4, <1>6
    <3>3. CASE i # 0 /\ i # n
      <4>1. i \in 0 .. n - 1 /\ i - 1 \in 0 .. n - 1
        BY <3>3, <1>4
      <4>2. g[i] = f[i] /\ g[i - 1] = f[i - 1]
        BY <4>1, <1>4
      <4>3. f[i] = Append(f[i - 1], ChainTo(idx, f[i - 1], i))
        BY <4>1, <2>2, <3>3
      <4> QED
        BY <4>2, <4>3, <3>3
    <3> QED
      BY <3>1, <3>2, <3>3
  <2>4. g = [i \in 0 .. n |-> g[i]]
    OBVIOUS
  <2> HIDE DEF g
  <2>5. Solves(g, n)
    BY <2>3, <2>4
  <2> QED
    BY <2>5, <1>4
<1> QED
  BY <1>5, <1>6

\* Of finitely many chains one is the longest, and LongestAt finds it.
LEMMA LongestProperties ==
    ASSUME NEW n \in Nat, NEW S \in SUBSET (1 .. n), S # {}, NEW chains,
           \A j \in S : chains[j] \in SUBSET (1 .. n)
    PROVE  /\ LongestAt(chains, S) \in S
           /\ \A i \in S : Cardinality(chains[i]) <= Cardinality(chains[LongestAt(chains, S)])
<1> DEFINE size(j) == Cardinality(chains[j])
           sizes == {m \in 0 .. n : \E j \in S : size(j) = m}
<1>0. S \in SUBSET Nat
  OBVIOUS
<1>1. \A j \in S : size(j) \in 0 .. n
  <2>1. IsFiniteSet(1 .. n) /\ Cardinality(1 .. n) = n
    BY FS_Interval
  <2> QED
    BY <2>1, FS_Subset, FS_CardinalityType
<1>2. PICK most \in sizes : \A m \in sizes : m <= most
  <2>1. sizes # {} /\ sizes \in SUBSET (0 .. n)
    BY <1>1
  <2> HIDE DEF sizes
  <2> QED
    BY <2>1, Greatest
<1> DEFINE ends == {j \in S : size(j) = most}
<1>3. PICK k \in ends : \A j \in ends : k <= j
  <2>0. \E j \in S : size(j) = most
    OBVIOUS
  <2> HIDE DEF size
  <2>1. ends # {}
    BY <2>0
  <2>2. ends \in SUBSET S
    OBVIOUS
  <2> HIDE DEF ends
  <2> QED
    BY <2>1, <2>2, <1>0, Least
<1>4. k \in S /\ size(k) = most
  OBVIOUS
<1>5. ASSUME NEW i \in S
      PROVE  size(i) < size(k) \/ (size(i) = size(k) /\ k <= i)
  <2>1. size(i) \in sizes /\ size(i) \in 0 .. n /\ most \in 0 .. n
    BY <1>1
  <2>2. size(i) <= most
    BY <2>1, <1>2
  <2> QED
    BY <2>1, <2>2, <1>3, <1>4
<1> DEFINE l == LongestAt(chains, S)
<1>6. l \in S /\ \A i \in S : size(i) < size(l) \/ (size(i) = size(l) /\ l <= i)
  BY <1>4, <1>5 DEF LongestAt
<1> HIDE DEF l
<1>7. \A i \in S : size(i) <= size(l)
  BY <1>1, <1>6
<1> QED
  BY <1>6, <1>7 DEF l

\* Every chain ends at its index, increases, and none that does so is longer.
Increasing(idx, S) == \A j, k \in S : j < k => idx[j] < idx[k]

LEMMA ChainsProperties ==
    ASSUME NEW idx \in Seq(Nat), NEW chains, chains = Chains(idx)[Len(idx)],
           NEW i \in 1 .. Len(idx)
    PROVE  /\ chains[i] \in SUBSET (1 .. i) /\ i \in chains[i] /\ Increasing(idx, chains[i])
           /\ \A T \in SUBSET (1 .. i) :
                 i \in T /\ Increasing(idx, T) => Cardinality(T) <= Cardinality(chains[i])
<1> DEFINE N == Len(idx)
           dp == Chains(idx)
           Ends(c, j) ==
               /\ c \in SUBSET (1 .. j) /\ j \in c /\ Increasing(idx, c)
               /\ \A T \in SUBSET (1 .. j) :
                     j \in T /\ Increasing(idx, T) => Cardinality(T) <= Cardinality(c)
           Good(t, n) == t \in Seq(SUBSET Nat) /\ Len(t) = n /\ \A j \in 1 .. n : Ends(t[j], j)
           Bad == {n \in 0 .. N : ~Good(dp[n], n)}
<1>0. N \in Nat /\ \A j \in 1 .. N : idx[j] \in Nat
  BY LenProperties
<1>1. \A n \in 0 .. N : dp[n] = IF n = 0 THEN <<>> ELSE Append(dp[n - 1], ChainTo(idx, dp[n - 1], n))
  BY ChainsExist
<1> HIDE DEF dp
\* One chain more.
<1>2. ASSUME NEW n \in 1 .. N, NEW t, Good(t, n - 1)
      PROVE  Ends(ChainTo(idx, t, n), n)
  <2> DEFINE c == ChainTo(idx, t, n)
             below == {j \in 1 .. n - 1 : idx[j] < idx[n]}
             l == LongestAt(t, below)
  <2>0. n \in Nat /\ n - 1 \in Nat /\ \A j \in 1 .. n - 1 : j \in 1 .. N /\ j < n
    BY <1>0
  <2>1. c = {n} \cup IF below = {} THEN {} ELSE t[l]
    BY DEF ChainTo
  <2>2. \A j \in 1 .. n - 1 : Ends(t[j], j)
    BY <1>2
  <2>3. \A j \in 1 .. n - 1 : t[j] \in SUBSET (1 .. n - 1)
    BY <2>0, <2>2
  <2> HIDE DEF c, Good, Ends, l
  <2>4. below # {} => l \in below /\ \A j \in below : Cardinality(t[j]) <= Cardinality(t[l])
    BY <2>0, <2>3, LongestProperties DEF l
  <2>5. c \in SUBSET (1 .. n) /\ n \in c
    <3>1. \A j \in 1 .. n - 1 : t[j] \in SUBSET (1 .. n)
      BY <2>0, <2>3
    <3>2. n \in 1 .. n
      BY <2>0
    <3>3. below # {} => l \in 1 .. n - 1
      BY <2>4
    <3> HIDE DEF below
    <3> QED
      BY <2>1, <3>1, <3>2, <3>3
  <2>6. Increasing(idx, c)
    <3> SUFFICES ASSUME NEW j \in c, NEW k \in c, j < k PROVE idx[j] < idx[k]
      BY DEF Increasing
    <3>0. j \in 1 .. n /\ k \in 1 .. n /\ j # n
      BY <2>0, <2>5
    <3>1. below # {} /\ l \in 1 .. n - 1 /\ idx[l] < idx[n] /\ j \in t[l] /\ j \in 1 .. l
      <4>1. below # {} /\ j \in t[l]
        BY <2>1, <3>0
      <4>2. l \in 1 .. n - 1 /\ idx[l] < idx[n]
        BY <4>1, <2>4
      <4>3. t[l] \in SUBSET (1 .. l)
        BY <4>2, <2>2 DEF Ends
      <4> QED
        BY <4>1, <4>2, <4>3
    <3>2. CASE k = n
      <4>1. l \in t[l] /\ Increasing(idx, t[l]) /\ (j = l \/ j < l)
        BY <3>1, <2>2 DEF Ends
      <4>2. idx[j] = idx[l] \/ idx[j] < idx[l]
        BY <4>1, <3>1 DEF Increasing
      <4>3. idx[j] \in Nat /\ idx[l] \in Nat /\ idx[n] \in Nat
        BY <3>0, <3>1, <2>0, <1>0
      <4>4. idx[l] < idx[n]
        BY <3>1
      <4>5. idx[j] < idx[n]
        BY <4>2, <4>3, <4>4
      <4> QED
        BY <4>5, <3>2
    <3>3. CASE k # n
      BY <3>1, <3>3, <2>1, <2>2 DEF Ends, Increasing
    <3> QED
      BY <3>2, <3>3
  <2>7. ASSUME NEW T \in SUBSET (1 .. n), n \in T, Increasing(idx, T)
        PROVE  Cardinality(T) <= Cardinality(c)
    <3> DEFINE U == T \ {n}
    <3>0. \A S \in SUBSET (1 .. n) : IsFiniteSet(S) /\ Cardinality(S) \in Nat
      <4>1. IsFiniteSet(1 .. n)
        BY <2>0, FS_Interval
      <4> QED
        BY <4>1, FS_Subset, FS_CardinalityType
    <3>1. Cardinality(T) = Cardinality(U) + 1
      <4>1. IsFiniteSet(T) /\ Cardinality(T) \in Nat /\ n \in T
        BY <3>0, <2>7
      <4>2. Cardinality(T \ {n}) = Cardinality(T) - 1
        BY <4>1, FS_RemoveElement
      <4> QED
        BY <4>1, <4>2
    <3>2. CASE U = {}
      <4>0. Cardinality(U) = 0
        BY <3>2, FS_EmptySet
      <4>1. Cardinality(T) = 1
        BY <4>0, <3>1
      <4>2. Cardinality(c) # 0
        BY <3>0, <2>5, FS_EmptySet
      <4> QED
        BY <4>1, <4>2, <3>0, <2>5
    <3>3. CASE U # {}
      <4>1. U \in SUBSET (0 .. n - 1)
        <5>1. \A u \in 1 .. n : u # n => u \in 0 .. n - 1
          BY <2>0
        <5> QED
          BY <5>1
      <4>2. PICK m \in U : \A j \in U : j <= m
        BY <4>1, <3>3, <2>0, Greatest
      <4>3. m \in below /\ m \in 1 .. n - 1 /\ U \in SUBSET (1 .. m) /\ Increasing(idx, U)
        BY <4>2, <2>0, <2>7 DEF Increasing
      <4>4. Cardinality(U) <= Cardinality(t[m])
        BY <4>2, <4>3, <2>2 DEF Ends
      <4>5. Cardinality(t[m]) <= Cardinality(t[l]) /\ l \in 1 .. n - 1 /\ c = t[l] \cup {n}
        BY <4>3, <2>1, <2>4
      <4>6. t[l] \in SUBSET (1 .. n - 1)
        BY <4>5, <2>3
      <4>7. n \notin t[l] /\ t[l] \in SUBSET (1 .. n) /\ t[m] \in SUBSET (1 .. n)
        BY <4>3, <4>6, <2>0, <2>3
      <4>8. Cardinality(c) = Cardinality(t[l]) + 1
        BY <4>5, <4>7, <3>0, FS_AddElement
      <4>9. Cardinality(U) \in Nat /\ Cardinality(t[m]) \in Nat /\ Cardinality(t[l]) \in Nat
        BY <4>7, <3>0
      <4> QED
        BY <4>4, <4>5, <4>8, <4>9, <3>1
    <3> QED
      BY <3>2, <3>3
  <2> QED
    BY <2>5, <2>6, <2>7 DEF Ends, c
<1>3. Bad = {}
  <2>1. SUFFICES ASSUME Bad # {} PROVE FALSE
    OBVIOUS
  <2>2. PICK n \in Bad : \A m \in Bad : n <= m
    <3>1. Bad \in SUBSET Nat
      BY <1>0
    <3> HIDE DEF Bad
    <3> QED
      BY <3>1, <2>1, Least
  <2>3. n \in 0 .. N /\ ~Good(dp[n], n)
    OBVIOUS
  <2>4. CASE n = 0
    <3>1. dp[n] = <<>> /\ <<>> \in Seq(SUBSET Nat) /\ Len(<<>>) = 0 /\ 1 .. 0 = {}
      BY <2>3, <2>4, <1>1
    <3> QED
      BY <3>1, <2>3, <2>4
  <2>5. CASE n # 0
    <3> DEFINE t == dp[n - 1]
               c == ChainTo(idx, t, n)
    <3>1. n \in 1 .. N /\ n - 1 \in 0 .. N /\ ~(n <= n - 1)
      BY <2>3, <2>5, <1>0
    <3>2. Good(t, n - 1)
      BY <3>1, <2>2
    <3>3. Ends(c, n) /\ dp[n] = Append(t, c)
      <4>1. dp[n] = Append(t, c)
        BY <2>3, <2>5, <1>1
      <4> HIDE DEF Good, Ends, t
      <4>2. Ends(c, n)
        BY <3>1, <3>2, <1>2
      <4> QED
        BY <4>1, <4>2
    <3>4. c \in SUBSET Nat
      BY <3>1, <3>3
    <3> HIDE DEF t, c, Ends
    <3>5. /\ dp[n] \in Seq(SUBSET Nat) /\ Len(dp[n]) = n
          /\ dp[n][n] = c /\ \A j \in 1 .. n - 1 : dp[n][j] = t[j]
      BY <3>1, <3>2, <3>3, <3>4, AppendProperties
    <3>6. \A j \in 1 .. n : j = n \/ j \in 1 .. n - 1
      BY <3>1
    <3> QED
      BY <3>2, <3>3, <3>5, <3>6, <2>3
  <2> QED
    BY <2>4, <2>5
<1>4. Good(chains, N)
  BY <1>0, <1>3 DEF dp
<1> QED
  BY <1>4

\* The longest of them is as long as any increasing set of indices.
LEMMA LongestChain ==
    ASSUME NEW idx \in Seq(Nat), idx # <<>>, NEW chains, chains = Chains(idx)[Len(idx)],
           NEW C, C = chains[LongestAt(chains, DOMAIN idx)]
    PROVE  /\ C \in SUBSET DOMAIN idx /\ Increasing(idx, C)
           /\ \A T \in SUBSET DOMAIN idx : Increasing(idx, T) => Cardinality(T) <= Cardinality(C)
<1> DEFINE N == Len(idx)
           l == LongestAt(chains, DOMAIN idx)
<1>a. N \in Nat /\ DOMAIN idx = 1 .. N /\ N # 0
  BY LenProperties, EmptySeq
<1>b. 1 \in 1 .. N
  BY <1>a
<1>0. N \in Nat /\ DOMAIN idx = 1 .. N /\ DOMAIN idx # {}
  BY <1>a, <1>b
<1>1. ASSUME NEW i \in 1 .. N
      PROVE  /\ chains[i] \in SUBSET (1 .. i) /\ i \in chains[i] /\ Increasing(idx, chains[i])
             /\ \A T \in SUBSET (1 .. i) :
                   i \in T /\ Increasing(idx, T) => Cardinality(T) <= Cardinality(chains[i])
  BY <1>1, ChainsProperties
<1>2. \A i \in 1 .. N : chains[i] \in SUBSET (1 .. N)
  <2> SUFFICES ASSUME NEW i \in 1 .. N PROVE chains[i] \in SUBSET (1 .. N)
    OBVIOUS
  <2>1. (1 .. i) \in SUBSET (1 .. N)
    BY <1>0
  <2> QED
    BY <2>1, <1>1
<1>3. l \in 1 .. N /\ \A i \in 1 .. N : Cardinality(chains[i]) <= Cardinality(chains[l])
  BY <1>0, <1>2, LongestProperties
<1> HIDE DEF l
<1>4. C = chains[l]
  BY DEF l
<1>5. ASSUME NEW T \in SUBSET (1 .. N), Increasing(idx, T)
      PROVE  Cardinality(T) <= Cardinality(C)
  <2>0. \A S \in SUBSET (1 .. N) : Cardinality(S) \in Nat
    <3>1. IsFiniteSet(1 .. N)
      BY <1>0, FS_Interval
    <3> QED
      BY <3>1, FS_Subset, FS_CardinalityType
  <2>1. CASE T = {}
    BY <2>1, <2>0, <1>2, <1>3, <1>4, FS_EmptySet
  <2>2. CASE T # {}
    <3>1. T \in SUBSET (0 .. N)
      BY <1>0
    <3>2. PICK m \in T : \A j \in T : j <= m
      BY <3>1, <2>2, <1>0, Greatest
    <3>3. m \in 1 .. N /\ T \in SUBSET (1 .. m)
      BY <3>2, <1>0
    <3>4. Cardinality(T) <= Cardinality(chains[m])
      BY <3>2, <3>3, <1>1, <1>5
    <3>5. Cardinality(chains[m]) <= Cardinality(C)
      BY <3>3, <1>3, <1>4
    <3>6. Cardinality(T) \in Nat /\ Cardinality(chains[m]) \in Nat /\ Cardinality(C) \in Nat
      BY <3>3, <2>0, <1>2, <1>3, <1>4
    <3> QED
      BY <3>4, <3>5, <3>6
  <2> QED
    BY <2>1, <2>2
<1> QED
  BY <1>0, <1>1, <1>2, <1>3, <1>4, <1>5

-----------------------------------------------------------------------------

NoRepeats(seq) == \A i, j \in DOMAIN seq : seq[i] = seq[j] => i = j

\* The items of these places of wanted are in current, in the same order.
Agree(wanted, current, K) ==
    /\ \A k \in K : \E p \in DOMAIN current : current[p] = wanted[k]
    /\ \A k, l \in K : \A p, q \in DOMAIN current :
          k < l /\ current[p] = wanted[k] /\ current[q] = wanted[l] => p < q

\* Index by index, where current has the items that it has.
LEMMA CurrentIndicesProperties ==
    ASSUME NEW X, NEW wanted \in Seq(X), NEW current \in Seq(X),
           NEW there, there = {k \in DOMAIN wanted : \E p \in DOMAIN current : current[p] = wanted[k]},
           NEW idx, idx = CurrentIndices(wanted, current)
    PROVE  /\ IsFiniteSet(there) /\ there \in SUBSET Nat /\ there \in SUBSET DOMAIN wanted
           /\ idx \in Seq(Nat) /\ Len(idx) = Cardinality(there) /\ Cardinality(there) \in Nat
           /\ DOMAIN idx = 1 .. Cardinality(there)
           /\ \A j \in 1 .. Cardinality(there) :
                 idx[j] \in DOMAIN current /\ current[idx[j]] = wanted[Ascending(there)[j]]
<1> DEFINE known == Selected(wanted, there)
           n == Cardinality(there)
<1>1. /\ there \in SUBSET DOMAIN wanted
      /\ \A k \in there : \E p \in DOMAIN current : current[p] = wanted[k]
  OBVIOUS
<1>2. /\ IsFiniteSet(there) /\ there \in SUBSET Nat /\ n \in Nat /\ DOMAIN known = 1 .. n
      /\ \A j \in 1 .. n : known[j] = wanted[Ascending(there)[j]]
  BY <1>1, SelectedProperties
<1>3. \A j \in 1 .. n : Ascending(there)[j] \in there
  BY <1>2, AscendingProperties
<1>4. \A j \in 1 .. n : \E p \in DOMAIN current : current[p] = known[j]
  <2> SUFFICES ASSUME NEW j \in 1 .. n PROVE \E p \in DOMAIN current : current[p] = known[j]
    OBVIOUS
  <2>1. Ascending(there)[j] \in there /\ known[j] = wanted[Ascending(there)[j]]
    BY <1>2, <1>3
  <2> HIDE DEF known
  <2> QED
    BY <2>1, <1>1
<1>5. idx = [j \in DOMAIN known |-> CHOOSE p \in DOMAIN current : current[p] = known[j]]
  BY DEF CurrentIndices
<1>6. DOMAIN current \in SUBSET Nat
  BY LenProperties
<1> HIDE DEF known, n
<1>7. \A j \in 1 .. n : idx[j] \in DOMAIN current /\ current[idx[j]] = known[j]
  BY <1>2, <1>4, <1>5
<1>8. idx \in Seq(Nat) /\ Len(idx) = n /\ DOMAIN idx = 1 .. n
  BY <1>2, <1>5, <1>6, <1>7
<1> QED
  BY <1>1, <1>2, <1>7, <1>8 DEF n

\* calculateStableItemIDs: what stays agrees with current, and no more could.
LEMMA StableItemsAreMost ==
    ASSUME NEW X, NEW wanted \in Seq(X), NEW current \in Seq(X),
           NoRepeats(wanted), NoRepeats(current),
           NEW K, K = {k \in DOMAIN wanted : wanted[k] \in StableItems(wanted, current)}
    PROVE  /\ Agree(wanted, current, K)
           /\ \A L \in SUBSET DOMAIN wanted :
                 Agree(wanted, current, L) => Cardinality(L) <= Cardinality(K)
<1> DEFINE there == {k \in DOMAIN wanted : \E p \in DOMAIN current : current[p] = wanted[k]}
           at == Ascending(there)
           n == Cardinality(there)
           idx == CurrentIndices(wanted, current)
           chains == Chains(idx)[Len(idx)]
           C == IF idx = <<>> THEN {} ELSE chains[LongestAt(chains, DOMAIN idx)]
<1>0. /\ \A i, j \in DOMAIN wanted : wanted[i] = wanted[j] => i = j
      /\ \A i, j \in DOMAIN current : current[i] = current[j] => i = j
      /\ DOMAIN current \in SUBSET Nat
  BY LenProperties DEF NoRepeats
<1>1. /\ IsFiniteSet(there) /\ there \in SUBSET Nat /\ there \in SUBSET DOMAIN wanted
      /\ idx \in Seq(Nat) /\ Len(idx) = n /\ n \in Nat /\ DOMAIN idx = 1 .. n
      /\ \A j \in 1 .. n : idx[j] \in DOMAIN current /\ current[idx[j]] = wanted[at[j]]
  BY SMTT(20), CurrentIndicesProperties
<1>2. /\ \A j \in 1 .. n : at[j] \in there
      /\ \A j, k \in 1 .. n : j < k => at[j] < at[k]
      /\ \A k \in there : \E j \in 1 .. n : at[j] = k
  BY <1>1, AscendingProperties
<1>3. StableItems(wanted, current) = {current[idx[j]] : j \in C}
  BY DEF StableItems
<1>4. \A k \in there : \E p \in DOMAIN current : current[p] = wanted[k]
  OBVIOUS
<1> HIDE DEF at, n, idx, there
<1>5. /\ C \in SUBSET (1 .. n) /\ Increasing(idx, C)
      /\ \A T \in SUBSET (1 .. n) : Increasing(idx, T) => Cardinality(T) <= Cardinality(C)
  <2>1. CASE idx = <<>>
    <3>1. C = {} /\ 1 .. n = {}
      BY <2>1, <1>1, EmptySeq
    <3> HIDE DEF C
    <3>2. \A T \in SUBSET (1 .. n) : T = {}
      BY <3>1
    <3>3. Cardinality({}) <= Cardinality({})
      BY FS_EmptySet
    <3> QED
      BY <3>1, <3>2, <3>3 DEF Increasing
  <2>2. CASE idx # <<>>
    <3>1. C = chains[LongestAt(chains, DOMAIN idx)] /\ DOMAIN idx = 1 .. n
      BY <2>2, <1>1
    <3>a. chains = Chains(idx)[Len(idx)] /\ idx \in Seq(Nat)
      BY <1>1
    <3> HIDE DEF C, chains
    <3>b. \A t, c : t = Chains(idx)[Len(idx)] /\ c = t[LongestAt(t, DOMAIN idx)] =>
             /\ c \in SUBSET DOMAIN idx /\ Increasing(idx, c)
             /\ \A T \in SUBSET DOMAIN idx : Increasing(idx, T) => Cardinality(T) <= Cardinality(c)
      BY <2>2, <3>a, LongestChain
    <3>2. /\ C \in SUBSET DOMAIN idx /\ Increasing(idx, C)
          /\ \A T \in SUBSET DOMAIN idx : Increasing(idx, T) => Cardinality(T) <= Cardinality(C)
      BY <3>1, <3>a, <3>b
    <3> QED
      BY <3>1, <3>2
  <2> QED
    BY <2>1, <2>2
<1> HIDE DEF C
<1>6. \A j \in 1 .. n : at[j] \in DOMAIN wanted /\ at[j] \in Nat /\ idx[j] \in Nat
  <2>1. \A j \in 1 .. n : at[j] \in there /\ idx[j] \in DOMAIN current
    BY <1>1, <1>2
  <2>2. there \in SUBSET Nat /\ there \in SUBSET DOMAIN wanted
    BY <1>1
  <2> QED
    BY <2>1, <2>2, <1>0
\* K is what at makes of C.
<1>7. \A j \in C : at[j] \in K
  BY <1>1, <1>3, <1>5, <1>6
<1>8. \A k \in K : \E j \in C : at[j] = k
  <2> SUFFICES ASSUME NEW k \in K PROVE \E j \in C : at[j] = k
    OBVIOUS
  <2>1. PICK j \in C : wanted[k] = current[idx[j]]
    BY <1>3
  <2>2. wanted[k] = wanted[at[j]] /\ at[j] \in DOMAIN wanted /\ k \in DOMAIN wanted
    BY <2>1, <1>1, <1>5, <1>6
  <2> QED
    BY <2>2, <1>0
<1>9. \A j, k \in 1 .. n : (at[j] = at[k] => j = k) /\ (at[j] < at[k] => j < k)
  <2> SUFFICES ASSUME NEW j \in 1 .. n, NEW k \in 1 .. n
               PROVE  (at[j] = at[k] => j = k) /\ (at[j] < at[k] => j < k)
    OBVIOUS
  <2>1. j \in Nat /\ k \in Nat /\ at[j] \in Nat /\ at[k] \in Nat
    BY <1>1, <1>6
  <2>2. (j < k => at[j] < at[k]) /\ (k < j => at[k] < at[j])
    BY <1>2
  <2> QED
    BY <2>1, <2>2
<1>10. Agree(wanted, current, K)
  <2>1. \A k \in K : \E p \in DOMAIN current : current[p] = wanted[k]
    BY <1>1, <1>5, <1>8
  <2>2. ASSUME NEW k \in K, NEW l \in K, NEW p \in DOMAIN current, NEW q \in DOMAIN current,
               k < l, current[p] = wanted[k], current[q] = wanted[l]
        PROVE  p < q
    <3>1. PICK i \in C : at[i] = k
      BY <1>8
    <3>2. PICK j \in C : at[j] = l
      BY <1>8
    <3>3. i \in 1 .. n /\ j \in 1 .. n /\ i < j
      BY <3>1, <3>2, <2>2, <1>5, <1>9
    <3>4. idx[i] < idx[j]
      BY <3>3, <1>5 DEF Increasing
    <3>5. /\ idx[i] \in DOMAIN current /\ current[idx[i]] = current[p]
          /\ idx[j] \in DOMAIN current /\ current[idx[j]] = current[q]
      BY <3>1, <3>2, <3>3, <2>2, <1>1
    <3>6. idx[i] = p /\ idx[j] = q
      BY <3>5, <1>0
    <3> QED
      BY <3>4, <3>6
  <2> QED
    BY <2>1, <2>2 DEF Agree
<1>11. ASSUME NEW L \in SUBSET DOMAIN wanted, Agree(wanted, current, L)
       PROVE  Cardinality(L) <= Cardinality(K)
  <2> DEFINE S == {j \in 1 .. n : at[j] \in L}
             f == [j \in S |-> at[j]]
             g == [j \in C |-> at[j]]
  <2>1. Increasing(idx, S)
    <3> SUFFICES ASSUME NEW i \in S, NEW j \in S, i < j PROVE idx[i] < idx[j]
      BY DEF Increasing
    <3>1. at[i] < at[j] /\ at[i] \in L /\ at[j] \in L
      BY <1>2
    <3>2. /\ idx[i] \in DOMAIN current /\ current[idx[i]] = wanted[at[i]]
          /\ idx[j] \in DOMAIN current /\ current[idx[j]] = wanted[at[j]]
      BY <1>1
    <3> QED
      BY <3>1, <3>2, <1>11 DEF Agree
  <2>2. Cardinality(S) <= Cardinality(C)
    BY <2>1, <1>5
  <2>3. IsFiniteSet(1 .. n) /\ S \in SUBSET (1 .. n)
    BY <1>1, FS_Interval
  <2>4. /\ IsFiniteSet(S) /\ IsFiniteSet(C)
        /\ Cardinality(S) \in Nat /\ Cardinality(C) \in Nat
    BY <2>3, <1>5, FS_Subset, FS_CardinalityType
  <2>5. \A l \in L : \E j \in S : at[j] = l
    <3> SUFFICES ASSUME NEW l \in L PROVE \E j \in S : at[j] = l
      OBVIOUS
    <3>1. l \in there
      BY <1>11 DEF Agree, there
    <3>2. PICK j \in 1 .. n : at[j] = l
      BY <3>1, <1>2
    <3> QED
      BY <3>2
  <2>6. f \in [S -> L] /\ \A l \in L : \E j \in S : f[j] = l
    BY <2>5
  <2>7. g \in [C -> K] /\ \A k \in K : \E j \in C : g[j] = k
    BY <1>7, <1>8
  <2>8. \A i, j \in C : g[i] = g[j] => i = j
    BY <1>5, <1>9
  <2> HIDE DEF f, g, S
  <2>9. f \in Surjection(S, L) /\ g \in Surjection(C, K) /\ g \in Injection(C, K)
    BY <2>6, <2>7, <2>8 DEF Surjection, Injection, IsInjective
  <2>10. IsFiniteSet(L) /\ Cardinality(L) <= Cardinality(S) /\ IsFiniteSet(K)
    BY <2>4, <2>9, FS_Surjection
  <2>11. Cardinality(C) <= Cardinality(K)
    BY <2>9, <2>10, FS_Injection
  <2>12. Cardinality(L) \in Nat /\ Cardinality(K) \in Nat
    BY <2>10, FS_CardinalityType
  <2> QED
    BY <2>2, <2>4, <2>10, <2>11, <2>12
<1> QED
  BY <1>10, <1>11
=============================================================================
