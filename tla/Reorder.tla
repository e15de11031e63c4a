------------------------------- MODULE Reorder -------------------------------
(***************************************************************************)
(* providers/util/reorder/move.go: the moves that turn the order current    *)
(* of a remote list into the order of list, each [item, from, to, previous] *)
(* with external identifiers.                                              *)
(***************************************************************************)
EXTENDS Tasks

Externals(seq) == [k \in DOMAIN seq |-> seq[k].ext]

\* currentItemIdxs: where current has the items of wanted that it has.
CurrentIndices(wanted, current) ==
    LET there == {j \in DOMAIN wanted : \E k \in DOMAIN current : current[k] = wanted[j]}
        known == Selected(wanted, there)
    IN  [j \in DOMAIN known |-> CHOOSE k \in DOMAIN current : current[k] = known[j]]

\* Mutant of LongestAt: the last place of S, however long its chain.
LastAt(chains, S) == CHOOSE j \in S : \A i \in S : i <= j

\* The first of the places S where a longest chain ends.
LongestAt(chains, S) ==
    CHOOSE j \in S : \A i \in S :
        \/ Cardinality(chains[i]) < Cardinality(chains[j])
        \/ Cardinality(chains[i]) = Cardinality(chains[j]) /\ j <= i

\* A longest increasing subsequence that ends at i, from those before.
ChainTo(idx, chains, i) ==
    LET below == {j \in 1 .. i - 1 : idx[j] < idx[i]}
    IN  {i} \cup IF below = {} THEN {} ELSE chains[LongestAt(chains, below)]

\* calculateStableItemIDs: dp counts, index by index, the longest increasing
\* subsequence that ends there, and prev leads back along it; here it is the set
\* of its indices.  Of several the earliest counts.  The items of the longest stay.
Chains(idx) ==
    LET dp[i \in 0 .. Len(idx)] ==
            IF i = 0 THEN <<>> ELSE Append(dp[i - 1], ChainTo(idx, dp[i - 1], i))
    IN  dp

StableItems(wanted, current) ==
    LET idx == CurrentIndices(wanted, current)
        chains == Chains(idx)[Len(idx)]
    IN  IF idx = <<>> THEN {}
        ELSE {current[idx[j]] : j \in chains[LongestAt(chains, DOMAIN idx)]}

\* The places of list whose items have to move.
Moving(list, current) ==
    LET wanted == Externals(list.items)
        stable == StableItems(wanted, Externals(current))
    IN  Ascending({k \in DOMAIN wanted : wanted[k] \notin stable})

\* The move of the k-th item, behind the one at place p.
MoveOf(list, k, p) ==
    [item |-> list.items[k].ext, from |-> list.items[k].xlist, to |-> list.ext,
     previous |-> IF p = 0 THEN Nil ELSE list.items[p].ext]

MovesOf(list, ks) == [m \in DOMAIN ks |-> MoveOf(list, ks[m], ks[m] - 1)]

\* Mutant of CalculateMoves: the previous item is the one that was moved last.
MovesAfterMoved(list, current) ==
    LET ks == Moving(list, current)
    IN  [m \in DOMAIN ks |-> MoveOf(list, ks[m], IF m = 1 THEN 0 ELSE ks[m - 1])]

\* Mutant of CalculateMoves: every item is moved.
MovesOfAll(list, current) == [k \in DOMAIN list.items |-> MoveOf(list, k, k - 1)]

\* Mutant of CalculateMoves: no item leaves its list.
MovesAtHome(list, current) ==
    LET ks == Moving(list, current)
    IN  [m \in DOMAIN ks |-> [MoveOf(list, ks[m], ks[m] - 1) EXCEPT !.to = list.items[ks[m]].xlist]]

\* An item that does not stay goes behind its neighbour in the wanted order.
CalculateMoves(list, current) == MovesOf(list, Moving(list, current))
=============================================================================
