-------------------------- MODULE RearrangingProofs --------------------------
(***************************************************************************)
(* Rearranging ends in the order wanted and never moves too much, for any   *)
(* tasks, goals and failures.                                              *)
(***************************************************************************)
EXTENDS Rearranging, FiniteSetTheorems, TLAPS

IInv == TypeOK /\ StaysInPlace /\ NoMoveTooMany

\* What AtFront and Behind say of two tasks.
LEMMA FrontPairs ==
    ASSUME NEW x, NEW y, NEW z
    PROVE  <<y, z>> \in AtFront(x) <=>
              \/ (y # x /\ z # x /\ <<y, z>> \in before)
              \/ (y = x /\ z \in here \ {x})
  BY DEF AtFront

LEMMA BehindPairs ==
    ASSUME NEW p, NEW x, NEW y, NEW z
    PROVE  <<y, z>> \in Behind(p, x) <=>
              \/ (y # x /\ z # x /\ <<y, z>> \in before)
              \/ (y \in UpTo(p, x) /\ z = x)
              \/ (y = x /\ z \in here \ (UpTo(p, x) \cup {x}))
<1> DEFINE kept == {q \in before : x \notin {q[1], q[2]}}
           tail == here \ (UpTo(p, x) \cup {x})
<1>1. Behind(p, x) = kept \cup (UpTo(p, x) \X {x}) \cup ({x} \X tail)
  BY DEF Behind
<1>2. <<y, z>> \in kept <=> y # x /\ z # x /\ <<y, z>> \in before
  OBVIOUS
<1> HIDE DEF kept, tail
<1>3. <<y, z>> \in Behind(p, x) <=>
          <<y, z>> \in kept \/ (y \in UpTo(p, x) /\ z = x) \/ (y = x /\ z \in tail)
  BY <1>1
<1> QED
  BY <1>2, <1>3 DEF tail

\* Both are orders again, with x where it belongs.
LEMMA FrontIsOrder ==
    ASSUME NEW x, before \in Orders(here)
    PROVE  AtFront(x) \in Orders(here \cup {x})
  BY DEF AtFront, Orders

LEMMA BehindIsOrder ==
    ASSUME NEW p \in here, NEW x, x # p, before \in Orders(here)
    PROVE  Behind(p, x) \in Orders(here \cup {x})
<1> DEFINE B == Behind(p, x)
           H == here \cup {x}
           upTo == UpTo(p, x)
<1>0. /\ x \notin upTo /\ upTo \subseteq here
      /\ \A y \in here : <<y, y>> \notin before
      /\ \A y, z \in here : y = z \/ <<y, z>> \in before \/ <<z, y>> \in before
      /\ \A y, z, u \in here : <<y, z>> \in before /\ <<z, u>> \in before => <<y, u>> \in before
      /\ before \subseteq here \X here
  BY DEF Orders, UpTo
\* What is before something that is not behind x is not behind x either.
<1>1. \A y, z \in here \ {x} : <<y, z>> \in before /\ z \in upTo => y \in upTo
  BY <1>0 DEF UpTo
<1>2. \A y, z : <<y, z>> \in B <=>
          \/ (y # x /\ z # x /\ <<y, z>> \in before)
          \/ (y \in upTo /\ z = x)
          \/ (y = x /\ z \in here \ (upTo \cup {x}))
  BY BehindPairs
<1>3. B \subseteq H \X H
  BY <1>0 DEF Behind
<1> HIDE DEF B, upTo
<1>4. ASSUME NEW y \in H PROVE <<y, y>> \notin B
  <2>1. CASE y = x
    BY <2>1, <1>0, <1>2
  <2>2. CASE y # x
    BY <2>2, <1>0, <1>2
  <2> QED
    BY <2>1, <2>2
<1>5. ASSUME NEW y \in H, NEW z \in H, y # z
      PROVE  <<y, z>> \in B \/ <<z, y>> \in B
  BY <1>0, <1>2, <1>5
<1>6. ASSUME NEW y \in H, NEW z \in H, NEW u \in H, <<y, z>> \in B, <<z, u>> \in B
      PROVE  <<y, u>> \in B
  <2>1. CASE y = x
    BY <2>1, <1>0, <1>1, <1>2, <1>6
  <2>2. CASE y # x /\ z = x
    BY <2>2, <1>0, <1>1, <1>2, <1>6, <1>5
  <2>3. CASE y # x /\ z # x
    BY <2>3, <1>0, <1>1, <1>2, <1>6
  <2> QED
    BY <2>1, <2>2, <2>3
<1>7. B \in Orders(H)
  BY <1>3, <1>4, <1>5, <1>6 DEF Orders
<1> QED
  BY <1>7 DEF B

-----------------------------------------------------------------------------

\* The places of a goal are numbers, and finitely many.
LEMMA PlacesAreFinite ==
    ASSUME NEW seq, IsGoal(seq), NEW S \in SUBSET DOMAIN seq
    PROVE  DOMAIN seq \in SUBSET (Nat \ {0}) /\ IsFiniteSet(S) /\ Cardinality(S) \in Nat
<1>1. DOMAIN seq = 1 .. Len(seq) /\ Len(seq) \in Nat
  BY DEF IsGoal
<1>2. IsFiniteSet(1 .. Len(seq))
  BY <1>1, FS_Interval
<1> QED
  BY <1>1, <1>2, FS_Subset, FS_CardinalityType

\* A move keeps what is in place so, and puts one more there.
LEMMA OneMoreInPlace ==
    ASSUME TypeOK, NEW k \in left, \A j \in left : k <= j, InPlace(DOMAIN goal \ left),
           here' = here \cup {goal[k]}, goal' = goal, left' = left \ {k},
           before' = IF k = 1 THEN AtFront(goal[k]) ELSE Behind(goal[k - 1], goal[k])
    PROVE  /\ before' \in Orders(here') /\ InPlace(DOMAIN goal \ left)'
           /\ \A y, z : y # goal[k] /\ z # goal[k] =>
                 (<<y, z>> \in before' <=> <<y, z>> \in before)
<1> DEFINE x == goal[k]
           S == DOMAIN goal \ left
<1>1. /\ IsGoal(goal) /\ before \in Orders(here) /\ left \subseteq DOMAIN goal
      /\ DOMAIN goal = 1 .. Len(goal) /\ Len(goal) \in Nat
      /\ \A i, j \in DOMAIN goal : goal[i] = goal[j] => i = j
  BY DEF TypeOK, IsGoal
<1>2. k \in 1 .. Len(goal) /\ \A i \in S : i # k /\ goal[i] # x /\ goal[i] \in here
  BY <1>1 DEF InPlace
<1>3. (DOMAIN goal \ left)' = S \cup {k}
  BY <1>1
<1>4. \A y, z \in here : ~(<<y, z>> \in before /\ <<z, y>> \in before)
  BY <1>1 DEF Orders
<1>5. CASE k = 1
  <2>1. before' = AtFront(x)
    BY <1>5
  <2>2. ASSUME NEW i \in S \cup {k}, NEW j \in S \cup {k}, i < j
        PROVE  <<goal[i], goal[j]>> \in before'
    <3>1. j \in S /\ j # 1
      BY <2>2, <1>1, <1>2, <1>5
    <3>2. CASE i = k
      BY <3>1, <3>2, <2>1, <1>2, FrontPairs
    <3>3. CASE i # k
      BY <3>1, <3>3, <2>1, <2>2, <1>2, FrontPairs DEF InPlace
    <3> QED
      BY <3>2, <3>3
  <2>3. InPlace(DOMAIN goal \ left)'
    BY <2>2, <1>2, <1>3 DEF InPlace
  <2> QED
    BY <2>1, <2>3, <1>1, FrontIsOrder, FrontPairs
<1>6. CASE k # 1
  <2> DEFINE p == goal[k - 1]
  <2>0. k - 1 \in S
    BY <1>1, <1>2, <1>6
  <2>1. before' = Behind(p, x) /\ p \in here /\ p # x
    BY <2>0, <1>2, <1>6
  <2>2. ASSUME NEW i \in S \cup {k}, NEW j \in S \cup {k}, i < j
        PROVE  <<goal[i], goal[j]>> \in before'
    <3>0. i \in 1 .. Len(goal) /\ j \in 1 .. Len(goal)
      BY <1>1, <1>2
    <3>1. CASE i = k
      <4>1. j \in S /\ k - 1 < j
        BY <3>0, <3>1, <2>2, <1>1
      <4>2. goal[j] \in here /\ goal[j] # x /\ <<p, goal[j]>> \in before
        BY <4>1, <2>0, <1>2 DEF InPlace
      <4>3. goal[j] \notin UpTo(p, x)
        BY <4>2, <2>1, <1>4 DEF UpTo
      <4> QED
        BY <4>2, <4>3, <3>1, <2>1, BehindPairs
    <3>2. CASE j = k
      <4>1. i \in S /\ (i = k - 1 \/ i < k - 1)
        BY <3>0, <3>2, <2>2, <1>1
      <4>2. goal[i] \in UpTo(p, x)
        BY <4>1, <2>0, <1>2 DEF InPlace, UpTo
      <4> QED
        BY <4>2, <3>2, <2>1, BehindPairs
    <3>3. CASE i # k /\ j # k
      BY <3>3, <2>1, <2>2, <1>2, BehindPairs DEF InPlace
    <3> QED
      BY <3>1, <3>2, <3>3
  <2>3. InPlace(DOMAIN goal \ left)'
    BY <2>2, <1>2, <1>3 DEF InPlace
  <2> QED
    BY <2>1, <2>3, <1>1, BehindIsOrder, BehindPairs
<1> QED
  BY <1>5, <1>6

\* Nothing larger could have stayed: without the place that is moved now it was
\* in place before.
LEMMA StillLargest ==
    ASSUME TypeOK, NEW k \in left, Largest(DOMAIN goal \ left), InPlace(DOMAIN goal \ left)',
           here' = here \cup {goal[k]}, goal' = goal, left' = left \ {k},
           \A y, z : y # goal[k] /\ z # goal[k] => (<<y, z>> \in before' <=> <<y, z>> \in before)
    PROVE  Largest(DOMAIN goal \ left)'
<1> DEFINE S == DOMAIN goal \ left
<1>1. IsGoal(goal) /\ left \subseteq DOMAIN goal /\ \A i, j \in DOMAIN goal : goal[i] = goal[j] => i = j
  BY DEF TypeOK, IsGoal
<1>2. (DOMAIN goal \ left)' = S \cup {k} /\ k \notin S
  BY <1>1
<1>3. IsFiniteSet(S) /\ Cardinality(S) \in Nat /\ Cardinality(S \cup {k}) = Cardinality(S) + 1
  BY <1>1, <1>2, PlacesAreFinite, FS_AddElement
<1>4. ASSUME NEW T \in SUBSET DOMAIN goal, InPlace(T)'
      PROVE  Cardinality(T) <= Cardinality(S) + 1
  <2>1. InPlace(T \ {k})
    BY <1>1, <1>4 DEF InPlace
  <2>2. Cardinality(T \ {k}) <= Cardinality(S)
    BY <2>1 DEF Largest
  <2>3. IsFiniteSet(T) /\ IsFiniteSet(T \ {k}) /\ Cardinality(T) \in Nat /\ Cardinality(T \ {k}) \in Nat
    BY <1>1, PlacesAreFinite
  <2>4. Cardinality(T \ {k}) = IF k \in T THEN Cardinality(T) - 1 ELSE Cardinality(T)
    BY <2>3, FS_RemoveElement
  <2> QED
    BY <2>2, <2>3, <2>4, <1>3
<1> QED
  BY <1>2, <1>3, <1>4 DEF Largest

LEMMA InvariantStep ==
    ASSUME IInv, [Next]_vars
    PROVE  IInv'
<1> USE DEF IInv, TypeOK
<1>1. CASE Begin
  BY <1>1 DEF Begin, StaysInPlace, NoMoveTooMany, Largest
<1>2. CASE Move
  <2>1. PICK k \in left :
            /\ \A j \in left : k <= j
            /\ left' = left \ {k} /\ here' = here \cup {goal[k]}
            /\ before' = IF k = 1 THEN AtFront(goal[k]) ELSE Behind(goal[k - 1], goal[k])
    BY <1>2 DEF Move
  <2>2. stage = "moving" /\ stage' = "moving" /\ goal' = goal
    BY <1>2 DEF Move
  <2>3. /\ before' \in Orders(here') /\ InPlace(DOMAIN goal \ left)'
        /\ \A y, z : y # goal[k] /\ z # goal[k] => (<<y, z>> \in before' <=> <<y, z>> \in before)
    BY <2>1, <2>2, OneMoreInPlace DEF StaysInPlace
  <2>4. Largest(DOMAIN goal \ left)'
    BY <2>1, <2>2, <2>3, StillLargest DEF NoMoveTooMany
  <2>5. goal[k] \in TaskIds
    BY <2>1 DEF IsGoal
  <2>6. TypeOK'
    BY <2>1, <2>2, <2>3, <2>5
  <2> QED
    BY <2>2, <2>3, <2>4, <2>6 DEF StaysInPlace, NoMoveTooMany
<1>3. CASE Fail
  BY <1>3 DEF Fail, StaysInPlace, NoMoveTooMany
<1>4. CASE Finish
  BY <1>4 DEF Finish, StaysInPlace, NoMoveTooMany, InPlace
<1>5. CASE UNCHANGED vars
  BY <1>5 DEF vars, StaysInPlace, NoMoveTooMany, Largest, InPlace
<1> QED
  BY <1>1, <1>2, <1>3, <1>4, <1>5 DEF Next

LEMMA InvariantAtFirst == Init => IInv
  BY DEF Init, IInv, TypeOK, IsGoal, StaysInPlace, NoMoveTooMany

\* What stays and what was moved is always in the order wanted, and from the
\* first move on no more is left than has to be.
THEOREM Rearranged == Spec => [](StaysInPlace /\ NoMoveTooMany)
<1>1. IInv => StaysInPlace /\ NoMoveTooMany
  BY DEF IInv
<1> QED
  BY <1>1, InvariantAtFirst, InvariantStep, PTL DEF Spec
=============================================================================
