----------------------------- MODULE Rearranging -----------------------------
(***************************************************************************)
(* What CalculateMoves of reorder/move.go and UpdateList of the Google      *)
(* Tasks client do to the order of a list, without sequences, indices of    *)
(* the service and the dynamic programme: some tasks stay, a largest set    *)
(* that is in the order wanted, and the others are put, first to last,      *)
(* behind the one that they should follow.                                  *)
(***************************************************************************)
EXTENDS Naturals, Sequences, FiniteSets

CONSTANT TaskIds      \* the tasks there are

VARIABLES
    here,       \* the tasks in the list
    before,     \* their order: <<x, y>> when x is somewhere before y
    goal,       \* the order wanted of some tasks, which may be elsewhere yet
    left,       \* the places of goal whose tasks are still to be moved
    stage       \* "idle", "moving" or "done"

vars == <<here, before, goal, left, stage>>

Orders(S) ==
    {R \in SUBSET (S \X S) :
        /\ \A x \in S : <<x, x>> \notin R
        /\ \A x, y \in S : x = y \/ <<x, y>> \in R \/ <<y, x>> \in R
        /\ \A x, y, z \in S : <<x, y>> \in R /\ <<y, z>> \in R => <<x, z>> \in R}

IsGoal(seq) == seq \in Seq(TaskIds) /\ \A i, j \in DOMAIN seq : seq[i] = seq[j] => i = j

TypeOK ==
    /\ here \subseteq TaskIds /\ before \in Orders(here)
    /\ IsGoal(goal) /\ left \subseteq DOMAIN goal
    /\ stage \in {"idle", "moving", "done"}

Init ==
    /\ here \subseteq TaskIds /\ before \in Orders(here)
    /\ goal = <<>> /\ left = {} /\ stage = "idle"

\* The tasks at these places of goal are in the list, in that order.
InPlace(S) ==
    /\ \A i \in S : goal[i] \in here
    /\ \A i, j \in S : i < j => <<goal[i], goal[j]>> \in before

\* Of the tasks of goal no larger set could stay.
Largest(S) ==
    InPlace(S) /\ \A T \in SUBSET DOMAIN goal : InPlace(T) => Cardinality(T) <= Cardinality(S)

Begin ==
    /\ stage = "idle" /\ stage' = "moving"
    /\ IsGoal(goal') /\ left' \subseteq DOMAIN goal'
    /\ UNCHANGED <<here, before>>
    /\ Largest(DOMAIN goal \ left)'

\* x comes to the front, or right behind p.
AtFront(x) == {q \in before : x \notin {q[1], q[2]}} \cup {<<x, y>> : y \in here \ {x}}
UpTo(p, x) == {p} \cup {y \in here \ {x} : <<y, p>> \in before}
Behind(p, x) ==
    {q \in before : x \notin {q[1], q[2]}}
    \cup (UpTo(p, x) \X {x}) \cup ({x} \X (here \ (UpTo(p, x) \cup {x})))

Move ==
    /\ stage = "moving"
    /\ \E k \in left :
          /\ \A j \in left : k <= j
          /\ left' = left \ {k} /\ here' = here \cup {goal[k]}
          /\ before' = IF k = 1 THEN AtFront(goal[k]) ELSE Behind(goal[k - 1], goal[k])
    /\ UNCHANGED <<goal, stage>>

\* A request fails; the next pass begins with what is there.
Fail ==
    /\ stage = "moving" /\ left # {}
    /\ stage' = "idle" /\ left' = {}
    /\ UNCHANGED <<here, before, goal>>

Finish ==
    /\ stage = "moving" /\ left = {}
    /\ stage' = "done" /\ UNCHANGED <<here, before, goal, left>>

Next == Begin \/ Move \/ Fail \/ Finish
Spec == Init /\ [][Next]_vars

\* What is moved and what stays is in the order wanted; at the end that is all.
StaysInPlace == stage \in {"moving", "done"} => InPlace(DOMAIN goal \ left)

\* No more is left than must be, whatever has been moved already.
NoMoveTooMany == stage = "moving" => Largest(DOMAIN goal \ left)
=============================================================================
