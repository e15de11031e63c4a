----------------------------- MODULE Reordering -----------------------------
(***************************************************************************)
(* UpdateList of the Google Tasks client, request by request: the moves     *)
(* that CalculateMoves returned are applied in order, each may fail, and    *)
(* the next pass starts from what the service then has.                    *)
(***************************************************************************)
EXTENDS GoogleTasks

CONSTANTS
    Here, There,    \* the tasks of the list that is updated, and of another one
    MaxFaults       \* requests that fail

ASSUME ReorderingAssumption ==
    /\ Here \cap There = {} /\ Nil \notin Here \cup There
    /\ IsFiniteSet(Here \cup There) /\ MaxFaults \in Nat /\ MaxTaskResults \in Nat
    /\ Cardinality(Here \cup There) <= MaxTaskResults  \* no listing is cut off

VARIABLES
    google,     \* the service
    wanted,     \* the items of list 1 in the order of the store
    goal,       \* updateList.Items of the call under way: the items to be in order
    moves,      \* moves to be made
    stage,      \* "idle", "moving", "done", "refused"
    faults      \* requests that have failed

vars == <<google, wanted, goal, moves, stage, faults>>

\* All orders of the elements of S.
Orders(S) == {f \in [1 .. Cardinality(S) -> S] : \A i, j \in DOMAIN f : f[i] = f[j] => i = j}

Service(here, there, done) ==
    LET Tasks(order) == [k \in DOMAIN order |->
                            [id |-> order[k], text |-> "a", tag |-> NoTag,
                             done |-> order[k] \in done, updated |-> 1]]
        Named(l, order) == [id |-> l, name |-> "a", updated |-> 1, tasks |-> Tasks(order)]
    IN  [lists |-> <<Named(1, here), Named(2, there)>>, next |-> 1]

\* The tasks of a list, and their order.
IdsOf(tasks) == {tasks[k].id : k \in DOMAIN tasks}
OrderOf(tasks) ==
    {q \in IdsOf(tasks) \X IdsOf(tasks) :
        \E i, j \in DOMAIN tasks : i < j /\ q = <<tasks[i].id, tasks[j].id>>}

Listing(l) == ListItems(google, ListTaskLists(google)[l]).items

\* What the Syncer hands over: items of the store with the list they are in.
WantedList ==
    LET all == Listing(1) \o Listing(2)
        Placed(x) == all[CHOOSE k \in DOMAIN all : all[k].ext = x]
    IN  CleanList([ListTaskLists(google)[1] EXCEPT
                      !.items = [k \in DOMAIN wanted |-> Placed(wanted[k])]])

TypeOK ==
    /\ stage \in {"idle", "moving", "done", "refused"} /\ faults \in 0 .. MaxFaults
    /\ \A m \in DOMAIN moves : moves[m].item \in Here \cup There /\ moves[m].to = 1
    /\ IdsOf(google.lists[1].tasks) \cup IdsOf(google.lists[2].tasks) = Here \cup There

\* The order of the service is one of many that are alike: identifiers stand
\* for nothing else.
Init ==
    /\ \E here \in {CHOOSE f \in Orders(Here) : TRUE}, there \in {CHOOSE f \in Orders(There) : TRUE},
          done \in SUBSET (Here \cup There) : google = Service(here, there, done)
    /\ wanted \in UNION {Orders(S) : S \in SUBSET (Here \cup There)}
    /\ goal = <<>> /\ moves = <<>> /\ stage = "idle" /\ faults = 0

Begin ==
    /\ stage = "idle" /\ stage' = "moving"
    /\ goal' = Externals(Movable(WantedList).items)
    /\ moves' = CalculateMoves(Movable(WantedList), Listing(1))
    /\ UNCHANGED <<google, wanted, faults>>

Move ==
    /\ stage = "moving" /\ moves # <<>>
    /\ LET r == MoveTask(google, Head(moves))
       IN  google' = r.google /\ stage' = IF r.result = "ok" THEN "moving" ELSE "refused"
    /\ moves' = Tail(moves)
    /\ UNCHANGED <<wanted, goal, faults>>

\* UpdateList returns the error; a later pass calls it again.
Fail ==
    /\ stage = "moving" /\ moves # <<>> /\ faults < MaxFaults
    /\ stage' = "idle" /\ moves' = <<>> /\ faults' = faults + 1
    /\ UNCHANGED <<google, wanted, goal>>

Finish ==
    /\ stage = "moving" /\ moves = <<>>
    /\ stage' = "done" /\ UNCHANGED <<google, wanted, goal, moves, faults>>

Next == Begin \/ Move \/ Fail \/ Finish
Spec == Init /\ [][Next]_vars

-----------------------------------------------------------------------------

\* Of list 1; and what is still to be moved there.
HereNow == IdsOf(google.lists[1].tasks)
BeforeNow == OrderOf(google.lists[1].tasks)
LeftNow == {k \in DOMAIN goal : \E m \in DOMAIN moves : moves[m].item = goal[k]}

Ideal == INSTANCE Rearranging
         WITH TaskIds <- Here \cup There, here <- HereNow, before <- BeforeNow, left <- LeftNow

\* CalculateMoves of reorder/move.go, "The sequence of moves assumes they are
\* applied in order": every request finds its task and its predecessor, and
\* after the last one the tasks are in the order wanted, whatever other tasks
\* stand between them.
EndsAsWanted ==
    /\ stage # "refused"
    /\ stage = "done" => Ideal!InPlace(DOMAIN goal)

\* move.go:17 "computes the minimal set of Move operations": what is left to be
\* done is never more than what any other sequence of moves would need, also
\* after a request that failed; so every move brings the list nearer.
AlwaysMinimal ==
    stage = "moving" =>
        \A T \in SUBSET DOMAIN goal :
            Ideal!InPlace(T) => Len(moves) <= Len(goal) - Cardinality(T)

\* The dynamic programme of calculateStableItemIDs, the moves one request after
\* the other and the sequences of the service come to this: a largest set of
\* tasks stays, and every other one is put behind its neighbour.
ImplementsRearranging == Ideal!Spec
=============================================================================
