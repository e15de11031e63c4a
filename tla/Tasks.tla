-------------------------------- MODULE Tasks --------------------------------
(***************************************************************************)
(* The domain model shared by the Syncer and the providers: model/list.go  *)
(* and model/item.go as operators on records.                              *)
(*   item: [id, ext, list, xlist, pos, status, text, tag, project,         *)
(*          xproject, modified]                                            *)
(*   list: [id, ext, name, pos, status, modified, items]                   *)
(* list and xlist are ListID and ExternalListID, project and xproject are   *)
(* ProjectID and ExternalProjectID; an identifier that is "" or a nil       *)
(* pointer is Nil.  tag is ProjectTag.  text stands for the rest of what    *)
(* Equivalent compares (title, description, tags, dates, waiting on).       *)
(***************************************************************************)
EXTENDS Naturals, Sequences, FiniteSets

\* The fields of f and those of g, as in the module TLC.  That one has no
\* definition for the provers.
f @@ g == [x \in DOMAIN f \cup DOMAIN g |-> IF x \in DOMAIN f THEN f[x] ELSE g[x]]

Nil == 0
NoTag == ""

\* ListProjects is a name and, for the lists that hold projects, a prefix.
ProjectsName == "Projects"
HoldsProjects(name) == name \in {ProjectsName, "Projects on hold"}

\* The numbers of S in ascending order, and the elements of seq at these places.
Ascending(S) ==
    [n \in 1 .. Cardinality(S) |-> CHOOSE k \in S : Cardinality({j \in S : j < k}) = n - 1]
Selected(seq, S) == LET at == Ascending(S) IN [n \in DOMAIN at |-> seq[at[n]]]

Live(items) == Selected(items, {k \in DOMAIN items : items[k].status # "deleted"})

\* Items that are done go below the others; both keep their order.
CleanItems(items) ==
    LET below == {k \in DOMAIN items : items[k].status = "done"}
        sorted == Selected(items, (DOMAIN items) \ below) \o Selected(items, below)
    IN  [k \in DOMAIN sorted |-> [sorted[k] EXCEPT !.pos = k - 1]]

CleanList(list) == [list EXCEPT !.items = CleanItems(@)]

\* Two identifiers contradict each other only when both are known.
Compatible(a, b) == a = Nil \/ b = Nil \/ a = b

\* google_tasks only knows "open".
SameStatus(a, b) ==
    \/ a = b
    \/ a = "open" /\ b \in {"not_started", "in_progress"}
    \/ b = "open" /\ a \in {"not_started", "in_progress"}

EquivalentItems(i, j) ==
    /\ Compatible(i.id, j.id) /\ Compatible(i.ext, j.ext)
    /\ Compatible(i.project, j.project) /\ Compatible(i.xproject, j.xproject)
    /\ i.text = j.text /\ i.tag = j.tag /\ SameStatus(i.status, j.status)

EquivalentLists(l, m) ==
    LET a == Live(l.items)
        b == Live(m.items)
    IN  /\ Compatible(l.id, m.id) /\ Compatible(l.ext, m.ext)
        /\ l.name = m.name /\ l.status = m.status
        /\ Len(a) = Len(b)
        /\ \A k \in DOMAIN a : Compatible(a[k].id, b[k].id) /\ Compatible(a[k].ext, b[k].ext)

\* List.Contains
IsIn(item, list) ==
    \/ item.list # Nil /\ item.list = list.id
    \/ item.xlist # Nil /\ item.xlist = list.ext

\* calculateItemsToMove, the same in the store and in markdown: the indices
\* of the items of list that are not where current has them.
ToMove(list, current) ==
    {k \in DOMAIN list.items :
        k > Len(current) \/ list.items[k].id # current[k].id}

\* The index of the first element that satisfies Test, 0 if there is none.
First(seq, Test(_)) ==
    LET found == {k \in DOMAIN seq : Test(seq[k])}
    IN  IF found = {} THEN 0 ELSE CHOOSE k \in found : \A j \in found : k <= j

\* slices.Insert (at is a Go index, counted from 0) and slices.Delete.
InsertedAt(seq, at, e) == SubSeq(seq, 1, at) \o <<e>> \o SubSeq(seq, at + 1, Len(seq))
Without(seq, k) == SubSeq(seq, 1, k - 1) \o SubSeq(seq, k + 1, Len(seq))
=============================================================================
