----------------------------- MODULE GoogleTasks -----------------------------
(***************************************************************************)
(* providers/googletasks/client.go on the service                          *)
(*   google == [lists, next]                                               *)
(*   lists: a sequence of [id, name, updated, tasks], a task               *)
(*          [id, text, tag, done, updated]                                 *)
(* The service is googletaskstest/fake.go, the repository's own account of  *)
(* it: what it accepts, refuses and changes, and which times it sets.  Its  *)
(* identifiers are fresh here (the fake's numbers of lists come back after  *)
(* a deletion).  A request returns [result, google] and, when it creates,   *)
(* the id; an operation of the client as in SqliteStore.                    *)
(***************************************************************************)
EXTENDS Reorder

CONSTANT MaxTaskResults     \* maxTaskResults: how much of a list is retrieved

NoService == [lists |-> <<>>, next |-> 1]

-----------------------------------------------------------------------------
(* The service. *)

Refused(g) == [result |-> "error", google |-> g]
Accepted(g) == [result |-> "ok", google |-> g]

At(g, list) == First(g.lists, LAMBDA l : l.id = list)
Among(tasks, task) == First(tasks, LAMBDA t : t.id = task)

InsertTaskList(g, name, now) ==
    Accepted([lists |-> Append(g.lists, [id |-> g.next, name |-> name, updated |-> now, tasks |-> <<>>]),
              next |-> g.next + 1]) @@ [id |-> g.next]

PatchTaskList(g, list, name, now) ==
    LET l == At(g, list)
    IN  IF l = 0 THEN Refused(g)
        ELSE Accepted([g EXCEPT !.lists[l].name = name, !.lists[l].updated = now])

DeleteTaskList(g, list) ==
    LET l == At(g, list)
    IN  IF l = 0 THEN Refused(g) ELSE Accepted([g EXCEPT !.lists = Without(@, l)])

\* The fake returns all tasks; the service as many as it is asked for.
ListTasks(g, list, max) ==
    LET l == At(g, list)
    IN  IF l = 0 THEN Refused(g)
        ELSE [result |-> "ok", google |-> g,
              tasks |-> SubSeq(g.lists[l].tasks, 1, IF Len(g.lists[l].tasks) < max
                                                       THEN Len(g.lists[l].tasks) ELSE max)]

\* The task goes first unless there is a previous one.
InsertTask(g, list, task, previous, now) ==
    LET l == At(g, list)
        new == [id |-> g.next, text |-> task.text, tag |-> task.tag, done |-> task.done, updated |-> now]
        at == IF previous = Nil THEN 0 ELSE Among(g.lists[l].tasks, previous)
    IN  IF l = 0 THEN Refused(g)
        ELSE IF previous # Nil /\ at = 0 THEN Refused(g)
        ELSE Accepted([g EXCEPT !.lists[l].tasks = InsertedAt(@, at, new), !.next = @ + 1])
             @@ [id |-> g.next]

PatchTask(g, list, task, new, now) ==
    LET l == At(g, list)
        t == Among(g.lists[l].tasks, task)
        patched == [id |-> task, text |-> new.text, tag |-> new.tag, done |-> new.done, updated |-> now]
    IN  IF l = 0 THEN Refused(g)
        ELSE IF t = 0 THEN Refused(g)
        ELSE Accepted([g EXCEPT !.lists[l].tasks[t] = patched])

\* Out of its list, then behind the previous task of the other list; a move
\* sets no time.
MoveTask(g, move) ==
    LET from == At(g, move.from)
        to == At(g, move.to)
        t == Among(g.lists[from].tasks, move.item)
        taken == [g.lists EXCEPT ![from].tasks = Without(@, t)]
        at == IF move.previous = Nil THEN 0 ELSE Among(taken[to].tasks, move.previous)
    IN  IF from = 0 \/ to = 0 THEN Refused(g)
        ELSE IF t = 0 THEN Refused(g)
        ELSE IF move.previous # Nil /\ at = 0 THEN Refused(g)
        ELSE Accepted([g EXCEPT !.lists = [taken EXCEPT ![to].tasks =
                                              InsertedAt(@, at, g.lists[from].tasks[t])]])

DeleteTask(g, list, task) ==
    LET l == At(g, list)
        t == Among(g.lists[l].tasks, task)
    IN  IF l = 0 THEN Refused(g)
        ELSE IF t = 0 THEN Refused(g)
        ELSE Accepted([g EXCEPT !.lists[l].tasks = Without(@, t)])

-----------------------------------------------------------------------------
(* Listing: first the lists, then, one request each, their tasks. *)

ListTaskLists(g) ==
    [k \in DOMAIN g.lists |->
        [id |-> Nil, ext |-> g.lists[k].id, name |-> g.lists[k].name, pos |-> k - 1,
         status |-> "open", modified |-> g.lists[k].updated, items |-> <<>>]]

\* listItems: status, title and tag are all that a task knows.
ListItems(g, list) ==
    LET r == ListTasks(g, list.ext, MaxTaskResults)
        Item(k, t) == [id |-> Nil, ext |-> t.id, list |-> Nil, xlist |-> list.ext, pos |-> k - 1,
                       status |-> IF t.done THEN "done" ELSE "open",
                       text |-> t.text, tag |-> t.tag, project |-> Nil, xproject |-> Nil,
                       modified |-> t.updated]
    IN  IF r.result = "error" THEN r
        ELSE [result |-> "ok", google |-> g,
              items |-> [k \in DOMAIN r.tasks |-> Item(k, r.tasks[k])]]

-----------------------------------------------------------------------------
(* Lists *)

CreateList(g, list, now) ==
    LET r == InsertTaskList(g, list.name, now)
        l == CleanList(list)
    IN  IF list.status = "deleted" THEN Refused(g) @@ [list |-> list]
        ELSE r @@ [list |-> [l EXCEPT !.ext = r.id]]

\* Items that are done stay where they are, unless they come from elsewhere.
Movable(list) ==
    LET items == list.items
        free == {k \in DOMAIN items :
                    \/ items[k].status # "done"
                    \/ items[k].xlist # Nil /\ items[k].xlist # list.ext}
    IN  [list EXCEPT !.items = Selected(items, free)]

\* The new name, then one move after the other; a refusal ends it, and nothing
\* is taken back.  partial: what the service went through.
Patched(g, list, name, now) ==
    (IF list.name = name THEN Accepted(g) ELSE PatchTaskList(g, list.ext, list.name, now))
    @@ [partial |-> {g}]

MoveNext(r, move) ==
    IF r.result = "ok"
      THEN MoveTask(r.google, move) @@ [partial |-> r.partial \cup {r.google}] ELSE r

MoveAll(r, moves) ==
    LET after[k \in 0 .. Len(moves)] == IF k = 0 THEN r ELSE MoveNext(after[k - 1], moves[k])
    IN  after[Len(moves)]

UpdateList(g, list, current, now) ==
    LET l == CleanList(list)
    IN  IF l.ext = Nil THEN Refused(g) @@ [list |-> l, partial |-> {g}]
        ELSE MoveAll(Patched(g, l, current.name, now), CalculateMoves(Movable(l), current.items))
             @@ [list |-> l]

DeleteList(g, list) == IF list.ext = Nil THEN Refused(g) ELSE DeleteTaskList(g, list.ext)

-----------------------------------------------------------------------------
(* Items.  There is no status "deleted" and no "in progress". *)

Task(item) == [text |-> item.text, tag |-> item.tag, done |-> item.status = "done"]

CreateItem(g, item, previous, now) ==
    LET r == InsertTask(g, item.xlist, Task(item), previous, now)
    IN  IF item.status \in {"open", "deleted"} \/ item.xlist = Nil THEN Refused(g) @@ [item |-> item]
        ELSE IF r.result = "error" THEN r @@ [item |-> item]
        ELSE r @@ [item |-> [item EXCEPT !.ext = r.id]]

UpdateItem(g, item, now) ==
    IF item.status = "open" \/ item.ext = Nil \/ item.xlist = Nil THEN Refused(g)
    ELSE PatchTask(g, item.xlist, item.ext, Task(item), now)

DeleteItem(g, item) ==
    IF item.ext = Nil \/ item.xlist = Nil THEN Refused(g)
    ELSE DeleteTask(g, item.xlist, item.ext)
=============================================================================
