----------------------------- MODULE SqliteStore -----------------------------
(***************************************************************************)
(* providers/sqlite/store.go as operators on the database                  *)
(*   db == [lists |-> id -> row, items |-> id -> row, next]                 *)
(* A row carries its rowid, which breaks the ties of ORDER BY position;     *)
(* next is the next fresh identifier and rowid.  An operation returns       *)
(*   [result, db, list or item]: "ok" or "error", the database after it,    *)
(* and its argument, which the code updates through a pointer.  A failed    *)
(* transaction is rolled back.  now is time.Now() during the call.          *)
(***************************************************************************)
EXTENDS Tasks

EmptyDB == [lists |-> <<>>, items |-> <<>>, next |-> 1]

With(rows, id, row) ==
    [x \in DOMAIN rows \cup {id} |-> IF x = id THEN row ELSE rows[x]]

Only(rows, ids) == [x \in DOMAIN rows \cap ids |-> rows[x]]

\* ORDER BY position
InOrder(rows, ids) ==
    LET Before(y, x) ==
            \/ rows[y].pos < rows[x].pos
            \/ rows[y].pos = rows[x].pos /\ rows[y].row < rows[x].row
    IN  [k \in 1 .. Cardinality(ids) |->
            CHOOSE x \in ids : Cardinality({y \in ids : Before(y, x)}) = k - 1]

\* UPDATE ... SET position = position + 1 WHERE id IN ids AND position >= pos
Shifted(rows, ids, pos) ==
    [x \in DOMAIN rows |->
        IF x \in ids /\ rows[x].pos >= pos THEN [rows[x] EXCEPT !.pos = @ + 1] ELSE rows[x]]

\* getListID and getItemID: Nil when no row has that external identifier.
WithExternal(rows, ext) ==
    IF ext # Nil /\ \E x \in DOMAIN rows : rows[x].ext = ext
      THEN CHOOSE x \in DOMAIN rows : rows[x].ext = ext ELSE Nil

Resolved(rows, id, ext) == IF id = Nil THEN WithExternal(rows, ext) ELSE id

\* external_id TEXT UNIQUE
ExternalTaken(rows, ext, id) ==
    ext # Nil /\ \E x \in DOMAIN rows \ {id} : rows[x].ext = ext

Coalesce(ext, old) == IF ext = Nil THEN old ELSE ext

\* Rows are deleted; project_id REFERENCES items(id) ON DELETE SET NULL.
Unlinked(rows, gone) ==
    [x \in DOMAIN rows \ gone |->
        IF rows[x].project \in gone THEN [rows[x] EXCEPT !.project = Nil] ELSE rows[x]]

ItemsOf(db, l) == {i \in DOMAIN db.items : db.items[i].list = l}

\* An item shows the tag of its project; its own row has one only if it was
\* written as a project.
GetItems(db, l) ==
    LET ids == InOrder(db.items, ItemsOf(db, l))
        Project(row) == IF row.project = Nil THEN [tag |-> NoTag, ext |-> Nil]
                                             ELSE db.items[row.project]
        Item(i, row) == [id |-> i, ext |-> row.ext, list |-> l, xlist |-> db.lists[l].ext,
                         pos |-> row.pos, status |-> row.status, text |-> row.text,
                         tag |-> IF Project(row).tag # NoTag THEN Project(row).tag ELSE row.tag,
                         project |-> row.project, xproject |-> Project(row).ext,
                         modified |-> row.modified]
    IN  [k \in DOMAIN ids |-> Item(ids[k], db.items[ids[k]])]

GetList(db, l) ==
    LET row == db.lists[l]
    IN  [id |-> l, ext |-> row.ext, name |-> row.name, pos |-> row.pos,
         status |-> row.status, modified |-> row.modified, items |-> GetItems(db, l)]

\* The position of a list is its rank; items keep the position of their row.
ListLists(db) ==
    LET ids == InOrder(db.lists, DOMAIN db.lists)
    IN  [k \in DOMAIN ids |-> [GetList(db, ids[k]) EXCEPT !.pos = k - 1]]

-----------------------------------------------------------------------------
(* Lists *)

CreateList(db, list, now) ==
    LET l == [CleanList(list) EXCEPT !.id = IF @ = Nil THEN db.next ELSE @, !.modified = now]
        row == [name |-> l.name, pos |-> l.pos, status |-> l.status, modified |-> now,
                ext |-> l.ext, row |-> db.next]
    IN  IF \/ list.status = "deleted"
           \/ l.id \in DOMAIN db.lists
           \/ ExternalTaken(db.lists, l.ext, l.id)
          THEN [result |-> "error", db |-> db, list |-> l]
          ELSE [result |-> "ok", list |-> l,
                db |-> [db EXCEPT !.lists = With(Shifted(@, DOMAIN @, l.pos), l.id, row),
                                  !.next = @ + 1]]

\* batchMoveItems: the items of list that ToMove names get its ID and their
\* index as position; when one has no row the transaction fails.
Moved(rows, list, todo) ==
    LET Id(k) == Resolved(rows, list.items[k].id, list.items[k].ext)
        Last(x) == CHOOSE k \in todo : Id(k) = x /\ \A j \in todo : Id(j) = x => j <= k
    IN  [x \in DOMAIN rows |->
            IF \E k \in todo : Id(k) = x
              THEN [rows[x] EXCEPT !.list = list.id, !.pos = list.items[Last(x)].pos]
              ELSE rows[x]]

UpdateList(db, list, current, now) ==
    LET l == [CleanList(list) EXCEPT !.id = Resolved(db.lists, @, list.ext), !.modified = now]
        row == [db.lists[l.id] EXCEPT !.name = l.name, !.pos = l.pos, !.status = l.status,
                                      !.modified = now, !.ext = Coalesce(l.ext, @)]
        \* deleteListItems: the items of a list marked deleted are gone for good
        kept == IF l.status = "deleted"
                  THEN Unlinked(db.items, ItemsOf(db, l.id)) ELSE db.items
        todo == ToMove(l, current)
    IN  IF \/ l.id \notin DOMAIN db.lists
           \/ ExternalTaken(db.lists, l.ext, l.id)
           \/ \E k \in todo : Resolved(kept, l.items[k].id, l.items[k].ext) \notin DOMAIN kept
          THEN [result |-> "error", db |-> db, list |-> l]
          ELSE [result |-> "ok", list |-> l,
                db |-> [db EXCEPT !.lists = With(@, l.id, row), !.items = Moved(kept, l, todo)]]

\* DeleteList: ON DELETE CASCADE, and SET NULL where another list's item has
\* a project in it.
DeleteList(db, list) ==
    LET l == Resolved(db.lists, list.id, list.ext)
    IN  IF l \notin DOMAIN db.lists
          THEN [result |-> "error", db |-> db]
          ELSE [result |-> "ok",
                db |-> [db EXCEPT !.lists = Only(@, DOMAIN @ \ {l}),
                                  !.items = Unlinked(@, ItemsOf(db, l))]]

-----------------------------------------------------------------------------
(* Items.  CreateItem and UpdateItem commit, and then call UpdateList with    *)
(* the list as it was before, to move what its Clean sorts.  partial: what is *)
(* committed when that second transaction fails.                              *)

Resort(db, before, now) == UpdateList(db, before, before.items, now)

NextActions(rows, i) == {x \in DOMAIN rows : rows[x].project = i}

Touched(rows, ids, time) ==
    [x \in DOMAIN rows |-> IF x \in ids THEN [rows[x] EXCEPT !.modified = time] ELSE rows[x]]

\* getProjectID: Nil where it returns ErrNotFound.  A tag is looked up in the
\* list that is called exactly "Projects"; the oldest row wins.
GetProjectID(db, item) ==
    LET tagged == {x \in DOMAIN db.items : /\ db.items[x].tag = item.tag
                                           /\ db.lists[db.items[x].list].name = ProjectsName}
        parent == IF item.id \in DOMAIN db.items THEN db.items[item.id].project ELSE Nil
    IN  IF item.xproject # Nil THEN WithExternal(db.items, item.xproject)
        ELSE IF item.tag # NoTag
          THEN IF tagged = {} THEN Nil
               ELSE CHOOSE x \in tagged : \A y \in tagged : db.items[x].row <= db.items[y].row
        ELSE IF parent # Nil /\ db.items[parent].tag = NoTag THEN parent ELSE Nil

\* The project of an item that is written to list l, unless it is known.
ProjectFor(db, item, l, Lookup) ==
    IF ~HoldsProjects(db.lists[l].name) /\ item.project = Nil /\ Lookup
      THEN GetProjectID(db, item) ELSE item.project

\* Only the row of a project has a tag.
TagFor(db, item, l) == IF HoldsProjects(db.lists[l].name) THEN item.tag ELSE NoTag

CreateItem(db, item, now) ==
    LET l == Resolved(db.lists, item.list, item.xlist)
        Named == item.xproject # Nil \/ item.tag # NoTag
        i == [item EXCEPT !.id = IF @ = Nil THEN db.next ELSE @, !.list = l, !.modified = now,
                          !.project = ProjectFor(db, item, l, Named)]
        row == [list |-> l, pos |-> i.pos, status |-> i.status, text |-> i.text,
                tag |-> TagFor(db, item, l), project |-> i.project,
                modified |-> now, ext |-> i.ext, row |-> db.next]
        inserted == [db EXCEPT !.items = With(Shifted(@, ItemsOf(db, l), i.pos), i.id, row),
                               !.next = @ + 1]
    IN  IF \/ item.status \in {"open", "deleted"}
           \/ l \notin DOMAIN db.lists
           \/ i.id \in DOMAIN db.items
           \/ ExternalTaken(db.items, i.ext, i.id)
           \/ i.project \notin DOMAIN db.items \cup {Nil}
          THEN [result |-> "error", db |-> db, item |-> item]
          ELSE Resort(inserted, GetList(db, l), now) @@ [item |-> i, partial |-> {inserted}]

\* Mutant of Renamed: the next actions of a project with a new tag look as old
\* as before.
RenamedQuietly(db, item, l) == db.items

\* A project with a new tag gives its next actions its own time.
Renamed(db, item, l) ==
    IF HoldsProjects(db.lists[l].name) /\ db.items[item.id].tag # item.tag
      THEN Touched(db.items, NextActions(db.items, item.id), item.modified) ELSE db.items

\* The list and the position of the row are left to UpdateList.
UpdateItem(db, item, now) ==
    LET l == Resolved(db.lists, item.list, item.xlist)
        i == [item EXCEPT !.id = Resolved(db.items, @, item.ext), !.list = l, !.modified = now]
        Named == item.xproject # Nil \/ item.tag # NoTag \/ item.ext = Nil
        project == ProjectFor(db, [item EXCEPT !.id = i.id], l, Named)
        tag == TagFor(db, item, l)
        row == [db.items[i.id] EXCEPT !.status = i.status, !.text = i.text, !.modified = now,
                                      !.project = project,
                                      !.tag = IF tag = NoTag THEN @ ELSE tag,
                                      !.ext = Coalesce(i.ext, @)]
        updated == [db EXCEPT !.items = With(Renamed(db, [item EXCEPT !.id = i.id], l), i.id, row)]
    IN  IF \/ item.status = "open"
           \/ l \notin DOMAIN db.lists
           \/ i.id \notin DOMAIN db.items
           \/ ExternalTaken(db.items, i.ext, i.id)
           \/ project \notin DOMAIN db.items \cup {Nil}
          THEN [result |-> "error", db |-> db, item |-> item]
          ELSE Resort(updated, GetList(db, l), now)
               @@ [item |-> [i EXCEPT !.project = project], partial |-> {updated}]

DeleteItem(db, item, now) ==
    LET i == Resolved(db.items, item.id, item.ext)
        touched == Touched(db.items, NextActions(db.items, i), now)
    IN  IF i \notin DOMAIN db.items
          THEN [result |-> "error", db |-> db]
          ELSE [result |-> "ok", db |-> [db EXCEPT !.items = Unlinked(touched, {i})]]
=============================================================================
