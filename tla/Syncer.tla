------------------------------- MODULE Syncer -------------------------------
(***************************************************************************)
(* app/syncer.go: one one-way pass from a source to a destination, one      *)
(* action per call of a provider.  A pull goes from a remote to the store,  *)
(* a push the other way; a remote is the markdown file or Google Tasks.     *)
(*                                                                         *)
(* The session works on the two listings it took at the start: the world    *)
(* may change between two calls.  A list that is being synced is a copy     *)
(* (cur) of its element in src; items are shared through pointers, and so   *)
(* is the array behind a list of items, see InsertItem.                     *)
(***************************************************************************)
EXTENDS Tasks

CONSTANTS
    Faulty,         \* providers whose calls may fail; the disk, which may then cut
                    \* off a write of the file; the process that may crash
    MaxFaults,      \* how often
    MaxTaskResults  \* see GoogleTasks

Providers == {"store", "markdown", "google_tasks"}

ASSUME SyncerAssumption ==
    /\ Faulty \subseteq Providers \cup {"disk", "process"}
    /\ MaxFaults \in Nat /\ MaxTaskResults \in Nat \ {0}

VARIABLES
    db,         \* the database, see SqliteStore
    file,       \* the markdown file, see Markdown
    google,     \* the service, see GoogleTasks
    notified,   \* for each target: its watcher has something to report
    now,        \* the clock: every write has a time of its own
    ss,         \* the session: syncSession and the position in its loops
    faults      \* calls that have failed

worldVars == <<db, file, google, notified, now>>
syncerVars == <<worldVars, ss, faults>>

Store == INSTANCE SqliteStore
Markdown == INSTANCE Markdown
GoogleTasks == INSTANCE GoogleTasks

\* GetKey of the remote: the identifier both sides of the pass know.
Key(resource) == IF ss.remote = "markdown" THEN resource.id ELSE resource.ext

-----------------------------------------------------------------------------
(* The session *)

Idle == [at |-> "idle"]

\* at    the next call, or "returned";        start    syncStart
\* unread   the lists of Google Tasks whose tasks are still to be listed
\* src   srcState.lists, and its two maps;     dst      dstState.lists
\* lists, items   the maps of dstState, which grow as resources are created
\* view  for each list of dst, what its own slice of items shows
\* li, ii, cur    the loops over src, and the copy of the list li
\* di, dj         the loops over dst
Session(direction, remote, start) ==
    [at |-> "read source", direction |-> direction, remote |-> remote, start |-> start,
     listing |-> <<>>, unread |-> {},
     src |-> <<>>, srcLists |-> <<>>, srcItems |-> <<>>,
     dst |-> <<>>, lists |-> <<>>, items |-> <<>>, view |-> <<>>,
     li |-> 1, ii |-> 1, cur |-> Nil, di |-> 1, dj |-> 1,
     result |-> "ok", changed |-> FALSE]

Source == IF ss.direction = "pull" THEN ss.remote ELSE "store"
Destination == IF ss.direction = "pull" THEN "store" ELSE ss.remote

\* buildProviderState: the maps from keys to lists and to items.  Of several
\* resources with one key the last counts; those without a key are left out.
ListMap(lists) ==
    LET keys == {Key(lists[i]) : i \in DOMAIN lists} \ {Nil}
        Last(k) == CHOOSE i \in DOMAIN lists :
                      Key(lists[i]) = k /\ \A j \in DOMAIN lists : Key(lists[j]) = k => j <= i
    IN  [k \in keys |-> lists[Last(k)]]

ItemMap(lists) ==
    LET places == UNION {{<<i, j>> : j \in DOMAIN lists[i].items} : i \in DOMAIN lists}
        Item(p) == lists[p[1]].items[p[2]]
        NotAfter(p, q) == p[1] < q[1] \/ (p[1] = q[1] /\ p[2] <= q[2])
        Last(k) == CHOOSE p \in places :
                      /\ Key(Item(p)) = k
                      /\ \A q \in places : Key(Item(q)) = k => NotAfter(q, p)
    IN  [k \in {Key(Item(p)) : p \in places} \ {Nil} |-> Item(Last(k))]

Put(map, k, v) == [x \in DOMAIN map \cup {k} |-> IF x = k THEN v ELSE map[x]]

\* append doubles the capacity of a slice.
Capacity(n) == IF n = 0 THEN 0 ELSE CHOOSE c \in {2 ^ e : e \in 0 .. n} : c >= n /\ c < 2 * n

\* dstList.Items = slices.Insert(...) on the copy in the map.  While the
\* capacity lasts, the array is shifted in place under the slice of the same
\* list in dst, whose length stays: that one now shows the first elements of
\* the longer list.  A list that replaced the one in the map, which is shorter
\* at first, has an array of its own.
InsertItem(s, key, item, prev) ==
    LET old == s.lists[key].items
        new == InsertedAt(old, First(old, LAMBDA i : Key(i) = prev), item)
        InPlace(k) == /\ k = key /\ Len(s.view[k]) <= Len(old)
                      /\ Len(new) <= Capacity(Len(s.view[k]))
    IN  [s EXCEPT !.lists[key].items = new,
                  !.view = [k \in DOMAIN @ |->
                              IF InPlace(k) THEN SubSeq(new, 1, Len(@[k])) ELSE @[k]]]

-----------------------------------------------------------------------------
(* Calls *)

\* The world after a call of provider p that left r: the markdown watcher
\* reports the client's own writes, too.  The poll of Google Tasks comes again
\* and again; one that would find everything as the last one left it is none.
Apply(p, r) ==
    /\ now' = now + 1
    /\ db' = IF p = "store" THEN r.db ELSE db
    /\ file' = IF p = "markdown" THEN r.file ELSE file
    /\ google' = IF p = "google_tasks" THEN r.google ELSE google
    /\ notified' = [t \in DOMAIN notified |->
                        \/ notified[t]
                        \/ t = "markdown" /\ file' # file
                        \/ t = "google_tasks" /\ <<db', google'>> # <<db, google>>]

Return(result) == [ss EXCEPT !.at = "returned", !.result = result]

Silently(s) == ss' = s /\ UNCHANGED <<worldVars, faults>>

\* What a call of p that was to leave r, and fails, may have done: nothing; some
\* of the requests or transactions it consists of; the rewrite of readFile, but
\* not its own write; or the file is half written.
HalfDone(p, r) ==
    LET partial == IF "partial" \in DOMAIN r THEN r.partial ELSE {}
    IN  CASE p = "store" -> {[db |-> d] : d \in {db} \cup partial}
          [] p = "google_tasks" -> {[google |-> g] : g \in {google} \cup partial}
          [] p = "markdown" ->
                {[file |-> f] : f \in {file, Markdown!Normalised(file)} \cup
                    (IF "disk" \in Faulty THEN Markdown!HalfWritten(file, r.file, now) ELSE {})}

\* A call ends the pass unless it returns "ok"; then the pass is at s.  The
\* call of a provider that is Faulty may fail.
Proceed(p, r, s) ==
    \/ /\ Apply(p, r) /\ UNCHANGED faults
       /\ ss' = IF r.result = "ok" THEN s ELSE Return(r.result)
    \/ /\ p \in Faulty /\ faults < MaxFaults
       /\ faults' = faults + 1 /\ ss' = Return("error")
       /\ \E half \in HalfDone(p, r) : Apply(p, half)

CallListLists(p) ==
    IF p = "store" THEN [result |-> "ok", db |-> db, lists |-> Store!ListLists(db)]
                   ELSE Markdown!ListLists(file)
CallCreateList(p, list) ==
    CASE p = "store" -> Store!CreateList(db, list, now)
      [] p = "markdown" -> Markdown!CreateList(file, list, now)
      [] p = "google_tasks" -> GoogleTasks!CreateList(google, list, now)
CallUpdateList(p, list, current) ==
    CASE p = "store" -> Store!UpdateList(db, list, current.items, now)
      [] p = "markdown" -> Markdown!UpdateList(file, list, current.items, now)
      [] p = "google_tasks" -> GoogleTasks!UpdateList(google, list, current, now)
CallDeleteList(p, list) ==
    CASE p = "store" -> Store!DeleteList(db, list)
      [] p = "markdown" -> Markdown!DeleteList(file, list, now)
      [] p = "google_tasks" -> GoogleTasks!DeleteList(google, list)
CallCreateItem(p, item, prev) ==
    CASE p = "store" -> Store!CreateItem(db, item, now)
      [] p = "markdown" -> Markdown!CreateItem(file, item, prev, now) @@ [item |-> item]
      [] p = "google_tasks" -> GoogleTasks!CreateItem(google, item, prev, now)
CallUpdateItem(p, item) ==
    CASE p = "store" -> Store!UpdateItem(db, item, now)
      [] p = "markdown" -> Markdown!UpdateItem(file, item, now) @@ [item |-> item]
      [] p = "google_tasks" -> GoogleTasks!UpdateItem(google, item, now) @@ [item |-> item]
CallDeleteItem(p, item) ==
    CASE p = "store" -> Store!DeleteItem(db, item, now)
      [] p = "markdown" -> Markdown!DeleteItem(file, item, now)
      [] p = "google_tasks" -> GoogleTasks!DeleteItem(google, item)

-----------------------------------------------------------------------------
(* The start: buildProviderState of the source and of the destination. *)

SourceListed(lists) ==
    [ss EXCEPT !.at = "read destination", !.src = lists,
               !.srcLists = ListMap(lists), !.srcItems = ItemMap(lists)]

DestinationListed(lists) ==
    LET maps == ListMap(lists)
    IN  [ss EXCEPT !.at = "open list", !.dst = lists, !.lists = maps, !.items = ItemMap(lists),
                   !.view = [k \in DOMAIN maps |-> maps[k].items]]

Listed(lists) == IF ss.direction = "pull" THEN SourceListed(lists) ELSE DestinationListed(lists)

\* Google Tasks lists its lists first.
ReadLists ==
    LET lists == GoogleTasks!ListTaskLists(google)
    IN  Proceed("google_tasks", [result |-> "ok", google |-> google],
                IF lists = <<>> THEN Listed(<<>>)
                ELSE [ss EXCEPT !.at = "read tasks", !.listing = lists, !.unread = DOMAIN lists])

\* One goroutine per list: their requests come in any order.
ReadTasks ==
    /\ ss.at = "read tasks"
    /\ \E k \in ss.unread :
          LET r == GoogleTasks!ListItems(google, ss.listing[k])
              lists == [ss.listing EXCEPT ![k].items = r.items]
          IN  Proceed("google_tasks", r,
                      IF ss.unread = {k} THEN [Listed(lists) EXCEPT !.listing = <<>>, !.unread = {}]
                      ELSE [ss EXCEPT !.listing = lists, !.unread = @ \ {k}])

ReadSource ==
    /\ ss.at = "read source"
    /\ LET r == CallListLists(Source)
       IN  IF Source = "google_tasks" THEN ReadLists
           ELSE Proceed(Source, r, SourceListed(r.lists))

\* A destination that is missing is empty.
ReadDestination ==
    /\ ss.at = "read destination"
    /\ LET r == CallListLists(Destination)
       IN  IF Destination = "google_tasks" THEN ReadLists
           ELSE Proceed(Destination, [r EXCEPT !.result = "ok"], DestinationListed(r.lists))

-----------------------------------------------------------------------------
(* syncListCreation and syncListUpdate of the list li. *)

NextList(s) == [s EXCEPT !.at = "open list", !.li = @ + 1, !.ii = 1]

\* srcItem.ListID and ExternalListID are set for every item that is synced.
StartItems(s) ==
    [s EXCEPT !.at = "create item", !.ii = 1,
              !.cur.items = [k \in DOMAIN @ |->
                               IF @[k].status = "deleted" THEN @[k]
                               ELSE [@[k] EXCEPT !.list = s.cur.id, !.xlist = s.cur.ext]]]

OpenList ==
    /\ ss.at = "open list"
    /\ Silently(
         IF ss.li > Len(ss.src) THEN [ss EXCEPT !.at = "link", !.li = 1]
         ELSE LET list == ss.src[ss.li]
              IN  IF list.status = "deleted" THEN NextList(ss)
                  ELSE IF Key(list) \in DOMAIN ss.lists THEN StartItems([ss EXCEPT !.cur = list])
                  ELSE [ss EXCEPT !.cur = list, !.at = "create list"])

Created(s) ==
    StartItems([s EXCEPT !.lists = Put(@, Key(s.cur), [s.cur EXCEPT !.items = <<>>]),
                         !.changed = TRUE])

ListCreated(r) ==
    LET s == [ss EXCEPT !.cur = r.list]
    IN  Proceed(Destination, r,
                IF Key(ss.cur) = Nil THEN [s EXCEPT !.at = "backfill list"] ELSE Created(s))

CreateList ==
    /\ ss.at = "create list"
    /\ ListCreated(CallCreateList(Destination, ss.cur))

ListBackfilled(r) == Proceed(Source, r, Created([ss EXCEPT !.cur = r.list]))

\* The identifier that the destination gave the list goes to the source.
BackfillList ==
    /\ ss.at = "backfill list"
    /\ ListBackfilled(CallUpdateList(Source, ss.cur, CleanList(ss.cur)))

\* The next item of the list, from ii on, that needs a call; Len + 1 if none.
NextItem(Needs(_)) ==
    LET found == {k \in ss.ii .. Len(ss.cur.items) :
                    ss.cur.items[k].status # "deleted" /\ Needs(ss.cur.items[k])}
    IN  IF found = {} THEN Len(ss.cur.items) + 1 ELSE CHOOSE k \in found : \A j \in found : k <= j

\* prevItemID: the last item before k that is in this list on both sides.
Previous(k) ==
    LET before == {j \in 1 .. k - 1 :
                    /\ ss.cur.items[j].status # "deleted"
                    /\ IsIn(ss.items[Key(ss.cur.items[j])], ss.cur)}
    IN  IF before = {} THEN Nil
        ELSE Key(ss.cur.items[CHOOSE j \in before : \A i \in before : i <= j])

Missing(item) == Key(item) \notin DOMAIN ss.items

\* Mutant of Added: the destination's map does not learn of the item.
AddedUnseen(s, k, item) ==
    [InsertItem([s EXCEPT !.cur.items[k] = item], Key(s.cur), item, Previous(k))
        EXCEPT !.at = "create item", !.ii = k + 1, !.changed = TRUE]

Added(s, k, item) ==
    [InsertItem([s EXCEPT !.cur.items[k] = item, !.items = Put(@, Key(item), item)],
                Key(s.cur), item, Previous(k))
        EXCEPT !.at = "create item", !.ii = k + 1, !.changed = TRUE]

ItemCreated(k, r) ==
    Proceed(Destination, r,
            IF Key(ss.cur.items[k]) # Nil THEN Added(ss, k, r.item)
            ELSE [ss EXCEPT !.at = "backfill item", !.ii = k, !.cur.items[k] = r.item])

CreateItem ==
    /\ ss.at = "create item"
    /\ LET k == NextItem(Missing)
       IN  IF k > Len(ss.cur.items) THEN Silently([ss EXCEPT !.at = "update list"])
           ELSE LET item == [ss.cur.items[k] EXCEPT !.status = IF @ = "open" THEN "not_started" ELSE @]
                IN  ItemCreated(k, CallCreateItem(Destination, item, Previous(k)))

ItemBackfilled(r) == Proceed(Source, r, Added(ss, ss.ii, r.item))

BackfillItem ==
    /\ ss.at = "backfill item"
    /\ ItemBackfilled(CallUpdateItem(Source, ss.cur.items[ss.ii]))

\* Mutant of ListDiffers: a list that only moved is not noticed.
ListIsNewer ==
    LET d == ss.lists[Key(ss.cur)]
    IN  ss.cur.modified >= d.modified /\ ~EquivalentLists(ss.cur, d)

\* syncListUpdate: the source is not older and differs, or the list moved.
ListDiffers ==
    LET d == ss.lists[Key(ss.cur)]
    IN  \/ ss.cur.modified >= d.modified /\ ~EquivalentLists(ss.cur, d)
        \/ ss.cur.pos # d.pos

UpdateList ==
    /\ ss.at = "update list"
    /\ LET current == ss.lists[Key(ss.cur)]
           There(i) == LET d == ss.items[Key(i)] IN [i EXCEPT !.list = d.list, !.xlist = d.xlist]
           live == Live(ss.cur.items)
           list == [ss.cur EXCEPT !.items = [k \in DOMAIN live |-> There(live[k])]]
           next == [ss EXCEPT !.at = "update item", !.ii = 1]
       IN  IF ListDiffers
             THEN Proceed(Destination, CallUpdateList(Destination, list, current),
                          [next EXCEPT !.changed = TRUE])
             ELSE Silently(next)

\* Mutant of ItemDiffers: what is newer is taken without a comparison.
ItemIsNewer(item) == item.modified >= ss.items[Key(item)].modified

ItemDiffers(item) ==
    LET d == ss.items[Key(item)]
    IN  item.modified >= d.modified /\ ~EquivalentItems(item, d)

\* An open task of google_tasks may be in progress elsewhere.
Preserving(item, status) ==
    [item EXCEPT !.status = IF @ # "open" THEN @
                            ELSE IF status = "in_progress" THEN status ELSE "not_started"]

\* Items that need no update learn of the project the destination knows.
Linked(item) ==
    IF item.status = "deleted" THEN item
    ELSE IF ItemDiffers(item) \/ ss.items[Key(item)].project = Nil THEN item
    ELSE [item EXCEPT !.project = ss.items[Key(item)].project]

\* The items of the list are through; src shares them with cur.
ItemsDone ==
    LET items == [k \in DOMAIN ss.cur.items |-> Linked(ss.cur.items[k])]
    IN  NextList([ss EXCEPT !.src[ss.li].items = items])

ItemUpdated(k, r) ==
    Proceed(Destination, r, [ss EXCEPT !.ii = k + 1, !.cur.items[k] = r.item, !.changed = TRUE])

UpdateItem ==
    /\ ss.at = "update item"
    /\ LET k == NextItem(ItemDiffers)
       IN  IF k > Len(ss.cur.items) THEN Silently(ItemsDone)
           ELSE LET item == ss.cur.items[k]
                    sent == Preserving(item, ss.items[Key(item)].status)
                IN  ItemUpdated(k, CallUpdateItem(Destination, sent))

-----------------------------------------------------------------------------
(* syncNextActionProjectUpdate: what names a project but is not linked to    *)
(* one is updated again, now that all projects are there.  Items marked      *)
(* deleted are not left out.                                                 *)

Unlinked(list) ==
    {k \in DOMAIN list.items :
        /\ ~HoldsProjects(list.name)
        /\ list.items[k].tag # NoTag \/ list.items[k].xproject # Nil
        /\ list.items[k].project = Nil}

Link ==
    /\ ss.at = "link"
    /\ IF ss.li > Len(ss.src) THEN Silently([ss EXCEPT !.at = "delete"])
       ELSE LET todo == {k \in Unlinked(ss.src[ss.li]) : k >= ss.ii}
                k == CHOOSE x \in todo : \A y \in todo : x <= y
                item == ss.src[ss.li].items[k]
                there == IF Key(item) \in DOMAIN ss.items THEN ss.items[Key(item)].status ELSE "none"
            IN  IF todo = {} THEN Silently([ss EXCEPT !.li = @ + 1, !.ii = 1])
                ELSE Proceed(Destination, CallUpdateItem(Destination, Preserving(item, there)),
                             [ss EXCEPT !.ii = k + 1])

-----------------------------------------------------------------------------
(* syncListDeletion of the list di of the destination. *)

Gone(map, resource) ==
    /\ Key(resource) \notin DOMAIN map \/ map[Key(resource)].status = "deleted"
    /\ resource.modified < ss.start

NextDeletion(s) == [s EXCEPT !.at = "delete", !.di = @ + 1, !.dj = 1]

\* The items of a list as its own slice shows them.
ItemsInView(list) == IF Key(list) \in DOMAIN ss.view THEN ss.view[Key(list)] ELSE list.items

DeleteList(list) ==
    LET marked == [list EXCEPT !.status = "deleted"]
        next == [NextDeletion(ss) EXCEPT !.changed = TRUE]
    IN  IF Key(list) \notin DOMAIN ss.srcLists
          THEN Proceed(Destination, CallUpdateList(Destination, marked, CleanList(marked)), next)
          ELSE Proceed(Destination, CallDeleteList(Destination, list),
                       [ss EXCEPT !.at = "purge list"])

\* Mutant of DeleteItem: what is missing in the source is purged at once.
DeleteItemAtOnce(item, k) ==
    Proceed(Destination, CallDeleteItem(Destination, item),
            IF Key(item) \in DOMAIN ss.srcItems THEN [ss EXCEPT !.at = "purge item", !.dj = k]
            ELSE [ss EXCEPT !.dj = k + 1, !.changed = TRUE])

DeleteItem(item, k) ==
    LET next == [ss EXCEPT !.dj = k + 1, !.changed = TRUE]
    IN  IF Key(item) \notin DOMAIN ss.srcItems
          THEN Proceed(Destination, CallUpdateItem(Destination, [item EXCEPT !.status = "deleted"]), next)
          ELSE Proceed(Destination, CallDeleteItem(Destination, item),
                       [ss EXCEPT !.at = "purge item", !.dj = k])

Delete ==
    /\ ss.at = "delete"
    /\ IF ss.di > Len(ss.dst) THEN Silently(Return("ok"))
       ELSE LET items == ItemsInView(ss.dst[ss.di])
                list == [ss.dst[ss.di] EXCEPT !.items = items]
                gone == {k \in ss.dj .. Len(items) :
                            /\ items[k].status # "deleted" /\ Key(items[k]) # Nil
                            /\ Gone(ss.srcItems, items[k])}
                k == CHOOSE i \in gone : \A j \in gone : i <= j
            IN  IF list.status = "deleted" \/ Key(list) = Nil THEN Silently(NextDeletion(ss))
                ELSE IF Gone(ss.srcLists, list) THEN DeleteList(list)
                ELSE IF gone = {} THEN Silently(NextDeletion(ss))
                ELSE DeleteItem(items[k], k)

\* The source had marked it deleted: both sides forget it.
PurgeList ==
    /\ ss.at = "purge list"
    /\ Proceed(Source, CallDeleteList(Source, ss.srcLists[Key(ss.dst[ss.di])]),
               [NextDeletion(ss) EXCEPT !.changed = TRUE])

PurgeItem ==
    /\ ss.at = "purge item"
    /\ LET item == ItemsInView(ss.dst[ss.di])[ss.dj]
       IN  Proceed(Source, CallDeleteItem(Source, ss.srcItems[Key(item)]),
                   [ss EXCEPT !.at = "delete", !.dj = @ + 1, !.changed = TRUE])

-----------------------------------------------------------------------------

\* The session stays within its listings.  Whatever the update phase looks up
\* in the maps of the destination is there: the list cur, and what was created,
\* or found, of its items.  "" is never a key, and an item that goes back to the
\* store with an identifier of Google Tasks has one.
SessionOK ==
    LET Reading == ss.at \in {"read source", "read destination", "read tasks"}
        Adding == ss.at \in {"create item", "backfill item"}
        Updating == ss.at \in {"update list", "update item"}
        InList == Adding \/ Updating \/ ss.at \in {"create list", "backfill list"}
    IN  ss.at # "idle" =>
          /\ ss.li \in 1 .. Len(ss.src) + 1 /\ ss.di \in 1 .. Len(ss.dst) + 1
          /\ Reading => ss.li = 1 /\ ss.di = 1
          /\ InList => ss.li # Len(ss.src) + 1
          /\ ss.at \in {"purge list", "purge item"} => ss.di # Len(ss.dst) + 1
          /\ Nil \notin DOMAIN ss.items
          /\ ss.at = "backfill item" => ss.ii \in DOMAIN ss.cur.items
          /\ ss.at = "backfill item" /\ Destination = "google_tasks" => ss.cur.items[ss.ii].ext # Nil
          /\ Adding \/ Updating =>
                /\ Key(ss.cur) \in DOMAIN ss.lists
                /\ \A k \in DOMAIN ss.cur.items :
                      (Updating \/ k < ss.ii) /\ ss.cur.items[k].status # "deleted" =>
                          Key(ss.cur.items[k]) \in DOMAIN ss.items

SyncerStep ==
    \/ ReadSource \/ ReadDestination \/ ReadTasks
    \/ OpenList \/ CreateList \/ BackfillList \/ CreateItem \/ BackfillItem
    \/ UpdateList \/ UpdateItem \/ Link
    \/ Delete \/ PurgeList \/ PurgeItem
=============================================================================
