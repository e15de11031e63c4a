------------------------------- MODULE System -------------------------------
(***************************************************************************)
(* The program with its targets: processEvent of app/runner.go pulls from   *)
(* the remotes into the store and pushes the store to them, the Syncer does *)
(* either call by call, and the user edits the file, or the lists on the    *)
(* phone.                                                                  *)
(***************************************************************************)
EXTENDS Syncer

CONSTANTS
    Targets,        \* the order of syncTargets in cmd/gtd/main.go
    InitialFiles,   \* what the file may say at first: sequences of lists
    InitialServices,    \* what Google Tasks has at first
    Texts, Names, Tags, \* what the user may write
    Edits,          \* the kinds of edits the user makes, see Edit
    MaxEdits,       \* their number
    MaxPasses,      \* passes that may follow an edit, more than it should take
    Concurrent      \* does the user edit during a pass, too?

ASSUME SystemAssumption ==
    /\ Targets \in {<<"markdown">>, <<"google_tasks", "markdown">>}
    /\ MaxEdits \in Nat /\ MaxPasses \in Nat \ {0}
    /\ Concurrent \in BOOLEAN

VARIABLES
    needsPull, needsPush,   \* SyncTarget.needsPullRetry, needsPushRetry
    pass,                   \* where processEvent is
    edits,                  \* edits made
    passes,                 \* passes since the last one
    wanted,                 \* what the user's last edit leaves: lists as in a file
    before                  \* what the file said before the last save

driverVars == <<needsPull, needsPush, pass, passes>>
userVars == <<edits, wanted, before>>
vars == <<syncerVars, driverVars, userVars>>

TargetNames == {Targets[k] : k \in DOMAIN Targets}
WithPhone == "google_tasks" \in TargetNames

-----------------------------------------------------------------------------
(* What each part of the state looks like. *)

Statuses == {"open", "not_started", "in_progress", "done", "deleted"}

IsSeq(s) == s = [k \in 1 .. Len(s) |-> s[k]] /\ Len(s) \in Nat

\* What the providers hand over, see Tasks.
ItemFields ==
    {"id", "ext", "list", "xlist", "pos", "status", "text", "tag", "project", "xproject", "modified"}
ListFields == {"id", "ext", "name", "pos", "status", "modified", "items"}

ItemOK(i) == DOMAIN i = ItemFields /\ i.status \in Statuses /\ i.pos \in Nat
ItemsOK(items) == IsSeq(items) /\ \A k \in DOMAIN items : ItemOK(items[k])

ListOK(l) ==
    /\ DOMAIN l = ListFields
    /\ l.status \in {"open", "deleted"} /\ l.pos \in Nat /\ ItemsOK(l.items)
ListsOK(lists) == IsSeq(lists) /\ \A k \in DOMAIN lists : ListOK(lists[k])

\* The keys of a table: ORDER BY and external_id never leave a choice.
RowsOK(rows, next) ==
    /\ IsFiniteSet(DOMAIN rows)
    /\ \A x \in DOMAIN rows : rows[x].pos \in Nat /\ rows[x].row \in 1 .. next - 1
    /\ \A x, y \in DOMAIN rows :
          rows[x].row = rows[y].row \/ (rows[x].ext = rows[y].ext /\ rows[x].ext # Nil) => x = y

\* The database, with its references.
ListRowsOK(rows) ==
    \A l \in DOMAIN rows :
        /\ DOMAIN rows[l] = {"name", "pos", "status", "modified", "ext", "row"}
        /\ rows[l].status \in {"open", "deleted"}

ItemColumns == {"list", "pos", "status", "text", "tag", "project", "modified", "ext", "row"}
ItemRowsOK(rows, lists) ==
    /\ Nil \notin DOMAIN rows
    /\ \A i \in DOMAIN rows :
          /\ DOMAIN rows[i] = ItemColumns /\ rows[i].status \in Statuses \ {"open"}
          /\ rows[i].list \in lists /\ rows[i].project \in DOMAIN rows \cup {Nil}

StoreOK(d) ==
    /\ DOMAIN d = {"lists", "items", "next"} /\ d.next \in Nat \ {0}
    /\ RowsOK(d.lists, d.next) /\ ListRowsOK(d.lists)
    /\ RowsOK(d.items, d.next) /\ ItemRowsOK(d.items, DOMAIN d.lists)

\* What parse makes of any file: a checkbox is one of three.
LineFields == {"id", "status", "text", "tag"}

LinesOK(lists) ==
    /\ IsSeq(lists)
    /\ \A k \in DOMAIN lists :
          /\ DOMAIN lists[k] = {"id", "name", "items"} /\ IsSeq(lists[k].items)
          /\ \A j \in DOMAIN lists[k].items :
                /\ DOMAIN lists[k].items[j] = LineFields
                /\ lists[k].items[j].status \in Statuses \ {"open", "deleted"}
FileOK(f) == DOMAIN f = {"exists", "lists", "mtime"} /\ LinesOK(f.lists)

ServiceOK(g) ==
    /\ DOMAIN g = {"lists", "next"} /\ g.next \in Nat \ {0} /\ IsSeq(g.lists)
    /\ \A l \in DOMAIN g.lists :
          DOMAIN g.lists[l] = {"id", "name", "updated", "tasks"} /\ IsSeq(g.lists[l].tasks)

ASSUME InitialAssumption ==
    /\ \A lists \in InitialFiles : LinesOK(lists)
    /\ \A g \in InitialServices : ServiceOK(g)

\* What a session has read, and the pass it belongs to.
SessionFields == DOMAIN Session("pull", "markdown", 0)
PassFields == {"phase", "event", "k", "changed", "start"}

SessionTyped ==
    ss.at # "idle" =>
        /\ DOMAIN ss = SessionFields
        /\ ss.direction \in {"pull", "push"} /\ ss.remote \in TargetNames
        /\ ss.ii \in Nat \ {0} /\ ss.dj \in Nat \ {0}
        /\ ListsOK(ss.listing) /\ ListsOK(ss.src) /\ ListsOK(ss.dst)
        /\ \A k \in DOMAIN ss.lists : ListOK(ss.lists[k])
        /\ \A k \in DOMAIN ss.view : ItemsOK(ss.view[k])
        /\ ss.at \in {"create list", "backfill list", "create item", "backfill item",
                      "update list", "update item"} => ListOK(ss.cur)
        /\ DOMAIN pass = PassFields
        /\ pass.phase \in {"pull", "push"} /\ pass.k \in Nat \ {0}

\* The shape of the state, the references and keys of the database, and where
\* the pass is: no lookup of a list or an item finds nothing.
TypeOK ==
    /\ StoreOK(db) /\ FileOK(file) /\ LinesOK(before) /\ ServiceOK(google)
    /\ SessionTyped /\ SessionOK /\ faults \in 0 .. MaxFaults
    /\ notified \in [TargetNames -> BOOLEAN]
    /\ needsPull \in [TargetNames -> BOOLEAN] /\ needsPush \in [TargetNames -> BOOLEAN]
    /\ now \in Nat /\ edits \in 0 .. MaxEdits /\ passes \in 0 .. MaxPasses

-----------------------------------------------------------------------------
\* What the file should say of a task, and of all: the phone knows no "in
\* progress", and leaves it as it is.
TaskInFile(t) ==
    LET known == {k \in DOMAIN db.items : db.items[k].ext = t.id}
        status == IF known = {} THEN "not_started" ELSE db.items[CHOOSE k \in known : TRUE].status
    IN  [id |-> Nil, text |-> t.text, tag |-> t.tag,
         status |-> IF t.done THEN "done" ELSE IF status = "in_progress" THEN status ELSE "not_started"]

InFile(g) ==
    [k \in DOMAIN g.lists |->
        [id |-> Nil, name |-> g.lists[k].name,
         items |-> [j \in DOMAIN g.lists[k].tasks |-> TaskInFile(g.lists[k].tasks[j])]]]

\* The bootstrap pass comes first.
Init ==
    /\ db = Store!EmptyDB /\ google \in InitialServices
    /\ \E lists \in InitialFiles :
          /\ file = [exists |-> lists # <<>>, lists |-> lists, mtime |-> 1]
          /\ wanted = lists \o InFile(google) /\ before = lists
    /\ notified = [t \in TargetNames |-> FALSE]
    /\ needsPull = notified /\ needsPush = notified
    /\ now = 2 /\ ss = Idle /\ faults = 0 /\ edits = 0 /\ passes = 0
    /\ pass = [phase |-> "boot"]

-----------------------------------------------------------------------------
(* processEvent, pull and push of the Runner. *)

Resting == [phase |-> "idle"]

Earliest(S) == CHOOSE k \in S : \A j \in S : k <= j

\* From here on in the loops over the targets, with the flags as they are now:
\* the next call of the Syncer, or the end.
GoOn(p) ==
    LET toPull == {k \in p.k .. Len(Targets) :
                      p.event \in {"all", Targets[k]} \/ needsPull'[Targets[k]]}
        from == IF p.phase = "pull" THEN 1 ELSE p.k
        toPush == {k \in from .. Len(Targets) :
                      (p.changed \/ needsPush'[Targets[k]]) /\ ~needsPull'[Targets[k]]}
        Call(phase, k) ==
            /\ pass' = [p EXCEPT !.phase = phase, !.k = k + 1]
            /\ ss' = Session(phase, Targets[k], p.start)
    IN  IF p.phase = "pull" /\ toPull # {} THEN Call("pull", Earliest(toPull))
        ELSE IF toPush # {} THEN Call("push", Earliest(toPush))
        ELSE pass' = Resting /\ ss' = Idle

Begin(event) ==
    /\ passes < MaxPasses
    /\ notified' = [t \in TargetNames |-> notified[t] /\ t # event]
    /\ now' = now + 1 /\ passes' = passes + 1
    /\ UNCHANGED <<db, file, google, faults, needsPull, needsPush, userVars>>
    /\ GoOn([phase |-> "pull", event |-> event, k |-> 1, changed |-> FALSE, start |-> now])

RetryDue == \E t \in TargetNames : needsPull[t] \/ needsPush[t]

\* The poll comes anyhow, and brings what is to be repeated.
BeginPass ==
    \/ pass.phase = "boot" /\ Begin("all")
    \/ pass.phase = "idle" /\ \E t \in TargetNames :
          (notified[t] \/ (t = "google_tasks" /\ RetryDue)) /\ Begin(t)

Returned(direction) == ss.at = "returned" /\ ss.direction = direction /\ ss.result # "panic"

\* Mutant of PullReturns: a pull that failed is not repeated.
PullIsForgotten ==
    /\ Returned("pull")
    /\ needsPush' = [needsPush EXCEPT ![ss.remote] = @ \/ ss.result = "missing"]
    /\ UNCHANGED <<needsPull, worldVars, faults, passes, userVars>>
    /\ GoOn([pass EXCEPT !.changed = @ \/ (ss.result = "ok" /\ ss.changed)])

\* Mutant of PullReturns: what a failed pull has not taken over is pushed away.
PushAnyway ==
    /\ Returned("pull")
    /\ needsPush' = [needsPush EXCEPT ![ss.remote] = @ \/ ss.result # "ok"]
    /\ UNCHANGED <<needsPull, worldVars, faults, passes, userVars>>
    /\ GoOn([pass EXCEPT !.changed = @ \/ ss.changed])

PullReturns ==
    /\ Returned("pull")
    /\ needsPull' = [needsPull EXCEPT ![ss.remote] = (ss.result = "error")]
    /\ needsPush' = [needsPush EXCEPT ![ss.remote] =
                        @ \/ ss.result = "missing" \/ (ss.result = "ok" /\ needsPull[ss.remote])]
    /\ UNCHANGED <<worldVars, faults, passes, userVars>>
    /\ GoOn([pass EXCEPT !.changed = @ \/ (ss.result = "ok" /\ ss.changed)])

\* Mutant of PushReturns: the events of the pass are taken for its own echo.
PushDrainsEvents ==
    /\ Returned("push")
    /\ needsPush' = [needsPush EXCEPT ![ss.remote] = (ss.result # "ok")]
    /\ notified' = [notified EXCEPT ![ss.remote] = FALSE]
    /\ UNCHANGED <<db, file, google, now, needsPull, faults, passes, userVars>>
    /\ GoOn(pass)

PushReturns ==
    /\ Returned("push")
    /\ needsPush' = [needsPush EXCEPT ![ss.remote] = (ss.result # "ok")]
    /\ UNCHANGED <<needsPull, worldVars, faults, passes, userVars>>
    /\ GoOn(pass)

\* The process ends between two calls, and is started again.  Only the store,
\* the file and the service are left.
Crash ==
    /\ "process" \in Faulty /\ faults < MaxFaults /\ pass.phase # "boot"
    /\ faults' = faults + 1 /\ ss' = Idle /\ pass' = [phase |-> "boot"] /\ passes' = 0
    /\ LET none == [t \in TargetNames |-> FALSE]
       IN  notified' = none /\ needsPull' = none /\ needsPush' = none
    /\ UNCHANGED <<db, file, google, now, userVars>>

-----------------------------------------------------------------------------
(* The user at the editor. *)

SavedFor(lists, outcome) ==
    /\ file' = [exists |-> TRUE, lists |-> lists, mtime |-> now]
    /\ wanted' = outcome /\ before' = file.lists
    /\ UNCHANGED google

Saved(lists) == SavedFor(lists, lists)

NewItem(t) == [id |-> Nil, status |-> "not_started", text |-> t, tag |-> NoTag]

\* A line added first or last.
Add(l) ==
    \E t \in Texts, at \in {0, Len(file.lists[l].items)} :
        Saved([file.lists EXCEPT ![l].items = InsertedAt(@, at, NewItem(t))])

Retitle(l, k) ==
    \E t \in Texts \ {file.lists[l].items[k].text} :
        Saved([file.lists EXCEPT ![l].items[k].text = t])

\* Another project for a line, or none.  Or another tag for a project: then the
\* lines that name it should follow.
Retag(l, k) ==
    LET old == file.lists[l].items[k].tag
        Retagged(t) == [file.lists EXCEPT ![l].items[k].tag = t]
        projects == {p \in DOMAIN file.lists : HoldsProjects(file.lists[p].name)}
        tags == UNION {{file.lists[p].items[j].tag : j \in DOMAIN file.lists[p].items} : p \in projects}
        Follow(lists, t) ==
            [m \in DOMAIN lists |-> [lists[m] EXCEPT !.items =
                [j \in DOMAIN @ |->
                    IF old # NoTag /\ @[j].tag = old THEN [@[j] EXCEPT !.tag = t] ELSE @[j]]]]
    IN  IF l \in projects
          THEN \E t \in Tags \ (tags \cup {NoTag}) : SavedFor(Retagged(t), Follow(Retagged(t), t))
          ELSE \E t \in ((Tags \cap tags) \cup {NoTag}) \ {old} : Saved(Retagged(t))

Check(l, k) ==
    Saved([file.lists EXCEPT ![l].items[k].status =
              IF @ = "done" THEN "not_started" ELSE "done"])

Start(l, k) ==
    /\ file.lists[l].items[k].status = "not_started"
    /\ Saved([file.lists EXCEPT ![l].items[k].status = "in_progress"])

\* May projects come and go there?  Lines that named one that is gone stay as
\* they are, and name nothing.
Free(list) == HoldsProjects(list.name) => "give up" \in Edits

Remove(l, k) == Saved([file.lists EXCEPT ![l].items = Without(@, k)])

\* The line makes way for another one.
Replace(l, k) ==
    \E t \in Texts \ {file.lists[l].items[k].text} :
        Saved([file.lists EXCEPT ![l].items[k] = NewItem(t)])

\* The line is cut and pasted elsewhere.
Move(l, k) ==
    LET cut == [file.lists EXCEPT ![l].items = Without(@, k)]
    IN  \E m \in {n \in DOMAIN cut : Free(cut[n])} : \E at \in 0 .. Len(cut[m].items) :
            /\ <<m, at>> # <<l, k - 1>>
            /\ Saved([cut EXCEPT ![m].items = InsertedAt(@, at, file.lists[l].items[k])])

AddList(at) ==
    \E n \in Names : Saved(InsertedAt(file.lists, at, [id |-> Nil, name |-> n, items |-> <<>>]))

Rename(l) ==
    \E n \in Names \ {file.lists[l].name} : Saved([file.lists EXCEPT ![l].name = n])

RemoveList(l) == Saved(Without(file.lists, l))

MoveList(l) ==
    \E at \in (0 .. Len(file.lists) - 1) \ {l - 1} :
        Saved(InsertedAt(Without(file.lists, l), at, file.lists[l]))

\* The last edit is undone.
Undo == before # file.lists /\ Saved(before)

\* The watcher hears nothing of it, see hasFileChanged.
RemoveFile == file' = Markdown!NoFile /\ UNCHANGED <<google, wanted, before>>

EditFile ==
    \/ \E l \in DOMAIN file.lists :
          \/ "add" \in Edits /\ Add(l)
          \/ "rename" \in Edits /\ Free(file.lists[l]) /\ Rename(l)
          \/ "remove list" \in Edits /\ Free(file.lists[l]) /\ RemoveList(l)
          \/ "move list" \in Edits /\ MoveList(l)
          \/ \E k \in DOMAIN file.lists[l].items :
                \/ "retitle" \in Edits /\ Retitle(l, k)
                \/ "retag" \in Edits /\ Retag(l, k)
                \/ "check" \in Edits /\ Check(l, k)
                \/ "start" \in Edits /\ Start(l, k)
                \/ "remove" \in Edits /\ Free(file.lists[l]) /\ Remove(l, k)
                \/ "replace" \in Edits /\ Free(file.lists[l]) /\ Replace(l, k)
                \/ "move" \in Edits /\ Free(file.lists[l]) /\ Move(l, k)
    \/ "add list" \in Edits /\ AddList(Len(file.lists))
    \/ "add list first" \in Edits /\ AddList(0)
    \/ "undo" \in Edits /\ edits > 0 /\ Undo

-----------------------------------------------------------------------------
(* The user at the phone.  An edit gives the task and its list a new time.   *)

Phoned(g, l) ==
    /\ google' = [g EXCEPT !.lists = [k \in DOMAIN @ |->
                                        IF k \in l THEN [@[k] EXCEPT !.updated = now] ELSE @[k]]]
    /\ wanted' = InFile(g) /\ UNCHANGED <<file, before>>

Phone(r, l) == r.result = "ok" /\ Phoned(r.google, l)

PhoneTask(l, k) ==
    LET list == google.lists[l]
        t == list.tasks[k]
        Patched(new) == Phone(GoogleTasks!PatchTask(google, list.id, t.id, new, now), {l})
    IN  \/ "phone retitle" \in Edits /\ \E x \in Texts \ {t.text} : Patched([t EXCEPT !.text = x])
        \/ "phone check" \in Edits /\ ~t.done /\ Patched([t EXCEPT !.done = TRUE])
        \/ "phone remove" \in Edits /\ Free(list) /\ Phone(GoogleTasks!DeleteTask(google, list.id, t.id), {l})
        \/ "phone move" \in Edits /\ \E m \in {n \in DOMAIN google.lists : Free(list) /\ Free(google.lists[n])} :
              \E p \in ({Nil} \cup {google.lists[m].tasks[j].id : j \in DOMAIN google.lists[m].tasks}) \ {t.id} :
                LET stamped == [google EXCEPT !.lists[l].tasks[k].updated = now]
                    move == [item |-> t.id, from |-> list.id, to |-> google.lists[m].id, previous |-> p]
                IN  Phone(GoogleTasks!MoveTask(stamped, move), {l, m})

EditService ==
    \/ \E l \in DOMAIN google.lists :
          \/ /\ "phone add" \in Edits
             /\ \E x \in Texts : Phone(GoogleTasks!InsertTask(google, google.lists[l].id,
                                          [text |-> x, tag |-> NoTag, done |-> FALSE], Nil, now), {l})
          \/ /\ "phone rename" \in Edits /\ Free(google.lists[l])
             /\ \E n \in Names \ {google.lists[l].name} :
                   Phone(GoogleTasks!PatchTaskList(google, google.lists[l].id, n, now), {l})
          \/ /\ "phone remove list" \in Edits /\ Free(google.lists[l])
             /\ Phone(GoogleTasks!DeleteTaskList(google, google.lists[l].id), {})
          \/ \E k \in DOMAIN google.lists[l].tasks : PhoneTask(l, k)
    \/ /\ "phone add list" \in Edits
       /\ \E n \in Names : Phone(GoogleTasks!InsertTaskList(google, n, now), {})

-----------------------------------------------------------------------------

Quiet == pass.phase = "idle" /\ ~\E t \in TargetNames : notified[t]
Settled == Quiet /\ ~RetryDue

User ==
    /\ edits < MaxEdits
    /\ Concurrent \/ Settled \/ (Quiet /\ ~WithPhone)
    /\ \/ file.exists /\ EditFile /\ notified' = [notified EXCEPT !["markdown"] = TRUE]
       \/ file.exists /\ "remove file" \in Edits /\ RemoveFile /\ UNCHANGED notified
       \/ WithPhone /\ EditService /\ notified' = [notified EXCEPT !["google_tasks"] = TRUE]
    /\ now' = now + 1 /\ edits' = edits + 1 /\ passes' = 0
    /\ UNCHANGED <<db, ss, faults, needsPull, needsPush, pass>>

Driver == BeginPass \/ PullReturns \/ PushReturns \/ Crash
Next == Driver \/ User \/ (SyncerStep /\ UNCHANGED <<driverVars, userVars>>)
Spec == Init /\ [][Next]_vars

-----------------------------------------------------------------------------
(* Safety. *)

\* What the store and the file say: the live resources in their order, items
\* that are done last, as render and Clean have it.
Entry(i) == [id |-> i.id, status |-> i.status, text |-> i.text, tag |-> i.tag]
Entries(items) == [k \in DOMAIN items |-> Entry(items[k])]
StoreLists == Live(Store!ListLists(db))
StoreSays ==
    [k \in DOMAIN StoreLists |->
        [id |-> StoreLists[k].id, name |-> StoreLists[k].name,
         items |-> Entries(CleanItems(Live(StoreLists[k].items)))]]
FileSays == Markdown!Rendered(Markdown!Parsed(file))

\* Where the order of what is done does not matter.
OpenAndDone(items, Show(_)) ==
    LET IsDone(i) == i.status = "done"
        open == SelectSeq(items, LAMBDA i : ~IsDone(i))
        done == SelectSeq(items, IsDone)
    IN  [open |-> [k \in DOMAIN open |-> Show(open[k])],
         done |-> {Show(done[k]) : k \in DOMAIN done}]

\* The same for Google Tasks, which knows no other statuses.
TaskLists(lists, Items(_)) ==
    LET Task(i) == [ext |-> i.ext, text |-> i.text, tag |-> i.tag]
    IN  [k \in DOMAIN lists |->
            [ext |-> lists[k].ext, name |-> lists[k].name, tasks |-> OpenAndDone(Items(lists[k]), Task)]]
StoreSaysTasks == TaskLists(StoreLists, LAMBDA l : Live(l.items))
ServiceSays ==
    TaskLists(GoogleTasks!ListTaskLists(google), LAMBDA l : GoogleTasks!ListItems(google, l).items)

\* The user has removed the file, and no push has made it again.
Removed == file = Markdown!NoFile

\* oneWaySync of app/syncer.go, both ways: when no event is left and no retry
\* is due, the store, the file and the service say the same, whatever the user
\* did while a pass was under way, whichever call failed, and whatever it had
\* done by then.  A file that was removed is missing until the next push.
Agreement ==
    Settled =>
        /\ ~Removed => StoreSays = FileSays
        /\ WithPhone => StoreSaysTasks = ServiceSays

Meaning(lists) ==
    LET Line(i) == [status |-> i.status, text |-> i.text, tag |-> i.tag]
    IN  [k \in DOMAIN lists |-> [name |-> lists[k].name, items |-> OpenAndDone(lists[k].items, Line)]]

\* The lists are the user's: once the program is through with an edit that was
\* made between two passes, the file says what the user saved or entered, but
\* for the identifiers and for the place of what is done.  A removed file comes
\* back with the next push.
UserIsObeyed == Settled /\ ~Removed => Meaning(FileSays) = Meaning(wanted)

\* How often a line is in the lists of a name.
Times(lists, name, line) ==
    LET Is(k, j) == lists[k].name = name /\ lists[k].items[j] = line
    IN  Cardinality({p \in UNION {{<<k, j>> : j \in DOMAIN lists[k].items} : k \in DOMAIN lists} :
                        Is(p[1], p[2])})

\* The retries of app/runner.go: after a crash, or a call that failed half-way,
\* between or after two edits, the program comes back to what the user wanted:
\* when it is at rest, no list is missing in the file, and no line.  A line may be
\* there twice, see the run alias.  A file that did not have all of the store yet,
\* see the run unpushed, or that was cut off is read as an edit.
NothingIsLost ==
    Settled /\ ~Removed =>
        LET Lines(lists) ==
                [k \in DOMAIN lists |-> [lists[k] EXCEPT !.items =
                    [j \in DOMAIN @ |-> [status |-> @[j].status, text |-> @[j].text, tag |-> @[j].tag]]]]
            said == Lines(FileSays)
            asked == Lines(wanted)
        IN  \A k \in DOMAIN asked :
                /\ \E m \in DOMAIN said : said[m].name = asked[k].name
                /\ \A j \in DOMAIN asked[k].items :
                      LET Count(lists) == Times(lists, asked[k].name, asked[k].items[j])
                      IN  Count(asked) <= Count(said)

\* A list that is marked deleted, and is in no remote any more: deleteList finds
\* nothing to delete there, and never comes to forget it in the store.
Stranded ==
    \E l \in DOMAIN db.lists :
        /\ db.lists[l].status = "deleted"
        /\ \A k \in DOMAIN file.lists : file.lists[k].id # l
        /\ WithPhone => \A k \in DOMAIN google.lists : google.lists[k].id # db.lists[l].ext

\* processEvent of app/runner.go: an edit is dealt with in a few passes.  The
\* program's own writes wake it up again, so a pass that always finds
\* something to write would never let it rest.  It does find something as long
\* as a stranded list shifts the positions of those behind it.
Settles == passes < MaxPasses \/ Stranded

\* moveItem of markdown/client.go "safely extracts an item" and inserts it at
\* the place it has in the store, without a look at the length of the list in
\* the file: that place is never beyond the end, or the program would end.
\* Edits during a push break this, see the run shrunk.
Survives == ss.at = "returned" => ss.result # "panic"

\* deleteList and deleteItem of app/syncer.go: what is missing on the other side
\* is marked deleted, and its row goes only in a later pass, when the deletion
\* has been pushed.  In whatever order passes, edits, failures and crashes come,
\* no list leaves the database that was not marked before, and no item that was
\* not, unless its list goes or is marked.
MarkedBeforePurged ==
    [][ /\ \A l \in DOMAIN db.lists \ DOMAIN db'.lists : db.lists[l].status = "deleted"
        /\ \A i \in DOMAIN db.items \ DOMAIN db'.items :
              \/ db.items[i].status = "deleted"
              \/ LET l == db.items[i].list
                 IN  l \notin DOMAIN db'.lists \/ db'.lists[l].status = "deleted" ]_vars

\* oneWaySync of app/syncer.go: the program never deletes a task of the service that
\* the store has and wants to keep.  The service deletes a list with its tasks:
\* those that have left it must have been moved out before.
TaskIds(g) == UNION {{g.lists[l].tasks[k].id : k \in DOMAIN g.lists[l].tasks} : l \in DOMAIN g.lists}
LiveTasksStay ==
    [][ edits' = edits =>
          LET gone == TaskIds(google) \ TaskIds(google')
          IN  \A i \in DOMAIN db.items :
                  db.items[i].ext \in gone =>
                      db.items[i].status = "deleted" \/ db.lists[db.items[i].list].status = "deleted" ]_vars
=============================================================================
