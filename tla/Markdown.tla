------------------------------ MODULE Markdown ------------------------------
(***************************************************************************)
(* providers/markdown/client.go, with parser.go and renderer.go, as        *)
(* operators on the file                                                   *)
(*   file == [exists, lists, mtime]                                        *)
(*   lists: a sequence of [id, name, items], an item               *)
(*          [id, status, text, tag]                                        *)
(* exists is FALSE when the file is missing or has no byte.  An operation   *)
(* returns [result, file, list or item]; result is "ok", "error", "missing" *)
(* (fs.ErrNotExist) or "panic".  now is the mtime a write gives the file.   *)
(*                                                                         *)
(* One call is one atomic step here: MarkdownFile models the race of        *)
(* readFile and writeFile with the editor.                                  *)
(***************************************************************************)
EXTENDS Tasks

NoFile == [exists |-> FALSE, lists |-> <<>>, mtime |-> 0]

-----------------------------------------------------------------------------
(* parse and render *)

\* What the file says of a list and its items, and what parse makes of it:
\* every resource is as recent as the file.
ParsedItem(item, list, pos, mtime) ==
    [id |-> item.id, ext |-> Nil, list |-> list, xlist |-> Nil, pos |-> pos,
     status |-> item.status, text |-> item.text, tag |-> item.tag,
     project |-> Nil, xproject |-> Nil, modified |-> mtime]

Parsed(file) ==
    [k \in DOMAIN file.lists |->
        LET l == file.lists[k]
        IN  CleanList([id |-> l.id, ext |-> Nil, name |-> l.name, pos |-> k - 1,
                       status |-> "open", modified |-> file.mtime,
                       items |-> [j \in DOMAIN l.items |->
                                    ParsedItem(l.items[j], l.id, j - 1, file.mtime)]])]

Rendered(lists) ==
    LET Line(i) == [id |-> i.id, status |-> i.status, text |-> i.text, tag |-> i.tag]
    IN  [k \in DOMAIN lists |->
            LET items == CleanItems(lists[k].items)
            IN  [id |-> lists[k].id, name |-> lists[k].name,
                 items |-> [j \in DOMAIN items |-> Line(items[j])]]]

\* renderItem knows no checkbox for "open" and "deleted".
CanRender(lists) ==
    \A k \in DOMAIN lists : \A j \in DOMAIN lists[k].items :
        lists[k].items[j].status \in {"not_started", "in_progress", "done"}

-----------------------------------------------------------------------------
(* readFile and writeFile *)

\* A file that render would write otherwise is rewritten with its old mtime.
Normalised(file) ==
    [file EXCEPT !.lists = Rendered(Parsed(file)), !.exists = file.lists # <<>>]

Written(lists, now) ==
    [exists |-> lists # <<>>, lists |-> Rendered(lists), mtime |-> now]

\* O_TRUNC empties the file before it is written: a write of these lists that
\* fails leaves the first lines of it, in any number.
CutOff(lists, now) ==
    LET Lines(k, j) ==
            [m \in 1 .. k |-> IF m = k THEN [lists[k] EXCEPT !.items = SubSeq(@, 1, j)] ELSE lists[m]]
        After(k, j) == [exists |-> k > 0, lists |-> Lines(k, j), mtime |-> now]
    IN  {After(0, 0)} \cup UNION {{After(k, j) : j \in 0 .. Len(lists[k].items)} : k \in DOMAIN lists}

\* What a call that was to leave the file new may cut off: the write of
\* readFile, when there is one, or its own.
HalfWritten(file, new, now) ==
    UNION {CutOff(f.lists, now) : f \in {Normalised(file), new} \ {file}}

Failed(result, file) == [result |-> result, file |-> Normalised(file)]

\* What most operations return: an error when a lookup failed, else the file
\* with these lists, unless they cannot be rendered.
Save(found, file, lists, now) ==
    IF ~file.exists THEN Failed("missing", file)
    ELSE IF ~found \/ ~CanRender(lists) THEN Failed("error", file)
    ELSE [result |-> "ok", file |-> Written(lists, now)]

ListLists(file) ==
    [result |-> IF file.exists THEN "ok" ELSE "missing", file |-> Normalised(file),
     lists |-> Parsed(file)]

-----------------------------------------------------------------------------
(* Lists *)

\* A missing file is created.
CreateList(file, list, now) ==
    LET lists == Parsed(file)
        l == [CleanList(list) EXCEPT !.pos = IF @ <= Len(lists) THEN @ ELSE Len(lists)]
    IN  IF list.status = "deleted"
          THEN Failed("error", file) @@ [list |-> list]
          ELSE [result |-> "ok", list |-> l,
                file |-> Written(InsertedAt(lists, l.pos, [l EXCEPT !.items = <<>>]), now)]

\* moveItem for the k-th item of list: out of its source list, into the list
\* at index idx, at its position there.
MoveItem(lists, item, idx) ==
    LET source == First(lists, LAMBDA l : l.id = item.list)
        at == First(lists[source].items, LAMBDA i : i.id = item.id)
        taken == [lists EXCEPT ![source].items = Without(@, at)]
    IN  IF source = 0 THEN [result |-> "error", lists |-> lists]
        ELSE IF at = 0 THEN [result |-> "error", lists |-> lists]
        ELSE IF item.pos > Len(taken[idx].items) THEN [result |-> "panic", lists |-> lists]
        ELSE [result |-> "ok",
              lists |-> [taken EXCEPT ![idx].items = InsertedAt(@, item.pos, item)]]

\* Mutant of MoveItems: the last item first.
MoveLastFirst(lists, list, todo, idx) ==
    LET n == Len(list.items)
        moved[k \in 0 .. n] ==
            IF k = 0 THEN [result |-> "ok", lists |-> lists]
            ELSE LET before == moved[k - 1]
                 IN  IF n + 1 - k \in todo /\ before.result = "ok"
                       THEN MoveItem(before.lists, list.items[n + 1 - k], idx) ELSE before
    IN  moved[n]

MoveItems(lists, list, todo, idx) ==
    LET moved[k \in 0 .. Len(list.items)] ==
            IF k = 0 THEN [result |-> "ok", lists |-> lists]
            ELSE LET before == moved[k - 1]
                 IN  IF k \in todo /\ before.result = "ok"
                       THEN MoveItem(before.lists, list.items[k], idx) ELSE before
    IN  moved[Len(list.items)]

UpdateList(file, list, current, now) ==
    LET l == CleanList(list)
        lists == Parsed(file)
        idx == First(lists, LAMBDA x : x.id = l.id \/ EquivalentLists(x, l))
        named == [lists[idx] EXCEPT !.id = l.id, !.name = l.name]
        pos == IF l.pos < Len(lists) THEN l.pos ELSE Len(lists) - 1
        moved == MoveItems(InsertedAt(Without(lists, idx), pos, named), l, ToMove(l, current), pos + 1)
    IN  IF ~file.exists THEN Failed("missing", file) @@ [list |-> l]
        ELSE IF l.id = Nil \/ idx = 0 THEN Failed("error", file) @@ [list |-> l]
        ELSE IF moved.result # "ok" THEN Failed(moved.result, file) @@ [list |-> l]
        ELSE Save(TRUE, file, moved.lists, now) @@ [list |-> [l EXCEPT !.pos = pos]]

DeleteList(file, list, now) ==
    LET lists == Parsed(file)
        idx == First(lists, LAMBDA l : l.id = list.id)
    IN  Save(idx # 0, file, Without(lists, idx), now)

-----------------------------------------------------------------------------
(* Items *)

\* The item goes after the item previous, or first when previous is Nil.
CreateItem(file, item, previous, now) ==
    LET lists == Parsed(file)
        idx == First(lists, LAMBDA l : l.id = item.list)
        after == IF previous = Nil THEN 0 ELSE First(lists[idx].items, LAMBDA i : i.id = previous)
    IN  IF idx = 0 \/ item.status = "deleted" THEN Failed("error", file)
        ELSE IF previous # Nil /\ after = 0 THEN Failed("error", file)
        ELSE Save(TRUE, file, [lists EXCEPT ![idx].items = InsertedAt(@, after, item)], now)

\* The first item with that ID or with the same content is overwritten.
UpdateItem(file, item, now) ==
    LET lists == Parsed(file)
        idx == First(lists, LAMBDA l : l.id = item.list)
        at == First(lists[idx].items, LAMBDA i : i.id = item.id \/ EquivalentItems(i, item))
    IN  IF idx = 0 THEN Save(FALSE, file, lists, now)
        ELSE IF at = 0 THEN Save(FALSE, file, lists, now)
        ELSE Save(item.id # Nil /\ item.list # Nil, file, [lists EXCEPT ![idx].items[at] = item], now)

DeleteItem(file, item, now) ==
    LET lists == Parsed(file)
        idx == First(lists, LAMBDA l : l.id = item.list)
        at == First(lists[idx].items, LAMBDA i : i.id = item.id)
    IN  IF idx = 0 THEN Save(FALSE, file, lists, now)
        ELSE IF at = 0 THEN Save(FALSE, file, lists, now)
        ELSE Save(TRUE, file, [lists EXCEPT ![idx].items = Without(@, at)], now)
=============================================================================
