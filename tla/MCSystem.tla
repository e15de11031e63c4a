------------------------------ MODULE MCSystem ------------------------------
(***************************************************************************)
(* What the user starts with.                                              *)
(***************************************************************************)
EXTENDS System

List(name, texts) ==
    [id |-> Nil, name |-> name, items |-> [k \in DOMAIN texts |-> NewItem(texts[k])]]
Tagged(list, tags) ==
    [list EXCEPT !.items = [k \in DOMAIN @ |-> [@[k] EXCEPT !.tag = tags[k]]]]

TwoLists == {<<List("Inbox", <<"a", "b">>), List("Work", <<"c">>)>>}
OnePerList == {<<List("Inbox", <<"a">>), List("Work", <<"c">>)>>}
ThreeItems == {<<List("Inbox", <<"a", "b", "c">>)>>}
OneList == {<<List("Inbox", <<"a", "b">>)>>}
Projects ==
    {<<Tagged(List("Inbox", <<"a", "b">>), <<"p", "">>),
       Tagged(List("Projects", <<"p1", "q1">>), <<"p", "q">>)>>}
WithAndWithoutProjects == TwoLists \cup Projects
NoFileYet == {<<>>}

MarkdownOnly == <<"markdown">>
Both == <<"google_tasks", "markdown">>

NoPhone == {GoogleTasks!NoService}
ListsOnPhone ==
    LET Task(id, t) == [id |-> id, text |-> t, tag |-> NoTag, done |-> FALSE, updated |-> 1]
    IN  {[lists |-> <<[id |-> 1, name |-> "Inbox", updated |-> 1, tasks |-> <<Task(2, "a"), Task(3, "b")>>],
                      [id |-> 4, name |-> "Work", updated |-> 1, tasks |-> <<Task(5, "c")>>]>>,
          next |-> 6]}
=============================================================================
