# A formal model of gtd-cli

gtd-cli keeps task lists in agreement between a SQLite database, a markdown file
and, optionally, Google Tasks. This directory holds TLA+ models of its
synchronisation, the TLC configurations that check them and TLAPS proofs about
them. Paths below are relative to the repository (`src/`).

## 1. The system

| Part | Code | State it keeps | Operations |
|---|---|---|---|
| Runner | `app/runner.go` | two retry flags per target, a channel of events, one forwarding goroutine per target | start the watchers, one bootstrap pass, then one pass per event: pull from the targets concerned, push the store to all |
| Syncer | `app/syncer.go` | nothing between passes; in a pass two listings with their maps, shared by pointers and slices | `Pull`, `Push`: create, update, delete lists and items, write new identifiers back to the source |
| SQLite store | `providers/sqlite/store.go` | tables of lists and items (position, status, modified, unique external ID, foreign keys) | list, create, update, delete; each a transaction, item writes followed by a second one that re-sorts the list |
| Markdown client | `providers/markdown/client.go`, `parser.go`, `renderer.go` | the file; `lastModTime` under a mutex | the same operations, each one a read of the file, mostly followed by a write |
| Markdown watcher | `providers/markdown/watcher.go` | a debounce timer | fsnotify events to reports on a channel of one |
| Google Tasks | `providers/googletasks/` | the remote service | the same operations over HTTP; a ticker as a watcher |
| Reorder | `providers/util/reorder/move.go` | none | minimal moves that turn one order of items into another |
| Domain model | `model/` | none | equivalence, clean (items that are done go last), membership |
| Wiring | `cmd/gtd/main.go` | none | targets are google_tasks (if configured), then markdown |

How they meet: a watcher puts `nil` into its channel; a forwarding goroutine
copies it to the Runner; `processEvent` calls `Pull` of one target and of those
that owe a pull, then `Push` of every target if something changed or a push is
owed. A `Syncer` calls the store and the remote in turn. The markdown client's
own writes wake its own watcher, so the program is a feedback loop. The user
edits the file at any time, without a lock.

What makes this hard:

* Channels drop reports when they are full, and calls fail: what is still to be
  done is remembered only in the retry flags.
* The user, the sync goroutine and the watch goroutine race for one file, and the
  watcher decides by modification times.
* A pass works with two listings taken at its start, in which slices share arrays.
* Positions are numbers in rows, sorted, shifted and partly rewritten by many
  operations; the order must survive long sequences of them.
* A deletion has two phases, marked and purged, in two passes.
* Passes must come to an end although each may wake the next.
* Three replicas with different abilities: the file has one time for everything,
  the phone has no task in progress, its lists have no place of their own, and a
  list is reordered by single moves that may stop half-way.
* A next action names its project by a tag. The two may arrive in any order and
  from different sides, and a renamed project takes its next actions along.

What makes each part correct:

* Runner: no report is lost; no target is forgotten that lacks a change of the
  store; every change reaches every target in the end.
* Watcher and file: a save is seen, survives, and echoes die out.
* Syncer with its providers: at rest store, file and phone say the same, they say
  what the user saved or entered last, rest is reached in a few passes, and no
  call panics.
* Reorder: the moves, applied in order, give the order wanted, and no shorter
  series does.
* Store: identifiers stay unique, items belong to lists, positions give the order
  that was asked for.

## 2. The modules

| Module | Models | Correspondence |
|---|---|---|
| `Runner` | `app/runner.go` | `pc`, `cursor`, `trigger`, `changed` are the program counter and the locals of `processEvent`; `needsPull`, `needsPush` its flags; `report`, `closed`, `fwd`, `events` the channels and the goroutine between them. One action per branch of `Run`, `startWatcher`, `pull`, `push`. `owed`, `behind`, `lapsed` are history: `lapsed` marks a target that is behind for something nobody told this Runner, what a pull of another target changed before it failed (runner.go:141-148) and what was not pushed when the process died. |
| `Signal` | what `Runner` promises | one signal per target that only the beginning of a pull lowers, and that a restart raises; no channels, goroutines or loops |
| `MarkdownFile` | `readFile`, `writeFile` of `client.go`; `watcher.go` | `job` is the call the sync goroutine is in: `ListLists` of a pull or of a push (one `readFile`), or a write of either (a `readFile` and a `writeFile`); `sync` walks through the system calls of `readFile` and `writeFile`, `WriteFails` is their error paths, `watch` walks through `hasFileChanged`, `mu` is the mutex, `file.mtime` and `now` the coarse clock. `missable` is history: the last save may go unread, see section 3. |
| `Tasks` | `model/list.go`, `model/item.go`, `calculateItemsToMove` | operators on records |
| `SqliteStore` | `store.go` | one operator per operation, from a database and arguments to a result, a database and the argument as the code leaves it; projects are rows, `GetProjectID` is `getProjectID` |
| `Markdown` | `client.go`, `parser.go`, `renderer.go` | the same for the file |
| `Reorder` | `providers/util/reorder/move.go` | `Chains` is the table of the dynamic programme, each entry with the way back through it as a set of indices; `StableItems` what stays, `CalculateMoves` the moves |
| `GoogleTasks` | `providers/googletasks/client.go` and `googletaskstest/fake.go` | requests to the service, as the fake answers them, and on top of them the operations of the client; the field `partial` of `UpdateList`'s result is what the service went through |
| `Reordering` | `UpdateList` of the Google Tasks client | the moves request by request, each of which may fail |
| `Rearranging` | what `CalculateMoves` and `UpdateList` promise together | the order as a set of pairs: a largest set of items stays, every other one is put behind the item before it; no indices, requests or tables |
| `Syncer` | `syncer.go` | one action per provider call, one per list in `ListLists` of Google Tasks; `ss` holds the session with the positions in its loops; `view` is what the slices that the deletion loop reads still show after `slices.Insert`; `Link` is the third phase, `syncNextActionProjectUpdate` |
| `System` | the program: `run` of `main.go`, `processEvent`, `pull`, `push` | composes `Syncer` with the loops over the targets, the user at the editor and the user at the phone |
| `RunnerProofs`, `SignalProofs`, `MarkdownFileProofs`, `TasksProofs`, `ReorderProofs`, `RearrangingProofs`, `ReorderingProofs`, `SystemProofs` | | theorems about the modules they are named after |
| `MCRunner`, `MCMarkdownFile`, `MCReordering`, `MCSystem` | | values for TLC |

`System` extends `Syncer`, which instantiates `SqliteStore`, `Markdown` and
`GoogleTasks`; these extend `Tasks`, `GoogleTasks` by way of `Reorder`. `Runner` and
`MarkdownFile` stand alone: they open up what one step of `System` hides, the
channels behind an event and the system calls behind a call of the client.

Abstractions.

* In `Runner` a sync call is its outcome. In `MarkdownFile` the content of the file
  is the number of the save it derives from, and whether it is in the form
  `render` gives it.
* What an item says besides status and project tag is one `text`. An identifier is
  a fresh number where the code draws a UUID, and also where the fake counts its
  lists, whose numbers come back after a deletion. "Projects" is the list with
  the projects, "Projects on hold" another one with the prefix the code looks for.
* Where SQLite leaves an order open (`ORDER BY position` with equal positions, a
  project looked up by a tag that two rows have) the older row comes first.
* In `Syncer` a call is one step, with the exception of Google Tasks' listing. A
  call that fails has done nothing, or a part (`HalfDone`): the requests of Google Tasks
  before the one that failed; the first transaction of `CreateItem` and `UpdateItem` of
  the store without the second (store.go:495-503, 875-883); the normalisation of `readFile`
  without the client's own write, or all but the time that `writeFile` notes. With `"disk"` in `Faulty` a
  write of the file may also be cut off after `O_TRUNC` (client.go:387-400), after any number
  of lists and items. Not modelled: a cut in the middle of a line, and a request to
  Google Tasks that was served and whose answer is lost (client.go:231), which the
  repository's fake does not have either. The phone is not edited in the middle of one `UpdateList`.
* In `MarkdownFile` a call that fails before it touches the file (`Stat`, `ReadFile`, `OpenFile`) is
  left out: it leaves the file as it is, and a pull or push to be repeated, which is `Runner`'s subject.
* The user who removes the file does so without a word of the watcher
  (watcher.go:121-128 lets only Write and Rename through, and needs the file to be there). It is missing
  until the next push, which then creates it anew; the user does not write a new one before that.
  A file without lists counts as missing in the code, and the user does not type into it.
* The clock gives every write of the program a time of its own in `Syncer`, while
  `MarkdownFile` lets two writes share a time. An edit on the phone gives its list
  a new time; a move that the program requests gives none, as in the fake.
* The ticker of Google Tasks brings a poll again and again; a poll that finds
  store and phone as the last one left them changes nothing, so `System` has an
  event for it only after one of them has changed, or when a retry is due.

Mutants. Beside an action or an operator stands now and then one called a
*mutant of* it. It is the same definition with a plausible bug, not used by the
specification: with it in place a run finds the property it is meant for violated.

## 3. What is checked

The runs of `MCRunner` have two targets, all interleavings of watchers,
forwarders and loop, with no bound on the number of events.

| Run | Shows |
|---|---|
| `reports` | `NoLostReport`: a report dropped at a full channel is covered by one that leads to a pull after it, with failing watchers, interrupts and restarts; `ImplementsSignal`: the Runner is a `Signal` |
| `delivered` | `NoForgottenTarget`: after every pass the flags name every target that lacks a change, except those that `lapsed` names; `ReportsArePulled`: every report is pulled in the end; `ServesSignal`: whatever is due is pulled, retries and the first pass included; `StoreReachesTargets`: every change that did not lapse arrives everywhere in the end |

In `delivered` target 2 alone is unreliable, which keeps the graph small enough
for liveness, and in `reports` none is, since interrupts and restarts multiply the
graph already; the theorems `ReportsKept`, `UpdatesRemembered` and
`SignalImplemented` have any set of unreliable and of failing targets.

The runs of `MCMarkdownFile` have at most two saves: a save during the
treatment of the one before, and an echo. Saves are in place or by rename, at any time, also in
the middle of a call of the client. `MaxCalls` bounds the calls for changes of another target, the listing of a push among
them, and `MaxFaults` the writes that fail and the deaths. `read` has two saves, one such call and one fault, `rest` one save,
two calls and one fault. The clock may stand still at any write, and does so for good after `MaxTicks` (four; three in
`rest`): enough for both saves and the writes of the client between and after them to have times of their own. The theorem `ReadAtRest` has any number of all of them.

| Run | Shows |
|---|---|
| `read` | `QuietMeansRead`: at rest the last save has been read or is `missable`, although `lastModTime` is compared without a common lock, writes fail and the process may die |
| `rest` | `ComesToRest`: echoes die out |

The run of `MCReordering` has four tasks in the list and one in another one: every
order wanted of every subset, every set of done tasks, and one request that fails.
Four are what it takes for two increasing subsequences of the same length that do not
overlap, one for an arrival. The theorems have any number of both, and of failures.

| Run | Shows |
|---|---|
| `reorder` | `EndsAsWanted`: no move is refused and the order is reached, also around done tasks, which stay; `AlwaysMinimal`: what is left is never more than the definition of the smallest number allows, after a failure, too; `ImplementsRearranging`: request by request it is a `Rearranging` |

`TypeOK` of `System` is more than the types of the variables. `StoreOK` says that the
database keeps its keys (an external identifier and an insertion number belong to
one row, so that `ORDER BY` never has a choice) and its references (an item is in a
list that exists, and linked to an item that exists); `SessionOK` says where a session is, and
that the list and the items it is about to look up in its maps are there:
`syncListUpdate` dereferences what the maps give it (syncer.go:231, 247).

The runs of `MCSystem` start from one or two lists with two to four items that the
program sees for the first time, and each edit is followed by up to `MaxPasses` passes.
Two edits show the effect of one on what the other left in the rows (a gap, a
collision, a resource marked deleted, a time, a link). `MaxPasses` is above what any
settling edit takes, and `Settles` makes an exhausted bound a violation, not a hidden case.

| Run | Shows |
|---|---|
| `edits` | `Agreement`, `UserIsObeyed`, `Settles` and `Survives` for the three replicas and two edits, from lists with and without projects: in the file add, retitle, check, start, move, remove or retag a line, add, rename, remove a list, remove the file (a second edit on the phone then lets a push create it anew, with the edit and all else); on the phone add, retitle, check, move or remove a task, add, rename, remove a list. What is added or retitled gets one new text, so two edits can make lines and tasks that read the same, and a line is retitled once. `MaxTaskResults` is 4, and a list with two lines can reach it. `LiveTasksStay`: the service never deletes a list while a task that the store wants to keep is in it |
| `faults` | markdown alone, two edits, one call that fails, half-way or not, or a crash, at any place: `Agreement`, and `NothingIsLost`: no list and no line that the user wanted is missing at rest. The second edit may come while a retry is due: with markdown alone nothing else would start it |
| `outage` | both targets: `Agreement` and `UserIsObeyed` for one edit on either side and two failing calls to Google Tasks, with the moves that came before the failing one. `MarkedBeforePurged`: no row leaves the database before its deletion, or that of its list, was marked |
| `storm` | markdown alone: `Agreement` and `MarkedBeforePurged` with edits in the middle of passes, including the removal of a list and its undoing, and a call that fails half-way or a file that is cut off |
| `unpushed` (violated) | a first push of the file that fails half-way: what it had not written is deleted everywhere |
| `shrunk` (violated) | a line is removed while a move is pushed: panic |
| `alias` (violated) | a replaced line comes back |

`UserIsObeyed` does not look at the order of what is done, and `Agreement` not at
that order on the phone: `UpdateList` of the client does not move done tasks. Both leave out the
removed file itself as long as it is missing (`Removed`). `Settles` leaves out a list that is `Stranded`:
marked deleted in the store and in no remote, so that no push comes to purge it.

`faults` has `NothingIsLost` in place of `UserIsObeyed`, which fails there in two ways. A line whose identifier did not
get back to the file is created a second time, and when the same pass moves something the first
copy escapes the deletion loop by the defect of the run `alias`: the line is there twice. And when both
lists are removed and the process dies after the empty file was rewritten, the file counts as missing and
the push brings the lists back. In both nothing is lost. The run is about markdown alone because with both
targets a failure of the store or of markdown is not repaired, see below.

The violated runs are disagreements between the code and its own comments;
`PROJECT.json` quotes them under "findings".

### Where the properties end

The models can be asked more than the runs record. With these changes of the
constants TLC finds a property violated; each is a limit of the code that a
reader should know, and the reason why the runs leave the case out.

| Change | Violated | Why |
|---|---|---|
| `faults` with `"disk"` in `Faulty` | `NothingIsLost` | `writeFile` truncates and then writes (client.go:387), although its comment says "atomically": what a cut-off file lacks is read as removed |
| markdown alone, `Edits = {"remove list"}` on `TwoLists` | `Settles` without `\/ Stranded` | the list marked deleted keeps its rank in `ListLists` (store.go:217), the lists behind it differ in position for ever, and every pass rewrites the file and wakes the next; with Google Tasks the push purges it |
| markdown alone, `Edits = {"remove", "move"}` on `ThreeItems` | `UserIsObeyed` | after a removal positions have a gap; moved rows collide with one that `calculateItemsToMove` left alone (store.go:1121) |
| markdown alone, `Edits = {"remove", "check"}` on `ThreeItems` | `Settles` | store and file keep different orders of the done items |
| both targets, `Edits = {"check", "undo"}` | `UserIsObeyed` | `UpdateItem` re-sorts with the status it read before |
| both targets, `Edits = {"move list"}` or `{"add list first"}` | `UserIsObeyed` | `UpdateList` of Google Tasks accepts a new place of a list and does nothing; the next poll puts the old order back |
| both targets, `MaxTaskResults` below the length of a list | `UserIsObeyed` | the tasks that are not listed look removed |
| `Projects`, `Edits = {"remove", "give up"}` | `Settles` | a line whose tag names no project any more is updated in every pass |
| `outage` with `Faulty = {"store"}` or `{"process"}` | `Agreement`, `UserIsObeyed` | a pull that fails, or dies, after it changed the store leaves the other target behind (`lapsed` of `Runner`); a task whose new identifier did not get back to its source is created a second time |
| `outage` with `Faulty = {"markdown"}` | `UserIsObeyed` | the same task is there twice |
| both targets, `Concurrent = TRUE`, `Edits = {"phone retitle"}` | `Agreement` | a task retitled between the listing of a push and its call keeps what the push wrote over it on one side only |
| both targets, `Concurrent = TRUE`, `Edits = {"phone move"}` | `UserIsObeyed` | a task moved while a push is under way is moved back |

The two history variables that excuse something say exactly what, and are not wider than needed: without any one of
their parts TLC finds the property violated.

* `lapsed` of `Runner`: without it `NoForgottenTarget` fails after a partly applied pull and, with
  `MayDie = TRUE`, after a death between pull and push. A later change of the store, or a push, ends the excuse.
* `missable` of `MarkdownFile`, of the last save only:
  - it was renamed into place, a Create for fsnotify, which `hasFileChanged` ignores;
  - it came while a call of the client was between the `Stat` of `readFile` and its last write (`Racing`). Before the read
    or during a normalisation the older mtime is put back over it (client.go:349-352, 402), in a pull as in
    the listing of a push, and the watcher takes its event for an echo; between the read and the write
    of a call it is overwritten (client.go:323-356). watcher.go:14 says of the debounce that it prevents
    races during saves;
  - a write of the client that failed after `O_TRUNC` left nothing of it (`CutOff`).

  A save between two calls is read, also when the next listing normalises it.

Echoes are reports: one may come without any save.

### Fairness

`Runner`: the Go scheduler runs every goroutine (`WF` of the loop and of
`Receive`). `Forward` has strong fairness: a blocked sender waits in the
channel's queue, which is served in order, so that it is not overtaken for ever.
Every provider call returns. For `StoreReachesTargets` two more assumptions are
named in `Retrying` and part of the property: the ticker of google_tasks keeps ticking, and a call that
is repeated for ever succeeds in the end. Markdown alone has no ticker: there a
failed call is repeated only after the next save.

`MarkdownFile`: both goroutines run, the tick of the timer among the steps of the watch goroutine, and an editor finishes the
save it began. Nothing is assumed about when it begins one.

`System` and `Reordering` have no fairness: `Settles` is the safety form of "a few
passes". `Signal` states its liveness as a property, `Served`, not as fairness of
its actions, since the Runner's steps are the only ones that are scheduled.

## 4. What is proved

`RunnerProofs` and `SignalProofs` hold for every number of targets `N >= 1` and
every set of failing watchers and unreliable targets (`RunnerAssumption`).

* `TypeCorrect`: `TypeOK` is inductive by itself; one step per action.
* `ReportsKept`: `NoLostReport`. The invariant is strengthened by
  `Unstarted`: while the watchers are started one by one the later ones have no
  goroutine, so that starting one does not discard a report it holds. The
  argument is that each hand-over, watcher to forwarder, forwarder to queue, queue
  to pass, moves a report on, and only the beginning of a pull ends its way.
  This is the lemma `InFlightStep`: no step but `BeginPull` of that target
  and those that end the process takes a target out of flight.
* `UpdatesRemembered`: `NoForgottenTarget`, with pulls that fail half-way and with deaths. The
  invariant `RetryInv` speaks of every point of a pass: a target that is behind has a flag, or the pass knows
  that something has changed and has not yet come to that target, or it has lapsed.
* `SignalImplemented`: `ImplementsSignal`. Under the mapping `DueNow`, `PullingNow`,
  `Running` the initial states of the Runner are initial states of `Signal`. Each step
  is compared with the abstract one by what it does to the three: `DueStep` (from
  `InFlightStep`: what is due stays due), `PullingStep` and `EndStep` (what a pull
  under way may turn into), `StartStep` (while the watchers are being started all are
  due), and `SignalStep` puts them together.

`MarkdownFileProofs` holds for every number of saves, calls, faults and clock ticks.

* `TypeCorrect`: `TypeOK`, whatever may fail.
* `ReadAtRest`: `QuietMeansRead`, without further assumptions. `QuietMeansRead` says nothing of
  the time while something is under way, so the invariant `IInv` adds who has the
  duty: `NothingMissed` (what is on disk and not read, and not missable, has a save, an event,
  a comparison that will succeed, a timer or a report on its way, or a pull that is still to
  read it), `EchoUnderWay` (between `writeFile`'s last write and the time it notes, the
  event of that write is still to be looked at), `LastSaveKept` (what is on disk and what a
  writer has in hand is the last save, or that is missable), `InThePast` (no time is later than the clock) and
  `Locked` (who holds the mutex).

`TasksProofs` has the lemmas about sequences that the next three need: `Ascending`
lists a set of indices without repetition, `Selected` keeps distinct items
distinct, and what `Without`, `InsertedAt` and `Among` return.

* `ReorderProofs`, `StableItemsAreMost`: the dynamic programme of `move.go` finds a
  longest increasing subsequence, for any two sequences without repetitions. That every
  entry of the table is the longest chain that ends there is proved by the least
  index where it is not.
* `RearrangingProofs` is about `Rearranging` alone, for any set of tasks. Its inductive invariant
  `IInv` says that what is not left to move stands in the order
  wanted (`StaysInPlace`) and that no set larger than that does (`NoMoveTooMany`).
  `OneMoreInPlace` and `StillLargest` are the two halves of a step:
  the first item left goes behind its predecessor, which is in
  place already, and one item put elsewhere makes the largest set at most one
  larger. `Rearranged` concludes both for every behaviour.
* `ReorderingProofs` is about `Reordering`, for any tasks here and elsewhere, any order wanted of any
  of them, any number of failures, under `ReorderingAssumption`: the tasks have
  identifiers of their own, and the listing is not cut off at `MaxTaskResults`. Its
  invariant adds to the abstract one that the service keeps its lists
  (`ServiceOK`) and that the series of moves is, in order, the one for the places that
  are left (`MovesAre`). `MovesCalculated` and `MoveTaskProperties` say what
  the client computes and what a request does to the order; `BeginStep`, `MoveStep`,
  `FailStep` and `FinishStep` compare each action with the abstract one. From these
  follow `TypeCorrect`, `OrderReached` (`EndsAsWanted`), `MovesAreMinimal` (`AlwaysMinimal`) and
  `Implementation` (`ImplementsRearranging`).

`SystemProofs` is about the whole program: any file and any service to begin with,
any targets, edits, limits, faults and crashes, edits in the middle of a pass included.

* `TypeCorrect`: `TypeOK`, which is inductive as it stands. The argument follows the
  layers of the code.
  - What a sequence, `Clean` and a table with its keys are, and what inserting,
    removing and replacing does to them. `Ranks` and `InOrderOf`: two rows with the same
    position have different insertion numbers, so `ORDER BY` lists every selected row once.
  - Every operation of the three providers takes a consistent database, file or
    service to a consistent one, whatever it is asked and wherever it fails, and
    returns what the Syncer relies on: `StoreUpdateItem` keeps the external
    identifier, `ServiceCreateItem` returns one, `RowsUnlinked` and `StoreDeleteList` are `SET NULL`
    and `CASCADE`. The loops (`MarkdownMoveItems`, `ServiceMoveAll`) are recursive
    functions; that each index has a value follows from the least index that has none.
  - A step of a session keeps `WorldOK` (what is true of database, file and service) and
    `GoodSession` (the part of `SessionOK` that lasts). The hard ones are `Adds`, `CreatesItem` and
    `UpdatesItem`: up to its place in the loop every live item has been found in, or
    put into, the map of the destination, under the key it has now, although the
    destination has just given it another record, and `insertItem` changes no key.
    `Proceeding` covers the failure of a call: `HalfDoneAnswers` says that whatever a failing call has done by
    then, one transaction of two, some requests, a normalised or a cut-off file (`MarkdownCutOff`,
    `MarkdownHalfWritten`), leaves a consistent database, file or service.
  - The user at the editor (`EditsFile`) and on the phone (`EditsService`), the driver (`Begins`,
    `GoesOn`, `Returns`), and a crash.

  The assumptions on the constants are those of `System`: `InitialAssumption` says that the
  file and the service to begin with have the shape that `parse` gives any file (a
  checkbox is one of three) and that the service has (lists of tasks, and
  identifiers still to be given). Contents, numbers and identifiers are arbitrary: two lists of
  the file may have the same heading, two tasks the same identifier.
* `MarksKept`: `MarkedBeforePurged`, an action property, with no further assumption. A purge
  happens many calls after the listing that gives the reason for it: in between the same session has
  written identifiers back to the store (`BackfillList`, `BackfillItem`), and an update of
  the store by an identifier would take a mark back. So the invariant `MarkInv` says what a session
  knows, from its first listing to its last purge:
  - nothing that a remote lists is marked deleted (`parse` and `ListItems` know no marks), so a pull
    purges nothing: what is missing in its source it marks in the store;
  - what a push listed unmarked has an identifier, and not that of anything it listed
    marked (`Base`); so has the list in the loop and every item in it that is not marked
    (`Spot`), also after a provider has returned another record of them (`Alike`) - which is
    what makes a backfill write no marked row (`BackfillIsCalm`);
  - what it listed marked is still marked in the database, or gone (`DeadRows`);
  - at a purge the entry to be purged is a marked one (`DeadEntry`).

  `KeepsCreateList` to `KeepsDeleteItem` say, for each operation of the store, that it takes no row
  that is not marked and changes the status of no row but the one it is given. An item also goes
  when its list is deleted or marked, which the property allows for. A first transaction without its second one takes
  and marks nothing either (`Harmless`, `OneTransaction`). After a crash or a failing call
  between listing and purge nothing is left to be known: the next session lists anew.

What stays with TLC:

* Liveness: `ReportsArePulled`, `ServesSignal`, `StoreReachesTargets`, `ComesToRest`.
* `LiveTasksStay`, `Agreement`, `UserIsObeyed`, `Settles` and `Survives` of `System`, all but
  `TypeOK` and `MarkedBeforePurged`. Section 3
  lists edits for which they do not hold: an inductive invariant would have to describe
  every database and file that the edits allowed can produce, with their positions.

Three definitions are written for the proofs as much as for TLC, with the same
meaning: `Tasks` has its own `@@`, since that of the module TLC has no
definition for the provers, `Live` is `Selected` of the places that are live, since `SelectSeq` has
none either, and the loops over items and moves are recursive functions.

## 5. Not modelled, and the plan

Left out for good: the OAuth exchange (`service.go`), flags and logging, the syntax of
lines and titles (so also what `parseTitle` drops of a "Waiting For" title with more
than two separators).

What could come next:

1. Positions: what an operation of the store does to the order of a list, for the edits
   that keep it, as an invariant that `Survives` would follow from.
2. An abstract replica specification (a write is taken over or superseded) that
   `System` implements for the edits that settle.

## 6. Running

    tlc -workers 2 -config MCRunner_reports.cfg MCRunner
    tlapm SignalProofs.tla

and so on for each `.cfg`. The longest runs (`reports`, `edits`, `faults`, `outage`, `read`,
`storm`) take one to three minutes each on two workers, `reorder` half a minute.
`SystemProofs` takes about twelve minutes from nothing, `ReorderingProofs` two, the other
proof modules less than one each.
