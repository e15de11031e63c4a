---------------------------- MODULE MarkdownFile ----------------------------
(***************************************************************************)
(* The markdown file and the three parties that race for it: the user's    *)
(* editor, the sync goroutine (readFile and writeFile of client.go, called *)
(* by the Syncer), and the watch goroutine of watcher.go, which decides    *)
(* from fsnotify events, a modification time and a timer when to report.   *)
(*                                                                         *)
(* What the file says is abstracted to the number of the last save of the  *)
(* user it derives from (Markdown models the lists and items); "dirty" is  *)
(* content that readFile will normalise, whole = FALSE a truncated file.   *)
(***************************************************************************)
EXTENDS Naturals

CONSTANTS
    MaxSaves,       \* saves of the user
    MaxCalls,       \* calls of the Client for changes that come from another target
    MaxFaults,      \* writes that fail half-way, and deaths of the process
    MaxTicks        \* ticks of the file system's clock

ASSUME MarkdownFileAssumption ==
    MaxSaves \in Nat /\ MaxCalls \in Nat /\ MaxFaults \in Nat /\ MaxTicks \in Nat

VARIABLES
    file,           \* the file on disk: [user, dirty, whole, mtime]
    now,            \* the clock of the file system, as coarse as it likes
    saves, saving,  \* saves begun; is an in-place save half done?
    missable,       \* history variable: may the last save go unread?  See Racing
    pending,        \* fsnotify events not yet taken, coalesced by kind
    lastModTime,    \* Client.lastModTime
    mu,             \* Client.mu: "free" or held by "writer"
    watch, stat,    \* where the watch goroutine is, the mtime it has read
    timer,          \* the debounce timer: off, or armed until its tick is taken
    report,         \* the buffer of the channel Watch returned
    sync,           \* where the sync goroutine is in a call of the Client
    job,            \* what that call is for
    base, baseTime, \* the content and mtime its readFile got, 0 outside it
    seen,           \* the last save a pull has read
    fresh,          \* is there something in it that the store does not have?
    calls, faults   \* calls and faults left

editorVars == <<saves, saving, missable>>
watchVars == <<watch, stat, timer>>
syncVars == <<sync, job, base, baseTime, seen, fresh, calls, faults>>
vars == <<file, now, editorVars, pending, lastModTime, mu, watchVars, report, syncVars>>

\* hasFileChanged lets Write and Rename through; "other" is Create and Chmod.
Kinds == {"write", "other"}

\* ListLists of a pull and of a push, and the calls of each that write: a pull
\* writes back the IDs of what was new in the file, a push what differs.
Jobs == {"pull", "backfill", "list", "update"}

TypeOK ==
    /\ file \in [user : 0 .. MaxSaves, dirty : BOOLEAN, whole : BOOLEAN, mtime : Nat]
    /\ now \in Nat /\ saves \in 0 .. MaxSaves /\ saving \in BOOLEAN
    /\ pending \subseteq Kinds
    /\ lastModTime \in Nat /\ mu \in {"free", "writer"}
    /\ watch \in {"select", "compare", "set"} /\ stat \in Nat
    /\ timer \in {"off", "armed"} /\ report \in BOOLEAN
    /\ sync \in {"idle", "stat", "read", "normalise", "fixing", "restore",
                 "parsed", "writing", "noting"}
    /\ job \in Jobs
    /\ base \in 0 .. MaxSaves /\ baseTime \in Nat /\ seen \in 0 .. MaxSaves
    /\ missable \in BOOLEAN /\ fresh \in BOOLEAN
    /\ calls \in 0 .. MaxCalls /\ faults \in 0 .. MaxFaults

Init ==
    /\ file = [user |-> 0, dirty |-> FALSE, whole |-> TRUE, mtime |-> 0]
    /\ now = 0 /\ saves = 0 /\ saving = FALSE /\ missable = FALSE /\ pending = {}
    /\ lastModTime = 0 /\ mu = "free"
    /\ watch = "select" /\ stat = 0 /\ timer = "off" /\ report = FALSE
    /\ sync = "idle" /\ job = "pull" /\ base = 0 /\ baseTime = 0
    /\ seen = 0 /\ fresh = FALSE /\ calls = MaxCalls /\ faults = MaxFaults

\* A write sets the mtime; two writes may fall into one tick of the clock.
Stamp == now' = now \/ (now < MaxTicks /\ now' = now + 1)
Disk(u, d, w) == file' = [user |-> u, dirty |-> d, whole |-> w, mtime |-> now']
Notify(kind) == pending' = pending \cup {kind}

-----------------------------------------------------------------------------
(* The user's editor. *)

Reading == sync \in {"read", "normalise", "fixing", "restore"}
Writing == sync = "writing" \/ (sync = "parsed" /\ job \in {"backfill", "update"})

\* A call of the Client reads, changes and overwrites the file without a lock
\* against the editor, and readFile dates what it normalises back to the time
\* it found before it read.  What lands in between may be lost or go unread.
Racing == Reading \/ Writing

BeginSave ==
    /\ ~saving /\ saves < MaxSaves
    /\ saves' = saves + 1 /\ saving' = TRUE /\ missable' = Racing
    /\ Stamp /\ Disk(saves + 1, FALSE, FALSE) /\ Notify("write")
    /\ UNCHANGED <<lastModTime, mu, watchVars, report, syncVars>>

EndSave ==
    /\ saving
    /\ saving' = FALSE /\ missable' = (missable \/ Racing)
    /\ Stamp /\ (\E dirty \in BOOLEAN : Disk(saves, dirty, TRUE)) /\ Notify("write")
    /\ UNCHANGED <<saves, lastModTime, mu, watchVars, report, syncVars>>

\* The editor renames a new file into place, which fsnotify calls a Create.
RenameSave ==
    /\ ~saving /\ saves < MaxSaves
    /\ saves' = saves + 1 /\ missable' = TRUE
    /\ Stamp /\ (\E dirty \in BOOLEAN : Disk(saves + 1, dirty, TRUE)) /\ Notify("other")
    /\ UNCHANGED <<saving, lastModTime, mu, watchVars, report, syncVars>>

-----------------------------------------------------------------------------
(* The sync goroutine.  A pull or a push is a ListLists of the file, which  *)
(* is one readFile, and then calls that each are a readFile and a writeFile. *)

\* The next call begins; or the pass is over, or has something else to do.
Begin(next) == sync' = "stat" /\ job' = next /\ base' = 0 /\ baseTime' = 0
Rest == sync' = "idle" /\ job' = "pull" /\ base' = 0 /\ baseTime' = 0
BeginDue(next) == calls > 0 /\ calls' = calls - 1 /\ Begin(next)

BeginPull ==
    /\ sync = "idle" /\ report
    /\ Begin("pull") /\ report' = FALSE
    /\ UNCHANGED <<file, now, editorVars, pending, lastModTime, mu, watchVars,
                   seen, fresh, calls, faults>>

\* A change of the other target is to be pushed to the file.
BeginPush ==
    /\ sync = "idle"
    /\ BeginDue("list")
    /\ UNCHANGED <<file, now, editorVars, pending, lastModTime, mu, watchVars,
                   report, seen, fresh, faults>>

StatFile ==
    /\ sync = "stat"
    /\ sync' = "read" /\ baseTime' = file.mtime
    /\ UNCHANGED <<file, now, editorVars, pending, lastModTime, mu, watchVars,
                   report, job, base, seen, fresh, calls, faults>>

\* An empty file is reported as missing: fs.ErrNotExist.  Then a pull is followed
\* by a push, the push begins with CreateList, and CreateList writes the file
\* anew with what the store knows; every other call fails.
ReadNothing ==
    /\ sync = "read" /\ ~file.whole
    /\ \/ Rest
       \/ job = "pull" /\ Begin("list")
       \/ job = "list" /\ Begin("update")
       \/ /\ job = "update"
          /\ sync' = "parsed" /\ base' = seen /\ baseTime' = 0 /\ UNCHANGED job
    /\ UNCHANGED <<file, now, editorVars, pending, lastModTime, mu, watchVars,
                   report, seen, fresh, calls, faults>>

\* Only the lists a pull gets are synced; a push compares and overwrites.
Learn(user) ==
    IF job = "pull" THEN seen' = user /\ fresh' = (fresh \/ user # seen)
                    ELSE UNCHANGED <<seen, fresh>>

ReadContent ==
    /\ sync = "read" /\ file.whole
    /\ base' = file.user
    /\ IF file.dirty
         THEN sync' = "normalise" /\ UNCHANGED <<baseTime, seen, fresh>>
         ELSE sync' = "parsed" /\ baseTime' = 0 /\ Learn(file.user)
    /\ UNCHANGED <<file, now, editorVars, pending, lastModTime, mu, watchVars,
                   report, job, calls, faults>>

\* writeFile: O_TRUNC under the lock, then the write.
OpenTruncated(from, to) ==
    /\ sync = from /\ mu = "free"
    /\ mu' = "writer" /\ sync' = to
    /\ Stamp /\ Disk(base, FALSE, FALSE) /\ Notify("write")
    /\ UNCHANGED <<editorVars, lastModTime, watchVars, report, job, base,
                   baseTime, seen, fresh, calls, faults>>

WriteRendered(from, to) ==
    /\ sync = from
    /\ sync' = to
    /\ Stamp /\ Disk(base, FALSE, TRUE) /\ Notify("write")
    /\ UNCHANGED <<editorVars, lastModTime, mu, watchVars, report, job, base,
                   baseTime, seen, fresh, calls, faults>>

BeginNormalise == OpenTruncated("normalise", "fixing")
WriteNormalised == WriteRendered("fixing", "restore")

\* withModTime: Chtimes puts the user's modification time back.
RestoreModTime ==
    /\ sync = "restore"
    /\ file' = [file EXCEPT !.mtime = baseTime]
    /\ Notify("other")
    /\ mu' = "free" /\ sync' = "parsed" /\ baseTime' = 0 /\ Learn(base)
    /\ UNCHANGED <<now, editorVars, lastModTime, watchVars, report, job, base,
                   calls, faults>>

\* Mutant of ReturnLists: a pull writes, whether or not it read anything new.
ReturnStaleLists ==
    /\ sync = "parsed" /\ job \in {"pull", "list"}
    /\ \/ Rest /\ UNCHANGED calls
       \/ job = "pull" /\ Begin("backfill") /\ UNCHANGED calls
       \/ job = "list" /\ BeginDue("update")
    /\ fresh' = (fresh /\ job = "list")
    /\ UNCHANGED <<file, now, editorVars, pending, lastModTime, mu, watchVars,
                   report, seen, faults>>

\* ListLists returns.  A pull of new content may write IDs back, and is followed
\* by a push to every target, the file too; a push writes what differs, if anything.
ReturnLists ==
    /\ sync = "parsed" /\ job \in {"pull", "list"}
    /\ \/ Rest /\ UNCHANGED calls
       \/ job = "pull" /\ fresh /\ (Begin("backfill") \/ Begin("list")) /\ UNCHANGED calls
       \/ job = "list" /\ BeginDue("update")
    /\ fresh' = (fresh /\ job = "list")
    /\ UNCHANGED <<file, now, editorVars, pending, lastModTime, mu, watchVars,
                   report, seen, faults>>

\* The list or item to update is not in what readFile returned: the pull or push
\* ends in an error, and a pull will find again what it did not get to.
UpdateFails ==
    /\ sync = "parsed" /\ job \in {"backfill", "update"}
    /\ Rest /\ fresh' = (fresh \/ job = "backfill")
    /\ UNCHANGED <<file, now, editorVars, pending, lastModTime, mu, watchVars,
                   report, seen, calls, faults>>

BeginWrite == job \in {"backfill", "update"} /\ OpenTruncated("parsed", "writing")
Write == WriteRendered("writing", "noting")

\* The call returns: the push of the pull's own changes, another call, or rest.
AfterWrite ==
    \/ Rest /\ UNCHANGED calls
    \/ job = "backfill" /\ Begin("list") /\ UNCHANGED calls
    \/ BeginDue(job)

\* Mutant of NoteModTime: the echo is let through by a time that is too early.
NoteEarlierModTime ==
    /\ sync = "noting"
    /\ lastModTime' = file.mtime - 1
    /\ mu' = "free" /\ AfterWrite
    /\ UNCHANGED <<file, now, editorVars, pending, watchVars, report, seen,
                   fresh, faults>>

NoteModTime ==
    /\ sync = "noting"
    /\ lastModTime' = file.mtime
    /\ mu' = "free" /\ AfterWrite
    /\ UNCHANGED <<file, now, editorVars, pending, watchVars, report, seen,
                   fresh, faults>>

\* What was on disk is gone when writeFile gets no further than O_TRUNC.
CutOff == missable' = (missable \/ sync \in {"fixing", "writing"})

\* The write, Close, Chtimes or Stat of writeFile fails: the lock is released,
\* lastModTime stays as it was, and the pull or push ends in an error.  A call
\* that fails before it touches the file leaves it to the retries of Runner.
WriteFails ==
    /\ faults > 0 /\ sync \in {"fixing", "restore", "writing", "noting"}
    /\ faults' = faults - 1
    /\ CutOff /\ mu' = "free" /\ Rest /\ fresh' = (fresh \/ job = "backfill")
    /\ UNCHANGED <<file, now, saves, saving, pending, lastModTime, watchVars,
                   report, seen, calls>>

\* The process is killed and started again: Watch, and a pull of every target
\* before the first event.  The store may lack some of what a pull had read.
Crash ==
    /\ faults > 0
    /\ faults' = faults - 1
    /\ CutOff /\ mu' = "free" /\ lastModTime' = 0 /\ Begin("pull") /\ fresh' \in BOOLEAN
    /\ pending' = {} /\ watch' = "select" /\ stat' = 0 /\ timer' = "off" /\ report' = FALSE
    /\ UNCHANGED <<file, now, saves, saving, seen, calls>>

-----------------------------------------------------------------------------
(* The watch goroutine. *)

\* hasFileChanged: only Write and Rename of the path itself count.
IgnoreEvent ==
    /\ watch = "select"
    /\ "other" \in pending /\ pending' = pending \ {"other"}
    /\ UNCHANGED <<file, now, editorVars, lastModTime, mu, watchVars, report, syncVars>>

TakeEvent ==
    /\ watch = "select" /\ "write" \in pending
    /\ pending' = pending \ {"write"}
    /\ watch' = "compare" /\ stat' = file.mtime
    /\ UNCHANGED <<file, now, editorVars, lastModTime, mu, timer, report, syncVars>>

\* Mutant of CompareModTime: only a later time counts.
CompareModTimeStrictly ==
    /\ watch = "compare" /\ mu = "free"
    /\ IF stat > lastModTime THEN watch' = "set" /\ UNCHANGED stat
                             ELSE watch' = "select" /\ stat' = 0
    /\ UNCHANGED <<file, now, editorVars, pending, lastModTime, mu, timer, report, syncVars>>

\* Under mu.RLock.
CompareModTime ==
    /\ watch = "compare" /\ mu = "free"
    /\ IF stat >= lastModTime THEN watch' = "set" /\ UNCHANGED stat
                              ELSE watch' = "select" /\ stat' = 0
    /\ UNCHANGED <<file, now, editorVars, pending, lastModTime, mu, timer, report, syncVars>>

\* Under mu.Lock; then processEvent starts or restarts the debounce timer.
SetModTime ==
    /\ watch = "set" /\ mu = "free"
    /\ lastModTime' = stat
    /\ timer' = "armed" /\ watch' = "select" /\ stat' = 0
    /\ UNCHANGED <<file, now, editorVars, pending, mu, report, syncVars>>

\* A non-blocking send: the report is dropped when one is already waiting.
SendReport ==
    /\ watch = "select" /\ timer = "armed"
    /\ timer' = "off" /\ report' = TRUE
    /\ UNCHANGED <<file, now, editorVars, pending, lastModTime, mu, watch, stat, syncVars>>

-----------------------------------------------------------------------------

Editor == BeginSave \/ EndSave \/ RenameSave
Reader == BeginPull \/ BeginPush \/ StatFile \/ ReadNothing \/ ReadContent \/ BeginNormalise
          \/ WriteNormalised \/ RestoreModTime \/ ReturnLists \/ UpdateFails
Writer == BeginWrite \/ Write \/ NoteModTime
WatchLoop == IgnoreEvent \/ TakeEvent \/ CompareModTime \/ SetModTime \/ SendReport

Next == Editor \/ Reader \/ Writer \/ WatchLoop \/ WriteFails \/ Crash
Spec == Init /\ [][Next]_vars

\* The goroutines and the timer run; an editor finishes the save it began.
FairSpec ==
    /\ Spec
    /\ WF_vars(Reader) /\ WF_vars(Writer) /\ WF_vars(WatchLoop)
    /\ WF_vars(EndSave)

-----------------------------------------------------------------------------
(* Safety. *)

Quiet ==
    /\ sync = "idle" /\ ~report /\ ~saving
    /\ watch = "select" /\ timer = "off" /\ pending = {}

\* The user's last save does not escape the watcher, whatever echoes, errors,
\* restarts and equal modification times there were: when no event, timer or
\* report is left, a pull has read it, unless it was renamed into place, met a
\* call of the Client that was between its Stat and its last write, or was cut
\* off by a write that failed (watcher.go watchLoop, processEvent,
\* hasFileChanged against client.go readFile, writeFile).
QuietMeansRead == Quiet => seen = saves \/ missable

-----------------------------------------------------------------------------
(* Liveness. *)

\* When the user stops editing the watcher and the syncs come to rest: the
\* echo of the client's own writes dies out (watcher.go watchLoop).
ComesToRest == <>[]Quiet
=============================================================================
