------------------------------- MODULE Runner -------------------------------
(***************************************************************************)
(* The event loop of app/runner.go: one forwarding goroutine per target    *)
(* copies the reports of that target's watcher into the Runner's event     *)
(* channel; the loop takes one event at a time, pulls from the targets it  *)
(* concerns, and pushes the store to every target when something changed.  *)
(*                                                                         *)
(* A target is its index in r.targets.  What a sync call moves is          *)
(* abstracted to its outcome (Syncer models the data); three history       *)
(* variables record what the outcomes mean:                                *)
(*   owed[t]    the watcher reported t and no pull of t has begun since;   *)
(*   behind[t]  the store changed, or t went missing, and no push to t has *)
(*              succeeded since;                                           *)
(*   lapsed[t]  t is behind for something that nobody told this Runner: a  *)
(*              pull of another target failed after it had changed the     *)
(*              store, or the process died.                                *)
(***************************************************************************)
EXTENDS Naturals, Sequences

CONSTANTS
    N,              \* number of targets: 1 (markdown) or 2 (google_tasks, markdown)
    MayDie,         \* may the process be interrupted, or killed and started again?
    Failing,        \* targets whose watcher may report an error or return
    Ticking,        \* targets whose watcher reports again and again, as google_tasks does
    Unreliable      \* targets whose pulls and pushes may fail

ASSUME RunnerAssumption ==
    /\ N \in Nat \ {0}
    /\ MayDie \in BOOLEAN
    /\ Failing \subseteq 1 .. N /\ Ticking \subseteq 1 .. N
    /\ Unreliable \subseteq 1 .. N

Target == 1 .. N
Bootstrap == 0      \* event.target == nil: the pass run once before the loop

VARIABLES
    pc,             \* where Run is
    cursor,         \* index of the target the current loop has reached
    trigger,        \* target of the event being processed, or Bootstrap
    changed,        \* local variable of processEvent
    needsPull, needsPush,   \* SyncTarget.needsPullRetry, needsPushRetry
    report,         \* buffer (capacity 1) of the channel Watch returned
    closed,         \* that channel has been closed by the watcher
    fwd,            \* state of the forwarding goroutine, and what it holds
    events,         \* r.events, capacity N
    cancelled,      \* ctx is done
    owed, behind, lapsed    \* history variables

loopVars == <<pc, cursor, trigger, changed>>
flagVars == <<needsPull, needsPush>>
channelVars == <<report, closed, fwd, events>>
historyVars == <<owed, behind, lapsed>>
vars == <<loopVars, flagVars, channelVars, cancelled, historyVars>>

\* A report is nil ("change") or an error; a closed channel yields an error too.
Event == [target : Target, fatal : BOOLEAN]

\* What a forwarding goroutine holds between its two channel operations.
Held == {"change", "err", "closed"}

TypeOK ==
    /\ pc \in {"starting", "select", "pull", "pulling", "push", "stopped"}
    /\ cursor \in 1 .. N + 1
    /\ trigger \in Target \cup {Bootstrap}
    /\ changed \in BOOLEAN
    /\ needsPull \in [Target -> BOOLEAN]
    /\ needsPush \in [Target -> BOOLEAN]
    /\ report \in [Target -> {"none", "change", "err"}]
    /\ closed \in [Target -> BOOLEAN]
    /\ fwd \in [Target -> {"absent", "recv", "done"} \cup Held]
    /\ events \in Seq(Event)
    /\ cancelled \in BOOLEAN
    /\ owed \in [Target -> BOOLEAN]
    /\ behind \in [Target -> BOOLEAN] /\ lapsed \in [Target -> BOOLEAN]

Nowhere == [t \in Target |-> FALSE]
Everywhere == [t \in Target |-> TRUE]

Init ==
    /\ pc = "starting" /\ cursor = 1 /\ trigger = Bootstrap /\ changed = FALSE
    /\ needsPull = Nowhere /\ needsPush = Nowhere
    /\ report = [t \in Target |-> "none"] /\ closed = Nowhere
    /\ fwd = [t \in Target |-> "absent"] /\ events = <<>>
    /\ cancelled = FALSE /\ owed = Nowhere /\ behind = Nowhere /\ lapsed = Nowhere

-----------------------------------------------------------------------------
(* Start-up: Watch for every target in turn, then one bootstrap pass. *)

\* Mutant of StartWatcher: off by one.
StartWatcherBeyond ==
    /\ pc = "starting" /\ cursor \in 1 .. N + 1
    /\ fwd' = [fwd EXCEPT ![cursor] = "recv"]
    /\ cursor' = cursor + 1
    /\ UNCHANGED <<pc, trigger, changed, flagVars, report, closed, events,
                   cancelled, historyVars>>

StartWatcher ==
    /\ pc = "starting" /\ cursor \in Target
    /\ fwd' = [fwd EXCEPT ![cursor] = "recv"]
    /\ cursor' = cursor + 1
    /\ UNCHANGED <<pc, trigger, changed, flagVars, report, closed, events,
                   cancelled, historyVars>>

\* The locals of processEvent are dead between two passes.
IdleAt(where) ==
    /\ pc' = where /\ cursor' = 1 /\ trigger' = Bootstrap /\ changed' = FALSE

Stop == IdleAt("stopped")

StartWatcherFails ==
    /\ pc = "starting" /\ cursor \in Target
    /\ Stop
    /\ UNCHANGED <<flagVars, channelVars, cancelled, historyVars>>

StartPass(t) ==
    /\ pc' = "pull" /\ cursor' = 1 /\ trigger' = t /\ changed' = FALSE

\* Mutant of RunBootstrap: the loop is entered without a pass.
RunWithoutBootstrap ==
    /\ pc = "starting" /\ cursor = N + 1
    /\ IdleAt("select")
    /\ UNCHANGED <<flagVars, channelVars, cancelled, historyVars>>

RunBootstrap ==
    /\ pc = "starting" /\ cursor = N + 1
    /\ StartPass(Bootstrap)
    /\ UNCHANGED <<flagVars, channelVars, cancelled, historyVars>>

-----------------------------------------------------------------------------
(* The watchers, seen from their channel.  A report is a non-blocking send: *)
(* it is dropped when the buffer is full.  An error is a blocking send.     *)

Watching(t) == pc # "stopped" /\ fwd[t] # "absent" /\ ~closed[t]

Report(t) ==
    /\ Watching(t)
    /\ report' = [report EXCEPT ![t] = IF @ = "none" THEN "change" ELSE @]
    /\ owed' = [owed EXCEPT ![t] = TRUE]
    /\ UNCHANGED <<loopVars, flagVars, closed, fwd, events, cancelled, behind, lapsed>>

WatcherError(t) ==
    /\ t \in Failing /\ Watching(t) /\ report[t] = "none"
    /\ report' = [report EXCEPT ![t] = "err"]
    /\ UNCHANGED <<loopVars, flagVars, closed, fwd, events, cancelled, historyVars>>

\* The watcher's goroutine returns (fsnotify closed, or ctx done).
WatcherCloses(t) ==
    /\ t \in Failing /\ Watching(t)
    /\ closed' = [closed EXCEPT ![t] = TRUE]
    /\ UNCHANGED <<loopVars, flagVars, report, fwd, events, cancelled, historyVars>>

-----------------------------------------------------------------------------
(* The forwarding goroutine of startWatcher. *)

Receive(t) ==
    /\ pc # "stopped" /\ fwd[t] = "recv"
    /\ \/ /\ report[t] # "none"
          /\ fwd' = [fwd EXCEPT ![t] = report[t]]
          /\ report' = [report EXCEPT ![t] = "none"]
       \/ /\ report[t] = "none" /\ closed[t]
          /\ fwd' = [fwd EXCEPT ![t] = "closed"]
          /\ UNCHANGED report
    /\ UNCHANGED <<loopVars, flagVars, closed, events, cancelled, historyVars>>

\* Mutant of Forward: r.events is sent to without blocking.
ForwardOrDrop(t) ==
    /\ pc # "stopped" /\ fwd[t] \in Held
    /\ events' = IF Len(events) < N
                   THEN Append(events, [target |-> t, fatal |-> fwd[t] # "change"]) ELSE events
    /\ fwd' = [fwd EXCEPT ![t] = IF @ = "closed" THEN "done" ELSE "recv"]
    /\ UNCHANGED <<loopVars, flagVars, report, closed, cancelled, historyVars>>

\* Mutant of Forward: no loop around the two channel operations.
ForwardOnce(t) ==
    /\ pc # "stopped" /\ fwd[t] \in Held
    /\ Len(events) < N
    /\ events' = Append(events, [target |-> t, fatal |-> fwd[t] # "change"])
    /\ fwd' = [fwd EXCEPT ![t] = "done"]
    /\ UNCHANGED <<loopVars, flagVars, report, closed, cancelled, historyVars>>

Forward(t) ==
    /\ pc # "stopped" /\ fwd[t] \in Held
    /\ Len(events) < N
    /\ events' = Append(events, [target |-> t, fatal |-> fwd[t] # "change"])
    /\ fwd' = [fwd EXCEPT ![t] = IF @ = "closed" THEN "done" ELSE "recv"]
    /\ UNCHANGED <<loopVars, flagVars, report, closed, cancelled, historyVars>>

ForwarderCancelled(t) ==
    /\ pc # "stopped" /\ cancelled /\ fwd[t] \notin {"absent", "done"}
    /\ fwd' = [fwd EXCEPT ![t] = "done"]
    /\ UNCHANGED <<loopVars, flagVars, report, closed, events, cancelled, historyVars>>

-----------------------------------------------------------------------------
(* The main loop. *)

TakeEvent ==
    /\ pc = "select" /\ events # <<>>
    /\ events' = Tail(events)
    /\ \/ Head(events).fatal /\ Stop
       \/ ~Head(events).fatal /\ StartPass(Head(events).target)
    /\ UNCHANGED <<flagVars, report, closed, fwd, cancelled, historyVars>>

Interrupt ==
    /\ MayDie /\ ~cancelled /\ pc # "stopped"
    /\ cancelled' = TRUE
    /\ UNCHANGED <<loopVars, flagVars, channelVars, historyVars>>

StopCancelled ==
    /\ pc = "select" /\ cancelled
    /\ Stop
    /\ UNCHANGED <<flagVars, channelVars, cancelled, historyVars>>

-----------------------------------------------------------------------------
(* processEvent, first loop: pull. *)

Concerned(t) == trigger \in {Bootstrap, t} \/ needsPull[t]

NextTarget == cursor' = cursor + 1 /\ UNCHANGED <<trigger, changed>>

SkipPull ==
    /\ pc = "pull" /\ cursor \in Target /\ ~Concerned(cursor)
    /\ NextTarget
    /\ UNCHANGED <<pc, flagVars, channelVars, cancelled, historyVars>>

\* The pull reads the target's state: later edits are not in what it read.
BeginPull ==
    /\ pc = "pull" /\ cursor \in Target /\ Concerned(cursor)
    /\ pc' = "pulling"
    /\ owed' = [owed EXCEPT ![cursor] = FALSE]
    /\ UNCHANGED <<cursor, trigger, changed, flagVars, channelVars, cancelled,
                   behind, lapsed>>

\* Pull returns true: every target lacks a change of which the Runner knows.
Changes(pulled) ==
    IF pulled THEN behind' = Everywhere /\ lapsed' = Nowhere ELSE UNCHANGED <<behind, lapsed>>

\* Mutant of PullSucceeds: the push that waited for the pull is not made up for.
PullOnly(t) ==
    /\ pc = "pulling" /\ cursor = t
    /\ \E pulled \in BOOLEAN :
          /\ changed' = (changed \/ pulled)
          /\ Changes(pulled)
    /\ needsPull' = [needsPull EXCEPT ![t] = FALSE]
    /\ pc' = "pull" /\ cursor' = cursor + 1
    /\ UNCHANGED <<needsPush, trigger, channelVars, cancelled, owed>>

PullSucceeds(t) ==
    /\ pc = "pulling" /\ cursor = t
    /\ \E pulled \in BOOLEAN :
          /\ changed' = (changed \/ pulled)
          /\ Changes(pulled)
    /\ needsPush' = [needsPush EXCEPT ![t] = @ \/ needsPull[t]]
    /\ needsPull' = [needsPull EXCEPT ![t] = FALSE]
    /\ pc' = "pull" /\ cursor' = cursor + 1
    /\ UNCHANGED <<trigger, channelVars, cancelled, owed>>

\* A pull of t that returns an error may have changed the store before: then
\* every target is behind, but pull returns false and marks t only.  At least t
\* lacks something when it is missing.
FailsPartly(t, lacking) ==
    \/ UNCHANGED lapsed /\ behind' = IF lacking THEN [behind EXCEPT ![t] = TRUE] ELSE behind
    \/ /\ behind' = Everywhere
       /\ lapsed' = [u \in Target |-> lapsed[u] \/ (u # t /\ ~behind[u])]

PullFails ==
    /\ pc = "pulling" /\ cursor \in Unreliable
    /\ FailsPartly(cursor, FALSE)
    /\ needsPull' = [needsPull EXCEPT ![cursor] = TRUE]
    /\ pc' = "pull" /\ NextTarget
    /\ UNCHANGED <<needsPush, channelVars, cancelled, owed>>

\* The error is fs.ErrNotExist: the target is gone and will be recreated.
PullFindsNothing ==
    /\ pc = "pulling" /\ cursor \in Unreliable
    /\ FailsPartly(cursor, TRUE)
    /\ needsPull' = [needsPull EXCEPT ![cursor] = FALSE]
    /\ needsPush' = [needsPush EXCEPT ![cursor] = TRUE]
    /\ pc' = "pull" /\ NextTarget
    /\ UNCHANGED <<channelVars, cancelled, owed>>

EndPulls ==
    /\ pc = "pull" /\ cursor = N + 1
    /\ pc' = "push" /\ cursor' = 1
    /\ UNCHANGED <<trigger, changed, flagVars, channelVars, cancelled, historyVars>>

-----------------------------------------------------------------------------
(* processEvent, second loop: push. *)

Due(t) == changed \/ needsPush[t]

\* Either the target is not due, or push returns early: it needs a pull first.
SkipPush ==
    /\ pc = "push" /\ cursor \in Target
    /\ ~Due(cursor) \/ needsPull[cursor]
    /\ NextTarget
    /\ UNCHANGED <<pc, flagVars, channelVars, cancelled, historyVars>>

Pushing(t) == pc = "push" /\ cursor = t /\ Due(t) /\ ~needsPull[t]

PushSucceeds(t) ==
    /\ Pushing(t)
    /\ needsPush' = [needsPush EXCEPT ![t] = FALSE]
    /\ behind' = [behind EXCEPT ![t] = FALSE] /\ lapsed' = [lapsed EXCEPT ![t] = FALSE]
    /\ NextTarget
    /\ UNCHANGED <<pc, needsPull, channelVars, cancelled, owed>>

\* Mutant of PushFails: the failure is logged and forgotten.
PushGivesUp(t) ==
    /\ t \in Unreliable /\ Pushing(t)
    /\ NextTarget
    /\ UNCHANGED <<pc, flagVars, channelVars, cancelled, historyVars>>

PushFails(t) ==
    /\ t \in Unreliable /\ Pushing(t)
    /\ needsPush' = [needsPush EXCEPT ![t] = TRUE]
    /\ NextTarget
    /\ UNCHANGED <<pc, needsPull, channelVars, cancelled, historyVars>>

EndPass ==
    /\ pc = "push" /\ cursor = N + 1
    /\ IdleAt("select")
    /\ UNCHANGED <<flagVars, channelVars, cancelled, historyVars>>

-----------------------------------------------------------------------------

\* Run has returned; the deferred cancel and the exit end the goroutines.
Terminated == pc = "stopped" /\ UNCHANGED vars

\* The process dies and is started again; only the store and the targets,
\* that is behind, survive, and no flag says so any more.
Crash ==
    /\ MayDie
    /\ IdleAt("starting")
    /\ needsPull' = Nowhere /\ needsPush' = Nowhere
    /\ report' = [t \in Target |-> "none"] /\ closed' = Nowhere
    /\ fwd' = [t \in Target |-> "absent"] /\ events' = <<>>
    /\ cancelled' = FALSE /\ owed' = Nowhere /\ lapsed' = behind
    /\ UNCHANGED behind

Loop ==
    \/ StartWatcher \/ RunBootstrap \/ TakeEvent \/ StopCancelled
    \/ SkipPull \/ BeginPull
    \/ PullFails \/ PullFindsNothing \/ EndPulls
    \/ SkipPush \/ EndPass
    \/ \E t \in Target : PullSucceeds(t) \/ PushSucceeds(t) \/ PushFails(t)

Goroutine(t) == Receive(t) \/ Forward(t) \/ ForwarderCancelled(t)

Environment ==
    \/ StartWatcherFails \/ Interrupt \/ Crash
    \/ \E t \in Target : Report(t) \/ WatcherError(t) \/ WatcherCloses(t)

Next == Loop \/ (\E t \in Target : Goroutine(t)) \/ Environment \/ Terminated

Spec == Init /\ [][Next]_vars

-----------------------------------------------------------------------------
(* Safety. *)

\* A report of t is somewhere between the watcher and the pull it asks for.
Queued(t) == \E i \in 1 .. Len(events) : events[i].target = t
PullAhead(t) ==
    /\ Concerned(t)
    /\ (pc = "pull" /\ cursor <= t) \/ (pc = "pulling" /\ cursor < t)
InFlight(t) ==
    \/ report[t] # "none" \/ fwd[t] \in Held
    \/ Queued(t) \/ PullAhead(t)

\* No report is lost although sends to a full channel are dropped: while the
\* Runner lives, a target whose watcher reported is pulled after the report
\* (runner.go startWatcher, the non-blocking sends of both watchers).
NoLostReport ==
    \A t \in Target :
        owed[t] /\ pc # "stopped" /\ ~cancelled => InFlight(t)

\* Between two passes, a target that lacks a change of the store is marked
\* for another push, or for a pull that will mark it, through every mix of
\* failing pulls and pushes (runner.go processEvent, pull, push).  Only what a
\* failing pull of another target had done before it failed, and what was
\* under way when the process died, is forgotten.
NoForgottenTarget ==
    pc = "select" =>
        \A t \in Target : behind[t] => needsPush[t] \/ needsPull[t] \/ lapsed[t]

\* The same as a specification of its own.  Until the bootstrap pass begins all
\* targets are due to it; once ctx is done the Runner owes nothing.
Running == pc # "stopped" /\ ~cancelled
DueNow == IF Running THEN {t \in Target : pc = "starting" \/ InFlight(t)} ELSE {}
PullingNow == IF Running /\ pc = "pulling" THEN {cursor} ELSE {}
Signal == INSTANCE Signal WITH due <- DueNow, pulling <- PullingNow, up <- Running

\* The channels, goroutines and loops of runner.go implement one signal per
\* target that only a pull of the target lowers, and restarts lower none.
ImplementsSignal == Signal!Spec

-----------------------------------------------------------------------------
(* Liveness. *)

\* The goroutines are scheduled, and every provider call returns.  Blocked
\* senders of a Go channel are served first come, first served, so a Forward
\* that can run again and again is not overtaken for ever.
Scheduling ==
    /\ WF_vars(Loop)
    /\ \A t \in Target : WF_vars(Receive(t)) /\ SF_vars(Forward(t))

FairSpec == Spec /\ Scheduling

Ended == pc = "stopped" \/ cancelled

\* Every report is followed by a pull of that target, whatever else fails
\* (runner.go startWatcher, Run, processEvent).
ReportsArePulled == \A t \in Target : owed[t] ~> ~owed[t] \/ Ended

\* And whatever is due is pulled.
ServesSignal == Signal!FairSpec

\* What "retry" rests on: the poll ticker of google_tasks keeps reporting, and
\* a call that is tried again and again succeeds in the end.
Retrying ==
    /\ \A t \in Ticking : WF_vars(Report(t))
    /\ \A t \in Unreliable : SF_vars(PullSucceeds(t)) /\ SF_vars(PushSucceeds(t))

\* If retries are made, every change of the store that the Runner knows of
\* reaches every target (runner.go pull, push: the retry flags).
StoreReachesTargets ==
    Retrying => \A t \in Target : behind[t] ~> ~behind[t] \/ lapsed[t] \/ Ended
=============================================================================
