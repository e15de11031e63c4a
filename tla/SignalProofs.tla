---------------------------- MODULE SignalProofs ----------------------------
(* Runner implements Signal, for every number of targets and every fault set. *)
EXTENDS RunnerProofs

\* The bootstrap pass begins with a pull of every target, so that nothing is
\* lost when the start-up ends (runner.go Run).
LEMMA StartStep ==
  ASSUME TypeOK, [Next]_vars, Running', pc = "starting", NEW s \in Target
  PROVE  pc' = "starting" \/ InFlight(s)'
<1> USE RunnerAssumption DEF TypeOK, Target
<1>1. CASE RunBootstrap
  BY <1>1 DEF RunBootstrap, StartPass, InFlight, PullAhead, Concerned, Bootstrap
<1>2. CASE StartWatcherFails \/ StartWatcher \/ Crash \/ Interrupt \/ UNCHANGED vars
  BY <1>2 DEF StartWatcherFails, StartWatcher, Crash, Interrupt, Stop, IdleAt, Running,
              vars, loopVars
<1>3. ASSUME NEW t \in Target, Goroutine(t) \/ Report(t) \/ WatcherError(t) \/ WatcherCloses(t)
      PROVE  pc' = "starting"
  BY <1>3 DEF Goroutine, Receive, Forward, ForwarderCancelled, Report, WatcherError,
              WatcherCloses, loopVars
<1>4. CASE \/ TakeEvent \/ StopCancelled \/ SkipPull \/ BeginPull \/ PullFails
           \/ PullFindsNothing \/ EndPulls \/ SkipPush \/ EndPass
           \/ \E t \in Target : PullSucceeds(t) \/ PushSucceeds(t) \/ PushFails(t)
  BY <1>4 DEF TakeEvent, StopCancelled, SkipPull, BeginPull, PullFails, PullFindsNothing,
              EndPulls, SkipPush, EndPass, PullSucceeds, PushSucceeds, PushFails, Pushing
<1> QED
  BY <1>1, <1>2, <1>3, <1>4 DEF Next, Loop, Environment, Terminated

\* Nothing that is due is dropped while the Runner lives, but for the target
\* of a pull that begins.
LEMMA DueStep ==
  ASSUME TypeOK, Unstarted, [Next]_vars, ~Crash, Running', NEW s \in DueNow,
         ~(BeginPull /\ cursor = s)
  PROVE  s \in DueNow'
<1>1. s \in Target /\ (pc = "starting" \/ InFlight(s))
  BY DEF DueNow
<1>2. pc' = "starting" \/ InFlight(s)'
  BY <1>1, StartStep, InFlightStep
<1> QED
  BY <1>1, <1>2 DEF DueNow, Target

\* pulling changes only where a pull begins or returns.
LEMMA PullingStep ==
  ASSUME TypeOK, [Next]_vars, ~Crash, Running',
         ~BeginPull, ~PullFails, ~PullFindsNothing, \A t \in Target : ~PullSucceeds(t)
  PROVE  PullingNow' = PullingNow
<1>0. Running
  BY RunningStep
<1>1. UNCHANGED <<pc, cursor>> \/ (pc # "pulling" /\ pc' # "pulling")
  <2>1. CASE StartWatcher \/ RunBootstrap \/ TakeEvent \/ SkipPull \/ EndPulls \/ SkipPush \/ EndPass
    BY <2>1 DEF StartWatcher, RunBootstrap, TakeEvent, SkipPull, EndPulls, SkipPush, EndPass,
                Stop, IdleAt, StartPass
  <2>2. CASE StartWatcherFails \/ StopCancelled \/ Interrupt \/ UNCHANGED vars
    BY <2>2 DEF StartWatcherFails, StopCancelled, Stop, IdleAt, Interrupt, vars, loopVars
  <2>3. ASSUME NEW t \in Target, PushSucceeds(t) \/ PushFails(t)
        PROVE  pc # "pulling" /\ pc' # "pulling"
    BY <2>3 DEF PushSucceeds, PushFails, Pushing
  <2>4. ASSUME NEW t \in Target, Goroutine(t) \/ Report(t) \/ WatcherError(t) \/ WatcherCloses(t)
        PROVE  UNCHANGED <<pc, cursor>>
    BY <2>4 DEF Goroutine, Receive, Forward, ForwarderCancelled, Report, WatcherError,
                WatcherCloses, loopVars
  <2> QED
    BY <2>1, <2>2, <2>3, <2>4 DEF Next, Loop, Environment, Terminated
<1> QED
  BY <1>0, <1>1 DEF PullingNow

\* A pull that returns leaves what is due as it is.
LEMMA EndStep ==
  ASSUME TypeOK, Unstarted, Running, Running', NEW t \in Target, cursor = t, pc = "pulling",
         PullSucceeds(t) \/ PullFails \/ PullFindsNothing
  PROVE  DueNow' = DueNow /\ PullingNow' = {}
<1> USE RunnerAssumption DEF TypeOK, Target
<1>1. /\ pc' = "pull" /\ cursor' = t + 1
      /\ UNCHANGED <<report, fwd, events, trigger>>
      /\ \A s \in Target \ {t} : needsPull'[s] = needsPull[s]
  BY DEF PullSucceeds, PullFails, PullFindsNothing, NextTarget, channelVars
<1>2. ASSUME NEW s \in Target PROVE PullAhead(s)' <=> PullAhead(s)
  <2>1. CASE s = t
    BY <1>1, <2>1 DEF PullAhead
  <2>2. CASE s # t
    <3>1. Concerned(s)' <=> Concerned(s)
      BY <1>1, <2>2 DEF Concerned
    <3>2. cursor' <= s <=> cursor < s
      BY <1>1
    <3> QED
      BY <1>1, <3>1, <3>2 DEF PullAhead
  <2> QED
    BY <2>1, <2>2
<1>3. \A s \in Target : InFlight(s)' <=> InFlight(s)
  BY <1>1, <1>2 DEF InFlight, Queued
<1>4. pc # "starting" /\ pc' # "starting" /\ PullingNow' = {}
  BY <1>1 DEF PullingNow
<1> QED
  BY <1>3, <1>4 DEF DueNow

\* Every step is one of Signal, or changes nothing there.
LEMMA SignalStep == TypeOK /\ Unstarted /\ [Next]_vars => [Signal!Next]_(Signal!vars)
<1> SUFFICES ASSUME TypeOK, Unstarted, [Next]_vars
             PROVE  [Signal!Next]_(Signal!vars)
  OBVIOUS
<1> USE DEF Signal!Next, Signal!vars, DueNow, PullingNow
<1>1. CASE Crash
  <2>1. Running' /\ DueNow' = Target /\ PullingNow' = {}
    BY <1>1 DEF Crash, IdleAt, Running, Target
  <2> QED
    BY <2>1 DEF Signal!Restart
<1>2. CASE ~Crash /\ ~Running
  <2>1. Running = FALSE /\ Running' = FALSE
    BY <1>2, RunningStep DEF Running
  <2> QED
    BY <2>1
<1>3. CASE Running /\ ~Running'
  <2>1. Running' = FALSE
    BY <1>3 DEF Running
  <2> QED
    BY <1>3, <2>1 DEF Signal!Down
<1>4. CASE ~Crash /\ Running /\ Running' /\ BeginPull
  <2>1. cursor \in Target /\ pc' = "pulling" /\ cursor' = cursor /\ pc = "pull"
    BY <1>4 DEF BeginPull
  <2>2. cursor \in DueNow
    BY <1>4, <2>1, RunnerAssumption DEF BeginPull, InFlight, PullAhead, Target, TypeOK
  <2>3. \A s \in DueNow : s # cursor => s \in DueNow'
    BY <1>4, DueStep
  <2>4. \A s \in DueNow' : s \in DueNow
    <3>1. \A s \in Target : InFlight(s)' => InFlight(s)
      BY <1>4, <2>1, RunnerAssumption DEF BeginPull, InFlight, Queued, PullAhead, Concerned,
         channelVars, flagVars, TypeOK, Target
    <3> QED
      BY <1>4, <2>1, <3>1 DEF Target
  <2>5. DueNow' = DueNow \/ DueNow' = DueNow \ {cursor}
    BY <2>3, <2>4
  <2>6. PullingNow = {} /\ PullingNow' = {cursor}
    BY <1>4, <2>1
  <2> QED
    BY <1>4, <2>1, <2>2, <2>5, <2>6 DEF Signal!Begin
<1>5. CASE /\ ~Crash /\ Running /\ Running'
           /\ PullFails \/ PullFindsNothing \/ \E t \in Target : PullSucceeds(t)
  <2>1. cursor \in Target /\ pc = "pulling"
        /\ (PullSucceeds(cursor) \/ PullFails \/ PullFindsNothing)
    BY <1>5, RunnerAssumption DEF PullFails, PullFindsNothing, PullSucceeds, Target
  <2>2. DueNow' = DueNow /\ PullingNow' = {}
    BY <1>5, <2>1, EndStep
  <2>3. PullingNow # {}
    BY <1>5, <2>1
  <2> QED
    BY <1>5, <2>2, <2>3 DEF Signal!End
<1>6. CASE /\ ~Crash /\ Running /\ Running' /\ ~BeginPull
           /\ ~(PullFails \/ PullFindsNothing \/ \E t \in Target : PullSucceeds(t))
  <2>1. PullingNow' = PullingNow
    BY <1>6, PullingStep
  <2>2. DueNow \subseteq DueNow'
    BY <1>6, DueStep
  <2>3. DueNow' \subseteq Target
    BY DEF Target
  <2> QED
    BY <1>6, <2>1, <2>2, <2>3 DEF Signal!Raise
<1> QED
  BY <1>1, <1>2, <1>3, <1>4, <1>5, <1>6

\* The event loop, its goroutines and its channels implement one signal per
\* target that only a pull lowers, for any number of targets, with watchers
\* that fail, calls that fail, interrupts and restarts (app/runner.go).
THEOREM SignalImplemented == Spec => ImplementsSignal
<1>1. Init => Signal!Init /\ Unstarted
  BY DEF Init, Signal!Init, DueNow, PullingNow, Unstarted, Running
<1>2. TypeOK /\ Unstarted /\ [Next]_vars => [Signal!Next]_(Signal!vars)
  BY SignalStep
<1>3. TypeOK /\ Unstarted /\ [Next]_vars => Unstarted'
  BY UnstartedStep
<1> QED
  BY <1>1, <1>2, <1>3, TypeCorrect, PTL DEF Spec, ImplementsSignal, Signal!Spec
=============================================================================
