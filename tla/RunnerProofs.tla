---------------------------- MODULE RunnerProofs ----------------------------
(* Proofs about Runner, for every number of targets and every fault set.    *)
EXTENDS Runner, TLAPS

\* The constant maps the code's zero values and updates build.
LEMMA ConstantMaps ==
    /\ Nowhere \in [Target -> BOOLEAN] /\ Everywhere \in [Target -> BOOLEAN]
    /\ [t \in Target |-> "none"] \in [Target -> {"none", "change", "err"}]
    /\ [t \in Target |-> "absent"] \in [Target -> {"absent", "recv", "done"} \cup Held]
  BY DEF Nowhere, Everywhere

\* What a failing pull leaves has its type.
LEMMA FailsTyped ==
  ASSUME behind \in [Target -> BOOLEAN], lapsed \in [Target -> BOOLEAN],
         NEW t \in Target, NEW lacking \in BOOLEAN, FailsPartly(t, lacking)
  PROVE  behind' \in [Target -> BOOLEAN] /\ lapsed' \in [Target -> BOOLEAN]
<1>1. [u \in Target |-> lapsed[u] \/ (u # t /\ ~behind[u])] \in [Target -> BOOLEAN]
  BY Zenon
<1>2. [behind EXCEPT ![t] = TRUE] \in [Target -> BOOLEAN]
  BY Zenon
<1> QED
  BY <1>1, <1>2, ConstantMaps, Zenon DEF FailsPartly

\* Every step keeps the variables in their types (runner.go, all of it).
LEMMA TypeStep == TypeOK /\ [Next]_vars => TypeOK'
<1> SUFFICES ASSUME TypeOK, [Next]_vars PROVE TypeOK'
  OBVIOUS
<1> USE RunnerAssumption DEF TypeOK, Target, Bootstrap
<1>1. CASE StartWatcher
  BY <1>1 DEF StartWatcher, flagVars, historyVars
<1>2. CASE StartWatcherFails
  <2>1. changed' \in BOOLEAN
    BY <1>2, Zenon DEF StartWatcherFails, Stop, IdleAt
  <2> QED
    BY <1>2, <2>1 DEF StartWatcherFails, Stop, IdleAt, flagVars, channelVars, historyVars
<1>3. CASE RunBootstrap
  <2>1. changed' \in BOOLEAN
    BY <1>3, Zenon DEF RunBootstrap, StartPass
  <2> QED
    BY <1>3, <2>1 DEF RunBootstrap, StartPass, flagVars, channelVars, historyVars
<1>4. ASSUME NEW t \in Target, Report(t) PROVE TypeOK'
  BY <1>4 DEF Report, loopVars, flagVars
<1>5. ASSUME NEW t \in Target, WatcherError(t) PROVE TypeOK'
  BY <1>5 DEF WatcherError, loopVars, flagVars, historyVars
<1>6. ASSUME NEW t \in Target, WatcherCloses(t) PROVE TypeOK'
  BY <1>6 DEF WatcherCloses, loopVars, flagVars, historyVars
<1>7. ASSUME NEW t \in Target, Receive(t) PROVE TypeOK'
  BY <1>7 DEF Receive, Held, loopVars, flagVars, historyVars
<1>8. ASSUME NEW t \in Target, Forward(t) PROVE TypeOK'
  BY <1>8 DEF Forward, Event, Held, loopVars, flagVars, historyVars
<1>9. ASSUME NEW t \in Target, ForwarderCancelled(t) PROVE TypeOK'
  BY <1>9 DEF ForwarderCancelled, loopVars, flagVars, historyVars
<1>10. CASE TakeEvent
  <2>1. Head(events) \in Event /\ Tail(events) \in Seq(Event)
    BY <1>10 DEF TakeEvent
  <2> QED
    <3>1. changed' \in BOOLEAN
      BY <1>10, Zenon DEF TakeEvent, Stop, IdleAt, StartPass
    <3>2. Head(events).target \in Target
      BY <2>1 DEF Event
    <3> QED
      BY <1>10, <2>1, <3>1, <3>2 DEF TakeEvent, Stop, IdleAt, StartPass, flagVars, historyVars
<1>11. CASE Interrupt
  BY <1>11 DEF Interrupt, loopVars, flagVars, channelVars, historyVars
<1>12. CASE StopCancelled
  <2>1. changed' \in BOOLEAN
    BY <1>12, Zenon DEF StopCancelled, Stop, IdleAt
  <2> QED
    BY <1>12, <2>1 DEF StopCancelled, Stop, IdleAt, flagVars, channelVars, historyVars
<1>13. CASE SkipPull
  BY <1>13 DEF SkipPull, NextTarget, flagVars, channelVars, historyVars
<1>14. CASE BeginPull
  BY <1>14 DEF BeginPull, flagVars, channelVars
<1>15. ASSUME NEW t \in Target, PullSucceeds(t) PROVE TypeOK'
  BY <1>15, ConstantMaps DEF PullSucceeds, Changes, channelVars
<1>16. CASE PullFails
  <2>1. behind' \in [Target -> BOOLEAN] /\ lapsed' \in [Target -> BOOLEAN]
    BY <1>16, FailsTyped DEF PullFails
  <2> QED
    BY <1>16, <2>1 DEF PullFails, NextTarget, channelVars
<1>17. CASE PullFindsNothing
  <2>1. behind' \in [Target -> BOOLEAN] /\ lapsed' \in [Target -> BOOLEAN]
    BY <1>17, FailsTyped DEF PullFindsNothing
  <2> QED
    BY <1>17, <2>1 DEF PullFindsNothing, NextTarget, channelVars
<1>18. CASE EndPulls
  BY <1>18 DEF EndPulls, flagVars, channelVars, historyVars
<1>19. CASE SkipPush
  BY <1>19 DEF SkipPush, NextTarget, flagVars, channelVars, historyVars
<1>20. ASSUME NEW t \in Target, PushSucceeds(t) PROVE TypeOK'
  BY <1>20 DEF PushSucceeds, Pushing, NextTarget, channelVars
<1>21. ASSUME NEW t \in Target, PushFails(t) PROVE TypeOK'
  BY <1>21 DEF PushFails, Pushing, NextTarget, channelVars, historyVars
<1>22. CASE EndPass
  <2>1. changed' \in BOOLEAN
    BY <1>22, Zenon DEF EndPass, IdleAt
  <2> QED
    BY <1>22, <2>1 DEF EndPass, IdleAt, flagVars, channelVars, historyVars
<1>23. CASE Crash
  <2>1. changed' \in BOOLEAN /\ cancelled' \in BOOLEAN
    BY <1>23, Zenon DEF Crash, IdleAt
  <2> QED
    BY <1>23, <2>1, ConstantMaps DEF Crash, IdleAt
<1>24. CASE UNCHANGED vars
  BY <1>24 DEF vars, loopVars, flagVars, channelVars, historyVars
<1> QED
  BY <1>1, <1>2, <1>3, <1>4, <1>5, <1>6, <1>7, <1>8, <1>9, <1>10, <1>11, <1>12,
     <1>13, <1>14, <1>15, <1>16, <1>17, <1>18, <1>19, <1>20, <1>21, <1>22, <1>23,
     <1>24 DEF Next, Loop, Goroutine, Environment, Terminated

\* The variables always have their types.
THEOREM TypeCorrect == Spec => []TypeOK
<1>1. Init => TypeOK
  <2>1. Init => changed \in BOOLEAN /\ cancelled \in BOOLEAN
    BY Zenon DEF Init
  <2> QED
    BY <2>1, RunnerAssumption, ConstantMaps DEF Init, TypeOK, Target, Bootstrap
<1> QED
  BY <1>1, TypeStep, PTL DEF Spec

-----------------------------------------------------------------------------
\* While the watchers are being started, the later ones have no goroutine yet.
Unstarted == pc = "starting" => \A t \in Target : t >= cursor => fwd[t] = "absent"

ReportInv == Unstarted /\ NoLostReport

\* A goroutine is only ever started for the target the start-up loop has reached.
LEMMA UnstartedStep == TypeOK /\ Unstarted /\ [Next]_vars => Unstarted'
<1> SUFFICES ASSUME TypeOK, Unstarted, [Next]_vars, pc' = "starting",
                    NEW s \in Target, s >= cursor'
             PROVE  fwd'[s] = "absent"
  BY DEF Unstarted, Target
<1> USE RunnerAssumption DEF TypeOK, Target, Unstarted
<1>1. CASE StartWatcher
  BY <1>1 DEF StartWatcher
<1>2. ASSUME NEW t \in Target, Goroutine(t) PROVE fwd'[s] = "absent"
  BY <1>2 DEF Goroutine, Receive, Forward, ForwarderCancelled, Held, loopVars
<1>3. CASE Crash
  BY <1>3 DEF Crash
<1>4. CASE UNCHANGED <<pc, cursor, fwd>>
  BY <1>4
<1>5. ASSUME NEW t \in Target, Report(t) \/ WatcherError(t) \/ WatcherCloses(t)
      PROVE  UNCHANGED <<pc, cursor, fwd>>
  BY <1>5 DEF Report, WatcherError, WatcherCloses, loopVars
<1>6. CASE Interrupt \/ UNCHANGED vars
  BY <1>4, <1>6 DEF Interrupt, vars, loopVars, channelVars
<1>7. CASE StartWatcherFails \/ RunBootstrap \/ TakeEvent \/ StopCancelled \/ EndPass
  BY <1>7 DEF StartWatcherFails, RunBootstrap, TakeEvent, StopCancelled, EndPass,
              Stop, IdleAt, StartPass
<1>8. CASE SkipPull \/ BeginPull \/ PullFails \/ PullFindsNothing \/ EndPulls \/ SkipPush
  BY <1>8 DEF SkipPull, BeginPull, PullFails, PullFindsNothing, EndPulls, SkipPush
<1>9. ASSUME NEW t \in Target, PullSucceeds(t) \/ PushSucceeds(t) \/ PushFails(t)
      PROVE  FALSE
  BY <1>9 DEF PullSucceeds, PushSucceeds, PushFails, Pushing
<1> QED
  BY <1>1, <1>2, <1>3, <1>4, <1>5, <1>6, <1>7, <1>8, <1>9
     DEF Next, Loop, Environment, Terminated

\* Only a crash brings the Runner back.
LEMMA RunningStep == TypeOK /\ [Next]_vars /\ ~Crash /\ Running' => Running
<1> SUFFICES ASSUME TypeOK, [Next]_vars, ~Crash, Running' PROVE Running
  OBVIOUS
<1> USE DEF Running
<1>1. CASE StartWatcher \/ RunBootstrap \/ TakeEvent \/ SkipPull \/ BeginPull \/ PullFails
           \/ PullFindsNothing \/ EndPulls \/ SkipPush \/ EndPass
  <2>1. pc # "stopped"
    BY <1>1 DEF StartWatcher, RunBootstrap, TakeEvent, SkipPull, BeginPull, PullFails,
                PullFindsNothing, EndPulls, SkipPush, EndPass
  <2>2. UNCHANGED cancelled
    BY <1>1 DEF StartWatcher, RunBootstrap, TakeEvent, SkipPull, BeginPull, PullFails,
                PullFindsNothing, EndPulls, SkipPush, EndPass
  <2> QED
    BY <2>1, <2>2
<1>2. CASE StopCancelled \/ StartWatcherFails
  BY <1>2 DEF StopCancelled, StartWatcherFails, Stop, IdleAt
<1>3. ASSUME NEW t \in Target, PullSucceeds(t) \/ PushSucceeds(t) \/ PushFails(t) PROVE Running
  BY <1>3 DEF PullSucceeds, PushSucceeds, PushFails, Pushing
<1>4. ASSUME NEW t \in Target, Goroutine(t) \/ Report(t) \/ WatcherError(t) \/ WatcherCloses(t)
      PROVE  Running
  BY <1>4 DEF Goroutine, Receive, Forward, ForwarderCancelled, Report, WatcherError,
              WatcherCloses, loopVars
<1>5. CASE Interrupt \/ UNCHANGED vars
  BY <1>5 DEF Interrupt, vars, loopVars
<1> QED
  BY <1>1, <1>2, <1>3, <1>4, <1>5 DEF Next, Loop, Environment, Terminated

\* While the Runner lives, what is in flight for a target stays in flight
\* until a pull of that target begins (runner.go startWatcher, Run, processEvent).
LEMMA InFlightStep ==
  ASSUME TypeOK, Unstarted, [Next]_vars, ~Crash, Running',
         NEW s \in Target, InFlight(s), ~(BeginPull /\ cursor = s)
  PROVE  InFlight(s)'
<1> USE RunnerAssumption DEF TypeOK, Target, Bootstrap, InFlight, Queued, PullAhead,
        Concerned
<1>0. pc' # "stopped" /\ ~cancelled'
  BY DEF Running
<1>1. CASE StartWatcher
  <2>1. fwd[s] \in Held => fwd'[s] \in Held
    BY <1>1 DEF StartWatcher, Unstarted, Held
  <2>2. ~PullAhead(s)
    BY <1>1 DEF StartWatcher
  <2>3. UNCHANGED <<report, events>> /\ pc # "stopped"
    BY <1>1 DEF StartWatcher, historyVars
  <2> QED
    BY <2>1, <2>2, <2>3
<1>2. CASE StartWatcherFails
  BY <1>2, <1>0 DEF StartWatcherFails, Stop, IdleAt
<1>3. CASE RunBootstrap
  BY <1>3 DEF RunBootstrap, StartPass
<1>4. ASSUME NEW t \in Target, Report(t) PROVE InFlight(s)'
  BY <1>4 DEF Report, loopVars, flagVars
<1>5. ASSUME NEW t \in Target, WatcherError(t) PROVE InFlight(s)'
  BY <1>5 DEF WatcherError, loopVars, flagVars, historyVars
<1>6. ASSUME NEW t \in Target, WatcherCloses(t) PROVE InFlight(s)'
  BY <1>6 DEF WatcherCloses, loopVars, flagVars, historyVars
<1>7. ASSUME NEW t \in Target, Receive(t) PROVE InFlight(s)'
  BY <1>7 DEF Receive, Held, loopVars, flagVars, historyVars
<1>8. ASSUME NEW t \in Target, Forward(t) PROVE InFlight(s)'
  <2>1. events \in Seq(Event) /\ [target |-> t, fatal |-> fwd[t] # "change"] \in Event
    BY DEF Event
  <2>2. Len(events') = Len(events) + 1 /\ events'[Len(events')].target = t
    BY <1>8, <2>1 DEF Forward
  <2>3. \A i \in 1 .. Len(events) : events'[i] = events[i]
    BY <1>8, <2>1 DEF Forward
  <2>4. Len(events) \in Nat
    BY <2>1
  <2>5. CASE s = t
    <3>1. Queued(s)'
      <4>1. Len(events') \in 1 .. Len(events')
        BY <2>2, <2>4
      <4> QED
        BY <2>2, <2>5, <4>1
    <3> QED
      BY <3>1
  <2>6. CASE s # t
    <3>1. Queued(s) => Queued(s)'
      BY <2>2, <2>3, <2>4
    <3> QED
      BY <1>8, <2>6, <3>1 DEF Forward, loopVars, flagVars, historyVars
  <2> QED
    BY <2>5, <2>6
<1>9. ASSUME NEW t \in Target, ForwarderCancelled(t) PROVE InFlight(s)'
  <2>1. cancelled'
    BY <1>9 DEF ForwarderCancelled
  <2> QED
    BY <1>0, <2>1
<1>10. CASE TakeEvent
  <2>1. events \in Seq(Event) /\ events # <<>>
    BY <1>10 DEF TakeEvent
  <2>2. \A i \in 2 .. Len(events) : i - 1 \in 1 .. Len(Tail(events))
                                    /\ Tail(events)[i - 1] = events[i]
    BY <2>1
  <2>3. CASE Head(events).target = s
    BY <1>10, <1>0, <2>1, <2>3 DEF TakeEvent, Stop, IdleAt, StartPass
  <2>4. CASE Head(events).target # s
    <3>1. Queued(s) => Queued(s)'
      <4> SUFFICES ASSUME NEW i \in 1 .. Len(events), events[i].target = s
                   PROVE  \E j \in 1 .. Len(events') : events'[j].target = s
        OBVIOUS
      <4>1. i # 1
        BY <2>1, <2>4
      <4>2. i - 1 \in 1 .. Len(events') /\ events'[i - 1] = events[i]
        BY <1>10, <2>1, <2>2, <4>1 DEF TakeEvent
      <4> QED
        BY <4>2
    <3>2. pc = "select"
      BY <1>10 DEF TakeEvent
    <3> QED
      BY <1>10, <1>0, <3>1, <3>2 DEF TakeEvent, flagVars, historyVars
  <2> QED
    BY <2>3, <2>4
<1>11. CASE Interrupt
  BY <1>11, <1>0 DEF Interrupt
<1>12. CASE StopCancelled
  BY <1>12, <1>0 DEF StopCancelled, Stop, IdleAt
<1>13. CASE SkipPull
  <2>1. PullAhead(s) => PullAhead(s)'
    <3>1. Concerned(s) => cursor # s /\ Concerned(s)'
      BY <1>13 DEF SkipPull, NextTarget, flagVars
    <3> QED
      BY <1>13, <3>1 DEF SkipPull, NextTarget
  <2>2. UNCHANGED <<report, fwd, events>> /\ pc # "stopped"
    BY <1>13 DEF SkipPull, channelVars, historyVars
  <2> QED
    BY <2>1, <2>2
<1>14. CASE BeginPull
  BY <1>14 DEF BeginPull, flagVars, channelVars
<1>15. ASSUME NEW t \in Target, PullSucceeds(t) PROVE InFlight(s)'
  BY <1>15 DEF PullSucceeds, channelVars
<1>16. CASE PullFails
  <2>1. PullAhead(s) => PullAhead(s)'
    BY <1>16 DEF PullFails, NextTarget
  <2>2. UNCHANGED <<report, fwd, events>> /\ pc # "stopped"
    BY <1>16 DEF PullFails, channelVars
  <2> QED
    BY <2>1, <2>2
<1>17. CASE PullFindsNothing
  <2>1. PullAhead(s) => PullAhead(s)'
    BY <1>17 DEF PullFindsNothing, NextTarget
  <2>2. UNCHANGED <<report, fwd, events>> /\ pc # "stopped"
    BY <1>17 DEF PullFindsNothing, channelVars
  <2> QED
    BY <2>1, <2>2
<1>18. CASE EndPulls
  BY <1>18 DEF EndPulls, flagVars, channelVars, historyVars
<1>19. CASE SkipPush
  BY <1>19 DEF SkipPush, NextTarget, flagVars, channelVars, historyVars
<1>20. ASSUME NEW t \in Target, PushSucceeds(t) PROVE InFlight(s)'
  BY <1>20 DEF PushSucceeds, Pushing, NextTarget, channelVars
<1>21. ASSUME NEW t \in Target, PushFails(t) PROVE InFlight(s)'
  BY <1>21 DEF PushFails, Pushing, NextTarget, channelVars, historyVars
<1>22. CASE EndPass
  BY <1>22 DEF EndPass, IdleAt, flagVars, channelVars, historyVars
<1>23. CASE UNCHANGED vars
  BY <1>23 DEF vars, loopVars, flagVars, channelVars, historyVars
<1> QED
  BY <1>1, <1>2, <1>3, <1>4, <1>5, <1>6, <1>7, <1>8, <1>9, <1>10, <1>11, <1>12,
     <1>13, <1>14, <1>15, <1>16, <1>17, <1>18, <1>19, <1>20, <1>21, <1>22, <1>23
     DEF Next, Loop, Goroutine, Environment, Terminated

\* So a report that no pull has taken up stays in flight, a new one enters.
LEMMA ReportStep == TypeOK /\ ReportInv /\ [Next]_vars => NoLostReport'
<1> SUFFICES ASSUME TypeOK, Unstarted, NoLostReport, [Next]_vars, NEW s \in Target,
                    owed'[s], Running'
             PROVE  InFlight(s)'
  BY DEF ReportInv, NoLostReport, Running, Target
<1>1. ~Crash
  BY DEF Crash, Nowhere
<1>2. ~(BeginPull /\ cursor = s)
  BY DEF BeginPull, TypeOK
<1>3. CASE Report(s)
  BY <1>3 DEF Report, InFlight, TypeOK
<1>4. CASE ~Report(s)
  <2>1. owed[s]
    BY <1>1, <1>4 DEF Next, Loop, Goroutine, Environment, Terminated, vars, historyVars,
       StartWatcher, RunBootstrap, TakeEvent, StopCancelled, SkipPull, BeginPull, PullFails,
       PullFindsNothing, EndPulls, SkipPush, EndPass, PullSucceeds, PushSucceeds, PushFails,
       Receive, Forward, ForwarderCancelled, StartWatcherFails, Interrupt, Report,
       WatcherError, WatcherCloses, TypeOK
  <2>2. InFlight(s)
    BY <1>1, <2>1, RunningStep DEF NoLostReport, Running
  <2> QED
    BY <1>1, <1>2, <2>2, InFlightStep
<1> QED
  BY <1>3, <1>4

\* No report of a watcher is lost, whatever fails and however many targets
\* there are (runner.go: one-slot channels, one slot per target in r.events).
THEOREM ReportsKept == Spec => []NoLostReport
<1>1. Init => ReportInv
  BY DEF Init, ReportInv, Unstarted, NoLostReport, Nowhere
<1>2. TypeOK /\ ReportInv /\ [Next]_vars => ReportInv'
  BY UnstartedStep, ReportStep DEF ReportInv
<1>3. ReportInv => NoLostReport
  BY DEF ReportInv
<1> QED
  BY <1>1, <1>2, <1>3, TypeCorrect, PTL DEF Spec

-----------------------------------------------------------------------------
\* Where in a pass a target that is behind is still going to be served: by
\* its retry flags, or by the push loop while it has not passed the target.
Remembered(t) ==
    \/ needsPush[t] \/ needsPull[t]
    \/ changed /\ pc \in {"pull", "pulling"}
    \/ changed /\ pc = "push" /\ cursor <= t

RetryInv ==
    pc # "stopped" => \A t \in Target : behind[t] => Remembered(t) \/ lapsed[t]

\* Every step remembers the targets that are behind, or it is one of the two
\* that nobody remembers (runner.go processEvent, pull, push).
LEMMA RetryStep == TypeOK /\ RetryInv /\ [Next]_vars => RetryInv'
<1> SUFFICES ASSUME TypeOK, RetryInv, [Next]_vars, NEW s \in Target,
                    pc' # "stopped", behind'[s]
             PROVE  Remembered(s)' \/ lapsed'[s]
  BY DEF RetryInv, Target
<1> USE RunnerAssumption DEF TypeOK, Target, Bootstrap, RetryInv, Remembered
<1>1. CASE StartWatcher
  BY <1>1 DEF StartWatcher, flagVars, historyVars
<1>2. CASE StartWatcherFails
  BY <1>2 DEF StartWatcherFails, Stop, IdleAt
<1>3. CASE RunBootstrap
  BY <1>3 DEF RunBootstrap, StartPass, flagVars, historyVars
<1>4. ASSUME NEW t \in Target, Goroutine(t) \/ Report(t) \/ WatcherError(t) \/ WatcherCloses(t)
      PROVE  UNCHANGED <<loopVars, flagVars, behind, lapsed>>
  BY <1>4 DEF Goroutine, Receive, Forward, ForwarderCancelled, Report, WatcherError,
              WatcherCloses, historyVars
<1>5. CASE UNCHANGED <<loopVars, flagVars, behind, lapsed>>
  BY <1>5 DEF loopVars, flagVars
<1>6. CASE TakeEvent
  BY <1>6 DEF TakeEvent, Stop, IdleAt, StartPass, flagVars, historyVars
<1>7. CASE StopCancelled
  BY <1>7 DEF StopCancelled, Stop, IdleAt
<1>8. CASE SkipPull
  BY <1>8 DEF SkipPull, NextTarget, flagVars, historyVars
<1>9. CASE BeginPull
  BY <1>9 DEF BeginPull, flagVars
<1>10. ASSUME NEW t \in Target, PullSucceeds(t) PROVE Remembered(s)' \/ lapsed'[s]
  BY <1>10 DEF PullSucceeds, Changes, Everywhere
<1>11. CASE PullFails
  BY <1>11 DEF PullFails, FailsPartly, NextTarget
<1>12. CASE PullFindsNothing
  BY <1>12 DEF PullFindsNothing, FailsPartly, NextTarget
<1>13. CASE EndPulls
  BY <1>13 DEF EndPulls, flagVars, historyVars
<1>14. CASE SkipPush
  BY <1>14 DEF SkipPush, Due, NextTarget, flagVars, historyVars
<1>15. ASSUME NEW t \in Target, PushSucceeds(t) PROVE Remembered(s)' \/ lapsed'[s]
  BY <1>15 DEF PushSucceeds, Pushing, NextTarget
<1>16. ASSUME NEW t \in Target, PushFails(t) PROVE Remembered(s)' \/ lapsed'[s]
  BY <1>16 DEF PushFails, Pushing, NextTarget, historyVars
<1>17. CASE EndPass
  BY <1>17 DEF EndPass, IdleAt, flagVars, historyVars
<1>18. CASE UNCHANGED vars
  BY <1>5, <1>18 DEF vars, historyVars
<1>19. CASE Interrupt
  BY <1>5, <1>19 DEF Interrupt, historyVars
<1>20. CASE Crash
  BY <1>20 DEF Crash
<1> QED
  BY <1>1, <1>2, <1>3, <1>4, <1>5, <1>6, <1>7, <1>8, <1>9, <1>10, <1>11, <1>12,
     <1>13, <1>14, <1>15, <1>16, <1>17, <1>18, <1>19, <1>20
     DEF Next, Loop, Environment, Terminated

\* Between two passes every target that lacks a change of the store is marked
\* for a retry, whichever pulls and pushes fail and however often the process
\* dies, or it lacks only what another target's failing pull had done before it
\* failed or what was under way at the death (runner.go processEvent, pull, push).
THEOREM UpdatesRemembered == Spec => []NoForgottenTarget
<1>1. Init => RetryInv
  BY DEF Init, RetryInv, Nowhere
<1>2. TypeOK /\ RetryInv => NoForgottenTarget
  BY DEF TypeOK, RetryInv, Remembered, NoForgottenTarget
<1> QED
  BY <1>1, <1>2, TypeCorrect, RetryStep, PTL DEF Spec
=============================================================================
