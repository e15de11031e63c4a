------------------------------- MODULE Signal -------------------------------
(***************************************************************************)
(* What the Runner of app/runner.go promises about pulls, without channels, *)
(* goroutines and loops: a target that is due stays due until a pull of it  *)
(* begins.  Nothing is remembered across the end of the process, so a new   *)
(* process finds every target due.                                         *)
(***************************************************************************)
CONSTANT Target

VARIABLES
    due,        \* the targets that are still to be pulled
    pulling,    \* the target whose pull is under way, if any: a set
    up          \* the process runs, and has not been told to end

vars == <<due, pulling, up>>

Init == due = Target /\ pulling = {} /\ up = TRUE

\* A watcher has something to report, or a pull is to be repeated.
Raise == up /\ due \subseteq due' /\ due' \subseteq Target /\ UNCHANGED <<pulling, up>>

\* A later report may already be on its way: then the target stays due.
Begin(t) ==
    /\ up /\ pulling = {} /\ t \in due
    /\ pulling' = {t} /\ due' \in {due, due \ {t}} /\ UNCHANGED up

End == up /\ pulling # {} /\ pulling' = {} /\ UNCHANGED <<due, up>>

Down == up /\ up' = FALSE /\ due' = {} /\ pulling' = {}
Restart == up' = TRUE /\ due' = Target /\ pulling' = {}

Next == Raise \/ (\E t \in Target : Begin(t)) \/ End \/ Down \/ Restart
Spec == Init /\ [][Next]_vars

\* Stated without ENABLED, so that it can be checked of an implementation.
Served == \A t \in Target : t \in due ~> t \in pulling \/ ~up
FairSpec == Spec /\ Served
=============================================================================
