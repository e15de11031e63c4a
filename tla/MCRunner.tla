------------------------------ MODULE MCRunner ------------------------------
(* Runner with two targets, as main.go wires it with -providers=google_tasks: *)
(* target 1 is google_tasks, whose watcher is a ticker, target 2 markdown.    *)
EXTENDS Runner
=============================================================================
