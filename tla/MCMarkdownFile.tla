--------------------------- MODULE MCMarkdownFile ---------------------------
(* MarkdownFile with a few saves and calls.  The clock may stand still at any *)
(* write, and stops after MaxTicks: from then on all writes share a time.     *)
EXTENDS MarkdownFile
=============================================================================
