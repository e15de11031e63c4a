---------------------------- MODULE MCReordering ----------------------------
(* Task identifiers are numbers, as in the service. *)
EXTENDS Reordering

FourHere == 11 .. 14
OneThere == {21}
=============================================================================
