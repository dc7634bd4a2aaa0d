------------------------------- MODULE MCList -------------------------------
(***************************************************************************)
(* List with the addresses of a few nodes and two values; indices and      *)
(* counts reach one beyond either end of the longest list.                 *)
(***************************************************************************)
EXTENDS List

MCIds == {-4, -3, -1, 0, 2, 3}
MCCounts == -2 .. 2
=============================================================================
