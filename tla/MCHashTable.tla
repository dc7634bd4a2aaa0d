---------------------------- MODULE MCHashTable ----------------------------
(***************************************************************************)
(* HashTable on one-letter keys, with the hashes that helper.c computes    *)
(* for them: djb2("d") = 177573 + 'd' and sdbm("d") = 'd'.  Among the keys *)
(* are some whose step is 0 in a table of 2, 5 or 11 slots and some whose  *)
(* step never is.                                                          *)
(***************************************************************************)
EXTENDS HashTable

Code == [a |-> 97, b |-> 98, d |-> 100, g |-> 103, i |-> 105, w |-> 119]

MCdjb2 == [key \in Keys |-> 177573 + Code[key]]
MCsdbm == [key \in Keys |-> Code[key]]
=============================================================================
