----------------------------- MODULE MCHashSet -----------------------------
(***************************************************************************)
(* HashSet on one-letter members with the hashes that helper.c computes    *)
(* for them; MCHashTable says which of them have a step of 0 and where.    *)
(***************************************************************************)
EXTENDS HashSet

Code == [a |-> 97, b |-> 98, d |-> 100, g |-> 103, i |-> 105, k |-> 107, w |-> 119]

MCdjb2 == [key \in Keys |-> 177573 + Code[key]]
MCsdbm == [key \in Keys |-> Code[key]]
=============================================================================
