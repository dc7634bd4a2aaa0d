----------------------------- MODULE MCHelpers -----------------------------
(* Constants for TLC: a key is a pair of its two string hashes. *)
EXTENDS MCHashing, MCReplies

CONSTANT Hashes   \* the values the string hashes take

MCKeys == Hashes \X Hashes
MCdjb2 == [key \in MCKeys |-> key[1]]
MCsdbm == [key \in MCKeys |-> key[2]]
=============================================================================
