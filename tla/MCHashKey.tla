----------------------------- MODULE MCHashKey -----------------------------
(***************************************************************************)
(* HashKey with the fields and hashes of MCHashTable.                      *)
(***************************************************************************)
EXTENDS HashKey, MCHashTable
=============================================================================
