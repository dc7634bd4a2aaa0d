----------------------------- MODULE MCHashing -----------------------------
(***************************************************************************)
(* The hashing helpers on every size up to MaxArgument.                    *)
(***************************************************************************)
EXTENDS Hashing, MCArguments

(* htable_init and set_init get the least prime that is large enough. *)
SizesAreRight == NextPrimeAgrees(argument)

(* In a table that is made for a size a non-zero step visits every slot. *)
ProbesCoverAll == \A key \in Keys : ProbeCoversTable(key, next_prime(argument))
=============================================================================
