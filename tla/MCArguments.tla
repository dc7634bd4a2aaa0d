---------------------------- MODULE MCArguments ----------------------------
(***************************************************************************)
(* The arguments of pure functions, each a state: 0, 1, ..., MaxArgument.  *)
(***************************************************************************)
EXTENDS Naturals

CONSTANT MaxArgument   \* bound: the largest argument tried

ASSUME ArgumentAssumption == MaxArgument \in Nat

VARIABLE argument

FirstArgument == argument = 0
NextArgument == argument < MaxArgument /\ argument' = argument + 1
Arguments == FirstArgument /\ [][NextArgument]_argument
=============================================================================
