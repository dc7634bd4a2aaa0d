-------------------------------- MODULE CInt --------------------------------
(***************************************************************************)
(* C's int: a two's-complement integer in -(IntMax+1) .. IntMax.  An       *)
(* out-of-range result is undefined in C and wraps in the builds that gcc  *)
(* makes of this program.                                                  *)
(***************************************************************************)
EXTENDS Integers

CONSTANT IntMax   \* INT_MAX of the build

ASSUME IntAssumption == IntMax \in Nat \ {0}

Ints == -(IntMax + 1) .. IntMax

(* The value an int holds after x is stored in it. *)
ToInt(x) == ((x + IntMax + 1) % (2 * (IntMax + 1))) - (IntMax + 1)

(* C's remainder: the result has the sign of the dividend. *)
CRem(a, b) == IF a >= 0 THEN a % b ELSE 0 - ((0 - a) % b)
=============================================================================
