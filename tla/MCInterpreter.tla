--------------------------- MODULE MCInterpreter ---------------------------
(* Constants for TLC.  Keys are alike, and so are names.                     *)
EXTENDS Interpreter, TLC

Symmetry == Permutations(Keys) \cup Permutations(Names)

(* A word, "1" and every kind of text that reads as a number it is not. *)
MCGiven == Words \cup {intostr(1), EMPTY, MINUS} \cup [int : Padded, zeros : {1}]
=============================================================================
