----------------------------- MODULE MCReplies -----------------------------
(***************************************************************************)
(* Replies on the numbers and the texts that belong to an argument x: the  *)
(* ints x, -x-1, x squared and those as far from the ends of the range,    *)
(* and the texts of x characters.                                          *)
(***************************************************************************)
EXTENDS Replies, MCArguments

CONSTANT MaxText   \* bound: the characters of a text

ASSUME TextAssumption == MaxText \in 0 .. IntMax

IntsOf(x) == {x, -x - 1, x * x, IntMax - x, x - IntMax - 1} \cap Ints

(* The texts of x characters; among them are signs, digits and line ends. *)
TextsOf(x) == IF x > MaxText THEN {} ELSE [1 .. x -> {1, Minus, CR, LF, Other}]

(* What is stored as a text and replied as a text is the same in the end. *)
TextsSurvive ==
    /\ \A y \in IntsOf(argument) : NumberSurvives(y)
    /\ \A s \in TextsOf(argument) \cup {Nil} : TextSurvives(s)

(* Every buffer holds its text and the terminator.  INT_MIN is left out: it  *)
(* has no digits for ndigits, and its buffers are too small.                 *)
BuffersSuffice ==
    /\ \A y \in IntsOf(argument) \ {-(IntMax + 1)} : NumberFits(y)
    /\ argument <= IntMax =>
        LET s == [i \in 1 .. argument |-> Other]
        IN  /\ Fits(reply_string(s)) /\ Fits(reply_string(Nil))
            /\ Fits(reply_err_argc(argument, s))
            /\ Fits(reply_array([i \in 1 .. argument |-> <<>>]))
            /\ Fits(array_header(argument))
            /\ Fits(reply_array_n([i \in 1 .. argument |-> Nil]))
=============================================================================
