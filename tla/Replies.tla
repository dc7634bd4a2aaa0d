------------------------------ MODULE Replies ------------------------------
(***************************************************************************)
(* Numbers as texts: the conversions of src/helper.c, the replies that     *)
(* src/interpreter.c formats and what src/client.c reads in them.          *)
(*                                                                         *)
(* A text is the sequence of its characters, without the terminator.  A    *)
(* digit stands for itself, Other for all that is not told apart.  What    *)
(* allocates returns a buffer, its text and the bytes allocated for it.    *)
(***************************************************************************)
EXTENDS CInt, SequencesExt

CONSTANT Nil   \* no text: NULL, and what the client shows for it

Digits == 0 .. 9
Minus == 10
CR == 11
LF == 12
Dollar == 13
Colon == 14
Star == 15
Other == 16

CRLF == <<CR, LF>>
Buffer(text, size) == [text |-> text, size |-> size]

-----------------------------------------------------------------------------
(* helper.c *)

(* Broken variant: the last digit is not counted. *)
ndigits_short(x) ==
    LET count[n \in Int] == IF n > 9 THEN 1 + count[n \div 10] ELSE 0
    IN  count[IF x < 0 THEN ToInt(-x) ELSE x]

(* The loop divides until nothing is left: 0 has no digits, and neither has  *)
(* INT_MIN, whose negation is itself.                                        *)
ndigits(x) ==
    LET count[n \in Int] == IF n > 0 THEN 1 + count[n \div 10] ELSE 0
    IN  count[IF x < 0 THEN ToInt(-x) ELSE x]

Negative(s) == s # <<>> /\ s[1] = Minus
Unsigned(s) == IF Negative(s) THEN Tail(s) ELSE s

(* The loops "n = n * 10 + digit" of strtoi and parse_int. *)
ReadDigits(s) ==
    LET read[i \in 0 .. Len(s)] == IF i = 0 THEN 0 ELSE ToInt(read[i - 1] * 10 + s[i])
    IN  read[Len(s)]

(* Nothing but digits after the sign: "" and "-" are numbers, too. *)
is_number(s) == \A i \in DOMAIN Unsigned(s) : Unsigned(s)[i] \in Digits

strtoi(s) ==
    IF Negative(s) THEN ToInt(-ReadDigits(Unsigned(s))) ELSE ReadDigits(s)

(* sprintf's %d *)
Printed(x) ==
    LET print[n \in Nat] == IF n < 10 THEN <<n>> ELSE Append(print[n \div 10], n % 10)
    IN  IF x < 0 THEN <<Minus>> \o print[-x] ELSE print[x]

intostr(x) == Buffer(Printed(x), ndigits(x) + 2)

-----------------------------------------------------------------------------
(* interpreter.c *)

reply_string(s) ==
    IF s = Nil THEN Buffer(<<Dollar, Minus, 1>> \o CRLF, 6)
    ELSE Buffer(<<Dollar>> \o Printed(Len(s)) \o CRLF \o s \o CRLF,
                Len(s) + ndigits(Len(s)) + 7)

reply_integer(x) == Buffer(<<Colon>> \o Printed(x) \o CRLF, ndigits(x) + 5)

(* An item that is a number is answered as an integer. *)
ArrayItem(s) ==
    IF s # Nil /\ is_number(s) THEN reply_integer(strtoi(s)) ELSE reply_string(s)

ItemsOf(arr) == FlattenSeq([i \in DOMAIN arr |-> ArrayItem(arr[i]).text])

(* The line that announces n items, which reply_array_n formats before it    *)
(* looks at them.                                                            *)
array_header(n) == Buffer(<<Star>> \o Printed(n) \o CRLF, ndigits(n) + 5)

(* The header's buffer grows with each item, which may be NULL. *)
reply_array_n(arr) ==
    LET text == array_header(Len(arr)).text \o ItemsOf(arr)
    IN  Buffer(text, IF arr = <<>> THEN array_header(0).size ELSE Len(text) + 1)

(* The items are put together before they are counted. *)
reply_array(arr) ==
    Buffer(<<Star>> \o Printed(Len(arr)) \o CRLF \o ItemsOf(arr),
           Len(ItemsOf(arr)) + ndigits(Len(arr)) + 5)

(* The words of the message are 52 characters. *)
reply_err_argc(given, expected) ==
    LET words == [i \in 1 .. 52 |-> Other]
    IN  Buffer(words \o Printed(given) \o expected,
               ndigits(given) + Len(expected) + 54)

-----------------------------------------------------------------------------
(* client.c *)

(* From the second character to the first CR. *)
IntField(resp) == SubSeq(resp, 2, SelectInSeq(resp, LAMBDA c : c = CR) - 1)

(* Broken variant: the sign of a number is not looked for. *)
parse_int_unsigned(resp) == ReadDigits(IntField(resp))

parse_int(resp) ==
    LET n == ReadDigits(Unsigned(IntField(resp)))
    IN  IF Negative(IntField(resp)) THEN ToInt(-n) ELSE n

(* The announced number of characters after the first LF. *)
parse_str(resp) ==
    LET n     == parse_int(resp)
        start == SelectInSeq(resp, LAMBDA c : c = LF)
    IN  IF n < 0 THEN Nil ELSE SubSeq(resp, start + 1, start + n)

(* All but the '-' and the line end. *)
parse_err(resp) == SubSeq(resp, 2, Len(resp) - 2)

(* What the client shows. *)
parse_resp(resp) ==
    CASE resp[1] = Dollar -> parse_str(resp)
      [] resp[1] = Colon  -> Printed(parse_int(resp))
      [] resp[1] = Minus  -> parse_err(resp)
      [] OTHER            -> Nil

-----------------------------------------------------------------------------
(* The number y and the text s are the same in the end: INCR reads the       *)
(* number it stored, the client shows the number and, with whatever          *)
(* characters, the string that it was sent.                                  *)
NumberSurvives(y) ==
    /\ is_number(Printed(y)) /\ strtoi(intostr(y).text) = y
    /\ parse_resp(reply_integer(y).text) = Printed(y)

TextSurvives(s) == parse_resp(reply_string(s).text) = s

(* A buffer holds its text and the terminator. *)
Fits(buffer) == Len(buffer.text) + 1 <= buffer.size

NumberFits(y) == Fits(intostr(y)) /\ Fits(reply_integer(y))
=============================================================================
