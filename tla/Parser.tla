------------------------------- MODULE Parser -------------------------------
(***************************************************************************)
(* The request parser of src/parser.c.  parse walks over a message twice:  *)
(* get_argc counts the tokens with a parser of its own, and the loop that  *)
(* copies the arguments takes as many tokens as were counted, without a    *)
(* look at what it gets.                                                   *)
(*                                                                         *)
(* A character is a blank (isspace), one of the two quotes, or another     *)
(* one, and a token is the sequence of its characters.  A call of          *)
(* get_next_token is one step.  Which names are commands is the table of   *)
(* strcmp's in parse; the interpreter runs the command that results.       *)
(***************************************************************************)
EXTENDS Integers, Sequences

CONSTANTS Letters,       \* the characters that are neither blanks nor quotes
          Blank,         \* stands for every character isspace accepts
          Quotes,        \* the two quotes
          NUL,           \* '\0'
          CommandNames,  \* the tokens that name commands
          NULL,          \* no token
          MaxLength      \* bound: the characters of a message

Chars == Letters \cup Quotes \cup {Blank}
Messages == UNION {[1 .. n -> Chars] : n \in 0 .. MaxLength}

ASSUME ParserAssumption ==
    /\ NUL \notin Letters \cup Quotes \cup {Blank}
    /\ Blank \notin Letters \cup Quotes /\ Letters \cap Quotes = {}
    /\ MaxLength \in Nat /\ NULL \notin Messages

VARIABLES string,   \* the message
          pos,      \* where the parser of parse is, from 0 on
          dup,      \* where the parser of get_argc is
          argc, token, type, argv,
          pc        \* "idle", "command", "count", "arguments" or "return"

vars == <<string, pos, dup, argc, token, type, argv, pc>>

-----------------------------------------------------------------------------
(* current_char of a parser at p. *)
CharAt(p) == IF p < Len(string) THEN string[p + 1] ELSE NUL

(* Broken variant: the end of the string is not looked for. *)
parser_advance_past(p) == p + 1

parser_advance(p) == IF p < Len(string) THEN p + 1 ELSE p

(* Where a loop that advances from p stops: at a character of Stop or at the *)
(* end of the string.                                                        *)
StopAt(p, Stop) ==
    CHOOSE q \in p .. Len(string) :
        /\ q = Len(string) \/ CharAt(q) \in Stop
        /\ \A r \in p .. (q - 1) : CharAt(r) \notin Stop

Found(first, last, next) == [token |-> SubSeq(string, first + 1, last), pos |-> next]

(* From a quote to the next one, of either kind, or to the end. *)
parse_string(p) ==
    LET q == StopAt(parser_advance(p), Quotes) IN Found(p + 1, q, parser_advance(q))

(* Broken variant: an identifier ends at a quote, too. *)
parse_id_quote(p) == LET q == StopAt(p, Quotes \cup {Blank}) IN Found(p, q, q)

(* Up to a blank or to the end; a quote inside is a character like others. *)
parse_id(p) == LET q == StopAt(p, {Blank}) IN Found(p, q, q)

(* The next token from p on, and where it ends; NULL at the end of the       *)
(* string.  A token in quotes may be empty.                                  *)
get_next_token(p) ==
    LET q == StopAt(p, Chars \ {Blank})
    IN  IF CharAt(q) = NUL THEN [token |-> NULL, pos |-> q]
        ELSE IF CharAt(q) \in Quotes THEN parse_string(q)
        ELSE parse_id(q)

-----------------------------------------------------------------------------
Init ==
    /\ pc = "idle" /\ string = <<>> /\ pos = 0 /\ dup = 0
    /\ argc = 0 /\ token = NULL /\ type = NULL /\ argv = <<>>

(* parse(msg), up to its first token. *)
Parse(msg) ==
    /\ pc = "idle" /\ pc' = "command"
    /\ string' = msg
    /\ UNCHANGED <<pos, dup, argc, token, type, argv>>

ParseCommand ==
    /\ pc = "command" /\ pc' = "count"
    /\ token' = get_next_token(pos).token /\ pos' = get_next_token(pos).pos
    /\ UNCHANGED <<string, dup, argc, type, argv>>

(* The loop of get_argc, on a parser that starts at 0 again. *)
CountToken ==
    /\ pc = "count" /\ get_next_token(dup).token # NULL
    /\ argc' = argc + 1 /\ dup' = get_next_token(dup).pos
    /\ UNCHANGED <<string, pos, token, type, argv, pc>>

(* Broken variant: the command is counted as an argument. *)
ChooseType_counted ==
    /\ pc = "count" /\ get_next_token(dup).token = NULL
    /\ type' = IF token \in CommandNames THEN token ELSE "unknown"
    /\ pc' = "arguments"
    /\ UNCHANGED <<string, pos, dup, argc, token, argv>>

(* get_argc returns one less than it counted; -1 makes a NOOP. *)
ChooseType ==
    /\ pc = "count" /\ get_next_token(dup).token = NULL
    /\ IF argc - 1 >= 0
       THEN /\ type' = IF token \in CommandNames THEN token ELSE "unknown"
            /\ argc' = argc - 1 /\ pc' = "arguments"
       ELSE type' = "noop" /\ argc' = 0 /\ pc' = "return"
    /\ UNCHANGED <<string, pos, dup, token, argv>>

(* Broken variant: the loop waits for an argument that it does not take. *)
ParseArgument_short ==
    /\ pc = "arguments" /\ Len(argv) < argc - 1
    /\ LET t == get_next_token(pos)
       IN  token' = t.token /\ pos' = t.pos /\ argv' = Append(argv, t.token)
    /\ UNCHANGED <<string, dup, argc, type, pc>>

(* strlen(token) and strcpy(args[i], token): a token is taken for granted. *)
ParseArgument ==
    /\ pc = "arguments" /\ Len(argv) < argc
    /\ LET t == get_next_token(pos)
       IN  token' = t.token /\ pos' = t.pos /\ argv' = Append(argv, t.token)
    /\ UNCHANGED <<string, dup, argc, type, pc>>

CommandDone ==
    /\ pc = "arguments" /\ Len(argv) = argc
    /\ pc' = "return"
    /\ UNCHANGED <<string, pos, dup, argc, token, type, argv>>

(* The parser is freed and the interpreter gets the command. *)
Return ==
    /\ pc = "return" /\ pc' = "idle"
    /\ string' = <<>> /\ pos' = 0 /\ dup' = 0
    /\ argc' = 0 /\ token' = NULL /\ type' = NULL /\ argv' = <<>>

Steps ==
    ParseCommand \/ CountToken \/ ChooseType \/ ParseArgument \/ CommandDone \/ Return

Next == Steps \/ \E msg \in Messages : Parse(msg)

Spec == Init /\ [][Next]_vars

(* parse is straight-line code of the one server thread. *)
FairSpec == Spec /\ WF_vars(Steps)

-----------------------------------------------------------------------------
(***************************************************************************)
(* The tokens of a message, without positions: one character after the     *)
(* other, in one of three modes.                                           *)
(***************************************************************************)
Between(tokens) == [mode |-> "between", open |-> <<>>, tokens |-> tokens]
Inside(mode, open, tokens) == [mode |-> mode, open |-> open, tokens |-> tokens]

Read(s, c) ==
    CASE s.mode = "between" /\ c = Blank -> s
      [] s.mode = "between" /\ c \in Quotes -> Inside("quoted", <<>>, s.tokens)
      [] s.mode = "between" /\ c \in Letters -> Inside("plain", <<c>>, s.tokens)
      [] \/ s.mode = "plain" /\ c = Blank
         \/ s.mode = "quoted" /\ c \in Quotes -> Between(Append(s.tokens, s.open))
      [] OTHER -> Inside(s.mode, Append(s.open, c), s.tokens)

(* The state after each number of characters. *)
Reading(msg) ==
    LET after[n \in 0 .. Len(msg)] ==
            IF n = 0 THEN Between(<<>>) ELSE Read(after[n - 1], msg[n])
    IN  after

(* The tokens if the message ends here; the end closes an open one. *)
Closed(s) == IF s.mode = "between" THEN s.tokens ELSE Append(s.tokens, s.open)

TokensOf(msg) == Closed(Reading(msg)[Len(msg)])

(* Type invariant: no parser leaves its string, and the command that is      *)
(* handed over is complete.                                                  *)
TypeOK ==
    /\ string \in Seq(Chars) /\ Len(string) <= MaxLength
    /\ {pos, dup} \subseteq 0 .. Len(string)
    /\ argc \in 0 .. Len(string) /\ Len(argv) <= argc
    /\ pc = "return" => Len(argv) = argc
    /\ pc \in {"idle", "command", "count", "arguments", "return"}

(* The count of one walk and the tokens of the other agree: parse never      *)
(* takes the length of a token that is not there, neither for the command    *)
(* nor for an argument.                                                      *)
WalksAgree ==
    /\ \A i \in DOMAIN argv : argv[i] # NULL
    /\ pc = "arguments" => token # NULL
    /\ pc = "return" => get_next_token(pos).token = NULL

(* The command is the first token of the message and the arguments are the   *)
(* others, whole and in order: nothing but blanks and the quotes around an   *)
(* argument is lost, and an argument in quotes keeps its blanks.             *)
TokensAreRight ==
    pc = "return" =>
        LET tokens == TokensOf(string)
        IN  IF tokens = <<>> THEN type = "noop"
            ELSE /\ argv = Tail(tokens)
                 /\ type = IF tokens[1] \in CommandNames THEN tokens[1] ELSE "unknown"

(* Every message is parsed in the end, whatever it consists of. *)
ParseEnds == pc # "idle" ~> pc = "idle"
=============================================================================
