------------------------------ MODULE MCParser ------------------------------
(***************************************************************************)
(* Parser on all messages over two letters, a blank and the two quotes;    *)
(* one letter is the name of a command.                                    *)
(***************************************************************************)
EXTENDS Parser

MCCommandNames == {<<"a">>}
=============================================================================
