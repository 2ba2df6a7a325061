------------------------------ MODULE MCLexer ------------------------------
(***************************************************************************)
(* An instance of Lexer for TLC: one character of each kind, and a keyword *)
(* and a longer name that begins with it.                                  *)
(***************************************************************************)
EXTENDS Lexer

SomeMarks == {" ", "\n", "#", ".", "=", "!", "&", "(", "$"}
CommentMarks == {" ", "\n", "#", "("}
SomeKeyword == [s \in {<<"d", "o">>} |-> "DO"]
=============================================================================
