------------------------------ MODULE MCLexer ------------------------------
(***************************************************************************)
(* Texts for the lexer: every short text of all the characters, and longer *)
(* ones of the characters that work together in comments, in numbers and   *)
(* names, and in the counting of lines and columns.                        *)
(***************************************************************************)
EXTENDS Lexemes

UpTo(n, chars) == UNION {[1 .. m -> chars] : m \in 0 .. n}

AllChars ==
  Special \cup Whitespace \cup {"i", "f", "1", "9", "_", ".", "#"}

MCTexts ==
  UpTo(2, AllChars) \cup
  UpTo(6, {"/", "*", "x", "\n"}) \cup
  UpTo(5, {"1", "9", "_", ".", "x"}) \cup
  UpTo(5, {"i", "f", "_", "=", " "}) \cup
  UpTo(4, {"\t", " ", "\n", "\r", "x", "/"})

OpenComments == {<< "/", "*", "x" >>}
=============================================================================
