---------------------------- MODULE TokenStream ----------------------------
(***************************************************************************)
(* What the parser may take its tokens for (Parser.hpp:81-92): a cursor    *)
(* that moves over the tokens of the text one at a time, and never back,   *)
(* however far ahead of it the parser has looked.                          *)
(***************************************************************************)
EXTENDS Integers, Sequences

VARIABLES
  source,    \* the types of the tokens lexed so far, in the order of the text
  cursor,    \* how many of them have been the current token
  current    \* the current token

Init ==
  /\ source = << >>
  /\ cursor = 0
  /\ current = [type |-> "END_OF_FILE", location |-> -1]

\* The next token of the text becomes known: another piece of it is lexed.
Lexed ==
  /\ Len(source') = Len(source) + 1
  /\ source' = Append(source, source'[Len(source) + 1])

Advance ==
  /\ cursor' = cursor + 1
  /\ IF cursor < Len(source) THEN UNCHANGED source ELSE Lexed
  /\ current' = [type |-> source'[cursor + 1], location |-> cursor + 1]

LookAhead == Lexed /\ UNCHANGED << cursor, current >>

Next == Advance \/ LookAhead

Spec == Init /\ [][Next]_<< source, cursor, current >>
=============================================================================
