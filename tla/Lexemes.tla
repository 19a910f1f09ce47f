------------------------------ MODULE Lexemes ------------------------------
(***************************************************************************)
(* What the lexer promises: the tokens of a text, defined by the text      *)
(* alone, without a stream that is read, peeked at and put back to.        *)
(***************************************************************************)
EXTENDS Lexer

\* The column of the k-th character of the text: tab stops are four apart.
ColumnOf(k) ==
  LET column[j \in 0 .. k] ==
        IF j = 0 \/ text[j] = "\n" THEN 0
        ELSE CASE text[j] = "\t" -> 4 * (column[j - 1] \div 4 + 1)
               [] text[j] = "\r" -> column[j - 1]
               [] OTHER          -> column[j - 1] + 1
  IN  column[k]

Place(k) == [line |-> LineOf(k), col |-> ColumnOf(k)]

\* text[k .. j] may be a lexeme.
Lexical(k, j) ==
  LET rest == {text[m] : m \in k .. j}
      Pair(op) == << text[k], text[j] >> = << op, NextOrElse[op][1] >>
  IN  \/ is_alpha(text[k]) /\ \A ch \in rest : is_alphanum(ch) \/ ch = "_"
      \/ is_digit(text[k]) /\ \A ch \in rest : is_digit(ch) \/ ch \in {"_", "."}
      \/ k = j /\ text[k] \in Special
      \/ k + 1 = j /\ \E op \in DOMAIN NextOrElse : Pair(op)

\* The lexeme at k is the longest.
End(k) == Max({j \in k .. Len(text) : Lexical(k, j)})

TypeOf(k, j) ==
  LET lex == SubSeq(text, k, j)
  IN  CASE is_alpha(text[k]) -> IF lex \in keywords THEN "IF" ELSE "ID"
        [] is_digit(text[k]) ->
             IF Contains(lex, ".") THEN "FLOAT_LITERAL" ELSE "INT_LITERAL"
        [] text[k] = "/" -> "DIVIDE"
        [] text[k] \in DOMAIN Punctuators -> Punctuators[text[k]]
        [] text[k] \in DOMAIN NextOrElse ->
             NextOrElse[text[k]][IF j = k THEN 3 ELSE 2]

Number(k, j) == SelectSeq(SubSeq(text, k, j), LAMBDA ch : ch # "_")

\* The value of text[k .. j]: a number ends before its second dot.
ValueOf(k, j) ==
  LET num == Number(k, j)
      more == Dots(num) \ {m \in Dots(num) : Dots(SubSeq(num, 1, m - 1)) = {}}
  IN  CASE ~is_digit(text[k]) -> NoValue
        [] is_digit(text[k]) /\ more = {} -> num
        [] more # {} -> SubSeq(num, 1, Min(more) - 1)

\* Why the lexeme text[k .. j] is refused, or "none".
Fault(k, j) ==
  LET num == Number(k, j)
  IN  IF ~is_digit(text[k]) THEN "none"
      ELSE IF j < Len(text) /\ is_alpha(text[j + 1]) THEN "LexerException"
      ELSE IF Contains(num, ".")
        THEN IF Whole(BeforeDot(num)) > FloatMax THEN "LexerException" ELSE "none"
      ELSE IF Whole(num) > IntMax THEN "out_of_range" ELSE "none"

\* A comment at k ends with the first "*/" after its "/*", or with the text.
CommentEnd(k) ==
  LET ends == {j \in k + 3 .. Len(text) : text[j - 1] = "*" /\ text[j] = "/"}
  IN  IF ends = {} THEN Len(text) ELSE Min(ends)

\* The tokens of the text from k on, up to the end or the first fault.
RECURSIVE LexemesFrom(_)
LexemesFrom(k) ==
  LET Item(type, j) == [type |-> type, lexeme |-> SubSeq(text, k, j),
                        value |-> ValueOf(k, j),
                        line |-> LineOf(k), col |-> ColumnOf(k)]
  IN  IF k > Len(text) THEN << >>
      ELSE IF text[k] \in Whitespace THEN LexemesFrom(k + 1)
      ELSE IF text[k] = "/" /\ k < Len(text) /\ text[k + 1] = "*"
        THEN LexemesFrom(CommentEnd(k) + 1)
      ELSE IF ~Lexical(k, k) THEN << Item("LexerException", k) >>
      ELSE IF Fault(k, End(k)) # "none" THEN << Item(Fault(k, End(k)), k) >>
      ELSE << Item(TypeOf(k, End(k)), End(k)) >> \o LexemesFrom(End(k) + 1)

----------------------------------------------------------------------------
(***************************************************************************)
(* Between two calls of getToken, what it has returned is the tokens of    *)
(* the text, each the longest lexeme at its place, with the line and       *)
(* column of its first character and, for a literal, its value; white      *)
(* space and comments separate them and are no part of them.  An exception *)
(* names the first lexeme that is none, after all the tokens before it.    *)
(* Past the last token, and never before, getToken returns END_OF_FILE at  *)
(* every call, one column on.                                              *)
(***************************************************************************)
TokensAreText ==
  at = "idle" =>
    LET expected == LexemesFrom(1)
        isEnd(t) == t.type = "END_OF_FILE"
        notEnd(t) == t.type # "END_OF_FILE"
        lexed == SelectSeq(tokens, notEnd)
        ends == SelectSeq(tokens, isEnd)
    IN  /\ IsPrefix(lexed \o ends, tokens)
        /\ IsPrefix(lexed, expected)
        /\ ends # << >> => Len(lexed) = Len(expected)
        /\ \A i \in DOMAIN ends :
             << ends[i].line, ends[i].col >> =
               << LineOf(Len(text)), ColumnOf(Len(text)) + i >>
        /\ thrown # "none" =>
             /\ Len(expected) = Len(tokens) + 1
             /\ thrown = Last(expected).type
             /\ token = [line |-> Last(expected).line, col |-> Last(expected).col]

(***************************************************************************)
(* Every call of getToken ends, with a token or an exception, on every     *)
(* text: also inside a comment that is never closed.                       *)
(***************************************************************************)
Terminates == []<>(at = "idle")

----------------------------------------------------------------------------
(***************************************************************************)
(* Lexer.cpp:238 "If EOF is hit, put it back for getToken to hit": a       *)
(* comment that is left open ends with the file.                           *)
(***************************************************************************)
OpenCommentsEnd == at = "eatComment" ~> at # "eatComment"
=============================================================================
