------------------------------- MODULE Lexer -------------------------------
(***************************************************************************)
(* The lexer (src/src/lexer/Lexer.cpp): getToken and the methods it calls, *)
(* over an istream that is read, peeked at and put back to.                *)
(*                                                                         *)
(* A text is a sequence of characters, strings of length one, apart from   *)
(* "eof": the char that int EOF is converted to, which is also the byte    *)
(* 0xFF of a text.  Whether that char equals EOF again depends on the      *)
(* signedness of char.                                                     *)
(***************************************************************************)
EXTENDS Integers, Sequences, SequencesExt

CONSTANTS
  Texts,           \* the texts to lex
  CharIsSigned,    \* char is signed, as it is on x86 and is not on ARM
  IntMax,          \* the largest int, 2^31 - 1 in the code
  FloatMax,        \* the largest float, as a whole number
  MaxColumn,       \* columns beyond this bound count as one
  ExtraCalls       \* calls of getToken after the end

ASSUME LexerAssumption == /\ Texts \subseteq Seq(STRING)
                          /\ CharIsSigned \in BOOLEAN
                          /\ IntMax \in Nat /\ FloatMax \in Nat
                          /\ MaxColumn \in Nat \ {0} /\ ExtraCalls \in Nat

VARIABLES
  text,        \* the source file
  in,          \* the istream, with the line and column it has been read to
  token,       \* m_tokenLineNum and m_tokenColNum
  at,          \* the method that is active
  c,           \* the char of getToken or of eatComment
  lexeme,      \* the lexeme of lexLiteral and lexKeywordID
  tokens,      \* what getToken has returned
  thrown       \* the exception that left getToken, or "none"

vars == << text, in, token, at, c, lexeme, tokens, thrown >>

Digits == [d \in {"0", "1", "9"} |-> IF d = "0" THEN 0 ELSE IF d = "1" THEN 1 ELSE 9]

is_digit(ch) == ch \in DOMAIN Digits

is_alpha(ch) == ch \in {"i", "f", "x"}

is_alphanum(ch) == is_alpha(ch) \/ is_digit(ch)

\* ch == EOF
IsEOF(ch) == ch = "eof" /\ CharIsSigned

Whitespace == {" ", "\t", "\n", "\r"}

----------------------------------------------------------------------------
(***************************************************************************)
(* The istream (external).  pos counts the characters read.  Reading at    *)
(* the end of the text gives EOF and sets eofbit, which makes every later  *)
(* operation fail; putback clears eofbit, yet not failbit.                 *)
(***************************************************************************)
Stream ==
  [pos : 0 .. Len(text), eofbit : BOOLEAN, failbit : BOOLEAN,
   line : Nat, col : Int]

good(s) == ~s.eofbit /\ ~s.failbit

AtEnd(s) == s.pos = Len(text)

\* The char that get and peek return.
Upcoming(s) == IF good(s) /\ ~AtEnd(s) THEN text[s.pos + 1] ELSE "eof"

get(s) ==
  IF good(s) /\ ~AtEnd(s) THEN [s EXCEPT !.pos = @ + 1]
  ELSE [s EXCEPT !.eofbit = TRUE, !.failbit = TRUE]

peek(s) ==
  IF ~good(s) THEN [s EXCEPT !.failbit = TRUE]
  ELSE [s EXCEPT !.eofbit = AtEnd(s)]

putback(s) ==
  IF s.failbit THEN [s EXCEPT !.eofbit = FALSE]
  ELSE [s EXCEPT !.eofbit = FALSE, !.pos = @ - 1]

----------------------------------------------------------------------------
\* A column, capped.
Column(n) == IF n > MaxColumn THEN MaxColumn ELSE n

\* The line and column after ch.
Counted(s, ch) ==
  CASE ch = "\n" -> [s EXCEPT !.line = @ + 1, !.col = 0]
    [] ch = "\t" -> [s EXCEPT !.col = Column(@ + 4 - (@ % 4))]
    [] ch = "\r" -> s
    [] OTHER     -> [s EXCEPT !.col = Column(@ + 1)]

\* getChar: white space is counted and skipped.  The next char and the
\* stream after it.
Visible(s) ==
  CHOOSE k \in s.pos .. Len(text) :
    /\ k = Len(text) \/ text[k + 1] \notin Whitespace
    /\ \A j \in s.pos + 1 .. k : text[j] \in Whitespace

SkipSpace(s) ==
  LET run[k \in s.pos .. Len(text)] ==
        IF k = s.pos THEN s ELSE Counted(run[k - 1], text[k])
  IN  IF good(s) THEN [run[Visible(s)] EXCEPT !.pos = Visible(s)] ELSE s

NextChar(s) == Upcoming(SkipSpace(s))

getChar(s) == get(Counted(SkipSpace(s), NextChar(s)))

peekChar(s) == Upcoming(s)

\* A slip: the column is taken back twice, by the method and its caller.
ungetCharTwice(s) == [putback(s) EXCEPT !.col = @ - 2]

ungetChar(s) == [putback(s) EXCEPT !.col = @ - 1]

----------------------------------------------------------------------------
Returns(type, lex, value) ==
  /\ tokens' = Append(tokens, [type |-> type, lexeme |-> lex, value |-> value,
                               line |-> token.line, col |-> token.col])
  /\ at' = "idle"
  /\ UNCHANGED << text, c, thrown >>

Throws(exception) ==
  /\ thrown' = exception
  /\ at' = "idle"
  /\ UNCHANGED << text, c, tokens >>

Goes(method) ==
  /\ at' = method
  /\ UNCHANGED << text, tokens, thrown >>

NoValue == << >>

Punctuators ==
  [ch \in {";", ",", "(", ")", "[", "]", "{", "}", "*", "%"} |->
     CASE ch = ";" -> "SEMI"   [] ch = "," -> "COMMA"
       [] ch = "(" -> "LPAREN" [] ch = ")" -> "RPAREN"
       [] ch = "[" -> "LBRACK" [] ch = "]" -> "RBRACK"
       [] ch = "{" -> "LBRACE" [] ch = "}" -> "RBRACE"
       [] ch = "*" -> "TIMES"  [] ch = "%" -> "MOD"]

\* The calls of nextOrElse: what to look for, and the token with it and without.
NextOrElse ==
  [ch \in {"+", "-", "=", "!", "<", ">"} |->
     CASE ch = "+" -> << "+", "INCREMENT", "PLUS" >>
       [] ch = "-" -> << "-", "DECREMENT", "MINUS" >>
       [] ch = "=" -> << "=", "EQ", "ASSIGN" >>
       [] ch = "!" -> << "=", "NEQ", "ERROR" >>
       [] ch = "<" -> << "=", "LTE", "LT" >>
       [] ch = ">" -> << "=", "GTE", "GT" >>]

\* The parser calls getToken, also after the end, and never after a throw.
call ==
  /\ at = "idle" /\ thrown = "none"
  /\ Len(SelectSeq(tokens, LAMBDA t : t.type = "END_OF_FILE")) <= ExtraCalls
  /\ Goes("getToken")
  /\ UNCHANGED << in, token, c, lexeme >>

\* getToken up to its switch.
getToken ==
  /\ at = "getToken"
  /\ c' = NextChar(in) /\ in' = getChar(in)
  /\ token' = [line |-> in'.line, col |-> in'.col]
  /\ Goes("switch")
  /\ UNCHANGED lexeme

Switch(chars) == at = "switch" /\ c \in chars /\ UNCHANGED << token, lexeme >>

endOfFile ==
  /\ IsEOF(c) /\ Switch({"eof"})
  /\ Returns("END_OF_FILE", << >>, NoValue)
  /\ UNCHANGED in

punctuator ==
  /\ Switch(DOMAIN Punctuators)
  /\ Returns(Punctuators[c], << c >>, NoValue)
  /\ UNCHANGED in

nextOrElse ==
  /\ Switch(DOMAIN NextOrElse)
  /\ \/ /\ peekChar(in) = NextOrElse[c][1]
        /\ in' = getChar(peek(in))
        /\ Returns(NextOrElse[c][2], << c, NextChar(in) >>, NoValue)
     \/ /\ peekChar(in) # NextOrElse[c][1]
        /\ in' = peek(in)
        /\ Returns(NextOrElse[c][3], << c >>, NoValue)

slash ==
  /\ Switch({"/"})
  /\ \/ /\ peekChar(in) = "*"
        /\ in' = getChar(peek(in))
        /\ Goes("openComment") /\ UNCHANGED c
     \/ /\ peekChar(in) # "*"
        /\ in' = peek(in)
        /\ Returns("DIVIDE", << "/" >>, NoValue)

Special ==
  DOMAIN Punctuators \cup DOMAIN NextOrElse \cup {"/"}

\* The default of the switch.
otherChar ==
  /\ at = "switch" /\ ~IsEOF(c) /\ c \notin Special
  /\ lexeme' = << >> /\ UNCHANGED token
  /\ \/ /\ ~is_alphanum(c)
        /\ UNCHANGED in
        /\ Throws("LexerException")
     \/ /\ is_alphanum(c)
        /\ in' = ungetChar(in)
        /\ Goes(IF is_digit(c) THEN "lexLiteral" ELSE "lexKeywordID")
        /\ UNCHANGED c

\* peekChar called again and again, as the loops of lexLiteral and
\* lexKeywordID do.
peeked(s) == peek(peek(s))

\* std::stoi and std::stof (external).  stof reads a prefix that is a number
\* and ignores the rest; both refuse what is out of range.
Whole(digits) == FoldLeft(LAMBDA n, d : 10 * n + Digits[d], 0, digits)

Dots(num) == {i \in DOMAIN num : num[i] = "."}

stof(num) ==
  LET prefixes == {n \in DOMAIN num :
                     Cardinality(Dots(SubSeq(num, 1, n))) <= 1}
  IN  SubSeq(num, 1, Max(prefixes))

BeforeDot(num) == SubSeq(num, 1, Min(Dots(num)) - 1)

literalEnd(lex) ==
  LET num == SelectSeq(lex, LAMBDA ch : ch # "_")
  IN  \/ /\ Dots(num) # {} /\ Whole(BeforeDot(num)) <= FloatMax
         /\ Returns("FLOAT_LITERAL", lex, stof(num))
      \/ /\ Dots(num) # {} /\ Whole(BeforeDot(num)) > FloatMax
         /\ Throws("LexerException")
      \/ /\ Dots(num) = {} /\ Whole(num) <= IntMax
         /\ Returns("INT_LITERAL", lex, num)
      \/ /\ Dots(num) = {} /\ Whole(num) > IntMax
         /\ Throws("out_of_range")

\* The next char goes to the lexeme.
Takes ==
  /\ lexeme' = Append(lexeme, NextChar(in))
  /\ in' = peeked(getChar(in))
  /\ UNCHANGED token

Following == peekChar(getChar(in))

\* One turn of the first loop, and what comes after its last turn.
lexLiteral ==
  /\ at = "lexLiteral" /\ Takes
  /\ \/ /\ Following \in {"_", "."} \/ is_digit(Following)
        /\ Goes("lexLiteral") /\ UNCHANGED c
     \/ /\ is_alpha(Following)
        /\ Goes("badLiteral") /\ UNCHANGED c
     \/ /\ Following \notin {"_", "."} /\ ~is_alphanum(Following)
        /\ literalEnd(lexeme')

\* One turn of the loop over the letters after a number.
badLiteral ==
  /\ at = "badLiteral" /\ Takes
  /\ \/ is_alphanum(Following) /\ Goes("badLiteral") /\ UNCHANGED c
     \/ ~is_alphanum(Following) /\ Throws("LexerException")

\* One of the ten keywords stands for all of them.
keywords == {<< "i", "f" >>}

lexKeywordID ==
  /\ at = "lexKeywordID" /\ Takes
  /\ \/ /\ is_alphanum(Following) \/ Following = "_"
        /\ Goes("lexKeywordID") /\ UNCHANGED c
     \/ /\ ~is_alphanum(Following) /\ Following # "_"
        /\ Returns(IF lexeme' \in keywords THEN "IF" ELSE "ID", lexeme', NoValue)

\* The first line of eatComment.
openComment ==
  /\ at = "openComment"
  /\ in' = getChar(in) /\ c' = NextChar(in)
  /\ Goes("eatComment")
  /\ UNCHANGED << token, lexeme >>

\* A slip: the char after a star is taken without being looked at.
eatCommentPairs ==
  /\ at = "eatComment"
  /\ \/ /\ IsEOF(c)
        /\ in' = ungetChar(in) /\ Goes("getToken") /\ UNCHANGED c
     \/ /\ c = "*" /\ NextChar(in) = "/"
        /\ in' = getChar(in) /\ Goes("getToken") /\ UNCHANGED c
     \/ /\ c = "*" /\ NextChar(in) # "/"
        /\ in' = getChar(in) /\ Goes("openComment") /\ UNCHANGED c
     \/ /\ ~IsEOF(c) /\ c # "*"
        /\ in' = getChar(in) /\ c' = NextChar(in)
        /\ Goes("eatComment")
  /\ UNCHANGED << token, lexeme >>

\* A slip: the end of the file does not end a comment.
eatCommentForEver ==
  /\ at = "eatComment"
  /\ \/ /\ c = "*" /\ peekChar(in) = "/"
        /\ in' = getChar(peek(in)) /\ Goes("getToken") /\ UNCHANGED c
     \/ /\ c # "*" \/ peekChar(in) # "/"
        /\ in' = getChar(in) /\ c' = NextChar(in)
        /\ Goes("eatComment")
  /\ UNCHANGED << token, lexeme >>

\* One turn of the loop; after the last getToken calls itself.
eatComment ==
  /\ at = "eatComment"
  /\ LET s == IF c = "*" THEN peek(in) ELSE in
     IN  \/ /\ IsEOF(c)
            /\ in' = ungetChar(in) /\ Goes("getToken") /\ UNCHANGED c
         \/ /\ c = "*" /\ peekChar(in) = "/"
            /\ in' = getChar(s) /\ Goes("getToken") /\ UNCHANGED c
         \/ /\ ~IsEOF(c) /\ (c # "*" \/ peekChar(in) # "/")
            /\ in' = getChar(s) /\ c' = NextChar(s)
            /\ Goes("eatComment")
  /\ UNCHANGED << token, lexeme >>

Lexing ==
  \/ getToken \/ endOfFile \/ punctuator \/ nextOrElse \/ slash \/ otherChar
  \/ lexLiteral \/ badLiteral \/ lexKeywordID
  \/ openComment \/ eatComment

Next == call \/ Lexing

Init ==
  /\ text \in Texts
  /\ in = [pos |-> 0, eofbit |-> FALSE, failbit |-> FALSE, line |-> 1, col |-> 0]
  /\ token = [line |-> 1, col |-> 0]
  /\ at = "idle"
  /\ c = "eof" /\ lexeme = << >>
  /\ tokens = << >>
  /\ thrown = "none"

\* getToken runs to its end, and the parser goes on calling it.
Spec == Init /\ [][Next]_vars /\ WF_vars(Next)

----------------------------------------------------------------------------
LexerTypeOK ==
  /\ in \in Stream
  /\ in.line >= token.line /\ token.col >= 0 /\ in.col >= 0
  /\ at \in {"idle", "getToken", "switch", "lexLiteral", "badLiteral",
             "lexKeywordID", "openComment", "eatComment"}
  /\ thrown \in {"none", "LexerException", "out_of_range"}
  /\ at = "eatComment" => IsEOF(c) \/ in.pos > 0

\* The line of the k-th character of the text.
LineOf(k) == 1 + Cardinality({j \in 1 .. k : text[j] = "\n"})
=============================================================================
