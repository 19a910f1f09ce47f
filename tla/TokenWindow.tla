---------------------------- MODULE TokenWindow ----------------------------
(***************************************************************************)
(* The tokens the parser has in hand (Parser.cpp:651-704): the current one *)
(* and the deque of those it has looked at beyond it.  What it has never   *)
(* looked at is still in the lexer, and a call of Lexer::getToken brings   *)
(* one token more, or an exception.                                        *)
(*                                                                         *)
(* A text is chosen as it is lexed.  Its shape is fixed: an opening, then  *)
(* as many tokens of an alphabet as it has free places, then a closing,    *)
(* and END_OF_FILE for ever after.  The location of a token is its index,  *)
(* which orders tokens as the lines and columns of the lexer do.           *)
(***************************************************************************)
EXTENDS Integers, Sequences

CONSTANTS
  TokenType,    \* the names of the enumeration
  Texts         \* the shapes of text

\* What leaves Lexer::getToken in place of a token: its own exception, or
\* that of std::stoi for a literal out of range.
Unlexable == {"LexerException", "out_of_range"}

Shape ==
  [opening : Seq(TokenType), alphabet : SUBSET (TokenType \cup Unlexable),
   free : Nat, closing : Seq(TokenType)]

ASSUME TextsAssumption == /\ "END_OF_FILE" \in TokenType
                          /\ Unlexable \cap TokenType = {}
                          /\ Texts \subseteq Shape

VARIABLES
  text,              \* the shape of the text
  source,            \* the types of the tokens the lexer has given
  m_currentToken,
  m_peekedTokens

windowVars == << text, source, m_currentToken, m_peekedTokens >>

Token(t, k) == [type |-> t, location |-> k]

NoToken == Token("END_OF_FILE", -1)

\* What the next lexeme of the text may be.
NextLexemes ==
  LET place == Len(source) + 1 - Len(text.opening)
      end   == place - text.free
  IN  CASE place < 1                      -> {text.opening[Len(source) + 1]}
        [] place >= 1 /\ end < 1          -> text.alphabet
        [] end \in 1 .. Len(text.closing) -> {text.closing[end]}
        [] OTHER                          -> {"END_OF_FILE"}

\* Lexer::getToken returns t.
Lexes(t) ==
  /\ t \in NextLexemes \ Unlexable
  /\ source' = Append(source, t)

\* Lexer::getToken throws the exception.
LexerThrows(exception) == exception \in NextLexemes \cap Unlexable

WindowInit ==
  /\ text \in Texts
  /\ source = << >>
  /\ m_currentToken = NoToken
  /\ m_peekedTokens = << >>

----------------------------------------------------------------------------
\* A slip: the token looked at last comes first.
getTokenFromTheBack ==
  /\ \/ /\ m_peekedTokens # << >>
        /\ m_currentToken' = m_peekedTokens[Len(m_peekedTokens)]
        /\ m_peekedTokens' = SubSeq(m_peekedTokens, 1, Len(m_peekedTokens) - 1)
        /\ UNCHANGED source
     \/ /\ m_peekedTokens = << >>
        /\ \E t \in TokenType :
             Lexes(t) /\ m_currentToken' = Token(t, Len(source'))
        /\ UNCHANGED m_peekedTokens
  /\ UNCHANGED text

\* A slip: the token stays in the window.
getTokenKept ==
  /\ \/ /\ m_peekedTokens # << >>
        /\ m_currentToken' = Head(m_peekedTokens)
        /\ UNCHANGED << source, m_peekedTokens >>
     \/ /\ m_peekedTokens = << >>
        /\ \E t \in TokenType :
             Lexes(t) /\ m_currentToken' = Token(t, Len(source'))
        /\ UNCHANGED m_peekedTokens
  /\ UNCHANGED text

getToken ==
  /\ \/ /\ m_peekedTokens # << >>
        /\ m_currentToken' = Head(m_peekedTokens)
        /\ m_peekedTokens' = Tail(m_peekedTokens)
        /\ UNCHANGED source
     \/ /\ m_peekedTokens = << >>
        /\ \E t \in TokenType :
             Lexes(t) /\ m_currentToken' = Token(t, Len(source'))
        /\ UNCHANGED m_peekedTokens
  /\ UNCHANGED text

\* One turn of the loop of peekToken(index).
peekAnother ==
  /\ \E t \in TokenType :
       /\ Lexes(t)
       /\ m_peekedTokens' = Append(m_peekedTokens, Token(t, Len(source')))
  /\ UNCHANGED << text, m_currentToken >>

\* peekToken(index) for index >= 1, once the window reaches that far.
peekToken(index) == m_peekedTokens[index]

----------------------------------------------------------------------------
(***************************************************************************)
(* The tokens in hand are a stretch of the text: the current one and, in   *)
(* the order of the text and none left out, those that follow it.          *)
(***************************************************************************)
Cursor == Len(source) - Len(m_peekedTokens)

WindowIsSource ==
  /\ Cursor \in Nat
  /\ m_currentToken =
       IF Cursor = 0 THEN NoToken ELSE Token(source[Cursor], Cursor)
  /\ \A i \in 1 .. Len(m_peekedTokens) :
       m_peekedTokens[i] = Token(source[Cursor + i], Cursor + i)

\* Looking ahead moves nothing: to the parser the window is a cursor in the
\* stream of tokens.
Stream ==
  INSTANCE TokenStream WITH cursor <- Cursor, current <- m_currentToken

WindowIsCursor == Stream!Spec
=============================================================================
