--------------------------- MODULE Parser_proofs ---------------------------
(***************************************************************************)
(* Proofs about the tokens the parser has in hand.  Whatever method runs,  *)
(* it moves the window by getToken or peekToken only, so what holds of     *)
(* these two holds of the parser.                                          *)
(***************************************************************************)
EXTENDS Parser, TLAPS

Tokens == [type : TokenType, location : Int]

WindowInv ==
  /\ source \in Seq(TokenType)
  /\ m_currentToken \in Tokens
  /\ m_peekedTokens \in Seq(Tokens)
  /\ WindowIsSource

WindowStep == getToken \/ peekAnother \/ UNCHANGED windowVars

\* The window is empty before the first token is pulled.
LEMMA WindowInitial == ASSUME WindowInit PROVE WindowInv /\ Stream!Init
BY TextsAssumption
DEF WindowInit, WindowInv, WindowIsSource, Cursor, NoToken, Token, Tokens,
    Stream!Init

\* Each method leaves the window alone, or gets a token, or looks at one more.
LEMMA DeclaringMovesWindow == ASSUME Declaring PROVE WindowStep
BY DEF Declaring, WindowStep, Calls, Throw, program, declarationList,
       declarations, declaration, declarationSwitch, typeSpec,
       variableDeclaration, declarator, functionDeclaration,
       functionParameters, voidParameters, parameterList, parameters,
       parameter, parameterKind

LEMMA StatingMovesWindow == ASSUME Stating PROVE WindowStep
BY DEF Stating, WindowStep, Calls, Throw, compoundStatement,
       localDeclarations, statementList, statement, expressionStatement,
       ifStatement, elsePart, whileStatement, returnStatement, returnValue

LEMMA ExpressingMovesWindow == ASSUME Expressing PROVE WindowStep
BY DEF Expressing, WindowStep, Calls, Throw, expression, expressionAtID, scan,
       scanned, assignmentExpression, variableExpression, subscript,
       relationalExpression, relation, additiveExpression, addends, term,
       factors, factor, noFactor, negativeLiteral, factorAtID, functionCall,
       functionArguments, argumentList, arguments

LEMMA StepMovesWindow == ASSUME [Next]_vars PROVE WindowStep
<1>1. ASSUME pull \/ match \/ peek \/ lexerException \/ error \/ make
      PROVE  WindowStep
  BY <1>1 DEF pull, match, Mismatch, peek, lexerException, error, make, Calls, Throw,
              WindowStep
<1>2. ASSUME UNCHANGED vars PROVE WindowStep
  BY <1>2 DEF vars, windowVars, WindowStep
<1> QED
  BY <1>1, <1>2, DeclaringMovesWindow, StatingMovesWindow,
     ExpressingMovesWindow DEF Next

\* getToken moves the cursor by one: the token it makes current is the next
\* one of the text, looked at before or not.
LEMMA GetAdvances ==
  ASSUME WindowInv, getToken PROVE WindowInv' /\ Stream!Advance
<1>1. CASE m_peekedTokens # << >>
  <2>1. /\ source' = source
        /\ m_currentToken' = Head(m_peekedTokens)
        /\ m_peekedTokens' = Tail(m_peekedTokens)
    BY <1>1 DEF getToken
  <2>2. /\ m_peekedTokens' \in Seq(Tokens)
        /\ Len(m_peekedTokens) \in Nat \ {0}
        /\ Len(m_peekedTokens') = Len(m_peekedTokens) - 1
        /\ \A i \in 1 .. Len(m_peekedTokens') :
             /\ m_peekedTokens'[i] = m_peekedTokens[i + 1]
             /\ i + 1 \in 1 .. Len(m_peekedTokens)
    <3>1. m_peekedTokens \in Seq(Tokens)
      BY DEF WindowInv
    <3> HIDE DEF Tokens
    <3> QED BY <1>1, <2>1, <3>1
  <2>3. /\ Cursor' = Cursor + 1
        /\ Cursor \in Nat
        /\ Cursor < Len(source)
    BY <2>1, <2>2 DEF WindowInv, WindowIsSource, Cursor
  <2>4. \A i \in 1 .. Len(m_peekedTokens) :
          m_peekedTokens[i] = Token(source[Cursor + i], Cursor + i)
    BY DEF WindowInv, WindowIsSource
  <2>5. m_currentToken' = Token(source'[Cursor'], Cursor')
    BY <2>1, <2>2, <2>3, <2>4 DEF WindowInv
  <2>6. \A i \in 1 .. Len(m_peekedTokens') :
          m_peekedTokens'[i] = Token(source'[Cursor' + i], Cursor' + i)
    <3> SUFFICES ASSUME NEW i \in 1 .. Len(m_peekedTokens')
                 PROVE  m_peekedTokens'[i]
                          = Token(source'[Cursor' + i], Cursor' + i)
      OBVIOUS
    <3>1. m_peekedTokens'[i] = Token(source[Cursor + (i + 1)], Cursor + (i + 1))
      BY <2>2, <2>4
    <3>2. Cursor + (i + 1) = Cursor' + i
      BY <2>2, <2>3
    <3> QED BY <2>1, <3>1, <3>2
  <2>7. m_currentToken' \in Tokens
    BY <2>1, <2>2 DEF WindowInv
  <2> QED
    BY <2>1, <2>2, <2>3, <2>5, <2>6, <2>7
    DEF WindowInv, WindowIsSource, Stream!Advance, Token
<1>2. CASE m_peekedTokens = << >>
  <2>1. PICK t \in TokenType :
          /\ source' = Append(source, t)
          /\ m_currentToken' = Token(t, Len(source'))
          /\ m_peekedTokens' = m_peekedTokens
    BY <1>2 DEF getToken, Lexes
  <2>2. /\ source' \in Seq(TokenType)
        /\ Len(source) \in Nat
        /\ Len(source') = Len(source) + 1
        /\ source'[Len(source) + 1] = t
    BY <2>1 DEF WindowInv
  <2>3. Cursor = Len(source) /\ Cursor' = Len(source')
    BY <1>2, <2>1, <2>2 DEF Cursor
  <2>4. m_currentToken' \in Tokens
    BY <2>1, <2>2 DEF Token, Tokens
  <2> QED
    BY <1>2, <2>1, <2>2, <2>3, <2>4
    DEF WindowInv, WindowIsSource, Stream!Advance, Stream!Lexed, Token
<1> QED BY <1>1, <1>2

\* Looking at one token more moves nothing.
LEMMA PeekOnlyLooks ==
  ASSUME WindowInv, peekAnother PROVE WindowInv' /\ Stream!LookAhead
<1>1. PICK t \in TokenType :
        /\ source' = Append(source, t)
        /\ m_peekedTokens' = Append(m_peekedTokens, Token(t, Len(source')))
        /\ m_currentToken' = m_currentToken
  BY DEF peekAnother, Lexes
<1>2. /\ source' \in Seq(TokenType)
      /\ Len(source) \in Nat
      /\ Len(source') = Len(source) + 1
      /\ source'[Len(source) + 1] = t
      /\ \A k \in 1 .. Len(source) : source'[k] = source[k]
  BY <1>1 DEF WindowInv
<1>3. Token(t, Len(source')) \in Tokens
  BY <1>2 DEF Token, Tokens
<1>4. /\ m_peekedTokens' \in Seq(Tokens)
      /\ Len(m_peekedTokens) \in Nat
      /\ Len(m_peekedTokens') = Len(m_peekedTokens) + 1
      /\ m_peekedTokens'[Len(m_peekedTokens) + 1] = Token(t, Len(source'))
      /\ \A i \in 1 .. Len(m_peekedTokens) :
           m_peekedTokens'[i] = m_peekedTokens[i]
  BY <1>1, <1>3 DEF WindowInv
<1>5. Cursor' = Cursor /\ Cursor \in Nat
  BY <1>2, <1>4 DEF Cursor, WindowInv, WindowIsSource
<1>6. \A i \in 1 .. Len(m_peekedTokens) :
        m_peekedTokens[i] = Token(source[Cursor + i], Cursor + i)
  BY DEF WindowInv, WindowIsSource
<1>7. \A i \in 1 .. Len(m_peekedTokens) : Cursor + i \in 1 .. Len(source)
  BY <1>2, <1>4, <1>5 DEF Cursor
<1>8. \A i \in 1 .. Len(m_peekedTokens') :
        m_peekedTokens'[i] = Token(source'[Cursor' + i], Cursor' + i)
  <2> SUFFICES ASSUME NEW i \in 1 .. Len(m_peekedTokens')
               PROVE  m_peekedTokens'[i] = Token(source'[Cursor' + i], Cursor' + i)
    OBVIOUS
  <2>1. CASE i \in 1 .. Len(m_peekedTokens)
    BY <2>1, <1>2, <1>4, <1>5, <1>6, <1>7
  <2>2. CASE i = Len(m_peekedTokens) + 1
    BY <2>2, <1>2, <1>4, <1>5 DEF Cursor
  <2> QED BY <1>4, <2>1, <2>2
<1>9. m_currentToken' = IF Cursor' = 0 THEN NoToken
                        ELSE Token(source'[Cursor'], Cursor')
  <2>1. Cursor # 0 => Cursor \in 1 .. Len(source)
    BY <1>2, <1>4, <1>5 DEF Cursor
  <2> QED
    BY <2>1, <1>1, <1>2, <1>5 DEF WindowInv, WindowIsSource
<1> QED
  BY <1>1, <1>2, <1>4, <1>5, <1>8, <1>9
  DEF WindowInv, WindowIsSource, Stream!LookAhead, Stream!Lexed

LEMMA WindowStays ==
  ASSUME WindowInv, UNCHANGED windowVars
  PROVE  WindowInv' /\ UNCHANGED << source, Cursor, m_currentToken >>
BY DEF windowVars, WindowInv, WindowIsSource, Cursor

LEMMA StepKeepsWindow ==
  ASSUME WindowInv, [Next]_vars
  PROVE  /\ WindowInv'
         /\ [Stream!Next]_<< source, Cursor, m_currentToken >>
<1>1. WindowStep
  BY StepMovesWindow
<1> QED
  BY <1>1, GetAdvances, PeekOnlyLooks, WindowStays DEF WindowStep, Stream!Next

\* Parser.cpp:662-685: at every moment of every parse, of any text, the
\* current token and those looked at are the tokens of the text from the
\* cursor on, in order and without a gap.
THEOREM WindowCorrect == Spec => []WindowInv
<1>1. Init => WindowInv
  BY WindowInitial DEF Init
<1>2. WindowInv /\ [Next]_vars => WindowInv'
  BY StepKeepsWindow
<1> QED BY <1>1, <1>2, PTL DEF Spec

\* Parser.hpp:81-92: the window implements a cursor that only getToken moves.
THEOREM WindowImplementsStream == Spec => WindowIsCursor
<1>1. Init => Stream!Init
  BY WindowInitial DEF Init
<1>2. WindowInv /\ [Next]_vars
        => [Stream!Next]_<< source, Cursor, m_currentToken >>
  BY StepKeepsWindow
<1> QED
  BY <1>1, <1>2, WindowCorrect, PTL DEF Spec, WindowIsCursor, Stream!Spec
=============================================================================
