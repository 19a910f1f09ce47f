------------------------------- MODULE Parser -------------------------------
(***************************************************************************)
(* The recursive-descent parser (src/src/parser/Parser.cpp), one action    *)
(* per method, or per stretch of a method between two calls.               *)
(*                                                                         *)
(* The C++ call stack is the variable stack: the calls still to be made by *)
(* the active methods, the next one last.  vals holds their local          *)
(* variables, the tokens and trees they have in hand, in the order of the  *)
(* text.  A method that builds a node remembers in base how many values    *)
(* were there when it was called; all those after them go into its node.   *)
(*                                                                         *)
(* A lexeme is represented by the location of its token.  A node gets the  *)
(* location that the code gives it in the field loc.                       *)
(***************************************************************************)
EXTENDS TokenWindow, CMinusAST

VARIABLES
  stack,     \* the calls still to be made, the next one last
  vals,      \* tokens and trees the active methods hold
  thrown     \* the exception that left parse(), or "none"

vars == << text, source, m_currentToken, m_peekedTokens, stack, vals, thrown >>

Current == m_currentToken.type

----------------------------------------------------------------------------
\* Calls.
Do(method) == [op |-> method]

\* The rest of this call, after the calls listed before it.
Rest(method) == [op |-> method, base |-> Len(vals)]

Match(type) == [op |-> "match", expected |-> type]

Peek(index) == [op |-> "peek", index |-> index]

Make(kind, base) == [op |-> "make", kind |-> kind, base |-> base]

Scan(peek_idx, nest_level) ==
  [op |-> "scan", peek_idx |-> peek_idx, nest_level |-> nest_level,
   base |-> Len(vals)]

Top == Last(stack)

Doing(method) == stack # << >> /\ Top.op = method

Continue(tasks) == stack' = Front(stack) \o Reverse(tasks)

Calls(tasks) == Continue(tasks) /\ UNCHANGED << windowVars, vals, thrown >>

\* No method catches: the exception destroys every local variable.
Throw(exception) ==
  /\ thrown' = exception
  /\ stack' = << >> /\ vals' = << >>
  /\ UNCHANGED windowVars

----------------------------------------------------------------------------
\* Values.
TokenValue(token) ==
  [type |-> token.type, tree |-> << >>, location |-> token.location]

TreesOf(vs) ==
  LET trees == SelectSeq(vs, LAMBDA v : v.tree # << >>)
  IN  [i \in DOMAIN trees |-> trees[i].tree]

TypeNamed == [VOID |-> "Void", INT |-> "Int", FLOAT |-> "Float", BOOL |-> "Bool"]

TypeSpecifiers == DOMAIN TypeNamed

add_ops == {"PLUS", "MINUS"}

mul_ops == {"TIMES", "DIVIDE", "MOD"}

rel_ops == {"LT", "LTE", "GT", "GTE", "EQ", "NEQ"}

\* The node that a method makes of its values.
NewNode(kind, vs) ==
  LET ts == TreesOf(vs)
      id == vs[2].location
      base == TypeNamed[vs[1].type]
      isDecl(t) == t[1].kind \in DeclKinds
      isStmt(t) == ~isDecl(t)
  IN CASE kind = "Program"   -> ProgramNode(ts)
       [] kind = "Variable"  -> VariableDecl(id, Primitive(base))
       [] kind = "Array"     -> ArrayDecl(id, base, vs[4].location)
       [] kind = "Parameter" -> ParamDecl(id, Primitive(base))
       [] kind = "ArrayParameter" -> ParamDecl(id, ArrayOf(base))
       [] kind = "Function"  ->
            FunctionDecl(id, Primitive(base), Front(ts), Last(ts))
       [] kind = "Compound"  ->
            Compound(SelectSeq(ts, isDecl), SelectSeq(ts, isStmt))
       [] kind = "If"             -> If(ts[1], ts[2])
       [] kind = "IfElse"         -> IfElse(ts[1], ts[2], ts[3])
       [] kind = "While"          -> While(ts[1], ts[2])
       [] kind = "Return"         -> Return
       [] kind = "ReturnValue"    -> ReturnValue(ts[1])
       [] kind = "EmptyStmt"      -> EmptyStmt
       [] kind = "ExpressionStmt" -> ExpressionStmt(ts[1])
       [] kind = "Assignment"     -> Assignment(ts[1], ts[2])
       [] kind = "VariableExpr"   -> VariableExpr(vs[1].location)
       [] kind = "Subscript"      -> Subscript(vs[1].location, ts[1])
       [] kind = "ImplicitCast"   -> ImplicitCast(ts[1])
       [] kind = "Call"           -> Call(vs[1].location, ts)
       [] kind = "Additive"       -> Additive(vs[2].type, ts[1], ts[2])
       [] kind = "Multiplicative" -> Multiplicative(vs[2].type, ts[1], ts[2])
       [] kind = "Relational"     -> Relational(vs[2].type, ts[1], ts[2])
       [] kind = "INT_LITERAL"    -> IntLiteral
       [] kind = "FLOAT_LITERAL"  -> FloatLiteral
       [] kind \in {"TRUE", "FALSE"} -> BoolLiteral
       [] kind = "Parenthesised"  -> ts[1]

\* These nodes take the location of their first operand, the others that of
\* the first token their method matched.
LocatedAtChild ==
  {"ExpressionStmt", "Assignment", "ImplicitCast", "Additive",
   "Multiplicative", "Relational"}

\* A slip: a binary operation is located at its operator.
LocatedAtOperator(kind, vs) ==
  CASE kind = "Program" -> 0
    [] kind \in {"Additive", "Multiplicative", "Relational"} -> vs[2].location
    [] kind \in LocatedAtChild -> TreesOf(vs)[1][1].loc
    [] OTHER -> vs[1].location

NodeLocation(kind, vs) ==
  CASE kind = "Program" -> 0
    [] kind \in LocatedAtChild -> TreesOf(vs)[1][1].loc
    [] OTHER -> vs[1].location

\* Parentheses leave no node: their operand keeps its location.
Located(tree, location) ==
  [tree EXCEPT ![1] = tree[1] @@ [loc |-> location]]

TreeValue(kind, vs) ==
  [type |-> "tree",
   tree |-> Located(NewNode(kind, vs), NodeLocation(kind, vs))]

\* make_unique at the end of a method.
make ==
  /\ Doing("make")
  /\ LET vs == SubSeq(vals, Top.base + 1, Len(vals))
     IN  vals' = Append(SubSeq(vals, 1, Top.base), TreeValue(Top.kind, vs))
  /\ Continue(<< >>)
  /\ UNCHANGED << windowVars, thrown >>

\* getToken as a call of its own: parse() pulls the first token.
pull ==
  /\ Doing("getToken")
  /\ getToken
  /\ Continue(<< >>)
  /\ UNCHANGED << vals, thrown >>

\* The map of the names of the tokens lacks two of them.
token_types == TokenType \ {"TRUE", "FALSE"}

\* The exception of match names the token that it expected: map::at throws
\* when there is no name.
Mismatch(expected) ==
  Throw(IF expected \in token_types THEN "ParserException" ELSE "out_of_range")

match ==
  /\ Doing("match")
  /\ \/ /\ Current = Top.expected
        /\ getToken
        /\ vals' = Append(vals, TokenValue(m_currentToken))
        /\ Continue(<< >>)
        /\ UNCHANGED thrown
     \/ Current # Top.expected /\ Mismatch(Top.expected)

\* peekToken(index): token after token, until the window reaches index.
peek ==
  /\ Doing("peek")
  /\ \/ /\ Len(m_peekedTokens) < Top.index
        /\ peekAnother
        /\ UNCHANGED << stack, vals, thrown >>
     \/ /\ Len(m_peekedTokens) >= Top.index
        /\ Calls(<< >>)

\* The call needs a token from the lexer, which throws.
lexerException ==
  /\ \/ Doing("getToken")
     \/ Doing("match") /\ Current = Top.expected /\ m_peekedTokens = << >>
     \/ Doing("peek") /\ Len(m_peekedTokens) < Top.index
  /\ \E exception \in Unlexable : LexerThrows(exception) /\ Throw(exception)

\* throw error(...)
error == Doing("error") /\ Throw("ParserException")

----------------------------------------------------------------------------
\* Declarations.
program ==
  /\ Doing("program")
  /\ Calls(<< Do("declarationList"), Make("Program", Len(vals)) >>)

declarationList ==
  /\ Doing("declarationList")
  /\ Calls(<< Do("declaration"), Do("declarations") >>)

\* The condition of the do loop.
declarations ==
  /\ Doing("declarations")
  /\ \/ Current # "END_OF_FILE" /\ Calls(<< Do("declarationList") >>)
     \/ Current = "END_OF_FILE" /\ Calls(<< >>)

declaration ==
  /\ Doing("declaration")
  /\ Calls(<< Peek(2), Do("declarationSwitch") >>)

declarationSwitch ==
  /\ Doing("declarationSwitch")
  /\ LET third == peekToken(2).type
     IN  \/ third \in {"SEMI", "LBRACK"} /\ Calls(<< Do("variableDeclaration") >>)
         \/ third = "LPAREN" /\ Calls(<< Do("functionDeclaration") >>)
         \/ /\ third \notin {"SEMI", "LBRACK", "LPAREN"}
            /\ Calls(<< Do("typeSpec"), Match("ID"), Do("error") >>)

\* The token of the type is kept and the next one got, as match does.
typeSpec ==
  /\ Doing("typeSpec")
  /\ \/ Current \in TypeSpecifiers /\ Calls(<< Match(Current) >>)
     \/ Current \notin TypeSpecifiers /\ Throw("ParserException")

variableDeclaration ==
  /\ Doing("variableDeclaration")
  /\ Calls(<< Do("typeSpec"), Match("ID"), Rest("declarator") >>)

declarator ==
  /\ Doing("declarator")
  /\ \/ /\ Current = "LBRACK"
        /\ Calls(<< Match("LBRACK"), Match("INT_LITERAL"), Match("RBRACK"),
                    Match("SEMI"), Make("Array", Top.base) >>)
     \/ /\ Current # "LBRACK"
        /\ Calls(<< Match("SEMI"), Make("Variable", Top.base) >>)

functionDeclaration ==
  /\ Doing("functionDeclaration")
  /\ Calls(<< Do("typeSpec"), Match("ID"), Match("LPAREN"),
              Do("functionParameters"), Match("RPAREN"),
              Do("compoundStatement"), Make("Function", Len(vals)) >>)

\* A slip: an empty list needs no void.
functionParametersOrNone ==
  /\ Doing("functionParameters")
  /\ \/ Current = "VOID" /\ Calls(<< Peek(1), Do("voidParameters") >>)
     \/ Current = "RPAREN" /\ Calls(<< >>)
     \/ Current \notin {"VOID", "RPAREN"} /\ Calls(<< Do("parameterList") >>)

\* A slip: void is taken for the empty list without a look at what follows.
functionParametersUnpeeked ==
  /\ Doing("functionParameters")
  /\ \/ Current = "VOID" /\ Calls(<< Match("VOID") >>)
     \/ Current # "VOID" /\ Calls(<< Do("parameterList") >>)

functionParameters ==
  /\ Doing("functionParameters")
  /\ \/ Current = "VOID" /\ Calls(<< Peek(1), Do("voidParameters") >>)
     \/ Current # "VOID" /\ Calls(<< Do("parameterList") >>)

voidParameters ==
  /\ Doing("voidParameters")
  /\ \/ peekToken(1).type = "RPAREN" /\ Calls(<< Match("VOID") >>)
     \/ peekToken(1).type # "RPAREN" /\ Calls(<< Do("parameterList") >>)

parameterList ==
  /\ Doing("parameterList")
  /\ Calls(<< Do("parameter"), Do("parameters") >>)

parameters ==
  /\ Doing("parameters")
  /\ \/ /\ Current = "COMMA"
        /\ Calls(<< Match("COMMA"), Do("parameterList") >>)
     \/ Current # "COMMA" /\ Calls(<< >>)

parameter ==
  /\ Doing("parameter")
  /\ Calls(<< Do("typeSpec"), Match("ID"), Rest("parameterKind") >>)

parameterKind ==
  /\ Doing("parameterKind")
  /\ \/ /\ Current = "LBRACK"
        /\ Calls(<< Match("LBRACK"), Match("RBRACK"),
                    Make("ArrayParameter", Top.base) >>)
     \/ Current # "LBRACK" /\ Calls(<< Make("Parameter", Top.base) >>)

----------------------------------------------------------------------------
\* Statements.
compoundStatement ==
  /\ Doing("compoundStatement")
  /\ Calls(<< Match("LBRACE"), Do("localDeclarations"), Do("statementList"),
              Match("RBRACE"), Make("Compound", Len(vals)) >>)

localDeclarations ==
  /\ Doing("localDeclarations")
  /\ \/ /\ Current \in TypeSpecifiers
        /\ Calls(<< Do("variableDeclaration"), Do("localDeclarations") >>)
     \/ Current \notin TypeSpecifiers /\ Calls(<< >>)

\* A slip: at the end of the file the loop waits for the closing brace.
statementListAtEnd ==
  /\ Doing("statementList")
  /\ \/ /\ Current = "END_OF_FILE"
        /\ Calls(<< Do("statementList") >>)
     \/ /\ Current \notin {"RBRACE", "END_OF_FILE"}
        /\ Calls(<< Do("statement"), Do("statementList") >>)
     \/ Current = "RBRACE" /\ Calls(<< >>)

statementList ==
  /\ Doing("statementList")
  /\ \/ /\ Current # "RBRACE"
        /\ Calls(<< Do("statement"), Do("statementList") >>)
     \/ Current = "RBRACE" /\ Calls(<< >>)

StatementMethod ==
  [IF |-> "ifStatement", WHILE |-> "whileStatement",
   RETURN |-> "returnStatement", LBRACE |-> "compoundStatement"]

statement ==
  /\ Doing("statement")
  /\ \/ /\ Current \in DOMAIN StatementMethod
        /\ Calls(<< Do(StatementMethod[Current]) >>)
     \/ /\ Current \notin DOMAIN StatementMethod
        /\ Calls(<< Do("expressionStatement") >>)

expressionStatement ==
  /\ Doing("expressionStatement")
  /\ \/ /\ Current = "SEMI"
        /\ Calls(<< Match("SEMI"), Make("EmptyStmt", Len(vals)) >>)
     \/ /\ Current # "SEMI"
        /\ Calls(<< Do("expression"), Match("SEMI"),
                    Make("ExpressionStmt", Len(vals)) >>)

ifStatement ==
  /\ Doing("ifStatement")
  /\ Calls(<< Match("IF"), Match("LPAREN"), Do("expression"), Match("RPAREN"),
              Do("statement"), Rest("elsePart") >>)

elsePart ==
  /\ Doing("elsePart")
  /\ \/ /\ Current = "ELSE"
        /\ Calls(<< Match("ELSE"), Do("statement"),
                    Make("IfElse", Top.base) >>)
     \/ Current # "ELSE" /\ Calls(<< Make("If", Top.base) >>)

whileStatement ==
  /\ Doing("whileStatement")
  /\ Calls(<< Match("WHILE"), Match("LPAREN"), Do("expression"),
              Match("RPAREN"), Do("statement"), Make("While", Len(vals)) >>)

returnStatement ==
  /\ Doing("returnStatement")
  /\ Calls(<< Match("RETURN"), Rest("returnValue") >>)

returnValue ==
  /\ Doing("returnValue")
  /\ \/ /\ Current = "SEMI"
        /\ Calls(<< Match("SEMI"), Make("Return", Top.base) >>)
     \/ /\ Current # "SEMI"
        /\ Calls(<< Do("expression"), Match("SEMI"),
                    Make("ReturnValue", Top.base) >>)

----------------------------------------------------------------------------
\* Expressions.
expression ==
  /\ Doing("expression")
  /\ \/ Current = "ID" /\ Calls(<< Peek(1), Do("expressionAtID") >>)
     \/ Current # "ID" /\ Calls(<< Do("relationalExpression") >>)

expressionAtID ==
  /\ Doing("expressionAtID")
  /\ LET second == peekToken(1).type
     IN  \/ second = "ASSIGN" /\ Calls(<< Do("assignmentExpression") >>)
         \/ second = "LBRACK" /\ Calls(<< Scan(1, 0) >>)
         \/ /\ second \notin {"ASSIGN", "LBRACK"}
            /\ Calls(<< Do("relationalExpression") >>)

\* One turn of the loop that looks ahead for the closing bracket.  At the end
\* of the file it calls variableExpression, which is to throw; the loop is
\* left waiting for it.
scan ==
  /\ Doing("scan")
  /\ LET seen == peekToken(Top.peek_idx).type
         nest_level == CASE seen = "LBRACK" -> Top.nest_level + 1
                         [] seen = "RBRACK" -> Top.nest_level - 1
                         [] OTHER           -> Top.nest_level
         next == Peek(Top.peek_idx + 1)
     IN  \/ /\ seen = "END_OF_FILE"
            /\ Calls(<< Do("variableExpression"), next,
                        Scan(Top.peek_idx + 1, nest_level) >>)
         \/ /\ seen # "END_OF_FILE" /\ nest_level # 0
            /\ Calls(<< next, Scan(Top.peek_idx + 1, nest_level) >>)
         \/ /\ nest_level = 0
            /\ Calls(<< next, [op |-> "scanned", peek_idx |-> Top.peek_idx + 1] >>)

scanned ==
  /\ Doing("scanned")
  /\ \/ /\ peekToken(Top.peek_idx).type = "ASSIGN"
        /\ Calls(<< Do("assignmentExpression") >>)
     \/ /\ peekToken(Top.peek_idx).type # "ASSIGN"
        /\ Calls(<< Do("relationalExpression") >>)

assignmentExpression ==
  /\ Doing("assignmentExpression")
  /\ Calls(<< Do("variableExpression"), Match("ASSIGN"), Do("expression"),
              Make("Assignment", Len(vals)) >>)

variableExpression ==
  /\ Doing("variableExpression")
  /\ Calls(<< Match("ID"), Rest("subscript") >>)

\* A slip: the closing bracket of a subscript is not asked for.
subscriptLeftOpen ==
  /\ Doing("subscript")
  /\ \/ /\ Current = "LBRACK"
        /\ Calls(<< Match("LBRACK"), Do("expression"),
                    Make("Subscript", Top.base) >>)
     \/ Current # "LBRACK" /\ Calls(<< Make("VariableExpr", Top.base) >>)

subscript ==
  /\ Doing("subscript")
  /\ \/ /\ Current = "LBRACK"
        /\ Calls(<< Match("LBRACK"), Do("expression"), Match("RBRACK"),
                    Make("Subscript", Top.base) >>)
     \/ Current # "LBRACK" /\ Calls(<< Make("VariableExpr", Top.base) >>)

relationalExpression ==
  /\ Doing("relationalExpression")
  /\ Calls(<< Do("additiveExpression"), Rest("relation") >>)

relation ==
  /\ Doing("relation")
  /\ \/ /\ Current \in rel_ops
        /\ Calls(<< Match(Current), Do("additiveExpression"),
                    Make("Relational", Top.base) >>)
     \/ Current \notin rel_ops /\ Calls(<< >>)

additiveExpression ==
  /\ Doing("additiveExpression")
  /\ Calls(<< Do("term"), Rest("addends") >>)

\* A slip: the operations of a sum associate to the right.
addendsFromTheRight ==
  /\ Doing("addends")
  /\ \/ /\ Current \in add_ops
        /\ Calls(<< Match(Current), Do("additiveExpression"),
                    Make("Additive", Top.base) >>)
     \/ Current \notin add_ops /\ Calls(<< >>)

\* One turn of the loop: what was parsed so far is the left operand.
addends ==
  /\ Doing("addends")
  /\ \/ /\ Current \in add_ops
        /\ Calls(<< Match(Current), Do("term"), Make("Additive", Top.base),
                    [op |-> "addends", base |-> Top.base] >>)
     \/ Current \notin add_ops /\ Calls(<< >>)

term ==
  /\ Doing("term")
  /\ Calls(<< Do("factor"), Rest("factors") >>)

factors ==
  /\ Doing("factors")
  /\ \/ /\ Current \in mul_ops
        /\ Calls(<< Match(Current), Do("factor"),
                    Make("Multiplicative", Top.base),
                    [op |-> "factors", base |-> Top.base] >>)
     \/ Current \notin mul_ops /\ Calls(<< >>)

Literals == {"INT_LITERAL", "FLOAT_LITERAL", "TRUE", "FALSE"}

\* The default of the switch.
noFactor == Throw("ParserException")

factor ==
  /\ Doing("factor")
  /\ \/ /\ Current = "LPAREN"
        /\ Calls(<< Match("LPAREN"), Do("expression"), Match("RPAREN"),
                    Make("Parenthesised", Len(vals)) >>)
     \/ /\ Current \in Literals
        /\ Calls(<< Match(Current), Make(Current, Len(vals)) >>)
     \/ /\ Current = "MINUS"
        /\ Calls(<< Match("MINUS"), Rest("negativeLiteral") >>)
     \/ /\ Current = "ID"
        /\ Calls(<< Peek(1), Do("factorAtID") >>)
     \/ Current \notin Literals \cup {"LPAREN", "MINUS", "ID"} /\ noFactor

negativeLiteral ==
  /\ Doing("negativeLiteral")
  /\ \/ /\ Current \in {"INT_LITERAL", "FLOAT_LITERAL"}
        /\ Calls(<< Match(Current), Make(Current, Top.base) >>)
     \/ /\ Current \notin {"INT_LITERAL", "FLOAT_LITERAL"}
        /\ Throw("ParserException")

factorAtID ==
  /\ Doing("factorAtID")
  /\ \/ /\ peekToken(1).type = "LPAREN"
        /\ Calls(<< Do("functionCall") >>)
     \/ /\ peekToken(1).type # "LPAREN"
        /\ Calls(<< Do("variableExpression"), Make("ImplicitCast", Len(vals)) >>)

functionCall ==
  /\ Doing("functionCall")
  /\ Calls(<< Match("ID"), Match("LPAREN"), Do("functionArguments"),
              Match("RPAREN"), Make("Call", Len(vals)) >>)

functionArguments ==
  /\ Doing("functionArguments")
  /\ \/ Current = "RPAREN" /\ Calls(<< >>)
     \/ Current # "RPAREN" /\ Calls(<< Do("argumentList") >>)

argumentList ==
  /\ Doing("argumentList")
  /\ Calls(<< Do("expression"), Do("arguments") >>)

arguments ==
  /\ Doing("arguments")
  /\ \/ Current = "COMMA" /\ Calls(<< Match("COMMA"), Do("argumentList") >>)
     \/ Current # "COMMA" /\ Calls(<< >>)

----------------------------------------------------------------------------
Declaring ==
  \/ program \/ declarationList \/ declarations \/ declaration
  \/ declarationSwitch \/ typeSpec \/ variableDeclaration \/ declarator
  \/ functionDeclaration \/ functionParameters \/ voidParameters
  \/ parameterList \/ parameters \/ parameter \/ parameterKind

Stating ==
  \/ compoundStatement \/ localDeclarations \/ statementList \/ statement
  \/ expressionStatement \/ ifStatement \/ elsePart \/ whileStatement
  \/ returnStatement \/ returnValue

Expressing ==
  \/ expression \/ expressionAtID \/ scan \/ scanned
  \/ assignmentExpression \/ variableExpression \/ subscript
  \/ relationalExpression \/ relation \/ additiveExpression \/ addends
  \/ term \/ factors \/ factor \/ negativeLiteral \/ factorAtID
  \/ functionCall \/ functionArguments \/ argumentList \/ arguments

Next ==
  \/ pull \/ match \/ peek \/ lexerException \/ error \/ make
  \/ Declaring \/ Stating \/ Expressing

\* parse()
Init ==
  /\ WindowInit
  /\ stack = << Do("program"), Do("getToken") >>
  /\ vals = << >>
  /\ thrown = "none"

\* One thread parses.
Spec == Init /\ [][Next]_vars /\ WF_vars(Next)

----------------------------------------------------------------------------
Finished == stack = << >>

\* parse() has returned the tree of a program.
Accepted == Finished /\ thrown = "none"

Parsed == vals[1].tree
=============================================================================
