------------------------------ MODULE Grammar ------------------------------
(***************************************************************************)
(* The grammar of C- as the comments of Parser.cpp document it, apart from *)
(* the parser that implements it: which sequences of tokens are programs,  *)
(* and which tree a program stands for.                                    *)
(*                                                                         *)
(* A nonterminal is named after the method that parses it.  Left recursion *)
(* is turned round (list -> list item is list -> item list) and common     *)
(* beginnings are joined, which changes no sentence.                       *)
(***************************************************************************)
EXTENDS CMinusAST

TypeNames == {"INT", "FLOAT", "BOOL", "VOID"}

Relops == {"LT", "LTE", "GT", "GTE", "EQ", "NEQ"}

\* Alternatives that are a single token each.
Tokens(types) == {<< t >> : t \in types}

\* The productions of the comments, and what the methods of mulop and factor
\* accept besides: MOD, boolean and float literals, and a minus before a number.
Productions ==
  [program             |-> {<< "declaration", "declarations" >>},
   declarations        |-> {<< >>, << "declaration", "declarations" >>},
   declaration         |-> {<< "variableDeclaration" >>,
                            << "functionDeclaration" >>},
   variableDeclaration |-> {<< "typeSpec", "ID", "SEMI" >>,
                            << "typeSpec", "ID", "LBRACK", "INT_LITERAL",
                               "RBRACK", "SEMI" >>},
   typeSpec            |-> Tokens(TypeNames),
   functionDeclaration |-> {<< "typeSpec", "ID", "LPAREN", "params", "RPAREN",
                               "compoundStatement" >>},
   params              |-> {<< "VOID" >>, << "param", "moreParams" >>},
   moreParams          |-> {<< >>, << "COMMA", "param", "moreParams" >>},
   param               |-> {<< "typeSpec", "ID" >>,
                            << "typeSpec", "ID", "LBRACK", "RBRACK" >>},
   compoundStatement   |-> {<< "LBRACE", "localDeclarations",
                               "statementList", "RBRACE" >>},
   localDeclarations   |-> {<< >>, << "variableDeclaration",
                                      "localDeclarations" >>},
   statementList       |-> {<< >>, << "statement", "statementList" >>},
   statement           |-> {<< "expression", "SEMI" >>, << "SEMI" >>,
                            << "compoundStatement" >>,
                            << "IF", "LPAREN", "expression", "RPAREN",
                               "statement", "elsePart" >>,
                            << "WHILE", "LPAREN", "expression", "RPAREN",
                               "statement" >>,
                            << "RETURN", "SEMI" >>,
                            << "RETURN", "expression", "SEMI" >>},
   elsePart            |-> {<< >>, << "ELSE", "statement" >>},
   expression          |-> {<< "var", "ASSIGN", "expression" >>,
                            << "additive", "comparison" >>},
   comparison          |-> {<< >>, << "relop", "additive" >>},
   var                 |-> {<< "ID" >>,
                            << "ID", "LBRACK", "expression", "RBRACK" >>},
   relop               |-> Tokens(Relops),
   additive            |-> {<< "term", "moreTerms" >>},
   moreTerms           |-> {<< >>, << "addop", "term", "moreTerms" >>},
   addop               |-> Tokens({"PLUS", "MINUS"}),
   term                |-> {<< "factor", "moreFactors" >>},
   moreFactors         |-> {<< >>, << "mulop", "factor", "moreFactors" >>},
   mulop               |-> Tokens({"TIMES", "DIVIDE", "MOD"}),
   factor              |-> {<< "LPAREN", "expression", "RPAREN" >>,
                            << "var" >>,
                            << "ID", "LPAREN", "RPAREN" >>,
                            << "ID", "LPAREN", "expression", "moreArgs",
                               "RPAREN" >>,
                            << "MINUS", "INT_LITERAL" >>,
                            << "MINUS", "FLOAT_LITERAL" >>} \cup
                           Tokens({"INT_LITERAL", "FLOAT_LITERAL", "TRUE",
                                   "FALSE"}),
   moreArgs            |-> {<< >>, << "COMMA", "expression", "moreArgs" >>}]

----------------------------------------------------------------------------
(***************************************************************************)
(* The sentences of a grammar G.  A form is what may still follow: a       *)
(* sequence of symbols.  Expand rewrites it until it starts with a token.  *)
(***************************************************************************)
RECURSIVE Expand(_, _)
Expand(G, form) ==
  IF form = << >> \/ Head(form) \notin DOMAIN G THEN {form}
  ELSE UNION {Expand(G, p \o Tail(form)) : p \in G[Head(form)]}

\* The forms that may follow once the tokens ts have been read.
RECURSIVE FormsAfter(_, _)
FormsAfter(G, ts) ==
  IF ts = << >> THEN {<< "program" >>}
  ELSE {Tail(form) : form \in
          {e \in UNION {Expand(G, f) : f \in FormsAfter(G, Front(ts))} :
             e # << >> /\ Head(e) = Last(ts)}}

\* Some program starts with ts.
ViablePrefix(G, ts) == FormsAfter(G, ts) # {}

Derives(G, ts) ==
  \E form \in FormsAfter(G, ts) : << >> \in Expand(G, form)

----------------------------------------------------------------------------
(***************************************************************************)
(* The tree of a program.  An expression is split where its grammar splits *)
(* it: at the first assignment, else at the comparison, else at the last   *)
(* addop, else at the last mulop that no bracket encloses.  s[i .. j] are  *)
(* the tokens in question; a lexeme is named by its place in s.            *)
(***************************************************************************)
Opening == {"LPAREN", "LBRACK", "LBRACE"}
Closing == {"RPAREN", "RBRACK", "RBRACE"}

\* How many brackets are open before each token of s.
DepthIn(s) ==
  LET depth[k \in 0 .. Len(s)] ==
        IF k = 0 THEN 0
        ELSE depth[k - 1] + (IF s[k] \in Opening THEN 1
                             ELSE IF s[k] \in Closing THEN -1 ELSE 0)
  IN  [k \in 1 .. Len(s) |->
         IF s[k] \in Closing THEN depth[k] ELSE depth[k - 1]]

\* The places of i .. j that hold one of the types and lie in no bracket.
Places(s, i, j, types) ==
  {k \in i .. j : s[k] \in types /\ DepthIn(s)[k] = DepthIn(s)[i]}

\* A minus sign belongs to a literal unless an operand ends before it.
Binary(s, i, ks) ==
  {k \in ks : k > i /\
     s[k - 1] \in {"ID", "INT_LITERAL", "FLOAT_LITERAL", "TRUE", "FALSE"}
                    \cup Closing}

\* The stretches of s[i .. j] that its top-level commas separate.
Items(s, i, j) ==
  LET cuts == SetToSortSeq(Places(s, i, j, {"COMMA"}), LAMBDA a, b : a < b)
      ends == << i - 1 >> \o cuts \o << j + 1 >>
  IN  IF i > j THEN << >>
      ELSE [n \in 1 .. Len(ends) - 1 |-> << ends[n] + 1, ends[n + 1] - 1 >>]

RECURSIVE ExprTree(_, _, _)

VarTree(s, i, j) ==
  IF i = j THEN VariableExpr(i) ELSE Subscript(i, ExprTree(s, i + 2, j - 1))

ExprTree(s, i, j) ==
  LET assigns == Places(s, i, j, {"ASSIGN"})
      rels == Places(s, i, j, Relops)
      adds == Binary(s, i, Places(s, i, j, {"PLUS", "MINUS"}))
      muls == Places(s, i, j, {"TIMES", "DIVIDE", "MOD"})
      Split(Node(_, _, _), k) ==
        Node(s[k], ExprTree(s, i, k - 1), ExprTree(s, k + 1, j))
      args == Items(s, i + 2, j - 1)
  IN  IF assigns # {}
        THEN LET k == Min(assigns)
             IN  Assignment(VarTree(s, i, k - 1), ExprTree(s, k + 1, j))
      ELSE IF rels # {} THEN Split(Relational, Min(rels))
      ELSE IF adds # {} THEN Split(Additive, Max(adds))
      ELSE IF muls # {} THEN Split(Multiplicative, Max(muls))
      ELSE IF s[i] = "LPAREN" THEN ExprTree(s, i + 1, j - 1)
      ELSE IF s[j] = "INT_LITERAL" THEN IntLiteral
      ELSE IF s[j] = "FLOAT_LITERAL" THEN FloatLiteral
      ELSE IF s[j] \in {"TRUE", "FALSE"} THEN BoolLiteral
      ELSE IF i < j /\ s[i + 1] = "LPAREN"
        THEN Call(i, [n \in DOMAIN args |->
                        ExprTree(s, args[n][1], args[n][2])])
      ELSE ImplicitCast(VarTree(s, i, j))

\* The bracket that closes the one at i, and the first semicolon from i on.
Closer(s, i) ==
  Min({k \in i + 1 .. Len(s) :
         s[k] \in Closing /\ DepthIn(s)[k] = DepthIn(s)[i]})

Semicolon(s, i) == Min({k \in i .. Len(s) : s[k] = "SEMI"})

\* The last token of the statement that starts at i.  An else belongs to the
\* nearest if.
RECURSIVE EndOf(_, _)
EndOf(s, i) ==
  LET inner == EndOf(s, Closer(s, i + 1) + 1)
  IN  IF s[i] = "LBRACE" THEN Closer(s, i)
      ELSE IF s[i] = "WHILE" THEN inner
      ELSE IF s[i] # "IF" THEN Semicolon(s, i)
      ELSE IF s[inner + 1] = "ELSE" THEN EndOf(s, inner + 2) ELSE inner

TypeAt(s, i) ==
  [INT |-> "Int", FLOAT |-> "Float", BOOL |-> "Bool", VOID |-> "Void"][s[i]]

VariableTree(s, i) ==
  IF s[i + 2] = "LBRACK" THEN ArrayDecl(i + 1, TypeAt(s, i), i + 3)
  ELSE VariableDecl(i + 1, Primitive(TypeAt(s, i)))

\* The trees of the locals, then those of the statements, of s[i .. j].
RECURSIVE LocalTrees(_, _, _), StatementTrees(_, _, _)

LocalTrees(s, i, j) ==
  IF i > j \/ s[i] \notin TypeNames THEN << >>
  ELSE << VariableTree(s, i) >> \o LocalTrees(s, Semicolon(s, i) + 1, j)

BlockTree(s, i) ==
  LET j == Closer(s, i)
      locals == LocalTrees(s, i + 1, j - 1)
      starts[n \in 0 .. Len(locals)] ==
        IF n = 0 THEN i + 1 ELSE Semicolon(s, starts[n - 1]) + 1
  IN  Compound(locals, StatementTrees(s, starts[Len(locals)], j - 1))

StatementTree(s, i) ==
  LET j == EndOf(s, i)
      close == Closer(s, i + 1)
      condition == ExprTree(s, i + 2, close - 1)
      middle == EndOf(s, close + 1)
      inner == StatementTrees(s, close + 1, middle)[1]
  IN  CASE s[i] = "LBRACE" -> BlockTree(s, i)
        [] s[i] = "WHILE"  -> While(condition, inner)
        [] s[i] = "IF"     ->
             IF middle = j THEN If(condition, inner)
             ELSE IfElse(condition, inner, StatementTrees(s, middle + 2, j)[1])
        [] s[i] = "RETURN" ->
             IF j = i + 1 THEN Return ELSE ReturnValue(ExprTree(s, i + 1, j - 1))
        [] s[i] = "SEMI"   -> EmptyStmt
        [] OTHER           -> ExpressionStmt(ExprTree(s, i, j - 1))

StatementTrees(s, i, j) ==
  IF i > j THEN << >>
  ELSE << StatementTree(s, i) >> \o StatementTrees(s, EndOf(s, i) + 1, j)

ParamTree(s, i, j) ==
  ParamDecl(i + 1, [kind |-> IF j = i + 1 THEN "Primitive" ELSE "Array",
                    base |-> TypeAt(s, i)])

RECURSIVE DeclTrees(_, _)
DeclTrees(s, i) ==
  LET close == Closer(s, i + 2)
      params == IF s[i + 3] = "VOID" /\ close = i + 4 THEN << >>
                ELSE Items(s, i + 3, close - 1)
      function ==
        FunctionDecl(i + 1, Primitive(TypeAt(s, i)),
          [n \in DOMAIN params |-> ParamTree(s, params[n][1], params[n][2])],
          BlockTree(s, close + 1))
  IN  IF i > Len(s) THEN << >>
      ELSE IF s[i + 2] = "LPAREN"
        THEN << function >> \o DeclTrees(s, Closer(s, close + 1) + 1)
      ELSE << VariableTree(s, i) >> \o DeclTrees(s, Semicolon(s, i) + 1)

ProgramTree(s) == ProgramNode(DeclTrees(s, 1))
=============================================================================
