------------------------------ MODULE MCParser ------------------------------
(***************************************************************************)
(* Texts for the parser.  Each family leaves some places of a text free,   *)
(* for any token of an alphabet: top-level declarations, the parameters of *)
(* a function, its locals, its statements, one statement's expression.     *)
(***************************************************************************)
EXTENDS Syntax

CONSTANT Free      \* the number of free places of each family

MCTokenType ==
  {"END_OF_FILE", "ERROR", "IF", "ELSE", "INT", "FLOAT", "BOOL", "VOID",
   "RETURN", "WHILE", "TRUE", "FALSE", "PLUS", "MINUS", "TIMES", "DIVIDE",
   "MOD", "LT", "LTE", "GT", "GTE", "EQ", "NEQ", "ASSIGN", "INCREMENT",
   "DECREMENT", "SEMI", "COMMA", "LPAREN", "RPAREN", "LBRACK", "RBRACK",
   "LBRACE", "RBRACE", "ID", "INT_LITERAL", "FLOAT_LITERAL"}

\* A text with any number of free places up to the given one.
Family(opening, alphabet, places, closing) ==
  {[opening |-> opening, alphabet |-> alphabet, free |-> f,
    closing |-> closing] : f \in 0 .. places}

FunctionStart == << "INT", "ID", "LPAREN" >>

BodyStart == << "VOID", "ID", "LPAREN", "VOID", "RPAREN", "LBRACE" >>

Anything == (MCTokenType \ {"END_OF_FILE"}) \cup Unlexable

TopLevel ==
  Family(<< >>, {"VOID", "INT", "ID", "LBRACK", "INT_LITERAL", "RBRACK",
                 "SEMI", "LPAREN", "RPAREN", "LBRACE", "RBRACE"},
         Free.topLevel, << >>)

ParameterLists ==
  Family(FunctionStart, {"VOID", "FLOAT", "ID", "LBRACK", "RBRACK", "COMMA",
                         "RPAREN", "LBRACE"},
         Free.parameters, << "RPAREN", "LBRACE", "RBRACE" >>)

Bodies ==
  Family(BodyStart, {"BOOL", "ID", "SEMI", "RETURN", "LBRACE", "RBRACE",
                     "ASSIGN", "TRUE"},
         Free.bodies, << "RBRACE" >>)

Branches ==
  Family(BodyStart \o << "IF", "LPAREN", "ID", "RPAREN" >>,
         {"IF", "ELSE", "WHILE", "LPAREN", "RPAREN", "FALSE", "SEMI",
          "LBRACE", "RBRACE"},
         Free.branches, << "SEMI", "RBRACE" >>)

Expressions ==
  Family(BodyStart, {"ID", "INT_LITERAL", "PLUS", "MINUS", "MOD", "LT",
                     "ASSIGN", "LPAREN", "RPAREN", "LBRACK", "RBRACK", "COMMA"},
         Free.expressions, << "SEMI", "RBRACE" >>)

\* The end of the file, or what the lexer refuses, wherever a subscript may be.
Subscripts ==
  Family(BodyStart \o << "ID", "LBRACK" >>,
         {"ID", "LBRACK", "RBRACK", "ASSIGN", "SEMI", "RBRACE"} \cup Unlexable,
         Free.subscripts, << >>)

AnyToken ==
  Family(BodyStart, Anything, Free.anything, << "SEMI", "RBRACE" >>) \cup
  Family(<< >>, Anything, Free.anything, << >>)

MCFree ==
  [topLevel |-> 7, parameters |-> 5, bodies |-> 5, branches |-> 6,
   expressions |-> 5, subscripts |-> 6, anything |-> 2]

MCTexts ==
  TopLevel \cup ParameterLists \cup Bodies \cup Branches \cup Expressions
  \cup Subscripts \cup AnyToken
=============================================================================
