------------------------- MODULE MCSemanticVisitor -------------------------
(***************************************************************************)
(* Small programs for the semantic pass.  Every kind of declaration is     *)
(* global, and main is one statement that uses them: every operator on     *)
(* every pair of operand types, and every nesting of statements.           *)
(***************************************************************************)
EXTENDS SemanticVisitor

IntA   == VariableDecl("a", Int32)
BoolC  == VariableDecl("c", Bool)
FloatR == VariableDecl("r", Float)
ArrayV == ArrayDecl("v", "Int", 3)

Read(x) == ImplicitCast(VariableExpr(x))

FunctionOf(ty, ps, s) == FunctionDecl("g", ty, ps, Compound(<< >>, << s >>))

FunctionG ==
  FunctionOf(Int32, << ParamDecl("p", Int32), ParamDecl("q", ArrayOf("Int")) >>,
             ReturnValue(Read("p")))

MainIs(ty, ls, ss) == FunctionDecl("main", ty, << >>, Compound(ls, ss))

WithMain(s) == ProgramNode(<< IntA, BoolC, FloatR, ArrayV, FunctionG,
                              MainIs(Void, << >>, << s >>) >>)

(***************************************************************************)
(* Expressions, one or two operators deep.                                 *)
(***************************************************************************)
Operands ==
  {IntLiteral, FloatLiteral, BoolLiteral, Read("v"), Read("g"),
   Call("output", << IntLiteral >>), Call("r", << FloatLiteral >>)}

Operations ==
  {Additive("PLUS", x, y) : x \in Operands, y \in Operands} \cup
  {Relational(op, x, y) : op \in {"LT", "EQ"}, x \in Operands, y \in Operands}

Lvalues == {VariableExpr(x) : x \in {"a", "v", "g"}} \cup
           {Subscript(x, y) : x \in {"a", "v", "g"}, y \in Operands}

Calls ==
  {Call("g", << x, y >>) : x \in Operands, y \in Operands} \cup
  {Call(f, << >>) : f \in {"g", "input", "a", "v"}}

Nested ==
  {Assignment(l, x) : l \in Lvalues, x \in Operands} \cup
  {Multiplicative("TIMES", x, IntLiteral) : x \in Operations} \cup
  {Assignment(VariableExpr("c"), Relational("LTE", Read("a"), x)) : x \in Operands}

Statements1 ==
  {ExpressionStmt(x) : x \in Operations \cup Calls \cup Nested} \cup
  {If(x, EmptyStmt) : x \in Operands} \cup {While(x, EmptyStmt) : x \in Operands} \cup
  {ReturnValue(x) : x \in Operands}

ExpressionPrograms == {WithMain(s) : s \in Statements1}

(***************************************************************************)
(* Statements: what falls through and what returns.                        *)
(***************************************************************************)
Leaves == {EmptyStmt, ReturnValue(IntLiteral)}

Once(S) ==
  {If(BoolLiteral, s) : s \in S} \cup {While(BoolLiteral, s) : s \in S} \cup
  {IfElse(BoolLiteral, s, u) : s \in S, u \in S} \cup
  {Compound(<< >>, << s >>) : s \in S} \cup
  {Compound(<< >>, << s, u >>) : s \in S, u \in S} \cup {Compound(<< >>, << >>)}

Bodies == Once(Leaves) \cup Leaves \cup
          {IfElse(BoolLiteral, s, u) : s \in Once(Leaves), u \in Once(Leaves)} \cup
          {Compound(<< >>, << s, u >>) : s \in Once(Leaves), u \in Leaves}

ControlPrograms ==
  {ProgramNode(<< FunctionOf(Int32, << >>, s), MainIs(Void, << >>, << Return >>) >>) :
     s \in Bodies}

(***************************************************************************)
(* Declarations: void and empty ones, return types, and what is last.      *)
(***************************************************************************)
DeclarationPrograms ==
  {ProgramNode(<< MainIs(Int32, << >>, << Return >>), IntA >>),
   ProgramNode(<< IntA >>),
   ProgramNode(<< VariableDecl("main", Int32) >>),
   ProgramNode(<< ArrayDecl("main", "Void", 0) >>)} \cup
  {ProgramNode(<< FunctionOf(ty, << ParamDecl("p", pty) >>, s),
                  MainIs(Int32, ls, << ReturnValue(IntLiteral) >>) >>) :
     ty \in {Void, Bool},
     pty \in {Void, ArrayOf("Void"), ArrayOf("Bool"), Float},
     s \in {Return, EmptyStmt, ReturnValue(Read("p"))},
     ls \in {<< >>, << VariableDecl("l", Void), ArrayDecl("k", "Void", 0) >>,
             << ArrayDecl("k", "Float", 1) >>}}

\* Three nodes to a line, indented more and more: an error further down may be
\* further to the left or to the right.
MCSourceLocation(k) == [line_num |-> 1 + k \div 3, col_num |-> k + 5 * (k % 3)]

MCPrograms == ExpressionPrograms \cup ControlPrograms \cup DeclarationPrograms
=============================================================================
