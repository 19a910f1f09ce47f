-------------------------- MODULE MCCodegenVisitor --------------------------
(***************************************************************************)
(* Small programs for the code generator, of those that the passes before  *)
(* it accept: every nesting of two statements, with and without a loop     *)
(* around it, in a function that uses a parameter, a local and a global,   *)
(* and every form of expression.                                           *)
(***************************************************************************)
EXTENDS CodegenVisitor

MCMaxDecisions == 5

Read(x) == ImplicitCast(VariableExpr(x))

Assign(l, x) == ExpressionStmt(Assignment(l, x))

ReturnAs(ty) == IF ty = Void THEN Return ELSE ReturnValue(Read("p"))

(***************************************************************************)
(* Statements.  Conditions compare, so that they are not constants.        *)
(***************************************************************************)
Condition == Relational("LT", Read("p"), Read("a"))

InBlock(s) == Compound(<< VariableDecl("l", Int32) >>,
                     << Assign(VariableExpr("l"), Read("p")), s >>)

Once(S) ==
  {If(Condition, s) : s \in S} \cup {While(Condition, s) : s \in S} \cup
  {IfElse(Condition, s, u) : s \in S, u \in S} \cup
  {InBlock(s) : s \in S} \cup {Compound(<< >>, << s, u >>) : s \in S, u \in S}

Leaves(ty) == {Assign(VariableExpr("a"), Read("p")), ReturnAs(ty)}

Bodies(ty) ==
  LET inner == Leaves(ty) \cup Once(Leaves(ty))
      outer == inner \cup Once(inner)
  IN  outer \cup {While(Condition, s) : s \in outer} \cup {Compound(<< >>, << >>)}

Main(s) == FunctionDecl("main", Void, << >>, Compound(<< >>, << s >>))

FunctionG(ty, s) == FunctionDecl("g", ty, << ParamDecl("p", Int32) >>, Compound(<< >>, << s >>))

ControlPrograms ==
  {ProgramNode(<< VariableDecl("a", Int32), FunctionG(Void, s),
                  Main(ExpressionStmt(Call("g", << Read("a") >>))) >>) :
     s \in Bodies(Void)} \cup
  {ProgramNode(<< VariableDecl("a", Int32), FunctionG(Int32, s),
                  Main(ExpressionStmt(Call("g", << Read("a") >>))) >>) :
     s \in Bodies(Int32)}

(***************************************************************************)
(* Expressions: scalars and arrays that are global, local and parameters.  *)
(***************************************************************************)
Scalars == {Read("a"), Read("l"), Read("p"), IntLiteral, Call("input", << >>)}

Elements == {Subscript(x, i) : x \in {"v", "w", "q"}, i \in Scalars}

Expressions ==
  Scalars \cup {ImplicitCast(e) : e \in Elements} \cup
  {Assignment(e, x) : e \in Elements, x \in {Read("p"), Additive("PLUS", Read("l"), IntLiteral)}} \cup
  {Call("g", << Read(x), Multiplicative("TIMES", y, Read("a")) >>) :
     x \in {"v", "w", "q"}, y \in Scalars} \cup
  {Assignment(VariableExpr("a"), ImplicitCast(Subscript("q", ImplicitCast(Subscript("w", Read("p")))))),
   Relational("GTE", FloatLiteral, FloatLiteral), Relational("EQ", BoolLiteral, BoolLiteral),
   Call("output", << Call("g", << Read("q"), Call("input", << >>) >>) >>)}

ExpressionPrograms ==
  {ProgramNode(<< VariableDecl("a", Int32), ArrayDecl("v", "Int", 2),
                  FunctionDecl("g", Int32, << ParamDecl("q", ArrayOf("Int")), ParamDecl("p", Int32) >>,
                    Compound(<< VariableDecl("l", Int32), ArrayDecl("w", "Int", 2) >>,
                             << ExpressionStmt(x), ReturnValue(Read("l")) >>)),
                  Main(EmptyStmt) >>) : x \in Expressions}

MCPrograms ==
  {t \in ControlPrograms \cup ExpressionPrograms : WellTyped(t, Meaning(t).referents)}

\* A void function may return what a void expression yields.
VoidExpressions == {Call("output", << IntLiteral >>), Assignment(VariableExpr("a"), IntLiteral)}

MCVoidReturns ==
  {ProgramNode(<< VariableDecl("a", Int32), FunctionG(Void, s), Main(Return) >>) :
     s \in {Return} \cup {ReturnValue(x) : x \in VoidExpressions}}
=============================================================================
