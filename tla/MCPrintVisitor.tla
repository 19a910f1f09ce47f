--------------------------- MODULE MCPrintVisitor ---------------------------
(***************************************************************************)
(* Small programs for the printer: every kind of node, alone and below     *)
(* every kind of node that may hold it, in a function with parameters and  *)
(* in one without.                                                         *)
(***************************************************************************)
EXTENDS PrintVisitor

Read(x) == ImplicitCast(VariableExpr(x))

Leaves == {Read("p"), IntLiteral, Call("input", << >>)}

Element(x) == ImplicitCast(Subscript("q", x))

Operation(x, y) ==
  {Additive("PLUS", x, y), Multiplicative("MOD", x, y), Call("g", << Read("q"), x >>)}

Inner == Leaves \cup UNION {Operation(x, IntLiteral) \cup {Element(x)} : x \in Leaves}

Numbers == Inner \cup UNION {Operation(x, y) \cup {Element(x)} : x \in Inner, y \in Leaves}

Simple ==
  {ExpressionStmt(Assignment(VariableExpr("p"), x)) : x \in Inner} \cup
  {ExpressionStmt(Assignment(Subscript("q", x), FloatLiteral)) : x \in Leaves} \cup
  {ExpressionStmt(x) : x \in Numbers} \cup
  {EmptyStmt, ReturnValue(IntLiteral)}

Conditions == {BoolLiteral, Relational("LT", Read("p"), IntLiteral)}

Block(ss) == Compound(<< VariableDecl("l", Int32), ArrayDecl("k", "Int", 2) >>, ss)

Held == {EmptyStmt, Block(<< EmptyStmt >>), ReturnValue(Read("p"))}

Control ==
  {If(c, s) : c \in Conditions, s \in Held} \cup
  {IfElse(c, s, u) : c \in Conditions, s \in Held, u \in Held} \cup
  {While(c, s) : c \in Conditions, s \in Held} \cup
  {Block(<< s, u >>) : s \in Held, u \in Held}

FunctionG(ss) ==
  FunctionDecl("g", Int32, << ParamDecl("q", ArrayOf("Int")), ParamDecl("p", Int32) >>,
               Compound(<< >>, ss))

Main == FunctionDecl("main", Void, << >>, Compound(<< >>, << Return >>))

MCPrograms ==
  {ProgramNode(<< VariableDecl("a", Int32), FunctionG(<< s >>), Main >>) :
     s \in Simple \cup Control}
=============================================================================
