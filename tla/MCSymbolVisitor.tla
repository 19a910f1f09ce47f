-------------------------- MODULE MCSymbolVisitor --------------------------
(***************************************************************************)
(* Small programs for the symbol pass: a global, a function whose          *)
(* parameter, locals and nested blocks may all declare the same name, and  *)
(* a main that may call it, with uses of names before, inside and after    *)
(* the scopes that declare them.                                           *)
(***************************************************************************)
EXTENDS SymbolVisitor

MCName == {"input", "output", "a", "b", "f", "main"}

\* The largest tree has fewer nodes.
MaxNodes == 40

MCDeclId == 1 .. MaxNodes

LocalA == VariableDecl("a", Int32)
LocalB == ArrayDecl("b", "Int", 2)

Read(x) == ImplicitCast(VariableExpr(x))

UseA == ExpressionStmt(Read("a"))
CallF == ExpressionStmt(Call("f", << Read("a") >>))
CallOutput == ExpressionStmt(Call("output", << Read("a") >>))

Block(locals, stmts) == Compound(locals, stmts)

InnerBlocks ==
  {Block(ls, << UseA >>) : ls \in {<< >>, << LocalA >>}} \cup
  {Block(<< LocalA >>, << Block(<< VariableDecl("input", Int32) >>,
                             << ExpressionStmt(Call("input", << >>)) >>) >>)}

Stmts ==
  {UseA, CallF, CallOutput, Return} \cup InnerBlocks \cup
  {If(Relational("LT", Read("a"), IntLiteral), b) : b \in InnerBlocks} \cup
  {IfElse(BoolLiteral, Block(<< LocalA >>, << UseA >>), UseA),
   While(Read("a"), Block(<< LocalB >>,
           << ExpressionStmt(Assignment(Subscript("b", Read("a")),
                Additive("PLUS", FloatLiteral,
                  Multiplicative("TIMES", Read("a"), IntLiteral)))) >>))}

StmtLists ==
  {<< >>} \cup {<< s >> : s \in Stmts} \cup
  {<< s, UseA >> : s \in Stmts} \cup {<< CallF, s >> : s \in Stmts}

LocalLists == {<< >>, << LocalA >>, << LocalB, LocalA >>}

ParamLists == {<< >>, << ParamDecl("a", Int32) >>,
               << ParamDecl("f", Int32), ParamDecl("b", ArrayOf("Int")) >>}

GlobalLists == {<< >>, << LocalA >>}

FunctionF(ps, ls, ss) == FunctionDecl("f", Void, ps, Compound(ls, ss))

Main(s) == FunctionDecl("main", Int32, << >>, Compound(<< >>, << s >>))

RecursiveMain == Main(ExpressionStmt(Call("main", << >>)))

\* Programs that name nothing twice in a scope unless a parameter meets a
\* local, and use names that may be declared nowhere.
NestedPrograms ==
  {ProgramNode(gs \o << FunctionF(ps, ls, ss), Main(s) >>) :
     gs \in GlobalLists, ps \in ParamLists, ls \in LocalLists,
     ss \in StmtLists, s \in {CallF, Return}}

\* A declaration repeated: global, local, a builtin's name, a function's name,
\* two parameters; and a use that stands before its declaration.
FaultyPrograms ==
  {ProgramNode(ds \o << RecursiveMain >>) :
     ds \in {<< LocalA, LocalA >>,
             << VariableDecl("output", Int32) >>,
             << LocalA, FunctionF(<< >>, << LocalA, LocalB, LocalA >>, << UseA >>) >>,
             << VariableDecl("f", Bool), FunctionF(<< >>, << >>, << >>) >>,
             << FunctionF(<< ParamDecl("a", Int32), ParamDecl("a", Bool) >>,
                          << >>, << >>) >>,
             << FunctionDecl("input", Int32, << >>, Compound(<< >>, << >>)) >>,
             << Main(CallF), FunctionF(<< >>, << >>, << >>) >>,
             << FunctionF(<< >>, << >>, << UseA >>), LocalA >>}}

MCPrograms == NestedPrograms \cup FaultyPrograms
=============================================================================
