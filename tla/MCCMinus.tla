------------------------------ MODULE MCCMinus ------------------------------
(***************************************************************************)
(* Whole compilations: programs that each pass accepts and that each pass  *)
(* rejects, under every kind of command line.                              *)
(***************************************************************************)
EXTENDS CMinus

MCName == {"input", "output", "a", "f", "g", "main"}

\* The largest tree has fewer nodes.
MCDeclId == 1 .. 40

MCMaxDecisions == 2

\* Three nodes to a line, indented more and more.
MCSourceLocation(k) == [line_num |-> 1 + k \div 3, col_num |-> k + 5 * (k % 3)]

\* An exit with 0 or 1, a command that is not found, two signals (1 is SIGHUP,
\* 9 SIGKILL), no child process at all.
MCWaitStatuses == {0, 1 * 256, 127 * 256, 1, 9, -1}

Read(x) == ImplicitCast(VariableExpr(x))

Calling(f) == ExpressionStmt(Call(f, << Read("a") >>))

Loop == While(Relational("LT", Read("a"), IntLiteral),
              Compound(<< VariableDecl("a", Int32) >>,
                       << ExpressionStmt(Assignment(VariableExpr("a"), Call("input", << >>))) >>))

\* Accepted; with a name undeclared or declared twice; ill-typed.
Stmts ==
  {Calling("output"), Calling("f"), Loop, Return,
   Calling("g"), Compound(<< VariableDecl("a", Int32), VariableDecl("a", Int32) >>, << >>),
   ReturnValue(IntLiteral), ExpressionStmt(Additive("PLUS", Read("a"), FloatLiteral)),
   If(Read("a"), Return)}

\* The last two are ill-typed: control falls out of one, the other is void.
Bodies ==
  {<< IfElse(Relational("EQ", Read("g"), Read("a")),
        ReturnValue(Multiplicative("MOD", Read("g"), IntLiteral)), ReturnValue(Read("a"))) >>,
   << Loop, ReturnValue(Call("f", << Read("a") >>)) >>,
   << Compound(<< ArrayDecl("g", "Int", 2) >>, << ReturnValue(ImplicitCast(Subscript("g", Read("a")))) >>),
      EmptyStmt >>,
   << Loop >>,
   << Return >>}

FunctionF(ss) ==
  FunctionDecl("f", Int32, << ParamDecl("g", Int32) >>, Compound(<< >>, ss))

Main1(s) == FunctionDecl("main", Void, << >>, Compound(<< >>, << s >>))

A == VariableDecl("a", Int32)

MCPrograms ==
  {ProgramNode(<< A, FunctionF(ss), Main1(s) >>) : ss \in Bodies, s \in Stmts} \cup
  {ProgramNode(<< A, FunctionF(<< ReturnValue(IntLiteral) >>), Main1(Return), A >>),
   ProgramNode(<< A >>)}

Path(stem, ext) == [stem |-> stem, ext |-> ext]

MCInvocations ==
  [malformed : {FALSE}, help : {FALSE},
   input : {Path("prog", ".c-"), Path("prog", ""), Stdin},
   output : {NoPath, Path("prog", "")}, emit_ast : BOOLEAN, emit_llvm : BOOLEAN] \cup
  {[malformed |-> malformed, help |-> help, input |-> input, output |-> NoPath,
    emit_ast |-> FALSE, emit_llvm |-> TRUE] :
     malformed \in BOOLEAN, help \in BOOLEAN, input \in {NoPath, Path("prog", ".ll")}} \cup
  {[malformed |-> FALSE, help |-> FALSE, input |-> temp_file, output |-> NoPath,
    emit_ast |-> FALSE, emit_llvm |-> FALSE]}
=============================================================================
