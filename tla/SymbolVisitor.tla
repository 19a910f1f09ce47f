--------------------------- MODULE SymbolVisitor ---------------------------
(***************************************************************************)
(* The symbol pass (src/src/symbol/SymbolVisitor.cpp): a walk of the tree  *)
(* that enters and leaves scopes of the symbol table and points every use  *)
(* of a name at its declaration, or throws.                                *)
(* Throwing unwinds the whole stack of visit calls.                        *)
(***************************************************************************)
EXTENDS SymbolTable, TreeWalk, FiniteSets

CONSTANT Programs   \* the trees the parser may hand over

ASSUME ProgramsAssumption ==
  \A t \in Programs :
    /\ IsProgram(t)
    /\ DOMAIN t \subseteq DeclId
    /\ \A n \in DeclsOf(t) \cup UsesOf(t) : t[n].name \in Name

VARIABLES
  referent,    \* SymbolUseNode::referent, where set
  nest_level,  \* Declaration::nest_level, where set
  raised       \* the exception that ended the pass, if one did

vars == << m_table, m_nestLevel, ast, stack, referent, nest_level, raised >>

NoException == [type |-> "none", node |-> 0]

SymbolTask == Task({"visit", "declare", "exitScope"})

Declare(n) == [op |-> "declare", node |-> n]
Exit(n)    == [op |-> "exitScope", node |-> n]

DeclareAll(ns) == [i \in DOMAIN ns |-> Declare(ns[i])]

Throw(type, n) ==
  /\ raised' = [type |-> type, node |-> n]
  /\ stack' = << >>
  /\ UNCHANGED << m_table, m_nestLevel, ast, referent, nest_level >>

Init ==
  /\ TableInit
  /\ ast \in Programs
  /\ stack = << Visit(1) >>
  /\ referent = << >>
  /\ nest_level = << >>
  /\ raised = NoException

VisitProgram ==
  /\ Visiting({"Program"})
  /\ Continue(DeclareAll(Kids(ast, Top.node)))
  /\ UNCHANGED << tableVars, ast, referent, nest_level, raised >>

\* A slip: a redeclaration takes over the uses of the name that it finds.
DeclareRelinking ==
  /\ Doing("declare", DeclKinds)
  /\ LET d == Top.node
         x == ast[d].name
     IN  \/ /\ insert(x, d)
            /\ nest_level' = Assigned(nest_level, d, getNestLevel)
            /\ referent' = [n \in DOMAIN referent |->
                             IF ast[n].name = x THEN d ELSE referent[n]]
            /\ Continue(<< Visit(d) >>)
            /\ UNCHANGED << ast, raised >>
         \/ /\ Declared(x)
            /\ Throw("MultipleDeclaredSymbol", d)

(***************************************************************************)
(* The body of the three loops over declarations (global, parameter,       *)
(* local): insert, record the nest level, accept.                          *)
(***************************************************************************)
DeclareNext ==
  /\ Doing("declare", DeclKinds)
  /\ LET d == Top.node
         x == ast[d].name
     IN  \/ /\ insert(x, d)
            /\ nest_level' = Assigned(nest_level, d, getNestLevel)
            /\ Continue(<< Visit(d) >>)
            /\ UNCHANGED << ast, referent, raised >>
         \/ /\ Declared(x)
            /\ Throw("MultipleDeclaredSymbol", d)

\* "Don't do anything": the enclosing scope has inserted it.
VisitVariable ==
  /\ Visiting({"Variable", "Array", "Parameter"})
  /\ Continue(<< >>)
  /\ UNCHANGED << tableVars, ast, referent, nest_level, raised >>

VisitFunction ==
  /\ Visiting({"Function"})
  /\ enterScope
  /\ Continue(DeclareAll(Parameters(ast, Top.node)) \o
              << Visit(Body(ast, Top.node)), Exit(Top.node) >>)
  /\ UNCHANGED << ast, referent, nest_level, raised >>

\* A slip: the flag of a function's body guards the exit only.
VisitCompoundUnbalanced ==
  /\ Visiting({"Compound"})
  /\ LET n == Top.node
         inside == DeclareAll(LocalDecls(ast, n)) \o
                   VisitAll(Statements(ast, n))
     IN  /\ enterScope
         /\ Continue(inside \o IF ast[n].is_function_body THEN << >> ELSE << Exit(n) >>)
  /\ UNCHANGED << ast, referent, nest_level, raised >>

VisitCompound ==
  /\ Visiting({"Compound"})
  /\ LET n == Top.node
         inside == DeclareAll(LocalDecls(ast, n)) \o
                   VisitAll(Statements(ast, n))
     IN  \/ /\ ~ ast[n].is_function_body
            /\ enterScope
            /\ Continue(inside \o << Exit(n) >>)
         \/ /\ ast[n].is_function_body
            /\ Continue(inside)
            /\ UNCHANGED tableVars
  /\ UNCHANGED << ast, referent, nest_level, raised >>

\* The closing exitScope of a function or of a block.
LeaveScope ==
  /\ Doing("exitScope", {"Function", "Compound"})
  /\ exitScope
  /\ Continue(<< >>)
  /\ UNCHANGED << ast, referent, nest_level, raised >>

\* Visits that only pass on to the children, in order.
VisitChildren(kinds) ==
  /\ Visiting(kinds)
  /\ Continue(VisitAll(Kids(ast, Top.node)))
  /\ UNCHANGED << tableVars, ast, referent, nest_level, raised >>

VisitStatement == VisitChildren({"If", "While", "Return", "ExpressionStmt"})

VisitAssignment == VisitChildren({"Assignment"})

VisitImplicitCast == VisitChildren({"ImplicitCast"})

VisitBinary == VisitChildren({"Additive", "Multiplicative", "Relational"})

VisitLiteral == VisitChildren({"IntLiteral", "FloatLiteral", "BoolLiteral"})

(***************************************************************************)
(* A use of a name: looked up before the children are visited, so that the *)
(* index of a subscript and the arguments of a call come after.            *)
(***************************************************************************)
LinkUse(kinds) ==
  /\ Visiting(kinds)
  /\ LET n == Top.node
         decl == lookup(ast[n].name)
     IN  \/ /\ decl # nullptr
            /\ referent' = Assigned(referent, n, decl)
            /\ Continue(VisitAll(Kids(ast, n)))
            /\ UNCHANGED << tableVars, ast, nest_level, raised >>
         \/ /\ decl = nullptr
            /\ Throw("UndeclaredSymbol", n)

VisitVariableExpr == LinkUse({"VariableExpr", "Subscript"})

VisitCall == LinkUse({"Call"})

Next ==
  \/ VisitProgram
  \/ DeclareNext
  \/ VisitVariable
  \/ VisitFunction
  \/ VisitCompound
  \/ LeaveScope
  \/ VisitStatement
  \/ VisitAssignment
  \/ VisitImplicitCast
  \/ VisitBinary
  \/ VisitLiteral
  \/ VisitVariableExpr
  \/ VisitCall

\* One thread runs the pass to its end.
Spec == Init /\ [][Next]_vars /\ WF_vars(Next)

(***************************************************************************)
(* Properties.                                                             *)
(***************************************************************************)

\* Every state the pass goes through is of the shape the code declares; the
\* work left and what was recorded are about nodes of the tree.
TypeOK ==
  /\ TableTypeOK
  /\ ast \in Programs
  /\ stack \in Seq(SymbolTask)
  /\ \A i \in DOMAIN stack : stack[i].node \in DOMAIN ast
  /\ DOMAIN referent \subseteq UsesOf(ast)
  /\ \A n \in DOMAIN referent : referent[n] \in AnyDecl
  /\ DOMAIN nest_level \subseteq DeclsOf(ast)
  /\ \A d \in DOMAIN nest_level : nest_level[d] \in Nat
  /\ raised.type \in {"none", "MultipleDeclaredSymbol", "UndeclaredSymbol"}
  /\ raised.node \in {0} \cup DOMAIN ast

\* Scopes are balanced: the open scopes other than the global one are exactly
\* those whose exitScope is still to come, so the index m_nestLevel is always
\* that of the last scope (SymbolTable.cpp:39-44 index with it, unchecked),
\* exitScope never pops the global scope, and after the last declaration only
\* the global scope is left.  An exception is the one way out of a scope
\* without an exitScope.
PendingExits == {i \in DOMAIN stack : stack[i].op = "exitScope"}

ScopesBalanced ==
  raised = NoException =>
    /\ Len(m_table) = m_nestLevel + 1
    /\ m_nestLevel = Cardinality(PendingExits)

\* The referent of a use is a declaration of the name that is used
\* (SymbolVisitor.cpp:101-112 and 123-134), under every shadowing.
ReferentsNamed ==
  \A n \in DOMAIN referent : Decl(ast, referent[n]).name = ast[n].name

\* The pass as the scope rules see it.
Scoping ==
  INSTANCE StaticScoping WITH
    outcome <- IF raised # NoException
               THEN [verdict |-> "rejected", at |-> raised.node]
               ELSE IF stack = << >>
                    THEN [verdict |-> "linked", at |-> 0]
                    ELSE [verdict |-> "open", at |-> 0]

\* The nest level recorded for a declaration is the depth of its scope in the
\* tree; code generation takes level 0, and only it, for a global variable
\* (CodegenVisitor.cpp:92 and 129).
NestLevelsStatic == \A d \in DOMAIN nest_level : nest_level[d] = Scoping!Depth(ast, d)

\* What a pass has linked stays as it is: a later declaration of the same name
\* never redirects a use already linked (shared_ptr referent is assigned once),
\* and a nest level is never rewritten.
KeepLinks ==
  /\ \A n \in DOMAIN referent :
       n \in DOMAIN referent' /\ referent'[n] = referent[n]
  /\ \A d \in DOMAIN nest_level :
       d \in DOMAIN nest_level' /\ nest_level'[d] = nest_level[d]

LinksAreFinal == [][KeepLinks]_vars

\* The pass links every use as static scope says and rejects a program at the
\* first redeclaration or undeclared name of the source, and at no other.
StaticallyScoped == Scoping!Spec
=============================================================================
