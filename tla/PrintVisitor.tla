---------------------------- MODULE PrintVisitor ----------------------------
(***************************************************************************)
(* The printer of --emit-ast (src/src/ast/PrintVisitor.cpp): a walk of the *)
(* tree that writes one indented line for every node, and for some nodes   *)
(* lines that label the subtrees below.                                    *)
(*                                                                         *)
(* A line is what it says, the node it is written for, its depth (the      *)
(* indentation is twice that) and the type it shows.  A NestGuard is the   *)
(* step into a depth and the task that leaves it, the destructor.          *)
(***************************************************************************)
EXTENDS TypeRules, TreeWalk

CONSTANT Programs   \* the trees that are printed

ASSUME ProgramsAssumption == \A t \in Programs : IsProgram(t)

VARIABLES
  referent,        \* SymbolUseNode::referent, where set
  type,            \* ExpressionNode::type, where set
  m_currentDepth,  \* the depth of the next line
  m_output         \* the lines written so far

fields == << referent, type >>

vars == << ast, stack, fields, m_currentDepth, m_output >>

Labels == {"Left", "Right", "Index", "Arguments", "Semicolon"}

NoType == Primitive("None")

Line(says, n, depth, ty) == [says |-> says, node |-> n, depth |-> depth, type |-> ty]

LabelLine(says, n, depth) == Line(says, n, depth, NoType)

Leave(n) == [op |-> "leave", node |-> n]

\* A label to write, with the visits nested below it.
Label(says, n, ns) == [op |-> "label", node |-> n, says |-> says, below |-> ns]

\* Lines of these nodes show a value, and no type.
Literals == {"IntLiteral", "FloatLiteral", "BoolLiteral"}

\* A use shows the type of its declaration until it has a type of its own.
\* A slip: also when it has.
DeclaredTypeFirst(n) ==
  CASE ast[n].kind \in DeclKinds -> ast[n].type
    [] n \in DOMAIN referent -> Decl(ast, referent[n]).type
    [] n \in DOMAIN type \ DOMAIN referent /\ ast[n].kind \notin Literals -> type[n]
    [] OTHER -> NoType

TypeShown(n) ==
  CASE ast[n].kind \in DeclKinds -> ast[n].type
    [] n \in DOMAIN type /\ ast[n].kind \notin Literals -> type[n]
    [] n \in DOMAIN referent \ DOMAIN type -> Decl(ast, referent[n]).type
    [] OTHER -> NoType

NodeLine(n) == Line(ast[n].kind, n, m_currentDepth, TypeShown(n))

WriteLines(lines) == m_output' = m_output \o lines

\* NestGuard guard {*this}, and then the given tasks.
Nested(n, tasks) ==
  /\ m_currentDepth' = m_currentDepth + 1
  /\ Continue(Append(tasks, Leave(n)))

\* A tree as the parser, the symbol pass or the semantic pass leaves it; no tree
\* with a fault comes out of the symbol pass.
Init ==
  /\ ast \in Programs
  /\ LET linked == Meaning(ast).referents
     IN  \/ referent = << >> /\ type = << >>
         \/ /\ Meaning(ast).faults = {}
            /\ referent = linked
            /\ type = << >> \/ type = TypesOf(ast, linked)
  /\ stack = << Visit(1) >>
  /\ m_currentDepth = 0
  /\ m_output = << >>

\* A line for the node on top, its children nested below it.
VisitNested(kinds) ==
  /\ Visiting(kinds)
  /\ WriteLines(<< NodeLine(Top.node) >>)
  /\ Nested(Top.node, VisitAll(Kids(ast, Top.node)))
  /\ UNCHANGED << ast, fields >>

\* A line for the node on top, and the given tasks, at its own depth.
VisitFlat(kinds) ==
  /\ Visiting(kinds)
  /\ WriteLines(<< NodeLine(Top.node) >>)
  /\ Continue(VisitAll(Kids(ast, Top.node)))
  /\ UNCHANGED << ast, fields, m_currentDepth >>

VisitProgram == VisitNested({"Program"})

VisitVariable == VisitFlat({"Variable", "Array", "Parameter"})

\* NestGuard {*this} makes a temporary, gone at the end of its statement: the
\* parameters and the body are at the depth of the function itself.
VisitFunction == VisitFlat({"Function"})

VisitStatement == VisitNested({"Compound", "If", "While"})

\* Nested only when there is an expression.
VisitReturn ==
  /\ Visiting({"Return"})
  /\ \/ ast[Top.node].kids = << >> /\ VisitFlat({"Return"})
     \/ ast[Top.node].kids # << >> /\ VisitNested({"Return"})

VisitExpressionStmt ==
  /\ Visiting({"ExpressionStmt"})
  /\ LET n == Top.node
         semicolon == LabelLine("Semicolon", n, m_currentDepth + 1)
     IN  /\ WriteLines(<< NodeLine(n) >> \o IF ast[n].kids = << >> THEN << semicolon >> ELSE << >>)
         /\ Nested(n, VisitAll(Kids(ast, n)))
  /\ UNCHANGED << ast, fields >>

VisitAssignment == VisitNested({"Assignment"})

VisitImplicitCast == VisitNested({"ImplicitCast"})

VisitVariableExpr == VisitFlat({"VariableExpr"})

VisitLiteral == VisitFlat(Literals)

VisitSubscript ==
  /\ Visiting({"Subscript"})
  /\ LET n == Top.node
     IN  /\ WriteLines(<< NodeLine(n) >>)
         /\ Nested(n, << Label("Index", n, Kids(ast, n)) >>)
  /\ UNCHANGED << ast, fields >>

VisitCall ==
  /\ Visiting({"Call"})
  /\ LET n == Top.node
     IN  /\ WriteLines(<< NodeLine(n) >>)
         /\ \/ /\ ast[n].kids # << >>
               /\ Nested(n, << Label("Arguments", n, Kids(ast, n)) >>)
            \/ /\ ast[n].kids = << >>
               /\ Continue(<< >>)
               /\ UNCHANGED m_currentDepth
  /\ UNCHANGED << ast, fields >>

VisitBinary ==
  /\ Visiting({"Additive", "Multiplicative", "Relational"})
  /\ LET n == Top.node
     IN  /\ WriteLines(<< NodeLine(n) >>)
         /\ Nested(n, << Label("Left", n, << Kid(ast, n, 1) >>),
                         Label("Right", n, << Kid(ast, n, 2) >>) >>)
  /\ UNCHANGED << ast, fields >>

\* A slip: the label is written and its subtrees are nested no deeper.
PrintLabelFlat ==
  /\ Doing("label", {"Subscript", "Call", "Additive", "Multiplicative", "Relational"})
  /\ WriteLines(<< LabelLine(Top.says, Top.node, m_currentDepth) >>)
  /\ Continue(VisitAll(Top.below))
  /\ UNCHANGED << ast, fields, m_currentDepth >>

PrintLabel ==
  /\ Doing("label", {"Subscript", "Call", "Additive", "Multiplicative", "Relational"})
  /\ WriteLines(<< LabelLine(Top.says, Top.node, m_currentDepth) >>)
  /\ Nested(Top.node, VisitAll(Top.below))
  /\ UNCHANGED << ast, fields >>

\* A slip: the guard takes back one depth too many.
LeaveNestTwice ==
  /\ stack # << >> /\ Top.op = "leave"
  /\ m_currentDepth' = m_currentDepth - 2
  /\ Continue(<< >>)
  /\ UNCHANGED << ast, fields, m_output >>

\* The destructor of a NestGuard.
LeaveNest ==
  /\ stack # << >> /\ Top.op = "leave"
  /\ m_currentDepth' = m_currentDepth - 1
  /\ Continue(<< >>)
  /\ UNCHANGED << ast, fields, m_output >>

Next ==
  \/ VisitProgram
  \/ VisitVariable \/ VisitFunction
  \/ VisitStatement \/ VisitReturn \/ VisitExpressionStmt
  \/ VisitAssignment \/ VisitImplicitCast \/ VisitVariableExpr
  \/ VisitSubscript \/ VisitCall \/ VisitBinary \/ VisitLiteral
  \/ PrintLabel \/ LeaveNest

\* One thread runs the walk to its end.
Spec == Init /\ [][Next]_vars /\ WF_vars(Next)

(***************************************************************************)
(* Properties.                                                             *)
(***************************************************************************)

\* Every state is of the shape the code declares: the depth, which is unsigned
\* and doubled to size a string (PrintVisitor.cpp:13), never passes below zero,
\* and the lines are of nodes of the tree.
PrintTypeOK ==
  /\ \A i \in DOMAIN stack : stack[i].node \in DOMAIN ast
  /\ m_currentDepth \in 0 .. 2 * Len(ast)
  /\ \A i \in DOMAIN m_output :
       /\ m_output[i].node \in DOMAIN ast
       /\ m_output[i].says \in Labels \cup {ast[m_output[i].node].kind}
       /\ m_output[i].depth \in 0 .. 2 * Len(ast)
       /\ m_output[i].type \in Type \cup {NoType, IllTyped}

(***************************************************************************)
(* How the outline is read: a line belongs to the last line before it that *)
(* is less deep, but the parameters and the body of a function, which are  *)
(* as deep as the function, to the last function.                          *)
(***************************************************************************)
Above(i) ==
  LET line == m_output[i]
      ofFunction == line.says = "Parameter" \/ (line.says = "Compound" /\ line.depth = 1)
  IN  Max({j \in 1 .. i - 1 : IF ofFunction THEN m_output[j].says = "Function"
                              ELSE m_output[j].depth < line.depth})

NodeLines == {i \in DOMAIN m_output : m_output[i].says \notin Labels}

ParentIn(t, n) == Max({m \in 1 .. n - 1 : Within(t, n, m)})

\* The label below which child n of node m is.
SideOf(t, m, n) ==
  CASE t[m].kind \in {"Additive", "Multiplicative", "Relational"} ->
         IF n = Kid(t, m, 1) THEN "Left" ELSE "Right"
    [] t[m].kind = "Subscript" -> "Index"
    [] t[m].kind = "Call" -> "Arguments"
    [] OTHER -> t[m].kind

\* The printed outline is the tree: its lines are the nodes in source order,
\* each once, and read by their depth alone they stand below their parents,
\* the two sides of an operation below their labels.  The depth is a counter
\* that guards count up and down in nested visits; one of them, at line 69, is
\* a temporary, which a reader must make up for as Above does.
OutlineShowsTree ==
  Finished =>
    /\ {m_output[i].node : i \in NodeLines} = DOMAIN ast
    /\ \A i, j \in NodeLines : i < j => m_output[i].node < m_output[j].node
    /\ \A i \in NodeLines \ {1} :
         LET n == m_output[i].node
             above == m_output[Above(i)]
             parent == ParentIn(ast, n)
         IN  above.node = parent /\ above.says = SideOf(ast, parent, n)
=============================================================================
