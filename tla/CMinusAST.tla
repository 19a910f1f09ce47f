----------------------------- MODULE CMinusAST -----------------------------
(***************************************************************************)
(* The abstract syntax tree of a C- program, as the parser hands it to the *)
(* passes (src/src/ast/AST.hpp, AST.cpp).                                  *)
(*                                                                         *)
(* A tree is the sequence of its nodes in source order: a node, then the   *)
(* subtrees of its children.  A node is named by its position, its         *)
(* children are at n + kids[1], n + kids[2], ..., and its subtree is the   *)
(* interval n .. n + span - 1.  Positions replace the C++ pointers, and    *)
(* relative offsets let a tree be put under a new root unchanged.          *)
(***************************************************************************)
EXTENDS Integers, Sequences, SequencesExt

(***************************************************************************)
(* Types (AST.hpp, TypeKind, PrimitiveType, Type and namespace Types).     *)
(***************************************************************************)
PrimitiveType == {"Void", "Int", "Float", "Bool"}

Type == [kind : {"Primitive", "Array"}, base : PrimitiveType]

Primitive(b) == [kind |-> "Primitive", base |-> b]

ArrayOf(b) == [kind |-> "Array", base |-> b]

Void  == Primitive("Void")
Int32 == Primitive("Int")
Float == Primitive("Float")
Bool  == Primitive("Bool")

(***************************************************************************)
(* Construction.  Tree puts the subtrees ts, in source order, under a new  *)
(* node with the given attributes.  Every node of the model comes from one *)
(* of the constructors below, as in the code.                              *)
(***************************************************************************)
Tree(kind, attributes, ts) ==
  LET offset[i \in 1 .. Len(ts) + 1] ==
        IF i = 1 THEN 1 ELSE offset[i - 1] + Len(ts[i - 1])
      node == [kind |-> kind,
               kids |-> [i \in 1 .. Len(ts) |-> offset[i]],
               span |-> offset[Len(ts) + 1]]
  IN  << node @@ attributes >> \o FlattenSeq(ts)

ProgramNode(declarations) == Tree("Program", << >>, declarations)

VariableDecl(id, ty) == Tree("Variable", [name |-> id, type |-> ty], << >>)

ArrayDecl(id, base, size) ==
  Tree("Array", [name |-> id, type |-> ArrayOf(base), size |-> size], << >>)

ParamDecl(id, ty) == Tree("Parameter", [name |-> id, type |-> ty], << >>)

\* The parser marks the compound statement of a function (Parser.cpp:134).
FunctionDecl(id, ty, params, body) ==
  LET marked == [body EXCEPT ![1].is_function_body = TRUE]
  IN  Tree("Function", [name |-> id, type |-> ty], params \o << marked >>)

Compound(decls, stmts) ==
  Tree("Compound", [is_function_body |-> FALSE, locals |-> Len(decls)],
       decls \o stmts)

If(condition, then_stmt) == Tree("If", << >>, << condition, then_stmt >>)

IfElse(condition, then_stmt, else_stmt) ==
  Tree("If", << >>, << condition, then_stmt, else_stmt >>)

While(condition, stmt) == Tree("While", << >>, << condition, stmt >>)

Return == Tree("Return", << >>, << >>)

ReturnValue(expr) == Tree("Return", << >>, << expr >>)

EmptyStmt == Tree("ExpressionStmt", << >>, << >>)

ExpressionStmt(expr) == Tree("ExpressionStmt", << >>, << expr >>)

Assignment(var, expr) == Tree("Assignment", << >>, << var, expr >>)

VariableExpr(id) == Tree("VariableExpr", [name |-> id], << >>)

Subscript(id, index) == Tree("Subscript", [name |-> id], << index >>)

ImplicitCast(lvalue) == Tree("ImplicitCast", << >>, << lvalue >>)

Call(id, args) == Tree("Call", [name |-> id], args)

Additive(op, lhs, rhs) ==
  Tree("Additive", [operation |-> op], << lhs, rhs >>)

Multiplicative(op, lhs, rhs) ==
  Tree("Multiplicative", [operation |-> op], << lhs, rhs >>)

Relational(op, lhs, rhs) ==
  Tree("Relational", [operation |-> op], << lhs, rhs >>)

IntLiteral == Tree("IntLiteral", << >>, << >>)

FloatLiteral == Tree("FloatLiteral", << >>, << >>)

BoolLiteral == Tree("BoolLiteral", << >>, << >>)

(***************************************************************************)
(* Navigation in a tree t.                                                 *)
(***************************************************************************)
Kid(t, n, i) == n + t[n].kids[i]

Kids(t, n) == [i \in DOMAIN t[n].kids |-> Kid(t, n, i)]

LastKid(t, n) == Kid(t, n, Len(t[n].kids))

\* n lies in the subtree of a.
Within(t, n, a) == a <= n /\ n < a + t[a].span

LocalDecls(t, n) == SubSeq(Kids(t, n), 1, t[n].locals)

Statements(t, n) == SubSeq(Kids(t, n), t[n].locals + 1, Len(t[n].kids))

Parameters(t, n) == Front(Kids(t, n))

Body(t, n) == LastKid(t, n)

DeclKinds == {"Variable", "Array", "Parameter", "Function"}

UseKinds == {"VariableExpr", "Subscript", "Call"}

LvalueKinds == {"VariableExpr", "Subscript"}

LiteralKinds == {"IntLiteral", "FloatLiteral", "BoolLiteral"}

ExpressionKinds ==
  {"Assignment", "VariableExpr", "Subscript", "ImplicitCast", "Call", "Additive",
   "Multiplicative", "Relational"} \cup LiteralKinds

StatementKinds == {"Compound", "If", "While", "Return", "ExpressionStmt"}

NodeKinds == {"Program"} \cup DeclKinds \cup StatementKinds \cup ExpressionKinds

DeclsOf(t) == {n \in DOMAIN t : t[n].kind \in DeclKinds}

UsesOf(t) == {n \in DOMAIN t : t[n].kind \in UseKinds}

(***************************************************************************)
(* Locations.  Line and column order two tokens as their nodes are ordered *)
(* in the tree; a node that starts with its first child has the location   *)
(* of that child.                                                          *)
(***************************************************************************)
StartsWithChild ==
  {"Assignment", "ImplicitCast", "Additive", "Multiplicative", "Relational"}

Locations(t) ==
  LET loc[n \in DOMAIN t] == IF t[n].kind \in StartsWithChild THEN loc[n + 1] ELSE n
  IN  loc

LocationOf(t, n) == Locations(t)[n]

(***************************************************************************)
(* The shape that the members of the node classes and the grammar give to  *)
(* every tree: how many children a node of each kind has, of which kinds.  *)
(***************************************************************************)
KidsFit(t, n) ==
  LET kind  == t[n].kind
      count == Len(t[n].kids)
      are(first, last, kinds) == \A i \in first .. last : t[Kid(t, n, i)].kind \in kinds
  IN  /\ kind = "Program" => count > 0 /\ are(1, count, {"Variable", "Array", "Function"})
      /\ kind = "Function" =>
           count > 0 /\ are(1, count - 1, {"Parameter"}) /\ are(count, count, {"Compound"})
      /\ kind = "Compound" =>
           /\ t[n].is_function_body \in BOOLEAN
           /\ t[n].locals \in 0 .. count
           /\ are(1, t[n].locals, {"Variable", "Array"})
           /\ are(t[n].locals + 1, count, StatementKinds)
      /\ \A i \in 1 .. count :
           t[Kid(t, n, i)].kind = "Compound" =>
             t[Kid(t, n, i)].is_function_body = (kind = "Function")
      /\ kind = "If" => count \in {2, 3}
      /\ kind = "While" => count = 2
      /\ kind \in {"If", "While"} => are(1, 1, ExpressionKinds) /\ are(2, count, StatementKinds)
      /\ kind \in {"Return", "ExpressionStmt"} => count \in {0, 1}
      /\ kind \in {"Assignment", "Additive", "Multiplicative", "Relational"} => count = 2
      /\ kind \in {"ImplicitCast", "Subscript"} => count = 1
      /\ kind \in {"Assignment", "ImplicitCast"} => are(1, 1, LvalueKinds)
      /\ kind \in {"Return", "ExpressionStmt"} \cup ExpressionKinds =>
           are(1, count, ExpressionKinds)
      /\ kind \in {"Variable", "Array", "Parameter", "VariableExpr"} \cup LiteralKinds =>
           count = 0

\* Where the subtree of child i of n starts: behind n, or behind the one before.
KidStart(t, n, i) ==
  IF i = 1 THEN n + 1 ELSE Kid(t, n, i - 1) + t[Kid(t, n, i - 1)].span

\* The children of n, one after the other, are all there is in its subtree.
LaidOut(t, n) ==
  LET kids == t[n].kids
  IN  /\ kids \in Seq(Nat \ {0})
      /\ \A i \in 1 .. Len(kids) :
           /\ Kid(t, n, i) \in DOMAIN t
           /\ Kid(t, n, i) = KidStart(t, n, i)
      /\ n + t[n].span = KidStart(t, n, Len(kids) + 1)

IsTree(t) ==
  /\ Len(t) \in Nat \ {0}
  /\ t = [n \in 1 .. Len(t) |-> t[n]]
  /\ t[1].span = Len(t)
  /\ \A n \in 1 .. Len(t) :
       /\ t[n].kind \in NodeKinds
       /\ t[n].span \in Nat \ {0}
       /\ LaidOut(t, n)
       /\ KidsFit(t, n)
       /\ t[n].kind \in DeclKinds => t[n].type \in Type
       /\ t[n].kind = "Array" => t[n].size \in Int

IsProgram(t) == IsTree(t) /\ t[1].kind = "Program"

(***************************************************************************)
(* The compiler's own functions, owned outside every user's tree           *)
(* (AST.cpp, g_builtins).  The declaration g_builtins[i] is named -i, so   *)
(* that 0 is never a declaration and stands for nullptr.                   *)
(***************************************************************************)
g_builtins ==
  << [kind |-> "Function", name |-> "input",  type |-> Int32,
      parameters |-> << >>],
     [kind |-> "Function", name |-> "output", type |-> Void,
      parameters |-> << Int32 >>] >>

nullptr == 0

BuiltinDecls == {-1, -2}

Decl(t, d) == IF d \in BuiltinDecls THEN g_builtins[-d] ELSE t[d]

ParameterTypes(t, d) ==
  IF d \in BuiltinDecls
  THEN g_builtins[-d].parameters
  ELSE [i \in DOMAIN Parameters(t, d) |-> t[Parameters(t, d)[i]].type]
=============================================================================
