----------------------------- MODULE TypeRules -----------------------------
(***************************************************************************)
(* The type rules of C-, as a judgement on a tree whose uses of names are  *)
(* linked (r[n] is the declaration that use n refers to).  The judgement   *)
(* says what a well-typed program is; it knows nothing of errors, of how   *)
(* to go on after one, or of an order of visit.                            *)
(***************************************************************************)
EXTENDS ScopeRules

Arithmetic == {Int32, Float}

IllTyped == Primitive("Ill")

NodesOf(t, kinds) == {n \in DOMAIN t : t[n].kind \in kinds}

(***************************************************************************)
(* The type of every expression, IllTyped when it has none.  A child comes *)
(* after its parent in the tree, so the recursion ends.                    *)
(***************************************************************************)
TypeOf(t, r, ty, n) ==
  LET kind == t[n].kind
      decl == Decl(t, r[n])
      kid(i) == ty[Kid(t, n, i)]
      both(allowed) == kid(1) = kid(2) /\ kid(1) \in allowed
      rule(condition, result) == IF condition THEN result ELSE IllTyped
  IN  CASE kind = "IntLiteral"   -> Int32
        [] kind = "FloatLiteral" -> Float
        [] kind = "BoolLiteral"  -> Bool
        [] kind = "ImplicitCast" -> kid(1)
        [] kind = "VariableExpr" -> rule(decl.kind # "Function", decl.type)
        [] kind = "Subscript" ->
             rule(decl.kind # "Function" /\ decl.type.kind = "Array" /\ kid(1) = Int32,
                  Primitive(decl.type.base))
        [] kind = "Call" ->
             rule(decl.kind = "Function" /\
                    [i \in DOMAIN t[n].kids |-> kid(i)] = ParameterTypes(t, r[n]),
                  decl.type)
        [] kind = "Assignment" ->
             rule(both(Type) /\ kid(1).kind = "Primitive", Void)
        [] kind \in {"Additive", "Multiplicative"} -> rule(both(Arithmetic), kid(1))
        [] kind = "Relational" ->
             rule(both(Arithmetic) \/ (both({Bool}) /\ t[n].operation \in {"EQ", "NEQ"}),
                  Bool)

TypesOf(t, r) ==
  LET ty[n \in NodesOf(t, ExpressionKinds)] == TypeOf(t, r, ty, n)
  IN  ty

(***************************************************************************)
(* The ways a statement can end, whatever its conditions turn out to be:   *)
(* control falls out of it, or it returns.                                 *)
(***************************************************************************)
OutcomeOf(t, out, n) ==
  LET stmts == Statements(t, n)
      \* Control comes to a statement of a block by falling out of those before.
      reached == {i \in DOMAIN stmts : \A j \in 1 .. i - 1 : "falls" \in out[stmts[j]]}
  IN  CASE t[n].kind = "Return"         -> {"returns"}
        [] t[n].kind = "ExpressionStmt" -> {"falls"}
        [] t[n].kind = "Compound" ->
             {o \in {"falls", "returns"} :
                IF o = "falls" THEN \A i \in DOMAIN stmts : o \in out[stmts[i]]
                               ELSE \E i \in reached : o \in out[stmts[i]]}
        [] t[n].kind = "While" -> out[Kid(t, n, 2)] \cup {"falls"}
        [] t[n].kind = "If" ->
             out[Kid(t, n, 2)] \cup
             (IF Len(t[n].kids) = 3 THEN out[Kid(t, n, 3)] ELSE {"falls"})

OutcomesOf(t) ==
  LET out[n \in NodesOf(t, StatementKinds)] == OutcomeOf(t, out, n)
  IN  out

FunctionsOf(t) == NodesOf(t, {"Function"})

\* The function whose body n lies in.
EnclosingFunction(t, n) ==
  LET around == {f \in FunctionsOf(t) : Within(t, n, Body(t, f))}
  IN  IF around = {} THEN nullptr ELSE Max(around)

WellDeclared(t, d) ==
  /\ t[d].kind # "Function" => t[d].type.base # "Void"
  /\ t[d].kind = "Array" => t[d].size > 0
  /\ t[d].kind = "Function" =>
       t[d].type = Void \/ "falls" \notin OutcomesOf(t)[Body(t, d)]

\* The last global declaration, and no other, is named main.
EndsWithMain(t) ==
  \A i \in DOMAIN Kids(t, 1) :
    t[Kid(t, 1, i)].name = "main" <=> i = Len(t[1].kids)

WellTyped(t, r) ==
  LET ty == TypesOf(t, r)
  IN  /\ \A n \in DOMAIN ty : ty[n] # IllTyped
      /\ \A n \in NodesOf(t, {"If", "While"}) : ty[Kid(t, n, 1)] = Bool
      /\ \A n \in NodesOf(t, {"Return"}) :
           t[EnclosingFunction(t, n)].type =
             IF t[n].kids = << >> THEN Void ELSE ty[Kid(t, n, 1)]
      /\ \A d \in DeclsOf(t) : WellDeclared(t, d)
      /\ EndsWithMain(t)
=============================================================================
