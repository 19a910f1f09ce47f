----------------------------- MODULE Execution -----------------------------
(***************************************************************************)
(* What a run of a function of a C- program does, said of the tree: the    *)
(* sequence of its effects (storage it allocates, loads, stores, calls),   *)
(* of the decisions it takes and of its return.                            *)
(*                                                                         *)
(* Conditions are not evaluated: an oracle, a sequence of booleans, says   *)
(* how each decision of the run turns out, in order.  A run that needs     *)
(* more decisions is cut at the first that the oracle does not answer.     *)
(* The effect op of node n is written [op |-> op, at |-> n].               *)
(***************************************************************************)
EXTENDS TypeRules

Effect(op, n) == [op |-> op, at |-> n]

\* An array parameter is a place that holds the address of the array.
IsArrayParameter(decl) == decl.kind = "Parameter" /\ decl.type.kind = "Array"

(***************************************************************************)
(* The effects of every expression: those of its operands and then its     *)
(* own.  Operands go from left to right, but a value is computed before    *)
(* the place it is assigned to.                                            *)
(***************************************************************************)
EffectsOf(t, r, ty) ==
  LET own(n) ==
        CASE t[n].kind = "Call"       -> << Effect("call", n) >>
          [] t[n].kind = "Assignment" -> << Effect("store", n) >>
          [] \/ t[n].kind = "ImplicitCast" /\ ty[n].kind = "Primitive"
             \/ t[n].kind \in {"VariableExpr", "Subscript"} /\ IsArrayParameter(Decl(t, r[n]))
             -> << Effect("load", n) >>
          [] OTHER -> << >>
      effects[n \in NodesOf(t, ExpressionKinds)] ==
        LET kids  == Kids(t, n)
            order == IF t[n].kind = "Assignment" THEN Reverse(kids) ELSE kids
        IN  FlattenSeq([i \in DOMAIN order |-> effects[order[i]]]) \o own(n)
  IN  effects

(***************************************************************************)
(* A piece of a run: its effects, the number of decisions that the run has *)
(* taken when it ends, and how it ends: control falls out of it, it        *)
(* returns, or it is cut.                                                  *)
(***************************************************************************)
Piece(effects, taken, end) == [effects |-> effects, taken |-> taken, end |-> end]

\* The piece x and, when control falls out of it, the rest.
Then(x, Rest(_)) ==
  IF x.end # "falls"
  THEN x
  ELSE LET y == Rest(x.taken)
       IN  Piece(x.effects \o y.effects, y.taken, y.end)

\* The run of function f under the oracle, given the effects of expressions.
RunOf(t, effects, f, oracle) ==
  LET Falls(taken) == Piece(<< >>, taken, "falls")
      Evaluate(n) == IF t[n].kids = << >> THEN << >> ELSE effects[Kid(t, n, 1)]
      Decide(n, k) ==
        IF k = Len(oracle)
        THEN Piece(Evaluate(n) \o << Effect("condbr", n) >>, k, "cut")
        ELSE Piece(Evaluate(n) \o << Effect("condbr", n) >>, k + 1, "falls")
      Allocations(ds) == [i \in DOMAIN ds |-> Effect("alloca", ds[i])]
      run[n \in NodesOf(t, StatementKinds), k \in 0 .. Len(oracle)] ==
        CASE t[n].kind = "ExpressionStmt" -> Piece(Evaluate(n), k, "falls")
          [] t[n].kind = "Return" ->
               Piece(Evaluate(n) \o << Effect("ret", n) >>, k, "returns")
          [] t[n].kind = "Compound" ->
               FoldLeft(LAMBDA x, s : Then(x, LAMBDA j : run[s, j]),
                        Piece(Allocations(LocalDecls(t, n)), k, "falls"),
                        Statements(t, n))
          [] t[n].kind = "If" ->
               Then(Decide(n, k),
                    LAMBDA j : IF oracle[j] THEN run[Kid(t, n, 2), j]
                               ELSE IF Len(t[n].kids) = 3 THEN run[Kid(t, n, 3), j]
                               ELSE Falls(j))
          [] t[n].kind = "While" ->
               Then(Decide(n, k),
                    LAMBDA j : IF oracle[j]
                               THEN Then(run[Kid(t, n, 2), j], LAMBDA m : run[n, m])
                               ELSE Falls(j))
      passed == FlattenSeq([i \in DOMAIN Parameters(t, f) |->
                              << Effect("alloca", Parameters(t, f)[i]),
                                 Effect("store", Parameters(t, f)[i]) >>])
      body == Then(Piece(passed, 0, "falls"), LAMBDA j : run[Body(t, f), j])
  IN  Then(body, LAMBDA j : Piece(<< Effect("ret", f) >>, j, "returns")).effects
=============================================================================
