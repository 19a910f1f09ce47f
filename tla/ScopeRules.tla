----------------------------- MODULE ScopeRules -----------------------------
(***************************************************************************)
(* The scope rules of C-, as operators on a tree: what every use of a name *)
(* means and which places of a program break the rules.  They are what the *)
(* symbol pass is measured against, and what the later passes may rely on. *)
(***************************************************************************)
EXTENDS CMinusAST, FiniteSets

\* A program, a function and a block open scopes; the block that is the body
\* of a function shares the scope of its parameters.
OpensScope(t, n) ==
  \/ t[n].kind \in {"Program", "Function"}
  \/ t[n].kind = "Compound" /\ ~ t[n].is_function_body

ScopesAround(t, n) ==
  {a \in 1 .. n - 1 : OpensScope(t, a) /\ Within(t, n, a)}

Owner(t, n) == Max(ScopesAround(t, n))

BuiltinNamed(x) ==
  LET named == {b \in BuiltinDecls : g_builtins[-b].name = x}
  IN  IF named = {} THEN nullptr ELSE Min(named)

(***************************************************************************)
(* The meaning of a tree: for every use the declaration it refers to, or   *)
(* nullptr, and the set of the places that are wrong.  A declaration is in *)
(* force at n when it stands before n, in a scope around n.                *)
(***************************************************************************)
Meaning(t) ==
  LET owner == [d \in DeclsOf(t) |-> Owner(t, d)]
      InForce(n) == {d \in DeclsOf(t) : /\ d < n
                                        /\ t[d].name = t[n].name
                                        /\ Within(t, n, owner[d])}
      Innermost(ds) == CHOOSE d \in ds : \A e \in ds : owner[e] <= owner[d]
      Redeclares(d) ==
        \/ \E e \in DeclsOf(t) : /\ e < d
                                 /\ t[e].name = t[d].name
                                 /\ owner[e] = owner[d]
        \/ owner[d] = 1 /\ BuiltinNamed(t[d].name) # nullptr
      referents == [n \in UsesOf(t) |->
                      IF InForce(n) = {} THEN BuiltinNamed(t[n].name)
                                         ELSE Innermost(InForce(n))]
  IN  [referents |-> referents,
       faults |-> {d \in DeclsOf(t) : Redeclares(d)} \cup
                  {n \in UsesOf(t) : referents[n] = nullptr}]

\* The uses a pass can link: all, or those before the first fault.
Linkable(m) == {n \in DOMAIN m.referents : \A f \in m.faults : n < f}

\* The nesting depth of the scope that a declaration belongs to.
Depth(t, d) == Cardinality(ScopesAround(t, d)) - 1
=============================================================================
