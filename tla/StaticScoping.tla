--------------------------- MODULE StaticScoping ---------------------------
(***************************************************************************)
(* What the symbol pass promises, said of the tree alone: every use of a   *)
(* name refers to the innermost declaration of that name that is in force  *)
(* where the use stands, and a program in which some use has none, or some *)
(* scope declares a name twice, is rejected at the first such place of the *)
(* source (module ScopeRules).  No table, no order of visit.               *)
(***************************************************************************)
EXTENDS ScopeRules

CONSTANT Programs   \* the trees considered

VARIABLES
  ast,       \* the tree being linked
  referent,  \* the uses linked so far, with their declarations
  outcome    \* what the pass has said of the tree

vars == << ast, referent, outcome >>

Open == [verdict |-> "open", at |-> 0]

Init ==
  /\ ast \in Programs
  /\ referent = << >>
  /\ outcome = Open

Link(n) ==
  /\ DOMAIN referent' = DOMAIN referent \cup {n}
  /\ outcome = Open
  /\ LET m == Meaning(ast)
     IN  /\ n \in Linkable(m)
         /\ referent' = [k \in {n} \cup DOMAIN referent |->
                          IF k = n THEN m.referents[n] ELSE referent[k]]
  /\ UNCHANGED << ast, outcome >>

Accept ==
  /\ outcome = Open
  /\ outcome' = [verdict |-> "linked", at |-> 0]
  /\ LET m == Meaning(ast)
     IN  m.faults = {} /\ DOMAIN referent = Linkable(m)
  /\ UNCHANGED << ast, referent >>

Reject ==
  /\ outcome = Open
  /\ outcome'.verdict = "rejected"
  /\ LET m == Meaning(ast)
     IN  /\ m.faults # {}
         /\ DOMAIN referent = Linkable(m)
         /\ outcome' = [verdict |-> "rejected", at |-> Min(m.faults)]
  /\ UNCHANGED << ast, referent >>

Next ==
  \/ \E n \in UsesOf(ast) \ DOMAIN referent : Link(n)
  \/ Accept
  \/ Reject

Spec == Init /\ [][Next]_vars
=============================================================================
