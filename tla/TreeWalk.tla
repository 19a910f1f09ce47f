------------------------------ MODULE TreeWalk ------------------------------
(***************************************************************************)
(* What the visitors have in common (class Visitor and the accept methods  *)
(* of src/src/ast/AST.hpp): one thread walks one tree.                     *)
(*                                                                         *)
(* The C++ call stack is the variable stack: the work that the active      *)
(* visit calls still have to do, the next piece of it last.  A visit       *)
(* replaces itself by its own steps, the visits of its children among      *)
(* them.                                                                   *)
(***************************************************************************)
EXTENDS CMinusAST

VARIABLES
  ast,     \* the tree being visited
  stack    \* pending work of the visit calls, the next one last

Task(ops) == [op : ops, node : Nat]

Visit(n) == [op |-> "visit", node |-> n]

VisitAll(ns) == [i \in DOMAIN ns |-> Visit(ns[i])]

Top == Last(stack)

\* The task on top is next: it is replaced by the given ones, in order.
Continue(tasks) == stack' = Front(stack) \o Reverse(tasks)

\* The next thing to do is op, at a node of one of the kinds.
Doing(op, kinds) ==
  /\ stack # << >>
  /\ Top.op = op
  /\ ast[Top.node].kind \in kinds

\* accept: the kind of the node selects the visit.
Visiting(kinds) == Doing("visit", kinds)

\* A field of the nodes, after node n's was assigned v.
Assigned(field, n, v) ==
  [m \in {n} \cup DOMAIN field |-> IF m = n THEN v ELSE field[m]]

(***************************************************************************)
(* Every walk ends: the visits of a finite tree do.                        *)
(***************************************************************************)
Finished == stack = << >>
=============================================================================
