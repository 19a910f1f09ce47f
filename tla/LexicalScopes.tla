--------------------------- MODULE LexicalScopes ---------------------------
(***************************************************************************)
(* What a symbol table promises, without its representation: a stack of    *)
(* environments.  The environment on top says at once what every name      *)
(* means; entering a scope copies it, leaving the scope drops the copy and *)
(* with it every binding made there, so that what a name meant before is   *)
(* what it means again.  A name is bound at most once in a scope.          *)
(***************************************************************************)
EXTENDS Naturals, Sequences, SequencesExt

CONSTANTS
  Name,      \* what can be bound
  Value,     \* what it can be bound to
  NoValue,   \* the meaning of a name that nothing binds
  Initial    \* the environment of the outermost scope

VARIABLES
  views,     \* for every open scope, the meaning of every name in it
  declared   \* for every open scope, the names bound in it and not outside

vars == << views, declared >>

Init ==
  /\ views = << Initial >>
  /\ declared = << {x \in Name : Initial[x] # NoValue} >>

Enter ==
  /\ views' = Append(views, Last(views))
  /\ declared' = Append(declared, {})

Leave ==
  /\ Len(views) > 1
  /\ views' = Front(views)
  /\ declared' = Front(declared)

Bind(x, v) ==
  /\ x \notin Last(declared)
  /\ views' = [views EXCEPT ![Len(views)][x] = v]
  /\ declared' = [declared EXCEPT ![Len(declared)] = @ \cup {x}]

Next ==
  \/ Enter
  \/ Leave
  \/ \E x \in Name, v \in Value : Bind(x, v)

Spec == Init /\ [][Next]_vars
=============================================================================
