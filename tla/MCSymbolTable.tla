--------------------------- MODULE MCSymbolTable ---------------------------
(***************************************************************************)
(* SymbolTable with an arbitrary caller, on its own.                       *)
(***************************************************************************)
EXTENDS SymbolTable

MCName == {"input", "output", "a", "b"}

MCDeclId == 1 .. 2

\* Bound on the depth of nesting explored.
MaxNestLevel == 2

MCNext == TableNext /\ m_nestLevel' <= MaxNestLevel

MCSpec == TableInit /\ [][MCNext]_tableVars
=============================================================================
