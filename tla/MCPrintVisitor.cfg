SPECIFICATION Spec
CONSTANT Programs <- MCPrograms
INVARIANTS
  PrintTypeOK
  OutlineShowsTree
\* The walk is done.
CHECK_DEADLOCK FALSE
