SPECIFICATION Spec
CONSTANTS
  Programs <- MCPrograms
  MaxDecisions <- MCMaxDecisions
INVARIANTS
  TypeOK
  NothingAfterTerminator
  BlocksComplete
  RunsAsWritten
  OperandsComputed
  ImplicitReturnsAreVoid
\* The pass is done.
CHECK_DEADLOCK FALSE
