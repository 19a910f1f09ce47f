SPECIFICATION Spec
CONSTANTS
  Programs <- MCPrograms
  SourceLocation <- MCSourceLocation
INVARIANTS
  TypeOK
  ErrorsSorted
  VerdictIsWellTyped
  AlwaysReturnsIsExact
  CurrentFunctionEncloses
PROPERTIES
  NoErrorLost
  ResultsAreFinal
\* The pass is done.
CHECK_DEADLOCK FALSE
