SPECIFICATION Spec
CONSTANTS
  Programs <- MCPrograms
  SourceLocation <- MCSourceLocation
INVARIANT
  MissingMainReported
CHECK_DEADLOCK FALSE
