SPECIFICATION Spec
CONSTANTS
  Programs <- MCPrograms
  SourceLocation <- MCSourceLocation
INVARIANT
  LastFunctionIsNotEarly
CHECK_DEADLOCK FALSE
