SPECIFICATION Spec
CONSTANTS
  Programs <- MCVoidReturns
  MaxDecisions <- MCMaxDecisions
INVARIANT
  ReturnsVerify
CHECK_DEADLOCK FALSE
