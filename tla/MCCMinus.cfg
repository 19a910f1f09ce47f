SPECIFICATION Spec
CONSTANTS
  Name <- MCName
  DeclId <- MCDeclId
  Programs <- MCPrograms
  SourceLocation <- MCSourceLocation
  MaxDecisions <- MCMaxDecisions
  Invocations <- MCInvocations
  WaitStatuses <- MCWaitStatuses
INVARIANTS
  DriverTypeOK
  RejectionIsSeen
  SourceSurvives
  OutlineOfSource
PROPERTIES
  HandOver
\* The program is done.
CHECK_DEADLOCK FALSE
