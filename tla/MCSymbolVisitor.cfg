SPECIFICATION Spec
CONSTANTS
  Name <- MCName
  DeclId <- MCDeclId
  Programs <- MCPrograms
INVARIANTS
  TypeOK
  ScopesBalanced
  ReferentsNamed
  NestLevelsStatic
PROPERTIES
  LinksAreFinal
  StaticallyScoped
\* The pass is done.
CHECK_DEADLOCK FALSE
