SPECIFICATION MCSpec
CONSTANTS
  Name <- MCName
  DeclId <- MCDeclId
INVARIANTS
  TableInBounds
PROPERTIES
  LexicallyScoped
