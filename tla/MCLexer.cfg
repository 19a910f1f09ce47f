SPECIFICATION Spec
CONSTANTS
  Texts <- MCTexts
  CharIsSigned = TRUE
  IntMax = 99
  FloatMax = 199
  MaxColumn = 40
  ExtraCalls = 2
INVARIANTS
  LexerTypeOK
  TokensAreText
PROPERTY
  Terminates
\* After an exception, or the last call past the end, getToken is not called.
CHECK_DEADLOCK FALSE
