SPECIFICATION Spec
CONSTANTS
  TokenType <- MCTokenType
  Texts <- MCTexts
  Free <- MCFree
INVARIANTS
  ParserTypeOK
  AcceptsOnlyPrograms
  RejectsAtFirstWrongToken
  TreeIsWritten
  LocationsOrderNodes
  ScanNeverResumes
PROPERTIES
  WindowIsCursor
  Terminates
\* parse() returns or throws, and nothing follows.
CHECK_DEADLOCK FALSE
