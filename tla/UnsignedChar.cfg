SPECIFICATION Spec
CONSTANTS
  Texts <- OpenComments
  CharIsSigned = FALSE
  IntMax = 99
  FloatMax = 199
  MaxColumn = 40
  ExtraCalls = 2
PROPERTY
  OpenCommentsEnd
CHECK_DEADLOCK FALSE
