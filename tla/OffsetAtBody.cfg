SPECIFICATION Spec
CONSTANTS
  Messages <- MCMessages
  HeadMaxNum = 2
  Word <- MCWord
  MaxRefusals = 2
  NULL = NULL
INVARIANT
  OffsetAtBody
CHECK_DEADLOCK FALSE
