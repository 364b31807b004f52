SPECIFICATION Spec
CONSTANTS
  Messages <- MCMessages
  HeadMaxNum = 2
  Word <- MCWord
  MaxRefusals = 2
  NULL = NULL
INVARIANT
  StatusStringEnds
CHECK_DEADLOCK FALSE
