SPECIFICATION Spec
CONSTANTS
  Messages <- MCMessages
  HeadMaxNum = 2
  Word <- MCWord
  MaxRefusals = 2
  NULL = NULL
INVARIANTS
  HttpTypeOK
  StartLineComplete
  UnendedHeadRejected
  FieldsFromHead
  FlagHasText
  TextsEnd
CHECK_DEADLOCK FALSE
