SPECIFICATION Spec
CONSTANTS
  Chunks <- MCChunks
  MaxChunks = 7
  Lengths <- MCLengths
  Word <- MCWord
  HeadMaxNum = 2
INVARIANTS
  HeadsAgree
  LengthsAgree
PROPERTY
  EndStable
CHECK_DEADLOCK FALSE
