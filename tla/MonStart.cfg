SPECIFICATION StartSpec
CONSTANTS
  Configs <- MCConfigs
  MaxConfig <- MaxBytes
  Exports <- MCExports
  MaxRefusals = 1
  NULL = NULL
  CommandLines <- MCCommandLines
  StackFlags <- AnyFlags
INVARIANTS
  StartTypeOK
  CapturesAsAsked
  CapturesAccounted
PROPERTY
  StartDecides
CHECK_DEADLOCK FALSE
