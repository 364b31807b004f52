SPECIFICATION StartSpec
CONSTANTS
  Configs <- MCConfigs
  MaxConfig <- MaxBytes
  Exports <- MCExports
  MaxRefusals = 1
  NULL = NULL
  CommandLines <- MCCommandLines
  StackFlags <- AnyFlags
INVARIANT
  FilterInstalled
CHECK_DEADLOCK FALSE
