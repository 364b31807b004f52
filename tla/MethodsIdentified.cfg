SPECIFICATION Spec
CONSTANTS
  Configs <- MCConfigs
  MaxConfig <- MaxBytes
  CommandLines <- MCCommandLines
  StackFlags <- ClearStack
  Exports <- MCExports
  MaxRefusals = 1
  NULL = NULL
  Frames <- MCFrames
  Stale <- MCStale
  MaxFrames = 2
INVARIANT
  MethodsIdentified
CHECK_DEADLOCK FALSE
