SPECIFICATION Spec
CONSTANTS
  Configs <- MCConfigs
  MaxConfig <- MaxBytes
  CommandLines <- MCCommandLines
  StackFlags <- ClearStack
  Exports <- MCExports
  MaxRefusals = 1
  NULL = NULL
  Frames <- MCFrames
  Stale <- MCStale
  MaxFrames = 2
INVARIANTS
  PathTypeOK
  NothingHeldBetweenFrames
  PoolLiveInUse
  InfoFresh
  EmptyPayloadUnreported
PROPERTIES
  PoolGivenBack
  KeepsService
CHECK_DEADLOCK FALSE
