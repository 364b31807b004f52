SPECIFICATION RegSpec
CONSTANTS
  Configs <- MCConfigs
  MaxConfig <- MaxBytes
  Exports <- MCExports
  MaxRefusals = 1
  NULL = NULL
INVARIANTS
  RegisteredSound
  CompleteEntriesRegistered
  CrashExplained
CHECK_DEADLOCK FALSE
