SPECIFICATION Spec
CONSTANTS
  Packets <- MCPackets
  Commands <- MCCommands
  NoValue = NoValue
INVARIANTS
  OicqTypeOK
  CountersAgree
  AcceptedByLength
  ReportFaithful
CHECK_DEADLOCK FALSE
