SPECIFICATION Spec
CONSTANTS
  Monitors = {m1, m2}
  Nobody = Nobody
  Limit = 1
  MaxParts = 2
  MaxLines = 3
  MaxSwitches = 1
SYMMETRY Interchangeable
INVARIANTS LevelsHonoured SizeBounded OrderKept
PROPERTY KeepsLog
CHECK_DEADLOCK FALSE
