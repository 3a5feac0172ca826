SPECIFICATION Spec
CONSTANTS
  Streams = {s1}
  Files = {}
  Endpointing = {}
  MaxSessions = 2
  MaxBatch = 2
  SoftRoll = 6
  HardRoll = 6
  MaxUnits = 5
  MaxBurst = 5
  MaxSid = 3
  MaxFailures = 1
INVARIANT TurnsInOrder
CHECK_DEADLOCK FALSE
