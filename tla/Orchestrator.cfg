CONSTANTS
  k1 = k1
  k2 = k2
  j1 = j1
  j2 = j2
  Contacts = {k1, k2}
  Jobs = {j1, j2}
  BatchSize = 2
  MaxRetries = 1
  RetryDelay = 1
  Sweep = 1
  BatchTimeout = 1
  Idle = 6
  JobTime = 1
  CallTime = 1
  Kinds = {"trip", "noNumber", "noSlot", "crash", "restart"}
  MaxTroubles = 1
SPECIFICATION Spec
SYMMETRY Alike
INVARIANTS
  TypeOK
  CompletedIsThrough
  
PROPERTIES
  TerminalIsFinal
