CONSTANTS
  k1 = k1
  k2 = k2
  j1 = j1
  j2 = j2
  Contacts = {k1}
  Jobs = {j1}
  BatchSize = 1
  MaxRetries = 2
  RetryDelay = 6
  Sweep = 1
  BatchTimeout = 3
  Idle = 6
  JobTime = 2
  CallTime = 2
  Kinds = {}
  MaxTroubles = 0
SPECIFICATION Spec
INVARIANTS
  CompletedIsThrough
