SPECIFICATION FairSpec
CONSTANTS
  s1 = s1
  f1 = f1
  w1 = w1
  w2 = w2
  Streams = {s1}
  Files = {f1}
  Endpointing = {s1}
  MaxSessions = 2
  MaxBatch = 2
  SoftRoll = 1
  HardRoll = 2
  MaxBurst = 2
  Turns <- MCTurns
  Partial = "half"
  Cumulative = TRUE
  Sockets = {w1, w2}
  MaxRealtime = 2
  MinUnits = 1
  QueueSize = 1
  BatchSize = 2
  MaxSegments = 1
  Slots = 2
  DecodeEvery = 2
  MaxLive = 1
  MaxFinals = 1
  Holdback = 1
  MaxFrames = 3
  MaxFailures = 1
  MaxUnits = 2
  MaxSid = 3
  MaxInterims = 1
  MaxSnapshots = 2
  NRequests = 2
PROPERTY EveryRequestEnds
CHECK_DEADLOCK FALSE
