SPECIFICATION Spec
CONSTANTS
  NRequests = 4
  Slots = 4
  DecodeEvery = 2
  MaxLive = 1
  MaxFinals = 2
  Holdback = 1
  MaxFrames = 3
  MaxFailures = 1
INVARIANT SpeechIsWhole
CHECK_DEADLOCK FALSE
