CONSTANTS
  k1 = k1
  k2 = k2
  j1 = j1
  j2 = j2
  Contacts = {k1}
  Jobs = {j1, j2}
  BatchSize = 1
  MaxRetries = 1
  RetryDelay = 1
  Sweep = 1
  BatchTimeout = 1
  Idle = 4
  JobTime = 1
  CallTime = 1
  Kinds = {"restart", "duplicate", "cancel", "window", "pause"}
  MaxTroubles = 1
SPECIFICATION FairSpec
PROPERTIES
  CampaignEnds
