CONSTANTS
  r1 = r1
  r2 = r2
  j1 = j1
  j2 = j2
  Runs <- MCRuns
  Jobs <- MCJobs
  BatchSize = 2
  MaxPoolAttempts = 2
  MaxFaults = 1
  MaxCancels = 1
CHECK_DEADLOCK FALSE
SYMMETRY Alike
SPECIFICATION Spec
INVARIANTS
  TypeOK
  ClaimsExclusive
  NoContactLost
  OneCallUnlessCancelled
  CountNeverOverstates
  EndedJobsReported
PROPERTIES
  LinkedNeverRedialled
  ImplementsLedger
