SPECIFICATION ApiSpec
CONSTANTS
  None = None
  c1 = c1
  c2 = c2
  t1 = t1
  t2 = t2
  a1 = a1
  a2 = a2
  n1 = n1
  n2 = n2
  Tasks = {t1, t2}
  Contacts = {c1, c2}
  Blank = {c2}
  Window = 1
  MinCalls = 2
  Requests <- MCRequests
  Endings = {"busy", "connected"}
  Retried = {"busy"}
  Agents = {a1, a2}
  PhoneNumbers = {n1, n2}
  MaxTime = 2
  MaxTries = 2
  MaxRequests = 3
  MaxFaults = 1
  NHooks = 2
  MaxFailures = 2
  MaxApps = 3
  MaxAsked = 4
  MaxRefusals = 2
SYMMETRY Alike
INVARIANTS ApiTypeOK  SyncingHasJob  OutcomeStands RoutedAlike
PROPERTIES TripIsFresh ImplementsRecord
CHECK_DEADLOCK FALSE
