CONSTANTS
  a1 = a1
  a2 = a2
  a3 = a3
  o1 = o1
  c1 = c1
  c2 = c2
  Attempts <- MCAttempts
  OrgOf <- MCOrgOf
  CampaignOf <- MCCampaignOf
  OrgLimit <- MCOrgLimit
  ScopeLimit <- MCNarrow
  StaleTimeout = 1
  MaxFaults = 1
SPECIFICATION Spec
SYMMETRY Alike
CHECK_DEADLOCK FALSE
INVARIANTS
  TypeOK
  LiveCallsWithinLimits
  BoundSlotKeepsMapping
  SlotSetsAgree
PROPERTIES
  
  ImplementsAdmission
