SPECIFICATION Spec
CONSTANTS
  t1 = t1
  t2 = t2
  s1 = s1
  Nobody = Nobody
  Tabs <- MCTabs
  Sessions <- MCSessions
  MaxIdentities = 2
  MaxRows = 2
  MaxAttempts = 2
  MaxGrants = 3
SYMMETRY MCSymmetry
INVARIANTS
  AsShown
  RevokedFirst
  CallsOnlyWhilePending
  NothingLeft
PROPERTIES
  OwnDataOnly
CHECK_DEADLOCK FALSE
