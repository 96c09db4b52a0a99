SPECIFICATION Spec
CONSTANTS
  h1 = h1
  c1 = c1
  c2 = c2
  Free = Free
  Handlers <- MCHandlers
  Clients <- MCClients
  Ids <- MCIds
  Direct = TRUE
  Initially = "friend"
  MaxNow = 2
  MaxRepeats = 1
  MaxRows = 2
  MaxIdentities = 2
SYMMETRY MCSymmetry
INVARIANTS
  NewestWins
  TrueWhenHeard
  EffectOnce
CHECK_DEADLOCK FALSE
