SPECIFICATION Spec
CONSTANTS
  o1 = o1
  o2 = o2
  o3 = o3
  w1 = w1
  w2 = w2
  None = None
  External = External
  Ops <- MCOps
  Workers <- MCWorkers
  MaxRev = 3
  LastEdit = 2
  WorkersDie = TRUE
SYMMETRY MCSymmetry
INVARIANTS
  UnresolvedBlocks
  AppliedWasShown
  NoMenuForgotten
PROPERTIES
  NothingShownIsDeleted
  CompletionIsClear
CHECK_DEADLOCK FALSE
