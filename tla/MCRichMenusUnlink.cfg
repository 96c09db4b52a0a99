SPECIFICATION Spec
CONSTANTS
  o1 = o1
  o2 = o2
  o3 = o3
  w1 = w1
  w2 = w2
  None = None
  External = External
  Ops <- MCOps
  Workers <- MCWorkers
  MaxRev = 2
  LastEdit = 1
  WorkersDie = FALSE
SYMMETRY MCSymmetry
INVARIANT
  UnlinkConverges
CHECK_DEADLOCK FALSE
