SPECIFICATION BackendSpec
CONSTANTS
  Requests = {r1, r2}
  follow = follow
  message = message
  other = other
  Nobody = Nobody
  Events <- MCEvents
  LocalEvents = {follow}
  ExternalEvents = {message}
  Batches <- MCBatches
  Deadline = 5
  LocalReserve = 1
  FinalizeReserve = 1
  ResponseReserve = 1
  MinReply = 1
  MaxReply = 2
  MaxAccept = 2
  MaxOverrun = 1
  StorageFaults = TRUE
  Ids = {c1}
  p1 = p1
  p2 = p2
  t1 = t1
  t2 = t2
  Processes = {p1, p2}
  Rotations = {t1, t2}
  None = None
  MaxEdits = 2
  MaxRev = 2
  MaxKey = 3
SYMMETRY Symmetry
INVARIANTS
  HandledAtMostOnce
  ReceiptsTellTheTruth
  AcceptedIsSettled
  AnsweredInTime
  KeysSuffice
  GivenKept
  NoOrphans
