SPECIFICATION Spec
CONSTANTS
  Requests = {r1, r2}
  follow = follow
  message = message
  postback = postback
  Nobody = Nobody
  Events <- MCEvents
  LocalEvents = {follow}
  ExternalEvents = {message, postback}
  Messages = {message}
  Postbacks = {postback}
  Batches <- MCBatches
  Deadline = 4
  LocalReserve = 1
  FinalizeReserve = 0
  ResponseReserve = 1
  MinReply = 1
  MaxReply = 1
  MaxAccept = 0
  MaxOverrun = 0
  StorageFaults = TRUE
INVARIANTS
  OneEffectPerEvent
  AuditTellsTheTruth
PROPERTIES
  ImplementsIngress
SYMMETRY Symmetry
