SPECIFICATION FairSpec
CONSTANTS
  Requests = {r1, r2}
  Operations = {o1, o2}
  Contents = {c1}
  ReceiptContents = {c1}
  Taps = {}
  None = None
  ProcessingTimeout = 1
  ConfirmationMaxAge = 1
  ReceiptMaxAge = 2
  StorageFaults = TRUE
  MaxRevision = 1
  MaxTokens = 1
INVARIANTS
  PushedAsConfirmed
PROPERTIES
  AttemptSettles
