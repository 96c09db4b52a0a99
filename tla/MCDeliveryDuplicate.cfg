SPECIFICATION Spec
CONSTANTS
  Requests = {r1, r2}
  Operations = {o1, o2}
  Contents = {c1}
  ReceiptContents = {c1}
  Taps = {}
  None = None
  ProcessingTimeout = 1
  ConfirmationMaxAge = 1
  ReceiptMaxAge = 2
  StorageFaults = FALSE
  MaxRevision = 0
  MaxTokens = 1
INVARIANT DuplicateConverges
