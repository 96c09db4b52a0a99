SPECIFICATION Spec
CONSTANTS
  Requests = {r1, r2}
  Operations = {o1, o2}
  Contents = {c1, c2}
  ReceiptContents = {c1}
  Taps = {e1}
  None = None
  ProcessingTimeout = 1
  ConfirmationMaxAge = 1
  ReceiptMaxAge = 2
  StorageFaults = TRUE
  MaxRevision = 0
  MaxTokens = 2
SYMMETRY Symmetry
INVARIANTS
  ReceiptTruthful
  AtMostOnePush
  OutcomeTruthful
  NoParallelTwins
PROPERTIES
  KeepsPromise
