SPECIFICATION ConsoleSpec
CONSTANTS
  d1 = d1
  d2 = d2
  s1 = s1
  s2 = s2
  o1 = o1
  o2 = o2
  Drafts = {d1, d2}
  Sends = {s1, s2}
  Nothing = Nothing
  MaxAsked = 2
  MaxFlows = 2
  m1 = m1
  m2 = m2
  Resources = {m1, m2}
  NoMenu = NoMenu
  Foreign = Foreign
  MaxChanges = 2
  MaxMenus = 4
  Operations = {o1, o2}
  NoOperation = NoOperation
  MaxRevision = 2
  MaxWaits = 3
  Lifetime = 2
  Timeout = 2
  Window = 1
  MaxStarts = 1
  MaxSubmissions = 2
  EndOfTime = 2
SYMMETRY Symmetry
INVARIANTS
  SentAsShown
  SendsKnowingly
  ReadyIsFresh
  LogoutIsSeen
  OneAtATime
  ShownWithItsEnd
  ShownAsItWas
  ProofLasts
  VerdictInTime
PROPERTY
  OutcomeShown
CHECK_DEADLOCK FALSE
