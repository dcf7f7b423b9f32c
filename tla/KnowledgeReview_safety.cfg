SPECIFICATION Spec
CONSTANTS
  k1 = k1  k2 = k2  v1 = v1  v2 = v2  h1 = h1  h2 = h2
  Keys = {k1, k2}
  Values = {v1, v2}
  JunkValues = {v2}
  DirectValues = {v1, v2}
  Handlers = {h1, h2}
  Derived <- DerivedPairs
  StaleAge = 1
  ExpiryAge = 2
  MaxRequests = 4
  MaxTime = 2
  NoJob = NoJob
INVARIANTS
  TypeOK
  OverlapAloneForgets
  CountersAreEarned
  AcceptedIsKnowledge
  PromotedIsKnowledge
SYMMETRY Symmetry
CHECK_DEADLOCK FALSE
