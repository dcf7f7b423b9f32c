SPECIFICATION Spec
CONSTANTS
  k1 = k1  k2 = k2  v1 = v1  v2 = v2  h1 = h1  h2 = h2
  Keys = {k1}
  Values = {v1}
  JunkValues = {}
  DirectValues = {}
  Handlers = {h1}
  Derived <- DerivedOnce
  StaleAge = 1
  ExpiryAge = 2
  MaxRequests = 4
  MaxTime = 0
  NoJob = NoJob
INVARIANTS
  RejectedStaysOut
CHECK_DEADLOCK FALSE
