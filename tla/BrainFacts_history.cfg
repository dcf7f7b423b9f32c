SPECIFICATION Spec
CONSTANTS
  k1 = k1  k2 = k2  s1 = s1  s2 = s2  i1 = i1  i2 = i2  i3 = i3
  v1 = v1  v2 = v2  h1 = h1  h2 = h2
  Keys = {k1}
  Values = {v1, v2}
  JunkValues = {}
  DirectValues = {}
  Handlers = {h1}
  Subjects = {s1}
  Identities = {i1, i2}
  Ingests <- TaskOfTwoSessions
  StaleAge = 1
  ExpiryAge = 2
  MaxRequests = 3
  MaxTime = 0
  NoTask = NoTask
INVARIANTS
  SupersededStaysOnRecord
CHECK_DEADLOCK FALSE
