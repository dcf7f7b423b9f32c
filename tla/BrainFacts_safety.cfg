SPECIFICATION Spec
CONSTANTS
  k1 = k1  k2 = k2  s1 = s1  s2 = s2  i1 = i1  i2 = i2  i3 = i3
  v1 = v1  v2 = v2  h1 = h1  h2 = h2
  Keys = {k1, k2}
  Values = {v1, v2}
  JunkValues = {}
  DirectValues = {v1}
  Handlers = {h1, h2}
  Subjects = {s1, s2}
  Identities = {i1, i2, i3}
  Ingests <- SeveralFacts
  StaleAge = 1
  ExpiryAge = 2
  MaxRequests = 4
  MaxTime = 0
  NoTask = NoTask
INVARIANTS
  TypeOK
  OneCurrentFact
  CurrentFactRemains
  ProjectionAgrees
SYMMETRY Symmetry
CHECK_DEADLOCK FALSE
