CONSTANTS
  a1 = a1
  a2 = a2
  k1 = k1
  k2 = k2
  e1 = e1
  w1 = w1
  w2 = w2
  c1 = c1
  m1 = m1
  None = None
  Agents = {a1, a2}
  Keys = {k1, k2}
  Examples = {e1}
  Workers = {w1, w2}
  MaxRequests = 2
  Clients = {c1}
  Ids = {m1}
  Requester = a1
  MaxAge = 1
  MaxTime = 2
SPECIFICATION Spec
SYMMETRY Symmetry
CONSTRAINT OverlapFirst
INVARIANTS
  DidsUnique
  Authentic
  InvalidExplained
  VerifiersAgree
  RefusalsExplained
PROPERTIES
  KeyFollowsDid
CHECK_DEADLOCK FALSE
