CONSTANTS
  a1 = a1
  k1 = k1
  k2 = k2
  w1 = w1
  w2 = w2
  None = None
  Agents = {a1}
  Caps = {k1, k2}
  Workers = {w1, w2}
  Postgres = FALSE
  Offered = {"claimed"}
  MaxRecords = 3
  MaxPuts = 1
  MaxDeletes = 0
SPECIFICATION Spec
SYMMETRY Symmetry
INVARIANTS
  NeverAutoVerified
