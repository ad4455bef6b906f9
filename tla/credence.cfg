CONSTANTS
  a1 = a1
  k1 = k1
  k2 = k2
  w1 = w1
  w2 = w2
  None = None
  Agents = {a1}
  Caps = {k1, k2}
  Workers = {w1, w2}
  Postgres = TRUE
  Offered = {"claimed", "community-verified"}
  MaxRecords = 4
  MaxPuts = 2
  MaxDeletes = 1
SPECIFICATION Spec
CONSTRAINT ShortAgain
SYMMETRY Symmetry
INVARIANTS
  TypeOK
  EvidenceEarned
  CreditsRecorded
  VouchEarned
  StatusRecorded
PROPERTIES
  DisputeStays
