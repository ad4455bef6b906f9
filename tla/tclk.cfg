CONSTANTS
  c1 = c1
  w1 = w1
  w2 = w2
  o = o
  Contracts = {c1}
  Offer = o
  Workers = {w1, w2}
  Databases = {"sqlite", "postgres"}
  MaxFrames = 5
SPECIFICATION Spec
SYMMETRY Symmetry
INVARIANTS
  TypeOK
  TranscriptInOrder
  StatusBacked
PROPERTIES
  MovesByMachine
  ImplementsLedger
