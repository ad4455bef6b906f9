CONSTANTS
  c1 = c1
  c2 = c2
  Clients = {c1, c2}
  per_minute = 2
  Window = 2
  MaxTime = 6
  MaxBehind = 2
SPECIFICATION Spec
SYMMETRY Symmetry
INVARIANTS
  TypeOK
  WindowLimit
  RefusedWhenFull
