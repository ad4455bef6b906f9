CONSTANTS
  a1 = a1
  a2 = a2
  t1 = t1
  m1 = m1
  m2 = m2
  w1 = w1
  w2 = w2
  None = None
  Agents = {a1, a2}
  Tasks = {t1}
  MessageIds = {m1, m2}
  Workers = {w1, w2}
  Routes = {"rest", "envelope"}
  EnforceFK = TRUE
  MaxChurn = 1
SPECIFICATION Spec
CONSTRAINT OneStale
SYMMETRY Symmetry
INVARIANTS
  TypeOK
  ReferencesHold
  RequesterCanClose
  AppliedOnce
