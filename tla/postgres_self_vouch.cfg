CONSTANTS
  a1 = a1
  a2 = a2
  t1 = t1
  m1 = m1
  m2 = m2
  m3 = m3
  w1 = w1
  None = None
  Agents = {a1, a2}
  Tasks = {t1}
  MessageIds = {m1, m2, m3}
  Workers = {w1}
  Routes = {"rest"}
  EnforceFK = TRUE
  MaxChurn = 1
SPECIFICATION Spec
SYMMETRY Symmetry
INVARIANTS
  NoSelfVouch
