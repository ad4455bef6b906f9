CONSTANTS
  a1 = a1
  a2 = a2
  t1 = t1
  m1 = m1
  m2 = m2
  w1 = w1
  w2 = w2
  None = None
  Agents = {a1, a2}
  Tasks = {t1}
  MessageIds = {m1, m2}
  Workers = {w1, w2}
  Routes = {"rest"}
  EnforceFK = FALSE
  MaxChurn = 0
SPECIFICATION Spec
SYMMETRY Symmetry
PROPERTIES
  StrictTransitions
