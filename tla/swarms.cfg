CONSTANTS
  x = x
  y = y
  s1 = s1
  w1 = w1
  w2 = w2
  Agents = {1, 2, 3}
  Caps = {x, y}
  Profiles <- MCProfiles
  SwarmIds = {s1}
  Workers = {w1, w2}
  Dialects = {"sqlite", "postgres"}
  MaxWrites = 1
SPECIFICATION Spec
CONSTRAINT OneContribution
SYMMETRY Symmetry
INVARIANTS
  ExecutesWithTheFirst
  MembersRegistered
PROPERTIES
  OnlyLateWritesDangle
CHECK_DEADLOCK FALSE
