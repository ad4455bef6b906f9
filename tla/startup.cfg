CONSTANTS
  p1 = p1
  p2 = p2
  p3 = p3
  agents = agents
  tasks = tasks
  capabilities = capabilities
  public_key = public_key
  accepted_at = accepted_at
  did = did
  status = status
  k1 = k1
  Procs = {p1, p2, p3}
  Tables = {agents, tasks, capabilities}
  CapTable = capabilities
  Added <- MCAdded
  Indexes <- MCIndexes
  Unique <- MCUnique
  Caps = {k1}
  Dialects = {"sqlite", "postgres"}
  MaxCrashes = 1
SPECIFICATION Spec
INVARIANTS
  ServingReady
PROPERTIES
  FailsOnlyWhenRaced
  IndexesLostByCutOff
  EventuallyServing
CHECK_DEADLOCK FALSE
