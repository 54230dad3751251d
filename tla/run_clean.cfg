SPECIFICATION FairSpec
CONSTANTS
  k = k
  h = h
  s = s
  c = c
  y = y
  n1 = n1
  n2 = n2
  Loads = {h}
  Measurements = {c, y}
  Nodes = {n1, n2}
  Faults = {}
  Rounds = 2
  MaxSignals = 1
  PromptStart = TRUE
  Kind <- MCKind
INVARIANTS NoOrphans StopReachesAll
PROPERTIES Terminates
CHECK_DEADLOCK FALSE
