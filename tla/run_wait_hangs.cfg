SPECIFICATION FairSpec
CONSTANTS
  k = k
  h = h
  s = s
  c = c
  y = y
  n1 = n1
  n2 = n2
  Loads = {s}
  Measurements = {c}
  Nodes = {n1}
  Faults = {"spawn"}
  Rounds = 1
  MaxSignals = 0
  PromptStart = FALSE
  Kind <- MCKind
PROPERTIES WaitEnds
CHECK_DEADLOCK FALSE
