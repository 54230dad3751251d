SPECIFICATION Spec
CONSTANTS
  k = k
  h = h
  s = s
  c = c
  y = y
  n1 = n1
  n2 = n2
  Loads = {k}
  Measurements = {c, y}
  Nodes = {n1}
  Faults = {"setup", "crash", "prepare", "spawn", "job"}
  Rounds = 2
  MaxSignals = 1
  PromptStart = FALSE
  Kind <- MCKind
INVARIANTS TypeOK StartBarrier ReportComplete
PROPERTIES KeepsProtocol
CHECK_DEADLOCK FALSE
