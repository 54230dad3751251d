SPECIFICATION FairSpec
CONSTANTS
  k = k
  c1 = c1
  c2 = c2
  n1 = n1
  Loads = {k}
  Measurements = {c1, c2}
  Nodes = {n1}
  Faults = {"setup"}
  Rounds = 2
  MaxSignals = 1
  PromptStart = TRUE
  PromptStop = TRUE
  Kind <- MCKind
  Order <- MCOrder
INVARIANTS TypeOK OneAtATime QuietMeasured ProfilesDiffer AllComplete
PROPERTIES SuiteEnds
CHECK_DEADLOCK FALSE
