SPECIFICATION Spec
CONSTANTS
  a = a
  b = b
  c = c
  Submissions = {a, b, c}
  Workers = {w1, w2}
  System <- MCSystem
  Host <- MCHost
  Client <- MCClient
  Faults = {}
  MaxDbFaults = 1
  MaxKills = 0
INVARIANT SuccessIsStored
CHECK_DEADLOCK FALSE
