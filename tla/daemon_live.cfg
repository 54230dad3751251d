SPECIFICATION FairSpec
CONSTANTS
  Submissions = {1}
  Workers = {w1, w2}
  MaxMsg = 2
  MaxSignals = 1
  MaxLosses = 2
PROPERTIES AssignedIsParsed ExitEndsWithRoom
CHECK_DEADLOCK FALSE
