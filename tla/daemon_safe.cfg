SPECIFICATION Spec
CONSTANTS
  Submissions = {1, 2}
  Workers = {w1, w2, w3}
  MaxMsg = 2
  MaxSignals = 1
  MaxLosses = 2
INVARIANTS TypeOK HeldOnce ParsedOnce EnoughStops InProgressIsTrue AssignedIsHeld
PROPERTIES KeepsQueue
SYMMETRY Symmetry
CHECK_DEADLOCK FALSE
