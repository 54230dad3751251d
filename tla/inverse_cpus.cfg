SPECIFICATION Spec
CONSTANTS
  MaxCpu = 12
  Machines <- MCTwoDigit
  Files <- MCFiles
  Lists <- MCLists
  Options <- MCOptions
INVARIANTS InverseSeparates
CHECK_DEADLOCK FALSE
