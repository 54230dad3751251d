SPECIFICATION Spec
CONSTANTS
  MaxCpu = 12
  Machines <- MCMachines
  Files <- MCFiles
  Lists <- MCLists
  Options <- MCOptions
INVARIANTS TypeOK OwnSettings LoadsAvoidMeasured StartsUnlessDoomed
CHECK_DEADLOCK FALSE
