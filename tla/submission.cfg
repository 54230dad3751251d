SPECIFICATION Spec
CONSTANTS
  c1 = c1
  c2 = c2
  Clients = {c1, c2}
  Host <- MCHost
  NoAbort = {c1}
  Mailers = {c1}
  Processes = {p1}
  DirPath <- MCDirPath
  MaxAttempts = 2
  MaxSends = 3
  MaxThreads = 2
  MaxReceived = 2
  MaxFaults = 1
INVARIANTS TypeOK SuccessIsQueued KeptForParser
PROPERTY Delivers
CHECK_DEADLOCK FALSE
