SPECIFICATION Spec
CONSTANTS
  a = a
  b = b
  c = c
  Submissions = {a, b, c}
  Workers = {w1, w2}
  System <- MCSystem
  Host <- MCHost
  Client <- MCClient
  Faults = {"report", "sql", "files"}
  MaxDbFaults = 2
  MaxKills = 1
INVARIANTS TypeOK RegisteredOnce RunsAreTrue OwnPlace VerdictIsTrue NoOpenTransaction
  LockCoversRegistration
SYMMETRY Symmetry
CHECK_DEADLOCK FALSE
