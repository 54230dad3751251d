SPECIFICATION Spec
CONSTANTS
  Cpus <- MCCpus
  Buckets = 3
  MaxCount = 2
  Tags = {"run_info", "SystemInfo", "loads", "Measurements", "date", "time"}
  AnyTags = {"date"}
  MaxDocs = 3
  MaxLevel = 2
  MaxDirs = 2
INVARIANTS StatisticsAgree FreedIsLeftAlone ArchiveIsWhole
CHECK_DEADLOCK FALSE
