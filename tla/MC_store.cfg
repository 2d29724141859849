SPECIFICATION FairSpec
CONSTANTS
  Procs = {"p1", "p2"}
  MaxOps = 3
  MaxCrashes = 1
  Outs = {1}
  MaxIds = 2
  MaxRetries = 1
INVARIANTS
  ChildOnce
  EntryKept
  HistoryComplete
PROPERTIES
  AtomicWrites
  StatementEnds
CHECK_DEADLOCK FALSE
