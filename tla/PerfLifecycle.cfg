\* Two threads, and one or two nodes; the duration 0 stands for NaN.
SPECIFICATION FairSpec
CONSTANTS
  Items = {"transfer", "swap", "schedule", "scheduleActivate", "claim"}
  NodeCounts = {1, 2}
  Threads = 2
  Durations = {0, 4, 5}
  LiqAssets = 1
  MaxActive = 2
INVARIANTS
  TypeOK
  PassedRunIsReal
PROPERTIES
  RunEnds
CHECK_DEADLOCK FALSE
