\* A waiter that keeps up with the chain, and one that lets up to two blocks
\* pass before each step, while one best block is replaced.
SPECIFICATION FairSpec
CONSTANTS
  Helpers = {"blocks", "number", "round", "collator", "session", "phase"}
  SessionLength = 6
  Periods = {0, 1, 3}
  Targets = {4, 7}
  MaxLag = 2
  MaxForks = 1
  MaxHeight = 22
INVARIANTS
  TypeOK
  NoWaitEndsEarly
  NoBlockMissed
  SessionHolds
PROPERTIES
  WaitsEnd
CHECK_DEADLOCK FALSE
