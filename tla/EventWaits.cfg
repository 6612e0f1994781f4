\* A node that answers in order with at most two callbacks waiting for it, and
\* one whose answers overtake each other while three wait.
SPECIFICATION FairSpec
CONSTANTS
  Helpers = {"events", "collator", "session", "rewards"}
  Blocks = 3
  Overlap = 3
  MaxHeads = 6
INVARIANTS
  TypeOK
  FailureIsReal
  OnlyTimeoutsLeak
PROPERTIES
  WaitsSettle
CHECK_DEADLOCK FALSE
