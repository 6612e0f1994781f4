\* Two threads, whose callbacks return before the next head, or overlap.
SPECIFICATION FairSpec
CONSTANTS
  th1 = th1
  th2 = th2
  Threads = {th1, th2}
  Slow = {th1}
  TotalTx = 5
  Pending = 4
  Duration = 4
  MaxActive = 2
  BlockSize = 1
  MaxHeight = 5
INVARIANTS
  TypeOK
  WindowKept
  NoncesConsecutive
  CountedOnce
PROPERTIES
  ThreadsEnd
CHECK_DEADLOCK FALSE
