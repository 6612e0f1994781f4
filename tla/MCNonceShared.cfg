\* Three calls that overlap in one worker, a registration that may fail.
SPECIFICATION FairSpec
CONSTANTS
  w1 = w1
  w2 = w2
  main = main
  t1 = t1
  t2 = t2
  t3 = t3
  r1 = r1
  r2 = r2
  r3 = r3
  Main = main
  Workers = {w1}
  Tests = {t1, t2, t3}
  Refills = {r1, r2, r3}
  ProcOf <- ThreeInOneWorker
  Batch = 2
  Backend = FALSE
  FeeLocked = TRUE
  MayFail = {r1}
  FirstNonce = 0
  FirstCandidate = 0
  FirstToken = 0
  Undef = Undef
  NoCaller = NoCaller
  MaxCalls = 1
PROPERTIES SocketsAreReleased NoncesAreLossyTickets
CHECK_DEADLOCK FALSE
