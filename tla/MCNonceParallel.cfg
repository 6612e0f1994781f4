\* Two workers, one call at a time in each, a pool that runs dry, two refills
\* that may fail.
SPECIFICATION FairSpec
CONSTANTS
  w1 = w1
  w2 = w2
  main = main
  t1 = t1
  t2 = t2
  t3 = t3
  r1 = r1
  r2 = r2
  r3 = r3
  Main = main
  Workers = {w1, w2}
  Tests = {t1, t2}
  Refills = {r1, r2, r3}
  ProcOf <- OnePerWorker
  Batch = 2
  Backend = TRUE
  FeeLocked = FALSE
  MayFail = {r1, r2}
  FirstNonce = 0
  FirstCandidate = 0
  FirstToken = 0
  Undef = Undef
  NoCaller = NoCaller
  MaxCalls = 2
INVARIANTS
  TypeOK
  GrantsDistinct
  EmptyPoolIsRefilling
PROPERTIES
  TestsAreAnswered
  NoncesAreTickets
CHECK_DEADLOCK FALSE
