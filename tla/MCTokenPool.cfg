\* One pool for two workers: what getTokenId hands out when it is empty.
SPECIFICATION FairSpec
CONSTANTS
  w1 = w1
  w2 = w2
  main = main
  t1 = t1
  t2 = t2
  t3 = t3
  r1 = r1
  r2 = r2
  r3 = r3
  Main = main
  Workers = {w1, w2}
  Tests = {t1, t2}
  Refills = {r1, r2, r3}
  ProcOf <- OnePerWorker
  Batch = 2
  Backend = TRUE
  FeeLocked = FALSE
  MayFail = {}
  FirstNonce = 0
  FirstCandidate = 0
  FirstToken = 0
  Undef = Undef
  NoCaller = NoCaller
  MaxCalls = 2
INVARIANTS TokenGrantsDefined
CHECK_DEADLOCK FALSE
