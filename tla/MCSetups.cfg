SPECIFICATION Spec
CONSTANTS
  c1 = c1
  c2 = c2
  Clients = {c1, c2}
  Scripts <- MCScripts
  Chain <- MCChain
  Granted <- MCGranted
  MaxDry = 2
  Amount = 20
INVARIANTS
  TypeOK
  FiveChained
  MissingPoolCreated
PROPERTIES
  AimsMet
CHECK_DEADLOCK FALSE
