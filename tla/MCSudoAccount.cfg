\* Two tests that ask the server, one of which may lose a ticket before the
\* node has the transaction, and one client that reads the chain.
SPECIFICATION FairSpec
CONSTANTS
  c1 = c1
  c2 = c2
  c3 = c3
  Ticketed = {c1, c2}
  FromChain = {c3}
  MayLose = {c1}
  First = 3
  MaxTxs = 2
INVARIANTS
  TypeOK
  SignedByHolder
  OnlyChainReadersCollide
PROPERTIES
  StuckOnlyBehindGap
CHECK_DEADLOCK FALSE
