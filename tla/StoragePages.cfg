\* Two items of up to five keys in pages of two, a batch every second page,
\* and one key that comes or goes.
SPECIFICATION FairWalksSpec
CONSTANTS
  Items = 2
  MaxKey = 5
  PageSize = 2
  FlushEvery = 2
  MaxChanges = 1
INVARIANTS
  WalksTypeOK
  KeysMigratedOnce
PROPERTIES
  WalksEnd
CHECK_DEADLOCK FALSE
