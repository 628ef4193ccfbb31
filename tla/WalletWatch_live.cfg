CONSTANTS
  w1 = w1
  w2 = w2
  r1 = r1
  r2 = r2
  r3 = r3
  r4 = r4
  Wallets = {w1, w2}
  Rows = {r1, r2, r3}
  Movements = {r1, r2, r3}
  MaxBlock = 4
  BlockTime <- MCBlockTime
  BlockOf <- MCSpreadBlocks
  PlaceOf <- MCPlaceOf
  ListingCount = 1
  ListingOf <- MCOneListing
  SidesOf <- MCTwoWallets
  PageSize = 1
  MaxPages = 2
  Passes = {p1}
  RegisteredAt <- MCRegisteredAt
  OldestPair <- MCNoPairs
  Lag = 1
  Overlap = 1
  IndexDelay = 1
  MaxTime = 5
  MaxFaults = 1
SPECIFICATION FairSpec
PROPERTIES OwedRecorded
INVARIANTS CursorTrue WrittenOnce
