CONSTANTS
  w1 = w1
  w2 = w2
  r1 = r1
  r2 = r2
  r3 = r3
  r4 = r4
  Wallets = {w1}
  Rows = {r1, r2, r3}
  Movements = {r1, r2, r3}
  MaxBlock = 4
  BlockTime <- MCLaterBlocks
  BlockOf <- MCBlockOf
  PlaceOf <- MCPlaceOf
  ListingCount = 1
  ListingOf <- MCOneListing
  SidesOf <- MCOneWallet
  PageSize = 1
  MaxPages = 3
  Passes = {p1}
  RegisteredAt <- MCRegisteredLater
  OldestPair <- MCNoPairs
  Lag = 1
  Overlap = 2
  IndexDelay = 2
  MaxTime = 7
  MaxFaults = 0
SPECIFICATION Spec
INVARIANTS WrittenOnce
