CONSTANTS
  w1 = w1
  w2 = w2
  r1 = r1
  r2 = r2
  r3 = r3
  r4 = r4
  Wallets = {w1}
  Rows = {r1, r2, r3}
  Movements = {r1, r2, r3}
  MaxBlock = 4
  BlockTime <- MCBlockTime
  BlockOf <- MCBlockOf
  PlaceOf <- MCPlaceOf
  ListingCount = 2
  ListingOf <- MCTwoListings
  SidesOf <- MCOneWallet
  PageSize = 1
  MaxPages = 2
  Passes = {p1, p2}
  RegisteredAt <- MCRegisteredAt
  OldestPair <- MCNoPairs
  Lag = 1
  Overlap = 1
  IndexDelay = 0
  MaxTime = 5
  MaxFaults = 0
SPECIFICATION Spec
PROPERTIES CursorForward
