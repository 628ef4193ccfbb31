CONSTANTS
  w1 = w1
  w2 = w2
  w3 = w3
  t1 = t1
  t2 = t2
  Wallets = {w1, w2, w3}
  First = {w1, w2, w3}
  TinOf <- MCPairTin
  PlaceOf <- MCPlaceOf
  MaxDue = 3
  Calls = {c1}
  Regular = TRUE
  MaxDay = 2
  MaxCalls = 1
  MaxGone = 0
  MaxNew = 0
  MaxFaults = 0
SPECIFICATION FairSpec
PROPERTIES EveryWalletRead
CHECK_DEADLOCK FALSE
