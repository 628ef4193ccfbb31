CONSTANTS
  w1 = w1
  w2 = w2
  w3 = w3
  t1 = t1
  t2 = t2
  Wallets = {w1, w2}
  First = {w1}
  TinOf <- MCPairTin
  PlaceOf <- MCPlaceOf
  MaxDue = 1
  Calls = {c1}
  Regular = FALSE
  MaxDay = 1
  MaxCalls = 3
  MaxGone = 1
  MaxNew = 1
  MaxFaults = 0
SPECIFICATION Spec
INVARIANTS TypeOK RecordedExact
PROPERTIES FinishedStays
