CONSTANTS
  w1 = w1
  w2 = w2
  w3 = w3
  t1 = t1
  t2 = t2
  Wallets = {w1, w2}
  First = {w1}
  TinOf <- MCPairTin
  PlaceOf <- MCPlaceOf
  MaxDue = 2
  Calls = {c1, c2}
  Regular = FALSE
  MaxDay = 0
  MaxCalls = 2
  MaxGone = 0
  MaxNew = 1
  MaxFaults = 1
SPECIFICATION Spec
INVARIANTS NeverOvercounted DoneStays
SYMMETRY MCSymmetry
