CONSTANTS
  Claims = {c1, c2}
  Tenants = {t1}
  Face = 2
  Amounts = {1, 2}
  LapseAfter = 2
  Runs = {r1, r2}
  MaxDay = 2
  None = None
SPECIFICATION Spec
PROPERTIES SettlementKeepsSum
SYMMETRY MCSymmetry
CHECK_DEADLOCK FALSE
