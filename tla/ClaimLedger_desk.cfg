CONSTANTS
  Claims = {c1, c2}
  Tenants = {t1}
  Face = 2
  Amounts = {1, 2}
  LapseAfter = 2
  Runs = {r1, r2}
  MaxDay = 3
  None = None
SPECIFICATION Spec
INVARIANTS TypeOK Headroom
PROPERTIES SignedOnce WithdrawnQuiet
SYMMETRY MCSymmetry
CHECK_DEADLOCK FALSE
