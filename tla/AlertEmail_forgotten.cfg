CONSTANTS
  c1 = c1
  c2 = c2
  p1 = p1
  p2 = p2
  p3 = p3
  Passes = {c1, c2}
  Payments = {p1, p2}
  Window = 2
  Ages = {0, 1, 2}
  CallTime = 1
  MaxAge = 4
  MaxTime = 2
  MaxFaults = 2
SPECIFICATION Spec
INVARIANTS FailedAlertCounted
SYMMETRY MCSymmetry
CHECK_DEADLOCK FALSE
