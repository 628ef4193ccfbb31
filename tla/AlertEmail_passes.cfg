CONSTANTS
  c1 = c1
  c2 = c2
  p1 = p1
  p2 = p2
  p3 = p3
  Passes = {c1, c2}
  Payments = {p1, p2, p3}
  Window = 2
  Ages = {0}
  CallTime = 3
  MaxAge = 2
  MaxTime = 4
  MaxFaults = 2
SPECIFICATION Spec
INVARIANTS TypeOK OnePerWindow ClaimForEmail
SYMMETRY MCSymmetry
CHECK_DEADLOCK FALSE
