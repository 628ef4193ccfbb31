CONSTANTS
  Links = {l1, l2}
  Runs = {r1, r2}
  TTL = 1
  OfferUntil = 2
  MaxTime = 2
  MaxFaults = 1
  Plans <- MCPlans
  None = None
SPECIFICATION Spec
INVARIANTS SilenceTrue
SYMMETRY MCSymmetry
CHECK_DEADLOCK FALSE
