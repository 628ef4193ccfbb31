CONSTANTS
  Runs = {r1, r2}
  Cadences = {"off", "daily", "weekly"}
  MaxDay = 2
  MondayOf <- OneWeek
  MaxOutcomes = 2
  None = None
SPECIFICATION Spec
INVARIANTS TypeOK DigestOnce KeyForDigest
SYMMETRY MCSymmetry
CHECK_DEADLOCK FALSE
