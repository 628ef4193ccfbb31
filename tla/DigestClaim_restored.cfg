CONSTANTS
  Runs = {r1, r2}
  Cadences = {"off", "daily", "weekly"}
  MaxDay = 1
  MondayOf <- OneWeek
  MaxOutcomes = 2
  None = None
SPECIFICATION Spec
INVARIANTS HeldWasSent
CHECK_DEADLOCK FALSE
