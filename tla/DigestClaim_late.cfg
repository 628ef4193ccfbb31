CONSTANTS
  Runs = {r1}
  Cadences = {"off", "daily"}
  MaxDay = 1
  MondayOf <- OneWeek
  MaxOutcomes = 2
  None = None
SPECIFICATION Spec
INVARIANTS ArrivesOnce
CHECK_DEADLOCK FALSE
