CONSTANTS
  Runs = {r1}
  Cadences = {"off", "daily", "weekly"}
  MaxDay = 1
  MondayOf <- OneWeek
  MaxOutcomes = 3
  None = None
SPECIFICATION Spec
INVARIANTS SentOnce
CHECK_DEADLOCK FALSE
