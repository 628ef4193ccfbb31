CONSTANTS
  Events = {1, 2}
  Second <- OneSecond
  Names = {n1}
  Writers = {w1, w2}
  PageSize = 1
  MaxAttempts = 2
  MaxVersions = 2
  MaxClock = 3
  None = None
SPECIFICATION Spec
INVARIANTS NeverOlder
CHECK_DEADLOCK FALSE
