CONSTANTS
  Tins = {t1, t2, t3}
  Addresses = {a1}
  BotCap = 2
  AddressCap = 1
  WalletCap = 1
  Rows = {r1, r2}
  Keys = {k1}
  Labels = {l1}
  Requests = {q1, q2}
  MaxChecks = 1
  MaxWindows = 2
  None = None
SPECIFICATION Spec
INVARIANTS TypeOK OneHolder TrustHasReadout BudgetHeld
PROPERTIES KeepsPlan FlagStays
SYMMETRY MCSymmetry
CHECK_DEADLOCK FALSE
