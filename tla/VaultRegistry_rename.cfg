CONSTANTS
  Tins = {t1}
  Addresses = {a1}
  BotCap = 1
  AddressCap = 1
  WalletCap = 1
  Rows = {r1}
  Keys = {k1}
  Labels = {l1}
  Requests = {q1, q2}
  MaxChecks = 1
  MaxWindows = 1
  None = None
SPECIFICATION Spec
PROPERTIES RenameLeavesKey
CHECK_DEADLOCK FALSE
