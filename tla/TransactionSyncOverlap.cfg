SPECIFICATION Spec
CONSTANTS
  j1 = j1
  j2 = j2
  t1 = t1
  a1 = a1
  Jobs = {j1, j2}
  Txns = {t1}
  Accounts = {a1}
  FirstAccounts = {a1}
  PageSize = 1
  MaxSyncPages = 2
  Attempts = 2
  MaxChanges = 2
  MaxFaults = 0
INVARIANT
  CatchesUp
