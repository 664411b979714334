SPECIFICATION FairSpec
CONSTANTS
  j1 = j1
  j2 = j2
  t1 = t1
  a1 = a1
  Jobs = {j1, j2}
  Txns = {t1}
  Accounts = {a1}
  \* The item is linked with an account that posts nothing, which is left out.
  FirstAccounts = {}
  PageSize = 1
  MaxSyncPages = 1
  Attempts = 2
  MaxChanges = 2
  MaxFaults = 2
INVARIANTS
  UndisturbedCatchesUp
  NothingMissing
  UndisturbedStatus
PROPERTY
  HealthyItemSettles
