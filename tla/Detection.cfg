SPECIFICATION PartsSpec
CONSTANTS
  r1 = r1
  r2 = r2
  Runs = {r1, r2}
  Prices = {100, 120}
  FirstPrice = 100
  MaxMonths = 5
  MaxRows = 2
  MaxEdits = 1
  Workers = {r1, r2}
  BillAmounts = {50}
  MaxBills = 2
  MaxBilled = 4
  MaxPeriods = 2
  MaxMoves = 2
  Desks = {r1, r2}
  Keys = {"netflix", "comcast"}
  Traits = {"media", "other"}
  CatalogTrait = "other"
  MaxChanges = 3
SYMMETRY MCSymmetry
INVARIANTS
  SoloRunsNeverDuplicate
  NothingGoesUnannounced
  BillsAreSound
  StaffIsAccountable
\* Bounds on months, rows and moves end behaviours.
CHECK_DEADLOCK FALSE
