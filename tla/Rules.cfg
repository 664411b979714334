SPECIFICATION Spec
CONSTANTS
  MaxSaving = 300
  \* 20 November 2027: the walk meets a year's end and 29 February 2028.
  FirstDays = {740610}
  DueDays = {1, 28, 29, 30, 31}
  Cadences = {"monthly", "biweekly"}
  Horizon = 30
  MaxWalk = 130
  BillingCadences = {"weekly", "biweekly", "monthly", "quarterly", "annual"}
  MaxPrice = 24
  MaxHours = 24
  ChargeGaps = {6, 8, 24, 28, 33, 38, 45}
  ChargeAmounts = {1000}
  MaxCharges = 5
  MaxSilence = 60
  MaxVersion = 1
  MaxJobFaults = 1
  TokenLife = 1
  MaxClock = 2
  Dialogs = {1, 2}
  Panes = {"left", "right"}
  MaxToasts = 3
  MaxLooks = 3
  MonthDays = 4
  PageSize = 3
  LastDay = 9
  Streams <- MCStreams
  Lookups = {"s1", "s2"}
  Banks = {"x", "y"}
  Seeders = {1, 2}
  Days = {1, 2, 3}
  MonthStart = 2
  SavedAmounts = {5}
  ListSize = 2
  MaxEvents = 4
  Period = 30
  DriftSteps = 1
  Starts = {60, 75, 89}
  Drifts <- MCDrifts
  MaxTyping = 65
  NoBalance = NoBalance
  AccountTypes = {"checking", "credit_card"}
  Balances = {4999, 5000}
  PurchaseAmounts = {25000, 25001}
  Ages = {0, 5}
  MaxPurchases = 2
  MaxDays = 4
  MaxSkips = 2
INVARIANTS
  DaysAreKept
  RoundingIsSound
  DrainedMeansEvaluated
  OnTimeStaysFound
  AdmissionIsSound
  PageIsGivenBack
  BankAdaptersAreSound
  SeedIsSound
  LedgerIsReadWhole
  CodesTolerateDrift
PROPERTY
  NewDataIsEvaluated
\* Every walk ends at its bound, and without a queue requests end.
CHECK_DEADLOCK FALSE
