SPECIFICATION ServicesSpec
CONSTANTS
  r1 = r1
  r2 = r2
  m1 = m1
  m2 = m2
  b1 = b1
  b2 = b2
  o1 = o1
  o2 = o2
  k1 = k1
  Calls = {r1, r2}
  MaxTokens = 3
  Uploads = {r1, r2}
  MaxPerCase = 2
  MaxKeys = 4
  AdviceJobs = {r1, r2}
  Options = {o1, o2}
  OffCatalog = o3
  MonthlyPrice <- MCMonthlyPrice
  MemberPrices = {9, 12}
  MaxPicks = 2
  MaxAnswer = 3
  MaxMemberChanges = 2
  Exchanges = {r1, r2}
  Owners = {m1, m2}
  BankAccounts = {b1, b2}
  MaxGrants = 3
  Tabs = {r1, r2}
  Members = {m1, m2}
  Institutions = {b1, b2}
  MaxVisits = 3
  Screens = {b1, b2}
  Clicks = {r1, r2}
  Tracked = {k1}
  FormRows = {m1, m2}
  MaxClicks = 3
  MaxElsewhere = 1
SYMMETRY MCSymmetry
INVARIANTS
  SessionsAreSound
  StatementsAreSound
  AdviceIsSound
  LinkedToOneMember
  WizardIsSound
  DashboardIsHonest
\* Bounds on requests, tokens, keys and visits end behaviours.
CHECK_DEADLOCK FALSE
