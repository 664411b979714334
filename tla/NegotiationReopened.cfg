SPECIFICATION ModeSpec
CONSTANTS
  r1 = r1
  r2 = r2
  c1 = c1
  c2 = c2
  b1 = b1
  Requests = {r1, r2}
  Cases = {c1}
  Bills = {b1}
  OfferAmounts = {100}
  FeePercents = {40}
  MaxTimeline = 7
PROPERTIES
  ResolvedStaysResolved
