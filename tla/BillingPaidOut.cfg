SPECIFICATION Spec
CONSTANTS
  h1 = h1
  h2 = h2
  m1 = m1
  p1 = p1
  p2 = p2
  Handlers = {h1}
  Members = {m1}
  Subs = {p1, p2}
  MetaKept = {TRUE}
  MaxEvents = 7
  MaxMuddle = 7
  MaxNow = 0
INVARIANT
  PaidMemberIsEntitled
\* The bounds on events and periods end every behaviour.
CHECK_DEADLOCK FALSE
