SPECIFICATION Spec
CONSTANTS
  h1 = h1
  h2 = h2
  m1 = m1
  p1 = p1
  p2 = p2
  Handlers = {h1, h2}
  Members = {m1}
  Subs = {p1, p2}
  MetaKept = {TRUE, FALSE}
  MaxEvents = 7
  MaxMuddle = 4
  MaxNow = 2
SYMMETRY Symmetry
CONSTRAINT Bounded
INVARIANTS
  AppliedAtMostOnce
  StaleAccessIsBounded
  MirrorFollowsProvider
\* The bounds on events and periods end every behaviour.
CHECK_DEADLOCK FALSE
