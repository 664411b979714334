SPECIFICATION DetectSpec
CONSTANTS
  r1 = r1
  r2 = r2
  c1 = c1
  c2 = c2
  s1 = s1
  s2 = s2
  Requests = {r1, r2}
  Cases = {c1, c2}
  Subs = {s1}
  Prices = {10}
SYMMETRY Symmetry
INVARIANT
  EverySavingBookedOnce
\* Case ids run out, and a canceled subscription takes no further case.
CHECK_DEADLOCK FALSE
