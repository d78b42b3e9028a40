SPECIFICATION Spec
CONSTANTS
  User = {u1, u2}
  Slot = {{p1, p2}, {p3}}
  Home = {h1, h2}
  Request = {r1, r2, r3}
  Arrivals = 3
  MayFail = TRUE
  None = None
SYMMETRY Symmetry
INVARIANTS TypeOK FreshAnswer RowNeedsEvent
CHECK_DEADLOCK FALSE
