SPECIFICATION Spec
CONSTANTS
  Couple = {c1, c2}
  Photo = {p1, p2, p3}
  Content = {f1, f2}
  Request = {r1}
  MaxBatch = 2
  Reuse = TRUE
  MayFail = FALSE
  None = None
INVARIANT EveryPhotoServed
CHECK_DEADLOCK FALSE
