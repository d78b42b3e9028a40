SPECIFICATION Spec
CONSTANTS
  Couple = {c1, c2}
  Photo = {p1, p2, p3}
  Content = {f1, f2, f3}
  Request = {r1, r2}
  MaxBatch = 2
  Reuse = FALSE
  MayFail = TRUE
  None = None
SYMMETRY Symmetry
INVARIANTS TypeOK PhotoHasCouple MissingFileIsDoomed OrphanIsTransient
PROPERTIES OnlyOwnersRemove OnlyOwnersUnlink
CHECK_DEADLOCK FALSE
