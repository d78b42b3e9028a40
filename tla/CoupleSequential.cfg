SPECIFICATION Spec
CONSTANTS
  User = {u1, u2, u3, u4}
  Id = {c1, c2, c3, c4}
  Request = {r1}
  NoUser = NoUser
  NoId = NoId
SYMMETRY Symmetry
INVARIANTS SinglePendingInvite CoupledHaveNoPending
PROPERTIES CleanupOnlyPending AnsweredOnce
