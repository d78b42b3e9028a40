SPECIFICATION Spec
CONSTANTS
  User = {u1, u2, u3}
  Id = {c1, c2, c3}
  Request = {r1, r2}
  NoUser = NoUser
  NoId = NoId
SYMMETRY Symmetry
INVARIANTS TypeOK OneCouplePerUser CoupleIsWhole InviteHasCouple
PROPERTIES OnlyMembersEndACouple OnlyInviteeFormsACouple ImplementsPairing
