--------------------------- MODULE MCCoupleInvites ---------------------------
(* Model-checking instances of CoupleInvites. *)
EXTENDS CoupleInvites, TLC

(* Users, couples and requests are interchangeable. *)
Symmetry ==
  Permutations(User) \union Permutations(Id) \union Permutations(Request)
=============================================================================
