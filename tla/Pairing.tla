------------------------------ MODULE Pairing ------------------------------
(***************************************************************************)
(* What the couple service promises its users, without requests, rows or   *)
(* statuses: a user offers to pair with another one, the two become a      *)
(* couple only if neither of them is in one, a couple consists of exactly  *)
(* the two users of its offer, and it ends as a whole.                     *)
(***************************************************************************)
CONSTANTS User, Id

VARIABLES
  offer,     \* offer[i]: {<<a, b>>} while a's offer i to b stands, else {}
  partners   \* partners[i]: the users of the couple formed from offer i

pairingVars == <<offer, partners>>

PairingInit ==
  /\ offer = [i \in Id |-> {}]
  /\ partners = [i \in Id |-> {}]

Single(u) == \A i \in Id : u \notin partners[i]

(* a offers b to become a couple. *)
Offer(i, a, b) ==
  /\ a # b
  /\ offer[i] = {}
  /\ partners[i] = {}
  /\ offer' = [offer EXCEPT ![i] = {<<a, b>>}]
  /\ UNCHANGED partners

(* The offer is taken up: both users must be single. *)
Pair(i, a, b) ==
  /\ <<a, b>> \in offer[i]
  /\ Single(a)
  /\ Single(b)
  /\ partners' = [partners EXCEPT ![i] = {a, b}]
  /\ UNCHANGED offer

(* The offer is dropped or the couple ends; both users leave together. *)
Drop(i) ==
  /\ offer' = [offer EXCEPT ![i] = {}]
  /\ partners' = [partners EXCEPT ![i] = {}]

PairingNext ==
  \E i \in Id : \/ \E a, b \in User : Offer(i, a, b) \/ Pair(i, a, b)
                \/ Drop(i)

PairingSpec == PairingInit /\ [][PairingNext]_pairingVars
=============================================================================
