----------------------------- MODULE MCRouteCache -----------------------------
(* Model-checking instances of RouteCache. *)
EXTENDS RouteCache, TLC

Symmetry == UNION {Permutations(User), Permutations(Home), Permutations(Request),
                   UNION {Permutations(s) : s \in Slot}}
=============================================================================
