------------------------------ MODULE MCGallery ------------------------------
(* Model-checking instances of Gallery. *)
EXTENDS Gallery, Integers, TLC

ASSUME MaxBatch \in Nat \ {0}

Symmetry == UNION {Permutations(Couple), Permutations(Photo),
                   Permutations(Content), Permutations(Request)}
=============================================================================
