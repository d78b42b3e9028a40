------------------------------- MODULE Lists -------------------------------
(***************************************************************************)
(* What sorting and filtering return, said without recursion so that it    *)
(* can be reasoned about (orderBy of Prisma, Array.prototype.filter).      *)
(***************************************************************************)
EXTENDS Integers, Sequences, FiniteSets

\* The numbers of S in order: the i-th has i - 1 smaller ones.
Sorted(S) ==
  [i \in 1 .. Cardinality(S) |-> CHOOSE x \in S : Cardinality({y \in S : y < x}) = i - 1]

\* The entries of s at the positions in S, in their order
Kept(s, S) == [k \in 1 .. Cardinality(S) |-> s[Sorted(S)[k]]]
=============================================================================
