-------------------------- MODULE MC_Transactions --------------------------
(* A small instance of Transactions. *)
EXTENDS Transactions, TLC

CONSTANTS t1, t2, p1, p2

Symmetry == Permutations({t1, t2}) \cup Permutations({p1, p2})
=============================================================================
