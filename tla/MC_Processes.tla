--------------------------- MODULE MC_Processes ---------------------------
(* A small instance of Processes. *)
EXTENDS Processes

CONSTANTS p1, p2, t1, t2, k1, cleanup, drop

Helper_v == [p \in Procs |-> IF p = p1 THEN "piped" ELSE "escaped"]
=============================================================================
