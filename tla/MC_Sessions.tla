---------------------------- MODULE MC_Sessions ----------------------------
(* Small instances of Sessions. *)
EXTENDS Sessions

CONSTANTS k1, k2, r1, r2, s1, e1

Of_one == [r \in Requests |-> k1]
Of_two == [r \in Requests |-> IF r = r1 THEN k1 ELSE k2]

Target_v == [c \in Stops |-> k1]
=============================================================================
