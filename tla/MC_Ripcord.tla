---------------------------- MODULE MC_Ripcord ----------------------------
(***************************************************************************)
(* A small instance of Ripcord: two sessions, one with two calls and one   *)
(* with one.  All of them count towards one threshold, which the first     *)
(* calls of the sessions reach together and neither reaches alone; the     *)
(* third is refused by the gates, matched by a path and not journaled.     *)
(***************************************************************************)
EXTENDS Ripcord

CONSTANTS s1, s2, a1, a2, b1

TwoAndOne == [s \in Sessions |-> IF s = s1 THEN <<a1, a2>> ELSE <<b1>>]

CategoryOf_v == [c \in Calls |-> "delete"]
MinCount_v   == [k \in {"delete"} |-> 2]
ActionOf_v   == [c \in Calls |-> CASE c = a1 -> "FileMove" [] c = b1 -> "FileWrite" [] OTHER -> "None"]
=============================================================================
