------------------------------ MODULE MC_Turn ------------------------------
(* A small instance of Turn: two calls that change something and one that looks. *)
EXTENDS Turn, TLC

CONSTANTS WriteA, WriteB, Read

Kinds == (WriteA :> "mutation") @@ (WriteB :> "mutation") @@ (Read :> "observation")
=============================================================================
