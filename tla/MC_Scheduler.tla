---------------------------- MODULE MC_Scheduler ----------------------------
(* A small instance of Scheduler. *)
EXTENDS Scheduler

Schedule(kind, at, every, anchor) == [kind |-> kind, at |-> at, every |-> every, anchor |-> anchor]

\* A job that runs once and one that runs in every period, whose anchor has passed.
Anchored == {Schedule("At", 1, 1, NONE), Schedule("Every", 0, 1, 0)}
=============================================================================
