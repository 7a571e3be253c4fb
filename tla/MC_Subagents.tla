--------------------------- MODULE MC_Subagents ---------------------------
(***************************************************************************)
(* A small instance of Subagents: a one-shot subagent run1 and a session   *)
(* subagent chat1, messaged and cancelled by their parents.                *)
(***************************************************************************)
EXTENDS Subagents

CONSTANTS run1, chat1

Mode_v == [a \in Agents |-> IF a = run1 THEN "run" ELSE "session"]
=============================================================================
