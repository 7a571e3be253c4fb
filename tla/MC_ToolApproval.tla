-------------------------- MODULE MC_ToolApproval --------------------------
(***************************************************************************)
(* Small instances of ToolApproval.  Two sessions share the prompt state.  *)
(* Session s1 asks twice in one batch, so that a decision waits in the     *)
(* cache while its batch waits on a person; s2 asks for the scope of s1's  *)
(* first call, so that an approval for the session reaches it.             *)
(***************************************************************************)
EXTENDS ToolApproval, TLC

CONSTANTS s1, s2, a1, a2, b1, b2, shellLs, shellRm, kernelFile, tierFile

\* Two sessions that ask for the same scope, one of them after a call on the
\* kernel, and one whose batch asks twice after a call that is to be proposed.
SharedBatch == s1 :> <<a1>> @@ s2 :> <<b2, b1>>
MixedBatch  == s1 :> <<b2, a1, a2>>

SharedScope == a1 :> shellLs @@ b1 :> shellLs @@ b2 :> kernelFile
MixedScope  == a1 :> shellLs @@ a2 :> shellRm @@ b2 :> tierFile

AllTiers == [sc \in Scopes |-> IF sc = tierFile THEN "Propose" ELSE "Allow"]

RequestSymmetry == Permutations(Requests)
=============================================================================
