---------------------------- MODULE AtomicCommit ----------------------------
(***************************************************************************)
(* What the tools for transactions promise: the files of a transaction     *)
(* change all at once when it is committed, and not at all when it is      *)
(* rolled back.  The promise is given up for a transaction in four cases   *)
(* that are named: its commit was dropped on the way, a write left a file  *)
(* half written, a file could not be restored, or somebody else wrote to   *)
(* its files while it was committed.  Even then no other file changes.     *)
(***************************************************************************)
EXTENDS Naturals

CONSTANTS Txs, Paths, Contents

Losses == {"dropped", "torn", "unrestored", "interfered"}

VARIABLES files,    \* what each file holds
          status,   \* of each transaction
          staged,   \* the files each transaction writes
          lost      \* why the promise is given up for a transaction, if it is

vars == <<files, status, staged, lost>>

TxStatus == {"none", "Open", "Committed", "RolledBack"}

Init ==
    /\ files \in [Paths -> Contents]
    /\ status = [t \in Txs |-> "none"]
    /\ staged = [t \in Txs |-> {}]
    /\ lost = [t \in Txs |-> "none"]

Begin(t) ==
    /\ status[t] = "none"
    /\ status' = [status EXCEPT ![t] = "Open"]
    /\ UNCHANGED <<files, staged, lost>>

Stage(t, p) ==
    /\ status[t] = "Open"
    /\ staged' = [staged EXCEPT ![t] = @ \cup {p}]
    /\ UNCHANGED <<files, status, lost>>

\* All the files of the transaction, and no other.
Commit(t) ==
    /\ status[t] = "Open"
    /\ status' = [status EXCEPT ![t] = "Committed"]
    /\ files' = IF lost[t] = "interfered" THEN files
                ELSE [p \in Paths |-> IF p \in staged[t] THEN t ELSE files[p]]
    /\ UNCHANGED <<staged, lost>>

Rollback(t) ==
    /\ status[t] = "Open"
    /\ status' = [status EXCEPT ![t] = "RolledBack"]
    /\ UNCHANGED <<files, staged, lost>>

OnlyFilesOf(t) == \A p \in Paths \ staged[t] : files'[p] = files[p]

\* The promise to a transaction is given up, and from then on its files are in doubt.
Lose(t) ==
    /\ status[t] = "Open"
    /\ \E l \in Losses : lost' = [lost EXCEPT ![t] = l]
    /\ status' \in {status, [status EXCEPT ![t] = "RolledBack"]}
    /\ OnlyFilesOf(t)
    /\ UNCHANGED staged

InDoubt(t) ==
    /\ lost[t] # "none"
    /\ OnlyFilesOf(t)
    /\ UNCHANGED <<status, staged, lost>>

\* Somebody else writes a file.
Outside(p) ==
    /\ files' = [files EXCEPT ![p] = "outside"]
    /\ UNCHANGED <<status, staged, lost>>

Next ==
    \/ \E t \in Txs : \/ Begin(t) \/ Commit(t) \/ Rollback(t) \/ Lose(t) \/ InDoubt(t)
                      \/ \E p \in Paths : Stage(t, p)
    \/ \E p \in Paths : Outside(p)

Spec == Init /\ [][Next]_vars
=============================================================================
