---------------------------- MODULE Transactions ----------------------------
(***************************************************************************)
(* Transactions of file writes: stage, commit with its snapshot, writes,   *)
(* validation and undo, and rollback.  A commit holds the lock of the      *)
(* store over all its awaits, so transactions wait for one another; other  *)
(* tools write files at any time.  Each read or write of a file may fail,  *)
(* and a commit whose caller is gone is dropped at an await, where the     *)
(* write that it waits for still ends in its own thread.  The content of   *)
(* a file is named for who wrote it.                                       *)
(***************************************************************************)
EXTENDS Naturals, Sequences, SequencesExt

CONSTANTS Txs,          \* transactions
          Paths,        \* files
          MaxOutside,   \* bound: writes of files by others
          MaxDrops      \* bound: commits that are dropped

Contents == Txs \cup {"absent", "old", "half", "outside"}

ASSUME TransactionAssumption ==
    /\ Txs \cap {"absent", "old", "half", "outside", "none"} = {}
    /\ MaxOutside \in Nat /\ MaxDrops \in Nat

VARIABLES
    files,      \* what each file holds
    status,     \* Transaction::status
    staged,     \* Transaction::staged, the paths in order
    holder,     \* the transaction that holds the lock of the store
    step,       \* where its commit is
    at,         \* the next of its files, or how many are left to undo
    snap,       \* the originals it has read
    adrift,     \* a write that goes on although its commit was dropped
    outside,    \* writes of others so far
    drops,      \* commits dropped so far
    lost        \* history: why a transaction was not atomic

commitVars == <<holder, step, at, snap>>
vars == <<files, status, staged, commitVars, adrift, outside, drops, lost>>

Init ==
    /\ files \in [Paths -> {"absent", "old"}]
    /\ status = [t \in Txs |-> "none"]
    /\ staged = [t \in Txs |-> <<>>]
    /\ holder = "none" /\ step = "idle" /\ at = 0 /\ snap = <<>>
    /\ adrift = {} /\ outside = 0 /\ drops = 0
    /\ lost = [t \in Txs |-> "none"]

Free == holder = "none"
-----------------------------------------------------------------------------
(* begin, stage and rollback                                               *)

Begin(t) ==
    /\ Free /\ status[t] = "none"
    /\ status' = [status EXCEPT ![t] = "Open"]
    /\ UNCHANGED <<files, staged, commitVars, adrift, outside, drops, lost>>

\* A bug: the path is staged a second time.
Stage_Twice(t, p) ==
    /\ Free /\ status[t] = "Open"
    /\ staged' = [staged EXCEPT ![t] = Append(@, p)]
    /\ UNCHANGED <<files, status, commitVars, adrift, outside, drops, lost>>

\* A path that is staged already keeps its place.
Stage(t, p) ==
    /\ Free /\ status[t] = "Open"
    /\ p \notin ToSet(staged[t])
    /\ staged' = [staged EXCEPT ![t] = Append(@, p)]
    /\ UNCHANGED <<files, status, commitVars, adrift, outside, drops, lost>>

Rollback(t) ==
    /\ Free /\ status[t] = "Open"
    /\ status' = [status EXCEPT ![t] = "RolledBack"]
    /\ UNCHANGED <<files, staged, commitVars, adrift, outside, drops, lost>>
-----------------------------------------------------------------------------
(* commit                                                                  *)

\* validate_commit_preconditions
Commit(t) ==
    /\ Free /\ status[t] = "Open" /\ staged[t] # <<>>
    /\ holder' = t /\ step' = "snapshot" /\ at' = 1 /\ snap' = <<>>
    /\ UNCHANGED <<files, status, staged, adrift, outside, drops, lost>>

Path(i) == staged[holder][i]
Size    == Len(staged[holder])

Continue(s, i) == step' = s /\ at' = i /\ UNCHANGED holder

\* The commit returns and the lock is free.
Return == holder' = "none" /\ step' = "idle" /\ at' = 0 /\ snap' = <<>>

\* snapshot_originals reads a file.
Snapshot ==
    /\ step = "snapshot"
    /\ snap' = [p \in DOMAIN snap \cup {Path(at)} |-> IF p = Path(at) THEN files[p] ELSE snap[p]]
    /\ IF at < Size THEN Continue("snapshot", at + 1) ELSE Continue("write", 1)
    /\ UNCHANGED <<files, status, staged, adrift, outside, drops, lost>>

\* A file that exists and cannot be read ends the commit; the transaction stays open.
SnapshotFails ==
    /\ step = "snapshot" /\ files[Path(at)] # "absent"
    /\ Return
    /\ UNCHANGED <<files, status, staged, adrift, outside, drops, lost>>

\* apply_writes
Write ==
    /\ step = "write"
    /\ files' = [files EXCEPT ![Path(at)] = holder]
    /\ IF at < Size THEN Continue("write", at + 1) ELSE Continue("validate", 0)
    /\ UNCHANGED <<status, staged, snap, adrift, outside, drops, lost>>

Written_Short == IF at > 1 THEN at - 2 ELSE 0   \* A bug: the last one written is left.

\* The files written before the one that failed, which alone are undone.
Written == at - 1

\* A write fails before it has touched its file, or in the middle of it.
WriteFails(torn) ==
    /\ step = "write"
    /\ IF torn
       THEN /\ files' = [files EXCEPT ![Path(at)] = "half"]
            /\ lost' = [lost EXCEPT ![holder] = "torn"]
       ELSE UNCHANGED <<files, lost>>
    /\ Continue("undo", Written)
    /\ UNCHANGED <<status, staged, snap, adrift, outside, drops>>

\* validate_or_rollback, and mark_committed if it succeeds or there is nothing to run.
Validate ==
    /\ step = "validate"
    /\ status' = [status EXCEPT ![holder] = "Committed"]
    /\ Return
    /\ UNCHANGED <<files, staged, adrift, outside, drops, lost>>

ValidateFails ==
    /\ step = "validate"
    /\ Continue("undo", Size)
    /\ UNCHANGED <<files, status, staged, snap, adrift, outside, drops, lost>>

\* rollback_files restores or deletes the files in the reverse order, each with an error
\* that is only noted.
Undo ==
    /\ step = "undo" /\ at > 0
    /\ files' = [files EXCEPT ![Path(at)] = snap[Path(at)]]
    /\ Continue("undo", at - 1)
    /\ UNCHANGED <<status, staged, snap, adrift, outside, drops, lost>>

UndoFails(torn) ==
    /\ step = "undo" /\ at > 0
    /\ torn => snap[Path(at)] # "absent"
    /\ files' = IF torn THEN [files EXCEPT ![Path(at)] = "half"] ELSE files
    /\ lost' = [lost EXCEPT ![holder] = "unrestored"]
    /\ Continue("undo", at - 1)
    /\ UNCHANGED <<status, staged, snap, adrift, outside, drops>>

\* mark_rolled_back
Undone ==
    /\ step = "undo" /\ at = 0
    /\ status' = [status EXCEPT ![holder] = "RolledBack"]
    /\ Return
    /\ UNCHANGED <<files, staged, adrift, outside, drops, lost>>

\* The write that is waited for, with what it writes.
Waiting == CASE step = "write" -> {[path |-> Path(at), content |-> holder]}
             [] step = "undo" /\ at > 0 -> {[path |-> Path(at), content |-> snap[Path(at)]]}
             [] OTHER -> {}

\* The future of the commit is dropped; a write that has begun goes on.
Drop ==
    /\ ~Free /\ drops < MaxDrops
    /\ drops' = drops + 1
    /\ \E W \in {{}, Waiting} : adrift' = adrift \cup W
    /\ lost' = [lost EXCEPT ![holder] = IF step = "snapshot" THEN @ ELSE "dropped"]
    /\ Return
    /\ UNCHANGED <<files, status, staged, outside>>
-----------------------------------------------------------------------------
(* Writes from elsewhere                                                   *)

\* A commit that has read the file, or writes it, does not notice.
Interfere(p) ==
    lost' = IF ~Free /\ p \in DOMAIN snap THEN [lost EXCEPT ![holder] = "interfered"] ELSE lost

\* A write that was left behind by a commit that was dropped.
Land(w) ==
    /\ w \in adrift
    /\ files' = [files EXCEPT ![w.path] = w.content]
    /\ adrift' = adrift \ {w}
    /\ Interfere(w.path)
    /\ UNCHANGED <<status, staged, commitVars, outside, drops>>

\* Another tool, or the user.
Outside(p) ==
    /\ outside < MaxOutside
    /\ files' = [files EXCEPT ![p] = "outside"]
    /\ outside' = outside + 1
    /\ Interfere(p)
    /\ UNCHANGED <<status, staged, commitVars, adrift, drops>>

CommitStep ==
    \/ Snapshot \/ SnapshotFails
    \/ Write \/ (\E torn \in BOOLEAN : WriteFails(torn))
    \/ Validate \/ ValidateFails
    \/ Undo \/ (\E torn \in BOOLEAN : UndoFails(torn)) \/ Undone
    \/ Drop

Next ==
    \/ \E t \in Txs : \/ Begin(t) \/ Rollback(t) \/ Commit(t)
                      \/ \E p \in Paths : Stage(t, p)
    \/ CommitStep
    \/ \E w \in adrift : Land(w)
    \/ \E p \in Paths : Outside(p)

Spec == Init /\ [][Next]_vars
-----------------------------------------------------------------------------
(* Properties                                                              *)

\* The types.
TypeOK ==
    /\ files \in [Paths -> Contents]
    /\ status \in [Txs -> {"none", "Open", "Committed", "RolledBack"}]
    /\ staged \in [Txs -> Seq(Paths)] /\ \A t \in Txs : IsInjective(staged[t])
    /\ holder \in Txs \cup {"none"}
    /\ step \in {"idle", "snapshot", "write", "validate", "undo"}
    /\ Free <=> step = "idle"
    /\ at \in 0..(IF Free THEN 0 ELSE Size)
    /\ DOMAIN snap \subseteq Paths /\ snap \in [DOMAIN snap -> Contents]
    /\ adrift \subseteq [path : Paths, content : Contents]
    /\ outside \in 0..MaxOutside /\ drops \in 0..MaxDrops
    /\ lost \in [Txs -> {"none", "dropped", "torn", "unrestored", "interfered"}]

\* What the transactions promise: while a commit is under way and atomic so far, its files
\* count as what they were.
Promise == INSTANCE AtomicCommit WITH
    files  <- [p \in Paths |-> IF ~Free /\ lost[holder] = "none" /\ p \in DOMAIN snap
                               THEN snap[p] ELSE files[p]],
    staged <- [t \in Txs |-> ToSet(staged[t])]

\* Every behaviour of the code is one of the promise: a commit changes all the files of
\* its transaction or none of them, unless it was dropped, a write was torn, a file could
\* not be restored or another write came in between; and no other file is touched.
Atomic == Promise!Spec
=============================================================================
