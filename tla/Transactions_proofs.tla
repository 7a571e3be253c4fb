------------------------ MODULE Transactions_proofs ------------------------
(***************************************************************************)
(* Proofs about Transactions, for all transactions and files and every     *)
(* bound: the types, and that each step is one of AtomicCommit or nothing  *)
(* that it sees.                                                           *)
(***************************************************************************)
EXTENDS Transactions, TLAPS

\* What the commit under way has read of its files.
SnapInv ==
    /\ Free => snap = <<>>
    /\ ~Free => status[holder] = "Open" /\ Size > 0
    /\ step \in {"snapshot", "write"} => at > 0
    /\ step = "snapshot" => DOMAIN snap = {Path(i) : i \in 1..at - 1}
    /\ step \in {"write", "validate", "undo"} => DOMAIN snap = ToSet(staged[holder])

\* Until a commit is undone nothing but drops and others' writes can have disturbed it, and
\* what a dropped one left behind writes to its own files.
LostInv ==
    /\ \A t \in Txs : lost[t] \in {"torn", "unrestored"} =>
          status[t] = "RolledBack" \/ (t = holder /\ step = "undo")
    /\ \A w \in adrift : \E t \in Txs : lost[t] # "none" /\ w.path \in ToSet(staged[t])

\* What the files of the commit hold, if nobody else has written to them.
FilesInv ==
    /\ step = "snapshot" /\ lost[holder] # "interfered" =>
          \A p \in DOMAIN snap : files[p] = snap[p]
    /\ step = "write" /\ lost[holder] # "interfered" =>
          \A i \in 1..Size : files[Path(i)] = IF i < at THEN holder ELSE snap[Path(i)]
    /\ step = "validate" /\ lost[holder] # "interfered" =>
          \A i \in 1..Size : files[Path(i)] = holder
    /\ step = "undo" /\ lost[holder] = "none" =>
          \A i \in at + 1..Size : files[Path(i)] = snap[Path(i)]

IInv == TypeOK /\ SnapInv /\ LostInv /\ FilesInv

-----------------------------------------------------------------------------
\* The holder of the lock is a transaction with the files it has staged, each once.
LEMMA HolderFacts ==
    ASSUME TypeOK, ~Free
    PROVE  /\ holder \in Txs
           /\ staged[holder] \in Seq(Paths) /\ Size \in Nat
           /\ \A i \in 1..Size : Path(i) \in Paths
           /\ \A i, j \in 1..Size : Path(i) = Path(j) => i = j
           /\ ToSet(staged[holder]) = {Path(i) : i \in 1..Size}
           /\ ToSet(staged[holder]) \subseteq Paths
<1>1. holder \in Txs
  BY DEF TypeOK, Free
<1>2. staged[holder] \in Seq(Paths) /\ IsInjective(staged[holder])
  BY <1>1 DEF TypeOK
<1>3. Size \in Nat /\ DOMAIN staged[holder] = 1..Size
  BY <1>2 DEF Size
<1>4. \A i \in 1..Size : Path(i) \in Paths
  BY <1>2, <1>3 DEF Path, Size
<1>5. \A i, j \in 1..Size : Path(i) = Path(j) => i = j
  BY <1>2, <1>3 DEF Path, IsInjective
<1>6. ToSet(staged[holder]) = {Path(i) : i \in 1..Size}
  BY <1>3 DEF ToSet, Path
<1>. QED  BY <1>1, <1>2, <1>3, <1>4, <1>5, <1>6

\* Staging a path adds it to the paths that are staged.
LEMMA StageFacts ==
    ASSUME NEW s \in Seq(Paths), IsInjective(s), NEW p \in Paths, p \notin ToSet(s)
    PROVE  /\ Append(s, p) \in Seq(Paths) /\ IsInjective(Append(s, p))
           /\ ToSet(Append(s, p)) = ToSet(s) \cup {p}
<1>. DEFINE a == Append(s, p)
<1>1. /\ a \in Seq(Paths) /\ Len(s) \in Nat
      /\ DOMAIN s = 1..Len(s) /\ DOMAIN a = 1..Len(s) + 1
      /\ \A i \in 1..Len(s) : a[i] = s[i]
      /\ a[Len(s) + 1] = p
  OBVIOUS
<1>2. ToSet(a) = ToSet(s) \cup {p}
  <2>1. ASSUME NEW x \in ToSet(a) PROVE x \in ToSet(s) \cup {p}
    BY <2>1, <1>1 DEF ToSet
  <2>2. ASSUME NEW x \in ToSet(s) PROVE x \in ToSet(a)
    BY <2>2, <1>1 DEF ToSet
  <2>3. p \in ToSet(a)
    BY <1>1 DEF ToSet
  <2>. QED  BY <2>1, <2>2, <2>3
<1>3. \A i \in 1..Len(s) : s[i] # p
  BY <1>1 DEF ToSet
<1>4. ASSUME NEW i \in DOMAIN a, NEW j \in DOMAIN a, a[i] = a[j] PROVE i = j
  BY <1>1, <1>3, <1>4 DEF IsInjective
<1>. QED  BY <1>1, <1>2, <1>4 DEF IsInjective

LEMMA InitIInv == Init => IInv
<1>. SUFFICES ASSUME Init PROVE IInv
  OBVIOUS
<1>1. \A t \in Txs : <<>> \in Seq(Paths) /\ IsInjective(<<>>)
  BY DEF IsInjective
<1>2. snap \in [DOMAIN snap -> Contents] /\ DOMAIN snap \subseteq Paths
  BY DEF Init
<1>3. TypeOK
  BY <1>1, <1>2, TransactionAssumption DEF Init, TypeOK, Free, Contents
<1>4. SnapInv /\ LostInv /\ FilesInv
  BY DEF Init, SnapInv, LostInv, FilesInv, Free
<1>. QED  BY <1>3, <1>4 DEF IInv

-----------------------------------------------------------------------------
(* The actions that need the lock to be free                               *)

\* With the lock free only what is adrift says anything of the other variables.
LEMMA FreeFacts ==
    ASSUME IInv, Free
    PROVE  /\ step = "idle" /\ at = 0 /\ snap = <<>> /\ holder = "none"
           /\ \A t \in Txs : lost[t] \in {"torn", "unrestored"} => status[t] = "RolledBack"
  BY DEF IInv, TypeOK, SnapInv, LostInv, Free

LEMMA OpenStep ==
    ASSUME IInv, NEW t \in Txs, Begin(t) \/ Rollback(t) PROVE IInv'
<1>1. Free /\ Free' /\ status[t] \in {"none", "Open"}
      /\ status' \in {[status EXCEPT ![t] = "Open"], [status EXCEPT ![t] = "RolledBack"]}
      /\ (status[t] = "Open" => status' = [status EXCEPT ![t] = "RolledBack"])
      /\ UNCHANGED <<files, staged, commitVars, adrift, outside, drops, lost>>
  BY DEF Begin, Rollback, commitVars, Free
<1>2. step' = "idle" /\ at' = 0 /\ snap' = <<>> /\ holder' = "none"
  BY <1>1, FreeFacts DEF commitVars
<1>3. TypeOK'
  BY <1>1, <1>2 DEF IInv, TypeOK, Free, commitVars
<1>4. SnapInv' /\ FilesInv'
  BY <1>1, <1>2 DEF SnapInv, FilesInv
<1>5. LostInv'
  BY <1>1, FreeFacts DEF IInv, TypeOK, LostInv, commitVars
<1>. QED  BY <1>3, <1>4, <1>5 DEF IInv

LEMMA StageStep ==
    ASSUME IInv, NEW t \in Txs, NEW p \in Paths, Stage(t, p) PROVE IInv'
<1>. USE DEF Stage, commitVars
<1>1. Free /\ Free' /\ step' = "idle" /\ at' = 0 /\ snap' = <<>> /\ holder' = "none"
  BY FreeFacts DEF Free
<1>2. staged[t] \in Seq(Paths) /\ IsInjective(staged[t])
  BY DEF IInv, TypeOK
<1>3. /\ staged'[t] \in Seq(Paths) /\ IsInjective(staged'[t])
      /\ ToSet(staged'[t]) = ToSet(staged[t]) \cup {p}
      /\ \A u \in Txs \ {t} : staged'[u] = staged[u]
  <2>1. /\ Append(staged[t], p) \in Seq(Paths) /\ IsInjective(Append(staged[t], p))
        /\ ToSet(Append(staged[t], p)) = ToSet(staged[t]) \cup {p}
    BY <1>2, StageFacts
  <2>2. t \in DOMAIN staged
    BY DEF IInv, TypeOK
  <2>. QED  BY <2>1, <2>2
<1>4. TypeOK'
  <2>1. staged' \in [Txs -> Seq(Paths)] /\ \A u \in Txs : IsInjective(staged'[u])
    BY <1>3 DEF IInv, TypeOK
  <2>. QED  BY <1>1, <2>1 DEF IInv, TypeOK
<1>5. SnapInv' /\ FilesInv'
  BY <1>1 DEF SnapInv, FilesInv
<1>6. LostInv'
  BY <1>3, FreeFacts DEF IInv, LostInv
<1>. QED  BY <1>4, <1>5, <1>6 DEF IInv

LEMMA CommitBegins ==
    ASSUME IInv, NEW t \in Txs, Commit(t) PROVE IInv'
<1>. USE DEF Commit
<1>1. ~Free' /\ holder' = t /\ Size' = Len(staged[t]) /\ Size' \in Nat /\ Size' > 0
  <2>1. staged[t] \in Seq(Paths) /\ staged[t] # <<>>
    BY DEF IInv, TypeOK
  <2>2. Len(staged[t]) \in Nat /\ Len(staged[t]) > 0
    BY <2>1
  <2>. QED  BY <2>2, TransactionAssumption DEF Free, Size
<1>2. TypeOK'
  <2>1. snap' \in [DOMAIN snap' -> Contents] /\ DOMAIN snap' \subseteq Paths
    OBVIOUS
  <2>. QED  BY <1>1, <2>1 DEF IInv, TypeOK, Free
<1>3. SnapInv'
  BY <1>1 DEF SnapInv, Free
<1>4. LostInv'
  BY FreeFacts DEF IInv, LostInv
<1>5. FilesInv'
  BY DEF FilesInv
<1>. QED  BY <1>2, <1>3, <1>4, <1>5 DEF IInv

-----------------------------------------------------------------------------
(* The steps of the commit that holds the lock                             *)

\* When a commit returns, whatever it leaves, the lock is free.
LEMMA ReturnFacts ==
    ASSUME IInv, Return, staged' = staged, files' \in [Paths -> Contents],
           status' \in [Txs -> {"none", "Open", "Committed", "RolledBack"}],
           lost' \in [Txs -> {"none", "dropped", "torn", "unrestored", "interfered"}],
           adrift' \subseteq [path : Paths, content : Contents],
           outside' \in 0..MaxOutside, drops' \in 0..MaxDrops
    PROVE  TypeOK' /\ SnapInv' /\ FilesInv'
<1>1. Free' /\ step' = "idle" /\ at' = 0 /\ snap' = <<>> /\ holder' = "none"
  BY DEF Return, Free
<1>2. snap' \in [DOMAIN snap' -> Contents] /\ DOMAIN snap' \subseteq Paths
  BY <1>1
<1>3. TypeOK'
  BY <1>1, <1>2 DEF IInv, TypeOK
<1>. QED  BY <1>1, <1>3 DEF SnapInv, FilesInv

\* The commit goes on with the files it began with.
LEMMA ContinueFacts ==
    ASSUME IInv, step # "idle"
    PROVE  /\ ~Free /\ holder \in Txs /\ status[holder] = "Open"
           /\ Size \in Nat /\ Size > 0 /\ at \in 0..Size
           /\ \A i \in 1..Size : Path(i) \in Paths
           /\ \A i, j \in 1..Size : Path(i) = Path(j) => i = j
           /\ ToSet(staged[holder]) = {Path(i) : i \in 1..Size}
           /\ step \in {"write", "validate", "undo"} =>
                 \A i \in 1..Size : Path(i) \in DOMAIN snap /\ snap[Path(i)] \in Contents
           /\ UNCHANGED <<holder, staged>> =>
                 ~Free' /\ Size' = Size /\ \A i : Path(i)' = Path(i)
<1>1. ~Free
  BY DEF IInv, TypeOK
<1>2. /\ holder \in Txs /\ Size \in Nat
      /\ \A i \in 1..Size : Path(i) \in Paths
      /\ \A i, j \in 1..Size : Path(i) = Path(j) => i = j
      /\ ToSet(staged[holder]) = {Path(i) : i \in 1..Size}
  BY <1>1, HolderFacts DEF IInv
<1>3. status[holder] = "Open" /\ Size > 0 /\ at \in 0..Size
  BY <1>1 DEF IInv, SnapInv, TypeOK
<1>4. step \in {"write", "validate", "undo"} =>
         \A i \in 1..Size : Path(i) \in DOMAIN snap /\ snap[Path(i)] \in Contents
  BY <1>2 DEF IInv, SnapInv, TypeOK
<1>5. UNCHANGED <<holder, staged>> => ~Free' /\ Size' = Size /\ \A i : Path(i)' = Path(i)
  BY <1>1 DEF Free, Size, Path
<1>. QED  BY <1>1, <1>2, <1>3, <1>4, <1>5

LEMMA SnapshotStep == ASSUME IInv, Snapshot PROVE IInv'
<1>. USE DEF Snapshot, Continue
<1>1. step = "snapshot" /\ step # "idle" /\ step' # "idle" /\ UNCHANGED <<holder, staged, lost, adrift, files, status>>
  OBVIOUS
<1>2. at \in 1..Size /\ Path(at) \in Paths /\ files[Path(at)] \in Contents
  BY <1>1, ContinueFacts DEF IInv, SnapInv, TypeOK
<1>3. DOMAIN snap = {Path(i) : i \in 1..at - 1}
  BY <1>1 DEF IInv, SnapInv
<1>4. /\ DOMAIN snap' = {Path(i) : i \in 1..at}
      /\ \A p \in DOMAIN snap' : snap'[p] = IF p = Path(at) THEN files[p] ELSE snap[p]
  BY <1>2, <1>3, ContinueFacts
<1>5. \/ step' = "snapshot" /\ at < Size /\ at' = at + 1
      \/ step' = "write" /\ at = Size /\ at' = 1
  BY <1>1, <1>2, ContinueFacts
<1>6. TypeOK'
  <2>1. snap' \in [DOMAIN snap' -> Contents] /\ DOMAIN snap' \subseteq Paths
    <3>1. \A p \in DOMAIN snap' : snap'[p] \in Contents
      BY <1>2, <1>4, ContinueFacts DEF IInv, TypeOK
    <3>2. DOMAIN snap' \subseteq Paths
      BY <1>1, <1>2, <1>4, ContinueFacts
    <3>. QED  BY <3>1, <3>2
  <2>2. at' \in 0..Size'
    BY <1>1, <1>2, <1>5, ContinueFacts
  <2>. QED  BY <1>1, <1>5, <2>1, <2>2, ContinueFacts DEF IInv, TypeOK
<1>7. SnapInv'
  <2>1. step' = "snapshot" => DOMAIN snap' = {Path(i)' : i \in 1..at' - 1}
    BY <1>1, <1>2, <1>4, <1>5, ContinueFacts
  <2>2. step' = "write" => DOMAIN snap' = ToSet(staged'[holder'])
    BY <1>1, <1>2, <1>4, <1>5, ContinueFacts
  <2>. QED  BY <1>1, <1>2, <1>5, <2>1, <2>2, ContinueFacts DEF SnapInv
<1>8. LostInv'
  BY <1>1 DEF IInv, LostInv
<1>9. FilesInv'
  <2>1. lost[holder] # "interfered" => \A p \in DOMAIN snap' : files[p] = snap'[p]
    BY <1>1, <1>2, <1>3, <1>4, ContinueFacts DEF IInv, FilesInv
  <2>2. ASSUME step' = "write", lost[holder] # "interfered", NEW i \in 1..Size
        PROVE files[Path(i)] = IF i < at' THEN holder ELSE snap'[Path(i)]
    <3>1. at = Size /\ ~(i < at')
      BY <1>5, <2>2, <1>1, ContinueFacts
    <3>2. Path(i) \in DOMAIN snap'
      BY <1>4, <3>1
    <3>. QED  BY <2>1, <2>2, <3>1, <3>2
  <2>3. step' = "snapshot" \/ step' = "write"
    BY <1>5
  <2>4. CASE step' = "snapshot"
    BY <1>1, <2>1, <2>4 DEF FilesInv
  <2>5. CASE step' = "write"
    BY <1>1, <2>2, <2>5, ContinueFacts DEF FilesInv
  <2>. QED  BY <2>3, <2>4, <2>5
<1>. QED  BY <1>6, <1>7, <1>8, <1>9 DEF IInv

LEMMA WriteStep == ASSUME IInv, Write PROVE IInv'
<1>. USE DEF Write, Continue
<1>1. step = "write" /\ step # "idle" /\ step' # "idle" /\ UNCHANGED <<holder, staged, lost, adrift, snap, status>>
  OBVIOUS
<1>2. at \in 1..Size /\ Path(at) \in Paths /\ holder \in Contents
  BY <1>1, ContinueFacts DEF IInv, SnapInv, Contents
<1>3. \/ step' = "write" /\ at < Size /\ at' = at + 1
      \/ step' = "validate" /\ at = Size /\ at' = 0
  BY <1>1, <1>2, ContinueFacts
<1>4. TypeOK'
  BY <1>1, <1>2, <1>3, ContinueFacts DEF IInv, TypeOK
<1>5. SnapInv'
  BY <1>1, <1>2, <1>3, ContinueFacts DEF IInv, SnapInv
<1>6. LostInv'
  BY <1>1 DEF IInv, LostInv
<1>7. FilesInv'
  <2>1. ASSUME lost[holder] # "interfered", NEW i \in 1..Size
        PROVE files'[Path(i)] = IF i < at + 1 THEN holder ELSE snap[Path(i)]
    <3>1. files[Path(i)] = IF i < at THEN holder ELSE snap[Path(i)]
      BY <1>1, <2>1 DEF IInv, FilesInv
    <3>2. CASE i = at
      BY <3>2, <1>2 DEF IInv, TypeOK
    <3>3. CASE i # at
      <4>1. Path(i) # Path(at)
        BY <3>3, <1>1, <1>2, ContinueFacts
      <4>. QED  BY <3>1, <3>3, <4>1, <1>2
    <3>. QED  BY <3>2, <3>3
  <2>. QED  BY <1>1, <1>2, <1>3, <2>1, ContinueFacts DEF FilesInv
<1>. QED  BY <1>4, <1>5, <1>6, <1>7 DEF IInv

LEMMA WriteFailsStep == ASSUME IInv, NEW torn \in BOOLEAN, WriteFails(torn) PROVE IInv'
<1>. USE DEF WriteFails, Continue, Written
<1>1. /\ step = "write" /\ step # "idle" /\ step' = "undo" /\ at' = at - 1
      /\ UNCHANGED <<holder, staged, adrift, snap, status>>
  OBVIOUS
<1>2. at \in 1..Size /\ Path(at) \in Paths /\ at' \in 0..Size
  BY <1>1, ContinueFacts DEF IInv, SnapInv
<1>3. files' \in [Paths -> Contents]
  BY DEF IInv, TypeOK, Contents
<1>4. lost' \in {lost, [lost EXCEPT ![holder] = "torn"]} /\ (lost'[holder] = "none" => lost' = lost /\ files' = files)
  <2>1. CASE torn
    BY <2>1, <1>1, ContinueFacts DEF IInv, TypeOK
  <2>2. CASE ~torn
    BY <2>2
  <2>. QED  BY <2>1, <2>2
<1>5. TypeOK'
  BY <1>1, <1>2, <1>3, <1>4, ContinueFacts DEF IInv, TypeOK
<1>6. SnapInv'
  BY <1>1, <1>2, ContinueFacts DEF IInv, SnapInv
<1>7. LostInv'
  BY <1>1, <1>4, ContinueFacts DEF IInv, LostInv, TypeOK
<1>8. FilesInv'
  <2>1. ASSUME lost'[holder] = "none", NEW i \in at' + 1..Size
        PROVE files'[Path(i)] = snap[Path(i)]
    <3>1. files' = files /\ lost[holder] # "interfered"
      BY <1>4, <2>1
    <3>2. i \in 1..Size /\ ~(i < at)
      BY <1>1, <1>2, ContinueFacts
    <3>. QED  BY <1>1, <3>1, <3>2 DEF IInv, FilesInv
  <2>. QED  BY <1>1, <2>1, ContinueFacts DEF FilesInv
<1>. QED  BY <1>5, <1>6, <1>7, <1>8 DEF IInv

LEMMA ValidateFailsStep == ASSUME IInv, ValidateFails PROVE IInv'
<1>. USE DEF ValidateFails, Continue
<1>1. /\ step = "validate" /\ step # "idle" /\ step' = "undo" /\ at' = Size
      /\ UNCHANGED <<files, holder, staged, adrift, snap, status, lost>>
  OBVIOUS
<1>2. TypeOK'
  BY <1>1, ContinueFacts DEF IInv, TypeOK
<1>3. SnapInv'
  BY <1>1, ContinueFacts DEF IInv, SnapInv
<1>4. LostInv'
  BY <1>1 DEF IInv, LostInv
<1>5. FilesInv'
  BY <1>1, ContinueFacts DEF FilesInv
<1>. QED  BY <1>2, <1>3, <1>4, <1>5 DEF IInv

\* One more file is undone, restored or not.
LEMMA UndoStep ==
    ASSUME IInv, Undo \/ \E torn \in BOOLEAN : UndoFails(torn) PROVE IInv'
<1>1. /\ step = "undo" /\ step # "idle" /\ step' = "undo" /\ at > 0 /\ at' = at - 1
      /\ UNCHANGED <<holder, staged, adrift, snap, status, outside, drops>>
      /\ \/ files' = [files EXCEPT ![Path(at)] = snap[Path(at)]] /\ lost' = lost
         \/ /\ files' \in {files, [files EXCEPT ![Path(at)] = "half"]}
            /\ lost' = [lost EXCEPT ![holder] = "unrestored"]
  BY DEF Undo, UndoFails, Continue
<1>2. at \in 1..Size /\ Path(at) \in Paths /\ at' \in 0..Size /\ snap[Path(at)] \in Contents
  BY <1>1, ContinueFacts
<1>3. files' \in [Paths -> Contents]
  BY <1>1, <1>2 DEF IInv, TypeOK, Contents
<1>4. lost' \in {lost, [lost EXCEPT ![holder] = "unrestored"]}
      /\ (lost'[holder] = "none" => lost' = lost /\ files' = [files EXCEPT ![Path(at)] = snap[Path(at)]])
  BY <1>1, ContinueFacts DEF IInv, TypeOK
<1>5. TypeOK'
  BY <1>1, <1>2, <1>3, <1>4, ContinueFacts DEF IInv, TypeOK
<1>6. SnapInv'
  BY <1>1, <1>2, ContinueFacts DEF IInv, SnapInv
<1>7. LostInv'
  BY <1>1, <1>4, ContinueFacts DEF IInv, LostInv, TypeOK
<1>8. FilesInv'
  <2>1. ASSUME lost'[holder] = "none", NEW i \in at' + 1..Size
        PROVE files'[Path(i)] = snap[Path(i)]
    <3>1. lost[holder] = "none" /\ files' = [files EXCEPT ![Path(at)] = snap[Path(at)]]
      BY <1>4, <2>1
    <3>2. CASE i = at
      BY <3>1, <3>2, <1>2 DEF IInv, TypeOK
    <3>3. CASE i # at
      <4>1. i \in at + 1..Size /\ i \in 1..Size
        BY <1>1, <1>2, <3>3, ContinueFacts
      <4>2. Path(i) # Path(at)
        BY <3>3, <4>1, <1>1, <1>2, ContinueFacts
      <4>3. files[Path(i)] = snap[Path(i)]
        BY <1>1, <3>1, <4>1 DEF IInv, FilesInv
      <4>. QED  BY <3>1, <4>2, <4>3
    <3>. QED  BY <3>2, <3>3
  <2>. QED  BY <1>1, <2>1, ContinueFacts DEF FilesInv
<1>. QED  BY <1>5, <1>6, <1>7, <1>8 DEF IInv

\* The ways in which a commit returns.
LEMMA ReturnStep == ASSUME IInv, SnapshotFails \/ Validate \/ Undone PROVE IInv'
<1>1. /\ Return /\ step # "idle"
      /\ UNCHANGED <<files, staged, adrift, outside, drops, lost>>
      /\ \/ status' = status /\ step # "undo"
         \/ status' = [status EXCEPT ![holder] = "Committed"] /\ step # "undo"
         \/ status' = [status EXCEPT ![holder] = "RolledBack"]
  BY DEF SnapshotFails, Validate, Undone
<1>2. TypeOK' /\ SnapInv' /\ FilesInv'
  BY <1>1, ReturnFacts DEF IInv, TypeOK
<1>3. LostInv'
  BY <1>1, ContinueFacts DEF IInv, LostInv, TypeOK
<1>. QED  BY <1>2, <1>3 DEF IInv

LEMMA DropStep == ASSUME IInv, Drop PROVE IInv'
<1>. USE DEF Drop
<1>1. step # "idle" /\ Return /\ UNCHANGED <<files, status, staged, outside>>
  BY DEF IInv, TypeOK
<1>2. Waiting \subseteq [path : Paths, content : Contents]
      /\ \A w \in Waiting : w.path \in ToSet(staged[holder]) /\ step # "snapshot"
  <2>1. CASE step = "write"
    <3>1. Waiting = {[path |-> Path(at), content |-> holder]}
      BY <2>1 DEF Waiting
    <3>2. at \in 1..Size
      BY <2>1, <1>1, ContinueFacts DEF IInv, SnapInv
    <3>3. Path(at) \in Paths /\ Path(at) \in ToSet(staged[holder]) /\ holder \in Contents
      BY <3>2, <1>1, ContinueFacts DEF Contents
    <3>. QED  BY <2>1, <3>1, <3>3
  <2>2. CASE step = "undo" /\ at > 0
    <3>1. Waiting = {[path |-> Path(at), content |-> snap[Path(at)]]}
      BY <2>2 DEF Waiting
    <3>2. at \in 1..Size
      BY <2>2, <1>1, ContinueFacts
    <3>3. Path(at) \in Paths /\ Path(at) \in ToSet(staged[holder]) /\ snap[Path(at)] \in Contents
      BY <2>2, <3>2, <1>1, ContinueFacts
    <3>. QED  BY <2>2, <3>1, <3>3
  <2>3. CASE ~(step = "write") /\ ~(step = "undo" /\ at > 0)
    BY <2>3 DEF Waiting
  <2>. QED  BY <2>1, <2>2, <2>3
<1>3. adrift' \subseteq adrift \cup Waiting
  OBVIOUS
<1>4. lost' \in {lost, [lost EXCEPT ![holder] = "dropped"]}
      /\ (step # "snapshot" => lost' = [lost EXCEPT ![holder] = "dropped"])
  BY DEF IInv, TypeOK
<1>5. TypeOK' /\ SnapInv' /\ FilesInv'
  <2>1. drops' \in 0..MaxDrops
    BY TransactionAssumption DEF IInv, TypeOK
  <2>2. lost' \in [Txs -> {"none", "dropped", "torn", "unrestored", "interfered"}]
    BY <1>4 DEF IInv, TypeOK
  <2>3. adrift' \subseteq [path : Paths, content : Contents]
    BY <1>2, <1>3 DEF IInv, TypeOK
  <2>. QED  BY <1>1, <2>1, <2>2, <2>3, ReturnFacts DEF IInv, TypeOK
<1>6. LostInv'
  <2>1. \A t \in Txs : lost'[t] \in {"torn", "unrestored"} => status'[t] = "RolledBack"
    BY <1>1, <1>4, ContinueFacts DEF IInv, LostInv, TypeOK
  <2>2. ASSUME NEW w \in adrift' PROVE \E t \in Txs : lost'[t] # "none" /\ w.path \in ToSet(staged'[t])
    <3>1. CASE w \in adrift
      <4>1. PICK t \in Txs : lost[t] # "none" /\ w.path \in ToSet(staged[t])
        BY <3>1 DEF IInv, LostInv
      <4>2. lost'[t] # "none"
        BY <4>1, <1>4 DEF IInv, TypeOK
      <4>. QED  BY <4>1, <4>2, <1>1
    <3>2. CASE w \in Waiting
      <4>1. lost'[holder] = "dropped" /\ holder \in Txs
        BY <3>2, <1>1, <1>2, <1>4, ContinueFacts DEF IInv, TypeOK
      <4>. QED  BY <3>2, <4>1, <1>1, <1>2
    <3>. QED  BY <1>3, <2>2, <3>1, <3>2
  <2>. QED  BY <2>1, <2>2 DEF LostInv
<1>. QED  BY <1>5, <1>6 DEF IInv
-----------------------------------------------------------------------------
(* Writes from elsewhere                                                   *)

\* A write from elsewhere, whoever made it: a commit that has come to the file is told.
LEMMA ElsewhereStep ==
    ASSUME IInv, NEW p \in Paths, NEW c \in Contents,
           files' = [files EXCEPT ![p] = c], Interfere(p), adrift' \subseteq adrift,
           outside' \in 0..MaxOutside, UNCHANGED <<status, staged, commitVars, drops>>
    PROVE  IInv'
<1>. USE DEF commitVars
<1>1. lost' = IF ~Free /\ p \in DOMAIN snap THEN [lost EXCEPT ![holder] = "interfered"] ELSE lost
  BY DEF Interfere
<1>2. ~Free => holder \in Txs
  BY DEF IInv, TypeOK, Free
<1>3. TypeOK'
  <2>1. files' \in [Paths -> Contents]
    BY DEF IInv, TypeOK
  <2>2. lost' \in [Txs -> {"none", "dropped", "torn", "unrestored", "interfered"}]
    BY <1>1, <1>2 DEF IInv, TypeOK
  <2>3. adrift' \subseteq [path : Paths, content : Contents]
    BY DEF IInv, TypeOK
  <2>. QED  BY <2>1, <2>2, <2>3 DEF IInv, TypeOK, Free, Size
<1>4. SnapInv'
  BY DEF IInv, SnapInv, Free, Size, Path
<1>5. LostInv'
  BY <1>1, <1>2 DEF IInv, LostInv, TypeOK
<1>6. FilesInv'
  <2>1. CASE Free
    BY <2>1 DEF IInv, TypeOK, FilesInv
  <2>2. CASE ~Free /\ p \in DOMAIN snap
    BY <2>2, <1>1, <1>2 DEF IInv, TypeOK, FilesInv
  <2>3. CASE ~Free /\ p \notin DOMAIN snap
    <3>1. lost' = lost /\ step # "idle"
      BY <2>3, <1>1 DEF IInv, TypeOK
    <3>2. \A q \in DOMAIN snap : files'[q] = files[q]
      BY <2>3 DEF IInv, TypeOK
    <3>3. step \in {"write", "validate", "undo"} => \A i \in 1..Size : files'[Path(i)] = files[Path(i)]
      BY <3>1, <3>2, ContinueFacts
    <3>4. at \in 0..Size /\ Size \in Nat
      BY <3>1, ContinueFacts
    <3>5. \A i \in at + 1..Size : i \in 1..Size
      BY <3>4
    <3>. QED  BY <3>1, <3>2, <3>3, <3>5 DEF IInv, FilesInv, Size, Path
  <2>. QED  BY <2>1, <2>2, <2>3
<1>. QED  BY <1>3, <1>4, <1>5, <1>6 DEF IInv

LEMMA LandStep == ASSUME IInv, NEW w \in adrift, Land(w) PROVE IInv'
<1>1. w.path \in Paths /\ w.content \in Contents
  BY DEF IInv, TypeOK
<1>2. outside' \in 0..MaxOutside
  BY DEF IInv, TypeOK, Land
<1>. QED  BY <1>1, <1>2, ElsewhereStep DEF Land

LEMMA OutsideStep == ASSUME IInv, NEW p \in Paths, Outside(p) PROVE IInv'
<1>1. outside' \in 0..MaxOutside
  BY TransactionAssumption DEF IInv, TypeOK, Outside
<1>2. "outside" \in Contents
  BY DEF Contents
<1>. QED  BY <1>1, <1>2, ElsewhereStep DEF Outside
-----------------------------------------------------------------------------
LEMMA StepIInv == IInv /\ [Next]_vars => IInv'
<1>. SUFFICES ASSUME IInv, [Next]_vars PROVE IInv'
  OBVIOUS
<1>1. ASSUME NEW t \in Txs, Begin(t) \/ Rollback(t) PROVE IInv'
  BY <1>1, OpenStep
<1>2. ASSUME NEW t \in Txs, Commit(t) PROVE IInv'
  BY <1>2, CommitBegins
<1>3. ASSUME NEW t \in Txs, NEW p \in Paths, Stage(t, p) PROVE IInv'
  BY <1>3, StageStep
<1>4. CASE Snapshot
  BY <1>4, SnapshotStep
<1>5. CASE Write
  BY <1>5, WriteStep
<1>6. ASSUME NEW torn \in BOOLEAN, WriteFails(torn) PROVE IInv'
  BY <1>6, WriteFailsStep
<1>7. CASE SnapshotFails \/ Validate \/ Undone
  BY <1>7, ReturnStep
<1>8. CASE ValidateFails
  BY <1>8, ValidateFailsStep
<1>9. CASE Undo \/ \E torn \in BOOLEAN : UndoFails(torn)
  BY <1>9, UndoStep
<1>10. CASE Drop
  BY <1>10, DropStep
<1>11. ASSUME NEW w \in adrift, Land(w) PROVE IInv'
  BY <1>11, LandStep
<1>12. ASSUME NEW p \in Paths, Outside(p) PROVE IInv'
  BY <1>12, OutsideStep
<1>13. CASE UNCHANGED vars
  BY <1>13 DEF vars, commitVars, IInv, TypeOK, SnapInv, LostInv, FilesInv, Free, Size, Path
<1>. QED
  BY <1>1, <1>2, <1>3, <1>4, <1>5, <1>6, <1>7, <1>8, <1>9, <1>10, <1>11, <1>12, <1>13
     DEF Next, CommitStep

\* The invariant that the refinement needs: what the commit under way has read, why it may
\* no longer be atomic, and what its files hold until then.
THEOREM IInvHolds == Spec => []IInv
<1>1. Init => IInv
  BY InitIInv
<1>2. IInv /\ [Next]_vars => IInv'
  BY StepIInv
<1>. QED  BY <1>1, <1>2, PTL DEF Spec

\* Every variable keeps its type: for any number of transactions and files, and any bounds.
THEOREM TypesHold == Spec => []TypeOK
<1>1. IInv => TypeOK
  BY DEF IInv
<1>. QED  BY <1>1, IInvHolds, PTL
-----------------------------------------------------------------------------
(* Refinement: a commit is seen when its validation ends, its loss when     *)
(* something disturbs it, a write from elsewhere as it is; all else         *)
(* stutters, or is a write to files that are in doubt already.              *)

\* The files and the staged paths, as AtomicCommit sees them.
Mapped == [p \in Paths |-> IF ~Free /\ lost[holder] = "none" /\ p \in DOMAIN snap
                           THEN snap[p] ELSE files[p]]
Sets   == [t \in Txs |-> ToSet(staged[t])]

\* The actions of AtomicCommit, over those two.
LEMMA StutterIs ==
    ASSUME Mapped' = Mapped, UNCHANGED <<staged, status, lost>>
    PROVE  [Promise!Next]_(Promise!vars)
<1>1. UNCHANGED Promise!vars
  BY DEF Promise!vars, Mapped
<1>. QED  BY <1>1

LEMMA DoubtIs ==
    ASSUME NEW t \in Txs, lost[t] # "none", UNCHANGED <<status, staged, lost>>,
           \A p \in Paths \ ToSet(staged[t]) : Mapped'[p] = Mapped[p]
    PROVE  [Promise!Next]_(Promise!vars)
<1>1. Promise!InDoubt(t)
  BY DEF Promise!InDoubt, Promise!OnlyFilesOf, Mapped
<1>. QED  BY <1>1 DEF Promise!Next

LEMMA LoseIs ==
    ASSUME NEW t \in Txs, status[t] = "Open", NEW l \in {"dropped", "torn", "unrestored", "interfered"},
           lost' = [lost EXCEPT ![t] = l], UNCHANGED <<status, staged>>,
           \A p \in Paths \ ToSet(staged[t]) : Mapped'[p] = Mapped[p]
    PROVE  [Promise!Next]_(Promise!vars)
<1>1. Promise!Lose(t)
  BY DEF Promise!Lose, Promise!OnlyFilesOf, Promise!Losses, Mapped
<1>. QED  BY <1>1 DEF Promise!Next

\* With the lock free the files are what they are.
LEMMA MappedFacts ==
    ASSUME IInv
    PROVE  /\ \A p \in Paths : Mapped[p] = IF ~Free /\ lost[holder] = "none" /\ p \in DOMAIN snap
                                           THEN snap[p] ELSE files[p]
           /\ Free => Mapped = files
           /\ ~Free => DOMAIN snap \subseteq ToSet(staged[holder])
           /\ ~Free /\ lost[holder] # "none" => Mapped = files
<1>1. files = [p \in Paths |-> files[p]]
  BY DEF IInv, TypeOK
<1>2. ~Free => DOMAIN snap \subseteq ToSet(staged[holder])
  <2>. SUFFICES ASSUME ~Free PROVE DOMAIN snap \subseteq ToSet(staged[holder])
    OBVIOUS
  <2>1. step # "idle"
    BY DEF IInv, TypeOK
  <2>2. step = "snapshot" => DOMAIN snap = {Path(i) : i \in 1..at - 1} /\ at - 1 < Size
    BY <2>1, ContinueFacts DEF IInv, SnapInv
  <2>. QED  BY <2>1, <2>2, ContinueFacts DEF IInv, TypeOK, SnapInv
<1>. QED  BY <1>1, <1>2 DEF Mapped

\* A step of a commit that only writes its own files leaves the others as they are seen.
LEMMA OthersKept ==
    ASSUME IInv, ~Free, Free' \/ snap' = snap,
           NEW p \in Paths \ ToSet(staged[holder]), files'[p] = files[p]
    PROVE  Mapped'[p] = Mapped[p]
<1>1. Mapped[p] = files[p] /\ p \notin DOMAIN snap
  BY MappedFacts
<1>2. Mapped'[p] = files'[p]
  BY <1>1 DEF Mapped
<1>. QED  BY <1>1, <1>2

\* What a commit does to its files is not seen before it ends.
LEMMA CommitStutters ==
    ASSUME IInv, Snapshot \/ SnapshotFails \/ ValidateFails \/ WriteFails(FALSE)
                 \/ (Write /\ lost[holder] = "none") \/ (Undo /\ lost[holder] = "none")
    PROVE  [Promise!Next]_(Promise!vars)
<1>1. step # "idle" /\ UNCHANGED <<staged, status, lost>>
  BY DEF Snapshot, SnapshotFails, ValidateFails, WriteFails, Write, Undo
<1>2. CASE ValidateFails \/ WriteFails(FALSE)
  <2>1. UNCHANGED <<files, holder, snap, lost>>
    BY <1>2 DEF ValidateFails, WriteFails, Continue
  <2>2. Mapped' = Mapped
    BY <2>1 DEF Mapped, Free
  <2>. QED  BY <1>1, <2>2, StutterIs
<1>3. CASE Snapshot
  <2>1. at \in 1..Size /\ Path(at) \notin DOMAIN snap
    <3>1. at \in 1..Size
      BY <1>1, <1>3, ContinueFacts DEF IInv, SnapInv, Snapshot
    <3>2. DOMAIN snap = {Path(i) : i \in 1..at - 1}
      BY <1>3 DEF IInv, SnapInv, Snapshot
    <3>. QED  BY <1>1, <3>1, <3>2, ContinueFacts
  <2>2. UNCHANGED <<files, holder, lost>>
    BY <1>3 DEF Snapshot, Continue
  <2>3. Free' <=> Free
    BY <2>2 DEF Free
  <2>4. \A p \in Paths : p # Path(at) => (p \in DOMAIN snap' <=> p \in DOMAIN snap)
                                         /\ (p \in DOMAIN snap => snap'[p] = snap[p])
    BY <1>3 DEF Snapshot
  <2>5. Path(at) \in DOMAIN snap' /\ snap'[Path(at)] = files[Path(at)]
    BY <1>3 DEF Snapshot
  <2>6. Mapped' = Mapped
    BY <2>1, <2>2, <2>3, <2>4, <2>5 DEF Mapped
  <2>. QED  BY <1>1, <2>6, StutterIs
<1>4. CASE SnapshotFails
  <2>1. Free' /\ files' = files
    BY <1>4 DEF SnapshotFails, Return, Free
  <2>2. Mapped' = files
    BY <2>1 DEF Mapped, IInv, TypeOK
  <2>3. lost[holder] = "none" => \A p \in DOMAIN snap : files[p] = snap[p]
    BY <1>4 DEF SnapshotFails, IInv, FilesInv
  <2>4. Mapped = files
    BY <2>3 DEF Mapped, IInv, TypeOK
  <2>. QED  BY <1>1, <2>2, <2>4, StutterIs
<1>5. CASE (Write \/ Undo) /\ lost[holder] = "none"
  <2>1. /\ UNCHANGED <<snap, holder, lost>> /\ step \in {"write", "undo"}
        /\ \E c : files' = [files EXCEPT ![Path(at)] = c]
    BY <1>5 DEF Write, Undo, Continue
  <2>2. at \in 1..Size
    BY <1>1, <1>5, ContinueFacts DEF IInv, SnapInv, Write, Undo
  <2>3. Path(at) \in DOMAIN snap
    BY <1>1, <2>1, <2>2, ContinueFacts
  <2>4. \A p \in Paths : p \notin DOMAIN snap => files'[p] = files[p]
    BY <2>1, <2>3 DEF IInv, TypeOK
  <2>5. Mapped' = Mapped
    BY <1>1, <1>5, <2>1, <2>4, ContinueFacts DEF Mapped
  <2>. QED  BY <1>1, <2>5, StutterIs
<1>. QED  BY <1>2, <1>3, <1>4, <1>5

\* Once the promise to a transaction is given up, its commit writes to files in doubt.
LEMMA CommitInDoubt ==
    ASSUME IInv, Write \/ Undo, lost[holder] # "none"
    PROVE  [Promise!Next]_(Promise!vars)
<1>1. /\ step # "idle" /\ UNCHANGED <<status, staged, lost, snap, holder>>
      /\ step \in {"write", "undo"} /\ (step = "undo" => at > 0)
      /\ \E c : files' = [files EXCEPT ![Path(at)] = c]
  BY DEF Write, Undo, Continue
<1>2. at \in 1..Size /\ Path(at) \in ToSet(staged[holder]) /\ holder \in Txs /\ ~Free
  <2>1. at \in 1..Size
    BY <1>1, ContinueFacts DEF IInv, SnapInv
  <2>. QED  BY <1>1, <2>1, ContinueFacts
<1>3. \A p \in Paths \ ToSet(staged[holder]) : files'[p] = files[p]
  BY <1>1, <1>2 DEF IInv, TypeOK
<1>4. \A p \in Paths \ ToSet(staged[holder]) : Mapped'[p] = Mapped[p]
  BY <1>1, <1>2, <1>3, OthersKept
<1>. QED  BY <1>1, <1>2, <1>4, DoubtIs

\* A torn write, a file that is not restored, a commit that is dropped.
LEMMA CommitLoses ==
    ASSUME IInv, WriteFails(TRUE) \/ (\E torn \in BOOLEAN : UndoFails(torn)) \/ Drop
    PROVE  [Promise!Next]_(Promise!vars)
<1>1. step # "idle" /\ ~Free /\ holder \in Txs /\ status[holder] = "Open"
  BY ContinueFacts DEF IInv, TypeOK, WriteFails, UndoFails, Drop
<1>2. CASE Drop /\ step = "snapshot"
  <2>1. Free' /\ UNCHANGED <<files, status, staged, lost>>
    BY <1>2 DEF Drop, Return, Free, IInv, TypeOK
  <2>2. Mapped' = files
    BY <2>1 DEF Mapped, IInv, TypeOK
  <2>3. lost[holder] = "none" => \A p \in DOMAIN snap : files[p] = snap[p]
    BY <1>2 DEF IInv, FilesInv
  <2>4. Mapped = files
    BY <2>3 DEF Mapped, IInv, TypeOK
  <2>. QED  BY <2>1, <2>2, <2>4, StutterIs
<1>3. CASE ~(Drop /\ step = "snapshot")
  <2>1. PICK l \in {"dropped", "torn", "unrestored"} : lost' = [lost EXCEPT ![holder] = l]
    BY <1>3 DEF WriteFails, UndoFails, Drop
  <2>2. UNCHANGED <<status, staged>> /\ (Free' \/ snap' = snap)
    BY DEF WriteFails, UndoFails, Drop, Return, Free
  <2>3. files' = files \/ (at \in 1..Size /\ files' = [files EXCEPT ![Path(at)] = "half"])
    BY <1>1, ContinueFacts DEF IInv, SnapInv, WriteFails, UndoFails, Drop
  <2>4. \A p \in Paths \ ToSet(staged[holder]) : files'[p] = files[p]
    BY <1>1, <2>3, ContinueFacts DEF IInv, TypeOK
  <2>5. \A p \in Paths \ ToSet(staged[holder]) : Mapped'[p] = Mapped[p]
    BY <1>1, <2>2, <2>4, OthersKept
  <2>. QED  BY <1>1, <2>1, <2>2, <2>5, LoseIs
<1>. QED  BY <1>2, <1>3

\* The two ends of a commit: all its files are seen to change, or none was.
LEMMA CommitEnds ==
    ASSUME IInv, Validate \/ Undone PROVE [Promise!Next]_(Promise!vars)
<1>1. /\ step # "idle" /\ Free' /\ UNCHANGED <<files, staged, lost>>
      /\ ~Free /\ holder \in Txs /\ status[holder] = "Open"
  BY ContinueFacts DEF IInv, TypeOK, Validate, Undone, Return, Free
<1>2. Mapped' = files
  BY <1>1 DEF Mapped, IInv, TypeOK
<1>3. DOMAIN snap = ToSet(staged[holder])
  BY DEF IInv, SnapInv, Validate, Undone
<1>4. CASE Undone
  <2>1. lost[holder] = "none" => \A i \in 1..Size : files[Path(i)] = snap[Path(i)]
    BY <1>4, <1>1, ContinueFacts DEF Undone, IInv, FilesInv
  <2>2. lost[holder] = "none" => \A p \in DOMAIN snap : files[p] = snap[p]
    BY <1>1, <1>3, <2>1, ContinueFacts
  <2>3. Mapped = files
    BY <2>2 DEF Mapped, IInv, TypeOK
  <2>4. Promise!Rollback(holder)
    BY <1>1, <1>2, <2>3, <1>4 DEF Undone, Promise!Rollback, Mapped
  <2>. QED  BY <1>1, <2>4 DEF Promise!Next
<1>5. CASE Validate
  <2>1. lost[holder] \in {"none", "interfered", "dropped"}
    BY <1>1, <1>5 DEF Validate, IInv, LostInv, TypeOK
  <2>2. lost[holder] = "interfered" => Mapped' = Mapped
    BY <1>1, <1>2, MappedFacts
  <2>3. ASSUME lost[holder] # "interfered", NEW p \in Paths
        PROVE  files[p] = IF p \in ToSet(staged[holder]) THEN holder ELSE Mapped[p]
    <3>1. \A i \in 1..Size : files[Path(i)] = holder
      BY <1>5, <2>3 DEF Validate, IInv, FilesInv
    <3>2. p \in ToSet(staged[holder]) => files[p] = holder
      BY <1>1, <3>1, ContinueFacts
    <3>3. p \notin ToSet(staged[holder]) => Mapped[p] = files[p]
      BY <1>3 DEF Mapped
    <3>. QED  BY <3>2, <3>3
  <2>4. lost[holder] # "interfered" =>
           Mapped' = [p \in Paths |-> IF p \in ToSet(staged[holder]) THEN holder ELSE Mapped[p]]
    <3>1. files = [p \in Paths |-> files[p]]
      BY DEF IInv, TypeOK
    <3>. QED  BY <1>2, <2>3, <3>1
  <2>5. PICK t \in Txs : t = holder
    BY <1>1
  <2>6. Promise!Commit(t)
    BY <1>1, <1>5, <2>2, <2>4, <2>5 DEF Validate, Promise!Commit, Mapped
  <2>. QED  BY <2>6 DEF Promise!Next
<1>. QED  BY <1>4, <1>5

\* The calls that wait for the lock.
LEMMA CallMaps ==
    ASSUME IInv, NEW t \in Txs,
           Begin(t) \/ Rollback(t) \/ Commit(t) \/ \E p \in Paths : Stage(t, p)
    PROVE  [Promise!Next]_(Promise!vars)
<1>1. Free /\ UNCHANGED <<files, lost>> /\ snap' = <<>> /\ Mapped = files
  BY FreeFacts, MappedFacts DEF Begin, Rollback, Commit, Stage, commitVars
<1>2. Mapped' = files
  BY <1>1 DEF Mapped, IInv, TypeOK
<1>3. CASE Begin(t)
  <2>1. Promise!Begin(t)
    BY <1>1, <1>2, <1>3 DEF Begin, Promise!Begin, Mapped
  <2>. QED  BY <2>1 DEF Promise!Next
<1>4. CASE Rollback(t)
  <2>1. Promise!Rollback(t)
    BY <1>1, <1>2, <1>4 DEF Rollback, Promise!Rollback, Mapped
  <2>. QED  BY <2>1 DEF Promise!Next
<1>5. CASE Commit(t)
  BY <1>1, <1>2, <1>5, StutterIs DEF Commit
<1>6. ASSUME NEW p \in Paths, Stage(t, p) PROVE [Promise!Next]_(Promise!vars)
  <2>1. ToSet(staged'[t]) = ToSet(staged[t]) \cup {p} /\ \A u \in Txs \ {t} : staged'[u] = staged[u]
    <3>1. ToSet(Append(staged[t], p)) = ToSet(staged[t]) \cup {p}
      BY <1>6, StageFacts DEF Stage, IInv, TypeOK
    <3>. QED  BY <1>6, <3>1 DEF Stage, IInv, TypeOK
  <2>2. Sets' = [Sets EXCEPT ![t] = @ \cup {p}]
    BY <2>1 DEF Sets
  <2>3. Promise!Stage(t, p)
    BY <1>1, <1>2, <1>6, <2>2 DEF Stage, Promise!Stage, Mapped, Sets
  <2>. QED  BY <2>3 DEF Promise!Next
<1>. QED  BY <1>3, <1>4, <1>5, <1>6

\* A write from elsewhere, whoever made it, to a file that a commit has come to.
LEMMA InterferenceMaps ==
    ASSUME IInv, NEW p \in Paths, ~Free, p \in DOMAIN snap, Interfere(p),
           \E c \in Contents : files' = [files EXCEPT ![p] = c],
           UNCHANGED <<status, staged, commitVars>>
    PROVE  [Promise!Next]_(Promise!vars)
<1>1. step # "idle" /\ holder \in Txs /\ status[holder] = "Open"
  BY ContinueFacts DEF IInv, TypeOK
<1>2. lost' = [lost EXCEPT ![holder] = "interfered"] /\ snap' = snap
  BY DEF Interfere, commitVars
<1>3. p \in ToSet(staged[holder])
  BY MappedFacts
<1>4. \A q \in Paths \ ToSet(staged[holder]) : files'[q] = files[q]
  BY <1>3 DEF IInv, TypeOK
<1>5. \A q \in Paths \ ToSet(staged[holder]) : Mapped'[q] = Mapped[q]
  BY <1>2, <1>4, OthersKept
<1>. QED  BY <1>1, <1>2, <1>5, LoseIs

LEMMA LandMaps ==
    ASSUME IInv, NEW w \in adrift, Land(w) PROVE [Promise!Next]_(Promise!vars)
<1>1. w.path \in Paths /\ w.content \in Contents
  BY DEF IInv, TypeOK
<1>2. CASE ~Free /\ w.path \in DOMAIN snap
  BY <1>1, <1>2, InterferenceMaps DEF Land
<1>3. CASE Free \/ w.path \notin DOMAIN snap
  <2>1. PICK t \in Txs : lost[t] # "none" /\ w.path \in ToSet(staged[t])
    BY DEF IInv, LostInv
  <2>2. UNCHANGED <<status, staged, lost, holder, snap>>
    BY <1>3 DEF Land, Interfere, commitVars
  <2>3. \A q \in Paths \ ToSet(staged[t]) : files'[q] = files[q]
    BY <1>1, <2>1 DEF Land, IInv, TypeOK
  <2>4. \A q \in Paths \ ToSet(staged[t]) : Mapped'[q] = Mapped[q]
    BY <2>2, <2>3 DEF Mapped, Free
  <2>. QED  BY <2>1, <2>2, <2>4, DoubtIs
<1>. QED  BY <1>2, <1>3

LEMMA OutsideMaps ==
    ASSUME IInv, NEW p \in Paths, Outside(p) PROVE [Promise!Next]_(Promise!vars)
<1>1. CASE ~Free /\ p \in DOMAIN snap
  <2>1. "outside" \in Contents
    BY DEF Contents
  <2>. QED  BY <1>1, <2>1, InterferenceMaps DEF Outside
<1>2. CASE Free \/ p \notin DOMAIN snap
  <2>1. UNCHANGED <<status, staged, lost, holder, snap>>
    BY <1>2 DEF Outside, Interfere, commitVars
  <2>2. \A q \in Paths : files'[q] = IF q = p THEN "outside" ELSE files[q]
    BY DEF Outside, IInv, TypeOK
  <2>3. Mapped' = [Mapped EXCEPT ![p] = "outside"]
    BY <1>2, <2>1, <2>2 DEF Mapped, Free
  <2>4. Promise!Outside(p)
    BY <2>1, <2>3 DEF Promise!Outside, Mapped
  <2>. QED  BY <2>4 DEF Promise!Next
<1>. QED  BY <1>1, <1>2

LEMMA InitPromise == Init => Promise!Init
<1>. SUFFICES ASSUME Init PROVE Promise!Init
  OBVIOUS
<1>1. Mapped = files /\ files \in [Paths -> Contents]
  BY DEF Init, Mapped, Free, Contents
<1>2. Sets = [t \in Txs |-> {}]
  BY DEF Init, Sets, ToSet
<1>. QED  BY <1>1, <1>2 DEF Init, Promise!Init, Mapped, Sets

LEMMA StepPromise == IInv /\ [Next]_vars => [Promise!Next]_(Promise!vars)
<1>. SUFFICES ASSUME IInv, [Next]_vars PROVE [Promise!Next]_(Promise!vars)
  OBVIOUS
<1>1. ASSUME NEW t \in Txs, Begin(t) \/ Rollback(t) \/ Commit(t) \/ \E p \in Paths : Stage(t, p)
      PROVE  [Promise!Next]_(Promise!vars)
  BY <1>1, CallMaps
<1>2. CASE CommitStep
  <2>1. lost[holder] = "none" \/ lost[holder] # "none"
    OBVIOUS
  <2>. QED  BY <1>2, <2>1, CommitStutters, CommitInDoubt, CommitLoses, CommitEnds DEF CommitStep
<1>3. ASSUME NEW w \in adrift, Land(w) PROVE [Promise!Next]_(Promise!vars)
  BY <1>3, LandMaps
<1>4. ASSUME NEW p \in Paths, Outside(p) PROVE [Promise!Next]_(Promise!vars)
  BY <1>4, OutsideMaps
<1>5. CASE UNCHANGED vars
  <2>1. Mapped' = Mapped
    BY <1>5 DEF vars, commitVars, Mapped, Free
  <2>. QED  BY <1>5, <2>1, StutterIs DEF vars
<1>. QED  BY <1>1, <1>2, <1>3, <1>4, <1>5 DEF Next

\* Every behaviour of the code is one of the promise, for any number of transactions and of
\* files: a commit changes all its files or none, but for the four accidents that are named,
\* and no write reaches a file that its transaction has not staged.
THEOREM Implements == Spec => Atomic
<1>. QED  BY InitPromise, StepPromise, IInvHolds, PTL DEF Spec, Atomic, Promise!Spec
=============================================================================
