--------------------------- MODULE Ripcord_proofs ---------------------------
(***************************************************************************)
(* Proofs about the two wrappers around the tools of an engine.  Of        *)
(* Ripcord, for all sessions, operators, batches and thresholds: the types *)
(* and the count, that no crossing is missed, and that a pull handles      *)
(* whatever it lists.  Of ToolCache: the order of eviction, and that what  *)
(* is cached is current but for the named gaps.                            *)
(***************************************************************************)
EXTENDS Ripcord, ToolCache, FiniteSetTheorems, SequenceTheorems, NaturalsInduction, WellFoundedInduction, TLAPS

\* Where a session is with the call at a place of its batch.
AfterCheck     == {"recheck", "push", "count"}
AfterIncrement == AfterCheck \cup {"read", "check", "activate"}

IsEvaluated(s, j) == j < pos[s] \/ (j = pos[s] /\ pc[s] \in AfterCheck)
IsCounted(s, j)   == j < pos[s] \/ (j = pos[s] /\ pc[s] \in AfterIncrement)

EvaluatedOf(k) == {c \in Evaluated : CategoryOf[c] = k}
CountedOf(k)   == {c \in Calls : CategoryOf[c] = k /\
                      \E s \in Sessions : \E j \in DOMAIN Batch[s] : c = Batch[s][j] /\ IsCounted(s, j)}

\* The calls of a category that are evaluated, and those whose session has read a count below
\* the threshold and will find nothing that matches it.
PassingOf(k) == {Current(s) : s \in {t \in Sessions : pc[t] = "check" /\ Category(t) = k /\ seen[t] < MinCount[k]}}
PassedOf(k)  == EvaluatedOf(k) \cup PassingOf(k)

\* Who clears the journal says so first.
ClearInv == \A o \in Operators : op[o] \in {"clearStatus", "clearCounts", "done"} => cleared

\* Who holds the lock of the entries is about to count them.
LockInv == \A s \in Sessions : entriesLock = s => pc[s] = "count"

\* Nothing is recorded while the ripcord is not active.
RecordInv ==
    cleared \/ active \/
        /\ entries = <<>> /\ entryCount = 0 /\ entriesLock = "free"
        /\ \A s \in Sessions : pc[s] \notin {"push", "count"}

\* The count of a category is not below the number of its calls that were counted.
CountInv == cleared \/ \A k \in Categories :
    IsFiniteSet(CountedOf(k)) /\ Cardinality(CountedOf(k)) <= counts[k]

\* Too few calls have passed by the thresholds of a ripcord that is not active.
PassInv ==
    cleared \/ active \/
        /\ Evaluated \cap PointMatch = {}
        /\ \A k \in DOMAIN MinCount : IsFiniteSet(PassedOf(k)) /\ Cardinality(PassedOf(k)) < MinCount[k]

\* What a pull has still to revert, and what it has listed and not come to yet: its part of the
\* first, unless it was dropped, and not cleared by it.
Left(o)   == {todo[o][i] : i \in DOMAIN todo[o]}
PullOf(o) ==
    /\ op[o] = "start" => \A c \in Calls : report[o][c] = "none"
    /\ op[o] \in {"start", "revert"} => \A c \in Calls : clearedBy[c] # o
    /\ \A c \in Left(o) : report[o][c] # "none"
    /\ \A c \in Calls : report[o][c] = "listed" =>
          /\ (op[o] = "revert" /\ c \in Left(o)) \/ op[o] = "gone"
          /\ c \in Journaled \/ clearedBy[c] \in Operators \ {o}
    /\ \A c \in Calls : report[o][c] = "reverted" => c \notin effects

\* A call that is not executed is in no journal and on no list.
Unlisted(c) == c \notin Journaled /\ \A o \in Operators : report[o][c] = "none"
PullInv == /\ \A o \in Operators : PullOf(o)
           /\ \A s \in Sessions : pc[s] = "execute" => \A c \in CallsOf(s) : Unlisted(c)

IInv == TypeOK /\ CountMatchesEntries /\ ClearInv /\ LockInv /\ RecordInv /\ CountInv /\ PassInv /\ PullInv
-----------------------------------------------------------------------------
(* The types.                                                              *)

LEMMA BatchType ==
    ASSUME NEW s \in Sessions
    PROVE  /\ Batch[s] \in Seq(Calls) /\ Len(Batch[s]) \in Nat \ {0}
           /\ DOMAIN Batch[s] = 1..Len(Batch[s])
           /\ \A j \in DOMAIN Batch[s] : Batch[s][j] \in Calls
BY RipcordAssumption

LEMMA CurrentType ==
    ASSUME TypeOK, NEW s \in Sessions, pc[s] # "done"
    PROVE  Current(s) \in Calls /\ Category(s) \in Categories /\ pos[s] \in DOMAIN Batch[s]
BY BatchType, RipcordAssumption DEF TypeOK, Current, Category

LEMMA ReverseIs ==
    ASSUME NEW q \in Seq(Calls)
    PROVE  /\ Reverse(q) \in Seq(Calls)
           /\ \A i \in DOMAIN q : \E j \in DOMAIN Reverse(q) : Reverse(q)[j] = q[i]
           /\ \A j \in DOMAIN Reverse(q) : \E i \in DOMAIN q : Reverse(q)[j] = q[i]
<1>. DEFINE n == Len(q)
<1>1. n \in Nat /\ DOMAIN q = 1..n /\ \A i \in 1..n : q[i] \in Calls
  OBVIOUS
<1>. HIDE DEF n
<1>2. Reverse(q) = [i \in 1..n |-> q[n - i + 1]]
  BY DEF Reverse, n
<1>3. \A i \in 1..n : n - i + 1 \in 1..n /\ n - (n - i + 1) + 1 = i
  BY <1>1
<1>4. Reverse(q) \in [1..n -> Calls]
  BY <1>1, <1>2, <1>3
<1>5. Reverse(q) \in Seq(Calls)
  BY <1>1, <1>4, SeqDef
<1>6. ASSUME NEW i \in 1..n PROVE \E j \in 1..n : Reverse(q)[j] = q[i]
  <2>1. Reverse(q)[n - i + 1] = q[n - (n - i + 1) + 1]
    BY <1>2, <1>3
  <2>. QED  BY <1>3, <2>1
<1>7. \A j \in 1..n : \E i \in 1..n : Reverse(q)[j] = q[i]
  BY <1>2, <1>3
<1>. QED  BY <1>1, <1>4, <1>5, <1>6, <1>7

LEMMA CallsType == ASSUME NEW s \in Sessions PROVE CallsOf(s) \subseteq Calls
BY BatchType DEF CallsOf

\* An entry that is recorded is the only one that the journal gains.
LEMMA PushIs ==
    ASSUME entries \in Seq(Calls), NEW c \in Calls, entries' = Append(entries, c)
    PROVE  Journaled' = Journaled \cup {c}
<1>1. /\ Len(entries) \in Nat /\ DOMAIN entries = 1..Len(entries)
      /\ DOMAIN entries' = 1..(Len(entries) + 1) /\ entries'[Len(entries) + 1] = c
      /\ \A i \in 1..Len(entries) : entries'[i] = entries[i]
  OBVIOUS
<1>2. \A i \in 1..(Len(entries) + 1) : i \in 1..Len(entries) \/ i = Len(entries) + 1
  BY <1>1
<1>3. 1..Len(entries) \subseteq 1..(Len(entries) + 1) /\ Len(entries) + 1 \in 1..(Len(entries) + 1)
  BY <1>1
<1>. QED  BY <1>1, <1>2, <1>3 DEF Journaled

\* A session that leaves a call goes on with the next of its batch, or is done.
LEMMA NextCallType ==
    ASSUME TypeOK, NEW s \in Sessions, pc[s] # "done", NextCall(s)
    PROVE  /\ pc' \in [Sessions -> SessionPcs] /\ pos' \in [Sessions -> Nat \ {0}]
           /\ \A t \in Sessions : pc'[t] # "done" => pos'[t] \in DOMAIN Batch[t]
           /\ pos'[s] = pos[s] + 1 /\ pc'[s] \in {"increment", "done"}
           /\ \A t \in Sessions \ {s} : pc'[t] = pc[t] /\ pos'[t] = pos[t]
<1>1. pos[s] \in 1..Len(Batch[s]) /\ Len(Batch[s]) \in Nat
  BY BatchType, CurrentType
<1>2. /\ pos'[s] = pos[s] + 1 /\ pc'[s] = IF pos[s] = Len(Batch[s]) THEN "done" ELSE "increment"
      /\ \A t \in Sessions \ {s} : pc'[t] = pc[t] /\ pos'[t] = pos[t]
  BY DEF TypeOK, NextCall, Goto
<1>3. pc' \in [Sessions -> SessionPcs] /\ pos' \in [Sessions -> Nat \ {0}]
  BY <1>1 DEF TypeOK, NextCall, Goto, SessionPcs
<1>4. pc'[s] # "done" => pos'[s] \in DOMAIN Batch[s]
  BY <1>1, <1>2, BatchType
<1>. QED  BY <1>2, <1>3, <1>4 DEF TypeOK

LEMMA TypeNext == TypeOK /\ [Next]_vars => TypeOK'
<1>. SUFFICES ASSUME TypeOK, [Next]_vars PROVE TypeOK'
  OBVIOUS
<1>. USE DEF journalVars, sessionVars, operatorVars
<1>1. ASSUME NEW s \in Sessions, Execute(s) \/ ExecuteFails(s) PROVE TypeOK'
  <2>1. CallsOf(s) \subseteq Calls
    BY BatchType DEF CallsOf
  <2>2. effects' \subseteq Calls
    BY <1>1, <2>1 DEF Execute, ExecuteFails, TypeOK
  <2>. QED  BY <1>1, <2>2 DEF Execute, ExecuteFails, Goto, TypeOK, SessionPcs
<1>2. ASSUME NEW s \in Sessions, Increment(s) \/ ReadCounts(s) PROVE TypeOK'
  <2>1. Category(s) \in Categories
    BY <1>2, CurrentType DEF Increment, ReadCounts
  <2>2. counts' \in [Categories -> Nat]
    BY <1>2, <2>1 DEF Increment, ReadCounts, TypeOK
  <2>3. seen' \in [Sessions -> Nat]
    BY <1>2, <2>1 DEF Increment, ReadCounts, TypeOK
  <2>. QED  BY <1>2, <2>2, <2>3 DEF Increment, ReadCounts, Goto, TypeOK, SessionPcs
<1>3. ASSUME NEW s \in Sessions, CheckActive(s) \/ Activate(s) \/ RecordIfActive(s) PROVE TypeOK'
  <2>1. active' \in BOOLEAN /\ entryCount' \in Nat
    <3>1. CASE CheckActive(s) \/ RecordIfActive(s)
      BY <3>1 DEF CheckActive, RecordIfActive, TypeOK
    <3>2. CASE Activate(s)
      BY <3>2 DEF Activate, TypeOK
    <3>. QED  BY <1>3, <3>1, <3>2
  <2>. QED  BY <1>3, <2>1 DEF CheckActive, Activate, RecordIfActive, Goto, TypeOK, SessionPcs
<1>4. ASSUME NEW s \in Sessions, RecordNothing(s) \/ RecordCount(s) PROVE TypeOK'
  <2>1. pc[s] # "done" /\ NextCall(s)
    BY <1>4 DEF RecordNothing, RecordCount
  <2>2. /\ pc' \in [Sessions -> SessionPcs] /\ pos' \in [Sessions -> Nat \ {0}]
        /\ \A t \in Sessions : pc'[t] # "done" => pos'[t] \in DOMAIN Batch[t]
    BY <2>1, NextCallType
  <2>3. entryCount' \in Nat /\ entriesLock' \in Sessions \cup {"free"}
    BY <1>4 DEF RecordNothing, RecordCount, TypeOK
  <2>. QED  BY <1>4, <2>2, <2>3 DEF RecordNothing, RecordCount, TypeOK
<1>5. ASSUME NEW s \in Sessions, RecordPush(s) PROVE TypeOK'
  <2>1. entries' \in Seq(Calls)
    BY <1>5, CurrentType DEF RecordPush, TypeOK
  <2>. QED  BY <1>5, <2>1 DEF RecordPush, Goto, TypeOK, SessionPcs
<1>6. ASSUME NEW o \in Operators, Pull(o) PROVE TypeOK'
  <2>1. todo' \in [Operators -> Seq(Calls)]
    BY <1>6, ReverseIs DEF Pull, TypeOK
  <2>2. report' \in [Operators -> [Calls -> Outcomes]]
    BY <1>6 DEF Pull, TypeOK, Outcomes
  <2>. QED  BY <1>6, <2>1, <2>2 DEF Pull, TypeOK, OperatorPcs
<1>7. ASSUME NEW o \in Operators, RevertEntry(o) PROVE TypeOK'
  <2>1. todo[o] \in Seq(Calls) /\ todo[o] # <<>>
    BY <1>7 DEF RevertEntry, TypeOK
  <2>2. Head(todo[o]) \in Calls /\ Tail(todo[o]) \in Seq(Calls)
    BY <2>1
  <2>3. todo' \in [Operators -> Seq(Calls)]
    BY <1>7, <2>2 DEF RevertEntry, TypeOK
  <2>4. report' \in [Operators -> [Calls -> Outcomes]]
    <3>1. \E v \in {"reverted", "skipped"} : report' = [report EXCEPT ![o][Head(todo[o])] = v]
      BY <1>7 DEF RevertEntry
    <3>2. PICK v \in Outcomes : report' = [report EXCEPT ![o][Head(todo[o])] = v]
      BY <3>1 DEF Outcomes
    <3>. QED  BY <2>2, <3>2 DEF TypeOK
  <2>5. effects' \subseteq Calls
    BY <1>7 DEF RevertEntry, TypeOK
  <2>. QED  BY <1>7, <2>3, <2>4, <2>5 DEF RevertEntry, TypeOK
<1>8. ASSUME NEW o \in Operators, ClearEntries(o) PROVE TypeOK'
  <2>1. clearedBy' \in [Calls -> Operators \cup {"nobody"}]
    BY <1>8 DEF ClearEntries, TypeOK
  <2>. QED  BY <1>8, <2>1 DEF ClearEntries, TypeOK, OperatorPcs
<1>9. ASSUME NEW o \in Operators, ClearStatus(o) \/ ClearCounts(o) PROVE TypeOK'
  <2>1. counts' \in [Categories -> Nat]
    BY <1>9 DEF ClearStatus, ClearCounts, TypeOK
  <2>2. op' \in [Operators -> OperatorPcs]
    BY <1>9 DEF ClearStatus, ClearCounts, TypeOK, OperatorPcs
  <2>3. active' \in BOOLEAN /\ entryCount' \in Nat
    <3>1. CASE ClearStatus(o)
      BY <3>1 DEF ClearStatus, TypeOK
    <3>2. CASE ClearCounts(o)
      BY <3>2 DEF ClearCounts, TypeOK
    <3>. QED  BY <1>9, <3>1, <3>2
  <2>. QED  BY <1>9, <2>1, <2>2, <2>3 DEF ClearStatus, ClearCounts, TypeOK
<1>10. CASE UNCHANGED vars
  BY <1>10 DEF vars, TypeOK
<1>11. ASSUME NEW s \in Sessions, SessionDropped(s) PROVE TypeOK'
  <2>1. pc' \in [Sessions -> SessionPcs] /\ \A t \in Sessions : pc'[t] = "done" \/ pc'[t] = pc[t]
    BY <1>11 DEF SessionDropped, Goto, TypeOK, SessionPcs
  <2>2. entriesLock' \in Sessions \cup {"free"} /\ cut' \in BOOLEAN
    BY <1>11 DEF SessionDropped, TypeOK
  <2>. QED  BY <1>11, <2>1, <2>2 DEF SessionDropped, TypeOK
<1>12. ASSUME NEW o \in Operators, OperatorDropped(o) PROVE TypeOK'
  <2>1. op' \in [Operators -> OperatorPcs] /\ todo' \in [Operators -> Seq(Calls)] /\ effects' \subseteq Calls
    BY <1>12 DEF OperatorDropped, TypeOK, OperatorPcs
  <2>. QED  BY <1>12, <2>1 DEF OperatorDropped, TypeOK
<1>. QED  BY <1>1, <1>2, <1>3, <1>4, <1>5, <1>6, <1>7, <1>8, <1>9, <1>10, <1>11, <1>12
             DEF Next, SessionStep, OperatorStep

LEMMA InitIInv == Init => IInv
<1>. SUFFICES ASSUME Init PROVE IInv
  OBVIOUS
<1>1. TypeOK
  <2>1. /\ pc \in [Sessions -> SessionPcs] /\ op \in [Operators -> OperatorPcs]
        /\ report \in [Operators -> [Calls -> Outcomes]] /\ clearedBy \in [Calls -> Operators \cup {"nobody"}]
        /\ entries \in Seq(Calls) /\ todo \in [Operators -> Seq(Calls)]
    BY DEF Init, SessionPcs, OperatorPcs, Outcomes
  <2>2. \A s \in Sessions : pos[s] \in DOMAIN Batch[s]
    BY BatchType DEF Init
  <2>3. /\ pos \in [Sessions -> Nat \ {0}] /\ seen \in [Sessions -> Nat] /\ counts \in [Categories -> Nat]
        /\ entryCount \in Nat /\ effects \subseteq Calls /\ entriesLock \in Sessions \cup {"free"}
    BY DEF Init
  <2>4. active \in BOOLEAN /\ cleared \in BOOLEAN /\ cut \in BOOLEAN
    BY DEF Init
  <2>. QED  BY <2>1, <2>2, <2>3, <2>4 DEF TypeOK
<1>2. CountMatchesEntries /\ ClearInv /\ LockInv
  BY RipcordAssumption DEF Init, CountMatchesEntries, ClearInv, LockInv
<1>3. RecordInv
  BY DEF Init, RecordInv
<1>5. ASSUME NEW s \in Sessions, NEW j \in DOMAIN Batch[s] PROVE ~IsCounted(s, j) /\ ~IsEvaluated(s, j)
  BY <1>5, BatchType DEF Init, IsCounted, IsEvaluated, AfterIncrement, AfterCheck
<1>6. CountInv
  <2>1. ASSUME NEW k \in Categories PROVE CountedOf(k) = {} /\ counts[k] = 0
    BY <1>5, <2>1 DEF CountedOf, Init
  <2>. QED  BY <2>1, FS_EmptySet DEF CountInv
<1>7. PassInv
  <2>1. Evaluated = {}
    BY <1>5 DEF Evaluated, IsEvaluated, AfterCheck
  <2>2. \A k \in DOMAIN MinCount : PassedOf(k) = {}
    BY <2>1 DEF PassedOf, PassingOf, EvaluatedOf, Init
  <2>3. \A k \in DOMAIN MinCount : IsFiniteSet(PassedOf(k)) /\ Cardinality(PassedOf(k)) < MinCount[k]
    <3>1. IsFiniteSet({}) /\ Cardinality({}) = 0
      BY FS_EmptySet
    <3>2. \A k \in DOMAIN MinCount : 0 < MinCount[k]
      BY RipcordAssumption
    <3>. QED  BY <2>2, <3>1, <3>2
  <2>. QED  BY <2>1, <2>3 DEF PassInv
<1>8. PullInv
  <2>1. Journaled = {}
    BY DEF Init, Journaled
  <2>2. /\ \A o \in Operators : op[o] = "start" /\ todo[o] = <<>>
        /\ \A o \in Operators : \A c \in Calls : report[o][c] = "none"
        /\ \A c \in Calls : clearedBy[c] = "nobody"
    BY DEF Init
  <2>3. \A o \in Operators : Left(o) = {}
    BY <2>2 DEF Left
  <2>4. \A o \in Operators : PullOf(o)
    BY RipcordAssumption, <2>2, <2>3 DEF PullOf
  <2>5. \A c \in Calls : Unlisted(c)
    BY <2>1, <2>2 DEF Unlisted
  <2>. QED  BY <2>4, <2>5, CallsType DEF PullInv
<1>. QED  BY <1>1, <1>2, <1>3, <1>6, <1>7, <1>8 DEF IInv
-----------------------------------------------------------------------------
(* The count of the entries, and what a pull has listed.                   *)

LEMMA ClearNext == TypeOK /\ ClearInv /\ [Next]_vars => ClearInv' /\ (cleared => cleared')
<1>. SUFFICES ASSUME TypeOK, ClearInv, [Next]_vars PROVE ClearInv' /\ (cleared => cleared')
  OBVIOUS
<1>1. ASSUME NEW s \in Sessions, SessionStep(s) \/ SessionDropped(s) PROVE UNCHANGED <<op, cleared>>
  BY <1>1 DEF SessionStep, SessionDropped, operatorVars, Execute, ExecuteFails, Increment, ReadCounts, CheckActive,
              Activate, RecordNothing, RecordIfActive, RecordPush, RecordCount
<1>2. ASSUME NEW o \in Operators, OperatorStep(o) \/ OperatorDropped(o) PROVE ClearInv' /\ (cleared => cleared')
  BY <1>2 DEF OperatorStep, OperatorDropped, Pull, RevertEntry, ClearEntries, ClearStatus, ClearCounts, TypeOK, ClearInv
<1>3. CASE UNCHANGED <<op, cleared>>
  BY <1>3 DEF ClearInv
<1>. QED  BY <1>1, <1>2, <1>3 DEF Next, vars, operatorVars

\* Before anybody clears the journal an operator does nothing but list entries and revert them.
LEMMA OperatorKeeps ==
    ASSUME ClearInv, NEW o \in Operators, OperatorStep(o) \/ OperatorDropped(o), ~cleared'
    PROVE  UNCHANGED <<journalVars, sessionVars, cut>>
BY DEF OperatorStep, OperatorDropped, Pull, RevertEntry, ClearEntries, ClearStatus, ClearCounts, ClearInv

\* A session that is dropped changes neither the journal nor the place it has reached in its batch.
LEMMA DropIs ==
    ASSUME TypeOK, NEW s \in Sessions, SessionDropped(s)
    PROVE  /\ pc[s] \notin {"execute", "done"} /\ pc'[s] = "done"
           /\ \A t \in Sessions \ {s} : pc'[t] = pc[t]
           /\ UNCHANGED <<entries, active, entryCount, counts, pos, seen, operatorVars, effects, cleared>>
BY DEF SessionDropped, Goto, TypeOK

LEMMA LockNext == ASSUME TypeOK, LockInv, [Next]_vars PROVE LockInv'
<1>. USE RipcordAssumption DEF journalVars, sessionVars
<1>1. ASSUME NEW s \in Sessions, SessionStep(s), ~RecordPush(s), ~RecordCount(s) PROVE LockInv'
  <2>1. /\ pc[s] # "count" /\ entriesLock' = entriesLock
        /\ \A t \in Sessions \ {s} : pc'[t] = pc[t]
    BY <1>1 DEF SessionStep, Execute, ExecuteFails, Increment, ReadCounts, CheckActive, Activate,
                RecordNothing, RecordIfActive, NextCall, Goto, TypeOK
  <2>. QED  BY <2>1 DEF LockInv
<1>2. ASSUME NEW s \in Sessions, RecordPush(s) PROVE LockInv'
  BY <1>2 DEF RecordPush, Goto, LockInv, TypeOK
<1>3. ASSUME NEW s \in Sessions, RecordCount(s) PROVE LockInv'
  BY <1>3 DEF RecordCount, LockInv
<1>4. ASSUME NEW s \in Sessions, SessionDropped(s) PROVE LockInv'
  <2>1. entriesLock' # s
    BY <1>4 DEF SessionDropped
  <2>. QED  BY <1>4, <2>1, DropIs DEF SessionDropped, LockInv
<1>5. ASSUME NEW o \in Operators, OperatorStep(o) \/ OperatorDropped(o) PROVE LockInv'
  BY <1>5 DEF OperatorStep, OperatorDropped, Pull, RevertEntry, ClearEntries, ClearStatus, ClearCounts, LockInv
<1>6. CASE UNCHANGED vars
  BY <1>6 DEF vars, LockInv
<1>. QED  BY <1>1, <1>2, <1>3, <1>4, <1>5, <1>6 DEF Next

LEMMA RecordNext ==
    ASSUME TypeOK, ClearInv, LockInv, CountMatchesEntries, RecordInv, [Next]_vars
    PROVE  CountMatchesEntries' /\ RecordInv'
<1>. SUFFICES ASSUME ~cleared'
              PROVE  CountMatchesEntries' /\ RecordInv'
  BY DEF CountMatchesEntries, RecordInv
<1>. USE DEF journalVars
<1>1. ~cleared
  BY ClearNext
<1>2. CASE UNCHANGED <<journalVars, sessionVars, cut>>
  BY <1>1, <1>2 DEF CountMatchesEntries, RecordInv, sessionVars
<1>3. ASSUME NEW s \in Sessions, Execute(s) \/ ExecuteFails(s) \/ Increment(s) \/ ReadCounts(s) \/ CheckActive(s)
      PROVE  CountMatchesEntries' /\ RecordInv'
  BY <1>1, <1>3 DEF Execute, ExecuteFails, Increment, ReadCounts, CheckActive, Goto, CountMatchesEntries, RecordInv,
                    TypeOK
<1>4. ASSUME NEW s \in Sessions, Activate(s) PROVE CountMatchesEntries' /\ RecordInv'
  <2>1. active'
    BY <1>4 DEF Activate
  <2>2. CASE active
    BY <1>1, <1>4, <2>1, <2>2 DEF Activate, CountMatchesEntries, RecordInv
  <2>3. CASE ~active
    BY <1>1, <1>4, <2>1, <2>3 DEF Activate, CountMatchesEntries, RecordInv
  <2>. QED  BY <2>2, <2>3
<1>5. ASSUME NEW s \in Sessions, RecordNothing(s) PROVE CountMatchesEntries' /\ RecordInv'
  <2>1. /\ pc'[s] \in {"increment", "done"}
        /\ \A t \in Sessions \ {s} : pc'[t] = pc[t]
    BY <1>5, NextCallType DEF RecordNothing
  <2>2. UNCHANGED <<journalVars, cut>>
    BY <1>5 DEF RecordNothing
  <2>. QED  BY <1>1, <2>1, <2>2 DEF CountMatchesEntries, RecordInv
<1>6. ASSUME NEW s \in Sessions, RecordIfActive(s) PROVE CountMatchesEntries' /\ RecordInv'
  BY <1>1, <1>6 DEF RecordIfActive, CountMatchesEntries, RecordInv
<1>7. ASSUME NEW s \in Sessions, RecordPush(s) \/ RecordCount(s) PROVE CountMatchesEntries' /\ RecordInv'
  <2>1. active /\ active'
    BY <1>1, <1>7 DEF RecordPush, RecordCount, RecordInv
  <2>2. CountMatchesEntries'
    BY <1>7, RipcordAssumption DEF RecordPush, RecordCount, CountMatchesEntries
  <2>. QED  BY <2>1, <2>2 DEF RecordInv
<1>8. ASSUME NEW o \in Operators, OperatorStep(o) \/ OperatorDropped(o)
      PROVE  UNCHANGED <<journalVars, sessionVars, cut>>
  BY <1>8, OperatorKeeps
<1>9. ASSUME NEW s \in Sessions, SessionDropped(s) PROVE CountMatchesEntries' /\ RecordInv'
  <2>1. CountMatchesEntries'
    <3>1. CASE entriesLock = s
      BY <1>1, <1>9, <3>1 DEF LockInv, SessionDropped, CountMatchesEntries
    <3>2. CASE entriesLock # s
      BY <1>1, <1>9, <3>2, DropIs DEF SessionDropped, CountMatchesEntries
    <3>. QED  BY <3>1, <3>2
  <2>2. RecordInv'
    BY <1>1, <1>9, DropIs DEF SessionDropped, RecordInv
  <2>. QED  BY <2>1, <2>2
<1>. QED  BY <1>2, <1>3, <1>4, <1>5, <1>6, <1>7, <1>8, <1>9 DEF Next, SessionStep, vars

\* What an evaluator does to the journal and the world.
LEMMA SessionIs ==
    ASSUME TypeOK, NEW s \in Sessions, SessionStep(s)
    PROVE  /\ UNCHANGED <<op, todo, report, clearedBy>>
           /\ effects' = effects
              \/ (pc[s] = "execute" /\ entries' = entries /\ effects' \subseteq effects \cup CallsOf(s))
           /\ entries' = entries
              \/ (pc[s] = "push" /\ effects' = effects /\ entries' = Append(entries, Current(s)))
           /\ \A t \in Sessions : pc'[t] = "execute" => pc[t] = "execute" /\ t # s
<1>. USE DEF journalVars, sessionVars, operatorVars
<1>1. CASE Execute(s) \/ ExecuteFails(s)
  BY <1>1 DEF Execute, ExecuteFails, Goto, TypeOK
<1>2. CASE Increment(s) \/ ReadCounts(s) \/ CheckActive(s) \/ Activate(s) \/ RecordIfActive(s) \/ RecordPush(s)
  BY <1>2 DEF Increment, ReadCounts, CheckActive, Activate, RecordIfActive, RecordPush, Goto, TypeOK
<1>3. CASE RecordNothing(s) \/ RecordCount(s)
  BY <1>3 DEF RecordNothing, RecordCount, NextCall, Goto, TypeOK
<1>. QED  BY <1>1, <1>2, <1>3 DEF SessionStep

LEMMA PullNext == ASSUME TypeOK, TypeOK', PullInv, [Next]_vars PROVE PullInv'
<1>. USE DEF operatorVars
<1>0. ASSUME NEW s \in Sessions, NEW t \in Sessions, s # t, NEW c \in CallsOf(s) PROVE c \notin CallsOf(t)
  BY <1>0, RipcordAssumption DEF CallsOf
<1>1. CASE /\ UNCHANGED <<op, todo, report, clearedBy, entries>> /\ effects' \subseteq effects
           /\ \A s \in Sessions : pc'[s] = "execute" => pc[s] = "execute"
  <2>1. \A o \in Operators : PullOf(o)'
    BY <1>1 DEF PullInv, PullOf, Left, Journaled
  <2>2. \A c \in Calls : Unlisted(c)' <=> Unlisted(c)
    BY <1>1 DEF Unlisted, Journaled
  <2>. QED  BY <1>1, <2>1, <2>2, CallsType DEF PullInv
<1>2. ASSUME NEW s \in Sessions, pc[s] = "execute", UNCHANGED <<op, todo, report, clearedBy, entries>>,
             effects' \subseteq effects \cup CallsOf(s),
             \A t \in Sessions : pc'[t] = "execute" => pc[t] = "execute"
      PROVE  PullInv'
  <2>1. \A c \in CallsOf(s) : Unlisted(c)
    BY <1>2 DEF PullInv
  <2>2. ASSUME NEW o \in Operators PROVE PullOf(o)'
    <3>1. PullOf(o)
      BY DEF PullInv
    <3>2. \A c \in Calls : report'[o][c] = "reverted" => c \notin effects'
      BY <1>2, <2>1, <3>1 DEF PullOf, Unlisted
    <3>. QED  BY <1>2, <3>1, <3>2 DEF PullOf, Left, Journaled
  <2>3. \A c \in Calls : Unlisted(c)' <=> Unlisted(c)
    BY <1>2 DEF Unlisted, Journaled
  <2>. QED  BY <1>2, <2>2, <2>3, CallsType DEF PullInv
<1>3. ASSUME NEW s \in Sessions, pc[s] = "push", entries' = Append(entries, Current(s)),
             UNCHANGED <<op, todo, report, clearedBy, effects>>,
             \A t \in Sessions : pc'[t] = "execute" => pc[t] = "execute" /\ t # s
      PROVE  PullInv'
  <2>1. Current(s) \in CallsOf(s) /\ Current(s) \in Calls
    BY <1>3, CurrentType DEF CallsOf, Current
  <2>2. Journaled' = Journaled \cup {Current(s)}
    BY <1>3, <2>1, PushIs DEF TypeOK
  <2>3. \A o \in Operators : PullOf(o)'
    BY <1>3, <2>2 DEF PullInv, PullOf, Left
  <2>4. ASSUME NEW t \in Sessions, pc'[t] = "execute", NEW c \in CallsOf(t) PROVE Unlisted(c)'
    BY <1>0, <1>3, <2>1, <2>2, <2>4 DEF PullInv, Unlisted
  <2>. QED  BY <2>3, <2>4 DEF PullInv
<1>4. ASSUME NEW s \in Sessions, SessionStep(s) \/ SessionDropped(s) PROVE PullInv'
  <2>1. CASE SessionStep(s)
    BY <1>1, <1>2, <1>3, <2>1, SessionIs
  <2>2. CASE SessionDropped(s)
    BY <1>1, <2>2, DropIs
  <2>. QED  BY <1>4, <2>1, <2>2
<1>5. ASSUME NEW o \in Operators, Pull(o) PROVE PullInv'
  <2>0. /\ op[o] = "start" /\ op'[o] = "revert" /\ todo'[o] = Reverse(entries)
        /\ report'[o] = [c \in Calls |-> IF c \in Journaled THEN "listed" ELSE "none"]
        /\ \A p \in Operators \ {o} : op'[p] = op[p] /\ todo'[p] = todo[p] /\ report'[p] = report[p]
        /\ UNCHANGED <<entries, pc, clearedBy, effects>>
    BY <1>5 DEF Pull, TypeOK, journalVars, sessionVars
  <2>1. Left(o)' = Journaled
    BY <2>0, ReverseIs DEF Left, Journaled, TypeOK
  <2>2. Journaled' = Journaled /\ Journaled \subseteq Calls
    BY <2>0 DEF Journaled, TypeOK
  <2>3. PullOf(o)'
    BY <2>0, <2>1, <2>2 DEF PullInv, PullOf
  <2>4. \A p \in Operators \ {o} : PullOf(p)'
    BY <2>0, <2>2 DEF PullInv, PullOf, Left
  <2>5. ASSUME NEW t \in Sessions, pc'[t] = "execute", NEW c \in CallsOf(t) PROVE Unlisted(c)'
    <3>1. Unlisted(c) /\ c \in Calls
      BY <2>0, <2>5, CallsType DEF PullInv
    <3>2. report'[o][c] = "none"
      BY <2>0, <3>1 DEF Unlisted
    <3>. QED  BY <2>0, <2>2, <3>1, <3>2 DEF Unlisted
  <2>. QED  BY <2>3, <2>4, <2>5 DEF PullInv
<1>6. ASSUME NEW o \in Operators, RevertEntry(o) PROVE PullInv'
  <2>. DEFINE h == Head(todo[o])
  <2>0. /\ todo[o] \in Seq(Calls) /\ todo[o] # <<>> /\ h \in Calls
        /\ Left(o)' \subseteq Left(o) /\ h \in Left(o) /\ \A c \in Left(o) \ {h} : c \in Left(o)'
    <3>1. todo[o] \in Seq(Calls) /\ todo[o] # <<>> /\ todo'[o] = Tail(todo[o])
      BY <1>6 DEF RevertEntry, TypeOK
    <3>2. \A i \in DOMAIN Tail(todo[o]) : i + 1 \in DOMAIN todo[o] /\ Tail(todo[o])[i] = todo[o][i + 1]
      BY <3>1
    <3>3. \A i \in DOMAIN todo[o] \ {1} : i - 1 \in DOMAIN Tail(todo[o]) /\ Tail(todo[o])[i - 1] = todo[o][i]
      BY <3>1
    <3>4. h \in Calls /\ 1 \in DOMAIN todo[o] /\ todo[o][1] = h
      BY <3>1
    <3>5. Left(o)' \subseteq Left(o)
      BY <3>1, <3>2 DEF Left
    <3>6. h \in Left(o)
      BY <3>4 DEF Left
    <3>. HIDE DEF h
    <3>7. ASSUME NEW c \in Left(o) \ {h} PROVE c \in Left(o)'
      <4>1. PICK i \in DOMAIN todo[o] : todo[o][i] = c
        BY <3>7 DEF Left
      <4>2. i \in DOMAIN todo[o] \ {1}
        BY <3>4, <3>7, <4>1
      <4>. QED  BY <3>1, <3>3, <4>1, <4>2 DEF Left
    <3>. QED  BY <3>1, <3>4, <3>5, <3>6, <3>7
  <2>. HIDE DEF h
  <2>1. /\ op[o] = "revert" /\ UNCHANGED <<op, entries, pc, clearedBy>>
        /\ report'[o][h] = "skipped" \/ (report'[o][h] = "reverted" /\ h \notin effects')
        /\ effects' \subseteq effects
        /\ \A c \in Calls \ {h} : report'[o][c] = report[o][c]
        /\ \A p \in Operators \ {o} : report'[p] = report[p] /\ todo'[p] = todo[p]
    BY <1>6, <2>0 DEF RevertEntry, TypeOK, journalVars, sessionVars, h
  <2>2. Journaled' = Journaled
    BY <2>1 DEF Journaled
  <2>3. PullOf(o)'
    <3>1. PullOf(o)
      BY DEF PullInv
    <3>2. Left(o) \subseteq Calls
      BY <2>0 DEF Left
    <3>3. \A c \in Left(o)' : report'[o][c] # "none"
      BY <2>0, <2>1, <3>1, <3>2 DEF PullOf
    <3>4. ASSUME NEW c \in Calls, report'[o][c] = "listed"
          PROVE  op[o] = "revert" /\ c \in Left(o)' /\ (c \in Journaled \/ clearedBy[c] \in Operators \ {o})
      BY <2>0, <2>1, <3>1, <3>4 DEF PullOf
    <3>5. ASSUME NEW c \in Calls, report'[o][c] = "reverted" PROVE c \notin effects'
      BY <2>1, <3>1, <3>5 DEF PullOf
    <3>. QED  BY <2>1, <2>2, <3>1, <3>3, <3>4, <3>5 DEF PullOf
  <2>4. \A p \in Operators \ {o} : PullOf(p)'
    BY <2>1, <2>2 DEF PullInv, PullOf, Left
  <2>5. ASSUME NEW t \in Sessions, pc'[t] = "execute", NEW c \in CallsOf(t) PROVE Unlisted(c)'
    <3>1. Unlisted(c) /\ c \in Calls
      BY <2>1, <2>5, CallsType DEF PullInv
    <3>2. c # h
      BY <2>0, <3>1 DEF PullInv, PullOf, Unlisted
    <3>. QED  BY <2>1, <2>2, <3>1, <3>2 DEF Unlisted
  <2>. QED  BY <2>3, <2>4, <2>5 DEF PullInv
<1>7. ASSUME NEW o \in Operators, ClearEntries(o) PROVE PullInv'
  <2>1. /\ op[o] = "start" \/ (op[o] = "revert" /\ todo[o] = <<>>)
        /\ op'[o] = "clearStatus" /\ \A p \in Operators \ {o} : op'[p] = op[p]
        /\ UNCHANGED <<pc, todo, report, effects>> /\ entries' = <<>>
        /\ \A c \in Calls : clearedBy'[c] = IF c \in Journaled THEN o ELSE clearedBy[c]
    BY <1>7 DEF ClearEntries, TypeOK, sessionVars
  <2>2. Journaled' = {}
    BY <2>1 DEF Journaled
  <2>3. \A c \in Calls : report[o][c] # "listed"
    BY <2>1 DEF PullInv, PullOf, Left
  <2>4. PullOf(o)'
    BY <2>1, <2>3 DEF PullInv, PullOf, Left
  <2>5. ASSUME NEW p \in Operators \ {o} PROVE PullOf(p)'
    <3>1. PullOf(p)
      BY DEF PullInv
    <3>. QED  BY <2>1, <2>2, <3>1 DEF PullOf, Left
  <2>6. \A c \in Calls : Unlisted(c) => Unlisted(c)'
    BY <2>1, <2>2 DEF Unlisted
  <2>. QED  BY <2>1, <2>4, <2>5, <2>6, CallsType DEF PullInv
<1>8. ASSUME NEW o \in Operators, ClearStatus(o) \/ ClearCounts(o) \/ OperatorDropped(o) PROVE PullInv'
  <2>1. /\ op[o] \notin {"start", "gone"} /\ op'[o] \in {"clearCounts", "done", "gone"}
        /\ op'[o] # "gone" => op[o] # "revert" /\ todo' = todo
        /\ op'[o] = "gone" => todo'[o] = <<>>
        /\ \A p \in Operators \ {o} : op'[p] = op[p] /\ todo'[p] = todo[p]
        /\ UNCHANGED <<entries, pc, report, clearedBy>> /\ effects' \subseteq effects
    BY <1>8 DEF ClearStatus, ClearCounts, OperatorDropped, TypeOK, journalVars, sessionVars
  <2>2. Journaled' = Journaled
    BY <2>1 DEF Journaled
  <2>3. PullOf(o)'
    <3>1. PullOf(o)
      BY DEF PullInv
    <3>2. \A c \in Left(o)' : c \in Left(o)
      BY <2>1 DEF Left
    <3>. QED  BY <2>1, <2>2, <3>1, <3>2 DEF PullOf
  <2>4. \A p \in Operators \ {o} : PullOf(p)'
    BY <2>1, <2>2 DEF PullInv, PullOf, Left
  <2>5. \A c \in Calls : Unlisted(c)' <=> Unlisted(c)
    BY <2>1, <2>2 DEF Unlisted
  <2>. QED  BY <2>1, <2>3, <2>4, <2>5, CallsType DEF PullInv
<1>9. CASE UNCHANGED vars
  BY <1>1, <1>9 DEF vars, journalVars, sessionVars
<1>. QED  BY <1>4, <1>5, <1>6, <1>7, <1>8, <1>9 DEF Next, OperatorStep
-----------------------------------------------------------------------------
(* The counts and the crossings.                                           *)

LEMMA EvaluatedIs ==
    \A c : c \in Evaluated <=>
        \E s \in Sessions : \E j \in DOMAIN Batch[s] : c = Batch[s][j] /\ IsEvaluated(s, j)
BY DEF Evaluated, IsEvaluated, AfterCheck

LEMMA EvaluatedIsNext ==
    \A c : c \in Evaluated' <=>
        \E s \in Sessions : \E j \in DOMAIN Batch[s] : c = Batch[s][j] /\ IsEvaluated(s, j)'
BY DEF Evaluated, IsEvaluated, AfterCheck

\* A call is counted before it passes.
LEMMA PassedAreCounted ==
    ASSUME TypeOK, NEW k \in Categories
    PROVE  PassedOf(k) \subseteq CountedOf(k)
<1>1. EvaluatedOf(k) \subseteq CountedOf(k)
  BY EvaluatedIs, BatchType DEF EvaluatedOf, CountedOf, IsEvaluated, IsCounted, AfterIncrement
<1>2. PassingOf(k) \subseteq CountedOf(k)
  <2>. SUFFICES ASSUME NEW s \in Sessions, pc[s] = "check", Category(s) = k
                PROVE  Current(s) \in CountedOf(k)
    BY DEF PassingOf
  <2>1. Current(s) \in Calls /\ pos[s] \in DOMAIN Batch[s] /\ IsCounted(s, pos[s])
    BY CurrentType DEF IsCounted, AfterIncrement
  <2>. QED  BY <2>1 DEF CountedOf, Current, Category
<1>. QED  BY <1>1, <1>2 DEF PassedOf

LEMMA PassedAreCountedNext ==
    ASSUME TypeOK', NEW k \in Categories
    PROVE  PassedOf(k)' \subseteq CountedOf(k)'
<1>1. (TypeOK => PassedOf(k) \subseteq CountedOf(k))'
  BY PassedAreCounted, PTL
<1>. QED  BY <1>1

\* A step counts the call that is incremented, and evaluates the one that is checked or that
\* activates the ripcord.
LEMMA PlaceMoves ==
    ASSUME TypeOK, NEW s \in Sessions, SessionStep(s)
    PROVE  /\ \A t \in Sessions \ {s} : UNCHANGED <<pc[t], pos[t], seen[t]>>
           /\ \A j \in DOMAIN Batch[s] : IsCounted(s, j)' <=> IsCounted(s, j) \/ (Increment(s) /\ j = pos[s])
           /\ \A j \in DOMAIN Batch[s] : IsEvaluated(s, j)' <=>
                 IsEvaluated(s, j)
                 \/ (pc[s] \in {"check", "activate"} /\ pc'[s] = "recheck" /\ j = pos[s])
<1>. USE DEF sessionVars, IsCounted, IsEvaluated, AfterIncrement, AfterCheck
<1>0. pos[s] \in Nat \ {0} /\ DOMAIN Batch[s] = 1..Len(Batch[s]) /\ Len(Batch[s]) \in Nat
  BY BatchType DEF TypeOK
<1>1. CASE Execute(s) \/ ExecuteFails(s)
  BY <1>0, <1>1 DEF Execute, ExecuteFails, Increment, Goto, TypeOK
<1>2. CASE Increment(s)
  BY <1>0, <1>2 DEF Increment, Goto, TypeOK
<1>3. CASE ReadCounts(s)
  BY <1>0, <1>3 DEF ReadCounts, Increment, Goto, TypeOK
<1>4. CASE CheckActive(s) \/ Activate(s)
  BY <1>0, <1>4 DEF CheckActive, Activate, Increment, Goto, TypeOK
<1>5. CASE RecordIfActive(s) \/ RecordPush(s)
  BY <1>0, <1>5 DEF RecordIfActive, RecordPush, Increment, Goto, TypeOK
<1>6. CASE RecordNothing(s) \/ RecordCount(s)
  <2>1. pc[s] \in {"recheck", "count"} /\ NextCall(s) /\ seen' = seen
    BY <1>6 DEF RecordNothing, RecordCount
  <2>2. /\ pos'[s] = pos[s] + 1 /\ pc'[s] \in {"increment", "done"}
        /\ \A t \in Sessions \ {s} : pc'[t] = pc[t] /\ pos'[t] = pos[t]
    BY <2>1, NextCallType
  <2>3. ~Increment(s)
    BY <2>1 DEF Increment
  <2>. HIDE DEF IsCounted, IsEvaluated
  <2>4. ASSUME NEW j \in DOMAIN Batch[s]
        PROVE  (IsCounted(s, j)' <=> IsCounted(s, j)) /\ (IsEvaluated(s, j)' <=> IsEvaluated(s, j))
    <3>1. j < pos[s] + 1 <=> j < pos[s] \/ j = pos[s]
      BY <1>0
    <3>. QED  BY <2>1, <2>2, <3>1 DEF IsCounted, IsEvaluated
  <2>. QED  BY <2>1, <2>2, <2>3, <2>4
<1>. QED  BY <1>1, <1>2, <1>3, <1>4, <1>5, <1>6 DEF SessionStep

\* Who is dropped counts and evaluates no further call.
LEMMA DropShrinks ==
    ASSUME TypeOK, NEW s \in Sessions, SessionDropped(s), NEW t \in Sessions, NEW j \in DOMAIN Batch[t]
    PROVE  (IsCounted(t, j)' => IsCounted(t, j)) /\ (IsEvaluated(t, j)' => IsEvaluated(t, j))
<1>1. pos' = pos /\ (pc'[t] = pc[t] \/ pc'[t] = "done")
  BY DropIs
<1>. QED  BY <1>1 DEF IsCounted, IsEvaluated, AfterIncrement, AfterCheck

LEMMA CountNext == ASSUME TypeOK, ClearInv, CountInv, [Next]_vars PROVE CountInv'
<1>. SUFFICES ASSUME ~cleared', NEW k \in Categories
              PROVE  IsFiniteSet(CountedOf(k)') /\ Cardinality(CountedOf(k)') <= counts'[k]
  BY DEF CountInv
<1>1. ~cleared /\ IsFiniteSet(CountedOf(k)) /\ Cardinality(CountedOf(k)) <= counts[k]
  BY ClearNext DEF CountInv
<1>2. CASE UNCHANGED <<pc, pos, counts>>
  <2>1. CountedOf(k)' = CountedOf(k)
    BY <1>2 DEF CountedOf, IsCounted
  <2>. QED  BY <1>1, <1>2, <2>1
<1>3. ASSUME NEW s \in Sessions, SessionStep(s), ~Increment(s)
      PROVE  IsFiniteSet(CountedOf(k)') /\ Cardinality(CountedOf(k)') <= counts'[k]
  <2>1. \A t \in Sessions : \A j \in DOMAIN Batch[t] : IsCounted(t, j)' <=> IsCounted(t, j)
    <3>1. ASSUME NEW t \in Sessions \ {s}, NEW j \in DOMAIN Batch[t] PROVE IsCounted(t, j)' <=> IsCounted(t, j)
      BY <1>3, PlaceMoves DEF IsCounted
    <3>. QED  BY <1>3, <3>1, PlaceMoves
  <2>2. CountedOf(k)' = CountedOf(k)
    BY <2>1 DEF CountedOf
  <2>3. counts' = counts
    BY <1>3 DEF SessionStep, journalVars, Execute, ExecuteFails, ReadCounts, CheckActive, Activate,
                RecordNothing, RecordIfActive, RecordPush, RecordCount
  <2>. QED  BY <1>1, <2>2, <2>3
<1>4. ASSUME NEW s \in Sessions, Increment(s)
      PROVE  IsFiniteSet(CountedOf(k)') /\ Cardinality(CountedOf(k)') <= counts'[k]
  <2>0. SessionStep(s) /\ pc[s] # "done"
    BY <1>4 DEF SessionStep, Increment
  <2>1. ASSUME NEW t \in Sessions, NEW j \in DOMAIN Batch[t], IsCounted(t, j)', ~IsCounted(t, j)
        PROVE  t = s /\ j = pos[s]
    <3>1. CASE t # s
      BY <2>0, <2>1, <3>1, PlaceMoves DEF IsCounted
    <3>2. CASE t = s
      BY <2>0, <2>1, <3>2, PlaceMoves
    <3>. QED  BY <3>1, <3>2
  <2>2. counts' = [counts EXCEPT ![Category(s)] = @ + 1] /\ counts \in [Categories -> Nat]
    BY <1>4 DEF Increment, TypeOK
  <2>3. CASE Category(s) = k
    <3>1. CountedOf(k)' \subseteq CountedOf(k) \cup {Current(s)}
      BY <2>1 DEF CountedOf, Current
    <3>2. counts'[k] = counts[k] + 1 /\ counts[k] \in Nat
      BY <2>2, <2>3
    <3>3. /\ IsFiniteSet(CountedOf(k) \cup {Current(s)})
          /\ Cardinality(CountedOf(k) \cup {Current(s)}) =
                IF Current(s) \in CountedOf(k) THEN Cardinality(CountedOf(k)) ELSE Cardinality(CountedOf(k)) + 1
      BY <1>1, FS_AddElement
    <3>4. /\ IsFiniteSet(CountedOf(k)')
          /\ Cardinality(CountedOf(k)') <= Cardinality(CountedOf(k) \cup {Current(s)})
      BY <3>1, <3>3, FS_Subset
    <3>5. Cardinality(CountedOf(k)) \in Nat /\ Cardinality(CountedOf(k)') \in Nat
      BY <1>1, <3>4, FS_CardinalityType
    <3>. QED  BY <1>1, <3>2, <3>3, <3>4, <3>5
  <2>4. CASE Category(s) # k
    <3>1. CountedOf(k)' \subseteq CountedOf(k)
      BY <2>1, <2>4 DEF CountedOf, Category, Current
    <3>2. counts'[k] = counts[k] /\ counts[k] \in Nat
      BY <2>2, <2>4
    <3>3. /\ IsFiniteSet(CountedOf(k)') /\ Cardinality(CountedOf(k)') <= Cardinality(CountedOf(k))
          /\ Cardinality(CountedOf(k)') \in Nat /\ Cardinality(CountedOf(k)) \in Nat
      BY <1>1, <3>1, FS_Subset, FS_CardinalityType
    <3>. QED  BY <1>1, <3>2, <3>3
  <2>. QED  BY <2>3, <2>4
<1>5. ASSUME NEW o \in Operators, OperatorStep(o) \/ OperatorDropped(o) PROVE UNCHANGED <<pc, pos, counts>>
  BY <1>5, OperatorKeeps DEF journalVars, sessionVars
<1>6. ASSUME NEW s \in Sessions, SessionDropped(s)
      PROVE  IsFiniteSet(CountedOf(k)') /\ Cardinality(CountedOf(k)') <= counts'[k]
  <2>1. CountedOf(k)' \subseteq CountedOf(k)
    BY <1>6, DropShrinks DEF CountedOf
  <2>2. /\ IsFiniteSet(CountedOf(k)') /\ Cardinality(CountedOf(k)') <= Cardinality(CountedOf(k))
        /\ Cardinality(CountedOf(k)') \in Nat /\ Cardinality(CountedOf(k)) \in Nat
    BY <1>1, <2>1, FS_Subset, FS_CardinalityType
  <2>3. counts' = counts /\ counts[k] \in Nat
    BY <1>6, DropIs DEF TypeOK
  <2>. QED  BY <1>1, <2>2, <2>3
<1>. QED  BY <1>2, <1>3, <1>4, <1>5, <1>6 DEF Next, vars, sessionVars, journalVars

\* Fewer calls than the threshold have passed when nobody joins them but who has read a count
\* below it.
LEMMA PassNext ==
    ASSUME TypeOK, TypeOK', ClearInv, CountInv, CountInv', PassInv, [Next]_vars
    PROVE  PassInv'
<1>. SUFFICES ASSUME ~cleared', ~active'
              PROVE  /\ Evaluated' \cap PointMatch = {}
                     /\ \A k \in DOMAIN MinCount : IsFiniteSet(PassedOf(k)') /\ Cardinality(PassedOf(k)') < MinCount[k]
  BY DEF PassInv
<1>0. ~cleared
  BY ClearNext
<1>1. CASE UNCHANGED <<pc, pos, seen, active>>
  <2>1. Evaluated' = Evaluated /\ \A k : PassingOf(k)' = PassingOf(k)
    BY <1>1 DEF Evaluated, PassingOf, Current, Category
  <2>2. \A k : PassedOf(k)' = PassedOf(k)
    BY <2>1 DEF PassedOf, EvaluatedOf
  <2>. QED  BY <1>0, <1>1, <2>1, <2>2 DEF PassInv
<1>2. ASSUME NEW s \in Sessions, SessionStep(s)
      PROVE  /\ Evaluated' \cap PointMatch = {}
             /\ \A k \in DOMAIN MinCount : IsFiniteSet(PassedOf(k)') /\ Cardinality(PassedOf(k)') < MinCount[k]
  <2>1. ~active
    BY <1>2 DEF SessionStep, journalVars, Execute, ExecuteFails, Increment, ReadCounts, CheckActive, Activate,
                RecordNothing, RecordIfActive, RecordPush, RecordCount, NextCall, Goto, TypeOK
  <2>2. ~Activate(s)
    BY DEF Activate
  <2>3. /\ Evaluated \cap PointMatch = {}
        /\ \A k \in DOMAIN MinCount : IsFiniteSet(PassedOf(k)) /\ Cardinality(PassedOf(k)) < MinCount[k]
    BY <1>0, <2>1 DEF PassInv
  <2>4. pc[s] = "activate" => FALSE
    BY <1>2, <2>2 DEF SessionStep, Execute, ExecuteFails, Increment, ReadCounts, CheckActive,
                RecordNothing, RecordIfActive, RecordPush, RecordCount
  <2>5. ASSUME NEW c \in Evaluated', c \notin Evaluated
        PROVE  CheckActive(s) /\ ~Matches(s) /\ c = Current(s)
    <3>1. PICK t \in Sessions : \E j \in DOMAIN Batch[t] : c = Batch[t][j] /\ IsEvaluated(t, j)'
      BY EvaluatedIsNext
    <3>2. PICK j \in DOMAIN Batch[t] : c = Batch[t][j] /\ IsEvaluated(t, j)'
      BY <3>1
    <3>3. ~IsEvaluated(t, j)
      BY <2>5, <3>2, EvaluatedIs
    <3>4. t = s
      BY <1>2, <3>2, <3>3, PlaceMoves DEF IsEvaluated
    <3>5. pc[s] = "check" /\ pc'[s] = "recheck" /\ j = pos[s]
      BY <1>2, <2>4, <3>2, <3>3, <3>4, PlaceMoves
    <3>6. CheckActive(s)
      BY <1>2, <3>5 DEF SessionStep, Execute, ExecuteFails, Increment, ReadCounts, Activate,
                RecordNothing, RecordIfActive, RecordPush, RecordCount
    <3>7. ~Matches(s)
      BY <2>1, <3>5, <3>6 DEF CheckActive, Goto, TypeOK
    <3>. QED  BY <3>2, <3>4, <3>5, <3>6, <3>7 DEF Current
  <2>6. Evaluated' \cap PointMatch = {}
    BY <2>3, <2>5 DEF Matches
  <2>7. ASSUME NEW k \in DOMAIN MinCount
        PROVE  IsFiniteSet(PassedOf(k)') /\ Cardinality(PassedOf(k)') < MinCount[k]
    <3>0. /\ k \in Categories /\ MinCount[k] \in Nat
          /\ IsFiniteSet(PassedOf(k)) /\ Cardinality(PassedOf(k)) < MinCount[k]
          /\ Cardinality(PassedOf(k)) \in Nat
      BY <2>3, RipcordAssumption, FS_CardinalityType
    <3>1. EvaluatedOf(k)' \subseteq PassedOf(k)
      <4>. SUFFICES ASSUME NEW c \in Evaluated', CategoryOf[c] = k PROVE c \in PassedOf(k)
        BY DEF EvaluatedOf
      <4>1. CASE c \in Evaluated
        BY <4>1 DEF PassedOf, EvaluatedOf
      <4>2. CASE c \notin Evaluated
        <5>1. CheckActive(s) /\ ~Matches(s) /\ c = Current(s)
          BY <2>5, <4>2
        <5>2. pc[s] = "check" /\ Category(s) = k /\ ~(seen[s] >= MinCount[k]) /\ seen[s] \in Nat
          BY <5>1 DEF CheckActive, Matches, Category, TypeOK
        <5>3. seen[s] < MinCount[k]
          BY <3>0, <5>2
        <5>. QED  BY <5>1, <5>2, <5>3 DEF PassedOf, PassingOf
      <4>. QED  BY <4>1, <4>2
    <3>2. ASSUME NEW t \in Sessions \ {s}, (pc[t] = "check" /\ Category(t) = k /\ seen[t] < MinCount[k])'
          PROVE  Current(t)' \in PassedOf(k)
      <4>1. UNCHANGED <<pc[t], pos[t], seen[t]>>
        BY <1>2, PlaceMoves
      <4>2. Current(t)' = Current(t) /\ Category(t)' = Category(t)
        BY <4>1 DEF Current, Category
      <4>. QED  BY <3>2, <4>1, <4>2 DEF PassedOf, PassingOf
    <3>3. CASE ReadCounts(s) /\ Category(s) = k /\ counts[k] < MinCount[k]
      <4>1. counts' = counts /\ counts[k] \in Nat
        BY <3>0, <3>3 DEF ReadCounts, journalVars, TypeOK
      <4>2. IsFiniteSet(CountedOf(k)') /\ Cardinality(CountedOf(k)') <= counts[k]
        BY <3>0, <4>1 DEF CountInv
      <4>3. /\ IsFiniteSet(PassedOf(k)') /\ Cardinality(PassedOf(k)') <= Cardinality(CountedOf(k)')
            /\ Cardinality(PassedOf(k)') \in Nat /\ Cardinality(CountedOf(k)') \in Nat
        BY <3>0, <4>2, PassedAreCountedNext, FS_Subset, FS_CardinalityType
      <4>. QED  BY <3>0, <3>3, <4>1, <4>2, <4>3
    <3>4. CASE ~(ReadCounts(s) /\ Category(s) = k /\ counts[k] < MinCount[k])
      <4>1. ~(pc[s] = "check" /\ Category(s) = k /\ seen[s] < MinCount[k])'
        <5>1. CASE ReadCounts(s)
          <6>1. pos' = pos /\ seen'[s] = counts[Category(s)] /\ Category(s)' = Category(s)
            BY <5>1 DEF ReadCounts, TypeOK, Category, Current
          <6>. QED  BY <3>4, <5>1, <6>1
        <5>2. CASE ~ReadCounts(s)
          <6>1. pc'[s] # "check"
            BY <1>2, <5>2 DEF SessionStep, Execute, ExecuteFails, Increment, CheckActive, Activate,
                RecordNothing, RecordIfActive, RecordPush, RecordCount, NextCall, Goto, TypeOK
          <6>. QED  BY <6>1
        <5>. QED  BY <5>1, <5>2
      <4>2. PassingOf(k)' \subseteq PassedOf(k)
        BY <3>2, <4>1 DEF PassingOf
      <4>3. PassedOf(k)' \subseteq PassedOf(k)
        BY <3>1, <4>2 DEF PassedOf
      <4>4. /\ IsFiniteSet(PassedOf(k)') /\ Cardinality(PassedOf(k)') <= Cardinality(PassedOf(k))
            /\ Cardinality(PassedOf(k)') \in Nat
        BY <3>0, <4>3, FS_Subset, FS_CardinalityType
      <4>. QED  BY <3>0, <4>4
    <3>. QED  BY <3>3, <3>4
  <2>. QED  BY <2>6, <2>7
<1>3. ASSUME NEW o \in Operators, OperatorStep(o) \/ OperatorDropped(o) PROVE UNCHANGED <<pc, pos, seen, active>>
  BY <1>3, OperatorKeeps DEF journalVars, sessionVars
<1>4. ASSUME NEW s \in Sessions, SessionDropped(s)
      PROVE  /\ Evaluated' \cap PointMatch = {}
             /\ \A k \in DOMAIN MinCount : IsFiniteSet(PassedOf(k)') /\ Cardinality(PassedOf(k)') < MinCount[k]
  <2>1. ~active /\ UNCHANGED <<pos, seen>>
    BY <1>4, DropIs
  <2>2. /\ Evaluated \cap PointMatch = {}
        /\ \A k \in DOMAIN MinCount : IsFiniteSet(PassedOf(k)) /\ Cardinality(PassedOf(k)) < MinCount[k]
    BY <1>0, <2>1 DEF PassInv
  <2>3. Evaluated' \subseteq Evaluated
    BY <1>4, DropShrinks, EvaluatedIs, EvaluatedIsNext
  <2>4. ASSUME NEW k \in DOMAIN MinCount
        PROVE  IsFiniteSet(PassedOf(k)') /\ Cardinality(PassedOf(k)') < MinCount[k]
    <3>1. PassingOf(k)' \subseteq PassingOf(k)
      <4>1. \A t \in Sessions : pc'[t] = "check" => pc[t] = "check"
        BY <1>4, DropIs
      <4>. QED  BY <2>1, <4>1 DEF PassingOf, Current, Category
    <3>2. PassedOf(k)' \subseteq PassedOf(k)
      BY <2>3, <3>1 DEF PassedOf, EvaluatedOf
    <3>3. /\ IsFiniteSet(PassedOf(k)') /\ Cardinality(PassedOf(k)') <= Cardinality(PassedOf(k))
          /\ Cardinality(PassedOf(k)') \in Nat /\ Cardinality(PassedOf(k)) \in Nat /\ MinCount[k] \in Nat
      BY <2>2, <3>2, FS_Subset, FS_CardinalityType, RipcordAssumption
    <3>. QED  BY <2>2, <3>3
  <2>. QED  BY <2>2, <2>3, <2>4
<1>. QED  BY <1>1, <1>2, <1>3, <1>4 DEF Next, vars, sessionVars, journalVars

LEMMA StepIInv == IInv /\ [Next]_vars => IInv'
<1>. SUFFICES ASSUME IInv, [Next]_vars PROVE IInv'
  OBVIOUS
<1>1. TypeOK'
  BY TypeNext DEF IInv
<1>2. ClearInv' /\ LockInv' /\ CountMatchesEntries' /\ RecordInv' /\ PullInv' /\ CountInv'
  BY <1>1, ClearNext, LockNext, RecordNext, PullNext, CountNext DEF IInv
<1>. QED  BY <1>1, <1>2, PassNext DEF IInv

LEMMA IInvHolds == Spec => []IInv
BY InitIInv, StepIInv, PTL DEF Spec
-----------------------------------------------------------------------------
\* However many sessions activate and record at once, every variable keeps its type and the
\* status shows as many entries as there are, until the journal is cleared.
THEOREM CountHolds == Spec => []Inv
<1>1. IInv => Inv
  BY DEF IInv, Inv
<1>. QED  BY <1>1, IInvHolds, PTL

\* Any number of sessions increment, read and check the count of a category under locks they
\* give up in between; whichever interleaving, one of those that reach the threshold sees it.
THEOREM CrossingsAreSeen == Spec => []CrossingIsSeen
<1>1. ASSUME IInv, ~cleared, ~active, NEW k \in DOMAIN MinCount
      PROVE  Cardinality({c \in Evaluated : CategoryOf[c] = k}) < MinCount[k]
  <2>1. IsFiniteSet(PassedOf(k)) /\ Cardinality(PassedOf(k)) < MinCount[k]
    BY <1>1 DEF IInv, PassInv
  <2>2. EvaluatedOf(k) \subseteq PassedOf(k)
    BY DEF PassedOf
  <2>3. /\ Cardinality(EvaluatedOf(k)) <= Cardinality(PassedOf(k))
        /\ Cardinality(EvaluatedOf(k)) \in Nat /\ Cardinality(PassedOf(k)) \in Nat
    BY <2>1, <2>2, FS_Subset, FS_CardinalityType
  <2>4. MinCount[k] \in Nat
    BY RipcordAssumption
  <2>5. Cardinality(EvaluatedOf(k)) < MinCount[k]
    BY <2>1, <2>3, <2>4
  <2>. QED  BY <2>5 DEF EvaluatedOf
<1>2. ASSUME IInv, ~cleared, ~active PROVE Evaluated \cap PointMatch = {}
  BY <1>2 DEF IInv, PassInv
<1>3. IInv => CrossingIsSeen
  BY <1>1, <1>2 DEF CrossingIsSeen
<1>. QED  BY <1>3, IInvHolds, PTL

\* For any number of pulls and approvals at once, whichever of them are dropped: what a pull has
\* listed is undone, reported as skipped, or still in the journal or cleared by another operator.
THEOREM ListedAreHandled == Spec => []ListedIsHandled
<1>1. ASSUME IInv PROVE ListedIsHandled
  <2>1. ASSUME NEW o \in Operators, NEW c \in Calls
        PROVE  report[o][c] \in Outcomes /\ PullOf(o)
    BY <1>1 DEF IInv, TypeOK, PullInv
  <2>. QED  BY <2>1 DEF ListedIsHandled, Outcomes, PullOf
<1>. QED  BY <1>1, IInvHolds, PTL
-----------------------------------------------------------------------------
(***************************************************************************)
(* The cache of results, the other wrapper around the tools of an engine:  *)
(* what it keeps, and how stale it can be, for all engines, files, calls,  *)
(* lengths of batches and limits.                                          *)
(***************************************************************************)
\* Of each engine: where it is with its batch, and how far it has planned.
BatchOf(e) ==
    /\ batch[e] \in Seq(CachedCalls) /\ Len(batch[e]) <= MaxBatch[e]
    /\ plan[e] \in Seq(Nat) /\ result[e] \in Seq(Value) /\ Len(result[e]) = Len(plan[e])
    /\ phase[e] \in {"idle", "plan", "run", "apply"}
    /\ phase[e] = "idle" => batch[e] = <<>> /\ plan[e] = <<>> /\ at[e] = 1
    /\ phase[e] = "plan" => at[e] = Len(plan[e]) + 1 /\ at[e] <= Len(batch[e])
    /\ phase[e] \in {"run", "apply"} => Len(plan[e]) = Len(batch[e]) /\ at[e] \in 1..Len(batch[e])
    /\ phase[e] = "run" => at[e] = 1

\* Of each call: a result of its own is what it reads, others are found or taken from it.
CallOf(e, i) ==
    /\ \/ plan[e][i] = i
       \/ plan[e][i] = 0 /\ result[e][i].how = "read"
       \/ /\ plan[e][i] \in 1..i - 1 /\ plan[e][plan[e][i]] = plan[e][i]
          /\ batch[e][plan[e][i]] = batch[e][i] /\ Cacheable(batch[e][i])
    /\ plan[e][i] = i /\ result[e][i].how = "read" =>
          Cacheable(batch[e][i]) /\ DOMAIN result[e][i].data = Reads(batch[e][i])
    /\ Pending(e, i) => Fresh(result[e][i]) \/ result[e][i].missed

CacheBatchInv == \A e \in Engines : BatchOf(e) /\ \A i \in DOMAIN plan[e] : CallOf(e, i)

CacheFunctions ==
    /\ world \in [Files -> 0..MaxVersion]
    /\ DOMAIN phase = Engines /\ DOMAIN batch = Engines /\ DOMAIN plan = Engines
    /\ DOMAIN result = Engines /\ DOMAIN at = Engines
    /\ phase = [e \in Engines |-> phase[e]] /\ batch = [e \in Engines |-> batch[e]]
    /\ plan = [e \in Engines |-> plan[e]]

\* What is cached.
CacheEntries ==
    /\ cached \in [DOMAIN cached -> Value] /\ DOMAIN cached \subseteq CachedCalls
    /\ \A k \in DOMAIN cached :
          Cacheable(k) /\ cached[k].how = "read" /\ DOMAIN cached[k].data = Reads(k)

\* The order of eviction has no call twice.
CacheOrder ==
    /\ order \in Seq(CachedCalls) /\ IsInjective(order)
    /\ ToSet(order) = DOMAIN cached /\ Len(order) <= MaxEntries

\* The inductive invariant: a pending read is true or knows better, and what an entry was read from
\* has not changed, or the entry knows better, or its removal is under way.
CacheIInv == /\ CacheConstants /\ CacheFunctions /\ CacheBatchInv /\ CacheEntries /\ CacheOrder
        /\ StaleOnlyByMiss
-----------------------------------------------------------------------------
\* Induction: a set of natural numbers has a least one.
LEMMA LeastIs ==
    ASSUME NEW T \in SUBSET Nat, T # {}
    PROVE  \E n \in T : \A m \in T : n <= m
<1>1. IsWellFoundedOn(OpToRel(<, Nat), Nat)
  BY NatLessThanWellFounded
<1>2. PICK n \in T : \A m \in T : ~ (<<m, n>> \in OpToRel(<, Nat))
  BY <1>1, WFMin, Zenon
<1>3. \A m \in T : m < n => <<m, n>> \in OpToRel(<, Nat)
  BY DEF OpToRel
<1>4. \A m \in T : ~(m < n)
  BY <1>2, <1>3, Zenon
<1>. QED  BY <1>4

\* The greatest of a set that has the last of its range.
LEMMA MaxIs ==
    ASSUME NEW n \in Nat, NEW s \in SUBSET (1..n), n \in s
    PROVE  Max(s) = n
<1>1. \A x \in s : (\A y \in s : x >= y) <=> x = n
  OBVIOUS
<1>. QED  BY <1>1 DEF Max

\* The fold of RemoveFromOrder, which Max takes from the last call of the order to the first.
Keeps(keys, kept, k) == IF k \in keys THEN kept ELSE Append(kept, k)
Body(h, s, keys, n) ==
    [t \in SUBSET (1..n) |-> IF t = {} THEN <<>> ELSE Keeps(keys, h[t \ {Max(t)}], s[Max(t)])]

\* The recursive function of a fold exists, for sequences of every length.
LEMMA BodyExists ==
    ASSUME NEW s, NEW keys
    PROVE  \A n \in Nat : \E h : h = Body(h, s, keys, n)
<1>. SUFFICES ASSUME NEW T, T = {n \in Nat : ~ \E h : h = Body(h, s, keys, n)}, T # {} PROVE FALSE
  OBVIOUS
<1>1. PICK n \in T : \A m \in T : n <= m
  BY LeastIs
<1>2. n \in Nat
  OBVIOUS
<1>3. CASE n = 0
  <2>1. SUBSET (1..0) = {{}}
    OBVIOUS
  <2>2. [t \in {{}} |-> <<>>] = Body([t \in {{}} |-> <<>>], s, keys, 0)
    BY <2>1 DEF Body
  <2>. QED  BY <1>1, <1>3, <2>2
<1>4. CASE n # 0
  <2>1. n - 1 \in Nat /\ n - 1 \notin T
    BY <1>1, <1>2, <1>4
  <2>2. PICK g : g = Body(g, s, keys, n - 1)
    BY <2>1
  <2>. DEFINE h == [t \in SUBSET (1..n) |-> IF n \in t THEN Keeps(keys, g[t \ {n}], s[n]) ELSE g[t]]
  <2>3. ASSUME NEW t \in SUBSET (1..n) PROVE h[t] = Body(h, s, keys, n)[t]
    <3>1. CASE n \in t
      <4>1. Max(t) = n /\ t # {} /\ t \ {n} \in SUBSET (1..n) /\ n \notin t \ {n}
        BY <1>2, <3>1, MaxIs
      <4>2. h[t] = Keeps(keys, g[t \ {n}], s[n])
        BY <3>1
      <4>3. h[t \ {n}] = g[t \ {n}]
        BY <4>1
      <4>4. Body(h, s, keys, n)[t] = Keeps(keys, h[t \ {n}], s[n])
        BY <4>1 DEF Body
      <4>. QED  BY <4>2, <4>3, <4>4
    <3>2. CASE n \notin t
      <4>1. t \in SUBSET (1..n - 1)
        BY <1>2, <3>2
      <4>2. h[t] = g[t] /\ g[t] = Body(g, s, keys, n - 1)[t]
        BY <3>2, <2>2
      <4>3. Body(g, s, keys, n - 1)[t] = IF t = {} THEN <<>> ELSE Keeps(keys, g[t \ {Max(t)}], s[Max(t)])
        BY <4>1 DEF Body
      <4>4. Body(h, s, keys, n)[t] = IF t = {} THEN <<>> ELSE Keeps(keys, h[t \ {Max(t)}], s[Max(t)])
        BY DEF Body
      <4>5. t \ {Max(t)} \in SUBSET (1..n) /\ n \notin t \ {Max(t)}
        BY <3>2
      <4>6. h[t \ {Max(t)}] = g[t \ {Max(t)}]
        BY <4>5
      <4>. QED  BY <4>2, <4>3, <4>4, <4>6
    <3>. QED  BY <3>1, <3>2
  <2>4. h = Body(h, s, keys, n)
    <3>1. h = [t \in SUBSET (1..n) |-> h[t]]
      OBVIOUS
    <3>2. Body(h, s, keys, n) = [t \in SUBSET (1..n) |-> Body(h, s, keys, n)[t]]
      BY DEF Body
    <3>. HIDE DEF h
    <3>. QED  BY <3>1, <3>2, <2>3
  <2>. QED  BY <1>1, <1>2, <2>4
<1>. QED  BY <1>3, <1>4

\* Removing keys keeps the others, in their order, each once.
LEMMA RemoveIs ==
    ASSUME NEW keys, order \in Seq(CachedCalls), IsInjective(order)
    PROVE  LET q == RemoveFromOrder(keys) IN
           /\ q \in Seq(CachedCalls) /\ IsInjective(q) /\ ToSet(q) = ToSet(order) \ keys
           /\ Len(q) <= Len(order)
<1>1. PICK n \in Nat : n = Len(order) /\ DOMAIN order = 1..n
  OBVIOUS
<1>2. PICK h : h = Body(h, order, keys, n) /\ RemoveFromOrder(keys) = h[1..n]
  <2>1. RemoveFromOrder(keys) = (CHOOSE h : h = Body(h, order, keys, n))[1..n]
    BY <1>1 DEF RemoveFromOrder, FoldLeft, MapThenFoldSet, Body, Keeps
  <2>. QED  BY <2>1, BodyExists
<1>3. h[{}] = <<>>
  <2>1. Body(h, order, keys, n)[{}] = <<>>
    BY DEF Body
  <2>. QED  BY <1>2, <2>1
<1>4. ASSUME NEW m \in 1..n PROVE h[1..m] = Keeps(keys, h[1..m - 1], order[m])
  <2>1. (1..m) \in SUBSET (1..n) /\ m \in 1..m /\ (1..m) \ {m} = 1..m - 1
    OBVIOUS
  <2>2. Max(1..m) = m
    BY <1>4, MaxIs
  <2>3. Body(h, order, keys, n)[1..m] = Keeps(keys, h[1..m - 1], order[m])
    BY <2>1, <2>2 DEF Body
  <2>. QED  BY <1>2, <2>3
<1>. DEFINE Good(m) == /\ h[1..m] \in Seq(CachedCalls) /\ Len(h[1..m]) <= m /\ IsInjective(h[1..m])
                       /\ ToSet(h[1..m]) = {order[i] : i \in 1..m} \ keys
<1>5. Good(0)
  <2>1. 1..0 = {} /\ h[1..0] = <<>>
    BY <1>3
  <2>2. IsInjective(<<>>) /\ ToSet(<<>>) = {}
    BY DEF IsInjective, ToSet
  <2>3. {order[i] : i \in 1..0} \ keys = {}
    BY <2>1
  <2>. QED  BY <2>1, <2>2, <2>3
<1>6. ASSUME NEW m \in 1..n, Good(m - 1) PROVE Good(m)
  <2>1. PICK q \in Seq(CachedCalls) : q = h[1..m - 1]
    BY <1>6
  <2>2. order[m] \in CachedCalls /\ {order[i] : i \in 1..m} = {order[i] : i \in 1..m - 1} \cup {order[m]}
    BY <1>1
  <2>3. Len(q) \in Nat /\ Len(q) <= m - 1 /\ IsInjective(q) /\ ToSet(q) = {order[i] : i \in 1..m - 1} \ keys
    BY <1>6, <2>1
  <2>4. CASE order[m] \in keys
    BY <1>4, <2>1, <2>2, <2>3, <2>4 DEF Keeps
  <2>5. CASE order[m] \notin keys
    <3>1. order[m] \notin ToSet(q)
      <4>1. \A i \in 1..m - 1 : order[i] # order[m]
        BY <1>1 DEF IsInjective
      <4>2. order[m] \notin {order[i] : i \in 1..m - 1}
        BY <4>1
      <4>. QED  BY <2>3, <4>2
    <3>2. PICK a \in Seq(CachedCalls) : a = Append(q, order[m])
      <4>1. PICK k \in CachedCalls : k = order[m]
        BY <2>2
      <4>2. Append(q, k) \in Seq(CachedCalls)
        OBVIOUS
      <4>. QED  BY <4>1, <4>2
    <3>3. /\ DOMAIN q = 1..Len(q) /\ Len(a) = Len(q) + 1 /\ DOMAIN a = 1..Len(q) + 1
          /\ \A i \in 1..Len(q) : a[i] = q[i]
          /\ a[Len(q) + 1] = order[m]
      BY <2>2, <3>2
    <3>4. ToSet(a) = ToSet(q) \cup {order[m]}
      BY <2>3, <3>3 DEF ToSet
    <3>5. IsInjective(a)
      BY <2>3, <3>1, <3>3 DEF IsInjective, ToSet
    <3>6. h[1..m] = a
      BY <1>4, <2>1, <2>5, <3>2 DEF Keeps
    <3>. QED  BY <2>2, <2>3, <2>5, <3>3, <3>4, <3>5, <3>6
  <2>. QED  BY <2>4, <2>5
<1>. HIDE DEF Good
<1>7. \A m \in 0..n : Good(m)
  <2>. SUFFICES ASSUME NEW T, T = {m \in 0..n : ~Good(m)}, T # {} PROVE FALSE
    OBVIOUS
  <2>1. PICK m \in T : \A k \in T : m <= k
    <3>1. T \in SUBSET Nat
      OBVIOUS
    <3>. QED  BY <3>1, LeastIs
  <2>2. m \in 0..n /\ ~Good(m)
    OBVIOUS
  <2>3. m \in 1..n /\ m - 1 \in 0..n
    BY <1>5, <2>2
  <2>4. m - 1 \notin T
    BY <2>1, <2>3
  <2>. QED  BY <1>6, <2>2, <2>3, <2>4
<1>8. Good(n)
  BY <1>1, <1>7
<1>9. ToSet(order) = {order[i] : i \in 1..n}
  BY <1>1 DEF ToSet
<1>10. PICK q : q = RemoveFromOrder(keys)
  OBVIOUS
<1>11. q \in Seq(CachedCalls) /\ Len(q) <= n /\ IsInjective(q) /\ ToSet(q) = ToSet(order) \ keys
  BY <1>2, <1>8, <1>9, <1>10 DEF Good
<1>. QED  BY <1>1, <1>10, <1>11

-----------------------------------------------------------------------------
\* An engine that a step leaves alone is where it was.
LEMMA StaysIs ==
    ASSUME NEW x \in Engines, BatchOf(x), \A i \in DOMAIN plan[x] : CallOf(x, i), world' = world,
           phase'[x] = phase[x], batch'[x] = batch[x], plan'[x] = plan[x],
           result'[x] = result[x], at'[x] = at[x]
    PROVE  BatchOf(x)' /\ \A i \in DOMAIN plan'[x] : CallOf(x, i)'
<1>1. BatchOf(x)'
  BY DEF BatchOf
<1>2. ASSUME NEW i \in DOMAIN plan[x] PROVE CallOf(x, i)'
  <2>1. CallOf(x, i) /\ (Pending(x, i)' <=> Pending(x, i))
    BY DEF Pending
  <2>2. Fresh(result[x][i])' <=> Fresh(result[x][i])
    BY DEF Fresh
  <2>3. (Fresh(result[x][i]) \/ result[x][i].missed)' <=> (Fresh(result[x][i]) \/ result[x][i].missed)
    BY <2>2
  <2>. QED  BY <2>1, <2>3 DEF CallOf
<1>. QED  BY <1>1, <1>2

\* What is due stays due if the steps leave its engine in place.
LEMMA DueIs ==
    ASSUME NEW k, NEW x \in Engines, NEW i \in DOMAIN result[x], i \in DOMAIN result'[x],
           phase[x] # "apply" \/ i >= at[x], plan[x][i] = i,
           ~Cacheable(batch[x][i]), Outdates(batch[x][i], k),
           phase'[x] # "apply" \/ i >= at'[x], plan'[x][i] = plan[x][i], batch'[x][i] = batch[x][i]
    PROVE  RemovalDue(k)'
  BY DEF RemovalDue, Outdates, Cacheable

\* A new batch.
LEMMA RequestIs ==
    ASSUME CacheIInv, NEW e \in Engines, NEW calls \in BoundedSeq(CachedCalls, MaxBatch[e]), calls # <<>>,
           Request(e, calls)
    PROVE  CacheIInv'
<1>1. /\ phase[e] = "idle" /\ phase' = [phase EXCEPT ![e] = "plan"]
      /\ batch' = [batch EXCEPT ![e] = calls]
      /\ world' = world /\ cached' = cached /\ order' = order
      /\ plan' = plan /\ result' = result /\ at' = at
  BY DEF Request, cacheVars
<1>2. CacheFunctions' /\ CacheEntries' /\ CacheOrder' /\ CacheConstants
  BY <1>1 DEF CacheIInv, CacheFunctions, CacheEntries, CacheOrder, Value, Reads
<1>3. ASSUME NEW x \in Engines PROVE BatchOf(x)' /\ \A i \in DOMAIN plan'[x] : CallOf(x, i)'
  <2>1. BatchOf(x) /\ \A i \in DOMAIN plan[x] : CallOf(x, i)
    BY DEF CacheIInv, CacheBatchInv
  <2>2. CASE x # e
    <3>1. phase'[x] = phase[x] /\ batch'[x] = batch[x]
      BY <1>1, <2>2 DEF CacheIInv, CacheFunctions
    <3>. QED  BY <1>1, <2>1, <3>1, StaysIs
  <2>3. CASE x = e
    <3>1. plan[x] = <<>> /\ at[x] = 1 /\ phase'[x] = "plan" /\ batch'[x] = calls
      BY <1>1, <2>1, <2>3 DEF BatchOf, CacheIInv, CacheFunctions
    <3>2. MaxBatch[e] \in Nat
      BY DEF CacheIInv, CacheConstants
    <3>3. PICK m \in 0..MaxBatch[e] : calls \in [1..m -> CachedCalls]
      BY DEF BoundedSeq, SeqOf
    <3>4. calls \in Seq(CachedCalls) /\ Len(calls) <= MaxBatch[e] /\ Len(calls) >= 1
      BY <3>2, <3>3
    <3>5. DOMAIN plan'[x] = {} /\ Len(plan[x]) = 0
      BY <1>1, <3>1
    <3>6. BatchOf(x)'
      BY <1>1, <2>1, <2>3, <3>1, <3>4, <3>5 DEF BatchOf, Value
    <3>. QED  BY <3>5, <3>6
  <2>. QED  BY <2>2, <2>3
<1>4. ASSUME NEW k \in DOMAIN cached, RemovalDue(k) PROVE RemovalDue(k)'
  <2>1. PICK x \in Engines : \E i \in DOMAIN result[x] :
            /\ phase[x] # "apply" \/ i >= at[x]
            /\ plan[x][i] = i /\ ~Cacheable(batch[x][i]) /\ Outdates(batch[x][i], k)
    BY <1>4 DEF RemovalDue
  <2>2. BatchOf(e) /\ result[e] \in Seq(Value) /\ Len(result[e]) = 0
    BY <1>1 DEF CacheIInv, CacheBatchInv, BatchOf
  <2>3. x # e
    BY <2>1, <2>2
  <2>4. phase'[x] = phase[x] /\ batch'[x] = batch[x]
    BY <1>1, <2>3 DEF CacheIInv, CacheFunctions
  <2>. QED  BY <1>1, <2>1, <2>4, DueIs
<1>5. StaleOnlyByMiss'
  <2>1. \A k \in DOMAIN cached : Fresh(cached[k])' <=> Fresh(cached[k])
    BY <1>1 DEF Fresh
  <2>. QED  BY <1>1, <1>4, <2>1 DEF CacheIInv, StaleOnlyByMiss
<1>6. CacheBatchInv'
  BY <1>3 DEF CacheBatchInv
<1>. QED  BY <1>2, <1>5, <1>6 DEF CacheIInv
-----------------------------------------------------------------------------
\* A step of one engine that changes no data keeps what holds of the batches, if it holds of its own.
LEMMA OneMoves ==
    ASSUME CacheIInv, NEW e \in Engines, world' = world,
           DOMAIN phase' = Engines, DOMAIN batch' = Engines, DOMAIN plan' = Engines,
           DOMAIN result' = Engines, DOMAIN at' = Engines,
           phase' = [x \in Engines |-> phase'[x]], batch' = [x \in Engines |-> batch'[x]],
           plan' = [x \in Engines |-> plan'[x]],
           \A x \in Engines \ {e} : /\ phase'[x] = phase[x] /\ batch'[x] = batch[x] /\ plan'[x] = plan[x]
                                    /\ result'[x] = result[x] /\ at'[x] = at[x],
           BatchOf(e)', \A i \in DOMAIN plan'[e] : CallOf(e, i)'
    PROVE  CacheFunctions' /\ CacheBatchInv'
<1>1. CacheFunctions'
  BY DEF CacheIInv, CacheFunctions
<1>2. ASSUME NEW x \in Engines, x # e PROVE BatchOf(x)' /\ \A i \in DOMAIN plan'[x] : CallOf(x, i)'
  <2>1. BatchOf(x) /\ \A i \in DOMAIN plan[x] : CallOf(x, i)
    BY DEF CacheIInv, CacheBatchInv
  <2>. QED  BY <1>2, <2>1, StaysIs
<1>. QED  BY <1>1, <1>2 DEF CacheBatchInv

\* What is due to others stays due, and nothing is cached by a step of one engine's planning or running.
LEMMA CacheStays ==
    ASSUME CacheIInv, NEW e \in Engines, world' = world, cached' = cached, order' = order,
           \A x \in Engines \ {e} : /\ phase'[x] = phase[x] /\ batch'[x] = batch[x] /\ plan'[x] = plan[x]
                                    /\ result'[x] = result[x] /\ at'[x] = at[x],
           phase'[e] # "apply", batch'[e] = batch[e],
           \A i \in DOMAIN result[e] : i \in DOMAIN result'[e] /\ plan'[e][i] = plan[e][i]
    PROVE  CacheEntries' /\ CacheOrder' /\ StaleOnlyByMiss'
<1>1. CacheEntries' /\ CacheOrder'
  BY DEF CacheIInv, CacheEntries, CacheOrder, Value, Reads
<1>2. ASSUME NEW k \in DOMAIN cached, RemovalDue(k) PROVE RemovalDue(k)'
  <2>1. PICK x \in Engines : \E i \in DOMAIN result[x] :
            /\ phase[x] # "apply" \/ i >= at[x]
            /\ plan[x][i] = i /\ ~Cacheable(batch[x][i]) /\ Outdates(batch[x][i], k)
    BY <1>2 DEF RemovalDue
  <2>2. PICK i \in DOMAIN result[x] :
            /\ phase[x] # "apply" \/ i >= at[x]
            /\ plan[x][i] = i /\ ~Cacheable(batch[x][i]) /\ Outdates(batch[x][i], k)
    BY <2>1
  <2>3. CASE x = e
    BY <2>2, <2>3, DueIs
  <2>4. CASE x # e
    BY <2>2, <2>4, DueIs
  <2>. QED  BY <2>3, <2>4
<1>3. \A k \in DOMAIN cached : Fresh(cached[k])' <=> Fresh(cached[k])
  BY DEF Fresh
<1>. QED  BY <1>1, <1>2, <1>3 DEF CacheIInv, StaleOnlyByMiss

\* An ended call of an empty result is a result.
LEMMA EndedIs ==
    ASSUME NEW how \in {"none", "changed", "failed"}
    PROVE  Ended(how) \in Value /\ Ended(how).how = how
<1>1. <<>> \in [{} -> 0..MaxVersion]
  OBVIOUS
<1>2. <<>> \in UNION {[D -> 0..MaxVersion] : D \in SUBSET Files}
  BY <1>1
<1>. QED  BY <1>2 DEF Ended, Value

\* A call is looked up, and resolved by the cache, by a call before it, or by a run of its own.
LEMMA PlanCallIs ==
    ASSUME CacheIInv, NEW e \in Engines, PlanCall(e)
    PROVE  CacheIInv'
<1>1. PICK n \in Nat : n = Len(plan[e]) /\ n = Len(result[e]) /\ at[e] = n + 1 /\ n < Len(batch[e])
  <2>1. BatchOf(e) /\ phase[e] = "plan"
    BY DEF CacheIInv, CacheBatchInv, PlanCall
  <2>. QED  BY <2>1 DEF BatchOf
<1>2. PICK p \in Seq(Nat), r \in Seq(Value), b \in Seq(CachedCalls) :
         /\ p = plan[e] /\ r = result[e] /\ b = batch[e] /\ Len(b) <= MaxBatch[e]
         /\ Len(p) = n /\ Len(r) = n /\ n < Len(b)
  BY <1>1 DEF CacheIInv, CacheBatchInv, BatchOf
<1>3. PICK c \in CachedCalls : c = b[n + 1] /\ Upcoming(e) = c
  BY <1>1, <1>2 DEF Upcoming
<1>4. PICK d : d = Resolved(e)
  OBVIOUS
<1>5. /\ d \in Nat
      /\ \/ d = n + 1
         \/ d = 0 /\ Cacheable(c) /\ c \in DOMAIN cached
         \/ d \in 1..n /\ p[d] = d /\ b[d] = c /\ Cacheable(c)
  <2>1. Sources(e) = {i \in 1..n : p[i] = i /\ b[i] = c /\ Cacheable(c)}
    BY <1>1, <1>2, <1>3 DEF Sources
  <2>2. CASE Cacheable(c) /\ c \in DOMAIN cached
    BY <1>3, <1>4, <2>2 DEF Resolved
  <2>3. CASE ~(Cacheable(c) /\ c \in DOMAIN cached) /\ Sources(e) # {}
    <3>1. d \in Sources(e)
      BY <1>3, <1>4, <2>3 DEF Resolved
    <3>. QED  BY <2>1, <3>1
  <2>4. CASE ~(Cacheable(c) /\ c \in DOMAIN cached) /\ Sources(e) = {}
    BY <1>1, <1>3, <1>4, <2>4 DEF Resolved
  <2>. QED  BY <2>2, <2>3, <2>4
<1>6. PICK v \in Value : /\ v = IF d = 0 THEN cached[c] ELSE Ended("none")
                         /\ v.how = IF d = 0 THEN "read" ELSE "none"
  BY <1>5, EndedIs DEF CacheIInv, CacheEntries
<1>7. /\ phase[e] = "plan" /\ world' = world /\ cached' = cached /\ order' = order /\ batch' = batch
      /\ plan' = [plan EXCEPT ![e] = Append(@, d)]
      /\ result' = [result EXCEPT ![e] = Append(@, v)]
      /\ \/ n + 1 < Len(b) /\ at' = [at EXCEPT ![e] = n + 2] /\ phase' = phase
         \/ n + 1 = Len(b) /\ at' = [at EXCEPT ![e] = 1] /\ phase' = [phase EXCEPT ![e] = "run"]
  BY <1>1, <1>2, <1>3, <1>4, <1>6 DEF PlanCall, cacheVars, More
<1>8. /\ DOMAIN phase = Engines /\ DOMAIN plan = Engines /\ DOMAIN result = Engines /\ DOMAIN at = Engines
      /\ DOMAIN batch = Engines
  BY DEF CacheIInv, CacheFunctions
<1>9. PICK q \in Seq(Nat), s \in Seq(Value) :
         /\ q = plan'[e] /\ s = result'[e]
         /\ DOMAIN q = 1..n + 1 /\ Len(q) = n + 1 /\ DOMAIN s = 1..n + 1 /\ Len(s) = n + 1
         /\ q[n + 1] = d /\ s[n + 1] = v
         /\ \A i \in 1..n : q[i] = p[i] /\ s[i] = r[i]
  <2>1. /\ Append(p, d) \in Seq(Nat) /\ Len(Append(p, d)) = n + 1 /\ DOMAIN Append(p, d) = 1..n + 1
        /\ Append(p, d)[n + 1] = d /\ \A i \in 1..n : Append(p, d)[i] = p[i]
    <3>1. p \in Seq(Nat) /\ Len(p) = n /\ d \in Nat
      BY <1>2, <1>5
    <3>. QED  BY <3>1
  <2>2. /\ Append(r, v) \in Seq(Value) /\ Len(Append(r, v)) = n + 1 /\ DOMAIN Append(r, v) = 1..n + 1
        /\ Append(r, v)[n + 1] = v /\ \A i \in 1..n : Append(r, v)[i] = r[i]
    BY <1>2
  <2>3. plan'[e] = Append(p, d) /\ result'[e] = Append(r, v)
    BY <1>2, <1>7, <1>8
  <2>. QED  BY <2>1, <2>2, <2>3
<1>10. BatchOf(e)'
  <2>1. BatchOf(e)
    BY DEF CacheIInv, CacheBatchInv
  <2>2. \/ phase'[e] = "plan" /\ at'[e] = n + 2 /\ n + 1 < Len(b)
        \/ phase'[e] = "run" /\ at'[e] = 1 /\ n + 1 = Len(b)
    BY <1>7, <1>8
  <2>3. batch'[e] = b
    BY <1>2, <1>7
  <2>4. Value' = Value
    BY DEF Value
  <2>. QED  BY <1>2, <1>9, <2>2, <2>3, <2>4 DEF BatchOf
<1>11. ASSUME NEW i \in DOMAIN plan'[e] PROVE CallOf(e, i)'
  <2>1. i \in 1..n + 1 /\ batch'[e] = b /\ DOMAIN plan[e] = 1..n
    BY <1>2, <1>7, <1>9
  <2>2. CASE i = n + 1
    <3>1. s[i].how = "read" => q[i] = 0
      BY <1>5, <1>6, <1>9, <2>2
    <3>2. ~Pending(e, i)'
      BY <1>9, <2>2, <3>1 DEF Pending
    <3>3. \/ q[i] = i
          \/ q[i] = 0 /\ s[i].how = "read"
          \/ q[i] \in 1..i - 1 /\ q[q[i]] = q[i] /\ b[q[i]] = b[i] /\ Cacheable(b[i])
      <4>1. q[i] = d /\ s[i] = v /\ b[i] = c
        BY <1>3, <1>9, <2>2
      <4>2. CASE d = n + 1
        BY <2>2, <4>1, <4>2
      <4>3. CASE d = 0
        BY <1>6, <4>1, <4>3
      <4>4. CASE d \in 1..n /\ p[d] = d /\ b[d] = c /\ Cacheable(c)
        <5>1. q[d] = d
          BY <1>9, <4>4
        <5>2. d \in 1..i - 1
          BY <1>1, <2>2, <4>4
        <5>. QED  BY <4>1, <4>4, <5>1, <5>2
      <4>. QED  BY <1>5, <4>2, <4>3, <4>4
    <3>. QED  BY <1>9, <2>1, <2>2, <3>1, <3>2, <3>3 DEF CallOf
  <2>3. CASE i \in 1..n
    <3>1. CallOf(e, i) /\ q[i] = p[i] /\ s[i] = r[i]
      BY <1>9, <2>1, <2>3 DEF CacheIInv, CacheBatchInv
    <3>2. Pending(e, i)' => Pending(e, i)
      BY <1>2, <1>7, <1>9, <3>1 DEF Pending
    <3>3. Fresh(r[i])' <=> Fresh(r[i])
      BY <1>7 DEF Fresh
    <3>4. (Fresh(result[e][i]) \/ result[e][i].missed)' <=> (Fresh(result[e][i]) \/ result[e][i].missed)
      BY <1>2, <1>7, <1>9, <3>1 DEF Fresh
    <3>5. p[i] \in 1..i - 1 => p[i] \in 1..n
      BY <1>2, <2>3
    <3>6. \/ q[i] = i
          \/ q[i] = 0 /\ s[i].how = "read"
          \/ q[i] \in 1..i - 1 /\ q[q[i]] = q[i] /\ b[q[i]] = b[i] /\ Cacheable(b[i])
      BY <1>2, <1>9, <2>3, <3>1, <3>5 DEF CallOf
    <3>7. q[i] = i /\ s[i].how = "read" => Cacheable(b[i]) /\ DOMAIN s[i].data = Reads(b[i])
      BY <1>2, <1>9, <3>1 DEF CallOf
    <3>. QED  BY <1>9, <2>1, <3>1, <3>2, <3>4, <3>6, <3>7 DEF CallOf
  <2>. QED  BY <2>1, <2>2, <2>3
<1>12. CacheFunctions' /\ CacheBatchInv'
  <2>1. /\ phase' = [x \in Engines |-> phase'[x]] /\ batch' = [x \in Engines |-> batch'[x]]
        /\ plan' = [x \in Engines |-> plan'[x]]
    BY <1>7 DEF CacheIInv, CacheFunctions
  <2>. QED  BY <1>7, <1>8, <1>10, <1>11, <2>1, OneMoves
<1>13. CacheEntries' /\ CacheOrder' /\ StaleOnlyByMiss'
  <2>1. phase'[e] # "apply" /\ batch'[e] = batch[e]
    BY <1>7, <1>8
  <2>2. \A i \in DOMAIN result[e] : i \in DOMAIN result'[e] /\ plan'[e][i] = plan[e][i]
    BY <1>2, <1>9
  <2>. QED  BY <1>7, <1>8, <2>1, <2>2, CacheStays
<1>. QED  BY <1>12, <1>13 DEF CacheIInv
\* A call that runs ends, with what was read at that moment if it reads.
LEMMA EndsIs ==
    ASSUME CacheIInv, NEW e \in Engines, NEW i \in DOMAIN plan[e], NEW v \in Value, Waiting(e, i),
           v.how = "read" => /\ Cacheable(batch[e][i]) /\ DOMAIN v.data = Reads(batch[e][i])
                             /\ Fresh(v),
           result' = [result EXCEPT ![e][i] = v],
           UNCHANGED <<world, cached, order, phase, batch, plan, at>>
    PROVE  CacheIInv'
<1>1. /\ DOMAIN phase = Engines /\ DOMAIN plan = Engines /\ DOMAIN result = Engines /\ DOMAIN at = Engines
      /\ DOMAIN batch = Engines
  BY DEF CacheIInv, CacheFunctions
<1>2. BatchOf(e) /\ \A j \in DOMAIN plan[e] : CallOf(e, j)
  BY DEF CacheIInv, CacheBatchInv
<1>3. PICK n \in Nat, p \in Seq(Nat), r \in Seq(Value), b \in Seq(CachedCalls) :
         /\ p = plan[e] /\ r = result[e] /\ b = batch[e] /\ Len(p) = n /\ Len(r) = n /\ i \in 1..n
         /\ DOMAIN p = 1..n /\ DOMAIN r = 1..n
  <2>1. plan[e] \in Seq(Nat) /\ result[e] \in Seq(Value) /\ batch[e] \in Seq(CachedCalls)
    BY <1>2 DEF BatchOf
  <2>2. Len(plan[e]) \in Nat /\ Len(result[e]) = Len(plan[e])
    BY <1>2, <2>1 DEF BatchOf
  <2>. QED  BY <2>1, <2>2
<1>4. phase[e] = "run" /\ p[i] = i
  BY <1>3 DEF Waiting
<1>5. PICK s \in Seq(Value) :
         /\ s = result'[e] /\ Len(s) = n /\ DOMAIN s = 1..n
         /\ s[i] = v /\ \A j \in 1..n : j # i => s[j] = r[j]
  <2>1. /\ [r EXCEPT ![i] = v] \in Seq(Value) /\ Len([r EXCEPT ![i] = v]) = n
        /\ DOMAIN [r EXCEPT ![i] = v] = 1..n
        /\ [r EXCEPT ![i] = v][i] = v /\ \A j \in 1..n : j # i => [r EXCEPT ![i] = v][j] = r[j]
    BY <1>3
  <2>2. result'[e] = [r EXCEPT ![i] = v]
    BY <1>1, <1>3
  <2>. QED  BY <2>1, <2>2
<1>6. BatchOf(e)'
  <2>1. Value' = Value
    BY DEF Value
  <2>. QED  BY <1>2, <1>3, <1>5, <2>1 DEF BatchOf
<1>7. ASSUME NEW j \in DOMAIN plan'[e] PROVE CallOf(e, j)'
  <2>1. j \in 1..n /\ CallOf(e, j)
    BY <1>2, <1>3
  <2>2. \/ p[j] = j
        \/ p[j] = 0 /\ s[j].how = "read"
        \/ p[j] \in 1..j - 1 /\ p[p[j]] = p[j] /\ b[p[j]] = b[j] /\ Cacheable(b[j])
    <3>1. CASE i = j
      BY <1>4, <3>1
    <3>2. CASE i # j
      BY <1>3, <1>5, <2>1, <3>2 DEF CallOf
    <3>. QED  BY <3>1, <3>2
  <2>3. p[j] = j /\ s[j].how = "read" => Cacheable(b[j]) /\ DOMAIN s[j].data = Reads(b[j])
    <3>1. CASE i = j
      BY <1>3, <1>5, <3>1
    <3>2. CASE i # j
      BY <1>3, <1>5, <2>1, <3>2 DEF CallOf
    <3>. QED  BY <3>1, <3>2
  <2>4. Pending(e, j)' => (Fresh(result[e][j]) \/ result[e][j].missed)'
    <3>1. CASE i = j
      <4>1. Pending(e, j)' => v.how = "read"
        BY <1>5, <3>1 DEF Pending
      <4>2. v.how = "read" => Fresh(result[e][j])'
        BY <1>5, <3>1 DEF Fresh
      <4>. QED  BY <4>1, <4>2
    <3>2. CASE i # j
      <4>1. s[j] = r[j] /\ (Pending(e, j)' <=> Pending(e, j))
        BY <1>3, <1>5, <2>1, <3>2 DEF Pending
      <4>2. (Fresh(result[e][j]) \/ result[e][j].missed)' <=> (Fresh(result[e][j]) \/ result[e][j].missed)
        BY <1>3, <1>5, <4>1 DEF Fresh
      <4>. QED  BY <2>1, <4>1, <4>2 DEF CallOf
    <3>. QED  BY <3>1, <3>2
  <2>. QED  BY <1>3, <1>5, <2>2, <2>3, <2>4 DEF CallOf
<1>8. CacheFunctions' /\ CacheBatchInv'
  <2>1. /\ phase' = [x \in Engines |-> phase'[x]] /\ batch' = [x \in Engines |-> batch'[x]]
        /\ plan' = [x \in Engines |-> plan'[x]]
    BY DEF CacheIInv, CacheFunctions
  <2>. QED  BY <1>1, <1>6, <1>7, <2>1, OneMoves
<1>9. CacheEntries' /\ CacheOrder' /\ StaleOnlyByMiss'
  <2>1. phase'[e] # "apply" /\ \A j \in DOMAIN result[e] : j \in DOMAIN result'[e]
    BY <1>3, <1>4, <1>5
  <2>. QED  BY <1>1, <2>1, CacheStays
<1>. QED  BY <1>8, <1>9 DEF CacheIInv

\* A read ends with what it has read.
LEMMA RunReadIs ==
    ASSUME CacheIInv, NEW e \in Engines, NEW i \in DOMAIN plan[e], RunRead(e, i)
    PROVE  CacheIInv'
<1>. DEFINE D == Reads(batch[e][i])
            v == [how |-> "read", data |-> [d \in D |-> world[d]], missed |-> FALSE]
<1>1. /\ world \in [Files -> 0..MaxVersion] /\ CachedCalls \subseteq AllCalls
      /\ File \in [Paths -> Files]
  BY DEF CacheIInv, CacheFunctions, CacheConstants
<1>2. batch[e][i] \in CachedCalls
  <2>1. BatchOf(e)
    BY DEF CacheIInv, CacheBatchInv
  <2>2. PICK p \in Seq(Nat), b \in Seq(CachedCalls) : p = plan[e] /\ b = batch[e] /\ Len(p) <= Len(b)
    BY <2>1 DEF BatchOf
  <2>. QED  BY <2>2
<1>3. D \subseteq Files
  <2>1. PICK c \in AllCalls : c = batch[e][i]
    BY <1>1, <1>2
  <2>2. CASE c.tool = "read_file"
    <3>1. c.arg \in Paths
      BY <2>2 DEF AllCalls
    <3>. QED  BY <1>1, <2>1, <2>2, <3>1 DEF Reads
  <2>3. CASE c.tool # "read_file"
    BY <2>1, <2>3 DEF Reads
  <2>. QED  BY <2>2, <2>3
<1>4. [d \in D |-> world[d]] \in [D -> 0..MaxVersion]
  BY <1>1, <1>3
<1>5. [d \in D |-> world[d]] \in UNION {[X -> 0..MaxVersion] : X \in SUBSET Files}
  BY <1>3, <1>4
<1>6. v \in Value
  BY <1>5 DEF Value
<1>7. v.how = "read" /\ DOMAIN v.data = D /\ Fresh(v)
  BY DEF Fresh
<1>8. /\ Waiting(e, i) /\ Cacheable(batch[e][i]) /\ result' = [result EXCEPT ![e][i] = v]
      /\ UNCHANGED <<world, cached, order, phase, batch, plan, at>>
  BY DEF RunRead, cacheVars
<1>. HIDE DEF v
<1>. QED  BY <1>6, <1>7, <1>8, EndsIs

\* A call fails.
LEMMA RunFailsIs ==
    ASSUME CacheIInv, NEW e \in Engines, NEW i \in DOMAIN plan[e], RunFails(e, i)
    PROVE  CacheIInv'
<1>1. PICK v \in Value : v = Ended("failed") /\ v.how = "failed"
  BY EndedIs
<1>2. /\ Waiting(e, i) /\ result' = [result EXCEPT ![e][i] = v]
      /\ UNCHANGED <<world, cached, order, phase, batch, plan, at>>
  BY <1>1 DEF RunFails, cacheVars
<1>. QED  BY <1>1, <1>2, EndsIs
-----------------------------------------------------------------------------
\* What has been read stays what it was, and says so if a change has missed it.
LEMMA MissedIs ==
    ASSUME NEW v \in Value, NEW D, world' = [d \in Files |-> IF d \in D THEN world[d] + 1 ELSE world[d]]
    PROVE  /\ Missed(v, D) \in Value
           /\ Missed(v, D).how = v.how /\ Missed(v, D).data = v.data
           /\ Fresh(v) \/ v.missed =>
                 (\A d \in DOMAIN v.data : v.data[d] = world'[d]) \/ Missed(v, D).missed
<1>1. /\ v.how \in {"none", "read", "changed", "failed"}
      /\ v.data \in UNION {[Y -> 0..MaxVersion] : Y \in SUBSET Files}
  BY DEF Value
<1>2. PICK X \in SUBSET Files : v.data \in [X -> 0..MaxVersion]
  BY <1>1
<1>3. PICK was \in BOOLEAN : was = v.missed
  <2>1. v.missed \in BOOLEAN
    BY Zenon DEF Value
  <2>. QED  BY <2>1
<1>4. PICK now \in BOOLEAN : now <=> was \/ X \cap D # {}
  OBVIOUS
<1>5. Missed(v, D) = [how |-> v.how, data |-> v.data, missed |-> now]
  <2>1. DOMAIN v.data = X
    BY <1>2
  <2>2. (v.missed \/ DOMAIN v.data \cap D # {}) = now
    BY <1>3, <1>4, <2>1
  <2>. QED  BY <2>2, Zenon DEF Missed
<1>6. Missed(v, D) \in Value
  BY <1>1, <1>5 DEF Value
<1>7. ASSUME Fresh(v), ~now, NEW d \in X PROVE v.data[d] = world'[d]
  BY <1>2, <1>4, <1>7 DEF Fresh
<1>. QED  BY <1>2, <1>3, <1>4, <1>5, <1>6, <1>7

\* A call changes data: what outdates entries is then due, or has been told.
LEMMA RunChangeIs ==
    ASSUME CacheIInv, NEW e \in Engines, NEW i \in DOMAIN plan[e], NEW D \in SUBSET Files, RunChange(e, i, D)
    PROVE  CacheIInv'
<1>1. /\ DOMAIN phase = Engines /\ DOMAIN plan = Engines /\ DOMAIN result = Engines /\ DOMAIN at = Engines
      /\ DOMAIN batch = Engines /\ world \in [Files -> 0..MaxVersion] /\ CacheConstants
  BY DEF CacheIInv, CacheFunctions
<1>2. /\ Waiting(e, i) /\ D \in Changes(batch[e][i])
      /\ \A d \in D : world[d] < MaxVersion
      /\ world' = [d \in Files |-> IF d \in D THEN world[d] + 1 ELSE world[d]]
      /\ order' = order /\ phase' = phase /\ batch' = batch /\ plan' = plan /\ at' = at
  BY DEF RunChange
<1>3. CacheFunctions'
  <2>1. MaxVersion \in Nat
    BY <1>1 DEF CacheConstants
  <2>2. world' \in [Files -> 0..MaxVersion]
    BY <1>1, <1>2, <2>1
  <2>3. DOMAIN result' = Engines
    BY DEF RunChange
  <2>4. /\ phase' = [x \in Engines |-> phase'[x]] /\ batch' = [x \in Engines |-> batch'[x]]
        /\ plan' = [x \in Engines |-> plan'[x]]
    BY <1>2 DEF CacheIInv, CacheFunctions
  <2>. QED  BY <1>1, <1>2, <2>2, <2>3, <2>4 DEF CacheFunctions
<1>4. Value' = Value
  BY DEF Value
<1>5. ASSUME NEW x \in Engines
      PROVE  /\ BatchOf(x)' /\ (\A j \in DOMAIN plan'[x] : CallOf(x, j)') /\ DOMAIN result'[x] = DOMAIN result[x]
  <2>1. BatchOf(x) /\ \A j \in DOMAIN plan[x] : CallOf(x, j)
    BY DEF CacheIInv, CacheBatchInv
  <2>2. PICK n \in Nat, p \in Seq(Nat), r \in Seq(Value), b \in Seq(CachedCalls) :
           /\ p = plan[x] /\ r = result[x] /\ b = batch[x] /\ Len(p) = n /\ Len(r) = n
           /\ DOMAIN p = 1..n /\ DOMAIN r = 1..n
    <3>1. plan[x] \in Seq(Nat) /\ result[x] \in Seq(Value) /\ batch[x] \in Seq(CachedCalls)
      BY <2>1 DEF BatchOf
    <3>2. Len(plan[x]) \in Nat /\ Len(result[x]) = Len(plan[x])
      BY <2>1, <3>1 DEF BatchOf
    <3>. QED  BY <3>1, <3>2
  <2>3. PICK s : s = result'[x] /\ s = [j \in 1..n |->
            IF x = e /\ j = i THEN Ended("changed")
            ELSE IF phase[x] # "idle" /\ j \in DOMAIN plan[x] /\ Pending(x, j)
                 THEN Missed(r[j], D) ELSE r[j]]
    BY <2>2 DEF RunChange
  <2>4. phase[x] = "idle" => n = 0
    BY <2>1, <2>2 DEF BatchOf
  <2>5. ASSUME NEW j \in 1..n
        PROVE  /\ s[j] \in Value
               /\ s[j].how = "read" => r[j].how = "read" /\ s[j].data = r[j].data
               /\ r[j].how = "read" => s[j].how = "read"
               /\ s[j].how = "read" /\ Pending(x, j) =>
                     (\A d \in DOMAIN s[j].data : s[j].data[d] = world'[d]) \/ s[j].missed
    <3>1. r[j] \in Value /\ CallOf(x, j)
      BY <2>1, <2>2
    <3>2. CASE x = e /\ j = i
      <4>1. s[j] = Ended("changed") /\ r[j].how = "none"
        BY <1>2, <2>2, <2>3, <3>2 DEF Waiting
      <4>. QED  BY <4>1, EndedIs
    <3>3. CASE ~(x = e /\ j = i) /\ Pending(x, j)
      <4>1. s[j] = Missed(r[j], D)
        BY <2>2, <2>3, <2>4, <3>3
      <4>2. Fresh(r[j]) \/ r[j].missed
        BY <2>2, <3>1, <3>3 DEF CallOf
      <4>3. PICK v \in Value : v = r[j]
        BY <3>1
      <4>4. /\ Missed(v, D) \in Value
            /\ Missed(v, D).how = v.how /\ Missed(v, D).data = v.data
            /\ (\A d \in DOMAIN v.data : v.data[d] = world'[d]) \/ Missed(v, D).missed
        BY <1>2, <4>2, <4>3, MissedIs
      <4>. QED  BY <4>1, <4>3, <4>4
    <3>4. CASE ~(x = e /\ j = i) /\ ~Pending(x, j)
      BY <2>3, <3>1, <3>4
    <3>. QED  BY <3>2, <3>3, <3>4
  <2>6. s \in Seq(Value) /\ Len(s) = n /\ DOMAIN s = 1..n
    <3>1. DOMAIN s = 1..n /\ \A j \in 1..n : s[j] \in Value
      BY <2>3, <2>5
    <3>2. s = [j \in 1..n |-> s[j]]
      BY <2>3
    <3>3. s \in [1..n -> Value]
      BY <3>1, <3>2
    <3>. QED  BY <3>3
  <2>7. BatchOf(x)'
    BY <1>2, <1>4, <2>1, <2>2, <2>3, <2>6 DEF BatchOf
  <2>8. ASSUME NEW j \in DOMAIN plan'[x] PROVE CallOf(x, j)'
    <3>1. j \in 1..n /\ CallOf(x, j)
      BY <1>2, <2>1, <2>2
    <3>2. \/ p[j] = j
          \/ p[j] = 0 /\ s[j].how = "read"
          \/ p[j] \in 1..j - 1 /\ p[p[j]] = p[j] /\ b[p[j]] = b[j] /\ Cacheable(b[j])
      BY <2>2, <2>5, <3>1 DEF CallOf
    <3>3. p[j] = j /\ s[j].how = "read" => Cacheable(b[j]) /\ DOMAIN s[j].data = Reads(b[j])
      BY <2>2, <2>5, <3>1 DEF CallOf
    <3>4. Pending(x, j)' => (Fresh(result[x][j]) \/ result[x][j].missed)'
      <4>1. Pending(x, j)' => s[j].how = "read" /\ Pending(x, j)
        BY <1>2, <2>2, <2>3, <2>5, <3>1 DEF Pending
      <4>2. Fresh(result[x][j])' <=> \A d \in DOMAIN s[j].data : s[j].data[d] = world'[d]
        BY <2>3 DEF Fresh
      <4>. QED  BY <2>3, <2>5, <3>1, <4>1, <4>2
    <3>. QED  BY <1>2, <2>2, <2>3, <3>1, <3>2, <3>3, <3>4 DEF CallOf
  <2>. QED  BY <2>2, <2>3, <2>6, <2>7, <2>8
<1>6. CacheBatchInv'
  BY <1>5 DEF CacheBatchInv
<1>7. ASSUME NEW k \in DOMAIN cached
      PROVE  /\ k \in DOMAIN cached' /\ cached'[k] \in Value
             /\ cached'[k].how = cached[k].how /\ cached'[k].data = cached[k].data
             /\ Fresh(cached[k]) \/ cached[k].missed =>
                   \/ \A d \in DOMAIN cached[k].data : cached[k].data[d] = world'[d]
                   \/ cached'[k].missed
                   \/ ~Unnoticed(batch[e][i], k) /\ DOMAIN cached[k].data \cap D # {}
  <2>1. PICK v \in Value : v = cached[k]
    BY DEF CacheIInv, CacheEntries
  <2>2. CASE Unnoticed(batch[e][i], k)
    <3>1. cached'[k] = Missed(v, D) /\ k \in DOMAIN cached'
      BY <2>1, <2>2 DEF RunChange
    <3>. QED  BY <1>2, <2>1, <3>1, MissedIs
  <2>3. CASE ~Unnoticed(batch[e][i], k)
    <3>1. cached'[k] = v /\ k \in DOMAIN cached'
      BY <2>1, <2>3 DEF RunChange
    <3>2. DOMAIN v.data \subseteq Files
      BY DEF Value
    <3>3. Fresh(v) /\ DOMAIN v.data \cap D = {} => \A d \in DOMAIN v.data : v.data[d] = world'[d]
      BY <1>2, <3>2 DEF Fresh
    <3>. QED  BY <2>1, <2>3, <3>1, <3>3
  <2>. QED  BY <2>2, <2>3
<1>8. DOMAIN cached' = DOMAIN cached /\ cached' = [k \in DOMAIN cached' |-> cached'[k]]
  BY DEF RunChange, CacheIInv, CacheEntries
<1>9. CacheEntries' /\ CacheOrder'
  <2>1. CacheEntries'
    <3>1. cached' \in [DOMAIN cached' -> Value]
      BY <1>7, <1>8
    <3>. QED  BY <1>4, <1>7, <1>8, <3>1 DEF CacheIInv, CacheEntries, Reads
  <2>2. CacheOrder'
    BY <1>2, <1>8 DEF CacheIInv, CacheOrder
  <2>. QED  BY <2>1, <2>2
<1>10. ASSUME NEW k \in DOMAIN cached, RemovalDue(k) PROVE RemovalDue(k)'
  <2>1. PICK x \in Engines : \E j \in DOMAIN result[x] :
            /\ phase[x] # "apply" \/ j >= at[x]
            /\ plan[x][j] = j /\ ~Cacheable(batch[x][j]) /\ Outdates(batch[x][j], k)
    BY <1>10 DEF RemovalDue
  <2>. QED  BY <1>2, <1>5, <2>1, DueIs
<1>11. ASSUME NEW k \in DOMAIN cached, ~Unnoticed(batch[e][i], k), DOMAIN cached[k].data \cap D # {}
       PROVE  RemovalDue(k)'
  <2>1. BatchOf(e)
    BY DEF CacheIInv, CacheBatchInv
  <2>2. PICK p \in Seq(Nat), b \in Seq(CachedCalls), r \in Seq(Value) :
           p = plan[e] /\ b = batch[e] /\ r = result[e] /\ Len(p) <= Len(b) /\ Len(r) = Len(p)
    BY <2>1 DEF BatchOf
  <2>3. PICK c \in CachedCalls : c = batch[e][i] /\ i \in DOMAIN result[e]
    BY <2>2
  <2>4. c \in AllCalls /\ k \in AllCalls
    BY <1>1 DEF CacheConstants, CacheIInv, CacheEntries
  <2>5. Cacheable(k) /\ DOMAIN cached[k].data = Reads(k)
    BY DEF CacheIInv, CacheEntries
  <2>6. D \in Changes(c) /\ D # {}
    BY <1>2, <1>11, <2>3
  <2>7. c.tool = "write_file" \/ c.tool = "run_command"
    BY <1>11, <2>3, <2>4, <2>6 DEF Changes, AllCalls, Unnoticed
  <2>8. Outdates(c, k) /\ ~Cacheable(c)
    <3>1. CASE c.tool = "run_command"
      BY <3>1 DEF Outdates, Cacheable
    <3>2. CASE c.tool = "write_file"
      <4>1. CASE k.tool = "search_text"
        BY <3>2, <4>1 DEF Outdates, Cacheable
      <4>2. CASE k.tool = "read_file"
        <5>1. k.arg = c.arg
          BY <1>11, <2>3, <3>2, <4>2 DEF Unnoticed
        <5>2. k = [tool |-> "read_file", arg |-> c.arg]
          BY <2>4, <4>2, <5>1 DEF AllCalls
        <5>. QED  BY <3>2, <5>2 DEF Outdates, Cacheable
      <4>. QED  BY <2>5, <4>1, <4>2 DEF Cacheable
    <3>. QED  BY <2>7, <3>1, <3>2
  <2>9. phase[e] # "apply" /\ plan[e][i] = i
    BY <1>2 DEF Waiting
  <2>. QED  BY <1>2, <1>5, <2>3, <2>8, <2>9, DueIs
<1>12. StaleOnlyByMiss'
  <2>1. ASSUME NEW k \in DOMAIN cached'
        PROVE  (Fresh(cached[k]) \/ cached[k].missed \/ RemovalDue(k))'
    <3>1. k \in DOMAIN cached /\ (Fresh(cached[k]) \/ cached[k].missed \/ RemovalDue(k))
      BY <1>8 DEF CacheIInv, StaleOnlyByMiss
    <3>2. Fresh(cached[k])' <=> \A d \in DOMAIN cached[k].data : cached[k].data[d] = world'[d]
      BY <1>7, <3>1 DEF Fresh
    <3>. QED  BY <1>7, <1>10, <1>11, <3>1, <3>2
  <2>. QED  BY <2>1 DEF StaleOnlyByMiss
<1>. QED  BY <1>1, <1>3, <1>6, <1>9, <1>12 DEF CacheIInv
-----------------------------------------------------------------------------
\* A sequence without duplicates is as long as the set of its elements is large.
LEMMA SizeIs ==
    ASSUME NEW s \in Seq(CachedCalls), IsInjective(s)
    PROVE  Cardinality(ToSet(s)) = Len(s)
<1>1. PICK n \in Nat : n = Len(s) /\ DOMAIN s = 1..n
  OBVIOUS
<1>2. ToSet(s) = {s[i] : i \in 1..n}
  BY <1>1 DEF ToSet
<1>3. s \in [1..n -> ToSet(s)] /\ \A x \in ToSet(s) : \E i \in 1..n : s[i] = x
  BY <1>1, <1>2
<1>4. s \in Bijection(1..n, ToSet(s))
  BY <1>1, <1>3 DEF Bijection, Injection, Surjection, IsInjective, IsInjective
<1>5. ExistsBijection(1..n, ToSet(s))
  BY <1>4 DEF ExistsBijection
<1>. QED  BY <1>1, <1>5, FS_CountingElements

\* Evicting the oldest.
LEMMA TailIs ==
    ASSUME NEW s \in Seq(CachedCalls), IsInjective(s), s # <<>>
    PROVE  /\ Tail(s) \in Seq(CachedCalls) /\ IsInjective(Tail(s)) /\ Len(Tail(s)) = Len(s) - 1
           /\ ToSet(Tail(s)) = ToSet(s) \ {Head(s)} /\ Head(s) \in ToSet(s)
<1>1. PICK n \in Nat : n + 1 = Len(s) /\ DOMAIN s = 1..n + 1 /\ Head(s) = s[1]
  <2>1. Len(s) \in Nat /\ Len(s) # 0 /\ DOMAIN s = 1..Len(s) /\ Head(s) = s[1]
    OBVIOUS
  <2>2. Len(s) - 1 \in Nat /\ (Len(s) - 1) + 1 = Len(s)
    BY <2>1
  <2>. QED  BY <2>1, <2>2
<1>2. PICK t \in Seq(CachedCalls) : /\ t = Tail(s) /\ Len(t) = n /\ DOMAIN t = 1..n
                                    /\ \A i \in 1..n : t[i] = s[i + 1]
  <2>1. Tail(s) \in Seq(CachedCalls) /\ Len(Tail(s)) = n /\ DOMAIN Tail(s) = 1..n
    BY <1>1
  <2>2. \A i \in 1..n : Tail(s)[i] = s[i + 1]
    BY <1>1
  <2>. QED  BY <2>1, <2>2
<1>3. IsInjective(t)
  BY <1>1, <1>2 DEF IsInjective
<1>4. ToSet(t) = ToSet(s) \ {s[1]}
  <2>1. ASSUME NEW x \in ToSet(t) PROVE x \in ToSet(s) \ {s[1]}
    <3>1. PICK i \in 1..n : x = s[i + 1]
      BY <1>2, <2>1 DEF ToSet
    <3>. QED  BY <1>1, <3>1 DEF ToSet, IsInjective
  <2>2. ASSUME NEW x \in ToSet(s) \ {s[1]} PROVE x \in ToSet(t)
    <3>1. PICK i \in 1..n + 1 : x = s[i] /\ i # 1
      BY <1>1, <2>2 DEF ToSet
    <3>2. i - 1 \in 1..n /\ t[i - 1] = x
      BY <1>2, <3>1
    <3>. QED  BY <1>2, <3>2 DEF ToSet
  <2>. QED  BY <2>1, <2>2
<1>5. Head(s) \in ToSet(s)
  BY <1>1 DEF ToSet
<1>6. Len(t) = Len(s) - 1
  BY <1>1, <1>2
<1>. QED  BY <1>1, <1>2, <1>3, <1>4, <1>5, <1>6

\* Adding the newest.
LEMMA AppendIs ==
    ASSUME NEW s \in Seq(CachedCalls), IsInjective(s), NEW k \in CachedCalls, k \notin ToSet(s)
    PROVE  /\ Append(s, k) \in Seq(CachedCalls) /\ IsInjective(Append(s, k)) /\ Len(Append(s, k)) = Len(s) + 1
           /\ ToSet(Append(s, k)) = ToSet(s) \cup {k}
<1>1. PICK n \in Nat, a \in Seq(CachedCalls) :
         /\ n = Len(s) /\ DOMAIN s = 1..n /\ a = Append(s, k) /\ Len(a) = n + 1 /\ DOMAIN a = 1..n + 1
         /\ (\A i \in 1..n : a[i] = s[i]) /\ a[n + 1] = k
  <2>1. Append(s, k) \in Seq(CachedCalls) /\ Len(s) \in Nat /\ DOMAIN s = 1..Len(s)
    OBVIOUS
  <2>2. /\ Len(Append(s, k)) = Len(s) + 1 /\ DOMAIN Append(s, k) = 1..Len(s) + 1
        /\ (\A i \in 1..Len(s) : Append(s, k)[i] = s[i]) /\ Append(s, k)[Len(s) + 1] = k
    OBVIOUS
  <2>. QED  BY <2>1, <2>2
<1>2. \A i \in 1..n : s[i] # k
  BY <1>1 DEF ToSet
<1>3. IsInjective(a)
  BY <1>1, <1>2 DEF IsInjective
<1>4. ToSet(a) = ToSet(s) \cup {k}
  BY <1>1 DEF ToSet
<1>. QED  BY <1>1, <1>3, <1>4

\* Removing the entries that a side effect outdates.
LEMMA InvalidateIs ==
    ASSUME CacheIInv, NEW c, Invalidate(c)
    PROVE  /\ CacheEntries' /\ CacheOrder'
           /\ \A x \in DOMAIN cached' : x \in DOMAIN cached /\ cached'[x] = cached[x] /\ ~Outdates(c, x)
<1>1. PICK keys \in SUBSET DOMAIN cached :
         /\ \A x \in DOMAIN cached : x \in keys <=> Outdates(c, x)
         /\ cached' = [x \in DOMAIN cached \ keys |-> cached[x]] /\ order' = RemoveFromOrder(keys)
  <2>. DEFINE ks == {x \in DOMAIN cached : Outdates(c, x)}
  <2>1. cached' = [x \in DOMAIN cached \ ks |-> cached[x]] /\ order' = RemoveFromOrder(ks)
    BY DEF Invalidate, Without
  <2>. QED  BY <2>1
<1>2. MaxEntries \in Nat
  BY DEF CacheIInv, CacheConstants
<1>3. CacheEntries'
  <2>1. cached' \in [DOMAIN cached' -> Value] /\ DOMAIN cached' \subseteq DOMAIN cached
    BY <1>1 DEF CacheIInv, CacheEntries
  <2>2. Value' = Value
    BY DEF Value
  <2>. QED  BY <1>1, <2>1, <2>2 DEF CacheIInv, CacheEntries, Reads
<1>4. CacheOrder'
  <2>1. order \in Seq(CachedCalls) /\ IsInjective(order)
    BY DEF CacheIInv, CacheOrder
  <2>2. PICK q \in Seq(CachedCalls) :
           /\ q = order' /\ IsInjective(q) /\ ToSet(q) = ToSet(order) \ keys /\ Len(q) <= Len(order)
    BY <1>1, <2>1, RemoveIs
  <2>3. ToSet(q) = DOMAIN cached'
    BY <1>1, <2>2 DEF CacheIInv, CacheOrder
  <2>4. Len(q) <= MaxEntries
    BY <1>2, <2>1, <2>2 DEF CacheIInv, CacheOrder
  <2>5. IsInjective(order)' /\ ToSet(order)' = ToSet(q)
    BY <2>2 DEF IsInjective, ToSet
  <2>. QED  BY <2>2, <2>3, <2>4, <2>5 DEF CacheOrder
<1>. QED  BY <1>1, <1>3, <1>4

\* Storing a result, which makes room first.
LEMMA StoreIs ==
    ASSUME CacheIInv, NEW k \in CachedCalls, NEW v \in Value, Store(k, v),
           Cacheable(k), v.how = "read", DOMAIN v.data = Reads(k)
    PROVE  /\ CacheEntries' /\ CacheOrder'
           /\ k \in DOMAIN cached' /\ cached'[k] = v
           /\ \A x \in DOMAIN cached' \ {k} : x \in DOMAIN cached /\ cached'[x] = cached[x]
<1>1. MaxEntries \in Nat \ {0}
  BY DEF CacheIInv, CacheConstants
<1>2. PICK q \in Seq(CachedCalls) : q = RemoveFromOrder({k})
  <2>1. PICK keys : keys = {k}
    OBVIOUS
  <2>2. RemoveFromOrder(keys) \in Seq(CachedCalls)
    BY RemoveIs DEF CacheIInv, CacheOrder
  <2>. QED  BY <2>1, <2>2
<1>3. IsInjective(q) /\ ToSet(q) = DOMAIN cached \ {k} /\ Len(q) <= MaxEntries
  <2>1. order \in Seq(CachedCalls) /\ IsInjective(order) /\ Len(order) <= MaxEntries /\ ToSet(order) = DOMAIN cached
    BY DEF CacheIInv, CacheOrder
  <2>2. PICK keys : keys = {k}
    OBVIOUS
  <2>3. PICK r \in Seq(CachedCalls) :
         /\ r = RemoveFromOrder(keys) /\ IsInjective(r)
         /\ ToSet(r) = ToSet(order) \ keys /\ Len(r) <= Len(order)
    BY <2>1, RemoveIs
  <2>4. q = r
    BY <1>2, <2>2, <2>3, Zenon
  <2>5. Len(q) \in Nat /\ Len(order) \in Nat
    BY <2>1
  <2>6. Len(q) <= MaxEntries
    BY <1>1, <2>1, <2>3, <2>4, <2>5
  <2>. QED  BY <2>1, <2>2, <2>3, <2>4, <2>6
<1>4. Cardinality(DOMAIN cached \ {k}) = Len(q) /\ Len(q) \in Nat
  <2>1. Cardinality(ToSet(q)) = Len(q) /\ Len(q) \in Nat
    BY <1>2, <1>3, SizeIs
  <2>. QED  BY <1>3, <2>1, Zenon
<1>5. PICK s \in Seq(CachedCalls), gone \in SUBSET CachedCalls :
         /\ IsInjective(s) /\ Len(s) < MaxEntries /\ ToSet(s) = DOMAIN cached \ gone /\ k \in gone
         /\ cached' = [x \in (DOMAIN cached \ gone) \cup {k} |-> IF x = k THEN v ELSE cached[x]]
         /\ order' = Append(s, k)
  <2>2. PICK outs : outs = IF Cardinality(DOMAIN cached \ {k}) >= MaxEntries
                           THEN {k, Head(RemoveFromOrder({k}))} ELSE {k}
    OBVIOUS
  <2>3. PICK rest : rest = IF Cardinality(DOMAIN cached \ {k}) >= MaxEntries
                     THEN Tail(RemoveFromOrder({k})) ELSE RemoveFromOrder({k})
    OBVIOUS
  <2>4. /\ cached' = [x \in (DOMAIN cached \ outs) \cup {k} |-> IF x = k THEN v ELSE cached[x]]
        /\ order' = Append(rest, k)
    BY <2>2, <2>3, Zenon DEF Store
  <2>5. CASE Len(q) >= MaxEntries
    <3>1. PICK h : h = Head(q)
      OBVIOUS
    <3>2. outs = {k, h} /\ rest = Tail(q)
      BY <1>2, <1>4, <2>2, <2>3, <2>5, <3>1
    <3>3. q # <<>>
      BY <1>1, <2>5
    <3>4. /\ rest \in Seq(CachedCalls) /\ IsInjective(rest) /\ Len(rest) = Len(q) - 1
          /\ ToSet(rest) = ToSet(q) \ {h} /\ h \in ToSet(q)
      BY <1>3, <3>1, <3>2, <3>3, TailIs
    <3>5. DOMAIN cached \subseteq CachedCalls
      BY DEF CacheIInv, CacheEntries
    <3>6. outs \subseteq CachedCalls /\ ToSet(rest) = DOMAIN cached \ outs
      BY <1>3, <3>2, <3>4, <3>5
    <3>7. Len(rest) < MaxEntries
      BY <1>1, <1>3, <1>4, <3>4
    <3>. QED  BY <2>4, <3>2, <3>4, <3>6, <3>7
  <2>6. CASE ~(Len(q) >= MaxEntries)
    <3>1. outs = {k} /\ rest = q
      BY <1>2, <1>4, <2>2, <2>3, <2>6
    <3>2. Len(q) < MaxEntries
      BY <1>1, <1>4, <2>6
    <3>. QED  BY <1>3, <2>4, <3>1, <3>2
  <2>. QED  BY <2>5, <2>6
<1>6. k \notin ToSet(s)
  BY <1>5
<1>7. PICK a \in Seq(CachedCalls) :
         /\ a = order' /\ IsInjective(a) /\ Len(a) = Len(s) + 1 /\ ToSet(a) = ToSet(s) \cup {k}
  BY <1>5, <1>6, AppendIs
<1>8. DOMAIN cached' = (DOMAIN cached \ gone) \cup {k}
  BY <1>5
<1>9. CacheOrder'
  <2>1. ToSet(a) = DOMAIN cached'
    BY <1>5, <1>7, <1>8
  <2>2. Len(a) <= MaxEntries
    BY <1>1, <1>5, <1>7
  <2>3. IsInjective(order)' /\ ToSet(order)' = ToSet(a)
    BY <1>7 DEF IsInjective, ToSet
  <2>. QED  BY <1>7, <2>1, <2>2, <2>3 DEF CacheOrder
<1>10. k \in DOMAIN cached' /\ cached'[k] = v /\ \A x \in DOMAIN cached' \ {k} : x \in DOMAIN cached /\ cached'[x] = cached[x]
  BY <1>5, <1>8
<1>11. CacheEntries'
  <2>1. \A x \in DOMAIN cached : cached[x] \in Value
    BY DEF CacheIInv, CacheEntries
  <2>2. \A x \in DOMAIN cached' : cached'[x] \in Value
    BY <1>10, <2>1
  <2>3. cached' \in [DOMAIN cached' -> Value]
    BY <1>5, <2>2
  <2>4. Value' = Value /\ DOMAIN cached' \subseteq CachedCalls
    BY <1>8 DEF Value, CacheIInv, CacheEntries
  <2>5. \A x \in DOMAIN cached' : Cacheable(x) /\ cached'[x].how = "read" /\ DOMAIN cached'[x].data = Reads(x)
    BY <1>10 DEF CacheIInv, CacheEntries
  <2>. QED  BY <2>3, <2>4, <2>5 DEF CacheEntries, Reads, Cacheable
<1>. QED  BY <1>9, <1>10, <1>11
\* Where an engine is after the result it applies.
LEMMA AppliesIs ==
    ASSUME CacheIInv, NEW e \in Engines, Apply(e)
    PROVE  /\ CacheFunctions' /\ CacheBatchInv'
           /\ at[e] \in DOMAIN result[e] /\ at[e] \in DOMAIN batch[e]
           /\ \A j \in DOMAIN result[e] : j > at[e] =>
                 /\ j \in DOMAIN result'[e] /\ j >= at'[e]
                 /\ plan'[e][j] = plan[e][j] /\ batch'[e][j] = batch[e][j]
<1>1. /\ DOMAIN phase = Engines /\ DOMAIN plan = Engines /\ DOMAIN result = Engines /\ DOMAIN at = Engines
      /\ DOMAIN batch = Engines
  BY DEF CacheIInv, CacheFunctions
<1>2. phase[e] \in {"run", "apply"} /\ world' = world
  BY DEF Apply
<1>3. BatchOf(e) /\ \A i \in DOMAIN plan[e] : CallOf(e, i)
  BY DEF CacheIInv, CacheBatchInv
<1>4. PICK n \in Nat, p \in Seq(Nat), r \in Seq(Value), b \in Seq(CachedCalls), a \in Nat :
         /\ a \in 1..n /\ p = plan[e] /\ r = result[e] /\ b = batch[e] /\ Len(p) = n /\ Len(r) = n /\ Len(b) = n /\ a = at[e]
         /\ DOMAIN p = 1..n /\ DOMAIN r = 1..n /\ DOMAIN b = 1..n
  <2>1. plan[e] \in Seq(Nat) /\ result[e] \in Seq(Value) /\ batch[e] \in Seq(CachedCalls)
    BY <1>3 DEF BatchOf
  <2>2. Len(plan[e]) \in Nat /\ Len(result[e]) = Len(plan[e]) /\ Len(batch[e]) = Len(plan[e])
    BY <1>2, <1>3, <2>1 DEF BatchOf
  <2>3. at[e] \in 1..Len(plan[e])
    BY <1>2, <1>3, <2>2 DEF BatchOf
  <2>. QED  BY <2>1, <2>2, <2>3
<1>5. CASE a < n
  <2>1. /\ phase' = [phase EXCEPT ![e] = "apply"] /\ at' = [at EXCEPT ![e] = @ + 1]
        /\ batch' = batch /\ plan' = plan /\ result' = result
    BY <1>4, <1>5 DEF Apply, More
  <2>2. phase'[e] = "apply" /\ at'[e] = a + 1
    BY <1>1, <1>4, <2>1
  <2>3. BatchOf(e)'
    <3>1. Value' = Value
      BY DEF Value
    <3>. QED  BY <1>3, <1>4, <1>5, <2>1, <2>2, <3>1 DEF BatchOf
  <2>4. ASSUME NEW i \in DOMAIN plan'[e] PROVE CallOf(e, i)'
    <3>1. CallOf(e, i) /\ i \in 1..n
      BY <1>3, <1>4, <2>1
    <3>2. Pending(e, i)' => Pending(e, i)
      BY <1>2, <1>3, <1>4, <2>1, <2>2, <3>1 DEF Pending, BatchOf
    <3>3. (Fresh(result[e][i]) \/ result[e][i].missed)' <=> (Fresh(result[e][i]) \/ result[e][i].missed)
      BY <1>2, <2>1 DEF Fresh
    <3>. QED  BY <2>1, <3>1, <3>2, <3>3 DEF CallOf
  <2>5. CacheFunctions' /\ CacheBatchInv'
    <3>1. /\ phase' = [x \in Engines |-> phase'[x]] /\ batch' = [x \in Engines |-> batch'[x]]
          /\ plan' = [x \in Engines |-> plan'[x]]
      BY <2>1 DEF CacheIInv, CacheFunctions
    <3>. QED  BY <1>1, <1>2, <2>1, <2>3, <2>4, <3>1, OneMoves
  <2>. QED  BY <1>4, <2>1, <2>2, <2>5
<1>6. CASE ~(a < n)
  <2>1. /\ phase' = [phase EXCEPT ![e] = "idle"] /\ at' = [at EXCEPT ![e] = 1]
        /\ batch' = [batch EXCEPT ![e] = <<>>] /\ plan' = [plan EXCEPT ![e] = <<>>]
        /\ result' = [result EXCEPT ![e] = <<>>]
    BY <1>4, <1>6 DEF Apply, More
  <2>2. phase'[e] = "idle" /\ at'[e] = 1 /\ batch'[e] = <<>> /\ plan'[e] = <<>> /\ result'[e] = <<>>
    BY <1>1, <2>1
  <2>3. BatchOf(e)'
    <3>1. MaxBatch[e] \in Nat
      BY DEF CacheIInv, CacheConstants
    <3>2. <<>> \in Seq(Nat) /\ <<>> \in Seq(CachedCalls) /\ <<>> \in Seq(Value') /\ Len(<<>>) = 0
      OBVIOUS
    <3>. QED  BY <2>2, <3>1, <3>2 DEF BatchOf
  <2>4. CacheFunctions' /\ CacheBatchInv'
    <3>1. phase' = [x \in Engines |-> phase'[x]]
      BY <1>1, <2>1
    <3>2. batch' = [x \in Engines |-> batch'[x]]
      BY <1>1, <2>1
    <3>3. plan' = [x \in Engines |-> plan'[x]]
      BY <1>1, <2>1
    <3>4. \A x \in Engines \ {e} : /\ phase'[x] = phase[x] /\ batch'[x] = batch[x] /\ plan'[x] = plan[x]
                                   /\ result'[x] = result[x] /\ at'[x] = at[x]
      BY <1>1, <2>1
    <3>5. /\ DOMAIN phase' = Engines /\ DOMAIN batch' = Engines /\ DOMAIN plan' = Engines
          /\ DOMAIN result' = Engines /\ DOMAIN at' = Engines
      BY <1>1, <2>1
    <3>6. \A i \in DOMAIN plan'[e] : CallOf(e, i)'
      BY <2>2
    <3>. QED  BY <1>2, <2>3, <3>1, <3>2, <3>3, <3>4, <3>5, <3>6, OneMoves
  <2>5. \A j \in DOMAIN result[e] : ~(j > at[e])
    BY <1>4, <1>6
  <2>. QED  BY <1>4, <2>4, <2>5
<1>. QED  BY <1>5, <1>6

\* A result is stored, or removes what it outdates, or neither.
LEMMA ApplyIs ==
    ASSUME CacheIInv, NEW e \in Engines, Apply(e)
    PROVE  CacheIInv'
<1>1. PICK m \in DOMAIN result[e] : m = at[e] /\ m \in DOMAIN batch[e]
  BY AppliesIs
<1>2. BatchOf(e) /\ \A i \in DOMAIN plan[e] : CallOf(e, i)
  BY DEF CacheIInv, CacheBatchInv
<1>3. PICK n \in Nat : n = Len(plan[e]) /\ m \in 1..n /\ DOMAIN result[e] = 1..n /\ m \in DOMAIN plan[e]
  <2>1. plan[e] \in Seq(Nat) /\ result[e] \in Seq(Value) /\ Len(result[e]) = Len(plan[e])
    BY <1>2 DEF BatchOf
  <2>. QED  BY <1>1, <2>1
<1>4. PICK c \in CachedCalls, v \in Value : c = batch[e][m] /\ v = result[e][m] /\ c = Upcoming(e)
  <2>1. batch[e] \in Seq(CachedCalls) /\ result[e] \in Seq(Value)
    BY <1>2 DEF BatchOf
  <2>. QED  BY <1>1, <2>1 DEF Upcoming
<1>5. world' = world /\ phase[e] \in {"run", "apply"}
  BY DEF Apply
<1>6. ASSUME NEW x \in Engines, x # e
      PROVE  phase'[x] = phase[x] /\ batch'[x] = batch[x] /\ plan'[x] = plan[x] /\ result'[x] = result[x] /\ at'[x] = at[x]
  BY <1>6 DEF Apply, CacheIInv, CacheFunctions
\* What is due to the cache stays due, but for what this result has removed.
<1>7. ASSUME NEW k, RemovalDue(k), plan[e][m] = m /\ ~Cacheable(c) => ~Outdates(c, k)
      PROVE  RemovalDue(k)'
  <2>1. PICK x \in Engines : \E i \in DOMAIN result[x] :
            /\ phase[x] # "apply" \/ i >= at[x]
            /\ plan[x][i] = i /\ ~Cacheable(batch[x][i]) /\ Outdates(batch[x][i], k)
    BY <1>7 DEF RemovalDue
  <2>2. PICK i \in DOMAIN result[x] :
            /\ phase[x] # "apply" \/ i >= at[x]
            /\ plan[x][i] = i /\ ~Cacheable(batch[x][i]) /\ Outdates(batch[x][i], k)
    BY <2>1
  <2>3. CASE x # e
    BY <1>6, <2>2, <2>3, DueIs
  <2>4. CASE x = e
    <3>1. i \in 1..n /\ i >= m
      BY <1>1, <1>2, <1>3, <1>5, <2>2, <2>4 DEF BatchOf
    <3>2. i # m
      BY <1>4, <1>7, <2>2, <2>4
    <3>3. i > at[e]
      BY <1>1, <1>3, <3>1, <3>2
    <3>4. i \in DOMAIN result'[e] /\ i >= at'[e] /\ plan'[e][i] = plan[e][i] /\ batch'[e][i] = batch[e][i]
      BY <2>2, <2>4, <3>3, AppliesIs
    <3>. QED  BY <2>2, <2>4, <3>4, DueIs
  <2>. QED  BY <2>3, <2>4
<1>8. \A k \in DOMAIN cached : Fresh(cached[k]) \/ cached[k].missed \/ RemovalDue(k)
  BY DEF CacheIInv, StaleOnlyByMiss
<1>9. CacheEntries' /\ CacheOrder' /\ StaleOnlyByMiss'
  <2>1. CASE plan[e][m] = m /\ v.how = "read" /\ Store(c, v)
    <3>1. Cacheable(c) /\ DOMAIN v.data = Reads(c) /\ (Fresh(v) \/ v.missed)
      <4>1. CallOf(e, m) /\ Pending(e, m)
        BY <1>1, <1>2, <1>3, <1>4, <2>1 DEF Pending
      <4>. QED  BY <1>4, <2>1, <4>1 DEF CallOf
    <3>2. /\ CacheEntries' /\ CacheOrder' /\ c \in DOMAIN cached' /\ cached'[c] = v
          /\ \A x \in DOMAIN cached' \ {c} : x \in DOMAIN cached /\ cached'[x] = cached[x]
      BY <2>1, <3>1, StoreIs
    <3>3. ASSUME NEW k \in DOMAIN cached' PROVE (Fresh(cached[k]) \/ cached[k].missed \/ RemovalDue(k))'
      <4>1. CASE k = c
        <5>1. Fresh(cached[k])' <=> Fresh(v)
          BY <1>5, <3>2, <4>1 DEF Fresh
        <5>. QED  BY <3>1, <3>2, <4>1, <5>1
      <4>2. CASE k # c
        <5>1. k \in DOMAIN cached /\ cached'[k] = cached[k]
          BY <3>2, <4>2
        <5>2. Fresh(cached[k])' <=> Fresh(cached[k])
          BY <1>5, <5>1 DEF Fresh
        <5>. QED  BY <1>7, <1>8, <3>1, <5>1, <5>2
      <4>. QED  BY <4>1, <4>2
    <3>. QED  BY <3>2, <3>3 DEF StaleOnlyByMiss
  <2>2. CASE plan[e][m] = m /\ ~Cacheable(c) /\ Invalidate(c)
    <3>1. /\ CacheEntries' /\ CacheOrder'
          /\ \A x \in DOMAIN cached' : x \in DOMAIN cached /\ cached'[x] = cached[x] /\ ~Outdates(c, x)
      BY <2>2, InvalidateIs
    <3>2. ASSUME NEW k \in DOMAIN cached' PROVE (Fresh(cached[k]) \/ cached[k].missed \/ RemovalDue(k))'
      <4>1. k \in DOMAIN cached /\ cached'[k] = cached[k] /\ ~Outdates(c, k)
        BY <3>1
      <4>2. Fresh(cached[k])' <=> Fresh(cached[k])
        BY <1>5, <4>1 DEF Fresh
      <4>. QED  BY <1>7, <1>8, <4>1, <4>2
    <3>. QED  BY <3>1, <3>2 DEF StaleOnlyByMiss
  <2>3. CASE ~(plan[e][m] = m /\ (v.how = "read" \/ ~Cacheable(c))) /\ cached' = cached /\ order' = order
    <3>1. CacheEntries' /\ CacheOrder'
      BY <2>3 DEF CacheIInv, CacheEntries, CacheOrder, Value, Reads
    <3>2. ASSUME NEW k \in DOMAIN cached' PROVE (Fresh(cached[k]) \/ cached[k].missed \/ RemovalDue(k))'
      <4>1. k \in DOMAIN cached /\ cached'[k] = cached[k]
        BY <2>3
      <4>2. Fresh(cached[k])' <=> Fresh(cached[k])
        BY <1>5, <4>1 DEF Fresh
      <4>. QED  BY <1>7, <1>8, <2>3, <4>1, <4>2
    <3>. QED  BY <3>1, <3>2 DEF StaleOnlyByMiss
  <2>4. \/ plan[e][m] = m /\ v.how = "read" /\ Store(c, v)
        \/ plan[e][m] = m /\ ~Cacheable(c) /\ Invalidate(c)
        \/ ~(plan[e][m] = m /\ (v.how = "read" \/ ~Cacheable(c))) /\ cached' = cached /\ order' = order
    BY <1>1, <1>4 DEF Apply, cacheVars
  <2>. QED  BY <2>1, <2>2, <2>3, <2>4
<1>. QED  BY <1>9, AppliesIs DEF CacheIInv

\* The cache is cleared.
LEMMA ClearCacheIs ==
    ASSUME CacheIInv, NEW e \in Engines, ClearCache(e)
    PROVE  CacheIInv'
<1>1. cached' = <<>> /\ order' = <<>> /\ UNCHANGED <<world, phase, batch, plan, result, at>>
  BY DEF ClearCache
<1>2. CacheFunctions'
  BY <1>1 DEF CacheIInv, CacheFunctions
<1>3. CacheBatchInv'
  <2>1. ASSUME NEW x \in Engines PROVE BatchOf(x)' /\ \A i \in DOMAIN plan'[x] : CallOf(x, i)'
    <3>1. BatchOf(x) /\ \A i \in DOMAIN plan[x] : CallOf(x, i)
      BY DEF CacheIInv, CacheBatchInv
    <3>. QED  BY <1>1, <3>1, StaysIs
  <2>. QED  BY <2>1 DEF CacheBatchInv
<1>4. DOMAIN cached' = {}
  BY <1>1
<1>5. CacheEntries'
  BY <1>1, <1>4 DEF CacheEntries
<1>6. CacheOrder'
  <2>1. MaxEntries \in Nat
    BY DEF CacheIInv, CacheConstants
  <2>. QED  BY <1>1, <1>4, <2>1 DEF CacheOrder, IsInjective, ToSet
<1>. QED  BY <1>2, <1>3, <1>4, <1>5, <1>6 DEF CacheIInv, StaleOnlyByMiss

\* The start.
LEMMA CacheStarts ==
    ASSUME CacheConstants, CacheInit
    PROVE  CacheIInv
<1>1. MaxVersion \in Nat /\ MaxEntries \in Nat /\ \A e \in Engines : MaxBatch[e] \in Nat
  BY DEF CacheConstants
<1>2. CacheFunctions
  BY <1>1 DEF CacheInit, CacheFunctions
<1>3. CacheBatchInv
  BY <1>1 DEF CacheInit, CacheBatchInv, BatchOf
<1>4. DOMAIN cached = {} /\ cached = <<>> /\ order = <<>>
  BY DEF CacheInit
<1>5. CacheEntries
  BY <1>4 DEF CacheEntries
<1>6. CacheOrder
  BY <1>1, <1>4 DEF CacheOrder, IsInjective, ToSet
<1>. QED  BY <1>2, <1>3, <1>4, <1>5, <1>6 DEF CacheIInv, StaleOnlyByMiss

\* Every step.
LEMMA CacheStep ==
    ASSUME CacheIInv, [CacheNext]_engineVars
    PROVE  CacheIInv'
<1>1. CASE UNCHANGED engineVars
  <2>1. UNCHANGED <<world, cached, order, phase, batch, plan, result, at>>
    BY <1>1 DEF engineVars, cacheVars
  <2>2. CacheBatchInv'
    <3>1. ASSUME NEW x \in Engines PROVE BatchOf(x)' /\ \A i \in DOMAIN plan'[x] : CallOf(x, i)'
      <4>1. BatchOf(x) /\ \A i \in DOMAIN plan[x] : CallOf(x, i)
        BY DEF CacheIInv, CacheBatchInv
      <4>. QED  BY <2>1, <4>1, StaysIs
    <3>. QED  BY <3>1 DEF CacheBatchInv
  <2>3. CacheFunctions' /\ CacheEntries' /\ CacheOrder'
    BY <2>1 DEF CacheIInv, CacheFunctions, CacheEntries, CacheOrder, Value, Reads
  <2>4. StaleOnlyByMiss'
    BY <2>1 DEF CacheIInv, StaleOnlyByMiss, Fresh, RemovalDue
  <2>. QED  BY <2>2, <2>3, <2>4 DEF CacheIInv
<1>2. ASSUME NEW e \in Engines,
             \E calls \in BoundedSeq(CachedCalls, MaxBatch[e]) : calls # <<>> /\ Request(e, calls)
      PROVE  CacheIInv'
  BY <1>2, RequestIs
<1>3. ASSUME NEW e \in Engines, NEW i \in DOMAIN plan[e],
             RunRead(e, i) \/ (\E D \in SUBSET Files : RunChange(e, i, D)) \/ RunFails(e, i)
      PROVE  CacheIInv'
  BY <1>3, RunReadIs, RunChangeIs, RunFailsIs
<1>4. ASSUME NEW e \in Engines, PlanCall(e) \/ Apply(e) \/ ClearCache(e)
      PROVE  CacheIInv'
  BY <1>4, PlanCallIs, ApplyIs, ClearCacheIs
<1>. QED  BY <1>1, <1>2, <1>3, <1>4 DEF CacheNext

\* The inductive invariant holds, from a start without entries.
THEOREM CacheInductive == CacheSpec => []CacheIInv
<1>1. CacheInit => CacheIInv
  BY CacheAssumption, CacheStarts
<1>2. CacheIInv /\ [CacheNext]_engineVars => CacheIInv'
  BY CacheStep
<1>. QED  BY <1>1, <1>2, PTL DEF CacheSpec

\* The types, and the order of eviction lists what is cached, each entry once and within the limit,
\* however engines store, evict, remove and clear in between.
THEOREM CacheHolds == CacheSpec => []CacheInv
<1>1. ASSUME CacheIInv PROVE CacheInv
  <2>1. ASSUME NEW e \in Engines
        PROVE  /\ phase[e] \in {"idle", "plan", "run", "apply"} /\ batch[e] \in Seq(CachedCalls) /\ plan[e] \in Seq(Nat)
               /\ Len(result[e]) = Len(plan[e]) /\ Len(plan[e]) <= Len(batch[e])
               /\ \A i \in DOMAIN result[e] : result[e][i] \in Value
               /\ at[e] \in 1..MaxBatch[e]
    <3>1. BatchOf(e) /\ MaxBatch[e] \in Nat \ {0}
      BY <1>1 DEF CacheIInv, CacheBatchInv, CacheConstants
    <3>2. PICK b \in Seq(CachedCalls), p \in Seq(Nat), r \in Seq(Value) :
             b = batch[e] /\ p = plan[e] /\ r = result[e] /\ Len(r) = Len(p) /\ Len(b) <= MaxBatch[e]
      BY <3>1 DEF BatchOf
    <3>. QED  BY <3>1, <3>2 DEF BatchOf
  <2>2. ASSUME NEW e \in Engines, NEW i \in DOMAIN plan[e]
        PROVE  \/ plan[e][i] = i
               \/ plan[e][i] = 0 /\ result[e][i].how = "read"
               \/ /\ plan[e][i] < i /\ plan[e][plan[e][i]] = plan[e][i]
                  /\ batch[e][plan[e][i]] = batch[e][i] /\ Cacheable(batch[e][i])
    <3>1. CallOf(e, i) /\ plan[e] \in Seq(Nat)
      BY <1>1 DEF CacheIInv, CacheBatchInv, BatchOf
    <3>2. i \in Nat
      BY <3>1
    <3>. QED  BY <3>1, <3>2 DEF CallOf
  <2>3. CacheTypeOK
    BY <1>1, <2>1, <2>2 DEF CacheIInv, CacheFunctions, CacheEntries, CacheOrder, CacheTypeOK
  <2>4. OrderMatchesEntries
    BY <1>1, SizeIs DEF CacheIInv, CacheOrder, OrderMatchesEntries
  <2>. QED  BY <2>3, <2>4 DEF CacheInv
<1>. QED  BY <1>1, CacheInductive, PTL

\* What is cached is what a new call would read, but for changes whose removals are under way, by
\* tools the cache does not know, or during the read: no other order of batches makes it stale.
THEOREM CacheStale == CacheSpec => []StaleOnlyByMiss
<1>1. CacheIInv => StaleOnlyByMiss
  BY DEF CacheIInv
<1>. QED  BY <1>1, CacheInductive, PTL
=============================================================================
