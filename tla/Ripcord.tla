------------------------------- MODULE Ripcord -------------------------------
(***************************************************************************)
(* Tripwires and the ripcord.  Every session engine evaluates the results  *)
(* of its tool batches with a TripwireEvaluator; all of them share one     *)
(* RipcordJournal, which the HTTP handlers pull or approve meanwhile.  The *)
(* journal has three locks, entries, status and category_counts; a step    *)
(* here is what one lock holds together.  Evaluators and handlers run in   *)
(* the futures of requests, which are dropped at the await they have       *)
(* reached when the client goes away.                                      *)
(***************************************************************************)
EXTENDS Naturals, FiniteSets, SequencesExt

CONSTANTS Sessions,       \* session engines
          Operators,      \* HTTP requests that pull or approve
          Calls,          \* tool calls
          Categories,     \* action categories
          Batch,          \* the batch each session executes
          CategoryOf,     \* action_category of each call
          ActionOf,       \* the JournalAction journal_action makes of it
          Refused,        \* calls the gates inside the evaluator refuse
          PointMatch,     \* calls a Path or Action tripwire matches by themselves
          MinCount        \* min_count of the Threshold tripwire of a category

Actions == {"None", "FileWrite", "FileRestore", "FileCreate", "FileDelete", "FileMove",
            "GitCommit", "GitBranchCreate", "GitPush", "ShellCommand", "NetworkRequest"}

ASSUME RipcordAssumption ==
    /\ "free" \notin Sessions      \* it marks a lock that nobody holds
    /\ "nobody" \notin Operators   \* who has cleared a call nobody has cleared
    /\ Batch \in [Sessions -> Seq(Calls)]
    /\ \A s \in Sessions : Len(Batch[s]) > 0
    /\ \A s, t \in Sessions : s # t =>      \* a call is one of one answer
          {Batch[s][i] : i \in DOMAIN Batch[s]} \cap {Batch[t][i] : i \in DOMAIN Batch[t]} = {}
    /\ CategoryOf \in [Calls -> Categories]
    /\ ActionOf \in [Calls -> Actions]
    /\ Refused \subseteq Calls /\ PointMatch \subseteq Calls
    /\ DOMAIN MinCount \subseteq Categories
    /\ \A k \in DOMAIN MinCount : MinCount[k] \in Nat \ {0}

VARIABLES
    \* RipcordJournal
    entries,      \* journaled calls, in order
    entriesLock,  \* the session that records and holds the lock of entries
    active,       \* status.active
    entryCount,   \* status.entry_count
    counts,       \* category_counts
    \* each session's evaluator
    pc, pos,      \* where it is, and the call of its batch it evaluates
    seen,         \* the count of the call's category it has read
    \* each operator's request
    op,
    todo,         \* the snapshot of the entries, still to revert
    \* the world and history
    effects,      \* calls that took effect and were not undone
    report,       \* what each pull has listed, and what it will report of it
    clearedBy,    \* who has cleared each call from the journal, the last one
    cleared,      \* some operator has begun to clear the journal
    cut           \* an evaluator was dropped between an entry and its count

journalVars  == <<entries, entriesLock, active, entryCount, counts>>
sessionVars  == <<pc, pos, seen>>
operatorVars == <<op, todo, report, clearedBy>>
vars == <<journalVars, sessionVars, operatorVars, effects, cleared, cut>>

SessionPcs  == {"execute", "increment", "read", "check", "activate", "recheck",
                "push", "count", "done"}
OperatorPcs == {"start", "revert", "clearStatus", "clearCounts", "done", "gone"}

\* RipcordReport, and what a pull has listed and not come to yet.
Outcomes == {"none", "listed", "reverted", "skipped"}

CallsOf(s) == {Batch[s][i] : i \in DOMAIN Batch[s]}
Current(s) == Batch[s][pos[s]]
Category(s) == CategoryOf[Current(s)]

TypeOK ==
    /\ entries \in Seq(Calls)
    /\ entriesLock \in Sessions \cup {"free"}
    /\ active \in BOOLEAN
    /\ entryCount \in Nat
    /\ counts \in [Categories -> Nat]
    /\ pc \in [Sessions -> SessionPcs]
    /\ pos \in [Sessions -> Nat \ {0}]
    /\ \A s \in Sessions : pc[s] # "done" => pos[s] \in DOMAIN Batch[s]
    /\ seen \in [Sessions -> Nat]
    /\ op \in [Operators -> OperatorPcs]
    /\ todo \in [Operators -> Seq(Calls)]
    /\ effects \subseteq Calls
    /\ report \in [Operators -> [Calls -> Outcomes]]
    /\ clearedBy \in [Calls -> Operators \cup {"nobody"}]
    /\ cleared \in BOOLEAN /\ cut \in BOOLEAN

Init ==
    /\ entries = <<>> /\ entriesLock = "free"
    /\ active = FALSE /\ entryCount = 0
    /\ counts = [k \in Categories |-> 0]
    /\ pc = [s \in Sessions |-> "execute"]
    /\ pos = [s \in Sessions |-> 1]
    /\ seen = [s \in Sessions |-> 0]
    /\ op = [o \in Operators |-> "start"]
    /\ todo = [o \in Operators |-> <<>>]
    /\ report = [o \in Operators |-> [c \in Calls |-> "none"]]
    /\ clearedBy = [c \in Calls |-> "nobody"]
    /\ effects = {} /\ cleared = FALSE /\ cut = FALSE
-----------------------------------------------------------------------------
(* TripwireEvaluator                                                       *)

Goto(s, label) == pc' = [pc EXCEPT ![s] = label]

\* A bug: the batch is left one call too late.
NextCall_TooFar(s) ==
    /\ pos' = [pos EXCEPT ![s] = @ + 1]
    /\ Goto(s, IF pos[s] > Len(Batch[s]) THEN "done" ELSE "increment")

NextCall(s) == /\ pos' = [pos EXCEPT ![s] = @ + 1]
               /\ Goto(s, IF pos[s] = Len(Batch[s]) THEN "done" ELSE "increment")

\* execute_tools: the inner executors first.  A call its gates refuse has a
\* result like any other.
Execute(s) ==
    /\ pc[s] = "execute"
    /\ effects' = effects \cup (CallsOf(s) \ Refused)
    /\ Goto(s, "increment")
    /\ UNCHANGED <<journalVars, pos, seen, operatorVars, cleared, cut>>

\* When they fail as a whole, or the turn is dropped while they work, nothing that
\* took effect is evaluated.
ExecuteFails(s) ==
    /\ pc[s] = "execute"
    /\ \E done \in SUBSET (CallsOf(s) \ Refused) : effects' = effects \cup done
    /\ Goto(s, "done")
    /\ UNCHANGED <<journalVars, pos, seen, operatorVars, cleared, cut>>

\* A bug: the count that was read is stored back, incremented.
Increment_Stale(s) ==
    /\ pc[s] = "increment"
    /\ counts' = [counts EXCEPT ![Category(s)] = seen[s] + 1]
    /\ Goto(s, "read")
    /\ UNCHANGED <<entries, entriesLock, active, entryCount, pos, seen,
                   operatorVars, effects, cleared, cut>>

Increment(s) ==
    /\ pc[s] = "increment"
    /\ counts' = [counts EXCEPT ![Category(s)] = @ + 1]
    /\ Goto(s, "read")
    /\ UNCHANGED <<entries, entriesLock, active, entryCount, pos, seen,
                   operatorVars, effects, cleared, cut>>

ReadCounts(s) ==
    /\ pc[s] = "read"
    /\ seen' = [seen EXCEPT ![s] = counts[Category(s)]]
    /\ Goto(s, "check")
    /\ UNCHANGED <<journalVars, pos, operatorVars, effects, cleared, cut>>

\* A bug: a threshold fires on the one action that reaches it.
Matches_Exactly(s) ==
    \/ Current(s) \in PointMatch
    \/ Category(s) \in DOMAIN MinCount /\ seen[s] = MinCount[Category(s)]

Matches(s) ==
    \/ Current(s) \in PointMatch
    \/ Category(s) \in DOMAIN MinCount /\ seen[s] >= MinCount[Category(s)]

\* activate_if_matched
CheckActive(s) ==
    /\ pc[s] = "check"
    /\ Goto(s, IF ~active /\ Matches(s) THEN "activate" ELSE "recheck")
    /\ UNCHANGED <<journalVars, pos, seen, operatorVars, effects, cleared, cut>>

\* A bug: a second activation starts the status afresh.
Activate_Again(s) ==
    /\ pc[s] = "activate"
    /\ active' = TRUE
    /\ entryCount' = 0
    /\ Goto(s, "recheck")
    /\ UNCHANGED <<entries, entriesLock, counts, pos, seen, operatorVars, effects,
                   cleared, cut>>

Activate(s) ==
    /\ pc[s] = "activate"
    /\ active' = TRUE
    /\ entryCount' = IF active THEN entryCount ELSE 0
    /\ Goto(s, "recheck")
    /\ UNCHANGED <<entries, entriesLock, counts, pos, seen, operatorVars, effects,
                   cleared, cut>>

\* record_if_active
RecordNothing(s) ==
    /\ pc[s] = "recheck"
    /\ ~active \/ ActionOf[Current(s)] = "None"
    /\ NextCall(s)
    /\ UNCHANGED <<journalVars, seen, operatorVars, effects, cleared, cut>>

RecordIfActive(s) ==
    /\ pc[s] = "recheck"
    /\ active /\ ActionOf[Current(s)] # "None"
    /\ Goto(s, "push")
    /\ UNCHANGED <<journalVars, pos, seen, operatorVars, effects, cleared, cut>>

\* record: the lock of entries is kept while the status is updated.
RecordPush(s) ==
    /\ pc[s] = "push" /\ entriesLock = "free"
    /\ entries' = Append(entries, Current(s))
    /\ entriesLock' = s
    /\ Goto(s, "count")
    /\ UNCHANGED <<active, entryCount, counts, pos, seen, operatorVars, effects,
                   cleared, cut>>

\* A bug: the guard of entries is leaked.
RecordCount_Leak(s) ==
    /\ pc[s] = "count"
    /\ entryCount' = Len(entries)
    /\ NextCall(s)
    /\ UNCHANGED <<entries, entriesLock, active, counts, seen, operatorVars,
                   effects, cleared, cut>>

RecordCount(s) ==
    /\ pc[s] = "count"
    /\ entryCount' = Len(entries)
    /\ entriesLock' = "free"
    /\ cut' = FALSE
    /\ NextCall(s)
    /\ UNCHANGED <<entries, active, counts, seen, operatorVars, effects, cleared>>

\* The turn is dropped while its evaluator waits for a lock; the one it holds is
\* given back.
SessionDropped(s) ==
    /\ pc[s] \notin {"execute", "done"}
    /\ entriesLock' = IF entriesLock = s THEN "free" ELSE entriesLock
    /\ cut' = (cut \/ pc[s] = "count")
    /\ Goto(s, "done")
    /\ UNCHANGED <<entries, active, entryCount, counts, pos, seen, operatorVars,
                   effects, cleared>>
-----------------------------------------------------------------------------
(* pull_ripcord and approve_ripcord                                        *)

\* is_reversible, which the journal shows with every entry.
Reversible == {"FileWrite", "FileRestore", "FileCreate", "FileDelete", "FileMove",
               "GitCommit", "GitBranchCreate"}

\* revert_entry has something to do for these; a FileWrite without a snapshot
\* is skipped.
Undoable == Reversible \ {"FileWrite"}

Journaled == {entries[i] : i \in DOMAIN entries}

\* pull_ripcord copies the entries and goes through them backwards.
Pull(o) ==
    /\ op[o] = "start" /\ entriesLock = "free"
    /\ todo' = [todo EXCEPT ![o] = Reverse(entries)]
    /\ report' = [report EXCEPT ![o] = [c \in Calls |-> IF c \in Journaled THEN "listed" ELSE "none"]]
    /\ op' = [op EXCEPT ![o] = "revert"]
    /\ UNCHANGED <<journalVars, sessionVars, clearedBy, effects, cleared, cut>>

\* A bug: an entry that cannot be reverted ends the pull.
RevertEntry_StopOnError(o) ==
    /\ op[o] = "revert" /\ todo[o] # <<>>
    /\ LET c == Head(todo[o]) IN
       \/ /\ ActionOf[c] \in Undoable
          /\ effects' = effects \ {c}
          /\ report' = [report EXCEPT ![o][c] = "reverted"]
          /\ todo' = [todo EXCEPT ![o] = Tail(@)]
       \/ /\ report' = [report EXCEPT ![o][c] = "skipped"]
          /\ todo' = [todo EXCEPT ![o] = <<>>]
          /\ UNCHANGED effects
    /\ UNCHANGED <<journalVars, sessionVars, op, clearedBy, cleared, cut>>

\* revert_entry may fail (the branch is checked out, the file has gone): the pull
\* reports the entry as skipped and goes on.
RevertEntry(o) ==
    /\ op[o] = "revert" /\ todo[o] # <<>>
    /\ todo' = [todo EXCEPT ![o] = Tail(@)]
    /\ LET c == Head(todo[o]) IN
       \/ /\ ActionOf[c] \in Undoable
          /\ effects' = effects \ {c}
          /\ report' = [report EXCEPT ![o][c] = "reverted"]
       \/ /\ report' = [report EXCEPT ![o][c] = "skipped"]
          /\ UNCHANGED effects
    /\ UNCHANGED <<journalVars, sessionVars, op, clearedBy, cleared, cut>>

\* A bug: the journal is cleared before the entries are reverted.
ClearEntries_First(o) ==
    /\ op[o] \in {"start", "revert"} /\ entriesLock = "free"
    /\ clearedBy' = [c \in Calls |-> IF c \in Journaled THEN o ELSE clearedBy[c]]
    /\ entries' = <<>>
    /\ cleared' = TRUE
    /\ op' = [op EXCEPT ![o] = IF todo[o] = <<>> THEN "clearStatus" ELSE @]
    /\ UNCHANGED <<entriesLock, active, entryCount, counts, sessionVars, todo, report, effects, cut>>

\* clear, one lock after the other: by an approval, or by a pull after its loop.
ClearEntries(o) ==
    /\ op[o] = "start" \/ (op[o] = "revert" /\ todo[o] = <<>>)
    /\ entriesLock = "free"
    /\ clearedBy' = [c \in Calls |-> IF c \in Journaled THEN o ELSE clearedBy[c]]
    /\ entries' = <<>>
    /\ cleared' = TRUE
    /\ op' = [op EXCEPT ![o] = "clearStatus"]
    /\ UNCHANGED <<entriesLock, active, entryCount, counts, sessionVars, todo, report, effects, cut>>

ClearStatus(o) ==
    /\ op[o] = "clearStatus"
    /\ active' = FALSE /\ entryCount' = 0
    /\ op' = [op EXCEPT ![o] = "clearCounts"]
    /\ UNCHANGED <<entries, entriesLock, counts, sessionVars, todo, report, clearedBy, effects,
                   cleared, cut>>

ClearCounts(o) ==
    /\ op[o] = "clearCounts"
    /\ counts' = [k \in Categories |-> 0]
    /\ op' = [op EXCEPT ![o] = "done"]
    /\ UNCHANGED <<entries, entriesLock, active, entryCount, sessionVars, todo, report, clearedBy,
                   effects, cleared, cut>>

\* The handler is dropped while it waits for a lock or for a file or git operation,
\* which goes on without it; nobody gets its report.  One that is dropped at its
\* first lock has changed nothing: it is a request that is not made.
OperatorDropped(o) ==
    /\ op[o] \notin {"start", "done", "gone"}
    /\ op' = [op EXCEPT ![o] = "gone"]
    /\ todo' = [todo EXCEPT ![o] = <<>>]
    /\ \/ UNCHANGED effects
       \/ /\ todo[o] # <<>> /\ ActionOf[Head(todo[o])] \in Undoable
          /\ effects' = effects \ {Head(todo[o])}
    /\ UNCHANGED <<journalVars, sessionVars, report, clearedBy, cleared, cut>>
-----------------------------------------------------------------------------
SessionStep(s) ==
    \/ Execute(s) \/ ExecuteFails(s) \/ Increment(s) \/ ReadCounts(s) \/ CheckActive(s)
    \/ Activate(s) \/ RecordNothing(s) \/ RecordIfActive(s) \/ RecordPush(s) \/ RecordCount(s)

OperatorStep(o) ==
    \/ Pull(o) \/ RevertEntry(o) \/ ClearEntries(o) \/ ClearStatus(o) \/ ClearCounts(o)

Next == \/ \E s \in Sessions : SessionStep(s) \/ SessionDropped(s)
        \/ \E o \in Operators : OperatorStep(o) \/ OperatorDropped(o)

Spec == Init /\ [][Next]_vars

\* The runtime polls every task that can go on.  Sessions and operators end, so
\* nobody takes a lock again and again: weak fairness is enough.
FairSpec == /\ Spec
            /\ \A s \in Sessions : WF_vars(SessionStep(s))
            /\ \A o \in Operators : WF_vars(OperatorStep(o))
-----------------------------------------------------------------------------
(* Properties                                                              *)

\* The calls whose evaluation has gone past activate_if_matched.
Evaluated == UNION {{Batch[s][i] : i \in {j \in DOMAIN Batch[s] :
                        \/ j < pos[s]
                        \/ j = pos[s] /\ pc[s] \in {"recheck", "push", "count"}}} : s \in Sessions}

\* While nobody has cleared the journal, a crossing is never missed: as soon as
\* a call that a tripwire matches has been evaluated, or as many calls of one
\* category as its threshold says, on whatever sessions and in whatever order
\* their increments, reads and activations came, the ripcord is active.  config.rs
\* documents a threshold as one on the actions "in one session"; the journal counts
\* those of all sessions, and so does this property: what a single session reaches
\* is seen, and so is what no session reaches by itself.
CrossingIsSeen ==
    cleared \/ active \/
        /\ Evaluated \cap PointMatch = {}
        /\ \A k \in DOMAIN MinCount :
              Cardinality({c \in Evaluated : CategoryOf[c] = k}) < MinCount[k]

\* While nobody has cleared the journal, the count that the status shows is the
\* number of entries, although sessions activate and record concurrently; where an
\* evaluator was dropped after its entry and before the count, again with the next.
CountMatchesEntries ==
    cleared \/ cut \/ entriesLock # "free" \/ entryCount = Len(entries)

\* The types, and the count.
Inv == TypeOK /\ CountMatchesEntries

\* The journal forgets nothing that a pull has listed before the pull has handled it,
\* whichever of its entries fail and whoever pulls or approves meanwhile: it has
\* undone the entry or reports it as skipped, or has yet to come to it.  What a
\* dropped pull has not come to is left in the journal for the next operator, or
\* another one has cleared it.
ListedIsHandled ==
    \A o \in Operators : \A c \in Calls :
        \/ report[o][c] = "none"
        \/ report[o][c] = "skipped"
        \/ report[o][c] = "reverted" /\ c \notin effects
        \/ /\ report[o][c] = "listed" /\ op[o] \in {"revert", "gone"}
           /\ c \in Journaled \/ clearedBy[c] \in Operators \ {o}

\* Sessions and operators that use the journal never wait for each other for good.
EverythingEnds == <>[](/\ \A s \in Sessions : pc[s] = "done"
                       /\ \A o \in Operators : op[o] \in {"done", "gone"})
=============================================================================
