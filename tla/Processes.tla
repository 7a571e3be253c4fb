----------------------------- MODULE Processes -----------------------------
(***************************************************************************)
(* The registry of background processes: spawning, killing, the clean-up   *)
(* loop, and the drop of the registry, with the process groups they        *)
(* signal.  Spawns are synchronous calls made from several threads; a kill *)
(* and the clean-up wait between their signals.  A step is what one lock   *)
(* holds together, or what runs up to the next await.  Time is not         *)
(* counted: a grace period or a lifetime may be over at any moment.        *)
(***************************************************************************)
EXTENDS Naturals, FiniteSets

CONSTANTS Procs,          \* the processes, each spawned at most once
          Threads,        \* threads that call spawn
          Killers,        \* calls of kill
          Cleanup, Drop,  \* the clean-up loop and the drop of the registry
          Helper,         \* what each process leaves in the background, if anything
          MaxConcurrent   \* ProcessConfig::max_concurrent

\* A helper keeps the pipes or closes them, and stays in the group of its parent
\* or has made one of its own.
Helpers == {"none", "piped", "quiet", "escaped"}

Terminators == Killers \cup {Cleanup, Drop}

ASSUME ProcessAssumption ==
    /\ Helper \in [Procs -> Helpers]
    /\ MaxConcurrent \in Nat \ {0} /\ IsFiniteSet(Threads)
    /\ Cleanup \notin Killers /\ Drop \notin Killers /\ Cleanup # Drop
    /\ "none" \notin Procs

VARIABLES
    \* ProcessRegistry and ProcessEntry
    table,       \* the processes with an entry
    status,      \* EntryState::status
    pending,     \* EntryState::pending_termination
    old,         \* running for longer than the lifetime of a process
    open,        \* nobody has begun to drop the registry
    \* spawn
    spawning,    \* the process each thread spawns
    stage,       \* how far it is
    \* terminate_entry, for each of those that call it
    pc, target,
    todo,        \* the entries that are left to it
    \* the operating system
    child, helper,
    signalled    \* processes a signal reached

registryVars == <<table, status, pending, old, open>>
spawnVars    == <<spawning, stage>>
killVars     == <<pc, target, todo>>
systemVars   == <<child, helper, signalled>>
vars == <<registryVars, spawnVars, killVars, systemVars>>

Final == {"Completed", "Failed", "Killed", "TimedOut"}
Pcs   == {"idle", "next", "queue", "term", "wait", "kill", "last", "ok", "error", "gone"}

TypeOK ==
    /\ table \subseteq Procs
    /\ status \in [Procs -> {"none", "Running"} \cup Final]
    /\ pending \in [Procs -> {"none", "Killed", "TimedOut"}]
    /\ old \subseteq Procs
    /\ open \in BOOLEAN
    /\ spawning \in [Threads -> Procs \cup {"none"}]
    /\ stage \in [Threads -> {"idle", "start"}]
    /\ pc \in [Terminators -> Pcs]
    /\ target \in [Terminators -> Procs \cup {"none"}]
    /\ todo \in [Terminators -> SUBSET Procs]
    /\ child \in [Procs -> {"none", "running", "zombie", "reaped"}]
    /\ helper \in [Procs -> BOOLEAN]
    /\ signalled \subseteq Procs
    \* Entries have a status, and a termination is pending for running ones only.
    /\ \A p \in Procs : /\ p \in table <=> status[p] # "none"
                        /\ pending[p] # "none" => status[p] = "Running"

Init ==
    /\ table = {} /\ old = {} /\ signalled = {} /\ open = TRUE
    /\ status = [p \in Procs |-> "none"]
    /\ pending = [p \in Procs |-> "none"]
    /\ spawning = [t \in Threads |-> "none"]
    /\ stage = [t \in Threads |-> "idle"]
    /\ pc = [x \in Terminators |-> "idle"]
    /\ target = [x \in Terminators |-> "none"]
    /\ todo = [x \in Terminators |-> {}]
    /\ child = [p \in Procs |-> "none"]
    /\ helper = [p \in Procs |-> FALSE]
-----------------------------------------------------------------------------
(* ProcessRegistry::spawn                                                  *)

\* running_entries
Running == {p \in table : status[p] = "Running"}

MaySpawn == Cardinality(Running) < MaxConcurrent

\* validate_spawn; nothing is reserved.
Validate(t, p) ==
    /\ open /\ stage[t] = "idle" /\ child[p] = "none"
    /\ \A u \in Threads : spawning[u] # p
    /\ MaySpawn
    /\ spawning' = [spawning EXCEPT ![t] = p]
    /\ stage' = [stage EXCEPT ![t] = "start"]
    /\ UNCHANGED <<registryVars, killVars, systemVars>>

\* spawn_child, insert_entry and spawn_monitors; nobody sees the process before the
\* entry is there.
Start(t) ==
    /\ stage[t] = "start"
    /\ LET p == spawning[t] IN
       /\ child' = [child EXCEPT ![p] = "running"]
       /\ helper' = [helper EXCEPT ![p] = Helper[p] # "none"]
       /\ table' = table \cup {p}
       /\ status' = [status EXCEPT ![p] = "Running"]
    /\ spawning' = [spawning EXCEPT ![t] = "none"]
    /\ stage' = [stage EXCEPT ![t] = "idle"]
    /\ UNCHANGED <<pending, old, open, killVars, signalled>>

StartFails(t) ==
    /\ stage[t] = "start"
    /\ spawning' = [spawning EXCEPT ![t] = "none"]
    /\ stage' = [stage EXCEPT ![t] = "idle"]
    /\ UNCHANGED <<registryVars, killVars, systemVars>>
-----------------------------------------------------------------------------
(* The operating system: a process ends when it likes, also on a signal,   *)
(* and is a member of its group until it is reaped.                        *)

InGroup(p)    == helper[p] /\ Helper[p] \in {"piped", "quiet"}
GroupLives(p) == child[p] \in {"running", "zombie"} \/ InGroup(p)
PipesOpen(p)  == child[p] = "running" \/ (helper[p] /\ Helper[p] \in {"piped", "escaped"})

ChildExits(p) ==
    /\ child[p] = "running"
    /\ child' = [child EXCEPT ![p] = "zombie"]
    /\ UNCHANGED <<registryVars, spawnVars, killVars, helper, signalled>>

HelperExits(p) ==
    /\ helper[p]
    /\ helper' = [helper EXCEPT ![p] = FALSE]
    /\ UNCHANGED <<registryVars, spawnVars, killVars, child, signalled>>
-----------------------------------------------------------------------------
(* wait_for_exit: the child is reaped, its pipes are read to the end, and  *)
(* a termination that is pending has the last word.                        *)

Reap(p) ==
    /\ child[p] = "zombie"
    /\ child' = [child EXCEPT ![p] = "reaped"]
    /\ UNCHANGED <<registryVars, spawnVars, killVars, helper, signalled>>

\* A bug: the exit status counts for more than the termination that is pending.
Finish_ByExit(p) ==
    /\ p \in table /\ status[p] = "Running" /\ child[p] = "reaped" /\ ~PipesOpen(p)
    /\ \E s \in {"Completed", "Failed", pending[p]} \ {"none"} :
          status' = [status EXCEPT ![p] = s]
    /\ pending' = [pending EXCEPT ![p] = "none"]
    /\ old' = old \ {p}
    /\ UNCHANGED <<table, open, spawnVars, killVars, systemVars>>

Finish(p) ==
    /\ p \in table /\ status[p] = "Running" /\ child[p] = "reaped" /\ ~PipesOpen(p)
    /\ \E s \in IF pending[p] = "none" THEN {"Completed", "Failed"} ELSE {pending[p]} :
          status' = [status EXCEPT ![p] = s]
    /\ pending' = [pending EXCEPT ![p] = "none"]
    /\ old' = old \ {p}
    /\ UNCHANGED <<table, open, spawnVars, killVars, systemVars>>

Expire(p) ==
    /\ p \in Running \ old
    /\ old' = old \cup {p}
    /\ UNCHANGED <<table, status, pending, open, spawnVars, killVars, systemVars>>
-----------------------------------------------------------------------------
(* terminate_entry, for kill, the clean-up and the drop                    *)

Goto(x, label) == pc' = [pc EXCEPT ![x] = label]

Kill(x, p) ==
    /\ open /\ x \in Killers /\ pc[x] = "idle" /\ p \in table
    /\ target' = [target EXCEPT ![x] = p]
    /\ Goto(x, "queue")
    /\ UNCHANGED <<registryVars, spawnVars, todo, systemVars>>

\* A bug: entries whose termination is pending are left to whoever terminates them.
CleanupBegins_SkipQueued ==
    /\ open /\ pc[Cleanup] = "idle"
    /\ todo' = [todo EXCEPT ![Cleanup] = {p \in Running \cap old : pending[p] = "none"}]
    /\ Goto(Cleanup, "next")
    /\ UNCHANGED <<registryVars, spawnVars, target, systemVars>>

\* cleanup_expired_once, every thirty seconds while the registry is there.
CleanupBegins ==
    /\ open /\ pc[Cleanup] = "idle"
    /\ todo' = [todo EXCEPT ![Cleanup] = Running \cap old]
    /\ Goto(Cleanup, "next")
    /\ UNCHANGED <<registryVars, spawnVars, target, systemVars>>

\* shutdown_now, once nobody holds the registry any more.
DropBegins ==
    /\ open /\ pc[Cleanup] = "idle"
    /\ \A t \in Threads : stage[t] = "idle"
    /\ \A x \in Killers : pc[x] \in {"idle", "ok", "error", "gone"}
    /\ open' = FALSE
    /\ todo' = [todo EXCEPT ![Drop] = Running]
    /\ Goto(Drop, "next")
    /\ UNCHANGED <<table, status, pending, old, spawnVars, target, systemVars>>

\* The next entry; the loops do not look at how the last one ended.
NextEntry(x) ==
    /\ pc[x] = "next"
    /\ \/ /\ todo[x] # {}
          /\ \E p \in todo[x] : /\ target' = [target EXCEPT ![x] = p]
                                /\ todo' = [todo EXCEPT ![x] = @ \ {p}]
          /\ Goto(x, "queue")
       \/ /\ todo[x] = {}
          /\ Goto(x, IF x = Cleanup THEN "idle" ELSE "ok")
          /\ UNCHANGED <<target, todo>>
    /\ UNCHANGED <<registryVars, spawnVars, systemVars>>

\* A bug: the drop gives up at the first entry it cannot terminate.
Over_StopOnError(x, result) ==
    /\ Goto(x, CASE x \in Killers -> result
                 [] x = Drop /\ result = "error" -> "ok"
                 [] OTHER -> "next")
    /\ target' = IF x \in Killers THEN target ELSE [target EXCEPT ![x] = "none"]

\* What becomes of a call whose entry is done with.
Over(x, result) ==
    /\ Goto(x, IF x \in Killers THEN result ELSE "next")
    /\ target' = IF x \in Killers THEN target ELSE [target EXCEPT ![x] = "none"]

\* A bug: it is not looked whether the process still runs.
Queue_Unchecked(x) ==
    /\ pc[x] = "queue"
    /\ pending' = [pending EXCEPT ![target[x]] = IF x = Cleanup THEN "TimedOut" ELSE "Killed"]
    /\ Goto(x, "term")
    /\ UNCHANGED <<table, status, old, open, spawnVars, target, todo, systemVars>>

\* queue_termination
Queue(x) ==
    /\ pc[x] = "queue"
    /\ LET p == target[x] IN
       \/ status[p] # "Running" /\ Over(x, "error") /\ UNCHANGED pending
       \/ /\ status[p] = "Running"
          /\ pending' = [pending EXCEPT ![p] = IF x = Cleanup THEN "TimedOut" ELSE "Killed"]
          /\ Goto(x, "term")
          /\ UNCHANGED target
    /\ UNCHANGED <<table, status, old, open, spawnVars, todo, systemVars>>

\* send_term: killpg fails when nobody is left in the group.
Term(x) ==
    /\ pc[x] = "term"
    /\ LET p == target[x] IN
       IF GroupLives(p)
       THEN /\ signalled' = IF child[p] = "running" THEN signalled \cup {p} ELSE signalled
            /\ Goto(x, "wait")
            /\ UNCHANGED target
       ELSE Over(x, "error") /\ UNCHANGED signalled
    /\ UNCHANGED <<registryVars, spawnVars, todo, child, helper>>

\* process_stopped
Stopped(p) == status[p] # "Running" \/ ~GroupLives(p)

\* A bug: the grace period is all a process is given.
WaitEnds_NoKill(x) ==
    /\ pc[x] = "wait"
    /\ Over(x, "ok")
    /\ UNCHANGED <<registryVars, spawnVars, todo, systemVars>>

\* wait_for_stop
WaitEnds(x) ==
    /\ pc[x] = "wait"
    /\ \/ Stopped(target[x]) /\ Over(x, "ok")
       \/ ~Stopped(target[x]) /\ Goto(x, "kill") /\ UNCHANGED target
    /\ UNCHANGED <<registryVars, spawnVars, todo, systemVars>>

\* send_kill
SigKill(x) ==
    /\ pc[x] = "kill"
    /\ LET p == target[x] IN
       IF GroupLives(p)
       THEN /\ signalled' = IF child[p] = "running" THEN signalled \cup {p} ELSE signalled
            /\ child' = [child EXCEPT ![p] = IF @ = "running" THEN "zombie" ELSE @]
            /\ helper' = [helper EXCEPT ![p] = @ /\ ~InGroup(p)]
            /\ Goto(x, "last")
            /\ UNCHANGED target
       ELSE Over(x, "error") /\ UNCHANGED systemVars
    /\ UNCHANGED <<registryVars, spawnVars, todo>>

\* The second wait_for_stop; its result is not looked at.
LastWaitEnds(x) ==
    /\ pc[x] = "last"
    /\ Over(x, "ok")
    /\ UNCHANGED <<registryVars, spawnVars, todo, systemVars>>

\* The turn of a kill is cancelled or times out while it waits.
KillDropped(x) ==
    /\ x \in Killers /\ pc[x] \in {"wait", "last"}
    /\ Goto(x, "gone")
    /\ UNCHANGED <<registryVars, spawnVars, target, todo, systemVars>>
-----------------------------------------------------------------------------
SpawnStep(t) == Start(t) \/ StartFails(t)
TerminateStep(x) == \/ NextEntry(x) \/ Queue(x) \/ Term(x) \/ WaitEnds(x) \/ SigKill(x)
                    \/ LastWaitEnds(x)

Next ==
    \/ \E t \in Threads : SpawnStep(t) \/ \E p \in Procs : Validate(t, p)
    \/ \E p \in Procs : ChildExits(p) \/ HelperExits(p) \/ Reap(p) \/ Finish(p) \/ Expire(p)
    \/ \E x \in Terminators : TerminateStep(x) \/ KillDropped(x)
    \/ \E x \in Killers, p \in Procs : Kill(x, p)
    \/ CleanupBegins \/ DropBegins

Spec == Init /\ [][Next]_vars

\* The runtime polls every ready task and time passes; no process has to end, and
\* nobody has to drop the registry.
FairSpec == /\ Spec
            /\ \A t \in Threads : WF_vars(SpawnStep(t))
            /\ \A p \in Procs : WF_vars(Reap(p) \/ Finish(p)) /\ WF_vars(Expire(p))
            /\ \A x \in Terminators : WF_vars(TerminateStep(x))
            /\ WF_vars(CleanupBegins)
-----------------------------------------------------------------------------
(* Properties                                                              *)

\* Spawns that race may overshoot the limit, by no more than the threads that
\* spawn at a time.
OvershootIsBounded ==
    Cardinality(Running) <= MaxConcurrent + Cardinality(Threads) - 1

\* A process that a signal has reached is never reported to have ended by itself,
\* whoever else terminates it and whenever it ends.
SignalledIsReported ==
    \A p \in signalled : status[p] \in {"Running", "Killed", "TimedOut"}

\* The types, the number of processes, and what is said of their ends.
Inv == TypeOK /\ OvershootIsBounded /\ SignalledIsReported

\* A kill that returns without an error has stopped the process, one that ignores
\* SIGTERM too.
KillStops == \A x \in Killers : pc[x] = "ok" => child[target[x]] # "running"

\* Once the registry is dropped none of its processes runs.
NothingOutlivesTheRegistry == pc[Drop] = "ok" => \A p \in Procs : child[p] # "running"

\* Every process ends, at the end of its lifetime at the latest, unless something
\* it left behind escaped its group with its pipes; and every call of kill returns.
EverythingEnds ==
    /\ \A p \in Procs : Helper[p] # "escaped" => [](status[p] = "Running" => <>(status[p] \in Final))
    /\ \A x \in Killers : [](pc[x] = "queue" => <>(pc[x] \in {"ok", "error", "gone"}))
=============================================================================
