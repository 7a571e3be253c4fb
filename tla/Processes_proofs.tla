-------------------------- MODULE Processes_proofs --------------------------
(***************************************************************************)
(* Proofs about Processes, for all processes, threads, kills and helpers   *)
(* and every limit: the types and the safety properties of the registry.   *)
(***************************************************************************)
EXTENDS Processes, FiniteSetTheorems, TLAPS

Starting == {t \in Threads : stage[t] = "start"}

\* Each thread spawns a process of its own, which is not there yet.
SpawnInv ==
    /\ \A t \in Threads : stage[t] = "idle" => spawning[t] = "none"
    /\ \A t \in Starting : spawning[t] \in Procs \ table
    /\ \A t, u \in Starting : spawning[t] = spawning[u] => t = u

\* A thread that has validated its spawn still counts.
CountInv ==
    /\ IsFiniteSet(table)
    /\ Cardinality(Running) + Cardinality(Starting) <= MaxConcurrent + Cardinality(Threads) - 1

Queued(p) == pending[p] # "none"

\* What the status of an entry says of its process.
ChildInv ==
    /\ \A p \in Procs : child[p] = "none" <=> p \notin table
    /\ \A p \in Procs : status[p] \in Final => child[p] = "reaped"
    /\ \A p \in signalled : \/ status[p] \in {"Killed", "TimedOut"}
                            \/ status[p] = "Running" /\ Queued(p)

\* Whoever signals a process has queued its termination.
TerminatorInv ==
    /\ \A x \in Terminators : todo[x] \subseteq table
    /\ \A x \in Terminators :
          pc[x] \in {"queue", "term", "wait", "kill", "last"} => target[x] \in table
    /\ \A x \in Terminators : pc[x] \in {"term", "wait", "kill", "last"} =>
          status[target[x]] # "Running" \/ Queued(target[x])
    /\ \A x \in Terminators : pc[x] = "last" => child[target[x]] # "running"
    /\ \A x \in Killers : pc[x] # "next"
    /\ \A x \in Killers : pc[x] = "ok" => target[x] \in table /\ child[target[x]] # "running"

\* What the drop has not come to yet.
Left == todo[Drop] \cup
        (IF pc[Drop] \in {"queue", "term", "wait", "kill"} THEN {target[Drop]} ELSE {})

DropInv ==
    /\ open <=> pc[Drop] = "idle"
    /\ ~open => Starting = {}
    /\ ~open => \A p \in Procs : child[p] = "running" => p \in Left
    /\ pc[Drop] = "ok" => todo[Drop] = {}

IInv == TypeOK /\ SpawnInv /\ CountInv /\ ChildInv /\ TerminatorInv /\ DropInv
-----------------------------------------------------------------------------
\* A process that runs is reported to be running.
LEMMA StatusOfChild ==
    ASSUME TypeOK, ChildInv, NEW p \in Procs, child[p] = "running"
    PROVE  p \in table /\ status[p] = "Running"
<1>1. p \in table
  <2>1. child[p] # "none"
    OBVIOUS
  <2>. QED  BY <2>1 DEF ChildInv
<1>2. status[p] # "none"
  BY <1>1 DEF TypeOK
<1>3. status[p] \notin Final
  <2>1. child[p] # "reaped"
    OBVIOUS
  <2>. QED  BY <2>1 DEF ChildInv
<1>4. status[p] \in {"none", "Running"} \cup Final
  BY DEF TypeOK
<1>. QED  BY <1>1, <1>2, <1>3, <1>4

LEMMA InitIInv == Init => IInv
<1>. SUFFICES ASSUME Init PROVE IInv
  OBVIOUS
<1>. USE ProcessAssumption DEF Init, Terminators
<1>1. TypeOK
  BY DEF TypeOK, Pcs
<1>2. SpawnInv /\ ChildInv /\ TerminatorInv /\ DropInv
  BY DEF SpawnInv, ChildInv, TerminatorInv, DropInv, Starting, Final
<1>3. Running = {} /\ Starting = {}
  BY DEF Running, Starting
<1>4. CountInv
  BY <1>3, FS_EmptySet, FS_CardinalityType DEF CountInv
<1>. QED  BY <1>1, <1>2, <1>4 DEF IInv

LEMMA TypeStep == TypeOK /\ SpawnInv /\ TerminatorInv /\ [Next]_vars => TypeOK'
<1>. SUFFICES ASSUME TypeOK, SpawnInv, TerminatorInv, [Next]_vars PROVE TypeOK'
  OBVIOUS
<1>. USE ProcessAssumption DEF registryVars, spawnVars, killVars, systemVars, Terminators, TypeOK, SpawnInv, TerminatorInv, Pcs, Final, Starting
<1>1. ASSUME NEW t \in Threads, NEW p \in Procs, Validate(t, p) PROVE TypeOK'
  BY <1>1 DEF Validate, MaySpawn, Running
<1>2. ASSUME NEW t \in Threads, Start(t) PROVE TypeOK'
  BY <1>2 DEF Start
<1>3. ASSUME NEW t \in Threads, StartFails(t) PROVE TypeOK'
  BY <1>3 DEF StartFails
<1>4. ASSUME NEW p \in Procs, ChildExits(p) PROVE TypeOK'
  BY <1>4 DEF ChildExits
<1>5. ASSUME NEW p \in Procs, HelperExits(p) PROVE TypeOK'
  BY <1>5 DEF HelperExits
<1>6. ASSUME NEW p \in Procs, Reap(p) PROVE TypeOK'
  BY <1>6 DEF Reap
<1>7. ASSUME NEW p \in Procs, Finish(p) PROVE TypeOK'
  BY <1>7 DEF Finish, PipesOpen
<1>8. ASSUME NEW p \in Procs, Expire(p) PROVE TypeOK'
  BY <1>8 DEF Expire, Running
<1>9. ASSUME NEW x \in Terminators, NextEntry(x) PROVE TypeOK'
  BY <1>9 DEF NextEntry, Goto
<1>10. ASSUME NEW x \in Terminators, Queue(x) PROVE TypeOK'
  BY <1>10 DEF Queue, Over, Goto
<1>11. ASSUME NEW x \in Terminators, Term(x) PROVE TypeOK'
  BY <1>11 DEF Term, Over, Goto, GroupLives, InGroup
<1>12. ASSUME NEW x \in Terminators, WaitEnds(x) PROVE TypeOK'
  BY <1>12 DEF WaitEnds, Over, Goto, Stopped, GroupLives, InGroup
<1>13. ASSUME NEW x \in Terminators, SigKill(x) PROVE TypeOK'
  <2>1. target[x] \in Procs
    BY <1>13 DEF SigKill
  <2>2. CASE GroupLives(target[x])
    <3>1. child' \in [Procs -> {"none", "running", "zombie", "reaped"}]
      BY <1>13, <2>1, <2>2 DEF SigKill
    <3>2. helper' \in [Procs -> BOOLEAN]
      <4>. DEFINE left == helper[target[x]] /\ ~InGroup(target[x])
      <4>1. helper' = [helper EXCEPT ![target[x]] = left]
        BY <1>13, <2>1, <2>2 DEF SigKill
      <4>2. left \in BOOLEAN
        OBVIOUS
      <4>. HIDE DEF left
      <4>. QED  BY <4>1, <4>2
    <3>3. pc' \in [Terminators -> Pcs] /\ signalled' \subseteq Procs
      BY <1>13, <2>1, <2>2 DEF SigKill, Goto
    <3>. QED  BY <1>13, <2>2, <3>1, <3>2, <3>3 DEF SigKill
  <2>3. CASE ~GroupLives(target[x])
    BY <1>13, <2>1, <2>3 DEF SigKill, Over, Goto
  <2>. QED  BY <2>2, <2>3
<1>14. ASSUME NEW x \in Terminators, LastWaitEnds(x) PROVE TypeOK'
  BY <1>14 DEF LastWaitEnds, Over, Goto
<1>15. ASSUME NEW x \in Terminators, KillDropped(x) PROVE TypeOK'
  BY <1>15 DEF KillDropped, Goto
<1>16. ASSUME NEW k \in Killers, NEW p \in Procs, Kill(k, p) PROVE TypeOK'
  BY <1>16 DEF Kill, Goto
<1>17. ASSUME CleanupBegins PROVE TypeOK'
  BY <1>17 DEF CleanupBegins, Goto, Running
<1>18. ASSUME DropBegins PROVE TypeOK'
  BY <1>18 DEF DropBegins, Goto, Running
<1>19. CASE UNCHANGED vars
  BY <1>19 DEF vars
<1>. QED
  BY <1>1, <1>2, <1>3, <1>4, <1>5, <1>6, <1>7, <1>8, <1>9, <1>10, <1>11, <1>12, <1>13, <1>14, <1>15, <1>16, <1>17, <1>18, <1>19 DEF Next, SpawnStep, TerminateStep

LEMMA SpawningStep == TypeOK /\ SpawnInv /\ ChildInv /\ [Next]_vars => SpawnInv'
<1>. SUFFICES ASSUME TypeOK, SpawnInv, ChildInv, [Next]_vars PROVE SpawnInv'
  OBVIOUS
<1>. USE ProcessAssumption DEF registryVars, spawnVars, killVars, systemVars, Terminators, TypeOK, SpawnInv, ChildInv, Starting
<1>1. ASSUME NEW t \in Threads, NEW p \in Procs, Validate(t, p) PROVE SpawnInv'
  BY <1>1 DEF Validate, MaySpawn, Running
<1>2. ASSUME NEW t \in Threads, Start(t) PROVE SpawnInv'
  BY <1>2 DEF Start
<1>3. ASSUME NEW t \in Threads, StartFails(t) PROVE SpawnInv'
  BY <1>3 DEF StartFails
<1>4. ASSUME NEW p \in Procs, ChildExits(p) PROVE SpawnInv'
  BY <1>4 DEF ChildExits
<1>5. ASSUME NEW p \in Procs, HelperExits(p) PROVE SpawnInv'
  BY <1>5 DEF HelperExits
<1>6. ASSUME NEW p \in Procs, Reap(p) PROVE SpawnInv'
  BY <1>6 DEF Reap
<1>7. ASSUME NEW p \in Procs, Finish(p) PROVE SpawnInv'
  BY <1>7 DEF Finish, PipesOpen
<1>8. ASSUME NEW p \in Procs, Expire(p) PROVE SpawnInv'
  BY <1>8 DEF Expire, Running
<1>9. ASSUME NEW x \in Terminators, NextEntry(x) PROVE SpawnInv'
  BY <1>9 DEF NextEntry, Goto
<1>10. ASSUME NEW x \in Terminators, Queue(x) PROVE SpawnInv'
  BY <1>10 DEF Queue, Over, Goto
<1>11. ASSUME NEW x \in Terminators, Term(x) PROVE SpawnInv'
  BY <1>11 DEF Term, Over, Goto, GroupLives, InGroup
<1>12. ASSUME NEW x \in Terminators, WaitEnds(x) PROVE SpawnInv'
  BY <1>12 DEF WaitEnds, Over, Goto, Stopped, GroupLives, InGroup
<1>13. ASSUME NEW x \in Terminators, SigKill(x) PROVE SpawnInv'
  BY <1>13 DEF SigKill, Over, Goto, GroupLives, InGroup
<1>14. ASSUME NEW x \in Terminators, LastWaitEnds(x) PROVE SpawnInv'
  BY <1>14 DEF LastWaitEnds, Over, Goto
<1>15. ASSUME NEW x \in Terminators, KillDropped(x) PROVE SpawnInv'
  BY <1>15 DEF KillDropped, Goto
<1>16. ASSUME NEW k \in Killers, NEW p \in Procs, Kill(k, p) PROVE SpawnInv'
  BY <1>16 DEF Kill, Goto
<1>17. ASSUME CleanupBegins PROVE SpawnInv'
  BY <1>17 DEF CleanupBegins, Goto, Running
<1>18. ASSUME DropBegins PROVE SpawnInv'
  BY <1>18 DEF DropBegins, Goto, Running
<1>19. CASE UNCHANGED vars
  BY <1>19 DEF vars
<1>. QED
  BY <1>1, <1>2, <1>3, <1>4, <1>5, <1>6, <1>7, <1>8, <1>9, <1>10, <1>11, <1>12, <1>13, <1>14, <1>15, <1>16, <1>17, <1>18, <1>19 DEF Next, SpawnStep, TerminateStep

\* Neither the entries that run nor the spawns under way grow, but for a spawn.
LEMMA Fewer ==
    ASSUME TypeOK, CountInv, table' = table, Running' \subseteq Running, Starting' \subseteq Starting
    PROVE  CountInv'
<1>1. IsFiniteSet(Running) /\ IsFiniteSet(Starting)
  BY ProcessAssumption, FS_Subset DEF CountInv, Running, Starting
<1>2. Cardinality(Running') <= Cardinality(Running) /\ Cardinality(Starting') <= Cardinality(Starting)
  BY <1>1, FS_Subset
<1>3. /\ Cardinality(Running) \in Nat /\ Cardinality(Running') \in Nat /\ Cardinality(Starting) \in Nat
      /\ Cardinality(Starting') \in Nat /\ Cardinality(Threads) \in Nat /\ MaxConcurrent \in Nat
  BY <1>1, ProcessAssumption, FS_Subset, FS_CardinalityType
<1>. QED  BY <1>2, <1>3 DEF CountInv

\* A spawn is validated below the limit, however many are under way.
LEMMA CountStep == TypeOK /\ SpawnInv /\ ChildInv /\ CountInv /\ [Next]_vars => CountInv'
<1>. SUFFICES ASSUME TypeOK, SpawnInv, ChildInv, CountInv, [Next]_vars PROVE CountInv'
  OBVIOUS
<1>. USE DEF registryVars, spawnVars, killVars, systemVars
<1>1. ASSUME NEW t \in Threads, NEW p \in Procs, Validate(t, p) PROVE CountInv'
  <2>1. Running' = Running /\ table' = table /\ Cardinality(Running) < MaxConcurrent
    BY <1>1 DEF Validate, MaySpawn, Running
  <2>2. Cardinality(Starting') <= Cardinality(Threads)
    BY ProcessAssumption, FS_Subset DEF Starting
  <2>3. /\ Cardinality(Running) \in Nat /\ Cardinality(Starting') \in Nat
        /\ Cardinality(Threads) \in Nat /\ MaxConcurrent \in Nat
    BY ProcessAssumption, FS_Subset, FS_CardinalityType DEF CountInv, Running, Starting
  <2>. QED  BY <2>1, <2>2, <2>3 DEF CountInv
<1>2. ASSUME NEW t \in Threads, Start(t) PROVE CountInv'
  <2>. DEFINE p == spawning[t]
  <2>1. t \in Starting /\ p \in Procs \ table /\ p \notin Running
    BY <1>2 DEF Start, SpawnInv, Starting, Running
  <2>2. Starting' = Starting \ {t} /\ Running' = Running \cup {p} /\ table' = table \cup {p}
    BY <1>2, <2>1 DEF Start, Starting, Running, TypeOK
  <2>3. IsFiniteSet(Running) /\ IsFiniteSet(Starting)
    BY ProcessAssumption, FS_Subset DEF CountInv, Running, Starting
  <2>4. Cardinality(Running') = Cardinality(Running) + 1 /\ IsFiniteSet(table')
    BY <2>1, <2>2, <2>3, FS_AddElement DEF CountInv
  <2>5. Cardinality(Starting') = Cardinality(Starting) - 1
    BY <2>1, <2>2, <2>3, FS_RemoveElement
  <2>6. /\ Cardinality(Running) \in Nat /\ Cardinality(Starting) \in Nat
        /\ Cardinality(Threads) \in Nat /\ MaxConcurrent \in Nat
    BY <2>3, ProcessAssumption, FS_CardinalityType
  <2>. QED  BY <2>4, <2>5, <2>6 DEF CountInv
<1>3. ASSUME NEW t \in Threads, StartFails(t) PROVE CountInv'
  BY <1>3, Fewer DEF StartFails, TypeOK, Running, Starting
<1>4. ASSUME NEW p \in Procs, Finish(p) PROVE CountInv'
  BY <1>4, Fewer DEF Finish, TypeOK, Running, Starting
<1>5. CASE UNCHANGED <<table, status, stage>>
  BY <1>5, Fewer DEF Running, Starting
<1>6. ASSUME NEW p \in Procs, ChildExits(p) \/ HelperExits(p) \/ Reap(p) \/ Expire(p)
      PROVE  UNCHANGED <<table, status, stage>>
  BY <1>6 DEF ChildExits, HelperExits, Reap, Expire
<1>7. ASSUME NEW x \in Terminators, TerminateStep(x) \/ KillDropped(x)
      PROVE  UNCHANGED <<table, status, stage>>
  BY <1>7 DEF TerminateStep, NextEntry, Queue, Term, WaitEnds, SigKill, LastWaitEnds, KillDropped
<1>8. ASSUME (\E x \in Killers, p \in Procs : Kill(x, p)) \/ CleanupBegins \/ DropBegins \/ UNCHANGED vars
      PROVE  UNCHANGED <<table, status, stage>>
  BY <1>8 DEF Kill, CleanupBegins, DropBegins, vars
<1>. QED
  BY <1>1, <1>2, <1>3, <1>4, <1>5, <1>6, <1>7, <1>8 DEF Next, SpawnStep

LEMMA ChildStep == TypeOK /\ SpawnInv /\ ChildInv /\ TerminatorInv /\ [Next]_vars => ChildInv'
<1>. SUFFICES ASSUME TypeOK, SpawnInv, ChildInv, TerminatorInv, [Next]_vars PROVE ChildInv'
  OBVIOUS
<1>. USE ProcessAssumption DEF registryVars, spawnVars, killVars, systemVars, Terminators, TypeOK, SpawnInv, ChildInv, TerminatorInv, Starting, Final, Queued
<1>1. ASSUME NEW t \in Threads, NEW p \in Procs, Validate(t, p) PROVE ChildInv'
  BY <1>1 DEF Validate, MaySpawn, Running
<1>2. ASSUME NEW t \in Threads, Start(t) PROVE ChildInv'
  BY <1>2 DEF Start
<1>3. ASSUME NEW t \in Threads, StartFails(t) PROVE ChildInv'
  BY <1>3 DEF StartFails
<1>4. ASSUME NEW p \in Procs, ChildExits(p) PROVE ChildInv'
  BY <1>4 DEF ChildExits
<1>5. ASSUME NEW p \in Procs, HelperExits(p) PROVE ChildInv'
  BY <1>5 DEF HelperExits
<1>6. ASSUME NEW p \in Procs, Reap(p) PROVE ChildInv'
  BY <1>6 DEF Reap
<1>7. ASSUME NEW p \in Procs, Finish(p) PROVE ChildInv'
  BY <1>7 DEF Finish, PipesOpen
<1>8. ASSUME NEW p \in Procs, Expire(p) PROVE ChildInv'
  BY <1>8 DEF Expire, Running
<1>9. ASSUME NEW x \in Terminators, NextEntry(x) PROVE ChildInv'
  BY <1>9 DEF NextEntry, Goto
<1>10. ASSUME NEW x \in Terminators, Queue(x) PROVE ChildInv'
  BY <1>10 DEF Queue, Over, Goto
<1>11. ASSUME NEW x \in Terminators, Term(x) PROVE ChildInv'
  <2>. DEFINE p == target[x]
  <2>1. p \in table /\ (status[p] # "Running" \/ Queued(p))
    BY <1>11 DEF Term
  <2>2. child[p] = "running" => status[p] = "Running" /\ Queued(p)
    BY <2>1, StatusOfChild
  <2>3. signalled' = signalled \/ (signalled' = signalled \cup {p} /\ child[p] = "running")
    BY <1>11 DEF Term
  <2>4. UNCHANGED <<table, status, pending, child>>
    BY <1>11 DEF Term
  <2>. QED  BY <2>1, <2>2, <2>3, <2>4
<1>12. ASSUME NEW x \in Terminators, WaitEnds(x) PROVE ChildInv'
  BY <1>12 DEF WaitEnds, Over, Goto, Stopped, GroupLives, InGroup
<1>13. ASSUME NEW x \in Terminators, SigKill(x) PROVE ChildInv'
  <2>. DEFINE p == target[x]
  <2>1. p \in table /\ (status[p] # "Running" \/ Queued(p))
    BY <1>13 DEF SigKill
  <2>2. child[p] = "running" => status[p] = "Running" /\ Queued(p)
    BY <2>1, StatusOfChild
  <2>3. signalled' = signalled \/ (signalled' = signalled \cup {p} /\ child[p] = "running")
    BY <1>13 DEF SigKill
  <2>4. UNCHANGED <<table, status, pending>>
    BY <1>13 DEF SigKill
  <2>5. child' = child \/ child' = [child EXCEPT ![p] = IF child[p] = "running" THEN "zombie" ELSE child[p]]
    BY <1>13 DEF SigKill
  <2>. HIDE DEF p
  <2>6. \A q \in Procs : (child'[q] = "none" <=> child[q] = "none") /\ (child[q] = "reaped" => child'[q] = "reaped")
    BY <2>5
  <2>. QED  BY <2>1, <2>2, <2>3, <2>4, <2>6
<1>14. ASSUME NEW x \in Terminators, LastWaitEnds(x) PROVE ChildInv'
  BY <1>14 DEF LastWaitEnds, Over, Goto
<1>15. ASSUME NEW x \in Terminators, KillDropped(x) PROVE ChildInv'
  BY <1>15 DEF KillDropped, Goto
<1>16. ASSUME NEW k \in Killers, NEW p \in Procs, Kill(k, p) PROVE ChildInv'
  BY <1>16 DEF Kill, Goto
<1>17. ASSUME CleanupBegins PROVE ChildInv'
  BY <1>17 DEF CleanupBegins, Goto, Running
<1>18. ASSUME DropBegins PROVE ChildInv'
  BY <1>18 DEF DropBegins, Goto, Running
<1>19. CASE UNCHANGED vars
  BY <1>19 DEF vars
<1>. QED
  BY <1>1, <1>2, <1>3, <1>4, <1>5, <1>6, <1>7, <1>8, <1>9, <1>10, <1>11, <1>12, <1>13, <1>14, <1>15, <1>16, <1>17, <1>18, <1>19 DEF Next, SpawnStep, TerminateStep

LEMMA TerminatorStep == TypeOK /\ SpawnInv /\ ChildInv /\ TerminatorInv /\ [Next]_vars => TerminatorInv'
<1>. SUFFICES ASSUME TypeOK, SpawnInv, ChildInv, TerminatorInv, [Next]_vars PROVE TerminatorInv'
  OBVIOUS
<1>. USE ProcessAssumption DEF registryVars, spawnVars, killVars, systemVars, Terminators, TypeOK, SpawnInv, ChildInv, TerminatorInv, Starting, Final, Queued
<1>1. ASSUME NEW t \in Threads, NEW p \in Procs, Validate(t, p) PROVE TerminatorInv'
  BY <1>1 DEF Validate, MaySpawn, Running
<1>2. ASSUME NEW t \in Threads, Start(t) PROVE TerminatorInv'
  BY <1>2 DEF Start
<1>3. ASSUME NEW t \in Threads, StartFails(t) PROVE TerminatorInv'
  BY <1>3 DEF StartFails
<1>4. ASSUME NEW p \in Procs, ChildExits(p) PROVE TerminatorInv'
  BY <1>4 DEF ChildExits
<1>5. ASSUME NEW p \in Procs, HelperExits(p) PROVE TerminatorInv'
  BY <1>5 DEF HelperExits
<1>6. ASSUME NEW p \in Procs, Reap(p) PROVE TerminatorInv'
  BY <1>6 DEF Reap
<1>7. ASSUME NEW p \in Procs, Finish(p) PROVE TerminatorInv'
  BY <1>7 DEF Finish, PipesOpen
<1>8. ASSUME NEW p \in Procs, Expire(p) PROVE TerminatorInv'
  BY <1>8 DEF Expire, Running
<1>9. ASSUME NEW x \in Terminators, NextEntry(x) PROVE TerminatorInv'
  BY <1>9 DEF NextEntry, Goto
<1>10. ASSUME NEW x \in Terminators, Queue(x) PROVE TerminatorInv'
  BY <1>10 DEF Queue, Over, Goto
<1>11. ASSUME NEW x \in Terminators, Term(x) PROVE TerminatorInv'
  BY <1>11 DEF Term, Over, Goto, GroupLives, InGroup
<1>12. ASSUME NEW x \in Terminators, WaitEnds(x) PROVE TerminatorInv'
  <2>1. target[x] \in table
    BY <1>12 DEF WaitEnds
  <2>2. CASE Stopped(target[x]) /\ Over(x, "ok")
    <3>1. child[target[x]] # "running"
      BY <2>1, <2>2, StatusOfChild DEF Stopped, GroupLives
    <3>. QED  BY <1>12, <2>1, <2>2, <3>1 DEF WaitEnds, Over, Goto
  <2>3. CASE Goto(x, "kill") /\ UNCHANGED target
    BY <1>12, <2>1, <2>3 DEF WaitEnds, Goto
  <2>. QED  BY <1>12, <2>2, <2>3 DEF WaitEnds
<1>13. ASSUME NEW x \in Terminators, SigKill(x) PROVE TerminatorInv'
  BY <1>13 DEF SigKill, Over, Goto, GroupLives, InGroup
<1>14. ASSUME NEW x \in Terminators, LastWaitEnds(x) PROVE TerminatorInv'
  BY <1>14 DEF LastWaitEnds, Over, Goto
<1>15. ASSUME NEW x \in Terminators, KillDropped(x) PROVE TerminatorInv'
  BY <1>15 DEF KillDropped, Goto
<1>16. ASSUME NEW k \in Killers, NEW p \in Procs, Kill(k, p) PROVE TerminatorInv'
  BY <1>16 DEF Kill, Goto
<1>17. ASSUME CleanupBegins PROVE TerminatorInv'
  BY <1>17 DEF CleanupBegins, Goto, Running
<1>18. ASSUME DropBegins PROVE TerminatorInv'
  BY <1>18 DEF DropBegins, Goto, Running
<1>19. CASE UNCHANGED vars
  BY <1>19 DEF vars
<1>. QED
  BY <1>1, <1>2, <1>3, <1>4, <1>5, <1>6, <1>7, <1>8, <1>9, <1>10, <1>11, <1>12, <1>13, <1>14, <1>15, <1>16, <1>17, <1>18, <1>19 DEF Next, SpawnStep, TerminateStep

LEMMA DropStep == TypeOK /\ SpawnInv /\ ChildInv /\ TerminatorInv /\ DropInv /\ [Next]_vars => DropInv'
<1>. SUFFICES ASSUME TypeOK, SpawnInv, ChildInv, TerminatorInv, DropInv, [Next]_vars PROVE DropInv'
  OBVIOUS
<1>. USE ProcessAssumption DEF registryVars, spawnVars, killVars, systemVars, Terminators, TypeOK, SpawnInv, ChildInv, TerminatorInv, DropInv, Left, Starting, Final
<1>1. ASSUME NEW t \in Threads, NEW p \in Procs, Validate(t, p) PROVE DropInv'
  BY <1>1 DEF Validate, MaySpawn, Running
<1>2. ASSUME NEW t \in Threads, Start(t) PROVE DropInv'
  BY <1>2 DEF Start
<1>3. ASSUME NEW t \in Threads, StartFails(t) PROVE DropInv'
  BY <1>3 DEF StartFails
<1>4. ASSUME NEW p \in Procs, ChildExits(p) PROVE DropInv'
  BY <1>4 DEF ChildExits
<1>5. ASSUME NEW p \in Procs, HelperExits(p) PROVE DropInv'
  BY <1>5 DEF HelperExits
<1>6. ASSUME NEW p \in Procs, Reap(p) PROVE DropInv'
  BY <1>6 DEF Reap
<1>7. ASSUME NEW p \in Procs, Finish(p) PROVE DropInv'
  BY <1>7 DEF Finish, PipesOpen
<1>8. ASSUME NEW p \in Procs, Expire(p) PROVE DropInv'
  BY <1>8 DEF Expire, Running
<1>9. ASSUME NEW x \in Terminators, NextEntry(x) PROVE DropInv'
  BY <1>9 DEF NextEntry, Goto
<1>10. ASSUME NEW x \in Terminators, Queue(x) PROVE DropInv'
  <2>1. target[x] \in table
    BY <1>10 DEF Queue
  <2>2. CASE status[target[x]] # "Running" /\ Over(x, "error")
    <3>1. child[target[x]] # "running"
      BY <2>1, <2>2, StatusOfChild
    <3>. QED  BY <1>10, <2>2, <3>1 DEF Queue, Over, Goto
  <2>3. CASE Goto(x, "term") /\ UNCHANGED target
    BY <1>10, <2>3 DEF Queue, Goto
  <2>. QED  BY <1>10, <2>2, <2>3 DEF Queue
<1>11. ASSUME NEW x \in Terminators, Term(x) PROVE DropInv'
  BY <1>11 DEF Term, Over, Goto, GroupLives, InGroup
<1>12. ASSUME NEW x \in Terminators, WaitEnds(x) PROVE DropInv'
  <2>1. target[x] \in table
    BY <1>12 DEF WaitEnds
  <2>2. CASE Stopped(target[x]) /\ Over(x, "ok")
    <3>1. child[target[x]] # "running"
      BY <2>1, <2>2, StatusOfChild DEF Stopped, GroupLives
    <3>. QED  BY <1>12, <2>2, <3>1 DEF WaitEnds, Over, Goto
  <2>3. CASE Goto(x, "kill") /\ UNCHANGED target
    BY <1>12, <2>3 DEF WaitEnds, Goto
  <2>. QED  BY <1>12, <2>2, <2>3 DEF WaitEnds
<1>13. ASSUME NEW x \in Terminators, SigKill(x) PROVE DropInv'
  BY <1>13 DEF SigKill, Over, Goto, GroupLives, InGroup
<1>14. ASSUME NEW x \in Terminators, LastWaitEnds(x) PROVE DropInv'
  BY <1>14 DEF LastWaitEnds, Over, Goto
<1>15. ASSUME NEW x \in Terminators, KillDropped(x) PROVE DropInv'
  BY <1>15 DEF KillDropped, Goto
<1>16. ASSUME NEW k \in Killers, NEW p \in Procs, Kill(k, p) PROVE DropInv'
  BY <1>16 DEF Kill, Goto
<1>17. ASSUME CleanupBegins PROVE DropInv'
  BY <1>17 DEF CleanupBegins, Goto, Running
<1>18. ASSUME DropBegins PROVE DropInv'
  <2>1. Starting' = {}
    BY <1>18 DEF DropBegins
  <2>2. \A p \in Procs : child[p] = "running" => p \in Running
    BY StatusOfChild DEF Running
  <2>3. pc'[Drop] = "next" /\ todo'[Drop] = Running /\ open' = FALSE /\ child' = child
    BY <1>18 DEF DropBegins, Goto
  <2>. QED  BY <2>1, <2>2, <2>3
<1>19. CASE UNCHANGED vars
  BY <1>19 DEF vars
<1>. QED
  BY <1>1, <1>2, <1>3, <1>4, <1>5, <1>6, <1>7, <1>8, <1>9, <1>10, <1>11, <1>12, <1>13, <1>14, <1>15, <1>16, <1>17, <1>18, <1>19 DEF Next, SpawnStep, TerminateStep

THEOREM Inductive == Spec => []IInv
<1>1. IInv /\ [Next]_vars => IInv'
  BY TypeStep, SpawningStep, CountStep, ChildStep, TerminatorStep, DropStep DEF IInv
<1>. QED  BY <1>1, InitIInv, PTL DEF Spec

-----------------------------------------------------------------------------
(* Theorems                                                                *)

\* ProcessRegistry's variables keep their types; entries have a status, and a
\* termination is pending for running entries only.
THEOREM TypeCorrect == Spec => []TypeOK
<1>1. IInv => TypeOK
  BY DEF IInv
<1>. QED  BY <1>1, Inductive, PTL

\* validate_spawn reserves nothing: threads that spawn at a time may overshoot
\* max_concurrent, but by fewer processes than there are threads.
THEOREM OvershootBounded == Spec => []OvershootIsBounded
<1>1. IInv => OvershootIsBounded
  <2>. SUFFICES ASSUME IInv PROVE OvershootIsBounded
    OBVIOUS
  <2>1. /\ Cardinality(Running) \in Nat /\ Cardinality(Starting) \in Nat
        /\ Cardinality(Threads) \in Nat /\ MaxConcurrent \in Nat
    BY ProcessAssumption, FS_Subset, FS_CardinalityType DEF IInv, CountInv, Running, Starting
  <2>. QED  BY <2>1 DEF IInv, CountInv, OvershootIsBounded
<1>. QED  BY <1>1, Inductive, PTL

\* finish prefers the termination that is pending: a process that a signal reached is
\* never reported to have ended by itself.
THEOREM SignalledReported == Spec => []SignalledIsReported
<1>1. IInv => SignalledIsReported
  BY DEF IInv, ChildInv, SignalledIsReported
<1>. QED  BY <1>1, Inductive, PTL

\* The three together.
THEOREM InvHolds == Spec => []Inv
<1>1. TypeOK /\ OvershootIsBounded /\ SignalledIsReported => Inv
  BY DEF Inv
<1>. QED  BY <1>1, TypeCorrect, OvershootBounded, SignalledReported, PTL

\* terminate_process_group escalates to SIGKILL: a kill that returns without an error
\* has stopped the process.
THEOREM KillStopsProcess == Spec => []KillStops
<1>1. IInv => KillStops
  BY DEF IInv, TerminatorInv, KillStops
<1>. QED  BY <1>1, Inductive, PTL

\* shutdown_now goes through every entry, whatever becomes of the others: no process
\* is left running once the registry is dropped.
THEOREM NothingOutlives == Spec => []NothingOutlivesTheRegistry
<1>1. IInv => NothingOutlivesTheRegistry
  BY DEF IInv, DropInv, Left, NothingOutlivesTheRegistry
<1>. QED  BY <1>1, Inductive, PTL
=============================================================================
