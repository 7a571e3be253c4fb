-------------------------- MODULE Scheduler_proofs --------------------------
(***************************************************************************)
(* Proofs about Scheduler, for all jobs, schedules and triggers: the types *)
(* and the counts, and that ticks take a job once for each time it is due. *)
(***************************************************************************)
EXTENDS Scheduler, TLAPS

\* Copies are of jobs that were created, and only those were taken by a tick; a job that a
\* tick works on is no longer listed.
KnownInv ==
    /\ DOMAIN tick.listed \subseteq created
    /\ tick.at = "idle" => DOMAIN tick.listed = {}
    /\ tick.at \in {"advance", "send", "persist"} => tick.id \in created \ DOMAIN tick.listed
    /\ \A t \in Triggers : trigger[t].at \in {"send", "persist"} => trigger[t].id \in created
    /\ \A j \in Jobs \ created : done[j] = {}

\* Every copy of a job counts no more runs than there were, nor with the one under way.
CountInv ==
    /\ CountWithinSent
    /\ \A j \in DOMAIN tick.listed : tick.listed[j].count <= sent[j]
    /\ tick.at \in {"advance", "send"} => tick.job.count <= sent[tick.id]
    /\ tick.at = "persist" => tick.job.count + 1 <= sent[tick.id]
    /\ \A t \in Triggers : /\ trigger[t].at = "send" => trigger[t].job.count <= sent[trigger[t].id]
                           /\ trigger[t].at = "persist" => trigger[t].job.count + 1 <= sent[trigger[t].id]

\* The times for which a job was taken lie before the next one of a copy.
IsLater(j, job) ==
    job.next # NONE => \A d \in done[j] : d < job.next \/ (d = job.next /\ BeginsAt(job.schedule, job.next))

\* So it is with the job that is stored, with the copies that a tick has listed, all of which
\* are due, and with the one it works on.
LaterInv ==
    /\ \A j \in DOMAIN jobs : IsLater(j, jobs[j])
    /\ \A j \in DOMAIN tick.listed :
           IsLater(j, tick.listed[j]) /\ tick.listed[j].next # NONE /\ tick.listed[j].next <= tick.time
    /\ tick.at = "advance" => tick.job.next # NONE /\ tick.job.next <= tick.time
    /\ tick.at \in {"advance", "send", "persist"} => IsLater(tick.id, tick.job)

IInv == TypeOK /\ KnownInv /\ CountInv /\ LaterInv
-----------------------------------------------------------------------------
(* Times and copies.                                                       *)

\* The next run is after the time, unless the period begins at that time.
LEMMA NextAfterRunIs ==
    ASSUME NEW s \in Schedules, NEW time \in Nat
    PROVE  /\ NextRun(s, time) \in Nat
           /\ LET n == NextAfterRun(s, time) IN
              n = NONE \/ (n \in Nat /\ (time < n \/ (time = n /\ BeginsAt(s, n))))
<1>1. s.kind \in {"At", "Every", "Cron"} /\ s.at \in Nat /\ s.every \in Nat \ {0} /\ s.anchor \in Nat \cup {NONE}
  BY SchedulerAssumption
<1>2. \A d \in Nat, e \in Nat \ {0} : (d \div e + 1) * e \in Nat /\ d < (d \div e + 1) * e
  <2>1. SUFFICES ASSUME NEW d \in Nat, NEW e \in Nat \ {0}
                 PROVE  (d \div e + 1) * e \in Nat /\ d < (d \div e + 1) * e
    OBVIOUS
  <2>2. d \div e \in Nat /\ d < e * (d \div e) + e
    OBVIOUS
  <2>3. PICK q \in Nat : q = d \div e /\ d < e * q + e
    BY <2>2
  <2>4. (q + 1) * e = e * q + e /\ (q + 1) * e \in Nat
    OBVIOUS
  <2>. QED  BY <2>3, <2>4
<1>3. CASE s.kind = "At"
  BY <1>1, <1>3 DEF NextRun, NextAfterRun
<1>4. CASE s.kind = "Cron"
  <2>1. NextRun(s, time) = (time \div s.every + 1) * s.every /\ NextAfterRun(s, time) = NextRun(s, time)
    BY <1>4 DEF NextRun, NextAfterRun
  <2>. QED  BY <1>1, <1>2, <2>1
<1>5. CASE s.kind = "Every"
  <2>1. NextRun(s, time) = NextEvery(s, time) /\ NextAfterRun(s, time) = NextRun(s, time)
    BY <1>5 DEF NextRun, NextAfterRun
  <2>2. CASE s.anchor = NONE
    BY <1>5, <2>1, <2>2 DEF NextEvery, BeginsAt
  <2>3. CASE s.anchor # NONE /\ time <= s.anchor
    BY <1>1, <1>5, <2>1, <2>3 DEF NextEvery, BeginsAt
  <2>4. CASE s.anchor # NONE /\ ~(time <= s.anchor)
    <3>1. PICK k \in Nat : k = s.anchor
      BY <1>1, <2>4
    <3>2. time - k \in Nat /\ NextEvery(s, time) = k + ((time - k) \div s.every + 1) * s.every
      BY <2>4, <3>1 DEF NextEvery
    <3>3. PICK n \in Nat : n = ((time - k) \div s.every + 1) * s.every /\ time - k < n
      BY <1>1, <1>2, <3>2
    <3>. QED  BY <2>1, <3>2, <3>3
  <2>. QED  BY <2>2, <2>3, <2>4
<1>. QED  BY <1>1, <1>3, <1>4, <1>5

LEMMA PostRunIs ==
    ASSUME NEW job \in JobType
    PROVE  /\ PostRun(job) \in JobType /\ PostRun(job).count = job.count + 1
           /\ PostRun(job).schedule = job.schedule /\ PostRun(job).next \in {job.next, NONE}
<1>1. /\ job.schedule \in Schedules /\ job.enabled \in BOOLEAN
      /\ job.next \in Nat \cup {NONE} /\ job.count \in Nat
  BY DEF JobType
<1>2. PICK b \in BOOLEAN : b = (job.enabled /\ job.schedule.kind # "At")
  BY <1>1, Zenon
<1>3. PICK n \in {job.next, NONE} : n = IF job.schedule.kind = "At" THEN NONE ELSE job.next
  OBVIOUS
<1>4. PostRun(job) = [schedule |-> job.schedule, enabled |-> b, next |-> n, count |-> job.count + 1]
  BY <1>2, <1>3, Zenon DEF PostRun
<1>. QED  BY <1>1, <1>3, <1>4 DEF JobType

LEMMA AdvanceIs ==
    ASSUME NEW job \in JobType, NEW next \in Nat \cup {NONE}
    PROVE  LET j == [job EXCEPT !.next = next] IN
           j \in JobType /\ j.count = job.count /\ j.schedule = job.schedule /\ j.next = next
BY DEF JobType

LEMMA PutIs ==
    ASSUME NEW j, NEW job, Put(j, job)
    PROVE  /\ DOMAIN jobs' = DOMAIN jobs \cup {j} /\ jobs'[j] = job
           /\ \A i \in DOMAIN jobs \ {j} : jobs'[i] = jobs[i]
BY DEF Put

LEMMA PutOther ==
    ASSUME NEW j, NEW job, Put(j, job), NEW i \in DOMAIN jobs', i # j
    PROVE  i \in DOMAIN jobs /\ jobs'[i] = jobs[i]
BY DEF Put

\* The fields of a tick, and of one that goes on.
LEMMA TickFields ==
    ASSUME TypeOK
    PROVE  /\ DOMAIN tick = {"at", "time", "listed", "id", "job"}
           /\ \A x : DOMAIN [tick EXCEPT !.at = x] = DOMAIN tick
           /\ DOMAIN NoTick = DOMAIN tick
           /\ NoTick.at = "idle" /\ NoTick.time = 0 /\ DOMAIN NoTick.listed = {}
BY DEF TypeOK, NoTick

TickGoes(at, time, listed, id, job) ==
    /\ DOMAIN tick' = DOMAIN NoTick
    /\ tick'.at = at /\ tick'.time = time /\ tick'.listed = listed /\ tick'.id = id /\ tick'.job = job

LEMMA TickGoesOn ==
    ASSUME TypeOK
    PROVE  /\ TickSend => TickGoes("persist", tick.time, tick.listed, tick.id, tick.job)
           /\ TickPersist => TickGoes("next", tick.time, tick.listed, NONE, NoJob)
           /\ Advance => TickGoes("send", tick.time, tick.listed, tick.id,
                             [tick.job EXCEPT !.next = NextAfterRun(tick.job.schedule, tick.time)])
           /\ NextJob => tick' = NoTick \/ \E j \in DOMAIN tick.listed :
                             TickGoes("advance", tick.time, [i \in DOMAIN tick.listed \ {j} |-> tick.listed[i]],
                                      j, tick.listed[j])
           /\ Tick => TickGoes("next", now, [j \in {i \in DOMAIN jobs : DueNow(i)} |-> jobs[j]], NONE, NoJob)
<1>. USE TickFields
<1>1. TickSend => TickGoes("persist", tick.time, tick.listed, tick.id, tick.job)
  BY DEF TickSend, TickGoes
<1>2. TickPersist => TickGoes("next", tick.time, tick.listed, NONE, NoJob)
  BY DEF TickPersist, TickGoes
<1>3. Advance => TickGoes("send", tick.time, tick.listed, tick.id,
                     [tick.job EXCEPT !.next = NextAfterRun(tick.job.schedule, tick.time)])
  BY DEF Advance, TickGoes
<1>4. NextJob => tick' = NoTick \/ \E j \in DOMAIN tick.listed :
                     TickGoes("advance", tick.time, [i \in DOMAIN tick.listed \ {j} |-> tick.listed[i]],
                              j, tick.listed[j])
  BY DEF NextJob, TickGoes
<1>5. Tick => TickGoes("next", now, [j \in {i \in DOMAIN jobs : DueNow(i)} |-> jobs[j]], NONE, NoJob)
  BY DEF Tick, TickGoes, NoTick
<1>. QED  BY <1>1, <1>2, <1>3, <1>4, <1>5
-----------------------------------------------------------------------------
(* The types.                                                              *)

\* In parts: the store, the tick, and the rest.
StoreTypes == /\ DOMAIN jobs \subseteq created /\ created \subseteq Jobs
              /\ \A j \in DOMAIN jobs : jobs[j] \in JobType
TickTypes ==
    /\ DOMAIN tick = DOMAIN NoTick /\ tick.at \in {"idle", "next", "advance", "send", "persist"}
    /\ tick.time \in 0..now
    /\ DOMAIN tick.listed \subseteq Jobs /\ \A j \in DOMAIN tick.listed : tick.listed[j] \in JobType
    /\ tick.at \in {"advance", "send", "persist"} => tick.id \in Jobs /\ tick.job \in JobType
TriggerTypes ==
    /\ trigger \in [Triggers -> [at : {"idle", "send", "persist", "ended"}, id : Jobs \cup {NONE},
                                 job : JobType \cup {NoJob}]]
    /\ \A t \in Triggers : trigger[t].at \in {"send", "persist"} =>
                              trigger[t].id \in Jobs /\ trigger[t].job \in JobType
OtherTypes ==
    /\ now \in 1..MaxNow
    /\ runs \in [Jobs -> Nat] /\ sent \in [Jobs -> Nat] /\ done \in [Jobs -> SUBSET Nat]
    /\ edits \in 0..MaxEdits /\ failures \in 0..MaxFailures /\ restarts \in 0..MaxRestarts

LEMMA TypesAre == TypeOK <=> StoreTypes /\ TickTypes /\ TriggerTypes /\ OtherTypes
BY DEF TypeOK, StoreTypes, TickTypes, TriggerTypes, OtherTypes

LEMMA InitTypes == Init => TypeOK
BY SchedulerAssumption DEF Init, TypeOK, NoTick, NoTrigger, JobType

\* What a step may do to the store: an access for a job puts a job in its place.
LEMMA StoreMoves ==
    ASSUME TypeOK, KnownInv, Next
    PROVE  /\ created \subseteq created' /\ created' \subseteq Jobs
           /\ \/ \A i \in DOMAIN jobs' : i \in DOMAIN jobs /\ jobs'[i] = jobs[i]
              \/ \E j \in created' : \E job \in JobType : Put(j, job)
<1>. USE TypesAre
<1>1. ASSUME NEW j \in Jobs, NEW s \in Schedules, Create(j, s)
      PROVE  /\ created' = created \cup {j}
             /\ \E job \in JobType : Put(j, job)
  <2>1. NextRun(s, now) \in Nat
    BY NextAfterRunIs, SchedulerAssumption DEF OtherTypes
  <2>. QED  BY <1>1, <2>1 DEF Create, JobType
<1>2. ASSUME NEW j \in Jobs, NEW s \in Schedules, NEW e \in BOOLEAN, Update(j, s, e)
      PROVE  created' = created /\ \E i \in created' : \E job \in JobType : Put(i, job)
  <2>1. NextRun(s, now) \in Nat /\ j \in created /\ jobs[j].count \in Nat
    BY <1>2, NextAfterRunIs, SchedulerAssumption DEF OtherTypes, Update, StoreTypes, JobType
  <2>2. PICK n \in Nat \cup {NONE} : n = IF e THEN NextRun(s, now) ELSE NONE
    BY <2>1
  <2>3. Put(j, [schedule |-> s, enabled |-> e, count |-> jobs[j].count, next |-> n])
    BY <1>2, <2>2 DEF Update
  <2>. QED  BY <1>2, <2>1, <2>3 DEF Update, Edit, JobType
<1>3. CASE Advance
  <2>1. tick.job \in JobType /\ tick.id \in created /\ tick.time \in Nat
    BY <1>3, SchedulerAssumption DEF Advance, TickTypes, KnownInv, OtherTypes
  <2>2. NextAfterRun(tick.job.schedule, tick.time) \in Nat \cup {NONE}
    BY <2>1, NextAfterRunIs DEF JobType
  <2>3. [tick.job EXCEPT !.next = NextAfterRun(tick.job.schedule, tick.time)] \in JobType
    BY <2>1, <2>2, AdvanceIs
  <2>. QED  BY <1>3, <2>1, <2>3 DEF Advance, StoreTypes, bounds
<1>4. CASE TickPersist
  BY <1>4, PostRunIs DEF TickPersist, Persist, TickTypes, StoreTypes, KnownInv, bounds
<1>5. ASSUME NEW t \in Triggers, TriggerPersist(t)
      PROVE  created' = created /\ (jobs' = jobs \/ \E j \in created' : \E job \in JobType : Put(j, job))
  BY <1>5, PostRunIs DEF TriggerPersist, Persist, PersistFails, Fails, TriggerTypes, KnownInv, bounds
<1>6. CASE Tick \/ NextJob \/ TickSend \/ TickFails \/ Restart \/ Clock
           \/ (\E t \in Triggers : TriggerSend(t) \/ \E j \in Jobs : TriggerRead(t, j))
  BY <1>6 DEF Tick, NextJob, TickSend, TickFails, PersistFails, Fails, Restart, Clock, TriggerSend,
              TriggerRead, bounds, StoreTypes
<1>7. CASE \E j \in Jobs : Delete(j)
  BY <1>7 DEF Delete, Edit, Fails, StoreTypes
<1>. QED  BY <1>1, <1>2, <1>3, <1>4, <1>5, <1>6, <1>7 DEF Next, TickStep, StoreTypes

LEMMA StoreType == ASSUME TypeOK, KnownInv, Next PROVE StoreTypes'
<1>1. CASE \A i \in DOMAIN jobs' : i \in DOMAIN jobs /\ jobs'[i] = jobs[i]
  BY <1>1, StoreMoves, TypesAre DEF StoreTypes
<1>2. ASSUME NEW j \in created', NEW job \in JobType, Put(j, job) PROVE StoreTypes'
  <2>1. /\ DOMAIN jobs' = DOMAIN jobs \cup {j} /\ jobs'[j] = job
        /\ \A i \in DOMAIN jobs \ {j} : jobs'[i] = jobs[i]
    BY <1>2, PutIs
  <2>. QED  BY <1>2, <2>1, StoreMoves, TypesAre DEF StoreTypes
<1>. QED  BY <1>1, <1>2, StoreMoves

\* What a step may do to the tick.
LEMMA TickMoves ==
    ASSUME TypeOK, Next
    PROVE  \/ tick' = tick /\ now' \in {now, now + 1}
           \/ tick' = NoTick /\ now' = now
           \/ TickStep /\ ~TickFails /\ now' = now
<1>1. CASE TickStep
  BY <1>1 DEF TickStep, Tick, NextJob, Advance, TickSend, TickPersist, TickFails, TickEnds
<1>2. CASE \E j \in Jobs : \/ Delete(j)
                           \/ \E t \in Triggers : TriggerRead(t, j)
                           \/ \E s \in Schedules : \/ Create(j, s)
                                                   \/ \E e \in BOOLEAN : Update(j, s, e)
  BY <1>2 DEF Delete, TriggerRead, Create, Update
<1>3. CASE Restart \/ Clock \/ \E t \in Triggers : TriggerSend(t) \/ TriggerPersist(t)
  BY <1>3 DEF Restart, Clock, TriggerSend, TriggerPersist
<1>. QED  BY <1>1, <1>2, <1>3 DEF Next

LEMMA TickType == ASSUME TypeOK, Next PROVE TickTypes'
<1>. USE TypesAre, SchedulerAssumption
<1>1. CASE tick' = tick /\ now' \in {now, now + 1}
  BY <1>1 DEF TickTypes, OtherTypes
<1>2. CASE tick' = NoTick /\ now' = now
  BY <1>2, TickFields DEF TickTypes, OtherTypes
<1>3. CASE now' = now /\ TickSend
  BY <1>3, TickGoesOn DEF TickTypes, TickGoes, TickSend
<1>4. CASE now' = now /\ TickPersist
  BY <1>4, TickGoesOn DEF TickTypes, TickGoes
<1>5. CASE now' = now /\ Advance
  <2>1. tick.job \in JobType /\ tick.id \in Jobs /\ tick.time \in Nat
    BY <1>5 DEF Advance, TickTypes, OtherTypes
  <2>2. NextAfterRun(tick.job.schedule, tick.time) \in Nat \cup {NONE}
    BY <2>1, NextAfterRunIs DEF JobType
  <2>3. [tick.job EXCEPT !.next = NextAfterRun(tick.job.schedule, tick.time)] \in JobType
    BY <2>1, <2>2, AdvanceIs
  <2>4. TickGoes("send", tick.time, tick.listed, tick.id,
                 [tick.job EXCEPT !.next = NextAfterRun(tick.job.schedule, tick.time)])
    BY <1>5, TickGoesOn
  <2>. QED  BY <1>5, <2>1, <2>3, <2>4 DEF TickTypes, TickGoes
<1>6. CASE now' = now /\ NextJob /\ tick' # NoTick
  <2>1. PICK j \in DOMAIN tick.listed :
            TickGoes("advance", tick.time, [i \in DOMAIN tick.listed \ {j} |-> tick.listed[i]], j, tick.listed[j])
    BY <1>6, TickGoesOn
  <2>. QED  BY <1>6, <2>1 DEF TickTypes, TickGoes
<1>7. CASE now' = now /\ Tick
  <2>1. TickGoes("next", now, [j \in {i \in DOMAIN jobs : DueNow(i)} |-> jobs[j]], NONE, NoJob)
    BY <1>7, TickGoesOn
  <2>. QED  BY <1>7, <2>1 DEF TickTypes, TickGoes, StoreTypes, OtherTypes
<1>. QED  BY <1>1, <1>2, <1>3, <1>4, <1>5, <1>6, <1>7, TickMoves DEF TickStep

LEMMA TriggerType == ASSUME TypeOK, Next PROVE TriggerTypes'
<1>. USE TypesAre
<1>1. CASE trigger' = trigger
  BY <1>1 DEF TriggerTypes
<1>2. ASSUME NEW t \in Triggers, NEW j \in Jobs, TriggerRead(t, j) PROVE TriggerTypes'
  BY <1>2 DEF TriggerRead, TriggerTypes, StoreTypes
<1>3. ASSUME NEW t \in Triggers, TriggerSend(t) PROVE TriggerTypes'
  BY <1>3 DEF TriggerSend, TriggerTypes
<1>4. [NoTrigger EXCEPT !.at = "ended"] = [at |-> "ended", id |-> NONE, job |-> NoJob]
  BY DEF NoTrigger
<1>5. ASSUME NEW t \in Triggers, TriggerPersist(t) PROVE TriggerTypes'
  BY <1>4, <1>5 DEF TriggerPersist, TriggerTypes
<1>6. CASE Restart
  BY <1>4, <1>6 DEF Restart, TriggerTypes, NoTrigger
<1>7. TickStep \/ Clock => trigger' = trigger
  BY DEF TickStep, Tick, NextJob, Advance, TickSend, TickPersist, TickFails, Clock
<1>8. ASSUME NEW j \in Jobs, Delete(j) \/ \E s \in Schedules : Create(j, s) \/ \E e \in BOOLEAN : Update(j, s, e)
      PROVE  trigger' = trigger
  BY <1>8 DEF Delete, Create, Update
<1>. QED  BY <1>1, <1>2, <1>3, <1>5, <1>6, <1>7, <1>8 DEF Next

\* Counts only grow.
LEMMA SentGrows ==
    ASSUME TypeOK, KnownInv, Next
    PROVE  \A j \in Jobs : sent'[j] \in Nat /\ sent[j] <= sent'[j]
<1>. USE TypesAre
<1>1. CASE sent' = sent
  BY <1>1 DEF OtherTypes
<1>2. CASE TickSend
  BY <1>2 DEF TickSend, OtherTypes, TickTypes
<1>3. ASSUME NEW t \in Triggers, TriggerSend(t) PROVE \A j \in Jobs : sent'[j] \in Nat /\ sent[j] <= sent'[j]
  BY <1>3 DEF TriggerSend, OtherTypes, TriggerTypes
<1>4. Tick \/ NextJob \/ Advance \/ TickPersist \/ TickFails \/ Restart \/ Clock => sent' = sent
  BY DEF Tick, NextJob, Advance, TickPersist, TickFails, Restart, Clock
<1>5. ASSUME NEW j \in Jobs, Delete(j) \/ (\E s \in Schedules : Create(j, s) \/ \E e \in BOOLEAN : Update(j, s, e))
                             \/ \E t \in Triggers : TriggerRead(t, j)
      PROVE  sent' = sent
  BY <1>5 DEF Delete, Create, Update, TriggerRead
<1>6. ASSUME NEW t \in Triggers, TriggerPersist(t) PROVE sent' = sent
  BY <1>6 DEF TriggerPersist
<1>. QED  BY <1>1, <1>2, <1>3, <1>4, <1>5, <1>6 DEF Next, TickStep

\* What ticks, triggers and users do to the history of the due times.
LEMMA DoneMoves ==
    ASSUME TypeOK, Next
    PROVE  \/ done' = done
           \/ Advance /\ done' = [done EXCEPT ![tick.id] = @ \cup {tick.job.next}]
           \/ \E j \in Jobs : done' = [done EXCEPT ![j] = {}]
<1>. USE TypesAre
<1>1. CASE Advance
  BY <1>1 DEF Advance
<1>2. TickStep /\ ~Advance => done' = done
  BY DEF TickStep, Tick, NextJob, TickSend, TickPersist, TickFails
<1>3. Restart \/ Clock => done' = done
  BY DEF Restart, Clock
<1>4. ASSUME NEW t \in Triggers PROVE TriggerSend(t) => done' = done
  BY DEF TriggerSend
<1>5. ASSUME NEW t \in Triggers, TriggerPersist(t)
      PROVE  done' = done \/ \E j \in Jobs : done' = [done EXCEPT ![j] = {}]
  BY <1>5 DEF TriggerPersist, TriggerTypes
<1>6. ASSUME NEW j \in Jobs, Delete(j) \/ (\E s \in Schedules : Create(j, s)) \/ \E t \in Triggers : TriggerRead(t, j)
      PROVE  done' = done
  BY <1>6 DEF Delete, Create, TriggerRead
<1>7. ASSUME NEW j \in Jobs, NEW s \in Schedules, NEW e \in BOOLEAN, Update(j, s, e)
      PROVE  done' = [done EXCEPT ![j] = {}]
  BY <1>7 DEF Update
<1>. QED  BY <1>1, <1>2, <1>3, <1>4, <1>5, <1>6, <1>7 DEF Next

LEMMA OtherType == ASSUME TypeOK, KnownInv, LaterInv, Next PROVE OtherTypes'
<1>. USE TypesAre, SchedulerAssumption
<1>1. now' \in 1..MaxNow
  <2>1. now' = now \/ Clock
    BY TickMoves DEF Next, TickStep, Tick, NextJob, Advance, TickSend, TickPersist, TickFails, Delete,
                     TriggerRead, Create, Update, TriggerSend, TriggerPersist, Restart
  <2>. QED  BY <2>1 DEF Clock, OtherTypes
<1>2. runs' \in [Jobs -> Nat]
  <2>1. \/ runs' = runs
        \/ \E j \in Jobs : \E n \in {0, 1} : runs' = [runs EXCEPT ![j] = @ + n]
        \/ \E j \in Jobs : runs' = [runs EXCEPT ![j] = 0]
    <3>1. CASE TickStep
      BY <3>1 DEF TickStep, Tick, NextJob, Advance, TickSend, TickPersist, TickFails, Persist, PersistFails, TickTypes
    <3>2. ASSUME NEW t \in Triggers, TriggerSend(t) \/ TriggerPersist(t)
          PROVE  runs' = runs \/ \E j \in Jobs : \E n \in {0, 1} : runs' = [runs EXCEPT ![j] = @ + n]
      BY <3>2 DEF TriggerSend, TriggerPersist, Persist, PersistFails, TriggerTypes
    <3>3. ASSUME NEW j \in Jobs, Delete(j) PROVE runs' = runs \/ runs' = [runs EXCEPT ![j] = 0]
      BY <3>3 DEF Delete
    <3>4. ASSUME NEW j \in Jobs, \/ \E t \in Triggers : TriggerRead(t, j)
                                 \/ \E s \in Schedules : Create(j, s) \/ \E e \in BOOLEAN : Update(j, s, e)
          PROVE  runs' = runs
      BY <3>4 DEF TriggerRead, Create, Update
    <3>5. Restart \/ Clock => runs' = runs
      BY DEF Restart, Clock
    <3>. QED  BY <3>1, <3>2, <3>3, <3>4, <3>5 DEF Next
  <2>2. runs \in [Jobs -> Nat]
    BY DEF OtherTypes
  <2>. QED  BY <2>1, <2>2
<1>3. sent' \in [Jobs -> Nat]
  <2>1. sent' = sent \/ \E j \in Jobs : sent' = [sent EXCEPT ![j] = @ + 1]
    <3>1. CASE TickStep
      BY <3>1 DEF TickStep, Tick, NextJob, Advance, TickSend, TickPersist, TickFails, TickTypes
    <3>2. ASSUME NEW t \in Triggers, TriggerSend(t) \/ TriggerPersist(t)
          PROVE  sent' = sent \/ \E j \in Jobs : sent' = [sent EXCEPT ![j] = @ + 1]
      BY <3>2 DEF TriggerSend, TriggerPersist, TriggerTypes
    <3>3. ASSUME NEW j \in Jobs, \/ Delete(j) \/ \E t \in Triggers : TriggerRead(t, j)
                                 \/ \E s \in Schedules : Create(j, s) \/ \E e \in BOOLEAN : Update(j, s, e)
          PROVE  sent' = sent
      BY <3>3 DEF Delete, TriggerRead, Create, Update
    <3>4. Restart \/ Clock => sent' = sent
      BY DEF Restart, Clock
    <3>. QED  BY <3>1, <3>2, <3>3, <3>4 DEF Next
  <2>2. sent \in [Jobs -> Nat]
    BY DEF OtherTypes
  <2>. QED  BY <2>1, <2>2
<1>4. done' \in [Jobs -> SUBSET Nat]
  <2>1. done \in [Jobs -> SUBSET Nat]
    BY DEF OtherTypes
  <2>2. Advance => tick.id \in Jobs /\ tick.job.next \in Nat
    BY DEF Advance, TickTypes, LaterInv, JobType
  <2>. QED  BY <2>1, <2>2, DoneMoves
<1>5. edits' \in 0..MaxEdits /\ failures' \in 0..MaxFailures /\ restarts' \in 0..MaxRestarts
  <2>1. /\ edits' = edits \/ (edits < MaxEdits /\ edits' = edits + 1)
        /\ failures' = failures \/ (failures < MaxFailures /\ failures' = failures + 1)
        /\ restarts' = restarts \/ (restarts < MaxRestarts /\ restarts' = restarts + 1)
    <3>1. CASE TickStep
      BY <3>1 DEF TickStep, Tick, NextJob, Advance, TickSend, TickPersist, TickFails, Persist, PersistFails, Fails, bounds
    <3>2. CASE \E t \in Triggers : TriggerSend(t) \/ TriggerPersist(t) \/ \E j \in Jobs : TriggerRead(t, j)
      BY <3>2 DEF TriggerSend, TriggerPersist, TriggerRead, Persist, PersistFails, Fails, bounds
    <3>3. CASE \E j \in Jobs : Delete(j) \/ \E s \in Schedules : Create(j, s) \/ \E e \in BOOLEAN : Update(j, s, e)
      BY <3>3 DEF Delete, Create, Update, Edit, Fails
    <3>4. CASE Restart \/ Clock
      BY <3>4 DEF Restart, Clock, bounds
    <3>. QED  BY <3>1, <3>2, <3>3, <3>4 DEF Next
  <2>. QED  BY <2>1 DEF OtherTypes
<1>. QED  BY <1>1, <1>2, <1>3, <1>4, <1>5 DEF OtherTypes

LEMMA TypeStep == TypeOK /\ KnownInv /\ LaterInv /\ Next => TypeOK'
BY StoreType, TickType, TriggerType, OtherType, TypesAre
   DEF TypeOK, StoreTypes, TickTypes, TriggerTypes, OtherTypes
-----------------------------------------------------------------------------
(* The jobs that were created.                                             *)

LEMMA KnownStep == TypeOK /\ KnownInv /\ Next => KnownInv'
<1>. SUFFICES ASSUME TypeOK, KnownInv, Next PROVE KnownInv'
  OBVIOUS
<1>. USE TypesAre
<1>1. /\ DOMAIN tick'.listed \subseteq created'
      /\ tick'.at = "idle" => DOMAIN tick'.listed = {}
      /\ tick'.at \in {"advance", "send", "persist"} => tick'.id \in created' \ DOMAIN tick'.listed
  <2>1. CASE tick' = tick
    BY <2>1, StoreMoves DEF KnownInv
  <2>2. CASE tick' = NoTick
    BY <2>2, TickFields
  <2>3. CASE TickSend \/ TickPersist \/ Advance
    BY <2>3, TickGoesOn, StoreMoves DEF KnownInv, TickGoes, TickSend, TickPersist, Advance
  <2>4. CASE NextJob /\ tick' # NoTick
    <3>1. PICK j \in DOMAIN tick.listed :
              TickGoes("advance", tick.time, [i \in DOMAIN tick.listed \ {j} |-> tick.listed[i]], j, tick.listed[j])
      BY <2>4, TickGoesOn
    <3>. QED  BY <2>4, <3>1, StoreMoves DEF KnownInv, TickGoes
  <2>5. CASE Tick
    <3>1. TickGoes("next", now, [j \in {i \in DOMAIN jobs : DueNow(i)} |-> jobs[j]], NONE, NoJob)
      BY <2>5, TickGoesOn
    <3>. QED  BY <2>5, <3>1, StoreMoves DEF TickGoes, StoreTypes
  <2>. QED  BY <2>1, <2>2, <2>3, <2>4, <2>5, TickMoves DEF TickStep
<1>2. \A t \in Triggers : trigger'[t].at \in {"send", "persist"} => trigger'[t].id \in created'
  <2>1. CASE trigger' = trigger
    BY <2>1, StoreMoves DEF KnownInv
  <2>2. ASSUME NEW t \in Triggers, NEW j \in Jobs, TriggerRead(t, j) PROVE  \A x \in Triggers : trigger'[x].at \in {"send", "persist"} => trigger'[x].id \in created'
    BY <2>2, StoreMoves DEF TriggerRead, TriggerTypes, StoreTypes, KnownInv
  <2>3. ASSUME NEW t \in Triggers, TriggerSend(t) \/ TriggerPersist(t) PROVE  \A x \in Triggers : trigger'[x].at \in {"send", "persist"} => trigger'[x].id \in created'
    BY <2>3, StoreMoves DEF TriggerSend, TriggerPersist, TriggerTypes, KnownInv, NoTrigger
  <2>4. CASE Restart
    BY <2>4 DEF Restart, NoTrigger
  <2>5. TickStep \/ Clock => trigger' = trigger
    BY DEF TickStep, Tick, NextJob, Advance, TickSend, TickPersist, TickFails, Clock
  <2>6. ASSUME NEW j \in Jobs, Delete(j) \/ \E s \in Schedules : Create(j, s) \/ \E e \in BOOLEAN : Update(j, s, e)
        PROVE  trigger' = trigger
    BY <2>6 DEF Delete, Create, Update
  <2>. QED  BY <2>1, <2>2, <2>3, <2>4, <2>5, <2>6 DEF Next
<1>3. \A j \in Jobs \ created' : done'[j] = {}
  <2>1. Advance => tick.id \in created
    BY DEF Advance, KnownInv
  <2>2. done \in [Jobs -> SUBSET Nat] /\ \A j \in Jobs \ created : done[j] = {}
    BY DEF OtherTypes, KnownInv
  <2>. QED  BY <2>1, <2>2, DoneMoves, StoreMoves
<1>. QED  BY <1>1, <1>2, <1>3 DEF KnownInv
-----------------------------------------------------------------------------
(* The counts.                                                             *)

LEMMA StoredCount ==
    ASSUME TypeOK, KnownInv, CountInv, Next
    PROVE  \A i \in DOMAIN jobs' : jobs'[i].count <= sent[i]
<1>. USE TypesAre
<1>1. CASE \A i \in DOMAIN jobs' : i \in DOMAIN jobs /\ jobs'[i] = jobs[i]
  BY <1>1 DEF CountInv, CountWithinSent
<1>2. ASSUME NEW j, NEW job, Put(j, job), job.count <= sent[j]
      PROVE  \A i \in DOMAIN jobs' : jobs'[i].count <= sent[i]
  BY <1>2, PutIs, ZenonT(40) DEF CountInv, CountWithinSent
<1>3. ASSUME NEW j \in Jobs, NEW s \in Schedules, Create(j, s)
      PROVE  \E job : Put(j, job) /\ job.count <= sent[j]
  BY <1>3 DEF Create, OtherTypes
<1>4. ASSUME NEW j \in Jobs, NEW s \in Schedules, NEW e \in BOOLEAN, Update(j, s, e)
      PROVE  \E job : Put(j, job) /\ job.count <= sent[j]
  BY <1>4 DEF Update, CountInv, CountWithinSent
<1>5. CASE Advance
  <2>1. tick.job \in JobType /\ tick.id \in created /\ tick.time \in Nat
    BY <1>5, SchedulerAssumption DEF Advance, TickTypes, KnownInv, OtherTypes
  <2>2. NextAfterRun(tick.job.schedule, tick.time) \in Nat \cup {NONE}
    BY <2>1, NextAfterRunIs DEF JobType
  <2>3. [tick.job EXCEPT !.next = NextAfterRun(tick.job.schedule, tick.time)].count = tick.job.count
    BY <2>1, <2>2, AdvanceIs
  <2>. QED  BY <1>2, <1>5, <2>3 DEF Advance, CountInv
<1>6. CASE TickPersist
  <2>1. PostRun(tick.job).count = tick.job.count + 1
    BY <1>6, PostRunIs DEF TickPersist, TickTypes
  <2>. QED  BY <1>2, <1>6, <2>1 DEF TickPersist, Persist, CountInv
<1>7. ASSUME NEW t \in Triggers, TriggerPersist(t), jobs' # jobs
      PROVE  \E j : \E job : Put(j, job) /\ job.count <= sent[j]
  <2>1. PostRun(trigger[t].job).count = trigger[t].job.count + 1
    BY <1>7, PostRunIs DEF TriggerPersist, TriggerTypes
  <2>2. Put(trigger[t].id, PostRun(trigger[t].job))
    BY <1>7 DEF TriggerPersist, Persist, PersistFails
  <2>. QED  BY <1>7, <2>1, <2>2 DEF TriggerPersist, CountInv
<1>8. CASE Tick \/ NextJob \/ TickSend \/ TickFails \/ Restart \/ Clock
           \/ (\E t \in Triggers : TriggerSend(t) \/ \E j \in Jobs : TriggerRead(t, j))
  BY <1>1, <1>8 DEF Tick, NextJob, TickSend, TickFails, PersistFails, Restart, Clock, TriggerSend, TriggerRead
<1>9. CASE \E j \in Jobs : Delete(j)
  BY <1>1, <1>9 DEF Delete
<1>. QED  BY <1>1, <1>2, <1>3, <1>4, <1>5, <1>6, <1>7, <1>8, <1>9 DEF Next, TickStep

LEMMA CountStep == TypeOK /\ KnownInv /\ CountInv /\ Next => CountInv'
<1>. SUFFICES ASSUME TypeOK, KnownInv, CountInv, Next PROVE CountInv'
  OBVIOUS
<1>. USE TypesAre
<1>1. \A j \in Jobs : sent[j] \in Nat /\ sent'[j] \in Nat /\ sent[j] <= sent'[j]
  BY SentGrows DEF OtherTypes
<1>2. \A i \in DOMAIN jobs' : jobs'[i].count <= sent'[i]
  <2>1. \A i \in DOMAIN jobs' : i \in Jobs /\ jobs'[i].count \in Nat
    BY StoreType DEF StoreTypes, JobType
  <2>. QED  BY <1>1, <2>1, StoredCount
<1>3. /\ \A j \in DOMAIN tick.listed : j \in Jobs /\ tick.listed[j].count \in Nat
      /\ tick.at \in {"advance", "send", "persist"} => tick.id \in Jobs /\ tick.job.count \in Nat
  BY DEF TickTypes, JobType
<1>4. /\ \A j \in DOMAIN tick'.listed : tick'.listed[j].count <= sent'[j]
      /\ tick'.at \in {"advance", "send"} => tick'.job.count <= sent'[tick'.id]
      /\ tick'.at = "persist" => tick'.job.count + 1 <= sent'[tick'.id]
  <2>1. CASE tick' = tick
    BY <1>1, <1>3, <2>1 DEF CountInv
  <2>2. CASE tick' = NoTick
    BY <2>2, TickFields
  <2>3. CASE TickSend
    <3>1. TickGoes("persist", tick.time, tick.listed, tick.id, tick.job) /\ tick.at = "send"
      BY <2>3, TickGoesOn DEF TickSend
    <3>2. sent'[tick.id] = sent[tick.id] + 1
      BY <2>3, <1>3 DEF TickSend, OtherTypes
    <3>. QED  BY <1>1, <1>3, <3>1, <3>2 DEF TickGoes, CountInv
  <2>4. CASE TickPersist
    BY <1>1, <1>3, <2>4, TickGoesOn DEF TickGoes, CountInv
  <2>5. CASE Advance
    <3>1. tick.job \in JobType /\ tick.id \in Jobs /\ tick.time \in Nat /\ tick.at = "advance"
      BY <2>5, SchedulerAssumption DEF Advance, TickTypes, OtherTypes
    <3>2. NextAfterRun(tick.job.schedule, tick.time) \in Nat \cup {NONE}
      BY <3>1, NextAfterRunIs DEF JobType
    <3>3. [tick.job EXCEPT !.next = NextAfterRun(tick.job.schedule, tick.time)].count = tick.job.count
      BY <3>1, <3>2, AdvanceIs
    <3>4. TickGoes("send", tick.time, tick.listed, tick.id,
                   [tick.job EXCEPT !.next = NextAfterRun(tick.job.schedule, tick.time)])
      BY <2>5, TickGoesOn
    <3>. QED  BY <1>1, <1>3, <3>1, <3>3, <3>4 DEF TickGoes, CountInv
  <2>6. CASE NextJob /\ tick' # NoTick
    <3>1. PICK j \in DOMAIN tick.listed :
              TickGoes("advance", tick.time, [i \in DOMAIN tick.listed \ {j} |-> tick.listed[i]], j, tick.listed[j])
      BY <2>6, TickGoesOn
    <3>. QED  BY <1>1, <1>3, <3>1 DEF TickGoes, CountInv
  <2>7. CASE Tick
    <3>1. TickGoes("next", now, [j \in {i \in DOMAIN jobs : DueNow(i)} |-> jobs[j]], NONE, NoJob)
      BY <2>7, TickGoesOn
    <3>2. \A j \in DOMAIN jobs : j \in Jobs /\ jobs[j].count \in Nat /\ jobs[j].count <= sent[j]
      BY DEF StoreTypes, JobType, CountInv, CountWithinSent
    <3>. QED  BY <1>1, <3>1, <3>2 DEF TickGoes
  <2>. QED  BY <2>1, <2>2, <2>3, <2>4, <2>5, <2>6, <2>7, TickMoves DEF TickStep
<1>5. \A t \in Triggers : /\ trigger'[t].at = "send" => trigger'[t].job.count <= sent'[trigger'[t].id]
                          /\ trigger'[t].at = "persist" => trigger'[t].job.count + 1 <= sent'[trigger'[t].id]
  <2>1. \A t \in Triggers : trigger[t].at \in {"send", "persist"} =>
            trigger[t].id \in Jobs /\ trigger[t].job.count \in Nat
    BY DEF TriggerTypes, JobType
  <2>2. ASSUME NEW t \in Triggers, trigger'[t] = trigger[t]
        PROVE  /\ trigger'[t].at = "send" => trigger'[t].job.count <= sent'[trigger'[t].id]
               /\ trigger'[t].at = "persist" => trigger'[t].job.count + 1 <= sent'[trigger'[t].id]
    BY <1>1, <2>1, <2>2 DEF CountInv
  <2>3. ASSUME NEW t \in Triggers, NEW j \in Jobs, TriggerRead(t, j)
        PROVE  /\ \A x \in Triggers \ {t} : trigger'[x] = trigger[x]
               /\ trigger'[t].at = "send" /\ trigger'[t].job.count <= sent'[trigger'[t].id]
    <3>1. trigger'[t] = [at |-> "send", id |-> j, job |-> jobs[j]] /\ j \in DOMAIN jobs
      BY <2>3 DEF TriggerRead, TriggerTypes
    <3>2. jobs[j].count \in Nat /\ jobs[j].count <= sent[j]
      BY <3>1 DEF StoreTypes, JobType, CountInv, CountWithinSent
    <3>. QED  BY <1>1, <2>3, <3>1, <3>2 DEF TriggerRead, TriggerTypes
  <2>4. ASSUME NEW t \in Triggers, TriggerSend(t)
        PROVE  /\ \A x \in Triggers \ {t} : trigger'[x] = trigger[x]
               /\ trigger'[t].at = "persist" /\ trigger'[t].job.count + 1 <= sent'[trigger'[t].id]
    <3>1. /\ trigger[t].at = "send" /\ trigger'[t].at = "persist"
          /\ trigger'[t].id = trigger[t].id /\ trigger'[t].job = trigger[t].job
          /\ \A x \in Triggers \ {t} : trigger'[x] = trigger[x]
      BY <2>4 DEF TriggerSend, TriggerTypes
    <3>2. sent'[trigger[t].id] = sent[trigger[t].id] + 1
      BY <2>1, <2>4, <3>1 DEF TriggerSend, OtherTypes
    <3>. QED  BY <1>1, <2>1, <3>1, <3>2 DEF CountInv
  <2>5. ASSUME NEW t \in Triggers, TriggerPersist(t)
        PROVE  trigger'[t].at = "ended" /\ \A x \in Triggers \ {t} : trigger'[x] = trigger[x]
    BY <2>5 DEF TriggerPersist, TriggerTypes, NoTrigger
  <2>6. Restart => \A t \in Triggers : trigger'[t].at \in {"idle", "ended"}
    BY DEF Restart, NoTrigger
  <2>7. TickStep \/ Clock => trigger' = trigger
    BY DEF TickStep, Tick, NextJob, Advance, TickSend, TickPersist, TickFails, Clock
  <2>8. ASSUME NEW j \in Jobs, Delete(j) \/ \E s \in Schedules : Create(j, s) \/ \E e \in BOOLEAN : Update(j, s, e)
        PROVE  trigger' = trigger
    BY <2>8 DEF Delete, Create, Update
  <2>. QED  BY <2>2, <2>3, <2>4, <2>5, <2>6, <2>7, <2>8 DEF Next
<1>. QED  BY <1>2, <1>4, <1>5 DEF CountInv, CountWithinSent
-----------------------------------------------------------------------------
(* The due times.                                                          *)

\* Less done leaves a copy later, and the same next run, or none, does.
LEMMA LaterStays ==
    ASSUME NEW j \in Jobs, NEW a, NEW b, IsLater(j, a), done'[j] \subseteq done[j],
           b.next = NONE \/ (b.next = a.next /\ b.schedule = a.schedule)
    PROVE  IsLater(j, b)'
BY DEF IsLater

LEMMA LaterFresh ==
    ASSUME NEW j, NEW b, done'[j] = {}
    PROVE  IsLater(j, b)'
BY DEF IsLater

\* A tick that takes a job for one time will take it next for a later one.
LEMMA AdvanceLater ==
    ASSUME TypeOK, KnownInv, LaterInv, Advance,
           NEW j, j = tick.id,
           NEW job, job = [tick.job EXCEPT !.next = NextAfterRun(tick.job.schedule, tick.time)]
    PROVE  IsLater(j, job)'
<1>1. tick.job \in JobType /\ tick.id \in Jobs /\ tick.time \in Nat
  BY TypesAre, SchedulerAssumption DEF Advance, TickTypes, OtherTypes
<1>2. PICK n \in Nat \cup {NONE} :
          /\ n = NextAfterRun(tick.job.schedule, tick.time)
          /\ n = NONE \/ tick.time < n \/ (tick.time = n /\ BeginsAt(tick.job.schedule, n))
  BY <1>1, NextAfterRunIs DEF JobType
<1>3. job.next = n /\ job.schedule = tick.job.schedule
  BY <1>1, <1>2, AdvanceIs
<1>4. done'[tick.id] = done[tick.id] \cup {tick.job.next} /\ done[tick.id] \subseteq Nat
  BY <1>1, TypesAre DEF Advance, OtherTypes
<1>5. /\ tick.job.next \in Nat /\ tick.job.next <= tick.time
      /\ \A d \in done[tick.id] : d <= tick.job.next
  BY <1>1, <1>4 DEF LaterInv, Advance, IsLater, JobType
<1>6. \A d \in done'[j] : d \in Nat /\ d <= tick.time
  BY <1>1, <1>4, <1>5
<1>7. n # NONE => \A d \in done'[j] : d < n \/ (d = n /\ BeginsAt(tick.job.schedule, n))
  BY <1>1, <1>2, <1>6
<1>. QED  BY <1>3, <1>7 DEF IsLater

LEMMA StoredLater ==
    ASSUME TypeOK, KnownInv, LaterInv, Next, NEW i \in DOMAIN jobs'
    PROVE  IsLater(i, jobs[i])'
<1>. USE TypesAre
<1>1. PICK new : new = jobs'[i]
  OBVIOUS
<1>. SUFFICES IsLater(i, new)'
  BY <1>1 DEF IsLater
<1>2. i \in Jobs
  BY StoreType DEF StoreTypes
\* A job that is left alone, while others may be taken.
<1>3. ASSUME i \in DOMAIN jobs, jobs'[i] = jobs[i], done'[i] \subseteq done[i] PROVE IsLater(i, new)'
  <2>1. PICK old : old = jobs[i]
    OBVIOUS
  <2>2. IsLater(i, old)
    BY <1>3, <2>1 DEF LaterInv
  <2>. QED  BY <1>1, <1>2, <1>3, <2>1, <2>2, LaterStays
<1>4. done \in [Jobs -> SUBSET Nat]
  BY DEF OtherTypes
<1>5. CASE Advance
  <2>1. PICK j : j = tick.id
    OBVIOUS
  <2>2. PICK job : job = [tick.job EXCEPT !.next = NextAfterRun(tick.job.schedule, tick.time)]
    OBVIOUS
  <2>3. Put(j, job) /\ done' = [done EXCEPT ![j] = @ \cup {tick.job.next}]
    BY <1>5, <2>1, <2>2 DEF Advance
  <2>4. CASE i = j
    <3>1. IsLater(j, job)'
      BY <1>5, <2>1, <2>2, AdvanceLater
    <3>2. new = job
      BY <1>1, <2>3, <2>4, PutIs
    <3>. QED  BY <2>4, <3>1, <3>2
  <2>5. CASE i # j
    <3>1. i \in DOMAIN jobs /\ jobs'[i] = jobs[i]
      BY <2>3, <2>5, PutOther
    <3>. QED  BY <1>2, <1>3, <1>4, <2>3, <2>5, <3>1
  <2>. QED  BY <2>4, <2>5
<1>6. CASE TickPersist
  <2>1. PICK j, job : j = tick.id /\ job = tick.job
    OBVIOUS
  <2>2. Put(j, PostRun(job)) /\ done' = done /\ IsLater(j, job) /\ job \in JobType /\ j \in Jobs
    BY <1>6, <2>1 DEF TickPersist, Persist, LaterInv, TickTypes
  <2>3. CASE i = j
    <3>1. new = PostRun(job)
      BY <1>1, <2>2, <2>3, PutIs
    <3>. QED  BY <2>2, <2>3, <3>1, PostRunIs, LaterStays
  <2>4. CASE i # j
    <3>1. i \in DOMAIN jobs /\ jobs'[i] = jobs[i]
      BY <2>2, <2>4, PutOther
    <3>. QED  BY <1>3, <2>2, <3>1
  <2>. QED  BY <2>3, <2>4
<1>7. ASSUME NEW t \in Triggers, TriggerPersist(t) PROVE IsLater(i, new)'
  <2>1. PICK j, job : j = trigger[t].id /\ job = trigger[t].job
    OBVIOUS
  <2>2. job \in JobType /\ j \in Jobs
    BY <1>7, <2>1 DEF TriggerPersist, TriggerTypes
  <2>3. CASE jobs' = jobs /\ done' = done
    BY <1>3, <2>3
  <2>4. CASE Put(j, PostRun(job)) /\ done' = IF j \in DOMAIN jobs /\ jobs[j] = job THEN done
                                             ELSE [done EXCEPT ![j] = {}]
    <3>1. CASE i # j
      <4>1. i \in DOMAIN jobs /\ jobs'[i] = jobs[i]
        BY <2>4, <3>1, PutOther
      <4>. QED  BY <1>2, <1>3, <1>4, <2>4, <3>1, <4>1
    <3>2. CASE i = j /\ j \in DOMAIN jobs /\ jobs[j] = job
      <4>1. IsLater(j, job)
        BY <3>2 DEF LaterInv
      <4>2. new = PostRun(job)
        BY <1>1, <2>4, <3>2, PutIs
      <4>3. done' = done
        BY <2>4, <3>2
      <4>. QED  BY <2>2, <3>2, <4>1, <4>2, <4>3, PostRunIs, LaterStays
    <3>3. CASE i = j /\ ~(j \in DOMAIN jobs /\ jobs[j] = job)
      <4>1. done'[i] = {}
        BY <1>2, <1>4, <2>4, <3>3
      <4>. QED  BY <4>1, LaterFresh
    <3>. QED  BY <3>1, <3>2, <3>3
  <2>. QED  BY <1>7, <2>1, <2>3, <2>4 DEF TriggerPersist, Persist, PersistFails
<1>8. ASSUME NEW j \in Jobs, NEW s \in Schedules, Create(j, s) PROVE IsLater(i, new)'
  <2>1. PICK job : done' = done /\ j \notin created /\ Put(j, job)
    BY <1>8 DEF Create
  <2>2. CASE i = j
    BY <2>1, <2>2, LaterFresh DEF KnownInv
  <2>3. CASE i # j
    <3>1. i \in DOMAIN jobs /\ jobs'[i] = jobs[i]
      BY <2>1, <2>3, PutOther
    <3>. QED  BY <1>3, <2>1, <3>1
  <2>. QED  BY <2>2, <2>3
<1>9. ASSUME NEW j \in Jobs, NEW s \in Schedules, NEW e \in BOOLEAN, Update(j, s, e) PROVE IsLater(i, new)'
  <2>1. PICK job : done' = [done EXCEPT ![j] = {}] /\ Put(j, job)
    BY <1>9 DEF Update
  <2>2. CASE i = j
    BY <1>4, <2>1, <2>2, LaterFresh
  <2>3. CASE i # j
    <3>1. i \in DOMAIN jobs /\ jobs'[i] = jobs[i]
      BY <2>1, <2>3, PutOther
    <3>. QED  BY <1>2, <1>3, <1>4, <2>1, <2>3, <3>1
  <2>. QED  BY <2>2, <2>3
<1>10. CASE Tick \/ NextJob \/ TickSend \/ TickFails \/ Restart \/ Clock
           \/ (\E t \in Triggers : TriggerSend(t) \/ \E j \in Jobs : TriggerRead(t, j))
  BY <1>3, <1>10 DEF Tick, NextJob, TickSend, TickFails, PersistFails, Restart, Clock, TriggerSend, TriggerRead
<1>11. CASE \E j \in Jobs : Delete(j)
  BY <1>3, <1>11 DEF Delete
<1>. QED  BY <1>5, <1>6, <1>7, <1>8, <1>9, <1>10, <1>11 DEF Next, TickStep

\* The copies a tick has listed are of other jobs than the one it takes.
LEMMA ListedLater ==
    ASSUME TypeOK, KnownInv, LaterInv, Next, NEW j \in DOMAIN tick'.listed
    PROVE  /\ (IsLater(j, tick.listed[j]))'
           /\ tick'.listed[j].next # NONE /\ tick'.listed[j].next <= tick'.time
<1>. USE TypesAre
<1>1. PICK c : c = tick'.listed[j]
  OBVIOUS
<1>. SUFFICES IsLater(j, c)' /\ c.next # NONE /\ c.next <= tick'.time
  BY <1>1 DEF IsLater
<1>2. done \in [Jobs -> SUBSET Nat] /\ j \in Jobs
  BY TickType DEF OtherTypes, TickTypes
<1>3. ASSUME j \in DOMAIN tick.listed, tick.listed[j] = c, tick'.time = tick.time
      PROVE  IsLater(j, c)' /\ c.next # NONE /\ c.next <= tick'.time
  <2>1. Advance => tick.id \in Jobs /\ tick.id # j
    BY <1>3 DEF Advance, KnownInv, TickTypes
  <2>2. done'[j] \subseteq done[j]
    BY <1>2, <2>1, DoneMoves
  <2>3. IsLater(j, c)
    BY <1>3 DEF LaterInv
  <2>. QED  BY <1>2, <1>3, <2>2, <2>3, LaterStays DEF LaterInv
<1>4. CASE tick' = tick
  BY <1>1, <1>3, <1>4
<1>5. CASE tick' = NoTick
  BY <1>5, TickFields
<1>6. CASE TickSend \/ TickPersist \/ Advance
  BY <1>1, <1>3, <1>6, TickGoesOn DEF TickGoes
<1>7. CASE NextJob /\ tick' # NoTick
  <2>1. PICK i \in DOMAIN tick.listed :
            TickGoes("advance", tick.time, [x \in DOMAIN tick.listed \ {i} |-> tick.listed[x]], i, tick.listed[i])
    BY <1>7, TickGoesOn
  <2>2. j \in DOMAIN tick.listed /\ tick.listed[j] = c
    BY <1>1, <2>1 DEF TickGoes
  <2>. QED  BY <1>3, <2>1, <2>2 DEF TickGoes
<1>8. CASE Tick
  <2>1. TickGoes("next", now, [x \in {i \in DOMAIN jobs : DueNow(i)} |-> jobs[x]], NONE, NoJob)
    BY <1>8, TickGoesOn
  <2>2. j \in DOMAIN jobs /\ DueNow(j) /\ c = jobs[j] /\ tick'.time = now
    BY <1>1, <2>1 DEF TickGoes
  <2>3. done' = done /\ IsLater(j, c)
    BY <1>8, <2>2 DEF Tick, LaterInv
  <2>. QED  BY <1>2, <2>2, <2>3, LaterStays DEF DueNow, IsDue
<1>. QED  BY <1>4, <1>5, <1>6, <1>7, <1>8, TickMoves DEF TickStep

LEMMA WorkedLater ==
    ASSUME TypeOK, KnownInv, LaterInv, Next, tick'.at \in {"advance", "send", "persist"}
    PROVE  /\ (IsLater(tick.id, tick.job))'
           /\ tick'.at = "advance" => tick'.job.next # NONE /\ tick'.job.next <= tick'.time
<1>. USE TypesAre
<1>1. PICK j, c : j = tick'.id /\ c = tick'.job
  OBVIOUS
<1>. SUFFICES IsLater(j, c)' /\ (tick'.at = "advance" => c.next # NONE /\ c.next <= tick'.time)
  BY <1>1 DEF IsLater
<1>2. done \in [Jobs -> SUBSET Nat] /\ j \in Jobs
  BY <1>1, TickType DEF OtherTypes, TickTypes
<1>3. ~Advance => done'[j] \subseteq done[j]
  BY <1>2, DoneMoves
<1>4. CASE tick' = tick /\ ~Advance
  <2>1. IsLater(j, c)
    BY <1>1, <1>4 DEF LaterInv
  <2>. QED  BY <1>1, <1>2, <1>3, <1>4, <2>1, LaterStays DEF LaterInv
<1>5. CASE tick' = NoTick
  BY <1>5, TickFields
<1>6. CASE TickSend
  <2>1. ~Advance /\ tick.at = "send" /\ tick'.at = "persist" /\ j = tick.id /\ c = tick.job
    BY <1>1, <1>6, TickGoesOn DEF TickSend, Advance, TickGoes
  <2>2. IsLater(j, c)
    BY <2>1 DEF LaterInv
  <2>. QED  BY <1>2, <1>3, <2>1, <2>2, LaterStays
<1>7. CASE TickPersist
  BY <1>7, TickGoesOn DEF TickGoes
<1>8. CASE Advance
  <2>1. /\ tick'.at = "send" /\ j = tick.id
        /\ c = [tick.job EXCEPT !.next = NextAfterRun(tick.job.schedule, tick.time)]
    BY <1>1, <1>8, TickGoesOn DEF TickGoes
  <2>. QED  BY <1>8, <2>1, AdvanceLater
<1>9. CASE NextJob /\ tick' # NoTick
  <2>1. PICK i \in DOMAIN tick.listed :
            TickGoes("advance", tick.time, [x \in DOMAIN tick.listed \ {i} |-> tick.listed[x]], i, tick.listed[i])
    BY <1>9, TickGoesOn
  <2>2. j \in DOMAIN tick.listed /\ c = tick.listed[j] /\ tick'.time = tick.time /\ ~Advance
    BY <1>1, <1>9, <2>1 DEF TickGoes, NextJob, Advance
  <2>3. IsLater(j, c) /\ c.next # NONE /\ c.next <= tick.time
    BY <2>2 DEF LaterInv
  <2>. QED  BY <1>2, <1>3, <2>2, <2>3, LaterStays
<1>10. CASE Tick
  BY <1>10, TickGoesOn DEF TickGoes
<1>11. tick' = tick => ~Advance
  BY TickGoesOn DEF Advance, TickGoes
<1>. QED  BY <1>4, <1>5, <1>6, <1>7, <1>8, <1>9, <1>10, <1>11, TickMoves DEF TickStep

LEMMA LaterStep == TypeOK /\ KnownInv /\ LaterInv /\ Next => LaterInv'
BY StoredLater, ListedLater, WorkedLater DEF LaterInv
-----------------------------------------------------------------------------
(* The theorems.                                                           *)

LEMMA InitIInv == Init => IInv
<1>. SUFFICES ASSUME Init PROVE IInv
  OBVIOUS
<1>1. DOMAIN jobs = {} /\ tick.at = "idle" /\ DOMAIN tick.listed = {}
  BY DEF Init, NoTick
<1>2. \A t \in Triggers : trigger[t].at = "idle"
  BY DEF Init, NoTrigger
<1>3. \A j \in Jobs : done[j] = {}
  BY DEF Init
<1>. QED  BY <1>1, <1>2, <1>3, InitTypes DEF IInv, KnownInv, CountInv, CountWithinSent, LaterInv

LEMMA StepIInv == IInv /\ [Next]_vars => IInv'
<1>1. CASE Next
  BY <1>1, TypeStep, KnownStep, CountStep, LaterStep DEF IInv
<1>2. CASE UNCHANGED vars
  BY <1>2 DEF vars, bounds, IInv, TypeOK, KnownInv, CountInv, CountWithinSent, LaterInv, IsLater
<1>. QED  BY <1>1, <1>2

\* The inductive invariant.
THEOREM Inductive == Spec => []IInv
BY InitIInv, StepIInv, PTL DEF Spec

\* The types; and no job counts more runs than it had, whatever copies of it ticks, triggers
\* and users store over one another, and whatever fails or is restarted.
THEOREM CountsHold == Spec => []Inv
<1>1. IInv => Inv
  BY DEF IInv, CountInv, Inv
<1>. QED  BY <1>1, Inductive, PTL

\* A tick takes a job for a time at most once, across errors and restarts, unless the time
\* is the one at which the period of the job begins: advance_job_before_run stores the next
\* run before the message is sent.
THEOREM TakenOnce == Spec => OnceForEachDueTime
<1>1. IInv /\ [Next]_vars =>
          [tick.at = "advance" /\ tick'.at = "send" =>
               tick.job.next \notin done[tick.id] \/ BeginsAt(tick.job.schedule, tick.job.next)]_vars
  <2>1. SUFFICES ASSUME IInv, tick.at = "advance", tick.job.next \in done[tick.id]
                 PROVE  BeginsAt(tick.job.schedule, tick.job.next)
    OBVIOUS
  <2>2. tick.job.next # NONE /\ IsLater(tick.id, tick.job)
    BY <2>1 DEF IInv, LaterInv
  <2>3. tick.job.next \in Nat
    BY <2>1, <2>2, TypesAre DEF IInv, TickTypes, JobType
  <2>. QED  BY <2>1, <2>2, <2>3 DEF IsLater
<1>. QED  BY <1>1, Inductive, PTL DEF Spec, OnceForEachDueTime
=============================================================================
