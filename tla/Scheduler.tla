----------------------------- MODULE Scheduler -----------------------------
(***************************************************************************)
(* The cron scheduler.  A tick lists the jobs and takes those that are due *)
(* one after the other: it stores the next run, sends the message of the   *)
(* job and stores the run and the job.  A trigger by hand reads a job,     *)
(* sends and stores it in the same way.  Jobs are stored whole from the    *)
(* copy that was read, the lock of the store is held for each access       *)
(* only, and meanwhile users create, change and delete jobs.  A storage    *)
(* access may fail, and the program may be restarted at any point.         *)
(***************************************************************************)
EXTENDS Integers, Sequences, FiniteSets

CONSTANTS Jobs,         \* the ids of jobs, numbered as they are created
          Schedules,    \* the schedules that jobs may have
          Triggers,     \* requests and tool calls that run a job by hand
          MaxNow,       \* bound: the clock stops
          MaxEdits,     \* bound: changes and deletions of jobs
          MaxFailures,  \* bound: accesses of the store that fail
          MaxRestarts   \* bound: restarts

NONE == -1

\* Times are in units of the shortest period; a period is a number of them.
ASSUME SchedulerAssumption ==
    /\ Jobs \subseteq Nat /\ IsFiniteSet(Jobs)
    /\ Schedules \subseteq [kind : {"At", "Every", "Cron"}, at : Nat, every : Nat \ {0},
                            anchor : Nat \cup {NONE}]
    /\ MaxNow \in Nat \ {0} /\ \A n \in {MaxEdits, MaxFailures, MaxRestarts} : n \in Nat

VARIABLES
    now,        \* the clock
    jobs,       \* CronStore: from the ids to the jobs
    runs,       \* CronStore: how many runs are recorded of each job
    tick,       \* the tick: where it is, its time, the copies it listed, the one it works on
    trigger,    \* for each trigger: where it is, its job and its copy
    created,    \* the ids that are in use, or were
    edits, failures, restarts,
    sent,       \* history: how often the message of a job was sent, or tried to be
    done        \* history: the due times for which ticks took a job, since it was last
                \* stored by somebody else from another state

bounds == <<created, edits, failures, restarts>>
vars == <<now, jobs, runs, tick, trigger, bounds, sent, done>>

NoJob == [schedule |-> [kind |-> "At", at |-> 0, every |-> 1, anchor |-> NONE],
          enabled |-> FALSE, next |-> NONE, count |-> 0]
NoTick == [at |-> "idle", time |-> 0, listed |-> <<>>, id |-> NONE, job |-> NoJob]
NoTrigger == [at |-> "idle", id |-> NONE, job |-> NoJob]

Init ==
    /\ now = 1 /\ jobs = <<>> /\ runs = [j \in Jobs |-> 0]
    /\ tick = NoTick
    /\ trigger = [t \in Triggers |-> NoTrigger]
    /\ created = {} /\ edits = 0 /\ failures = 0 /\ restarts = 0
    /\ sent = [j \in Jobs |-> 0] /\ done = [j \in Jobs |-> {}]
-----------------------------------------------------------------------------
(* Times                                                                   *)

\* next_every_run
NextEvery(s, time) ==
    LET anchor == IF s.anchor = NONE THEN time ELSE s.anchor IN
    IF time <= anchor THEN anchor
    ELSE anchor + ((time - anchor) \div s.every + 1) * s.every

\* next_run_time; an expression of cron names a time after the one given.
NextRun(s, time) ==
    CASE s.kind = "At"    -> s.at
      [] s.kind = "Every" -> NextEvery(s, time)
      [] s.kind = "Cron"  -> (time \div s.every + 1) * s.every

NextAfterRun_Same(s, time) == IF s.kind = "At" THEN NONE ELSE time  \* A bug: due again.

\* next_run_after_execution
NextAfterRun(s, time) == IF s.kind = "At" THEN NONE ELSE NextRun(s, time)

IsDue(job, time) == job.enabled /\ job.next # NONE /\ job.next <= time
-----------------------------------------------------------------------------
(* The store                                                               *)

Put(j, job) == jobs' = [i \in DOMAIN jobs \cup {j} |-> IF i = j THEN job ELSE jobs[i]]

\* An access that fails.
Fails == failures < MaxFailures /\ failures' = failures + 1 /\ UNCHANGED <<created, edits, restarts>>

\* handle_create_job and cron_add
Create(j, s) ==
    /\ j \notin created /\ \A i \in Jobs \ created : j <= i
    /\ created' = created \cup {j}
    /\ Put(j, [schedule |-> s, enabled |-> TRUE, next |-> NextRun(s, now), count |-> 0])
    /\ UNCHANGED <<now, runs, tick, trigger, edits, failures, restarts, sent, done>>

Edit == edits < MaxEdits /\ edits' = edits + 1 /\ UNCHANGED <<created, failures, restarts>>

\* handle_update_job
Update(j, s, enabled) ==
    /\ j \in DOMAIN jobs /\ Edit
    /\ Put(j, [schedule |-> s, enabled |-> enabled, count |-> jobs[j].count,
               next |-> IF enabled THEN NextRun(s, now) ELSE NONE])
    /\ done' = [done EXCEPT ![j] = {}]
    /\ UNCHANGED <<now, runs, tick, trigger, sent>>

\* delete_job; the runs go after the job, and stay if that fails.
Delete(j) ==
    /\ j \in DOMAIN jobs
    /\ jobs' = [i \in DOMAIN jobs \ {j} |-> jobs[i]]
    /\ \/ Edit /\ runs' = [runs EXCEPT ![j] = 0]
       \/ Fails /\ UNCHANGED runs
    /\ UNCHANGED <<now, tick, trigger, sent, done>>
-----------------------------------------------------------------------------
(* A run of a job, by a tick or a trigger                                  *)

PostRun_Twice(job) ==           \* A bug: the run is counted when it is sent, and again.
    [job EXCEPT !.count = @ + 2, !.enabled = @ /\ job.schedule.kind # "At",
                !.next = IF job.schedule.kind = "At" THEN NONE ELSE @]

\* apply_post_run_updates
PostRun(job) ==
    [schedule |-> job.schedule, enabled |-> job.enabled /\ job.schedule.kind # "At",
     next |-> IF job.schedule.kind = "At" THEN NONE ELSE job.next, count |-> job.count + 1]

\* persist_run_and_job: the run, then the job, under one hold of the lock.
Persist(j, job) ==
    /\ runs' = [runs EXCEPT ![j] = @ + 1]
    /\ Put(j, PostRun(job))
    /\ UNCHANGED bounds

\* The run, or the job after it, cannot be stored.
PersistFails(j) ==
    /\ Fails
    /\ \E n \in {0, 1} : runs' = [runs EXCEPT ![j] = @ + n]
    /\ UNCHANGED jobs

DueNow_Exactly(j) == jobs[j].enabled /\ jobs[j].next = now   \* A bug: what is late is left out.

DueNow(j) == IsDue(jobs[j], now)

\* list_jobs, and which of them are due.  A tick that cannot list them, or finds none,
\* changes nothing.
Tick ==
    LET due == {j \in DOMAIN jobs : DueNow(j)} IN
    /\ tick.at = "idle" /\ due # {}
    /\ tick' = [NoTick EXCEPT !.at = "next", !.time = now, !.listed = [j \in due |-> jobs[j]]]
    /\ UNCHANGED <<now, jobs, runs, trigger, bounds, sent, done>>

\* The next one in the order of their creation.
NextJob ==
    /\ tick.at = "next"
    /\ \/ tick.listed = <<>> /\ tick' = NoTick
       \/ \E j \in DOMAIN tick.listed :
            /\ \A i \in DOMAIN tick.listed : j <= i
            /\ tick' = [tick EXCEPT !.at = "advance", !.id = j, !.job = tick.listed[j],
                                    !.listed = [i \in DOMAIN @ \ {j} |-> @[i]]]
    /\ UNCHANGED <<now, jobs, runs, trigger, bounds, sent, done>>

\* advance_job_before_run: stores the copy with its next run.
Advance ==
    /\ tick.at = "advance"
    /\ LET job == [tick.job EXCEPT !.next = NextAfterRun(tick.job.schedule, tick.time)] IN
       /\ Put(tick.id, job)
       /\ tick' = [tick EXCEPT !.at = "send", !.job = job]
    /\ done' = [done EXCEPT ![tick.id] = @ \cup {tick.job.next}]
    /\ UNCHANGED <<now, runs, trigger, bounds, sent>>

\* execute_job, which is recorded whether it succeeds or not.
TickSend ==
    /\ tick.at = "send"
    /\ sent' = [sent EXCEPT ![tick.id] = @ + 1]
    /\ tick' = [tick EXCEPT !.at = "persist"]
    /\ UNCHANGED <<now, jobs, runs, trigger, bounds, done>>

\* finalize_due_job
TickPersist ==
    /\ tick.at = "persist"
    /\ Persist(tick.id, tick.job)
    /\ tick' = [tick EXCEPT !.at = "next", !.id = NONE, !.job = NoJob]
    /\ UNCHANGED <<now, trigger, sent, done>>

TickEnds_Half == [NoTick EXCEPT !.at = "persist"]   \* A bug: the run goes on without its job.

\* What an error leaves of a tick: nothing, and run_loop waits for the next one.
TickEnds == NoTick

TickFails ==
    /\ \/ tick.at = "advance" /\ Fails /\ UNCHANGED <<jobs, runs>>
       \/ tick.at = "persist" /\ PersistFails(tick.id)
    /\ tick' = TickEnds
    /\ UNCHANGED <<now, trigger, sent, done>>

\* trigger_job
TriggerRead(t, j) ==
    /\ trigger[t] = NoTrigger /\ j \in DOMAIN jobs
    /\ trigger' = [trigger EXCEPT ![t] = [at |-> "send", id |-> j, job |-> jobs[j]]]
    /\ UNCHANGED <<now, jobs, runs, tick, bounds, sent, done>>

TriggerSend(t) ==
    /\ trigger[t].at = "send"
    /\ sent' = [sent EXCEPT ![trigger[t].id] = @ + 1]
    /\ trigger' = [trigger EXCEPT ![t].at = "persist"]
    /\ UNCHANGED <<now, jobs, runs, tick, bounds, done>>

TriggerPersist(t) ==
    /\ trigger[t].at = "persist"
    /\ LET j == trigger[t].id IN
       \/ /\ Persist(j, trigger[t].job)
          /\ done' = IF j \in DOMAIN jobs /\ jobs[j] = trigger[t].job THEN done
                     ELSE [done EXCEPT ![j] = {}]
       \/ PersistFails(j) /\ UNCHANGED done
    /\ trigger' = [trigger EXCEPT ![t] = [NoTrigger EXCEPT !.at = "ended"]]
    /\ UNCHANGED <<now, tick, sent>>

\* The program is restarted: what was under way is gone, and the store remains.
Restart ==
    /\ restarts < MaxRestarts /\ restarts' = restarts + 1
    /\ tick' = NoTick
    /\ trigger' = [t \in Triggers |-> IF trigger[t] = NoTrigger THEN NoTrigger
                                      ELSE [NoTrigger EXCEPT !.at = "ended"]]
    /\ UNCHANGED <<now, jobs, runs, created, edits, failures, sent, done>>

Clock == now < MaxNow /\ now' = now + 1
         /\ UNCHANGED <<jobs, runs, tick, trigger, bounds, sent, done>>

TickStep == Tick \/ NextJob \/ Advance \/ TickSend \/ TickPersist \/ TickFails

Next ==
    \/ TickStep
    \/ \E j \in Jobs : \/ Delete(j)
                       \/ \E t \in Triggers : TriggerRead(t, j)
                       \/ \E s \in Schedules : \/ Create(j, s)
                                               \/ \E e \in BOOLEAN : Update(j, s, e)
    \/ \E t \in Triggers : TriggerSend(t) \/ TriggerPersist(t)
    \/ Restart \/ Clock

Spec == Init /\ [][Next]_vars

\* The loop of ticks is a task of its own that nothing blocks for ever, and a trigger is
\* a request that runs to its end.
FairSpec == /\ Spec /\ WF_vars(TickStep)
            /\ \A t \in Triggers : WF_vars(TriggerSend(t) \/ TriggerPersist(t))
-----------------------------------------------------------------------------
(* Properties                                                              *)

JobType == [schedule : Schedules, enabled : BOOLEAN, next : Nat \cup {NONE}, count : Nat]

\* The types.
TypeOK ==
    /\ now \in 1..MaxNow
    /\ DOMAIN jobs \subseteq created /\ created \subseteq Jobs
    /\ \A j \in DOMAIN jobs : jobs[j] \in JobType
    /\ runs \in [Jobs -> Nat] /\ sent \in [Jobs -> Nat] /\ done \in [Jobs -> SUBSET Nat]
    /\ DOMAIN tick = DOMAIN NoTick /\ tick.at \in {"idle", "next", "advance", "send", "persist"}
    /\ tick.time \in 0..now
    /\ DOMAIN tick.listed \subseteq Jobs /\ \A j \in DOMAIN tick.listed : tick.listed[j] \in JobType
    /\ tick.at \in {"advance", "send", "persist"} => tick.id \in Jobs /\ tick.job \in JobType
    /\ trigger \in [Triggers -> [at : {"idle", "send", "persist", "ended"}, id : Jobs \cup {NONE},
                                 job : JobType \cup {NoJob}]]
    /\ \A t \in Triggers : trigger[t].at \in {"send", "persist"} =>
                              trigger[t].id \in Jobs /\ trigger[t].job \in JobType
    /\ edits \in 0..MaxEdits /\ failures \in 0..MaxFailures /\ restarts \in 0..MaxRestarts

\* A period without an anchor begins at any time, and one with an anchor at the anchor itself.
BeginsAt(schedule, time) == schedule.kind = "Every" /\ schedule.anchor \in {NONE, time}

\* Ticks take a job to be sent once for each time it is due, across errors and restarts:
\* only a user who changes the job, or a trigger that stores its older copy, makes a time
\* due again, or the period of the job when it begins at that very time.
OnceForEachDueTime ==
    [][tick.at = "advance" /\ tick'.at = "send" =>
           tick.job.next \notin done[tick.id] \/ BeginsAt(tick.job.schedule, tick.job.next)]_vars

\* The count of a job is never more than the runs it had, however copies of it are stored
\* over one another.
CountWithinSent == \A j \in DOMAIN jobs : jobs[j].count <= sent[j]

\* The types, and the counts.
Inv == TypeOK /\ CountWithinSent

\* A job that is due is run, or changed so that it is no longer due: neither an error in
\* the job before it nor one of its own keeps it waiting for ever.
DueIsHandled == \A j \in Jobs : (j \in DOMAIN jobs /\ IsDue(jobs[j], now))
                                  ~> ~(j \in DOMAIN jobs /\ IsDue(jobs[j], now))
=============================================================================
