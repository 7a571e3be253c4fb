# A formal model of Fawx

Fawx is an agent engine in Rust: one server process holds the sessions of a user, each
session has an engine that lets a language model take *turns*, and a turn calls tools that
read and change files, run commands and start other agents. This directory models the parts
of it where several tasks meet, or one task meets failures, restarts and limits: the turn and its
budget, the runs of a session, the people who approve tool calls, the journal that undoes them, the
cache of results, the transactions on files, the subagents, the background processes, the scheduler and the bus.

TLC checks each of the ten models on a small instance; TLAPS proves the safety of all ten, every invariant,
action property and refinement that the runs check, for every value of the constants.

    tlc -workers 2 -config MC_Sessions_shared.cfg MC_Sessions.tla     # one run
    tlapm Sessions_proofs.tla                                         # one set of proofs

Contents:

1. The system
2. The modules
3. The runs, their bounds and what they show
4. Fairness
5. What is proved
6. Where the code and what it says of itself differ
7. What is not modelled
8. Plan

Paths below are relative to `src/engine/crates/`.

## 1. The system

### Parts and how they interact

    HTTP client ──► fx-api handlers ──► SessionRunRegistry   (which run a session has)
                        │               SessionEnginePool    (which engine it has)
                        │               SessionRegistry ───► SessionStore (disk)
                        │
                        ├──► LoopEngine of the session: rounds of model call + tool batch
                        │        │
                        │        ▼  the executor stack, outermost first (fx-cli/src/startup.rs:543)
                        │    TripwireEvaluator ──► RipcordJournal      (one for all sessions)
                        │    PermissionGateExecutor ──► PermissionPromptState (one for all sessions)
                        │        │        AuthorityCoordinator (one for each engine)
                        │    ProposalGateExecutor
                        │    CachingExecutor
                        │    SkillRegistry ──► tools: files, git, shell, memory,
                        │                        SubagentManager, ProcessRegistry, cron, bus
                        │
                        └──► /permission answers, ripcord pull and approve, stop, edit, delete, reload

Everything under one `Arc` that several sessions share is where the interleavings are: the
prompt state, the ripcord journal, the session registries and the response slot of the HTTP
channel are one for the process (`fx-cli/src/headless/mod.rs:2096` hands them to every
session engine); the authority coordinator, the cache of tool results and the registry of background
processes belong to one engine, whose tool calls still run in parallel tasks.

| Component | State | Operations | What is hard | What makes it correct |
|---|---|---|---|---|
| Tool approval (`fx-kernel`: `permission_gate`, `permission_prompt`, `authority`, `proposal_gate`) | pending prompts, answers remembered, session overrides; decisions cached between two gates; two expiries | classify, register, await, gate, run; resolve over HTTP; cancel, drop | four locks taken one after the other; a decision used minutes after it was made; answers racing timeouts, cancellation and each other | nothing runs that neither the policy nor a person allowed; one answer counts; nobody waits on what cannot be answered |
| Ripcord (`fx-ripcord`, `fx-api/src/handlers/ripcord.rs`) | entries, status, counts by category | evaluate a batch, activate, record; pull, approve | three locks, one of them taken within another; operators clear while sessions record; a pull or an evaluator is dropped half way | a crossing is never missed; the status tells the truth; what a pull found is reverted, reported or left for the next one |
| Subagents (`fx-subagent`) | instances, statuses, channels, tokens, handles | spawn, send, cancel, gc; the task of each | a task ends by its mode, budget, deadline, panic, abort or cancellation while parents act | the limit holds; a status is final; callers and tasks end |
| Background processes (`fx-kernel/src/process_registry.rs`) | entries with status and pending termination; process groups of the OS | spawn, kill, clean-up, drop, wait for exit | three parties signal one process that may end by itself meanwhile; helpers it leaves behind | how it ended is reported truly; a kill kills; nothing outlives the registry |
| HTTP session turns (`fx-api`: `state`, `handlers/sessions`; `fx-session`) | run of each session with token and reason; engine pool; sessions in memory and on disk; response slot | send, stop, clear, edit, delete, reload | a newer request replaces an older one that is just ending or being stopped; engines taken from the pool while held; saves outside the lock | a run that goes on can be stopped; what callers are told is true and is theirs; turns of a session do not overlap; disk follows memory |
| Loop engine (`fx-kernel/src/loop_engine/`, `budget.rs`) | phase and round of the turn, budget, retry tracker, token, channel of commands | rounds of request, answer and tool batch; continuation; last answer; stop | costs recorded after what they pay for; calls of an answer judged together; a stop consumed by whichever of three places reads it first | budget and tracker bound the work; a change is made once; a stop is obeyed; a turn ends |
| Caching executor (`fx-kernel/src/caching_executor.rs`) | results by call, order of eviction, path index, epoch | plan, execute, store, invalidate, clear | parallel calls of a batch against the order of invalidation; which tools invalidate | what is served is what a call would read, except where the cache cannot know |
| File transactions (`fx-transactions`) | staged files, originals, state | begin, stage, commit, roll back | a write, a restoration or the validation fails; the commit is dropped between two writes | all or nothing, or a named reason |
| Cron (`fx-cron`) | jobs and runs in a store | tick, trigger, create, edit, delete | a tick writes back a job read before an edit; a restart between store and send | no due time is run twice by the ticks, none waits for ever |
| Session bus (`fx-bus`) | subscribers, channels, stored envelopes | subscribe, send, drain, unsubscribe | register before drain; full and closed channels; a restart between drain and deletion | no message is lost on the way, or arrives twice or out of order, except for reasons with a name |
| Context and compaction (`context_manager`, `conversation_compactor`) | list of messages | prune, slide, summarise | tool calls must keep their results | pairs survive, newest survive |
| Everything else | | | | see section 7 |

The complete inventory, with the reason for each part that is left out, is in
`PROJECT.json` under `components`; the hazards found while reading, each with the line where
it bites and the properties that cover it, are under `hazards`.

Beyond the hazards listed there the code has some that no property covers because they are by design, out of a
model's range or plain: overrides shared by all sessions, the 24-bit ids of processes, the three locks of `clear`,
and a save that fails after the memory was changed (section 6).

## 2. The modules

| Module | What it is | Used by |
|---|---|---|
| `ToolAuthority` | what the approval pipeline promises, with no prompt, cache, timer or lock | `ToolApproval` implements it |
| `ToolApproval` | the approval pipeline | `MC_ToolApproval`, `ToolApproval_proofs` |
| `Ripcord` | tripwires and the journal | `MC_Ripcord`, `Ripcord_proofs` |
| `Subagents` | the manager and its instances | `MC_Subagents`, `Subagents_proofs` |
| `Processes` | the registry of background processes | `MC_Processes`, `Processes_proofs` |
| `Sessions` | runs, engines, turns and storage of HTTP sessions | `MC_Sessions`, `Sessions_proofs` |
| `Turn` | the turns of one engine | `MC_Turn`, `Sessions_proofs` |
| `ToolCache` | the cache in front of the tools | `MC_ToolCache`, `Ripcord_proofs` |
| `AtomicCommit` | what the transactions promise | `Transactions` implements it |
| `Transactions` | the store of transactions and its commit | `MC_Transactions`, `Transactions_proofs` |
| `Scheduler` | the scheduler, its store and the requests that change it | `MC_Scheduler`, `Scheduler_proofs` |
| `SessionBus` | the bus, its store and the applications that subscribe | `MC_SessionBus`, `SessionBus_proofs` |

The components meet where one waits for the other: a turn of `Sessions` is one atomic-looking
`Start` ... `TurnEnds`, whose inside is `Turn`; a batch of `Turn` is one `ToolsEnd`, and what its calls do
meanwhile is the subject of the modules of the approvals, the ripcord, the cache and the tools, each
of which has several sessions or callers as its environment. The modules
do not share variables, because the code does not either: a turn holds nothing of the prompt
state, of the journal or of the registries while it runs its calls.

Three conventions hold in all of them.

* **A step** is what one lock holds together, or what runs from one await, lock or read of
  shared state to the next. A function of the code that takes four locks is four actions and a
  program counter (`pc`, `op`, `req`, `task`, `cancel`, `stopPc`, `editPc`, `phase`, `step`, `tick`, `app`).
* **Time** is an age that a clock ticks and that saturates just above the limit it is
  compared with (`ToolApproval`, `Subagents`), a count of periods (`Scheduler`), or not counted at all: a
  grace period, a lifetime or the wall time of a budget may be over at any moment (`Processes`, `Turn`).
* **History variables** record what no variable of the code keeps: `answer` in `ToolApproval`,
  `effects`, `report`, `clearedBy`, `cleared` and `cut` in `Ripcord`, `signalled` in `Processes`, `overlapped` and
  `won` in `Sessions`, `seen` in `Turn`, the mark `missed` of a result in `ToolCache`, `lost` in `Transactions`,
  `sent` and `done` in `Scheduler`, `received`, `lost`, `before` and `doubtful` in `SessionBus`. They guard no action.

A definition `Name_Change` is `Name` with a bug in it, used to show that a property notices.

### ToolApproval

| Model | Code |
|---|---|
| `pending`, `promptAge`, `resolved`, `resolvedAge`, `overrides` | the maps of `PermissionPromptState`, each with its lock |
| `channel` | the oneshot channel of each prompt |
| `cache`, `cacheAge` | `AuthorityCoordinator`'s decisions, by call id |
| `Resolve` | `resolve_request`: the order of its checks is the policy |
| `Classify`, `RegisterOverridden`, `RegisterAsk`, `RegisterInsert`, `AwaitAllowed`, `AwaitEnded` | `PermissionGateExecutor::classify_calls`, `ask_permission`, `register`, `await_decision` |
| `GateCall`, `Execute` | `ProposalGateExecutor::execute_tools` |
| `Respond`, `CheckResolved`, `TakePending`, `RefuseExpired`, `ApplyOverride`, `SendDecision`, `RememberAnswer` | `handle_respond` and `PermissionPromptState::resolve` |
| `Cancel`, `Drop`, `Tick` | the cancellation token, a dropped future, the monotonic clock |

The scope that `classify_call` gives a call and the verdict of the path policy on it are
constants: the models range over policies, not over paths.

### Ripcord

`TripwireEvaluator::execute_tools` is `Execute`/`ExecuteFails`, then for each call
`Increment`, `ReadCounts`, `CheckActive`, `Activate` and the record steps; `pull_ripcord` and
`approve` are `Pull`, `RevertEntry`, `ClearEntries`, `ClearStatus`, `ClearCounts`. `RecordPush`
keeps the lock of the entries (`entriesLock`) while `RecordCount` takes the one of the status,
as `record` does. Which calls a path or an action tripwire matches is a constant; whether a
revert succeeds is a choice.

Evaluators and handlers run in the futures of requests, which are dropped at the await they have reached when
the client goes away: `SessionDropped` and `OperatorDropped`. A lock that was held is given back, the operation on a file or
on the repository that was waited for may still take effect, and what the loop of `pull_ripcord` (`fx-ripcord/src/revert.rs:40`) had
not come to stays in the journal. `report` is the `RipcordReport` of each pull as it grows, with what is listed and not handled yet.

### Subagents

`Spawn`, `GcCollect`, `GcRemove` hold the manager's lock; the task is `BeginTurn`, one of four
ends of a turn, `Receive`, `ReceiveEnds`, `Stamp`, `Reply`; `send` is `SendTo` and `Enqueue` and waits for the
reply; `cancel` goes through `CancelStart` ... `CancelStamp` without the manager's lock.
`record_terminal_status` publishes the status before the time, hence `Stamp`. A turn may
return, fail, panic, never return or be aborted at an await. Calls are numbered as they are made, so that
callers are not told apart before they call (`SendTo`, `CancelStart` take the next number); `CancelDropped` is a caller
of `cancel` that goes away while it waits.

### Processes

`spawn` is `Validate` (the count, under the lock of the map) and `Start` (the process, its
entry and the task that waits for it). `terminate_entry` is `Queue`, `Term`, `WaitEnds`, `SigKill`,
`LastWaitEnds` for each of those that call it: a kill, the clean-up, and the drop of the registry. `Reap` and
`Finish` are the task that waits for the exit. A process leaves a helper behind that keeps its pipes
or closes them, inside its group or outside it, because `wait_for_exit` reads the pipes to their
end before it reports, and `process_group_is_running` asks the group and not the process.

### Sessions

| Model | Code |
|---|---|
| `active`, `reason`, `cancelled` | `SessionRunRegistry`, `SessionRunCancelState`, the token of each run |
| `pool` | `SessionEnginePool`; an engine is named after the request that made it |
| `known`, `sessions`, `stored`, `disk`, `copy` | `SessionRegistry` and `SessionStore`; `copy` is what `update_session` has cloned and is about to save |
| `slot` | `HttpChannel::pending_response` |
| `Receive` ... `Supersede` | the handler and `SessionRunRegistry::begin`, then the cancellation of the run it replaced |
| `Load` ... `Start`, `TurnEnds`, `Finish` | `execute_session_turn`, `get_or_spawn`, the engine lock, `finish` |
| `Route`, `Take`, `Record`, `Save` | `process_and_route_session_message` and the task of a stream |
| `StopReceive` ... `StopCancel` | `handle_stop_session` and `stop` |
| `Edit`, `EditSave`, `Delete`, `Erase`, `Reload`, `Evict` | the handlers that change, clear or delete a session, and the reload of the configuration |
| `Disconnect` | the caller goes away: a request that is not streamed is dropped where it awaits |

The content of a session is the set of requests whose turns are recorded in it: which
turns are there is what the properties are about, their text is not.

### Turn

| Model | Code |
|---|---|
| `turn` | `run_cycle_streaming_inner` (`loop_engine/mod.rs`): the phase, the round, and what the last request is for |
| `used`, `Fits`, `Spend` | `BudgetTracker`, `check_at`, `record` |
| `tracker`, `Blocked`, `AfterResults`, `Cleared` | `RetryTracker`, `should_allow`, `record_results`, `clear` |
| `input`, `Drained`, `Taken`, `Polled`, `Cancelled` | the cancellation token, the channel of commands, what was read from it and the flag a stream sets |
| `BeginTurn`, `Prepare` | the session's engine gets a token and a channel; `prepare_cycle` and `perceive` |
| `Request`, `Poll`, `Continue`, `RequestFails` | a round begins; a stream looks for a stop; an answer that was too long is continued |
| `AnswerStopped`, `AnswerText`, `AnswerEmpty`, `AnswerCalls` | the checks after an answer, and what it is |
| `ToolsEnd`, `ToolsFail`, `Conclude` | the batch returns; the last answer of a turn |
| `Cancel`, `Command` | the user |

The wall time of the budget may be over at any moment, so `Fits` is needed to go on and never sufficient. The
limits of tokens and of cents are checked and recorded at the same places as the one of requests, which
stands for them. A call is a model value with a class; what a call answers is one of four outcomes.

### ToolCache

`execute_tools` is `Request`, one `PlanCall` for each call (a lookup under the lock), `RunRead`, `RunChange` and
`RunFails` in any order (the registry runs what was not found in parallel), and one `Apply` for each result in
the order of the calls. `Invalidate` and `Store` are `invalidate_for_side_effect` and `store`, whose index of
paths is computed from the keys by `Outdates`. A call names a file by a path. `normalize_path` (`caching_executor.rs:609`) works on the
text alone, so `Outdates` compares paths; the tools resolve them against the working directory (`fx-tools/src/tools.rs:806`), so `Reads`
and `Changes` go by `File`, the file of each path, and several paths may lead to one file. `Unnoticed` says which changes remove
nothing although they should. The engines stand for those that share an executor, which a
decomposition gives to its children (`decomposition.rs:1245`); the race within a batch needs only one. Results are
the versions of the files they were read from, which is what makes staleness visible.

### Transactions and AtomicCommit

`commit` is one action for each await: `Snapshot` of each file, `Write` of each, `Validate`, and after an error
`Undo` of each in the reverse order. Each may fail; a write may fail half way. `Drop` drops the future of the commit
at any of its awaits, where the write it waits for may still `Land` later, as a file operation of the runtime
is not cancelled with its future. `Outside` is another tool or the user. `AtomicCommit` has no steps between: its
`Commit` changes all the files of a transaction at once, and `Lose` gives the promise up for one of four reasons,
and even then only for that transaction's files. The refinement maps the files of a commit that is under way to
what they were when it read them.

### Scheduler

A tick is `Tick` (list the jobs), and for each due one `NextJob`, `Advance`, `TickSend`, `TickPersist`, each of which is
one hold of the lock of the store; `TickFails` is an access that fails, at which the tick ends. A trigger is
`TriggerRead`, `TriggerSend`, `TriggerPersist`. `Create`, `Update` and `Delete` are the handlers and tools.
Jobs are stored whole from the copy that was read, as in the code: that is what makes the interleavings interesting.
Time is counted in periods, and the runs of a job are counted and not listed.

### SessionBus

`send` is `Send` (the map is read and its lock given up), `Deliver` and `Enqueue`; `subscribe` is `Register`,
`ReadPending`, one `Drain` for each stored message and `DeleteBatch`; the end of an application is `Unsubscribe`
and `Close`. `Restart` leaves nothing but the store. A drain sorts as `sort_envelopes` does (`fx-bus/src/store.rs:95`), by `CreatedAt`,
which is the clock in milliseconds, and ties by `Id`, which is random: both are constants that nothing relates to the order of
sending, so messages may have one time and the clock may be set back. `Receive` is external: the program keeps the receiver and
does not poll it yet.

## 3. The runs, their bounds and what they show

States are distinct states. `Inv` (`TurnInv`, `CacheInv`) is in each module the conjunction of its type invariant with the
invariants named in parentheses; `SYM` marks a symmetry reduction.

| Run | Bounds | States | Shows |
|---|---|---|---|
| `tool_approval_shared` | 2 sessions, 3 calls, 2 requests, prompt time limit and cache lifetime of 1 tick, SYM | 1,041,638 | `Inv` (`RanIsAuthorised`), `WaiterIsReachable`, `RepliesAreTrue`, `AnsweredOnce` |
| `tool_approval_batch` | 1 session with a batch of 3 that meets every verdict, 2 requests, the same times | 738,241 | `DecisionsAreUsedUp`, `ImplementsAuthority`, `TurnsAndRequestsEnd` |
| `ripcord_shared` | 2 sessions, one with 2 calls and one with 1, 2 operators that pull or approve, a threshold of 2 | 1,041,668 | `Inv` (`CountMatchesEntries`), `CrossingIsSeen`, `ListedIsHandled`, `EverythingEnds` |
| `subagents_shared` | a one-shot and a session subagent, limit 1, 2 sends, 2 cancels, 3 calls in all | 990,396 | `Inv` (`ActiveWithinLimit`, `OverBudgetStops`), `WorkWithinLimit`, `EndIsRecorded`, `TerminalIsFinal`, `EverythingEnds` |
| `processes_shared` | 2 processes, 2 threads, limit 1, 1 kill, the clean-up and the drop | 197,406 | `Inv` (`OvershootIsBounded`, `SignalledIsReported`), `KillStops`, `NothingOutlivesTheRegistry`, `EverythingEnds` |
| `sessions_shared` | 1 session, 2 requests (one streamed), 1 stop, 1 edit | 228,739 | `Inv` (`RunIsStoppable`), `ReasonIsTrue`, `OneTurnAtATime`, `SavedAlone`, `EverythingEnds` |
| `sessions_reply` | 2 sessions, 2 requests that are not streamed | | `OwnResponse` fails |
| `turn_shared` | 2 turns of 3 rounds, 3 calls of which 2 change something, answers of up to 2 calls, budgets of 3 requests and 5 calls, 1 continuation, 2 commands and cancellation | 853,093 | `TurnInv` (`SpentWithinReach`, `FailuresWithinReach`, `VerdictsAreOfThisTurn`), `SettledOnce`, `StopIsObeyed`, `TurnsEnd` |
| `tool_cache_shared` | 2 engines with batches of up to 2 and of 1, 2 files each changed once, one of them with 2 paths, 2 entries | 2,706,228 | `CacheInv` (`OrderMatchesEntries`), `StaleOnlyByMiss` |
| `transactions_shared` | 2 transactions over 2 files, 1 write from elsewhere, 2 dropped commits, SYM | 2,160,726 | `TypeOK`, `Atomic` |
| `scheduler_shared` | 2 jobs, 1 trigger, 1 edit or deletion, 1 failure, 1 restart, 2 periods | 334,462 | `Inv` (`CountWithinSent`), `OnceForEachDueTime`, `DueIsHandled` |
| `session_bus_shared` | 3 messages, 2 sessions of which one key begins with the other, 2 applications, channels of 2, 2 messages of one millisecond, 1 failure, 1 restart, SYM | 429,120 | `Inv` (`HeardUnlessShared`), `NothingIsLost`, `ArrivesOnce`, `OvertakesOnlyTheStore` |

Why the bounds are enough:

* **ToolApproval.** Every race is one of two: of two requests for one prompt, of an answer and
  a clock, of two sessions over the shared state. One tick of lifetime gives an age all
  the values that the code tells apart: fresh, at the limit, expired. A batch of three lets a decision wait
  through two prompts. `Requests` are symmetric in the invariant run; no symmetry is used where
  liveness is checked.
* **Ripcord.** The first calls of the sessions reach a threshold of two together, between each other's reads, and
  neither reaches it alone. The third call is refused by the gates, counts nevertheless and is matched by a path. Of the two that
  are journaled a pull may undo one and skips the other. Each operator pulls or approves, so two pulls or a pull and an approval
  overlap, and each of them, and each evaluator, may be dropped at any await.
* **Subagents.** `WorkWithinLimit` and `TerminalIsFinal` are stated for subagents that at most one
  call has cancelled, because a second cancel breaks them (section 6); the run has both cases. The deadline of 1
  and grace of 1 let either expire first. A channel of capacity 1 makes a sender wait for room.
* **Processes.** Two is the least number at which spawns race and at which the drop has another
  entry left after an error. One kill, the clean-up and the drop signal the same process.
* **Sessions.** Two requests, one stop and one edit contain each pair of handlers. Larger
  instances were also explored, 3 requests with 1 stop (2.3 million states), 2 requests with 2 stops
  and 2 requests with 2 edits: nothing else appears. The proofs hold for any number.
* **Turn.** The second turn meets what the first left of the tracker. Three rounds are one to do, one to repeat and
  the last, and the budgets end inside them: the bound `MaxLlmCalls + 2` is reached. An answer of two calls
  passes a limit of failures together, or repeats a change.
* **ToolCache.** Two entries for three cacheable calls make each store an eviction; a batch of two is the least that
  reads and writes in parallel, and the second engine stores and removes in between. The first file has two paths, both of
  which are read and one of which is written.
* **Transactions.** Both files of both transactions are the same ones; two drops let a write land in the
  commit of the other transaction and in its undo.
* **Scheduler.** A tick that works on the second job while the first is edited, deleted or triggered; the failure and
  the restart can hit each step. The schedules of the instance are one time and one period with an anchor in the past;
  a job whose period begins
  at the time of its run is taken without end at that time (section 6), so TLC has none, and the proof has all of them.
* **SessionBus.** With three messages and channels of two, one can be stored, one full and one on its way; two
  applications of one session replace each other. The ids are in the opposite order of sending, so the two messages of one
  millisecond are drained in that order, and the clock tells the others apart.

Deadlock is checked in the approval runs and in `tool_cache_shared`. The others say `CHECK_DEADLOCK FALSE`:
their processes, calls, messages and turns are finitely many and the system stops when they have ended, which
`EverythingEnds` and `TurnsEnd` say it does.

The main properties in words:

* `RanIsAuthorised` / `ImplementsAuthority`: a call reaches the tools only if the policy lets its
  scope through, or a person allowed this call or its scope, whatever order requests, expiries and
  the re-resolution of stale decisions come in. The refinement maps `granted` to the calls whose
  accepted answer is an approval, `scopeGranted` to the scopes of those answered for the session,
  `ran` to the outcomes.
* `WaiterIsReachable`: no interleaving of register, resolve and expiry leaves a session that
  waits although its answer was accepted.
* `CrossingIsSeen`: however evaluators interleave, as soon as the calls of all sessions together reach the threshold the ripcord
  is active, unless an operator has cleared it. The documentation says "in one session" (section 6).
* `ListedIsHandled`: what a pull has listed is undone, or reported as skipped, or the pull has not come to it, and then the entry
  is still in the journal or another operator has cleared it, also after the pull was dropped in its loop.
* `RunIsStoppable`: a run nobody cancelled is the run of its session, or its successor is about to
  cancel it. A run that ends late never removes its successor.
* `ReasonIsTrue`: one stop at most is told it stopped a run, and the turn is told the same.
* `OneTurnAtATime`: turns of a session overlap at most once for each eviction of its engine by a
  reload or a delete.
* `SavedAlone`: a session whose changes did not overlap is on disk what it is in memory.
* `DecisionsAreUsedUp`: a call that was refused does not run, and when a batch has ended nothing is left of its decisions
  that a later call of the same id could use.
* `EndIsRecorded`: a send that reports the error of a turn, a cancel that returned and a subagent that was collected each find the
  end of the subagent recorded. A send that reports a closed session does unless the subagent is a one-shot, a cancel is half
  done or was dropped, or the task has panicked (section 6).
* `SettledOnce`: a change that succeeded, or failed for good, is not made again in its turn, although all
  calls of an answer are judged before one of them runs.
* `SpentWithinReach`: a turn makes at most two requests more than its budget, one for continuations that
  are recorded after they are made and one for a last answer that is not checked; the bound is tight.
* `StopIsObeyed`: three places read a stop and consume it. Whichever reads it first, no tool call is
  started afterwards and the turn is not reported as complete.
* `StaleOnlyByMiss`: what is cached and differs from what a new call would read is about to be removed, or was
  outdated by a tool the cache does not know, by a write that named the file by another path, or while the read was on its
  way into the cache.
* `Atomic`: every behaviour of the code is one of `AtomicCommit`.
* `OnceForEachDueTime`: ticks take a job for sending once for each time it is due, across errors and restarts, unless a
  user or a trigger stored it from another state, or its period begins at that very time (`BeginsAt`). `DueIsHandled`: a job that is due does not wait for ever
  because of an error in the job before it or its own.
* `NothingIsLost`, `ArrivesOnce`, `OvertakesOnlyTheStore`: a message whose send succeeded is somewhere, once, and
  only a message that was in the store can be overtaken, by one that went past the store, or by one from the store whose time
  is not later than its own.
* `SignalledIsReported`, `KillStops`, `NothingOutlivesTheRegistry`, `WorkWithinLimit`,
  `TerminalIsFinal`: see their comments.

Safety that does not depend on fairness is checked under `Spec` or `FairSpec` (`TurnSpec`, `FairTurns`, `CacheSpec`), which have the same reachable states.

## 4. Fairness

All fairness is weak and of the steps that the runtime drives by itself.

* Every ready task is polled and locks are handed out: `WF` of the steps of a session, request,
  operator, cancel, stop, edit, task, terminator, tick or trigger. In `Ripcord` sessions and
  operators are finitely many and end, so nobody takes a lock again and again and weak fairness is enough
  for the mutexes of the standard library too. In `Scheduler` the loop of ticks is a task with a timer, so a `Tick`
  that stays possible is taken.
* Time passes: `WF(Tick)`, `WF(Expire(p))`, `WF(CleanupBegins)` (the clean-up is a loop with an
  interval).
* A turn of a **session** returns (`Sessions`): model calls have a client time limit of 1800 s
  (`fx-llm/src/anthropic.rs:268`, `openai.rs:412`, `openai_responses.rs:188`), tool calls one of
  `fx-tools/src/tools.rs:752`, prompts one of 300 s, and the rounds are bounded by the budget.
* The steps of a turn in `Turn` (`WF(EngineStep)`) rest on the same limits: each request and batch ends with a result or
  an error. `Poll`, `Cancel` and `Command` have none: no progress of a turn depends on the user.
* A turn of a **subagent** is *not* assumed to return, a process is not assumed to end, and
  nobody is assumed to answer a prompt, to cancel, to pull or to drop a registry. That all ends
  nevertheless is what `TurnsAndRequestsEnd` and `EverythingEnds` say.

`ToolCache`, `Transactions` and `SessionBus` have no liveness property: their operations are loops over
finitely many items that nothing waits in.

## 5. What is proved

TLAPS checks 13,764 obligations in eight modules, two of which hold the proofs of two components. Each takes the component's own assumptions on its
constants and nothing else; TLC evaluates them in every run. Besides types they say:

* `ToolApproval`: a call id occurs once, in one batch (`CallsAreUnique`);
* `Ripcord`, `Subagents`, `Transactions`, `SessionBus`: the value that stands for nobody ("free", "none", `NoApp`) is no session,
  agent or application, and contents of files are told apart from the transactions that write them;
* `Subagents`, `Processes`, `SessionBus`, `Transactions`, `Scheduler`: bounds are numbers; limits and capacities that the code
  does not let be zero are positive; messages and jobs are numbered in the order in which they are made;
* `ToolCache`: the calls are among `AllCalls` and finitely many, as are the files, the cache has room for an entry;
* `Turn`: each call has a class, the limits of rounds, failures and repetitions are positive, the budgets may be zero.

All follow one argument: an inductive invariant `IInv`, `Init => IInv`, one lemma or step per action for
`IInv /\ [Next]_vars => IInv'`, and the properties as consequences. `IInv` was model-checked on the instance of the
component's run before it was proved. Theorems are about `Spec`, so they hold under `FairSpec`, which is `Spec` with fairness.

**`ToolApproval_proofs`** — `TypeCorrect`, `RunsAreAuthorised`, `InvHolds`, `AnswersAreFinal`, `Implements`, `RepliesHold`,
`WaitersAreReachable`, `DecisionsUsedUp`.
`IInv == TypeOK /\ GrantsInv /\ AnswerInv /\ PositionInv`. That only authorised calls ran is not
inductive: an authorisation travels from an answer through `overrides` or a channel into the
cache, from there into `passThrough`, and only then to the tools. `GrantsInv` says of each
stop on that way that what is there is authorised. `AnswerInv` says that a prompt is held by one
request at most and has no answer while it is held, so an answer is given once. `PositionInv`
says where a session is in its batch, so that a call that was asked about is one that may be
asked about, and no call runs twice. `Implements` is step refinement: `Execute` is `Run`,
`ApplyOverride` is `Grant` or `GrantScope`, everything else stutters.
The last three theorems add to it (`JInv`): `RepliesInv`, that a remembered decision is the answer and that a prompt somebody was
told is expired is held by no request; `PassedInv`, that what the outer gate lets through lies behind the
position of its session and was approved if it was asked about; `HandedInv`, that the cache has a decision only
while its call is between the gates.

**`Processes_proofs`** — `TypeCorrect`, `OvershootBounded`, `SignalledReported`, `InvHolds`, `KillStopsProcess`,
`NothingOutlives`. `CountInv` counts the threads that have validated a spawn and not yet made it
together with the running entries; without them no bound is inductive. The result is sharp: the limit
can be exceeded (section 6), by fewer processes than there are threads. `TerminatorInv`
says that whoever signals has queued the termination and knows that the entry exists,
`DropInv` that what still runs during the drop is among what it has left to do.

**`Sessions_proofs`** — `TypeCorrect`, `RunsAreStoppable`, `InvHolds`, `ReasonsAreTrue`, `TurnsOneAtATime`,
`SavedWhenAlone`. `RunInv` and `StopInv` describe the handlers that are under way between two locks: a
request without a run is unknown to the registry, a replaced run has been marked before it is
cancelled. For `OneTurnAtATime` the invariant counts engines and not turns: `Old(k)` are the
engines that requests hold or wait for and that are no longer in the pool, and `OldInv` says
that they are at most as many as the evictions; turns that run are then on different engines
(`HeldInv`), of which one is in the pool. `SaveInv` says that all that is to be saved of a session
whose changes do not overlap is what it is in memory.

The second half of the module is about `Turn`: `TurnsWithinReach`, `ChangesSettleOnce`, `StopsAreObeyed`. That a turn makes at most
two requests more than its budget is not inductive: `SpendInv` says for each phase how many requests the budget does not know
of yet. `TrackerInv` says that what the tracker knows of a call comes from this turn, and that it knows each change that was
settled; `BatchInv`, that the calls that run were allowed when their answer came and that a change is among them once, so that none of
them was settled before; `HeardInv`, that a stop which was read is remembered until the turn ends. The commands of a
channel, the calls of an answer and the results of a batch are folds. Lemmas unroll each of them: its value after n items is
that after n - 1 and one step (`FoldStep`), and what a step preserves holds at the end because a set of numbers has a least
one (`LeastIs`), for which no induction theorem with an operator as parameter is needed.

**`Ripcord_proofs`** — `CountHolds`, `CrossingsAreSeen`, `ListedAreHandled`. That a ripcord which is not active has let too few calls
pass is not inductive: a session may have read a count below the threshold and not yet acted on it, or be dropped before it does. `PassInv` counts such calls
with the evaluated ones, and `CountInv` bounds the calls a session has counted by the counter, so that the session whose
increment reaches the threshold reads a count that matches. `RecordInv` says that nothing is recorded before the ripcord is active,
and the lock of the entries is what keeps `CountMatchesEntries` through the two steps of a recording. `PullInv` says that what a pull has
listed and not handled is on its way through its loop (`Left`), or the pull was dropped, and is in the journal or cleared by somebody
else, as a pull clears only after its loop; and that a call which has not been executed is in no journal and on no list, so that what was undone is not
done again.

The second half is about `ToolCache`: `CacheHolds`, `CacheStale`. Staleness is about what is cached, but a result is stale before it is
stored: `CallOf` says of each call of a batch where its result comes from (the cache, itself, or an equal call before it) and that a
read which is not yet stored is what a new call would read, or is marked. What is cached is marked when a call changes its data that
`Outdates` does not relate to it: for every assignment of files to paths. `BatchOf` says how far an engine is with its batch, so
that the removals that are still due are known. `CacheOrder` says that the order of eviction lists each entry once, which a removal
keeps: `RemoveFromOrder` is a fold, unrolled as those of `Turn` are, and `RemoveIs` says which calls are left and that none is there twice.

**`Subagents_proofs`** — `LimitsHold`, `WorkIsLimited`, `EndsAreRecorded`, `EndsAreFinal`. `SlotInv` counts whoever is not over in the
manager's view. `TaskInv` ties the task to the status: a task at work is not over unless a second cancel has interfered, and
has recorded the end before it answers with an error or ends its session;
a session whose sender is gone has a cancel that took it, or has ended; the set of those that work is then within the active ones. `CancelInv`
says that the only cancel of a subagent records its end when the task is there no more, `GcInv` that whoever is gone
is over and stamped. `WorkWithinLimit` and `EndsAreFinal` keep the exception of a second cancel, which the code needs (section 6).

**`Transactions_proofs`** — `IInvHolds`, `TypesHold`, `Implements`: the store of transactions implements `AtomicCommit`, whatever
writes fail, land late, or are interfered with. `SnapInv` says which files the commit has read, `FilesInv` what each of them holds at
each step (written up to `at`, restored behind it) if nobody else has written to them, and `LostInv` that the promise was
given up only for a transaction that is over or being undone. `Commit` of the abstract specification is the step of a validation that succeeds;
the writes before it are hidden by the refinement mapping, and a step that disturbs a file maps to `Outside` or `Lose`.

**`SessionBus_proofs`** — `SubscribersHold`, `NothingGetsLost`, `OnlyTheStoreIsOvertaken`, `MessagesArriveOnce`. All speak of the *line* of an
application, what it has received followed by its channel, because a receive moves a message within the line and changes nothing else.
`OvertakesOnlyTheStore` needs `StoreOrderInv`: what was drained comes before all that is still to be drained, in the order of times and ids, and nothing from
the store is in a line before its drain; it holds for all times and ids, in whatever relation to the order of sending. `ArrivesOnce` needs `OnceInv`: a message that no drain has made doubtful has one place, and is
in the store beside it only while the drain that passed it on lasts. `NothingIsLost` needs that a drain passes a message on before it deletes it (`DrainInv`).

**`Scheduler_proofs`** — `CountsHold`, `TakenOnce`. Jobs are stored from copies, so both invariants are about every copy there is: the
stored job, those a tick has listed, the one it works on, those of the triggers. `CountInv` says that each counts no more runs
than were sent, with the one under way. `LaterInv` says that the times for which a job was taken lie before the next run of each copy that a
tick has, or equal it where the period begins at that time; a tick works on a job that it no longer lists (`KnownInv`), so
that taking it leaves the other copies as late as they were. `NextAfterRunIs` is the fact about times: the next run
is after the time it is computed at, except for `BeginsAt`, for all schedules and not only those of the instance.

What stays with TLC, and why:

* liveness under fairness (`TurnsAndRequestsEnd`, `EverythingEnds`, `TurnsEnd`, `DueIsHandled`), which is beyond the prover.

No module has a recursive operator. Eight modules hold all theorems, so that they can be rechecked together.

## 6. Where the code and what it says of itself differ

Two of these are findings in `PROJECT.json`. One has a run whose property a counterexample refutes: **responses are swapped** (`sessions_reply`,
`fx-api/src/handlers/sessions.rs:1061`). There is one slot for the responses of all sessions, and it is set and taken in two
steps, so of two requests for different sessions one may return the response of the other.

The other is shown by a property that holds: **thresholds count over all sessions** (`ripcord_shared`, `fx-ripcord/src/journal.rs:98`).
`config.rs:34` of that crate says that a `Threshold` "Fires after N actions of a category in one session", and the parameter of `matches` is
`session_category_counts` (`:94`). The counts are in the journal, which all sessions share, and only a pull or an approval resets them. `CrossingIsSeen`
counts over all sessions, as the code does, and holds on an instance where two sessions reach the threshold together and neither alone:
there the ripcord activates for sessions that each stay below the documented number.

The others were met while modelling. The models contain them, and their properties are stated so as to
allow them and nothing more:

* *Approvals.* A granted call may be sent back (`fx-kernel/src/authority.rs:443`): a decision lives 300 s in the
  authority cache, a prompt may take 300 s, and the whole batch is classified before the inner gate
  uses the first decision; a call allowed before another prompt of its batch times out is blocked with
  "This operation requires approval before it can run." A second request for a prompt that arrives between
  `take_pending` and `cache_resolved` of the first is told that the prompt is not found, although it is answered a moment
  later. Overrides "for the session" are one set for all session engines of the process and are never cleared:
  an approval for the session is one for every session, until the process ends.
* *Ripcord.* A pull does not "atomically revert" (`fx-ripcord/src/lib.rs:4`, `revert.rs:48`): an entry recorded between
  the copy and the clear is dropped, neither reverted nor reported (`ListedIsHandled` speaks of what was listed).
  A pull whose client goes away stops between two entries (`revert.rs:40`): part of the operations are reverted, nobody gets its report, and
  the journal is as it was, so that the next pull lists also what was undone already. A `clear` that is dropped between its locks
  leaves the status and the counts of entries that are gone. An evaluator that is dropped leaves calls that took effect
  uncounted and unjournaled, or an entry that the status does not count until the next one.
  `clear` takes its three locks one after the other, so a recording that began before may leave
  an entry in the journal of an inactive ripcord. A file write journaled without a
  snapshot is shown as reversible and skipped by every pull, and nothing stores a snapshot outside the
  tests. Calls that the gates refuse are counted and journaled, because the evaluator is the
  outermost executor.
* *Subagents.* The limit can be exceeded (`fx-subagent/src/instance.rs:157`): a second
  cancel does not wait for the task, records `Cancelled` and frees the slot while the first turn
  still works; that turn then replaces `Cancelled` by its own result. A turn that panics leaves its subagent `Running`
  until it is cancelled, and so does one whose task was aborted by a cancel that was dropped before it recorded the end. After a panic, and from the
  moment a cancel closes the channel (`instance.rs:100`) to the moment the end is recorded, a send is refused as closed
  (`:116`, `:126`) while the status says `Running`. `gc` has no callers outside tests, `total_token_budget` no readers.
* *Processes.* The limit can be exceeded (`process_registry.rs:344`): the check, the
  start and the insertion of a spawn are not one step, and tool calls run in parallel; `OvershootBounded` proves
  by how much. A helper that left the group of its parent and keeps the pipes keeps the process
  `Running` for ever (`EverythingEnds` excludes it). When `kill` fails, the pending termination stays: a
  process that then ends by itself is reported `Killed`. Ids are 24 bits of a counter and entries are never
  removed. `shutdown` has no callers.
* *Sessions.* Saves happen outside the lock: two overlapping changes may reach the disk in the other order, and
  a save that follows a deletion brings the session back after a restart; `SavedAlone` is stated for
  changes that do not overlap. A failed save leaves the memory changed. A request that is dropped leaves its run
  registered, and a stop then answers that it stopped it. A stop between the end of a turn and `finish` answers that it
  stopped the turn, which is recorded nevertheless. `delete` does not cancel the run, which may put an engine
  back into the pool. A request reads the history before it has the engine and the memory of the session when it
  has it, and records its memory whole: a turn it waited for is missing in its context, and what
  was noted meanwhile may be lost.
* *Turn.* Tool calls are recorded twice, when they are admitted and when they have run, so a turn gets about half of
  `max_tool_invocations`. The last answer of a turn is requested whatever the budget. The comment of `retry.rs:283` says
  that a compaction tells the tracker; the one after a batch does not. `max_fan_out` (`budget.rs:174`) is not
  enforced in the live loop. Of a change and an observation in one answer the observation may have run first and counts as
  made after the change. A stop that comes before `prepare_cycle` through the token is lost, as the token
  is reset; a stop during a last answer ends it, and the turn is reported `Complete`.
* *ToolCache.* `edit_file` and every side effect besides the four that are named leave the cache as it is. Paths are compared as normalised
  texts, and the tools resolve them: a write of `/wd/a` leaves a cached read of `a` as it is, where `/wd` is the working directory, and so does one through a
  symbolic link. A read that ran
  before the write of its own batch is stored after the removal. `memory_search` is cached without a path, so that
  writes of the memory do not remove it. `notify_compaction` is not forwarded to the cache.
* *Transactions.* `commit_transaction` documents that validation "runs first" and that then "no files are written";
  the files are written first and undone. The tool for rolling back says of the files that they are "only buffered in memory";
  after a commit that was dropped they are not, and the rollback only marks the transaction. The file
  whose write failed is not restored itself.
* *Scheduler.* A tick stores a job again that was deleted since it was listed, and undoes a change of it. A send that
  failed counts as a run. A schedule `Every` without an anchor, or at the very millisecond of its anchor, is due again at
  once (`fx-cron/src/eval.rs:45`), at each tick of 15 s. An error ends the tick; what is left waits for the next.
* *SessionBus.* The end of an older application of a session unsubscribes the newer one, and so does a sender
  that finds the older one's channel closed. A drain reads by prefix: messages for the session `a:b` are passed to `a` too, and
  are not deleted. A message that is stored after the drain waits for the next subscription. Stored
  messages of one millisecond are drained in the order of their random ids (`fx-bus/src/envelope.rs:19`), and a clock that is set back
  reverses those around it.
* *Compaction* (not modelled). The marker of an emergency and summaries are inserted before the tail that is kept (`conversation_compactor.rs:293`, `:912`); when the tail begins
  with a result, its call is kept before it, so that it stands between the two. The round of the last
  compaction is not cleared between turns (`loop_engine/compaction.rs:151`).

## 7. What is not modelled

The repository has 250,000 lines, most of which are texts, input and output, clients, translations of
protocols, and parts that no program calls. The models are of the code where an order of steps matters, so they
stand for a small share of the lines.

Parts of modelled components:

* Approval: the text of prompts, proposals and the override of the active proposal, which no
  caller sets.
* Ripcord: which tripwire fired, `SnapshotStore`, `git_guard`.
* Processes: output buffers, checks of the working directory, the reuse of process ids.
* Sessions: `create`, which saves under the lock; sessions that are corrupted on disk; steering;
  validation and content of messages and memory.
* Subagents: labels, handles, the session a factory builds.
* Turn: the older loop (`decide`, `act`, `act_with_tools`, decomposition, `finish_iteration_limit`), which the shipped
  program does not enter; the requests of a compaction model, neither budgeted nor counted, which the startup of the command line configures none of; families of browser calls, profiles and scopes; the text of steering; the size of the conversation.
* ToolCache: what the normalisation of arguments and paths does to a text (a path here is its normalised text; `..` behind a symbolic link is one more case of two paths), statistics, and the epoch, which nothing advances while results are cached.
* Transactions: limits of sizes and the policy of paths, which only refuse; `cancel`, which no tool offers.
* Scheduler: expressions of cron (a period), the last 20 runs of a job (a count), webhooks.

Other components are left out for one of these reasons, which `PROJECT.json` gives for each:

* network, terminal, files or the operating system, where the code is a call (model providers,
  channels, sandbox, credentials, training, marketplace);
* text (classification of requests, parsing of intents, prompts), which is data here;
* one owner or one lock with nothing in between (telemetry, canary, fleet, memory, journal, devices,
  pairing, configuration);
* no callers in the program (orchestrator, checkpoint, rollback, watchdog, yield, fallback router);
* planned (section 8).

## 8. Plan

Models: **Compaction**, as functions on sequences of messages against a reference definition (which calls keep their
results, what is protected, when a turn fails for its size); in `Sessions`, the history and the memory a
request has read against the turns recorded since (`fx-api/src/handlers/sessions.rs:885`). The project keeps to a dozen
runs, so that all of it can be rechecked in minutes.

Proofs: each safety property that a run checks has its theorem. What is left follows the models: `Compaction` as a function on
sequences whose facts are unrolled like the folds of `Turn`, and, of the components that are there, that the bounds which are sharp on
the instances (`OvershootIsBounded`, `SpentWithinReach`) are reached for every value of the constants, which is about what may
happen and not a property of every behaviour. Eight modules hold all theorems; new ones share a module with another component's proofs.
