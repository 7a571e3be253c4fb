----------------------------- MODULE Subagents -----------------------------
(***************************************************************************)
(* The subagent manager and its instances.  Parents spawn, message and     *)
(* cancel subagents; each subagent is a task of its own that takes one     *)
(* turn after the other until its mode, its budget, its deadline or a      *)
(* cancellation ends it.  A step is what runs between two awaits, or less  *)
(* where another thread can see the difference.  Deadlines are counted in  *)
(* ticks of the clock.                                                     *)
(***************************************************************************)
EXTENDS Naturals, FiniteSets, Sequences

CONSTANTS Agents,          \* ids of subagents, each spawned at most once
          Sends,           \* calls of send, numbered as they are made
          Cancels,         \* calls of cancel, numbered as they are made
          MaxCalls,        \* a bound on the calls of both together
          Mode,            \* SpawnMode of each subagent
          MaxConcurrent,   \* SubagentLimits::max_concurrent
          MaxTokens,       \* SpawnConfig::max_tokens
          TurnTokens,      \* the tokens one turn may use
          Capacity,        \* of the command channel (8)
          Timeout,         \* SpawnConfig::timeout, in ticks
          Grace,           \* CANCEL_GRACE_PERIOD, in ticks
          CallersGoAway    \* whether the future of a cancel may be dropped

ASSUME SubagentAssumption ==
    /\ "none" \notin Agents      \* it marks a call that is not made yet
    /\ Mode \in [Agents -> {"run", "session"}]
    /\ MaxConcurrent \in Nat \ {0} /\ MaxTokens \in Nat
    /\ TurnTokens \subseteq Nat /\ Capacity \in Nat \ {0}
    /\ Timeout \in Nat \ {0} /\ Grace \in Nat
    /\ CallersGoAway \in BOOLEAN
    /\ Sends \in Nat /\ Cancels \in Nat /\ MaxCalls \in Nat

Senders    == 1..Sends
Cancellers == 1..Cancels
NoCall     == 0

VARIABLES
    registered,   \* ManagerState::instances
    collected,    \* ids a gc has collected and will remove
    \* SubagentInstance
    status, finished,
    channel,      \* command_tx
    token,        \* cancel_token
    handle,       \* whether task_handle is still there
    \* the task
    task,         \* where it is
    current,      \* whose command it processes
    queue,        \* the command channel
    tokens, age,
    aborted,      \* abort was called on it
    \* the calls
    send, cancel

instanceVars == <<status, finished, channel, token, handle>>
taskVars     == <<task, current, queue, tokens, age, aborted>>
vars == <<registered, collected, instanceVars, taskVars, send, cancel>>

Terminal == {"Completed", "Failed", "Cancelled", "TimedOut"}
Tasks    == {"none", "start", "working", "receive", "stamp", "replyOk", "replyError", "ended",
             "panicked"}
SendPcs  == {"idle", "enqueue", "await", "done"}
CancelPcs == {"idle", "signal", "close", "take", "wait", "join", "finish", "record",
              "stamp", "done", "gone"}

Live(a) == task[a] \notin {"none", "ended", "panicked"}

TypeOK ==
    /\ registered \subseteq Agents /\ collected \subseteq Agents
    /\ status \in [Agents -> {"none", "Running"} \cup Terminal]
    /\ finished \in [Agents -> BOOLEAN]
    /\ channel \in [Agents -> {"none", "open", "closed"}]
    /\ token \in [Agents -> BOOLEAN]
    /\ handle \in [Agents -> BOOLEAN]
    /\ task \in [Agents -> Tasks]
    /\ current \in [Agents -> Senders \cup {NoCall}]
    /\ queue \in [Agents -> Seq(Senders)]
    /\ \A a \in Agents : Len(queue[a]) <= Capacity
    /\ tokens \in [Agents -> Nat]
    /\ age \in [Agents -> 0..Timeout]
    /\ aborted \in [Agents -> BOOLEAN]
    /\ send \in [Senders -> [pc : SendPcs, agent : Agents \cup {"none"},
                             reply : {"none", "ok", "error", "closed"}]]
    /\ cancel \in [Cancellers -> [pc : CancelPcs, agent : Agents \cup {"none"},
                                  waited : 0..Grace]]

Init ==
    /\ registered = {} /\ collected = {}
    /\ status = [a \in Agents |-> "none"]
    /\ finished = [a \in Agents |-> FALSE]
    /\ channel = [a \in Agents |-> "none"]
    /\ token = [a \in Agents |-> FALSE]
    /\ handle = [a \in Agents |-> FALSE]
    /\ task = [a \in Agents |-> "none"]
    /\ current = [a \in Agents |-> NoCall]
    /\ queue = [a \in Agents |-> <<>>]
    /\ tokens = [a \in Agents |-> 0]
    /\ age = [a \in Agents |-> 0]
    /\ aborted = [a \in Agents |-> FALSE]
    /\ send = [x \in Senders |-> [pc |-> "idle", agent |-> "none", reply |-> "none"]]
    /\ cancel = [k \in Cancellers |-> [pc |-> "idle", agent |-> "none", waited |-> 0]]
-----------------------------------------------------------------------------
(* SubagentManager                                                         *)

\* active_count
Active == {a \in registered : status[a] \notin Terminal}

\* A bug: the limit is checked one too late.
MaySpawn_OffByOne == Cardinality(Active) <= MaxConcurrent

MaySpawn == Cardinality(Active) < MaxConcurrent

\* spawn, under the lock of the manager, and spawn_instance.  A factory that
\* fails leaves nothing behind.
Spawn(a) ==
    /\ status[a] = "none" /\ MaySpawn
    /\ registered' = registered \cup {a}
    /\ status' = [status EXCEPT ![a] = "Running"]
    /\ channel' = [channel EXCEPT ![a] = IF Mode[a] = "session" THEN "open" ELSE "none"]
    /\ handle' = [handle EXCEPT ![a] = TRUE]
    /\ task' = [task EXCEPT ![a] = "start"]
    /\ UNCHANGED <<collected, finished, token, current, queue, tokens, age, aborted,
                   send, cancel>>

\* A bug: only the status is asked.
Eligible_ByStatus == {a \in registered : status[a] \in Terminal}

\* is_gc_eligible, for some max_age.
Eligible == {a \in registered : status[a] \in Terminal /\ finished[a]}

\* gc collects the ids under one lock and removes them under another.
GcCollect(S) ==
    /\ collected = {} /\ S \subseteq Eligible /\ S # {}
    /\ collected' = S
    /\ UNCHANGED <<registered, instanceVars, taskVars, send, cancel>>

GcRemove ==
    /\ collected # {}
    /\ registered' = registered \ collected
    /\ collected' = {}
    /\ UNCHANGED <<instanceVars, taskVars, send, cancel>>
-----------------------------------------------------------------------------
(* run_subagent_task                                                       *)

At(a, label) == task' = [task EXCEPT ![a] = label]

Record(a, st) == status' = [status EXCEPT ![a] = st]

\* What the task owned goes with it.
Forget(a) ==
    /\ current' = [current EXCEPT ![a] = NoCall]
    /\ queue' = [queue EXCEPT ![a] = <<>>]
    /\ tokens' = [tokens EXCEPT ![a] = 0]
    /\ age' = [age EXCEPT ![a] = 0]
    /\ aborted' = [aborted EXCEPT ![a] = FALSE]

\* The task is over: its receiver is dropped and with it every command that
\* waits for a reply.
End(a, how) ==
    /\ At(a, how) /\ Forget(a)
    /\ send' = [x \in Senders |->
                  IF send[x].agent = a /\ send[x].pc = "await"
                  THEN [send[x] EXCEPT !.pc = "done", !.reply = "closed"] ELSE send[x]]

\* process_turn
BeginTurn(a) ==
    /\ task[a] = "start"
    /\ \/ token[a] /\ Record(a, "Cancelled") /\ At(a, "stamp")
       \/ ~token[a] /\ At(a, "working") /\ UNCHANGED status
    /\ UNCHANGED <<registered, collected, finished, channel, token, handle, current,
                   queue, tokens, age, aborted, send, cancel>>

\* handle_initial_turn, for a turn that returns.
FirstTurnSucceeds(a) ==
    /\ task[a] = "working" /\ current[a] = NoCall
    /\ \E t \in TurnTokens :
          /\ tokens' = [tokens EXCEPT ![a] = t]
          /\ \/ t > MaxTokens /\ Record(a, "Failed") /\ At(a, "stamp")
             \/ /\ t <= MaxTokens /\ Mode[a] = "run"
                /\ Record(a, "Completed") /\ At(a, "stamp")
             \/ /\ t <= MaxTokens /\ Mode[a] = "session"
                /\ At(a, "receive") /\ UNCHANGED status
    /\ UNCHANGED <<registered, collected, finished, channel, token, handle, current,
                   queue, age, aborted, send, cancel>>

\* A bug: the budget is compared with the tokens of one turn.
TurnSucceeds_TurnBudget(a) ==
    /\ task[a] = "working" /\ current[a] # NoCall
    /\ \E t \in TurnTokens :
          /\ tokens' = [tokens EXCEPT ![a] = @ + t]
          /\ \/ t > MaxTokens /\ Record(a, "Failed") /\ At(a, "stamp")
             \/ t <= MaxTokens /\ At(a, "replyOk") /\ UNCHANGED status
    /\ UNCHANGED <<registered, collected, finished, channel, token, handle, current,
                   queue, age, aborted, send, cancel>>

\* finalize_turn, for a turn that returns.
TurnSucceeds(a) ==
    /\ task[a] = "working" /\ current[a] # NoCall
    /\ \E t \in TurnTokens :
          LET total == tokens[a] + t IN
          /\ tokens' = [tokens EXCEPT ![a] = total]
          /\ \/ total > MaxTokens /\ Record(a, "Failed") /\ At(a, "stamp")
             \/ total <= MaxTokens /\ At(a, "replyOk") /\ UNCHANGED status
    /\ UNCHANGED <<registered, collected, finished, channel, token, handle, current,
                   queue, age, aborted, send, cancel>>

\* A bug: a failed turn is answered and not recorded.
TurnFails_Unrecorded(a) ==
    /\ task[a] = "working"
    /\ At(a, "stamp")
    /\ UNCHANGED <<registered, collected, instanceVars, current, queue, tokens, age,
                   aborted, send, cancel>>

TurnFails(a) ==
    /\ task[a] = "working"
    /\ Record(a, IF token[a] THEN "Cancelled" ELSE "Failed")
    /\ At(a, "stamp")
    /\ UNCHANGED <<registered, collected, finished, channel, token, handle, current,
                   queue, tokens, age, aborted, send, cancel>>

TurnTimesOut(a) ==
    /\ task[a] = "working" /\ age[a] = Timeout
    /\ Record(a, "TimedOut")
    /\ At(a, "stamp")
    /\ UNCHANGED <<registered, collected, finished, channel, token, handle, current,
                   queue, tokens, age, aborted, send, cancel>>

\* A panic in a turn ends the task; nothing is recorded.
TaskPanics(a) ==
    /\ task[a] = "working"
    /\ End(a, "panicked")
    /\ UNCHANGED <<registered, collected, instanceVars, cancel>>

\* abort drops the task at the await it has reached.
TaskAborted(a) ==
    /\ aborted[a] /\ task[a] \in {"working", "receive"}
    /\ End(a, "ended")
    /\ UNCHANGED <<registered, collected, instanceVars, cancel>>

\* run_session_loop: a command that is there comes before the deadline.
Receive(a) ==
    /\ task[a] = "receive" /\ queue[a] # <<>>
    /\ current' = [current EXCEPT ![a] = Head(queue[a])]
    /\ queue' = [queue EXCEPT ![a] = Tail(@)]
    /\ At(a, "start")
    /\ UNCHANGED <<registered, collected, instanceVars, tokens, age, aborted, send, cancel>>

\* recv returns None once every sender is gone, those of calls under way too.
HasSender(a) == \/ channel[a] = "open"
                \/ \E x \in Senders : send[x].agent = a /\ send[x].pc \in {"enqueue", "await"}

\* A bug: the session loop has no deadline.
ReceiveEnds_NoDeadline(a) ==
    /\ task[a] = "receive" /\ queue[a] = <<>>
    /\ ~HasSender(a) /\ Record(a, "Cancelled")
    /\ At(a, "stamp")
    /\ UNCHANGED <<registered, collected, finished, channel, token, handle, current,
                   queue, tokens, age, aborted, send, cancel>>

\* A bug: a session that ends while it waits records nothing.
ReceiveEnds_Unrecorded(a) ==
    /\ task[a] = "receive" /\ queue[a] = <<>>
    /\ ~HasSender(a) \/ age[a] = Timeout
    /\ At(a, "stamp")
    /\ UNCHANGED <<registered, collected, instanceVars, current, queue, tokens, age,
                   aborted, send, cancel>>

ReceiveEnds(a) ==
    /\ task[a] = "receive" /\ queue[a] = <<>>
    /\ \/ ~HasSender(a) /\ Record(a, "Cancelled")
       \/ HasSender(a) /\ age[a] = Timeout /\ Record(a, "TimedOut")
    /\ At(a, "stamp")
    /\ UNCHANGED <<registered, collected, finished, channel, token, handle, current,
                   queue, tokens, age, aborted, send, cancel>>

\* The second half of record_terminal_status.
Stamp(a) ==
    /\ task[a] = "stamp"
    /\ finished' = [finished EXCEPT ![a] = TRUE]
    /\ \/ /\ current[a] # NoCall /\ At(a, "replyError")
          /\ UNCHANGED <<current, queue, tokens, age, aborted, send>>
       \/ current[a] = NoCall /\ End(a, "ended")
    /\ UNCHANGED <<registered, collected, status, channel, token, handle, cancel>>

\* handle_session_command answers, and the loop goes on unless the status is
\* terminal, whoever made it so.
Reply(a) ==
    /\ task[a] \in {"replyOk", "replyError"}
    /\ LET x == current[a]
           answered == [send EXCEPT ![x] = [@ EXCEPT !.pc = "done",
                            !.reply = IF task[a] = "replyOk" THEN "ok" ELSE "error"]]
       IN \/ /\ status[a] \notin Terminal
             /\ At(a, "receive")
             /\ current' = [current EXCEPT ![a] = NoCall]
             /\ send' = answered
             /\ UNCHANGED <<queue, tokens, age, aborted>>
          \/ /\ status[a] \in Terminal
             /\ At(a, "ended") /\ Forget(a)
             /\ send' = [y \in Senders |->
                           IF y # x /\ send[y].agent = a /\ send[y].pc = "await"
                           THEN [send[y] EXCEPT !.pc = "done", !.reply = "closed"]
                           ELSE answered[y]]
    /\ UNCHANGED <<registered, collected, instanceVars, cancel>>
-----------------------------------------------------------------------------
(* SubagentInstance::send                                                  *)

CallsMade == Cardinality({x \in Senders : send[x].pc # "idle"})
           + Cardinality({k \in Cancellers : cancel[k].pc # "idle"})

SendTo(x, a) ==
    /\ a \in registered /\ CallsMade < MaxCalls
    /\ send[x].pc = "idle" /\ \A y \in 1..x - 1 : send[y].pc # "idle"
    /\ send' = [send EXCEPT ![x] = IF channel[a] = "open"
                   THEN [pc |-> "enqueue", agent |-> a, reply |-> "none"]
                   ELSE [pc |-> "done", agent |-> a, reply |-> "closed"]]
    /\ UNCHANGED <<registered, collected, instanceVars, taskVars, cancel>>

\* A bug: the command channel has no bound.
Enqueue_Unbounded(x) ==
    /\ send[x].pc = "enqueue" /\ Live(send[x].agent)
    /\ queue' = [queue EXCEPT ![send[x].agent] = Append(@, x)]
    /\ send' = [send EXCEPT ![x].pc = "await"]
    /\ UNCHANGED <<registered, collected, instanceVars, task, current, tokens, age,
                   aborted, cancel>>

Enqueue(x) ==
    /\ send[x].pc = "enqueue"
    /\ LET a == send[x].agent IN
       \/ /\ ~Live(a)
          /\ send' = [send EXCEPT ![x].pc = "done", ![x].reply = "closed"]
          /\ UNCHANGED queue
       \/ /\ Live(a) /\ Len(queue[a]) < Capacity
          /\ queue' = [queue EXCEPT ![a] = Append(@, x)]
          /\ send' = [send EXCEPT ![x].pc = "await"]
    /\ UNCHANGED <<registered, collected, instanceVars, task, current, tokens, age,
                   aborted, cancel>>
-----------------------------------------------------------------------------
(* SubagentInstance::cancel                                                *)

Step(k, label)  == cancel' = [cancel EXCEPT ![k].pc = label]
Leave(k, label) == cancel' = [cancel EXCEPT ![k].pc = label, ![k].waited = 0]

CancelStart(k, a) ==
    /\ a \in registered /\ CallsMade < MaxCalls
    /\ cancel[k].pc = "idle" /\ \A j \in 1..k - 1 : cancel[j].pc # "idle"
    /\ cancel' = [cancel EXCEPT ![k] = [pc |-> IF status[a] \in Terminal THEN "done"
                                               ELSE "signal",
                                        agent |-> a, waited |-> 0]]
    /\ UNCHANGED <<registered, collected, instanceVars, taskVars, send>>

CancelSignal(k) ==
    /\ cancel[k].pc = "signal"
    /\ token' = [token EXCEPT ![cancel[k].agent] = TRUE]
    /\ Step(k, "close")
    /\ UNCHANGED <<registered, collected, status, finished, channel, handle, taskVars, send>>

CancelClose(k) ==
    /\ cancel[k].pc = "close"
    /\ channel' = [channel EXCEPT ![cancel[k].agent] = IF @ = "open" THEN "closed" ELSE @]
    /\ Step(k, "take")
    /\ UNCHANGED <<registered, collected, status, finished, token, handle, taskVars, send>>

\* wait_for_shutdown: who finds the handle taken does not wait.
CancelTake(k) ==
    /\ cancel[k].pc = "take"
    /\ handle' = [handle EXCEPT ![cancel[k].agent] = FALSE]
    /\ Step(k, IF handle[cancel[k].agent] THEN "wait" ELSE "finish")
    /\ UNCHANGED <<registered, collected, status, finished, channel, token, taskVars, send>>

\* wait_for_task
CancelJoined(k) ==
    /\ cancel[k].pc \in {"wait", "join"} /\ ~Live(cancel[k].agent)
    /\ Leave(k, "finish")
    /\ UNCHANGED <<registered, collected, instanceVars, taskVars, send>>

\* A bug: the task is given up on instead of being aborted and awaited.
CancelAbort_Detach(k) ==
    /\ cancel[k].pc = "wait" /\ cancel[k].waited = Grace
    /\ Live(cancel[k].agent)
    /\ Leave(k, "finish")
    /\ UNCHANGED <<registered, collected, instanceVars, taskVars, send>>

CancelAbort(k) ==
    /\ cancel[k].pc = "wait" /\ cancel[k].waited = Grace
    /\ Live(cancel[k].agent)
    /\ aborted' = [aborted EXCEPT ![cancel[k].agent] = TRUE]
    /\ Leave(k, "join")
    /\ UNCHANGED <<registered, collected, instanceVars, task, current, queue, tokens, age,
                   send>>

\* Bugs: whoever finds the task over leaves its status; or replaces any status.
CancelFinish_Leave(k) ==
    /\ cancel[k].pc = "finish"
    /\ Step(k, IF Live(cancel[k].agent) THEN "record" ELSE "done")
    /\ UNCHANGED <<registered, collected, instanceVars, taskVars, send>>

CancelFinish_Replace(k) ==
    /\ cancel[k].pc = "finish"
    /\ Step(k, "record")
    /\ UNCHANGED <<registered, collected, instanceVars, taskVars, send>>

\* finish_if_running and record_terminal_status
CancelFinish(k) ==
    /\ cancel[k].pc = "finish"
    /\ Step(k, IF status[cancel[k].agent] \in Terminal THEN "done" ELSE "record")
    /\ UNCHANGED <<registered, collected, instanceVars, taskVars, send>>

CancelRecord(k) ==
    /\ cancel[k].pc = "record"
    /\ Record(cancel[k].agent, "Cancelled")
    /\ Step(k, "stamp")
    /\ UNCHANGED <<registered, collected, finished, channel, token, handle, taskVars, send>>

CancelStamp(k) ==
    /\ cancel[k].pc = "stamp"
    /\ finished' = [finished EXCEPT ![cancel[k].agent] = TRUE]
    /\ Step(k, "done")
    /\ UNCHANGED <<registered, collected, status, channel, token, handle, taskVars, send>>

\* The caller's turn is cancelled or times out while it waits: the handle goes
\* with it and the task is on its own.
CancelDropped(k) ==
    /\ CallersGoAway /\ cancel[k].pc \in {"wait", "join"}
    /\ Leave(k, "gone")
    /\ UNCHANGED <<registered, collected, instanceVars, taskVars, send>>
-----------------------------------------------------------------------------
Tick ==
    /\ age' = [a \in Agents |-> IF Live(a) /\ age[a] < Timeout THEN age[a] + 1 ELSE age[a]]
    /\ cancel' = [k \in Cancellers |->
                    IF cancel[k].pc = "wait" /\ cancel[k].waited < Grace
                    THEN [cancel[k] EXCEPT !.waited = @ + 1] ELSE cancel[k]]
    /\ <<age', cancel'>> # <<age, cancel>>
    /\ UNCHANGED <<registered, collected, instanceVars, task, current, queue, tokens,
                   aborted, send>>

\* What the runtime drives by itself; a turn need not return.
TaskStep(a) == \/ BeginTurn(a) \/ TurnTimesOut(a) \/ TaskAborted(a) \/ Receive(a)
               \/ ReceiveEnds(a) \/ Stamp(a) \/ Reply(a)
TurnStep(a) == FirstTurnSucceeds(a) \/ TurnSucceeds(a) \/ TurnFails(a) \/ TaskPanics(a)

CancelStep(k) == \/ CancelSignal(k) \/ CancelClose(k) \/ CancelTake(k) \/ CancelJoined(k)
                 \/ CancelAbort(k) \/ CancelFinish(k) \/ CancelRecord(k) \/ CancelStamp(k)

Next ==
    \/ \E a \in Agents : Spawn(a) \/ TaskStep(a) \/ TurnStep(a)
    \/ \E S \in SUBSET Agents : GcCollect(S)
    \/ GcRemove
    \/ \E x \in Senders : Enqueue(x) \/ \E a \in Agents : SendTo(x, a)
    \/ \E k \in Cancellers : \/ CancelStep(k) \/ CancelDropped(k)
                             \/ \E a \in Agents : CancelStart(k, a)
    \/ Tick

Spec == Init /\ [][Next]_vars

\* The runtime polls every ready task and time passes.
FairSpec == /\ Spec
            /\ \A a \in Agents : WF_vars(TaskStep(a))
            /\ \A x \in Senders : WF_vars(Enqueue(x))
            /\ \A k \in Cancellers : WF_vars(CancelStep(k))
            /\ WF_vars(Tick)
-----------------------------------------------------------------------------
(* Properties                                                              *)

\* No more subagents are active at a time than the manager's limit.
ActiveWithinLimit == Cardinality(Active) <= MaxConcurrent

\* A second cancel finds no handle to wait for, and frees the slot of a subagent
\* that is still at work.
CancelledOnce(a) == Cardinality({k \in Cancellers : cancel[k].agent = a}) <= 1

\* The limit is one on the work done: no more subagents are at work than the limit
\* says, those that are being cancelled or were collected included, but for the
\* ones that are cancelled a second time while they work.
AtWork(a) == task[a] \in {"start", "working", "receive", "replyOk"}
WorkWithinLimit ==
    Cardinality({a \in Agents : AtWork(a) /\ CancelledOnce(a)}) <= MaxConcurrent

\* A subagent that has used more than its budget takes no further turn.
OverBudgetStops ==
    \A a \in Agents : tokens[a] > MaxTokens => ~AtWork(a)

\* The types, the slots and the budgets.
Inv == TypeOK /\ ActiveWithinLimit /\ OverBudgetStops

\* A terminal status is final unless a second cancel recorded it: neither a late
\* turn nor a late cancel replaces what a parent has already been told.
TerminalIsFinal ==
    [][\A a \in Agents : status[a] \in Terminal /\ CancelledOnce(a) =>
           status'[a] = status[a]]_vars

\* A cancel has closed the session and has not recorded its end, nor will it if it was
\* dropped while it waited.
HalfCancelled(a) == \E k \in Cancellers : /\ cancel[k].agent = a
                                          /\ cancel[k].pc \notin {"idle", "signal", "close", "done"}

\* Who is told of the end of a subagent finds it recorded.  A parent whose turn failed
\* finds a terminal status; so does one that is told that the session is closed, unless
\* it never was one, a cancel is half done, or a turn panicked, after which it runs for
\* its parents until one of them cancels it; and so does one whose cancel has returned,
\* after a panic too.  A gc collects nobody, at whatever step of the recording, without
\* a terminal status and a finishing time.
EndIsRecorded ==
    /\ \A x \in Senders : LET a == send[x].agent IN
          /\ send[x].reply = "error" => status[a] \in Terminal
          /\ send[x].reply = "closed" => \/ status[a] \in Terminal
                                        \/ Mode[a] = "run"
                                        \/ HalfCancelled(a)
                                        \/ task[a] = "panicked"
    /\ \A k \in Cancellers : cancel[k].pc = "done" => status[cancel[k].agent] \in Terminal
    /\ \A a \in Agents : a \in collected \/ (status[a] # "none" /\ a \notin registered) =>
          finished[a] /\ status[a] \in Terminal

\* Every task ends, at its deadline at the latest, and so does every call of
\* send and cancel, whether the turns of the subagents return or not.
EverythingEnds ==
    <>[](/\ \A a \in Agents : ~Live(a)
         /\ \A x \in Senders : send[x].pc \in {"idle", "done"}
         /\ \A k \in Cancellers : cancel[k].pc \in {"idle", "done", "gone"})
=============================================================================
