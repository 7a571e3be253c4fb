-------------------------------- MODULE Turn --------------------------------
(***************************************************************************)
(* The turns of the loop engine.  A turn asks the model, runs the tool     *)
(* calls it answers with and asks again, until the model answers with      *)
(* text, the budget or the rounds are spent, or the user stops it.  A      *)
(* budget counts requests and tool calls, a tracker refuses calls that     *)
(* failed or were done in the same turn, and the user cancels a token or   *)
(* sends commands that the engine reads between and during its requests.   *)
(* The limits of tokens and cents are checked and recorded where that of   *)
(* the requests is, which stands for them.  The guards of the families of  *)
(* browser calls, of profiles and of scopes, which are all off in a turn   *)
(* of this loop, and the texts are left out.                               *)
(***************************************************************************)
EXTENDS Integers, Sequences, FiniteSets, SequencesExt

CONSTANTS Calls,             \* the calls, each a tool with its arguments
          Kind,              \* ToolCallClassification of each
          MaxIterations,     \* max_iterations of the engine
          MaxLlmCalls, MaxToolInvocations,                    \* BudgetConfig
          MaxConsecutiveFailures, MaxCycleFailures, MaxNoProgress,
          Synthesize,        \* TerminationConfig::synthesize_on_exhaustion
          MaxContinuations,  \* MAX_CONTINUATION_ATTEMPTS
          MaxBatch,          \* bound: calls in an answer of the model
          MaxTurns,          \* bound: turns of the engine
          MaxCommands        \* bound: commands

NONE == -1

ASSUME TurnAssumption ==
    /\ Kind \in [Calls -> {"observation", "mutation", "orchestration"}]
    /\ Synthesize \in BOOLEAN
    /\ \A n \in {MaxIterations, MaxConsecutiveFailures, MaxCycleFailures,
                 MaxNoProgress, MaxBatch} : n \in Nat \ {0}
    /\ \A n \in {MaxLlmCalls, MaxToolInvocations, MaxContinuations, MaxTurns, MaxCommands} :
           n \in Nat

VARIABLES
    turn,     \* where the turn is: its phase and round, whether a batch went before, what
              \* its last request is for, how often it was continued or cut off, the result
    used,     \* BudgetTracker
    tracker,  \* RetryTracker
    batch,    \* the calls that run, those that were blocked, how many the model made
    input,    \* the token, the channel and the commands that were read from it
    turns, commands,
    seen      \* history of the turn: requests and tool calls that were made, calls that
              \* ran, those that settled and how often, whether the engine read of a stop

turnVars == <<turn, used, tracker, batch, input, turns, commands, seen>>

Idle == [phase |-> "idle", iteration |-> 0, followed |-> FALSE, closing |-> "none",
         attempts |-> 0, cut |-> FALSE, result |-> "none"]
NoBatch == [run |-> <<>>, blocked |-> {}, size |-> 0]
NoInput == [token |-> FALSE, channel |-> <<>>, pending |-> "none", stop |-> FALSE]
Fresh(generation) ==
    [failures |-> [c \in Calls |-> 0], permanent |-> {}, total |-> 0,
     same |-> [c \in Calls |-> 0], done |-> [c \in Calls |-> NONE], generation |-> generation]
Unseen == [requests |-> 0, calls |-> 0, ran |-> {}, settled |-> [c \in Calls |-> 0],
           stop |-> FALSE]

TurnInit ==
    /\ turn = Idle /\ used = [llm |-> 0, tools |-> 0] /\ tracker = Fresh(0)
    /\ batch = NoBatch /\ input = NoInput /\ turns = 0 /\ commands = 0 /\ seen = Unseen
-----------------------------------------------------------------------------
(* The budget                                                              *)

Fits_OneMore(llm, tools) ==        \* A bug: the limit is passed before it refuses.
    used.llm + llm <= MaxLlmCalls + 1 /\ used.tools + tools <= MaxToolInvocations

\* BudgetTracker::check_at; the wall time is over at any moment, so the budget may also
\* refuse what fits.
Fits(llm, tools) == used.llm + llm <= MaxLlmCalls /\ used.tools + tools <= MaxToolInvocations

\* BudgetTracker::record
Spend(llm, tools) == used' = [llm |-> used.llm + llm, tools |-> used.tools + tools]
-----------------------------------------------------------------------------
(* The tracker of calls                                                    *)

Limited_Late(c) ==                 \* A bug: a call may fail once more.
    tracker.total >= MaxCycleFailures \/ tracker.failures[c] > MaxConsecutiveFailures

Limited(c) == tracker.total >= MaxCycleFailures \/ tracker.failures[c] >= MaxConsecutiveFailures

Duplicate_AnyKind(c) ==            \* A bug: another change makes every call new.
    tracker.done[c] = tracker.generation

Duplicate(c) ==
    IF Kind[c] = "observation" THEN tracker.done[c] = tracker.generation
    ELSE tracker.done[c] # NONE

\* RetryTracker::should_allow
Blocked(c) ==
    \/ c \in tracker.permanent \/ Limited(c) \/ Duplicate(c)
    \/ tracker.same[c] >= MaxNoProgress

\* prepare_tool_calls_for_execution: all calls of an answer are judged before one of them
\* runs, and a change is not made twice in one answer.
Allowed(calls) ==
    FoldLeft(LAMBDA run, c : IF Blocked(c) \/ (Kind[c] = "mutation" /\ Contains(run, c))
                             THEN run ELSE Append(run, c),
             <<>>, calls)

Succeeds(o) == o \in {"new", "same"}

\* record_result_with_class, record_success, record_progress
AfterResult(t, c, o) ==
    LET g == IF Kind[c] = "mutation" THEN t.generation + 1 ELSE t.generation IN
    IF Succeeds(o)
    THEN [t EXCEPT !.failures[c] = 0, !.permanent = @ \ {c}, !.generation = g, !.done[c] = g,
                   !.same[c] = IF o = "same" THEN @ + 1 ELSE 1]
    ELSE [t EXCEPT !.failures[c] = @ + 1, !.total = @ + 1,
                   !.permanent = IF o = "permanent" THEN @ \cup {c} ELSE @ \ {c}]

\* RetryTracker::record_results, in the order of the calls
AfterResults(outcomes) ==
    FoldLeftDomain(LAMBDA t, i : AfterResult(t, batch.run[i], outcomes[i]), tracker, batch.run)

Cleared_KeepsSuccesses ==          \* A bug: what the turn before did counts as done.
    [Fresh(tracker.generation) EXCEPT !.done = tracker.done]

\* RetryTracker::clear
Cleared == Fresh(tracker.generation + 1)
-----------------------------------------------------------------------------
(* Stopping                                                                *)

\* prioritize_flow_command; Stop stands for Abort too and Wait for Resume.
Prioritize(current, command) == IF current = "Stop" THEN current ELSE command

Highest == FoldLeft(Prioritize, input.pending, input.channel)

\* drain_user_input_to_state and check_user_input
Drained == [input EXCEPT !.channel = <<>>, !.pending = Highest]
Taken == [input EXCEPT !.channel = <<>>, !.pending = "none"]

Polled_Forgets == Taken            \* A bug: the command is consumed and not remembered.

\* stream_cancel_requested
Polled == IF input.stop \/ input.token THEN input
          ELSE [Taken EXCEPT !.stop = Highest = "Stop"]

\* check_cancellation, where it finds something
Cancelled == input.stop \/ input.token \/ Highest = "Stop"

Notices(history) == seen' = [history EXCEPT !.stop = @ \/ Cancelled]
-----------------------------------------------------------------------------
(* The turn                                                                *)

EndTurn(result) == turn' = [turn EXCEPT !.phase = "idle", !.result = result]

\* A request is made: the commands that came are read for their steering.
Ask(phase, closing) ==
    /\ turn' = [turn EXCEPT !.phase = phase, !.closing = closing, !.attempts = 0, !.cut = FALSE]
    /\ input' = Drained
    /\ Notices([seen EXCEPT !.requests = @ + 1])

\* The session gives the engine a token and a channel of their own for the turn.
BeginTurn ==
    /\ turn.phase = "idle" /\ turns < MaxTurns
    /\ turn' = [Idle EXCEPT !.phase = "begin"]
    /\ turns' = turns + 1 /\ input' = NoInput /\ seen' = Unseen
    /\ UNCHANGED <<used, tracker, batch, commands>>

\* prepare_cycle, the checks after it and perceive, which fails if the conversation is
\* too long.  The token is reset: what was cancelled before goes on.
Prepare ==
    /\ turn.phase = "begin"
    /\ used' = [llm |-> 0, tools |-> 0] /\ tracker' = Cleared
    /\ input' = NoInput
    /\ LET stop == FoldLeft(Prioritize, "none", input.channel) = "Stop" IN
       /\ seen' = [seen EXCEPT !.stop = stop]
       /\ \/ stop /\ EndTurn("UserStopped")
          \/ ~stop /\ turn' = [turn EXCEPT !.phase = "ready", !.iteration = 1]
          \/ ~stop /\ EndTurn("Error")
    /\ UNCHANGED <<batch, turns, commands>>

Request_Waits ==                   \* A bug: Wait holds the turn, and nothing wakes it.
    /\ turn.phase = "ready" /\ Highest # "Wait"
    /\ \/ EndTurn("BudgetExhausted") /\ UNCHANGED <<input, seen>>
       \/ Fits(1, 0) /\ Ask("reasoning", "none")
    /\ UNCHANGED <<used, tracker, batch, turns, commands>>

\* The start of a round: estimate_reasoning_cost, budget_terminal, reason_simple
Request ==
    /\ turn.phase = "ready"
    /\ \/ EndTurn("BudgetExhausted") /\ UNCHANGED <<input, seen>>
       \/ Fits(1, 0) /\ Ask("reasoning", "none")
    /\ UNCHANGED <<used, tracker, batch, turns, commands>>

\* consume_stream_with_events looks for a stop at intervals and at each chunk.
Poll ==
    /\ turn.phase \in {"reasoning", "finishing"} /\ ~turn.cut
    /\ input.token \/ input.channel # <<>> \/ input.pending # "none"
    /\ input' = Polled /\ Notices(seen)
    /\ turn' = [turn EXCEPT !.cut = Cancelled]
    /\ UNCHANGED <<used, tracker, batch, turns, commands>>

\* continue_truncated_response: the answer was too long and the rest of it is asked for.
Continue ==
    /\ turn.phase \in {"reasoning", "finishing"} /\ ~turn.cut
    /\ turn.attempts < MaxContinuations /\ Fits(1, 0) /\ Spend(1, 0)
    /\ turn' = [turn EXCEPT !.attempts = @ + 1]
    /\ input' = Drained /\ Notices([seen EXCEPT !.requests = @ + 1])
    /\ UNCHANGED <<tracker, batch, turns, commands>>

RequestFails ==
    /\ turn.phase \in {"reasoning", "finishing"} /\ ~turn.cut
    /\ EndTurn(IF turn.closing = "synthesis" THEN "BudgetExhausted" ELSE "Error")
    /\ UNCHANGED <<used, tracker, batch, input, turns, commands, seen>>

\* finish_budget_exhausted, which asks for a summary if there is time.
Exhausted ==
    \/ EndTurn("BudgetExhausted") /\ input' = Taken /\ Notices(seen)
    \/ turn.followed /\ Synthesize /\ Ask("finishing", "synthesis")

\* An answer is there and nobody stopped the turn before it was.
Answered ==
    turn.phase = "reasoning" /\ Spend(1, 0) /\ UNCHANGED <<turns, commands>>

AnswerStopped ==
    /\ Answered /\ Cancelled
    /\ EndTurn("UserStopped") /\ input' = [Taken EXCEPT !.stop = FALSE] /\ Notices(seen)
    /\ UNCHANGED <<tracker, batch>>

AnswerText ==
    /\ Answered /\ ~Cancelled
    /\ EndTurn("Complete") /\ input' = Taken /\ Notices(seen)
    /\ UNCHANGED <<tracker, batch>>

\* The answer is empty: after a batch the model is asked once more, whatever the budget.
AnswerEmpty ==
    /\ Answered /\ ~Cancelled
    /\ IF turn.followed THEN Ask("finishing", "final")
       ELSE EndTurn("Incomplete") /\ input' = Taken /\ Notices(seen)
    /\ UNCHANGED <<tracker, batch>>

AnswerCalls(calls) ==
    /\ turn.phase = "reasoning" /\ ~turn.cut /\ ~Cancelled
    /\ UNCHANGED <<tracker, turns, commands>>
    /\ \/ Spend(1, 0) /\ Exhausted /\ UNCHANGED batch
       \/ /\ Fits(1, Len(calls)) /\ Spend(1, Len(calls))
          /\ batch' = [run |-> Allowed(calls), size |-> Len(calls),
                       blocked |-> {c \in ToSet(calls) : Blocked(c) \/ \E i, j \in DOMAIN calls :
                                        i < j /\ calls[i] = c /\ calls[j] = c /\ Kind[c] = "mutation"}]
          /\ turn' = [turn EXCEPT !.phase = "acting"]
          /\ input' = Taken /\ Notices([seen EXCEPT !.calls = @ + Len(calls)])

LastRound_OffByOne == turn.iteration > MaxIterations    \* A bug: one round more.

LastRound == turn.iteration >= MaxIterations

NextRound == turn' = [turn EXCEPT !.phase = "ready", !.iteration = @ + 1, !.followed = TRUE]

\* The results are there: they are recorded, and the calls once more in the budget; then the
\* conversation is shortened if it is long, which may fail.
ToolsEnd(outcomes) ==
    /\ turn.phase = "acting"
    /\ Spend(0, batch.size)
    /\ tracker' = AfterResults(outcomes) /\ batch' = NoBatch
    /\ LET history == [seen EXCEPT
                 !.ran = @ \cup ToSet(batch.run),
                 !.settled = [c \in Calls |-> @[c] + Cardinality({i \in DOMAIN batch.run :
                     batch.run[i] = c /\ outcomes[i] # "failed"})]]
           followed == [turn EXCEPT !.followed = TRUE]
           refused == batch.blocked # {} /\ \A i \in DOMAIN batch.run : ~Succeeds(outcomes[i])
           AskLast(closing) ==
               /\ turn' = [followed EXCEPT !.phase = "finishing", !.closing = closing,
                                           !.attempts = 0, !.cut = FALSE]
               /\ input' = Taken /\ Notices([history EXCEPT !.requests = @ + 1])
           Ends(result) == EndTurn(result) /\ input' = [Taken EXCEPT !.stop = FALSE] /\ Notices(history)
       IN \/ Ends("Error")
          \/ Cancelled /\ Ends("UserStopped")
          \/ ~Cancelled /\ refused /\ (Ends("BudgetExhausted") \/ (Synthesize /\ AskLast("synthesis")))
          \/ ~Cancelled /\ refused /\ Fits(1, batch.size) /\ AskLast("blocked")
          \/ ~Cancelled /\ ~refused /\ LastRound /\ AskLast("final")
          \/ ~Cancelled /\ ~refused /\ ~LastRound /\ NextRound /\ input' = Taken /\ Notices(history)
    /\ UNCHANGED <<turns, commands>>

\* The executor fails as a whole: nothing is recorded.
ToolsFail ==
    /\ turn.phase = "acting" /\ EndTurn("Error") /\ batch' = NoBatch
    /\ UNCHANGED <<used, tracker, input, turns, commands, seen>>

\* The last answer, of which no tool call is taken.
Conclude(text) ==
    /\ turn.phase = "finishing"
    /\ IF turn.closing = "blocked" THEN Spend(1, 0) ELSE UNCHANGED used
    /\ EndTurn(IF turn.closing = "synthesis" THEN "BudgetExhausted"
           ELSE IF text THEN "Complete" ELSE "Incomplete")
    /\ UNCHANGED <<tracker, batch, input, turns, commands, seen>>
-----------------------------------------------------------------------------
(* The user                                                                *)

Cancel ==
    /\ turn.phase # "idle" /\ ~input.token
    /\ input' = [input EXCEPT !.token = TRUE]
    /\ UNCHANGED <<turn, used, tracker, batch, turns, commands, seen>>

Command(command) ==
    /\ turn.phase # "idle" /\ commands < MaxCommands /\ commands' = commands + 1
    /\ input' = [input EXCEPT !.channel = Append(@, command)]
    /\ UNCHANGED <<turn, used, tracker, batch, turns, seen>>
-----------------------------------------------------------------------------
ToolOutcomes == {"new", "same", "failed", "permanent"}

EngineStep ==
    \/ Prepare \/ Request \/ Continue \/ RequestFails
    \/ AnswerStopped \/ AnswerText \/ AnswerEmpty
    \/ \E calls \in SeqOf(Calls, MaxBatch) \ {<<>>} : AnswerCalls(calls)
    \/ \E outcomes \in [DOMAIN batch.run -> ToolOutcomes] : ToolsEnd(outcomes)
    \/ ToolsFail
    \/ \E text \in BOOLEAN : Conclude(text)

TurnNext ==
    \/ EngineStep \/ BeginTurn \/ Poll \/ Cancel
    \/ \E command \in {"Stop", "Wait"} : Command(command)

TurnSpec == TurnInit /\ [][TurnNext]_turnVars

\* Requests are answered, time out or fail, and so do tool calls; the task of the turn runs.
FairTurns == TurnSpec /\ WF_turnVars(EngineStep)
-----------------------------------------------------------------------------
Phases == {"idle", "begin", "ready", "reasoning", "acting", "finishing"}

TurnTypeOK ==
    /\ turn \in [phase : Phases, iteration : 0 .. MaxIterations, followed : BOOLEAN,
                 closing : {"none", "final", "blocked", "synthesis"},
                 attempts : 0 .. MaxContinuations, cut : BOOLEAN,
                 result : {"none", "Complete", "Incomplete", "BudgetExhausted", "UserStopped",
                           "Error"}]
    /\ used \in [llm : Nat, tools : Nat]
    /\ tracker \in [failures : [Calls -> Nat], permanent : SUBSET Calls, total : Nat,
                    same : [Calls -> Nat], done : [Calls -> Nat \cup {NONE}], generation : Nat]
    /\ batch \in [run : SeqOf(Calls, MaxBatch), blocked : SUBSET Calls, size : 0 .. MaxBatch]
    /\ input \in [token : BOOLEAN, channel : SeqOf({"Stop", "Wait"}, MaxCommands),
                  pending : {"none", "Stop", "Wait"}, stop : BOOLEAN]
    /\ turns \in 0 .. MaxTurns /\ commands \in 0 .. MaxCommands
    /\ seen \in [requests : Nat, calls : Nat, ran : SUBSET Calls, settled : [Calls -> Nat],
                 stop : BOOLEAN]

\* A turn makes no more tool calls than the budget has, and at most two requests more than
\* it has: one because a request is recorded after the ones that continue it, which do not
\* see it, and one because the last answer is asked for without a look at the budget.
SpentWithinReach ==
    /\ seen.requests <= MaxLlmCalls + 2
    /\ seen.calls <= MaxToolInvocations

\* The calls of an answer are judged together before they run, so the failures of a turn,
\* and those of one call in a row, pass their limits by what one answer adds and no more.
FailuresWithinReach ==
    /\ tracker.total < MaxCycleFailures + MaxBatch
    /\ \A c \in Calls : tracker.failures[c] < MaxConsecutiveFailures + MaxBatch

\* A change that was made, or failed for good, is not tried again in the turn, whatever
\* else runs in between and however often an answer repeats it.
SettledOnce ==
    turn.phase # "begin" => \A c \in Calls : Kind[c] = "mutation" => seen.settled[c] <= 1

\* A call is blocked for what it did in this turn, for what ran beside it, or because too
\* much failed in this turn; never for what a turn before did.
VerdictsAreOfThisTurn ==
    \A c \in batch.blocked :
        c \in seen.ran \/ c \in ToSet(batch.run) \/ tracker.total >= MaxCycleFailures

\* The types, the limits that one answer may pass, and the grounds of the verdicts.
TurnInv == TurnTypeOK /\ SpentWithinReach /\ FailuresWithinReach /\ VerdictsAreOfThisTurn

\* Once the engine has read a stop, from the token, before a request or in the middle of
\* one, the turn starts no tool calls and is not reported as complete, unless its last
\* answer was already asked for.
StopIsObeyed ==
    [][seen.stop => /\ turn'.phase = "acting" => turn.phase = "acting"
                    /\ turn'.result = "Complete" => turn.phase = "finishing" \/ turn' = turn]_turnVars

\* A turn ends.
TurnsEnd == turn.phase # "idle" ~> turn.phase = "idle"
=============================================================================
