---------------------------- MODULE ToolApproval ----------------------------
(***************************************************************************)
(* The approval pipeline every tool call of an agent goes through:         *)
(* PermissionGateExecutor in front of ProposalGateExecutor, the            *)
(* AuthorityCoordinator they share, and the PermissionPromptState that the *)
(* gates of all session engines share with the HTTP handlers answering     *)
(* prompts.  Each action is what one lock, or one await, makes atomic.     *)
(* Time is kept as ages, counted in ticks and saturating just above the    *)
(* limit they are compared with.                                           *)
(***************************************************************************)
EXTENDS Naturals, Sequences

CONSTANTS Sessions,        \* session engines, each with its own executor stack
          Calls,           \* tool calls; a call's id also names its prompt
          Scopes,          \* authority::ApprovalScope
          Requests,        \* HTTP requests answering prompts
          Batch,           \* the batch of calls each session's turn executes
          ScopeOf,         \* the scope classify_call gives each call
          InvariantDenied, \* scopes on a sovereign or kernel-blind target
          PathTier,        \* the path policy's verdict on each scope
          AskRequired,     \* scopes whose capability requires asking
          Interruptible,   \* sessions whose turn may be cancelled or dropped
          PromptMode,      \* CapabilityMode::Prompt (else Capability)
          PromptTtl,       \* PROMPT_TTL and PROMPT_TIMEOUT_SECONDS, in ticks
          CacheTtl         \* CACHED_DECISION_TTL, in ticks

Decisions == {"Allow", "Deny", "AllowSession"}
Approvals == {"Allow", "AllowSession"}
Verdicts  == {"Allow", "Deny", "Propose", "Prompt"}

CallsOf(s) == {Batch[s][i] : i \in DOMAIN Batch[s]}

ASSUME BatchAssumption ==
    /\ Batch \in [Sessions -> Seq(Calls)]
    /\ \A s \in Sessions : Len(Batch[s]) > 0
ASSUME CallsAreUnique ==    \* a call id occurs once, in one batch
    \A s, t \in Sessions : \A i \in DOMAIN Batch[s], j \in DOMAIN Batch[t] :
        Batch[s][i] = Batch[t][j] => s = t /\ i = j
ASSUME PolicyAssumption ==
    /\ ScopeOf \in [Calls -> Scopes]
    /\ InvariantDenied \subseteq Scopes
    /\ PathTier \in [Scopes -> {"Allow", "Propose", "Deny"}]
    /\ AskRequired \subseteq Scopes
    /\ PromptMode \in BOOLEAN
    /\ Interruptible \subseteq Sessions
ASSUME TtlAssumption == PromptTtl \in Nat /\ CacheTtl \in Nat

VARIABLES
    \* PermissionPromptState
    pending,      \* prompts waiting for an answer
    promptAge,    \* ticks since each prompt was registered
    resolved,     \* the answers remembered for repeated requests
    resolvedAge,
    overrides,    \* scopes allowed for the session
    channel,      \* the oneshot channel of each prompt
    \* AuthorityCoordinator
    cache,        \* decisions handed from the outer gate to the inner one
    cacheAge,
    \* the executor stack of each session
    pc, pos,      \* where it is, and the call of its batch it classifies
    allowed,      \* calls the permission gate let through, in order
    passThrough,  \* calls the proposal gate let through
    cancelled,    \* sessions whose cancellation token is set
    outcome,      \* what became of each call
    \* the HTTP requests
    req, reply,
    \* history
    answer        \* the answer accepted for each prompt

promptVars  == <<pending, promptAge, resolved, resolvedAge, overrides, channel>>
cacheVars   == <<cache, cacheAge>>
sessionVars == <<pc, pos, allowed, passThrough, cancelled, outcome>>
requestVars == <<req, reply, answer>>
vars == <<promptVars, cacheVars, sessionVars, requestVars>>

NoDecision == [verdict |-> "none", satisfied |-> FALSE]
NoRequest  == [pc |-> "idle"]
NoReply    == [kind |-> "none"]

Cached == [verdict : {"none"} \cup Verdicts, satisfied : BOOLEAN]
SessionPcs == {"classify", "register", "insert", "await", "gate", "done", "dropped"}
RequestPcs == {"check", "take", "recheck", "apply", "send", "remember"}
Outcomes == {"none", "ran", "blocked", "denied", "refused",
             "cancelled", "timedout", "expired"}

TypeOK ==
    /\ pending \subseteq Calls
    /\ promptAge \in [Calls -> 0..PromptTtl + 1]
    /\ resolved \in [Calls -> {"none"} \cup Decisions]
    /\ resolvedAge \in [Calls -> 0..PromptTtl + 1]
    /\ overrides \subseteq Scopes
    /\ channel \in [Calls -> {"none", "open", "closed"} \cup Decisions]
    /\ cache \in [Calls -> Cached]
    /\ cacheAge \in [Calls -> 0..CacheTtl + 1]
    /\ pc \in [Sessions -> SessionPcs]
    /\ pos \in [Sessions -> Nat \ {0}]
    /\ allowed \in [Sessions -> Seq(Calls)]
    /\ passThrough \in [Sessions -> SUBSET Calls]
    /\ cancelled \subseteq Sessions
    /\ outcome \in [Calls -> Outcomes]
    /\ req \in [Requests -> {NoRequest} \cup
                  [pc : RequestPcs, call : Calls, decision : Decisions]]
    /\ reply \in [Requests -> {NoReply} \cup
                    [kind : {"ok"}, call : Calls, decision : Decisions] \cup
                    [kind : {"notfound", "expired"}, call : Calls]]
    /\ answer \in [Calls -> {"none"} \cup Decisions]
-----------------------------------------------------------------------------
(* AuthorityCoordinator                                                    *)

\* A bug: the permission policy is consulted before the path policy.
Resolve_PermissionFirst(c, sessionApproved) ==
    IF sessionApproved \/ ScopeOf[c] \notin AskRequired THEN "Allow"
    ELSE IF PromptMode THEN "Prompt" ELSE "Deny"

\* resolve_request: the order of the checks is the policy.
Resolve(c, sessionApproved) ==
    LET sc == ScopeOf[c] IN
    CASE sc \in InvariantDenied    -> "Deny"
      [] sc \notin InvariantDenied /\ PathTier[sc] # "Allow" -> PathTier[sc]
      [] OTHER -> IF sessionApproved \/ sc \notin AskRequired THEN "Allow"
                  ELSE IF PromptMode THEN "Prompt" ELSE "Deny"

\* clean_cache: entries older than the TTL are gone before any use.
Fresh == [c \in Calls |-> IF cacheAge[c] > CacheTtl THEN NoDecision ELSE cache[c]]

CacheDecision(c, v, satisfied) ==
    /\ cache' = [Fresh EXCEPT ![c] = [verdict |-> v, satisfied |-> satisfied]]
    /\ cacheAge' = [cacheAge EXCEPT ![c] = 0]

\* What the proposal gate decides on: the cached decision, or a new one that
\* knows of no session approval.
DecisionFor(c) == IF Fresh[c] # NoDecision THEN Fresh[c]
                  ELSE [verdict |-> Resolve(c, FALSE), satisfied |-> FALSE]

\* A bug: the cached decision is read and stays in the cache.
ConsumeDecision_Peek(c) == cache' = Fresh /\ UNCHANGED cacheAge

ConsumeDecision(c) == /\ cache' = [Fresh EXCEPT ![c] = NoDecision]
                      /\ UNCHANGED cacheAge
-----------------------------------------------------------------------------
Init ==
    /\ pending = {} /\ overrides = {} /\ cancelled = {}
    /\ promptAge = [c \in Calls |-> 0]
    /\ resolved = [c \in Calls |-> "none"]
    /\ resolvedAge = [c \in Calls |-> 0]
    /\ channel = [c \in Calls |-> "none"]
    /\ cache = [c \in Calls |-> NoDecision]
    /\ cacheAge = [c \in Calls |-> 0]
    /\ pc = [s \in Sessions |-> "classify"]
    /\ pos = [s \in Sessions |-> 1]
    /\ allowed = [s \in Sessions |-> <<>>]
    /\ passThrough = [s \in Sessions |-> {}]
    /\ outcome = [c \in Calls |-> "none"]
    /\ req = [r \in Requests |-> NoRequest]
    /\ reply = [r \in Requests |-> NoReply]
    /\ answer = [c \in Calls |-> "none"]
-----------------------------------------------------------------------------
(* PermissionGateExecutor: classify_calls, one call after the other        *)

Current(s) == Batch[s][pos[s]]

NextCall(s) == /\ pos' = [pos EXCEPT ![s] = @ + 1]
               /\ pc' = [pc EXCEPT ![s] = IF pos[s] = Len(Batch[s]) THEN "gate"
                                          ELSE "classify"]

AllowCall(s, v, satisfied) ==
    /\ CacheDecision(Current(s), v, satisfied)
    /\ allowed' = [allowed EXCEPT ![s] = Append(@, Current(s))]
    /\ NextCall(s)
    /\ UNCHANGED outcome

DenyCall(s, why) ==
    /\ outcome' = [outcome EXCEPT ![Current(s)] = why]
    /\ NextCall(s)
    /\ UNCHANGED <<allowed, cacheVars>>

\* check_permission with authority_decision.
Classify(s) ==
    /\ pc[s] = "classify"
    /\ LET v == Resolve(Current(s), ScopeOf[Current(s)] \in overrides) IN
       \/ v \in {"Allow", "Propose"} /\ AllowCall(s, v, FALSE)
       \/ v = "Deny" /\ DenyCall(s, "denied")
       \/ /\ v = "Prompt"
          /\ pc' = [pc EXCEPT ![s] = "register"]
          /\ UNCHANGED <<pos, allowed, outcome, cacheVars>>
    /\ UNCHANGED <<promptVars, passThrough, cancelled, requestVars>>

\* register, under the lock of session_overrides.
RegisterOverridden(s) ==
    /\ pc[s] = "register"
    /\ ScopeOf[Current(s)] \in overrides
    /\ AllowCall(s, "Prompt", TRUE)
    /\ UNCHANGED <<promptVars, passThrough, cancelled, requestVars>>

RegisterAsk(s) ==
    /\ pc[s] = "register"
    /\ ScopeOf[Current(s)] \notin overrides
    /\ pc' = [pc EXCEPT ![s] = "insert"]
    /\ UNCHANGED <<promptVars, cacheVars, pos, allowed, passThrough, cancelled,
                   outcome, requestVars>>

Expired == {c \in pending : promptAge[c] > PromptTtl}

\* A bug: an expired prompt is forgotten and its sender kept alive.
RegisterInsert_KeepSenders(s) ==
    /\ pc[s] = "insert"
    /\ pending' = (pending \ Expired) \cup {Current(s)}
    /\ channel' = [channel EXCEPT ![Current(s)] = "open"]
    /\ promptAge' = [promptAge EXCEPT ![Current(s)] = 0]
    /\ pc' = [pc EXCEPT ![s] = "await"]
    /\ UNCHANGED <<resolved, resolvedAge, overrides, cacheVars, pos, allowed,
                   passThrough, cancelled, outcome, requestVars>>

\* register, under the lock of pending: expired prompts are dropped, and with
\* them the senders their sessions wait on.  emit_prompt follows at once.
RegisterInsert(s) ==
    /\ pc[s] = "insert"
    /\ pending' = (pending \ Expired) \cup {Current(s)}
    /\ channel' = [c \in Calls |-> IF c = Current(s) THEN "open"
                                   ELSE IF c \in Expired THEN "closed"
                                   ELSE channel[c]]
    /\ promptAge' = [promptAge EXCEPT ![Current(s)] = 0]
    /\ pc' = [pc EXCEPT ![s] = "await"]
    /\ UNCHANGED <<resolved, resolvedAge, overrides, cacheVars, pos, allowed,
                   passThrough, cancelled, outcome, requestVars>>

\* Bugs: a dropped sender, or any answer, counts as an approval.
AwaitAllowed_OnClosed(s) ==
    /\ pc[s] = "await"
    /\ channel[Current(s)] \in Approvals \cup {"closed"}
    /\ AllowCall(s, "Prompt", TRUE)
    /\ UNCHANGED <<promptVars, passThrough, cancelled, requestVars>>

AwaitAllowed_OnAnswer(s) ==
    /\ pc[s] = "await"
    /\ channel[Current(s)] \in Decisions
    /\ AllowCall(s, "Prompt", TRUE)
    /\ UNCHANGED <<promptVars, passThrough, cancelled, requestVars>>

\* await_decision.  The token is polled every 5 ms, so an answer may win over
\* a cancellation that came first.
AwaitAllowed(s) ==
    /\ pc[s] = "await"
    /\ channel[Current(s)] \in Approvals
    /\ AllowCall(s, "Prompt", TRUE)
    /\ UNCHANGED <<promptVars, passThrough, cancelled, requestVars>>

\* A bug: the wait has no timeout of its own.
AwaitEnded_NoTimeout(s) ==
    /\ pc[s] = "await"
    /\ \/ channel[Current(s)] = "Deny" /\ DenyCall(s, "refused")
       \/ channel[Current(s)] = "closed" /\ DenyCall(s, "expired")
       \/ s \in cancelled /\ DenyCall(s, "cancelled")
    /\ UNCHANGED <<promptVars, passThrough, cancelled, requestVars>>

AwaitEnded(s) ==
    /\ pc[s] = "await"
    /\ \/ channel[Current(s)] = "Deny" /\ DenyCall(s, "refused")
       \/ channel[Current(s)] = "closed" /\ DenyCall(s, "expired")
       \/ s \in cancelled /\ DenyCall(s, "cancelled")
       \/ /\ channel[Current(s)] = "open"
          /\ promptAge[Current(s)] >= PromptTtl
          /\ DenyCall(s, "timedout")
    /\ UNCHANGED <<promptVars, passThrough, cancelled, requestVars>>

Cancel(s) ==
    /\ s \in Interruptible \ cancelled /\ pc[s] \notin {"done", "dropped"}
    /\ cancelled' = cancelled \cup {s}
    /\ UNCHANGED <<promptVars, cacheVars, pc, pos, allowed, passThrough, outcome,
                   requestVars>>

\* The future of the turn is dropped where it waits (a client went away, a
\* task was aborted): nothing of the shared state is undone.
Drop(s) ==
    /\ s \in Interruptible /\ pc[s] = "await"
    /\ pc' = [pc EXCEPT ![s] = "dropped"]
    /\ UNCHANGED <<promptVars, cacheVars, pos, allowed, passThrough, cancelled,
                   outcome, requestVars>>
-----------------------------------------------------------------------------
(* ProposalGateExecutor: the calls let through, in order, then the tools.  *)
(* A call it does not pass on is sent back, with or without a proposal     *)
(* written for it.                                                         *)

GateCall(s) ==
    /\ pc[s] = "gate" /\ allowed[s] # <<>>
    /\ LET c == Head(allowed[s])
           d == DecisionFor(c)
           passes == d.verdict = "Allow" \/ (d.verdict = "Prompt" /\ d.satisfied)
       IN /\ ConsumeDecision(c)
          /\ allowed' = [allowed EXCEPT ![s] = Tail(@)]
          /\ \/ /\ passes
                /\ passThrough' = [passThrough EXCEPT ![s] = @ \cup {c}]
                /\ UNCHANGED outcome
             \/ /\ ~passes
                /\ outcome' = [outcome EXCEPT ![c] = "blocked"]
                /\ UNCHANGED passThrough
    /\ UNCHANGED <<promptVars, pc, pos, cancelled, requestVars>>

Execute(s) ==
    /\ pc[s] = "gate" /\ allowed[s] = <<>>
    /\ outcome' = [c \in Calls |-> IF c \in passThrough[s] THEN "ran" ELSE outcome[c]]
    /\ pc' = [pc EXCEPT ![s] = "done"]
    /\ UNCHANGED <<promptVars, cacheVars, pos, allowed, passThrough, cancelled,
                   requestVars>>
-----------------------------------------------------------------------------
(* PermissionPromptState::resolve, called by handle_respond                *)

\* clean_resolved_locked
Remembered == [c \in Calls |-> IF resolvedAge[c] > PromptTtl THEN "none"
                               ELSE resolved[c]]

Goto(r, label) == req' = [req EXCEPT ![r].pc = label]

\* A bug: an unknown prompt is reported as an internal error.
Answer_Internal(r, kind) ==
    /\ req' = [req EXCEPT ![r] = NoRequest]
    /\ reply' = [reply EXCEPT ![r] = [kind |-> "internal", call |-> req[r].call]]

Answer(r, kind) ==
    /\ req' = [req EXCEPT ![r] = NoRequest]
    /\ reply' = [reply EXCEPT ![r] = [kind |-> kind, call |-> req[r].call]]

AnswerOk(r, d) ==
    /\ req' = [req EXCEPT ![r] = NoRequest]
    /\ reply' = [reply EXCEPT ![r] =
                     [kind |-> "ok", call |-> req[r].call, decision |-> d]]

\* A client that has seen the prompt answers it.
Respond(r, c, d) ==
    /\ req[r] = NoRequest /\ reply[r] = NoReply
    /\ channel[c] # "none"
    /\ req' = [req EXCEPT ![r] = [pc |-> "check", call |-> c, decision |-> d]]
    /\ UNCHANGED <<promptVars, cacheVars, sessionVars, reply, answer>>

\* A bug: a repeated request is told its own decision.
CheckResolved_Echo(r) ==
    /\ req[r].pc \in {"check", "recheck"}
    /\ resolved' = Remembered
    /\ LET known == Remembered[req[r].call] IN
       \/ known # "none" /\ AnswerOk(r, req[r].decision)
       \/ known = "none" /\ req[r].pc = "check" /\ Goto(r, "take") /\ UNCHANGED reply
       \/ known = "none" /\ req[r].pc = "recheck" /\ Answer(r, "notfound")
    /\ UNCHANGED <<pending, promptAge, resolvedAge, overrides, channel, cacheVars,
                   sessionVars, answer>>

\* check_resolved_cache, before and after take_pending_prompt.
CheckResolved(r) ==
    /\ req[r].pc \in {"check", "recheck"}
    /\ resolved' = Remembered
    /\ LET known == Remembered[req[r].call] IN
       \/ known # "none" /\ AnswerOk(r, known)
       \/ known = "none" /\ req[r].pc = "check" /\ Goto(r, "take") /\ UNCHANGED reply
       \/ known = "none" /\ req[r].pc = "recheck" /\ Answer(r, "notfound")
    /\ UNCHANGED <<pending, promptAge, resolvedAge, overrides, channel, cacheVars,
                   sessionVars, answer>>

\* A bug: the prompt is looked up and left pending.
TakePending_Get(r) ==
    /\ req[r].pc = "take"
    /\ Goto(r, IF req[r].call \in pending THEN "apply" ELSE "recheck")
    /\ UNCHANGED <<promptVars, cacheVars, sessionVars, reply, answer>>

TakePending(r) ==
    /\ req[r].pc = "take"
    /\ pending' = pending \ {req[r].call}
    /\ Goto(r, IF req[r].call \in pending THEN "apply" ELSE "recheck")
    /\ UNCHANGED <<promptAge, resolved, resolvedAge, overrides, channel, cacheVars,
                   sessionVars, reply, answer>>

Send(c, d) == channel' = [channel EXCEPT ![c] = IF @ = "open" THEN d ELSE @]

\* A bug: the session of an expired prompt is sent the late decision.
RefuseExpired_SendLate(r) ==
    /\ req[r].pc = "apply"
    /\ promptAge[req[r].call] > PromptTtl
    /\ Send(req[r].call, req[r].decision)
    /\ Answer(r, "expired")
    /\ UNCHANGED <<pending, promptAge, resolved, resolvedAge, overrides, cacheVars,
                   sessionVars, answer>>

RefuseExpired(r) ==
    /\ req[r].pc = "apply"
    /\ promptAge[req[r].call] > PromptTtl
    /\ Send(req[r].call, "Deny")
    /\ Answer(r, "expired")
    /\ UNCHANGED <<pending, promptAge, resolved, resolvedAge, overrides, cacheVars,
                   sessionVars, answer>>

\* apply_session_override
ApplyOverride(r) ==
    /\ req[r].pc = "apply"
    /\ promptAge[req[r].call] <= PromptTtl
    /\ overrides' = IF req[r].decision = "AllowSession"
                    THEN overrides \cup {ScopeOf[req[r].call]} ELSE overrides
    /\ answer' = [answer EXCEPT ![req[r].call] = req[r].decision]
    /\ Goto(r, "send")
    /\ UNCHANGED <<pending, promptAge, resolved, resolvedAge, channel, cacheVars,
                   sessionVars, reply>>

SendDecision(r) ==
    /\ req[r].pc = "send"
    /\ Send(req[r].call, req[r].decision)
    /\ Goto(r, "remember")
    /\ UNCHANGED <<pending, promptAge, resolved, resolvedAge, overrides, cacheVars,
                   sessionVars, reply, answer>>

\* cache_resolved
RememberAnswer(r) ==
    /\ req[r].pc = "remember"
    /\ resolved' = [Remembered EXCEPT ![req[r].call] = req[r].decision]
    /\ resolvedAge' = [resolvedAge EXCEPT ![req[r].call] = 0]
    /\ AnswerOk(r, req[r].decision)
    /\ UNCHANGED <<pending, promptAge, overrides, channel, cacheVars, sessionVars,
                   answer>>
-----------------------------------------------------------------------------
Older(age, ttl) == IF age > ttl THEN age ELSE age + 1

\* The age of a prompt matters while it is pending, taken, or waited on.
Timed(c) == \/ c \in pending
            \/ \E r \in Requests : req[r].pc = "apply" /\ req[r].call = c
            \/ \E s \in Sessions : pc[s] = "await" /\ Current(s) = c

\* A tick of the monotonic clock.
Tick ==
    /\ promptAge' = [c \in Calls |-> IF Timed(c) THEN Older(promptAge[c], PromptTtl)
                                     ELSE 0]
    /\ resolvedAge' = [c \in Calls |-> IF resolved[c] = "none" THEN 0
                                       ELSE Older(resolvedAge[c], PromptTtl)]
    /\ cacheAge' = [c \in Calls |-> IF cache[c] = NoDecision THEN 0
                                    ELSE Older(cacheAge[c], CacheTtl)]
    /\ UNCHANGED <<pending, resolved, overrides, channel, cache, sessionVars,
                   requestVars>>

SessionStep(s) ==
    \/ Classify(s) \/ RegisterOverridden(s) \/ RegisterAsk(s) \/ RegisterInsert(s)
    \/ AwaitAllowed(s) \/ AwaitEnded(s) \/ GateCall(s) \/ Execute(s)

RequestStep(r) ==
    \/ CheckResolved(r) \/ TakePending(r) \/ RefuseExpired(r) \/ ApplyOverride(r)
    \/ SendDecision(r) \/ RememberAnswer(r)

Next ==
    \/ \E s \in Sessions : SessionStep(s) \/ Cancel(s) \/ Drop(s)
    \/ \E r \in Requests, c \in Calls, d \in Decisions : Respond(r, c, d)
    \/ \E r \in Requests : RequestStep(r)
    \/ Tick

Spec == Init /\ [][Next]_vars

\* The runtime polls every ready task and time passes; nobody has to answer.
FairSpec == /\ Spec
            /\ \A s \in Sessions : WF_vars(SessionStep(s))
            /\ \A r \in Requests : WF_vars(RequestStep(r))
            /\ WF_vars(Tick)
-----------------------------------------------------------------------------
(* Properties                                                              *)

Granted      == {c \in Calls : answer[c] \in Approvals}
ScopeGranted == {ScopeOf[c] : c \in {d \in Calls : answer[d] = "AllowSession"}}
Ran          == {c \in Calls : outcome[c] = "ran"}
PolicyOpen   == {sc \in Scopes : sc \notin InvariantDenied /\ PathTier[sc] = "Allow"}

Authority == INSTANCE ToolAuthority WITH
    granted <- Granted, scopeGranted <- ScopeGranted, ran <- Ran,
    Admitted <- PolicyOpen \ AskRequired, Askable <- PolicyOpen \cap AskRequired

\* A call that reached the tools was let through by the policy, or a person
\* allowed it, or allowed its scope: whatever the order of the gates' steps, the
\* requests, the expiries and the re-resolution of a decision that went stale.
RanIsAuthorised == \A c \in Ran : Authority!Authorised(c)

\* The types, and who may run.
Inv == TypeOK /\ RanIsAuthorised

\* The pipeline, with its prompts, caches and clocks, implements ToolAuthority.
ImplementsAuthority == Authority!Spec

\* A call whose prompt was answered with a denial never reaches the tools, also
\* when its scope is allowed for the session at the same time.
RefusedNeverRuns == \A c \in Calls : answer[c] = "Deny" => outcome[c] # "ran"

\* A session waits only on a prompt that can still be answered, that a request
\* has taken and will answer, or whose channel already tells it to go on: no
\* interleaving of register, resolve and the dropping of expired prompts leaves
\* a waiter that only its timeout can wake while its answer was accepted.
WaiterIsReachable ==
    \A s \in Sessions : pc[s] = "await" =>
        \/ Current(s) \in pending
        \/ channel[Current(s)] # "open"
        \/ \E r \in Requests : /\ req[r].pc \in {"apply", "send"}
                               /\ req[r].call = Current(s)

\* Among racing requests for one prompt only one is accepted, for good.
AnsweredOnce ==
    [][\A c \in Calls : answer[c] # "none" => answer'[c] = answer[c]]_vars

\* Every request told that its prompt is resolved is told the decision that was
\* accepted, whichever request brought it; one told that the prompt expired, and
\* so is treated as denied, is never contradicted by a later approval.
RepliesAreTrue ==
    \A r \in Requests :
        /\ reply[r].kind = "ok" => answer[reply[r].call] = reply[r].decision
        /\ reply[r].kind = "expired" => /\ answer[reply[r].call] = "none"
                                        /\ channel[reply[r].call] \notin Approvals

\* The inner gate consumes every decision the outer gate cached, so that none is
\* left for a later call to use.
NothingLeftCached ==
    \A s \in Sessions : pc[s] = "done" => \A c \in CallsOf(s) : cache[c] = NoDecision

\* What the outer gate decided of a call is used by the inner one, and used up.
DecisionsAreUsedUp == RefusedNeverRuns /\ NothingLeftCached

\* No batch waits forever on people, a prompt nobody answers times out, and every
\* request that answers a prompt is replied to.
TurnsAndRequestsEnd ==
    <>[](/\ \A s \in Sessions : pc[s] \in {"done", "dropped"}
         /\ \A r \in Requests : req[r] = NoRequest)
=============================================================================
