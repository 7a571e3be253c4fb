------------------------ MODULE ToolApproval_proofs ------------------------
(***************************************************************************)
(* Proofs about ToolApproval, for all sessions, calls, scopes, batches,    *)
(* policies and limits: the types, that a call runs only if it is          *)
(* authorised, that the pipeline implements ToolAuthority, what requests   *)
(* are told, who can be waited for, and what the gates hand over.          *)
(***************************************************************************)
EXTENDS ToolApproval, SequencesExt, TLAPS

Authorised(c) == Authority!Authorised(c)

Asking == {"register", "insert", "await"}

\* The grants behind everything that lets a call through later.
Passes(d) == d.verdict = "Allow" \/ (d.verdict = "Prompt" /\ d.satisfied)

OverridesGranted == overrides \subseteq ScopeGranted
ChannelGranted == \A c \in Calls : channel[c] \in Approvals => answer[c] \in Approvals
CacheAuthorised == \A c \in Calls : Passes(cache[c]) => Authorised(c)
PassAuthorised == \A s \in Sessions : \A c \in passThrough[s] : Authorised(c)

GrantsInv == OverridesGranted /\ ChannelGranted /\ CacheAuthorised /\ PassAuthorised /\ RanIsAuthorised

\* One request at most holds a prompt, and answers it once.
HeldUnanswered ==
    \A r \in Requests : req[r].pc = "apply" =>
        req[r].call \notin pending /\ answer[req[r].call] = "none"
HeldOnce ==
    \A r, q \in Requests :
        req[r].pc = "apply" /\ req[q].pc = "apply" /\ req[r].call = req[q].call => r = q
SentIsAnswer ==
    \A r \in Requests : req[r].pc \in {"send", "remember"} =>
        answer[req[r].call] = req[r].decision
PendingUnanswered == \A c \in pending : answer[c] = "none"
Unprompted ==
    \A c \in Calls : channel[c] = "none" =>
        /\ c \notin pending /\ answer[c] = "none"
        /\ \A r \in Requests : req[r] # NoRequest => req[r].call # c

AnswerInv == HeldUnanswered /\ HeldOnce /\ SentIsAnswer /\ PendingUnanswered /\ Unprompted

\* Where a session is in its batch.
AtBatch ==
    \A s \in Sessions : pc[s] \in {"classify"} \cup Asking => pos[s] \in DOMAIN Batch[s]
AskedIsAskable ==
    \A s \in Sessions : pc[s] \in Asking => ScopeOf[Current(s)] \in PolicyOpen \cap AskRequired
NotYetPrompted ==
    \A s \in Sessions : \A i \in DOMAIN Batch[s] :
        i > pos[s] \/ (i = pos[s] /\ pc[s] \in {"classify", "register", "insert"})
            => channel[Batch[s][i]] = "none"
LetThrough ==
    \A s \in Sessions : allowed[s] \in Seq(CallsOf(s)) /\ passThrough[s] \subseteq CallsOf(s)
NotYetRan == \A s \in Sessions : pc[s] # "done" => \A c \in CallsOf(s) : outcome[c] # "ran"

PositionInv == AtBatch /\ AskedIsAskable /\ NotYetPrompted /\ LetThrough /\ NotYetRan

IInv == TypeOK /\ GrantsInv /\ AnswerInv /\ PositionInv
-----------------------------------------------------------------------------
LEMMA FreshType == TypeOK => Fresh \in [Calls -> Cached]
BY DEF TypeOK, Fresh, NoDecision, Cached

LEMMA CurrentType ==
    ASSUME NEW s \in Sessions, pos[s] \in DOMAIN Batch[s]
    PROVE  Current(s) \in Calls /\ Current(s) \in CallsOf(s)
BY BatchAssumption DEF Current, CallsOf

LEMMA CacheDecisionType ==
    ASSUME TypeOK, NEW c \in Calls, NEW v \in Verdicts, NEW b \in BOOLEAN,
           CacheDecision(c, v, b)
    PROVE  cache' \in [Calls -> Cached] /\ cacheAge' \in [Calls -> 0..CacheTtl + 1]
<1>1. [verdict |-> v, satisfied |-> b] \in Cached
  BY DEF Cached
<1>2. cache' \in [Calls -> Cached]
  BY <1>1, FreshType DEF CacheDecision
<1>3. 0 \in 0..CacheTtl + 1
  BY TtlAssumption
<1>4. cacheAge' \in [Calls -> 0..CacheTtl + 1]
  BY <1>3 DEF CacheDecision, TypeOK
<1>. QED  BY <1>2, <1>4

LEMMA AllowCallType ==
    ASSUME TypeOK, NEW s \in Sessions, pos[s] \in DOMAIN Batch[s],
           NEW v \in Verdicts, NEW b \in BOOLEAN, AllowCall(s, v, b)
    PROVE  /\ cache' \in [Calls -> Cached] /\ cacheAge' \in [Calls -> 0..CacheTtl + 1]
           /\ pc' \in [Sessions -> SessionPcs] /\ pos' \in [Sessions -> Nat \ {0}]
           /\ allowed' \in [Sessions -> Seq(Calls)] /\ outcome' \in [Calls -> Outcomes]
<1>1. Current(s) \in Calls
  BY CurrentType
<1>2. cache' \in [Calls -> Cached] /\ cacheAge' \in [Calls -> 0..CacheTtl + 1]
  BY <1>1, CacheDecisionType DEF AllowCall
<1>3. pc' \in [Sessions -> SessionPcs] /\ pos' \in [Sessions -> Nat \ {0}]
  BY DEF AllowCall, NextCall, TypeOK, SessionPcs
<1>4. allowed' \in [Sessions -> Seq(Calls)]
  BY <1>1 DEF AllowCall, TypeOK
<1>. QED  BY <1>2, <1>3, <1>4 DEF AllowCall, TypeOK

LEMMA DenyCallType ==
    ASSUME TypeOK, NEW s \in Sessions, pos[s] \in DOMAIN Batch[s],
           NEW o \in Outcomes, DenyCall(s, o)
    PROVE  /\ cache' \in [Calls -> Cached] /\ cacheAge' \in [Calls -> 0..CacheTtl + 1]
           /\ pc' \in [Sessions -> SessionPcs] /\ pos' \in [Sessions -> Nat \ {0}]
           /\ allowed' \in [Sessions -> Seq(Calls)] /\ outcome' \in [Calls -> Outcomes]
<1>1. Current(s) \in Calls
  BY CurrentType
<1>2. pc' \in [Sessions -> SessionPcs] /\ pos' \in [Sessions -> Nat \ {0}]
  BY DEF DenyCall, NextCall, TypeOK, SessionPcs
<1>. QED  BY <1>1, <1>2 DEF DenyCall, TypeOK, cacheVars

LEMMA TypeInit == Init => TypeOK
BY BatchAssumption, TtlAssumption
   DEF Init, TypeOK, Cached, NoDecision, NoRequest, NoReply, SessionPcs, Outcomes

\* What a request record is when its pc says that it is under way.
LEMMA RequestType ==
    ASSUME TypeOK, NEW r \in Requests, req[r].pc \in RequestPcs
    PROVE  /\ req[r] \in [pc : RequestPcs, call : Calls, decision : Decisions]
           /\ req[r].call \in Calls /\ req[r].decision \in Decisions
BY DEF TypeOK, NoRequest, RequestPcs

LEMMA GotoType ==
    ASSUME TypeOK, NEW r \in Requests, req[r].pc \in RequestPcs,
           NEW l \in RequestPcs, Goto(r, l)
    PROVE  req' \in [Requests -> {NoRequest} \cup
                       [pc : RequestPcs, call : Calls, decision : Decisions]]
<1>1. [req[r] EXCEPT !.pc = l] \in [pc : RequestPcs, call : Calls, decision : Decisions]
  BY RequestType
<1>. QED  BY <1>1 DEF Goto, TypeOK

LEMMA AnswerType ==
    ASSUME TypeOK, NEW r \in Requests, req[r].pc \in RequestPcs,
           \/ \E k \in {"notfound", "expired"} : Answer(r, k)
           \/ \E d \in Decisions : AnswerOk(r, d)
    PROVE  /\ req' \in [Requests -> {NoRequest} \cup
                          [pc : RequestPcs, call : Calls, decision : Decisions]]
           /\ reply' \in [Requests -> {NoReply} \cup
                            [kind : {"ok"}, call : Calls, decision : Decisions] \cup
                            [kind : {"notfound", "expired"}, call : Calls]]
<1>1. req' = [req EXCEPT ![r] = NoRequest]
  BY DEF Answer, AnswerOk
<1>2. PICK m \in [kind : {"ok"}, call : Calls, decision : Decisions] \cup
                 [kind : {"notfound", "expired"}, call : Calls] :
         reply' = [reply EXCEPT ![r] = m]
  <2>1. CASE \E k \in {"notfound", "expired"} : Answer(r, k)
    BY <2>1, RequestType DEF Answer
  <2>2. CASE \E d \in Decisions : AnswerOk(r, d)
    BY <2>2, RequestType DEF AnswerOk
  <2>. QED  BY <2>1, <2>2
<1>. QED  BY <1>1, <1>2 DEF TypeOK

LEMMA RememberedType == TypeOK => Remembered \in [Calls -> {"none"} \cup Decisions]
BY DEF TypeOK, Remembered

LEMMA SendType ==
    ASSUME TypeOK, NEW c \in Calls, NEW d \in Decisions, Send(c, d)
    PROVE  channel' \in [Calls -> {"none", "open", "closed"} \cup Decisions]
BY DEF TypeOK, Send

LEMMA OlderType ==
    ASSUME NEW ttl \in Nat, NEW a \in 0..ttl + 1
    PROVE  Older(a, ttl) \in 0..ttl + 1
BY DEF Older

LEMMA TypeNext == TypeOK /\ PositionInv /\ [Next]_vars => TypeOK'
<1>. SUFFICES ASSUME TypeOK, PositionInv, [Next]_vars PROVE TypeOK'
  OBVIOUS
<1>. USE DEF promptVars, cacheVars, sessionVars, requestVars
<1>1. ASSUME NEW s \in Sessions, Classify(s) PROVE TypeOK'
  <2>. DEFINE b == ScopeOf[Current(s)] \in overrides
              v == Resolve(Current(s), b)
  <2>1. pos[s] \in DOMAIN Batch[s] /\ Current(s) \in Calls
    BY <1>1, CurrentType DEF Classify, PositionInv, AtBatch
  <2>2. v \in Verdicts
    BY <2>1, PolicyAssumption DEF Resolve, Verdicts
  <2>3. CASE v \in {"Allow", "Propose"} /\ AllowCall(s, v, FALSE)
    <3>. HIDE DEF v
    <3>. QED  BY <1>1, <2>1, <2>2, <2>3, AllowCallType DEF Classify, TypeOK
  <2>4. CASE DenyCall(s, "denied")
    <3>1. "denied" \in Outcomes
      BY DEF Outcomes
    <3>. QED  BY <1>1, <2>1, <2>4, <3>1, DenyCallType DEF Classify, TypeOK
  <2>5. CASE pc' = [pc EXCEPT ![s] = "register"] /\ UNCHANGED <<pos, allowed, outcome, cacheVars>>
    BY <1>1, <2>5 DEF Classify, TypeOK, SessionPcs
  <2>. QED  BY <1>1, <2>3, <2>4, <2>5 DEF Classify
<1>2. ASSUME NEW s \in Sessions, RegisterOverridden(s) \/ AwaitAllowed(s) PROVE TypeOK'
  <2>1. pos[s] \in DOMAIN Batch[s]
    BY <1>2 DEF RegisterOverridden, AwaitAllowed, PositionInv, AtBatch, Asking
  <2>2. "Prompt" \in Verdicts /\ AllowCall(s, "Prompt", TRUE)
    BY <1>2 DEF RegisterOverridden, AwaitAllowed, Verdicts
  <2>. QED  BY <1>2, <2>1, <2>2, AllowCallType DEF RegisterOverridden, AwaitAllowed, TypeOK
<1>3. ASSUME NEW s \in Sessions, RegisterAsk(s) PROVE TypeOK'
  BY <1>3 DEF RegisterAsk, TypeOK, SessionPcs
<1>4. ASSUME NEW s \in Sessions, RegisterInsert(s) PROVE TypeOK'
  <2>1. Current(s) \in Calls
    BY <1>4, CurrentType DEF RegisterInsert, PositionInv, AtBatch, Asking
  <2>2. 0 \in 0..PromptTtl + 1
    BY TtlAssumption
  <2>3. pending' \subseteq Calls /\ promptAge' \in [Calls -> 0..PromptTtl + 1]
    BY <1>4, <2>1, <2>2 DEF RegisterInsert, TypeOK
  <2>4. channel' \in [Calls -> {"none", "open", "closed"} \cup Decisions]
    BY <1>4 DEF RegisterInsert, TypeOK
  <2>. QED  BY <1>4, <2>3, <2>4 DEF RegisterInsert, TypeOK, SessionPcs
<1>5. ASSUME NEW s \in Sessions, AwaitEnded(s) PROVE TypeOK'
  <2>1. pos[s] \in DOMAIN Batch[s]
    BY <1>5 DEF AwaitEnded, PositionInv, AtBatch, Asking
  <2>2. PICK o \in Outcomes : DenyCall(s, o)
    BY <1>5 DEF AwaitEnded, Outcomes
  <2>. QED  BY <1>5, <2>1, <2>2, DenyCallType DEF AwaitEnded, TypeOK
<1>6. ASSUME NEW s \in Sessions, Cancel(s) \/ Drop(s) PROVE TypeOK'
  BY <1>6 DEF Cancel, Drop, TypeOK, SessionPcs
<1>7. ASSUME NEW s \in Sessions, GateCall(s) PROVE TypeOK'
  <2>. DEFINE c == Head(allowed[s])
  <2>1. allowed[s] \in Seq(Calls) /\ c \in Calls
    BY <1>7 DEF GateCall, TypeOK
  <2>2. cache' = [Fresh EXCEPT ![c] = NoDecision] /\ cacheAge' = cacheAge
    BY <1>7 DEF GateCall, ConsumeDecision
  <2>3. NoDecision \in Cached
    BY DEF NoDecision, Cached
  <2>4. cache' \in [Calls -> Cached]
    BY <2>1, <2>2, <2>3, FreshType
  <2>5. allowed' \in [Sessions -> Seq(Calls)]
    BY <1>7, <2>1 DEF GateCall, TypeOK
  <2>6. passThrough' \in [Sessions -> SUBSET Calls] /\ outcome' \in [Calls -> Outcomes]
    <3>1. passThrough' = passThrough \/ passThrough' = [passThrough EXCEPT ![s] = @ \cup {c}]
      BY <1>7 DEF GateCall
    <3>2. outcome' = outcome \/ outcome' = [outcome EXCEPT ![c] = "blocked"]
      BY <1>7 DEF GateCall
    <3>. HIDE DEF c
    <3>3. outcome' \in [Calls -> Outcomes]
      BY <2>1, <3>2 DEF TypeOK, Outcomes
    <3>4. passThrough[s] \cup {c} \in SUBSET Calls
      BY <2>1 DEF TypeOK
    <3>5. passThrough' \in [Sessions -> SUBSET Calls]
      BY <3>1, <3>4 DEF TypeOK
    <3>. QED  BY <3>3, <3>5
  <2>. QED  BY <1>7, <2>2, <2>4, <2>5, <2>6 DEF GateCall, TypeOK
<1>8. ASSUME NEW s \in Sessions, Execute(s) PROVE TypeOK'
  BY <1>8 DEF Execute, TypeOK, SessionPcs, Outcomes
<1>9. ASSUME NEW r \in Requests, NEW c \in Calls, NEW d \in Decisions, Respond(r, c, d)
      PROVE  TypeOK'
  BY <1>9 DEF Respond, TypeOK, RequestPcs
<1>10. ASSUME NEW r \in Requests, CheckResolved(r) PROVE TypeOK'
  <2>1. req[r].pc \in RequestPcs
    BY <1>10 DEF CheckResolved, RequestPcs
  <2>2. resolved' \in [Calls -> {"none"} \cup Decisions]
    BY <1>10, RememberedType DEF CheckResolved
  <2>3. Remembered[req[r].call] \in {"none"} \cup Decisions
    BY <2>1, RequestType, RememberedType
  <2>4. CASE Remembered[req[r].call] # "none" /\ AnswerOk(r, Remembered[req[r].call])
    BY <1>10, <2>1, <2>2, <2>3, <2>4, AnswerType DEF CheckResolved, TypeOK
  <2>5. CASE Goto(r, "take") /\ UNCHANGED reply
    BY <1>10, <2>1, <2>2, <2>5, GotoType DEF CheckResolved, TypeOK, RequestPcs
  <2>6. CASE Answer(r, "notfound")
    BY <1>10, <2>1, <2>2, <2>6, AnswerType DEF CheckResolved, TypeOK
  <2>. QED  BY <1>10, <2>4, <2>5, <2>6 DEF CheckResolved
<1>11. ASSUME NEW r \in Requests, TakePending(r) PROVE TypeOK'
  <2>1. req[r].pc \in RequestPcs
    BY <1>11 DEF TakePending, RequestPcs
  <2>2. PICK l \in RequestPcs : Goto(r, l)
    BY <1>11 DEF TakePending, RequestPcs
  <2>. QED  BY <1>11, <2>1, <2>2, GotoType DEF TakePending, TypeOK
<1>12. ASSUME NEW r \in Requests, RefuseExpired(r) PROVE TypeOK'
  <2>1. req[r].pc \in RequestPcs
    BY <1>12 DEF RefuseExpired, RequestPcs
  <2>2. channel' \in [Calls -> {"none", "open", "closed"} \cup Decisions]
    BY <1>12, <2>1, RequestType, SendType DEF RefuseExpired, Decisions
  <2>. QED  BY <1>12, <2>1, <2>2, AnswerType DEF RefuseExpired, TypeOK
<1>13. ASSUME NEW r \in Requests, ApplyOverride(r) PROVE TypeOK'
  <2>1. req[r].pc \in RequestPcs
    BY <1>13 DEF ApplyOverride, RequestPcs
  <2>2. req[r].call \in Calls /\ req[r].decision \in Decisions
    BY <2>1, RequestType
  <2>3. overrides' \subseteq Scopes
    BY <1>13, <2>2, PolicyAssumption DEF ApplyOverride, TypeOK
  <2>4. answer' \in [Calls -> {"none"} \cup Decisions]
    BY <1>13, <2>2 DEF ApplyOverride, TypeOK
  <2>. QED  BY <1>13, <2>1, <2>3, <2>4, GotoType DEF ApplyOverride, TypeOK, RequestPcs
<1>14. ASSUME NEW r \in Requests, SendDecision(r) PROVE TypeOK'
  <2>1. req[r].pc \in RequestPcs
    BY <1>14 DEF SendDecision, RequestPcs
  <2>2. channel' \in [Calls -> {"none", "open", "closed"} \cup Decisions]
    BY <1>14, <2>1, RequestType, SendType DEF SendDecision
  <2>. QED  BY <1>14, <2>1, <2>2, GotoType DEF SendDecision, TypeOK, RequestPcs
<1>15. ASSUME NEW r \in Requests, RememberAnswer(r) PROVE TypeOK'
  <2>1. req[r].pc \in RequestPcs
    BY <1>15 DEF RememberAnswer, RequestPcs
  <2>2. resolved' \in [Calls -> {"none"} \cup Decisions]
    BY <1>15, <2>1, RequestType, RememberedType DEF RememberAnswer
  <2>3. resolvedAge' \in [Calls -> 0..PromptTtl + 1]
    <3>1. 0 \in 0..PromptTtl + 1
      BY TtlAssumption
    <3>. QED  BY <1>15, <3>1 DEF RememberAnswer, TypeOK
  <2>. QED  BY <1>15, <2>1, <2>2, <2>3, RequestType, AnswerType DEF RememberAnswer, TypeOK
<1>16. ASSUME Tick PROVE TypeOK'
  <2>1. 0 \in 0..PromptTtl + 1 /\ 0 \in 0..CacheTtl + 1
    BY TtlAssumption
  <2>2. promptAge' \in [Calls -> 0..PromptTtl + 1]
    BY <1>16, <2>1, OlderType, TtlAssumption DEF Tick, TypeOK
  <2>3. resolvedAge' \in [Calls -> 0..PromptTtl + 1]
    BY <1>16, <2>1, OlderType, TtlAssumption DEF Tick, TypeOK
  <2>4. cacheAge' \in [Calls -> 0..CacheTtl + 1]
    BY <1>16, <2>1, OlderType, TtlAssumption DEF Tick, TypeOK
  <2>. QED  BY <1>16, <2>2, <2>3, <2>4 DEF Tick, TypeOK
<1>17. CASE UNCHANGED vars
  BY <1>17 DEF vars, TypeOK
<1>. QED  BY <1>1, <1>2, <1>3, <1>4, <1>5, <1>6, <1>7, <1>8, <1>9, <1>10, <1>11, <1>12,
             <1>13, <1>14, <1>15, <1>16, <1>17 DEF Next, SessionStep, RequestStep
-----------------------------------------------------------------------------
LEMMA AnswerNext == IInv /\ [Next]_vars => AnswerInv'
<1>. SUFFICES ASSUME IInv, [Next]_vars PROVE AnswerInv'
  OBVIOUS
<1>. USE DEF promptVars, cacheVars, sessionVars, requestVars
<1>0. TypeOK /\ AnswerInv /\ PositionInv
  BY DEF IInv
<1>1. CASE UNCHANGED <<req, pending, answer, channel>>
  BY <1>0, <1>1 DEF AnswerInv, HeldUnanswered, HeldOnce, SentIsAnswer, PendingUnanswered, Unprompted
<1>2. ASSUME NEW s \in Sessions, RegisterInsert(s) PROVE AnswerInv'
  <2>. DEFINE c == Current(s)
  <2>1. c \in Calls /\ channel[c] = "none"
    BY <1>0, <1>2, CurrentType DEF RegisterInsert, PositionInv, NotYetPrompted, AtBatch, Asking, Current
  <2>2. /\ answer' = answer /\ req' = req
        /\ pending' \subseteq pending \cup {c}
        /\ \A x \in Calls : channel'[x] = "none" => x # c /\ channel[x] = "none"
    BY <1>2 DEF RegisterInsert
  <2>3. \A r \in Requests : req[r].pc \in RequestPcs => req[r].call \in Calls /\ req[r].call # c
    BY <1>0, <2>1, RequestType DEF AnswerInv, Unprompted, NoRequest, RequestPcs
  <2>4. HeldUnanswered'
    BY <1>0, <2>2, <2>3 DEF AnswerInv, HeldUnanswered, RequestPcs
  <2>5. HeldOnce' /\ SentIsAnswer'
    BY <1>0, <2>2 DEF AnswerInv, HeldOnce, SentIsAnswer
  <2>6. PendingUnanswered'
    BY <1>0, <2>1, <2>2 DEF AnswerInv, PendingUnanswered, Unprompted
  <2>7. Unprompted'
    BY <1>0, <2>1, <2>2 DEF AnswerInv, Unprompted
  <2>. QED  BY <2>4, <2>5, <2>6, <2>7 DEF AnswerInv
<1>3. ASSUME NEW r \in Requests, NEW c \in Calls, NEW d \in Decisions, Respond(r, c, d)
      PROVE  AnswerInv'
  <2>1. /\ UNCHANGED <<pending, answer, channel>> /\ channel[c] # "none"
        /\ req' = [req EXCEPT ![r] = [pc |-> "check", call |-> c, decision |-> d]]
    BY <1>3 DEF Respond
  <2>2. req'[r].pc = "check" /\ req'[r].call = c /\ \A q \in Requests \ {r} : req'[q] = req[q]
    BY <1>0, <2>1 DEF TypeOK
  <2>. QED  BY <1>0, <2>1, <2>2 DEF AnswerInv, HeldUnanswered, HeldOnce, SentIsAnswer, PendingUnanswered, Unprompted
<1>4. ASSUME NEW r \in Requests, RequestStep(r) PROVE AnswerInv'
  <2>. DEFINE c == req[r].call
  <2>1. req[r].pc \in RequestPcs /\ req[r] # NoRequest
    BY <1>4 DEF RequestStep, CheckResolved, TakePending, RefuseExpired, ApplyOverride,
                SendDecision, RememberAnswer, RequestPcs, NoRequest
  <2>2. c \in Calls /\ req[r].decision \in Decisions
    BY <1>0, <2>1, RequestType
  <2>3. \A l \in RequestPcs : Goto(r, l) =>
           /\ req'[r].pc = l /\ req'[r].call = c /\ req'[r].decision = req[r].decision
           /\ \A q \in Requests \ {r} : req'[q] = req[q]
    BY <1>0, <2>1, RequestType DEF Goto, TypeOK
  <2>4. \A k, d : Answer(r, k) \/ AnswerOk(r, d) =>
           req'[r] = NoRequest /\ \A q \in Requests \ {r} : req'[q] = req[q]
    BY <1>0 DEF Answer, AnswerOk, TypeOK
  <2>5. CASE CheckResolved(r)
    <3>1. UNCHANGED <<pending, answer, channel>>
      BY <2>5 DEF CheckResolved
    <3>2. /\ req'[r] = NoRequest \/ (req'[r].pc = "take" /\ req'[r].call = c)
          /\ \A q \in Requests \ {r} : req'[q] = req[q]
      BY <2>3, <2>4, <2>5 DEF CheckResolved, RequestPcs
    <3>. QED  BY <1>0, <2>1, <3>1, <3>2
                 DEF AnswerInv, HeldUnanswered, HeldOnce, SentIsAnswer, PendingUnanswered, Unprompted, NoRequest
  <2>6. CASE TakePending(r)
    <3>1. UNCHANGED <<answer, channel>> /\ pending' = pending \ {c}
      BY <2>6 DEF TakePending
    <3>2. /\ req'[r].pc = (IF c \in pending THEN "apply" ELSE "recheck") /\ req'[r].call = c
          /\ \A q \in Requests \ {r} : req'[q] = req[q]
      BY <2>3, <2>6 DEF TakePending, RequestPcs
    <3>. QED  BY <1>0, <2>1, <3>1, <3>2
                 DEF AnswerInv, HeldUnanswered, HeldOnce, SentIsAnswer, PendingUnanswered, Unprompted
  <2>7. CASE RefuseExpired(r)
    <3>1. UNCHANGED <<pending, answer>> /\ Send(c, "Deny")
      BY <2>7 DEF RefuseExpired
    <3>2. \A x \in Calls : channel'[x] = "none" => channel[x] = "none"
      BY <1>0, <3>1 DEF Send, TypeOK
    <3>3. req'[r] = NoRequest /\ \A q \in Requests \ {r} : req'[q] = req[q]
      BY <2>4, <2>7 DEF RefuseExpired
    <3>. QED  BY <1>0, <2>1, <3>1, <3>2, <3>3
                 DEF AnswerInv, HeldUnanswered, HeldOnce, SentIsAnswer, PendingUnanswered, Unprompted, NoRequest
  <2>8. CASE ApplyOverride(r)
    <3>1. UNCHANGED <<pending, channel>> /\ answer' = [answer EXCEPT ![c] = req[r].decision]
      BY <2>8 DEF ApplyOverride
    <3>2. /\ req'[r].pc = "send" /\ req'[r].call = c /\ req'[r].decision = req[r].decision
          /\ \A q \in Requests \ {r} : req'[q] = req[q]
      BY <2>3, <2>8 DEF ApplyOverride, RequestPcs
    <3>3. req[r].pc = "apply" /\ c \notin pending /\ answer[c] = "none"
      BY <1>0, <2>8 DEF ApplyOverride, AnswerInv, HeldUnanswered
    <3>4. answer'[c] = req[r].decision /\ \A x \in Calls \ {c} : answer'[x] = answer[x]
      BY <1>0, <2>2, <3>1 DEF TypeOK
    <3>5. \A q \in Requests \ {r} : req[q].pc = "apply" => req[q].call \in Calls \ {c}
      BY <1>0, <3>3, RequestType DEF AnswerInv, HeldOnce, RequestPcs
    <3>6. \A q \in Requests \ {r} : req[q].pc \in {"send", "remember"} => req[q].call \in Calls \ {c}
      BY <1>0, <3>3, RequestType DEF AnswerInv, SentIsAnswer, RequestPcs, Decisions
    <3>7. HeldUnanswered' /\ HeldOnce'
      BY <1>0, <3>1, <3>2, <3>4, <3>5 DEF AnswerInv, HeldUnanswered, HeldOnce
    <3>8. SentIsAnswer'
      BY <1>0, <3>2, <3>4, <3>6 DEF AnswerInv, SentIsAnswer
    <3>9. PendingUnanswered'
      BY <1>0, <3>1, <3>3, <3>4 DEF AnswerInv, PendingUnanswered, TypeOK
    <3>10. Unprompted'
      BY <1>0, <2>1, <3>1, <3>2, <3>4 DEF AnswerInv, Unprompted
    <3>. QED  BY <3>7, <3>8, <3>9, <3>10 DEF AnswerInv
  <2>9. CASE SendDecision(r)
    <3>1. UNCHANGED <<pending, answer>> /\ Send(c, req[r].decision) /\ req[r].pc = "send"
      BY <2>9 DEF SendDecision
    <3>2. \A x \in Calls : channel'[x] = "none" => channel[x] = "none"
      BY <1>0, <2>2, <3>1 DEF Send, TypeOK, Decisions
    <3>3. /\ req'[r].pc = "remember" /\ req'[r].call = c /\ req'[r].decision = req[r].decision
          /\ \A q \in Requests \ {r} : req'[q] = req[q]
      BY <2>3, <2>9 DEF SendDecision, RequestPcs
    <3>. QED  BY <1>0, <2>1, <3>1, <3>2, <3>3
                 DEF AnswerInv, HeldUnanswered, HeldOnce, SentIsAnswer, PendingUnanswered, Unprompted
  <2>10. CASE RememberAnswer(r)
    <3>1. UNCHANGED <<pending, answer, channel>>
      BY <2>10 DEF RememberAnswer
    <3>2. req'[r] = NoRequest /\ \A q \in Requests \ {r} : req'[q] = req[q]
      BY <2>4, <2>10 DEF RememberAnswer
    <3>. QED  BY <1>0, <2>1, <3>1, <3>2
                 DEF AnswerInv, HeldUnanswered, HeldOnce, SentIsAnswer, PendingUnanswered, Unprompted, NoRequest
  <2>. QED  BY <1>4, <2>5, <2>6, <2>7, <2>8, <2>9, <2>10 DEF RequestStep
<1>5. ASSUME NEW s \in Sessions, SessionStep(s) \/ Cancel(s) \/ Drop(s), ~RegisterInsert(s)
      PROVE  AnswerInv'
  <2>1. UNCHANGED <<req, pending, answer, channel>>
    BY <1>5 DEF SessionStep, Classify, RegisterOverridden, RegisterAsk, AwaitAllowed, AwaitEnded,
                GateCall, Execute, Cancel, Drop
  <2>. QED  BY <1>1, <2>1
<1>6. CASE Tick \/ UNCHANGED vars
  BY <1>1, <1>6 DEF Tick, vars
<1>. QED  BY <1>2, <1>3, <1>4, <1>5, <1>6 DEF Next
-----------------------------------------------------------------------------
LEMMA OneSession ==
    ASSUME NEW s \in Sessions, NEW t \in Sessions, NEW c \in CallsOf(s), c \in CallsOf(t)
    PROVE  s = t
BY CallsAreUnique DEF CallsOf

LEMMA BatchType ==
    ASSUME NEW s \in Sessions
    PROVE  /\ DOMAIN Batch[s] = 1..Len(Batch[s]) /\ Len(Batch[s]) \in Nat \ {0}
           /\ \A i \in DOMAIN Batch[s] : Batch[s][i] \in CallsOf(s)
           /\ CallsOf(s) \subseteq Calls
BY BatchAssumption DEF CallsOf

\* Going on to the next call of the batch.
LEMMA NextCallPosition ==
    ASSUME TypeOK, PositionInv, NEW s \in Sessions, pos[s] \in DOMAIN Batch[s],
           NextCall(s), channel' = channel
    PROVE  AtBatch' /\ AskedIsAskable' /\ NotYetPrompted'
<1>1. /\ pos'[s] = pos[s] + 1 /\ pos[s] \in Nat
      /\ pc'[s] = IF pos[s] = Len(Batch[s]) THEN "gate" ELSE "classify"
      /\ \A t \in Sessions \ {s} : pos'[t] = pos[t] /\ pc'[t] = pc[t]
  BY DEF NextCall, TypeOK
<1>2. AtBatch'
  BY <1>1, BatchType DEF AtBatch, PositionInv, Asking
<1>3. AskedIsAskable'
  <2>1. SUFFICES ASSUME NEW t \in Sessions, pc'[t] \in Asking
                 PROVE  ScopeOf[Batch[t][pos'[t]]] \in PolicyOpen \cap AskRequired
    BY DEF AskedIsAskable, Current
  <2>2. t # s
    BY <1>1, <2>1 DEF Asking
  <2>. QED  BY <1>1, <2>1, <2>2 DEF AskedIsAskable, PositionInv, Current
<1>4. NotYetPrompted'
  BY <1>1, BatchType DEF NotYetPrompted, PositionInv
<1>. QED  BY <1>2, <1>3, <1>4

LEMMA AllowCallPosition ==
    ASSUME TypeOK, PositionInv, NEW s \in Sessions, pos[s] \in DOMAIN Batch[s], pc[s] # "done",
           NEW v, NEW b, AllowCall(s, v, b), channel' = channel, passThrough' = passThrough
    PROVE  PositionInv'
<1>1. AtBatch' /\ AskedIsAskable' /\ NotYetPrompted'
  BY NextCallPosition DEF AllowCall
<1>2. LetThrough'
  <2>1. Current(s) \in CallsOf(s)
    BY CurrentType
  <2>2. Append(allowed[s], Current(s)) \in Seq(CallsOf(s))
    BY <2>1 DEF PositionInv, LetThrough
  <2>. QED  BY <2>2 DEF AllowCall, PositionInv, LetThrough, TypeOK
<1>3. NotYetRan'
  <2>1. outcome' = outcome /\ \A t \in Sessions \ {s} : pc'[t] = pc[t]
    BY DEF AllowCall, NextCall, TypeOK
  <2>. QED  BY <2>1 DEF PositionInv, NotYetRan
<1>. QED  BY <1>1, <1>2, <1>3 DEF PositionInv

LEMMA DenyCallPosition ==
    ASSUME TypeOK, PositionInv, NEW s \in Sessions, pos[s] \in DOMAIN Batch[s], pc[s] # "done",
           NEW o, o # "ran", DenyCall(s, o), channel' = channel, passThrough' = passThrough
    PROVE  PositionInv'
<1>1. AtBatch' /\ AskedIsAskable' /\ NotYetPrompted'
  BY NextCallPosition DEF DenyCall
<1>2. LetThrough'
  BY DEF DenyCall, PositionInv, LetThrough
<1>3. NotYetRan'
  <2>1. \A t \in Sessions \ {s} : pc'[t] = pc[t]
    BY DEF DenyCall, NextCall, TypeOK
  <2>2. \A c \in Calls : outcome[c] # "ran" => outcome'[c] # "ran"
    BY DEF DenyCall, TypeOK
  <2>. QED  BY <2>1, <2>2, BatchType DEF PositionInv, NotYetRan
<1>. QED  BY <1>1, <1>2, <1>3 DEF PositionInv

LEMMA PositionInit == Init => PositionInv
<1>. SUFFICES ASSUME Init PROVE PositionInv
  OBVIOUS
<1>1. AtBatch
  BY BatchType DEF Init, AtBatch
<1>2. AskedIsAskable
  BY DEF Init, AskedIsAskable, Asking
<1>3. NotYetPrompted
  BY BatchType DEF Init, NotYetPrompted
<1>4. LetThrough /\ NotYetRan
  BY BatchType DEF Init, LetThrough, NotYetRan
<1>. QED  BY <1>1, <1>2, <1>3, <1>4 DEF PositionInv

LEMMA PositionNext == IInv /\ [Next]_vars => PositionInv'
<1>. SUFFICES ASSUME IInv, [Next]_vars PROVE PositionInv'
  OBVIOUS
<1>. USE DEF promptVars, cacheVars, sessionVars, requestVars
<1>0. TypeOK /\ AnswerInv /\ PositionInv
  BY DEF IInv
<1>1. ASSUME UNCHANGED <<pc, pos, allowed, passThrough, outcome>>,
             \A c \in Calls : channel[c] = "none" => channel'[c] = "none"
      PROVE  PositionInv'
  <2>1. AtBatch' /\ AskedIsAskable' /\ LetThrough' /\ NotYetRan'
    BY <1>0, <1>1 DEF PositionInv, AtBatch, AskedIsAskable, LetThrough, NotYetRan, Current
  <2>2. NotYetPrompted'
    BY <1>0, <1>1, BatchType DEF PositionInv, NotYetPrompted
  <2>. QED  BY <2>1, <2>2 DEF PositionInv
<1>2. ASSUME NEW s \in Sessions, NEW l \in {"register", "insert", "dropped"},
             pc' = [pc EXCEPT ![s] = l], pc[s] # "done",
             l # "dropped" => pc[s] \in {"classify", "register"},
             l \in Asking => ScopeOf[Current(s)] \in PolicyOpen \cap AskRequired,
             UNCHANGED <<pos, allowed, passThrough, outcome, channel>>
      PROVE  PositionInv'
  <2>1. pc'[s] = l /\ \A t \in Sessions \ {s} : pc'[t] = pc[t]
    BY <1>0, <1>2 DEF TypeOK
  <2>2. AtBatch' /\ LetThrough' /\ NotYetRan'
    BY <1>0, <1>2, <2>1 DEF PositionInv, AtBatch, LetThrough, NotYetRan, Asking
  <2>3. AskedIsAskable'
    BY <1>0, <1>2, <2>1 DEF PositionInv, AskedIsAskable, Current
  <2>4. NotYetPrompted'
    BY <1>0, <1>2, <2>1, BatchType DEF PositionInv, NotYetPrompted
  <2>. QED  BY <2>2, <2>3, <2>4 DEF PositionInv
<1>3. ASSUME NEW s \in Sessions, Classify(s) PROVE PositionInv'
  <2>. DEFINE v == Resolve(Current(s), ScopeOf[Current(s)] \in overrides)
  <2>1. /\ pc[s] = "classify" /\ pos[s] \in DOMAIN Batch[s] /\ Current(s) \in Calls
        /\ channel' = channel /\ passThrough' = passThrough
    BY <1>0, <1>3, CurrentType DEF Classify, PositionInv, AtBatch
  <2>2. CASE AllowCall(s, v, FALSE)
    <3>. HIDE DEF v
    <3>. QED  BY <1>0, <2>1, <2>2, AllowCallPosition
  <2>3. CASE DenyCall(s, "denied")
    BY <1>0, <2>1, <2>3, DenyCallPosition
  <2>4. CASE v = "Prompt" /\ pc' = [pc EXCEPT ![s] = "register"]
                         /\ UNCHANGED <<pos, allowed, outcome, cacheVars>>
    <3>1. ScopeOf[Current(s)] \in PolicyOpen \cap AskRequired
      BY <2>1, <2>4, PolicyAssumption DEF Resolve, PolicyOpen
    <3>. QED  BY <1>2, <2>1, <2>4, <3>1
  <2>. QED  BY <1>3, <2>2, <2>3, <2>4 DEF Classify
<1>4. ASSUME NEW s \in Sessions, RegisterOverridden(s) \/ AwaitAllowed(s) PROVE PositionInv'
  <2>1. pos[s] \in DOMAIN Batch[s] /\ pc[s] # "done"
    BY <1>0, <1>4 DEF RegisterOverridden, AwaitAllowed, PositionInv, AtBatch, Asking
  <2>2. AllowCall(s, "Prompt", TRUE) /\ channel' = channel /\ passThrough' = passThrough
    BY <1>4 DEF RegisterOverridden, AwaitAllowed
  <2>. QED  BY <1>0, <2>1, <2>2, AllowCallPosition
<1>5. ASSUME NEW s \in Sessions, AwaitEnded(s) PROVE PositionInv'
  <2>1. pos[s] \in DOMAIN Batch[s] /\ pc[s] # "done"
    BY <1>0, <1>5 DEF AwaitEnded, PositionInv, AtBatch, Asking
  <2>2. PICK o \in {"refused", "expired", "cancelled", "timedout"} : DenyCall(s, o)
    BY <1>5 DEF AwaitEnded
  <2>3. channel' = channel /\ passThrough' = passThrough
    BY <1>5 DEF AwaitEnded
  <2>. QED  BY <1>0, <2>1, <2>2, <2>3, DenyCallPosition
<1>6. ASSUME NEW s \in Sessions, RegisterAsk(s) PROVE PositionInv'
  <2>1. pc[s] = "register" /\ ScopeOf[Current(s)] \in PolicyOpen \cap AskRequired
    BY <1>0, <1>6 DEF RegisterAsk, PositionInv, AskedIsAskable, Asking
  <2>2. pc' = [pc EXCEPT ![s] = "insert"] /\ UNCHANGED <<pos, allowed, passThrough, outcome, channel>>
    BY <1>6 DEF RegisterAsk
  <2>. QED  BY <1>2, <2>1, <2>2
<1>7. ASSUME NEW s \in Sessions, RegisterInsert(s) PROVE PositionInv'
  <2>. DEFINE c == Current(s)
  <2>1. pc[s] = "insert" /\ pc'[s] = "await" /\ \A t \in Sessions \ {s} : pc'[t] = pc[t]
    BY <1>0, <1>7 DEF RegisterInsert, TypeOK
  <2>2. UNCHANGED <<pos, allowed, passThrough, outcome>>
    BY <1>7 DEF RegisterInsert
  <2>3. AtBatch' /\ AskedIsAskable' /\ LetThrough' /\ NotYetRan'
    BY <1>0, <2>1, <2>2 DEF PositionInv, AtBatch, AskedIsAskable, LetThrough, NotYetRan, Asking, Current
  <2>4. pos[s] \in DOMAIN Batch[s] /\ c \in CallsOf(s)
    BY <1>0, <2>1, CurrentType DEF PositionInv, AtBatch, Asking
  <2>5. \A x \in Calls : x # c /\ channel[x] = "none" => channel'[x] = "none"
    BY <1>0, <1>7 DEF RegisterInsert, AnswerInv, Unprompted, Expired
  <2>6. NotYetPrompted'
    <3>1. SUFFICES ASSUME NEW t \in Sessions, NEW i \in DOMAIN Batch[t],
                          i > pos'[t] \/ (i = pos'[t] /\ pc'[t] \in {"classify", "register", "insert"})
                   PROVE  channel'[Batch[t][i]] = "none"
      BY DEF NotYetPrompted
    <3>2. channel[Batch[t][i]] = "none" /\ Batch[t][i] \in Calls
      BY <1>0, <2>1, <2>2, <3>1, BatchType DEF PositionInv, NotYetPrompted
    <3>3. Batch[t][i] # c
      <4>1. CASE t = s
        <5>1. i # pos[s]
          BY <2>1, <2>2, <2>4, <3>1, <4>1, BatchType DEF TypeOK
        <5>. QED  BY <2>4, <4>1, <5>1, CallsAreUnique DEF Current
      <4>2. CASE t # s
        BY <2>4, <4>2, CallsAreUnique DEF Current
      <4>. QED  BY <4>1, <4>2
    <3>. QED  BY <2>5, <3>2, <3>3
  <2>. QED  BY <2>3, <2>6 DEF PositionInv
<1>8. ASSUME NEW s \in Sessions, Drop(s) PROVE PositionInv'
  <2>1. pc[s] = "await" /\ pc' = [pc EXCEPT ![s] = "dropped"]
        /\ UNCHANGED <<pos, allowed, passThrough, outcome, channel>>
    BY <1>8 DEF Drop
  <2>2. "dropped" \notin Asking
    BY DEF Asking
  <2>. QED  BY <1>2, <2>1, <2>2
<1>9. ASSUME NEW s \in Sessions, GateCall(s) PROVE PositionInv'
  <2>. DEFINE c == Head(allowed[s])
  <2>1. /\ allowed[s] \in Seq(CallsOf(s)) /\ allowed[s] # <<>>
        /\ allowed' = [allowed EXCEPT ![s] = Tail(@)]
    BY <1>0, <1>9 DEF GateCall, PositionInv, LetThrough
  <2>2. c \in CallsOf(s) /\ Tail(allowed[s]) \in Seq(CallsOf(s))
    BY <2>1
  <2>3. UNCHANGED <<pc, pos, channel>>
    BY <1>9 DEF GateCall
  <2>4. AtBatch' /\ AskedIsAskable' /\ NotYetPrompted'
    BY <1>0, <2>3 DEF PositionInv, AtBatch, AskedIsAskable, NotYetPrompted, Current
  <2>5. passThrough' = passThrough \/ passThrough' = [passThrough EXCEPT ![s] = @ \cup {c}]
    BY <1>9 DEF GateCall
  <2>6. outcome' = outcome \/ outcome' = [outcome EXCEPT ![c] = "blocked"]
    BY <1>9 DEF GateCall
  <2>. HIDE DEF c
  <2>7. LetThrough'
    <3>1. \A t \in Sessions : allowed'[t] \in Seq(CallsOf(t))
      BY <1>0, <2>1, <2>2 DEF PositionInv, LetThrough, TypeOK
    <3>2. passThrough'[s] \subseteq passThrough[s] \cup {c}
          /\ \A t \in Sessions \ {s} : passThrough'[t] = passThrough[t]
      BY <1>0, <2>5 DEF TypeOK
    <3>3. \A t \in Sessions : passThrough'[t] \subseteq CallsOf(t)
      BY <1>0, <2>2, <3>2 DEF PositionInv, LetThrough
    <3>. QED  BY <3>1, <3>3 DEF LetThrough
  <2>8. \A x \in Calls : outcome[x] # "ran" => outcome'[x] # "ran"
    BY <1>0, <2>6 DEF TypeOK
  <2>9. NotYetRan'
    BY <1>0, <2>3, <2>8, BatchType DEF PositionInv, NotYetRan
  <2>. QED  BY <2>4, <2>7, <2>9 DEF PositionInv
<1>10. ASSUME NEW s \in Sessions, Execute(s) PROVE PositionInv'
  <2>1. /\ pc[s] = "gate" /\ pc'[s] = "done" /\ \A t \in Sessions \ {s} : pc'[t] = pc[t]
        /\ UNCHANGED <<pos, allowed, passThrough, channel>>
    BY <1>0, <1>10 DEF Execute, TypeOK
  <2>2. AtBatch' /\ AskedIsAskable' /\ NotYetPrompted' /\ LetThrough'
    BY <1>0, <2>1 DEF PositionInv, AtBatch, AskedIsAskable, NotYetPrompted, LetThrough, Current, Asking
  <2>3. \A x \in Calls : x \notin CallsOf(s) => outcome'[x] = outcome[x]
    BY <1>0, <1>10 DEF Execute, PositionInv, LetThrough
  <2>4. NotYetRan'
    BY <1>0, <2>1, <2>3, BatchType, OneSession DEF PositionInv, NotYetRan
  <2>. QED  BY <2>2, <2>4 DEF PositionInv
<1>11. ASSUME NEW r \in Requests, RequestStep(r) PROVE PositionInv'
  <2>1. UNCHANGED <<pc, pos, allowed, passThrough, outcome>>
    BY <1>11 DEF RequestStep, CheckResolved, TakePending, RefuseExpired, ApplyOverride,
                 SendDecision, RememberAnswer
  <2>2. channel' = channel \/ \E c, d : Send(c, d)
    BY <1>11 DEF RequestStep, CheckResolved, TakePending, RefuseExpired, ApplyOverride,
                 SendDecision, RememberAnswer
  <2>3. \A c \in Calls : channel[c] = "none" => channel'[c] = "none"
    BY <1>0, <2>2 DEF Send, TypeOK
  <2>. QED  BY <1>1, <2>1, <2>3
<1>12. CASE Tick \/ UNCHANGED vars \/ (\E s \in Sessions : Cancel(s))
            \/ (\E r \in Requests, c \in Calls, d \in Decisions : Respond(r, c, d))
  BY <1>1, <1>12 DEF Tick, vars, Cancel, Respond
<1>. QED  BY <1>3, <1>4, <1>5, <1>6, <1>7, <1>8, <1>9, <1>10, <1>11, <1>12
             DEF Next, SessionStep
-----------------------------------------------------------------------------
\* An accepted answer is kept by every step.
LEMMA AnswerStable ==
    IInv /\ [Next]_vars => \A c \in Calls : answer[c] # "none" => answer'[c] = answer[c]
<1>. SUFFICES ASSUME IInv, [Next]_vars
              PROVE  \A c \in Calls : answer[c] # "none" => answer'[c] = answer[c]
  OBVIOUS
<1>. USE DEF promptVars, cacheVars, sessionVars, requestVars
<1>1. ASSUME NEW r \in Requests, ApplyOverride(r)
      PROVE  \A c \in Calls : answer[c] # "none" => answer'[c] = answer[c]
  BY <1>1 DEF IInv, TypeOK, AnswerInv, HeldUnanswered, ApplyOverride
<1>2. ASSUME NEW s \in Sessions, SessionStep(s) \/ Cancel(s) \/ Drop(s) PROVE answer' = answer
  BY <1>2 DEF SessionStep, Classify, RegisterOverridden, RegisterAsk, RegisterInsert,
              AwaitAllowed, AwaitEnded, GateCall, Execute, Cancel, Drop
<1>3. ASSUME NEW r \in Requests, RequestStep(r), ~ApplyOverride(r) PROVE answer' = answer
  BY <1>3 DEF RequestStep, CheckResolved, TakePending, RefuseExpired, SendDecision, RememberAnswer
<1>4. CASE Tick \/ UNCHANGED vars
            \/ (\E r \in Requests, c \in Calls, d \in Decisions : Respond(r, c, d))
  BY <1>4 DEF Tick, vars, Respond
<1>. QED  BY <1>1, <1>2, <1>3, <1>4 DEF Next

\* Nothing revokes an authorisation.
LEMMA GrantsGrow ==
    ASSUME IInv, [Next]_vars
    PROVE  /\ Granted \subseteq Granted' /\ ScopeGranted \subseteq ScopeGranted'
           /\ \A c \in Calls : Authorised(c) => Authorised(c)'
<1>1. Granted \subseteq Granted' /\ ScopeGranted \subseteq ScopeGranted'
  BY AnswerStable DEF Granted, ScopeGranted, Approvals
<1>. QED  BY <1>1 DEF Authorised, Authority!Authorised, PolicyOpen

\* Without a session approval only what needs no asking is allowed.
LEMMA ResolveAllows ==
    ASSUME NEW c \in Calls, Resolve(c, FALSE) = "Allow"
    PROVE  ScopeOf[c] \in PolicyOpen \ AskRequired
BY PolicyAssumption DEF Resolve, PolicyOpen

\* What the outer gate caches for a call it lets through is backed by a grant.
LEMMA AllowCallGrants ==
    ASSUME IInv, [Next]_vars, NEW s \in Sessions, Current(s) \in Calls,
           NEW v \in Verdicts, NEW b \in BOOLEAN, AllowCall(s, v, b),
           v = "Allow" \/ (v = "Prompt" /\ b) => Authorised(Current(s))
    PROVE  CacheAuthorised'
<1>. DEFINE d == [verdict |-> v, satisfied |-> b]
            c == Current(s)
<1>1. cache' = [Fresh EXCEPT ![c] = d]
  BY DEF AllowCall, CacheDecision
<1>2. Passes(d) => Authorised(c)
  BY DEF Passes
<1>. HIDE DEF d, c
<1>3. \A x \in Calls : Passes(Fresh[x]) => Authorised(x)
  BY DEF Fresh, IInv, GrantsInv, CacheAuthorised, Passes, NoDecision
<1>4. \A x \in Calls : Passes(cache'[x]) => Authorised(x)
  BY <1>1, <1>2, <1>3, FreshType DEF IInv
<1>. QED  BY <1>4, GrantsGrow DEF CacheAuthorised

LEMMA GrantsInit == Init => GrantsInv
BY DEF Init, GrantsInv, OverridesGranted, ChannelGranted, CacheAuthorised, PassAuthorised,
       RanIsAuthorised, Ran, Passes, NoDecision, Approvals

LEMMA GrantsNext == IInv /\ [Next]_vars => GrantsInv'
<1>. SUFFICES ASSUME IInv, [Next]_vars PROVE GrantsInv'
  OBVIOUS
<1>. USE DEF promptVars, cacheVars, sessionVars, requestVars
<1>0. TypeOK /\ GrantsInv /\ AnswerInv /\ PositionInv
  BY DEF IInv
<1>1. \A c \in Calls : Authorised(c) => Authorised(c)'
  BY GrantsGrow
<1>a. UNCHANGED overrides => OverridesGranted'
  BY <1>0, GrantsGrow DEF GrantsInv, OverridesGranted
<1>b. (\A c \in Calls : channel'[c] \in Approvals => channel[c] \in Approvals) => ChannelGranted'
  BY <1>0, AnswerStable DEF GrantsInv, ChannelGranted, Approvals
<1>c. UNCHANGED cache => CacheAuthorised'
  BY <1>0, <1>1 DEF GrantsInv, CacheAuthorised
<1>d. UNCHANGED passThrough => PassAuthorised'
  BY <1>0, <1>1 DEF GrantsInv, PassAuthorised, TypeOK
<1>e. Ran' \subseteq Ran => RanIsAuthorised'
  BY <1>0, <1>1 DEF GrantsInv, RanIsAuthorised, Ran, Authorised
<1>f. outcome' = outcome => Ran' \subseteq Ran
  BY DEF Ran
<1>2. ASSUME NEW s \in Sessions, Classify(s) PROVE GrantsInv'
  <2>. DEFINE b == ScopeOf[Current(s)] \in overrides
              v == Resolve(Current(s), b)
  <2>1. Current(s) \in Calls /\ UNCHANGED <<overrides, channel, passThrough>>
    BY <1>0, <1>2, CurrentType DEF Classify, PositionInv, AtBatch
  <2>2. v \in Verdicts
    BY <2>1, PolicyAssumption DEF Resolve, Verdicts
  <2>3. v = "Allow" => Authorised(Current(s))
    <3>1. v = "Allow" => /\ ScopeOf[Current(s)] \in PolicyOpen
                         /\ b \/ ScopeOf[Current(s)] \notin AskRequired
      BY <2>1, PolicyAssumption DEF Resolve, PolicyOpen
    <3>2. b => ScopeOf[Current(s)] \in ScopeGranted
      BY <1>0 DEF GrantsInv, OverridesGranted
    <3>. HIDE DEF v, b
    <3>. QED  BY <3>1, <3>2 DEF Authorised, Authority!Authorised
  <2>. HIDE DEF v
  <2>4. CASE AllowCall(s, v, FALSE)
    <3>1. CacheAuthorised'
      BY <2>1, <2>2, <2>3, <2>4, AllowCallGrants
    <3>2. RanIsAuthorised'
      BY <1>e, <1>f, <2>4 DEF AllowCall
    <3>. QED  BY <1>a, <1>b, <1>d, <2>1, <3>1, <3>2 DEF GrantsInv
  <2>5. CASE DenyCall(s, "denied")
    <3>1. Ran' \subseteq Ran
      BY <1>0, <2>5 DEF DenyCall, Ran, TypeOK
    <3>. QED  BY <1>a, <1>b, <1>c, <1>d, <1>e, <2>1, <2>5, <3>1 DEF GrantsInv, DenyCall
  <2>6. CASE UNCHANGED <<outcome, cacheVars>>
    BY <1>a, <1>b, <1>c, <1>d, <1>e, <1>f, <2>1, <2>6 DEF GrantsInv
  <2>. QED  BY <1>2, <2>4, <2>5, <2>6 DEF Classify, v
<1>3. ASSUME NEW s \in Sessions, RegisterOverridden(s) \/ AwaitAllowed(s) PROVE GrantsInv'
  <2>1. pc[s] \in Asking /\ UNCHANGED <<overrides, channel, passThrough>>
    BY <1>3 DEF RegisterOverridden, AwaitAllowed, Asking
  <2>2. Current(s) \in Calls /\ ScopeOf[Current(s)] \in PolicyOpen \cap AskRequired
    BY <1>0, <2>1, CurrentType DEF PositionInv, AtBatch, AskedIsAskable
  <2>3. AllowCall(s, "Prompt", TRUE) /\ "Prompt" \in Verdicts
    BY <1>3 DEF RegisterOverridden, AwaitAllowed, Verdicts
  <2>4. Current(s) \in Granted \/ ScopeOf[Current(s)] \in ScopeGranted
    BY <1>0, <1>3, <2>2 DEF RegisterOverridden, AwaitAllowed, GrantsInv, OverridesGranted,
                            ChannelGranted, Granted
  <2>5. Authorised(Current(s))
    BY <2>2, <2>4 DEF Authorised, Authority!Authorised
  <2>6. CacheAuthorised'
    BY <2>2, <2>3, <2>5, AllowCallGrants
  <2>7. RanIsAuthorised'
    BY <1>e, <1>f, <2>3 DEF AllowCall
  <2>. QED  BY <1>a, <1>b, <1>d, <2>1, <2>6, <2>7 DEF GrantsInv
<1>4. ASSUME NEW s \in Sessions, RegisterAsk(s) \/ RegisterInsert(s) \/ Cancel(s) \/ Drop(s)
      PROVE  GrantsInv'
  <2>1. UNCHANGED <<overrides, cache, passThrough, outcome>>
    BY <1>4 DEF RegisterAsk, RegisterInsert, Cancel, Drop
  <2>2. \A c \in Calls : channel'[c] \in Approvals => channel[c] \in Approvals
    BY <1>4 DEF RegisterAsk, RegisterInsert, Cancel, Drop, Approvals
  <2>. QED  BY <1>a, <1>b, <1>c, <1>d, <1>e, <1>f, <2>1, <2>2 DEF GrantsInv
<1>5. ASSUME NEW s \in Sessions, AwaitEnded(s) PROVE GrantsInv'
  <2>1. PICK o \in {"refused", "expired", "cancelled", "timedout"} : DenyCall(s, o)
    BY <1>5 DEF AwaitEnded
  <2>2. UNCHANGED <<overrides, channel, cache, passThrough>>
    BY <1>5, <2>1 DEF AwaitEnded, DenyCall
  <2>3. Ran' \subseteq Ran
    BY <1>0, <2>1 DEF DenyCall, Ran, TypeOK
  <2>. QED  BY <1>a, <1>b, <1>c, <1>d, <1>e, <2>2, <2>3 DEF GrantsInv
<1>6. ASSUME NEW s \in Sessions, GateCall(s) PROVE GrantsInv'
  <2>. DEFINE c == Head(allowed[s])
              d == DecisionFor(c)
  <2>1. allowed[s] \in Seq(Calls) /\ c \in Calls /\ UNCHANGED <<overrides, channel>>
    BY <1>0, <1>6 DEF GrantsInv, GateCall, TypeOK
  <2>2. \A x \in Calls : Passes(Fresh[x]) => Authorised(x)
    BY <1>0 DEF Fresh, GrantsInv, CacheAuthorised, Passes, NoDecision
  <2>3. Passes(d) => Authorised(c)
    <3>1. CASE Fresh[c] # NoDecision
      BY <2>1, <2>2, <3>1 DEF DecisionFor
    <3>2. CASE Fresh[c] = NoDecision
      <4>1. Passes(d) => Resolve(c, FALSE) = "Allow"
        BY <3>2 DEF DecisionFor, Passes
      <4>. QED  BY <2>1, <4>1, ResolveAllows DEF Authorised, Authority!Authorised
    <3>. QED  BY <3>1, <3>2
  <2>4. cache' = [Fresh EXCEPT ![c] = NoDecision]
    BY <1>6 DEF GateCall, ConsumeDecision
  <2>5. passThrough' = passThrough
        \/ (Passes(d) /\ passThrough' = [passThrough EXCEPT ![s] = @ \cup {c}])
    BY <1>6 DEF GateCall, Passes
  <2>6. outcome' = outcome \/ outcome' = [outcome EXCEPT ![c] = "blocked"]
    BY <1>6 DEF GateCall
  <2>. HIDE DEF c, d
  <2>7. CacheAuthorised'
    <3>1. \A x \in Calls : Passes(cache'[x]) => Authorised(x)
      BY <1>0, <2>2, <2>4, FreshType DEF Passes, NoDecision
    <3>. QED  BY <1>1, <3>1 DEF CacheAuthorised
  <2>8. PassAuthorised'
    <3>1. passThrough'[s] \subseteq passThrough[s] \cup (IF Passes(d) THEN {c} ELSE {})
          /\ \A t \in Sessions \ {s} : passThrough'[t] = passThrough[t]
      BY <1>0, <2>5 DEF TypeOK
    <3>2. \A t \in Sessions : passThrough[t] \subseteq Calls
                              /\ \A x \in passThrough[t] : Authorised(x)
      BY <1>0 DEF GrantsInv, PassAuthorised, TypeOK
    <3>3. \A t \in Sessions : \A x \in passThrough'[t] : x \in Calls /\ Authorised(x)
      BY <2>1, <2>3, <3>1, <3>2
    <3>. QED  BY <1>1, <3>3 DEF PassAuthorised
  <2>9. Ran' \subseteq Ran
    BY <1>0, <2>6 DEF Ran, TypeOK
  <2>. QED  BY <1>a, <1>b, <1>e, <2>1, <2>7, <2>8, <2>9 DEF GrantsInv
<1>7. ASSUME NEW s \in Sessions, Execute(s) PROVE GrantsInv'
  <2>1. UNCHANGED <<overrides, channel, cache, passThrough>>
    BY <1>7 DEF Execute
  <2>2. Ran' \subseteq Ran \cup passThrough[s]
    BY <1>0, <1>7 DEF Execute, Ran
  <2>3. \A c \in passThrough[s] : c \in Calls /\ Authorised(c)
    BY <1>0 DEF GrantsInv, PassAuthorised, TypeOK
  <2>4. RanIsAuthorised'
    BY <1>0, <1>1, <2>2, <2>3 DEF GrantsInv, RanIsAuthorised, Ran, Authorised
  <2>. QED  BY <1>a, <1>b, <1>c, <1>d, <2>1, <2>4 DEF GrantsInv
<1>8. ASSUME NEW r \in Requests, RequestStep(r) PROVE GrantsInv'
  <2>1. UNCHANGED <<cache, passThrough, outcome>>
    BY <1>8 DEF RequestStep, CheckResolved, TakePending, RefuseExpired, ApplyOverride,
                SendDecision, RememberAnswer
  <2>2. req[r].call \in Calls /\ req[r].decision \in Decisions
    <3>1. req[r].pc \in RequestPcs
      BY <1>8 DEF RequestStep, CheckResolved, TakePending, RefuseExpired, ApplyOverride,
                  SendDecision, RememberAnswer, RequestPcs
    <3>. QED  BY <1>0, <3>1, RequestType
  <2>3. OverridesGranted'
    <3>1. CASE ApplyOverride(r)
      <4>1. answer'[req[r].call] = req[r].decision
        BY <1>0, <2>2, <3>1 DEF ApplyOverride, TypeOK
      <4>2. overrides' \subseteq overrides \cup
               (IF req[r].decision = "AllowSession" THEN {ScopeOf[req[r].call]} ELSE {})
        BY <3>1 DEF ApplyOverride
      <4>3. req[r].decision = "AllowSession" => ScopeOf[req[r].call] \in ScopeGranted'
        BY <2>2, <4>1 DEF ScopeGranted
      <4>. QED  BY <1>0, <4>2, <4>3, GrantsGrow DEF GrantsInv, OverridesGranted
    <3>2. CASE ~ApplyOverride(r)
      <4>1. UNCHANGED overrides
        BY <1>8, <3>2 DEF RequestStep, CheckResolved, TakePending, RefuseExpired,
                          SendDecision, RememberAnswer
      <4>. QED  BY <1>a, <4>1
    <3>. QED  BY <3>1, <3>2
  <2>4. ChannelGranted'
    <3>1. CASE SendDecision(r)
      <4>1. answer[req[r].call] = req[r].decision /\ Send(req[r].call, req[r].decision)
        BY <1>0, <3>1 DEF SendDecision, AnswerInv, SentIsAnswer
      <4>2. \A c \in Calls : channel'[c] \in Approvals => channel[c] \in Approvals \/
                 (c = req[r].call /\ channel'[c] = req[r].decision)
        BY <1>0, <4>1 DEF Send, TypeOK
      <4>3. answer' = answer
        BY <3>1 DEF SendDecision
      <4>. QED  BY <1>0, <4>1, <4>2, <4>3 DEF GrantsInv, ChannelGranted
    <3>2. CASE RefuseExpired(r)
      <4>1. \A c \in Calls : channel'[c] \in Approvals => channel[c] \in Approvals
        BY <1>0, <3>2 DEF RefuseExpired, Send, TypeOK, Approvals
      <4>. QED  BY <1>b, <4>1
    <3>3. CASE ~SendDecision(r) /\ ~RefuseExpired(r)
      <4>1. UNCHANGED channel
        BY <1>8, <3>3 DEF RequestStep, CheckResolved, TakePending, ApplyOverride, RememberAnswer
      <4>. QED  BY <1>b, <4>1
    <3>. QED  BY <3>1, <3>2, <3>3
  <2>. QED  BY <1>c, <1>d, <1>e, <1>f, <2>1, <2>3, <2>4 DEF GrantsInv
<1>9. CASE Tick \/ UNCHANGED vars
            \/ (\E r \in Requests, c \in Calls, d \in Decisions : Respond(r, c, d))
  <2>1. UNCHANGED <<overrides, channel, cache, passThrough, outcome>>
    BY <1>9 DEF Tick, vars, Respond
  <2>. QED  BY <1>a, <1>b, <1>c, <1>d, <1>e, <1>f, <2>1 DEF GrantsInv
<1>. QED  BY <1>2, <1>3, <1>4, <1>5, <1>6, <1>7, <1>8, <1>9 DEF Next, SessionStep
-----------------------------------------------------------------------------
LEMMA AnswerInit == Init => AnswerInv
BY DEF Init, AnswerInv, HeldUnanswered, HeldOnce, SentIsAnswer, PendingUnanswered, Unprompted,
       NoRequest

LEMMA Invariance == Spec => []IInv
<1>1. Init => IInv
  BY TypeInit, GrantsInit, AnswerInit, PositionInit DEF IInv
<1>2. IInv /\ [Next]_vars => IInv'
  BY TypeNext, GrantsNext, AnswerNext, PositionNext DEF IInv
<1>. QED  BY <1>1, <1>2, PTL DEF Spec

\* Every variable keeps its type, for any number of sessions, calls and requests.
THEOREM TypeCorrect == Spec => []TypeOK
<1>1. IInv => TypeOK
  BY DEF IInv
<1>. QED  BY <1>1, Invariance, PTL

\* A call that reached the tools was let through by the policy or allowed by a
\* person, whatever raced with it in the gates, the prompt state and the cache.
THEOREM RunsAreAuthorised == Spec => []RanIsAuthorised
<1>1. IInv => RanIsAuthorised
  BY DEF IInv, GrantsInv
<1>. QED  BY <1>1, Invariance, PTL

\* Both together.
THEOREM InvHolds == Spec => []Inv
<1>1. TypeOK /\ RanIsAuthorised => Inv
  BY DEF Inv
<1>. QED  BY <1>1, TypeCorrect, RunsAreAuthorised, PTL

\* Of any number of requests racing to answer a prompt, one is accepted for good.
THEOREM AnswersAreFinal == Spec => AnsweredOnce
<1>1. IInv /\ [Next]_vars =>
        [\A c \in Calls : answer[c] # "none" => answer'[c] = answer[c]]_vars
  BY AnswerStable
<1>. QED  BY <1>1, Invariance, PTL DEF Spec, AnsweredOnce
-----------------------------------------------------------------------------
(* Refinement: accepting an answer is Grant or GrantScope, handing the      *)
(* calls that passed both gates to the tools is Run, all else stutters.     *)

LEMMA InitMaps == Init => Authority!Init
BY DEF Init, Authority!Init, Granted, ScopeGranted, Ran, Approvals

LEMMA AcceptMaps ==
    ASSUME IInv, NEW r \in Requests, ApplyOverride(r)
    PROVE  [Authority!Next]_(Authority!vars)
<1>. DEFINE c == req[r].call
            d == req[r].decision
<1>1. req[r].pc = "apply" /\ c \in Calls /\ d \in Decisions
  BY RequestType DEF IInv, ApplyOverride, RequestPcs
<1>2. answer[c] = "none"
  BY <1>1 DEF IInv, AnswerInv, HeldUnanswered
<1>3. /\ answer'[c] = d /\ \A x \in Calls \ {c} : answer'[x] = answer[x]
      /\ outcome' = outcome
  BY <1>1 DEF IInv, TypeOK, ApplyOverride, sessionVars
<1>. HIDE DEF c, d
<1>4. Ran' = Ran
  BY <1>3 DEF Ran
<1>5. CASE d = "Allow"
  <2>1. Granted' = Granted \cup {c}
    BY <1>1, <1>2, <1>3, <1>5 DEF Granted, Approvals
  <2>2. ScopeGranted' = ScopeGranted
    BY <1>1, <1>2, <1>3, <1>5 DEF ScopeGranted
  <2>. QED  BY <1>1, <1>4, <2>1, <2>2 DEF Authority!Next, Authority!Grant
<1>6. CASE d = "AllowSession"
  <2>1. Granted' = Granted \cup {c}
    BY <1>1, <1>2, <1>3, <1>6 DEF Granted, Approvals
  <2>2. ScopeGranted' = ScopeGranted \cup {ScopeOf[c]}
    BY <1>1, <1>2, <1>3, <1>6 DEF ScopeGranted
  <2>. QED  BY <1>1, <1>4, <2>1, <2>2 DEF Authority!Next, Authority!GrantScope
<1>7. CASE d = "Deny"
  <2>1. Granted' = Granted /\ ScopeGranted' = ScopeGranted
    BY <1>1, <1>2, <1>3, <1>7 DEF Granted, ScopeGranted, Approvals
  <2>. QED  BY <1>4, <2>1 DEF Authority!vars
<1>. QED  BY <1>1, <1>5, <1>6, <1>7 DEF Decisions

LEMMA ExecuteMaps ==
    ASSUME IInv, NEW s \in Sessions, Execute(s)
    PROVE  [Authority!Next]_(Authority!vars)
<1>1. Ran' = Ran \cup passThrough[s] /\ passThrough[s] \in SUBSET Calls
  BY DEF IInv, TypeOK, Execute, Ran
<1>2. Granted' = Granted /\ ScopeGranted' = ScopeGranted
  BY DEF Execute, requestVars, Granted, ScopeGranted
<1>3. \A c \in passThrough[s] : Authority!Authorised(c)
  BY DEF IInv, GrantsInv, PassAuthorised, Authorised
<1>4. Authority!Run(passThrough[s])
  BY <1>1, <1>2, <1>3 DEF Authority!Run
<1>. QED  BY <1>1, <1>4 DEF Authority!Next

LEMMA StepMaps == IInv /\ [Next]_vars => [Authority!Next]_(Authority!vars)
<1>. SUFFICES ASSUME IInv, [Next]_vars PROVE [Authority!Next]_(Authority!vars)
  OBVIOUS
<1>. USE DEF promptVars, cacheVars, sessionVars, requestVars
<1>1. ASSUME UNCHANGED answer, Ran' = Ran PROVE [Authority!Next]_(Authority!vars)
  BY <1>1 DEF Authority!vars, Granted, ScopeGranted
<1>2. ASSUME NEW s \in Sessions, NEW c \in CallsOf(s), NEW o, o # "ran", pc[s] # "done",
             UNCHANGED answer, outcome' = outcome \/ outcome' = [outcome EXCEPT ![c] = o]
      PROVE  [Authority!Next]_(Authority!vars)
  <2>1. c \in Calls /\ outcome[c] # "ran"
    BY <1>2, BatchType DEF IInv, PositionInv, NotYetRan
  <2>2. Ran' = Ran
    BY <1>2, <2>1 DEF Ran, IInv, TypeOK
  <2>. QED  BY <1>1, <1>2, <2>2
<1>3. ASSUME NEW s \in Sessions, Classify(s) \/ RegisterOverridden(s) \/ AwaitAllowed(s) \/ AwaitEnded(s)
      PROVE  [Authority!Next]_(Authority!vars)
  <2>1. Current(s) \in CallsOf(s) /\ pc[s] # "done" /\ UNCHANGED answer
    BY <1>3, CurrentType DEF IInv, PositionInv, AtBatch, Asking, Classify, RegisterOverridden,
                             AwaitAllowed, AwaitEnded
  <2>2. \E o \in Outcomes \ {"ran"} :
           outcome' = outcome \/ outcome' = [outcome EXCEPT ![Current(s)] = o]
    BY <1>3 DEF Classify, RegisterOverridden, AwaitAllowed, AwaitEnded, AllowCall, DenyCall, Outcomes
  <2>. QED  BY <1>2, <2>1, <2>2
<1>4. ASSUME NEW s \in Sessions, GateCall(s) PROVE [Authority!Next]_(Authority!vars)
  <2>1. Head(allowed[s]) \in CallsOf(s) /\ pc[s] # "done" /\ UNCHANGED answer
    BY <1>4 DEF IInv, PositionInv, LetThrough, GateCall
  <2>2. \E o \in {"blocked"} :
           outcome' = outcome \/ outcome' = [outcome EXCEPT ![Head(allowed[s])] = o]
    BY <1>4 DEF GateCall
  <2>. QED  BY <1>2, <2>1, <2>2
<1>5. ASSUME NEW s \in Sessions, RegisterAsk(s) \/ RegisterInsert(s) \/ Cancel(s) \/ Drop(s)
      PROVE  [Authority!Next]_(Authority!vars)
  BY <1>1, <1>5 DEF RegisterAsk, RegisterInsert, Cancel, Drop, Ran
<1>6. ASSUME NEW r \in Requests, RequestStep(r), ~ApplyOverride(r)
      PROVE  [Authority!Next]_(Authority!vars)
  BY <1>1, <1>6 DEF RequestStep, CheckResolved, TakePending, RefuseExpired, SendDecision,
                    RememberAnswer, Ran
<1>7. CASE Tick \/ UNCHANGED vars
            \/ (\E r \in Requests, c \in Calls, d \in Decisions : Respond(r, c, d))
  BY <1>1, <1>7 DEF Tick, vars, Respond, Ran
<1>. QED  BY <1>3, <1>4, <1>5, <1>6, <1>7, AcceptMaps, ExecuteMaps DEF Next, SessionStep

\* The pipeline with its prompts, channels, caches and clocks implements the
\* abstract authority: what people and the policy allow is all that runs.
THEOREM Implements == Spec => ImplementsAuthority
<1>. QED  BY InitMaps, StepMaps, Invariance, PTL DEF Spec, ImplementsAuthority, Authority!Spec
-----------------------------------------------------------------------------
(* What requests are told, who is waited for, and what the gates hand over. *)

\* A decision that is remembered is the answer, and a prompt that was refused as expired
\* can be neither taken nor registered again.
RepliesInv ==
    /\ \A c \in Calls : resolved[c] # "none" => answer[c] = resolved[c]
    /\ \A r \in Requests : reply[r].kind = "ok" => answer[reply[r].call] = reply[r].decision
    /\ \A r \in Requests : reply[r].kind = "expired" =>
          /\ channel[reply[r].call] # "none" /\ answer[reply[r].call] = "none"
          /\ reply[r].call \notin pending
          /\ \A q \in Requests : req[q].pc = "apply" => req[q].call # reply[r].call

\* A call the outer gate lets through was approved if it was prompted for, and is behind
\* the position of its session.
LetPass(s) == ToSet(allowed[s]) \cup passThrough[s]
Behind(s)  == {Batch[s][i] : i \in {j \in DOMAIN Batch[s] : j < pos[s]}}
PassedInv ==
    /\ \A s \in Sessions : LetPass(s) \subseteq Behind(s)
    /\ \A s \in Sessions : \A c \in LetPass(s) : channel[c] = "none" \/ answer[c] \in Approvals
    /\ \A c \in Ran : channel[c] = "none" \/ answer[c] \in Approvals

\* A decision is in the cache only while its call is between the gates.
HandedInv ==
    \A s \in Sessions :
        /\ \A c \in CallsOf(s) : cache[c] # NoDecision => c \in ToSet(allowed[s])
        /\ pc[s] = "done" => allowed[s] = <<>>

JInv == IInv /\ RepliesInv /\ PassedInv /\ HandedInv /\ WaiterIsReachable

\* A request moves alone, keeps its call and decision, and replies when it ends.
LEMMA RequestMoves ==
    ASSUME TypeOK, NEW r \in Requests, RequestStep(r)
    PROVE  /\ req[r].pc \in RequestPcs /\ req[r].call \in Calls /\ req[r].decision \in Decisions
           /\ \A q \in Requests \ {r} : req'[q] = req[q] /\ reply'[q] = reply[q]
           /\ \A l \in RequestPcs : Goto(r, l) =>
                 req'[r].pc = l /\ req'[r].call = req[r].call /\ req'[r].decision = req[r].decision
           /\ \A k : Answer(r, k) => req'[r] = NoRequest /\ reply'[r] = [kind |-> k, call |-> req[r].call]
           /\ \A d : AnswerOk(r, d) =>
                 req'[r] = NoRequest /\ reply'[r] = [kind |-> "ok", call |-> req[r].call, decision |-> d]
<1>1. req[r].pc \in RequestPcs
  BY DEF RequestStep, CheckResolved, TakePending, RefuseExpired, ApplyOverride,
         SendDecision, RememberAnswer, RequestPcs
<1>2. req[r].call \in Calls /\ req[r].decision \in Decisions
  BY <1>1, RequestType
<1>3. \A q \in Requests \ {r} : req'[q] = req[q] /\ reply'[q] = reply[q]
  BY DEF RequestStep, CheckResolved, TakePending, RefuseExpired, ApplyOverride,
         SendDecision, RememberAnswer, Goto, Answer, AnswerOk, TypeOK
<1>4. \A l \in RequestPcs : Goto(r, l) =>
         req'[r].pc = l /\ req'[r].call = req[r].call /\ req'[r].decision = req[r].decision
  BY <1>1, RequestType DEF Goto, TypeOK
<1>5. /\ \A k : Answer(r, k) => req'[r] = NoRequest /\ reply'[r] = [kind |-> k, call |-> req[r].call]
      /\ \A d : AnswerOk(r, d) =>
            req'[r] = NoRequest /\ reply'[r] = [kind |-> "ok", call |-> req[r].call, decision |-> d]
  BY DEF Answer, AnswerOk, TypeOK
<1>. QED  BY <1>1, <1>2, <1>3, <1>4, <1>5

LEMMA ReplyType ==
    ASSUME TypeOK, NEW r \in Requests
    PROVE  /\ reply[r].kind \in {"ok", "expired"} => reply[r].call \in Calls
           /\ reply[r].kind = "ok" => reply[r].decision \in Decisions
BY DEF TypeOK, NoReply

LEMMA RepliesNext == IInv /\ RepliesInv /\ [Next]_vars => RepliesInv'
<1>. SUFFICES ASSUME IInv, RepliesInv, [Next]_vars PROVE RepliesInv'
  OBVIOUS
<1>. USE DEF promptVars, cacheVars, sessionVars, requestVars
<1>0. TypeOK /\ AnswerInv /\ PositionInv
  BY DEF IInv
<1>1. CASE UNCHANGED <<resolved, answer, reply, channel, pending, req>>
  BY <1>1 DEF RepliesInv
<1>2. ASSUME NEW s \in Sessions, RegisterInsert(s) PROVE RepliesInv'
  <2>1. Current(s) \in Calls /\ channel[Current(s)] = "none"
    BY <1>0, <1>2, CurrentType DEF RegisterInsert, PositionInv, NotYetPrompted, AtBatch, Asking, Current
  <2>2. /\ UNCHANGED <<resolved, answer, reply, req>>
        /\ pending' \subseteq pending \cup {Current(s)}
        /\ \A x \in Calls : channel'[x] = "none" => channel[x] = "none"
    BY <1>2 DEF RegisterInsert
  <2>. QED  BY <1>0, <2>1, <2>2, ReplyType DEF RepliesInv
<1>3. ASSUME NEW r \in Requests, NEW c \in Calls, NEW d \in Decisions, Respond(r, c, d)
      PROVE  RepliesInv'
  <2>1. UNCHANGED <<resolved, answer, reply, channel, pending>>
    BY <1>3 DEF Respond
  <2>2. req'[r].pc = "check" /\ \A q \in Requests \ {r} : req'[q] = req[q]
    BY <1>0, <1>3 DEF Respond, TypeOK
  <2>. QED  BY <2>1, <2>2 DEF RepliesInv
<1>4. ASSUME NEW r \in Requests, RequestStep(r) PROVE RepliesInv'
  <2>. DEFINE c == req[r].call
  <2>1. /\ req[r].pc \in RequestPcs /\ c \in Calls /\ req[r].decision \in Decisions
        /\ \A q \in Requests \ {r} : req'[q] = req[q] /\ reply'[q] = reply[q]
    BY <1>0, <1>4, RequestMoves
  <2>2. CASE CheckResolved(r)
    <3>1. UNCHANGED <<answer, channel, pending>> /\ \A x \in Calls : resolved'[x] \in {"none", resolved[x]}
      BY <2>2 DEF CheckResolved, Remembered
    <3>2. \/ /\ Remembered[c] # "none"
             /\ reply'[r] = [kind |-> "ok", call |-> c, decision |-> Remembered[c]]
             /\ req'[r] = NoRequest
          \/ reply'[r] = reply[r] /\ req'[r].pc = "take"
          \/ reply'[r] = [kind |-> "notfound", call |-> c] /\ req'[r] = NoRequest
      BY <1>0, <1>4, <2>2, RequestMoves DEF CheckResolved, RequestPcs
    <3>3. Remembered[c] # "none" => Remembered[c] = resolved[c]
      BY <2>1 DEF Remembered
    <3>. QED  BY <2>1, <3>1, <3>2, <3>3 DEF RepliesInv, NoRequest
  <2>3. CASE TakePending(r)
    <3>1. UNCHANGED <<resolved, answer, reply, channel>> /\ pending' \subseteq pending
      BY <2>3 DEF TakePending
    <3>2. req'[r].pc = "apply" => c \in pending /\ req'[r].call = c
      BY <1>0, <1>4, <2>3, RequestMoves DEF TakePending, RequestPcs
    <3>. QED  BY <2>1, <3>1, <3>2 DEF RepliesInv
  <2>4. CASE RefuseExpired(r)
    <3>1. UNCHANGED <<resolved, answer, pending>> /\ \A x \in Calls : channel[x] # "none" => channel'[x] # "none"
      BY <1>0, <2>4 DEF RefuseExpired, Send, TypeOK
    <3>2. req'[r] = NoRequest /\ reply'[r] = [kind |-> "expired", call |-> c]
      BY <1>0, <1>4, <2>4, RequestMoves DEF RefuseExpired
    <3>3. c \notin pending /\ answer[c] = "none" /\ channel[c] # "none"
      BY <1>0, <2>1, <2>4 DEF RefuseExpired, AnswerInv, HeldUnanswered, Unprompted, NoRequest
    <3>4. \A q \in Requests \ {r} : req[q].pc = "apply" => req[q].call # c
      BY <1>0, <2>4 DEF RefuseExpired, AnswerInv, HeldOnce
    <3>. QED  BY <1>0, <2>1, <3>1, <3>2, <3>3, <3>4, ReplyType DEF RepliesInv, NoRequest
  <2>5. CASE ApplyOverride(r)
    <3>1. UNCHANGED <<resolved, reply, channel, pending>> /\ req[r].pc = "apply"
      BY <2>5 DEF ApplyOverride
    <3>2. answer[c] = "none" /\ \A x \in Calls \ {c} : answer'[x] = answer[x]
      BY <1>0, <2>5 DEF ApplyOverride, AnswerInv, HeldUnanswered, TypeOK
    <3>3. req'[r].pc = "send"
      BY <1>0, <1>4, <2>5, RequestMoves DEF ApplyOverride, RequestPcs
    <3>4. resolved[c] = "none"
      BY <2>1, <3>2 DEF RepliesInv
    <3>5. \A q \in Requests : reply[q].kind \in {"ok", "expired"} => reply[q].call \in Calls \ {c}
      BY <1>0, <3>1, <3>2, ReplyType DEF RepliesInv, Decisions
    <3>. QED  BY <2>1, <3>1, <3>2, <3>3, <3>4, <3>5 DEF RepliesInv
  <2>6. CASE SendDecision(r)
    <3>1. UNCHANGED <<resolved, answer, pending, reply>>
      BY <2>6 DEF SendDecision
    <3>2. \A x \in Calls : channel[x] # "none" => channel'[x] # "none"
      BY <1>0, <2>1, <2>6 DEF SendDecision, Send, TypeOK, Decisions
    <3>3. req'[r].pc = "remember"
      BY <1>0, <1>4, <2>6, RequestMoves DEF SendDecision, RequestPcs
    <3>. QED  BY <1>0, <2>1, <3>1, <3>2, <3>3, ReplyType DEF RepliesInv
  <2>7. CASE RememberAnswer(r)
    <3>1. UNCHANGED <<answer, channel, pending>> /\ answer[c] = req[r].decision
      BY <1>0, <2>7 DEF RememberAnswer, AnswerInv, SentIsAnswer
    <3>2. \A x \in Calls : resolved'[x] \in {"none", resolved[x], answer[x]}
      BY <2>1, <2>7, <3>1 DEF RememberAnswer, Remembered
    <3>3. req'[r] = NoRequest /\ reply'[r] = [kind |-> "ok", call |-> c, decision |-> req[r].decision]
      BY <1>0, <1>4, <2>7, RequestMoves DEF RememberAnswer
    <3>. QED  BY <2>1, <3>1, <3>2, <3>3 DEF RepliesInv, NoRequest
  <2>. QED  BY <1>4, <2>2, <2>3, <2>4, <2>5, <2>6, <2>7 DEF RequestStep
<1>5. ASSUME NEW s \in Sessions, SessionStep(s) \/ Cancel(s) \/ Drop(s), ~RegisterInsert(s)
      PROVE  RepliesInv'
  <2>1. UNCHANGED <<resolved, answer, reply, channel, pending, req>>
    BY <1>5 DEF SessionStep, Classify, RegisterOverridden, RegisterAsk, AwaitAllowed, AwaitEnded,
                GateCall, Execute, Cancel, Drop
  <2>. QED  BY <1>1, <2>1
<1>6. CASE Tick \/ UNCHANGED vars
  BY <1>1, <1>6 DEF Tick, vars
<1>. QED  BY <1>2, <1>3, <1>4, <1>5, <1>6 DEF Next

\* A prompt leaves the pending ones for a request that will answer it, or with its channel.
LEMMA WaiterNext == IInv /\ WaiterIsReachable /\ [Next]_vars => WaiterIsReachable'
<1>. SUFFICES ASSUME IInv, WaiterIsReachable, [Next]_vars, NEW s \in Sessions, pc'[s] = "await"
              PROVE  \/ Current(s)' \in pending' \/ channel'[Current(s)'] # "open"
                     \/ \E r \in Requests : req'[r].pc \in {"apply", "send"} /\ req'[r].call = Current(s)'
  BY DEF WaiterIsReachable
<1>. USE DEF promptVars, cacheVars, sessionVars, requestVars
<1>0. TypeOK /\ AnswerInv /\ PositionInv
  BY DEF IInv
<1>1. ASSUME ~\E t \in Sessions : RegisterInsert(t)
      PROVE  pc[s] = "await" /\ pos'[s] = pos[s]
  BY <1>0, <1>1, ZenonT(40) DEF Next, SessionStep, Classify, RegisterOverridden, RegisterAsk, AwaitAllowed,
             AwaitEnded, AllowCall, DenyCall, NextCall, GateCall, Execute, Cancel, Drop, Respond,
             RequestStep, CheckResolved, TakePending, RefuseExpired, ApplyOverride, SendDecision,
             RememberAnswer, Tick, vars, TypeOK
<1>2. CASE \E t \in Sessions : RegisterInsert(t)
  <2>1. PICK t \in Sessions : RegisterInsert(t)
    BY <1>2
  <2>2. pos' = pos /\ req' = req /\ Current(s)' = Current(s)
    BY <2>1 DEF RegisterInsert, Current
  <2>3. CASE s = t
    BY <2>1, <2>2, <2>3 DEF RegisterInsert
  <2>4. CASE s # t
    <3>1. pc[s] = "await"
      BY <1>0, <2>1, <2>4 DEF RegisterInsert, TypeOK
    <3>2. Current(s) \in CallsOf(s) /\ Current(t) \in CallsOf(t) /\ Current(s) \in Calls
      BY <1>0, <2>1, <3>1, CurrentType DEF RegisterInsert, PositionInv, AtBatch, Asking
    <3>3. Current(s) # Current(t)
      BY <2>4, <3>2, OneSession
    <3>4. Current(s) \in pending => Current(s) \in pending' \/ channel'[Current(s)] = "closed"
      BY <2>1, <3>2, <3>3 DEF RegisterInsert
    <3>5. channel'[Current(s)] \in {channel[Current(s)], "closed"}
      BY <2>1, <3>2, <3>3 DEF RegisterInsert
    <3>. QED  BY <2>2, <3>1, <3>4, <3>5 DEF WaiterIsReachable
  <2>. QED  BY <2>3, <2>4
<1>3. CASE ~\E t \in Sessions : RegisterInsert(t)
  <2>. DEFINE c == Current(s)
  <2>1. /\ pc[s] = "await" /\ c' = c
        /\ c \in Calls
    BY <1>0, <1>1, <1>3, CurrentType DEF Current, PositionInv, AtBatch, Asking
  <2>2. \/ c \in pending \/ channel[c] # "open"
        \/ \E r \in Requests : req[r].pc \in {"apply", "send"} /\ req[r].call = c
    BY <2>1 DEF WaiterIsReachable
  <2>. HIDE DEF c
  <2>3. CASE UNCHANGED <<pending, channel, req>>
    BY <2>1, <2>2, <2>3 DEF c
  <2>4. ASSUME NEW r \in Requests, NEW x \in Calls, NEW d \in Decisions, Respond(r, x, d)
        PROVE  \/ c \in pending' \/ channel'[c] # "open"
               \/ \E q \in Requests : req'[q].pc \in {"apply", "send"} /\ req'[q].call = c
    <3>1. UNCHANGED <<pending, channel>> /\ req[r] = NoRequest
      BY <2>4 DEF Respond
    <3>2. \A q \in Requests \ {r} : req'[q] = req[q]
      BY <1>0, <2>4 DEF Respond, TypeOK
    <3>. QED  BY <2>2, <3>1, <3>2 DEF NoRequest
  <2>5. ASSUME NEW r \in Requests, RequestStep(r)
        PROVE  \/ c \in pending' \/ channel'[c] # "open"
               \/ \E q \in Requests : req'[q].pc \in {"apply", "send"} /\ req'[q].call = c
    <3>1. \A q \in Requests \ {r} : req'[q] = req[q]
      BY <1>0, <2>5, RequestMoves
    <3>2. CASE CheckResolved(r) \/ RememberAnswer(r)
      BY <2>2, <3>1, <3>2 DEF CheckResolved, RememberAnswer
    <3>3. CASE TakePending(r)
      <4>1. channel' = channel /\ pending' = pending \ {req[r].call} /\ req[r].pc = "take"
        BY <3>3 DEF TakePending
      <4>2. req[r].call \in pending => req'[r].pc = "apply" /\ req'[r].call = req[r].call
        BY <1>0, <2>5, <3>3, RequestMoves DEF TakePending, RequestPcs
      <4>. QED  BY <2>2, <3>1, <4>1, <4>2
    <3>4. CASE RefuseExpired(r) \/ SendDecision(r)
      <4>1. pending' = pending /\ \E d \in Decisions : Send(req[r].call, d)
        BY <1>0, <2>5, <3>4, RequestMoves DEF RefuseExpired, SendDecision, Decisions
      <4>2. channel'[c] = "open" => c # req[r].call /\ channel[c] = "open"
        BY <1>0, <2>1, <4>1 DEF Send, TypeOK, Decisions, c
      <4>. QED  BY <2>2, <3>1, <4>1, <4>2
    <3>5. CASE ApplyOverride(r)
      <4>1. UNCHANGED <<channel, pending>>
        BY <3>5 DEF ApplyOverride
      <4>2. req'[r].pc = "send" /\ req'[r].call = req[r].call
        BY <1>0, <2>5, <3>5, RequestMoves DEF ApplyOverride, RequestPcs
      <4>. QED  BY <2>2, <3>1, <4>1, <4>2
    <3>. QED  BY <2>5, <3>2, <3>3, <3>4, <3>5 DEF RequestStep
  <2>6. ASSUME NEW t \in Sessions, SessionStep(t) \/ Cancel(t) \/ Drop(t)
        PROVE  UNCHANGED <<pending, channel, req>>
    BY <1>3, <2>6 DEF SessionStep, Classify, RegisterOverridden, RegisterAsk, AwaitAllowed, AwaitEnded,
                GateCall, Execute, Cancel, Drop
  <2>7. CASE Tick \/ UNCHANGED vars
    BY <2>3, <2>7 DEF Tick, vars
  <2>. QED  BY <2>1, <2>3, <2>4, <2>5, <2>6, <2>7 DEF Next, c
<1>. QED  BY <1>2, <1>3

\* What the gate consumes and what the outer gate appends, as sets.
LEMMA SequenceFacts ==
    ASSUME NEW S, NEW q \in Seq(S)
    PROVE  /\ \A c \in S : ToSet(Append(q, c)) = ToSet(q) \cup {c}
           /\ q # <<>> => /\ Head(q) \in S /\ Tail(q) \in Seq(S)
                          /\ ToSet(q) = ToSet(Tail(q)) \cup {Head(q)}
           /\ ToSet(q) \subseteq S
<1>1. DOMAIN q = 1..Len(q) /\ Len(q) \in Nat /\ \A i \in 1..Len(q) : q[i] \in S
  OBVIOUS
<1>2. ASSUME NEW c \in S PROVE ToSet(Append(q, c)) = ToSet(q) \cup {c}
  <2>. DEFINE a == Append(q, c)
  <2>1. /\ DOMAIN a = 1..Len(q) + 1 /\ a[Len(q) + 1] = c
        /\ \A i \in 1..Len(q) : a[i] = q[i]
    OBVIOUS
  <2>. HIDE DEF a
  <2>2. ASSUME NEW x \in ToSet(a) PROVE x \in ToSet(q) \cup {c}
    BY <1>1, <2>1, <2>2 DEF ToSet
  <2>3. ASSUME NEW x \in ToSet(q) PROVE x \in ToSet(a)
    BY <1>1, <2>1, <2>3 DEF ToSet
  <2>4. c \in ToSet(a)
    BY <1>1, <2>1 DEF ToSet
  <2>. QED  BY <2>2, <2>3, <2>4 DEF a
<1>3. ASSUME q # <<>>
      PROVE  /\ Head(q) \in S /\ Tail(q) \in Seq(S)
             /\ ToSet(q) = ToSet(Tail(q)) \cup {Head(q)}
  <2>. DEFINE u == Tail(q)
  <2>1. /\ Len(q) > 0 /\ Head(q) = q[1] /\ Head(q) \in S /\ u \in Seq(S)
        /\ DOMAIN u = 1..Len(q) - 1 /\ \A i \in 1..Len(q) - 1 : u[i] = q[i + 1]
    BY <1>3
  <2>. HIDE DEF u
  <2>2. ASSUME NEW x \in ToSet(q) PROVE x \in ToSet(u) \cup {Head(q)}
    <3>1. PICK i \in 1..Len(q) : x = q[i]
      BY <1>1 DEF ToSet
    <3>2. CASE i = 1
      BY <2>1, <3>1, <3>2
    <3>3. CASE i # 1
      <4>1. i - 1 \in 1..Len(q) - 1 /\ u[i - 1] = q[i]
        BY <1>1, <2>1, <3>1, <3>3
      <4>. QED  BY <2>1, <3>1, <4>1 DEF ToSet
    <3>. QED  BY <3>2, <3>3
  <2>3. ASSUME NEW x \in ToSet(u) PROVE x \in ToSet(q)
    <3>1. PICK i \in 1..Len(q) - 1 : x = q[i + 1]
      BY <1>1, <2>1 DEF ToSet
    <3>2. i + 1 \in 1..Len(q)
      BY <1>1
    <3>. QED  BY <1>1, <3>1, <3>2 DEF ToSet
  <2>4. Head(q) \in ToSet(q)
    BY <1>1, <2>1 DEF ToSet
  <2>. QED  BY <2>1, <2>2, <2>3, <2>4 DEF u
<1>4. ToSet(q) \subseteq S
  BY <1>1 DEF ToSet
<1>. QED  BY <1>2, <1>3, <1>4

\* What the outer gate lets through, and what it leaves behind.
LEMMA LetPassType ==
    ASSUME IInv, NEW s \in Sessions
    PROVE  /\ allowed[s] \in Seq(CallsOf(s)) /\ LetPass(s) \subseteq CallsOf(s)
           /\ Behind(s) \subseteq CallsOf(s)
           /\ pos[s] \in DOMAIN Batch[s] => Current(s) \notin Behind(s)
<1>1. allowed[s] \in Seq(CallsOf(s)) /\ passThrough[s] \subseteq CallsOf(s)
  BY DEF IInv, PositionInv, LetThrough
<1>2. ToSet(allowed[s]) \subseteq CallsOf(s)
  BY <1>1, SequenceFacts
<1>3. pos[s] \in DOMAIN Batch[s] => Current(s) \notin Behind(s)
  BY CallsAreUnique, BatchType DEF Current, Behind
<1>. QED  BY <1>1, <1>2, <1>3, BatchType DEF LetPass, Behind

\* The steps of a session that go on to its next call.
LEMMA NextCallFacts ==
    ASSUME IInv, NEW s \in Sessions, pos[s] \in DOMAIN Batch[s], NextCall(s)
    PROVE  /\ \A t \in Sessions \ {s} : Behind(t)' = Behind(t) /\ pc'[t] = pc[t]
           /\ Behind(s)' = Behind(s) \cup {Current(s)} /\ pc'[s] # "done"
<1>1. pos'[s] = pos[s] + 1 /\ \A t \in Sessions \ {s} : pos'[t] = pos[t] /\ pc'[t] = pc[t]
  BY DEF NextCall, IInv, TypeOK
<1>2. Behind(s)' = Behind(s) \cup {Current(s)}
  BY <1>1, BatchType DEF Behind, Current
<1>3. \A t \in Sessions \ {s} : Behind(t)' = Behind(t)
  BY <1>1 DEF Behind
<1>4. pc'[s] # "done"
  BY DEF NextCall, IInv, TypeOK
<1>. QED  BY <1>1, <1>2, <1>3, <1>4

LEMMA AllowCallPasses ==
    ASSUME IInv, PassedInv, HandedInv, NEW s \in Sessions, pos[s] \in DOMAIN Batch[s],
           NEW v, NEW b, AllowCall(s, v, b), UNCHANGED <<channel, answer, passThrough>>,
           channel[Current(s)] = "none" \/ answer[Current(s)] \in Approvals
    PROVE  PassedInv' /\ HandedInv'
<1>. DEFINE c == Current(s)
<1>1. c \in CallsOf(s) /\ c \in Calls /\ allowed[s] \in Seq(CallsOf(s))
  BY CurrentType, LetPassType
<1>2. /\ allowed'[s] = Append(allowed[s], c) /\ \A t \in Sessions \ {s} : allowed'[t] = allowed[t]
      /\ outcome' = outcome /\ NextCall(s)
  BY DEF AllowCall, IInv, TypeOK
<1>3. ToSet(allowed'[s]) = ToSet(allowed[s]) \cup {c}
  BY <1>1, <1>2, SequenceFacts
<1>4. \A x \in Calls \ {c} : cache'[x] # NoDecision => cache[x] # NoDecision
  BY DEF AllowCall, CacheDecision, Fresh
<1>5. \A t \in Sessions \ {s} : c \notin CallsOf(t)
  BY <1>1, OneSession
<1>. HIDE DEF c
<1>6. \A t \in Sessions \ {s} : LetPass(t)' = LetPass(t)
  BY <1>2 DEF LetPass
<1>7. LetPass(s)' = LetPass(s) \cup {c}
  BY <1>3 DEF LetPass
<1>8. Ran' = Ran
  BY <1>2 DEF Ran
<1>9. PassedInv'
  <2>1. \A t \in Sessions : LetPass(t)' \subseteq Behind(t)'
    BY <1>2, <1>6, <1>7, NextCallFacts DEF PassedInv, c
  <2>2. \A t \in Sessions : \A x \in LetPass(t)' : channel[x] = "none" \/ answer[x] \in Approvals
    BY <1>6, <1>7 DEF PassedInv, c
  <2>. QED  BY <1>8, <2>1, <2>2 DEF PassedInv
<1>10. HandedInv'
  <2>1. ASSUME NEW t \in Sessions, NEW x \in CallsOf(t), cache'[x] # NoDecision PROVE x \in ToSet(allowed'[t])
    BY <1>1, <1>2, <1>3, <1>4, <1>5, <2>1, BatchType DEF HandedInv
  <2>2. \A t \in Sessions : pc'[t] = "done" => allowed'[t] = <<>>
    BY <1>2, NextCallFacts DEF HandedInv
  <2>. QED  BY <2>1, <2>2 DEF HandedInv
<1>. QED  BY <1>9, <1>10

LEMMA DenyCallPasses ==
    ASSUME IInv, PassedInv, HandedInv, NEW s \in Sessions, pos[s] \in DOMAIN Batch[s],
           NEW o, o # "ran", DenyCall(s, o), UNCHANGED <<channel, answer, passThrough>>
    PROVE  PassedInv' /\ HandedInv'
<1>1. NextCall(s) /\ UNCHANGED <<allowed, cache>> /\ Ran' \subseteq Ran
  BY DEF DenyCall, cacheVars, Ran, IInv, TypeOK
<1>2. PassedInv'
  <2>1. \A t \in Sessions : LetPass(t)' = LetPass(t)
    BY <1>1 DEF LetPass
  <2>2. \A t \in Sessions : Behind(t) \subseteq Behind(t)'
    BY <1>1, NextCallFacts
  <2>. QED  BY <1>1, <2>1, <2>2 DEF PassedInv
<1>3. HandedInv'
  BY <1>1, NextCallFacts DEF HandedInv
<1>. QED  BY <1>2, <1>3

LEMMA PassedNext == IInv /\ PassedInv /\ HandedInv /\ [Next]_vars => PassedInv' /\ HandedInv'
<1>. SUFFICES ASSUME IInv, PassedInv, HandedInv, [Next]_vars PROVE PassedInv' /\ HandedInv'
  OBVIOUS
<1>. USE DEF promptVars, cacheVars, sessionVars, requestVars
<1>0. TypeOK /\ AnswerInv /\ PositionInv /\ GrantsInv
  BY DEF IInv
<1>1. ASSUME UNCHANGED <<allowed, passThrough, pos, outcome, cache>>,
             \A s \in Sessions : pc'[s] = "done" => pc[s] = "done",
             \A c \in Calls : \/ channel[c] = "none" /\ channel'[c] = "none"
                              \/ answer[c] \in Approvals => answer'[c] \in Approvals,
             \A s \in Sessions : \A c \in LetPass(s) : channel[c] = "none" => channel'[c] = "none",
             \A c \in Ran : channel[c] = "none" => channel'[c] = "none"
      PROVE  PassedInv' /\ HandedInv'
  <2>1. \A s \in Sessions : LetPass(s)' = LetPass(s) /\ Behind(s)' = Behind(s) /\ LetPass(s) \subseteq Calls
    BY <1>1, LetPassType, BatchType DEF LetPass, Behind
  <2>2. Ran' = Ran /\ Ran \subseteq Calls
    BY <1>1 DEF Ran
  <2>3. PassedInv'
    BY <1>1, <2>1, <2>2 DEF PassedInv
  <2>. QED  BY <1>1, <2>3 DEF HandedInv
<1>2. ASSUME NEW s \in Sessions, Classify(s) PROVE PassedInv' /\ HandedInv'
  <2>. DEFINE v == Resolve(Current(s), ScopeOf[Current(s)] \in overrides)
  <2>1. /\ pc[s] = "classify" /\ pos[s] \in DOMAIN Batch[s]
        /\ channel[Current(s)] = "none" /\ UNCHANGED <<channel, answer, passThrough>>
    BY <1>0, <1>2 DEF Classify, PositionInv, AtBatch, NotYetPrompted, Current
  <2>2. CASE AllowCall(s, v, FALSE)
    <3>. HIDE DEF v
    <3>. QED  BY <2>1, <2>2, AllowCallPasses
  <2>3. CASE DenyCall(s, "denied")
    BY <2>1, <2>3, DenyCallPasses
  <2>4. CASE pc' = [pc EXCEPT ![s] = "register"] /\ UNCHANGED <<pos, allowed, outcome, cacheVars>>
    BY <1>0, <1>1, <2>1, <2>4 DEF TypeOK
  <2>. QED  BY <1>2, <2>2, <2>3, <2>4 DEF Classify
<1>3. ASSUME NEW s \in Sessions, RegisterOverridden(s) \/ AwaitAllowed(s) PROVE PassedInv' /\ HandedInv'
  <2>1. /\ pos[s] \in DOMAIN Batch[s] /\ Current(s) \in Calls
        /\ AllowCall(s, "Prompt", TRUE) /\ UNCHANGED <<channel, answer, passThrough>>
    BY <1>0, <1>3, CurrentType DEF RegisterOverridden, AwaitAllowed, PositionInv, AtBatch, Asking
  <2>2. channel[Current(s)] = "none" \/ answer[Current(s)] \in Approvals
    BY <1>0, <1>3, <2>1 DEF RegisterOverridden, AwaitAllowed, PositionInv, NotYetPrompted, Current,
                            GrantsInv, ChannelGranted
  <2>. QED  BY <2>1, <2>2, AllowCallPasses
<1>4. ASSUME NEW s \in Sessions, AwaitEnded(s) PROVE PassedInv' /\ HandedInv'
  <2>1. pos[s] \in DOMAIN Batch[s] /\ UNCHANGED <<channel, answer, passThrough>>
    BY <1>0, <1>4 DEF AwaitEnded, PositionInv, AtBatch, Asking
  <2>2. PICK o \in Outcomes \ {"ran"} : DenyCall(s, o)
    BY <1>4 DEF AwaitEnded, Outcomes
  <2>. QED  BY <2>1, <2>2, DenyCallPasses
<1>5. ASSUME NEW s \in Sessions, RegisterInsert(s) PROVE PassedInv' /\ HandedInv'
  <2>1. /\ pos[s] \in DOMAIN Batch[s] /\ Current(s) \in CallsOf(s) /\ pc[s] # "done"
        /\ UNCHANGED <<allowed, passThrough, pos, outcome, cache, answer>>
    BY <1>0, <1>5, CurrentType DEF RegisterInsert, PositionInv, AtBatch, Asking
  <2>2. \A c \in Calls \ {Current(s)} : channel[c] = "none" => channel'[c] = "none"
    <3>1. \A c \in Expired : channel[c] # "none"
      BY <1>0 DEF Expired, AnswerInv, Unprompted, TypeOK
    <3>. QED  BY <1>5, <3>1 DEF RegisterInsert
  <2>3. \A t \in Sessions : Current(s) \notin LetPass(t)
    <3>1. Current(s) \notin LetPass(s)
      BY <2>1, LetPassType DEF PassedInv
    <3>2. \A t \in Sessions \ {s} : Current(s) \notin LetPass(t)
      BY <2>1, OneSession, LetPassType
    <3>. QED  BY <3>1, <3>2
  <2>4. Current(s) \notin Ran
    BY <1>0, <2>1 DEF PositionInv, NotYetRan, Ran
  <2>5. \A t \in Sessions : LetPass(t) \subseteq Calls
    BY LetPassType, BatchType
  <2>6. \A t \in Sessions : pc'[t] = "done" => pc[t] = "done"
    BY <1>0, <1>5 DEF RegisterInsert, TypeOK
  <2>. QED  BY <1>1, <2>1, <2>2, <2>3, <2>4, <2>5, <2>6 DEF Ran
<1>6. ASSUME NEW s \in Sessions, RegisterAsk(s) \/ Cancel(s) \/ Drop(s) PROVE PassedInv' /\ HandedInv'
  <2>1. UNCHANGED <<allowed, passThrough, pos, outcome, cache, answer, channel>>
    BY <1>6 DEF RegisterAsk, Cancel, Drop
  <2>2. \A t \in Sessions : pc'[t] = "done" => pc[t] = "done"
    BY <1>0, <1>6 DEF RegisterAsk, Cancel, Drop, TypeOK
  <2>. QED  BY <1>1, <2>1, <2>2
<1>7. ASSUME NEW s \in Sessions, GateCall(s) PROVE PassedInv' /\ HandedInv'
  <2>. DEFINE c == Head(allowed[s])
  <2>1. /\ c \in CallsOf(s) /\ c \in Calls
        /\ ToSet(allowed[s]) = ToSet(Tail(allowed[s])) \cup {c}
    BY <1>7, LetPassType, SequenceFacts, BatchType DEF GateCall
  <2>2. /\ allowed' = [allowed EXCEPT ![s] = Tail(@)] /\ UNCHANGED <<channel, answer, pc, pos>>
        /\ passThrough' = passThrough \/ passThrough' = [passThrough EXCEPT ![s] = @ \cup {c}]
        /\ outcome' = outcome \/ outcome' = [outcome EXCEPT ![c] = "blocked"]
        /\ cache' = [Fresh EXCEPT ![c] = NoDecision] /\ pc[s] = "gate"
    BY <1>7 DEF GateCall, ConsumeDecision
  <2>. HIDE DEF c
  <2>3. /\ \A t \in Sessions : LetPass(t)' \subseteq LetPass(t)
        /\ \A t \in Sessions \ {s} : allowed'[t] = allowed[t]
        /\ ToSet(allowed[s]) = ToSet(allowed'[s]) \cup {c}
    BY <1>0, <2>1, <2>2 DEF LetPass, TypeOK
  <2>4. Ran' \subseteq Ran
    BY <1>0, <2>2 DEF Ran, TypeOK
  <2>5. PassedInv'
    BY <2>2, <2>3, <2>4 DEF PassedInv, Behind
  <2>6. \A x \in Calls : cache'[x] # NoDecision => x # c /\ cache[x] # NoDecision
    BY <2>1, <2>2 DEF Fresh
  <2>7. HandedInv'
    BY <2>2, <2>3, <2>6, BatchType DEF HandedInv
  <2>. QED  BY <2>5, <2>7
<1>8. ASSUME NEW s \in Sessions, Execute(s) PROVE PassedInv' /\ HandedInv'
  <2>1. /\ UNCHANGED <<channel, answer, pos, allowed, passThrough, cache>> /\ allowed[s] = <<>>
        /\ \A t \in Sessions \ {s} : pc'[t] = pc[t]
        /\ Ran' = Ran \cup (passThrough[s] \cap Calls)
    BY <1>0, <1>8 DEF Execute, Ran, TypeOK
  <2>2. \A t \in Sessions : LetPass(t)' = LetPass(t) /\ Behind(t)' = Behind(t)
    BY <2>1 DEF LetPass, Behind
  <2>3. PassedInv'
    BY <2>1, <2>2 DEF PassedInv, LetPass
  <2>. QED  BY <2>1, <2>3 DEF HandedInv
<1>9. ASSUME NEW r \in Requests, RequestStep(r) PROVE PassedInv' /\ HandedInv'
  <2>1. UNCHANGED <<allowed, passThrough, pos, outcome, cache, pc>>
    BY <1>9 DEF RequestStep, CheckResolved, TakePending, RefuseExpired, ApplyOverride,
                SendDecision, RememberAnswer
  <2>2. \A c \in Calls : channel[c] = "none" => channel'[c] = "none"
    BY <1>0, <1>9 DEF RequestStep, CheckResolved, TakePending, RefuseExpired, ApplyOverride,
                SendDecision, RememberAnswer, Send, TypeOK
  <2>3. \A c \in Calls : answer[c] \in Approvals => answer'[c] \in Approvals
    <3>1. CASE ApplyOverride(r)
      <4>1. answer[req[r].call] = "none"
        BY <1>0, <3>1 DEF ApplyOverride, AnswerInv, HeldUnanswered
      <4>. QED  BY <1>0, <3>1, <4>1 DEF ApplyOverride, TypeOK, Approvals
    <3>2. CASE ~ApplyOverride(r)
      BY <1>9, <3>2 DEF RequestStep, CheckResolved, TakePending, RefuseExpired, SendDecision, RememberAnswer
    <3>. QED  BY <3>1, <3>2
  <2>. QED  BY <1>1, <2>1, <2>2, <2>3, LetPassType, BatchType DEF Ran
<1>10. CASE Tick \/ UNCHANGED vars
            \/ (\E r \in Requests, c \in Calls, d \in Decisions : Respond(r, c, d))
  <2>1. UNCHANGED <<allowed, passThrough, pos, outcome, cache, pc, answer, channel>>
    BY <1>10 DEF Tick, vars, Respond
  <2>. QED  BY <1>1, <2>1
<1>. QED  BY <1>2, <1>3, <1>4, <1>5, <1>6, <1>7, <1>8, <1>9, <1>10 DEF Next, SessionStep

LEMMA JInvHolds == Spec => []JInv
<1>1. Init => RepliesInv /\ WaiterIsReachable
  BY DEF Init, RepliesInv, WaiterIsReachable, NoReply
<1>2. Init => PassedInv /\ HandedInv
  <2>. SUFFICES ASSUME Init PROVE PassedInv /\ HandedInv
    OBVIOUS
  <2>1. ToSet(<<>>) = {}
    BY DEF ToSet
  <2>2. (\A s \in Sessions : LetPass(s) = {}) /\ Ran = {}
    BY <2>1 DEF Init, LetPass, Ran
  <2>3. \A c \in Calls : cache[c] = NoDecision
    BY DEF Init
  <2>4. \A s \in Sessions : pc[s] = "classify"
    BY DEF Init
  <2>. QED  BY <2>2, <2>3, <2>4, BatchType DEF PassedInv, HandedInv
<1>3. Init => JInv
  BY <1>1, <1>2, TypeInit, GrantsInit, AnswerInit, PositionInit DEF JInv, IInv
<1>4. JInv /\ [Next]_vars => JInv'
  <2>1. IInv /\ [Next]_vars => IInv'
    BY TypeNext, GrantsNext, AnswerNext, PositionNext DEF IInv
  <2>. QED  BY <2>1, RepliesNext, PassedNext, WaiterNext DEF JInv
<1>. QED  BY <1>3, <1>4, PTL DEF Spec

\* Every request is told the decision that was accepted, whichever request brought it, and a
\* prompt that one request was told is expired is never approved afterwards.
THEOREM RepliesHold == Spec => []RepliesAreTrue
<1>1. JInv => RepliesAreTrue
  BY ReplyType DEF JInv, IInv, RepliesInv, RepliesAreTrue, GrantsInv, ChannelGranted, Approvals
<1>. QED  BY <1>1, JInvHolds, PTL

\* No order of registering, answering and dropping prompts leaves a session waiting on one
\* that nobody can answer any more, while its channel is open.
THEOREM WaitersAreReachable == Spec => []WaiterIsReachable
<1>1. JInv => WaiterIsReachable
  BY DEF JInv
<1>. QED  BY <1>1, JInvHolds, PTL

\* A call whose prompt was denied never runs, and the inner gate uses up what the outer one
\* cached for it.
THEOREM DecisionsUsedUp == Spec => []DecisionsAreUsedUp
<1>1. ASSUME JInv PROVE RefusedNeverRuns
  <2>1. \A c \in Calls : answer[c] # "none" => channel[c] # "none"
    BY <1>1 DEF JInv, IInv, AnswerInv, Unprompted
  <2>. QED  BY <1>1, <2>1 DEF JInv, PassedInv, RefusedNeverRuns, Ran, Approvals
<1>2. ASSUME JInv PROVE NothingLeftCached
  <2>1. ToSet(<<>>) = {}
    BY DEF ToSet
  <2>. QED  BY <1>2, <2>1 DEF JInv, HandedInv, NothingLeftCached
<1>3. JInv => DecisionsAreUsedUp
  BY <1>1, <1>2 DEF DecisionsAreUsedUp
<1>. QED  BY <1>3, JInvHolds, PTL
=============================================================================
