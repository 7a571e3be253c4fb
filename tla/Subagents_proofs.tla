------------------------- MODULE Subagents_proofs -------------------------
(***************************************************************************)
(* Proofs about Subagents, for all subagents, calls, limits, budgets and   *)
(* deadlines: the types, the limit on those that are active and on those   *)
(* that work, the budgets, and what is recorded of their ends.             *)
(***************************************************************************)
EXTENDS Subagents, FiniteSetTheorems, TLAPS

\* CancelledOnce without the count.
Once(a) == \A j, k \in Cancellers : cancel[j].agent = a /\ cancel[k].agent = a => j = k

Over(a) == status[a] \in Terminal

\* The manager counts everybody who is not over.
SlotInv == IsFiniteSet(Active) /\ Cardinality(Active) <= MaxConcurrent

\* A call knows its subagent once it is made, and the task knows the calls it serves.
CallInv ==
    /\ \A x \in Senders : send[x].pc = "idle" => send[x].agent = "none" /\ send[x].reply = "none"
    /\ \A x \in Senders : send[x].pc # "idle" =>
          send[x].agent \in Agents /\ status[send[x].agent] # "none"
    /\ \A k \in Cancellers : cancel[k].pc = "idle" => cancel[k].agent = "none"
    /\ \A k \in Cancellers : cancel[k].pc # "idle" =>
          cancel[k].agent \in Agents /\ status[cancel[k].agent] # "none"
    /\ \A a \in Agents : current[a] # NoCall => send[current[a]].agent = a
    /\ \A a \in Agents : \A i \in 1..Len(queue[a]) : send[queue[a][i]].agent = a

\* A task that works is in charge of its status until a second cancel interferes, and has
\* recorded the end when it answers with an error.
TaskInv ==
    /\ \A a \in Agents : status[a] = "none" =>
          task[a] = "none" /\ ~handle[a] /\ a \notin registered /\ tokens[a] = 0
    /\ \A a \in Agents : task[a] \in {"stamp", "replyError"} => Over(a)
    /\ \A a \in Agents : task[a] = "replyError" => current[a] # NoCall
    /\ \A a \in Agents : tokens[a] > MaxTokens => ~AtWork(a)
    /\ \A a \in Agents : AtWork(a) /\ Once(a) => ~Over(a)
    /\ \A x \in Senders : send[x].reply = "error" => Over(send[x].agent)

\* Whoever is collected, or gone from the manager, is over and stamped.
GcInv == \A a \in Agents : a \in collected \/ (status[a] # "none" /\ a \notin registered) =>
             finished[a] /\ Over(a)

\* The only cancel of a subagent records its end when the task is there no more.
CancelInv ==
    /\ \A k \in Cancellers : cancel[k].pc \in {"finish", "record", "stamp"} /\ Once(cancel[k].agent) =>
          ~Live(cancel[k].agent)
    /\ \A k \in Cancellers : cancel[k].pc = "record" /\ Once(cancel[k].agent) =>
          ~Over(cancel[k].agent)
    /\ \A k \in Cancellers : cancel[k].pc \in {"stamp", "done"} => Over(cancel[k].agent)
    /\ \A a \in Agents : status[a] # "none" /\ ~handle[a] =>
          \E k \in Cancellers : cancel[k].agent = a /\ cancel[k].pc \notin {"idle", "signal", "close", "take"}

\* A cancel has closed the session of a subagent.
Shut(a) == \E k \in Cancellers : cancel[k].agent = a /\ cancel[k].pc \notin {"idle", "signal", "close"}

\* A session is closed, and a task aborted, by a cancel; a task that is over has recorded its
\* end unless it was aborted or panicked, and so whoever finds the session closed knows why.
EndInv ==
    /\ \A a \in Agents : status[a] # "none" => task[a] # "none"
    /\ \A a \in Agents : status[a] # "none" /\ channel[a] = "none" => Mode[a] = "run"
    /\ \A a \in Agents : channel[a] = "closed" \/ aborted[a] => Shut(a)
    /\ \A a \in Agents : task[a] = "ended" => Over(a) \/ Shut(a)
    /\ \A x \in Senders : send[x].reply = "closed" =>
          LET a == send[x].agent IN Over(a) \/ Mode[a] = "run" \/ Shut(a) \/ task[a] = "panicked"

IInv == TypeOK /\ SlotInv /\ CallInv /\ TaskInv /\ GcInv /\ CancelInv /\ EndInv
-----------------------------------------------------------------------------
\* Two cancels of one subagent are two.
LEMMA OnceIs == ASSUME NEW a \in Agents PROVE CancelledOnce(a) <=> Once(a)
<1>. DEFINE C == {k \in Cancellers : cancel[k].agent = a}
<1>1. IsFiniteSet(Cancellers)
  BY FS_Interval, SubagentAssumption DEF Cancellers
<1>2. IsFiniteSet(C) /\ Cardinality(C) \in Nat
  BY <1>1, FS_Subset, FS_CardinalityType
<1>3. ASSUME Once(a) PROVE Cardinality(C) <= 1
  <2>1. CASE C = {}
    BY <2>1, FS_EmptySet
  <2>2. CASE C # {}
    <3>1. PICK k \in C : TRUE
      BY <2>2
    <3>2. C = {k}
      BY <1>3, <3>1 DEF Once
    <3>. QED  BY <3>2, FS_Singleton
  <2>. QED  BY <2>1, <2>2
<1>4. ASSUME Cardinality(C) <= 1 PROVE Once(a)
  <2>1. SUFFICES ASSUME NEW j \in C, NEW k \in C, j # k PROVE FALSE
    BY DEF Once
  <2>2. IsFiniteSet({j, k}) /\ Cardinality({j, k}) = 2
    <3>1. IsFiniteSet({j}) /\ Cardinality({j}) = 1
      BY FS_Singleton
    <3>2. /\ IsFiniteSet({j} \cup {k})
          /\ Cardinality({j} \cup {k}) = IF k \in {j} THEN Cardinality({j}) ELSE Cardinality({j}) + 1
      BY <3>1, FS_AddElement
    <3>3. {j, k} = {j} \cup {k}
      OBVIOUS
    <3>. QED  BY <2>1, <3>1, <3>2, <3>3
  <2>3. {j, k} \in SUBSET C
    OBVIOUS
  <2>4. Cardinality({j, k}) <= Cardinality(C)
    BY <1>2, <2>3, FS_Subset
  <2>. QED  BY <1>2, <1>4, <2>2, <2>4
<1>. QED  BY <1>3, <1>4 DEF CancelledOnce

LEMMA InitIInv == Init => IInv
<1>. SUFFICES ASSUME Init PROVE IInv
  OBVIOUS
<1>. USE SubagentAssumption DEF Init
<1>1. TypeOK
  BY DEF TypeOK, Tasks, SendPcs, CancelPcs, NoCall
<1>2. SlotInv
  <2>1. Active = {}
    BY DEF Active
  <2>. QED  BY <2>1, FS_EmptySet DEF SlotInv
<1>3. CallInv
  BY DEF CallInv, NoCall
<1>4. TaskInv /\ GcInv /\ CancelInv /\ EndInv
  BY DEF TaskInv, GcInv, CancelInv, EndInv, AtWork, Over, Terminal
<1>. QED  BY <1>1, <1>2, <1>3, <1>4 DEF IInv

\* What a reply or the step of a cancel makes of the calls.
SendRecords   == [pc : SendPcs, agent : Agents \cup {"none"}, reply : {"none", "ok", "error", "closed"}]
CancelRecords == [pc : CancelPcs, agent : Agents \cup {"none"}, waited : 0..Grace]

\* The types in parts: the manager and the instances, the tasks, their queues, the calls.
InstanceTypes ==
    /\ registered \subseteq Agents /\ collected \subseteq Agents
    /\ status \in [Agents -> {"none", "Running"} \cup Terminal]
    /\ finished \in [Agents -> BOOLEAN] /\ token \in [Agents -> BOOLEAN]
    /\ handle \in [Agents -> BOOLEAN] /\ channel \in [Agents -> {"none", "open", "closed"}]
TaskTypes ==
    /\ task \in [Agents -> Tasks] /\ current \in [Agents -> Senders \cup {NoCall}]
    /\ tokens \in [Agents -> Nat] /\ age \in [Agents -> 0..Timeout]
    /\ aborted \in [Agents -> BOOLEAN]
QueueTypes ==
    /\ queue \in [Agents -> Seq(Senders)]
    /\ \A a \in Agents : Len(queue[a]) <= Capacity
CallTypes == send \in [Senders -> SendRecords] /\ cancel \in [Cancellers -> CancelRecords]

LEMMA TypeParts == TypeOK <=> InstanceTypes /\ TaskTypes /\ QueueTypes /\ CallTypes
BY DEF TypeOK, InstanceTypes, TaskTypes, QueueTypes, CallTypes, SendRecords, CancelRecords

LEMMA TypePartsNext ==
    (TypeOK <=> InstanceTypes /\ TaskTypes /\ QueueTypes /\ CallTypes)'
BY TypeParts, PTL

LEMMA ReplyType ==
    ASSUME TypeOK, NEW a \in Agents, Reply(a)
    PROVE  /\ send' \in [Senders -> SendRecords]
           /\ \A y \in Senders : send'[y].agent = send[y].agent
           /\ \A y \in Senders : send'[y].pc = send[y].pc \/ send'[y].pc = "done"
           /\ \A y \in Senders : send'[y].pc = "idle" => send'[y] = send[y]
           /\ \A y \in Senders : send'[y].reply = "error" =>
                 send[y].reply = "error" \/ (y = current[a] /\ task[a] = "replyError")
           /\ \A y \in Senders : send'[y].reply = "closed" =>
                 send[y].reply = "closed" \/ (send[y].agent = a /\ task'[a] = "ended")
<1>. DEFINE x == current[a]
            word == IF task[a] = "replyOk" THEN "ok" ELSE "error"
            one(y) == [send[y] EXCEPT !.pc = "done", !.reply = word]
            answered == [send EXCEPT ![x] = [@ EXCEPT !.pc = "done", !.reply = word]]
            shut(y) == [send[y] EXCEPT !.pc = "done", !.reply = "closed"]
<1>1. \A y \in Senders :
         /\ send[y] \in SendRecords /\ one(y) \in SendRecords /\ shut(y) \in SendRecords
         /\ one(y).agent = send[y].agent /\ one(y).pc = "done" /\ one(y).reply = word
         /\ shut(y).agent = send[y].agent /\ shut(y).pc = "done" /\ shut(y).reply = "closed"
  BY ZenonT(40) DEF TypeOK, SendRecords, SendPcs
<1>2. (word = "error" => task[a] = "replyError") /\ word # "closed"
  BY DEF Reply
<1>3. \A y \in Senders : answered[y] = IF y = x THEN one(y) ELSE send[y]
  BY DEF TypeOK
<1>4. DOMAIN answered = Senders /\ answered = [y \in Senders |-> answered[y]]
  BY DEF TypeOK
<1>5. \/ send' = answered
      \/ /\ task'[a] = "ended"
         /\ send' = [y \in Senders |-> IF y # x /\ send[y].agent = a /\ send[y].pc = "await"
                                       THEN shut(y) ELSE answered[y]]
  <2>1. DOMAIN task = Agents
    BY DEF TypeOK
  <2>. QED  BY <2>1 DEF Reply, At
<1>. HIDE DEF x, word, one, answered, shut
<1>6. send' = [y \in Senders |-> send'[y]]
  BY <1>4, <1>5
<1>7. \A y \in Senders : \/ send'[y] = send[y]
                         \/ send'[y] = shut(y) /\ send[y].agent = a /\ task'[a] = "ended"
                         \/ y = x /\ send'[y] = one(y)
  BY <1>3, <1>5
<1>. QED  BY <1>1, <1>2, <1>6, <1>7 DEF x

\* A cancel moves alone and keeps its subagent once it has one.
LEMMA CancelType ==
    ASSUME TypeOK, NEW k \in Cancellers,
           CancelStep(k) \/ CancelDropped(k) \/ \E a \in Agents : CancelStart(k, a)
    PROVE  /\ cancel' \in [Cancellers -> CancelRecords]
           /\ \A j \in Cancellers \ {k} : cancel'[j] = cancel[j]
           /\ cancel[k].pc # "idle" => cancel'[k].agent = cancel[k].agent
           /\ cancel[k].pc = "idle" <=> \E a \in Agents : CancelStart(k, a)
<1>. DEFINE moved(l) == [cancel[k] EXCEPT !.pc = l]
            left(l)  == [cancel[k] EXCEPT !.pc = l, !.waited = 0]
<1>1. \A l \in CancelPcs :
         /\ moved(l) \in CancelRecords /\ moved(l).agent = cancel[k].agent
         /\ left(l) \in CancelRecords /\ left(l).agent = cancel[k].agent
  <2>1. cancel[k] \in CancelRecords /\ 0 \in 0..Grace
    BY SubagentAssumption DEF TypeOK, CancelRecords
  <2>. QED  BY <2>1 DEF CancelRecords
<1>2. \A l : Step(k, l) => cancel' = [cancel EXCEPT ![k] = moved(l)]
  BY DEF Step, TypeOK
<1>3. \A l : Leave(k, l) => cancel' = [cancel EXCEPT ![k] = left(l)]
  BY DEF Leave, TypeOK
<1>. HIDE DEF moved, left
<1>4. CASE CancelStep(k) \/ CancelDropped(k)
  <2>1. cancel[k].pc # "idle" /\ \E l \in CancelPcs : Step(k, l) \/ Leave(k, l)
    BY <1>4 DEF CancelStep, CancelDropped, CancelSignal, CancelClose, CancelTake,
                CancelJoined, CancelAbort, CancelFinish, CancelRecord, CancelStamp, CancelPcs
  <2>2. \A a \in Agents : ~CancelStart(k, a)
    BY <2>1 DEF CancelStart
  <2>3. cancel \in [Cancellers -> CancelRecords]
    BY DEF TypeOK, CancelRecords
  <2>4. \E c \in CancelRecords : cancel' = [cancel EXCEPT ![k] = c] /\ c.agent = cancel[k].agent
    BY <1>1, <1>2, <1>3, <2>1
  <2>. QED  BY <2>1, <2>2, <2>3, <2>4
<1>5. ASSUME NEW a \in Agents, CancelStart(k, a)
      PROVE  /\ cancel' \in [Cancellers -> CancelRecords] /\ cancel[k].pc = "idle"
             /\ \A j \in Cancellers \ {k} : cancel'[j] = cancel[j]
  <2>1. [pc |-> IF status[a] \in Terminal THEN "done" ELSE "signal", agent |-> a, waited |-> 0] \in CancelRecords
    BY SubagentAssumption DEF CancelRecords, CancelPcs
  <2>. QED  BY <1>5, <2>1 DEF CancelStart, TypeOK, CancelRecords
<1>. QED  BY <1>4, <1>5

\* What a task forgets when it is over.
LEMMA ForgetType ==
    ASSUME TaskTypes, QueueTypes, NEW a \in Agents, Forget(a), task' \in [Agents -> Tasks]
    PROVE  TaskTypes' /\ QueueTypes'
<1>1. /\ current' \in [Agents -> Senders \cup {NoCall}] /\ aborted' \in [Agents -> BOOLEAN]
      /\ tokens' \in [Agents -> Nat] /\ age' \in [Agents -> 0..Timeout]
  BY SubagentAssumption DEF TaskTypes, Forget
<1>2. QueueTypes'
  BY SubagentAssumption DEF QueueTypes, Forget
<1>. QED  BY <1>1, <1>2 DEF TaskTypes

LEMMA EndType ==
    ASSUME TaskTypes, QueueTypes, CallTypes, NEW a \in Agents, NEW how \in {"ended", "panicked"}, End(a, how)
    PROVE  TaskTypes' /\ QueueTypes' /\ send' \in [Senders -> SendRecords]
<1>1. task' \in [Agents -> Tasks]
  BY DEF TaskTypes, End, At, Tasks
<1>2. \A x \in Senders : [send[x] EXCEPT !.pc = "done", !.reply = "closed"] \in SendRecords
  BY DEF CallTypes, SendRecords, SendPcs
<1>3. send' \in [Senders -> SendRecords]
  BY <1>2 DEF CallTypes, End
<1>. QED  BY <1>1, <1>3, ForgetType DEF End

LEMMA TypeNext == TypeOK /\ CallInv /\ [Next]_vars => TypeOK'
<1>. SUFFICES ASSUME InstanceTypes, TaskTypes, QueueTypes, CallTypes, CallInv, [Next]_vars
              PROVE  InstanceTypes' /\ TaskTypes' /\ QueueTypes' /\ CallTypes'
  BY TypeParts, TypePartsNext
<1>. USE DEF instanceVars, taskVars, At, Record, Tasks, Terminal
<1>1. ASSUME NEW a \in Agents, Spawn(a)
      PROVE  InstanceTypes' /\ TaskTypes' /\ QueueTypes' /\ CallTypes'
  BY <1>1 DEF Spawn, InstanceTypes, TaskTypes, QueueTypes, CallTypes
<1>2. ASSUME NEW a \in Agents,
             BeginTurn(a) \/ FirstTurnSucceeds(a) \/ TurnSucceeds(a) \/ TurnFails(a)
                \/ TurnTimesOut(a) \/ ReceiveEnds(a)
      PROVE  InstanceTypes' /\ TaskTypes' /\ QueueTypes' /\ CallTypes'
  <2>0. /\ UNCHANGED <<registered, collected, finished, channel, token, handle>>
        /\ status' = status \/ \E st \in Terminal : Record(a, st)
    BY <1>2 DEF BeginTurn, FirstTurnSucceeds, TurnSucceeds, TurnFails, TurnTimesOut, ReceiveEnds
  <2>1. InstanceTypes'
    BY <2>0 DEF InstanceTypes
  <2>2. tokens' \in [Agents -> Nat]
    <3>1. CASE FirstTurnSucceeds(a)
      BY <3>1, SubagentAssumption DEF TaskTypes, FirstTurnSucceeds
    <3>2. CASE TurnSucceeds(a)
      BY <3>2, SubagentAssumption DEF TaskTypes, TurnSucceeds
    <3>3. CASE BeginTurn(a) \/ TurnFails(a) \/ TurnTimesOut(a) \/ ReceiveEnds(a)
      BY <3>3 DEF TaskTypes, BeginTurn, TurnFails, TurnTimesOut, ReceiveEnds
    <3>. QED  BY <1>2, <3>1, <3>2, <3>3
  <2>3. TaskTypes'
    BY <1>2, <2>2 DEF TaskTypes, BeginTurn, FirstTurnSucceeds, TurnSucceeds, TurnFails, TurnTimesOut, ReceiveEnds
  <2>4. QueueTypes' /\ CallTypes'
    BY <1>2 DEF QueueTypes, CallTypes, BeginTurn, FirstTurnSucceeds, TurnSucceeds, TurnFails,
                TurnTimesOut, ReceiveEnds
  <2>. QED  BY <2>1, <2>3, <2>4
<1>3. ASSUME NEW a \in Agents, TaskPanics(a) \/ TaskAborted(a)
      PROVE  InstanceTypes' /\ TaskTypes' /\ QueueTypes' /\ CallTypes'
  <2>1. InstanceTypes' /\ cancel' = cancel /\ \E how \in {"ended", "panicked"} : End(a, how)
    BY <1>3 DEF TaskPanics, TaskAborted, InstanceTypes
  <2>. QED  BY <2>1, EndType DEF CallTypes
<1>4. ASSUME NEW a \in Agents, Receive(a)
      PROVE  InstanceTypes' /\ TaskTypes' /\ QueueTypes' /\ CallTypes'
  <2>1. queue[a] \in Seq(Senders) /\ queue[a] # <<>> /\ Len(queue[a]) <= Capacity
    BY <1>4 DEF Receive, QueueTypes
  <2>2. Head(queue[a]) \in Senders /\ Tail(queue[a]) \in Seq(Senders) /\ Len(Tail(queue[a])) <= Capacity
    BY <2>1, SubagentAssumption
  <2>3. InstanceTypes' /\ CallTypes' /\ QueueTypes'
    BY <1>4, <2>2 DEF Receive, InstanceTypes, CallTypes, QueueTypes
  <2>4. TaskTypes'
    BY <1>4, <2>2 DEF Receive, TaskTypes
  <2>. QED  BY <2>3, <2>4
<1>5. ASSUME NEW a \in Agents, Stamp(a)
      PROVE  InstanceTypes' /\ TaskTypes' /\ QueueTypes' /\ CallTypes'
  <2>1. InstanceTypes' /\ cancel' = cancel
    BY <1>5 DEF Stamp, InstanceTypes
  <2>2. CASE End(a, "ended")
    BY <2>1, <2>2, EndType DEF CallTypes
  <2>3. CASE At(a, "replyError") /\ UNCHANGED <<current, queue, tokens, age, aborted, send>>
    BY <2>1, <2>3 DEF TaskTypes, QueueTypes, CallTypes
  <2>. QED  BY <1>5, <2>2, <2>3 DEF Stamp
<1>6. ASSUME NEW a \in Agents, Reply(a)
      PROVE  InstanceTypes' /\ TaskTypes' /\ QueueTypes' /\ CallTypes'
  <2>1. send' \in [Senders -> SendRecords]
    BY <1>6, ReplyType, TypeParts
  <2>2. task' \in [Agents -> Tasks] /\ UNCHANGED <<registered, collected, instanceVars, cancel>>
    BY <1>6 DEF Reply, TaskTypes
  <2>3. CASE Forget(a)
    BY <2>1, <2>2, <2>3, ForgetType DEF InstanceTypes, CallTypes
  <2>4. CASE UNCHANGED <<queue, tokens, age, aborted>> /\ current' = [current EXCEPT ![a] = NoCall]
    BY <2>1, <2>2, <2>4 DEF InstanceTypes, CallTypes, TaskTypes, QueueTypes
  <2>. QED  BY <1>6, <2>3, <2>4 DEF Reply
<1>7. ASSUME NEW S \in SUBSET Agents, GcCollect(S) \/ GcRemove
      PROVE  InstanceTypes' /\ TaskTypes' /\ QueueTypes' /\ CallTypes'
  BY <1>7 DEF GcCollect, GcRemove, InstanceTypes, TaskTypes, QueueTypes, CallTypes
<1>8. ASSUME NEW x \in Senders, Enqueue(x)
      PROVE  InstanceTypes' /\ TaskTypes' /\ QueueTypes' /\ CallTypes'
  <2>. DEFINE a == send[x].agent
  <2>1. a \in Agents
    BY <1>8 DEF Enqueue, CallInv
  <2>2. InstanceTypes' /\ TaskTypes' /\ cancel' = cancel
    BY <1>8 DEF Enqueue, InstanceTypes, TaskTypes
  <2>3. send' \in [Senders -> SendRecords]
    <3>1. /\ [send[x] EXCEPT !.pc = "await"] \in SendRecords
          /\ [send[x] EXCEPT !.pc = "done", !.reply = "closed"] \in SendRecords
      BY DEF CallTypes, SendRecords, SendPcs
    <3>2. \/ send' = [send EXCEPT ![x] = [send[x] EXCEPT !.pc = "await"]]
          \/ send' = [send EXCEPT ![x] = [send[x] EXCEPT !.pc = "done", !.reply = "closed"]]
      BY <1>8 DEF Enqueue, CallTypes
    <3>. QED  BY <3>1, <3>2 DEF CallTypes
  <2>4. QueueTypes'
    <3>1. queue[a] \in Seq(Senders) /\ Len(queue[a]) \in Nat
      BY <2>1 DEF QueueTypes
    <3>2. Len(queue[a]) < Capacity =>
             Append(queue[a], x) \in Seq(Senders) /\ Len(Append(queue[a], x)) <= Capacity
      BY <3>1, SubagentAssumption
    <3>3. queue' = queue \/ (Len(queue[a]) < Capacity /\ queue' = [queue EXCEPT ![a] = Append(queue[a], x)])
      BY <1>8 DEF Enqueue
    <3>. HIDE DEF a
    <3>. QED  BY <2>1, <3>2, <3>3 DEF QueueTypes
  <2>. QED  BY <2>2, <2>3, <2>4 DEF CallTypes
<1>9. ASSUME NEW x \in Senders, NEW a \in Agents, SendTo(x, a)
      PROVE  InstanceTypes' /\ TaskTypes' /\ QueueTypes' /\ CallTypes'
  BY <1>9 DEF SendTo, InstanceTypes, TaskTypes, QueueTypes, CallTypes, SendRecords, SendPcs
<1>10. ASSUME NEW k \in Cancellers, CancelStep(k) \/ CancelDropped(k) \/ \E a \in Agents : CancelStart(k, a)
       PROVE  InstanceTypes' /\ TaskTypes' /\ QueueTypes' /\ CallTypes'
  <2>. USE DEF CancelStep, CancelDropped, CancelStart, CancelSignal, CancelClose, CancelTake,
               CancelJoined, CancelAbort, CancelFinish, CancelRecord, CancelStamp
  <2>1. cancel' \in [Cancellers -> CancelRecords]
    BY <1>10, CancelType, TypeParts
  <2>2. InstanceTypes'
    BY <1>10 DEF InstanceTypes
  <2>3. aborted' \in [Agents -> BOOLEAN]
    BY <1>10 DEF TaskTypes
  <2>4. UNCHANGED <<task, current, queue, tokens, age, send>>
    BY <1>10
  <2>. QED  BY <2>1, <2>2, <2>3, <2>4 DEF TaskTypes, QueueTypes, CallTypes
<1>11. CASE Tick
  <2>1. age' \in [Agents -> 0..Timeout]
    BY <1>11, SubagentAssumption DEF Tick, TaskTypes
  <2>2. cancel' \in [Cancellers -> CancelRecords]
    <3>1. ASSUME NEW k \in Cancellers, cancel[k].waited < Grace
          PROVE  [cancel[k] EXCEPT !.waited = @ + 1] \in CancelRecords
      <4>1. cancel[k] \in CancelRecords /\ cancel[k].waited \in 0..Grace
        BY DEF CallTypes, CancelRecords
      <4>2. cancel[k].waited + 1 \in 0..Grace
        BY <3>1, <4>1, SubagentAssumption
      <4>. QED  BY <4>1, <4>2 DEF CancelRecords
    <3>. QED  BY <1>11, <3>1 DEF Tick, CallTypes
  <2>. QED  BY <1>11, <2>1, <2>2 DEF Tick, InstanceTypes, TaskTypes, QueueTypes, CallTypes
<1>12. CASE UNCHANGED vars
  BY <1>12 DEF vars, InstanceTypes, TaskTypes, QueueTypes, CallTypes
<1>. QED  BY <1>1, <1>2, <1>3, <1>4, <1>5, <1>6, <1>7, <1>8, <1>9, <1>10, <1>11, <1>12
             DEF Next, TaskStep, TurnStep
-----------------------------------------------------------------------------
(* What one step does to a subagent, a call, a channel and the manager.    *)

\* The task of one subagent and its status.
Stays(a)    == UNCHANGED <<task[a], status[a], tokens[a], current[a]>>
Spawned(a)  == /\ status[a] = "none" /\ status'[a] = "Running" /\ task'[a] = "start"
               /\ channel'[a] = IF Mode[a] = "session" THEN "open" ELSE "none"
               /\ a \in registered' /\ handle'[a] /\ UNCHANGED <<tokens[a], current[a]>>
Works(a)    == /\ AtWork(a) /\ AtWork(a)' /\ status'[a] = status[a]
               /\ tokens'[a] = tokens[a] \/ tokens'[a] <= MaxTokens
Records(a)  == AtWork(a) /\ task'[a] = "stamp" /\ Over(a)'
Answers(a)  == /\ task[a] = "stamp" /\ task'[a] = "replyError" /\ current[a] # NoCall
               /\ UNCHANGED <<status[a], tokens[a], current[a]>>
Ends(a)     == /\ Live(a) /\ status'[a] = status[a] /\ tokens'[a] = 0
               /\ task'[a] = "panicked" \/ (task'[a] = "ended" /\ (Over(a) \/ aborted[a]))
Recorded(a) == /\ status'[a] = "Cancelled" /\ UNCHANGED <<task[a], tokens[a], current[a]>>
               /\ \E k \in Cancellers : cancel[k].pc = "record" /\ cancel[k].agent = a
                                       /\ cancel'[k].pc = "stamp"
AgentMove(a) == Stays(a) \/ Spawned(a) \/ Works(a) \/ Records(a) \/ Answers(a) \/ Ends(a) \/ Recorded(a)

LEMMA AgentMoves ==
    ASSUME TypeOK, CallInv, TaskInv, [Next]_vars, NEW a \in Agents
    PROVE  AgentMove(a)
<1>. USE DEF instanceVars, taskVars
<1>. DEFINE idle == UNCHANGED <<task, status, tokens, current>>
<1>1. ASSUME idle PROVE Stays(a)
  BY <1>1 DEF Stays
<1>2. ASSUME NEW b \in Agents, Spawn(b) PROVE AgentMove(a)
  <2>1. CASE a = b
    BY <1>2, <2>1 DEF Spawn, Spawned, AgentMove, TypeOK
  <2>2. CASE a # b
    BY <1>2, <2>2 DEF Spawn, Stays, AgentMove, TypeOK
  <2>. QED  BY <2>1, <2>2
<1>3. ASSUME NEW b \in Agents,
             BeginTurn(b) \/ TurnTimesOut(b) \/ TurnFails(b) \/ ReceiveEnds(b) \/ Receive(b)
      PROVE  AgentMove(a)
  <2>1. CASE a = b
    BY <1>3, <2>1 DEF BeginTurn, TurnTimesOut, TurnFails, ReceiveEnds, Receive, At, Record, Works, Records,
                      AgentMove, AtWork, Over, Terminal, TypeOK
  <2>2. CASE a # b
    BY <1>3, <2>2 DEF BeginTurn, TurnTimesOut, TurnFails, ReceiveEnds, Receive, At, Record, Stays,
                      AgentMove, TypeOK
  <2>. QED  BY <2>1, <2>2
<1>4. ASSUME NEW b \in Agents, FirstTurnSucceeds(b) \/ TurnSucceeds(b) PROVE AgentMove(a)
  <2>1. CASE a = b
    BY <1>4, <2>1 DEF FirstTurnSucceeds, TurnSucceeds, At, Record, Works, Records, AgentMove, AtWork,
                      Over, Terminal, TypeOK
  <2>2. CASE a # b
    BY <1>4, <2>2 DEF FirstTurnSucceeds, TurnSucceeds, At, Record, Stays, AgentMove, TypeOK
  <2>. QED  BY <2>1, <2>2
<1>5. ASSUME NEW b \in Agents, Forget(b), status' = status, Live(b),
             At(b, "panicked") \/ (At(b, "ended") /\ (Over(b) \/ aborted[b]))
      PROVE  AgentMove(a)
  <2>1. CASE a = b
    BY <1>5, <2>1 DEF At, Forget, Ends, AgentMove, TypeOK
  <2>2. CASE a # b
    BY <1>5, <2>2 DEF At, Forget, Stays, AgentMove, TypeOK
  <2>. QED  BY <2>1, <2>2
<1>6. ASSUME NEW b \in Agents, TaskPanics(b) \/ TaskAborted(b) PROVE AgentMove(a)
  BY <1>5, <1>6 DEF TaskPanics, TaskAborted, End, Live
<1>7. ASSUME NEW b \in Agents, Stamp(b) PROVE AgentMove(a)
  <2>1. CASE End(b, "ended")
    <3>1. Over(b)
      BY <1>7 DEF Stamp, TaskInv
    <3>. QED  BY <1>5, <1>7, <2>1, <3>1 DEF Stamp, End, Live
  <2>2. CASE ~End(b, "ended")
    BY <1>7, <2>2 DEF Stamp, At, Answers, Stays, AgentMove, TypeOK
  <2>. QED  BY <2>1, <2>2
<1>8. ASSUME NEW b \in Agents, Reply(b) PROVE AgentMove(a)
  <2>1. CASE Over(b)
    BY <1>5, <1>8, <2>1 DEF Reply, Over, Live
  <2>2. CASE ~Over(b)
    <3>1. task[b] = "replyOk" /\ At(b, "receive") /\ current' = [current EXCEPT ![b] = NoCall]
          /\ UNCHANGED <<tokens, status>>
      BY <1>8, <2>2 DEF Reply, Over, TaskInv
    <3>. QED  BY <3>1 DEF At, Works, Stays, AgentMove, AtWork, TypeOK
  <2>. QED  BY <2>1, <2>2
<1>9. ASSUME NEW k \in Cancellers, CancelRecord(k) PROVE AgentMove(a)
  <2>1. cancel'[k].pc = "stamp"
    BY <1>9 DEF CancelRecord, Step, TypeOK
  <2>2. cancel[k].agent \in Agents
    BY <1>9 DEF CancelRecord, CallInv
  <2>3. CASE a = cancel[k].agent
    BY <1>9, <2>1, <2>3 DEF CancelRecord, Record, Recorded, AgentMove, TypeOK
  <2>4. CASE a # cancel[k].agent
    BY <1>9, <2>4 DEF CancelRecord, Record, Stays, AgentMove, TypeOK
  <2>. QED  BY <2>3, <2>4
<1>10. ASSUME NEW k \in Cancellers, CancelStep(k) \/ CancelDropped(k), ~CancelRecord(k) PROVE idle
  BY <1>10 DEF CancelStep, CancelSignal, CancelClose, CancelTake, CancelJoined, CancelAbort, CancelFinish,
               CancelStamp, CancelDropped
<1>11. CASE \/ \E S \in SUBSET Agents : GcCollect(S)
            \/ GcRemove \/ Tick \/ UNCHANGED vars
            \/ \E x \in Senders : Enqueue(x) \/ \E b \in Agents : SendTo(x, b)
            \/ \E k \in Cancellers, b \in Agents : CancelStart(k, b)
  <2>1. idle
    BY <1>11 DEF GcCollect, GcRemove, Tick, vars, Enqueue, SendTo, CancelStart
  <2>. QED  BY <1>1, <2>1 DEF AgentMove
<1>. HIDE DEF idle
<1>. QED  BY <1>1, <1>2, <1>3, <1>4, <1>6, <1>7, <1>8, <1>9, <1>10, <1>11
             DEF Next, TaskStep, TurnStep, CancelStep, AgentMove

\* A call of send.
Sent(x)     == /\ send[x].pc = "idle" /\ send'[x].pc # "idle" /\ send'[x].reply # "error"
               /\ send'[x].agent \in registered
               /\ send'[x].reply = "closed" => channel[send'[x].agent] # "open"
Answered(x) == /\ send[x].pc # "idle" /\ send'[x].pc # "idle" /\ send'[x].agent = send[x].agent
               /\ send'[x].reply = "error" =>
                    send[x].reply = "error"
                    \/ \E a \in Agents : task[a] = "replyError" /\ x = current[a]
               /\ send'[x].reply = "closed" => send[x].reply = "closed" \/ ~Live(send[x].agent)'
SendMove(x) == send'[x] = send[x] \/ Sent(x) \/ Answered(x)

LEMMA SendMoves ==
    ASSUME TypeOK, CallInv, [Next]_vars, NEW x \in Senders
    PROVE  SendMove(x)
<1>. USE DEF instanceVars, taskVars
<1>0. send[x] \in SendRecords
  BY TypeParts DEF CallTypes
<1>1. ASSUME NEW a \in Agents, NEW how \in {"ended", "panicked"}, End(a, how) PROVE SendMove(x)
  <2>. DEFINE shut == [send[x] EXCEPT !.pc = "done", !.reply = "closed"]
  <2>1. shut.pc = "done" /\ shut.agent = send[x].agent /\ shut.reply = "closed"
    BY <1>0 DEF SendRecords
  <2>2. \/ send'[x] = send[x]
        \/ send[x].pc = "await" /\ send[x].agent = a /\ send'[x] = shut
    BY <1>1 DEF End
  <2>3. ~Live(a)'
    BY <1>1 DEF End, At, Live, TypeOK
  <2>. HIDE DEF shut
  <2>. QED  BY <2>1, <2>2, <2>3 DEF SendMove, Answered, Live
<1>2. ASSUME NEW a \in Agents, Reply(a) PROVE SendMove(x)
  <2>1. CASE send[x].pc = "idle"
    <3>1. x # current[a]
      <4>1. x # NoCall
        BY SubagentAssumption DEF Senders, NoCall
      <4>2. send[x].agent = "none"
        BY <2>1 DEF CallInv
      <4>. QED  BY <4>1, <4>2, SubagentAssumption DEF CallInv
    <3>. QED
      BY <1>2, <2>1, <3>1 DEF Reply, SendMove, TypeOK
  <2>2. CASE send[x].pc # "idle"
    <3>1. task'[a] = "ended" => ~Live(a)'
      BY DEF Live
    <3>. QED  BY <1>2, <2>2, <3>1, ReplyType DEF SendMove, Answered, Live
  <2>. QED  BY <2>1, <2>2
<1>3. ASSUME NEW y \in Senders, Enqueue(y) PROVE SendMove(x)
  <2>1. \/ send' = [send EXCEPT ![y].pc = "done", ![y].reply = "closed"]
        \/ send' = [send EXCEPT ![y].pc = "await"]
    BY <1>3 DEF Enqueue
  <2>2. send[y].pc = "enqueue"
    BY <1>3 DEF Enqueue
  <2>3. CASE x = y
    BY <1>0, <2>1, <2>2, <2>3 DEF SendMove, Answered, TypeOK, SendRecords
  <2>4. CASE x # y
    BY <2>1, <2>4 DEF SendMove, TypeOK
  <2>. QED  BY <2>3, <2>4
<1>4. ASSUME NEW y \in Senders, NEW a \in Agents, SendTo(y, a) PROVE SendMove(x)
  BY <1>4 DEF SendTo, SendMove, Sent, TypeOK
<1>5. CASE UNCHANGED send
  BY <1>5 DEF SendMove
<1>6. ASSUME NEW a \in Agents, Stamp(a) PROVE SendMove(x)
  BY <1>1, <1>5, <1>6 DEF Stamp
<1>7. ASSUME NEW a \in Agents, TaskPanics(a) \/ TaskAborted(a) PROVE SendMove(x)
  BY <1>1, <1>7 DEF TaskPanics, TaskAborted
<1>8. ASSUME NEW a \in Agents,
             Spawn(a) \/ BeginTurn(a) \/ TurnTimesOut(a) \/ Receive(a) \/ ReceiveEnds(a)
               \/ FirstTurnSucceeds(a) \/ TurnSucceeds(a) \/ TurnFails(a)
      PROVE  UNCHANGED send
  BY <1>8 DEF Spawn, BeginTurn, TurnTimesOut, Receive, ReceiveEnds, FirstTurnSucceeds, TurnSucceeds, TurnFails
<1>9. ASSUME NEW k \in Cancellers, CancelStep(k) \/ CancelDropped(k) \/ \E a \in Agents : CancelStart(k, a)
      PROVE  UNCHANGED send
  BY <1>9 DEF CancelStep, CancelSignal, CancelClose, CancelTake, CancelJoined, CancelAbort, CancelFinish,
              CancelRecord, CancelStamp, CancelDropped, CancelStart
<1>10. CASE (\E S \in SUBSET Agents : GcCollect(S)) \/ GcRemove \/ Tick \/ UNCHANGED vars
  BY <1>5, <1>10 DEF GcCollect, GcRemove, Tick, vars
<1>. QED  BY <1>2, <1>3, <1>4, <1>5, <1>6, <1>7, <1>8, <1>9, <1>10 DEF Next, TaskStep, TurnStep

\* A call of cancel; what it finds does not change under its own step.
Waits(k)  == cancel'[k].pc = cancel[k].pc /\ cancel'[k].agent = cancel[k].agent
Called(k) == /\ cancel[k].pc = "idle" /\ cancel'[k].agent \in registered
             /\ status' = status
             /\ \/ cancel'[k].pc = "signal"
                \/ cancel'[k].pc = "done" /\ Over(cancel'[k].agent)
Goes(k, a) ==
    /\ cancel'[k].agent = a
    /\ \/ cancel[k].pc = "signal" /\ cancel'[k].pc = "close"
       \/ cancel[k].pc = "close" /\ cancel'[k].pc = "take"
       \/ cancel[k].pc = "take" /\ cancel'[k].pc = "wait"
       \/ cancel[k].pc = "take" /\ ~handle[a] /\ cancel'[k].pc = "finish"
       \/ cancel[k].pc \in {"wait", "join"} /\ ~Live(a) /\ cancel'[k].pc = "finish"
       \/ cancel[k].pc \in {"wait", "join"} /\ cancel'[k].pc \in {"join", "gone"}
       \/ cancel[k].pc = "finish" /\ Over(a) /\ cancel'[k].pc = "done"
       \/ cancel[k].pc = "finish" /\ ~Over(a) /\ cancel'[k].pc = "record" /\ status' = status
       \/ cancel[k].pc = "record" /\ cancel'[k].pc = "stamp" /\ Over(a)'
       \/ cancel[k].pc = "stamp" /\ cancel'[k].pc = "done"
CancelMove(k) == Waits(k) \/ Called(k) \/ Goes(k, cancel[k].agent)

LEMMA CancelMoves ==
    ASSUME TypeOK, CallInv, [Next]_vars, NEW k \in Cancellers
    PROVE  CancelMove(k)
<1>. USE DEF instanceVars, taskVars
<1>0. cancel \in [Cancellers -> CancelRecords]
  BY TypeParts DEF CallTypes
<1>. DEFINE a == cancel[k].agent
<1>1. \A l : Step(k, l) \/ Leave(k, l) => cancel'[k].pc = l /\ cancel'[k].agent = a
  BY <1>0 DEF Step, Leave, CancelRecords
<1>2. cancel[k].pc # "idle" => a \in Agents
  BY DEF CallInv
<1>3. CASE CancelSignal(k) \/ CancelClose(k) \/ CancelTake(k) \/ CancelStamp(k)
  BY <1>1, <1>3 DEF CancelSignal, CancelClose, CancelTake, CancelStamp, CancelMove, Goes
<1>4. CASE CancelJoined(k) \/ CancelAbort(k) \/ CancelDropped(k)
  BY <1>1, <1>4 DEF CancelJoined, CancelAbort, CancelDropped, CancelMove, Goes
<1>5. CASE CancelFinish(k)
  BY <1>1, <1>5 DEF CancelFinish, CancelMove, Goes, Over
<1>6. CASE CancelRecord(k)
  <2>1. Over(a)'
    BY <1>1, <1>2, <1>6 DEF CancelRecord, Record, Over, Terminal, TypeOK
  <2>. QED  BY <1>1, <1>6, <2>1 DEF CancelRecord, CancelMove, Goes
<1>7. ASSUME NEW b \in Agents, CancelStart(k, b) PROVE CancelMove(k)
  BY <1>0, <1>7 DEF CancelStart, CancelMove, Called, Over
<1>8. ASSUME NEW j \in Cancellers \ {k}, CancelStep(j) \/ CancelDropped(j) \/ \E b \in Agents : CancelStart(j, b)
      PROVE  CancelMove(k)
  BY <1>8, CancelType DEF CancelMove, Waits
<1>9. CASE Tick
  <2>1. cancel'[k] = cancel[k] \/ cancel'[k] = [cancel[k] EXCEPT !.waited = @ + 1]
    BY <1>9 DEF Tick
  <2>. QED  BY <1>0, <2>1 DEF CancelMove, Waits, CancelRecords
<1>10. CASE UNCHANGED cancel
  BY <1>10 DEF CancelMove, Waits
<1>11. ASSUME NEW b \in Agents, Spawn(b) \/ TaskStep(b) \/ TurnStep(b) PROVE UNCHANGED cancel
  BY <1>11 DEF Spawn, TaskStep, TurnStep, BeginTurn, TurnTimesOut, TaskAborted, Receive, ReceiveEnds, Stamp,
               Reply, FirstTurnSucceeds, TurnSucceeds, TurnFails, TaskPanics
<1>12. CASE \/ \E S \in SUBSET Agents : GcCollect(S)
            \/ GcRemove \/ UNCHANGED vars
            \/ \E x \in Senders : Enqueue(x) \/ \E b \in Agents : SendTo(x, b)
  BY <1>10, <1>12 DEF GcCollect, GcRemove, vars, Enqueue, SendTo
<1>. QED  BY <1>3, <1>4, <1>5, <1>6, <1>7, <1>8, <1>9, <1>10, <1>11, <1>12 DEF Next, CancelStep

\* The channel of a subagent and the command its task serves.
QueueMove(a) == \/ queue'[a] \in {queue[a], Tail(queue[a]), <<>>}
                \/ \E x \in Senders : /\ send[x].pc # "idle" /\ send[x].agent = a
                                      /\ queue'[a] = Append(queue[a], x)
CurrentMove(a) == current'[a] \in {current[a], NoCall} \/ (queue[a] # <<>> /\ current'[a] = Head(queue[a]))

LEMMA ChannelMoves ==
    ASSUME TypeOK, [Next]_vars, NEW a \in Agents
    PROVE  QueueMove(a) /\ CurrentMove(a)
<1>. USE DEF instanceVars, taskVars
<1>1. ASSUME NEW b \in Agents, Forget(b) PROVE QueueMove(a) /\ CurrentMove(a)
  BY <1>1 DEF Forget, QueueMove, CurrentMove, TypeOK
<1>2. ASSUME NEW b \in Agents, Receive(b) PROVE QueueMove(a) /\ CurrentMove(a)
  BY <1>2 DEF Receive, QueueMove, CurrentMove, TypeOK
<1>3. ASSUME NEW x \in Senders, Enqueue(x) PROVE QueueMove(a) /\ CurrentMove(a)
  BY <1>3, ZenonT(40) DEF Enqueue, QueueMove, CurrentMove, TypeOK
<1>4. CASE UNCHANGED <<queue, current>>
  BY <1>4 DEF QueueMove, CurrentMove
<1>5. ASSUME NEW b \in Agents, Reply(b) PROVE QueueMove(a) /\ CurrentMove(a)
  <2>1. CASE Forget(b)
    BY <1>1, <2>1
  <2>2. CASE current' = [current EXCEPT ![b] = NoCall] /\ UNCHANGED queue
    BY <2>2 DEF QueueMove, CurrentMove, TypeOK
  <2>. QED  BY <1>5, <2>1, <2>2 DEF Reply
<1>6. ASSUME NEW b \in Agents, TaskPanics(b) \/ TaskAborted(b) \/ Stamp(b)
      PROVE  (\E c \in Agents : Forget(c)) \/ UNCHANGED <<queue, current>>
  BY <1>6 DEF TaskPanics, TaskAborted, Stamp, End
<1>7. ASSUME NEW b \in Agents,
             Spawn(b) \/ BeginTurn(b) \/ TurnTimesOut(b) \/ ReceiveEnds(b)
               \/ FirstTurnSucceeds(b) \/ TurnSucceeds(b) \/ TurnFails(b)
      PROVE  UNCHANGED <<queue, current>>
  BY <1>7 DEF Spawn, BeginTurn, TurnTimesOut, ReceiveEnds, FirstTurnSucceeds, TurnSucceeds, TurnFails
<1>8. ASSUME NEW k \in Cancellers, CancelStep(k) \/ CancelDropped(k) \/ \E b \in Agents : CancelStart(k, b)
      PROVE  UNCHANGED <<queue, current>>
  BY <1>8 DEF CancelStep, CancelSignal, CancelClose, CancelTake, CancelJoined, CancelAbort, CancelFinish,
              CancelRecord, CancelStamp, CancelDropped, CancelStart
<1>9. CASE \/ \E S \in SUBSET Agents : GcCollect(S)
           \/ GcRemove \/ Tick \/ UNCHANGED vars
           \/ \E x \in Senders, b \in Agents : SendTo(x, b)
  BY <1>4, <1>9 DEF GcCollect, GcRemove, Tick, vars, SendTo
<1>. QED  BY <1>1, <1>2, <1>3, <1>4, <1>5, <1>6, <1>7, <1>8, <1>9 DEF Next, TaskStep, TurnStep

\* The manager, the finishing times and the handles.
ManagerMove ==
    \/ UNCHANGED <<registered, collected>>
    \/ UNCHANGED collected /\ \E a \in Agents : Spawn(a) /\ registered' = registered \cup {a}
    \/ UNCHANGED <<registered, status, finished>> /\ collected' \subseteq Eligible
    \/ registered' = registered \ collected /\ collected' = {} /\ UNCHANGED status
HandleMove(a) ==
    /\ finished[a] => finished'[a]
    /\ handle'[a] # handle[a] =>
          \/ status[a] = "none" /\ status'[a] # "none"
          \/ \E k \in Cancellers : cancel[k].pc = "take" /\ cancel'[k].pc \in {"wait", "finish"}
                                 /\ cancel'[k].agent = a

LEMMA ManagerMoves ==
    ASSUME TypeOK, CallInv, [Next]_vars
    PROVE  ManagerMove /\ \A a \in Agents : HandleMove(a)
<1>. USE DEF instanceVars, taskVars
<1>1. ASSUME NEW b \in Agents, Spawn(b) PROVE ManagerMove /\ \A a \in Agents : HandleMove(a)
  BY <1>1 DEF Spawn, ManagerMove, HandleMove, TypeOK
<1>2. ASSUME NEW b \in Agents, TaskStep(b) \/ TurnStep(b)
      PROVE  /\ UNCHANGED <<registered, collected, handle>>
             /\ UNCHANGED finished \/ finished' = [finished EXCEPT ![b] = TRUE]
  BY <1>2 DEF TaskStep, TurnStep, BeginTurn, TurnTimesOut, TaskAborted, Receive, ReceiveEnds, Stamp, Reply,
              FirstTurnSucceeds, TurnSucceeds, TurnFails, TaskPanics
<1>3. ASSUME NEW b \in Agents, TaskStep(b) \/ TurnStep(b) PROVE ManagerMove /\ \A a \in Agents : HandleMove(a)
  BY <1>2, <1>3 DEF ManagerMove, HandleMove, TypeOK
<1>4. ASSUME NEW S \in SUBSET Agents, GcCollect(S) PROVE ManagerMove /\ \A a \in Agents : HandleMove(a)
  BY <1>4 DEF GcCollect, ManagerMove, HandleMove
<1>5. CASE GcRemove
  BY <1>5 DEF GcRemove, ManagerMove, HandleMove
<1>6. ASSUME NEW k \in Cancellers, CancelTake(k) PROVE ManagerMove /\ \A a \in Agents : HandleMove(a)
  <2>1. cancel'[k].pc \in {"wait", "finish"} /\ cancel'[k].agent = cancel[k].agent
    BY <1>6 DEF CancelTake, Step, TypeOK
  <2>. QED  BY <1>6, <2>1 DEF CancelTake, ManagerMove, HandleMove, TypeOK
<1>7. ASSUME NEW k \in Cancellers, CancelStamp(k) PROVE ManagerMove /\ \A a \in Agents : HandleMove(a)
  BY <1>7 DEF CancelStamp, ManagerMove, HandleMove, TypeOK
<1>8. CASE UNCHANGED <<registered, collected, finished, handle>>
  BY <1>8 DEF ManagerMove, HandleMove
<1>9. ASSUME NEW k \in Cancellers, CancelStep(k) \/ CancelDropped(k) \/ \E b \in Agents : CancelStart(k, b),
             ~CancelTake(k), ~CancelStamp(k)
      PROVE  UNCHANGED <<registered, collected, finished, handle>>
  BY <1>9 DEF CancelStep, CancelSignal, CancelClose, CancelJoined, CancelAbort, CancelFinish,
              CancelRecord, CancelDropped, CancelStart
<1>10. CASE \/ Tick \/ UNCHANGED vars
            \/ \E x \in Senders : Enqueue(x) \/ \E b \in Agents : SendTo(x, b)
  BY <1>8, <1>10 DEF Tick, vars, Enqueue, SendTo
<1>. QED  BY <1>1, <1>3, <1>4, <1>5, <1>6, <1>7, <1>8, <1>9, <1>10 DEF Next
-----------------------------------------------------------------------------
(* The invariant is inductive.                                             *)

Moves ==
    /\ \A a \in Agents : AgentMove(a) /\ QueueMove(a) /\ CurrentMove(a) /\ HandleMove(a)
    /\ \A x \in Senders : SendMove(x)
    /\ \A k \in Cancellers : CancelMove(k)
    /\ ManagerMove

LEMMA StepMoves == IInv /\ [Next]_vars => Moves
BY AgentMoves, SendMoves, CancelMoves, ChannelMoves, ManagerMoves DEF IInv, Moves

\* A subagent stays spawned and over, a call stays with its subagent, and who is cancelled
\* twice stays so.
LEMMA Lasting ==
    ASSUME TypeOK, CallInv, TaskInv, Moves
    PROVE  /\ \A a \in Agents : status[a] # "none" => status'[a] # "none"
           /\ \A a \in Agents : Over(a) => Over(a)'
           /\ \A a \in Agents : Once(a)' => Once(a)
           /\ \A k \in Cancellers : cancel[k].pc # "idle" =>
                 cancel'[k].pc # "idle" /\ cancel'[k].agent = cancel[k].agent
<1>1. ASSUME NEW a \in Agents
      PROVE  (status[a] # "none" => status'[a] # "none") /\ (Over(a) => Over(a)')
  <2>1. AgentMove(a)
    BY DEF Moves
  <2>. QED  BY <2>1 DEF AgentMove, Stays, Spawned, Works, Records, Answers, Ends, Recorded, Over, Terminal
<1>2. ASSUME NEW k \in Cancellers, cancel[k].pc # "idle"
      PROVE  cancel'[k].pc # "idle" /\ cancel'[k].agent = cancel[k].agent
  BY <1>2 DEF Moves, CancelMove, Waits, Called, Goes
<1>3. ASSUME NEW a \in Agents, Once(a)' PROVE Once(a)
  <2>1. \A k \in Cancellers : cancel[k].agent = a => cancel'[k].agent = a
    BY <1>2, SubagentAssumption DEF CallInv
  <2>. QED  BY <1>3, <2>1 DEF Once
<1>. QED  BY <1>1, <1>2, <1>3

LEMMA CallNext == ASSUME TypeOK, CallInv, TaskInv, Moves PROVE CallInv'
<1>1. ASSUME NEW a \in Agents, a \in registered PROVE status[a] # "none" /\ status'[a] # "none"
  BY <1>1, Lasting DEF TaskInv
<1>2. registered \subseteq Agents
  BY DEF TypeOK
<1>3. ASSUME NEW x \in Senders
      PROVE  /\ send'[x].pc = "idle" => send'[x].agent = "none" /\ send'[x].reply = "none"
             /\ send'[x].pc # "idle" => send'[x].agent \in Agents /\ status'[send'[x].agent] # "none"
             /\ send[x].pc # "idle" => send'[x].agent = send[x].agent
  <2>1. SendMove(x)
    BY DEF Moves
  <2>2. CASE send'[x] = send[x] \/ Answered(x)
    BY <2>2, Lasting DEF CallInv, Answered
  <2>3. CASE Sent(x)
    BY <2>3, <1>1, <1>2 DEF Sent
  <2>. QED  BY <2>1, <2>2, <2>3 DEF SendMove
<1>4. ASSUME NEW k \in Cancellers
      PROVE  /\ cancel'[k].pc = "idle" => cancel'[k].agent = "none"
             /\ cancel'[k].pc # "idle" => cancel'[k].agent \in Agents /\ status'[cancel'[k].agent] # "none"
  <2>1. CancelMove(k)
    BY DEF Moves
  <2>2. CASE cancel[k].pc # "idle"
    BY <2>2, Lasting DEF CallInv
  <2>3. CASE cancel[k].pc = "idle" /\ Waits(k)
    BY <2>3 DEF CallInv, Waits
  <2>4. CASE Called(k)
    BY <2>4, <1>1, <1>2 DEF Called
  <2>. QED  BY <2>1, <2>2, <2>3, <2>4 DEF CancelMove, Goes
<1>5. ASSUME NEW x \in Senders, NEW a \in Agents, send[x].agent = a PROVE send'[x].agent = a
  BY <1>3, <1>5, SubagentAssumption DEF CallInv
<1>6. ASSUME NEW a \in Agents
      PROVE  /\ \A i \in 1..Len(queue[a]) : queue[a][i] \in Senders /\ send'[queue[a][i]].agent = a
             /\ queue[a] \in Seq(Senders)
  <2>1. queue[a] \in Seq(Senders)
    BY DEF TypeOK
  <2>2. ASSUME NEW i \in 1..Len(queue[a]) PROVE queue[a][i] \in Senders
    BY <2>1
  <2>. QED  BY <1>5, <2>1, <2>2 DEF CallInv
<1>7. ASSUME NEW a \in Agents, current'[a] # NoCall PROVE send'[current'[a]].agent = a
  <2>1. CASE current'[a] = current[a]
    <3>1. current[a] \in Senders
      BY <1>7, <2>1 DEF TypeOK
    <3>. QED  BY <1>5, <1>7, <2>1, <3>1 DEF CallInv
  <2>2. CASE queue[a] # <<>> /\ current'[a] = Head(queue[a])
    <3>1. 1 \in 1..Len(queue[a]) /\ Head(queue[a]) = queue[a][1]
      BY <1>6, <2>2
    <3>. QED  BY <1>6, <2>2, <3>1
  <2>. QED  BY <1>7, <2>1, <2>2 DEF Moves, CurrentMove
<1>8. ASSUME NEW a \in Agents, NEW i \in 1..Len(queue'[a]) PROVE send'[queue'[a][i]].agent = a
  <2>. DEFINE q == queue[a]
  <2>0. q \in Seq(Senders)
    BY <1>6
  <2>1. CASE queue'[a] = q
    BY <1>6, <2>1
  <2>2. CASE queue'[a] = <<>>
    BY <2>2
  <2>3. CASE queue'[a] = Tail(q) /\ q # <<>>
    <3>1. i + 1 \in 1..Len(q) /\ Tail(q)[i] = q[i + 1]
      BY <2>0, <2>3
    <3>. QED  BY <1>6, <2>3, <3>1
  <2>4. ASSUME NEW x \in Senders, send[x].agent = a, queue'[a] = Append(q, x)
        PROVE  send'[queue'[a][i]].agent = a
    <3>1. (i \in 1..Len(q) /\ queue'[a][i] = q[i]) \/ queue'[a][i] = x
      BY <2>0, <2>4
    <3>. QED  BY <1>5, <1>6, <2>4, <3>1
  <2>. HIDE DEF q
  <2>5. q = <<>> => Tail(q) = <<>>
    OBVIOUS
  <2>6. QueueMove(a)
    BY DEF Moves
  <2>. QED  BY <2>1, <2>2, <2>3, <2>4, <2>5, <2>6 DEF QueueMove, q
<1>. QED  BY <1>3, <1>4, <1>7, <1>8 DEF CallInv

LEMMA TaskNext == ASSUME TypeOK, TypeOK', CallInv, TaskInv, CancelInv, Moves PROVE TaskInv'
<1>1. ASSUME NEW a \in Agents, status'[a] = "none"
      PROVE  task'[a] = "none" /\ ~handle'[a] /\ a \notin registered' /\ tokens'[a] = 0
  <2>1. status[a] = "none" /\ task[a] = "none" /\ ~handle[a] /\ a \notin registered /\ tokens[a] = 0
    BY <1>1, Lasting DEF TaskInv
  <2>2. Stays(a)
    BY <1>1, <2>1 DEF Moves, AgentMove, Spawned, Works, Records, Answers, Ends, Recorded, AtWork, Live, Over,
                      Terminal
  <2>3. a \notin registered'
    <3>1. ~Spawn(a)
      BY <1>1, <2>1 DEF Spawn, TypeOK
    <3>2. ASSUME NEW b \in Agents, Spawn(b), registered' = registered \cup {b} PROVE a \notin registered'
      BY <2>1, <3>1, <3>2
    <3>. QED  BY <2>1, <3>2 DEF Moves, ManagerMove
  <2>4. ~handle'[a]
    <3>1. \A k \in Cancellers : cancel[k].pc = "take" => cancel[k].agent # a /\ cancel'[k].agent # a
      BY <2>1, Lasting DEF CallInv
    <3>2. HandleMove(a)
      BY DEF Moves
    <3>3. handle'[a] = handle[a]
      BY <1>1, <2>1, <3>1, <3>2 DEF HandleMove
    <3>. QED  BY <2>1, <3>3
  <2>. QED  BY <2>1, <2>2, <2>3, <2>4 DEF Stays
<1>2. ASSUME NEW a \in Agents
      PROVE  /\ task'[a] \in {"stamp", "replyError"} => Over(a)'
             /\ task'[a] = "replyError" => current'[a] # NoCall
             /\ tokens'[a] > MaxTokens => ~AtWork(a)'
             /\ AtWork(a)' /\ Once(a)' => ~Over(a)'
  <2>1. AgentMove(a)
    BY DEF Moves
  <2>2. CASE Stays(a)
    BY <2>2, Lasting DEF Stays, TaskInv, AtWork, Over
  <2>3. CASE Spawned(a)
    BY <2>3, SubagentAssumption DEF Spawned, TaskInv, AtWork, Over, Terminal
  <2>4. CASE Works(a)
    <3>1. tokens'[a] > MaxTokens => FALSE
      <4>1. tokens[a] \in Nat /\ ~(tokens[a] > MaxTokens)
        BY <2>4 DEF Works, TaskInv, TypeOK
      <4>2. CASE tokens'[a] = tokens[a]
        BY <4>1, <4>2
      <4>3. CASE tokens'[a] <= MaxTokens /\ tokens'[a] \in Nat
        BY <4>3, SubagentAssumption
      <4>4. tokens'[a] \in Nat
        BY DEF TypeOK
      <4>. QED  BY <4>2, <4>3, <4>4, <2>4 DEF Works
    <3>. QED  BY <2>4, <3>1, Lasting DEF Works, TaskInv, AtWork, Over
  <2>5. CASE Records(a)
    BY <2>5 DEF Records, AtWork
  <2>6. CASE Answers(a)
    BY <2>6 DEF Answers, TaskInv, AtWork, Over
  <2>7. CASE Ends(a)
    BY <2>7, SubagentAssumption DEF Ends, AtWork
  <2>8. CASE Recorded(a)
    <3>1. PICK k \in Cancellers : cancel[k].pc = "record" /\ cancel[k].agent = a
      BY <2>8 DEF Recorded
    <3>2. AtWork(a) /\ Once(a) => FALSE
      BY <3>1 DEF CancelInv, AtWork, Live
    <3>. QED  BY <2>8, <3>2, Lasting DEF Recorded, TaskInv, AtWork, Over, Terminal
  <2>. QED  BY <2>1, <2>2, <2>3, <2>4, <2>5, <2>6, <2>7, <2>8 DEF AgentMove
<1>3. ASSUME NEW x \in Senders, send'[x].reply = "error" PROVE Over(send[x].agent)'
  <2>1. SendMove(x)
    BY DEF Moves
  <2>2. CASE send[x].reply = "error" /\ send'[x].agent = send[x].agent
    <3>1. send[x].agent \in Agents /\ Over(send[x].agent)
      BY <2>2 DEF CallInv, TaskInv
    <3>. QED  BY <2>2, <3>1, Lasting DEF Over
  <2>3. ASSUME NEW a \in Agents, task[a] = "replyError", x = current[a], send'[x].agent = send[x].agent
        PROVE  Over(send[x].agent)'
    <3>1. send'[x].agent = a /\ Over(a)
      BY <2>3 DEF TaskInv, CallInv
    <3>. QED  BY <3>1, Lasting DEF Over
  <2>. QED  BY <1>3, <2>1, <2>2, <2>3 DEF SendMove, Sent, Answered
<1>. QED  BY <1>1, <1>2, <1>3 DEF TaskInv

LEMMA GcNext == ASSUME TypeOK, CallInv, TaskInv, GcInv, Moves PROVE GcInv'
<1>. SUFFICES ASSUME NEW a \in Agents,
                     a \in collected' \/ (status'[a] # "none" /\ a \notin registered')
              PROVE  finished'[a] /\ Over(a)'
  BY DEF GcInv
<1>1. HandleMove(a) /\ (Over(a) => Over(a)')
  BY Lasting DEF Moves
<1>2. CASE finished[a] /\ Over(a)
  BY <1>1, <1>2 DEF HandleMove
<1>3. ASSUME status[a] = "none", status'[a] # "none" PROVE a \in registered'
  <2>1. ~Recorded(a)
    BY <1>3, SubagentAssumption DEF Recorded, CallInv
  <2>. QED  BY <1>3, <2>1 DEF Moves, AgentMove, Stays, Spawned, Works, Records, Answers, Ends, TaskInv, AtWork, Live
<1>4. a \in collected => finished[a] /\ Over(a)
  BY DEF GcInv
<1>5. status[a] # "none" /\ a \notin registered => finished[a] /\ Over(a)
  BY DEF GcInv
<1>6. CASE UNCHANGED <<registered, collected>>
  BY <1>2, <1>3, <1>4, <1>5, <1>6
<1>7. ASSUME NEW b \in Agents, UNCHANGED collected, registered' = registered \cup {b}
      PROVE  finished'[a] /\ Over(a)'
  BY <1>2, <1>3, <1>4, <1>5, <1>7
<1>8. CASE UNCHANGED <<registered, status, finished>> /\ collected' \subseteq Eligible
  BY <1>2, <1>5, <1>8 DEF Eligible, Over
<1>9. CASE registered' = registered \ collected /\ collected' = {} /\ UNCHANGED status
  BY <1>2, <1>4, <1>5, <1>9
<1>. QED  BY <1>6, <1>7, <1>8, <1>9 DEF Moves, ManagerMove

LEMMA CancelNext == ASSUME TypeOK, CallInv, TaskInv, CancelInv, Moves PROVE CancelInv'
<1>1. ASSUME NEW k \in Cancellers, NEW a \in Agents, cancel[k].pc # "idle", cancel[k].agent = a, ~Live(a)
      PROVE  ~Live(a)'
  <2>1. status[a] # "none" /\ AgentMove(a)
    BY <1>1 DEF CallInv, Moves
  <2>. QED  BY <1>1, <2>1 DEF AgentMove, Stays, Spawned, Works, Records, Answers, Ends, Recorded, AtWork, Live
<1>2. ASSUME NEW k \in Cancellers
      PROVE  /\ cancel'[k].pc \in {"finish", "record", "stamp"} /\ Once(cancel[k].agent)' => ~Live(cancel[k].agent)'
             /\ cancel'[k].pc = "record" /\ Once(cancel[k].agent)' => ~Over(cancel[k].agent)'
             /\ cancel'[k].pc \in {"stamp", "done"} => Over(cancel[k].agent)'
  <2>0. CancelMove(k)
    BY DEF Moves
  <2>1. CASE cancel[k].pc = "idle" /\ Waits(k)
    BY <2>1 DEF Waits
  <2>2. CASE Called(k)
    <3>1. cancel'[k].pc # "idle" /\ cancel'[k].agent \in Agents
      BY <2>2 DEF Called, TypeOK
    <3>2. cancel'[k].pc = "done" => Over(cancel[k].agent)'
      BY <2>2 DEF Called, Over
    <3>. QED  BY <2>2, <3>2 DEF Called
  <2>3. CASE cancel[k].pc # "idle" /\ (Waits(k) \/ Goes(k, cancel[k].agent))
    <3>0. PICK a \in Agents : cancel[k].agent = a
      BY <2>3 DEF CallInv
    <3>1. status[a] # "none" /\ cancel'[k].agent = a
      BY <2>3, <3>0, Lasting DEF CallInv
    <3>2. Once(a)' => Once(a)
      BY <3>1, Lasting
    <3>3. Over(a) => Over(a)'
      BY <3>1, Lasting
    <3>4. ~Live(a) => ~Live(a)'
      BY <1>1, <2>3, <3>0
    <3>5. ASSUME cancel'[k].pc \in {"finish", "record", "stamp"}, Once(a) PROVE ~Live(a)
      <4>1. CASE cancel[k].pc \in {"finish", "record", "stamp"}
        BY <3>0, <3>5, <4>1 DEF CancelInv
      <4>2. CASE cancel[k].pc = "take" /\ ~handle[a]
        <5>1. PICK j \in Cancellers : cancel[j].agent = a /\ cancel[j].pc # "take"
          BY <3>0, <3>1, <4>2 DEF CancelInv
        <5>. QED  BY <3>0, <3>5, <4>2, <5>1 DEF Once
      <4>. QED  BY <3>0, <2>3, <3>5, <4>1, <4>2 DEF Waits, Goes
    <3>6. ASSUME cancel'[k].pc = "record", Once(a) PROVE ~Over(a)'
      <4>1. CASE cancel[k].pc = "record"
        <5>1. ~Over(a) /\ ~Live(a)
          BY <3>0, <3>6, <4>1 DEF CancelInv
        <5>2. ~Recorded(a)
          BY <3>0, <3>6, <4>1 DEF Recorded, Once
        <5>3. status'[a] = status[a]
          BY <3>1, <5>1, <5>2 DEF Moves, AgentMove, Stays, Spawned, Works, Records, Answers, Ends, AtWork, Live
        <5>. QED  BY <5>1, <5>3 DEF Over
      <4>2. CASE ~Over(a) /\ status' = status
        BY <4>2 DEF Over
      <4>. QED  BY <3>0, <2>3, <3>6, <4>1, <4>2 DEF Waits, Goes
    <3>7. ASSUME cancel'[k].pc \in {"stamp", "done"} PROVE Over(a)'
      <4>1. CASE cancel[k].pc \in {"stamp", "done"}
        BY <3>0, <3>3, <4>1 DEF CancelInv
      <4>. QED  BY <3>0, <2>3, <3>3, <3>7, <4>1 DEF Waits, Goes
    <3>8. Once(a)' = Once(cancel[k].agent)' /\ Live(a)' = Live(cancel[k].agent)' /\ Over(a)' = Over(cancel[k].agent)'
      BY <3>1 DEF Once, Live, Over
    <3>. QED  BY <3>2, <3>4, <3>5, <3>6, <3>7, <3>8
  <2>. QED  BY <2>0, <2>1, <2>2, <2>3 DEF CancelMove, Goes
<1>3. ASSUME NEW a \in Agents, status'[a] # "none", ~handle'[a]
      PROVE  \E k \in Cancellers : cancel'[k].agent = a /\ cancel'[k].pc \notin {"idle", "signal", "close", "take"}
  <2>1. HandleMove(a) /\ AgentMove(a)
    BY DEF Moves
  <2>2. CASE status[a] # "none" /\ ~handle[a]
    <3>1. PICK k \in Cancellers : cancel[k].agent = a /\ cancel[k].pc \notin {"idle", "signal", "close", "take"}
      BY <2>2 DEF CancelInv
    <3>2. CancelMove(k)
      BY DEF Moves
    <3>3. cancel'[k].pc \notin {"idle", "signal", "close", "take"}
      BY <3>1, <3>2 DEF CancelMove, Waits, Called, Goes
    <3>. QED  BY <3>1, <3>3, Lasting
  <2>3. CASE status[a] # "none" /\ handle[a]
    BY <1>3, <2>1, <2>3 DEF HandleMove
  <2>4. CASE status[a] = "none"
    <3>1. ~Recorded(a)
      BY <2>4, SubagentAssumption DEF Recorded, CallInv
    <3>2. Spawned(a)
      BY <1>3, <2>1, <2>4, <3>1 DEF AgentMove, Stays, Works, Records, Answers, Ends, TaskInv, AtWork, Live
    <3>. QED  BY <1>3, <3>2 DEF Spawned
  <2>. QED  BY <2>2, <2>3, <2>4
<1>. QED  BY <1>2, <1>3 DEF CancelInv

\* What a step closes or aborts.
ShutMove(a) ==
    /\ Spawned(a) \/ channel'[a] \in {channel[a], "closed"}
    /\ \/ channel'[a] = "closed" /\ channel[a] # "closed"
       \/ aborted'[a] /\ ~aborted[a]
       => \E k \in Cancellers : cancel[k].pc \in {"close", "wait"} /\ cancel[k].agent = a
                               /\ cancel'[k].pc \in {"take", "join"}

LEMMA ShutMoves ==
    ASSUME TypeOK, CallInv, TaskInv, [Next]_vars, NEW a \in Agents
    PROVE  ShutMove(a)
<1>. USE DEF instanceVars, taskVars
<1>0. cancel \in [Cancellers -> CancelRecords] /\ channel \in [Agents -> {"none", "open", "closed"}]
      /\ aborted \in [Agents -> BOOLEAN]
  BY TypeParts DEF CallTypes, InstanceTypes, TaskTypes
<1>1. CASE UNCHANGED <<channel, aborted>>
  BY <1>1 DEF ShutMove
<1>2. ASSUME NEW b \in Agents, Forget(b), UNCHANGED channel PROVE ShutMove(a)
  BY <1>0, <1>2 DEF Forget, ShutMove
<1>3. ASSUME NEW b \in Agents, Spawn(b) PROVE ShutMove(a)
  BY <1>0, <1>3 DEF Spawn, Spawned, ShutMove, TypeOK
<1>4. ASSUME NEW k \in Cancellers, CancelClose(k) \/ CancelAbort(k) PROVE ShutMove(a)
  <2>1. CASE CancelClose(k)
    <3>1. cancel[k].pc = "close" /\ cancel'[k].pc = "take" /\ aborted' = aborted
      BY <1>0, <2>1 DEF CancelClose, Step, CancelRecords
    <3>2. a = cancel[k].agent \/ channel'[a] = channel[a]
      BY <1>0, <2>1 DEF CancelClose
    <3>3. channel'[a] \in {channel[a], "closed"}
      BY <1>0, <2>1 DEF CancelClose
    <3>. QED  BY <3>1, <3>2, <3>3 DEF ShutMove
  <2>2. CASE CancelAbort(k)
    <3>1. cancel[k].pc = "wait" /\ cancel'[k].pc = "join" /\ channel' = channel
      BY <1>0, <2>2 DEF CancelAbort, Leave, CancelRecords
    <3>2. a = cancel[k].agent \/ aborted'[a] = aborted[a]
      BY <1>0, <2>2 DEF CancelAbort
    <3>. QED  BY <3>1, <3>2 DEF ShutMove
  <2>. QED  BY <1>4, <2>1, <2>2
<1>5. ASSUME NEW b \in Agents, TaskStep(b) \/ TurnStep(b)
      PROVE  UNCHANGED channel /\ (Forget(b) \/ UNCHANGED aborted)
  BY <1>5 DEF TaskStep, TurnStep, BeginTurn, TurnTimesOut, TaskAborted, Receive, ReceiveEnds, Stamp, Reply,
              FirstTurnSucceeds, TurnSucceeds, TurnFails, TaskPanics, End
<1>6. ASSUME NEW k \in Cancellers, CancelStep(k) \/ CancelDropped(k) \/ \E b \in Agents : CancelStart(k, b),
             ~CancelClose(k), ~CancelAbort(k)
      PROVE  UNCHANGED <<channel, aborted>>
  BY <1>6 DEF CancelStep, CancelSignal, CancelTake, CancelJoined, CancelFinish,
              CancelRecord, CancelStamp, CancelDropped, CancelStart
<1>7. CASE \/ \E S \in SUBSET Agents : GcCollect(S)
           \/ GcRemove \/ Tick \/ UNCHANGED vars
           \/ \E x \in Senders : Enqueue(x) \/ \E b \in Agents : SendTo(x, b)
  BY <1>1, <1>7 DEF GcCollect, GcRemove, Tick, vars, Enqueue, SendTo
<1>. QED  BY <1>1, <1>2, <1>3, <1>4, <1>5, <1>6, <1>7 DEF Next

\* Who is told that a session is closed stays right about it.
LEMMA EndNext ==
    ASSUME TypeOK, CallInv, TaskInv, EndInv, Moves, \A a \in Agents : ShutMove(a)
    PROVE  EndInv'
<1>1. ASSUME NEW a \in Agents, Shut(a) PROVE Shut(a)'
  <2>1. PICK k \in Cancellers : cancel[k].agent = a /\ cancel[k].pc \notin {"idle", "signal", "close"}
    BY <1>1 DEF Shut
  <2>2. cancel'[k].agent = a /\ CancelMove(k)
    BY <2>1, Lasting DEF Moves
  <2>3. cancel'[k].pc \notin {"idle", "signal", "close"}
    BY <2>1, <2>2 DEF CancelMove, Waits, Called, Goes
  <2>. QED  BY <2>2, <2>3 DEF Shut
<1>2. ASSUME NEW a \in Agents,
             NEW k \in Cancellers, cancel[k].pc \in {"close", "wait"}, cancel[k].agent = a,
             cancel'[k].pc \in {"take", "join"}
      PROVE  Shut(a)'
  <2>1. cancel'[k].agent = a
    BY <1>2, Lasting
  <2>. QED  BY <1>2, <2>1 DEF Shut
<1>3. ASSUME NEW a \in Agents
      PROVE  /\ status'[a] # "none" => task'[a] # "none"
             /\ status'[a] # "none" /\ channel'[a] = "none" => Mode[a] = "run"
             /\ channel'[a] = "closed" \/ aborted'[a] => Shut(a)'
             /\ task'[a] = "ended" => Over(a)' \/ Shut(a)'
             /\ status[a] # "none" /\ task[a] = "panicked" => task'[a] = "panicked"
  <2>0. AgentMove(a) /\ ShutMove(a) /\ (Over(a) => Over(a)')
    BY Lasting DEF Moves
  <2>1. aborted[a] \/ channel[a] = "closed" => Shut(a)'
    BY <1>1 DEF EndInv
  <2>2. channel'[a] = "closed" \/ aborted'[a] => Shut(a)'
    <3>1. CASE (channel'[a] = "closed" /\ channel[a] # "closed") \/ (aborted'[a] /\ ~aborted[a])
      BY <1>2, <2>0, <3>1 DEF ShutMove
    <3>. QED  BY <2>1, <3>1
  <2>3. task'[a] = "ended" => Over(a)' \/ Shut(a)'
    <3>1. CASE task[a] = "ended"
      BY <1>1, <2>0, <3>1 DEF EndInv
    <3>2. CASE task'[a] = "ended" /\ task[a] # "ended"
      <4>1. Over(a) \/ aborted[a]
        BY <2>0, <3>2 DEF AgentMove, Stays, Spawned, Works, Records, Answers, Ends, Recorded, AtWork
      <4>. QED  BY <2>0, <2>1, <4>1
    <3>. QED  BY <3>1, <3>2
  <2>4. status'[a] # "none" => task'[a] # "none"
    <3>1. CASE status[a] = "none"
      BY <2>0, <3>1, SubagentAssumption DEF AgentMove, Stays, Spawned, Works, Records, Answers, Ends, Recorded,
                                            AtWork, TaskInv, CallInv
    <3>2. CASE status[a] # "none"
      BY <2>0, <3>2 DEF AgentMove, Stays, Spawned, Works, Records, Answers, Ends, Recorded, AtWork, EndInv
    <3>. QED  BY <3>1, <3>2
  <2>5. status'[a] # "none" /\ channel'[a] = "none" => Mode[a] = "run"
    <3>1. CASE Spawned(a)
      BY <3>1, SubagentAssumption DEF Spawned
    <3>2. CASE ~Spawned(a)
      <4>1. channel'[a] = "none" => channel[a] = "none"
        BY <2>0, <3>2 DEF ShutMove
      <4>2. status'[a] # "none" => status[a] # "none"
        BY <2>0, <3>2, SubagentAssumption DEF AgentMove, Stays, Works, Records, Answers, Ends, Recorded,
                                              AtWork, Live, TaskInv, CallInv
      <4>. QED  BY <4>1, <4>2 DEF EndInv
    <3>. QED  BY <3>1, <3>2
  <2>6. status[a] # "none" /\ task[a] = "panicked" => task'[a] = "panicked"
    BY <2>0 DEF AgentMove, Stays, Spawned, Works, Records, Answers, Ends, Recorded, AtWork, Live
  <2>. QED  BY <2>2, <2>3, <2>4, <2>5, <2>6
<1>4. ASSUME NEW x \in Senders, NEW a \in Agents, send'[x].agent = a, send'[x].reply = "closed"
      PROVE  Over(a)' \/ Mode[a] = "run" \/ Shut(a)' \/ task'[a] = "panicked"
  <2>0. SendMove(x) /\ (Over(a) => Over(a)')
    BY Lasting DEF Moves
  <2>1. CASE send[x].reply = "closed" /\ send[x].agent = a
    <3>1. status[a] # "none"
      BY <2>1 DEF CallInv
    <3>2. Over(a) \/ Mode[a] = "run" \/ Shut(a) \/ task[a] = "panicked"
      BY <2>1 DEF EndInv
    <3>. QED  BY <1>1, <1>3, <2>0, <3>1, <3>2
  <2>2. CASE Answered(x) /\ ~Live(a)'
    <3>1. status[a] # "none"
      BY <1>4, <2>2 DEF CallInv, Answered
    <3>2. status'[a] # "none" /\ task'[a] \in {"none", "ended", "panicked"}
      BY <2>2, <3>1, Lasting DEF Live
    <3>. QED  BY <1>3, <3>2
  <2>3. CASE Sent(x)
    <3>1. a \in registered /\ channel[a] # "open"
      BY <1>4, <2>3 DEF Sent
    <3>2. status[a] # "none" /\ channel[a] \in {"none", "closed"}
      BY <3>1 DEF TaskInv, TypeOK
    <3>. QED  BY <1>1, <3>2 DEF EndInv
  <2>. QED  BY <1>4, <2>0, <2>1, <2>2, <2>3 DEF SendMove, Answered
<1>5. ASSUME NEW x \in Senders, send'[x].reply = "closed"
      PROVE  send'[x].agent \in Agents
  <2>1. SendMove(x) /\ (Sent(x) => send'[x].agent \in Agents)
    BY DEF Moves, Sent, TypeOK
  <2>. QED  BY <1>5, <2>1 DEF SendMove, Answered, CallInv
<1>6. \A x \in Senders : send'[x].reply = "closed" =>
          \E a \in Agents : /\ send'[x].agent = a
                            /\ Over(a)' \/ Mode[a] = "run" \/ Shut(a)' \/ task'[a] = "panicked"
  BY <1>4, <1>5
<1>. QED  BY <1>3, <1>6 DEF EndInv, Over, Shut

LEMMA SlotNext == ASSUME TypeOK, CallInv, TaskInv, SlotInv, Moves PROVE SlotInv'
<1>. USE SubagentAssumption
<1>1. Cardinality(Active) \in Nat /\ IsFiniteSet(Active)
  BY FS_CardinalityType DEF SlotInv
<1>2. ASSUME registered' \subseteq registered PROVE SlotInv'
  <2>1. Active' \subseteq Active
    BY <1>2, Lasting DEF Active, Over, TypeOK
  <2>. QED  BY <1>1, <2>1, FS_Subset, FS_CardinalityType DEF SlotInv
<1>3. ASSUME NEW a \in Agents, Spawn(a), registered' = registered \cup {a} PROVE SlotInv'
  <2>1. Active' \subseteq Active \cup {a}
    BY <1>3, Lasting DEF Active, Over, TypeOK
  <2>2. Cardinality(Active) < MaxConcurrent
    BY <1>3 DEF Spawn, MaySpawn
  <2>3. /\ IsFiniteSet(Active \cup {a})
        /\ Cardinality(Active \cup {a}) = IF a \in Active THEN Cardinality(Active) ELSE Cardinality(Active) + 1
    BY <1>1, FS_AddElement
  <2>4. /\ IsFiniteSet(Active') /\ Cardinality(Active') <= Cardinality(Active \cup {a})
        /\ Cardinality(Active') \in Nat
    BY <2>1, <2>3, FS_Subset, FS_CardinalityType
  <2>5. Cardinality(Active') <= MaxConcurrent
    BY <1>1, <2>2, <2>3, <2>4
  <2>. QED  BY <2>4, <2>5 DEF SlotInv
<1>. QED  BY <1>2, <1>3 DEF Moves, ManagerMove

LEMMA StepIInv == IInv /\ [Next]_vars => IInv'
<1>. SUFFICES ASSUME IInv, [Next]_vars PROVE IInv'
  OBVIOUS
<1>1. Moves
  BY StepMoves
<1>2. TypeOK'
  BY TypeNext DEF IInv
<1>3. \A a \in Agents : ShutMove(a)
  BY ShutMoves DEF IInv
<1>. QED  BY <1>1, <1>2, <1>3, CallNext, TaskNext, GcNext, CancelNext, EndNext, SlotNext DEF IInv

LEMMA IInvHolds == Spec => []IInv
BY InitIInv, StepIInv, PTL DEF Spec
-----------------------------------------------------------------------------
\* However spawns, collections, ends and cancels interleave, the manager has no more active
\* subagents than its limit, and none that has used more than its budget goes on.
THEOREM LimitsHold == Spec => []Inv
<1>1. IInv => Inv
  BY DEF IInv, Inv, SlotInv, ActiveWithinLimit, TaskInv, OverBudgetStops
<1>. QED  BY <1>1, IInvHolds, PTL

\* The limit holds of the tasks that run and not only of the entries: a subagent that works is
\* registered and counted, unless two cancels freed its slot before it was over.
THEOREM WorkIsLimited == Spec => []WorkWithinLimit
<1>1. IInv => WorkWithinLimit
  <2>. SUFFICES ASSUME IInv PROVE WorkWithinLimit
    OBVIOUS
  <2>. DEFINE W == {a \in Agents : AtWork(a) /\ CancelledOnce(a)}
  <2>1. W \subseteq Active
    <3>. SUFFICES ASSUME NEW a \in Agents, AtWork(a), CancelledOnce(a) PROVE a \in Active
      OBVIOUS
    <3>1. Once(a)
      BY OnceIs
    <3>2. status[a] # "none" /\ ~Over(a)
      BY <3>1 DEF IInv, TaskInv, AtWork
    <3>. QED  BY <3>2 DEF IInv, GcInv, Active, Over
  <2>2. /\ IsFiniteSet(Active) /\ Cardinality(Active) <= MaxConcurrent
        /\ Cardinality(Active) \in Nat
    BY FS_CardinalityType DEF IInv, SlotInv
  <2>3. Cardinality(W) <= Cardinality(Active) /\ Cardinality(W) \in Nat
    BY <2>1, <2>2, FS_Subset, FS_CardinalityType
  <2>4. Cardinality(W) <= MaxConcurrent
    BY <2>2, <2>3, SubagentAssumption
  <2>. QED  BY <2>4 DEF WorkWithinLimit
<1>. QED  BY <1>1, IInvHolds, PTL

\* Who is told that a subagent is over, by the reply to a message, by the return of a cancel or
\* by its collection, finds a terminal status, and a finishing time where it is collected; one
\* who is told that the session is closed may also meet a cancel that is half done, or a panic.
THEOREM EndsAreRecorded == Spec => []EndIsRecorded
<1>1. IInv => EndIsRecorded
  <2>. SUFFICES ASSUME IInv PROVE EndIsRecorded
    OBVIOUS
  <2>1. ASSUME NEW x \in Senders, send[x].reply = "closed"
        PROVE  LET a == send[x].agent IN
               status[a] \in Terminal \/ Mode[a] = "run" \/ HalfCancelled(a) \/ task[a] = "panicked"
    <3>1. PICK a : a = send[x].agent /\ (Over(a) \/ Mode[a] = "run" \/ Shut(a) \/ task[a] = "panicked")
      BY <2>1 DEF IInv, EndInv
    <3>2. ASSUME Shut(a) PROVE Over(a) \/ HalfCancelled(a)
      BY <3>2 DEF IInv, CancelInv, Shut, HalfCancelled
    <3>. QED  BY <3>1, <3>2 DEF Over
  <2>. QED  BY <2>1 DEF IInv, EndIsRecorded, TaskInv, CancelInv, GcInv, Over
<1>. QED  BY <1>1, IInvHolds, PTL

\* No late turn, deadline or cancel replaces a terminal status, unless a second cancel does.
THEOREM EndsAreFinal == Spec => TerminalIsFinal
<1>. DEFINE Kept == \A a \in Agents : status[a] \in Terminal /\ CancelledOnce(a) => status'[a] = status[a]
<1>1. IInv /\ [Next]_vars => Kept
  <2>. SUFFICES ASSUME IInv, [Next]_vars, NEW a \in Agents, Over(a), CancelledOnce(a)
                PROVE  status'[a] = status[a]
    BY DEF Over
  <2>1. Once(a)
    BY OnceIs
  <2>2. AgentMove(a)
    BY StepMoves DEF Moves
  <2>3. ~AtWork(a) /\ status[a] # "none"
    BY <2>1 DEF IInv, TaskInv, Over, Terminal
  <2>4. ~Recorded(a)
    BY <2>1 DEF IInv, CancelInv, Recorded
  <2>. QED  BY <2>2, <2>3, <2>4 DEF AgentMove, Stays, Spawned, Works, Records, Answers, Ends
<1>2. Spec => [][Kept]_vars
  BY <1>1, IInvHolds, PTL DEF Spec
<1>. QED  BY <1>2 DEF TerminalIsFinal
=============================================================================
