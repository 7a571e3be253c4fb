-------------------------- MODULE Sessions_proofs --------------------------
(***************************************************************************)
(* Proofs about Sessions, for all sessions, requests, stops and edits: the *)
(* types and the safety properties of the runs, the engines and the saves. *)
(* The second half is about Turn, what an engine does in one of those      *)
(* turns, for all calls, limits and bounds: what a turn spends, which      *)
(* calls it refuses, and that it obeys a stop that it has read.            *)
(***************************************************************************)
EXTENDS Sessions, Turn, FiniteSetTheorems, SequenceTheorems, NaturalsInduction, WellFoundedInduction,
        TLAPS

Replaces(r) == pc[r] \in {"mark", "cancel"}
Stopping(c) == stopPc[c] \in {"mark", "cancel"}

\* A request that has no run yet is not known to the registry of runs; one that has taken
\* the place of another knows which.
RunInv ==
    /\ \A r \in Requests : pc[r] \in {"start", "begin"} =>
        /\ reason[r] = "none"
        /\ active[Of[r]] # r
        /\ \A q \in Requests : Replaces(q) => previous[q] # r
        /\ \A c \in Stops : Stopping(c) => entry[c] # r
    /\ \A r \in Requests : Replaces(r) =>
        /\ previous[r] \in Requests /\ Of[previous[r]] = Of[r]
        /\ active[Of[r]] # previous[r]
        /\ pc[r] = "cancel" => reason[previous[r]] # "none"

\* A stop knows what it stops, and has marked it before it cancels it.
StopInv ==
    /\ \A c \in Stops : Stopping(c) => entry[c] \in Requests
    /\ \A c \in Stops : stopPc[c] = "cancel" => reason[entry[c]] # "none"
    /\ \A c \in Stops : won[c] => stopPc[c] \in {"cancel", "done"} /\ entry[c] \in Requests

\* The engines that requests of a session hold or wait for and that are not in the pool
Old(k) == {g \in Requests : /\ g # pool[k]
                            /\ \E r \in Requests : /\ Of[r] = k /\ engine[r] = g
                                                   /\ pc[r] \in {"lock", "turn"}}

\* Who holds or waits for an engine has one, and no two turns hold the same.
HeldInv ==
    /\ \A r \in Requests : pc[r] \in {"lock", "turn"} => engine[r] # None
    /\ \A r, q \in Requests : pc[r] = "turn" /\ pc[q] = "turn" /\ engine[r] = engine[q] => r = q

\* Only what takes an engine out of the pool makes it an old one.
OldInv == \A k \in Keys : Cardinality(Old(k)) <= Cardinality(Evictions(k))

Deleting(e, k) == operation[e] = "delete" /\ key[e] = k /\ editPc[e] \in {"erase", "evict"}

\* What is to be saved alone is what the session is in memory.
Alone(k) ==
    /\ \A v, w \in Pending(k) : v = w
    /\ \A w \in Pending(k) : w \in Requests \/ editPc[w] = "save" =>
                                k \in known /\ copy[w] = sessions[k]
    /\ \A r \in sessions[k] : outcome[r] = "ok" /\ pc[r] = "done" => r \in disk[k]
    /\ \A e \in Edits : Deleting(e, k) /\ editPc[e] = "evict" => k \notin stored

SaveInv ==
    /\ \A k \in Keys : \A r \in sessions[k] : Of[r] = k
    /\ \A k \in Keys \ known : sessions[k] = {}
    /\ \A e \in Edits : editPc[e] \in {"save", "erase"} => key[e] \in Keys
    /\ \A e \in Edits : editPc[e] = "erase" => operation[e] = "delete"
    /\ \A e \in Edits : editPc[e] = "evict" => operation[e] \in {"delete", "reload"}
    /\ \A e \in Edits : editPc[e] = "save" => operation[e] # "delete"
    /\ \A k \in Keys, e \in Edits : Deleting(e, k) => k \notin known
    /\ \A k \in Keys \ overlapped : Alone(k)

IInv ==
    /\ TypeOK /\ RunInv /\ StopInv /\ RunIsStoppable /\ ReasonIsTrue
    /\ HeldInv /\ OldInv /\ SaveInv
-----------------------------------------------------------------------------
\* Initially nothing runs and everything is saved.
LEMMA InitIInv == Init => IInv
<1>. SUFFICES ASSUME Init PROVE IInv
  OBVIOUS
<1>. USE SessionsAssumption DEF Init
<1>1. TypeOK
  BY DEF TypeOK, RunTypes, ContentTypes, RequestTypes, OtherTypes, Related, Contents, Writers,
         RequestPcs, Outcomes, Operations
<1>2. RunInv /\ StopInv
  BY DEF RunInv, StopInv, Replaces, Stopping
<1>3. RunIsStoppable /\ ReasonIsTrue
  BY DEF RunIsStoppable, ReasonIsTrue, Live
<1>4. HeldInv /\ OldInv
  <2>1. ASSUME NEW k \in Keys PROVE Old(k) = {} /\ Evictions(k) = {}
    BY DEF Old, Evictions
  <2>2. Cardinality({}) <= Cardinality({})
    BY FS_EmptySet
  <2>3. ASSUME NEW r \in Requests PROVE pc[r] = "start"
    OBVIOUS
  <2>. QED  BY <2>1, <2>2, <2>3 DEF HeldInv, OldInv
<1>5. SaveInv
  <2>1. ASSUME NEW k \in Keys PROVE Pending(k) = {}
    BY DEF Pending
  <2>. QED  BY <2>1 DEF SaveInv, Alone, Deleting
<1>. QED  BY <1>1, <1>2, <1>3, <1>4, <1>5 DEF IInv

\* The types of the registry of runs, the pool and the response slot
LEMMA RunTypesStep == TypeOK /\ RunInv /\ StopInv /\ [Next]_vars => RunTypes'
<1>. SUFFICES ASSUME TypeOK, RunInv, StopInv, [Next]_vars PROVE RunTypes'
  OBVIOUS
<1>1. ASSUME NEW r \in Requests, Begin(r) PROVE RunTypes'
  BY <1>1, SessionsAssumption DEF Begin, Goto, contentVars, stopVars, editVars, TypeOK,
    RunTypes
<1>2. ASSUME NEW r \in Requests, Mark(r) PROVE RunTypes'
  BY <1>2, SessionsAssumption DEF Mark, Goto, contentVars, stopVars, editVars, TypeOK,
    RunTypes, FirstReason
<1>3. ASSUME NEW r \in Requests, Supersede(r) PROVE RunTypes'
  BY <1>3, SessionsAssumption DEF Supersede, Goto, contentVars, stopVars, editVars, TypeOK,
    RunTypes, RunInv, Replaces
<1>4. ASSUME NEW r \in Requests, Insert(r) PROVE RunTypes'
  BY <1>4, SessionsAssumption DEF Insert, Goto, runVars, contentVars, stopVars, editVars,
    TypeOK, RunTypes
<1>5. ASSUME NEW r \in Requests, Finish(r) PROVE RunTypes'
  BY <1>5, SessionsAssumption DEF Finish, Goto, contentVars, stopVars, editVars, TypeOK,
    RunTypes
<1>6. ASSUME NEW r \in Requests, Route(r) PROVE RunTypes'
  BY <1>6, SessionsAssumption DEF Route, Goto, runVars, contentVars, stopVars, editVars,
    TypeOK, RunTypes
<1>7. ASSUME NEW r \in Requests, Take(r) PROVE RunTypes'
  BY <1>7, SessionsAssumption DEF Take, Goto, runVars, contentVars, stopVars, editVars, TypeOK,
    RunTypes
<1>8. ASSUME NEW c \in Stops, StopMark(c) PROVE RunTypes'
  BY <1>8, SessionsAssumption DEF StopMark, StopGoto, contentVars, requestVars, editVars,
    TypeOK, RunTypes, FirstReason
<1>9. ASSUME NEW c \in Stops, StopCancel(c) PROVE RunTypes'
  BY <1>9, SessionsAssumption DEF StopCancel, StopGoto, contentVars, requestVars, editVars,
    TypeOK, RunTypes, StopInv, Stopping
<1>10. ASSUME NEW e \in Edits, Evict(e) PROVE RunTypes'
  BY <1>10, SessionsAssumption DEF Evict, EditGoto, runVars, contentVars, requestVars,
    stopVars, TypeOK, RunTypes
<1>11. CASE UNCHANGED <<active, reason, cancelled, pool, slot>>
  BY <1>11 DEF TypeOK, RunTypes
<1>12. ASSUME NEW r \in Requests, RequestStep(r) \/ Disconnect(r)
     PROVE  Begin(r) \/ Mark(r) \/ Supersede(r) \/ Insert(r) \/ Finish(r) \/ Route(r) \/
            Take(r) \/ UNCHANGED <<active, reason, cancelled, pool, slot>>
  BY <1>12 DEF RequestStep, Receive, Goto, End, runVars, contentVars, stopVars, editVars, Load,
    Check, Find, SpawnFails, Start, TurnEnds, Record, Change, Save, Saved, NotSaved, Disconnect
<1>13. ASSUME NEW c \in Stops, StopStep(c)
     PROVE  StopMark(c) \/ StopCancel(c) \/ UNCHANGED <<active, reason, cancelled, pool, slot>>
  BY <1>13 DEF StopStep, StopReceive, StopGoto, runVars, contentVars, requestVars, editVars,
    StopClone
<1>14. ASSUME NEW e \in Edits, EditBegins(e) \/ EditStep(e)
     PROVE  Evict(e) \/ UNCHANGED <<active, reason, cancelled, pool, slot>>
  BY <1>14 DEF EditBegins, EditStep, Edit, EditGoto, Choose, Change, runVars, requestVars,
    stopVars, EditSave, Saved, NotSaved, Delete, Erase, Reload, contentVars
<1>15. CASE UNCHANGED vars
  BY <1>15, <1>11 DEF vars, runVars, contentVars, requestVars, stopVars, editVars
<1>. QED  BY <1>1, <1>2, <1>3, <1>4, <1>5, <1>6, <1>7, <1>8, <1>9, <1>10, <1>11, <1>12, <1>13,
    <1>14, <1>15 DEF Next

\* The types of the sessions
LEMMA ContentTypesStep == TypeOK /\ SaveInv /\ [Next]_vars => ContentTypes'
<1>. SUFFICES ASSUME TypeOK, SaveInv, [Next]_vars PROVE ContentTypes'
  OBVIOUS
<1>1. ASSUME NEW r \in Requests, Record(r) PROVE ContentTypes'
  BY <1>1, SessionsAssumption DEF Record, Goto, End, Change, runVars, contentVars, stopVars,
    editVars, TypeOK, ContentTypes, Contents, Writers
<1>2. ASSUME NEW r \in Requests, Save(r) PROVE ContentTypes'
  BY <1>2, SessionsAssumption DEF Save, Goto, End, Saved, NotSaved, runVars, stopVars,
    editVars, TypeOK, ContentTypes, Contents, Writers
<1>3. ASSUME NEW e \in Edits, NEW k \in Keys, NEW op \in {"clear", "edit"}, Edit(e, op, k) PROVE ContentTypes'
  BY <1>3, SessionsAssumption DEF Edit, EditGoto, Choose, Change, runVars, requestVars,
    stopVars, TypeOK, ContentTypes, Contents, Writers
<1>4. ASSUME NEW e \in Edits, EditSave(e) PROVE ContentTypes'
  BY <1>4, SessionsAssumption DEF EditSave, EditGoto, Saved, NotSaved, runVars, requestVars,
    stopVars, TypeOK, ContentTypes, Contents, Writers, SaveInv
<1>5. ASSUME NEW e \in Edits, NEW k \in Keys, Delete(e, k) PROVE ContentTypes'
  BY <1>5, SessionsAssumption DEF Delete, EditGoto, Choose, runVars, requestVars, stopVars,
    TypeOK, ContentTypes, Contents, Writers
<1>6. ASSUME NEW e \in Edits, Erase(e) PROVE ContentTypes'
  BY <1>6, SessionsAssumption DEF Erase, EditGoto, runVars, requestVars, stopVars, TypeOK,
    ContentTypes, Contents, Writers
<1>7. CASE UNCHANGED <<known, sessions, stored, disk, copy, overlapped>>
  BY <1>7 DEF TypeOK, ContentTypes, Contents, Writers
<1>8. ASSUME NEW r \in Requests, RequestStep(r) \/ Disconnect(r)
     PROVE  Record(r) \/ Save(r) \/ UNCHANGED <<known, sessions, stored, disk, copy,
            overlapped>>
  BY <1>8 DEF RequestStep, Receive, Goto, End, runVars, contentVars, stopVars, editVars, Begin,
    Mark, Supersede, Load, Check, Find, Insert, SpawnFails, Start, TurnEnds, Finish, Route,
    Take, Disconnect
<1>9. ASSUME NEW c \in Stops, StopStep(c)
     PROVE  UNCHANGED <<known, sessions, stored, disk, copy, overlapped>>
  BY <1>9 DEF StopStep, StopReceive, StopGoto, runVars, contentVars, requestVars, editVars,
    StopClone, StopMark, StopCancel
<1>10. ASSUME NEW e \in Edits, EditBegins(e) \/ EditStep(e)
     PROVE  (\E k \in Keys, op \in {"clear", "edit"} : Edit(e, op, k)) \/ EditSave(e) \/ (\E k
            \in Keys : Delete(e, k)) \/ Erase(e) \/ UNCHANGED <<known, sessions, stored, disk,
            copy, overlapped>>
  BY <1>10 DEF EditBegins, EditStep, Reload, EditGoto, runVars, contentVars, requestVars,
    stopVars, Evict
<1>11. CASE UNCHANGED vars
  BY <1>11, <1>7 DEF vars, runVars, contentVars, requestVars, stopVars, editVars
<1>. QED  BY <1>1, <1>2, <1>3, <1>4, <1>5, <1>6, <1>7, <1>8, <1>9, <1>10, <1>11 DEF Next

\* The types of the requests that send a message
LEMMA RequestTypesStep == TypeOK /\ [Next]_vars => RequestTypes'
<1>. SUFFICES ASSUME TypeOK, [Next]_vars PROVE RequestTypes'
  OBVIOUS
<1>1. ASSUME NEW r \in Requests, Receive(r) PROVE RequestTypes'
  BY <1>1, SessionsAssumption DEF Receive, Goto, End, runVars, contentVars, stopVars, editVars,
    TypeOK, RunTypes, RequestTypes, RequestPcs, Outcomes
<1>2. ASSUME NEW r \in Requests, Begin(r) PROVE RequestTypes'
  BY <1>2, SessionsAssumption DEF Begin, Goto, contentVars, stopVars, editVars, TypeOK,
    RunTypes, RequestTypes, RequestPcs, Outcomes
<1>3. ASSUME NEW r \in Requests, Mark(r) PROVE RequestTypes'
  BY <1>3, SessionsAssumption DEF Mark, Goto, contentVars, stopVars, editVars, TypeOK,
    RunTypes, RequestTypes, RequestPcs, Outcomes
<1>4. ASSUME NEW r \in Requests, Supersede(r) PROVE RequestTypes'
  BY <1>4, SessionsAssumption DEF Supersede, Goto, contentVars, stopVars, editVars, TypeOK,
    RunTypes, RequestTypes, RequestPcs, Outcomes
<1>5. ASSUME NEW r \in Requests, Load(r) PROVE RequestTypes'
  BY <1>5, SessionsAssumption DEF Load, Goto, End, runVars, contentVars, stopVars, editVars,
    TypeOK, RunTypes, RequestTypes, RequestPcs, Outcomes
<1>6. ASSUME NEW r \in Requests, Check(r) PROVE RequestTypes'
  BY <1>6, SessionsAssumption DEF Check, Goto, End, runVars, contentVars, stopVars, editVars,
    TypeOK, RunTypes, RequestTypes, RequestPcs, Outcomes
<1>7. ASSUME NEW r \in Requests, Find(r) PROVE RequestTypes'
  BY <1>7, SessionsAssumption DEF Find, Goto, runVars, contentVars, stopVars, editVars, TypeOK,
    RunTypes, RequestTypes, RequestPcs, Outcomes
<1>8. ASSUME NEW r \in Requests, Insert(r) PROVE RequestTypes'
  BY <1>8, SessionsAssumption DEF Insert, Goto, runVars, contentVars, stopVars, editVars,
    TypeOK, RunTypes, RequestTypes, RequestPcs, Outcomes
<1>9. ASSUME NEW r \in Requests, SpawnFails(r) PROVE RequestTypes'
  BY <1>9, SessionsAssumption DEF SpawnFails, Goto, End, runVars, contentVars, stopVars,
    editVars, TypeOK, RunTypes, RequestTypes, RequestPcs, Outcomes
<1>10. ASSUME NEW r \in Requests, Start(r) PROVE RequestTypes'
  BY <1>10, SessionsAssumption DEF Start, Goto, End, runVars, contentVars, stopVars, editVars,
    TypeOK, RunTypes, RequestTypes, RequestPcs, Outcomes
<1>11. ASSUME NEW r \in Requests, TurnEnds(r) PROVE RequestTypes'
  BY <1>11, SessionsAssumption DEF TurnEnds, Goto, End, runVars, contentVars, stopVars,
    editVars, TypeOK, RunTypes, RequestTypes, RequestPcs, Outcomes
<1>12. ASSUME NEW r \in Requests, Finish(r) PROVE RequestTypes'
  BY <1>12, SessionsAssumption DEF Finish, Goto, contentVars, stopVars, editVars, TypeOK,
    RunTypes, RequestTypes, RequestPcs, Outcomes
<1>13. ASSUME NEW r \in Requests, Route(r) PROVE RequestTypes'
  BY <1>13, SessionsAssumption DEF Route, Goto, runVars, contentVars, stopVars, editVars,
    TypeOK, RunTypes, RequestTypes, RequestPcs, Outcomes
<1>14. ASSUME NEW r \in Requests, Take(r) PROVE RequestTypes'
  BY <1>14, SessionsAssumption DEF Take, Goto, runVars, contentVars, stopVars, editVars,
    TypeOK, RunTypes, RequestTypes, RequestPcs, Outcomes
<1>15. ASSUME NEW r \in Requests, Record(r) PROVE RequestTypes'
  BY <1>15, SessionsAssumption DEF Record, Goto, End, Change, runVars, contentVars, stopVars,
    editVars, TypeOK, RunTypes, RequestTypes, RequestPcs, Outcomes
<1>16. ASSUME NEW r \in Requests, Save(r) PROVE RequestTypes'
  BY <1>16, SessionsAssumption DEF Save, Goto, End, Saved, NotSaved, runVars, stopVars,
    editVars, TypeOK, RunTypes, RequestTypes, RequestPcs, Outcomes
<1>17. ASSUME NEW r \in Requests, Disconnect(r) PROVE RequestTypes'
  BY <1>17, SessionsAssumption DEF Disconnect, runVars, contentVars, stopVars, editVars,
    TypeOK, RunTypes, RequestTypes, RequestPcs, Outcomes
<1>18. CASE UNCHANGED <<pc, previous, engine, outcome, reply>>
  BY <1>18 DEF TypeOK, RunTypes, RequestTypes, RequestPcs, Outcomes
<1>19. ASSUME NEW r \in Requests, RequestStep(r) \/ Disconnect(r)
     PROVE  Receive(r) \/ Begin(r) \/ Mark(r) \/ Supersede(r) \/ Load(r) \/ Check(r) \/ Find(r)
            \/ Insert(r) \/ SpawnFails(r) \/ Start(r) \/ TurnEnds(r) \/ Finish(r) \/ Route(r)
            \/ Take(r) \/ Record(r) \/ Save(r) \/ Disconnect(r) \/ UNCHANGED <<pc, previous,
            engine, outcome, reply>>
  BY <1>19 DEF RequestStep
<1>20. ASSUME NEW c \in Stops, StopStep(c)
     PROVE  UNCHANGED <<pc, previous, engine, outcome, reply>>
  BY <1>20 DEF StopStep, StopReceive, StopGoto, runVars, contentVars, requestVars, editVars,
    StopClone, StopMark, StopCancel
<1>21. ASSUME NEW e \in Edits, EditBegins(e) \/ EditStep(e)
     PROVE  UNCHANGED <<pc, previous, engine, outcome, reply>>
  BY <1>21 DEF EditBegins, EditStep, Edit, EditGoto, Choose, Change, runVars, requestVars,
    stopVars, EditSave, Saved, NotSaved, Delete, Erase, Reload, contentVars, Evict
<1>22. CASE UNCHANGED vars
  BY <1>22, <1>18 DEF vars, runVars, contentVars, requestVars, stopVars, editVars
<1>. QED  BY <1>1, <1>2, <1>3, <1>4, <1>5, <1>6, <1>7, <1>8, <1>9, <1>10, <1>11, <1>12, <1>13,
    <1>14, <1>15, <1>16, <1>17, <1>18, <1>19, <1>20, <1>21, <1>22 DEF Next

\* The types of the stops and the edits
LEMMA OtherTypesStep == TypeOK /\ [Next]_vars => OtherTypes'
<1>. SUFFICES ASSUME TypeOK, [Next]_vars PROVE OtherTypes'
  OBVIOUS
<1>1. ASSUME NEW c \in Stops, StopReceive(c) PROVE OtherTypes'
  BY <1>1, SessionsAssumption DEF StopReceive, StopGoto, runVars, contentVars, requestVars,
    editVars, TypeOK, RunTypes, OtherTypes, Operations
<1>2. ASSUME NEW c \in Stops, StopClone(c) PROVE OtherTypes'
  BY <1>2, SessionsAssumption DEF StopClone, StopGoto, runVars, contentVars, requestVars,
    editVars, TypeOK, RunTypes, OtherTypes, Operations
<1>3. ASSUME NEW c \in Stops, StopMark(c) PROVE OtherTypes'
  BY <1>3, SessionsAssumption DEF StopMark, StopGoto, contentVars, requestVars, editVars,
    TypeOK, RunTypes, OtherTypes, Operations
<1>4. ASSUME NEW c \in Stops, StopCancel(c) PROVE OtherTypes'
  BY <1>4, SessionsAssumption DEF StopCancel, StopGoto, contentVars, requestVars, editVars,
    TypeOK, RunTypes, OtherTypes, Operations
<1>5. ASSUME NEW e \in Edits, NEW k \in Keys, NEW op \in {"clear", "edit"}, Edit(e, op, k) PROVE OtherTypes'
  BY <1>5, SessionsAssumption DEF Edit, EditGoto, Choose, Change, runVars, requestVars,
    stopVars, TypeOK, RunTypes, OtherTypes, Operations
<1>6. ASSUME NEW e \in Edits, EditSave(e) PROVE OtherTypes'
  BY <1>6, SessionsAssumption DEF EditSave, EditGoto, Saved, NotSaved, runVars, requestVars,
    stopVars, TypeOK, RunTypes, OtherTypes, Operations
<1>7. ASSUME NEW e \in Edits, NEW k \in Keys, Delete(e, k) PROVE OtherTypes'
  BY <1>7, SessionsAssumption DEF Delete, EditGoto, Choose, runVars, requestVars, stopVars,
    TypeOK, RunTypes, OtherTypes, Operations
<1>8. ASSUME NEW e \in Edits, Erase(e) PROVE OtherTypes'
  BY <1>8, SessionsAssumption DEF Erase, EditGoto, runVars, requestVars, stopVars, TypeOK,
    RunTypes, OtherTypes, Operations
<1>9. ASSUME NEW e \in Edits, Reload(e) PROVE OtherTypes'
  BY <1>9, SessionsAssumption DEF Reload, EditGoto, runVars, contentVars, requestVars,
    stopVars, TypeOK, RunTypes, OtherTypes, Operations
<1>10. ASSUME NEW e \in Edits, Evict(e) PROVE OtherTypes'
  BY <1>10, SessionsAssumption DEF Evict, EditGoto, runVars, contentVars, requestVars,
    stopVars, TypeOK, RunTypes, OtherTypes, Operations
<1>11. CASE UNCHANGED <<stopPc, entry, won, editPc, operation, key>>
  BY <1>11 DEF TypeOK, RunTypes, OtherTypes, Operations
<1>12. ASSUME NEW r \in Requests, RequestStep(r) \/ Disconnect(r)
     PROVE  UNCHANGED <<stopPc, entry, won, editPc, operation, key>>
  BY <1>12 DEF RequestStep, Receive, Goto, End, runVars, contentVars, stopVars, editVars,
    Begin, Mark, Supersede, Load, Check, Find, Insert, SpawnFails, Start, TurnEnds, Finish,
    Route, Take, Record, Change, Save, Saved, NotSaved, Disconnect
<1>13. ASSUME NEW c \in Stops, StopStep(c)
     PROVE  StopReceive(c) \/ StopClone(c) \/ StopMark(c) \/ StopCancel(c) \/ UNCHANGED
            <<stopPc, entry, won, editPc, operation, key>>
  BY <1>13 DEF StopStep
<1>14. ASSUME NEW e \in Edits, EditBegins(e) \/ EditStep(e)
     PROVE  (\E k \in Keys, op \in {"clear", "edit"} : Edit(e, op, k)) \/ EditSave(e) \/ (\E k
            \in Keys : Delete(e, k)) \/ Erase(e) \/ Reload(e) \/ Evict(e) \/ UNCHANGED
            <<stopPc, entry, won, editPc, operation, key>>
  BY <1>14 DEF EditBegins, EditStep
<1>15. CASE UNCHANGED vars
  BY <1>15, <1>11 DEF vars, runVars, contentVars, requestVars, stopVars, editVars
<1>. QED  BY <1>1, <1>2, <1>3, <1>4, <1>5, <1>6, <1>7, <1>8, <1>9, <1>10, <1>11, <1>12, <1>13,
    <1>14, <1>15 DEF Next

\* A run stays of its session, and nothing is cancelled before it has a reason.
LEMMA RelatedStep == TypeOK /\ RunInv /\ StopInv /\ HeldInv /\ [Next]_vars => Related'
<1>. SUFFICES ASSUME TypeOK, RunInv, StopInv, HeldInv, [Next]_vars PROVE Related'
  OBVIOUS
<1>1. ASSUME NEW r \in Requests, Receive(r) PROVE Related'
  BY <1>1, SessionsAssumption DEF Receive, Goto, End, runVars, contentVars, stopVars, editVars,
    TypeOK, RunTypes, RequestTypes, OtherTypes, Related
<1>2. ASSUME NEW r \in Requests, Begin(r) PROVE Related'
  BY <1>2, SessionsAssumption DEF Begin, Goto, contentVars, stopVars, editVars, TypeOK,
    RunTypes, RequestTypes, OtherTypes, Related
<1>3. ASSUME NEW r \in Requests, Mark(r) PROVE Related'
  BY <1>3, SessionsAssumption DEF Mark, Goto, contentVars, stopVars, editVars, TypeOK,
    RunTypes, RequestTypes, OtherTypes, Related, FirstReason
<1>4. ASSUME NEW r \in Requests, Supersede(r) PROVE Related'
  BY <1>4, SessionsAssumption DEF Supersede, Goto, contentVars, stopVars, editVars, TypeOK,
    RunTypes, RequestTypes, OtherTypes, Related, RunInv, Replaces
<1>5. ASSUME NEW r \in Requests, Load(r) PROVE Related'
  BY <1>5, SessionsAssumption DEF Load, Goto, End, runVars, contentVars, stopVars, editVars,
    TypeOK, RunTypes, RequestTypes, OtherTypes, Related
<1>6. ASSUME NEW r \in Requests, Check(r) PROVE Related'
  BY <1>6, SessionsAssumption DEF Check, Goto, End, runVars, contentVars, stopVars, editVars,
    TypeOK, RunTypes, RequestTypes, OtherTypes, Related
<1>7. ASSUME NEW r \in Requests, Find(r) PROVE Related'
  BY <1>7, SessionsAssumption DEF Find, Goto, runVars, contentVars, stopVars, editVars, TypeOK,
    RunTypes, RequestTypes, OtherTypes, Related
<1>8. ASSUME NEW r \in Requests, Insert(r) PROVE Related'
  BY <1>8, SessionsAssumption DEF Insert, Goto, runVars, contentVars, stopVars, editVars,
    TypeOK, RunTypes, RequestTypes, OtherTypes, Related
<1>9. ASSUME NEW r \in Requests, SpawnFails(r) PROVE Related'
  BY <1>9, SessionsAssumption DEF SpawnFails, Goto, End, runVars, contentVars, stopVars,
    editVars, TypeOK, RunTypes, RequestTypes, OtherTypes, Related
<1>10. ASSUME NEW r \in Requests, Start(r) PROVE Related'
  BY <1>10, SessionsAssumption DEF Start, Goto, End, runVars, contentVars, stopVars, editVars,
    TypeOK, RunTypes, RequestTypes, OtherTypes, Related, HeldInv
<1>11. ASSUME NEW r \in Requests, TurnEnds(r) PROVE Related'
  BY <1>11, SessionsAssumption DEF TurnEnds, Goto, End, runVars, contentVars, stopVars,
    editVars, TypeOK, RunTypes, RequestTypes, OtherTypes, Related
<1>12. ASSUME NEW r \in Requests, Finish(r) PROVE Related'
  BY <1>12, SessionsAssumption DEF Finish, Goto, contentVars, stopVars, editVars, TypeOK,
    RunTypes, RequestTypes, OtherTypes, Related
<1>13. ASSUME NEW r \in Requests, Route(r) PROVE Related'
  BY <1>13, SessionsAssumption DEF Route, Goto, runVars, contentVars, stopVars, editVars,
    TypeOK, RunTypes, RequestTypes, OtherTypes, Related
<1>14. ASSUME NEW r \in Requests, Take(r) PROVE Related'
  BY <1>14, SessionsAssumption DEF Take, Goto, runVars, contentVars, stopVars, editVars,
    TypeOK, RunTypes, RequestTypes, OtherTypes, Related
<1>15. ASSUME NEW r \in Requests, Record(r) PROVE Related'
  BY <1>15, SessionsAssumption DEF Record, Goto, End, Change, runVars, contentVars, stopVars,
    editVars, TypeOK, RunTypes, RequestTypes, OtherTypes, Related
<1>16. ASSUME NEW r \in Requests, Save(r) PROVE Related'
  BY <1>16, SessionsAssumption DEF Save, Goto, End, Saved, NotSaved, runVars, stopVars,
    editVars, TypeOK, RunTypes, RequestTypes, OtherTypes, Related
<1>17. ASSUME NEW r \in Requests, Disconnect(r) PROVE Related'
  BY <1>17, SessionsAssumption DEF Disconnect, runVars, contentVars, stopVars, editVars,
    TypeOK, RunTypes, RequestTypes, OtherTypes, Related
<1>18. ASSUME NEW c \in Stops, StopMark(c) PROVE Related'
  BY <1>18, SessionsAssumption DEF StopMark, StopGoto, contentVars, requestVars, editVars,
    TypeOK, RunTypes, RequestTypes, OtherTypes, Related, FirstReason
<1>19. ASSUME NEW c \in Stops, StopCancel(c) PROVE Related'
  BY <1>19, SessionsAssumption DEF StopCancel, StopGoto, contentVars, requestVars, editVars,
    TypeOK, RunTypes, RequestTypes, OtherTypes, Related, StopInv, Stopping
<1>20. CASE UNCHANGED <<active, reason, cancelled, pc, engine>>
  BY <1>20 DEF TypeOK, RunTypes, RequestTypes, OtherTypes, Related
<1>21. ASSUME NEW r \in Requests, RequestStep(r) \/ Disconnect(r)
     PROVE  Receive(r) \/ Begin(r) \/ Mark(r) \/ Supersede(r) \/ Load(r) \/ Check(r) \/ Find(r)
            \/ Insert(r) \/ SpawnFails(r) \/ Start(r) \/ TurnEnds(r) \/ Finish(r) \/ Route(r)
            \/ Take(r) \/ Record(r) \/ Save(r) \/ Disconnect(r) \/ UNCHANGED <<active, reason,
            cancelled, pc, engine>>
  BY <1>21 DEF RequestStep
<1>22. ASSUME NEW c \in Stops, StopStep(c)
     PROVE  StopMark(c) \/ StopCancel(c) \/ UNCHANGED <<active, reason, cancelled, pc, engine>>
  BY <1>22 DEF StopStep, StopReceive, StopGoto, runVars, contentVars, requestVars, editVars,
    StopClone
<1>23. ASSUME NEW e \in Edits, EditBegins(e) \/ EditStep(e)
     PROVE  UNCHANGED <<active, reason, cancelled, pc, engine>>
  BY <1>23 DEF EditBegins, EditStep, Edit, EditGoto, Choose, Change, runVars, requestVars,
    stopVars, EditSave, Saved, NotSaved, Delete, Erase, Reload, contentVars, Evict
<1>24. CASE UNCHANGED vars
  BY <1>24, <1>20 DEF vars, runVars, contentVars, requestVars, stopVars, editVars
<1>. QED  BY <1>1, <1>2, <1>3, <1>4, <1>5, <1>6, <1>7, <1>8, <1>9, <1>10, <1>11, <1>12, <1>13,
    <1>14, <1>15, <1>16, <1>17, <1>18, <1>19, <1>20, <1>21, <1>22, <1>23, <1>24 DEF Next

\* No request is known to the registry before its run begins.
LEMMA RunStep == TypeOK /\ RunInv /\ [Next]_vars => RunInv'
<1>. SUFFICES ASSUME TypeOK, RunInv, [Next]_vars PROVE RunInv'
  OBVIOUS
<1>1. ASSUME NEW r \in Requests, Receive(r) PROVE RunInv'
  BY <1>1, SessionsAssumption DEF Receive, Goto, End, runVars, contentVars, stopVars, editVars,
    TypeOK, RunTypes, RequestTypes, OtherTypes, RunInv, Replaces, Stopping
<1>2. ASSUME NEW r \in Requests, Begin(r) PROVE RunInv'

  <2>. DEFINE k == Of[r]
  <2>1. /\ k \in Keys /\ pc[r] = "begin" /\ active[k] # r
        /\ active' = [active EXCEPT ![k] = r] /\ previous' = [previous EXCEPT ![r] = active[k]]
        /\ pc' = [pc EXCEPT ![r] = IF active[k] = None THEN "load" ELSE "mark"]
        /\ UNCHANGED <<reason, stopPc, entry>>
    BY <1>2, SessionsAssumption DEF Begin, Goto, stopVars, RunInv
  <2>2. active[k] # None => active[k] \in Requests /\ Of[active[k]] = k
    BY <2>1 DEF TypeOK, RunTypes, Related
  <2>. HIDE DEF k
  <2>3. ASSUME NEW q \in Requests, pc'[q] \in {"start", "begin"}
        PROVE  /\ reason'[q] = "none" /\ active'[Of[q]] # q
               /\ \A p \in Requests : Replaces(p)' => previous'[p] # q
               /\ \A c \in Stops : Stopping(c)' => entry'[c] # q
    <3>1. q # r /\ pc[q] \in {"start", "begin"}
      BY <2>1, <2>3 DEF TypeOK, RequestTypes
    <3>2. reason'[q] = "none" /\ active'[Of[q]] # q /\ active[k] # q
      BY <2>1, <2>2, <3>1, SessionsAssumption DEF TypeOK, RunTypes, RunInv
    <3>3. ASSUME NEW p \in Requests, Replaces(p)' PROVE previous'[p] # q
      BY <2>1, <3>1, <3>2, <3>3 DEF TypeOK, RequestTypes, RunInv, Replaces
    <3>. QED  BY <2>1, <3>1, <3>2, <3>3 DEF RunInv, Stopping
  <2>4. ASSUME NEW q \in Requests, Replaces(q)'
        PROVE  /\ previous'[q] \in Requests /\ Of[previous'[q]] = Of[q]
               /\ active'[Of[q]] # previous'[q]
               /\ pc'[q] = "cancel" => reason'[previous'[q]] # "none"
    <3>1. CASE q = r
      BY <2>1, <2>2, <2>4, <3>1 DEF TypeOK, RunTypes, RequestTypes, Replaces, k
    <3>2. CASE q # r
      <4>1. Replaces(q) /\ previous'[q] = previous[q] /\ previous[q] # r
        BY <2>1, <2>4, <3>2 DEF TypeOK, RequestTypes, Replaces, RunInv
      <4>. QED  BY <2>1, <3>2, <4>1, SessionsAssumption DEF TypeOK, RunTypes, RequestTypes, RunInv, Replaces
    <3>. QED  BY <3>1, <3>2
  <2>. QED  BY <2>3, <2>4 DEF RunInv
<1>3. ASSUME NEW r \in Requests, Mark(r) PROVE RunInv'
  BY <1>3, SessionsAssumption DEF Mark, Goto, contentVars, stopVars, editVars, TypeOK,
    RunTypes, RequestTypes, OtherTypes, RunInv, Replaces, Stopping, FirstReason
<1>4. ASSUME NEW r \in Requests, Supersede(r) PROVE RunInv'
  BY <1>4, SessionsAssumption DEF Supersede, Goto, contentVars, stopVars, editVars, TypeOK,
    RunTypes, RequestTypes, OtherTypes, RunInv, Replaces, Stopping
<1>5. ASSUME NEW r \in Requests, Load(r) PROVE RunInv'
  BY <1>5, SessionsAssumption DEF Load, Goto, End, runVars, contentVars, stopVars, editVars,
    TypeOK, RunTypes, RequestTypes, OtherTypes, RunInv, Replaces, Stopping
<1>6. ASSUME NEW r \in Requests, Check(r) PROVE RunInv'
  BY <1>6, SessionsAssumption DEF Check, Goto, End, runVars, contentVars, stopVars, editVars,
    TypeOK, RunTypes, RequestTypes, OtherTypes, RunInv, Replaces, Stopping
<1>7. ASSUME NEW r \in Requests, Find(r) PROVE RunInv'
  BY <1>7, SessionsAssumption DEF Find, Goto, runVars, contentVars, stopVars, editVars, TypeOK,
    RunTypes, RequestTypes, OtherTypes, RunInv, Replaces, Stopping
<1>8. ASSUME NEW r \in Requests, Insert(r) PROVE RunInv'
  BY <1>8, SessionsAssumption DEF Insert, Goto, runVars, contentVars, stopVars, editVars,
    TypeOK, RunTypes, RequestTypes, OtherTypes, RunInv, Replaces, Stopping
<1>9. ASSUME NEW r \in Requests, SpawnFails(r) PROVE RunInv'
  BY <1>9, SessionsAssumption DEF SpawnFails, Goto, End, runVars, contentVars, stopVars,
    editVars, TypeOK, RunTypes, RequestTypes, OtherTypes, RunInv, Replaces, Stopping
<1>10. ASSUME NEW r \in Requests, Start(r) PROVE RunInv'
  BY <1>10, SessionsAssumption DEF Start, Goto, End, runVars, contentVars, stopVars, editVars,
    TypeOK, RunTypes, RequestTypes, OtherTypes, RunInv, Replaces, Stopping
<1>11. ASSUME NEW r \in Requests, TurnEnds(r) PROVE RunInv'
  BY <1>11, SessionsAssumption DEF TurnEnds, Goto, End, runVars, contentVars, stopVars,
    editVars, TypeOK, RunTypes, RequestTypes, OtherTypes, RunInv, Replaces, Stopping
<1>12. ASSUME NEW r \in Requests, Finish(r) PROVE RunInv'
  BY <1>12, SessionsAssumption DEF Finish, Goto, contentVars, stopVars, editVars, TypeOK,
    RunTypes, RequestTypes, OtherTypes, RunInv, Replaces, Stopping
<1>13. ASSUME NEW r \in Requests, Route(r) PROVE RunInv'
  BY <1>13, SessionsAssumption DEF Route, Goto, runVars, contentVars, stopVars, editVars,
    TypeOK, RunTypes, RequestTypes, OtherTypes, RunInv, Replaces, Stopping
<1>14. ASSUME NEW r \in Requests, Take(r) PROVE RunInv'
  BY <1>14, SessionsAssumption DEF Take, Goto, runVars, contentVars, stopVars, editVars,
    TypeOK, RunTypes, RequestTypes, OtherTypes, RunInv, Replaces, Stopping
<1>15. ASSUME NEW r \in Requests, Record(r) PROVE RunInv'
  BY <1>15, SessionsAssumption DEF Record, Goto, End, Change, runVars, contentVars, stopVars,
    editVars, TypeOK, RunTypes, RequestTypes, OtherTypes, RunInv, Replaces, Stopping
<1>16. ASSUME NEW r \in Requests, Save(r) PROVE RunInv'
  BY <1>16, SessionsAssumption DEF Save, Goto, End, Saved, NotSaved, runVars, stopVars,
    editVars, TypeOK, RunTypes, RequestTypes, OtherTypes, RunInv, Replaces, Stopping
<1>17. ASSUME NEW r \in Requests, Disconnect(r) PROVE RunInv'
  BY <1>17, SessionsAssumption DEF Disconnect, runVars, contentVars, stopVars, editVars,
    TypeOK, RunTypes, RequestTypes, OtherTypes, RunInv, Replaces, Stopping
<1>18. ASSUME NEW c \in Stops, StopReceive(c) PROVE RunInv'
  BY <1>18, SessionsAssumption DEF StopReceive, StopGoto, runVars, contentVars, requestVars,
    editVars, TypeOK, RunTypes, RequestTypes, OtherTypes, RunInv, Replaces, Stopping
<1>19. ASSUME NEW c \in Stops, StopClone(c) PROVE RunInv'

  <2>. DEFINE x == active[Target[c]]
  <2>1. /\ stopPc' = [stopPc EXCEPT ![c] = IF x = None THEN "done" ELSE "mark"]
        /\ entry' = [entry EXCEPT ![c] = x]
        /\ UNCHANGED <<active, reason, pc, previous>>
    BY <1>19 DEF StopClone, StopGoto, runVars, requestVars
  <2>2. x # None => x \in Requests /\ active[Of[x]] = x
    BY SessionsAssumption DEF TypeOK, RunTypes, Related
  <2>. HIDE DEF x
  <2>3. ASSUME NEW r \in Requests, pc[r] \in {"start", "begin"}, NEW d \in Stops, Stopping(d)'
        PROVE  entry'[d] # r
    <3>1. CASE d = c
      BY <2>1, <2>2, <2>3, <3>1 DEF RunInv, TypeOK, OtherTypes, Stopping
    <3>2. CASE d # c
      BY <2>1, <2>3, <3>2 DEF RunInv, TypeOK, OtherTypes, Stopping
    <3>. QED  BY <3>1, <3>2
  <2>. QED  BY <2>1, <2>3 DEF RunInv, Replaces
<1>20. ASSUME NEW c \in Stops, StopMark(c) PROVE RunInv'
  BY <1>20, SessionsAssumption DEF StopMark, StopGoto, contentVars, requestVars, editVars,
    TypeOK, RunTypes, RequestTypes, OtherTypes, RunInv, Replaces, Stopping, FirstReason
<1>21. ASSUME NEW c \in Stops, StopCancel(c) PROVE RunInv'
  BY <1>21, SessionsAssumption DEF StopCancel, StopGoto, contentVars, requestVars, editVars,
    TypeOK, RunTypes, RequestTypes, OtherTypes, RunInv, Replaces, Stopping
<1>22. CASE UNCHANGED <<active, reason, pc, previous, stopPc, entry>>
  BY <1>22 DEF TypeOK, RunTypes, RequestTypes, OtherTypes, RunInv, Replaces, Stopping
<1>23. ASSUME NEW r \in Requests, RequestStep(r) \/ Disconnect(r)
     PROVE  Receive(r) \/ Begin(r) \/ Mark(r) \/ Supersede(r) \/ Load(r) \/ Check(r) \/ Find(r)
            \/ Insert(r) \/ SpawnFails(r) \/ Start(r) \/ TurnEnds(r) \/ Finish(r) \/ Route(r)
            \/ Take(r) \/ Record(r) \/ Save(r) \/ Disconnect(r) \/ UNCHANGED <<active, reason,
            pc, previous, stopPc, entry>>
  BY <1>23 DEF RequestStep
<1>24. ASSUME NEW c \in Stops, StopStep(c)
     PROVE  StopReceive(c) \/ StopClone(c) \/ StopMark(c) \/ StopCancel(c) \/ UNCHANGED
            <<active, reason, pc, previous, stopPc, entry>>
  BY <1>24 DEF StopStep
<1>25. ASSUME NEW e \in Edits, EditBegins(e) \/ EditStep(e)
     PROVE  UNCHANGED <<active, reason, pc, previous, stopPc, entry>>
  BY <1>25 DEF EditBegins, EditStep, Edit, EditGoto, Choose, Change, runVars, requestVars,
    stopVars, EditSave, Saved, NotSaved, Delete, Erase, Reload, contentVars, Evict
<1>26. CASE UNCHANGED vars
  BY <1>26, <1>22 DEF vars, runVars, contentVars, requestVars, stopVars, editVars
<1>. QED  BY <1>1, <1>2, <1>3, <1>4, <1>5, <1>6, <1>7, <1>8, <1>9, <1>10, <1>11, <1>12, <1>13,
    <1>14, <1>15, <1>16, <1>17, <1>18, <1>19, <1>20, <1>21, <1>22, <1>23, <1>24, <1>25, <1>26
    DEF Next

\* A stop marks what it has copied before it cancels it.
LEMMA StopInvStep == TypeOK /\ RunInv /\ StopInv /\ [Next]_vars => StopInv'
<1>. SUFFICES ASSUME TypeOK, RunInv, StopInv, [Next]_vars PROVE StopInv'
  OBVIOUS
<1>1. ASSUME NEW r \in Requests, Mark(r) PROVE StopInv'
  BY <1>1, SessionsAssumption DEF Mark, Goto, contentVars, stopVars, editVars, TypeOK,
    RunTypes, RequestTypes, OtherTypes, StopInv, Stopping, FirstReason, RunInv, Replaces
<1>2. ASSUME NEW c \in Stops, StopReceive(c) PROVE StopInv'
  BY <1>2, SessionsAssumption DEF StopReceive, StopGoto, runVars, contentVars, requestVars,
    editVars, TypeOK, RunTypes, RequestTypes, OtherTypes, StopInv, Stopping
<1>3. ASSUME NEW c \in Stops, StopClone(c) PROVE StopInv'
  <2>1. PICK r : r = active[Target[c]]
    OBVIOUS
  <2>2. /\ stopPc[c] = "clone" /\ stopPc' = [stopPc EXCEPT ![c] = IF r = None THEN "done" ELSE "mark"]
        /\ entry' = [entry EXCEPT ![c] = r] /\ reason' = reason /\ won' = won
    BY <1>3, <2>1 DEF StopClone, StopGoto, runVars, requestVars
  <2>3. r # None => r \in Requests
    BY <2>1, SessionsAssumption DEF TypeOK, RunTypes
  <2>4. DOMAIN stopPc = Stops /\ DOMAIN entry = Stops
    BY DEF TypeOK, OtherTypes
  <2>5. ~won[c]
    BY <2>2 DEF StopInv
  <2>6. \A d \in Stops : d # c => stopPc'[d] = stopPc[d] /\ entry'[d] = entry[d]
    BY <2>2, <2>4
  <2>7. (Stopping(c)' => entry'[c] \in Requests) /\ stopPc'[c] # "cancel"
    BY <2>2, <2>3, <2>4 DEF Stopping
  <2>. QED  BY <2>2, <2>5, <2>6, <2>7 DEF StopInv, Stopping
<1>4. ASSUME NEW c \in Stops, StopMark(c) PROVE StopInv'
  BY <1>4, SessionsAssumption DEF StopMark, StopGoto, contentVars, requestVars, editVars,
    TypeOK, RunTypes, RequestTypes, OtherTypes, StopInv, Stopping, FirstReason
<1>5. ASSUME NEW c \in Stops, StopCancel(c) PROVE StopInv'
  BY <1>5, SessionsAssumption DEF StopCancel, StopGoto, contentVars, requestVars, editVars,
    TypeOK, RunTypes, RequestTypes, OtherTypes, StopInv, Stopping
<1>6. CASE UNCHANGED <<reason, stopPc, entry, won>>
  BY <1>6 DEF TypeOK, RunTypes, RequestTypes, OtherTypes, StopInv, Stopping
<1>7. ASSUME NEW r \in Requests, RequestStep(r) \/ Disconnect(r)
     PROVE  Mark(r) \/ UNCHANGED <<reason, stopPc, entry, won>>
  BY <1>7 DEF RequestStep, Receive, Goto, End, runVars, contentVars, stopVars, editVars, Begin,
    Supersede, Load, Check, Find, Insert, SpawnFails, Start, TurnEnds, Finish, Route, Take,
    Record, Change, Save, Saved, NotSaved, Disconnect
<1>8. ASSUME NEW c \in Stops, StopStep(c)
     PROVE  StopReceive(c) \/ StopClone(c) \/ StopMark(c) \/ StopCancel(c) \/ UNCHANGED
            <<reason, stopPc, entry, won>>
  BY <1>8 DEF StopStep
<1>9. ASSUME NEW e \in Edits, EditBegins(e) \/ EditStep(e)
     PROVE  UNCHANGED <<reason, stopPc, entry, won>>
  BY <1>9 DEF EditBegins, EditStep, Edit, EditGoto, Choose, Change, runVars, requestVars,
    stopVars, EditSave, Saved, NotSaved, Delete, Erase, Reload, contentVars, Evict
<1>10. CASE UNCHANGED vars
  BY <1>10, <1>6 DEF vars, runVars, contentVars, requestVars, stopVars, editVars
<1>. QED  BY <1>1, <1>2, <1>3, <1>4, <1>5, <1>6, <1>7, <1>8, <1>9, <1>10 DEF Next

\* No run that goes on is lost to the registry.
LEMMA StoppableStep == TypeOK /\ RunInv /\ RunIsStoppable /\ [Next]_vars => RunIsStoppable'
<1>. SUFFICES ASSUME TypeOK, RunInv, RunIsStoppable, [Next]_vars PROVE RunIsStoppable'
  OBVIOUS
<1>1. ASSUME NEW r \in Requests, Receive(r) PROVE RunIsStoppable'
  BY <1>1, SessionsAssumption DEF Receive, Goto, End, runVars, contentVars, stopVars, editVars,
    TypeOK, RunTypes, RequestTypes, OtherTypes, RunIsStoppable, Live
<1>2. ASSUME NEW r \in Requests, Begin(r) PROVE RunIsStoppable'

  <2>. DEFINE k == Of[r]
  <2>1. /\ k \in Keys /\ pc[r] = "begin"
        /\ active' = [active EXCEPT ![k] = r] /\ previous' = [previous EXCEPT ![r] = active[k]]
        /\ pc' = [pc EXCEPT ![r] = IF active[k] = None THEN "load" ELSE "mark"]
        /\ UNCHANGED cancelled
    BY <1>2, SessionsAssumption DEF Begin, Goto, runVars
  <2>. SUFFICES ASSUME NEW q \in Requests, Live(q)', active'[Of[q]] # q
                PROVE  \E p \in Requests : pc'[p] \in {"mark", "cancel"} /\ previous'[p] = q
    BY DEF RunIsStoppable
  <2>2. q # r /\ Live(q)
    BY <2>1 DEF Live, TypeOK, RequestTypes, RunTypes
  <2>3. CASE active[Of[q]] = q
    <3>1. Of[q] = k /\ active[k] = q /\ q # None
      BY <2>1, <2>3, SessionsAssumption DEF TypeOK, RunTypes
    <3>. QED  BY <2>1, <3>1 DEF TypeOK, RequestTypes
  <2>4. CASE active[Of[q]] # q
    <3>1. PICK p \in Requests : pc[p] \in {"mark", "cancel"} /\ previous[p] = q
      BY <2>2, <2>4 DEF RunIsStoppable
    <3>2. p # r
      BY <2>1, <3>1
    <3>. QED  BY <2>1, <3>1, <3>2 DEF TypeOK, RequestTypes
  <2>. QED  BY <2>3, <2>4
<1>3. ASSUME NEW r \in Requests, Mark(r) PROVE RunIsStoppable'
  BY <1>3, SessionsAssumption DEF Mark, Goto, contentVars, stopVars, editVars, TypeOK,
    RunTypes, RequestTypes, OtherTypes, RunIsStoppable, Live, RunInv, Replaces
<1>4. ASSUME NEW r \in Requests, Supersede(r) PROVE RunIsStoppable'
  BY <1>4, SessionsAssumption DEF Supersede, Goto, contentVars, stopVars, editVars, TypeOK,
    RunTypes, RequestTypes, OtherTypes, RunIsStoppable, Live, RunInv, Replaces
<1>5. ASSUME NEW r \in Requests, Load(r) PROVE RunIsStoppable'
  BY <1>5, SessionsAssumption DEF Load, Goto, End, runVars, contentVars, stopVars, editVars,
    TypeOK, RunTypes, RequestTypes, OtherTypes, RunIsStoppable, Live
<1>6. ASSUME NEW r \in Requests, Check(r) PROVE RunIsStoppable'
  BY <1>6, SessionsAssumption DEF Check, Goto, End, runVars, contentVars, stopVars, editVars,
    TypeOK, RunTypes, RequestTypes, OtherTypes, RunIsStoppable, Live
<1>7. ASSUME NEW r \in Requests, Find(r) PROVE RunIsStoppable'
  BY <1>7, SessionsAssumption DEF Find, Goto, runVars, contentVars, stopVars, editVars, TypeOK,
    RunTypes, RequestTypes, OtherTypes, RunIsStoppable, Live
<1>8. ASSUME NEW r \in Requests, Insert(r) PROVE RunIsStoppable'
  BY <1>8, SessionsAssumption DEF Insert, Goto, runVars, contentVars, stopVars, editVars,
    TypeOK, RunTypes, RequestTypes, OtherTypes, RunIsStoppable, Live
<1>9. ASSUME NEW r \in Requests, SpawnFails(r) PROVE RunIsStoppable'
  BY <1>9, SessionsAssumption DEF SpawnFails, Goto, End, runVars, contentVars, stopVars,
    editVars, TypeOK, RunTypes, RequestTypes, OtherTypes, RunIsStoppable, Live
<1>10. ASSUME NEW r \in Requests, Start(r) PROVE RunIsStoppable'
  BY <1>10, SessionsAssumption DEF Start, Goto, End, runVars, contentVars, stopVars, editVars,
    TypeOK, RunTypes, RequestTypes, OtherTypes, RunIsStoppable, Live
<1>11. ASSUME NEW r \in Requests, TurnEnds(r) PROVE RunIsStoppable'
  BY <1>11, SessionsAssumption DEF TurnEnds, Goto, End, runVars, contentVars, stopVars,
    editVars, TypeOK, RunTypes, RequestTypes, OtherTypes, RunIsStoppable, Live
<1>12. ASSUME NEW r \in Requests, Finish(r) PROVE RunIsStoppable'
  BY <1>12, SessionsAssumption DEF Finish, Goto, contentVars, stopVars, editVars, TypeOK,
    RunTypes, RequestTypes, OtherTypes, RunIsStoppable, Live
<1>13. ASSUME NEW r \in Requests, Route(r) PROVE RunIsStoppable'
  BY <1>13, SessionsAssumption DEF Route, Goto, runVars, contentVars, stopVars, editVars,
    TypeOK, RunTypes, RequestTypes, OtherTypes, RunIsStoppable, Live
<1>14. ASSUME NEW r \in Requests, Take(r) PROVE RunIsStoppable'
  BY <1>14, SessionsAssumption DEF Take, Goto, runVars, contentVars, stopVars, editVars,
    TypeOK, RunTypes, RequestTypes, OtherTypes, RunIsStoppable, Live
<1>15. ASSUME NEW r \in Requests, Record(r) PROVE RunIsStoppable'
  BY <1>15, SessionsAssumption DEF Record, Goto, End, Change, runVars, contentVars, stopVars,
    editVars, TypeOK, RunTypes, RequestTypes, OtherTypes, RunIsStoppable, Live
<1>16. ASSUME NEW r \in Requests, Save(r) PROVE RunIsStoppable'
  BY <1>16, SessionsAssumption DEF Save, Goto, End, Saved, NotSaved, runVars, stopVars,
    editVars, TypeOK, RunTypes, RequestTypes, OtherTypes, RunIsStoppable, Live
<1>17. ASSUME NEW r \in Requests, Disconnect(r) PROVE RunIsStoppable'
  BY <1>17, SessionsAssumption DEF Disconnect, runVars, contentVars, stopVars, editVars,
    TypeOK, RunTypes, RequestTypes, OtherTypes, RunIsStoppable, Live
<1>18. ASSUME NEW c \in Stops, StopCancel(c) PROVE RunIsStoppable'
  BY <1>18, SessionsAssumption DEF StopCancel, StopGoto, contentVars, requestVars, editVars,
    TypeOK, RunTypes, RequestTypes, OtherTypes, RunIsStoppable, Live
<1>19. CASE UNCHANGED <<active, cancelled, pc, previous>>
  BY <1>19 DEF TypeOK, RunTypes, RequestTypes, OtherTypes, RunIsStoppable, Live
<1>20. ASSUME NEW r \in Requests, RequestStep(r) \/ Disconnect(r)
     PROVE  Receive(r) \/ Begin(r) \/ Mark(r) \/ Supersede(r) \/ Load(r) \/ Check(r) \/ Find(r)
            \/ Insert(r) \/ SpawnFails(r) \/ Start(r) \/ TurnEnds(r) \/ Finish(r) \/ Route(r)
            \/ Take(r) \/ Record(r) \/ Save(r) \/ Disconnect(r) \/ UNCHANGED <<active,
            cancelled, pc, previous>>
  BY <1>20 DEF RequestStep
<1>21. ASSUME NEW c \in Stops, StopStep(c)
     PROVE  StopCancel(c) \/ UNCHANGED <<active, cancelled, pc, previous>>
  BY <1>21 DEF StopStep, StopReceive, StopGoto, runVars, contentVars, requestVars, editVars,
    StopClone, StopMark
<1>22. ASSUME NEW e \in Edits, EditBegins(e) \/ EditStep(e)
     PROVE  UNCHANGED <<active, cancelled, pc, previous>>
  BY <1>22 DEF EditBegins, EditStep, Edit, EditGoto, Choose, Change, runVars, requestVars,
    stopVars, EditSave, Saved, NotSaved, Delete, Erase, Reload, contentVars, Evict
<1>23. CASE UNCHANGED vars
  BY <1>23, <1>19 DEF vars, runVars, contentVars, requestVars, stopVars, editVars
<1>. QED  BY <1>1, <1>2, <1>3, <1>4, <1>5, <1>6, <1>7, <1>8, <1>9, <1>10, <1>11, <1>12, <1>13,
    <1>14, <1>15, <1>16, <1>17, <1>18, <1>19, <1>20, <1>21, <1>22, <1>23 DEF Next

\* The first reason stays.
LEMMA ReasonStep == TypeOK /\ RunInv /\ StopInv /\ ReasonIsTrue /\ [Next]_vars => ReasonIsTrue'
<1>. SUFFICES ASSUME TypeOK, RunInv, StopInv, ReasonIsTrue, [Next]_vars PROVE ReasonIsTrue'
  OBVIOUS
<1>1. ASSUME NEW r \in Requests, Receive(r) PROVE ReasonIsTrue'
  BY <1>1, SessionsAssumption DEF Receive, Goto, End, runVars, contentVars, stopVars, editVars,
    TypeOK, RunTypes, RequestTypes, OtherTypes, ReasonIsTrue
<1>2. ASSUME NEW r \in Requests, Begin(r) PROVE ReasonIsTrue'
  BY <1>2, SessionsAssumption DEF Begin, Goto, contentVars, stopVars, editVars, TypeOK,
    RunTypes, RequestTypes, OtherTypes, ReasonIsTrue, RunInv
<1>3. ASSUME NEW r \in Requests, Mark(r) PROVE ReasonIsTrue'
  BY <1>3, SessionsAssumption DEF Mark, Goto, contentVars, stopVars, editVars, TypeOK,
    RunTypes, RequestTypes, OtherTypes, ReasonIsTrue, RunInv, Replaces, FirstReason
<1>4. ASSUME NEW r \in Requests, Load(r) PROVE ReasonIsTrue'
  BY <1>4, SessionsAssumption DEF Load, Goto, End, runVars, contentVars, stopVars, editVars,
    TypeOK, RunTypes, RequestTypes, OtherTypes, ReasonIsTrue
<1>5. ASSUME NEW r \in Requests, Check(r) PROVE ReasonIsTrue'
  BY <1>5, SessionsAssumption DEF Check, Goto, End, runVars, contentVars, stopVars, editVars,
    TypeOK, RunTypes, RequestTypes, OtherTypes, ReasonIsTrue, Related
<1>6. ASSUME NEW r \in Requests, SpawnFails(r) PROVE ReasonIsTrue'
  BY <1>6, SessionsAssumption DEF SpawnFails, Goto, End, runVars, contentVars, stopVars,
    editVars, TypeOK, RunTypes, RequestTypes, OtherTypes, ReasonIsTrue
<1>7. ASSUME NEW r \in Requests, Start(r) PROVE ReasonIsTrue'
  BY <1>7, SessionsAssumption DEF Start, Goto, End, runVars, contentVars, stopVars, editVars,
    TypeOK, RunTypes, RequestTypes, OtherTypes, ReasonIsTrue, Related
<1>8. ASSUME NEW r \in Requests, TurnEnds(r) PROVE ReasonIsTrue'
  BY <1>8, SessionsAssumption DEF TurnEnds, Goto, End, runVars, contentVars, stopVars,
    editVars, TypeOK, RunTypes, RequestTypes, OtherTypes, ReasonIsTrue, Related
<1>9. ASSUME NEW r \in Requests, Finish(r) PROVE ReasonIsTrue'
  BY <1>9, SessionsAssumption DEF Finish, Goto, contentVars, stopVars, editVars, TypeOK,
    RunTypes, RequestTypes, OtherTypes, ReasonIsTrue
<1>10. ASSUME NEW r \in Requests, Record(r) PROVE ReasonIsTrue'
  BY <1>10, SessionsAssumption DEF Record, Goto, End, Change, runVars, contentVars, stopVars,
    editVars, TypeOK, RunTypes, RequestTypes, OtherTypes, ReasonIsTrue
<1>11. ASSUME NEW r \in Requests, Save(r) PROVE ReasonIsTrue'
  BY <1>11, SessionsAssumption DEF Save, Goto, End, Saved, NotSaved, runVars, stopVars,
    editVars, TypeOK, RunTypes, RequestTypes, OtherTypes, ReasonIsTrue
<1>12. ASSUME NEW c \in Stops, StopClone(c) PROVE ReasonIsTrue'
  BY <1>12, SessionsAssumption DEF StopClone, StopGoto, runVars, contentVars, requestVars,
    editVars, TypeOK, RunTypes, RequestTypes, OtherTypes, ReasonIsTrue, StopInv
<1>13. ASSUME NEW c \in Stops, StopMark(c) PROVE ReasonIsTrue'

  <2>. DEFINE x == entry[c]
  <2>1. /\ stopPc[c] = "mark" /\ ~won[c] /\ x \in Requests
        /\ won' = [won EXCEPT ![c] = (reason[x] = "none")]
        /\ reason' = [reason EXCEPT ![x] = IF reason[x] = "none" THEN "stopped" ELSE reason[x]]
        /\ UNCHANGED <<active, entry, outcome>>
    BY <1>13 DEF StopMark, StopGoto, requestVars, FirstReason, StopInv, Stopping, TypeOK, RunTypes
  <2>2. \A r \in Requests : r # x \/ reason[r] # "none" => reason'[r] = reason[r]
    BY <2>1 DEF TypeOK, RunTypes
  <2>3. /\ \A d \in Stops : d # c => won'[d] = won[d]
        /\ won'[c] <=> reason[x] = "none"
    BY <2>1 DEF TypeOK, OtherTypes
  <2>4. CASE reason[x] = "none"
    <3>1. reason'[x] = "stopped"
      BY <2>1, <2>4 DEF TypeOK, RunTypes
    <3>2. \A d \in Stops : won[d] => entry[d] # x
      BY <2>4 DEF ReasonIsTrue
    <3>. HIDE DEF x
    <3>3. \A d \in Stops : won'[d] =>
            /\ reason'[entry[d]] = "stopped"
            /\ \A b \in Stops : won'[b] /\ entry[b] = entry[d] => b = d
      BY <2>2, <2>3, <2>4, <3>1, <3>2 DEF ReasonIsTrue, x, StopInv
    <3>4. \A r \in Requests : /\ reason'[r] = "stopped" => \E d \in Stops : won'[d] /\ entry[d] = r
                              /\ reason'[r] = "superseded" => active[Of[r]] # r
                              /\ outcome[r] \in {"stopped", "superseded"} => outcome[r] = reason'[r]
      BY <2>2, <2>3, <2>4, <3>1 DEF ReasonIsTrue, x
    <3>. QED  BY <2>1, <3>3, <3>4 DEF ReasonIsTrue
  <2>5. CASE reason[x] # "none"
    <3>1. reason' = reason /\ won' = won
      BY <2>1, <2>5 DEF TypeOK, RunTypes, OtherTypes
    <3>. QED  BY <2>1, <3>1 DEF ReasonIsTrue
  <2>. QED  BY <2>4, <2>5
<1>14. CASE UNCHANGED <<active, reason, entry, won, outcome>>
  BY <1>14 DEF TypeOK, RunTypes, RequestTypes, OtherTypes, ReasonIsTrue
<1>15. ASSUME NEW r \in Requests, RequestStep(r) \/ Disconnect(r)
     PROVE  Receive(r) \/ Begin(r) \/ Mark(r) \/ Load(r) \/ Check(r) \/ SpawnFails(r) \/
            Start(r) \/ TurnEnds(r) \/ Finish(r) \/ Record(r) \/ Save(r) \/ UNCHANGED <<active,
            reason, entry, won, outcome>>
  BY <1>15 DEF RequestStep, Supersede, Goto, contentVars, stopVars, editVars, Find, runVars,
    Insert, Route, Take, Disconnect
<1>16. ASSUME NEW c \in Stops, StopStep(c)
     PROVE  StopClone(c) \/ StopMark(c) \/ UNCHANGED <<active, reason, entry, won, outcome>>
  BY <1>16 DEF StopStep, StopReceive, StopGoto, runVars, contentVars, requestVars, editVars,
    StopCancel
<1>17. ASSUME NEW e \in Edits, EditBegins(e) \/ EditStep(e)
     PROVE  UNCHANGED <<active, reason, entry, won, outcome>>
  BY <1>17 DEF EditBegins, EditStep, Edit, EditGoto, Choose, Change, runVars, requestVars,
    stopVars, EditSave, Saved, NotSaved, Delete, Erase, Reload, contentVars, Evict
<1>18. CASE UNCHANGED vars
  BY <1>18, <1>14 DEF vars, runVars, contentVars, requestVars, stopVars, editVars
<1>. QED  BY <1>1, <1>2, <1>3, <1>4, <1>5, <1>6, <1>7, <1>8, <1>9, <1>10, <1>11, <1>12, <1>13,
    <1>14, <1>15, <1>16, <1>17, <1>18 DEF Next

\* A step that neither begins nor ends a save leaves what was saved alone as it is.
LEMMA SaveFrame ==
    ASSUME SaveInv, TypeOK, UNCHANGED <<contentVars, editVars>>,
           \A q \in Requests : /\ pc'[q] = "save" <=> pc[q] = "save"
                               /\ outcome'[q] = "ok" /\ pc'[q] = "done" =>
                                    outcome[q] = "ok" /\ pc[q] = "done"
    PROVE  SaveInv'
<1>1. \A k \in Keys : Pending(k)' = Pending(k)
  BY DEF Pending, contentVars, editVars
<1>2. \A k \in Keys : Alone(k) => Alone(k)'
  BY <1>1 DEF Alone, Deleting, contentVars, editVars, TypeOK, ContentTypes, Contents
<1>. QED  BY <1>1, <1>2 DEF SaveInv, Deleting, contentVars, editVars

\* A change that begins while none of its session is being saved is saved alone.
LEMMA ChangeStep ==
    ASSUME TypeOK, SaveInv, NEW k \in known, NEW w \in Writers,
           NEW content \in SUBSET {q \in Requests : Of[q] = k}, Change(w, k, content),
           \A j \in Keys : /\ w \notin Pending(j)
                           /\ Pending(j)' = IF j = k THEN Pending(k) \cup {w} ELSE Pending(j),
           \A e \in Edits : e # w => /\ editPc'[e] = editPc[e] /\ key'[e] = key[e]
                                     /\ operation'[e] = operation[e],
           w \in Edits => editPc'[w] = "save" /\ key'[w] = k /\ operation'[w] # "delete",
           \A q \in Requests : outcome'[q] = "ok" /\ pc'[q] = "done" =>
                                    outcome[q] = "ok" /\ pc[q] = "done",
           content \subseteq sessions[k] \cup {q \in Requests : pc'[q] # "done"}
    PROVE  SaveInv'
<1>. k \in Keys
  BY DEF TypeOK, ContentTypes
<1>1. /\ sessions' = [sessions EXCEPT ![k] = content] /\ copy' = [copy EXCEPT ![w] = content]
      /\ UNCHANGED <<known, stored, disk>>
      /\ overlapped \subseteq overlapped' /\ (k \notin overlapped' => Pending(k) = {})
  BY DEF Change
<1>2. \A j \in Keys : sessions'[j] = IF j = k THEN content ELSE sessions[j]
  BY <1>1 DEF TypeOK, ContentTypes
<1>3. \A x \in Writers : copy'[x] = IF x = w THEN content ELSE copy[x]
  BY <1>1 DEF TypeOK, ContentTypes
<1>4. \A j \in Keys, e \in Edits : Deleting(e, j)' => Deleting(e, j) /\ editPc'[e] = editPc[e]
  BY DEF Deleting
<1>5. ASSUME NEW j \in Keys \ overlapped' PROVE Alone(j)'
  <2>1. j \notin overlapped /\ Alone(j)
    BY <1>1 DEF SaveInv
  <2>2. CASE j = k
    <3>1. Pending(k)' = {w}
      BY <1>1, <2>2
    <3>2. k \in known' /\ copy'[w] = sessions'[k]
      BY <1>1, <1>2, <1>3
    <3>3. \A r \in sessions'[k] : outcome'[r] = "ok" /\ pc'[r] = "done" => r \in disk'[k]
      BY <1>1, <1>2, <2>1, <2>2 DEF Alone
    <3>4. \A e \in Edits : ~Deleting(e, k)
      BY DEF SaveInv
    <3>. QED  BY <1>4, <2>2, <3>1, <3>2, <3>3, <3>4 DEF Alone
  <2>3. CASE j # k
    <3>1. Pending(j)' = Pending(j) /\ sessions'[j] = sessions[j]
      BY <1>2, <2>3
    <3>2. \A x \in Pending(j) : x # w /\ copy'[x] = copy[x] /\ (x \in Edits => editPc'[x] = editPc[x])
      BY <1>3 DEF Pending, Writers
    <3>3. \A x \in Pending(j) : x \in Requests \/ x \in Edits
      BY DEF Pending
    <3>4. \A r \in sessions[j] : r \in Requests
      BY DEF TypeOK, ContentTypes, Contents
    <3>. QED  BY <1>1, <1>4, <2>1, <3>1, <3>2, <3>3, <3>4 DEF Alone
  <2>. QED  BY <2>2, <2>3
<1>6. /\ \A j \in Keys : \A r \in sessions'[j] : Of[r] = j
      /\ \A j \in Keys \ known' : sessions'[j] = {}
  BY <1>1, <1>2 DEF SaveInv
<1>7. \A j \in Keys, e \in Edits : Deleting(e, j)' => j \notin known'
  BY <1>1, <1>4 DEF SaveInv
<1>8. \A e \in Edits : /\ editPc'[e] \in {"save", "erase"} => key'[e] \in Keys
                       /\ editPc'[e] = "erase" => operation'[e] = "delete"
                       /\ editPc'[e] = "evict" => operation'[e] \in {"delete", "reload"}
                       /\ editPc'[e] = "save" => operation'[e] # "delete"
  BY DEF SaveInv
<1>. QED  BY <1>5, <1>6, <1>7, <1>8 DEF SaveInv

\* A save that ends, or fails, leaves nothing of its session to be saved if it was alone.
LEMMA SaveEnds ==
    ASSUME TypeOK, SaveInv, NEW k \in Keys, NEW w \in Pending(k),
           \/ Saved(w, k)
           \/ NotSaved(w) /\ (w \in Requests => outcome'[w] # "ok"),
           w \in Requests \/ editPc[w] = "save",
           \A j \in Keys : Pending(j)' = IF j = k THEN Pending(k) \ {w} ELSE Pending(j),
           \A e \in Edits : IF e = w THEN editPc'[e] = "done" ELSE editPc'[e] = editPc[e],
           UNCHANGED <<operation, key>>,
           \A q \in Requests : q # w => pc'[q] = pc[q] /\ outcome'[q] = outcome[q]
    PROVE  SaveInv'
<1>1. /\ w \in Writers
      /\ \A j \in Keys : w \in Pending(j) => j = k
      /\ w \in Requests => Of[w] = k
  BY SessionsAssumption DEF Pending, Writers
<1>2. /\ copy' = [copy EXCEPT ![w] = {}] /\ UNCHANGED <<known, sessions, overlapped>>
      /\ \A j \in Keys : j # k => disk'[j] = disk[j] /\ (j \in stored' => j \in stored)
  BY DEF Saved, NotSaved, TypeOK, ContentTypes
<1>3. \A x \in Writers : x # w => copy'[x] = copy[x]
  BY <1>2 DEF TypeOK, ContentTypes
<1>4. \A j \in Keys, e \in Edits : Deleting(e, j)' => Deleting(e, j) /\ editPc'[e] = editPc[e]
  BY DEF Deleting
<1>5. ASSUME NEW j \in Keys \ overlapped' PROVE Alone(j)'
  <2>1. j \notin overlapped /\ Alone(j)
    BY <1>2 DEF SaveInv
  <2>2. \A r \in sessions[j] : r \in Requests
    BY DEF TypeOK, ContentTypes, Contents
  <2>3. CASE j = k
    <3>1. Pending(k) = {w} /\ Pending(k)' = {}
      BY <2>1, <2>3 DEF Alone
    <3>2. k \in known /\ copy[w] = sessions[k]
      BY <2>1, <2>3 DEF Alone
    <3>3. \A e \in Edits : ~Deleting(e, k)
      BY <3>2 DEF SaveInv
    <3>4. ASSUME NEW r \in sessions[k], outcome'[r] = "ok" /\ pc'[r] = "done" PROVE r \in disk'[k]
      <4>1. CASE Saved(w, k)
        BY <3>2, <4>1 DEF Saved, TypeOK, ContentTypes
      <4>2. CASE NotSaved(w) /\ (w \in Requests => outcome'[w] # "ok")
        BY <2>1, <2>2, <2>3, <3>4, <4>2 DEF NotSaved, Alone
      <4>. QED  BY <4>1, <4>2
    <3>. QED  BY <1>2, <1>4, <2>3, <3>1, <3>3, <3>4 DEF Alone
  <2>4. CASE j # k
    <3>1. Pending(j)' = Pending(j)
      BY <2>4
    <3>2. \A x \in Pending(j) : x # w /\ copy'[x] = copy[x] /\ (x \in Edits => editPc'[x] = editPc[x])
      BY <1>1, <1>3, <2>4 DEF Pending, Writers
    <3>3. \A x \in Pending(j) : x \in Requests \/ x \in Edits
      BY DEF Pending
    <3>4. \A r \in sessions[j] : r # w
      BY <1>1, <2>2, <2>4 DEF SaveInv
    <3>. QED  BY <1>2, <1>4, <2>1, <2>2, <2>4, <3>1, <3>2, <3>3, <3>4 DEF Alone
  <2>. QED  BY <2>3, <2>4
<1>. QED  BY <1>2, <1>4, <1>5 DEF SaveInv

\* What is saved alone is saved as it is.
LEMMA SaveStep == TypeOK /\ SaveInv /\ [Next]_vars => SaveInv'
<1>. SUFFICES ASSUME TypeOK, SaveInv, [Next]_vars PROVE SaveInv'
  OBVIOUS
<1>1. ASSUME NEW r \in Requests, Receive(r) PROVE SaveInv'
  BY <1>1, SaveFrame DEF Receive, Goto, End, runVars, stopVars, TypeOK, RequestTypes
<1>2. ASSUME NEW r \in Requests, Begin(r) PROVE SaveInv'
  BY <1>2, SaveFrame DEF Begin, Goto, stopVars, TypeOK, RequestTypes
<1>3. ASSUME NEW r \in Requests, Mark(r) PROVE SaveInv'
  BY <1>3, SaveFrame DEF Mark, Goto, stopVars, TypeOK, RequestTypes
<1>4. ASSUME NEW r \in Requests, Supersede(r) PROVE SaveInv'
  BY <1>4, SaveFrame DEF Supersede, Goto, stopVars, TypeOK, RequestTypes
<1>5. ASSUME NEW r \in Requests, Load(r) PROVE SaveInv'
  BY <1>5, SaveFrame DEF Load, Goto, End, runVars, stopVars, TypeOK, RequestTypes
<1>6. ASSUME NEW r \in Requests, Check(r) PROVE SaveInv'
  BY <1>6, SaveFrame DEF Check, Goto, End, runVars, stopVars, TypeOK, RequestTypes
<1>7. ASSUME NEW r \in Requests, Find(r) PROVE SaveInv'
  BY <1>7, SaveFrame DEF Find, Goto, runVars, stopVars, TypeOK, RequestTypes
<1>8. ASSUME NEW r \in Requests, Insert(r) PROVE SaveInv'
  BY <1>8, SaveFrame DEF Insert, Goto, runVars, stopVars, TypeOK, RequestTypes
<1>9. ASSUME NEW r \in Requests, SpawnFails(r) PROVE SaveInv'
  BY <1>9, SaveFrame DEF SpawnFails, Goto, End, runVars, stopVars, TypeOK, RequestTypes
<1>10. ASSUME NEW r \in Requests, Start(r) PROVE SaveInv'
  BY <1>10, SaveFrame DEF Start, Goto, End, runVars, stopVars, TypeOK, RequestTypes
<1>11. ASSUME NEW r \in Requests, TurnEnds(r) PROVE SaveInv'
  BY <1>11, SaveFrame DEF TurnEnds, Goto, End, runVars, stopVars, TypeOK, RequestTypes
<1>12. ASSUME NEW r \in Requests, Finish(r) PROVE SaveInv'
  BY <1>12, SaveFrame DEF Finish, Goto, stopVars, TypeOK, RequestTypes
<1>13. ASSUME NEW r \in Requests, Route(r) PROVE SaveInv'
  BY <1>13, SaveFrame DEF Route, Goto, runVars, stopVars, TypeOK, RequestTypes
<1>14. ASSUME NEW r \in Requests, Take(r) PROVE SaveInv'
  BY <1>14, SaveFrame DEF Take, Goto, runVars, stopVars, TypeOK, RequestTypes
<1>15. ASSUME NEW r \in Requests, Record(r) PROVE SaveInv'

  <2>. DEFINE k == Of[r]
              content == sessions[k] \cup {r}
  <2>1. CASE k \notin known
    BY <1>15, <2>1, SaveFrame DEF Record, Goto, End, editVars, TypeOK, RequestTypes
  <2>2. CASE k \in known
    <3>1. /\ k \in Keys /\ pc[r] = "record" /\ pc' = [pc EXCEPT ![r] = "save"]
          /\ UNCHANGED <<outcome, editPc, operation, key>> /\ Change(r, k, content)
      BY <1>15, <2>2, SessionsAssumption DEF Record, Goto, editVars
    <3>2. content \in SUBSET {q \in Requests : Of[q] = k} /\ r \in Writers /\ r \notin Edits
      BY <3>1, SessionsAssumption DEF SaveInv, Writers, TypeOK, ContentTypes, Contents
    <3>3. \A j \in Keys : /\ r \notin Pending(j)
                          /\ Pending(j)' = IF j = k THEN Pending(k) \cup {r} ELSE Pending(j)
      BY <3>1, <3>2 DEF Pending, TypeOK, RequestTypes
    <3>4. \A q \in Requests : pc'[q] = IF q = r THEN "save" ELSE pc[q]
      BY <3>1 DEF TypeOK, RequestTypes
    <3>5. /\ \A q \in Requests : outcome'[q] = "ok" /\ pc'[q] = "done" =>
                                    outcome[q] = "ok" /\ pc[q] = "done"
          /\ content \subseteq sessions[k] \cup {q \in Requests : pc'[q] # "done"}
      BY <3>1, <3>4
    <3>. HIDE DEF k, content
    <3>. QED  BY <2>2, <3>1, <3>2, <3>3, <3>5, ChangeStep
  <2>. QED  BY <2>1, <2>2
<1>16. ASSUME NEW r \in Requests, Save(r) PROVE SaveInv'

  <2>. DEFINE k == Of[r]
  <2>1. /\ k \in Keys /\ pc[r] = "save" /\ pc' = [pc EXCEPT ![r] = "done"]
        /\ UNCHANGED <<editPc, operation, key>> /\ r \notin Edits
    BY <1>16, SessionsAssumption DEF Save, Goto, End, editVars
  <2>2. \A j \in Keys : Pending(j)' = IF j = k THEN Pending(k) \ {r} ELSE Pending(j)
    BY <2>1, SessionsAssumption DEF Pending, TypeOK, RequestTypes
  <2>3. r \in Pending(k)
    BY <2>1 DEF Pending
  <2>4. \A q \in Requests : q # r => pc'[q] = pc[q] /\ outcome'[q] = outcome[q]
    BY <1>16, <2>1 DEF Save, End, TypeOK, RequestTypes
  <2>5. Saved(r, k) \/ (NotSaved(r) /\ outcome'[r] # "ok")
    <3>1. CASE End(r, "save", "done", "failed") /\ NotSaved(r)
      BY <3>1 DEF End, TypeOK, RequestTypes
    <3>. QED  BY <1>16, <3>1 DEF Save
  <2>. HIDE DEF k
  <2>. QED  BY <2>1, <2>2, <2>3, <2>4, <2>5, SaveEnds
<1>17. ASSUME NEW r \in Requests, Disconnect(r) PROVE SaveInv'
  BY <1>17, SaveFrame DEF Disconnect, runVars, stopVars, TypeOK, RequestTypes
<1>18. ASSUME NEW e \in Edits, NEW k \in Keys, NEW op \in {"clear", "edit"}, Edit(e, op, k) PROVE SaveInv'

  <2>. DEFINE content == IF op = "clear" THEN {} ELSE sessions[k]
  <2>1. /\ k \in known /\ editPc[e] = "start" /\ editPc' = [editPc EXCEPT ![e] = "save"]
        /\ operation' = [operation EXCEPT ![e] = op] /\ key' = [key EXCEPT ![e] = k]
        /\ UNCHANGED <<pc, outcome>> /\ Change(e, k, content)
    BY <1>18 DEF Edit, EditGoto, Choose, requestVars
  <2>2. content \in SUBSET {q \in Requests : Of[q] = k} /\ e \in Writers
    BY <2>1 DEF SaveInv, Writers, TypeOK, ContentTypes, Contents
  <2>3. \A d \in Edits :
          /\ d # e => editPc'[d] = editPc[d] /\ key'[d] = key[d] /\ operation'[d] = operation[d]
          /\ d = e => editPc'[d] = "save" /\ key'[d] = k /\ operation'[d] = op
    BY <2>1 DEF TypeOK, OtherTypes
  <2>4. \A j \in Keys : /\ e \notin Pending(j)
                        /\ Pending(j)' = IF j = k THEN Pending(k) \cup {e} ELSE Pending(j)
    BY <2>1, <2>3, SessionsAssumption DEF Pending
  <2>5. content \subseteq sessions[k]
    OBVIOUS
  <2>. HIDE DEF content
  <2>. QED  BY <2>1, <2>2, <2>3, <2>4, <2>5, ChangeStep
<1>19. ASSUME NEW e \in Edits, EditSave(e) PROVE SaveInv'

  <2>. DEFINE k == key[e]
  <2>1. /\ editPc[e] = "save" /\ editPc' = [editPc EXCEPT ![e] = "done"]
        /\ UNCHANGED <<pc, outcome, operation, key>> /\ (Saved(e, k) \/ NotSaved(e))
        /\ e \notin Requests
    BY <1>19, SessionsAssumption DEF EditSave, EditGoto, requestVars
  <2>2. k \in Keys /\ e \in Pending(k)
    BY <2>1 DEF SaveInv, Pending
  <2>3. \A d \in Edits : IF d = e THEN editPc'[d] = "done" ELSE editPc'[d] = editPc[d]
    BY <2>1 DEF TypeOK, OtherTypes
  <2>4. \A j \in Keys : Pending(j)' = IF j = k THEN Pending(k) \ {e} ELSE Pending(j)
    BY <2>1, <2>3 DEF Pending
  <2>. HIDE DEF k
  <2>. QED  BY <2>1, <2>2, <2>3, <2>4, SaveEnds
<1>20. ASSUME NEW e \in Edits, NEW k \in Keys, Delete(e, k) PROVE SaveInv'

  <2>1. /\ k \in known /\ editPc[e] = "start" /\ editPc' = [editPc EXCEPT ![e] = "erase"]
        /\ operation' = [operation EXCEPT ![e] = "delete"] /\ key' = [key EXCEPT ![e] = k]
        /\ known' = known \ {k} /\ sessions' = [sessions EXCEPT ![k] = {}]
        /\ overlapped' = IF Pending(k) = {} THEN overlapped ELSE overlapped \cup {k}
        /\ UNCHANGED <<pc, outcome, stored, disk, copy>>
    BY <1>20 DEF Delete, EditGoto, Choose, requestVars
  <2>2. \A d \in Edits :
          /\ d # e => editPc'[d] = editPc[d] /\ key'[d] = key[d] /\ operation'[d] = operation[d]
          /\ d = e => editPc'[d] = "erase" /\ key'[d] = k /\ operation'[d] = "delete"
    BY <2>1 DEF TypeOK, OtherTypes
  <2>3. \A j \in Keys : Pending(j)' = IF j = k THEN Pending(k) \cup {e} ELSE Pending(j)
    BY <2>1, <2>2 DEF Pending
  <2>4. \A j \in Keys : sessions'[j] = IF j = k THEN {} ELSE sessions[j]
    BY <2>1 DEF TypeOK, ContentTypes
  <2>5. ASSUME NEW j \in Keys \ overlapped' PROVE Alone(j)'
    <3>1. j \notin overlapped /\ Alone(j)
      BY <2>1, <2>5 DEF SaveInv
    <3>2. CASE j = k
      <4>1. Pending(k)' = {e} /\ e \notin Requests
        BY <2>1, <2>3, <2>5, <3>2, SessionsAssumption
      <4>2. \A d \in Edits : ~(Deleting(d, k)' /\ editPc'[d] = "evict")
        BY <2>1, <2>2 DEF SaveInv, Deleting
      <4>. QED  BY <2>2, <2>4, <3>2, <4>1, <4>2 DEF Alone
    <3>3. CASE j # k
      <4>1. \A d \in Edits : Deleting(d, j)' => Deleting(d, j) /\ editPc'[d] = editPc[d]
        BY <2>2, <3>3 DEF Deleting
      <4>2. \A x \in Pending(j) : x \in Requests \/ (x \in Edits /\ x # e)
        BY <2>1 DEF Pending
      <4>. QED  BY <2>1, <2>2, <2>3, <2>4, <3>1, <3>3, <4>1, <4>2 DEF Alone
    <3>. QED  BY <3>2, <3>3
  <2>6. \A d \in Edits, j \in Keys : Deleting(d, j)' => j \notin known'
    BY <2>1, <2>2 DEF SaveInv, Deleting
  <2>. QED  BY <2>1, <2>2, <2>4, <2>5, <2>6, SessionsAssumption DEF SaveInv, TypeOK, ContentTypes
<1>21. ASSUME NEW e \in Edits, Erase(e) PROVE SaveInv'
  BY <1>21 DEF Erase, EditGoto, runVars, requestVars, stopVars, TypeOK, RequestTypes, SaveInv,
    Alone, Deleting, Pending, OtherTypes, ContentTypes
<1>22. ASSUME NEW e \in Edits, Reload(e) PROVE SaveInv'
  BY <1>22 DEF Reload, EditGoto, runVars, contentVars, requestVars, stopVars, TypeOK,
    RequestTypes, SaveInv, Alone, Deleting, Pending, OtherTypes, ContentTypes
<1>23. ASSUME NEW e \in Edits, Evict(e) PROVE SaveInv'
  BY <1>23 DEF Evict, EditGoto, runVars, contentVars, requestVars, stopVars, TypeOK,
    RequestTypes, SaveInv, Alone, Deleting, Pending, OtherTypes, ContentTypes
<1>24. CASE UNCHANGED <<known, sessions, stored, disk, copy, overlapped, pc, outcome, editPc,
    operation, key>>
  BY <1>24 DEF TypeOK, RequestTypes, SaveInv, Alone, Deleting, Pending
<1>25. ASSUME NEW r \in Requests, RequestStep(r) \/ Disconnect(r)
     PROVE  Receive(r) \/ Begin(r) \/ Mark(r) \/ Supersede(r) \/ Load(r) \/ Check(r) \/ Find(r)
            \/ Insert(r) \/ SpawnFails(r) \/ Start(r) \/ TurnEnds(r) \/ Finish(r) \/ Route(r)
            \/ Take(r) \/ Record(r) \/ Save(r) \/ Disconnect(r) \/ UNCHANGED <<known, sessions,
            stored, disk, copy, overlapped, pc, outcome, editPc, operation, key>>
  BY <1>25 DEF RequestStep
<1>26. ASSUME NEW c \in Stops, StopStep(c)
     PROVE  UNCHANGED <<known, sessions, stored, disk, copy, overlapped, pc, outcome, editPc,
            operation, key>>
  BY <1>26 DEF StopStep, StopReceive, StopGoto, runVars, contentVars, requestVars, editVars,
    StopClone, StopMark, StopCancel
<1>27. ASSUME NEW e \in Edits, EditBegins(e) \/ EditStep(e)
     PROVE  (\E k \in Keys, op \in {"clear", "edit"} : Edit(e, op, k)) \/ EditSave(e) \/ (\E k
            \in Keys : Delete(e, k)) \/ Erase(e) \/ Reload(e) \/ Evict(e) \/ UNCHANGED <<known,
            sessions, stored, disk, copy, overlapped, pc, outcome, editPc, operation, key>>
  BY <1>27 DEF EditBegins, EditStep
<1>28. CASE UNCHANGED vars
  BY <1>28, <1>24 DEF vars, runVars, contentVars, requestVars, stopVars, editVars
<1>. QED  BY <1>1, <1>2, <1>3, <1>4, <1>5, <1>6, <1>7, <1>8, <1>9, <1>10, <1>11, <1>12, <1>13,
    <1>14, <1>15, <1>16, <1>17, <1>18, <1>19, <1>20, <1>21, <1>22, <1>23, <1>24, <1>25, <1>26,
    <1>27, <1>28 DEF Next

\* No two turns hold one engine.
LEMMA HeldStep == TypeOK /\ HeldInv /\ [Next]_vars => HeldInv'
<1>. SUFFICES ASSUME TypeOK, HeldInv, [Next]_vars PROVE HeldInv'
  OBVIOUS
<1>1. ASSUME NEW r \in Requests, Receive(r) PROVE HeldInv'
  BY <1>1, SessionsAssumption DEF Receive, Goto, End, runVars, contentVars, stopVars, editVars,
    TypeOK, RequestTypes, RunTypes, HeldInv
<1>2. ASSUME NEW r \in Requests, Begin(r) PROVE HeldInv'
  BY <1>2, SessionsAssumption DEF Begin, Goto, contentVars, stopVars, editVars, TypeOK,
    RequestTypes, RunTypes, HeldInv
<1>3. ASSUME NEW r \in Requests, Mark(r) PROVE HeldInv'
  BY <1>3, SessionsAssumption DEF Mark, Goto, contentVars, stopVars, editVars, TypeOK,
    RequestTypes, RunTypes, HeldInv
<1>4. ASSUME NEW r \in Requests, Supersede(r) PROVE HeldInv'
  BY <1>4, SessionsAssumption DEF Supersede, Goto, contentVars, stopVars, editVars, TypeOK,
    RequestTypes, RunTypes, HeldInv
<1>5. ASSUME NEW r \in Requests, Load(r) PROVE HeldInv'
  BY <1>5, SessionsAssumption DEF Load, Goto, End, runVars, contentVars, stopVars, editVars,
    TypeOK, RequestTypes, RunTypes, HeldInv
<1>6. ASSUME NEW r \in Requests, Check(r) PROVE HeldInv'
  BY <1>6, SessionsAssumption DEF Check, Goto, End, runVars, contentVars, stopVars, editVars,
    TypeOK, RequestTypes, RunTypes, HeldInv
<1>7. ASSUME NEW r \in Requests, Find(r) PROVE HeldInv'
  BY <1>7, SessionsAssumption DEF Find, Goto, runVars, contentVars, stopVars, editVars, TypeOK,
    RequestTypes, RunTypes, HeldInv
<1>8. ASSUME NEW r \in Requests, Insert(r) PROVE HeldInv'
  BY <1>8, SessionsAssumption DEF Insert, Goto, runVars, contentVars, stopVars, editVars,
    TypeOK, RequestTypes, RunTypes, HeldInv
<1>9. ASSUME NEW r \in Requests, SpawnFails(r) PROVE HeldInv'
  BY <1>9, SessionsAssumption DEF SpawnFails, Goto, End, runVars, contentVars, stopVars,
    editVars, TypeOK, RequestTypes, RunTypes, HeldInv
<1>10. ASSUME NEW r \in Requests, Start(r) PROVE HeldInv'
  BY <1>10, SessionsAssumption DEF Start, Goto, End, runVars, contentVars, stopVars, editVars,
    TypeOK, RequestTypes, RunTypes, HeldInv, EngineIsFree
<1>11. ASSUME NEW r \in Requests, TurnEnds(r) PROVE HeldInv'
  BY <1>11, SessionsAssumption DEF TurnEnds, Goto, End, runVars, contentVars, stopVars,
    editVars, TypeOK, RequestTypes, RunTypes, HeldInv
<1>12. ASSUME NEW r \in Requests, Finish(r) PROVE HeldInv'
  BY <1>12, SessionsAssumption DEF Finish, Goto, contentVars, stopVars, editVars, TypeOK,
    RequestTypes, RunTypes, HeldInv
<1>13. ASSUME NEW r \in Requests, Route(r) PROVE HeldInv'
  BY <1>13, SessionsAssumption DEF Route, Goto, runVars, contentVars, stopVars, editVars,
    TypeOK, RequestTypes, RunTypes, HeldInv
<1>14. ASSUME NEW r \in Requests, Take(r) PROVE HeldInv'
  BY <1>14, SessionsAssumption DEF Take, Goto, runVars, contentVars, stopVars, editVars,
    TypeOK, RequestTypes, RunTypes, HeldInv
<1>15. ASSUME NEW r \in Requests, Record(r) PROVE HeldInv'
  BY <1>15, SessionsAssumption DEF Record, Goto, End, Change, runVars, contentVars, stopVars,
    editVars, TypeOK, RequestTypes, RunTypes, HeldInv
<1>16. ASSUME NEW r \in Requests, Save(r) PROVE HeldInv'
  BY <1>16, SessionsAssumption DEF Save, Goto, End, Saved, NotSaved, runVars, stopVars,
    editVars, TypeOK, RequestTypes, RunTypes, HeldInv
<1>17. ASSUME NEW r \in Requests, Disconnect(r) PROVE HeldInv'
  BY <1>17, SessionsAssumption DEF Disconnect, runVars, contentVars, stopVars, editVars,
    TypeOK, RequestTypes, RunTypes, HeldInv
<1>18. CASE UNCHANGED <<pc, engine>>
  BY <1>18 DEF TypeOK, RequestTypes, RunTypes, HeldInv
<1>19. ASSUME NEW r \in Requests, RequestStep(r) \/ Disconnect(r)
     PROVE  Receive(r) \/ Begin(r) \/ Mark(r) \/ Supersede(r) \/ Load(r) \/ Check(r) \/ Find(r)
            \/ Insert(r) \/ SpawnFails(r) \/ Start(r) \/ TurnEnds(r) \/ Finish(r) \/ Route(r)
            \/ Take(r) \/ Record(r) \/ Save(r) \/ Disconnect(r) \/ UNCHANGED <<pc, engine>>
  BY <1>19 DEF RequestStep
<1>20. ASSUME NEW c \in Stops, StopStep(c)
     PROVE  UNCHANGED <<pc, engine>>
  BY <1>20 DEF StopStep, StopReceive, StopGoto, runVars, contentVars, requestVars, editVars,
    StopClone, StopMark, StopCancel
<1>21. ASSUME NEW e \in Edits, EditBegins(e) \/ EditStep(e)
     PROVE  UNCHANGED <<pc, engine>>
  BY <1>21 DEF EditBegins, EditStep, Edit, EditGoto, Choose, Change, runVars, requestVars,
    stopVars, EditSave, Saved, NotSaved, Delete, Erase, Reload, contentVars, Evict
<1>22. CASE UNCHANGED vars
  BY <1>22, <1>18 DEF vars, runVars, contentVars, requestVars, stopVars, editVars
<1>. QED  BY <1>1, <1>2, <1>3, <1>4, <1>5, <1>6, <1>7, <1>8, <1>9, <1>10, <1>11, <1>12, <1>13,
    <1>14, <1>15, <1>16, <1>17, <1>18, <1>19, <1>20, <1>21, <1>22 DEF Next

\* The old engines and the evictions of a session can be counted.
LEMMA OldIsFinite ==
    ASSUME NEW k \in Keys
    PROVE  /\ IsFiniteSet(Old(k)) /\ Cardinality(Old(k)) \in Nat
           /\ IsFiniteSet(Evictions(k)) /\ Cardinality(Evictions(k)) \in Nat
<1>1. Old(k) \subseteq Requests /\ Evictions(k) \subseteq Edits
  BY DEF Old, Evictions
<1>. QED  BY <1>1, SessionsAssumption, FS_Subset, FS_CardinalityType

\* A step that gives nobody an engine that is not in the pool leaves the old ones.
LEMMA OldFrame ==
    ASSUME OldInv, \A k \in Keys : /\ Old(k)' \subseteq Old(k)
                                   /\ Evictions(k) \subseteq Evictions(k)'
    PROVE  OldInv'
<1>. SUFFICES ASSUME NEW k \in Keys
              PROVE  Cardinality(Old(k)') <= Cardinality(Evictions(k)')
  BY DEF OldInv
<1>1. /\ IsFiniteSet(Old(k)) /\ Cardinality(Old(k)) \in Nat
      /\ Cardinality(Evictions(k)) \in Nat
  BY OldIsFinite
<1>2. Evictions(k)' \subseteq Edits
  BY DEF Evictions
<1>3. IsFiniteSet(Evictions(k)')
  BY <1>2, SessionsAssumption, FS_Subset
<1>4. Cardinality(Old(k)') <= Cardinality(Old(k)) /\ IsFiniteSet(Old(k)')
  BY <1>1, FS_Subset
<1>5. Cardinality(Evictions(k)) <= Cardinality(Evictions(k)')
  BY <1>3, FS_Subset
<1>6. Cardinality(Old(k)') \in Nat /\ Cardinality(Evictions(k)') \in Nat
  BY <1>3, <1>4, FS_CardinalityType
<1>. QED  BY <1>1, <1>4, <1>5, <1>6 DEF OldInv

\* An eviction leaves at most one old engine in use.
LEMMA OldStep == TypeOK /\ SaveInv /\ HeldInv /\ OldInv /\ [Next]_vars => OldInv'
<1>. SUFFICES ASSUME TypeOK, SaveInv, HeldInv, OldInv, [Next]_vars PROVE OldInv'
  OBVIOUS
<1>1. ASSUME NEW r \in Requests, Receive(r) PROVE OldInv'
  BY <1>1, OldFrame, SessionsAssumption DEF Receive, Goto, End, runVars, contentVars, stopVars,
    editVars, TypeOK, RunTypes, RequestTypes, OtherTypes, Old, Evictions
<1>2. ASSUME NEW r \in Requests, Begin(r) PROVE OldInv'
  BY <1>2, OldFrame, SessionsAssumption DEF Begin, Goto, contentVars, stopVars, editVars,
    TypeOK, RunTypes, RequestTypes, OtherTypes, Old, Evictions
<1>3. ASSUME NEW r \in Requests, Mark(r) PROVE OldInv'
  BY <1>3, OldFrame, SessionsAssumption DEF Mark, Goto, contentVars, stopVars, editVars,
    TypeOK, RunTypes, RequestTypes, OtherTypes, Old, Evictions
<1>4. ASSUME NEW r \in Requests, Supersede(r) PROVE OldInv'
  BY <1>4, OldFrame, SessionsAssumption DEF Supersede, Goto, contentVars, stopVars, editVars,
    TypeOK, RunTypes, RequestTypes, OtherTypes, Old, Evictions
<1>5. ASSUME NEW r \in Requests, Load(r) PROVE OldInv'
  BY <1>5, OldFrame, SessionsAssumption DEF Load, Goto, End, runVars, contentVars, stopVars,
    editVars, TypeOK, RunTypes, RequestTypes, OtherTypes, Old, Evictions
<1>6. ASSUME NEW r \in Requests, Check(r) PROVE OldInv'
  BY <1>6, OldFrame, SessionsAssumption DEF Check, Goto, End, runVars, contentVars, stopVars,
    editVars, TypeOK, RunTypes, RequestTypes, OtherTypes, Old, Evictions
<1>7. ASSUME NEW r \in Requests, Find(r) PROVE OldInv'
  BY <1>7, OldFrame, SessionsAssumption DEF Find, Goto, runVars, contentVars, stopVars,
    editVars, TypeOK, RunTypes, RequestTypes, OtherTypes, Old, Evictions
<1>8. ASSUME NEW r \in Requests, Insert(r) PROVE OldInv'
  BY <1>8, OldFrame, SessionsAssumption DEF Insert, Goto, runVars, contentVars, stopVars,
    editVars, TypeOK, RunTypes, RequestTypes, OtherTypes, Old, Evictions
<1>9. ASSUME NEW r \in Requests, SpawnFails(r) PROVE OldInv'
  BY <1>9, OldFrame, SessionsAssumption DEF SpawnFails, Goto, End, runVars, contentVars,
    stopVars, editVars, TypeOK, RunTypes, RequestTypes, OtherTypes, Old, Evictions
<1>10. ASSUME NEW r \in Requests, Start(r) PROVE OldInv'
  BY <1>10, OldFrame, SessionsAssumption DEF Start, Goto, End, runVars, contentVars, stopVars,
    editVars, TypeOK, RunTypes, RequestTypes, OtherTypes, Old, Evictions
<1>11. ASSUME NEW r \in Requests, TurnEnds(r) PROVE OldInv'
  BY <1>11, OldFrame, SessionsAssumption DEF TurnEnds, Goto, End, runVars, contentVars,
    stopVars, editVars, TypeOK, RunTypes, RequestTypes, OtherTypes, Old, Evictions
<1>12. ASSUME NEW r \in Requests, Finish(r) PROVE OldInv'
  BY <1>12, OldFrame, SessionsAssumption DEF Finish, Goto, contentVars, stopVars, editVars,
    TypeOK, RunTypes, RequestTypes, OtherTypes, Old, Evictions
<1>13. ASSUME NEW r \in Requests, Route(r) PROVE OldInv'
  BY <1>13, OldFrame, SessionsAssumption DEF Route, Goto, runVars, contentVars, stopVars,
    editVars, TypeOK, RunTypes, RequestTypes, OtherTypes, Old, Evictions
<1>14. ASSUME NEW r \in Requests, Take(r) PROVE OldInv'
  BY <1>14, OldFrame, SessionsAssumption DEF Take, Goto, runVars, contentVars, stopVars,
    editVars, TypeOK, RunTypes, RequestTypes, OtherTypes, Old, Evictions
<1>15. ASSUME NEW r \in Requests, Record(r) PROVE OldInv'
  BY <1>15, OldFrame, SessionsAssumption DEF Record, Goto, End, Change, runVars, contentVars,
    stopVars, editVars, TypeOK, RunTypes, RequestTypes, OtherTypes, Old, Evictions
<1>16. ASSUME NEW r \in Requests, Save(r) PROVE OldInv'
  BY <1>16, OldFrame, SessionsAssumption DEF Save, Goto, End, Saved, NotSaved, runVars,
    stopVars, editVars, TypeOK, RunTypes, RequestTypes, OtherTypes, Old, Evictions
<1>17. ASSUME NEW r \in Requests, Disconnect(r) PROVE OldInv'
  BY <1>17, OldFrame, SessionsAssumption DEF Disconnect, runVars, contentVars, stopVars,
    editVars, TypeOK, RunTypes, RequestTypes, OtherTypes, Old, Evictions
<1>18. ASSUME NEW e \in Edits, NEW k \in Keys, NEW op \in {"clear", "edit"}, Edit(e, op, k) PROVE OldInv'
  BY <1>18, OldFrame, SessionsAssumption DEF Edit, EditGoto, Choose, Change, runVars,
    requestVars, stopVars, TypeOK, RunTypes, RequestTypes, OtherTypes, Old, Evictions
<1>19. ASSUME NEW e \in Edits, EditSave(e) PROVE OldInv'
  BY <1>19, OldFrame, SessionsAssumption DEF EditSave, EditGoto, Saved, NotSaved, runVars,
    requestVars, stopVars, TypeOK, RunTypes, RequestTypes, OtherTypes, Old, Evictions
<1>20. ASSUME NEW e \in Edits, NEW k \in Keys, Delete(e, k) PROVE OldInv'
  BY <1>20, OldFrame, SessionsAssumption DEF Delete, EditGoto, Choose, runVars, requestVars,
    stopVars, TypeOK, RunTypes, RequestTypes, OtherTypes, Old, Evictions
<1>21. ASSUME NEW e \in Edits, Erase(e) PROVE OldInv'
  BY <1>21, OldFrame, SessionsAssumption DEF Erase, EditGoto, runVars, requestVars, stopVars,
    TypeOK, RunTypes, RequestTypes, OtherTypes, Old, Evictions
<1>22. ASSUME NEW e \in Edits, Reload(e) PROVE OldInv'
  BY <1>22, OldFrame, SessionsAssumption DEF Reload, EditGoto, runVars, contentVars,
    requestVars, stopVars, TypeOK, RunTypes, RequestTypes, OtherTypes, Old, Evictions
<1>23. ASSUME NEW e \in Edits, Evict(e) PROVE OldInv'

  <2>1. /\ editPc[e] = "evict" /\ editPc' = [editPc EXCEPT ![e] = "done"]
        /\ pool' = [k \in Keys |-> IF operation[e] = "reload" \/ k = key[e] THEN None ELSE pool[k]]
        /\ UNCHANGED <<pc, engine, operation, key>>
    BY <1>23 DEF Evict, EditGoto, requestVars
  <2>. SUFFICES ASSUME NEW k \in Keys
                PROVE  Cardinality(Old(k)') <= Cardinality(Evictions(k)')
    BY DEF OldInv
  <2>2. /\ IsFiniteSet(Old(k)) /\ Cardinality(Old(k)) \in Nat
        /\ IsFiniteSet(Evictions(k)) /\ Cardinality(Evictions(k)) \in Nat
    BY OldIsFinite
  <2>3. \A d \in Edits : d # e => editPc'[d] = editPc[d]
    BY <2>1
  <2>4. CASE operation[e] = "reload" \/ k = key[e]
    <3>1. Old(k)' \subseteq Old(k) \cup {pool[k]}
      BY <2>1, <2>4 DEF Old
    <3>2. e \notin Evictions(k)
      BY <2>1 DEF Evictions
    <3>3. Evictions(k)' = Evictions(k) \cup {e}
      BY <2>1, <2>3, <2>4 DEF Evictions, SaveInv, TypeOK, OtherTypes
    <3>4. /\ IsFiniteSet(Old(k) \cup {pool[k]})
          /\ Cardinality(Old(k) \cup {pool[k]}) <= Cardinality(Old(k)) + 1
      BY <2>2, FS_AddElement
    <3>5. /\ Cardinality(Old(k)') <= Cardinality(Old(k) \cup {pool[k]})
          /\ Cardinality(Old(k)') \in Nat /\ Cardinality(Old(k) \cup {pool[k]}) \in Nat
      BY <3>1, <3>4, FS_Subset, FS_CardinalityType
    <3>6. Cardinality(Evictions(k)') = Cardinality(Evictions(k)) + 1
      BY <2>2, <3>2, <3>3, FS_AddElement
    <3>. QED  BY <2>2, <3>4, <3>5, <3>6 DEF OldInv
  <2>5. CASE ~(operation[e] = "reload" \/ k = key[e])
    <3>1. Old(k)' = Old(k)
      BY <2>1, <2>5 DEF Old
    <3>2. Evictions(k)' = Evictions(k)
      BY <2>1, <2>3, <2>5 DEF Evictions
    <3>. QED  BY <3>1, <3>2 DEF OldInv
  <2>. QED  BY <2>4, <2>5
<1>24. CASE UNCHANGED <<pool, pc, engine, editPc, operation, key>>
  BY <1>24 DEF TypeOK, RunTypes, RequestTypes, OtherTypes, Old, Evictions, OldInv
<1>25. ASSUME NEW r \in Requests, RequestStep(r) \/ Disconnect(r)
     PROVE  Receive(r) \/ Begin(r) \/ Mark(r) \/ Supersede(r) \/ Load(r) \/ Check(r) \/ Find(r)
            \/ Insert(r) \/ SpawnFails(r) \/ Start(r) \/ TurnEnds(r) \/ Finish(r) \/ Route(r)
            \/ Take(r) \/ Record(r) \/ Save(r) \/ Disconnect(r) \/ UNCHANGED <<pool, pc,
            engine, editPc, operation, key>>
  BY <1>25 DEF RequestStep
<1>26. ASSUME NEW c \in Stops, StopStep(c)
     PROVE  UNCHANGED <<pool, pc, engine, editPc, operation, key>>
  BY <1>26 DEF StopStep, StopReceive, StopGoto, runVars, contentVars, requestVars, editVars,
    StopClone, StopMark, StopCancel
<1>27. ASSUME NEW e \in Edits, EditBegins(e) \/ EditStep(e)
     PROVE  (\E k \in Keys, op \in {"clear", "edit"} : Edit(e, op, k)) \/ EditSave(e) \/ (\E k
            \in Keys : Delete(e, k)) \/ Erase(e) \/ Reload(e) \/ Evict(e) \/ UNCHANGED <<pool,
            pc, engine, editPc, operation, key>>
  BY <1>27 DEF EditBegins, EditStep
<1>28. CASE UNCHANGED vars
  BY <1>28, <1>24 DEF vars, runVars, contentVars, requestVars, stopVars, editVars
<1>. QED  BY <1>1, <1>2, <1>3, <1>4, <1>5, <1>6, <1>7, <1>8, <1>9, <1>10, <1>11, <1>12, <1>13,
    <1>14, <1>15, <1>16, <1>17, <1>18, <1>19, <1>20, <1>21, <1>22, <1>23, <1>24, <1>25, <1>26,
    <1>27, <1>28 DEF Next
-----------------------------------------------------------------------------
\* The invariant is inductive.
THEOREM Inductive == Spec => []IInv
<1>1. IInv /\ [Next]_vars => IInv'
  BY RunTypesStep, ContentTypesStep, RequestTypesStep, OtherTypesStep, RelatedStep, RunStep,
     StopInvStep, StoppableStep, ReasonStep, HeldStep, OldStep, SaveStep DEF IInv, TypeOK
<1>. QED  BY InitIInv, <1>1, PTL DEF Spec

\* The types; every run is of its session and cancelled for a reason.
THEOREM TypeCorrect == Spec => []TypeOK
<1>1. IInv => TypeOK
  BY DEF IInv
<1>. QED  BY Inductive, <1>1, PTL

\* However begin, stop and finish interleave, no run that goes on is lost to the registry.
THEOREM RunsAreStoppable == Spec => []RunIsStoppable
<1>1. IInv => RunIsStoppable
  BY DEF IInv
<1>. QED  BY Inductive, <1>1, PTL

\* Both together.
THEOREM InvHolds == Spec => []Inv
<1>1. TypeOK /\ RunIsStoppable => Inv
  BY DEF Inv
<1>. QED  BY <1>1, TypeCorrect, RunsAreStoppable, PTL

\* Whoever is told why a run ended is told the truth, and all of them the same.
THEOREM ReasonsAreTrue == Spec => []ReasonIsTrue
<1>1. IInv => ReasonIsTrue
  BY DEF IInv
<1>. QED  BY Inductive, <1>1, PTL

\* Each turn holds an engine of its own: the one in the pool or an old one.
LEMMA TurnsHoldEngines == TypeOK /\ HeldInv /\ OldInv => OneTurnAtATime
<1>. SUFFICES ASSUME TypeOK, HeldInv, OldInv, NEW k \in Keys
              PROVE  Cardinality({r \in Requests : Of[r] = k /\ pc[r] = "turn"})
                        <= 1 + Cardinality(Evictions(k))
  BY DEF OneTurnAtATime
<1>. DEFINE Turning == {r \in Requests : Of[r] = k /\ pc[r] = "turn"}
            Engines == Old(k) \cup {pool[k]}
            f == [r \in Turning |-> engine[r]]
<1>1. /\ IsFiniteSet(Old(k)) /\ Cardinality(Old(k)) \in Nat
      /\ Cardinality(Evictions(k)) \in Nat
  BY OldIsFinite
<1>2. /\ IsFiniteSet(Engines) /\ Cardinality(Engines) \in Nat
      /\ Cardinality(Engines) <= Cardinality(Old(k)) + 1
  <2>1. /\ IsFiniteSet(Engines)
        /\ Cardinality(Engines) = IF pool[k] \in Old(k) THEN Cardinality(Old(k))
                                                       ELSE Cardinality(Old(k)) + 1
    BY <1>1, FS_AddElement
  <2>. QED  BY <1>1, <2>1
<1>3. \A r \in Turning : engine[r] \in Engines
  BY DEF HeldInv, Old, TypeOK, RequestTypes
<1>4. \A r, q \in Turning : engine[r] = engine[q] => r = q
  BY DEF HeldInv
<1>5. f \in Injection(Turning, Engines)
  BY <1>3, <1>4 DEF Injection, IsInjective
<1>6. IsFiniteSet(Turning)
  <2>1. Turning \subseteq Requests
    OBVIOUS
  <2>. QED  BY <2>1, SessionsAssumption, FS_Subset
<1>. HIDE DEF Turning, Engines, f
<1>7. Cardinality(Turning) <= Cardinality(Engines) /\ Cardinality(Turning) \in Nat
  BY <1>5, <1>6, <1>2, FS_Injection, FS_CardinalityType
<1>8. Cardinality(Old(k)) <= Cardinality(Evictions(k))
  BY DEF OldInv
<1>. QED  BY <1>1, <1>2, <1>7, <1>8 DEF Turning

\* The turns of a session run one at a time but for the engines taken out of the pool.
THEOREM TurnsOneAtATime == Spec => []OneTurnAtATime
<1>1. IInv => OneTurnAtATime
  BY TurnsHoldEngines DEF IInv
<1>. QED  BY Inductive, <1>1, PTL

\* A session whose changes do not overlap is on disk what it is in memory.
THEOREM SavedWhenAlone == Spec => []SavedAlone
<1>1. IInv => SavedAlone
  BY DEF IInv, SaveInv, Alone, SavedAlone, Deleting
<1>. QED  BY Inductive, <1>1, PTL
-----------------------------------------------------------------------------
(* The turns of the loop engine                                            *)

\* What was spent: in each phase, how many requests the budget does not know of yet.
SpendInv ==
    /\ turn.phase = "begin" => seen.requests = 0 /\ seen.calls = 0
    /\ turn.phase \in {"ready", "acting"} => seen.requests = used.llm /\ used.llm <= MaxLlmCalls
    /\ turn.phase = "reasoning" => seen.requests = used.llm + 1 /\ used.llm <= MaxLlmCalls
    /\ turn.phase = "finishing" => seen.requests = used.llm + 1 /\ used.llm <= MaxLlmCalls + 1
    /\ seen.calls <= used.tools

\* What the tracker knows of a call comes from this turn, and a change that is settled is known to it.
Known(c) == c \in tracker.permanent \/ tracker.failures[c] > 0 \/ tracker.done[c] # NONE \/ tracker.same[c] > 0
Settles(c) == c \in tracker.permanent \/ tracker.done[c] # NONE

TrackerInv ==
    /\ turn.phase = "begin" => seen.ran = {} /\ \A c \in Calls : seen.settled[c] = 0
    /\ turn.phase # "begin" => \A c \in Calls :
          /\ Known(c) => c \in seen.ran
          /\ Kind[c] = "mutation" /\ seen.settled[c] > 0 => Settles(c)

\* The calls that run were allowed when the answer came, a change once.
BatchInv ==
    /\ turn.phase # "acting" => batch = NoBatch
    /\ \A i \in DOMAIN batch.run : ~Blocked(batch.run[i])
    /\ \A i, j \in DOMAIN batch.run : batch.run[i] = batch.run[j] /\ Kind[batch.run[i]] = "mutation" => i = j

\* A stop that was read is remembered until the turn ends, and a turn that goes on has no result.
HeardInv ==
    /\ turn.phase = "begin" => ~seen.stop
    /\ turn.phase \in {"ready", "reasoning", "acting", "finishing"} /\ seen.stop =>
          input.token \/ input.stop \/ input.pending = "Stop"
    /\ turn.phase # "idle" => turn.result = "none"
    /\ Len(input.channel) <= commands

TrackInv == FailuresWithinReach /\ VerdictsAreOfThisTurn /\ SettledOnce /\ TrackerInv /\ BatchInv

TurnIInv == TurnTypeOK /\ SpentWithinReach /\ SpendInv /\ TrackInv /\ HeardInv
-----------------------------------------------------------------------------
\* Induction: a set of natural numbers has a least one.
LEMMA LeastIs ==
    ASSUME NEW T \in SUBSET Nat, T # {}
    PROVE  \E n \in T : \A m \in T : n <= m
<1>1. IsWellFoundedOn(OpToRel(<, Nat), Nat)
  BY NatLessThanWellFounded
<1>2. PICK n \in T : \A m \in T : ~ (<<m, n>> \in OpToRel(<, Nat))
  BY <1>1, WFMin, Zenon
<1>3. \A m \in T : m < n => <<m, n>> \in OpToRel(<, Nat)
  BY DEF OpToRel
<1>4. \A m \in T : ~(m < n)
  BY <1>2, <1>3, Zenon
<1>. QED  BY <1>4

LEMMA MaxIs ==
    ASSUME NEW n \in Nat, NEW s \in SUBSET (1..n), n \in s
    PROVE  Max(s) = n
<1>1. \A x \in s : (\A y \in s : x >= y) <=> x = n
  OBVIOUS
<1>. QED  BY <1>1 DEF Max

\* The folds of the turn: over commands, over the calls of an answer, over the results of a batch.
Admit(run, c) == IF Blocked(c) \/ (Kind[c] = "mutation" /\ Contains(run, c)) THEN run ELSE Append(run, c)

FoldStep(f, x, y) ==
    IF f.over = "commands" THEN Prioritize(x, y)
    ELSE IF f.over = "calls" THEN Admit(x, y)
    ELSE AfterResult(x, batch.run[y], f.outcomes[y])

FoldBody(h, f, s, base, n) ==
    [t \in SUBSET (1..n) |-> IF t = {} THEN base ELSE FoldStep(f, h[t \ {Max(t)}], s[Max(t)])]

LEMMA BodyExists ==
    ASSUME NEW f, NEW s, NEW base
    PROVE  \A n \in Nat : \E h : h = FoldBody(h, f, s, base, n)
<1>. SUFFICES ASSUME NEW T, T = {n \in Nat : ~ \E h : h = FoldBody(h, f, s, base, n)}, T # {} PROVE FALSE
  OBVIOUS
<1>1. PICK n \in T : \A m \in T : n <= m
  BY LeastIs
<1>2. n \in Nat
  OBVIOUS
<1>3. CASE n = 0
  <2>1. SUBSET (1..0) = {{}}
    OBVIOUS
  <2>2. [t \in {{}} |-> base] = FoldBody([t \in {{}} |-> base], f, s, base, 0)
    BY <2>1 DEF FoldBody
  <2>. QED  BY <1>1, <1>3, <2>2
<1>4. CASE n # 0
  <2>1. n - 1 \in Nat /\ n - 1 \notin T
    BY <1>1, <1>2, <1>4
  <2>2. PICK g : g = FoldBody(g, f, s, base, n - 1)
    BY <2>1
  <2>. DEFINE h == [t \in SUBSET (1..n) |-> IF n \in t THEN FoldStep(f, g[t \ {n}], s[n]) ELSE g[t]]
  <2>3. ASSUME NEW t \in SUBSET (1..n) PROVE h[t] = FoldBody(h, f, s, base, n)[t]
    <3>1. CASE n \in t
      <4>1. Max(t) = n /\ t # {} /\ t \ {n} \in SUBSET (1..n) /\ n \notin t \ {n}
        BY <1>2, <3>1, MaxIs
      <4>2. h[t] = FoldStep(f, g[t \ {n}], s[n])
        BY <3>1
      <4>3. h[t \ {n}] = g[t \ {n}]
        BY <4>1
      <4>4. FoldBody(h, f, s, base, n)[t] = FoldStep(f, h[t \ {n}], s[n])
        BY <4>1 DEF FoldBody
      <4>. QED  BY <4>2, <4>3, <4>4
    <3>2. CASE n \notin t
      <4>1. t \in SUBSET (1..n - 1)
        BY <1>2, <3>2
      <4>2. h[t] = g[t] /\ g[t] = FoldBody(g, f, s, base, n - 1)[t]
        BY <3>2, <2>2
      <4>3. FoldBody(g, f, s, base, n - 1)[t] = IF t = {} THEN base ELSE FoldStep(f, g[t \ {Max(t)}], s[Max(t)])
        BY <4>1 DEF FoldBody
      <4>4. FoldBody(h, f, s, base, n)[t] = IF t = {} THEN base ELSE FoldStep(f, h[t \ {Max(t)}], s[Max(t)])
        BY DEF FoldBody
      <4>5. t \ {Max(t)} \in SUBSET (1..n) /\ n \notin t \ {Max(t)}
        BY <3>2
      <4>6. h[t \ {Max(t)}] = g[t \ {Max(t)}]
        BY <4>5
      <4>. QED  BY <4>2, <4>3, <4>4, <4>6
    <3>. QED  BY <3>1, <3>2
  <2>4. h = FoldBody(h, f, s, base, n)
    <3>1. h = [t \in SUBSET (1..n) |-> h[t]]
      OBVIOUS
    <3>2. FoldBody(h, f, s, base, n) = [t \in SUBSET (1..n) |-> FoldBody(h, f, s, base, n)[t]]
      BY DEF FoldBody
    <3>. HIDE DEF h
    <3>. QED  BY <3>1, <3>2, <2>3
  <2>. QED  BY <1>1, <1>2, <2>4
<1>. QED  BY <1>3, <1>4

\* A fold goes through its sequence from the first to the last.
Runs(h, f, s, base, n) == h[1..0] = base /\ \A m \in 1..n : h[1..m] = FoldStep(f, h[1..m - 1], s[m])

LEMMA BodyUnrolls ==
    ASSUME NEW f, NEW s, NEW base, NEW n \in Nat
    PROVE  \A h : h = FoldBody(h, f, s, base, n) => Runs(h, f, s, base, n)
<1>. SUFFICES ASSUME NEW h, h = FoldBody(h, f, s, base, n) PROVE Runs(h, f, s, base, n)
  OBVIOUS
<1>1. h[1..0] = base
  <2>1. FoldBody(h, f, s, base, n)[{}] = base /\ 1..0 = {}
    BY DEF FoldBody
  <2>. QED  BY <2>1
<1>2. ASSUME NEW m \in 1..n PROVE h[1..m] = FoldStep(f, h[1..m - 1], s[m])
  <2>1. (1..m) \in SUBSET (1..n) /\ m \in 1..m /\ (1..m) \ {m} = 1..m - 1 /\ (1..m) # {}
    OBVIOUS
  <2>2. Max(1..m) = m
    BY <1>2, MaxIs
  <2>3. FoldBody(h, f, s, base, n)[1..m] = FoldStep(f, h[1..m - 1], s[m])
    BY <2>1, <2>2 DEF FoldBody
  <2>. QED  BY <2>3
<1>. QED  BY <1>1, <1>2 DEF Runs

\* Three folds, each by the function that it applies step by step.
Flow(base, s) == FoldLeft(Prioritize, base, s)

LEMMA CommandsFold ==
    ASSUME NEW base, NEW s \in Seq({"Stop", "Wait"})
    PROVE  \E h : /\ Flow(base, s) = h[1..Len(s)] /\ h[1..0] = base
                  /\ \A m \in 1..Len(s) : h[1..m] = Prioritize(h[1..m - 1], s[m])
<1>1. PICK n \in Nat : n = Len(s) /\ DOMAIN s = 1..n
  OBVIOUS
<1>. DEFINE f == [over |-> "commands"]
            Body(h) == [t \in SUBSET (1..n) |-> IF t = {} THEN base ELSE Prioritize(h[t \ {Max(t)}], s[Max(t)])]
<1>2. \A h : Body(h) = FoldBody(h, f, s, base, n)
  BY DEF FoldBody, FoldStep
<1>3. PICK h : h = Body(h) /\ Flow(base, s) = h[1..n]
  <2>1. Flow(base, s) = (CHOOSE h : h = Body(h))[1..n]
    BY <1>1 DEF Flow, FoldLeft, MapThenFoldSet
  <2>2. \E h : h = FoldBody(h, f, s, base, n)
    BY BodyExists
  <2>3. \E h : h = Body(h)
    BY <1>2, <2>2
  <2>. HIDE DEF Body
  <2>. QED  BY <2>1, <2>3
<1>4. h = FoldBody(h, f, s, base, n)
  BY <1>2, <1>3
<1>. HIDE DEF f, Body
<1>5. h[1..0] = base /\ \A m \in 1..n : h[1..m] = FoldStep(f, h[1..m - 1], s[m])
  <2>1. Runs(h, f, s, base, n)
    BY <1>1, <1>4, BodyUnrolls
  <2>. QED  BY <2>1 DEF Runs
<1>6. \A x, y : FoldStep(f, x, y) = Prioritize(x, y)
  BY DEF FoldStep, f
<1>. QED  BY <1>1, <1>3, <1>5, <1>6

LEMMA AllowedFold ==
    ASSUME NEW calls \in Seq(Calls)
    PROVE  \E h : /\ Allowed(calls) = h[1..Len(calls)] /\ h[1..0] = <<>>
                  /\ \A m \in 1..Len(calls) : h[1..m] = Admit(h[1..m - 1], calls[m])
<1>1. PICK n \in Nat : n = Len(calls) /\ DOMAIN calls = 1..n
  OBVIOUS
<1>. DEFINE f == [over |-> "calls"]
            Body(h) == [t \in SUBSET (1..n) |-> IF t = {} THEN <<>> ELSE Admit(h[t \ {Max(t)}], calls[Max(t)])]
<1>2. \A h : Body(h) = FoldBody(h, f, calls, <<>>, n)
  BY DEF FoldBody, FoldStep
<1>3. PICK h : h = Body(h) /\ Allowed(calls) = h[1..n]
  <2>1. Allowed(calls) = (CHOOSE h : h = Body(h))[1..n]
    BY <1>1 DEF Allowed, FoldLeft, MapThenFoldSet, Admit
  <2>2. \E h : h = FoldBody(h, f, calls, <<>>, n)
    BY BodyExists
  <2>3. \E h : h = Body(h)
    BY <1>2, <2>2
  <2>. HIDE DEF Body
  <2>. QED  BY <2>1, <2>3
<1>4. h = FoldBody(h, f, calls, <<>>, n)
  BY <1>2, <1>3
<1>. HIDE DEF f, Body
<1>5. h[1..0] = <<>> /\ \A m \in 1..n : h[1..m] = FoldStep(f, h[1..m - 1], calls[m])
  <2>1. Runs(h, f, calls, <<>>, n)
    BY <1>1, <1>4, BodyUnrolls
  <2>. QED  BY <2>1 DEF Runs
<1>6. \A x, y : FoldStep(f, x, y) = Admit(x, y)
  BY DEF FoldStep, f
<1>. QED  BY <1>1, <1>3, <1>5, <1>6

LEMMA ResultsFold ==
    ASSUME NEW outcomes, batch.run \in Seq(Calls)
    PROVE  \E h : /\ AfterResults(outcomes) = h[1..Len(batch.run)] /\ h[1..0] = tracker
                  /\ \A m \in 1..Len(batch.run) : h[1..m] = AfterResult(h[1..m - 1], batch.run[m], outcomes[m])
<1>1. PICK n \in Nat : n = Len(batch.run) /\ DOMAIN batch.run = 1..n
  OBVIOUS
<1>2. PICK s, base, f : s = [i \in 1..n |-> i] /\ base = tracker /\ f = [over |-> "results", outcomes |-> outcomes]
  OBVIOUS
<1>3. \A x, y : FoldStep(f, x, y) = AfterResult(x, batch.run[y], outcomes[y])
  BY <1>2 DEF FoldStep
<1>. DEFINE Body(h) == [t \in SUBSET (1..n) |-> IF t = {} THEN base ELSE
                           AfterResult(h[t \ {Max(t)}], batch.run[s[Max(t)]], outcomes[s[Max(t)]])]
<1>4. \A h : Body(h) = FoldBody(h, f, s, base, n)
  BY <1>3 DEF FoldBody
<1>5. PICK h : h = Body(h) /\ AfterResults(outcomes) = h[1..n]
  <2>1. AfterResults(outcomes) = (CHOOSE h : h = Body(h))[1..n]
    BY <1>1, <1>2 DEF AfterResults, FoldLeftDomain, FoldLeft, MapThenFoldSet
  <2>2. \E h : h = FoldBody(h, f, s, base, n)
    BY <1>1, BodyExists
  <2>3. \E h : h = Body(h)
    BY <1>4, <2>2
  <2>. HIDE DEF Body
  <2>. QED  BY <2>1, <2>3
<1>6. h = FoldBody(h, f, s, base, n)
  BY <1>4, <1>5
<1>. HIDE DEF Body
<1>7. h[1..0] = base /\ \A m \in 1..n : h[1..m] = FoldStep(f, h[1..m - 1], s[m])
  <2>1. Runs(h, f, s, base, n)
    BY <1>1, <1>6, BodyUnrolls
  <2>. QED  BY <2>1 DEF Runs
<1>8. \A m \in 1..n : s[m] = m
  BY <1>2
<1>9. \A m \in 1..n : h[1..m] = AfterResult(h[1..m - 1], batch.run[m], outcomes[m])
  <2>1. TAKE m \in 1..n
  <2>2. FoldStep(f, h[1..m - 1], s[m]) = AfterResult(h[1..m - 1], batch.run[m], outcomes[m])
    BY <1>3, <1>8
  <2>. QED  BY <1>7, <2>2
<1>. QED  BY <1>1, <1>2, <1>5, <1>7, <1>9

\* Induction over the numbers up to n, for a set of them.
LEMMA UpTo ==
    ASSUME NEW n \in Nat, NEW S, 0 \in S, \A m \in 0..n - 1 : m \in S => m + 1 \in S
    PROVE  \A m \in 0..n : m \in S
<1>. SUFFICES ASSUME NEW T, T = {m \in 0..n : m \notin S}, T # {} PROVE FALSE
  OBVIOUS
<1>1. T \in SUBSET Nat
  OBVIOUS
<1>2. PICK k \in T : \A m \in T : k <= m
  BY <1>1, LeastIs
<1>3. k \in 0..n /\ k \notin S /\ k # 0
  BY <1>2
<1>4. k - 1 \in 0..n /\ k - 1 \notin T
  BY <1>2, <1>3
<1>5. k - 1 \in S
  BY <1>4
<1>. QED  BY <1>3, <1>5

LEMMA SeqOfIs ==
    ASSUME NEW S, NEW n \in Nat
    PROVE  \A q : q \in SeqOf(S, n) <=> q \in Seq(S) /\ Len(q) <= n
<1>1. ASSUME NEW q \in SeqOf(S, n) PROVE q \in Seq(S) /\ Len(q) <= n
  <2>1. PICK m \in 0..n : q \in [1..m -> S]
    BY DEF SeqOf
  <2>. QED  BY <2>1
<1>2. ASSUME NEW q \in Seq(S), Len(q) <= n PROVE q \in SeqOf(S, n)
  <2>1. Len(q) \in 0..n /\ q \in [1..Len(q) -> S]
    BY <1>2
  <2>. QED  BY <2>1 DEF SeqOf
<1>. QED  BY <1>1, <1>2

Commands == {"none", "Stop", "Wait"}

\* A stop is never overtaken by a later command.
LEMMA CommandsIs ==
    ASSUME NEW base \in Commands, NEW s \in Seq({"Stop", "Wait"})
    PROVE  /\ Flow(base, s) \in Commands
           /\ base = "Stop" => Flow(base, s) = "Stop"
<1>1. PICK h : /\ Flow(base, s) = h[1..Len(s)] /\ h[1..0] = base
               /\ \A m \in 1..Len(s) : h[1..m] = Prioritize(h[1..m - 1], s[m])
  BY CommandsFold
<1>2. PICK n \in Nat : n = Len(s) /\ \A m \in 1..n : s[m] \in {"Stop", "Wait"}
  OBVIOUS
<1>3. PICK S : S = {m \in 0..n : h[1..m] \in Commands /\ (base = "Stop" => h[1..m] = "Stop")}
  OBVIOUS
<1>4. 0 \in S
  BY <1>1, <1>2, <1>3
<1>5. ASSUME NEW m \in 0..n - 1, m \in S PROVE m + 1 \in S
  <2>1. PICK k \in 1..n : k = m + 1 /\ k - 1 = m
    BY <1>2
  <2>2. h[1..k] = Prioritize(h[1..m], s[k]) /\ s[k] \in {"Stop", "Wait"}
    BY <1>1, <1>2, <2>1
  <2>3. h[1..m] \in Commands /\ (base = "Stop" => h[1..m] = "Stop")
    BY <1>3, <1>5
  <2>4. Prioritize(h[1..m], s[k]) = IF h[1..m] = "Stop" THEN h[1..m] ELSE s[k]
    BY DEF Prioritize
  <2>5. h[1..k] \in Commands /\ (base = "Stop" => h[1..k] = "Stop")
    BY <2>2, <2>3, <2>4 DEF Commands
  <2>6. k \in 0..n
    BY <2>1
  <2>. QED  BY <1>3, <2>1, <2>5, <2>6
<1>6. n \in S
  BY <1>2, <1>4, <1>5, UpTo
<1>. QED  BY <1>1, <1>2, <1>3, <1>6

\* The calls that an answer may run: none is blocked, a change comes once, and none is forgotten.
AllowedUpTo(q, calls, m) ==
    /\ q \in Seq(Calls) /\ Len(q) <= m
    /\ \A i \in 1..Len(q) : ~Blocked(q[i])
    /\ \A i, j \in 1..Len(q) : q[i] = q[j] /\ Kind[q[i]] = "mutation" => i = j
    /\ \A j \in 1..m : Blocked(calls[j]) \/ \E i \in 1..Len(q) : q[i] = calls[j]

LEMMA AdmitIs ==
    ASSUME NEW calls \in Seq(Calls), NEW m \in Nat, m + 1 <= Len(calls), NEW q, AllowedUpTo(q, calls, m)
    PROVE  AllowedUpTo(Admit(q, calls[m + 1]), calls, m + 1)
<1>1. PICK c \in Calls : c = calls[m + 1]
  OBVIOUS
<1>2. PICK n \in Nat, r \in Seq(Calls) : r = q /\ n = Len(r) /\ n <= m
  BY DEF AllowedUpTo
<1>3. \A j \in 1..m + 1 : j \in 1..m \/ j = m + 1
  OBVIOUS
<1>4. CASE Blocked(c) \/ (Kind[c] = "mutation" /\ Contains(q, c))
  <2>1. Admit(q, c) = q
    BY <1>4 DEF Admit
  <2>2. Blocked(c) \/ \E i \in 1..n : q[i] = c
    BY <1>2, <1>4 DEF Contains
  <2>3. \A j \in 1..m + 1 : Blocked(calls[j]) \/ \E i \in 1..n : q[i] = calls[j]
    <3>1. \A j \in 1..m : Blocked(calls[j]) \/ \E i \in 1..n : q[i] = calls[j]
      BY <1>2 DEF AllowedUpTo
    <3>. QED  BY <1>1, <1>3, <2>2, <3>1
  <2>4. n <= m + 1
    BY <1>2
  <2>5. q \in Seq(Calls) /\ n = Len(q)
    BY <1>2
  <2>6. /\ \A i \in 1..n : ~Blocked(q[i])
        /\ \A i, j \in 1..n : q[i] = q[j] /\ Kind[q[i]] = "mutation" => i = j
    BY <1>2 DEF AllowedUpTo
  <2>7. AllowedUpTo(q, calls, m + 1)
    BY <2>3, <2>4, <2>5, <2>6, Zenon DEF AllowedUpTo
  <2>. QED  BY <1>1, <2>1, <2>7
<1>5. CASE ~(Blocked(c) \/ (Kind[c] = "mutation" /\ Contains(q, c)))
  <2>1. Admit(q, c) = Append(r, c)
    BY <1>2, <1>5 DEF Admit
  <2>2. PICK p \in Seq(Calls) : p = Append(r, c)
    <3>1. r \in Seq(Calls) /\ c \in Calls
      BY <1>1, <1>2
    <3>2. Append(r, c) \in Seq(Calls)
      BY <3>1, AppendProperties
    <3>. QED  BY <3>2, Zenon
  <2>3. Len(p) = n + 1 /\ p[n + 1] = c /\ \A i \in 1..n : p[i] = q[i]
    BY <1>1, <1>2, <2>2
  <2>4. \A i \in 1..n + 1 : i \in 1..n \/ i = n + 1
    BY <1>2
  <2>5. n + 1 \in 1..n + 1 /\ \A i \in 1..n : i \in 1..n + 1
    BY <1>2
  <2>6. \A i \in 1..n : ~Blocked(q[i])
    BY <1>2 DEF AllowedUpTo
  <2>7. \A i \in 1..n + 1 : ~Blocked(p[i])
    BY <1>5, <2>3, <2>4, <2>6
  <2>8. Kind[c] = "mutation" => \A i \in 1..n : q[i] # c
    BY <1>2, <1>5 DEF Contains
  <2>9. \A i, j \in 1..n : q[i] = q[j] /\ Kind[q[i]] = "mutation" => i = j
    BY <1>2 DEF AllowedUpTo
  <2>10. \A i, j \in 1..n + 1 : p[i] = p[j] /\ Kind[p[i]] = "mutation" => i = j
    BY <2>3, <2>4, <2>8, <2>9
  <2>11. \A j \in 1..m : Blocked(calls[j]) \/ \E i \in 1..n : q[i] = calls[j]
    BY <1>2 DEF AllowedUpTo
  <2>12. \A j \in 1..m + 1 : Blocked(calls[j]) \/ \E i \in 1..n + 1 : p[i] = calls[j]
    BY <1>1, <1>3, <2>3, <2>5, <2>11
  <2>13. n + 1 <= m + 1
    BY <1>2
  <2>14. AllowedUpTo(p, calls, m + 1)
    <3>1. p \in Seq(Calls) /\ Len(p) = n + 1
      BY <2>2, <2>3
    <3>. HIDE DEF Blocked
    <3>. QED  BY <2>7, <2>10, <2>12, <2>13, <3>1, Zenon DEF AllowedUpTo
  <2>. QED  BY <1>1, <2>1, <2>2, <2>14
<1>. QED  BY <1>4, <1>5

LEMMA AllowedIs ==
    ASSUME NEW calls \in Seq(Calls)
    PROVE  AllowedUpTo(Allowed(calls), calls, Len(calls))
<1>1. PICK h : /\ Allowed(calls) = h[1..Len(calls)] /\ h[1..0] = <<>>
               /\ \A m \in 1..Len(calls) : h[1..m] = Admit(h[1..m - 1], calls[m])
  BY AllowedFold
<1>2. PICK n \in Nat : n = Len(calls)
  OBVIOUS
<1>3. PICK S : S = {m \in 0..n : AllowedUpTo(h[1..m], calls, m)}
  OBVIOUS
<1>4. 0 \in S
  <2>1. AllowedUpTo(<<>>, calls, 0)
    BY DEF AllowedUpTo
  <2>. QED  BY <1>1, <1>2, <1>3, <2>1
<1>5. ASSUME NEW m \in 0..n - 1, m \in S PROVE m + 1 \in S
  <2>1. m + 1 \in 1..n /\ m + 1 \in 0..n /\ (m + 1) - 1 = m /\ m \in Nat /\ m + 1 <= Len(calls)
    BY <1>2
  <2>2. h[1..m + 1] = Admit(h[1..m], calls[m + 1])
    BY <1>1, <1>2, <2>1
  <2>3. AllowedUpTo(h[1..m], calls, m)
    BY <1>3, <1>5
  <2>4. AllowedUpTo(Admit(h[1..m], calls[m + 1]), calls, m + 1)
    BY <2>1, <2>3, AdmitIs
  <2>. QED  BY <1>3, <2>1, <2>2, <2>4
<1>6. n \in S
  BY <1>2, <1>4, <1>5, UpTo
<1>. QED  BY <1>1, <1>2, <1>3, <1>6

Trackers == [failures : [Calls -> Nat], permanent : SUBSET Calls, total : Nat, same : [Calls -> Nat],
             done : [Calls -> Nat \cup {NONE}], generation : Nat]

\* The tracker knows the same of a call.
Alike(u, t, c) == /\ u.failures[c] = t.failures[c] /\ u.done[c] = t.done[c] /\ u.same[c] = t.same[c]
                  /\ c \in u.permanent <=> c \in t.permanent

LEMMA AfterResultIs ==
    ASSUME NEW t \in Trackers, NEW c \in Calls, NEW o \in ToolOutcomes, NEW u, u = AfterResult(t, c, o)
    PROVE  /\ u \in Trackers /\ u.total <= t.total + 1
           /\ \A d \in Calls : u.failures[d] <= t.failures[d] + 1
           /\ \A d \in Calls : d # c => Alike(u, t, d)
           /\ \A d \in Calls : u.done[d] = NONE => t.done[d] = NONE
           /\ Succeeds(o) => u.done[c] # NONE
           /\ o = "permanent" => c \in u.permanent
<1>1. PICK g \in Nat : g = IF Kind[c] = "mutation" THEN t.generation + 1 ELSE t.generation
  BY DEF Trackers
<1>2. PICK f, p, d, s, n, k : t = [failures |-> f, permanent |-> p, total |-> n, same |-> s, done |-> d, generation |-> k]
  BY DEF Trackers
<1>3. /\ f \in [Calls -> Nat] /\ p \in SUBSET Calls /\ n \in Nat /\ s \in [Calls -> Nat] /\ k \in Nat
      /\ d \in [Calls -> Nat \cup {NONE}]
  BY <1>2 DEF Trackers
<1>4. CASE Succeeds(o)
  <2>1. PICK v \in Nat : v = IF o = "same" THEN s[c] + 1 ELSE 1
    BY <1>3
  <2>2. u = [t EXCEPT !.failures[c] = 0, !.permanent = @ \ {c}, !.generation = g, !.done[c] = g,
                      !.same[c] = IF o = "same" THEN @ + 1 ELSE 1]
    BY <1>1, <1>4 DEF AfterResult
  <2>3. u = [failures |-> [f EXCEPT ![c] = 0], permanent |-> p \ {c}, total |-> n,
             same |-> [s EXCEPT ![c] = v], done |-> [d EXCEPT ![c] = g], generation |-> g]
    BY <1>2, <2>1, <2>2
  <2>4. /\ u.failures = [f EXCEPT ![c] = 0] /\ u.permanent = p \ {c} /\ u.total = n
        /\ u.same = [s EXCEPT ![c] = v] /\ u.done = [d EXCEPT ![c] = g] /\ u.generation = g
    BY <2>3
  <2>5. /\ [f EXCEPT ![c] = 0] \in [Calls -> Nat] /\ p \ {c} \in SUBSET Calls
        /\ [s EXCEPT ![c] = v] \in [Calls -> Nat] /\ [d EXCEPT ![c] = g] \in [Calls -> Nat \cup {NONE}]
    BY <1>1, <1>3, <2>1
  <2>6. u \in Trackers
    BY <1>1, <1>3, <2>3, <2>5 DEF Trackers
  <2>7. o # "permanent"
    BY <1>4 DEF Succeeds
  <2>8. \A e \in Calls : e # c => Alike(u, t, e)
    BY <1>2, <1>3, <2>4 DEF Alike
  <2>9. \A e \in Calls : u.failures[e] <= t.failures[e] + 1
    <3>1. t.failures = f /\ \A e \in Calls : f[e] \in Nat /\ u.failures[e] = IF e = c THEN 0 ELSE f[e]
      BY <1>2, <1>3, <2>4
    <3>. QED  BY <3>1
  <2>10. u.done[c] # NONE /\ \A e \in Calls : u.done[e] = NONE => t.done[e] = NONE
    <3>1. g # NONE
      BY <1>1 DEF NONE
    <3>. QED  BY <1>2, <1>3, <2>4, <3>1
  <2>. QED  BY <1>2, <1>3, <2>4, <2>6, <2>7, <2>8, <2>9, <2>10
<1>5. CASE ~Succeeds(o)
  <2>1. PICK r : r = (IF o = "permanent" THEN p \cup {c} ELSE p \ {c})
    OBVIOUS
  <2>2. u = [t EXCEPT !.failures[c] = @ + 1, !.total = @ + 1,
                      !.permanent = IF o = "permanent" THEN @ \cup {c} ELSE @ \ {c}]
    BY <1>5 DEF AfterResult
  <2>3. u = [failures |-> [f EXCEPT ![c] = f[c] + 1], permanent |-> r, total |-> n + 1,
             same |-> s, done |-> d, generation |-> k]
    BY <1>2, <2>1, <2>2
  <2>4. /\ u.failures = [f EXCEPT ![c] = f[c] + 1] /\ u.permanent = r /\ u.total = n + 1
        /\ u.same = s /\ u.done = d /\ u.generation = k
    BY <2>3
  <2>5. /\ [f EXCEPT ![c] = f[c] + 1] \in [Calls -> Nat] /\ r \in SUBSET Calls /\ n + 1 \in Nat
        /\ o = "permanent" => c \in r
        /\ \A e \in Calls : e # c => (e \in r <=> e \in p)
    BY <1>3, <2>1
  <2>6. u \in Trackers
    BY <1>3, <2>3, <2>5 DEF Trackers
  <2>8. \A e \in Calls : e # c => Alike(u, t, e)
    BY <1>2, <1>3, <2>4, <2>5 DEF Alike
  <2>9. \A e \in Calls : u.failures[e] <= t.failures[e] + 1
    <3>1. t.failures = f /\ \A e \in Calls : f[e] \in Nat /\ u.failures[e] = IF e = c THEN f[c] + 1 ELSE f[e]
      BY <1>2, <1>3, <2>4
    <3>. QED  BY <3>1
  <2>. QED  BY <1>2, <1>3, <1>5, <2>4, <2>5, <2>6, <2>8, <2>9
<1>. QED  BY <1>4, <1>5

\* What the tracker knows when the first of the results are recorded
AfterUpTo(u, outcomes, m) ==
    /\ u \in Trackers /\ u.total <= tracker.total + m
    /\ \A c \in Calls : u.failures[c] <= tracker.failures[c] + m
    /\ \A c \in Calls : (\A i \in 1..m : batch.run[i] # c) => Alike(u, tracker, c)
    /\ \A c \in Calls : u.done[c] = NONE => tracker.done[c] = NONE
    /\ \A i \in 1..m : Succeeds(outcomes[i]) => u.done[batch.run[i]] # NONE
    /\ \A i \in 1..m : outcomes[i] = "permanent" /\ (\A j \in 1..m : batch.run[j] = batch.run[i] => j = i)
                           => batch.run[i] \in u.permanent

LEMMA AfterOne ==
    ASSUME tracker \in Trackers, batch.run \in Seq(Calls), NEW outcomes, NEW m \in Nat, m + 1 <= Len(batch.run),
           outcomes[m + 1] \in ToolOutcomes, NEW t, AfterUpTo(t, outcomes, m)
    PROVE  AfterUpTo(AfterResult(t, batch.run[m + 1], outcomes[m + 1]), outcomes, m + 1)
<1>1. PICK c \in Calls, o \in ToolOutcomes : c = batch.run[m + 1] /\ o = outcomes[m + 1]
  OBVIOUS
<1>2. PICK u : u = AfterResult(t, c, o)
  OBVIOUS
<1>3. /\ u \in Trackers /\ u.total <= t.total + 1
      /\ \A d \in Calls : u.failures[d] <= t.failures[d] + 1
      /\ \A d \in Calls : d # c => Alike(u, t, d)
      /\ \A d \in Calls : u.done[d] = NONE => t.done[d] = NONE
      /\ Succeeds(o) => u.done[c] # NONE
      /\ o = "permanent" => c \in u.permanent
  <2>1. t \in Trackers
    BY DEF AfterUpTo
  <2>2. c \in Calls /\ o \in ToolOutcomes
    BY <1>1
  <2>3. u \in Trackers /\ u.total <= t.total + 1 /\ \A d \in Calls : u.failures[d] <= t.failures[d] + 1
    BY <1>2, <2>1, <2>2, AfterResultIs
  <2>4. \A d \in Calls : d # c => Alike(u, t, d)
    BY <1>2, <2>1, <2>2, AfterResultIs
  <2>5. \A d \in Calls : u.done[d] = NONE => t.done[d] = NONE
    BY <1>2, <2>1, <2>2, AfterResultIs DEF NONE
  <2>6. Succeeds(o) => u.done[c] # NONE
    BY <1>2, <2>1, <2>2, AfterResultIs DEF NONE, Succeeds
  <2>7. o = "permanent" => c \in u.permanent
    BY <1>2, <2>1, <2>2, AfterResultIs
  <2>. QED  BY <2>3, <2>4, <2>5, <2>6, <2>7
<1>4. /\ \A i \in 1..m : i \in 1..m + 1
      /\ \A i \in 1..m + 1 : i \in 1..m \/ i = m + 1
      /\ m + 1 \in 1..m + 1
  OBVIOUS
<1>5. \A i \in 1..m : batch.run[i] \in Calls
  OBVIOUS
<1>6. u.total <= tracker.total + (m + 1)
  BY <1>3 DEF AfterUpTo, Trackers
<1>7. \A d \in Calls : u.failures[d] <= tracker.failures[d] + (m + 1)
  <2>1. TAKE d \in Calls
  <2>2. u.failures[d] \in Nat /\ t.failures[d] \in Nat /\ tracker.failures[d] \in Nat
    BY <1>3 DEF AfterUpTo, Trackers
  <2>3. u.failures[d] <= t.failures[d] + 1 /\ t.failures[d] <= tracker.failures[d] + m
    BY <1>3 DEF AfterUpTo
  <2>. QED  BY <2>2, <2>3
<1>8. \A d \in Calls : (\A i \in 1..m + 1 : batch.run[i] # d) => Alike(u, tracker, d)
  <2>1. SUFFICES ASSUME NEW d \in Calls, \A i \in 1..m + 1 : batch.run[i] # d PROVE Alike(u, tracker, d)
    OBVIOUS
  <2>2. d # c /\ \A i \in 1..m : batch.run[i] # d
    BY <1>1, <1>4, <2>1
  <2>3. Alike(u, t, d) /\ Alike(t, tracker, d)
    BY <1>3, <2>2 DEF AfterUpTo
  <2>. QED  BY <2>3 DEF Alike
<1>9. \A d \in Calls : u.done[d] = NONE => tracker.done[d] = NONE
  BY <1>3 DEF AfterUpTo
<1>10. \A i \in 1..m + 1 : Succeeds(outcomes[i]) => u.done[batch.run[i]] # NONE
  <2>1. \A i \in 1..m : Succeeds(outcomes[i]) => t.done[batch.run[i]] # NONE
    BY DEF AfterUpTo
  <2>2. \A i \in 1..m : Succeeds(outcomes[i]) => u.done[batch.run[i]] # NONE
    BY <1>3, <1>5, <2>1
  <2>. QED  BY <1>1, <1>3, <1>4, <2>2
<1>11. \A i \in 1..m + 1 : outcomes[i] = "permanent" /\ (\A j \in 1..m + 1 : batch.run[j] = batch.run[i] => j = i)
                               => batch.run[i] \in u.permanent
  <2>1. SUFFICES ASSUME NEW i \in 1..m + 1, outcomes[i] = "permanent",
                        \A j \in 1..m + 1 : batch.run[j] = batch.run[i] => j = i
                 PROVE  batch.run[i] \in u.permanent
    OBVIOUS
  <2>2. CASE i = m + 1
    BY <1>1, <1>3, <2>1, <2>2
  <2>3. CASE i \in 1..m
    <3>1. batch.run[i] \in t.permanent
      <4>1. \A j \in 1..m : batch.run[j] = batch.run[i] => j = i
        BY <1>4, <2>1
      <4>. QED  BY <2>1, <2>3, <4>1 DEF AfterUpTo
    <3>2. batch.run[i] # c /\ batch.run[i] \in Calls
      <4>1. m + 1 # i
        BY <2>3
      <4>. QED  BY <1>1, <1>4, <1>5, <2>1, <2>3, <4>1
    <3>3. Alike(u, t, batch.run[i])
      BY <1>3, <3>2
    <3>. QED  BY <3>1, <3>3 DEF Alike
  <2>. QED  BY <1>4, <2>2, <2>3
<1>. QED  BY <1>1, <1>2, <1>3, <1>6, <1>7, <1>8, <1>9, <1>10, <1>11 DEF AfterUpTo

LEMMA AfterResultsIs ==
    ASSUME tracker \in Trackers, batch.run \in Seq(Calls), NEW outcomes \in [DOMAIN batch.run -> ToolOutcomes]
    PROVE  AfterUpTo(AfterResults(outcomes), outcomes, Len(batch.run))
<1>1. PICK h : /\ AfterResults(outcomes) = h[1..Len(batch.run)] /\ h[1..0] = tracker
               /\ \A m \in 1..Len(batch.run) : h[1..m] = AfterResult(h[1..m - 1], batch.run[m], outcomes[m])
  BY ResultsFold
<1>2. PICK n \in Nat : n = Len(batch.run) /\ \A m \in 1..n : outcomes[m] \in ToolOutcomes
  OBVIOUS
<1>3. PICK S : S = {m \in 0..n : AfterUpTo(h[1..m], outcomes, m)}
  OBVIOUS
<1>4. 0 \in S
  <2>1. AfterUpTo(tracker, outcomes, 0)
    <3>1. \A c \in Calls : tracker.failures[c] \in Nat /\ tracker.failures[c] <= tracker.failures[c] + 0
      BY DEF Trackers
    <3>2. tracker.total \in Nat
      BY DEF Trackers
    <3>3. \A c \in Calls : Alike(tracker, tracker, c)
      BY DEF Alike
    <3>4. \A i \in 1..0 : FALSE
      OBVIOUS
    <3>. QED  BY <3>1, <3>2, <3>3, <3>4 DEF AfterUpTo
  <2>. QED  BY <1>1, <1>2, <1>3, <2>1
<1>5. ASSUME NEW m \in 0..n - 1, m \in S PROVE m + 1 \in S
  <2>1. m + 1 \in 1..n /\ m + 1 \in 0..n /\ (m + 1) - 1 = m /\ m \in Nat /\ m + 1 <= Len(batch.run)
    BY <1>2
  <2>2. h[1..m + 1] = AfterResult(h[1..m], batch.run[m + 1], outcomes[m + 1]) /\ outcomes[m + 1] \in ToolOutcomes
    BY <1>1, <1>2, <2>1
  <2>3. AfterUpTo(h[1..m], outcomes, m)
    BY <1>3, <1>5
  <2>4. AfterUpTo(AfterResult(h[1..m], batch.run[m + 1], outcomes[m + 1]), outcomes, m + 1)
    BY <2>1, <2>2, <2>3, AfterOne
  <2>. QED  BY <1>3, <2>1, <2>2, <2>4
<1>6. n \in S
  <2>1. n \in Nat /\ n \in 0..n
    BY <1>2
  <2>2. \A m \in 0..n : m \in S
    BY <1>4, <1>5, <2>1, UpTo, Zenon
  <2>. QED  BY <2>1, <2>2
<1>. QED  BY <1>1, <1>2, <1>3, <1>6

TurnRecords ==
    [phase : Phases, iteration : 0 .. MaxIterations, followed : BOOLEAN,
     closing : {"none", "final", "blocked", "synthesis"},
     attempts : 0 .. MaxContinuations, cut : BOOLEAN,
     result : {"none", "Complete", "Incomplete", "BudgetExhausted", "UserStopped", "Error"}]
Batches == [run : SeqOf(Calls, MaxBatch), blocked : SUBSET Calls, size : 0 .. MaxBatch]
Inputs == [token : BOOLEAN, channel : SeqOf({"Stop", "Wait"}, MaxCommands), pending : Commands, stop : BOOLEAN]
Histories == [requests : Nat, calls : Nat, ran : SUBSET Calls, settled : [Calls -> Nat], stop : BOOLEAN]

Typed ==
    /\ turn \in TurnRecords /\ used \in [llm : Nat, tools : Nat] /\ tracker \in Trackers
    /\ batch \in Batches /\ input \in Inputs
    /\ turns \in 0 .. MaxTurns /\ commands \in 0 .. MaxCommands /\ seen \in Histories

LEMMA TypesAre == (TurnTypeOK <=> Typed) /\ (TurnTypeOK' <=> Typed')
<1>1. Commands = {"none", "Stop", "Wait"}
  BY DEF Commands
<1>2. TurnTypeOK <=> Typed
  BY <1>1, Zenon DEF TurnTypeOK, Typed, TurnRecords, Trackers, Batches, Inputs, Histories
<1>3. TurnTypeOK' <=> Typed'
  BY <1>1, Zenon DEF TurnTypeOK, Typed, TurnRecords, Trackers, Batches, Inputs, Histories
<1>. QED  BY <1>2, <1>3

LEMMA LimitsAre ==
    /\ MaxIterations \in Nat \ {0} /\ MaxConsecutiveFailures \in Nat \ {0} /\ MaxCycleFailures \in Nat \ {0}
    /\ MaxNoProgress \in Nat \ {0} /\ MaxBatch \in Nat \ {0}
    /\ MaxLlmCalls \in Nat /\ MaxToolInvocations \in Nat /\ MaxContinuations \in Nat
    /\ MaxTurns \in Nat /\ MaxCommands \in Nat
    /\ Kind \in [Calls -> {"observation", "mutation", "orchestration"}]
BY TurnAssumption

\* The sequences of the batch and of the channel
LEMMA SeqsAre ==
    /\ \A q : q \in SeqOf(Calls, MaxBatch) <=> q \in Seq(Calls) /\ Len(q) <= MaxBatch
    /\ \A q : q \in SeqOf({"Stop", "Wait"}, MaxCommands) <=> q \in Seq({"Stop", "Wait"}) /\ Len(q) <= MaxCommands
<1>1. MaxBatch \in Nat /\ MaxCommands \in Nat
  BY LimitsAre
<1>2. \A q : q \in SeqOf(Calls, MaxBatch) <=> q \in Seq(Calls) /\ Len(q) <= MaxBatch
  BY <1>1, SeqOfIs, Zenon
<1>3. \A q : q \in SeqOf({"Stop", "Wait"}, MaxCommands) <=> q \in Seq({"Stop", "Wait"}) /\ Len(q) <= MaxCommands
  BY <1>1, SeqOfIs, Zenon
<1>. QED  BY <1>2, <1>3

\* What the engine makes of the input
LEMMA InputIs ==
    ASSUME input \in Inputs
    PROVE  /\ Highest \in Commands
           /\ input.pending = "Stop" => Highest = "Stop"
           /\ Drained \in Inputs /\ Taken \in Inputs /\ Polled \in Inputs /\ [Taken EXCEPT !.stop = FALSE] \in Inputs
           /\ Drained.channel = <<>> /\ Taken.channel = <<>> /\ [Taken EXCEPT !.stop = FALSE].channel = <<>>
           /\ Drained.token = input.token /\ Drained.stop = input.stop /\ Drained.pending = Highest
           /\ Polled.channel \in {<<>>, input.channel}
           /\ input.token \/ input.stop => Polled = input
           /\ Highest = "Stop" => Polled.token \/ Polled.stop
<1>1. PICK i \in Inputs : i = input
  OBVIOUS
<1>2. PICK S : S = SeqOf({"Stop", "Wait"}, MaxCommands)
  OBVIOUS
<1>3. <<>> \in S
  <2>1. <<>> \in Seq({"Stop", "Wait"}) /\ Len(<<>>) <= MaxCommands
    BY LimitsAre
  <2>. QED  BY <1>2, <2>1, SeqsAre, Zenon
<1>4. i.channel \in Seq({"Stop", "Wait"}) /\ i.pending \in Commands
  <2>1. i.channel \in SeqOf({"Stop", "Wait"}, MaxCommands) /\ i.pending \in Commands
    BY <1>1 DEF Inputs
  <2>. QED  BY <2>1, SeqsAre, Zenon
<1>5. PICK z \in Commands : z = Highest /\ (i.pending = "Stop" => z = "Stop")
  <2>1. Highest = Flow(i.pending, i.channel)
    BY <1>1 DEF Highest, Flow
  <2>. QED  BY <1>4, <2>1, CommandsIs
<1>6. PICK b \in BOOLEAN : b = (z = "Stop")
  OBVIOUS
<1>7. Inputs = [token : BOOLEAN, channel : S, pending : Commands, stop : BOOLEAN]
  BY <1>2 DEF Inputs
<1>8. "none" \in Commands
  BY DEF Commands
<1>9. PICK d, t, u, v : /\ d = [i EXCEPT !.channel = <<>>, !.pending = z]
                        /\ t = [i EXCEPT !.channel = <<>>, !.pending = "none"]
                        /\ u = [t EXCEPT !.stop = FALSE] /\ v = [t EXCEPT !.stop = b]
  OBVIOUS
<1>10. /\ d \in Inputs /\ d.channel = <<>> /\ d.token = i.token /\ d.stop = i.stop /\ d.pending = z
       /\ t \in Inputs /\ t.channel = <<>>
  BY <1>1, <1>3, <1>5, <1>7, <1>8, <1>9
<1>11. u \in Inputs /\ u.channel = <<>>
  BY <1>7, <1>9, <1>10
<1>12. v \in Inputs /\ v.channel = <<>> /\ v.stop = b
  BY <1>6, <1>7, <1>9, <1>10
<1>13. d = Drained /\ t = Taken /\ u = [Taken EXCEPT !.stop = FALSE]
  BY <1>1, <1>5, <1>9, Zenon DEF Drained, Taken
<1>14. v = [Taken EXCEPT !.stop = Highest = "Stop"]
  BY <1>5, <1>6, <1>9, <1>13, Zenon
<1>15. /\ i.stop \/ i.token => Polled = i
       /\ ~(i.stop \/ i.token) => Polled = v
  BY <1>1, <1>14, Zenon DEF Polled
<1>16. /\ Polled \in Inputs /\ Polled.channel \in {<<>>, i.channel}
       /\ z = "Stop" => Polled.token \/ Polled.stop
  <2>1. CASE i.stop \/ i.token
    BY <1>1, <1>15, <2>1
  <2>2. CASE ~(i.stop \/ i.token)
    BY <1>6, <1>12, <1>15, <2>2
  <2>. QED  BY <2>1, <2>2
<1>. QED  BY <1>1, <1>5, <1>10, <1>11, <1>13, <1>15, <1>16

\* The engine knows of a stop.
Stopped(i) == i.token \/ i.stop \/ i.pending = "Stop"

LEMMA CancelledIs ==
    ASSUME input \in Inputs
    PROVE  /\ Stopped(input) => Cancelled
           /\ Cancelled => Stopped(Drained) /\ Stopped(Polled)
<1>1. /\ input.pending = "Stop" => Highest = "Stop"
      /\ Drained.token = input.token /\ Drained.stop = input.stop /\ Drained.pending = Highest
      /\ input.token \/ input.stop => Polled = input
      /\ Highest = "Stop" => Polled.token \/ Polled.stop
  BY InputIs
<1>2. Stopped(input) => Cancelled
  BY <1>1, Zenon DEF Stopped, Cancelled
<1>3. Cancelled => Stopped(Drained)
  BY <1>1, Zenon DEF Stopped, Cancelled
<1>4. Cancelled => Stopped(Polled)
  <2>1. CASE input.token \/ input.stop
    BY <1>1, <2>1, Zenon DEF Stopped
  <2>2. CASE ~(input.token \/ input.stop)
    BY <1>1, <2>2, Zenon DEF Stopped, Cancelled
  <2>. QED  BY <2>1, <2>2
<1>. QED  BY <1>2, <1>3, <1>4

Results == {"none", "Complete", "Incomplete", "BudgetExhausted", "UserStopped", "Error"}

LEMMA EndTurnIs ==
    ASSUME turn \in TurnRecords, NEW r \in Results, EndTurn(r)
    PROVE  turn' \in TurnRecords /\ turn'.phase = "idle" /\ turn'.result = r
<1>1. PICK t, u : t = turn /\ t \in TurnRecords /\ u = turn' /\ u = [t EXCEPT !.phase = "idle", !.result = r]
  BY DEF EndTurn
<1>2. "idle" \in Phases
  BY DEF Phases
<1>3. u \in TurnRecords /\ u.phase = "idle" /\ u.result = r
  BY <1>1, <1>2 DEF TurnRecords, Results
<1>4. TurnRecords' = TurnRecords
  BY DEF TurnRecords, Phases
<1>. QED  BY <1>1, <1>3

\* A request or a look at the input: what the engine heard is in its history.
LEMMA NoticesIs ==
    ASSUME NEW h \in Histories, Notices(h)
    PROVE  /\ seen' \in Histories /\ seen'.requests = h.requests /\ seen'.calls = h.calls
           /\ seen'.ran = h.ran /\ seen'.settled = h.settled
           /\ seen'.stop => h.stop \/ Cancelled
<1>1. PICK b \in BOOLEAN : b = (h.stop \/ Cancelled)
  BY Zenon
<1>2. seen' = [h EXCEPT !.stop = b]
  BY <1>1, Zenon DEF Notices
<1>3. PICK u : u = seen' /\ u = [h EXCEPT !.stop = b]
  BY <1>2
<1>4. /\ u \in Histories /\ u.requests = h.requests /\ u.calls = h.calls /\ u.ran = h.ran /\ u.settled = h.settled
      /\ u.stop = b
  BY <1>1, <1>3 DEF Histories
<1>5. u.stop => h.stop \/ Cancelled
  BY <1>1, <1>4, Zenon
<1>. QED  BY <1>3, <1>4, <1>5, Zenon

LEMMA AskIs ==
    ASSUME turn \in TurnRecords, seen \in Histories, NEW p \in {"reasoning", "finishing"},
           NEW c \in {"none", "final", "blocked", "synthesis"}, Ask(p, c)
    PROVE  /\ turn' \in TurnRecords /\ turn'.phase = p /\ turn'.result = turn.result /\ input' = Drained
           /\ seen' \in Histories /\ seen'.requests = seen.requests + 1 /\ seen'.calls = seen.calls
           /\ seen'.ran = seen.ran /\ seen'.settled = seen.settled
           /\ seen'.stop => seen.stop \/ Cancelled
<1>1. PICK t, u : /\ t = turn /\ t \in TurnRecords /\ u = turn'
                /\ u = [t EXCEPT !.phase = p, !.closing = c, !.attempts = 0, !.cut = FALSE]
  BY DEF Ask
<1>2. p \in Phases /\ 0 \in 0 .. MaxContinuations
  BY LimitsAre DEF Phases
<1>3. u \in TurnRecords /\ u.phase = p /\ u.result = t.result
  BY <1>1, <1>2 DEF TurnRecords
<1>4. PICK s, h : s = seen /\ s \in Histories /\ h = [s EXCEPT !.requests = @ + 1]
  OBVIOUS
<1>5. /\ h \in Histories /\ h.requests = s.requests + 1 /\ h.calls = s.calls /\ h.ran = s.ran /\ h.settled = s.settled
      /\ h.stop = s.stop
  BY <1>4 DEF Histories
<1>6. Notices(h)
  BY <1>4 DEF Ask
<1>7. /\ seen' \in Histories /\ seen'.requests = h.requests /\ seen'.calls = h.calls
      /\ seen'.ran = h.ran /\ seen'.settled = h.settled /\ (seen'.stop => h.stop \/ Cancelled)
  BY <1>5, <1>6, NoticesIs
<1>8. seen'.stop => seen.stop \/ Cancelled
  BY <1>4, <1>5, <1>7, Zenon
<1>9. input' = Drained
  BY DEF Ask
<1>. QED  BY <1>1, <1>3, <1>4, <1>5, <1>7, <1>8, <1>9

\* What the tracker knows and the batch stay.
LEMMA TrackKeeps ==
    ASSUME TrackInv, tracker' = tracker, seen'.ran = seen.ran, seen'.settled = seen.settled,
           turn'.phase = "begin" <=> turn.phase = "begin",
           \/ batch' = NoBatch
           \/ batch' = batch /\ turn'.phase = "acting"
    PROVE  TrackInv'
<1>1. FailuresWithinReach'
  BY DEF TrackInv, FailuresWithinReach
<1>2. \A c : Known(c)' <=> Known(c)
  BY DEF Known
<1>3. \A c : Settles(c)' <=> Settles(c)
  BY DEF Settles
<1>4. \A c : Blocked(c)' <=> Blocked(c)
  BY DEF Blocked, Limited, Duplicate
<1>5. TrackerInv'
  BY <1>2, <1>3 DEF TrackInv, TrackerInv
<1>6. SettledOnce'
  BY DEF TrackInv, SettledOnce
<1>7. VerdictsAreOfThisTurn' /\ BatchInv'
  <2>1. CASE batch' = NoBatch
    <3>1. batch'.blocked = {} /\ batch'.run = <<>>
      BY <2>1 DEF NoBatch
    <3>2. DOMAIN batch'.run = {}
      BY <3>1
    <3>. QED  BY <2>1, <3>1, <3>2 DEF VerdictsAreOfThisTurn, BatchInv, NoBatch
  <2>2. CASE batch' = batch /\ turn'.phase = "acting"
    BY <1>4, <2>2 DEF TrackInv, VerdictsAreOfThisTurn, BatchInv
  <2>. QED  BY <2>1, <2>2
<1>. QED  BY <1>1, <1>5, <1>6, <1>7 DEF TrackInv

\* The turn ends: what it spent is not looked at any more.
LEMMA EndKeeps ==
    ASSUME TurnIInv, turn.phase \notin {"idle", "begin"}, NEW r \in Results, EndTurn(r),
           used' \in [llm : Nat, tools : Nat], used'.tools >= used.tools, tracker' = tracker, batch' = NoBatch,
           input' \in Inputs, input'.channel \in {<<>>, input.channel}, UNCHANGED <<turns, commands>>,
           seen' \in Histories, seen'.requests = seen.requests, seen'.calls = seen.calls,
           seen'.ran = seen.ran, seen'.settled = seen.settled
    PROVE  TurnIInv'
<1>1. turn' \in TurnRecords /\ turn'.phase = "idle"
  BY EndTurnIs, TypesAre DEF TurnIInv, Typed
<1>2. TurnTypeOK'
  <2>1. batch' \in Batches
    <3>1. <<>> \in Seq(Calls) /\ Len(<<>>) <= MaxBatch /\ 0 \in 0..MaxBatch
      BY LimitsAre
    <3>2. <<>> \in SeqOf(Calls, MaxBatch)
      BY <3>1, SeqsAre, Zenon
    <3>. QED  BY <3>1, <3>2 DEF NoBatch, Batches
  <2>. QED  BY <1>1, <2>1, TypesAre DEF TurnIInv, Typed
<1>3. TrackInv'
  BY <1>1, TrackKeeps DEF TurnIInv
<1>4. SpentWithinReach'
  BY DEF TurnIInv, SpentWithinReach
<1>5. SpendInv'
  <2>1. seen.calls <= used.tools /\ seen.calls \in Nat /\ used.tools \in Nat /\ used'.tools \in Nat
    BY TypesAre DEF TurnIInv, Typed, SpendInv, Histories
  <2>. QED  BY <1>1, <2>1 DEF SpendInv
<1>6. HeardInv'
  <2>1. Len(<<>>) = 0 /\ Len(input.channel) <= commands /\ commands \in Nat
    BY TypesAre DEF TurnIInv, Typed, HeardInv
  <2>2. Len(input'.channel) <= commands'
    BY <2>1
  <2>. QED  BY <1>1, <2>2 DEF HeardInv
<1>. QED  BY <1>2, <1>3, <1>4, <1>5, <1>6 DEF TurnIInv

LEMMA SpendIs ==
    ASSUME used \in [llm : Nat, tools : Nat], NEW a \in Nat, NEW b \in Nat, Spend(a, b)
    PROVE  /\ used' \in [llm : Nat, tools : Nat] /\ used'.llm = used.llm + a /\ used'.tools = used.tools + b
           /\ used'.tools >= used.tools
BY DEF Spend

\* Nothing is in the batch while the turn is elsewhere.
LEMMA NothingRuns ==
    ASSUME TurnIInv, turn.phase # "acting"
    PROVE  batch = NoBatch
BY DEF TurnIInv, TrackInv, BatchInv

\* A request is made.
LEMMA AskKeeps ==
    ASSUME TurnIInv, turn.phase \in {"ready", "reasoning"}, NEW p \in {"reasoning", "finishing"},
           NEW c \in {"none", "final", "blocked", "synthesis"}, Ask(p, c),
           used' \in [llm : Nat, tools : Nat], used'.tools >= used.tools,
           used'.llm = seen.requests, used'.llm <= IF p = "reasoning" THEN MaxLlmCalls ELSE MaxLlmCalls + 1,
           UNCHANGED <<tracker, batch, turns, commands>>
    PROVE  TurnIInv'
<1>. Typed
  BY TypesAre DEF TurnIInv
<1>1. /\ turn' \in TurnRecords /\ turn'.phase = p /\ turn'.result = turn.result /\ input' = Drained
      /\ seen' \in Histories /\ seen'.requests = seen.requests + 1 /\ seen'.calls = seen.calls
      /\ seen'.ran = seen.ran /\ seen'.settled = seen.settled
      /\ seen'.stop => seen.stop \/ Cancelled
  BY AskIs DEF Typed
<1>2. Drained \in Inputs /\ Drained.channel = <<>>
  BY InputIs DEF Typed
<1>3. TurnTypeOK'
  BY <1>1, <1>2, TypesAre DEF Typed
<1>4. batch = NoBatch
  BY NothingRuns
<1>5. TrackInv'
  BY <1>1, <1>4, TrackKeeps DEF TurnIInv
<1>6. seen.requests \in Nat /\ seen.calls \in Nat /\ used.tools \in Nat /\ used'.tools \in Nat /\ MaxLlmCalls \in Nat
  BY LimitsAre DEF Typed, Histories
<1>7. SpentWithinReach' /\ SpendInv'
  <2>1. seen'.requests <= MaxLlmCalls + 2
    BY <1>1, <1>6
  <2>2. seen.calls <= used.tools /\ seen.calls <= MaxToolInvocations
    BY DEF TurnIInv, SpendInv, SpentWithinReach
  <2>3. seen'.calls <= used'.tools
    BY <1>1, <1>6, <2>2
  <2>. QED  BY <1>1, <2>1, <2>2, <2>3 DEF SpentWithinReach, SpendInv
<1>8. HeardInv'
  <2>1. seen.stop => Stopped(input)
    BY DEF TurnIInv, HeardInv, Stopped
  <2>2. Stopped(input) => Cancelled
    BY CancelledIs DEF Typed
  <2>3. Cancelled => Stopped(Drained)
    BY CancelledIs DEF Typed
  <2>4. seen'.stop => Stopped(Drained)
    BY <1>1, <2>1, <2>2, <2>3, Zenon
  <2>5. turn.result = "none"
    BY DEF TurnIInv, HeardInv
  <2>6. Len(input'.channel) <= commands'
    <3>1. commands \in Nat /\ Len(<<>>) = 0
      BY DEF Typed
    <3>. QED  BY <1>1, <1>2, <3>1
  <2>7. seen'.stop => input'.token \/ input'.stop \/ input'.pending = "Stop"
    BY <1>1, <2>4, Zenon DEF Stopped
  <2>. QED  BY <1>1, <2>5, <2>6, <2>7 DEF HeardInv
<1>. QED  BY <1>3, <1>5, <1>7, <1>8 DEF TurnIInv

LEMMA AskStep == TurnIInv /\ Request => TurnIInv'
<1>. SUFFICES ASSUME TurnIInv, Request PROVE TurnIInv'
  OBVIOUS
<1>. Typed
  BY TypesAre DEF TurnIInv
<1>1. turn.phase = "ready" /\ UNCHANGED <<used, tracker, batch, turns, commands>>
  BY DEF Request
<1>2. batch = NoBatch
  BY <1>1, NothingRuns
<1>3. CASE EndTurn("BudgetExhausted") /\ UNCHANGED <<input, seen>>
  <2>1. "BudgetExhausted" \in Results
    BY DEF Results
  <2>2. used.tools \in Nat
    BY DEF Typed
  <2>. QED  BY <1>1, <1>2, <1>3, <2>1, <2>2, EndKeeps DEF Typed
<1>4. CASE Fits(1, 0) /\ Ask("reasoning", "none")
  <2>1. used.tools \in Nat
    BY DEF Typed
  <2>2. used.llm = seen.requests /\ used.llm <= MaxLlmCalls
    BY <1>1 DEF TurnIInv, SpendInv
  <2>. QED  BY <1>1, <1>4, <2>1, <2>2, AskKeeps DEF Typed
<1>. QED  BY <1>3, <1>4 DEF Request

LEMMA PollStep == TurnIInv /\ Poll => TurnIInv'
<1>. SUFFICES ASSUME TurnIInv, Poll PROVE TurnIInv'
  OBVIOUS
<1>. Typed
  BY TypesAre DEF TurnIInv
<1>1. /\ turn.phase \in {"reasoning", "finishing"} /\ input' = Polled
      /\ UNCHANGED <<used, tracker, batch, turns, commands>>
  BY DEF Poll
<1>2. turn' \in TurnRecords /\ turn'.phase = turn.phase /\ turn'.result = turn.result
  <2>1. PICK b \in BOOLEAN : b = Cancelled
    BY Zenon DEF Cancelled
  <2>2. PICK t, u : t = turn /\ t \in TurnRecords /\ u = turn' /\ u = [t EXCEPT !.cut = b]
    BY <2>1, Zenon DEF Poll, Typed
  <2>3. u \in TurnRecords /\ u.phase = t.phase /\ u.result = t.result
    BY <2>1, <2>2 DEF TurnRecords
  <2>. QED  BY <2>2, <2>3
<1>3. /\ seen' \in Histories /\ seen'.requests = seen.requests /\ seen'.calls = seen.calls
      /\ seen'.ran = seen.ran /\ seen'.settled = seen.settled
      /\ seen'.stop => seen.stop \/ Cancelled
  BY NoticesIs DEF Typed, Poll
<1>4. Polled \in Inputs /\ Polled.channel \in {<<>>, input.channel}
  BY InputIs DEF Typed
<1>5. TurnTypeOK'
  BY <1>1, <1>2, <1>3, <1>4, TypesAre DEF Typed
<1>6. batch = NoBatch
  BY <1>1, NothingRuns
<1>7. TrackInv'
  BY <1>1, <1>2, <1>3, <1>6, TrackKeeps DEF TurnIInv
<1>8. SpentWithinReach' /\ SpendInv'
  BY <1>1, <1>2, <1>3 DEF TurnIInv, SpentWithinReach, SpendInv
<1>9. HeardInv'
  <2>1. seen.stop => Stopped(input)
    BY <1>1 DEF TurnIInv, HeardInv, Stopped
  <2>2. Stopped(input) => Cancelled
    BY CancelledIs DEF Typed
  <2>3. Cancelled => Stopped(Polled)
    BY CancelledIs DEF Typed
  <2>4. seen'.stop => Stopped(Polled)
    BY <1>3, <2>1, <2>2, <2>3, Zenon
  <2>5. turn.result = "none"
    BY <1>1 DEF TurnIInv, HeardInv
  <2>6. Len(input'.channel) <= commands'
    <3>1. commands \in Nat /\ Len(<<>>) = 0
      BY DEF Typed
    <3>2. Len(input.channel) <= commands
      BY DEF TurnIInv, HeardInv
    <3>. QED  BY <1>1, <1>4, <3>1, <3>2
  <2>7. seen'.stop => input'.token \/ input'.stop \/ input'.pending = "Stop"
    BY <1>1, <2>4, Zenon DEF Stopped
  <2>. QED  BY <1>1, <1>2, <2>5, <2>6, <2>7 DEF HeardInv
<1>. QED  BY <1>5, <1>7, <1>8, <1>9 DEF TurnIInv

LEMMA ContinueStep == TurnIInv /\ Continue => TurnIInv'
<1>. SUFFICES ASSUME TurnIInv, Continue PROVE TurnIInv'
  OBVIOUS
<1>. Typed
  BY TypesAre DEF TurnIInv
<1>1. /\ turn.phase \in {"reasoning", "finishing"} /\ input' = Drained /\ turn.attempts < MaxContinuations
      /\ Fits(1, 0) /\ Spend(1, 0) /\ UNCHANGED <<tracker, batch, turns, commands>>
  BY DEF Continue
<1>2. turn' \in TurnRecords /\ turn'.phase = turn.phase /\ turn'.result = turn.result
  <2>1. PICK n \in 0 .. MaxContinuations : n = turn.attempts + 1
    BY <1>1, LimitsAre DEF Typed, TurnRecords
  <2>2. PICK t, u : t = turn /\ t \in TurnRecords /\ u = turn' /\ u = [t EXCEPT !.attempts = n]
    BY <2>1 DEF Continue, Typed
  <2>3. u \in TurnRecords /\ u.phase = t.phase /\ u.result = t.result
    BY <2>1, <2>2 DEF TurnRecords
  <2>. QED  BY <2>2, <2>3
<1>3. /\ seen' \in Histories /\ seen'.requests = seen.requests + 1 /\ seen'.calls = seen.calls
      /\ seen'.ran = seen.ran /\ seen'.settled = seen.settled
      /\ seen'.stop => seen.stop \/ Cancelled
  <2>1. PICK s, h : s = seen /\ s \in Histories /\ h = [s EXCEPT !.requests = @ + 1]
    BY DEF Typed
  <2>2. /\ h \in Histories /\ h.requests = s.requests + 1 /\ h.calls = s.calls /\ h.ran = s.ran
        /\ h.settled = s.settled /\ h.stop = s.stop
    BY <2>1 DEF Histories
  <2>3. Notices(h)
    BY <2>1 DEF Continue
  <2>4. /\ seen' \in Histories /\ seen'.requests = h.requests /\ seen'.calls = h.calls
        /\ seen'.ran = h.ran /\ seen'.settled = h.settled /\ (seen'.stop => h.stop \/ Cancelled)
    BY <2>2, <2>3, NoticesIs
  <2>5. seen'.stop => seen.stop \/ Cancelled
    BY <2>1, <2>2, <2>4, Zenon
  <2>. QED  BY <2>1, <2>2, <2>4, <2>5
<1>4. Drained \in Inputs /\ Drained.channel = <<>>
  BY InputIs DEF Typed
<1>5. used' \in [llm : Nat, tools : Nat] /\ used'.llm = used.llm + 1 /\ used'.tools >= used.tools
  BY <1>1, SpendIs DEF Typed
<1>6. TurnTypeOK'
  BY <1>1, <1>2, <1>3, <1>4, <1>5, TypesAre DEF Typed
<1>7. batch = NoBatch
  BY <1>1, NothingRuns
<1>8. TrackInv'
  BY <1>1, <1>2, <1>3, <1>7, TrackKeeps DEF TurnIInv
<1>9. SpentWithinReach' /\ SpendInv'
  <2>1. /\ used.llm \in Nat /\ seen.requests \in Nat /\ seen.calls \in Nat /\ used.tools \in Nat
        /\ used'.tools \in Nat /\ MaxLlmCalls \in Nat
    BY <1>5, LimitsAre DEF Typed, Histories
  <2>2. used.llm + 1 <= MaxLlmCalls
    BY <1>1 DEF Fits
  <2>3. seen.requests = used.llm + 1
    BY <1>1 DEF TurnIInv, SpendInv
  <2>4. seen.calls <= used.tools /\ seen.calls <= MaxToolInvocations
    BY DEF TurnIInv, SpendInv, SpentWithinReach
  <2>5. seen'.calls <= used'.tools /\ seen'.requests <= MaxLlmCalls + 2
    BY <1>3, <1>5, <2>1, <2>2, <2>3, <2>4
  <2>. QED  BY <1>1, <1>2, <1>3, <1>5, <2>1, <2>2, <2>3, <2>4, <2>5 DEF SpentWithinReach, SpendInv
<1>10. HeardInv'
  <2>1. seen.stop => Stopped(input)
    BY <1>1 DEF TurnIInv, HeardInv, Stopped
  <2>2. Stopped(input) => Cancelled
    BY CancelledIs DEF Typed
  <2>3. Cancelled => Stopped(Drained)
    BY CancelledIs DEF Typed
  <2>4. seen'.stop => Stopped(Drained)
    BY <1>3, <2>1, <2>2, <2>3, Zenon
  <2>5. turn.result = "none"
    BY <1>1 DEF TurnIInv, HeardInv
  <2>6. Len(input'.channel) <= commands'
    <3>1. commands \in Nat /\ Len(<<>>) = 0
      BY DEF Typed
    <3>. QED  BY <1>1, <1>4, <3>1
  <2>7. seen'.stop => input'.token \/ input'.stop \/ input'.pending = "Stop"
    BY <1>1, <2>4, Zenon DEF Stopped
  <2>. QED  BY <1>1, <1>2, <2>5, <2>6, <2>7 DEF HeardInv
<1>. QED  BY <1>6, <1>8, <1>9, <1>10 DEF TurnIInv

LEMMA RequestFailsStep == TurnIInv /\ RequestFails => TurnIInv'
<1>. SUFFICES ASSUME TurnIInv, RequestFails PROVE TurnIInv'
  OBVIOUS
<1>. Typed
  BY TypesAre DEF TurnIInv
<1>1. PICK r \in Results : EndTurn(r)
  BY DEF RequestFails, Results
<1>2. /\ turn.phase \in {"reasoning", "finishing"}
      /\ UNCHANGED <<used, tracker, batch, input, turns, commands, seen>>
  BY DEF RequestFails
<1>3. batch = NoBatch /\ used.tools \in Nat
  BY <1>2, NothingRuns DEF Typed
<1>. QED  BY <1>1, <1>2, <1>3, EndKeeps DEF Typed

LEMMA ToolsFailStep == TurnIInv /\ ToolsFail => TurnIInv'
<1>. SUFFICES ASSUME TurnIInv, ToolsFail PROVE TurnIInv'
  OBVIOUS
<1>. Typed
  BY TypesAre DEF TurnIInv
<1>1. "Error" \in Results /\ used.tools \in Nat
  BY DEF Results, Typed
<1>2. /\ turn.phase = "acting" /\ EndTurn("Error") /\ batch' = NoBatch
      /\ UNCHANGED <<used, tracker, input, turns, commands, seen>>
  BY DEF ToolsFail
<1>. QED  BY <1>1, <1>2, EndKeeps DEF Typed

LEMMA ConcludeStep == TurnIInv /\ (\E text \in BOOLEAN : Conclude(text)) => TurnIInv'
<1>. SUFFICES ASSUME TurnIInv, NEW text \in BOOLEAN, Conclude(text) PROVE TurnIInv'
  OBVIOUS
<1>. Typed
  BY TypesAre DEF TurnIInv
<1>1. PICK r \in Results : EndTurn(r)
  BY Zenon DEF Conclude, Results
<1>2. /\ turn.phase = "finishing" /\ (IF turn.closing = "blocked" THEN Spend(1, 0) ELSE UNCHANGED used)
      /\ UNCHANGED <<tracker, batch, input, turns, commands, seen>>
  BY DEF Conclude
<1>3. used' \in [llm : Nat, tools : Nat] /\ used'.tools >= used.tools
  <2>1. CASE Spend(1, 0)
    BY <2>1, SpendIs DEF Typed
  <2>2. CASE UNCHANGED used
    BY <2>2 DEF Typed
  <2>. QED  BY <1>2, <2>1, <2>2
<1>4. batch = NoBatch
  BY <1>2, NothingRuns
<1>. QED  BY <1>1, <1>2, <1>3, <1>4, EndKeeps DEF Typed

\* The turn ends after the engine has looked at the input.
LEMMA EndsHeard ==
    ASSUME TurnIInv, turn.phase \notin {"idle", "begin"}, NEW r \in Results, EndTurn(r),
           used' \in [llm : Nat, tools : Nat], used'.tools >= used.tools, tracker' = tracker, batch' = NoBatch,
           input' = Taken \/ input' = [Taken EXCEPT !.stop = FALSE], UNCHANGED <<turns, commands>>, Notices(seen)
    PROVE  TurnIInv'
<1>. Typed
  BY TypesAre DEF TurnIInv
<1>1. /\ seen' \in Histories /\ seen'.requests = seen.requests /\ seen'.calls = seen.calls
      /\ seen'.ran = seen.ran /\ seen'.settled = seen.settled
  BY NoticesIs DEF Typed
<1>2. input' \in Inputs /\ input'.channel \in {<<>>, input.channel}
  <2>1. /\ Taken \in Inputs /\ Taken.channel = <<>>
        /\ [Taken EXCEPT !.stop = FALSE] \in Inputs /\ [Taken EXCEPT !.stop = FALSE].channel = <<>>
    BY InputIs DEF Typed
  <2>2. CASE input' = Taken
    BY <2>1, <2>2
  <2>3. CASE input' = [Taken EXCEPT !.stop = FALSE]
    BY <2>1, <2>3, Zenon
  <2>. QED  BY <2>2, <2>3
<1>. QED  BY <1>1, <1>2, EndKeeps

LEMMA AnswerStep == TurnIInv /\ (AnswerStopped \/ AnswerText \/ AnswerEmpty) => TurnIInv'
<1>. SUFFICES ASSUME TurnIInv, AnswerStopped \/ AnswerText \/ AnswerEmpty PROVE TurnIInv'
  OBVIOUS
<1>. Typed
  BY TypesAre DEF TurnIInv
<1>1. turn.phase = "reasoning" /\ Spend(1, 0) /\ UNCHANGED <<tracker, batch, turns, commands>>
  BY DEF AnswerStopped, AnswerText, AnswerEmpty, Answered
<1>2. batch = NoBatch
  BY <1>1, NothingRuns
<1>3. /\ used' \in [llm : Nat, tools : Nat] /\ used'.llm = used.llm + 1 /\ used'.tools >= used.tools
  BY <1>1, SpendIs DEF Typed
<1>4. {"UserStopped", "Complete", "Incomplete"} \subseteq Results
  BY DEF Results
<1>5. \/ EndTurn("UserStopped") /\ input' = [Taken EXCEPT !.stop = FALSE] /\ Notices(seen)
      \/ EndTurn("Complete") /\ input' = Taken /\ Notices(seen)
      \/ EndTurn("Incomplete") /\ input' = Taken /\ Notices(seen)
      \/ Ask("finishing", "final")
  BY Zenon DEF AnswerStopped, AnswerText, AnswerEmpty
<1>6. CASE EndTurn("UserStopped") /\ input' = [Taken EXCEPT !.stop = FALSE] /\ Notices(seen)
  BY <1>1, <1>2, <1>3, <1>4, <1>6, EndsHeard
<1>7. CASE EndTurn("Complete") /\ input' = Taken /\ Notices(seen)
  BY <1>1, <1>2, <1>3, <1>4, <1>7, EndsHeard
<1>8. CASE EndTurn("Incomplete") /\ input' = Taken /\ Notices(seen)
  BY <1>1, <1>2, <1>3, <1>4, <1>8, EndsHeard
<1>9. CASE Ask("finishing", "final")
  <2>1. used.llm \in Nat /\ MaxLlmCalls \in Nat /\ seen.requests = used.llm + 1 /\ used.llm <= MaxLlmCalls
    BY <1>1, LimitsAre DEF Typed, TurnIInv, SpendInv
  <2>2. used'.llm = seen.requests /\ used'.llm <= MaxLlmCalls + 1
    BY <1>3, <2>1
  <2>. QED  BY <1>1, <1>3, <1>9, <2>2, AskKeeps
<1>. QED  BY <1>5, <1>6, <1>7, <1>8, <1>9

\* What the limits and the tracker hold against a call is known of this turn, or too much failed.
LEMMA BlockedIsKnown ==
    ASSUME tracker \in Trackers, NEW c \in Calls, Blocked(c)
    PROVE  Known(c) \/ tracker.total >= MaxCycleFailures
<1>1. /\ tracker.failures[c] \in Nat /\ tracker.same[c] \in Nat /\ tracker.generation \in Nat
      /\ MaxConsecutiveFailures \in Nat \ {0} /\ MaxNoProgress \in Nat \ {0}
  BY LimitsAre DEF Trackers
<1>2. CASE c \in tracker.permanent
  BY <1>2 DEF Known
<1>3. CASE Limited(c)
  BY <1>1, <1>3 DEF Limited, Known
<1>4. CASE Duplicate(c)
  <2>1. tracker.generation # NONE
    BY <1>1 DEF NONE
  <2>. QED  BY <1>4, <2>1 DEF Duplicate, Known
<1>5. CASE tracker.same[c] >= MaxNoProgress
  BY <1>1, <1>5 DEF Known
<1>. QED  BY <1>2, <1>3, <1>4, <1>5 DEF Blocked

LEMMA BatchStarts ==
    ASSUME TurnIInv, turn.phase = "reasoning", ~turn.cut, ~Cancelled,
           NEW calls \in SeqOf(Calls, MaxBatch), Fits(1, Len(calls)), Spend(1, Len(calls)),
           batch' = [run |-> Allowed(calls), size |-> Len(calls),
                     blocked |-> {c \in ToSet(calls) : Blocked(c) \/ \E i, j \in DOMAIN calls :
                                      i < j /\ calls[i] = c /\ calls[j] = c /\ Kind[c] = "mutation"}],
           turn' = [turn EXCEPT !.phase = "acting"], input' = Taken,
           Notices([seen EXCEPT !.calls = @ + Len(calls)]), UNCHANGED <<tracker, turns, commands>>
    PROVE  TurnIInv'
<1>. Typed
  BY TypesAre DEF TurnIInv
<1>1. PICK n \in Nat : n = Len(calls) /\ n <= MaxBatch /\ DOMAIN calls = 1..n /\ calls \in Seq(Calls)
  <2>1. calls \in Seq(Calls) /\ Len(calls) <= MaxBatch
    BY SeqsAre, Zenon
  <2>. QED  BY <2>1
<1>2. AllowedUpTo(Allowed(calls), calls, n)
  BY <1>1, AllowedIs
<1>3. PICK q : q = Allowed(calls) /\ q \in Seq(Calls) /\ Len(q) <= n /\ q \in SeqOf(Calls, MaxBatch)
  <2>1. Allowed(calls) \in Seq(Calls) /\ Len(Allowed(calls)) <= n
    BY <1>2 DEF AllowedUpTo
  <2>2. Len(Allowed(calls)) <= MaxBatch
    BY <1>1, <2>1, LimitsAre
  <2>. QED  BY <2>1, <2>2, SeqsAre, Zenon
<1>4. PICK k : k = {c \in ToSet(calls) : Blocked(c) \/ \E i, j \in DOMAIN calls :
                        i < j /\ calls[i] = c /\ calls[j] = c /\ Kind[c] = "mutation"}
  OBVIOUS
<1>5. k \in SUBSET Calls /\ \A c \in k : Blocked(c) \/ \E i \in DOMAIN q : q[i] = c
  <2>1. ASSUME NEW c \in k PROVE c \in Calls /\ (Blocked(c) \/ \E i \in DOMAIN q : q[i] = c)
    <3>1. PICK j \in DOMAIN calls : calls[j] = c
      BY <1>4 DEF ToSet
    <3>2. Blocked(calls[j]) \/ \E i \in 1..Len(q) : q[i] = calls[j]
      BY <1>1, <1>2, <1>3 DEF AllowedUpTo
    <3>3. DOMAIN q = 1..Len(q) /\ calls[j] \in Calls
      BY <1>1, <1>3
    <3>. QED  BY <3>1, <3>2, <3>3
  <2>. QED  BY <2>1
<1>6. batch' = [run |-> q, size |-> n, blocked |-> k]
  BY <1>1, <1>3, <1>4
<1>7. batch'.run = q /\ batch'.blocked = k /\ batch'.size = n
  BY <1>6
<1>8. batch' \in Batches
  BY <1>1, <1>3, <1>5, <1>6, LimitsAre DEF Batches
<1>9. turn' \in TurnRecords /\ turn'.phase = "acting" /\ turn'.result = turn.result
  <2>1. PICK t, u : t = turn /\ t \in TurnRecords /\ u = turn' /\ u = [t EXCEPT !.phase = "acting"]
    BY DEF Typed
  <2>2. "acting" \in Phases
    BY DEF Phases
  <2>3. u \in TurnRecords /\ u.phase = "acting" /\ u.result = t.result
    BY <2>1, <2>2 DEF TurnRecords
  <2>. QED  BY <2>1, <2>3
<1>10. /\ seen' \in Histories /\ seen'.requests = seen.requests /\ seen'.calls = seen.calls + n
       /\ seen'.ran = seen.ran /\ seen'.settled = seen.settled /\ (seen'.stop => seen.stop \/ Cancelled)
  <2>1. PICK s, h : s = seen /\ s \in Histories /\ h = [s EXCEPT !.calls = @ + n]
    BY DEF Typed
  <2>2. /\ h \in Histories /\ h.requests = s.requests /\ h.calls = s.calls + n /\ h.ran = s.ran
        /\ h.settled = s.settled /\ h.stop = s.stop
    <3>1. PICK m \in Nat : m = s.calls + n
      BY <1>1, <2>1 DEF Histories
    <3>2. s \in Histories /\ h = [s EXCEPT !.calls = m]
      BY <2>1, <3>1
    <3>. QED  BY <3>1, <3>2 DEF Histories
  <2>3. Notices(h)
    BY <1>1, <2>1
  <2>4. /\ seen' \in Histories /\ seen'.requests = h.requests /\ seen'.calls = h.calls
        /\ seen'.ran = h.ran /\ seen'.settled = h.settled /\ (seen'.stop => h.stop \/ Cancelled)
    BY <2>2, <2>3, NoticesIs
  <2>5. seen'.stop => seen.stop \/ Cancelled
    BY <2>1, <2>2, <2>4, Zenon
  <2>. QED  BY <2>1, <2>2, <2>4, <2>5
<1>11. /\ used' \in [llm : Nat, tools : Nat] /\ used'.llm = used.llm + 1 /\ used'.tools = used.tools + n
  BY <1>1, SpendIs DEF Typed
<1>12. Taken \in Inputs /\ Taken.channel = <<>>
  BY InputIs DEF Typed
<1>13. TurnTypeOK'
  BY <1>8, <1>9, <1>10, <1>11, <1>12, TypesAre DEF Typed
<1>14. SpentWithinReach' /\ SpendInv'
  <2>1. /\ used.llm \in Nat /\ seen.requests \in Nat /\ seen.calls \in Nat /\ used.tools \in Nat
        /\ MaxLlmCalls \in Nat /\ MaxToolInvocations \in Nat
    BY LimitsAre DEF Typed, Histories
  <2>2. used.llm + 1 <= MaxLlmCalls /\ used.tools + n <= MaxToolInvocations
    BY <1>1 DEF Fits
  <2>3. seen.requests = used.llm + 1 /\ seen.calls <= used.tools
    BY DEF TurnIInv, SpendInv
  <2>4. seen'.calls <= used'.tools /\ seen'.calls <= MaxToolInvocations /\ seen'.requests <= MaxLlmCalls + 2
    BY <1>1, <1>10, <1>11, <2>1, <2>2, <2>3
  <2>. QED  BY <1>9, <1>10, <1>11, <2>1, <2>2, <2>3, <2>4 DEF SpentWithinReach, SpendInv
<1>15. HeardInv'
  <2>1. seen.stop => Stopped(input)
    BY DEF TurnIInv, HeardInv, Stopped
  <2>2. Stopped(input) => Cancelled
    BY CancelledIs DEF Typed
  <2>3. ~seen'.stop
    BY <1>10, <2>1, <2>2, Zenon
  <2>4. turn.result = "none"
    BY DEF TurnIInv, HeardInv
  <2>5. Len(input'.channel) <= commands'
    <3>1. commands \in Nat /\ Len(<<>>) = 0
      BY DEF Typed
    <3>. QED  BY <1>12, <3>1
  <2>. QED  BY <1>9, <2>3, <2>4, <2>5 DEF HeardInv
<1>16. (\A c : Known(c)' <=> Known(c)) /\ (\A c : Settles(c)' <=> Settles(c)) /\ (\A c : Blocked(c)' <=> Blocked(c))
  BY DEF Known, Settles, Blocked, Limited, Duplicate
<1>17. FailuresWithinReach' /\ SettledOnce' /\ TrackerInv'
  BY <1>9, <1>10, <1>16 DEF TurnIInv, TrackInv, FailuresWithinReach, SettledOnce, TrackerInv
<1>18. VerdictsAreOfThisTurn'
  <2>1. SUFFICES ASSUME NEW c \in k
                 PROVE  c \in seen.ran \/ c \in ToSet(q) \/ tracker.total >= MaxCycleFailures
    BY <1>7, <1>10 DEF VerdictsAreOfThisTurn
  <2>2. CASE Blocked(c)
    <3>1. Known(c) \/ tracker.total >= MaxCycleFailures
      BY <1>5, <2>2, BlockedIsKnown DEF Typed
    <3>2. Known(c) => c \in seen.ran
      BY <1>5 DEF TurnIInv, TrackInv, TrackerInv
    <3>. QED  BY <3>1, <3>2
  <2>3. CASE \E i \in DOMAIN q : q[i] = c
    BY <2>3 DEF ToSet
  <2>. QED  BY <1>5, <2>2, <2>3
<1>19. BatchInv'
  <2>1. DOMAIN q = 1..Len(q)
    BY <1>3
  <2>2. /\ \A i \in DOMAIN q : ~Blocked(q[i])
        /\ \A i, j \in DOMAIN q : q[i] = q[j] /\ Kind[q[i]] = "mutation" => i = j
    BY <1>2, <1>3, <2>1 DEF AllowedUpTo
  <2>. QED  BY <1>7, <1>9, <1>16, <2>2 DEF BatchInv
<1>. QED  BY <1>13, <1>14, <1>15, <1>17, <1>18, <1>19 DEF TurnIInv, TrackInv

LEMMA AnswerCallsStep ==
    TurnIInv /\ (\E calls \in SeqOf(Calls, MaxBatch) \ {<<>>} : AnswerCalls(calls)) => TurnIInv'
<1>. SUFFICES ASSUME TurnIInv, NEW calls \in SeqOf(Calls, MaxBatch), AnswerCalls(calls) PROVE TurnIInv'
  OBVIOUS
<1>. Typed
  BY TypesAre DEF TurnIInv
<1>1. turn.phase = "reasoning" /\ ~turn.cut /\ ~Cancelled /\ UNCHANGED <<tracker, turns, commands>>
  BY Zenon DEF AnswerCalls
<1>2. CASE Spend(1, 0) /\ Exhausted /\ UNCHANGED batch
  <2>1. /\ used' \in [llm : Nat, tools : Nat] /\ used'.llm = used.llm + 1 /\ used'.tools >= used.tools
    BY <1>2, SpendIs DEF Typed
  <2>2. batch = NoBatch
    BY <1>1, NothingRuns
  <2>3. CASE EndTurn("BudgetExhausted") /\ input' = Taken /\ Notices(seen)
    <3>1. "BudgetExhausted" \in Results
      BY DEF Results
    <3>. QED  BY <1>1, <1>2, <2>1, <2>2, <2>3, <3>1, EndsHeard
  <2>4. CASE Ask("finishing", "synthesis")
    <3>1. used.llm \in Nat /\ MaxLlmCalls \in Nat /\ seen.requests = used.llm + 1 /\ used.llm <= MaxLlmCalls
      BY <1>1, LimitsAre DEF Typed, TurnIInv, SpendInv
    <3>2. used'.llm = seen.requests /\ used'.llm <= MaxLlmCalls + 1
      BY <2>1, <3>1
    <3>. QED  BY <1>1, <1>2, <2>1, <2>4, <3>2, AskKeeps
  <2>. QED  BY <1>2, <2>3, <2>4 DEF Exhausted
<1>3. CASE ~(Spend(1, 0) /\ Exhausted /\ UNCHANGED batch)
  <2>. HIDE DEF Blocked, Allowed, Cancelled
  <2>1. /\ Fits(1, Len(calls)) /\ Spend(1, Len(calls))
        /\ batch' = [run |-> Allowed(calls), size |-> Len(calls),
                     blocked |-> {c \in ToSet(calls) : Blocked(c) \/ \E i, j \in DOMAIN calls :
                                      i < j /\ calls[i] = c /\ calls[j] = c /\ Kind[c] = "mutation"}]
        /\ turn' = [turn EXCEPT !.phase = "acting"]
        /\ input' = Taken /\ Notices([seen EXCEPT !.calls = @ + Len(calls)])
    BY <1>3, Zenon DEF AnswerCalls
  <2>. QED  BY <1>1, <2>1, BatchStarts
<1>. QED  BY <1>2, <1>3

\* How often a call of the batch did what it should or failed for good
Settling(outcomes, c) == {i \in DOMAIN batch.run : batch.run[i] = c /\ outcomes[i] # "failed"}

LEMMA SettlingIs ==
    ASSUME batch.run \in Seq(Calls), NEW outcomes, NEW c
    PROVE  /\ Cardinality(Settling(outcomes, c)) \in Nat
           /\ (\A i, j \in DOMAIN batch.run : batch.run[i] = c /\ batch.run[j] = c => i = j)
                  => Cardinality(Settling(outcomes, c)) <= 1
           /\ Cardinality(Settling(outcomes, c)) > 0 => \E i \in DOMAIN batch.run : i \in Settling(outcomes, c)
<1>1. PICK n \in Nat : DOMAIN batch.run = 1..n
  <2>1. DOMAIN batch.run = 1..Len(batch.run) /\ Len(batch.run) \in Nat
    OBVIOUS
  <2>. QED  BY <2>1
<1>2. PICK s : s = Settling(outcomes, c) /\ s \subseteq 1..n
  BY <1>1 DEF Settling
<1>3. IsFiniteSet(s) /\ Cardinality(s) \in Nat
  <2>1. IsFiniteSet(1..n)
    BY <1>1, FS_Interval
  <2>2. IsFiniteSet(s)
    BY <1>2, <2>1, FS_Subset
  <2>. QED  BY <2>2, FS_CardinalityType
<1>4. ASSUME \A i, j \in DOMAIN batch.run : batch.run[i] = c /\ batch.run[j] = c => i = j
      PROVE  Cardinality(s) <= 1
  <2>1. \A i, j \in s : i = j
    BY <1>2, <1>4 DEF Settling
  <2>2. CASE s = {}
    <3>1. Cardinality(s) = 0
      BY <1>3, <2>2, FS_EmptySet
    <3>. QED  BY <3>1
  <2>3. CASE s # {}
    <3>1. PICK x \in s : TRUE
      BY <2>3
    <3>2. s = {x}
      BY <2>1, <3>1
    <3>3. Cardinality(s) = 1
      BY <3>2, FS_Singleton
    <3>. QED  BY <3>3
  <2>. QED  BY <2>2, <2>3
<1>5. Cardinality(s) > 0 => s # {}
  <2>1. s = {} => Cardinality(s) = 0
    BY <1>3, FS_EmptySet
  <2>. QED  BY <2>1
<1>. QED  BY <1>1, <1>2, <1>3, <1>4, <1>5

\* The results are recorded.
LEMMA TrackEnds ==
    ASSUME TurnIInv, turn.phase = "acting", NEW outcomes \in [DOMAIN batch.run -> ToolOutcomes],
           tracker' = AfterResults(outcomes), batch' = NoBatch, seen'.ran = seen.ran \cup ToSet(batch.run),
           seen'.settled = [c \in Calls |-> seen.settled[c] + Cardinality(Settling(outcomes, c))],
           turn'.phase \notin {"begin", "acting"}
    PROVE  tracker' \in Trackers /\ TrackInv'
<1>. Typed
  BY TypesAre DEF TurnIInv
<1>1. PICK r \in Seq(Calls), n \in Nat : r = batch.run /\ n = Len(r) /\ n <= MaxBatch /\ DOMAIN r = 1..n
  <2>1. batch.run \in SeqOf(Calls, MaxBatch)
    BY DEF Typed, Batches
  <2>2. batch.run \in Seq(Calls) /\ Len(batch.run) <= MaxBatch
    BY <2>1, SeqsAre, Zenon
  <2>3. Len(batch.run) \in Nat /\ DOMAIN batch.run = 1..Len(batch.run)
    BY <2>2
  <2>. QED  BY <2>2, <2>3, Zenon
<1>2. PICK u : u = tracker' /\ AfterUpTo(u, outcomes, n)
  BY <1>1, AfterResultsIs DEF Typed
<1>3. /\ \A i \in 1..n : r[i] \in Calls /\ ~Blocked(r[i])
      /\ \A i, j \in 1..n : r[i] = r[j] /\ Kind[r[i]] = "mutation" => i = j
  BY <1>1 DEF TurnIInv, TrackInv, BatchInv
<1>4. u \in Trackers /\ tracker \in Trackers
  BY <1>2 DEF AfterUpTo, Typed
<1>5. \A c \in Calls : c \in ToSet(r) \/ Alike(u, tracker, c)
  <2>1. \A c \in Calls : (\A i \in 1..n : r[i] # c) => Alike(u, tracker, c)
    BY <1>1, <1>2 DEF AfterUpTo
  <2>. QED  BY <1>1, <2>1 DEF ToSet
<1>6. \A c \in ToSet(r) : c \in Calls /\ ~Blocked(c)
  BY <1>1, <1>3 DEF ToSet
<1>7. FailuresWithinReach'
  <2>1. /\ MaxCycleFailures \in Nat /\ MaxConsecutiveFailures \in Nat /\ MaxBatch \in Nat
        /\ u.total \in Nat /\ tracker.total \in Nat
        /\ \A c \in Calls : u.failures[c] \in Nat /\ tracker.failures[c] \in Nat
    BY <1>4, LimitsAre DEF Trackers
  <2>2. u.total <= tracker.total + n /\ \A c \in Calls : u.failures[c] <= tracker.failures[c] + n
    BY <1>2 DEF AfterUpTo
  <2>3. /\ tracker.total < MaxCycleFailures + MaxBatch
        /\ \A c \in Calls : tracker.failures[c] < MaxConsecutiveFailures + MaxBatch
    BY DEF TurnIInv, TrackInv, FailuresWithinReach
  <2>4. n # 0 => tracker.total < MaxCycleFailures
    <3>1. n # 0 => ~Limited(r[1])
      BY <1>1, <1>3 DEF Blocked
    <3>. QED  BY <2>1, <3>1 DEF Limited
  <2>5. u.total < MaxCycleFailures + MaxBatch
    BY <1>1, <2>1, <2>2, <2>3, <2>4
  <2>6. \A c \in Calls : u.failures[c] < MaxConsecutiveFailures + MaxBatch
    <3>1. TAKE c \in Calls
    <3>2. CASE c \in ToSet(r)
      <4>1. ~Limited(c)
        BY <1>6, <3>2 DEF Blocked
      <4>2. tracker.failures[c] < MaxConsecutiveFailures
        BY <2>1, <4>1 DEF Limited
      <4>. QED  BY <1>1, <2>1, <2>2, <4>2
    <3>3. CASE Alike(u, tracker, c)
      BY <2>3, <3>3 DEF Alike
    <3>. QED  BY <1>5, <3>2, <3>3
  <2>. QED  BY <1>2, <2>5, <2>6 DEF FailuresWithinReach
<1>8. ASSUME NEW c \in Calls, Known(c)' PROVE c \in seen'.ran
  <2>1. CASE c \in ToSet(r)
    BY <1>1, <2>1
  <2>2. CASE Alike(u, tracker, c)
    <3>1. Known(c)
      BY <1>2, <1>8, <2>2 DEF Known, Alike
    <3>. QED  BY <3>1 DEF TurnIInv, TrackInv, TrackerInv
  <2>. QED  BY <1>5, <2>1, <2>2
<1>9. ASSUME NEW c \in Calls, Kind[c] = "mutation"
      PROVE  seen'.settled[c] <= 1 /\ (seen'.settled[c] > 0 => Settles(c)')
  <2>1. PICK k \in Nat : k = Cardinality(Settling(outcomes, c)) /\ seen'.settled[c] = seen.settled[c] + k
    BY <1>1, SettlingIs
  <2>2. seen.settled[c] \in Nat /\ seen.settled[c] <= 1 /\ (seen.settled[c] > 0 => Settles(c))
    BY <1>9 DEF TurnIInv, TrackInv, TrackerInv, SettledOnce, Typed, Histories
  <2>3. CASE c \in ToSet(r)
    <3>1. ~Blocked(c)
      BY <1>6, <2>3
    <3>2. ~Settles(c)
      BY <1>9, <3>1 DEF Settles, Blocked, Duplicate
    <3>3. seen.settled[c] = 0
      BY <2>2, <3>2
    <3>4. k <= 1
      <4>1. \A i, j \in DOMAIN batch.run : batch.run[i] = c /\ batch.run[j] = c => i = j
        BY <1>1, <1>3, <1>9
      <4>. QED  BY <1>1, <2>1, <4>1, SettlingIs
    <3>5. k > 0 => Settles(c)'
      <4>1. SUFFICES ASSUME k > 0 PROVE Settles(c)'
        OBVIOUS
      <4>2. PICK i \in DOMAIN batch.run : i \in Settling(outcomes, c)
        BY <1>1, <2>1, <4>1, SettlingIs
      <4>3. i \in 1..n /\ r[i] = c /\ outcomes[i] \in ToolOutcomes /\ outcomes[i] # "failed"
        BY <1>1, <4>2 DEF Settling
      <4>4. CASE Succeeds(outcomes[i])
        <5>1. u.done[c] # NONE
          BY <1>1, <1>2, <4>3, <4>4 DEF AfterUpTo
        <5>. QED  BY <1>2, <5>1 DEF Settles
      <4>5. CASE outcomes[i] = "permanent"
        <5>1. \A j \in 1..n : r[j] = r[i] => j = i
          BY <1>3, <1>9, <4>3
        <5>2. c \in u.permanent
          BY <1>1, <1>2, <4>3, <4>5, <5>1 DEF AfterUpTo
        <5>. QED  BY <1>2, <5>2 DEF Settles
      <4>. QED  BY <4>3, <4>4, <4>5 DEF ToolOutcomes, Succeeds
    <3>. QED  BY <2>1, <3>3, <3>4, <3>5
  <2>4. CASE c \notin ToSet(r)
    <3>1. Alike(u, tracker, c)
      BY <1>5, <2>4
    <3>2. k = 0
      <4>1. \A i \in DOMAIN batch.run : i \notin Settling(outcomes, c)
        BY <1>1, <2>4 DEF Settling, ToSet
      <4>2. ~(k > 0)
        BY <1>1, <2>1, <4>1, SettlingIs
      <4>. QED  BY <2>1, <4>2
    <3>3. Settles(c) => Settles(c)'
      BY <1>2, <3>1 DEF Settles, Alike
    <3>. QED  BY <2>1, <2>2, <3>2, <3>3
  <2>. QED  BY <2>3, <2>4
<1>10. TrackerInv' /\ SettledOnce'
  BY <1>8, <1>9 DEF TrackerInv, SettledOnce
<1>11. VerdictsAreOfThisTurn' /\ BatchInv'
  <2>1. batch'.blocked = {} /\ batch'.run = <<>>
    BY DEF NoBatch
  <2>2. DOMAIN batch'.run = {}
    BY <2>1
  <2>. QED  BY <2>1, <2>2 DEF VerdictsAreOfThisTurn, BatchInv
<1>. QED  BY <1>2, <1>4, <1>7, <1>10, <1>11 DEF TrackInv

Recorded(outcomes) ==
    [seen EXCEPT !.ran = @ \cup ToSet(batch.run),
                 !.settled = [c \in Calls |-> @[c] + Cardinality({i \in DOMAIN batch.run :
                     batch.run[i] = c /\ outcomes[i] # "failed"})]]

LEMMA RecordedIs ==
    ASSUME Typed, NEW outcomes, NEW h, h = Recorded(outcomes)
    PROVE  /\ h \in Histories /\ h.requests = seen.requests /\ h.calls = seen.calls
           /\ h.ran = seen.ran \cup ToSet(batch.run)
           /\ h.settled = [c \in Calls |-> seen.settled[c] + Cardinality(Settling(outcomes, c))]
           /\ h.stop = seen.stop
<1>1. batch.run \in Seq(Calls)
  <2>1. batch.run \in SeqOf(Calls, MaxBatch)
    BY DEF Typed, Batches
  <2>. QED  BY <2>1, SeqsAre, Zenon
<1>2. PICK s, p, q : /\ s = seen /\ s \in Histories
                     /\ p = s.ran \cup ToSet(batch.run)
                     /\ q = [c \in Calls |-> s.settled[c] + Cardinality(Settling(outcomes, c))]
  BY DEF Typed
<1>3. p \in SUBSET Calls
  <2>1. ToSet(batch.run) \subseteq Calls
    BY <1>1 DEF ToSet
  <2>. QED  BY <1>2, <2>1 DEF Histories
<1>4. q \in [Calls -> Nat]
  <2>1. \A c \in Calls : Cardinality(Settling(outcomes, c)) \in Nat
    BY <1>1, SettlingIs
  <2>2. \A c \in Calls : s.settled[c] \in Nat
    BY <1>2 DEF Histories
  <2>. QED  BY <1>2, <2>1, <2>2
<1>5. h = [s EXCEPT !.ran = p, !.settled = q]
  BY <1>2 DEF Recorded, Settling
<1>6. /\ h \in Histories /\ h.requests = s.requests /\ h.calls = s.calls /\ h.ran = p /\ h.settled = q
      /\ h.stop = s.stop
  BY <1>2, <1>3, <1>4, <1>5 DEF Histories
<1>. QED  BY <1>2, <1>6

\* The ways on from a batch: the turn ends, or asks a last time or goes on if nobody stopped it.
LEMMA WaysOn ==
    ASSUME TurnIInv, NEW outcomes, ToolsEnd(outcomes)
    PROVE  \/ /\ \E r \in {"Error", "UserStopped", "BudgetExhausted"} : EndTurn(r)
              /\ input' = [Taken EXCEPT !.stop = FALSE] \/ input' = Taken
              /\ Notices(Recorded(outcomes))
           \/ /\ ~Cancelled /\ input' = Taken
              /\ \E c \in {"synthesis", "blocked", "final"} :
                     turn' = [[turn EXCEPT !.followed = TRUE] EXCEPT !.phase = "finishing", !.closing = c,
                                                                     !.attempts = 0, !.cut = FALSE]
              /\ Notices([Recorded(outcomes) EXCEPT !.requests = @ + 1])
           \/ /\ ~Cancelled /\ input' = Taken /\ ~LastRound /\ NextRound
              /\ Notices(Recorded(outcomes))
<1>. HIDE DEF Cancelled, EndTurn, Notices, NextRound, Taken, Fits, LastRound, Succeeds
<1>. QED  BY Zenon DEF ToolsEnd, Recorded

LEMMA ToolsEndStep ==
    TurnIInv /\ (\E outcomes \in [DOMAIN batch.run -> ToolOutcomes] : ToolsEnd(outcomes)) => TurnIInv'
<1>. SUFFICES ASSUME TurnIInv, NEW outcomes \in [DOMAIN batch.run -> ToolOutcomes], ToolsEnd(outcomes)
              PROVE  TurnIInv'
  OBVIOUS
<1>. Typed
  BY TypesAre DEF TurnIInv
<1>1. /\ turn.phase = "acting" /\ Spend(0, batch.size) /\ tracker' = AfterResults(outcomes) /\ batch' = NoBatch
      /\ UNCHANGED <<turns, commands>>
  BY DEF ToolsEnd
<1>2. PICK h : h = Recorded(outcomes)
  OBVIOUS
<1>3. /\ h \in Histories /\ h.requests = seen.requests /\ h.calls = seen.calls
      /\ h.ran = seen.ran \cup ToSet(batch.run)
      /\ h.settled = [c \in Calls |-> seen.settled[c] + Cardinality(Settling(outcomes, c))]
      /\ h.stop = seen.stop
  BY <1>2, RecordedIs
<1>4. /\ Taken \in Inputs /\ Taken.channel = <<>>
      /\ [Taken EXCEPT !.stop = FALSE] \in Inputs /\ [Taken EXCEPT !.stop = FALSE].channel = <<>>
  BY InputIs DEF Typed
<1>5. PICK p \in {"idle", "finishing", "ready"} :
         /\ turn' \in TurnRecords /\ turn'.phase = p /\ (p # "idle" => turn'.result = turn.result /\ ~Cancelled)
         /\ input' \in Inputs /\ input'.channel = <<>>
         /\ seen' \in Histories /\ seen'.calls = h.calls /\ seen'.ran = h.ran /\ seen'.settled = h.settled
         /\ seen'.requests = IF p = "finishing" THEN h.requests + 1 ELSE h.requests
         /\ seen'.stop => h.stop \/ Cancelled
  <2>1. CASE /\ \E r \in {"Error", "UserStopped", "BudgetExhausted"} : EndTurn(r)
             /\ input' = [Taken EXCEPT !.stop = FALSE] \/ input' = Taken
             /\ Notices(Recorded(outcomes))
    <3>1. turn' \in TurnRecords /\ turn'.phase = "idle"
      <4>1. {"Error", "UserStopped", "BudgetExhausted"} \subseteq Results
        BY DEF Results
      <4>. QED  BY <2>1, <4>1, EndTurnIs DEF Typed
    <3>2. input' \in Inputs /\ input'.channel = <<>>
      BY <1>4, <2>1, Zenon
    <3>3. /\ seen' \in Histories /\ seen'.requests = h.requests /\ seen'.calls = h.calls
          /\ seen'.ran = h.ran /\ seen'.settled = h.settled
      BY <1>2, <1>3, <2>1, NoticesIs
    <3>4. seen'.stop => h.stop \/ Cancelled
      BY <1>2, <1>3, <2>1, NoticesIs
    <3>. QED  BY <3>1, <3>2, <3>3, <3>4
  <2>2. CASE /\ ~Cancelled /\ input' = Taken
             /\ \E c \in {"synthesis", "blocked", "final"} :
                    turn' = [[turn EXCEPT !.followed = TRUE] EXCEPT !.phase = "finishing", !.closing = c,
                                                                    !.attempts = 0, !.cut = FALSE]
             /\ Notices([Recorded(outcomes) EXCEPT !.requests = @ + 1])
    <3>1. turn' \in TurnRecords /\ turn'.phase = "finishing" /\ turn'.result = turn.result
      <4>1. PICK c \in {"none", "synthesis", "blocked", "final"} :
               turn' = [[turn EXCEPT !.followed = TRUE] EXCEPT !.phase = "finishing", !.closing = c,
                                                               !.attempts = 0, !.cut = FALSE]
        BY <2>2, Zenon
      <4>2. PICK t, v, u : /\ t = turn /\ t \in TurnRecords /\ v = [t EXCEPT !.followed = TRUE] /\ u = turn'
                           /\ u = [v EXCEPT !.phase = "finishing", !.closing = c, !.attempts = 0, !.cut = FALSE]
        BY <4>1, Zenon DEF Typed
      <4>3. v \in TurnRecords /\ v.result = t.result
        BY <4>2 DEF TurnRecords
      <4>4. "finishing" \in Phases /\ 0 \in 0 .. MaxContinuations
        BY LimitsAre DEF Phases
      <4>5. /\ v.iteration \in 0 .. MaxIterations /\ v.followed \in BOOLEAN /\ v.result \in Results
            /\ c \in {"none", "final", "blocked", "synthesis"}
        BY <4>1, <4>3 DEF TurnRecords, Results
      <4>6. u = [phase |-> "finishing", iteration |-> v.iteration, followed |-> v.followed, closing |-> c,
                 attempts |-> 0, cut |-> FALSE, result |-> v.result]
        BY <4>2, <4>3 DEF TurnRecords
      <4>7. u \in TurnRecords /\ u.phase = "finishing" /\ u.result = v.result
        BY <4>4, <4>5, <4>6 DEF TurnRecords, Results
      <4>. QED  BY <4>2, <4>3, <4>7
    <3>2. PICK k : k = [h EXCEPT !.requests = @ + 1]
      OBVIOUS
    <3>3. /\ k \in Histories /\ k.requests = h.requests + 1 /\ k.calls = h.calls /\ k.ran = h.ran
          /\ k.settled = h.settled /\ k.stop = h.stop
      BY <1>3, <3>2 DEF Histories
    <3>4. Notices(k)
      BY <1>2, <2>2, <3>2
    <3>5. /\ seen' \in Histories /\ seen'.requests = k.requests /\ seen'.calls = k.calls
          /\ seen'.ran = k.ran /\ seen'.settled = k.settled /\ (seen'.stop => k.stop \/ Cancelled)
      BY <3>3, <3>4, NoticesIs
    <3>6. seen'.stop => h.stop \/ Cancelled
      BY <3>3, <3>5, Zenon
    <3>. QED  BY <1>4, <2>2, <3>1, <3>3, <3>5, <3>6
  <2>3. CASE /\ ~Cancelled /\ input' = Taken /\ ~LastRound /\ NextRound
             /\ Notices(Recorded(outcomes))
    <3>1. turn' \in TurnRecords /\ turn'.phase = "ready" /\ turn'.result = turn.result
      <4>1. PICK n \in 0 .. MaxIterations : n = turn.iteration + 1
        BY <2>3, LimitsAre DEF LastRound, Typed, TurnRecords
      <4>2. PICK t, u : /\ t = turn /\ t \in TurnRecords /\ u = turn'
                        /\ u = [t EXCEPT !.phase = "ready", !.iteration = n, !.followed = TRUE]
        BY <2>3, <4>1 DEF Typed, NextRound
      <4>3. "ready" \in Phases
        BY DEF Phases
      <4>4. u \in TurnRecords /\ u.phase = "ready" /\ u.result = t.result
        BY <4>1, <4>2, <4>3 DEF TurnRecords
      <4>. QED  BY <4>2, <4>4
    <3>2. /\ seen' \in Histories /\ seen'.requests = h.requests /\ seen'.calls = h.calls
          /\ seen'.ran = h.ran /\ seen'.settled = h.settled
      BY <1>2, <1>3, <2>3, NoticesIs
    <3>3. seen'.stop => h.stop \/ Cancelled
      BY <1>2, <1>3, <2>3, NoticesIs
    <3>. QED  BY <1>4, <2>3, <3>1, <3>2, <3>3
  <2>. QED  BY <2>1, <2>2, <2>3, WaysOn
<1>6. /\ used' \in [llm : Nat, tools : Nat] /\ used'.llm = used.llm /\ used'.tools >= used.tools
  <2>1. batch.size \in Nat /\ used.llm \in Nat
    BY LimitsAre DEF Typed, Batches
  <2>2. used.llm + 0 = used.llm
    BY <2>1
  <2>. QED  BY <1>1, <2>1, <2>2, SpendIs DEF Typed
<1>7. tracker' \in Trackers /\ TrackInv'
  <2>1. turn'.phase \notin {"begin", "acting"}
    BY <1>5
  <2>. QED  BY <1>1, <1>3, <1>5, <2>1, TrackEnds
<1>8. TurnTypeOK'
  <2>1. batch' \in Batches
    <3>1. <<>> \in Seq(Calls) /\ Len(<<>>) <= MaxBatch /\ 0 \in 0..MaxBatch
      BY LimitsAre
    <3>2. <<>> \in SeqOf(Calls, MaxBatch)
      BY <3>1, SeqsAre, Zenon
    <3>. QED  BY <1>1, <3>1, <3>2 DEF NoBatch, Batches
  <2>. QED  BY <1>1, <1>5, <1>6, <1>7, <2>1, TypesAre DEF Typed
<1>9. SpentWithinReach' /\ SpendInv'
  <2>1. /\ used.llm \in Nat /\ seen.requests \in Nat /\ seen.calls \in Nat /\ used.tools \in Nat
        /\ used'.tools \in Nat /\ MaxLlmCalls \in Nat /\ MaxToolInvocations \in Nat
    BY <1>6, LimitsAre DEF Typed, Histories
  <2>2. seen.requests = used.llm /\ used.llm <= MaxLlmCalls /\ seen.calls <= used.tools
    BY <1>1 DEF TurnIInv, SpendInv
  <2>3. seen.calls <= MaxToolInvocations
    BY DEF TurnIInv, SpentWithinReach
  <2>4. seen'.calls = seen.calls /\ seen'.requests = IF p = "finishing" THEN seen.requests + 1 ELSE seen.requests
    BY <1>3, <1>5
  <2>5. seen'.requests <= MaxLlmCalls + 2 /\ seen'.calls <= used'.tools
    BY <1>6, <2>1, <2>2, <2>4
  <2>. QED  BY <1>5, <1>6, <2>1, <2>2, <2>3, <2>4, <2>5 DEF SpentWithinReach, SpendInv
<1>10. HeardInv'
  <2>1. seen.stop => Stopped(input)
    BY <1>1 DEF TurnIInv, HeardInv, Stopped
  <2>2. Stopped(input) => Cancelled
    BY CancelledIs DEF Typed
  <2>3. p # "idle" => ~seen'.stop
    BY <1>3, <1>5, <2>1, <2>2, Zenon
  <2>4. turn.result = "none"
    BY <1>1 DEF TurnIInv, HeardInv
  <2>5. Len(input'.channel) <= commands'
    <3>1. commands \in Nat /\ Len(<<>>) = 0
      BY DEF Typed
    <3>. QED  BY <1>1, <1>5, <3>1
  <2>. QED  BY <1>5, <2>3, <2>4, <2>5 DEF HeardInv
<1>. QED  BY <1>7, <1>8, <1>9, <1>10 DEF TurnIInv

LEMMA ConstantsAreTyped ==
    /\ Idle \in TurnRecords /\ [Idle EXCEPT !.phase = "begin"] \in TurnRecords
    /\ NoBatch \in Batches /\ NoInput \in Inputs /\ Unseen \in Histories
    /\ \A g \in Nat : Fresh(g) \in Trackers
<1>1. {"idle", "begin"} \subseteq Phases /\ 0 \in 0 .. MaxIterations /\ 0 \in 0 .. MaxContinuations /\ 0 \in 0 .. MaxBatch
  BY LimitsAre DEF Phases
<1>2. Idle \in TurnRecords
  BY <1>1 DEF Idle, TurnRecords
<1>3. [Idle EXCEPT !.phase = "begin"] \in TurnRecords
  BY <1>1, <1>2 DEF TurnRecords
<1>4. <<>> \in SeqOf(Calls, MaxBatch) /\ <<>> \in SeqOf({"Stop", "Wait"}, MaxCommands)
  <2>1. /\ <<>> \in Seq(Calls) /\ Len(<<>>) <= MaxBatch
        /\ <<>> \in Seq({"Stop", "Wait"}) /\ Len(<<>>) <= MaxCommands
    BY LimitsAre
  <2>2. <<>> \in SeqOf(Calls, MaxBatch)
    BY <2>1, SeqsAre, Zenon
  <2>3. <<>> \in SeqOf({"Stop", "Wait"}, MaxCommands)
    BY <2>1, SeqsAre, Zenon
  <2>. QED  BY <2>2, <2>3
<1>5. NoBatch \in Batches
  BY <1>1, <1>4 DEF NoBatch, Batches
<1>6. NoInput \in Inputs
  <2>1. "none" \in Commands
    BY DEF Commands
  <2>. QED  BY <1>4, <2>1 DEF NoInput, Inputs
<1>7. Unseen \in Histories
  BY DEF Unseen, Histories
<1>8. \A g \in Nat : Fresh(g) \in Trackers
  BY DEF Fresh, Trackers, NONE
<1>. QED  BY <1>2, <1>3, <1>5, <1>6, <1>7, <1>8

\* A fresh tracker knows nothing.
LEMMA FreshKnowsNothing ==
    ASSUME NEW g \in Nat, tracker' = Fresh(g), batch' = NoBatch, turn'.phase # "acting",
           turn'.phase # "begin" => \A c \in Calls : seen'.settled[c] = 0,
           turn'.phase = "begin" => seen'.ran = {} /\ \A c \in Calls : seen'.settled[c] = 0
    PROVE  TrackInv'
<1>1. /\ tracker'.total = 0 /\ tracker'.permanent = {}
      /\ \A c \in Calls : tracker'.failures[c] = 0 /\ tracker'.same[c] = 0 /\ tracker'.done[c] = NONE
  BY DEF Fresh
<1>2. FailuresWithinReach'
  BY <1>1, LimitsAre DEF FailuresWithinReach
<1>3. \A c \in Calls : ~Known(c)'
  BY <1>1 DEF Known
<1>4. TrackerInv' /\ SettledOnce'
  BY <1>3 DEF TrackerInv, SettledOnce
<1>5. batch'.blocked = {} /\ batch'.run = <<>>
  BY DEF NoBatch
<1>6. DOMAIN batch'.run = {}
  BY <1>5
<1>7. VerdictsAreOfThisTurn' /\ BatchInv'
  BY <1>5, <1>6 DEF VerdictsAreOfThisTurn, BatchInv
<1>. QED  BY <1>2, <1>4, <1>7 DEF TrackInv

LEMMA TurnStarts == TurnInit => TurnIInv
<1>. SUFFICES ASSUME TurnInit PROVE TurnIInv
  OBVIOUS
<1>1. TurnTypeOK
  BY ConstantsAreTyped, TypesAre, LimitsAre DEF TurnInit, Typed
<1>2. turn.phase = "idle" /\ turn.result = "none"
  BY DEF TurnInit, Idle
<1>3. /\ tracker.total = 0 /\ tracker.permanent = {}
      /\ \A c \in Calls : tracker.failures[c] = 0 /\ tracker.same[c] = 0 /\ tracker.done[c] = NONE
  BY DEF TurnInit, Fresh
<1>4. /\ seen.requests = 0 /\ seen.calls = 0 /\ \A c \in Calls : seen.settled[c] = 0
  BY DEF TurnInit, Unseen
<1>5. FailuresWithinReach
  BY <1>3, LimitsAre DEF FailuresWithinReach
<1>6. TrackerInv /\ SettledOnce
  BY <1>2, <1>3, <1>4 DEF TrackerInv, SettledOnce, Known
<1>7. VerdictsAreOfThisTurn /\ BatchInv
  <2>1. batch = NoBatch /\ batch.blocked = {} /\ batch.run = <<>>
    BY DEF TurnInit, NoBatch
  <2>2. DOMAIN batch.run = {}
    BY <2>1
  <2>. QED  BY <2>1, <2>2 DEF VerdictsAreOfThisTurn, BatchInv
<1>8. SpentWithinReach /\ SpendInv
  <2>1. used.tools = 0
    BY DEF TurnInit
  <2>. QED  BY <1>2, <1>4, <2>1, LimitsAre DEF SpentWithinReach, SpendInv
<1>9. HeardInv
  <2>1. Len(input.channel) <= commands
    BY DEF TurnInit, NoInput
  <2>. QED  BY <1>2, <2>1 DEF HeardInv
<1>. QED  BY <1>1, <1>5, <1>6, <1>7, <1>8, <1>9 DEF TurnIInv, TrackInv

LEMMA BeginTurnStep == TurnIInv /\ BeginTurn => TurnIInv'
<1>. SUFFICES ASSUME TurnIInv, BeginTurn PROVE TurnIInv'
  OBVIOUS
<1>. Typed
  BY TypesAre DEF TurnIInv
<1>1. /\ turn.phase = "idle" /\ turns < MaxTurns /\ turn' = [Idle EXCEPT !.phase = "begin"]
      /\ turns' = turns + 1 /\ input' = NoInput /\ seen' = Unseen
      /\ UNCHANGED <<used, tracker, batch, commands>>
  BY DEF BeginTurn
<1>2. turn'.phase = "begin" /\ turn'.result = "none"
  BY <1>1 DEF Idle
<1>3. turns' \in 0 .. MaxTurns
  BY <1>1, LimitsAre DEF Typed
<1>4. TurnTypeOK'
  BY <1>1, <1>3, ConstantsAreTyped, TypesAre DEF Typed
<1>5. /\ seen'.requests = 0 /\ seen'.calls = 0 /\ seen'.ran = {} /\ ~seen'.stop
      /\ \A c \in Calls : seen'.settled[c] = 0
  BY <1>1 DEF Unseen
<1>6. batch' = NoBatch /\ batch'.blocked = {} /\ batch'.run = <<>>
  <2>1. batch = NoBatch
    BY <1>1, NothingRuns
  <2>. QED  BY <1>1, <2>1 DEF NoBatch
<1>7. DOMAIN batch'.run = {}
  BY <1>6
<1>8. TrackInv'
  <2>1. FailuresWithinReach'
    BY <1>1 DEF TurnIInv, TrackInv, FailuresWithinReach
  <2>2. SettledOnce' /\ TrackerInv'
    BY <1>2, <1>5 DEF SettledOnce, TrackerInv
  <2>3. VerdictsAreOfThisTurn' /\ BatchInv'
    BY <1>6, <1>7 DEF VerdictsAreOfThisTurn, BatchInv
  <2>. QED  BY <2>1, <2>2, <2>3 DEF TrackInv
<1>9. SpentWithinReach' /\ SpendInv'
  <2>1. used'.tools \in Nat
    BY <1>1 DEF Typed
  <2>. QED  BY <1>2, <1>5, <2>1, LimitsAre DEF SpentWithinReach, SpendInv
<1>10. HeardInv'
  <2>1. Len(input'.channel) <= commands'
    BY <1>1 DEF NoInput, Typed
  <2>. QED  BY <1>2, <1>5, <2>1 DEF HeardInv
<1>. QED  BY <1>4, <1>8, <1>9, <1>10 DEF TurnIInv

LEMMA PrepareStep == TurnIInv /\ Prepare => TurnIInv'
<1>. SUFFICES ASSUME TurnIInv, Prepare PROVE TurnIInv'
  OBVIOUS
<1>. Typed
  BY TypesAre DEF TurnIInv
<1>1. PICK b \in BOOLEAN : b = (FoldLeft(Prioritize, "none", input.channel) = "Stop")
  OBVIOUS
<1>2. /\ turn.phase = "begin" /\ used' = [llm |-> 0, tools |-> 0] /\ tracker' = Cleared /\ input' = NoInput
      /\ UNCHANGED <<batch, turns, commands>>
  BY DEF Prepare
<1>3. /\ seen' = [seen EXCEPT !.stop = b]
      /\ \/ b /\ EndTurn("UserStopped")
         \/ ~b /\ turn' = [turn EXCEPT !.phase = "ready", !.iteration = 1]
         \/ ~b /\ EndTurn("Error")
  BY <1>1, Zenon DEF Prepare
<1>4. /\ seen' \in Histories /\ seen'.requests = seen.requests /\ seen'.calls = seen.calls
      /\ seen'.ran = seen.ran /\ seen'.settled = seen.settled /\ seen'.stop = b
  <2>1. PICK s, u : s = seen /\ s \in Histories /\ u = seen' /\ u = [s EXCEPT !.stop = b]
    BY <1>3 DEF Typed
  <2>2. /\ u \in Histories /\ u.requests = s.requests /\ u.calls = s.calls /\ u.ran = s.ran
        /\ u.settled = s.settled /\ u.stop = b
    BY <1>1, <2>1 DEF Histories
  <2>. QED  BY <2>1, <2>2
<1>5. /\ turn' \in TurnRecords
      /\ turn'.phase = "idle" \/ (turn'.phase = "ready" /\ turn'.result = turn.result /\ ~b)
  <2>1. {"UserStopped", "Error"} \subseteq Results
    BY DEF Results
  <2>2. CASE EndTurn("UserStopped") \/ EndTurn("Error")
    BY <2>1, <2>2, EndTurnIs DEF Typed
  <2>3. CASE ~b /\ turn' = [turn EXCEPT !.phase = "ready", !.iteration = 1]
    <3>1. PICK t, u : t = turn /\ t \in TurnRecords /\ u = turn' /\ u = [t EXCEPT !.phase = "ready", !.iteration = 1]
      BY <2>3 DEF Typed
    <3>2. "ready" \in Phases /\ 1 \in 0 .. MaxIterations
      BY LimitsAre DEF Phases
    <3>3. u \in TurnRecords /\ u.phase = "ready" /\ u.result = t.result
      BY <3>1, <3>2 DEF TurnRecords
    <3>. QED  BY <2>3, <3>1, <3>3
  <2>. QED  BY <1>3, <2>2, <2>3
<1>6. tracker' = Fresh(tracker.generation + 1) /\ tracker.generation + 1 \in Nat
  BY <1>2 DEF Cleared, Typed, Trackers
<1>7. TurnTypeOK'
  BY <1>2, <1>4, <1>5, <1>6, ConstantsAreTyped, TypesAre DEF Typed
<1>8. /\ seen.requests = 0 /\ seen.calls = 0 /\ \A c \in Calls : seen.settled[c] = 0
  BY <1>2 DEF TurnIInv, TrackInv, SpendInv, TrackerInv
<1>9. batch = NoBatch
  BY <1>2, NothingRuns
<1>10. TrackInv'
  <2>1. turn'.phase \notin {"begin", "acting"} /\ batch' = NoBatch
    BY <1>2, <1>5, <1>9
  <2>2. \A c \in Calls : seen'.settled[c] = 0
    BY <1>4, <1>8
  <2>. QED  BY <1>6, <2>1, <2>2, FreshKnowsNothing
<1>11. SpentWithinReach' /\ SpendInv'
  <2>1. used'.llm = 0 /\ used'.tools = 0
    BY <1>2
  <2>. QED  BY <1>4, <1>5, <1>8, <2>1, LimitsAre DEF SpentWithinReach, SpendInv
<1>12. HeardInv'
  <2>1. Len(input'.channel) <= commands'
    BY <1>2 DEF NoInput, Typed
  <2>2. turn.result = "none"
    BY <1>2 DEF TurnIInv, HeardInv
  <2>3. turn'.phase = "ready" => ~seen'.stop
    BY <1>4, <1>5, Zenon
  <2>4. turn'.phase # "idle" => turn'.result = "none"
    BY <1>5, <2>2
  <2>. QED  BY <1>5, <2>1, <2>3, <2>4 DEF HeardInv
<1>. QED  BY <1>7, <1>10, <1>11, <1>12 DEF TurnIInv

\* The user cancels or sends a command: the engine learns of it later, and forgets nothing.
LEMMA UserKeeps ==
    ASSUME TurnIInv, input' \in Inputs, UNCHANGED <<turn, used, tracker, batch, turns, seen>>,
           turn.phase # "idle", commands' \in 0 .. MaxCommands, Len(input'.channel) <= commands',
           Stopped(input) => Stopped(input)'
    PROVE  TurnIInv'
<1>. Typed
  BY TypesAre DEF TurnIInv
<1>1. TurnTypeOK'
  BY TypesAre DEF Typed
<1>2. batch' = NoBatch \/ (batch' = batch /\ turn'.phase = "acting")
  BY NothingRuns
<1>3. TrackInv'
  BY <1>2, TrackKeeps DEF TurnIInv
<1>4. SpentWithinReach' /\ SpendInv'
  BY DEF TurnIInv, SpentWithinReach, SpendInv
<1>5. HeardInv'
  <2>1. (turn.phase \in {"ready", "reasoning", "acting", "finishing"} /\ seen.stop) => Stopped(input)
    BY DEF TurnIInv, HeardInv, Stopped
  <2>2. (turn'.phase \in {"ready", "reasoning", "acting", "finishing"} /\ seen'.stop)
            => input'.token \/ input'.stop \/ input'.pending = "Stop"
    BY <2>1, Zenon DEF Stopped
  <2>3. /\ turn'.phase = "begin" => ~seen'.stop
        /\ turn'.phase # "idle" => turn'.result = "none"
    BY DEF TurnIInv, HeardInv
  <2>. QED  BY <2>2, <2>3 DEF HeardInv
<1>. QED  BY <1>1, <1>3, <1>4, <1>5 DEF TurnIInv

LEMMA CancelStep == TurnIInv /\ Cancel => TurnIInv'
<1>. SUFFICES ASSUME TurnIInv, Cancel PROVE TurnIInv'
  OBVIOUS
<1>. Typed
  BY TypesAre DEF TurnIInv
<1>1. /\ turn.phase # "idle" /\ input' = [input EXCEPT !.token = TRUE]
      /\ UNCHANGED <<turn, used, tracker, batch, turns, commands, seen>>
  BY DEF Cancel
<1>2. PICK i, u : i = input /\ i \in Inputs /\ u = input' /\ u = [i EXCEPT !.token = TRUE]
  BY <1>1 DEF Typed
<1>3. u \in Inputs /\ u.token = TRUE /\ u.channel = i.channel
  BY <1>2 DEF Inputs
<1>4. Stopped(input)'
  BY <1>2, <1>3 DEF Stopped
<1>5. Len(input'.channel) <= commands' /\ commands' \in 0 .. MaxCommands
  BY <1>1, <1>2, <1>3 DEF TurnIInv, HeardInv, Typed
<1>. QED  BY <1>1, <1>2, <1>3, <1>4, <1>5, UserKeeps

LEMMA CommandStep == TurnIInv /\ (\E command \in {"Stop", "Wait"} : Command(command)) => TurnIInv'
<1>. SUFFICES ASSUME TurnIInv, NEW command \in {"Stop", "Wait"}, Command(command) PROVE TurnIInv'
  OBVIOUS
<1>. Typed
  BY TypesAre DEF TurnIInv
<1>1. /\ turn.phase # "idle" /\ commands < MaxCommands /\ commands' = commands + 1
      /\ UNCHANGED <<turn, used, tracker, batch, turns, seen>>
  BY DEF Command
<1>2. PICK i, c, u : /\ i = input /\ i \in Inputs /\ u = input' /\ c = Append(i.channel, command)
                     /\ u = [i EXCEPT !.channel = c]
  BY DEF Command, Typed
<1>3. i.channel \in Seq({"Stop", "Wait"}) /\ Len(i.channel) <= commands
  <2>1. i.channel \in SeqOf({"Stop", "Wait"}, MaxCommands)
    BY <1>2 DEF Inputs
  <2>2. i.channel \in Seq({"Stop", "Wait"})
    BY <2>1, SeqsAre, Zenon
  <2>. QED  BY <1>2, <2>2 DEF TurnIInv, HeardInv
<1>4. commands \in Nat /\ commands' \in 0 .. MaxCommands /\ MaxCommands \in Nat
  BY <1>1, LimitsAre DEF Typed
<1>5. c \in Seq({"Stop", "Wait"}) /\ Len(c) = Len(i.channel) + 1
  BY <1>2, <1>3
<1>6. c \in SeqOf({"Stop", "Wait"}, MaxCommands) /\ Len(c) <= commands'
  <2>1. Len(i.channel) \in Nat
    BY <1>3
  <2>2. Len(c) <= commands' /\ Len(c) <= MaxCommands
    BY <1>1, <1>3, <1>4, <1>5, <2>1
  <2>. QED  BY <1>5, <2>2, SeqsAre, Zenon
<1>7. u \in Inputs /\ u.channel = c /\ u.token = i.token /\ u.stop = i.stop /\ u.pending = i.pending
  BY <1>2, <1>6 DEF Inputs
<1>8. Stopped(input) => Stopped(input)'
  BY <1>2, <1>7, Zenon DEF Stopped
<1>9. input' \in Inputs /\ Len(input'.channel) <= commands'
  BY <1>2, <1>6, <1>7
<1>. QED  BY <1>1, <1>4, <1>8, <1>9, UserKeeps

LEMMA TurnStep == TurnIInv /\ [TurnNext]_turnVars => TurnIInv'
<1>1. TurnIInv /\ UNCHANGED turnVars => TurnIInv'
  BY DEF turnVars, TurnIInv, TurnTypeOK, SpentWithinReach, SpendInv, TrackInv, HeardInv, FailuresWithinReach,
         VerdictsAreOfThisTurn, SettledOnce, TrackerInv, BatchInv, Known, Settles, Blocked, Limited, Duplicate
<1>2. TurnIInv /\ EngineStep => TurnIInv'
  BY PrepareStep, AskStep, ContinueStep, RequestFailsStep, AnswerStep, AnswerCallsStep, ToolsEndStep,
     ToolsFailStep, ConcludeStep, Zenon DEF EngineStep
<1>. QED  BY <1>1, <1>2, BeginTurnStep, PollStep, CancelStep, CommandStep, Zenon DEF TurnNext

\* The inductive invariant of the turns.
THEOREM TurnInductive == TurnSpec => []TurnIInv
BY TurnStarts, TurnStep, PTL DEF TurnSpec

\* A turn stays within its budget by what one answer adds and no more, and blocks a call only
\* for what happened in this turn.
THEOREM TurnsWithinReach == TurnSpec => []TurnInv
<1>1. TurnIInv => TurnInv
  BY DEF TurnIInv, TrackInv, TurnInv
<1>. QED  BY <1>1, TurnInductive, PTL

\* A change that was made, or failed for good, is not tried again in the turn.
THEOREM ChangesSettleOnce == TurnSpec => []SettledOnce
<1>1. TurnIInv => SettledOnce
  BY DEF TurnIInv, TrackInv
<1>. QED  BY <1>1, TurnInductive, PTL

\* After the engine has read a stop, the turn starts no calls and is not complete.
StopObeyed ==
    seen.stop => /\ turn'.phase = "acting" => turn.phase = "acting"
                 /\ turn'.result = "Complete" => turn.phase = "finishing" \/ turn' = turn

LEMMA ObeyStep == TurnIInv /\ [TurnNext]_turnVars => StopObeyed
<1>. SUFFICES ASSUME TurnIInv, [TurnNext]_turnVars, seen.stop
              PROVE  /\ turn'.phase = "acting" => turn.phase = "acting"
                     /\ turn'.result = "Complete" => turn.phase = "finishing" \/ turn' = turn
  BY DEF StopObeyed
<1>. Typed
  BY TypesAre DEF TurnIInv
<1>1. turn.phase \in {"ready", "reasoning", "acting", "finishing"} => Cancelled
  <2>1. turn.phase \in {"ready", "reasoning", "acting", "finishing"} => Stopped(input)
    BY DEF TurnIInv, HeardInv, Stopped
  <2>2. Stopped(input) => Cancelled
    BY CancelledIs DEF Typed
  <2>. QED  BY <2>1, <2>2, Zenon
<1>2. turn.phase # "begin" /\ (turn.phase # "idle" => turn.result = "none")
  BY DEF TurnIInv, HeardInv
<1>. DEFINE Ok == /\ turn'.phase = "acting" => turn.phase = "acting"
                  /\ turn'.result = "Complete" => turn.phase = "finishing" \/ turn' = turn
<1>. SUFFICES Ok
  OBVIOUS
<1>3. ASSUME NEW r \in Results, EndTurn(r), r # "Complete" \/ turn.phase = "finishing" PROVE Ok
  BY <1>3, EndTurnIs DEF Typed
<1>4. CASE turn' = turn
  BY <1>4
<1>5. ASSUME turn' \in TurnRecords, turn'.phase # "acting", turn'.result = "none" PROVE Ok
  BY <1>5
<1>6. {"Incomplete", "BudgetExhausted", "UserStopped", "Error", "Complete"} \subseteq Results
  BY DEF Results
<1>. HIDE DEF Ok
<1>7. /\ EndTurn("BudgetExhausted") => Ok
      /\ EndTurn("UserStopped") => Ok
      /\ EndTurn("Error") => Ok
  <2>1. EndTurn("BudgetExhausted") => Ok
    BY <1>3, <1>6
  <2>2. EndTurn("UserStopped") => Ok
    BY <1>3, <1>6
  <2>3. EndTurn("Error") => Ok
    BY <1>3, <1>6
  <2>. QED  BY <2>1, <2>2, <2>3
<1>8. turn.phase = "finishing" /\ (EndTurn("Incomplete") \/ EndTurn("Complete")) => Ok
  BY <1>3, <1>6
<1>9. CASE BeginTurn
  <2>1. turn'.phase = "begin" /\ turn'.result = "none"
    BY <1>9 DEF BeginTurn, Idle
  <2>. QED  BY <2>1 DEF Ok
<1>10. CASE Poll \/ Continue
  <2>1. turn.phase \in {"reasoning", "finishing"} /\ turn'.phase = turn.phase /\ turn'.result = turn.result
    <3>1. CASE Poll
      <4>1. turn' = [turn EXCEPT !.cut = Cancelled]
        BY <3>1 DEF Poll
      <4>. QED  BY <3>1, <4>1 DEF Poll, Typed, TurnRecords
    <3>2. CASE Continue
      BY <3>2 DEF Continue, Typed, TurnRecords
    <3>. QED  BY <1>10, <3>1, <3>2
  <2>. QED  BY <1>2, <2>1 DEF Ok
<1>11. CASE Prepare
  BY <1>2, <1>11 DEF Prepare
<1>12. CASE Request
  <2>1. CASE EndTurn("BudgetExhausted")
    BY <1>7, <2>1
  <2>2. CASE Ask("reasoning", "none")
    <3>1. turn'.phase = "reasoning" /\ turn'.result = turn.result
      BY <2>2, AskIs DEF Typed
    <3>. QED  BY <1>2, <1>12, <3>1 DEF Ok, Request
  <2>. QED  BY <1>12, <2>1, <2>2 DEF Request
<1>13. CASE RequestFails
  <2>1. EndTurn("BudgetExhausted") \/ EndTurn("Error")
    BY <1>13, Zenon DEF RequestFails
  <2>. QED  BY <1>7, <2>1
<1>14. CASE AnswerStopped
  <2>1. EndTurn("UserStopped")
    BY <1>14 DEF AnswerStopped
  <2>. QED  BY <1>7, <2>1
<1>15. CASE AnswerText \/ AnswerEmpty \/ \E calls \in SeqOf(Calls, MaxBatch) \ {<<>>} : AnswerCalls(calls)
  <2>1. turn.phase = "reasoning" /\ ~Cancelled
    BY <1>15, Zenon DEF AnswerText, AnswerEmpty, AnswerCalls, Answered
  <2>. QED  BY <1>1, <2>1
<1>16. ASSUME NEW outcomes, ToolsEnd(outcomes) PROVE Ok
  <2>1. turn.phase = "acting" /\ Cancelled
    BY <1>1, <1>16 DEF ToolsEnd
  <2>2. \E r \in {"Error", "UserStopped", "BudgetExhausted"} : EndTurn(r)
    BY <1>16, <2>1, WaysOn, Zenon
  <2>. QED  BY <1>7, <2>2
<1>17. CASE ToolsFail
  <2>1. EndTurn("Error")
    BY <1>17 DEF ToolsFail
  <2>. QED  BY <1>7, <2>1
<1>18. ASSUME NEW text \in BOOLEAN, Conclude(text) PROVE Ok
  <2>1. turn.phase = "finishing"
    BY <1>18 DEF Conclude
  <2>2. EndTurn("BudgetExhausted") \/ EndTurn("Complete") \/ EndTurn("Incomplete")
    BY <1>18, Zenon DEF Conclude
  <2>. QED  BY <1>7, <1>8, <2>1, <2>2
<1>19. CASE Cancel \/ \E command \in {"Stop", "Wait"} : Command(command)
  BY <1>4, <1>19 DEF Cancel, Command
<1>20. CASE UNCHANGED turnVars
  BY <1>4, <1>20 DEF turnVars
<1>21. Ok
  <2>1. EngineStep => Ok
    BY <1>10, <1>11, <1>12, <1>13, <1>14, <1>15, <1>16, <1>17, <1>18, Zenon DEF EngineStep
  <2>. HIDE DEF EngineStep
  <2>2. TurnNext => Ok
    BY <1>9, <1>10, <1>19, <2>1, Zenon DEF TurnNext
  <2>. QED  BY <1>20, <2>2
<1>. QED  BY <1>21

\* After the engine has read a stop, the turn starts no tool calls and does not end as complete, unless
\* its last answer was asked for.
THEOREM StopsAreObeyed == TurnSpec => StopIsObeyed
<1>1. TurnIInv /\ [TurnNext]_turnVars => [StopObeyed]_turnVars
  BY ObeyStep
<1>2. StopIsObeyed <=> [][StopObeyed]_turnVars
  BY DEF StopIsObeyed, StopObeyed
<1>. QED  BY <1>1, <1>2, TurnInductive, PTL DEF TurnSpec
=============================================================================
