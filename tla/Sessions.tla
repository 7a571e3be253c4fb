------------------------------ MODULE Sessions ------------------------------
(***************************************************************************)
(* The turns of HTTP sessions: the registry of runs, where a newer request *)
(* takes the place of an older one; the pool of engines, one for each      *)
(* session; the sessions in memory and on disk; and the handlers that send *)
(* a message, stop a run, change, clear or delete a session, or reload the *)
(* configuration.  A step is what one lock holds together, or what runs    *)
(* from one read of shared state to the next.  The content of a session is *)
(* the set of the turns recorded in it.                                    *)
(***************************************************************************)
EXTENDS Naturals, FiniteSets

CONSTANTS Keys,         \* sessions
          Requests,     \* requests that send a message
          Of,           \* the session of each of them
          Streamed,     \* the ones answered by a stream, whose turn is a task of its own
          Stops,        \* requests that stop a run
          Target,       \* the session of each of them
          Edits,        \* requests that change a session or the configuration
          None

ASSUME SessionsAssumption ==
    /\ Of \in [Requests -> Keys] /\ Streamed \subseteq Requests
    /\ Target \in [Stops -> Keys]
    /\ None \notin Requests /\ None \notin Keys
    /\ Requests \cap Edits = {}
    /\ IsFiniteSet(Requests) /\ IsFiniteSet(Edits)

Operations == {"clear", "edit", "delete", "reload"}
Writers    == Requests \cup Edits
Contents   == SUBSET Requests
RequestPcs == {"start", "begin", "mark", "cancel", "load", "check", "pool", "insert", "lock",
               "turn", "finish", "route", "take", "record", "save", "done", "dropped"}
Outcomes   == {"none", "ok", "failed", "stopped", "superseded"}

VARIABLES
    \* SessionRunRegistry
    active,                \* the run of each session
    reason, cancelled,     \* SessionRunCancelState and the token of each run
    \* SessionEnginePool; an engine is named after the request that made it
    pool,
    \* SessionRegistry and SessionStore
    known, sessions,       \* the sessions in memory and their contents
    stored, disk,          \* those on disk
    copy,                  \* what a writer has copied to be saved
    overlapped,            \* sessions that were changed while another change was being saved
    \* HttpChannel::pending_response, one for all sessions
    slot,
    \* requests that send a message
    pc,
    previous,              \* the run a new one replaces
    engine,                \* the engine it uses
    outcome,               \* what it is told of its turn
    reply,                 \* the request whose response it is given
    \* requests that stop, and those that edit
    stopPc, entry, won,
    editPc, operation, key

runVars     == <<active, reason, cancelled>>
contentVars == <<known, sessions, stored, disk, copy, overlapped>>
requestVars == <<pc, previous, engine, outcome, reply>>
stopVars    == <<stopPc, entry, won>>
editVars    == <<editPc, operation, key>>
vars == <<runVars, pool, contentVars, slot, requestVars, stopVars, editVars>>

RunTypes ==
    /\ active \in [Keys -> Requests \cup {None}]
    /\ reason \in [Requests -> {"none", "stopped", "superseded"}]
    /\ cancelled \subseteq Requests
    /\ pool \in [Keys -> Requests \cup {None}]
    /\ slot \in Requests \cup {None}

ContentTypes ==
    /\ known \subseteq Keys /\ sessions \in [Keys -> Contents]
    /\ stored \subseteq Keys /\ disk \in [Keys -> Contents]
    /\ copy \in [Writers -> Contents]
    /\ overlapped \subseteq Keys

RequestTypes ==
    /\ pc \in [Requests -> RequestPcs]
    /\ previous \in [Requests -> Requests \cup {None}]
    /\ engine \in [Requests -> Requests \cup {None}]
    /\ outcome \in [Requests -> Outcomes]
    /\ reply \in [Requests -> Requests \cup {None}]

OtherTypes ==
    /\ stopPc \in [Stops -> {"start", "clone", "mark", "cancel", "done"}]
    /\ entry \in [Stops -> Requests \cup {None}]
    /\ won \in [Stops -> BOOLEAN]
    /\ editPc \in [Edits -> {"start", "save", "erase", "evict", "done"}]
    /\ operation \in [Edits -> Operations \cup {"none"}]
    /\ key \in [Edits -> Keys \cup {None}]

Related ==
    /\ \A k \in Keys : active[k] # None => Of[active[k]] = k
    /\ \A r \in cancelled : reason[r] # "none"
    /\ \A r \in Requests : pc[r] = "turn" => engine[r] # None

\* The types, and that a run is of its session and is cancelled for a reason, and that a
\* turn has an engine: SessionRunRegistry, SessionRunCancelState and get_or_spawn.
TypeOK == RunTypes /\ ContentTypes /\ RequestTypes /\ OtherTypes /\ Related

Init ==
    /\ active = [k \in Keys |-> None]
    /\ reason = [r \in Requests |-> "none"]
    /\ cancelled = {}
    /\ pool = [k \in Keys |-> None]
    /\ known = Keys /\ stored = Keys
    /\ sessions = [k \in Keys |-> {}]
    /\ disk = [k \in Keys |-> {}]
    /\ copy = [w \in Writers |-> {}]
    /\ overlapped = {}
    /\ slot = None
    /\ pc = [r \in Requests |-> "start"]
    /\ previous = [r \in Requests |-> None]
    /\ engine = [r \in Requests |-> None]
    /\ outcome = [r \in Requests |-> "none"]
    /\ reply = [r \in Requests |-> None]
    /\ stopPc = [c \in Stops |-> "start"]
    /\ entry = [c \in Stops |-> None]
    /\ won = [c \in Stops |-> FALSE]
    /\ editPc = [e \in Edits |-> "start"]
    /\ operation = [e \in Edits |-> "none"]
    /\ key = [e \in Edits |-> None]
-----------------------------------------------------------------------------
(* A request that sends a message: its run                                 *)

Goto(r, from, to) == pc[r] = from /\ pc' = [pc EXCEPT ![r] = to]

\* The request goes on to the step "to", and is told how its turn ended.
End(r, from, to, how) == Goto(r, from, to) /\ outcome' = [outcome EXCEPT ![r] = how]

\* handle_send_message_for_session reads the history.
Receive(r) ==
    /\ IF Of[r] \in known THEN Goto(r, "start", "begin") /\ UNCHANGED outcome
                          ELSE End(r, "start", "done", "failed")
    /\ UNCHANGED <<runVars, pool, contentVars, slot, previous, engine, reply, stopVars, editVars>>

\* begin: the new run is the session's before the old one is cancelled.
Begin(r) ==
    LET k == Of[r] IN
    /\ Goto(r, "begin", IF active[k] = None THEN "load" ELSE "mark")
    /\ previous' = [previous EXCEPT ![r] = active[k]]
    /\ active' = [active EXCEPT ![k] = r]
    /\ UNCHANGED <<reason, cancelled, pool, contentVars, slot, engine, outcome, reply,
                   stopVars, editVars>>

\* A bug: the last reason stays
FirstReason_Last(old, new) == new

\* SessionRunCancelState::cancel
FirstReason(old, new) == IF old = "none" THEN new ELSE old

\* SessionRunEntry::cancel for the old run: the reason and then the token.
Mark(r) ==
    /\ Goto(r, "mark", "cancel")
    /\ reason' = [reason EXCEPT ![previous[r]] = FirstReason(@, "superseded")]
    /\ UNCHANGED <<active, cancelled, pool, contentVars, slot, previous, engine, outcome, reply,
                   stopVars, editVars>>

Supersede(r) ==
    /\ Goto(r, "cancel", "load")
    /\ cancelled' = cancelled \cup {previous[r]}
    /\ previous' = [previous EXCEPT ![r] = None]
    /\ UNCHANGED <<active, reason, pool, contentVars, slot, engine, outcome, reply,
                   stopVars, editVars>>

\* execute_session_turn reads the session and resolves its root, which may fail.
Load(r) ==
    /\ \/ Of[r] \in known /\ Goto(r, "load", "check") /\ UNCHANGED outcome
       \/ End(r, "load", "finish", "failed")
    /\ UNCHANGED <<runVars, pool, contentVars, slot, previous, engine, reply, stopVars, editVars>>

Check(r) ==
    /\ IF r \in cancelled THEN End(r, "check", "finish", reason[r])
                          ELSE Goto(r, "check", "pool") /\ UNCHANGED outcome
    /\ UNCHANGED <<runVars, pool, contentVars, slot, previous, engine, reply, stopVars, editVars>>
-----------------------------------------------------------------------------
(* its engine                                                              *)

\* get_or_spawn looks for an engine, and makes one without holding the pool.
Find(r) ==
    /\ Goto(r, "pool", IF pool[Of[r]] = None THEN "insert" ELSE "lock")
    /\ engine' = [engine EXCEPT ![r] = pool[Of[r]]]
    /\ UNCHANGED <<runVars, pool, contentVars, slot, previous, outcome, reply, stopVars, editVars>>

\* or_insert_with: an engine that another request has put in first is used.
Insert(r) ==
    LET k == Of[r] IN
    /\ Goto(r, "insert", "lock")
    /\ pool' = [pool EXCEPT ![k] = IF @ = None THEN r ELSE @]
    /\ engine' = [engine EXCEPT ![r] = pool'[k]]
    /\ UNCHANGED <<runVars, contentVars, slot, previous, outcome, reply, stopVars, editVars>>

SpawnFails(r) ==
    /\ End(r, "insert", "finish", "failed")
    /\ UNCHANGED <<runVars, pool, contentVars, slot, previous, engine, reply, stopVars, editVars>>

\* A bug: a request that was dropped in its turn, or before it, keeps the lock
EngineIsFree_Kept(g) == \A r \in Requests : ~(pc[r] \in {"turn", "dropped"} /\ engine[r] = g)

\* A bug: nobody holds the lock of an engine
EngineIsFree_Always(g) == TRUE

\* The lock of an engine is held for a turn.
EngineIsFree(g) == \A r \in Requests : ~(pc[r] = "turn" /\ engine[r] = g)

\* execute_session_turn_with_engine, up to the turn.
Start(r) ==
    /\ EngineIsFree(engine[r])
    /\ IF r \in cancelled
       THEN End(r, "lock", "finish", reason[r])
       ELSE \/ Goto(r, "lock", "turn") /\ UNCHANGED outcome
            \/ End(r, "lock", "finish", "failed")   \* the session's model does not bind
    /\ UNCHANGED <<runVars, pool, contentVars, slot, previous, engine, reply, stopVars, editVars>>

\* process_message_with_context_and_steering returns; a turn that was cancelled returns
\* what it has.
TurnEnds(r) ==
    /\ \/ End(r, "turn", "finish", "ok")
       \/ End(r, "turn", "finish", "failed")
       \/ r \in cancelled /\ End(r, "turn", "finish", reason[r])
    /\ UNCHANGED <<runVars, pool, contentVars, slot, previous, engine, reply, stopVars, editVars>>

\* A bug: whatever run the session has is removed
Finish_Any(r) ==
    /\ Goto(r, "finish", IF outcome[r] # "ok" THEN "done"
                         ELSE IF r \in Streamed THEN "record" ELSE "route")
    /\ active' = [active EXCEPT ![Of[r]] = None]
    /\ UNCHANGED <<reason, cancelled, pool, contentVars, slot, previous, engine, outcome, reply,
                   stopVars, editVars>>

\* finish: only the session's own run is removed.
Finish(r) ==
    LET k == Of[r] IN
    /\ Goto(r, "finish", IF outcome[r] # "ok" THEN "done"
                         ELSE IF r \in Streamed THEN "record" ELSE "route")
    /\ active' = [active EXCEPT ![k] = IF @ = r THEN None ELSE @]
    /\ UNCHANGED <<reason, cancelled, pool, contentVars, slot, previous, engine, outcome, reply,
                   stopVars, editVars>>

\* The caller is gone: the handler is dropped at one of its awaits.
Disconnect(r) ==
    /\ r \notin Streamed
    /\ pc[r] \in {"begin", "check", "pool", "insert", "lock", "turn", "finish"}
    /\ pc' = [pc EXCEPT ![r] = "dropped"]
    /\ UNCHANGED <<runVars, pool, contentVars, slot, previous, engine, outcome, reply,
                   stopVars, editVars>>
-----------------------------------------------------------------------------
(* its response, and what it records                                       *)

\* ResponseRouter::route to the HTTP channel
Route(r) ==
    /\ Goto(r, "route", "take")
    /\ slot' = r
    /\ UNCHANGED <<runVars, pool, contentVars, previous, engine, outcome, reply,
                   stopVars, editVars>>

\* take_response, or else the response itself
Take(r) ==
    /\ Goto(r, "take", "record")
    /\ reply' = [reply EXCEPT ![r] = IF slot = None THEN r ELSE slot]
    /\ slot' = None
    /\ UNCHANGED <<runVars, pool, contentVars, previous, engine, outcome, stopVars, editVars>>

\* The changes of a session that are not on disk yet.
Pending(k) == {r \in Requests : pc[r] = "save" /\ Of[r] = k}
              \cup {e \in Edits : editPc[e] \in {"save", "erase"} /\ key[e] = k}

\* A bug: the session is copied before it is changed
Change_CopiesFirst(w, k, content) ==
    /\ sessions' = [sessions EXCEPT ![k] = content]
    /\ copy' = [copy EXCEPT ![w] = sessions[k]]
    /\ overlapped' = IF Pending(k) = {} THEN overlapped ELSE overlapped \cup {k}
    /\ UNCHANGED <<known, stored, disk>>

\* update_session: the change is made and copied under the lock, and saved after it.
Change(w, k, content) ==
    /\ sessions' = [sessions EXCEPT ![k] = content]
    /\ copy' = [copy EXCEPT ![w] = content]
    /\ overlapped' = IF Pending(k) = {} THEN overlapped ELSE overlapped \cup {k}
    /\ UNCHANGED <<known, stored, disk>>

\* SessionStore::save, which may fail; the session in memory is left as it is.
Saved(w, k) ==
    /\ stored' = stored \cup {k}
    /\ disk' = [disk EXCEPT ![k] = copy[w]]
    /\ copy' = [copy EXCEPT ![w] = {}]
    /\ UNCHANGED <<known, sessions, overlapped>>

NotSaved(w) ==
    /\ copy' = [copy EXCEPT ![w] = {}]
    /\ UNCHANGED <<known, sessions, stored, disk, overlapped>>

\* record_turn
Record(r) ==
    /\ IF Of[r] \in known
       THEN /\ Change(r, Of[r], sessions[Of[r]] \cup {r})
            /\ Goto(r, "record", "save") /\ UNCHANGED outcome
       ELSE End(r, "record", "done", "failed") /\ UNCHANGED contentVars
    /\ UNCHANGED <<runVars, pool, slot, previous, engine, reply, stopVars, editVars>>

Save(r) ==
    /\ \/ Saved(r, Of[r]) /\ Goto(r, "save", "done") /\ UNCHANGED outcome
       \/ NotSaved(r) /\ End(r, "save", "done", "failed")
    /\ UNCHANGED <<runVars, pool, slot, previous, engine, reply, stopVars, editVars>>
-----------------------------------------------------------------------------
(* Requests that stop                                                      *)

StopGoto(c, from, to) == stopPc[c] = from /\ stopPc' = [stopPc EXCEPT ![c] = to]

\* handle_stop_session: an unknown session has nothing to stop.
StopReceive(c) ==
    /\ StopGoto(c, "start", IF Target[c] \notin known THEN "done" ELSE "clone")
    /\ UNCHANGED <<runVars, pool, contentVars, slot, requestVars, entry, won, editVars>>

\* A bug: the token is cancelled before there is a reason
StopClone_CancelsFirst(c) ==
    LET r == active[Target[c]] IN
    /\ StopGoto(c, "clone", IF r = None THEN "done" ELSE "mark")
    /\ entry' = [entry EXCEPT ![c] = r]
    /\ cancelled' = IF r = None THEN cancelled ELSE cancelled \cup {r}
    /\ UNCHANGED <<active, reason, pool, contentVars, slot, requestVars, won, editVars>>

\* stop copies the entry of the run, and cancels what it has copied.
StopClone(c) ==
    LET r == active[Target[c]] IN
    /\ StopGoto(c, "clone", IF r = None THEN "done" ELSE "mark")
    /\ entry' = [entry EXCEPT ![c] = r]
    /\ UNCHANGED <<runVars, pool, contentVars, slot, requestVars, won, editVars>>

StopMark(c) ==
    /\ StopGoto(c, "mark", "cancel")
    /\ won' = [won EXCEPT ![c] = reason[entry[c]] = "none"]
    /\ reason' = [reason EXCEPT ![entry[c]] = FirstReason(@, "stopped")]
    /\ UNCHANGED <<active, cancelled, pool, contentVars, slot, requestVars, entry, editVars>>

\* It answers that it stopped the run if its reason was the first.
StopCancel(c) ==
    /\ StopGoto(c, "cancel", "done")
    /\ cancelled' = cancelled \cup {entry[c]}
    /\ UNCHANGED <<active, reason, pool, contentVars, slot, requestVars, entry, won, editVars>>
-----------------------------------------------------------------------------
(* Requests that edit                                                      *)

EditGoto(e, from, to) == editPc[e] = from /\ editPc' = [editPc EXCEPT ![e] = to]

Choose(e, op, k) ==
    /\ operation' = [operation EXCEPT ![e] = op]
    /\ key' = [key EXCEPT ![e] = k]

\* handle_clear_session, and the handlers that change the model, the memory and so on.
Edit(e, op, k) ==
    /\ op \in {"clear", "edit"} /\ k \in known
    /\ EditGoto(e, "start", "save") /\ Choose(e, op, k)
    /\ Change(e, k, IF op = "clear" THEN {} ELSE sessions[k])
    /\ UNCHANGED <<runVars, pool, slot, requestVars, stopVars>>

EditSave(e) ==
    /\ EditGoto(e, "save", "done")
    /\ Saved(e, key[e]) \/ NotSaved(e)
    /\ UNCHANGED <<runVars, pool, slot, requestVars, stopVars, operation, key>>

\* destroy, from handle_delete_session: first from memory and then from disk.
Delete(e, k) ==
    /\ k \in known
    /\ EditGoto(e, "start", "erase") /\ Choose(e, "delete", k)
    /\ known' = known \ {k}
    /\ sessions' = [sessions EXCEPT ![k] = {}]
    /\ overlapped' = IF Pending(k) = {} THEN overlapped ELSE overlapped \cup {k}
    /\ UNCHANGED <<runVars, pool, stored, disk, copy, slot, requestVars, stopVars>>

Erase(e) ==
    /\ \/ /\ EditGoto(e, "erase", "evict")
          /\ stored' = stored \ {key[e]} /\ disk' = [disk EXCEPT ![key[e]] = {}]
       \/ EditGoto(e, "erase", "done") /\ UNCHANGED <<stored, disk>>
    /\ UNCHANGED <<runVars, pool, known, sessions, copy, overlapped, slot, requestVars, stopVars,
                   operation, key>>

\* The configuration or the permissions were changed.
Reload(e) ==
    /\ EditGoto(e, "start", "evict")
    /\ operation' = [operation EXCEPT ![e] = "reload"]
    /\ UNCHANGED <<runVars, pool, contentVars, slot, requestVars, stopVars, key>>

\* SessionEnginePool::remove and clear
Evict(e) ==
    /\ EditGoto(e, "evict", "done")
    /\ pool' = [k \in Keys |-> IF operation[e] = "reload" \/ k = key[e] THEN None ELSE pool[k]]
    /\ UNCHANGED <<runVars, contentVars, slot, requestVars, stopVars, operation, key>>
-----------------------------------------------------------------------------
RequestStep(r) ==
    \/ Receive(r) \/ Begin(r) \/ Mark(r) \/ Supersede(r) \/ Load(r) \/ Check(r)
    \/ Find(r) \/ Insert(r) \/ SpawnFails(r) \/ Start(r) \/ TurnEnds(r) \/ Finish(r)
    \/ Route(r) \/ Take(r) \/ Record(r) \/ Save(r)

StopStep(c) == StopReceive(c) \/ StopClone(c) \/ StopMark(c) \/ StopCancel(c)

EditBegins(e) == \/ \E k \in Keys, op \in {"clear", "edit"} : Edit(e, op, k)
                 \/ \E k \in Keys : Delete(e, k)
                 \/ Reload(e)

EditStep(e) == EditSave(e) \/ Erase(e) \/ Evict(e)

Next ==
    \/ \E r \in Requests : RequestStep(r) \/ Disconnect(r)
    \/ \E c \in Stops : StopStep(c)
    \/ \E e \in Edits : EditBegins(e) \/ EditStep(e)

Spec == Init /\ [][Next]_vars

\* Handlers and tasks are scheduled, and a turn returns: the calls it makes have time
\* limits of their own.
FairSpec ==
    /\ Spec
    /\ \A r \in Requests : WF_vars(RequestStep(r))
    /\ \A c \in Stops : WF_vars(StopStep(c))
    /\ \A e \in Edits : WF_vars(EditStep(e))
-----------------------------------------------------------------------------
(* Properties                                                              *)

\* The run of a request, from its registration to its removal, unless it is cancelled.
Live(r) == /\ pc[r] \in {"mark", "cancel", "load", "check", "pool", "insert", "lock",
                         "turn", "finish"}
           /\ r \notin cancelled

\* A run that nobody has cancelled can be stopped: it is the run of its session, or the
\* request that has taken its place is about to cancel it.  A run that ends late never
\* takes its successor out of the registry.
RunIsStoppable ==
    \A r \in Requests : Live(r) =>
        \/ active[Of[r]] = r
        \/ \E q \in Requests : pc[q] \in {"mark", "cancel"} /\ previous[q] = r

\* The types, and who can be stopped.
Inv == TypeOK /\ RunIsStoppable

\* Whoever is told why a run ended is told the truth, and all of them the same: one stop
\* answers that it stopped the run, and only if the run did not have to give way before;
\* a run that had to give way is never again the run of its session.
ReasonIsTrue ==
    /\ \A c \in Stops : won[c] => /\ reason[entry[c]] = "stopped"
                                  /\ \A d \in Stops : won[d] /\ entry[d] = entry[c] => d = c
    /\ \A r \in Requests :
        /\ reason[r] = "stopped" => \E c \in Stops : won[c] /\ entry[c] = r
        /\ reason[r] = "superseded" => active[Of[r]] # r
        /\ outcome[r] \in {"stopped", "superseded"} => outcome[r] = reason[r]

\* The changes that took the engine of a session out of the pool.
Evictions(k) == {e \in Edits : /\ editPc[e] = "done"
                               /\ \/ operation[e] = "reload"
                                  \/ operation[e] = "delete" /\ key[e] = k}

\* The turns of a session run one at a time, however its requests race to make its
\* engine; only an engine that was taken out of the pool may still run one beside them.
OneTurnAtATime ==
    \A k \in Keys :
        Cardinality({r \in Requests : Of[r] = k /\ pc[r] = "turn"}) <= 1 + Cardinality(Evictions(k))

\* What was recorded is on disk, and what was deleted is not, wherever no change was made
\* while another one was still being saved.
SavedAlone ==
    \A k \in Keys \ overlapped : Pending(k) = {} =>
        /\ \A r \in Requests :
             outcome[r] = "ok" /\ pc[r] = "done" /\ r \in sessions[k] => r \in disk[k]
        /\ \A e \in Edits :
             operation[e] = "delete" /\ key[e] = k /\ editPc[e] = "evict" => k \notin stored

\* A request is given the response of its own turn.
OwnResponse == \A r \in Requests : reply[r] \in {None, r}

\* Every request ends, also one whose run is cancelled, whose engine is taken, or whose
\* session or engine goes away.
EverythingEnds ==
    <>[](/\ \A r \in Requests : pc[r] \in {"done", "dropped"}
         /\ \A c \in Stops : stopPc[c] = "done"
         /\ \A e \in Edits : editPc[e] \in {"start", "done"})
=============================================================================
