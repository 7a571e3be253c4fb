----------------------------- MODULE SessionBus -----------------------------
(***************************************************************************)
(* The bus that passes messages between sessions.  A message goes into the *)
(* channel of the application that has subscribed for its session, or into *)
(* the store if there is none or its channel is full; an application that  *)
(* subscribes drains the store.  Sends, subscriptions and the end of       *)
(* applications interleave between their accesses of the map, the channels *)
(* and the store; storage may fail and the program may be restarted.       *)
(***************************************************************************)
EXTENDS Naturals, Sequences, FiniteSets, FiniteSetsExt, SequencesExt

CONSTANTS Messages,     \* numbered in the order in which they are sent
          CreatedAt,    \* Envelope::created_at: the clock, in milliseconds, when each was made
          Id,           \* Envelope::id: random, and its own for each
          Keys,         \* keys of sessions
          To,           \* the session each message is for
          Apps,         \* the applications, each of which subscribes when it is built
          Key,          \* the session of each
          Within,       \* pairs of keys, the second being the first, a colon and more
          Capacity,     \* CHANNEL_CAPACITY
          MaxFailures,  \* bound: accesses of the store that fail
          MaxRestarts   \* bound: restarts

NoApp == "none"

ASSUME BusAssumption ==
    /\ Messages \subseteq Nat /\ IsFiniteSet(Messages)
    /\ CreatedAt \in [Messages -> Nat] /\ Id \in [Messages -> Nat] /\ IsInjective(Id)
    /\ To \in [Messages -> Keys] /\ Key \in [Apps -> Keys] /\ Within \subseteq Keys \X Keys
    /\ NoApp \notin Apps /\ Capacity \in Nat \ {0}
    /\ MaxFailures \in Nat /\ MaxRestarts \in Nat

VARIABLES
    stored,     \* BusStore: the messages of all sessions
    subscriber, \* SessionBus::subscribers
    app,        \* where each application is between its start and its end
    pending,    \* what its drain has read and has still to pass on
    passed,     \* what it has passed on and will delete
    channel,    \* its channel
    send,       \* where each message is on its way
    via,        \* the application whose sender it was given
    failures, restarts,
    received,   \* history: what each application has received
    lost,       \* history: what was in a channel that was closed
    before,     \* history: for each message those that had arrived when it was sent
    doubtful    \* history: messages that may arrive twice

storeVars == <<stored, failures, restarts>>
appVars == <<app, pending, passed>>
sendVars == <<send, via, before>>
vars == <<storeVars, subscriber, appVars, channel, sendVars, received, lost, doubtful>>

Init ==
    /\ stored = {} /\ failures = 0 /\ restarts = 0
    /\ subscriber = [k \in Keys |-> NoApp]
    /\ app = [a \in Apps |-> "none"]
    /\ pending = [a \in Apps |-> <<>>] /\ passed = [a \in Apps |-> {}]
    /\ channel = [a \in Apps |-> <<>>]
    /\ send = [m \in Messages |-> "new"] /\ via = [m \in Messages |-> NoApp]
    /\ received = [a \in Apps |-> <<>>]
    /\ lost = {} /\ before = [m \in Messages |-> {}] /\ doubtful = {}

Fails == failures < MaxFailures /\ failures' = failures + 1 /\ UNCHANGED <<stored, restarts>>
-----------------------------------------------------------------------------
(* SessionBus::send                                                        *)

\* The map is read, and its lock given up, before anything else.
Send(m) ==
    /\ send[m] = "new" /\ \A n \in Messages : n < m => send[n] # "new"
    /\ via' = [via EXCEPT ![m] = subscriber[To[m]]]
    /\ send' = [send EXCEPT ![m] = IF via'[m] = NoApp THEN "store" ELSE "deliver"]
    /\ before' = [before EXCEPT ![m] = {n \in Messages : send[n] \in {"delivered", "stored"}}]
    /\ UNCHANGED <<storeVars, subscriber, appVars, channel, received, lost, doubtful>>

Closed(a) == app[a] = "gone"

Full_Later(a) == Len(channel[a]) > Capacity     \* A bug: one more than the limit fits.

Full(a) == Len(channel[a]) >= Capacity

Unsubscribes_Full(m) == Closed(via[m]) \/ Full(via[m])  \* A bug: full counts as closed.

\* Whoever is subscribed now.
Unsubscribes(m) == Closed(via[m])

\* deliver_or_store
Deliver(m) ==
    /\ send[m] = "deliver"
    /\ IF Closed(via[m]) \/ Full(via[m])
       THEN send' = [send EXCEPT ![m] = "store"] /\ UNCHANGED channel
       ELSE /\ send' = [send EXCEPT ![m] = "delivered"]
            /\ channel' = [channel EXCEPT ![via[m]] = Append(@, m)]
    /\ subscriber' = IF Unsubscribes(m) THEN [subscriber EXCEPT ![To[m]] = NoApp] ELSE subscriber
    /\ UNCHANGED <<storeVars, appVars, via, before, received, lost, doubtful>>

\* BusStore::enqueue; its error is the sender's.
Enqueue(m) ==
    /\ send[m] = "store"
    /\ \/ /\ stored' = stored \cup {m}
          /\ send' = [send EXCEPT ![m] = "stored"]
          /\ UNCHANGED <<failures, restarts>>
       \/ /\ Fails
          /\ send' = [send EXCEPT ![m] = "failed"]
    /\ UNCHANGED <<subscriber, appVars, channel, via, before, received, lost, doubtful>>
-----------------------------------------------------------------------------
(* SessionBus::subscribe                                                   *)

Register(a) ==
    /\ app[a] = "none"
    /\ app' = [app EXCEPT ![a] = "registered"]
    /\ subscriber' = [subscriber EXCEPT ![Key[a]] = a]
    /\ UNCHANGED <<storeVars, pending, passed, channel, sendVars, received, lost, doubtful>>

Precedes_ById(m, n) == Id[m] < Id[n]    \* A bug: the order of the keys in the store.

\* sort_envelopes.  Nothing relates the time to the order of sending: messages of one
\* millisecond come in the order of their ids, and the clock may be set back.
Precedes(m, n) == \/ CreatedAt[m] < CreatedAt[n]
                  \/ CreatedAt[m] = CreatedAt[n] /\ Id[m] < Id[n]

\* The envelopes of a set, sorted.
Lists(q, S) == ToSet(q) = S /\ \A i, j \in DOMAIN q : i < j => Precedes(q[i], q[j])

\* read_pending finds what begins with the key and a colon.
ReadPending(a) ==
    /\ app[a] = "registered"
    /\ \/ /\ app' = [app EXCEPT ![a] = "draining"]
          /\ \E q \in BoundedSeq(Messages, Cardinality(Messages)) :
               /\ Lists(q, {m \in stored : To[m] = Key[a] \/ <<Key[a], To[m]>> \in Within})
               /\ pending' = [pending EXCEPT ![a] = q]
          /\ UNCHANGED storeVars
       \/ /\ Fails
          /\ app' = [app EXCEPT ![a] = "live"]
          /\ UNCHANGED pending
    /\ UNCHANGED <<subscriber, passed, channel, sendVars, received, lost, doubtful>>

\* Another drain has the message as well, or had it and has deleted it.
ReadTwice(a, m) == \/ m \notin stored
                   \/ \E b \in Apps \ {a} : m \in passed[b] \cup ToSet(pending[b])

Break_Passed(a) == passed[a] \cup ToSet(pending[a])     \* A bug: what is left counts as passed on.

\* At the first message that finds the channel full.
Break(a) == passed[a]

\* try_drain_delivery
Drain(a) ==
    /\ app[a] = "draining" /\ pending[a] # <<>>
    /\ LET m == Head(pending[a]) IN
       IF Full(a)
       THEN /\ pending' = [pending EXCEPT ![a] = <<>>]
            /\ passed' = [passed EXCEPT ![a] = Break(a)]
            /\ UNCHANGED <<channel, doubtful>>
       ELSE /\ pending' = [pending EXCEPT ![a] = Tail(@)]
            /\ passed' = [passed EXCEPT ![a] = @ \cup {m}]
            /\ channel' = [channel EXCEPT ![a] = Append(@, m)]
            /\ doubtful' = IF ReadTwice(a, m) \/ To[m] # Key[a] THEN doubtful \cup {m} ELSE doubtful
    /\ UNCHANGED <<storeVars, subscriber, app, sendVars, received, lost>>

Deleted_ButLast(a) == IF passed[a] = {} THEN {} ELSE passed[a] \ {Max(passed[a])}   \* A bug: the last one stays.

\* delete_batch makes the keys in the store from the key of the application.
Deleted(a) == {m \in passed[a] : To[m] = Key[a]}

DeleteBatch(a) ==
    /\ app[a] = "draining" /\ pending[a] = <<>>
    /\ \/ /\ stored' = stored \ Deleted(a)
          /\ UNCHANGED <<failures, restarts, doubtful>>
       \/ /\ Fails /\ passed[a] # {}
          /\ doubtful' = doubtful \cup passed[a]
    /\ app' = [app EXCEPT ![a] = "live"]
    /\ passed' = [passed EXCEPT ![a] = {}]
    /\ UNCHANGED <<subscriber, pending, channel, sendVars, received, lost>>
-----------------------------------------------------------------------------
(* The application                                                         *)

\* The receiver, at any time after it was returned.
Receive(a) ==
    /\ app[a] = "live" /\ channel[a] # <<>>
    /\ received' = [received EXCEPT ![a] = Append(@, Head(channel[a]))]
    /\ channel' = [channel EXCEPT ![a] = Tail(@)]
    /\ UNCHANGED <<storeVars, subscriber, appVars, sendVars, lost, doubtful>>

\* Drop of the application, which first removes whoever is subscribed for its session.
Unsubscribe(a) ==
    /\ app[a] = "live"
    /\ app' = [app EXCEPT ![a] = "closing"]
    /\ subscriber' = [subscriber EXCEPT ![Key[a]] = NoApp]
    /\ UNCHANGED <<storeVars, pending, passed, channel, sendVars, received, lost, doubtful>>

\* Then its fields are dropped, and with the receiver what is in the channel.
Close(a) ==
    /\ app[a] = "closing"
    /\ app' = [app EXCEPT ![a] = "gone"]
    /\ channel' = [channel EXCEPT ![a] = <<>>]
    /\ lost' = lost \cup ToSet(channel[a])
    /\ UNCHANGED <<storeVars, subscriber, pending, passed, sendVars, received, doubtful>>

\* The program is restarted and has nothing but the store.
Restart ==
    /\ restarts < MaxRestarts /\ restarts' = restarts + 1
    /\ subscriber' = [k \in Keys |-> NoApp]
    /\ app' = [a \in Apps |-> IF app[a] = "none" THEN "none" ELSE "gone"]
    /\ pending' = [a \in Apps |-> <<>>] /\ passed' = [a \in Apps |-> {}]
    /\ channel' = [a \in Apps |-> <<>>]
    /\ send' = [m \in Messages |-> IF send[m] \in {"deliver", "store"} THEN "failed" ELSE send[m]]
    /\ lost' = lost \cup UNION {ToSet(channel[a]) : a \in Apps}
    /\ doubtful' = doubtful \cup UNION {passed[a] : a \in Apps}
    /\ UNCHANGED <<stored, failures, via, before, received>>

Next ==
    \/ \E m \in Messages : Send(m) \/ Deliver(m) \/ Enqueue(m)
    \/ \E a \in Apps : \/ Register(a) \/ ReadPending(a) \/ Drain(a) \/ DeleteBatch(a)
                       \/ Receive(a) \/ Unsubscribe(a) \/ Close(a)
    \/ Restart

Spec == Init /\ [][Next]_vars
-----------------------------------------------------------------------------
(* Properties                                                              *)

\* The types.
TypeOK ==
    /\ stored \subseteq Messages /\ lost \subseteq Messages /\ doubtful \subseteq Messages
    /\ subscriber \in [Keys -> Apps \cup {NoApp}]
    /\ app \in [Apps -> {"none", "registered", "draining", "live", "closing", "gone"}]
    /\ pending \in [Apps -> Seq(Messages)] /\ passed \in [Apps -> SUBSET Messages]
    /\ channel \in [Apps -> Seq(Messages)] /\ \A a \in Apps : Len(channel[a]) <= Capacity
    /\ received \in [Apps -> Seq(Messages)]
    /\ send \in [Messages -> {"new", "deliver", "store", "delivered", "stored", "failed"}]
    /\ via \in [Messages -> Apps \cup {NoApp}] /\ before \in [Messages -> SUBSET Messages]
    /\ failures \in 0..MaxFailures /\ restarts \in 0..MaxRestarts
    \* A subscriber is an application of the session that has not come to its end.
    /\ \A k \in Keys : subscriber[k] # NoApp => /\ Key[subscriber[k]] = k
                                                /\ app[subscriber[k]] \notin {"none", "gone"}

\* What came to an application, and where a message is among it.
Line(a) == received[a] \o channel[a]
Places(m) == UNION {{<<a, i>> : i \in {j \in DOMAIN Line(a) : Line(a)[j] = m}} : a \in Apps}

\* A message whose send has succeeded is in the store, in a channel, received, or was in
\* the channel of an application that ended: no subscription, full channel or error in
\* between loses it on the way.
NothingIsLost ==
    \A m \in Messages : send[m] \in {"delivered", "stored"} =>
        m \in stored \cup lost \/ Places(m) # {}

\* A message arrives once, unless its drain was cut short before it was deleted, two
\* applications of its session drained together, or it was drained for a session whose key
\* its own begins with.
ArrivesOnce ==
    \A m \in Messages \ doubtful :
        /\ Cardinality(Places(m)) + (IF m \in lost THEN 1 ELSE 0) <= 1
        /\ m \in stored /\ (Places(m) # {} \/ m \in lost) =>
             \E a \in Apps : app[a] = "draining" /\ m \in passed[a]

\* A message that overtakes one that had arrived before it was sent was put into the
\* channel directly while the other one was in the store, or both were in the store and the
\* clock did not tell them apart, or was set back between them: where it did, the drain
\* keeps the order.
OvertakesOnlyTheStore ==
    \A a \in Apps : \A i, j \in DOMAIN received[a] :
        LET first == received[a][i]  second == received[a][j] IN
        i < j /\ second \in before[first] =>
            /\ send[second] = "stored"
            /\ \/ send[first] = "delivered"
               \/ send[first] = "stored" /\ CreatedAt[second] >= CreatedAt[first]

\* An application whose session no other one has had is subscribed for as long as it lives.
HeardUnlessShared ==
    \A a \in Apps :
        app[a] = "live" /\ (\A b \in Apps \ {a} : Key[b] = Key[a] => app[b] = "none")
          => subscriber[Key[a]] = a

\* The types, and the subscriptions.
Inv == TypeOK /\ HeardUnlessShared
=============================================================================
