------------------------- MODULE SessionBus_proofs -------------------------
(***************************************************************************)
(* Proofs about SessionBus, for all messages, sessions, applications and   *)
(* capacities: the subscriptions, that no message is lost on its way, when *)
(* one may overtake another, and when one may arrive twice.                *)
(***************************************************************************)
EXTENDS SessionBus, FiniteSetTheorems, SequenceTheorems, TLAPS

Arrived(m)    == send[m] \in {"delivered", "stored"}
IsAlive(a)    == app[a] \in {"registered", "draining", "live"}
IsAlone(a)    == \A b \in Apps \ {a} : Key[b] = Key[a] => app[b] = "none"
IsAt(a, i, m) == i \in DOMAIN Line(a) /\ Line(a)[i] = m
Came(a, m)    == \E i \in DOMAIN Line(a) : IsAt(a, i, m)
CameToAny(m)  == \E a \in Apps : Came(a, m)

\* Who is subscribed has the session and has not begun to end, and one that has its session
\* alone is subscribed.
SubscriberInv ==
    /\ \A k \in Keys : subscriber[k] # NoApp => Key[subscriber[k]] = k /\ IsAlive(subscriber[k])
    /\ \A a \in Apps : IsAlive(a) /\ IsAlone(a) => subscriber[Key[a]] = a

\* A sender goes to an application of its message's session; messages are sent in their order.
SendInv ==
    /\ \A m \in Messages : send[m] = "deliver" =>
           via[m] \in Apps /\ Key[via[m]] = To[m] /\ app[via[m]] # "none"
    /\ \A m, n \in Messages : n < m /\ send[m] # "new" => send[n] # "new"
    /\ \A m \in Messages : \A n \in before[m] : Arrived(n) /\ n < m

\* Only what has arrived is anywhere, and only what went through the store is drained.
PlaceInv ==
    /\ \A m \in stored : send[m] = "stored"
    /\ \A m \in lost : Arrived(m)
    /\ \A a \in Apps : \A m \in Messages : Came(a, m) => Arrived(m)

\* A drain has its messages in their order, and passes them on before it deletes them.
DrainOf(a) ==
    /\ pending[a] # <<>> \/ passed[a] # {} => app[a] = "draining"
    /\ \A i \in DOMAIN pending[a] : send[pending[a][i]] = "stored"
    /\ \A i, j \in DOMAIN pending[a] : i < j => Precedes(pending[a][i], pending[a][j])
    /\ \A m \in passed[a] : send[m] = "stored" /\ \E i \in DOMAIN channel[a] : channel[a][i] = m
DrainInv == \A a \in Apps : DrainOf(a)

\* Before its drain an application has nothing from the store, and in its drain nothing that
\* comes after what is still to be passed on.
StoreOrderInv == \A a \in Apps : \A m \in Messages : Came(a, m) /\ send[m] = "stored" =>
    /\ app[a] \notin {"none", "registered"}
    /\ \A i \in DOMAIN pending[a] : Precedes(m, pending[a][i])

\* One of them was stored, and the other one was not, or was not created later.
Overtakes(first, second) ==
    /\ send[second] = "stored"
    /\ \/ send[first] = "delivered"
       \/ send[first] = "stored" /\ CreatedAt[second] >= CreatedAt[first]

\* The order of the property, for what is still in the channel too.
OrderInv == \A a \in Apps : \A i, j \in DOMAIN Line(a) : \A first, second \in Messages :
    IsAt(a, i, first) /\ IsAt(a, j, second) /\ i < j /\ second \in before[first] =>
        Overtakes(first, second)

\* What has arrived is somewhere.
KeptInv == \A m \in Messages : Arrived(m) => m \in stored \cup lost \/ CameToAny(m)

\* A message that no drain makes doubtful is in one place, or lost, and beside it in the
\* store only until the drain that passed it on deletes it.
OnceOf(m) ==
    /\ \A a, b \in Apps : \A i \in DOMAIN Line(a) : \A j \in DOMAIN Line(b) :
           IsAt(a, i, m) /\ IsAt(b, j, m) => a = b /\ i = j
    /\ m \in lost => ~CameToAny(m)
    /\ m \in stored /\ (CameToAny(m) \/ m \in lost) =>
           \E a \in Apps : app[a] = "draining" /\ m \in passed[a]
    /\ \A a \in Apps : m \in passed[a] => To[m] = Key[a]
OnceInv == \A m \in Messages \ doubtful : OnceOf(m)

IInv == /\ TypeOK /\ SubscriberInv /\ SendInv /\ PlaceInv
        /\ DrainInv /\ StoreOrderInv /\ OrderInv /\ KeptInv /\ OnceInv
-----------------------------------------------------------------------------
(* The types.                                                              *)

LEMMA SeqFacts ==
    ASSUME NEW S, NEW q \in Seq(S)
    PROVE  /\ Len(q) \in Nat /\ DOMAIN q = 1..Len(q) /\ \A i \in DOMAIN q : q[i] \in S
           /\ ToSet(q) = {q[i] : i \in DOMAIN q} /\ ToSet(q) \subseteq S
           /\ q # <<>> => /\ Head(q) \in S /\ Head(q) = q[1] /\ Len(q) > 0
                          /\ Tail(q) \in Seq(S) /\ Len(Tail(q)) = Len(q) - 1
                          /\ \A i \in DOMAIN Tail(q) : Tail(q)[i] = q[i + 1]
BY DEF ToSet

LEMMA AppendFacts ==
    ASSUME NEW S, NEW q \in Seq(S), NEW x \in S
    PROVE  /\ Append(q, x) \in Seq(S) /\ Len(Append(q, x)) = Len(q) + 1
           /\ DOMAIN Append(q, x) = DOMAIN q \cup {Len(q) + 1}
           /\ \A i \in DOMAIN q : Append(q, x)[i] = q[i]
           /\ Append(q, x)[Len(q) + 1] = x
OBVIOUS

LEMMA ListType ==
    ASSUME NEW q \in BoundedSeq(Messages, Cardinality(Messages))
    PROVE  q \in Seq(Messages)
<1>1. Cardinality(Messages) \in Nat
  BY BusAssumption, FS_CardinalityType
<1>2. PICK n \in 0..Cardinality(Messages) : q \in [1..n -> Messages]
  BY DEF BoundedSeq, SeqOf
<1>. QED  BY <1>1, <1>2, SeqDef

LEMMA InitTypes == Init => TypeOK
BY BusAssumption DEF Init, TypeOK, storeVars

LEMMA SendType ==
    ASSUME TypeOK, NEW m \in Messages, Send(m) \/ Deliver(m) \/ Enqueue(m), SendInv
    PROVE  TypeOK'
<1>1. /\ stored' \subseteq Messages /\ lost' \subseteq Messages /\ doubtful' \subseteq Messages
      /\ failures' \in 0..MaxFailures /\ restarts' \in 0..MaxRestarts
  <2>1. /\ stored' = stored \/ stored' = stored \cup {m}
        /\ failures' = failures \/ (failures < MaxFailures /\ failures' = failures + 1)
        /\ restarts' = restarts /\ lost' = lost /\ doubtful' = doubtful
    BY DEF Send, Deliver, Enqueue, Fails, storeVars
  <2>2. stored' \subseteq Messages /\ lost' \subseteq Messages /\ doubtful' \subseteq Messages
    BY <2>1 DEF TypeOK
  <2>3. failures' \in 0..MaxFailures /\ restarts' \in 0..MaxRestarts
    BY <2>1, BusAssumption DEF TypeOK
  <2>. QED  BY <2>2, <2>3
<1>2. /\ app' \in [Apps -> {"none", "registered", "draining", "live", "closing", "gone"}]
      /\ pending' \in [Apps -> Seq(Messages)] /\ passed' \in [Apps -> SUBSET Messages]
      /\ received' \in [Apps -> Seq(Messages)]
      /\ app' = app
  BY DEF TypeOK, Send, Deliver, Enqueue, appVars
<1>3. channel' \in [Apps -> Seq(Messages)] /\ \A a \in Apps : Len(channel'[a]) <= Capacity
  <2>1. CASE send[m] = "deliver" /\ ~Full(via[m]) /\ channel' = [channel EXCEPT ![via[m]] = Append(@, m)]
    <3>1. via[m] \in Apps
      BY <2>1 DEF SendInv
    <3>2. Len(channel[via[m]]) < Capacity
      BY <2>1, <3>1, BusAssumption DEF Full, TypeOK
    <3>. QED  BY <2>1, <3>1, <3>2, AppendFacts, BusAssumption DEF TypeOK
  <2>2. CASE channel' = channel
    BY <2>2 DEF TypeOK
  <2>. QED  BY <2>1, <2>2 DEF Send, Deliver, Enqueue
<1>4. /\ send' \in [Messages -> {"new", "deliver", "store", "delivered", "stored", "failed"}]
      /\ via' \in [Messages -> Apps \cup {NoApp}] /\ before' \in [Messages -> SUBSET Messages]
  <2>1. CASE Send(m)
    <3>1. subscriber[To[m]] \in Apps \cup {NoApp}
      BY BusAssumption DEF TypeOK
    <3>2. /\ via' = [via EXCEPT ![m] = subscriber[To[m]]]
          /\ before' = [before EXCEPT ![m] = {n \in Messages : send[n] \in {"delivered", "stored"}}]
          /\ send' = [send EXCEPT ![m] = IF via'[m] = NoApp THEN "store" ELSE "deliver"]
      BY <2>1 DEF Send
    <3>. QED  BY <3>1, <3>2 DEF TypeOK
  <2>2. CASE Deliver(m) \/ Enqueue(m)
    <3>1. via' = via /\ before' = before
      BY <2>2 DEF Deliver, Enqueue, sendVars
    <3>2. \E x \in {"store", "delivered", "stored", "failed"} : send' = [send EXCEPT ![m] = x]
      BY <2>2 DEF Deliver, Enqueue
    <3>. QED  BY <3>1, <3>2 DEF TypeOK
  <2>. QED  BY <2>1, <2>2
<1>5. /\ subscriber' \in [Keys -> Apps \cup {NoApp}]
      /\ \A k \in Keys : subscriber'[k] # NoApp => subscriber'[k] = subscriber[k]
  BY BusAssumption DEF TypeOK, Send, Deliver, Enqueue
<1>. QED  BY <1>1, <1>2, <1>3, <1>4, <1>5 DEF TypeOK

LEMMA RegisterType ==
    ASSUME TypeOK, NEW a \in Apps, Register(a)
    PROVE  TypeOK'
<1>1. app' = [app EXCEPT ![a] = "registered"] /\ subscriber' = [subscriber EXCEPT ![Key[a]] = a]
  BY DEF Register
<1>2. Key[a] \in Keys /\ a # NoApp
  BY BusAssumption
<1>3. \A k \in Keys : subscriber'[k] # NoApp => /\ Key[subscriber'[k]] = k
                                                /\ app'[subscriber'[k]] \notin {"none", "gone"}
  BY <1>1, <1>2 DEF TypeOK
<1>. QED  BY <1>1, <1>2, <1>3 DEF TypeOK, Register, storeVars, sendVars

LEMMA DrainType ==
    ASSUME TypeOK, NEW a \in Apps, ReadPending(a) \/ Drain(a) \/ DeleteBatch(a)
    PROVE  TypeOK'
<1>1. /\ stored' \subseteq Messages /\ lost' \subseteq Messages
      /\ failures' \in 0..MaxFailures /\ restarts' \in 0..MaxRestarts
  <2>1. /\ stored' \subseteq stored /\ restarts' = restarts /\ lost' = lost
        /\ failures' = failures \/ (failures < MaxFailures /\ failures' = failures + 1)
    BY DEF ReadPending, Drain, DeleteBatch, Fails, storeVars
  <2>. QED  BY <2>1, BusAssumption DEF TypeOK
<1>2. /\ app' \in [Apps -> {"none", "registered", "draining", "live", "closing", "gone"}]
      /\ received' \in [Apps -> Seq(Messages)]
      /\ send' \in [Messages -> {"new", "deliver", "store", "delivered", "stored", "failed"}]
      /\ via' \in [Messages -> Apps \cup {NoApp}] /\ before' \in [Messages -> SUBSET Messages]
      /\ \A b \in Apps : app'[b] \in {"none", "gone"} => app'[b] = app[b]
  BY DEF TypeOK, ReadPending, Drain, DeleteBatch, sendVars
<1>3. /\ subscriber' \in [Keys -> Apps \cup {NoApp}] /\ subscriber' = subscriber
      /\ \A k \in Keys : subscriber[k] # NoApp => subscriber[k] \in Apps
  BY DEF TypeOK, ReadPending, Drain, DeleteBatch
<1>4. \A k \in Keys : subscriber'[k] # NoApp => /\ Key[subscriber'[k]] = k
                                                /\ app'[subscriber'[k]] \notin {"none", "gone"}
  BY <1>2, <1>3 DEF TypeOK
<1>5. pending' \in [Apps -> Seq(Messages)]
  <2>1. CASE ReadPending(a)
    BY <2>1, ListType DEF TypeOK, ReadPending
  <2>2. CASE Drain(a)
    <3>1. pending[a] \in Seq(Messages) /\ pending[a] # <<>>
      BY <2>2 DEF TypeOK, Drain
    <3>2. Tail(pending[a]) \in Seq(Messages)
      BY <3>1, SeqFacts
    <3>3. \E q \in {<<>>, Tail(pending[a])} : pending' = [pending EXCEPT ![a] = q]
      BY <2>2 DEF Drain
    <3>4. <<>> \in Seq(Messages)
      OBVIOUS
    <3>5. PICK q \in Seq(Messages) : pending' = [pending EXCEPT ![a] = q]
      BY <3>2, <3>3, <3>4
    <3>6. pending \in [Apps -> Seq(Messages)]
      BY DEF TypeOK
    <3>. QED  BY <3>5, <3>6
  <2>. QED  BY <2>1, <2>2 DEF TypeOK, DeleteBatch
<1>6. /\ passed' \in [Apps -> SUBSET Messages] /\ doubtful' \subseteq Messages
      /\ channel' \in [Apps -> Seq(Messages)] /\ \A b \in Apps : Len(channel'[b]) <= Capacity
  <2>1. CASE Drain(a)
    <3>1. Head(pending[a]) \in Messages
      BY <2>1, SeqFacts DEF TypeOK, Drain
    <3>2. CASE Full(a)
      <4>1. passed' = [passed EXCEPT ![a] = passed[a]] /\ channel' = channel /\ doubtful' = doubtful
        BY <2>1, <3>2 DEF Drain, Break
      <4>. QED  BY <4>1 DEF TypeOK
    <3>3. CASE ~Full(a)
      <4>1. Len(channel[a]) < Capacity
        BY <3>3, BusAssumption DEF Full, TypeOK
      <4>2. /\ channel' = [channel EXCEPT ![a] = Append(@, Head(pending[a]))]
            /\ passed' = [passed EXCEPT ![a] = @ \cup {Head(pending[a])}]
            /\ doubtful' \subseteq doubtful \cup {Head(pending[a])}
        BY <2>1, <3>3 DEF Drain
      <4>. QED  BY <3>1, <4>1, <4>2, AppendFacts, BusAssumption DEF TypeOK
    <3>. QED  BY <3>2, <3>3
  <2>2. CASE ReadPending(a)
    BY <2>2 DEF TypeOK, ReadPending
  <2>3. CASE DeleteBatch(a)
    BY <2>3 DEF TypeOK, DeleteBatch
  <2>. QED  BY <2>1, <2>2, <2>3
<1>. QED  BY <1>1, <1>2, <1>3, <1>4, <1>5, <1>6 DEF TypeOK

LEMMA ReceiveType ==
    ASSUME TypeOK, NEW a \in Apps, Receive(a)
    PROVE  TypeOK'
<1>1. /\ channel[a] # <<>> /\ channel[a] \in Seq(Messages) /\ received[a] \in Seq(Messages)
      /\ channel' = [channel EXCEPT ![a] = Tail(@)]
      /\ received' = [received EXCEPT ![a] = Append(@, Head(channel[a]))]
  BY DEF Receive, TypeOK
<1>2. channel' \in [Apps -> Seq(Messages)] /\ \A b \in Apps : Len(channel'[b]) <= Capacity
  BY <1>1, SeqFacts, BusAssumption DEF TypeOK
<1>3. received' \in [Apps -> Seq(Messages)]
  BY <1>1, SeqFacts, AppendFacts DEF TypeOK
<1>. QED  BY <1>2, <1>3 DEF TypeOK, Receive, storeVars, appVars, sendVars

\* With the subscribers that have not begun to end, for Close.
LEMMA EndType ==
    ASSUME TypeOK, SubscriberInv, Restart \/ \E a \in Apps : Unsubscribe(a) \/ Close(a)
    PROVE  TypeOK'
<1>1. CASE Restart
  <2>1. \A a \in Apps : ToSet(channel[a]) \subseteq Messages /\ passed[a] \subseteq Messages
    BY SeqFacts DEF TypeOK
  <2>2. /\ stored' \subseteq Messages /\ lost' \subseteq Messages /\ doubtful' \subseteq Messages
        /\ failures' \in 0..MaxFailures /\ restarts' \in 0..MaxRestarts
    <3>1. /\ stored' = stored /\ failures' = failures
          /\ restarts < MaxRestarts /\ restarts' = restarts + 1
          /\ lost' = lost \cup UNION {ToSet(channel[a]) : a \in Apps}
          /\ doubtful' = doubtful \cup UNION {passed[a] : a \in Apps}
      BY <1>1 DEF Restart
    <3>2. UNION {ToSet(channel[a]) : a \in Apps} \subseteq Messages
      BY <2>1
    <3>3. UNION {passed[a] : a \in Apps} \subseteq Messages
      BY <2>1
    <3>4. stored' \subseteq Messages /\ lost' \subseteq Messages /\ doubtful' \subseteq Messages
      BY <3>1, <3>2, <3>3 DEF TypeOK
    <3>5. failures' \in 0..MaxFailures /\ restarts' \in 0..MaxRestarts
      BY <3>1, BusAssumption DEF TypeOK
    <3>. QED  BY <3>4, <3>5
  <2>3. /\ app' \in [Apps -> {"none", "registered", "draining", "live", "closing", "gone"}]
        /\ send' \in [Messages -> {"new", "deliver", "store", "delivered", "stored", "failed"}]
        /\ via' \in [Messages -> Apps \cup {NoApp}] /\ before' \in [Messages -> SUBSET Messages]
    BY <1>1 DEF TypeOK, Restart
  <2>4. /\ pending' \in [Apps -> Seq(Messages)] /\ passed' \in [Apps -> SUBSET Messages]
        /\ channel' \in [Apps -> Seq(Messages)] /\ \A a \in Apps : Len(channel'[a]) <= Capacity
        /\ received' \in [Apps -> Seq(Messages)]
        /\ subscriber' = [k \in Keys |-> NoApp]
    BY <1>1, BusAssumption DEF TypeOK, Restart
  <2>. QED  BY <2>2, <2>3, <2>4 DEF TypeOK
<1>2. ASSUME NEW a \in Apps, Unsubscribe(a) PROVE TypeOK'
  <2>1. app' = [app EXCEPT ![a] = "closing"] /\ subscriber' = [subscriber EXCEPT ![Key[a]] = NoApp]
    BY <1>2 DEF Unsubscribe
  <2>2. /\ subscriber' \in [Keys -> Apps \cup {NoApp}]
        /\ \A k \in Keys : subscriber'[k] # NoApp => subscriber'[k] = subscriber[k]
    BY <2>1, BusAssumption DEF TypeOK
  <2>3. \A k \in Keys : subscriber'[k] # NoApp => /\ Key[subscriber'[k]] = k
                                                  /\ app'[subscriber'[k]] \notin {"none", "gone"}
    BY <2>1, <2>2 DEF TypeOK
  <2>. QED  BY <1>2, <2>1, <2>2, <2>3 DEF TypeOK, Unsubscribe, storeVars, sendVars
<1>3. ASSUME NEW a \in Apps, Close(a) PROVE TypeOK'
  <2>1. ToSet(channel[a]) \subseteq Messages
    BY SeqFacts DEF TypeOK
  <2>2. /\ app[a] = "closing" /\ app' = [app EXCEPT ![a] = "gone"]
        /\ channel' = [channel EXCEPT ![a] = <<>>] /\ lost' = lost \cup ToSet(channel[a])
        /\ subscriber' = subscriber
    BY <1>3 DEF Close
  <2>3. \A k \in Keys : subscriber[k] # a
    BY <2>2, BusAssumption DEF SubscriberInv, IsAlive
  <2>4. channel' \in [Apps -> Seq(Messages)] /\ \A b \in Apps : Len(channel'[b]) <= Capacity
    BY <2>2, BusAssumption DEF TypeOK
  <2>5. \A k \in Keys : subscriber'[k] # NoApp => /\ Key[subscriber'[k]] = k
                                                  /\ app'[subscriber'[k]] \notin {"none", "gone"}
    BY <2>2, <2>3 DEF TypeOK
  <2>. QED  BY <1>3, <2>1, <2>2, <2>4, <2>5 DEF TypeOK, Close, storeVars, sendVars
<1>. QED  BY <1>1, <1>2, <1>3

LEMMA TypeStep == TypeOK /\ SubscriberInv /\ SendInv /\ [Next]_vars => TypeOK'
<1>. SUFFICES ASSUME TypeOK, SubscriberInv, SendInv, [Next]_vars PROVE TypeOK'
  OBVIOUS
<1>1. CASE UNCHANGED vars
  BY <1>1 DEF TypeOK, vars, storeVars, appVars, sendVars
<1>2. CASE Next
  BY <1>2, SendType, RegisterType, DrainType, ReceiveType, EndType DEF Next
<1>. QED  BY <1>1, <1>2
-----------------------------------------------------------------------------
(* What a step does to the lines of the applications.                      *)

LEMMA ConcatFacts ==
    ASSUME NEW S, NEW q \in Seq(S), NEW r \in Seq(S)
    PROVE  /\ q \o r \in Seq(S) /\ Len(q \o r) = Len(q) + Len(r) /\ DOMAIN (q \o r) = 1..(Len(q) + Len(r))
           /\ \A i \in DOMAIN q : i \in DOMAIN (q \o r) /\ (q \o r)[i] = q[i]
           /\ \A i \in DOMAIN r : Len(q) + i \in DOMAIN (q \o r) /\ (q \o r)[Len(q) + i] = r[i]
OBVIOUS

LEMMA SameSeq ==
    ASSUME NEW S, NEW q \in Seq(S), NEW r \in Seq(S), Len(q) = Len(r),
           \A i \in 1..Len(q) : q[i] = r[i]
    PROVE  q = r
OBVIOUS

LEMMA ConcatAppend ==
    ASSUME NEW S, NEW q \in Seq(S), NEW r \in Seq(S), NEW x \in S
    PROVE  q \o Append(r, x) = Append(q \o r, x)
OBVIOUS

LEMMA ConcatShift ==
    ASSUME NEW S, NEW q \in Seq(S), NEW r \in Seq(S), r # <<>>
    PROVE  Append(q, Head(r)) \o Tail(r) = q \o r
OBVIOUS

LEMMA LineIs ==
    ASSUME TypeOK, NEW a \in Apps
    PROVE  /\ received[a] \in Seq(Messages) /\ channel[a] \in Seq(Messages)
           /\ Len(received[a]) \in Nat /\ Len(channel[a]) \in Nat
           /\ DOMAIN received[a] = 1..Len(received[a]) /\ DOMAIN channel[a] = 1..Len(channel[a])
           /\ DOMAIN Line(a) = 1..(Len(received[a]) + Len(channel[a]))
           /\ \A i \in DOMAIN received[a] : IsAt(a, i, received[a][i])
           /\ \A i \in DOMAIN channel[a] : IsAt(a, Len(received[a]) + i, channel[a][i])
<1>1. PICK q \in Seq(Messages) : q = received[a]
  BY DEF TypeOK
<1>2. PICK r \in Seq(Messages) : r = channel[a]
  BY DEF TypeOK
<1>3. PICK l \in Seq(Messages) : l = q \o r
  BY ConcatFacts
<1>4. /\ Len(q) \in Nat /\ DOMAIN q = 1..Len(q) /\ Len(r) \in Nat /\ DOMAIN r = 1..Len(r)
      /\ DOMAIN l = 1..(Len(q) + Len(r))
      /\ \A i \in DOMAIN q : i \in DOMAIN l /\ l[i] = q[i]
      /\ \A i \in DOMAIN r : Len(q) + i \in DOMAIN l /\ l[Len(q) + i] = r[i]
  BY <1>3, ConcatFacts
<1>5. Line(a) = l
  BY <1>1, <1>2, <1>3 DEF Line
<1>. QED  BY <1>1, <1>2, <1>4, <1>5 DEF IsAt

LEMMA LineFacts ==
    ASSUME TypeOK, NEW a \in Apps
    PROVE  /\ Line(a) \in Seq(Messages) /\ Len(Line(a)) \in Nat
           /\ DOMAIN Line(a) = 1..Len(Line(a)) /\ \A i \in DOMAIN Line(a) : Line(a)[i] \in Messages
<1>1. received[a] \in Seq(Messages) /\ channel[a] \in Seq(Messages)
  BY DEF TypeOK
<1>2. Line(a) \in Seq(Messages)
  BY <1>1, ConcatFacts DEF Line
<1>. QED  BY <1>2, SeqFacts

\* A receiver that takes from its channel leaves the line as it is.
LEMMA LineReceive ==
    ASSUME TypeOK, NEW a \in Apps, Receive(a)
    PROVE  \A b \in Apps : Line(b)' = Line(b)
<1>1. /\ channel[a] # <<>> /\ channel[a] \in Seq(Messages) /\ received[a] \in Seq(Messages)
      /\ channel' = [channel EXCEPT ![a] = Tail(@)]
      /\ received' = [received EXCEPT ![a] = Append(@, Head(channel[a]))]
  BY DEF Receive, TypeOK
<1>2. received'[a] \o channel'[a] = received[a] \o channel[a]
  <2>1. received'[a] = Append(received[a], Head(channel[a])) /\ channel'[a] = Tail(channel[a])
    BY <1>1 DEF TypeOK
  <2>. QED  BY <1>1, <2>1, ConcatShift
<1>3. \A b \in Apps \ {a} : received'[b] = received[b] /\ channel'[b] = channel[b]
  BY <1>1 DEF TypeOK
<1>. QED  BY <1>2, <1>3 DEF Line

\* A message that is passed on is the last of its line.
LEMMA LineAppend ==
    ASSUME TypeOK, NEW a \in Apps, NEW x \in Messages,
           channel' = [channel EXCEPT ![a] = Append(@, x)], received' = received
    PROVE  /\ \A b \in Apps \ {a} : Line(b)' = Line(b)
           /\ \A b \in Apps : \A i : \A m \in Messages :
                  IsAt(b, i, m)' <=> IsAt(b, i, m) \/ (b = a /\ i = Len(Line(a)) + 1 /\ m = x)
           /\ \A i \in DOMAIN Line(a) : i \in Nat /\ i < Len(Line(a)) + 1
           /\ \A b \in Apps : \A m \in Messages : Came(b, m)' <=> Came(b, m) \/ (b = a /\ m = x)
<1>1. received[a] \in Seq(Messages) /\ channel[a] \in Seq(Messages)
  BY DEF TypeOK
<1>2. Line(a)' = Append(Line(a), x)
  <2>1. channel'[a] = Append(channel[a], x) /\ received'[a] = received[a]
    BY DEF TypeOK
  <2>2. PICK q \in Seq(Messages), r \in Seq(Messages) : q = received[a] /\ r = channel[a]
    BY <1>1
  <2>3. q \o Append(r, x) = Append(q \o r, x)
    BY ConcatAppend
  <2>. QED  BY <2>1, <2>2, <2>3 DEF Line
<1>3. \A b \in Apps \ {a} : Line(b)' = Line(b)
  BY DEF Line, TypeOK
<1>4. /\ DOMAIN (Line(a)') = DOMAIN Line(a) \cup {Len(Line(a)) + 1}
      /\ \A i \in DOMAIN Line(a) : Line(a)'[i] = Line(a)[i] /\ i \in Nat /\ i < Len(Line(a)) + 1
      /\ Line(a)'[Len(Line(a)) + 1] = x
  BY <1>2, LineFacts, AppendFacts
<1>5. \A b \in Apps : \A i : \A m \in Messages :
          IsAt(b, i, m)' <=> IsAt(b, i, m) \/ (b = a /\ i = Len(Line(a)) + 1 /\ m = x)
  BY <1>3, <1>4 DEF IsAt
<1>6. \A b \in Apps : \A m : /\ Came(b, m)' <=> \E i : IsAt(b, i, m)'
                             /\ Came(b, m) <=> \E i : IsAt(b, i, m)
  BY DEF Came, IsAt
<1>. QED  BY <1>3, <1>4, <1>5, <1>6

\* A line that loses its channel keeps what was received, and what it loses was there.
LEMMA LineCut ==
    ASSUME TypeOK, NEW a \in Apps, channel'[a] = <<>>, received' = received
    PROVE  /\ \A i : \A m \in Messages : IsAt(a, i, m)' => IsAt(a, i, m) /\ i \in DOMAIN received[a]
           /\ \A i : \A m \in Messages : IsAt(a, i, m) =>
                  IsAt(a, i, m)' \/ m \in ToSet(channel[a])
           /\ \A m \in ToSet(channel[a]) : m \in Messages /\
                  \E i \in DOMAIN Line(a) : IsAt(a, i, m) /\ i \notin DOMAIN received[a]
           /\ \A i \in DOMAIN received[a] : i \in DOMAIN Line(a)
<1>1. /\ received[a] \in Seq(Messages) /\ channel[a] \in Seq(Messages)
      /\ Len(received[a]) \in Nat /\ Len(channel[a]) \in Nat
      /\ DOMAIN received[a] = 1..Len(received[a]) /\ DOMAIN channel[a] = 1..Len(channel[a])
  BY LineIs
<1>2. Line(a)' = received[a]
  BY <1>1 DEF Line
<1>3. /\ DOMAIN Line(a) = 1..(Len(received[a]) + Len(channel[a]))
      /\ \A i \in DOMAIN received[a] : i \in DOMAIN Line(a) /\ Line(a)[i] = received[a][i]
      /\ \A i \in DOMAIN channel[a] : /\ Len(received[a]) + i \in DOMAIN Line(a)
                                      /\ Line(a)[Len(received[a]) + i] = channel[a][i]
  BY LineIs DEF IsAt
<1>4. \A i : \A m \in Messages : IsAt(a, i, m)' => IsAt(a, i, m) /\ i \in DOMAIN received[a]
  BY <1>2, <1>3 DEF IsAt
<1>5. ASSUME NEW i, NEW m \in Messages, IsAt(a, i, m), ~IsAt(a, i, m)'
      PROVE  m \in ToSet(channel[a])
  <2>1. i \in DOMAIN Line(a) /\ Line(a)[i] = m
    BY <1>5 DEF IsAt
  <2>2. i \notin DOMAIN received[a]
    BY <1>2, <1>3, <1>5, <2>1 DEF IsAt
  <2>3. i - Len(received[a]) \in DOMAIN channel[a] /\ Len(received[a]) + (i - Len(received[a])) = i
    <3>1. i \in 1..(Len(received[a]) + Len(channel[a])) /\ i \notin 1..Len(received[a])
      BY <1>1, <1>3, <2>1, <2>2
    <3>2. PICK n \in Nat, k \in Nat : n = Len(received[a]) /\ k = Len(channel[a])
      BY <1>1
    <3>3. i \in 1..(n + k) /\ i \notin 1..n
      BY <3>1, <3>2
    <3>4. i - n \in 1..k /\ n + (i - n) = i
      BY <3>3
    <3>. QED  BY <1>1, <3>2, <3>4
  <2>. QED  BY <1>3, <2>1, <2>3 DEF ToSet
<1>6. ASSUME NEW m \in ToSet(channel[a])
      PROVE  m \in Messages /\ \E i \in DOMAIN Line(a) : IsAt(a, i, m) /\ i \notin DOMAIN received[a]
  <2>1. PICK j \in DOMAIN channel[a] : channel[a][j] = m
    BY <1>6 DEF ToSet
  <2>2. j \in 1..Len(channel[a])
    BY <1>1
  <2>3. Len(received[a]) + j \notin DOMAIN received[a]
    BY <1>1, <2>2
  <2>4. m \in Messages
    BY <1>1, <2>1, SeqFacts
  <2>. QED  BY <1>3, <2>1, <2>3, <2>4 DEF IsAt
<1>. QED  BY <1>3, <1>4, <1>5, <1>6
-----------------------------------------------------------------------------
(* Subscriptions and sends.                                                *)

\* A send takes away no subscription of an application that has its session alone.
LEMMA SubscriberStep == TypeOK /\ SubscriberInv /\ SendInv /\ Next => SubscriberInv'
<1>. SUFFICES ASSUME TypeOK, SubscriberInv, SendInv, Next PROVE SubscriberInv'
  OBVIOUS
<1>. USE BusAssumption
<1>1. ASSUME NEW m \in Messages, Deliver(m) PROVE SubscriberInv'
  <2>1. app' = app /\ via[m] \in Apps /\ Key[via[m]] = To[m] /\ app[via[m]] # "none"
    BY <1>1 DEF Deliver, SendInv, appVars
  <2>2. \A k \in Keys : subscriber'[k] # NoApp => subscriber'[k] = subscriber[k]
    BY <1>1 DEF Deliver, TypeOK
  <2>3. ASSUME NEW a \in Apps, IsAlive(a), IsAlone(a) PROVE subscriber'[Key[a]] = a
    <3>1. subscriber[Key[a]] = a /\ Key[a] \in Keys
      BY <2>3 DEF SubscriberInv
    <3>2. CASE Unsubscribes(m)
      <4>1. app[via[m]] = "gone"
        BY <3>2 DEF Unsubscribes, Closed
      <4>2. To[m] # Key[a]
        BY <2>1, <2>3, <4>1 DEF IsAlone, IsAlive
      <4>. QED  BY <1>1, <3>1, <4>2 DEF Deliver, TypeOK
    <3>3. CASE ~Unsubscribes(m)
      BY <1>1, <3>1, <3>3 DEF Deliver
    <3>. QED  BY <3>2, <3>3
  <2>. QED  BY <2>1, <2>2, <2>3 DEF SubscriberInv, IsAlive, IsAlone
<1>2. ASSUME NEW a \in Apps, Register(a) PROVE SubscriberInv'
  <2>1. /\ app[a] = "none" /\ app' = [app EXCEPT ![a] = "registered"]
        /\ subscriber' = [subscriber EXCEPT ![Key[a]] = a] /\ Key[a] \in Keys
    BY <1>2 DEF Register
  <2>2. \A b \in Apps \ {a} : app'[b] = app[b]
    BY <2>1 DEF TypeOK
  <2>3. app'[a] = "registered" /\ subscriber'[Key[a]] = a
    BY <2>1 DEF TypeOK
  <2>4. \A k \in Keys \ {Key[a]} : subscriber'[k] = subscriber[k]
    BY <2>1 DEF TypeOK
  <2>5. ASSUME NEW k \in Keys, subscriber'[k] # NoApp
        PROVE  Key[subscriber'[k]] = k /\ IsAlive(subscriber[k])'
    <3>1. CASE k = Key[a]
      BY <2>3, <3>1 DEF IsAlive
    <3>2. CASE k # Key[a]
      BY <2>1, <2>2, <2>4, <2>5, <3>2 DEF SubscriberInv, IsAlive, TypeOK
    <3>. QED  BY <3>1, <3>2
  <2>6. ASSUME NEW b \in Apps, IsAlive(b)', IsAlone(b)' PROVE subscriber'[Key[b]] = b
    <3>1. CASE b = a
      BY <2>3, <3>1
    <3>2. CASE b # a
      <4>1. Key[a] # Key[b]
        BY <2>3, <2>6, <3>2 DEF IsAlone
      <4>2. IsAlive(b) /\ IsAlone(b)
        BY <2>2, <2>6, <3>2, <4>1 DEF IsAlive, IsAlone
      <4>. QED  BY <2>4, <4>1, <4>2 DEF SubscriberInv
    <3>. QED  BY <3>1, <3>2
  <2>. QED  BY <2>5, <2>6 DEF SubscriberInv
<1>3. ASSUME NEW a \in Apps, Unsubscribe(a) PROVE SubscriberInv'
  <2>1. /\ app[a] = "live" /\ app' = [app EXCEPT ![a] = "closing"]
        /\ subscriber' = [subscriber EXCEPT ![Key[a]] = NoApp] /\ Key[a] \in Keys
    BY <1>3 DEF Unsubscribe
  <2>2. \A b \in Apps \ {a} : app'[b] = app[b]
    BY <2>1 DEF TypeOK
  <2>3. app'[a] = "closing" /\ subscriber'[Key[a]] = NoApp
    BY <2>1 DEF TypeOK
  <2>4. \A k \in Keys \ {Key[a]} : subscriber'[k] = subscriber[k] /\ subscriber[k] # a
    BY <2>1 DEF TypeOK, SubscriberInv
  <2>5. ASSUME NEW k \in Keys, subscriber'[k] # NoApp
        PROVE  Key[subscriber'[k]] = k /\ IsAlive(subscriber[k])'
    <3>1. subscriber'[k] = subscriber[k] /\ subscriber[k] \in Apps \ {a}
      BY <2>3, <2>4, <2>5 DEF TypeOK
    <3>2. Key[subscriber[k]] = k /\ IsAlive(subscriber[k])
      BY <2>5, <3>1 DEF SubscriberInv
    <3>. QED  BY <2>2, <3>1, <3>2 DEF IsAlive
  <2>6. ASSUME NEW b \in Apps, IsAlive(b)', IsAlone(b)' PROVE subscriber'[Key[b]] = b
    <3>1. b # a
      BY <2>3, <2>6 DEF IsAlive
    <3>2. Key[b] # Key[a]
      BY <2>3, <2>6, <3>1 DEF IsAlone
    <3>3. IsAlive(b) /\ IsAlone(b)
      BY <2>2, <2>6, <3>1, <3>2 DEF IsAlive, IsAlone
    <3>. QED  BY <2>4, <3>2, <3>3 DEF SubscriberInv
  <2>. QED  BY <2>5, <2>6 DEF SubscriberInv
<1>4. ASSUME NEW a \in Apps, ReadPending(a) \/ Drain(a) \/ DeleteBatch(a) \/ Receive(a) \/ Close(a)
      PROVE  SubscriberInv'
  <2>1. /\ subscriber' = subscriber
        /\ \A b \in Apps : (IsAlive(b)' <=> IsAlive(b)) /\ (app'[b] = "none" <=> app[b] = "none")
    BY <1>4 DEF ReadPending, Drain, DeleteBatch, Receive, Close, TypeOK, IsAlive, appVars
  <2>2. \A b \in Apps : IsAlone(b)' <=> IsAlone(b)
    BY <2>1 DEF IsAlone
  <2>. QED  BY <2>1, <2>2 DEF SubscriberInv, TypeOK
<1>5. CASE Restart
  BY <1>5 DEF Restart, SubscriberInv, IsAlive
<1>6. ASSUME NEW m \in Messages, Send(m) \/ Enqueue(m) PROVE SubscriberInv'
  BY <1>6 DEF Send, Enqueue, SubscriberInv, IsAlive, IsAlone, appVars
<1>. QED  BY <1>1, <1>2, <1>3, <1>4, <1>5, <1>6 DEF Next

\* What a step may do to a send: one that has arrived stays where it is.
LEMMA SendMoves ==
    ASSUME TypeOK, SendInv, Next
    PROVE  /\ \A m \in Messages : Arrived(m) => send'[m] = send[m]
           /\ \A m \in Messages : send[m] # "new" => send'[m] # "new" /\ before'[m] = before[m]
           /\ \A m \in Messages : send[m] = "new" /\ send'[m] # "new" =>
                  \A n \in Messages : n < m => send[n] # "new"
           /\ \A m \in Messages : before'[m] # before[m] => send[m] = "new" /\
                  before'[m] = {n \in Messages : Arrived(n)}
           /\ \A m \in Messages : send'[m] = "deliver" =>
                  \/ send[m] = "deliver" /\ via'[m] = via[m]
                  \/ send[m] = "new" /\ via'[m] = subscriber[To[m]] /\ via'[m] # NoApp
<1>1. ASSUME NEW m \in Messages, Send(m) \/ Deliver(m) \/ Enqueue(m)
      PROVE  \A n \in Messages \ {m} : send'[n] = send[n] /\ before'[n] = before[n] /\ via'[n] = via[n]
  BY <1>1 DEF TypeOK, Send, Deliver, Enqueue, sendVars
<1>2. ASSUME NEW m \in Messages, Send(m)
      PROVE  /\ send[m] = "new" /\ send'[m] \in {"store", "deliver"}
             /\ \A n \in Messages : n < m => send[n] # "new"
             /\ before'[m] = {n \in Messages : Arrived(n)}
             /\ send'[m] = "deliver" => via'[m] = subscriber[To[m]] /\ via'[m] # NoApp
  BY <1>2 DEF TypeOK, Send, Arrived
<1>3. ASSUME NEW m \in Messages, Deliver(m) \/ Enqueue(m)
      PROVE  /\ send[m] \in {"store", "deliver"} /\ send'[m] \in {"store", "delivered", "stored", "failed"}
             /\ before' = before /\ via' = via
  BY <1>3 DEF TypeOK, Deliver, Enqueue, sendVars
<1>4. CASE \E m \in Messages : Send(m)
  <2>1. PICK m \in Messages : Send(m)
    BY <1>4
  <2>. QED  BY <1>1, <1>2, <2>1 DEF Arrived
<1>5. CASE \E m \in Messages : Deliver(m) \/ Enqueue(m)
  <2>1. PICK m \in Messages : Deliver(m) \/ Enqueue(m)
    BY <1>5
  <2>. QED  BY <1>1, <1>3, <2>1 DEF Arrived
<1>6. CASE Restart
  BY <1>6 DEF Restart, Arrived, TypeOK
<1>7. CASE \E a \in Apps : \/ Register(a) \/ ReadPending(a) \/ Drain(a) \/ DeleteBatch(a)
                           \/ Receive(a) \/ Unsubscribe(a) \/ Close(a)
  BY <1>7 DEF Register, ReadPending, Drain, DeleteBatch, Receive, Unsubscribe, Close, sendVars
<1>. QED  BY <1>4, <1>5, <1>6, <1>7 DEF Next

LEMMA AppMoves == ASSUME TypeOK, Next PROVE \A a \in Apps : app[a] # "none" => app'[a] # "none"
<1>1. CASE Restart
  BY <1>1 DEF Restart, TypeOK
<1>2. CASE \E a \in Apps : \/ Register(a) \/ ReadPending(a) \/ Drain(a) \/ DeleteBatch(a)
                           \/ Receive(a) \/ Unsubscribe(a) \/ Close(a)
  BY <1>2 DEF Register, ReadPending, Drain, DeleteBatch, Receive, Unsubscribe, Close, TypeOK, appVars
<1>3. CASE \E m \in Messages : Send(m) \/ Deliver(m) \/ Enqueue(m)
  BY <1>3 DEF Send, Deliver, Enqueue, appVars
<1>. QED  BY <1>1, <1>2, <1>3 DEF Next

LEMMA SendStep == TypeOK /\ SubscriberInv /\ SendInv /\ Next => SendInv'
<1>. SUFFICES ASSUME TypeOK, SubscriberInv, SendInv, Next PROVE SendInv'
  OBVIOUS
<1>1. ASSUME NEW m \in Messages, send'[m] = "deliver"
      PROVE  via'[m] \in Apps /\ Key[via'[m]] = To[m] /\ app'[via'[m]] # "none"
  <2>1. CASE send[m] = "deliver" /\ via'[m] = via[m]
    BY <2>1, AppMoves DEF SendInv
  <2>2. CASE via'[m] = subscriber[To[m]] /\ via'[m] # NoApp
    <3>1. To[m] \in Keys
      BY BusAssumption
    <3>2. via'[m] \in Apps /\ Key[via'[m]] = To[m] /\ app[via'[m]] # "none"
      BY <2>2, <3>1 DEF TypeOK
    <3>. QED  BY <3>2, AppMoves
  <2>. QED  BY <1>1, <2>1, <2>2, SendMoves
<1>2. ASSUME NEW m \in Messages, NEW n \in Messages, n < m, send'[m] # "new" PROVE send'[n] # "new"
  BY <1>2, SendMoves DEF SendInv
<1>3. ASSUME NEW m \in Messages, NEW n \in before'[m] PROVE Arrived(n)' /\ n < m
  <2>1. CASE before'[m] = before[m]
    <3>1. n \in Messages /\ Arrived(n) /\ n < m
      BY <1>3, <2>1 DEF SendInv, TypeOK
    <3>. QED  BY <3>1, SendMoves DEF Arrived
  <2>2. CASE before'[m] # before[m]
    <3>1. send[m] = "new" /\ n \in Messages /\ Arrived(n)
      BY <1>3, <2>2, SendMoves
    <3>2. ~(m < n) /\ m # n
      BY <3>1 DEF SendInv, Arrived
    <3>3. m \in Nat /\ n \in Nat
      BY <3>1, BusAssumption
    <3>. QED  BY <3>1, <3>2, <3>3, SendMoves DEF Arrived
  <2>. QED  BY <2>1, <2>2
<1>. QED  BY <1>1, <1>2, <1>3 DEF SendInv
-----------------------------------------------------------------------------
(* What a step does to all lines: none changes, one grows, or some end.    *)

Passes(a, x) ==
    /\ channel' = [channel EXCEPT ![a] = Append(@, x)] /\ received' = received /\ lost' = lost
    /\ \/ Deliver(x) /\ via[x] = a /\ send[x] = "deliver" /\ send' = [send EXCEPT ![x] = "delivered"]
       \/ Drain(a) /\ ~Full(a) /\ x = pending[a][1]

Ends ==
    /\ \A a \in Apps : \A m \in Messages : \A i : IsAt(a, i, m)' => IsAt(a, i, m)
    /\ \A a \in Apps : \A m \in Messages : \A i : IsAt(a, i, m) => IsAt(a, i, m)' \/ m \in lost'
    /\ \A m \in lost' : m \in lost \/
           \E a \in Apps : \E i \in DOMAIN Line(a) : IsAt(a, i, m) /\ ~IsAt(a, i, m)'
    /\ lost \subseteq lost'

LEMMA EndsWhenClosed == ASSUME TypeOK, NEW a \in Apps, Close(a) PROVE Ends
<1>1. /\ received' = received /\ lost' = lost \cup ToSet(channel[a])
      /\ channel' = [channel EXCEPT ![a] = <<>>]
  BY DEF Close
<1>2. channel'[a] = <<>> /\ \A b \in Apps \ {a} : Line(b)' = Line(b)
  BY <1>1 DEF TypeOK, Line
<1>3. \A b \in Apps \ {a} : \A i, m : IsAt(b, i, m)' <=> IsAt(b, i, m)
  BY <1>2 DEF IsAt
<1>4. \A m \in ToSet(channel[a]) : \E i \in DOMAIN Line(a) : IsAt(a, i, m) /\ ~IsAt(a, i, m)'
  BY <1>1, <1>2, LineCut
<1>5. \A m \in Messages : \A i : /\ IsAt(a, i, m)' => IsAt(a, i, m)
                                 /\ IsAt(a, i, m) => IsAt(a, i, m)' \/ m \in ToSet(channel[a])
  BY <1>1, <1>2, LineCut
<1>. QED  BY <1>1, <1>3, <1>4, <1>5 DEF Ends

LEMMA EndsWhenRestarted == ASSUME TypeOK, Restart PROVE Ends
<1>1. /\ received' = received /\ lost' = lost \cup UNION {ToSet(channel[a]) : a \in Apps}
      /\ \A a \in Apps : channel'[a] = <<>>
  BY DEF Restart
<1>2. ASSUME NEW a \in Apps
      PROVE  /\ \A m \in ToSet(channel[a]) : \E i \in DOMAIN Line(a) : IsAt(a, i, m) /\ ~IsAt(a, i, m)'
             /\ \A m \in Messages : \A i :
                    /\ IsAt(a, i, m)' => IsAt(a, i, m)
                    /\ IsAt(a, i, m) => IsAt(a, i, m)' \/ m \in ToSet(channel[a])
  BY <1>1, LineCut
<1>. QED  BY <1>1, <1>2 DEF Ends

LEMMA LineMoves ==
    ASSUME TypeOK, SendInv, Next
    PROVE  \/ lost' = lost /\ \A a \in Apps : Line(a)' = Line(a)
           \/ \E a \in Apps : \E x \in Messages : Passes(a, x)
           \/ Ends
<1>1. ASSUME NEW m \in Messages, Deliver(m), channel' # channel PROVE \E a \in Apps : Passes(a, m)
  <2>1. /\ send[m] = "deliver" /\ send' = [send EXCEPT ![m] = "delivered"]
        /\ channel' = [channel EXCEPT ![via[m]] = Append(@, m)] /\ received' = received /\ lost' = lost
    BY <1>1 DEF Deliver
  <2>2. via[m] \in Apps
    BY <2>1 DEF SendInv
  <2>. QED  BY <1>1, <2>1, <2>2 DEF Passes
<1>2. ASSUME NEW a \in Apps, Drain(a), channel' # channel PROVE \E x \in Messages : Passes(a, x)
  <2>1. pending[a] \in Seq(Messages) /\ pending[a] # <<>>
    BY <1>2 DEF Drain, TypeOK
  <2>2. Head(pending[a]) \in Messages /\ Head(pending[a]) = pending[a][1]
    BY <2>1, SeqFacts
  <2>3. /\ channel' = [channel EXCEPT ![a] = Append(@, Head(pending[a]))]
        /\ received' = received /\ lost' = lost /\ ~Full(a)
    BY <1>2 DEF Drain
  <2>. QED  BY <1>2, <2>2, <2>3 DEF Passes
<1>3. CASE lost' = lost /\ channel' = channel /\ received' = received
  BY <1>3 DEF Line
<1>4. CASE \E m \in Messages : Send(m) \/ Deliver(m) \/ Enqueue(m)
  BY <1>1, <1>3, <1>4 DEF Send, Deliver, Enqueue
<1>5. CASE \E a \in Apps : Register(a) \/ ReadPending(a) \/ Drain(a) \/ DeleteBatch(a) \/ Unsubscribe(a)
  BY <1>2, <1>3, <1>5 DEF Register, ReadPending, Drain, DeleteBatch, Unsubscribe
<1>6. CASE \E a \in Apps : Receive(a)
  BY <1>6, LineReceive DEF Receive
<1>7. CASE Restart \/ \E a \in Apps : Close(a)
  BY <1>7, EndsWhenRestarted, EndsWhenClosed
<1>. QED  BY <1>4, <1>5, <1>6, <1>7 DEF Next

\* The same about messages: what has come to whom.
LEMMA CameMoves ==
    ASSUME TypeOK, SendInv, Next
    PROVE  \A a \in Apps : \A m \in Messages : Came(a, m)' => Came(a, m) \/ Passes(a, m)
<1>1. \A a \in Apps : \A m : /\ Came(a, m)' <=> \E i : IsAt(a, i, m)'
                             /\ Came(a, m) <=> \E i : IsAt(a, i, m)
  BY DEF Came, IsAt
<1>2. CASE \A a \in Apps : Line(a)' = Line(a)
  BY <1>2 DEF Came, IsAt
<1>3. CASE Ends
  BY <1>1, <1>3 DEF Ends
<1>4. ASSUME NEW a \in Apps, NEW x \in Messages, Passes(a, x)
      PROVE  \A b \in Apps : \A m \in Messages : Came(b, m)' => Came(b, m) \/ Passes(b, m)
  <2>1. \A b \in Apps : \A m \in Messages : Came(b, m)' <=> Came(b, m) \/ (b = a /\ m = x)
    BY <1>4, LineAppend DEF Passes
  <2>. QED  BY <1>4, <2>1
<1>. QED  BY <1>2, <1>3, <1>4, LineMoves

LEMMA CameStays ==
    ASSUME TypeOK, SendInv, Next
    PROVE  \A a \in Apps : \A m \in Messages : Came(a, m) => Came(a, m)' \/ m \in lost'
<1>1. \A a \in Apps : \A m : /\ Came(a, m)' <=> \E i : IsAt(a, i, m)'
                             /\ Came(a, m) <=> \E i : IsAt(a, i, m)
  BY DEF Came, IsAt
<1>2. CASE \A a \in Apps : Line(a)' = Line(a)
  BY <1>2 DEF Came, IsAt
<1>3. CASE Ends
  BY <1>1, <1>3 DEF Ends
<1>4. ASSUME NEW a \in Apps, NEW x \in Messages, Passes(a, x)
      PROVE  \A b \in Apps : \A m \in Messages : Came(b, m) => Came(b, m)'
  BY <1>4, LineAppend DEF Passes
<1>. QED  BY <1>2, <1>3, <1>4, LineMoves
-----------------------------------------------------------------------------
(* Where messages are.                                                     *)

LEMMA StoreMoves ==
    ASSUME TypeOK, Next
    PROVE  /\ \A m \in stored' : m \in stored \/
                  (m \in Messages /\ send[m] = "store" /\ send'[m] = "stored")
           /\ \A m \in stored \ stored' : \E a \in Apps :
                  DeleteBatch(a) /\ m \in passed[a] /\ To[m] = Key[a]
<1>1. CASE \E m \in Messages : Enqueue(m)
  BY <1>1 DEF Enqueue, Fails, TypeOK
<1>2. CASE \E a \in Apps : DeleteBatch(a)
  BY <1>2 DEF DeleteBatch, Deleted, Fails
<1>3. CASE stored' = stored
  BY <1>3
<1>4. (\E m \in Messages : Send(m) \/ Deliver(m)) \/ Restart => stored' = stored
  BY DEF Send, Deliver, Restart, storeVars
<1>5. (\E a \in Apps : Register(a) \/ ReadPending(a) \/ Drain(a) \/ Receive(a) \/ Unsubscribe(a) \/ Close(a))
        => stored' = stored
  BY DEF Register, ReadPending, Drain, Receive, Unsubscribe, Close, storeVars, Fails
<1>. QED  BY <1>1, <1>2, <1>3, <1>4, <1>5 DEF Next

LEMMA PlaceStep == TypeOK /\ SendInv /\ PlaceInv /\ DrainInv /\ Next => PlaceInv'
<1>. SUFFICES ASSUME TypeOK, SendInv, PlaceInv, DrainInv, Next PROVE PlaceInv'
  OBVIOUS
<1>1. ASSUME NEW m \in stored' PROVE send'[m] = "stored"
  BY <1>1, StoreMoves, SendMoves DEF PlaceInv, Arrived, TypeOK
<1>2. ASSUME NEW a \in Apps, NEW m \in Messages, Passes(a, m) PROVE Arrived(m)'
  <2>1. CASE send[m] = "deliver" /\ send' = [send EXCEPT ![m] = "delivered"]
    BY <2>1 DEF Arrived, TypeOK
  <2>2. CASE Drain(a) /\ m = pending[a][1]
    <3>1. pending[a] \in Seq(Messages) /\ pending[a] # <<>>
      BY <2>2 DEF Drain, TypeOK
    <3>2. 1 \in DOMAIN pending[a]
      BY <3>1
    <3>. QED  BY <2>2, <3>2, SendMoves DEF DrainInv, DrainOf, Arrived
  <2>. QED  BY <1>2, <2>1, <2>2 DEF Passes
<1>3. ASSUME NEW a \in Apps, NEW m \in Messages, Came(a, m)' PROVE Arrived(m)'
  BY <1>2, <1>3, CameMoves, SendMoves DEF PlaceInv, Arrived
<1>4. \A m \in lost' : m \in lost \/ \E a \in Apps : m \in Messages /\ Came(a, m)
  <2>1. CASE lost' = lost
    BY <2>1
  <2>2. CASE Ends
    BY <2>2, LineFacts DEF Ends, Came, IsAt
  <2>. QED  BY <2>1, <2>2, LineMoves DEF Passes
<1>5. \A m \in lost' : Arrived(m)'
  BY <1>4, SendMoves DEF PlaceInv, Arrived, TypeOK
<1>. QED  BY <1>1, <1>3, <1>5 DEF PlaceInv
-----------------------------------------------------------------------------
(* The drains.                                                             *)

LEMMA DrainUntouched ==
    ASSUME TypeOK, SendInv, Next, NEW a \in Apps, DrainOf(a),
           app'[a] = app[a], pending'[a] = pending[a], passed'[a] = passed[a],
           \/ channel'[a] = channel[a]
           \/ \E x \in Messages : channel'[a] = Append(channel[a], x)
    PROVE  DrainOf(a)'
<1>1. \A m \in Messages : send[m] = "stored" => send'[m] = "stored"
  BY SendMoves DEF Arrived
<1>2. pending[a] \in Seq(Messages) /\ passed[a] \subseteq Messages /\ channel[a] \in Seq(Messages)
  BY DEF TypeOK
<1>3. \A i \in DOMAIN channel[a] : i \in DOMAIN channel'[a] /\ channel'[a][i] = channel[a][i]
  BY <1>2, AppendFacts
<1>4. \A i \in DOMAIN pending[a] : pending[a][i] \in Messages
  BY <1>2, SeqFacts
<1>. QED  BY <1>1, <1>2, <1>3, <1>4 DEF DrainOf

LEMMA DrainNone ==
    ASSUME NEW a \in Apps, pending'[a] = <<>>, passed'[a] = {}
    PROVE  DrainOf(a)'
BY DEF DrainOf

LEMMA ReadPendingDrain ==
    ASSUME TypeOK, PlaceInv, NEW a \in Apps, DrainOf(a), ReadPending(a)
    PROVE  DrainOf(a)'
<1>1. app[a] = "registered" /\ pending[a] = <<>> /\ passed[a] = {} /\ passed' = passed /\ send' = send
  BY DEF ReadPending, DrainOf, sendVars
<1>2. CASE pending' = pending
  BY <1>1, <1>2, DrainNone
<1>3. CASE app' = [app EXCEPT ![a] = "draining"] /\
           \E q \in BoundedSeq(Messages, Cardinality(Messages)) :
               /\ Lists(q, {m \in stored : To[m] = Key[a] \/ <<Key[a], To[m]>> \in Within})
               /\ pending' = [pending EXCEPT ![a] = q]
  <2>1. PICK q \in BoundedSeq(Messages, Cardinality(Messages)) :
               /\ Lists(q, {m \in stored : To[m] = Key[a] \/ <<Key[a], To[m]>> \in Within})
               /\ pending' = [pending EXCEPT ![a] = q]
    BY <1>3
  <2>2. \A i \in DOMAIN q : q[i] \in stored
    BY <2>1 DEF Lists, ToSet
  <2>3. \A i, j \in DOMAIN q : i < j => Precedes(q[i], q[j])
    BY <2>1 DEF Lists
  <2>4. app'[a] = "draining" /\ pending'[a] = q
    BY <1>3, <2>1 DEF TypeOK
  <2>. QED  BY <1>1, <2>2, <2>3, <2>4 DEF DrainOf, PlaceInv
<1>. QED  BY <1>2, <1>3 DEF ReadPending

LEMMA DrainDrain ==
    ASSUME TypeOK, NEW a \in Apps, DrainOf(a), Drain(a)
    PROVE  DrainOf(a)'
<1>1. /\ app[a] = "draining" /\ app' = app /\ send' = send
      /\ pending[a] \in Seq(Messages) /\ pending[a] # <<>>
      /\ channel[a] \in Seq(Messages) /\ passed[a] \subseteq Messages
  BY DEF Drain, TypeOK, sendVars
<1>2. CASE Full(a)
  <2>1. pending'[a] = <<>> /\ passed'[a] = passed[a] /\ channel' = channel
    BY <1>2 DEF Drain, TypeOK, Break
  <2>. QED  BY <1>1, <2>1 DEF DrainOf
<1>3. CASE ~Full(a)
  <2>1. PICK x \in Messages : x = Head(pending[a]) /\ x = pending[a][1] /\ 1 \in DOMAIN pending[a]
    BY <1>1, SeqFacts
  <2>2. /\ pending'[a] = Tail(pending[a]) /\ passed'[a] = passed[a] \cup {x}
        /\ channel'[a] = Append(channel[a], x)
    BY <1>3, <2>1 DEF Drain, TypeOK
  <2>3. \A i \in DOMAIN Tail(pending[a]) : /\ i + 1 \in DOMAIN pending[a] /\ i \in Nat
                                           /\ Tail(pending[a])[i] = pending[a][i + 1]
    BY <1>1
  <2>4. /\ \A i \in DOMAIN channel[a] : i \in DOMAIN channel'[a] /\ channel'[a][i] = channel[a][i]
        /\ \E i \in DOMAIN channel'[a] : channel'[a][i] = x
    BY <1>1, <2>2, AppendFacts
  <2>5. \A i \in DOMAIN pending'[a] : send'[pending'[a][i]] = "stored"
    BY <1>1, <2>2, <2>3 DEF DrainOf
  <2>6. \A i, j \in DOMAIN pending'[a] : i < j => Precedes(pending'[a][i], pending'[a][j])
    BY <1>1, <2>2, <2>3 DEF DrainOf
  <2>7. \A m \in passed'[a] : send'[m] = "stored" /\ \E i \in DOMAIN channel'[a] : channel'[a][i] = m
    BY <1>1, <2>1, <2>2, <2>4 DEF DrainOf
  <2>. QED  BY <1>1, <2>5, <2>6, <2>7 DEF DrainOf
<1>. QED  BY <1>2, <1>3

LEMMA DrainStep == TypeOK /\ SendInv /\ PlaceInv /\ DrainInv /\ Next => DrainInv'
<1>. SUFFICES ASSUME TypeOK, SendInv, PlaceInv, DrainInv, Next, NEW b \in Apps PROVE DrainOf(b)'
  BY DEF DrainInv
<1>1. DrainOf(b) /\ (app[b] # "draining" => pending[b] = <<>> /\ passed[b] = {})
  BY DEF DrainInv, DrainOf
<1>2. CASE \E m \in Messages : Send(m) \/ Deliver(m) \/ Enqueue(m)
  <2>1. app' = app /\ pending' = pending /\ passed' = passed
    BY <1>2 DEF Send, Deliver, Enqueue, appVars
  <2>2. channel'[b] = channel[b] \/ \E x \in Messages : channel'[b] = Append(channel[b], x)
    <3>1. channel' = channel \/ \E m \in Messages : channel' = [channel EXCEPT ![via[m]] = Append(@, m)]
      BY <1>2 DEF Send, Deliver, Enqueue
    <3>2. channel \in [Apps -> Seq(Messages)]
      BY DEF TypeOK
    <3>. QED  BY <3>1, <3>2
  <2>. QED  BY <1>1, <2>1, <2>2, DrainUntouched
<1>3. ASSUME NEW a \in Apps, a # b, \/ Register(a) \/ ReadPending(a) \/ Drain(a) \/ DeleteBatch(a)
                                    \/ Receive(a) \/ Unsubscribe(a) \/ Close(a)
      PROVE  DrainOf(b)'
  <2>1. app'[b] = app[b] /\ pending'[b] = pending[b] /\ passed'[b] = passed[b] /\ channel'[b] = channel[b]
    BY <1>3 DEF TypeOK, Register, ReadPending, Drain, DeleteBatch, Receive, Unsubscribe, Close, appVars
  <2>. QED  BY <1>1, <2>1, DrainUntouched
<1>4. CASE ReadPending(b)
  BY <1>1, <1>4, ReadPendingDrain
<1>5. CASE Drain(b)
  BY <1>1, <1>5, DrainDrain
<1>6. CASE DeleteBatch(b)
  BY <1>6, DrainNone DEF DeleteBatch, TypeOK
<1>7. CASE Register(b) \/ Receive(b) \/ Unsubscribe(b) \/ Close(b)
  BY <1>1, <1>7, DrainNone DEF Register, Receive, Unsubscribe, Close, appVars
<1>8. CASE Restart
  BY <1>8, DrainNone DEF Restart
<1>. QED  BY <1>2, <1>3, <1>4, <1>5, <1>6, <1>7, <1>8 DEF Next
-----------------------------------------------------------------------------
(* The order of the messages of an application.                            *)

\* Before its drain an application is not passed anything from the store, and in its drain it
\* is passed what comes before all that is left.
LEMMA StoreOrderStep == TypeOK /\ SendInv /\ PlaceInv /\ DrainInv /\ StoreOrderInv /\ Next => StoreOrderInv'
<1>. SUFFICES ASSUME TypeOK, SendInv, PlaceInv, DrainInv, StoreOrderInv, Next,
                     NEW a \in Apps, NEW m \in Messages, Came(a, m)', send'[m] = "stored"
              PROVE  /\ app'[a] \notin {"none", "registered"}
                     /\ \A i \in DOMAIN pending'[a] : Precedes(m, pending'[a][i])
  BY DEF StoreOrderInv
<1>1. CASE Came(a, m)
  <2>1. Arrived(m) /\ send[m] = "stored"
    BY <1>1, SendMoves DEF PlaceInv, Arrived
  <2>2. app[a] \notin {"none", "registered"} /\ \A i \in DOMAIN pending[a] : Precedes(m, pending[a][i])
    BY <1>1, <2>1 DEF StoreOrderInv
  <2>3. app'[a] \notin {"none", "registered"}
    <3>1. CASE Restart
      BY <2>2, <3>1 DEF Restart, TypeOK
    <3>2. CASE \E b \in Apps : \/ Register(b) \/ ReadPending(b) \/ Drain(b) \/ DeleteBatch(b)
                               \/ Receive(b) \/ Unsubscribe(b) \/ Close(b)
      BY <2>2, <3>2 DEF Register, ReadPending, Drain, DeleteBatch, Receive, Unsubscribe, Close, TypeOK, appVars
    <3>3. CASE \E n \in Messages : Send(n) \/ Deliver(n) \/ Enqueue(n)
      BY <2>2, <3>3 DEF Send, Deliver, Enqueue, appVars
    <3>. QED  BY <3>1, <3>2, <3>3 DEF Next
  <2>4. \/ pending'[a] = pending[a] \/ pending'[a] = <<>>
        \/ pending[a] \in Seq(Messages) /\ pending[a] # <<>> /\ pending'[a] = Tail(pending[a])
    <3>1. CASE Restart
      BY <3>1 DEF Restart
    <3>2. CASE \E b \in Apps : \/ Register(b) \/ ReadPending(b) \/ Drain(b) \/ DeleteBatch(b)
                               \/ Receive(b) \/ Unsubscribe(b) \/ Close(b)
      <4>1. pending \in [Apps -> Seq(Messages)]
        BY DEF TypeOK
      <4>2. CASE \E b \in Apps : Drain(b)
        BY <4>1, <4>2 DEF Drain
      <4>3. CASE ReadPending(a)
        <5>1. app[a] = "registered"
          BY <4>3 DEF ReadPending
        <5>. QED  BY <2>2, <5>1
      <4>4. CASE \E b \in Apps \ {a} : ReadPending(b)
        BY <4>1, <4>4 DEF ReadPending
      <4>5. CASE \E b \in Apps : Register(b) \/ DeleteBatch(b) \/ Receive(b) \/ Unsubscribe(b) \/ Close(b)
        BY <4>5 DEF Register, DeleteBatch, Receive, Unsubscribe, Close, appVars
      <4>. QED  BY <3>2, <4>2, <4>3, <4>4, <4>5
    <3>3. CASE \E n \in Messages : Send(n) \/ Deliver(n) \/ Enqueue(n)
      BY <3>3 DEF Send, Deliver, Enqueue, appVars
    <3>. QED  BY <3>1, <3>2, <3>3 DEF Next
  <2>5. \A i \in DOMAIN pending'[a] : \E j \in DOMAIN pending[a] : pending'[a][i] = pending[a][j]
    <3>1. CASE pending'[a] = Tail(pending[a]) /\ pending[a] \in Seq(Messages) /\ pending[a] # <<>>
      <4>1. \A i \in DOMAIN Tail(pending[a]) : /\ i + 1 \in DOMAIN pending[a]
                                               /\ Tail(pending[a])[i] = pending[a][i + 1]
        BY <3>1
      <4>. QED  BY <3>1, <4>1
    <3>. QED  BY <2>4, <3>1
  <2>. QED  BY <2>2, <2>3, <2>5
<1>2. CASE ~Came(a, m) /\ Passes(a, m)
  <2>1. Drain(a) /\ ~Full(a) /\ m = pending[a][1]
    BY <1>2 DEF Passes, TypeOK
  <2>2. /\ app[a] = "draining" /\ app' = app /\ pending[a] \in Seq(Messages) /\ pending[a] # <<>>
        /\ pending'[a] = Tail(pending[a])
    BY <2>1 DEF Drain, TypeOK
  <2>3. \A i \in DOMAIN Tail(pending[a]) : /\ i + 1 \in DOMAIN pending[a] /\ 1 \in DOMAIN pending[a] /\ 1 < i + 1
                                           /\ Tail(pending[a])[i] = pending[a][i + 1]
    BY <2>2
  <2>. QED  BY <2>1, <2>2, <2>3 DEF DrainInv, DrainOf
<1>. QED  BY <1>1, <1>2, CameMoves

\* What is passed on last was not there when what is before it was sent, unless it is drained.
LEMMA OrderStep ==
    TypeOK /\ SendInv /\ PlaceInv /\ DrainInv /\ StoreOrderInv /\ OrderInv /\ Next => OrderInv'
<1>. SUFFICES ASSUME TypeOK, SendInv, PlaceInv, DrainInv, StoreOrderInv, OrderInv, Next,
                     NEW a \in Apps, NEW i \in DOMAIN (Line(a)'), NEW j \in DOMAIN (Line(a)'),
                     NEW first \in Messages, NEW second \in Messages,
                     IsAt(a, i, first)', IsAt(a, j, second)', i < j, second \in before'[first]
              PROVE  Overtakes(first, second)'
  BY DEF OrderInv
<1>1. CASE IsAt(a, i, first) /\ IsAt(a, j, second)
  <2>1. /\ i \in DOMAIN Line(a) /\ j \in DOMAIN Line(a) /\ Came(a, first) /\ Came(a, second)
    BY <1>1 DEF IsAt, Came
  <2>2. Arrived(first) /\ Arrived(second) /\ before'[first] = before[first]
    BY <2>1, SendMoves DEF PlaceInv, Arrived
  <2>. QED  BY <1>1, <2>1, <2>2, SendMoves DEF OrderInv, Overtakes, Arrived
<1>2. ASSUME NEW x \in Messages, Passes(a, x), ~(IsAt(a, i, first) /\ IsAt(a, j, second))
      PROVE  Overtakes(first, second)'
  <2>1. /\ IsAt(a, i, first) \/ (i = Len(Line(a)) + 1 /\ first = x)
        /\ IsAt(a, j, second) \/ (j = Len(Line(a)) + 1 /\ second = x)
        /\ \A l \in DOMAIN Line(a) : l \in Nat /\ l < Len(Line(a)) + 1
    <3>1. channel' = [channel EXCEPT ![a] = Append(@, x)] /\ received' = received
      BY <1>2 DEF Passes
    <3>2. /\ \A b \in Apps : \A l : \A m \in Messages :
                 IsAt(b, l, m)' <=> IsAt(b, l, m) \/ (b = a /\ l = Len(Line(a)) + 1 /\ m = x)
          /\ \A l \in DOMAIN Line(a) : l \in Nat /\ l < Len(Line(a)) + 1
      BY <3>1, LineAppend
    <3>. QED  BY <3>2
  <2>2. IsAt(a, i, first) /\ second = x
    BY <1>2, <2>1, LineFacts DEF IsAt
  <2>3. Came(a, first) /\ Arrived(first) /\ before'[first] = before[first]
    BY <2>2, SendMoves DEF Came, IsAt, PlaceInv, Arrived
  <2>4. Arrived(second)
    BY <2>3 DEF SendInv
  <2>5. Drain(a) /\ second = pending[a][1]
    BY <1>2, <2>2, <2>4 DEF Passes, Arrived
  <2>6. pending[a] \in Seq(Messages) /\ pending[a] # <<>>
    BY <2>5 DEF Drain, TypeOK
  <2>7. 1 \in DOMAIN pending[a]
    BY <2>6
  <2>8. send[second] = "stored"
    BY <2>5, <2>7 DEF DrainInv, DrainOf
  <2>9. send[first] = "stored" => CreatedAt[second] >= CreatedAt[first]
    <3>1. ASSUME send[first] = "stored" PROVE Precedes(first, second)
      BY <2>3, <2>5, <2>7, <3>1 DEF StoreOrderInv
    <3>2. CreatedAt[first] \in Nat /\ CreatedAt[second] \in Nat
      BY BusAssumption
    <3>. QED  BY <3>1, <3>2 DEF Precedes
  <2>. QED  BY <2>3, <2>8, <2>9, SendMoves DEF Arrived, Overtakes
<1>3. CASE \A b \in Apps : Line(b)' = Line(b)
  BY <1>1, <1>3 DEF IsAt
<1>4. CASE Ends
  BY <1>1, <1>4 DEF Ends
<1>5. ASSUME NEW b \in Apps, NEW x \in Messages, Passes(b, x), b # a
      PROVE  IsAt(a, i, first) /\ IsAt(a, j, second)
  <2>1. channel' = [channel EXCEPT ![b] = Append(@, x)] /\ received' = received
    BY <1>5 DEF Passes
  <2>2. \A l : \A m \in Messages : IsAt(a, l, m)' <=> IsAt(a, l, m)
    BY <1>5, <2>1, LineAppend
  <2>. QED  BY <2>2
<1>. QED  BY <1>1, <1>2, <1>3, <1>4, <1>5, LineMoves
-----------------------------------------------------------------------------
(* What has arrived is kept, and kept once.                                *)

LEMMA CameIs == \A a \in Apps : \A m : /\ Came(a, m)' <=> \E i : IsAt(a, i, m)'
                                       /\ Came(a, m) <=> \E i : IsAt(a, i, m)
BY DEF Came, IsAt

LEMMA PassedCame ==
    ASSUME TypeOK, DrainInv, NEW a \in Apps, NEW m \in passed[a]
    PROVE  m \in Messages /\ Came(a, m)
<1>1. received[a] \in Seq(Messages) /\ channel[a] \in Seq(Messages) /\ m \in Messages
  BY DEF TypeOK
<1>2. PICK i \in DOMAIN channel[a] : channel[a][i] = m
  BY DEF DrainInv, DrainOf
<1>. QED  BY <1>1, <1>2, LineIs DEF Came, IsAt

LEMMA ArriveMoves ==
    ASSUME TypeOK, SendInv, Next, NEW m \in Messages, ~Arrived(m), Arrived(m)'
    PROVE  \/ m \in stored'
           \/ \E a \in Apps : Passes(a, m) /\ Deliver(m)
<1>1. CASE \E n \in Messages : Enqueue(n)
  BY <1>1 DEF Enqueue, Arrived, TypeOK
<1>2. CASE \E n \in Messages : Deliver(n)
  <2>1. Deliver(m) /\ send'[m] = "delivered"
    BY <1>2, ZenonT(40) DEF Deliver, Arrived, TypeOK
  <2>2. /\ send[m] = "deliver" /\ send' = [send EXCEPT ![m] = "delivered"]
        /\ channel' = [channel EXCEPT ![via[m]] = Append(@, m)] /\ received' = received /\ lost' = lost
    BY <2>1 DEF Deliver, TypeOK
  <2>3. via[m] \in Apps
    BY <2>2 DEF SendInv
  <2>. QED  BY <2>1, <2>2, <2>3 DEF Passes
<1>3. CASE \E n \in Messages : Send(n)
  BY <1>3 DEF Send, Arrived, TypeOK
<1>4. CASE Restart
  BY <1>4 DEF Restart, Arrived, TypeOK
<1>5. CASE \E a \in Apps : \/ Register(a) \/ ReadPending(a) \/ Drain(a) \/ DeleteBatch(a)
                           \/ Receive(a) \/ Unsubscribe(a) \/ Close(a)
  BY <1>5 DEF Register, ReadPending, Drain, DeleteBatch, Receive, Unsubscribe, Close, sendVars, Arrived
<1>. QED  BY <1>1, <1>2, <1>3, <1>4, <1>5 DEF Next

LEMMA KeptStep == TypeOK /\ SendInv /\ DrainInv /\ KeptInv /\ Next => KeptInv'
<1>. SUFFICES ASSUME TypeOK, SendInv, DrainInv, KeptInv, Next, NEW m \in Messages, Arrived(m)'
              PROVE  m \in stored' \cup lost' \/ CameToAny(m)'
  BY DEF KeptInv
<1>1. ASSUME NEW a \in Apps, Came(a, m) PROVE m \in lost' \/ CameToAny(m)'
  BY <1>1, CameStays DEF CameToAny
<1>2. CASE m \in stored
  BY <1>1, <1>2, StoreMoves, PassedCame
<1>3. CASE m \in lost
  BY <1>3, LineMoves DEF Passes, Ends
<1>4. CASE Arrived(m)
  BY <1>1, <1>2, <1>3, <1>4 DEF KeptInv, CameToAny
<1>5. ASSUME NEW a \in Apps, Passes(a, m) PROVE CameToAny(m)'
  BY <1>5, LineAppend DEF Passes, CameToAny
<1>. QED  BY <1>4, <1>5, ArriveMoves

LEMMA DoubtMoves ==
    ASSUME TypeOK, Next
    PROVE  /\ doubtful \subseteq doubtful'
           /\ \A a \in Apps : \A m \in passed[a] \ doubtful' :
                  \/ app[a] = "draining" => app'[a] = "draining" /\ m \in passed'[a]
                  \/ DeleteBatch(a) /\ stored' = stored \ Deleted(a)
           /\ \A a \in Apps : \A m \in passed'[a] : m \in passed[a] \/ (Drain(a) /\ ~Full(a) /\ m = pending[a][1])
<1>1. CASE \E m \in Messages : Send(m) \/ Deliver(m) \/ Enqueue(m)
  BY <1>1 DEF Send, Deliver, Enqueue, appVars
<1>2. CASE Restart
  BY <1>2 DEF Restart
<1>3. ASSUME NEW a \in Apps, Drain(a)
      PROVE  /\ doubtful \subseteq doubtful' /\ app' = app
             /\ passed[a] \subseteq passed'[a] /\ \A b \in Apps \ {a} : passed'[b] = passed[b]
             /\ \A m \in passed'[a] : m \in passed[a] \/ (~Full(a) /\ m = pending[a][1])
  <2>1. pending[a] \in Seq(Messages) /\ pending[a] # <<>>
    BY <1>3 DEF Drain, TypeOK
  <2>2. Head(pending[a]) = pending[a][1]
    BY <2>1
  <2>. QED  BY <1>3, <2>2 DEF Drain, Break, TypeOK
<1>4. CASE \E a \in Apps : Drain(a)
  BY <1>3, <1>4
<1>5. CASE \E a \in Apps : DeleteBatch(a)
  BY <1>5, ZenonT(40) DEF DeleteBatch, TypeOK
<1>6. CASE \E a \in Apps : Register(a) \/ ReadPending(a) \/ Receive(a) \/ Unsubscribe(a) \/ Close(a)
  BY <1>6 DEF Register, ReadPending, Receive, Unsubscribe, Close, appVars, TypeOK
<1>. QED  BY <1>1, <1>2, <1>4, <1>5, <1>6 DEF Next

\* A drain that makes a message doubtful in no way finds it nowhere else.
LEMMA DrainedOnce ==
    ASSUME TypeOK, DrainInv, StoreOrderInv, PlaceInv, OnceInv, NEW a \in Apps, Drain(a), ~Full(a),
           NEW m \in Messages \ doubtful', m = pending[a][1]
    PROVE  /\ To[m] = Key[a] /\ m \notin lost /\ ~CameToAny(m)
           /\ app'[a] = "draining" /\ m \in passed'[a]
<1>1. pending[a] \in Seq(Messages) /\ pending[a] # <<>> /\ app[a] = "draining" /\ app' = app
  BY DEF Drain, TypeOK
<1>2. m = Head(pending[a]) /\ 1 \in DOMAIN pending[a]
  BY <1>1
<1>3. /\ passed' = [passed EXCEPT ![a] = @ \cup {m}]
      /\ doubtful' = IF ReadTwice(a, m) \/ To[m] # Key[a] THEN doubtful \cup {m} ELSE doubtful
  BY <1>2 DEF Drain
<1>4. ~ReadTwice(a, m) /\ To[m] = Key[a] /\ m \notin doubtful
  BY <1>3
<1>5. m \in stored /\ \A b \in Apps \ {a} : m \notin passed[b]
  BY <1>4 DEF ReadTwice
<1>6. m \notin passed[a]
  <2>1. SUFFICES ASSUME m \in passed[a] PROVE FALSE
    OBVIOUS
  <2>2. Came(a, m) /\ send[m] = "stored"
    BY <2>1, PassedCame DEF DrainInv, DrainOf
  <2>3. Precedes(m, m)
    BY <1>2, <2>2 DEF StoreOrderInv
  <2>4. CreatedAt[m] \in Nat /\ Id[m] \in Nat
    BY BusAssumption
  <2>. QED  BY <2>3, <2>4 DEF Precedes
<1>7. ~(CameToAny(m) \/ m \in lost)
  BY <1>4, <1>5, <1>6 DEF OnceInv, OnceOf
<1>. QED  BY <1>1, <1>3, <1>4, <1>7 DEF TypeOK

LEMMA OnceStep ==
    TypeOK /\ SendInv /\ PlaceInv /\ DrainInv /\ StoreOrderInv /\ OnceInv /\ Next => OnceInv'
<1>. SUFFICES ASSUME TypeOK, SendInv, PlaceInv, DrainInv, StoreOrderInv, OnceInv, Next,
                     NEW m \in Messages \ doubtful'
              PROVE  OnceOf(m)'
  BY DEF OnceInv
<1>1. m \in Messages /\ m \notin doubtful /\ OnceOf(m)
  BY DoubtMoves DEF OnceInv
\* Whoever is passed it has it first.
<1>2. ASSUME NEW a \in Apps, Passes(a, m)
      PROVE  /\ ~CameToAny(m) /\ m \notin lost'
             /\ m \in stored' => app'[a] = "draining" /\ m \in passed'[a]
  <2>1. CASE Deliver(m) /\ send[m] = "deliver"
    <3>1. ~Arrived(m) /\ m \notin stored /\ stored' = stored
      BY <2>1 DEF Arrived, PlaceInv, Deliver, storeVars
    <3>. QED  BY <1>2, <3>1 DEF PlaceInv, CameToAny, Passes
  <2>2. CASE Drain(a) /\ ~Full(a) /\ m = pending[a][1]
    BY <1>2, <2>2, DrainedOnce DEF Passes
  <2>. QED  BY <1>2, <2>1, <2>2 DEF Passes
<1>3. \A a, b \in Apps : \A i \in DOMAIN (Line(a)') : \A j \in DOMAIN (Line(b)') :
          IsAt(a, i, m)' /\ IsAt(b, j, m)' => a = b /\ i = j
  <2>1. ASSUME NEW a \in Apps, NEW b \in Apps, NEW i, NEW j, IsAt(a, i, m)', IsAt(b, j, m)',
               IsAt(a, i, m), IsAt(b, j, m)
        PROVE  a = b /\ i = j
    <3>1. i \in DOMAIN Line(a) /\ j \in DOMAIN Line(b)
      BY <2>1 DEF IsAt
    <3>. QED  BY <1>1, <2>1, <3>1 DEF OnceOf
  <2>2. CASE \A a \in Apps : Line(a)' = Line(a)
    BY <2>1, <2>2 DEF IsAt
  <2>3. CASE Ends
    BY <1>1, <2>1, <2>3 DEF Ends
  <2>4. ASSUME NEW c \in Apps, NEW x \in Messages, Passes(c, x)
        PROVE  \A a, b \in Apps : \A i, j : IsAt(a, i, m)' /\ IsAt(b, j, m)' => a = b /\ i = j
    <3>1. \A b \in Apps : \A i : IsAt(b, i, m)' <=> IsAt(b, i, m) \/ (b = c /\ i = Len(Line(c)) + 1 /\ m = x)
      BY <2>4, LineAppend DEF Passes
    <3>2. CASE m = x
      <4>1. \A b \in Apps : \A i : ~IsAt(b, i, m)
        BY <1>2, <2>4, <3>2, CameIs DEF CameToAny
      <4>. QED  BY <3>1, <4>1
    <3>3. CASE m # x
      BY <2>1, <3>1, <3>3
    <3>. QED  BY <3>2, <3>3
  <2>. QED  BY <2>2, <2>3, <2>4, LineMoves
<1>4. ASSUME m \in lost' PROVE ~CameToAny(m)'
  <2>1. CASE m \in lost
    <3>1. ~CameToAny(m)
      BY <1>1, <2>1 DEF OnceOf
    <3>. QED  BY <1>1, <1>2, <1>4, <3>1, CameMoves DEF CameToAny
  <2>2. CASE m \notin lost
    <3>1. Ends
      BY <1>4, <2>2, LineMoves DEF Passes
    <3>2. PICK a \in Apps : \E i \in DOMAIN Line(a) : IsAt(a, i, m) /\ ~IsAt(a, i, m)'
      BY <1>4, <2>2, <3>1 DEF Ends
    <3>3. PICK i \in DOMAIN Line(a) : IsAt(a, i, m) /\ ~IsAt(a, i, m)'
      BY <3>2
    <3>4. ASSUME NEW b \in Apps, NEW j, IsAt(b, j, m)' PROVE FALSE
      <4>1. IsAt(b, j, m) /\ j \in DOMAIN Line(b)
        BY <1>1, <3>1, <3>4 DEF Ends, IsAt
      <4>2. a = b /\ i = j
        BY <1>1, <3>3, <4>1 DEF OnceOf
      <4>. QED  BY <3>3, <3>4, <4>2
    <3>. QED  BY <3>4, CameIs DEF CameToAny
  <2>. QED  BY <2>1, <2>2
<1>5. ASSUME m \in stored', CameToAny(m)' \/ m \in lost'
      PROVE  \E a \in Apps : app'[a] = "draining" /\ m \in passed'[a]
  <2>1. CASE \E a \in Apps : Passes(a, m)
    BY <1>2, <1>5, <2>1
  <2>2. CASE CameToAny(m) \/ m \in lost
    <3>1. Arrived(m)
      BY <1>1, <2>2 DEF CameToAny, PlaceInv
    <3>2. m \in stored
      BY <1>5, <3>1, StoreMoves DEF Arrived
    <3>3. PICK a \in Apps : app[a] = "draining" /\ m \in passed[a]
      BY <1>1, <2>2, <3>2 DEF OnceOf
    <3>4. CASE DeleteBatch(a) /\ stored' = stored \ Deleted(a)
      BY <1>1, <1>5, <3>3, <3>4 DEF Deleted, OnceOf
    <3>. QED  BY <3>3, <3>4, DoubtMoves
  <2>3. \/ \E a \in Apps : Passes(a, m)
        \/ CameToAny(m) \/ m \in lost
    <3>1. CASE CameToAny(m)'
      BY <1>1, <3>1, CameMoves DEF CameToAny
    <3>2. CASE m \in lost' /\ m \notin lost
      <4>1. Ends
        BY <3>2, LineMoves DEF Passes
      <4>. QED  BY <3>2, <4>1, CameIs DEF Ends, CameToAny
    <3>. QED  BY <1>5, <3>1, <3>2
  <2>. QED  BY <2>1, <2>2, <2>3
<1>6. ASSUME NEW a \in Apps, m \in passed'[a] PROVE To[m] = Key[a]
  BY <1>1, <1>6, DoubtMoves, DrainedOnce DEF OnceOf
<1>. QED  BY <1>3, <1>4, <1>5, <1>6 DEF OnceOf
-----------------------------------------------------------------------------
(* The invariant.                                                          *)

LEMMA InitIInv == Init => IInv
<1>. SUFFICES ASSUME Init PROVE IInv
  OBVIOUS
<1>1. TypeOK
  BY InitTypes
<1>2. \A a \in Apps : Line(a) = <<>> /\ pending[a] = <<>> /\ passed[a] = {} /\ app[a] = "none"
  BY DEF Init, Line
<1>3. \A a \in Apps : \A i, m : ~IsAt(a, i, m)
  BY <1>2 DEF IsAt
<1>4. \A a \in Apps : \A m : ~Came(a, m)
  BY <1>3 DEF Came
<1>5. SubscriberInv /\ SendInv
  BY DEF Init, SubscriberInv, SendInv, IsAlive
<1>6. PlaceInv /\ DrainInv /\ StoreOrderInv /\ KeptInv
  BY <1>2, <1>4 DEF Init, PlaceInv, DrainInv, DrainOf, StoreOrderInv, KeptInv, Arrived
<1>7. OrderInv /\ OnceInv
  BY <1>2, <1>3, <1>4 DEF Init, OrderInv, OnceInv, OnceOf, CameToAny
<1>. QED  BY <1>1, <1>5, <1>6, <1>7 DEF IInv

LEMMA StepIInv == IInv /\ [Next]_vars => IInv'
<1>1. CASE UNCHANGED vars
  <2>. USE <1>1 DEF vars, storeVars, appVars, sendVars
  <2>1. /\ \A a \in Apps : Line(a)' = Line(a) /\ (IsAlive(a)' <=> IsAlive(a)) /\ (IsAlone(a)' <=> IsAlone(a))
        /\ \A m : Arrived(m)' <=> Arrived(m)
    BY DEF Line, IsAlive, IsAlone, Arrived
  <2>2. \A a \in Apps : \A m : /\ (Came(a, m)' <=> Came(a, m))
                               /\ \A i : IsAt(a, i, m)' <=> IsAt(a, i, m)
    BY <2>1 DEF IsAt, Came
  <2>3. \A m : CameToAny(m)' <=> CameToAny(m)
    BY <2>2 DEF CameToAny
  <2>4. IInv => TypeOK' /\ SubscriberInv'
    BY <2>1 DEF IInv, TypeOK, SubscriberInv, IsAlive
  <2>5. IInv => SendInv' /\ PlaceInv'
    BY <2>1, <2>2 DEF IInv, SendInv, PlaceInv, Arrived
  <2>6. IInv => DrainInv' /\ StoreOrderInv'
    BY <2>2 DEF IInv, DrainInv, DrainOf, StoreOrderInv
  <2>7. IInv => OrderInv' /\ KeptInv'
    BY <2>1, <2>2, <2>3 DEF IInv, OrderInv, Overtakes, KeptInv
  <2>8. \A m \in Messages : OnceOf(m) => OnceOf(m)'
    BY <2>1, <2>2, <2>3 DEF OnceOf
  <2>9. IInv => OnceInv'
    BY <2>8 DEF IInv, OnceInv
  <2>. QED  BY <2>4, <2>5, <2>6, <2>7, <2>9 DEF IInv
<1>2. CASE Next
  BY <1>2, TypeStep, SubscriberStep, SendStep, PlaceStep, DrainStep, StoreOrderStep, OrderStep,
     KeptStep, OnceStep DEF IInv
<1>. QED  BY <1>1, <1>2

\* The invariant of all the properties.
THEOREM Inductive == Spec => []IInv
BY InitIInv, StepIInv, PTL DEF Spec

\* The types hold, and an application whose session no other one has had is subscribed for
\* as long as it lives, whichever senders find which channels closed.
THEOREM SubscribersHold == Spec => []Inv
<1>1. IInv => Inv
  BY DEF IInv, Inv, HeardUnlessShared, SubscriberInv, IsAlive, IsAlone
<1>. QED  BY <1>1, Inductive, PTL

LEMMA PlacesAre ==
    ASSUME NEW m
    PROVE  /\ \A p \in Places(m) : \E a \in Apps : \E i \in DOMAIN Line(a) : p = <<a, i>> /\ IsAt(a, i, m)
           /\ Places(m) # {} <=> CameToAny(m)
<1>1. Places(m) = UNION {{<<a, i>> : i \in {j \in DOMAIN Line(a) : Line(a)[j] = m}} : a \in Apps}
  BY DEF Places
<1>2. \A p \in Places(m) : \E a \in Apps : \E i \in DOMAIN Line(a) : p = <<a, i>> /\ IsAt(a, i, m)
  BY <1>1 DEF IsAt
<1>3. ASSUME NEW a \in Apps, NEW i \in DOMAIN Line(a), IsAt(a, i, m) PROVE <<a, i>> \in Places(m)
  BY <1>1, <1>3 DEF IsAt
<1>. QED  BY <1>2, <1>3 DEF CameToAny, Came

\* A message whose send has succeeded is in the store, in a channel, received, or was in the
\* channel of an application that ended: no full channel, drain or error of the store loses it.
THEOREM NothingGetsLost == Spec => []NothingIsLost
<1>1. IInv => NothingIsLost
  BY PlacesAre DEF IInv, KeptInv, NothingIsLost, Arrived
<1>. QED  BY <1>1, Inductive, PTL

\* A message overtakes one that had arrived before it was sent only if the other one went
\* through the store, and it went into the channel directly or was not created later.
THEOREM OnlyTheStoreIsOvertaken == Spec => []OvertakesOnlyTheStore
<1>1. ASSUME IInv PROVE OvertakesOnlyTheStore
  <2>1. SUFFICES ASSUME NEW a \in Apps, NEW i \in DOMAIN received[a], NEW j \in DOMAIN received[a],
                        i < j, received[a][j] \in before[received[a][i]]
                 PROVE  Overtakes(received[a][i], received[a][j])
    BY DEF OvertakesOnlyTheStore, Overtakes
  <2>2. received[a] \in Seq(Messages) /\ channel[a] \in Seq(Messages)
    BY <1>1 DEF IInv, TypeOK
  <2>3. /\ received[a][i] \in Messages /\ received[a][j] \in Messages
        /\ IsAt(a, i, received[a][i]) /\ IsAt(a, j, received[a][j])
    BY <1>1, <2>2, SeqFacts, LineIs DEF IInv
  <2>4. i \in DOMAIN Line(a) /\ j \in DOMAIN Line(a)
    BY <2>3 DEF IsAt
  <2>. QED  BY <1>1, <2>1, <2>3, <2>4 DEF IInv, OrderInv
<1>. QED  BY <1>1, Inductive, PTL

\* A message arrives once, unless its drain was cut short before it was deleted, two drains
\* of its session had it, or it was drained for a session whose key its own begins with.
THEOREM MessagesArriveOnce == Spec => []ArrivesOnce
<1>1. ASSUME IInv, NEW m \in Messages \ doubtful
      PROVE  /\ Cardinality(Places(m)) + (IF m \in lost THEN 1 ELSE 0) <= 1
             /\ m \in stored /\ (Places(m) # {} \/ m \in lost) =>
                  \E a \in Apps : app[a] = "draining" /\ m \in passed[a]
  <2>1. OnceOf(m)
    BY <1>1 DEF IInv, OnceInv
  <2>2. CASE Places(m) = {}
    BY <2>1, <2>2, FS_EmptySet DEF OnceOf
  <2>3. CASE Places(m) # {}
    <3>1. PICK p : p \in Places(m)
      BY <2>3
    <3>2. \A q \in Places(m) : q = p
      BY <2>1, <3>1, PlacesAre DEF OnceOf
    <3>3. Places(m) = {p}
      BY <3>1, <3>2
    <3>4. Cardinality(Places(m)) = 1
      BY <3>3, FS_Singleton
    <3>5. m \notin lost
      BY <2>1, <2>3, PlacesAre DEF OnceOf
    <3>. QED  BY <2>1, <2>3, <3>4, <3>5, PlacesAre DEF OnceOf
  <2>. QED  BY <2>2, <2>3
<1>2. IInv => ArrivesOnce
  BY <1>1 DEF ArrivesOnce
<1>. QED  BY <1>2, Inductive, PTL
=============================================================================
