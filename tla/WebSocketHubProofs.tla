------------------------- MODULE WebSocketHubProofs -------------------------
(***************************************************************************)
(* Proofs about WebSocketHub for any number of connections, kinds and      *)
(* namespaces and any capacity of the buffers.                             *)
(***************************************************************************)
EXTENDS WebSocketHub, SequenceTheorems, FiniteSetTheorems, TLAPS

-----------------------------------------------------------------------------
(* The inductive invariant *)

\* The hub has taken the connection from its register channel.
Registered(c) == reader[c] \notin {"off", "upgraded"}

\* h.clients holds the registered connections whose channel is open.
ConnectedIsOpen ==
    \A c \in Client : /\ c \in clients <=> Registered(c) /\ ~closed[c]
                      /\ closed[c] => Registered(c)
                      /\ behind[c] => Registered(c)

Counted == IsFiniteSet(clients) /\ clientCount = Cardinality(clients)

\* Wherever a subscription is, its connection has been registered: a target the
\* hub finds open is still on the map.
SubscribersRegistered ==
    /\ \A s \in subs \union todo : Registered(s.client)
    /\ \A n \in 1 .. Len(addSub) : Registered(addSub[n].client)

AskingIsOwn ==
    \A c \in Client : reader[c] = "subscribing" =>
        asking[c] \in Subscription /\ asking[c].client = c

SlowIsConnected == hub = "resync" => slow \in Subscription /\ slow.client \in clients

OnlySlowIsBehind ==
    \A c \in clients : behind[c] => hub = "resync" /\ slow.client = c

HubInv ==
    /\ TypeOK /\ ConnectedIsOpen /\ Counted /\ SubscribersRegistered /\ AskingIsOwn
    /\ SlowIsConnected /\ OnlySlowIsBehind
    /\ hub # "closeOfClosed"

-----------------------------------------------------------------------------
(* Channels *)

\* A receive from a channel that holds something.
LEMMA Received ==
    ASSUME NEW S, NEW q \in Seq(S), q # <<>>
    PROVE  /\ Head(q) \in S /\ Head(q) = q[1] /\ 1 \in 1 .. Len(q)
           /\ Tail(q) \in Seq(S) /\ Len(Tail(q)) = Len(q) - 1
           /\ \A n \in 1 .. Len(Tail(q)) : n + 1 \in 1 .. Len(q) /\ Tail(q)[n] = q[n + 1]
<1>1. Len(q) \in Nat \ {0}
  BY EmptySeq, LenProperties
<1>2. QED BY <1>1, HeadTailProperties, ElementOfSeq

\* A send on a channel.
LEMMA Sent ==
    ASSUME NEW S, NEW q \in Seq(S), NEW e \in S
    PROVE  /\ Append(q, e) \in Seq(S) /\ Len(Append(q, e)) = Len(q) + 1
           /\ \A n \in 1 .. Len(Append(q, e)) :
                 Append(q, e)[n] = e \/ (n \in 1 .. Len(q) /\ Append(q, e)[n] = q[n])
<1>1. Len(q) \in Nat
  BY LenProperties
<1>2. QED BY <1>1, AppendProperties

\* The types of the send channels, which most steps touch.
SendsTyped(chans) ==
    /\ chans \in [Client -> Seq(Message)]
    /\ \A c \in Client : Len(chans[c]) <= SendCap

LEMMA PushTyped ==
    ASSUME TypeOK, NEW c \in Client, NEW id \in SubId,
           NEW type \in {"event", "resync", "subscribed", "error"}, Room(c), Push(c, type, id)
    PROVE  SendsTyped(send')
<1> DEFINE m == [type |-> type, id |-> id]
<1>1. m \in Message
  BY DEF Message
<1>2. send' = [send EXCEPT ![c] = Append(send[c], m)]
  BY DEF Push
<1> HIDE DEF m
<1>3. send[c] \in Seq(Message) /\ Len(send[c]) < SendCap /\ SendCap \in Nat
  BY HubAssumption DEF TypeOK, Room
<1>4. Append(send[c], m) \in Seq(Message) /\ Len(Append(send[c], m)) <= SendCap
  BY <1>1, <1>3, Sent, LenProperties
<1>5. QED BY <1>2, <1>4 DEF TypeOK, SendsTyped

LEMMA SendOrDropTyped ==
    ASSUME TypeOK, NEW c \in Client, NEW id \in SubId,
           NEW type \in {"event", "resync", "subscribed", "error"}, SendOrDrop(c, type, id)
    PROVE  SendsTyped(send')
<1>1. CASE Room(c)
  BY <1>1, PushTyped DEF SendOrDrop
<1>2. CASE ~Room(c)
  BY <1>2 DEF SendOrDrop, TypeOK, SendsTyped
<1>3. QED BY <1>1, <1>2

\* Wherever a subscription is, it is a connection's.
LEMMA SubscribersAreClients ==
    ASSUME TypeOK
    PROVE  /\ \A s \in subs \union todo : s \in Subscription /\ s.client \in Client
           /\ \A n \in 1 .. Len(addSub) : addSub[n] \in Subscription /\ addSub[n].client \in Client
<1>1. \A n \in 1 .. Len(addSub) : addSub[n] \in Subscription
  BY ElementOfSeq DEF TypeOK
<1>2. \A s \in Subscription : s.client \in Client
  BY DEF Subscription
<1>3. QED BY <1>1, <1>2 DEF TypeOK

-----------------------------------------------------------------------------
(* The connections' goroutines *)

\* A step outside the hub leaves what the hub relies on alone.
LEMMA OutsideGood ==
    ASSUME HubInv, TypeOK', AskingIsOwn',
           UNCHANGED <<hub, todo, slow, clients, clientCount, subs, addSub, closed, behind>>,
           \A c \in Client : Registered(c)' <=> Registered(c)
    PROVE  HubInv'
<1> USE DEF HubInv
<1>1. ConnectedIsOpen' /\ OnlySlowIsBehind' /\ SlowIsConnected' /\ Counted'
  BY DEF ConnectedIsOpen, OnlySlowIsBehind, SlowIsConnected, Counted
<1>2. SubscribersRegistered'
  BY SubscribersAreClients DEF SubscribersRegistered
<1>3. QED BY <1>1, <1>2

\* What a reader does next, and what it may have sent, keeps its type.
LEMMA RespondTyped ==
    ASSUME TypeOK, NEW c \in Client, NEW id \in SubId,
           NEW type \in {"event", "resync", "subscribed", "error"}, Respond(c, type, id)
    PROVE  /\ SendsTyped(send') /\ closed' = closed
           /\ reader' \in [Client -> {"off", "upgraded", "auth", "reading", "subscribing",
                                      "leaving", "gone"}]
           /\ reader'[c] \in {"leaving", "reading"}
           /\ \A d \in Client : d # c => reader'[d] = reader[d]
<1>1. SendsTyped(send')
  BY SendOrDropTyped DEF Respond, TypeOK, SendsTyped
<1>2. PICK l \in {"leaving", "reading"} : reader' = [reader EXCEPT ![c] = l]
  BY DEF Respond
<1>3. QED BY <1>1, <1>2 DEF Respond, TypeOK

LEMMA ReaderGood ==
    ASSUME HubInv, NEW c \in Client,
           Accept(c) \/ ReadFails(c) \/ Authenticated(c)
    PROVE  HubInv'
<1> USE DEF HubInv
<1>1. UNCHANGED <<hub, todo, slow, clients, clientCount, subs, addSub, unsubByID, events, send,
                  closed, asking, writer, subCount, granted, behind>>
  BY DEF Accept, ReadFails, Authenticated, hubVars, maps, queues, channels, ghosts
<1>2. PICK l \in {"upgraded", "leaving", "reading"} :
          /\ reader' = [reader EXCEPT ![c] = l]
          /\ l = "upgraded" <=> reader[c] = "off"
          /\ reader[c] \in {"off", "auth", "reading"}
  BY DEF Accept, ReadFails, Authenticated
<1>3. TypeOK'
  <2>1. reader' \in [Client -> {"off", "upgraded", "auth", "reading", "subscribing",
                                "leaving", "gone"}]
    BY <1>2 DEF TypeOK
  <2> QED BY <1>1, <2>1 DEF TypeOK, Down, Panics
<1>4. \A d \in Client : Registered(d)' <=> Registered(d)
  BY <1>2 DEF Registered, TypeOK
<1>5. AskingIsOwn'
  BY <1>1, <1>2 DEF AskingIsOwn, TypeOK
<1>6. QED BY <1>1, <1>3, <1>4, <1>5, OutsideGood

LEMMA SubscribeRefusedGood ==
    ASSUME HubInv, NEW c \in Client, SubscribeRefused(c)
    PROVE  HubInv'
<1> USE DEF HubInv
<1>1. UNCHANGED <<hub, todo, slow, clients, clientCount, subs, addSub, unsubByID, events,
                  asking, writer, subCount, granted, behind>>
  BY DEF SubscribeRefused, hubVars, maps, queues, ghosts
<1>2. PICK id \in SubId : Respond(c, "error", id)
  BY DEF SubscribeRefused
<1>3. /\ SendsTyped(send') /\ closed' = closed
      /\ reader' \in [Client -> {"off", "upgraded", "auth", "reading", "subscribing",
                                 "leaving", "gone"}]
      /\ reader'[c] \in {"leaving", "reading"}
      /\ \A d \in Client : d # c => reader'[d] = reader[d]
  BY <1>2, RespondTyped
<1>4. TypeOK'
  BY <1>1, <1>3 DEF TypeOK, SendsTyped, Down, Panics
<1>5. \A d \in Client : Registered(d)' <=> Registered(d)
  BY <1>3 DEF Registered, SubscribeRefused
<1>6. AskingIsOwn'
  BY <1>1, <1>3 DEF AskingIsOwn
<1>7. QED BY <1>1, <1>3, <1>4, <1>5, <1>6, OutsideGood

LEMMA SubscribeGood ==
    ASSUME HubInv, NEW c \in Client, Subscribe(c)
    PROVE  HubInv'
<1> USE DEF HubInv
<1>1. UNCHANGED <<hub, todo, slow, clients, clientCount, subs, addSub, unsubByID, events, send,
                  closed, writer, granted, behind>>
  BY DEF Subscribe, hubVars, maps, queues, channels, ghosts
<1>2. PICK s \in Subscription : s.client = c /\ asking' = [asking EXCEPT ![c] = s]
  <2>1. PICK key \in Key, id \in SubId :
            asking' = [asking EXCEPT ![c] = [client |-> c, key |-> key, id |-> id]]
    BY DEF Subscribe
  <2> DEFINE s == [client |-> c, key |-> key, id |-> id]
  <2>2. s \in Subscription /\ s.client = c
    BY DEF Subscription
  <2> QED BY <2>1, <2>2
<1>3. /\ reader[c] = "reading" /\ reader' = [reader EXCEPT ![c] = "subscribing"]
      /\ subCount' = [subCount EXCEPT ![c] = subCount[c] + 1] /\ subCount[c] < MaxSubs
  BY DEF Subscribe
<1>4. TypeOK'
  <2>1. reader' \in [Client -> {"off", "upgraded", "auth", "reading", "subscribing",
                                "leaving", "gone"}]
    BY <1>3 DEF TypeOK
  <2>2. asking' \in [Client -> Subscription \union {NoSub}]
    BY <1>2 DEF TypeOK
  <2>3. subCount' \in [Client -> 0 .. MaxSubs]
    <3>1. subCount[c] \in 0 .. MaxSubs /\ subCount[c] + 1 \in 0 .. MaxSubs
      BY <1>3, HubAssumption DEF TypeOK
    <3> QED BY <1>3, <3>1 DEF TypeOK
  <2> QED BY <1>1, <2>1, <2>2, <2>3 DEF TypeOK, Down, Panics
<1>5. \A d \in Client : Registered(d)' <=> Registered(d)
  BY <1>3 DEF Registered, TypeOK
<1>6. AskingIsOwn'
  BY <1>2, <1>3 DEF AskingIsOwn, TypeOK
<1>7. QED BY <1>1, <1>4, <1>5, <1>6, OutsideGood

LEMMA QueueSubscriptionGood ==
    ASSUME HubInv, NEW c \in Client, QueueSubscription(c)
    PROVE  HubInv'
<1> USE DEF HubInv
<1>1. UNCHANGED <<hub, todo, slow, clients, clientCount, subs, unsubByID, events,
                  writer, subCount, granted, behind>>
  BY DEF QueueSubscription, hubVars, maps, ghosts
<1>2. /\ reader[c] = "subscribing" /\ Len(addSub) < QueueCap
      /\ addSub' = Append(addSub, asking[c]) /\ asking' = [asking EXCEPT ![c] = NoSub]
      /\ Respond(c, "subscribed", asking[c].id)
  BY DEF QueueSubscription
<1>3. asking[c] \in Subscription /\ asking[c].client = c /\ asking[c].id \in SubId
  BY <1>2 DEF AskingIsOwn, Subscription
<1>4. /\ SendsTyped(send') /\ closed' = closed
      /\ reader' \in [Client -> {"off", "upgraded", "auth", "reading", "subscribing",
                                 "leaving", "gone"}]
      /\ reader'[c] \in {"leaving", "reading"}
      /\ \A d \in Client : d # c => reader'[d] = reader[d]
  BY <1>2, <1>3, RespondTyped
<1>5. /\ addSub' \in Seq(Subscription) /\ Len(addSub') <= QueueCap
      /\ \A n \in 1 .. Len(addSub') :
            addSub'[n] = asking[c] \/ (n \in 1 .. Len(addSub) /\ addSub'[n] = addSub[n])
  <2>1. addSub \in Seq(Subscription) /\ Len(addSub) \in Nat /\ QueueCap \in Nat
    BY HubAssumption, LenProperties DEF TypeOK
  <2> QED BY <1>2, <1>3, <2>1, Sent
<1>6. TypeOK'
  <2>1. asking' \in [Client -> Subscription \union {NoSub}]
    BY <1>2 DEF TypeOK
  <2> QED BY <1>1, <1>4, <1>5, <2>1 DEF TypeOK, SendsTyped, Down, Panics
<1>7. \A d \in Client : Registered(d)' <=> Registered(d)
  BY <1>2, <1>4 DEF Registered
<1>8. AskingIsOwn'
  BY <1>2, <1>4 DEF AskingIsOwn, TypeOK
<1>9. ConnectedIsOpen' /\ OnlySlowIsBehind' /\ SlowIsConnected' /\ Counted'
  BY <1>1, <1>4, <1>7 DEF ConnectedIsOpen, OnlySlowIsBehind, SlowIsConnected, Counted
<1>10. SubscribersRegistered'
  <2>1. \A s \in subs \union todo : s.client \in Client
    BY DEF TypeOK, Subscription
  <2>2. \A n \in 1 .. Len(addSub') : addSub'[n].client \in Client
    <3>1. \A n \in 1 .. Len(addSub') : addSub'[n] \in Subscription
      BY <1>5, ElementOfSeq
    <3> QED BY <3>1 DEF Subscription
  <2>3. Registered(c)
    BY <1>2 DEF Registered
  <2> QED BY <1>1, <1>3, <1>5, <1>7, <2>1, <2>2, <2>3 DEF SubscribersRegistered
<1>11. QED BY <1>1, <1>6, <1>8, <1>9, <1>10

LEMMA UnsubscribeGood ==
    ASSUME HubInv, NEW c \in Client, Unsubscribe(c)
    PROVE  HubInv'
<1> USE DEF HubInv
<1>1. UNCHANGED <<hub, todo, slow, clients, clientCount, subs, addSub, events, send, closed,
                  reader, asking, writer, granted, behind>>
  BY DEF Unsubscribe, hubVars, maps, channels, ghosts
<1>2. unsubByID' \in Seq([client : Client, id : SubId]) /\ Len(unsubByID') <= QueueCap
  <2>1. PICK id \in SubId : unsubByID' = Append(unsubByID, [client |-> c, id |-> id])
    BY DEF Unsubscribe
  <2>2. /\ unsubByID \in Seq([client : Client, id : SubId]) /\ Len(unsubByID) \in Nat
        /\ QueueCap \in Nat /\ Len(unsubByID) < QueueCap
    BY HubAssumption, LenProperties DEF TypeOK, Unsubscribe
  <2>3. [client |-> c, id |-> id] \in [client : Client, id : SubId]
    OBVIOUS
  <2> QED BY <2>1, <2>2, <2>3, Sent
<1>3. subCount' \in [Client -> 0 .. MaxSubs]
  <2>1. subCount[c] \in 0 .. MaxSubs
    BY DEF TypeOK
  <2>2. (IF subCount[c] > 0 THEN subCount[c] - 1 ELSE subCount[c]) \in 0 .. MaxSubs
    BY <2>1, HubAssumption
  <2> QED BY <2>2 DEF Unsubscribe, TypeOK
<1>4. TypeOK'
  BY <1>1, <1>2, <1>3 DEF TypeOK, Down, Panics
<1>5. AskingIsOwn' /\ \A d \in Client : Registered(d)' <=> Registered(d)
  BY <1>1 DEF AskingIsOwn, Registered
<1>6. QED BY <1>1, <1>4, <1>5, OutsideGood

LEMMA WriterGood ==
    ASSUME HubInv, NEW c \in Client, Deliver(c) \/ WriterStops(c)
    PROVE  HubInv'
<1> USE DEF HubInv
<1>1. UNCHANGED <<hub, todo, slow, clients, clientCount, subs, addSub, unsubByID, events, closed,
                  reader, asking, subCount, granted, behind>>
  BY DEF Deliver, WriterStops, hubVars, maps, queues, channels, pumps, ghosts
<1>2. SendsTyped(send')
  <2>1. CASE Deliver(c)
    <3>1. send[c] \in Seq(Message) /\ send[c] # <<>> /\ Len(send[c]) \in Nat
          /\ Len(send[c]) <= SendCap /\ SendCap \in Nat
      BY <2>1, HubAssumption, LenProperties DEF TypeOK, Deliver
    <3>2. Tail(send[c]) \in Seq(Message) /\ Len(Tail(send[c])) <= SendCap
      BY <3>1, Received
    <3> QED BY <2>1, <3>2 DEF Deliver, TypeOK, SendsTyped
  <2>2. CASE WriterStops(c)
    BY <2>2 DEF WriterStops, channels, TypeOK, SendsTyped
  <2> QED BY <2>1, <2>2
<1>3. writer' \in [Client -> BOOLEAN]
  BY DEF Deliver, WriterStops, TypeOK, pumps
<1>4. TypeOK'
  BY <1>1, <1>2, <1>3 DEF TypeOK, SendsTyped, Down, Panics
<1>5. AskingIsOwn' /\ \A d \in Client : Registered(d)' <=> Registered(d)
  BY <1>1 DEF AskingIsOwn, Registered
<1>6. QED BY <1>1, <1>4, <1>5, OutsideGood

LEMMA EnvironmentGood ==
    ASSUME HubInv, HandleEvent \/ ChangeAccess
    PROVE  HubInv'
<1> USE DEF HubInv
<1>1. UNCHANGED <<hub, todo, slow, clients, clientCount, subs, addSub, unsubByID, send, closed,
                  reader, asking, writer, subCount, behind>>
  BY DEF HandleEvent, ChangeAccess, hubVars, maps, queues, channels, pumps, ghosts
<1>2. events' \in Seq(Key) /\ Len(events') <= EventCap
  <2>1. events \in Seq(Key) /\ Len(events) \in Nat /\ EventCap \in Nat /\ Len(events) <= EventCap
    BY HubAssumption, LenProperties DEF TypeOK
  <2>2. CASE HandleEvent
    <3>1. PICK key \in Key :
              events' = IF Len(events) < EventCap THEN Append(events, key) ELSE events
      BY <2>2 DEF HandleEvent
    <3> QED BY <2>1, <3>1, Sent
  <2>3. CASE ChangeAccess
    BY <2>1, <2>3 DEF ChangeAccess, queues
  <2> QED BY <2>2, <2>3
<1>3. granted' \subseteq Client \X Key
  <2>1. CASE HandleEvent
    BY <2>1 DEF HandleEvent, ghosts, TypeOK
  <2>2. CASE ChangeAccess
    <3>1. PICK c \in Client, key \in Key :
              granted' = IF <<c, key>> \in granted THEN granted \ {<<c, key>>}
                                                   ELSE granted \union {<<c, key>>}
      BY <2>2 DEF ChangeAccess
    <3> QED BY <3>1 DEF TypeOK
  <2> QED BY <2>1, <2>2
<1>4. TypeOK'
  BY <1>1, <1>2, <1>3 DEF TypeOK, Down, Panics
<1>5. AskingIsOwn' /\ \A d \in Client : Registered(d)' <=> Registered(d)
  BY <1>1 DEF AskingIsOwn, Registered
<1>6. QED BY <1>1, <1>4, <1>5, OutsideGood

-----------------------------------------------------------------------------
(* The hub goroutine *)

LEMMA RegisterGood ==
    ASSUME HubInv, NEW c \in Client, Register(c)
    PROVE  HubInv'
<1> USE DEF HubInv
<1>1. UNCHANGED <<hub, todo, slow, subs, addSub, unsubByID, events, send, closed, asking,
                  subCount, granted, behind>>
  BY DEF Register, queues, channels, ghosts
<1>2. /\ hub = "select" /\ reader[c] = "upgraded" /\ clients' = clients \union {c}
      /\ clientCount' = clientCount + 1 /\ reader' = [reader EXCEPT ![c] = "auth"]
      /\ writer' = [writer EXCEPT ![c] = TRUE]
  BY DEF Register
<1>3. c \notin clients /\ ~closed[c] /\ ~behind[c]
  BY <1>2 DEF ConnectedIsOpen, Registered, TypeOK
<1>4. Counted'
  BY <1>2, <1>3, FS_AddElement DEF Counted
<1>5. TypeOK'
  <2>1. reader' \in [Client -> {"off", "upgraded", "auth", "reading", "subscribing",
                                "leaving", "gone"}]
    BY <1>2 DEF TypeOK
  <2>2. writer' \in [Client -> BOOLEAN] /\ clients' \subseteq Client /\ clientCount' \in Nat
    BY <1>2 DEF TypeOK
  <2> QED BY <1>1, <2>1, <2>2 DEF TypeOK, Down, Panics
<1>6. Registered(c)' /\ \A d \in Client : Registered(d) => Registered(d)'
  BY <1>2 DEF Registered, TypeOK
<1>7. \A d \in Client : d # c => (Registered(d)' <=> Registered(d))
  BY <1>2 DEF Registered, TypeOK
<1>8. ConnectedIsOpen'
  BY <1>1, <1>2, <1>3, <1>6, <1>7 DEF ConnectedIsOpen
<1>9. SubscribersRegistered'
  BY <1>1, <1>6, SubscribersAreClients DEF SubscribersRegistered
<1>10. AskingIsOwn'
  BY <1>1, <1>2 DEF AskingIsOwn, TypeOK
<1>11. SlowIsConnected' /\ OnlySlowIsBehind' /\ hub' # "closeOfClosed"
  BY <1>1, <1>2, <1>3 DEF SlowIsConnected, OnlySlowIsBehind
<1>12. QED BY <1>4, <1>5, <1>8, <1>9, <1>10, <1>11

\* Removing a connected client closes its channel, which was open.
LEMMA RemoveClientGood ==
    ASSUME HubInv, NEW c \in clients, NEW next, removeClient(c, next)
    PROVE  /\ hub' = next /\ clients' = clients \ {c} /\ clients' \subseteq Client
           /\ clientCount' \in Nat /\ Counted'
           /\ subs' \subseteq subs
           /\ closed' \in [Client -> BOOLEAN] /\ closed'[c]
           /\ \A d \in Client : d # c => closed'[d] = closed[d]
<1> USE DEF HubInv
<1>1. c \in Client /\ ~closed[c]
  BY DEF ConnectedIsOpen, TypeOK
<1>2. /\ hub' = next /\ clients' = clients \ {c} /\ clientCount' = clientCount - 1
      /\ subs' \subseteq subs /\ closed' = [closed EXCEPT ![c] = TRUE]
  BY <1>1 DEF removeClient
<1>3. Counted'
  BY <1>2, FS_RemoveElement DEF Counted
<1>4. clientCount' \in Nat
  BY <1>3, FS_CardinalityType DEF Counted
<1>5. QED BY <1>1, <1>2, <1>3, <1>4 DEF TypeOK

LEMMA UnregisterGood ==
    ASSUME HubInv, NEW c \in Client, Unregister(c)
    PROVE  HubInv'
<1> USE DEF HubInv
<1>1. UNCHANGED <<todo, slow, addSub, unsubByID, events, send, asking, writer, subCount,
                  granted, behind>>
  BY DEF Unregister, queues, ghosts
<1>2. hub = "select" /\ reader[c] = "leaving" /\ reader' = [reader EXCEPT ![c] = "gone"]
  BY DEF Unregister
<1>3. /\ hub' = "select" /\ clients' = clients \ {c} /\ clients' \subseteq Client
      /\ clientCount' \in Nat /\ Counted' /\ subs' \subseteq subs
      /\ closed' \in [Client -> BOOLEAN] /\ closed'[c]
      /\ \A d \in Client : d # c => closed'[d] = closed[d]
  <2>1. CASE c \in clients
    BY <2>1, RemoveClientGood DEF Unregister
  <2>2. CASE c \notin clients
    <3>1. UNCHANGED <<hub, clients, clientCount, subs, closed>>
      BY <2>2 DEF Unregister, maps
    <3>2. closed[c]
      BY <1>2, <2>2 DEF ConnectedIsOpen, Registered
    <3> QED BY <1>2, <2>2, <3>1, <3>2 DEF TypeOK, Counted
  <2> QED BY <2>1, <2>2
<1>4. TypeOK'
  <2>1. reader' \in [Client -> {"off", "upgraded", "auth", "reading", "subscribing",
                                "leaving", "gone"}]
    BY <1>2 DEF TypeOK
  <2> QED BY <1>1, <1>3, <2>1 DEF TypeOK, Down, Panics
<1>5. \A d \in Client : Registered(d)' <=> Registered(d)
  BY <1>2 DEF Registered, TypeOK
<1>6. ConnectedIsOpen'
  BY <1>1, <1>2, <1>3, <1>5 DEF ConnectedIsOpen, Registered
<1>7. SubscribersRegistered'
  BY <1>1, <1>3, <1>5, SubscribersAreClients DEF SubscribersRegistered
<1>8. AskingIsOwn'
  BY <1>1, <1>2 DEF AskingIsOwn, TypeOK
<1>9. SlowIsConnected' /\ OnlySlowIsBehind' /\ hub' # "closeOfClosed"
  BY <1>1, <1>2, <1>3 DEF SlowIsConnected, OnlySlowIsBehind
<1>10. QED BY <1>3, <1>4, <1>6, <1>7, <1>8, <1>9

\* A step of the hub that changes neither the map nor what the readers do.
LEMMA InsideGood ==
    ASSUME HubInv, TypeOK', hub' # "closeOfClosed",
           UNCHANGED <<clients, clientCount, closed, reader, asking>>,
           SubscribersRegistered', SlowIsConnected', OnlySlowIsBehind',
           \A c \in Client : behind'[c] => Registered(c)
    PROVE  HubInv'
<1> USE DEF HubInv
<1>1. \A c \in Client : Registered(c)' <=> Registered(c)
  BY DEF Registered
<1>2. ConnectedIsOpen' /\ Counted' /\ AskingIsOwn'
  BY <1>1 DEF ConnectedIsOpen, Counted, AskingIsOwn
<1>3. QED BY <1>2

LEMMA QueueStepGood ==
    ASSUME HubInv, AddSub \/ Unsub
    PROVE  HubInv'
<1> USE DEF HubInv
<1>1. /\ hub = "select"
      /\ UNCHANGED <<hub, todo, slow, clients, clientCount, events, send, closed, reader, asking,
                     writer, subCount, granted, behind>>
  BY DEF AddSub, Unsub, channels, pumps, ghosts
<1>2. \A c \in Client : behind'[c] => Registered(c)
  BY <1>1 DEF ConnectedIsOpen
<1>3. SlowIsConnected' /\ OnlySlowIsBehind' /\ hub' # "closeOfClosed"
  BY <1>1 DEF SlowIsConnected, OnlySlowIsBehind
<1>4. /\ subs' \subseteq Subscription /\ addSub' \in Seq(Subscription) /\ Len(addSub') <= QueueCap
      /\ unsubByID' \in Seq([client : Client, id : SubId]) /\ Len(unsubByID') <= QueueCap
      /\ SubscribersRegistered'
  <2>0. QueueCap \in Nat /\ Len(addSub) \in Nat /\ Len(unsubByID) \in Nat
    BY HubAssumption, LenProperties DEF TypeOK
  <2>1. CASE AddSub
    <3>1. /\ Head(addSub) \in Subscription /\ Head(addSub) = addSub[1] /\ 1 \in 1 .. Len(addSub)
          /\ Tail(addSub) \in Seq(Subscription) /\ Len(Tail(addSub)) = Len(addSub) - 1
          /\ \A n \in 1 .. Len(Tail(addSub)) :
                n + 1 \in 1 .. Len(addSub) /\ Tail(addSub)[n] = addSub[n + 1]
      BY <2>1, Received DEF AddSub, TypeOK
    <3>2. /\ addSub' = Tail(addSub) /\ unsubByID' = unsubByID
          /\ \A s \in subs' : s \in subs \/ s = Head(addSub)
      BY <2>1 DEF AddSub
    <3>3. subs' \subseteq Subscription
      BY <3>1, <3>2 DEF TypeOK
    <3>4. SubscribersRegistered'
      BY <1>1, <3>1, <3>2 DEF SubscribersRegistered, Registered
    <3>5. Len(addSub') <= QueueCap
      BY <2>0, <3>1, <3>2 DEF TypeOK
    <3> QED BY <3>1, <3>2, <3>3, <3>4, <3>5 DEF TypeOK
  <2>2. CASE Unsub
    <3>1. /\ Tail(unsubByID) \in Seq([client : Client, id : SubId])
          /\ Len(Tail(unsubByID)) = Len(unsubByID) - 1
      BY <2>2, Received DEF Unsub, TypeOK
    <3>2. /\ addSub' = addSub /\ unsubByID' = Tail(unsubByID)
          /\ subs' \subseteq subs
      BY <2>2 DEF Unsub
    <3>3. SubscribersRegistered'
      BY <1>1, <3>2 DEF SubscribersRegistered, Registered
    <3>4. Len(unsubByID') <= QueueCap
      BY <2>0, <3>1, <3>2 DEF TypeOK
    <3> QED BY <3>1, <3>2, <3>3, <3>4 DEF TypeOK
  <2> QED BY <2>1, <2>2
<1>5. TypeOK'
  BY <1>1, <1>4 DEF TypeOK, Down, Panics
<1>6. QED BY <1>1, <1>2, <1>3, <1>4, <1>5, InsideGood

\* The targets of an event are subscriptions of the map.
LEMMA TargetsSubscribed ==
    ASSUME NEW key
    PROVE  targets(key) \subseteq subs
  BY DEF targets

LEMMA TakeWorkGood ==
    ASSUME HubInv, TakeEvent \/ \E removals \in SUBSET Denied : Revalidate(removals)
    PROVE  HubInv'
<1> USE DEF HubInv
<1>1. /\ hub = "select"
      /\ UNCHANGED <<slow, clients, clientCount, subs, addSub, unsubByID, send, closed, reader,
                     asking, writer, subCount, granted, behind>>
  BY DEF TakeEvent, Revalidate, maps, queues, channels, pumps, ghosts
<1>2. todo' \subseteq subs /\ hub' \in {"select", "broadcast", "revoke"}
  BY TargetsSubscribed DEF TakeEvent, Revalidate, Denied, After
<1>3. events' \in Seq(Key) /\ Len(events') <= EventCap
  <2>1. events \in Seq(Key) /\ Len(events) \in Nat /\ EventCap \in Nat /\ Len(events) <= EventCap
    BY HubAssumption, LenProperties DEF TypeOK
  <2>2. events' = events \/ (events # <<>> /\ events' = Tail(events))
    BY DEF TakeEvent, Revalidate, queues
  <2> QED BY <2>1, <2>2, Received
<1>4. TypeOK'
  BY <1>1, <1>2, <1>3 DEF TypeOK
<1>5. SubscribersRegistered'
  BY <1>1, <1>2 DEF SubscribersRegistered, Registered
<1>6. SlowIsConnected' /\ OnlySlowIsBehind' /\ hub' # "closeOfClosed"
  BY <1>1, <1>2 DEF SlowIsConnected, OnlySlowIsBehind
<1>7. \A c \in Client : behind'[c] => Registered(c)
  BY <1>1 DEF ConnectedIsOpen
<1>8. QED BY <1>1, <1>4, <1>5, <1>6, <1>7, InsideGood

LEMMA BroadcastGood ==
    ASSUME HubInv, Broadcast
    PROVE  HubInv'
<1> USE DEF HubInv
<1>1. /\ hub = "broadcast"
      /\ UNCHANGED <<clients, clientCount, subs, addSub, unsubByID, events, closed, reader,
                     asking, writer, subCount, granted>>
  BY DEF Broadcast, maps, queues, pumps
<1>2. PICK t \in todo : SendEvent(t) \/ BufferFull(t) \/ SendPanics(t)
  BY DEF Broadcast
<1>3. t \in Subscription /\ t.client \in Client /\ t.id \in SubId /\ Registered(t.client)
  BY SubscribersAreClients DEF SubscribersRegistered, Subscription
<1>4. \A c \in clients : ~behind[c]
  BY <1>1 DEF OnlySlowIsBehind
<1>5. todo' \subseteq todo
  BY <1>2 DEF SendEvent, BufferFull, SendPanics
<1>6. SubscribersRegistered'
  BY <1>1, <1>5 DEF SubscribersRegistered, Registered
<1>7. CASE SendEvent(t)
  <2>1. hub' \in {"select", "broadcast"} /\ UNCHANGED <<slow, behind>>
    BY <1>7 DEF SendEvent, After
  <2>2. SendsTyped(send')
    BY <1>3, <1>7, PushTyped DEF SendEvent
  <2>3. TypeOK'
    BY <1>1, <1>5, <2>1, <2>2 DEF TypeOK, SendsTyped
  <2>4. SlowIsConnected' /\ OnlySlowIsBehind' /\ hub' # "closeOfClosed"
    BY <1>1, <1>4, <2>1 DEF SlowIsConnected, OnlySlowIsBehind
  <2>5. \A c \in Client : behind'[c] => Registered(c)
    BY <2>1 DEF ConnectedIsOpen
  <2> QED BY <1>1, <1>6, <2>3, <2>4, <2>5, InsideGood
<1>8. CASE BufferFull(t)
  <2>1. /\ hub' = "resync" /\ slow' = t /\ send' = send /\ ~closed[t.client]
        /\ behind' = [behind EXCEPT ![t.client] = TRUE]
    BY <1>8 DEF BufferFull
  <2>2. t.client \in clients
    BY <1>3, <2>1 DEF ConnectedIsOpen
  <2>3. behind' \in [Client -> BOOLEAN] /\ \A c \in Client : c # t.client => behind'[c] = behind[c]
    BY <1>3, <2>1 DEF TypeOK
  <2>4. TypeOK'
    BY <1>1, <1>3, <1>5, <2>1, <2>3 DEF TypeOK
  <2>5. SlowIsConnected' /\ OnlySlowIsBehind' /\ hub' # "closeOfClosed"
    BY <1>1, <1>3, <1>4, <2>1, <2>2, <2>3 DEF SlowIsConnected, OnlySlowIsBehind, TypeOK
  <2>6. \A c \in Client : behind'[c] => Registered(c)
    BY <1>3, <2>3 DEF ConnectedIsOpen
  <2> QED BY <1>1, <1>6, <2>4, <2>5, <2>6, InsideGood
<1>9. CASE SendPanics(t)
  <2>1. hub' = "sendOnClosed" /\ UNCHANGED <<todo, slow, send, behind>>
    BY <1>9 DEF SendPanics
  <2>2. TypeOK'
    BY <1>1, <2>1 DEF TypeOK, Down, Panics
  <2>3. SlowIsConnected' /\ OnlySlowIsBehind' /\ hub' # "closeOfClosed"
    BY <1>1, <1>4, <2>1 DEF SlowIsConnected, OnlySlowIsBehind
  <2>4. \A c \in Client : behind'[c] => Registered(c)
    BY <2>1 DEF ConnectedIsOpen
  <2> QED BY <1>1, <1>6, <2>2, <2>3, <2>4, InsideGood
<1>10. QED BY <1>2, <1>7, <1>8, <1>9

LEMMA SendResyncGood ==
    ASSUME HubInv, sendResync
    PROVE  HubInv'
<1> USE DEF HubInv
<1> DEFINE c == slow.client
<1>1. /\ hub = "resync" /\ slow' = NoSub
      /\ UNCHANGED <<todo, addSub, unsubByID, events, reader, asking, writer, subCount, granted>>
  BY DEF sendResync, queues, pumps
<1>2. slow \in Subscription /\ c \in clients /\ c \in Client /\ slow.id \in SubId
  BY <1>1 DEF SlowIsConnected, Subscription, TypeOK
<1>3. \A d \in clients : d # c => ~behind[d]
  BY <1>1 DEF OnlySlowIsBehind
<1>4. After(todo, "broadcast") \in {"select", "broadcast"}
  BY DEF After
<1>5. CASE Room(c) /\ Push(c, "resync", slow.id) /\ behind' = [behind EXCEPT ![c] = FALSE]
           /\ hub' = After(todo, "broadcast") /\ UNCHANGED <<maps, closed>>
  <2>1. UNCHANGED <<clients, clientCount, subs, closed>>
    BY <1>5 DEF maps
  <2>2. SendsTyped(send')
    BY <1>2, <1>5, PushTyped
  <2>3. /\ behind' \in [Client -> BOOLEAN] /\ ~behind'[c]
        /\ \A d \in Client : d # c => behind'[d] = behind[d]
    BY <1>2, <1>5 DEF TypeOK
  <2> HIDE DEF c
  <2>4. TypeOK'
    BY <1>1, <1>4, <1>5, <2>1, <2>2, <2>3 DEF TypeOK, SendsTyped
  <2>5. SubscribersRegistered'
    BY <1>1, <2>1 DEF SubscribersRegistered, Registered
  <2>6. SlowIsConnected' /\ OnlySlowIsBehind' /\ hub' # "closeOfClosed"
    BY <1>3, <1>4, <1>5, <2>1, <2>3 DEF SlowIsConnected, OnlySlowIsBehind, TypeOK
  <2>7. \A d \in Client : behind'[d] => Registered(d)
    BY <2>3 DEF ConnectedIsOpen
  <2> QED BY <1>1, <2>1, <2>4, <2>5, <2>6, <2>7, InsideGood
<1>6. CASE ~Room(c) /\ removeClient(c, After(todo, "broadcast")) /\ UNCHANGED <<send, behind>>
  <2>1. /\ hub' = After(todo, "broadcast") /\ clients' = clients \ {c} /\ clients' \subseteq Client
        /\ clientCount' \in Nat /\ Counted' /\ subs' \subseteq subs
        /\ closed' \in [Client -> BOOLEAN] /\ closed'[c]
        /\ \A d \in Client : d # c => closed'[d] = closed[d]
    BY <1>2, <1>6, RemoveClientGood
  <2> HIDE DEF c
  <2>2. TypeOK'
    BY <1>1, <1>4, <1>6, <2>1 DEF TypeOK
  <2>3. Registered(c) /\ \A d \in Client : Registered(d)' <=> Registered(d)
    BY <1>1, <1>2 DEF Registered, ConnectedIsOpen
  <2>4. ConnectedIsOpen'
    BY <1>2, <1>6, <2>1, <2>3 DEF ConnectedIsOpen
  <2>5. SubscribersRegistered'
    BY <1>1, <2>1 DEF SubscribersRegistered, Registered
  <2>6. SlowIsConnected' /\ OnlySlowIsBehind' /\ hub' # "closeOfClosed"
    BY <1>3, <1>4, <1>6, <2>1 DEF SlowIsConnected, OnlySlowIsBehind
  <2>7. AskingIsOwn'
    BY <1>1 DEF AskingIsOwn
  <2> QED BY <2>1, <2>2, <2>4, <2>5, <2>6, <2>7
<1>7. QED BY <1>5, <1>6 DEF sendResync

LEMMA RevokeGood ==
    ASSUME HubInv, Revoke
    PROVE  HubInv'
<1> USE DEF HubInv
<1>1. /\ hub = "revoke"
      /\ UNCHANGED <<slow, clients, clientCount, addSub, unsubByID, events, closed, reader,
                     asking, writer, subCount, granted, behind>>
  BY DEF Revoke, queues, pumps, ghosts
<1>2. PICK r \in todo :
        /\ subs' = {s \in subs : s.client # r.client \/ s.key # r.key}
        /\ todo' = todo \ {r}
        /\ IF closed[r.client]
           THEN hub' = "sendOnClosed" /\ UNCHANGED send
           ELSE hub' = After(todo', "revoke") /\ SendOrDrop(r.client, "error", r.id)
  BY DEF Revoke
<1>3. r.client \in Client /\ r.id \in SubId
  BY SubscribersAreClients DEF Subscription
<1>4. SendsTyped(send')
  BY <1>2, <1>3, SendOrDropTyped DEF SendsTyped, TypeOK
<1>5. hub' \in {"select", "revoke", "sendOnClosed"} /\ todo' \subseteq todo /\ subs' \subseteq subs
  BY <1>2 DEF After
<1>6. TypeOK'
  BY <1>1, <1>4, <1>5 DEF TypeOK, SendsTyped, Down, Panics
<1>7. SubscribersRegistered'
  BY <1>1, <1>5 DEF SubscribersRegistered, Registered
<1>8. SlowIsConnected' /\ OnlySlowIsBehind' /\ hub' # "closeOfClosed"
  BY <1>1, <1>5 DEF SlowIsConnected, OnlySlowIsBehind
<1>9. \A c \in Client : behind'[c] => Registered(c)
  BY <1>1 DEF ConnectedIsOpen
<1>10. QED BY <1>1, <1>6, <1>7, <1>8, <1>9, InsideGood

LEMMA ShutdownGood ==
    ASSUME HubInv, Shutdown
    PROVE  HubInv'
<1> USE DEF HubInv
<1>1. /\ hub = "select"
      /\ UNCHANGED <<todo, slow, addSub, unsubByID, events, send, reader, asking, writer,
                     subCount, granted, behind>>
  BY DEF Shutdown, queues, pumps, ghosts
<1>2. \A c \in clients : c \in Client /\ ~closed[c] /\ Registered(c)
  BY DEF ConnectedIsOpen, TypeOK
<1>3. hub' = "stopped" /\ clients' = {} /\ subs' \subseteq subs
  BY <1>2 DEF Shutdown
<1>4. closed' = [c \in Client |-> closed[c] \/ c \in clients]
  BY DEF Shutdown
<1>5. clientCount' = 0
  BY FS_CardinalityType DEF Shutdown, Counted
<1>6. Counted'
  BY <1>3, <1>5, FS_EmptySet DEF Counted
<1>7. closed' \in [Client -> BOOLEAN]
  BY <1>4 DEF TypeOK
<1>8. TypeOK'
  BY <1>1, <1>3, <1>5, <1>7 DEF TypeOK, Down
<1>9. \A d \in Client : Registered(d)' <=> Registered(d)
  BY <1>1 DEF Registered
<1>10. ConnectedIsOpen'
  BY <1>1, <1>2, <1>3, <1>4, <1>9 DEF ConnectedIsOpen
<1>11. SubscribersRegistered' /\ AskingIsOwn'
  BY <1>1, <1>3 DEF SubscribersRegistered, Registered, AskingIsOwn
<1>12. SlowIsConnected' /\ OnlySlowIsBehind' /\ hub' # "closeOfClosed"
  BY <1>1, <1>3 DEF SlowIsConnected, OnlySlowIsBehind
<1>13. QED BY <1>6, <1>8, <1>10, <1>11, <1>12

-----------------------------------------------------------------------------
(* The invariant and what it gives *)

LEMMA InitGood == Init => HubInv
<1> SUFFICES ASSUME Init PROVE HubInv
  OBVIOUS
<1> USE DEF Init
<1>1. Len(addSub) = 0 /\ Len(unsubByID) = 0 /\ Len(events) = 0
      /\ \A c \in Client : send[c] = <<>> /\ Len(send[c]) = 0
  BY EmptySeq
<1>2. TypeOK
  <2>1. send \in [Client -> Seq(Message)] /\ \A c \in Client : Len(send[c]) <= SendCap
    BY <1>1, HubAssumption
  <2>2. subCount \in [Client -> 0 .. MaxSubs]
    BY HubAssumption
  <2>3. /\ addSub \in Seq(Subscription) /\ Len(addSub) <= QueueCap
        /\ unsubByID \in Seq([client : Client, id : SubId]) /\ Len(unsubByID) <= QueueCap
        /\ events \in Seq(Key) /\ Len(events) <= EventCap
    BY <1>1, HubAssumption
  <2> QED BY <2>1, <2>2, <2>3 DEF TypeOK
<1>3. Counted
  BY FS_EmptySet DEF Counted
<1>4. ConnectedIsOpen /\ AskingIsOwn /\ SlowIsConnected /\ OnlySlowIsBehind
  BY DEF ConnectedIsOpen, Registered, AskingIsOwn, SlowIsConnected, OnlySlowIsBehind
<1>5. SubscribersRegistered
  BY <1>1 DEF SubscribersRegistered
<1>6. QED BY <1>2, <1>3, <1>4, <1>5 DEF HubInv

LEMMA StepGood ==
    ASSUME HubInv, [Next]_vars
    PROVE  HubInv'
<1>1. CASE HubStep
  BY <1>1, QueueStepGood, TakeWorkGood, BroadcastGood, SendResyncGood, RevokeGood, RegisterGood,
     UnregisterGood, ShutdownGood DEF HubStep
<1>2. ASSUME NEW c \in Client, ClientStep(c) PROVE HubInv'
  BY <1>2, ReaderGood, SubscribeRefusedGood, SubscribeGood, QueueSubscriptionGood, UnsubscribeGood,
     WriterGood DEF ClientStep
<1>3. CASE UNCHANGED vars
  <2>1. UNCHANGED <<hub, todo, slow, clients, clientCount, subs, addSub, unsubByID, events,
                    send, closed, reader, asking, writer, subCount, granted, behind>>
    BY <1>3 DEF vars
  <2>2. TypeOK'
    BY <2>1 DEF HubInv, TypeOK
  <2>3. AskingIsOwn' /\ \A c \in Client : Registered(c)' <=> Registered(c)
    BY <2>1 DEF HubInv, AskingIsOwn, Registered
  <2> QED BY <2>1, <2>2, <2>3, OutsideGood
<1>4. QED BY <1>1, <1>2, <1>3, EnvironmentGood DEF Next

LEMMA Invariant == Spec => []HubInv
<1>1. HubInv /\ [Next]_vars => HubInv'
  BY StepGood
<1>2. QED BY <1>1, InitGood, PTL DEF Spec

(* Every variable keeps its type, and every channel and counter its bound:  *)
(* the send buffers, addSub, unsubByID, events, and the subscription count. *)
THEOREM HubTyped == Spec => []TypeOK
<1>1. HubInv => TypeOK
  BY DEF HubInv
<1>2. QED BY <1>1, Invariant, PTL

(* removeClient never closes a channel twice, whichever of the slow-client  *)
(* path, unregister and shutdown comes first, for any number of             *)
(* connections, and clientCount counts h.clients exactly.                   *)
THEOREM ClosedAtMostOnce == Spec => []ClosedOnce
<1>1. HubInv => ClosedOnce
  BY DEF HubInv, ClosedOnce, ConnectedIsOpen, Counted, TypeOK
<1>2. QED BY <1>1, Invariant, PTL

(* A connection whose event the broadcast dropped has a resync queued, or   *)
(* is disconnected, before the hub takes anything else (sendResync).        *)
THEOREM LossIsAnnounced == Spec => []NoSilentLoss
<1>1. HubInv => NoSilentLoss
  BY DEF HubInv, NoSilentLoss, OnlySlowIsBehind
<1>2. QED BY <1>1, Invariant, PTL
=============================================================================
