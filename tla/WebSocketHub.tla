----------------------------- MODULE WebSocketHub -----------------------------
(***************************************************************************)
(* The resource event stream.                                              *)
(*                                                                         *)
(*   backend/internal/websocket/hub.go      the hub goroutine              *)
(*   backend/internal/websocket/client.go   the two pumps of a connection  *)
(*   backend/internal/server/handle_ws.go   the upgrade handler            *)
(*                                                                         *)
(* One goroutine owns the maps and takes one ready channel at a time: its  *)
(* select is the disjunction of the actions guarded by hub = "select".     *)
(* Every connection has a goroutine that reads requests and one that       *)
(* drains the connection's send channel; both run between any two steps of *)
(* the hub.  A send on, or a close of, a closed channel panics: in the     *)
(* reader the panic is recovered, in the hub it ends the process.          *)
(***************************************************************************)
EXTENDS Naturals, Sequences, FiniteSets

CONSTANTS
    Client,         \* connections; each is accepted once
    Kind,           \* subscribable kinds, after normalizeKind
    AlwaysAllow,    \* alwaysAllowKinds
    Namespace,
    AllNs,          \* the empty namespace: all of them, or a cluster-scoped event
    SubId,
    MaxClients,
    MaxSubs,        \* maxSubscriptions
    SendCap,        \* sendBufferSize
    QueueCap,       \* buffer of addSub and of unsubByID
    EventCap        \* buffer of events

ASSUME HubAssumption ==
    /\ AlwaysAllow \subseteq Kind
    /\ AllNs \notin Namespace
    /\ MaxClients \in Nat \ {0} /\ MaxSubs \in Nat \ {0}
    /\ SendCap \in Nat \ {0} /\ QueueCap \in Nat \ {0} /\ EventCap \in Nat \ {0}

VARIABLES
    hub,            \* where Run is
    todo,           \* what is left of the broadcast or of the revalidation
    slow,           \* the target whose buffer was full
    clients,        \* h.clients
    clientCount,
    subs,           \* h.subscriptions
    addSub, unsubByID, events,      \* the buffered channels
    send, closed,   \* client.send: its content, and whether it was closed
    reader,         \* where each ReadPump is
    asking,         \* the subscription a reader has checked and not yet queued
    writer,         \* whether each WritePump runs
    subCount,
    granted,        \* what the API server currently allows
    behind          \* an event for this client was dropped and no resync queued since

vars == <<hub, todo, slow, clients, clientCount, subs, addSub, unsubByID, events,
          send, closed, reader, asking, writer, subCount, granted, behind>>

queues == <<addSub, unsubByID, events>>
channels == <<send, closed>>
pumps == <<reader, asking, writer, subCount>>
ghosts == <<granted, behind>>
maps == <<clients, clientCount, subs>>

-----------------------------------------------------------------------------

Key == [kind : Kind, ns : Namespace \union {AllNs}]
Subscription == [client : Client, key : Key, id : SubId]
Message == [type : {"event", "resync", "subscribed", "error"}, id : SubId]

NoSub == [id |-> "none"]

Panics == {"sendOnClosed", "closeOfClosed"}
Down == {"stopped"} \union Panics
Up == hub \notin Down

Room(c) == Len(send[c]) < SendCap
Push(c, type, id) == send' = [send EXCEPT ![c] = Append(@, [type |-> type, id |-> id])]

\* select { case c.send <- data: default: }
SendOrDrop(c, type, id) ==
    IF Room(c) THEN Push(c, type, id) ELSE UNCHANGED send

SubsOf(c) == {s \in subs : s.client = c}

Init ==
    /\ hub = "select" /\ todo = {} /\ slow = NoSub
    /\ clients = {} /\ clientCount = 0 /\ subs = {}
    /\ addSub = <<>> /\ unsubByID = <<>> /\ events = <<>>
    /\ send = [c \in Client |-> <<>>]
    /\ closed = [c \in Client |-> FALSE]
    /\ reader = [c \in Client |-> "off"]
    /\ asking = [c \in Client |-> NoSub]
    /\ writer = [c \in Client |-> FALSE]
    /\ subCount = [c \in Client |-> 0]
    /\ granted = Client \X Key
    /\ behind = [c \in Client |-> FALSE]

-----------------------------------------------------------------------------
(* The hub goroutine *)

\* Mutant: the client stays in h.clients.
removeClientKeepsEntry(c, next) ==
    /\ subs' = subs \ SubsOf(c)
    /\ clients' = clients
    /\ clientCount' = clientCount - 1
    /\ closed' = [closed EXCEPT ![c] = TRUE]
    /\ hub' = IF closed[c] THEN "closeOfClosed" ELSE next

\* removeClient; closing a closed channel panics.
removeClient(c, next) ==
    /\ subs' = subs \ SubsOf(c)
    /\ clients' = clients \ {c}
    /\ clientCount' = clientCount - 1
    /\ closed' = [closed EXCEPT ![c] = TRUE]
    /\ hub' = IF closed[c] THEN "closeOfClosed" ELSE next

Register(c) ==
    /\ hub = "select"
    /\ reader[c] = "upgraded"
    /\ clients' = clients \union {c}
    /\ clientCount' = clientCount + 1
    /\ reader' = [reader EXCEPT ![c] = "auth"]
    /\ writer' = [writer EXCEPT ![c] = TRUE]
    /\ UNCHANGED <<hub, todo, slow, subs, queues, channels, asking, subCount, ghosts>>

\* Mutant: unregister trusts that the client is still there.
UnregisterAlways(c) ==
    /\ hub = "select"
    /\ reader[c] = "leaving"
    /\ reader' = [reader EXCEPT ![c] = "gone"]
    /\ removeClient(c, "select")
    /\ UNCHANGED <<todo, slow, queues, send, asking, writer, subCount, ghosts>>

Unregister(c) ==
    /\ hub = "select"
    /\ reader[c] = "leaving"
    /\ reader' = [reader EXCEPT ![c] = "gone"]
    /\ IF c \in clients THEN removeClient(c, "select")
                        ELSE UNCHANGED <<hub, maps, closed>>
    /\ UNCHANGED <<todo, slow, queues, send, asking, writer, subCount, ghosts>>

\* The map entry of (key, client) is set, whoever the client is by now.
AddSub ==
    /\ hub = "select"
    /\ addSub # <<>>
    /\ LET new == Head(addSub)
       IN  subs' = {s \in subs : s.client # new.client \/ s.key # new.key} \union {new}
    /\ addSub' = Tail(addSub)
    /\ UNCHANGED <<hub, todo, slow, clients, clientCount, unsubByID, events, channels, pumps, ghosts>>

\* The first entry found with the client and the id is deleted, if there is one.
Unsub ==
    /\ hub = "select"
    /\ unsubByID # <<>>
    /\ LET req == Head(unsubByID)
           found == {s \in SubsOf(req.client) : s.id = req.id}
       IN  IF found = {} THEN UNCHANGED subs ELSE \E s \in found : subs' = subs \ {s}
    /\ unsubByID' = Tail(unsubByID)
    /\ UNCHANGED <<hub, todo, slow, clients, clientCount, addSub, events, channels, pumps, ghosts>>

\* Clients subscribed to the event's namespace or to all; the exact one wins.
targets(key) ==
    LET exact == {s \in subs : s.key = key}
        all == {s \in subs : s.key = [key EXCEPT !.ns = AllNs]}
    IN  exact \union {s \in all : \A t \in exact : t.client # s.client}

TakeEvent ==
    /\ hub = "select"
    /\ events # <<>>
    /\ todo' = targets(Head(events))
    /\ hub' = IF todo' = {} THEN "select" ELSE "broadcast"
    /\ events' = Tail(events)
    /\ UNCHANGED <<slow, maps, addSub, unsubByID, channels, pumps, ghosts>>

After(rest, here) == IF rest = {} THEN "select" ELSE here

\* The non-blocking send to one target.
SendEvent(t) ==
    /\ ~closed[t.client]
    /\ Room(t.client)
    /\ Push(t.client, "event", t.id)
    /\ todo' = todo \ {t}
    /\ hub' = After(todo', "broadcast")
    /\ UNCHANGED <<slow, behind>>

BufferFull(t) ==
    /\ ~closed[t.client]
    /\ ~Room(t.client)
    /\ behind' = [behind EXCEPT ![t.client] = TRUE]
    /\ todo' = todo \ {t}
    /\ slow' = t
    /\ hub' = "resync"
    /\ UNCHANGED send

SendPanics(t) ==
    /\ closed[t.client]
    /\ hub' = "sendOnClosed"
    /\ UNCHANGED <<todo, slow, send, behind>>

Broadcast ==
    /\ hub = "broadcast"
    /\ \E t \in todo : SendEvent(t) \/ BufferFull(t) \/ SendPanics(t)
    /\ UNCHANGED <<maps, queues, closed, pumps, granted>>

\* Mutant: a resync that does not fit is dropped.
sendResyncOrDrop ==
    /\ hub = "resync"
    /\ SendOrDrop(slow.client, "resync", slow.id)
    /\ behind' = [behind EXCEPT ![slow.client] = ~Room(slow.client)]
    /\ hub' = After(todo, "broadcast")
    /\ slow' = NoSub
    /\ UNCHANGED <<todo, maps, closed, queues, pumps, granted>>

\* Sent if the writer has made room meanwhile, else the client is disconnected.
sendResync ==
    /\ hub = "resync"
    /\ LET c == slow.client
       IN  \/ /\ Room(c)
              /\ Push(c, "resync", slow.id)
              /\ behind' = [behind EXCEPT ![c] = FALSE]
              /\ hub' = After(todo, "broadcast")
              /\ UNCHANGED <<maps, closed>>
           \/ /\ ~Room(c)
              /\ removeClient(c, After(todo, "broadcast"))
              /\ UNCHANGED <<send, behind>>
    /\ slow' = NoSub
    /\ UNCHANGED <<todo, queues, pumps, granted>>

Denied == {s \in subs : s.key.kind \notin AlwaysAllow /\ <<s.client, s.key>> \notin granted}

\* Revalidation asks for every subscription first; a check that fails keeps it.
Revalidate(removals) ==
    /\ hub = "select"
    /\ todo' = removals
    /\ hub' = After(removals, "revoke")
    /\ UNCHANGED <<slow, maps, queues, channels, pumps, ghosts>>

\* Mutant: the client is told and the entry stays.
RevokeTellsOnly ==
    /\ hub = "revoke"
    /\ \E r \in todo :
        /\ todo' = todo \ {r}
        /\ IF closed[r.client]
           THEN hub' = "sendOnClosed" /\ UNCHANGED send
           ELSE hub' = After(todo', "revoke") /\ SendOrDrop(r.client, "error", r.id)
    /\ UNCHANGED <<slow, maps, queues, closed, pumps, ghosts>>

\* Then every refused one is deleted and its client told.
Revoke ==
    /\ hub = "revoke"
    /\ \E r \in todo :
        /\ subs' = {s \in subs : s.client # r.client \/ s.key # r.key}
        /\ todo' = todo \ {r}
        /\ IF closed[r.client]
           THEN hub' = "sendOnClosed" /\ UNCHANGED send
           ELSE hub' = After(todo', "revoke") /\ SendOrDrop(r.client, "error", r.id)
    /\ UNCHANGED <<slow, clients, clientCount, queues, closed, pumps, ghosts>>

\* ctx.Done: every client is removed and the loop returns.
Shutdown ==
    /\ hub = "select"
    /\ hub' = IF \E c \in clients : closed[c] THEN "closeOfClosed" ELSE "stopped"
    /\ closed' = [c \in Client |-> closed[c] \/ c \in clients]
    /\ subs' = {s \in subs : s.client \notin clients}
    /\ clients' = {}
    /\ clientCount' = clientCount - Cardinality(clients)
    /\ UNCHANGED <<todo, slow, queues, send, pumps, ghosts>>

-----------------------------------------------------------------------------
(* The connection's goroutines *)

hubVars == <<hub, todo, slow, maps>>

\* The upgrade handler checks the count, upgrades, and waits to register.
Accept(c) ==
    /\ Up
    /\ reader[c] = "off"
    /\ clientCount < MaxClients
    /\ reader' = [reader EXCEPT ![c] = "upgraded"]
    /\ UNCHANGED <<hubVars, queues, channels, asking, writer, subCount, ghosts>>

\* waitForAuth, or any failed read: the reader is on its way to unregister.
ReadFails(c) ==
    /\ Up
    /\ reader[c] \in {"auth", "reading"}
    /\ reader' = [reader EXCEPT ![c] = "leaving"]
    /\ UNCHANGED <<hubVars, queues, channels, asking, writer, subCount, ghosts>>

Authenticated(c) ==
    /\ Up
    /\ reader[c] = "auth"
    /\ reader' = [reader EXCEPT ![c] = "reading"]
    /\ UNCHANGED <<hubVars, queues, channels, asking, writer, subCount, ghosts>>

\* The reader answers its client; on a closed channel it panics, recovers and
\* leaves.
Respond(c, type, id) ==
    /\ reader' = [reader EXCEPT ![c] = IF closed[c] THEN "leaving" ELSE "reading"]
    /\ IF closed[c] THEN UNCHANGED send ELSE SendOrDrop(c, type, id)
    /\ UNCHANGED closed

Allowed(c, key) == key.kind \in AlwaysAllow \/ <<c, key>> \in granted

\* handleSubscribe refused: too many, a failed check or a denied one.
SubscribeRefused(c) ==
    /\ Up
    /\ reader[c] = "reading"
    /\ \E id \in SubId : Respond(c, "error", id)
    /\ UNCHANGED <<hubVars, queues, asking, writer, subCount, ghosts>>

\* handleSubscribe up to the send on addSub.
Subscribe(c) ==
    /\ Up
    /\ reader[c] = "reading"
    /\ subCount[c] < MaxSubs
    /\ \E key \in Key, id \in SubId :
        /\ Allowed(c, key)
        /\ asking' = [asking EXCEPT ![c] = [client |-> c, key |-> key, id |-> id]]
    /\ subCount' = [subCount EXCEPT ![c] = @ + 1]
    /\ reader' = [reader EXCEPT ![c] = "subscribing"]
    /\ UNCHANGED <<hubVars, queues, channels, writer, ghosts>>

\* The send on addSub waits for room.
QueueSubscription(c) ==
    /\ Up
    /\ reader[c] = "subscribing"
    /\ Len(addSub) < QueueCap
    /\ addSub' = Append(addSub, asking[c])
    /\ asking' = [asking EXCEPT ![c] = NoSub]
    /\ Respond(c, "subscribed", asking[c].id)
    /\ UNCHANGED <<hubVars, unsubByID, events, writer, subCount, ghosts>>

\* handleUnsubscribe.
Unsubscribe(c) ==
    /\ Up
    /\ reader[c] = "reading"
    /\ Len(unsubByID) < QueueCap
    /\ \E id \in SubId :
        unsubByID' = Append(unsubByID, [client |-> c, id |-> id])
    /\ subCount' = [subCount EXCEPT ![c] = IF @ > 0 THEN @ - 1 ELSE @]
    /\ UNCHANGED <<hubVars, addSub, events, channels, reader, asking, writer, ghosts>>

\* WritePump writes one message.
Deliver(c) ==
    /\ Up
    /\ writer[c]
    /\ send[c] # <<>>
    /\ send' = [send EXCEPT ![c] = Tail(@)]
    /\ UNCHANGED <<hubVars, queues, closed, pumps, ghosts>>

\* A write fails, or the closed channel is drained: the connection is closed.
WriterStops(c) ==
    /\ Up
    /\ writer[c]
    /\ writer' = [writer EXCEPT ![c] = FALSE]
    /\ UNCHANGED <<hubVars, queues, channels, reader, asking, subCount, ghosts>>

\* An informer callback; a full channel drops the event.
HandleEvent ==
    /\ Up
    /\ \E key \in Key :
        events' = IF Len(events) < EventCap THEN Append(events, key) ELSE events
    /\ UNCHANGED <<hubVars, addSub, unsubByID, channels, pumps, ghosts>>

\* An administrator changes what a user may list; alwaysAllowKinds are not
\* Kubernetes resources.
ChangeAccess ==
    /\ Up
    /\ \E c \in Client, key \in {k \in Key : k.kind \notin AlwaysAllow} :
        granted' = IF <<c, key>> \in granted THEN granted \ {<<c, key>>}
                                             ELSE granted \union {<<c, key>>}
    /\ UNCHANGED <<hubVars, queues, channels, pumps, behind>>

-----------------------------------------------------------------------------

HubStep ==
    \/ AddSub \/ Unsub \/ TakeEvent \/ Broadcast \/ sendResync \/ Revoke
    \/ \E c \in Client : Register(c) \/ Unregister(c)
    \/ \E removals \in SUBSET Denied : Revalidate(removals)
    \/ Shutdown

ClientStep(c) ==
    \/ Accept(c) \/ ReadFails(c) \/ Authenticated(c)
    \/ SubscribeRefused(c) \/ Subscribe(c) \/ QueueSubscription(c) \/ Unsubscribe(c)
    \/ Deliver(c) \/ WriterStops(c)

Next ==
    \/ HubStep
    \/ \E c \in Client : ClientStep(c)
    \/ HandleEvent
    \/ ChangeAccess

Spec == Init /\ [][Next]_vars

\* Go's select picks among the ready channels at random, so that one ready
\* again and again is taken; the ticker fires every five minutes and its checks
\* do not fail for ever; the hub and a blocked reader run on.
Fairness ==
    /\ WF_vars(Broadcast) /\ WF_vars(sendResync) /\ WF_vars(Revoke)
    /\ SF_vars(AddSub) /\ SF_vars(Unsub) /\ SF_vars(TakeEvent)
    /\ SF_vars(Revalidate(Denied) /\ Denied # {})
    /\ \A c \in Client : SF_vars(Unregister(c)) /\ SF_vars(QueueSubscription(c))

FairSpec == Spec /\ Fairness

-----------------------------------------------------------------------------
(* Properties *)

\* Every variable keeps its type: channels within their buffers, subCount
\* between zero and maxSubscriptions.
TypeOK ==
    /\ hub \in {"select", "broadcast", "resync", "revoke"} \union Down
    /\ todo \subseteq Subscription
    /\ slow \in Subscription \union {NoSub}
    /\ clients \subseteq Client
    /\ clientCount \in Nat
    /\ subs \subseteq Subscription
    /\ addSub \in Seq(Subscription) /\ Len(addSub) <= QueueCap
    /\ unsubByID \in Seq([client : Client, id : SubId]) /\ Len(unsubByID) <= QueueCap
    /\ events \in Seq(Key) /\ Len(events) <= EventCap
    /\ send \in [Client -> Seq(Message)]
    /\ \A c \in Client : Len(send[c]) <= SendCap
    /\ closed \in [Client -> BOOLEAN]
    /\ reader \in [Client -> {"off", "upgraded", "auth", "reading", "subscribing",
                              "leaving", "gone"}]
    /\ asking \in [Client -> Subscription \union {NoSub}]
    /\ writer \in [Client -> BOOLEAN]
    /\ subCount \in [Client -> 0 .. MaxSubs]
    /\ granted \subseteq Client \X Key
    /\ behind \in [Client -> BOOLEAN]

\* A channel is closed once: by the slow-client path, by unregister or by
\* shutdown, whichever comes first, and a client on the map is never closed.
ClosedOnce ==
    /\ hub # "closeOfClosed"
    /\ \A c \in clients : ~closed[c]
    /\ clientCount = Cardinality(clients)

\* "sending a resync notification instead": between two selects a connected
\* client whose event was dropped by the broadcast has a resync_required queued.
NoSilentLoss == hub = "select" => \A c \in clients : ~behind[c]

\* "removes any where the user no longer has access": access that stays revoked
\* ends the subscription, even one that was checked before the revocation and
\* queued after the revalidation.
RevokedEnds ==
    \A c \in Client, key \in Key : key.kind \notin AlwaysAllow =>
        (<>[](<<c, key>> \notin granted) =>
            <>[](~Up \/ \A s \in SubsOf(c) : s.key # key))

\* A connection whose reader ended leaves the map.
LeaversRemoved ==
    \A c \in Client : reader[c] = "leaving" ~> (~Up \/ c \notin clients)

\* "Hub.Run() has no recover": the loop ends by shutdown only.
HubSurvives == hub # "sendOnClosed"
=============================================================================
