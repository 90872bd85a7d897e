---------------------------- MODULE Notifications ----------------------------
(***************************************************************************)
(* From a change of the device to the clients that watch it: the event bus *)
(* (internal/event), the NETCONF dispatcher with its subscriptions         *)
(* (internal/netconf/notif), the NETCONF server with the connections and   *)
(* sessions that ask for them (internal/netconf), the gNMI ON_CHANGE       *)
(* streams (internal/gnmi/subscribe.go) and the SNMP trap sender           *)
(* (internal/snmp/trap.go).                                                *)
(*                                                                         *)
(* The n-th change of the device publishes event n, which stands for its   *)
(* content too.  Every channel is bounded and drops what does not fit.     *)
(***************************************************************************)
EXTENDS Naturals, Sequences, FiniteSets

CONSTANTS
    Sessions,       \* NETCONF sessions
    Streams,        \* gNMI STREAM subscriptions
    Buffer,         \* event.DefaultBuffer, the capacity of every channel
    MaxEvents,      \* bound on the changes of the device
    Casts,          \* who takes part: the sessions that are up and that come late, the
                    \* subscriptions of each, streams, unruly clients, events, a stop
    Watched,        \* the events whose delivery is followed
    Trapped,        \* the events that trapFor maps to a trap
    None

ASSUME BufferIsPositive == Buffer \in Nat \ {0}

ASSUME Named == {"dispatcher", "traps"} \cap Streams = {} /\ None \notin Nat

ASSUME CastAssumption == \A c \in Casts : c.traps \in BOOLEAN

VARIABLES
    data,       \* the number of the last change in the running datastore
    published,  \* the number of the last event published
    bus,        \* the bus channel of each subscriber: is it open, and its queue
    ctx,        \* the process: "running", "cancelled", "closed" with its bus
    disp,       \* the dispatcher: the event in hand and who is still to get it
    subs,       \* Dispatcher.subs: the subscriptions that are registered
    queue,      \* Subscription.out
    stopped,    \* Subscription.done is closed
    writer,     \* writeLoop of a subscription: where it is, the event it sends
    server,     \* the NETCONF server: it is closed, Serve has returned, the
                \* connections it tracks, and those that Close has closed
    session,    \* a client is "away", "accepted", "tracked" until the hellos are
                \* exchanged, "up", "closing" after its last message, or "ended"
    reading,    \* does the client read its stream
    sent,       \* what was written to the stream of each session
    lost,       \* the events dropped at the queue of a subscription
    stream,     \* a gNMI stream: where it is, the data it sent last, the event
                \* in hand
    trap,       \* the trap sender: where it is, the event in hand, and the event
                \* and the data of the last trap
    cast

dispVars == <<disp, subs, queue, stopped, writer, lost>>

sessVars == <<server, session, reading, sent>>

vars == <<data, published, bus, ctx, dispVars, sessVars, stream, trap, cast>>

Subscribers == {"dispatcher", "traps"} \cup Streams

\* The subscriptions of a session are numbered.
Subscription == Sessions \X (1..2)

Subs(s) == {k \in Subscription : k[1] = s}

\* There is room in a channel.
Fits(q) == Len(q) < Buffer
-----------------------------------------------------------------------------
(***************************************************************************)
(* The bus.  Each of its methods runs under Bus.mu.                        *)
(***************************************************************************)

\* A change reaches running before its event is published.  Planes that change
\* running side by side are left out: one change waits for its event at a time.
Change ==
    /\ ctx = "running"
    /\ data = published /\ data < cast.events
    /\ data' = data + 1
    /\ UNCHANGED <<published, bus, ctx, dispVars, sessVars, stream, trap, cast>>

Publish ==
    /\ published < data
    /\ published' = data
    /\ bus' = [c \in Subscribers |->
                 IF bus[c].open /\ Fits(bus[c].queue)
                 THEN [bus[c] EXCEPT !.queue = Append(@, data)] ELSE bus[c]]
    /\ UNCHANGED <<data, ctx, dispVars, sessVars, stream, trap, cast>>

\* Bus.Unsubscribe: the channel is closed; its reader may still drain it.
Unsubscribe(c) == [bus EXCEPT ![c].open = FALSE]

Cancel ==
    /\ ctx = "running" /\ cast.stops
    /\ ctx' = "cancelled"
    /\ UNCHANGED <<data, published, bus, dispVars, sessVars, stream, trap, cast>>

\* Bus.Close, when run returns.
CloseBus ==
    /\ ctx = "cancelled"
    /\ ctx' = "closed"
    /\ bus' = [c \in Subscribers |-> [bus[c] EXCEPT !.open = FALSE]]
    /\ UNCHANGED <<data, published, dispVars, sessVars, stream, trap, cast>>
-----------------------------------------------------------------------------
(***************************************************************************)
(* The dispatcher: one goroutine receives, takes the registered            *)
(* subscriptions under Dispatcher.mu, and queues the event for each.       *)
(***************************************************************************)
DispReceive ==
    /\ disp.at = "select" /\ disp.targets = {}
    /\ bus["dispatcher"].queue # << >>
    /\ disp' = [disp EXCEPT !.at = "event", !.event = Head(bus["dispatcher"].queue)]
    /\ bus' = [bus EXCEPT !["dispatcher"].queue = Tail(@)]
    /\ UNCHANGED <<data, published, ctx, subs, queue, stopped, writer, lost, sessVars, stream, trap, cast>>

\* Mutant: the dispatcher waits for room in every queue.
dispatchWaits ==
    /\ disp.at = "event"
    /\ \A k \in subs : Fits(queue[k])
    /\ disp' = [disp EXCEPT !.at = "select", !.targets = subs]
    /\ UNCHANGED <<data, published, bus, ctx, subs, queue, stopped, writer, lost, sessVars, stream,
                   trap, cast>>

dispatch ==
    /\ disp.at = "event"
    /\ disp' = [disp EXCEPT !.at = "select", !.targets = subs]
    /\ UNCHANGED <<data, published, bus, ctx, subs, queue, stopped, writer, lost, sessVars, stream,
                   trap, cast>>

deliver(k) ==
    /\ k \in disp.targets
    /\ disp' = [disp EXCEPT !.targets = @ \ {k}]
    /\ queue' = [queue EXCEPT ![k] = IF Fits(@) THEN Append(@, disp.event) ELSE @]
    /\ lost' = [lost EXCEPT ![k] = IF Fits(queue[k]) THEN @ ELSE @ \cup {disp.event}]
    /\ UNCHANGED <<data, published, bus, ctx, subs, stopped, writer, sessVars, stream, trap, cast>>

DispReturn ==
    /\ disp.at = "select" /\ disp.targets = {}
    /\ \/ ctx # "running"
       \/ ~ bus["dispatcher"].open /\ bus["dispatcher"].queue = << >>
    /\ disp' = [disp EXCEPT !.at = "returned"]
    /\ UNCHANGED <<data, published, bus, ctx, subs, queue, stopped, writer, lost, sessVars, stream,
                   trap, cast>>

\* Dispatcher.Close, in the hold of Server.mu of Server.Close.
CloseDispatcher ==
    /\ disp' = [disp EXCEPT !.closed = TRUE]
    /\ subs' = {}
    /\ bus' = Unsubscribe("dispatcher")
    /\ stopped' = stopped \cup subs
-----------------------------------------------------------------------------
(***************************************************************************)
(* The server.  Serve accepts until Close closes the listener, and returns *)
(* when the dispatcher and every connection are done.                      *)
(***************************************************************************)
\* Mutant: the open connections are left to their clients.
CloseLeavesConns ==
    /\ ctx # "running" /\ ~ server.closed
    /\ server' = [server EXCEPT !.closed = TRUE]
    /\ CloseDispatcher
    /\ UNCHANGED <<data, published, ctx, queue, writer, lost, session, reading, sent, stream, trap, cast>>

Close ==
    /\ ctx # "running" /\ ~ server.closed
    /\ server' = [server EXCEPT !.closed = TRUE, !.broken = server.conns]
    /\ CloseDispatcher
    /\ UNCHANGED <<data, published, ctx, queue, writer, lost, session, reading, sent, stream, trap, cast>>

\* A step of the connection of s that touches nothing else.
ConnStep(s, from, to) ==
    /\ session[s] = from
    /\ session' = [session EXCEPT ![s] = to]
    /\ UNCHANGED <<data, published, bus, ctx, dispVars, reading, sent, stream, trap, cast>>

Accept(s) == s \in cast.late /\ ~ server.closed /\ ConnStep(s, "away", "accepted") /\ UNCHANGED server

track(s) ==
    /\ ConnStep(s, "accepted", "tracked")
    /\ server' = [server EXCEPT !.conns = @ \cup {s}]

\* The SSH handshake, the subsystem request and the two hellos.
Hello(s) == s \notin server.broken /\ ConnStep(s, "tracked", "up") /\ UNCHANGED server

Alive(s) == session[s] \in {"accepted", "tracked", "up", "closing"}

ServeReturns ==
    /\ server.closed /\ ~ server.returned /\ disp.at = "returned"
    /\ \A s \in Sessions : ~ Alive(s)
    /\ server' = [server EXCEPT !.returned = TRUE]
    /\ UNCHANGED <<data, published, bus, ctx, dispVars, session, reading, sent, stream, trap, cast>>
-----------------------------------------------------------------------------
(***************************************************************************)
(* Sessions.  A second create-subscription replaces the first.             *)
(***************************************************************************)
\* The next subscription of the session, within its bound.
NewSub(s, k) ==
    /\ k[2] <= cast.subs[s]
    /\ writer[k].at = "none"
    /\ \A h \in Subs(s) : h[2] < k[2] => writer[h].at # "none"

\* Mutant: the previous subscription stays registered.
SubscribeAdds(s) ==
    \E k \in Subs(s) :
        /\ NewSub(s, k)
        /\ writer' = [writer EXCEPT ![k].at = "select"]
        /\ IF disp.closed
           THEN stopped' = stopped \cup {k} /\ UNCHANGED subs
           ELSE subs' = subs \cup {k} /\ UNCHANGED stopped
        /\ UNCHANGED <<bus, disp, queue, lost>>

Subscribe(s) ==
    \E k \in Subs(s) :
        /\ NewSub(s, k)
        /\ writer' = [writer EXCEPT ![k].at = "select"]
        /\ IF disp.closed
           THEN stopped' = stopped \cup {k} /\ UNCHANGED subs
           ELSE /\ subs' = (subs \ Subs(s)) \cup {k}
                /\ stopped' = stopped \cup (subs \cap Subs(s))
        /\ UNCHANGED <<bus, disp, queue, lost>>

\* The operations that end a session, the ones that fail or leave the
\* subscriptions alone, and create-subscription.
Operations == {"create-subscription", "close-session", "malformed", "other"}

\* handleMessage, then the check of the context at the head of run's loop.
handleMessage(s, op) ==
    /\ session[s] = "up" /\ reading[s] /\ s \notin server.broken
    /\ op \in {"close-session", "malformed"} => s \in cast.unruly
    /\ session' = [session EXCEPT ![s] =
                     IF op \in {"close-session", "malformed"} \/ ctx # "running"
                     THEN "closing" ELSE "up"]
    /\ IF op = "create-subscription" THEN Subscribe(s) ELSE UNCHANGED <<bus, dispVars>>
    /\ UNCHANGED <<data, published, ctx, server, reading, sent, stream, trap, cast>>

\* Mutant: the subscription is forgotten but not stopped.
sessionEndedLeaks(s) ==
    /\ Alive(s)
    /\ session' = [session EXCEPT ![s] = "ended"]
    /\ server' = [server EXCEPT !.conns = @ \ {s}]
    /\ subs' = subs \ Subs(s)
    /\ UNCHANGED <<data, published, bus, ctx, disp, queue, stopped, writer, lost, reading, sent,
                   stream, trap, cast>>

\* The session and its connection end, whatever they had come to.  In the code a
\* connection can outlive its session; it then ends as this one would, when its
\* client leaves or Close closes it.
sessionEnded(s) ==
    /\ Alive(s)
    /\ session' = [session EXCEPT ![s] = "ended"]
    /\ server' = [server EXCEPT !.conns = @ \ {s}]
    /\ subs' = subs \ Subs(s)
    /\ stopped' = stopped \cup (subs \cap Subs(s))
    /\ UNCHANGED <<data, published, bus, ctx, disp, queue, writer, lost, reading, sent, stream, trap, cast>>

\* After the last message; when the client goes away; when Close has closed
\* the connection, which fails the read and the write of its session.
SessionReturns(s) == session[s] = "closing" /\ sessionEnded(s)

ClientLeaves(s) == s \in cast.unruly /\ session[s] # "accepted" /\ sessionEnded(s)

ConnClosed(s) == s \in server.broken /\ sessionEnded(s)

\* The client does not read any more: a write to its stream blocks.
Stall(s) ==
    /\ s \in cast.unruly /\ session[s] = "up" /\ reading[s]
    /\ reading' = [reading EXCEPT ![s] = FALSE]
    /\ UNCHANGED <<data, published, bus, ctx, dispVars, server, session, sent, stream, trap, cast>>
-----------------------------------------------------------------------------
(***************************************************************************)
(* writeLoop.  Its select takes either branch when both are ready.         *)
(***************************************************************************)
WriterTake(k) ==
    /\ writer[k].at = "select" /\ queue[k] # << >>
    /\ writer' = [writer EXCEPT ![k] = [at |-> "send", event |-> Head(queue[k])]]
    /\ queue' = [queue EXCEPT ![k] = Tail(@)]
    /\ UNCHANGED <<data, published, bus, ctx, disp, subs, stopped, lost, sessVars, stream, trap, cast>>

WriterStops(k) ==
    /\ writer[k].at = "select" /\ k \in stopped
    /\ writer' = [writer EXCEPT ![k].at = "exited"]
    /\ UNCHANGED <<data, published, bus, ctx, disp, subs, queue, stopped, lost, sessVars, stream, trap, cast>>

send(k) ==
    /\ writer[k].at = "send"
    /\ session[k[1]] \in {"up", "closing"} /\ reading[k[1]] /\ k[1] \notin server.broken
    /\ sent' = [sent EXCEPT ![k[1]] = Append(@, [event |-> writer[k].event, sub |-> k])]
    /\ writer' = [writer EXCEPT ![k].at = "select"]
    /\ UNCHANGED <<data, published, bus, ctx, disp, subs, queue, stopped, lost, server, session,
                   reading, stream, trap, cast>>

SendFails(k) ==
    /\ writer[k].at = "send" /\ (session[k[1]] = "ended" \/ k[1] \in server.broken)
    /\ writer' = [writer EXCEPT ![k].at = "exited"]
    /\ UNCHANGED <<data, published, bus, ctx, disp, subs, queue, stopped, lost, sessVars, stream, trap, cast>>

writeLoop(k) == WriterTake(k) \/ WriterStops(k) \/ send(k) \/ SendFails(k)
-----------------------------------------------------------------------------
(***************************************************************************)
(* subscribeOnChange: the snapshot, the sync_response, then the bus.  The  *)
(* data of a notification is read when it is sent.                         *)
(***************************************************************************)
StreamStep(g, from, to) ==
    /\ stream[g].at = from
    /\ stream' = [stream EXCEPT ![g] = to]
    /\ UNCHANGED <<data, published, ctx, dispVars, sessVars, trap, cast>>

sendSnapshot(g) ==
    /\ g \in cast.streams /\ ctx = "running"
    /\ StreamStep(g, "idle", [stream[g] EXCEPT !.at = "snapshot", !.sent = data])
    /\ UNCHANGED bus

\* updates_only: no snapshot is sent.
UpdatesOnly(g) ==
    /\ g \in cast.streams /\ ctx = "running"
    /\ StreamStep(g, "idle", [stream[g] EXCEPT !.at = "snapshot"])
    /\ UNCHANGED bus

sendSyncResponse(g) ==
    /\ StreamStep(g, "snapshot", [stream[g] EXCEPT !.at = "synced"])
    /\ UNCHANGED bus

\* On a closed bus the channel is closed at once.
StreamSubscribe(g) ==
    /\ StreamStep(g, "synced", [stream[g] EXCEPT !.at = "on"])
    /\ bus' = [bus EXCEPT ![g].open = (ctx # "closed")]

StreamReceive(g) ==
    /\ stream[g].event = None /\ bus[g].queue # << >>
    /\ StreamStep(g, "on", [stream[g] EXCEPT !.event = Head(bus[g].queue)])
    /\ bus' = [bus EXCEPT ![g].queue = Tail(@)]

\* Mutant: the stream sends what it has read before.
sendEventCached(g) ==
    /\ stream[g].event # None
    /\ StreamStep(g, "on", [stream[g] EXCEPT !.event = None])
    /\ UNCHANGED bus

sendEvent(g) ==
    /\ stream[g].event # None
    /\ StreamStep(g, "on", [stream[g] EXCEPT !.sent = data, !.event = None])
    /\ UNCHANGED bus

\* The client goes away, a send fails, or the server stops.
StreamEnds(g) ==
    /\ \E at \in {"snapshot", "synced", "on"} :
           StreamStep(g, at, [stream[g] EXCEPT !.at = "done", !.event = None])
    /\ bus' = [bus EXCEPT ![g] = [open |-> FALSE, queue |-> << >>]]
-----------------------------------------------------------------------------
(***************************************************************************)
(* TrapSender.Run.  A trap carries what the device holds when it is built, *)
(* not when the event was published, and is sent once: UDP may lose it.    *)
(***************************************************************************)
TrapStep(from, to) ==
    /\ trap.at = from
    /\ trap' = to
    /\ UNCHANGED <<data, published, ctx, dispVars, sessVars, stream, cast>>

TrapReceive ==
    /\ bus["traps"].queue # << >>
    /\ TrapStep("select", [trap EXCEPT !.at = "send", !.event = Head(bus["traps"].queue)])
    /\ bus' = [bus EXCEPT !["traps"].queue = Tail(@)]

trapFor(e) == e \in Trapped

\* Send: an event that is no trap is dropped, and so is a trap whose write fails.
Send ==
    /\ TrapStep("send", [trap EXCEPT !.at = "select",
                                     !.last = IF trapFor(trap.event)
                                              THEN [event |-> trap.event, data |-> data] ELSE @])
    /\ UNCHANGED bus

TrapSendFails ==
    /\ TrapStep("send", [trap EXCEPT !.at = "select"])
    /\ UNCHANGED bus

TrapReturn ==
    /\ ctx # "running" \/ (~ bus["traps"].open /\ bus["traps"].queue = << >>)
    /\ TrapStep("select", [trap EXCEPT !.at = "returned"])
    /\ bus' = Unsubscribe("traps")
-----------------------------------------------------------------------------
Init ==
    /\ cast \in Casts
    /\ data = 0 /\ published = 0
    /\ bus = [c \in Subscribers |-> [open |-> (c = "dispatcher" \/ (c = "traps" /\ cast.traps)),
                                      queue |-> << >>]]
    /\ ctx = "running"
    /\ disp = [at |-> "select", event |-> 0, targets |-> {}, closed |-> FALSE]
    /\ subs = {} /\ stopped = {}
    /\ queue = [k \in Subscription |-> << >>]
    /\ writer = [k \in Subscription |-> [at |-> "none", event |-> 0]]
    /\ lost = [k \in Subscription |-> {}]
    /\ session = [s \in Sessions |-> IF s \in cast.up THEN "up" ELSE "away"]
    /\ server = [closed |-> FALSE, returned |-> FALSE, conns |-> cast.up, broken |-> {}]
    /\ reading = [s \in Sessions |-> TRUE]
    /\ sent = [s \in Sessions |-> << >>]
    /\ stream = [g \in Streams |-> [at |-> "idle", sent |-> None, event |-> None]]
    /\ trap = [at   |-> IF cast.traps THEN "select" ELSE "returned", event |-> 0,
               last |-> [event |-> 0, data |-> 0]]

Next ==
    \/ Change \/ Publish \/ Cancel \/ CloseBus
    \/ DispReceive \/ dispatch \/ DispReturn
    \/ Close \/ ServeReturns
    \/ TrapReceive \/ Send \/ TrapSendFails \/ TrapReturn
    \/ \E k \in Subscription : deliver(k) \/ writeLoop(k)
    \/ \E s \in Sessions : \/ Accept(s) \/ track(s) \/ Hello(s)
                           \/ \E op \in Operations : handleMessage(s, op)
                           \/ SessionReturns(s) \/ ClientLeaves(s) \/ ConnClosed(s)
                           \/ Stall(s)
    \/ \E g \in Streams : \/ sendSnapshot(g) \/ UpdatesOnly(g) \/ sendSyncResponse(g)
                          \/ StreamSubscribe(g) \/ StreamReceive(g) \/ sendEvent(g)
                          \/ StreamEnds(g)

(***************************************************************************)
(* The goroutines of the dispatcher and of the writers are scheduled, and  *)
(* a process that is cancelled closes its connections.  Clients owe        *)
(* nothing: they may stop reading, or stay.                                *)
(***************************************************************************)
Fairness ==
    /\ WF_vars(DispReceive \/ dispatch)
    /\ WF_vars(DispReturn) /\ WF_vars(Close) /\ WF_vars(ServeReturns)
    /\ \A k \in Subscription : WF_vars(deliver(k)) /\ WF_vars(writeLoop(k))
    /\ \A s \in Sessions : WF_vars(SessionReturns(s)) /\ WF_vars(ConnClosed(s))

Spec == Init /\ [][Next]_vars

FairSpec == Spec /\ Fairness
-----------------------------------------------------------------------------
Events == 0..MaxEvents

Channel == UNION {[1..n -> Events] : n \in 0..Buffer}

\* The type invariant; no channel ever holds more than its capacity.
TypeOK ==
    /\ data \in Events /\ published \in Events
    /\ bus \in [Subscribers -> [open : BOOLEAN, queue : Channel]]
    /\ ctx \in {"running", "cancelled", "closed"}
    /\ disp \in [at : {"select", "event", "returned"}, event : Events,
                 targets : SUBSET Subscription, closed : BOOLEAN]
    /\ subs \subseteq Subscription /\ stopped \subseteq Subscription
    /\ queue \in [Subscription -> Channel]
    /\ writer \in [Subscription -> [at : {"none", "select", "send", "exited"}, event : Events]]
    /\ lost \in [Subscription -> SUBSET Events]
    /\ server \in [closed : BOOLEAN, returned : BOOLEAN,
                   conns : SUBSET Sessions, broken : SUBSET Sessions]
    /\ session \in [Sessions -> {"away", "accepted", "tracked", "up", "closing", "ended"}]
    /\ reading \in [Sessions -> BOOLEAN]
    /\ trap \in [at : {"select", "send", "returned"}, event : Events,
                 last : [event : Events, data : Events]]
    /\ stream \in [Streams -> [at : {"idle", "snapshot", "synced", "on", "done"},
                               sent : Events \cup {None}, event : Events \cup {None}]]

(***************************************************************************)
(* A client is never told twice of one event, also when it replaces its    *)
(* subscription while the dispatcher is busy with the event; and within    *)
(* one subscription the order is that of publication, whatever is dropped. *)
(***************************************************************************)
OnceAndInOrder ==
    \A s \in Sessions : \A i, j \in DOMAIN sent[s] :
        i < j => /\ sent[s][i].event # sent[s][j].event
                 /\ sent[s][i].sub = sent[s][j].sub => sent[s][i].event < sent[s][j].event

(***************************************************************************)
(* A gNMI notification and a trap show the change that their event         *)
(* announced, or a later one; and a trap is sent once for its event and    *)
(* after the traps of the earlier ones.                                    *)
(***************************************************************************)
UpdatesAreFresh ==
    [][/\ \A g \in Streams : sendEvent(g) => /\ stream'[g].sent # None
                                             /\ stream'[g].sent >= stream[g].event
       /\ trap'.last # trap.last => /\ trap'.last.data >= trap'.last.event
                                    /\ trap'.last.event > trap.last.event]_vars

(***************************************************************************)
(* "one slow client can neither stall the dispatcher nor delay the other   *)
(* sessions": an event that waits for the dispatcher is written to every   *)
(* subscribed session that reads, unless the queue of that very session    *)
(* was full, although other clients do not read at all.                    *)
(***************************************************************************)
SlowClientsDoNotDelay ==
    \A k \in Subscription, e \in Watched :
        (k \in subs /\ \E i \in DOMAIN bus["dispatcher"].queue : bus["dispatcher"].queue[i] = e)
            ~> (\/ \E i \in DOMAIN sent[k[1]] : sent[k[1]][i].event = e
                \/ e \in lost[k] \/ k \notin subs \/ ~ reading[k[1]])

(***************************************************************************)
(* No writer outlives its session for long, also one that was blocked on a *)
(* client that did not read, one that was replaced, and one that was asked *)
(* for while the server closed.                                            *)
(***************************************************************************)
WritersEnd ==
    \A s \in Sessions :
        session[s] = "ended" ~> \A k \in Subs(s) : writer[k].at \in {"none", "exited"}

(***************************************************************************)
(* "closes every open one, which unblocks Serve" (Server.Close): once the  *)
(* process is cancelled and no connection is between Accept and track,     *)
(* Serve returns, with every session and the dispatcher ended, although no *)
(* client sends, reads or leaves, unless another one connects first.       *)
(***************************************************************************)
ServeUnblocks ==
    (ctx # "running" /\ ~ server.closed /\ \A s \in Sessions : session[s] # "accepted")
        ~> (server.returned \/ \E s \in Sessions : session[s] = "accepted")
=============================================================================
