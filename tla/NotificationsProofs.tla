------------------------- MODULE NotificationsProofs -------------------------
(***************************************************************************)
(* No client is told twice of an event and none out of order, for any      *)
(* number of sessions, streams and events and any capacity of the channels.*)
(*                                                                         *)
(* What was sent depends on what is still under way, so the invariant      *)
(* follows an event through the bus, the hands of the dispatcher, the      *)
(* queue of a subscription and its writer.                                 *)
(***************************************************************************)
EXTENDS Notifications, TLAPS

\* The events in a channel.
Elems(q) == {q[i] : i \in DOMAIN q}

Increasing(q) == \A i, j \in DOMAIN q : i < j => q[i] < q[j]

\* What subscription k has written, has in hand and has queued.
SentBy(k) ==
    {sent[k[1]][i].event : i \in {j \in DOMAIN sent[k[1]] : sent[k[1]][j].sub = k}}

InHand(k) == IF writer[k].at = "send" THEN {writer[k].event} ELSE {}

Carried(k) == SentBy(k) \cup InHand(k) \cup Elems(queue[k])

\* Every event of A comes before every event of B.
Before(A, B) == \A a \in A, b \in B : a < b

Typed ==
    /\ data \in Nat /\ published \in Nat
    /\ bus \in [Subscribers -> [open : BOOLEAN, queue : Seq(Nat)]]
    /\ disp \in [at : {"select", "event", "returned"}, event : Nat,
                 targets : SUBSET Subscription, closed : BOOLEAN]
    /\ subs \subseteq Subscription
    /\ queue \in [Subscription -> Seq(Nat)]
    /\ writer \in [Subscription -> [at : {"none", "select", "send", "exited"}, event : Nat]]
    /\ sent \in [Sessions -> Seq([event : Nat, sub : Subscription])]
    /\ stream \in [Streams -> [at : {"idle", "snapshot", "synced", "on", "done"},
                               sent : Nat \cup {None}, event : Nat \cup {None}]]
    /\ trap \in [at : {"select", "send", "returned"}, event : Nat,
                 last : [event : Nat, data : Nat]]
    /\ cast \in Casts

\* The bus hands out what was published, in order and to each reader once.
BusInOrder ==
    /\ published <= data
    /\ \A c \in Subscribers : /\ Increasing(bus[c].queue)
                              /\ \A e \in Elems(bus[c].queue) : e <= published
    /\ disp.event <= published
    /\ Before({disp.event}, Elems(bus["dispatcher"].queue))

\* A subscription passes its events on in order.
LinesInOrder ==
    \A k \in Subscription :
        /\ Increasing(queue[k])
        /\ Before(InHand(k), Elems(queue[k]))
        /\ Before(SentBy(k), InHand(k) \cup Elems(queue[k]))

\* One subscription of a session at a time is registered, and one at most is
\* to get the event in hand, which no other one of the session carries.
OneLine ==
    /\ \A k, h \in subs : k[1] = h[1] => k = h
    /\ \A k, h \in disp.targets : k[1] = h[1] => k = h
    /\ disp.at = "event" => disp.targets = {}
    /\ \A k \in Subscription : \A e \in Carried(k) :
           /\ e <= disp.event
           /\ disp.at = "event" => e < disp.event
           /\ \A h \in disp.targets : h[1] = k[1] => e < disp.event
    /\ \A k, h \in Subscription :
           k[1] = h[1] /\ k # h => Carried(k) \cap Carried(h) = {}

SentToOwner == \A s \in Sessions : \A i \in DOMAIN sent[s] : sent[s][i].sub[1] = s

\* What the readers of the device have in hand has happened.
ReadersBehind ==
    /\ \A g \in Streams : stream[g].event # None => stream[g].event <= data
    /\ trap.at = "send" => /\ trap.event <= published
                           /\ trap.last.event < trap.event
                           /\ Before({trap.event}, Elems(bus["traps"].queue))
    /\ trap.last.event <= published
    /\ Before({trap.last.event}, Elems(bus["traps"].queue))

\* The inductive invariant.
IInv ==
    /\ Typed /\ BusInOrder /\ LinesInOrder /\ OneLine /\ SentToOwner /\ ReadersBehind
    /\ OnceAndInOrder
-----------------------------------------------------------------------------
(***************************************************************************)
(* Channels.                                                               *)
(***************************************************************************)

\* A channel of events that a larger one is put into.
LEMMA AppendOrder ==
    ASSUME NEW q \in Seq(Nat), Increasing(q), NEW n \in Nat, Before(Elems(q), {n})
    PROVE  /\ Append(q, n) \in Seq(Nat)
           /\ Increasing(Append(q, n))
           /\ Elems(Append(q, n)) = Elems(q) \cup {n}
<1> DEFINE r == Append(q, n)
<1>1. r \in Seq(Nat) /\ Len(r) = Len(q) + 1 /\ r[Len(q) + 1] = n
      /\ \A i \in 1..Len(q) : r[i] = q[i]
  OBVIOUS
<1>2. DOMAIN q = 1..Len(q) /\ DOMAIN r = 1..(Len(q) + 1) /\ Len(q) \in Nat
  BY <1>1
<1>3. \A i \in 1..Len(q) : q[i] \in Nat /\ q[i] < n
  BY <1>2 DEF Before, Elems
<1> HIDE DEF r
<1>4. Increasing(r)
  <2> SUFFICES ASSUME NEW i \in 1..(Len(q) + 1), NEW j \in 1..(Len(q) + 1), i < j
               PROVE  r[i] < r[j]
    BY <1>2 DEF Increasing
  <2>1. i \in 1..Len(q)
    BY <1>2
  <2>2. CASE j \in 1..Len(q)
    BY <1>1, <1>2, <2>1, <2>2, Zenon DEF Increasing
  <2>3. CASE j = Len(q) + 1
    BY Zenon, <1>1, <1>3, <2>1, <2>3
  <2> QED
    BY <1>2, <2>2, <2>3
<1>5. Elems(r) = Elems(q) \cup {n}
  <2>1. ASSUME NEW e \in Elems(r) PROVE e \in Elems(q) \cup {n}
    <3>1. PICK i \in 1..(Len(q) + 1) : e = r[i]
      BY <1>2, <2>1 DEF Elems
    <3>2. i \in 1..Len(q) \/ i = Len(q) + 1
      BY <1>2
    <3> QED
      BY <1>1, <1>2, <3>1, <3>2, Zenon DEF Elems
  <2>2. ASSUME NEW e \in Elems(q) PROVE e \in Elems(r)
    <3>1. PICK i \in 1..Len(q) : e = q[i]
      BY <1>2, <2>2 DEF Elems
    <3>2. i \in 1..(Len(q) + 1) /\ e = r[i]
      BY <1>1, <1>2, <3>1
    <3> QED
      BY <1>2, <3>2 DEF Elems
  <2>3. n \in Elems(r)
    <3>1. Len(q) + 1 \in 1..(Len(q) + 1)
      BY <1>2
    <3> QED
      BY <1>1, <1>2, <3>1 DEF Elems
  <2> QED
    BY <2>1, <2>2, <2>3, Zenon
<1> QED
  BY <1>1, <1>4, <1>5 DEF r

\* The first event of a channel comes before those that stay in it.
LEMMA TailOrder ==
    ASSUME NEW q \in Seq(Nat), Increasing(q), q # << >>
    PROVE  /\ Head(q) \in Nat /\ Head(q) \in Elems(q)
           /\ Tail(q) \in Seq(Nat)
           /\ Increasing(Tail(q))
           /\ Elems(Tail(q)) \subseteq Elems(q)
           /\ Before({Head(q)}, Elems(Tail(q)))
<1> DEFINE r == Tail(q)
<1>1. /\ Len(q) \in Nat /\ Len(q) >= 1 /\ DOMAIN q = 1..Len(q)
      /\ Head(q) = q[1] /\ 1 \in DOMAIN q
  OBVIOUS
<1>2. /\ r \in Seq(Nat) /\ Len(r) = Len(q) - 1
      /\ \A i \in 1..(Len(q) - 1) : r[i] = q[i + 1]
  BY <1>1
<1>3. DOMAIN r = 1..(Len(q) - 1)
  BY <1>2
<1> HIDE DEF r
<1>4. \A i \in DOMAIN r : i + 1 \in DOMAIN q /\ r[i] = q[i + 1] /\ 1 < i + 1
  BY SMTT(30), <1>1, <1>2, <1>3
<1>5. Increasing(r)
  <2> SUFFICES ASSUME NEW i \in DOMAIN r, NEW j \in DOMAIN r, i < j PROVE r[i] < r[j]
    BY DEF Increasing
  <2>1. i + 1 < j + 1
    BY <1>1, <1>3
  <2> QED
    BY <1>4, <2>1 DEF Increasing
<1>6. Elems(r) \subseteq Elems(q)
  BY <1>4 DEF Elems
<1>7. Before({Head(q)}, Elems(r))
  BY <1>1, <1>4 DEF Before, Elems, Increasing
<1>8. Head(q) \in Nat /\ Head(q) \in Elems(q)
  BY <1>1 DEF Elems
<1> QED
  BY <1>2, <1>5, <1>6, <1>7, <1>8 DEF r

\* An empty channel.
LEMMA EmptyOrder == << >> \in Seq(Nat) /\ Increasing(<< >>) /\ Elems(<< >>) = {}
BY DEF Increasing, Elems
-----------------------------------------------------------------------------
(***************************************************************************)
(* What the parts of the invariant depend on.                              *)
(***************************************************************************)

\* The lines of the subscriptions.
LEMMA LinesFrame ==
    ASSUME IInv, UNCHANGED <<queue, writer, sent>>
    PROVE  /\ LinesInOrder' /\ SentToOwner' /\ OnceAndInOrder'
           /\ \A k \in Subscription : Carried(k)' = Carried(k)
<1>1. \A k \in Subscription : /\ SentBy(k)' = SentBy(k) /\ InHand(k)' = InHand(k)
                              /\ Elems(queue[k])' = Elems(queue[k])
  BY DEF SentBy, InHand, Elems
<1>2. LinesInOrder'
  BY <1>1 DEF IInv, LinesInOrder, Increasing, Before
<1>3. SentToOwner' /\ OnceAndInOrder'
  BY DEF IInv, SentToOwner, OnceAndInOrder
<1> QED
  BY <1>1, <1>2, <1>3 DEF Carried

\* The dispatcher, when no line gains an event or is added.
LEMMA OneLineFrame ==
    ASSUME IInv, disp.event' = disp.event, disp.targets' \subseteq disp.targets,
           disp.at' = disp.at \/ disp.at' # "event", subs' \subseteq subs,
           \A k \in Subscription : Carried(k)' \subseteq Carried(k)
    PROVE  OneLine'
<1>1. \A k, h \in subs' : k[1] = h[1] => k = h
  BY DEF IInv, OneLine
<1>2. /\ \A k, h \in disp.targets' : k[1] = h[1] => k = h
      /\ disp.at' = "event" => disp.targets' = {}
  BY DEF IInv, OneLine
<1>3. \A k \in Subscription : \A e \in Carried(k)' :
           /\ e <= disp.event'
           /\ disp.at' = "event" => e < disp.event'
           /\ \A h \in disp.targets' : h[1] = k[1] => e < disp.event'
  BY DEF IInv, OneLine
<1>4. ASSUME NEW k \in Subscription, NEW h \in Subscription, k[1] = h[1], k # h
      PROVE  Carried(k)' \cap Carried(h)' = {}
  <2>1. Carried(k) \cap Carried(h) = {}
    BY <1>4 DEF IInv, OneLine
  <2>2. Carried(k)' \subseteq Carried(k) /\ Carried(h)' \subseteq Carried(h)
    OBVIOUS
  <2> QED
    BY <2>1, <2>2
<1> QED
  BY <1>1, <1>2, <1>3, <1>4 DEF OneLine

\* The bus, when its channels lose events only and nothing is published.
LEMMA BusFrame ==
    ASSUME IInv, bus' \in [Subscribers -> [open : BOOLEAN, queue : Seq(Nat)]],
           published' = published, data' \in Nat, data' >= data,
           disp.event' = disp.event,
           \A c \in Subscribers : \/ bus'[c].queue = bus[c].queue
                                  \/ bus'[c].queue = << >>
                                  \/ bus[c].queue # << >> /\ bus'[c].queue = Tail(bus[c].queue)
    PROVE  /\ BusInOrder'
           /\ \A c \in Subscribers : Elems(bus'[c].queue) \subseteq Elems(bus[c].queue)
<1>1. \A c \in Subscribers : bus[c].queue \in Seq(Nat) /\ Increasing(bus[c].queue)
  BY DEF IInv, Typed, BusInOrder
<1>2. ASSUME NEW c \in Subscribers
      PROVE  /\ Increasing(bus'[c].queue)
             /\ Elems(bus'[c].queue) \subseteq Elems(bus[c].queue)
  <2>1. CASE bus'[c].queue = bus[c].queue
    BY <1>1, <2>1
  <2>2. CASE bus'[c].queue = << >>
    BY <2>2, EmptyOrder
  <2>3. CASE bus[c].queue # << >> /\ bus'[c].queue = Tail(bus[c].queue)
    <3> DEFINE q == bus[c].queue
    <3>1. q \in Seq(Nat) /\ Increasing(q) /\ q # << >>
      BY <1>1, <2>3
    <3> HIDE DEF q
    <3>2. Increasing(Tail(q)) /\ Elems(Tail(q)) \subseteq Elems(q)
      BY <3>1, TailOrder, Zenon
    <3> QED
      BY <2>3, <3>2 DEF q
  <2> QED
    BY <2>1, <2>2, <2>3
<1>3. /\ published <= data /\ published \in Nat /\ data \in Nat
      /\ \A c \in Subscribers : \A e \in Elems(bus[c].queue) : e <= published
      /\ disp.event <= published
      /\ Before({disp.event}, Elems(bus["dispatcher"].queue))
      /\ "dispatcher" \in Subscribers
  BY DEF IInv, Typed, BusInOrder, Subscribers
<1>4. published' <= data'
  BY <1>3
<1>5. \A c \in Subscribers : /\ Increasing(bus'[c].queue)
                             /\ \A e \in Elems(bus'[c].queue) : e <= published'
  BY <1>2, <1>3, Zenon
<1>6. Before({disp.event'}, Elems(bus'["dispatcher"].queue))
  <2>1. Elems(bus'["dispatcher"].queue) \subseteq Elems(bus["dispatcher"].queue)
    BY <1>2, <1>3, Zenon
  <2> QED
    BY <1>3, <2>1 DEF Before
<1>7. \A c \in Subscribers : /\ (Increasing(bus[c].queue))'
                             /\ \A e \in (Elems(bus[c].queue))' : e <= published'
  BY <1>5 DEF Increasing, Elems
<1>8. (Before({disp.event}, Elems(bus["dispatcher"].queue)))'
  BY <1>6 DEF Before, Elems
<1>9. disp.event' <= published'
  BY <1>3
<1> QED
  BY <1>2, <1>4, <1>7, <1>8, <1>9, Zenon DEF BusInOrder

\* The streams and the trap sender, when they do not move.
LEMMA ReadersFrame ==
    ASSUME IInv, UNCHANGED <<stream, trap, published>>, data' \in Nat, data' >= data,
           Elems(bus'["traps"].queue) \subseteq Elems(bus["traps"].queue)
    PROVE  ReadersBehind'
<1>1. data \in Nat /\ trap.event \in Nat
      /\ \A g \in Streams : stream[g].event # None => stream[g].event \in Nat
  BY DEF IInv, Typed
<1>2. \A g \in Streams : stream'[g].event # None => stream'[g].event <= data'
  BY <1>1 DEF IInv, ReadersBehind
<1>3. Before({trap'.last.event}, Elems(bus'["traps"].queue))
  BY DEF IInv, ReadersBehind, Before
<1>4. trap'.at = "send" => /\ trap'.event <= published'
                           /\ trap'.last.event < trap'.event
                           /\ Before({trap'.event}, Elems(bus'["traps"].queue))
  <2>1. trap.at = "send" => /\ trap.event <= published
                            /\ trap.last.event < trap.event
                            /\ Before({trap.event}, Elems(bus["traps"].queue))
    BY DEF IInv, ReadersBehind
  <2>2. trap.at = "send" => Before({trap.event}, Elems(bus'["traps"].queue))
    BY <2>1 DEF Before
  <2> QED
    BY <2>1, <2>2
<1>5. trap'.last.event <= published'
  BY DEF IInv, ReadersBehind
<1> QED
  BY <1>2, <1>3, <1>4, <1>5 DEF ReadersBehind, Before, Elems

\* A step that leaves every channel, line and reader alone.
LEMMA Quiet ==
    ASSUME IInv, UNCHANGED <<published, queue, writer, sent, stream, trap, cast>>,
           data' \in Nat, data' >= data,
           disp' \in [at : {"select", "event", "returned"}, event : Nat,
                      targets : SUBSET Subscription, closed : BOOLEAN],
           disp.event' = disp.event, disp.targets' = disp.targets,
           disp.at' = disp.at \/ disp.at' # "event",
           subs' \subseteq subs,
           bus' \in [Subscribers -> [open : BOOLEAN, queue : Seq(Nat)]],
           \A c \in Subscribers : bus'[c].queue = bus[c].queue
    PROVE  IInv'
<1>1. Typed'
  BY Zenon DEF IInv, Typed
<1>2. /\ LinesInOrder' /\ SentToOwner' /\ OnceAndInOrder'
      /\ \A k \in Subscription : Carried(k)' \subseteq Carried(k)
  BY LinesFrame
<1>3. OneLine'
  BY <1>2, OneLineFrame
<1>4. BusInOrder'
  BY BusFrame
<1>5. "traps" \in Subscribers
  BY DEF Subscribers
<1>6. ReadersBehind'
  BY <1>5, ReadersFrame
<1> QED
  BY <1>1, <1>2, <1>3, <1>4, <1>6 DEF IInv

\* The types that the steps below rely on.
LEMMA Types ==
    ASSUME IInv
    PROVE  /\ data \in Nat /\ published \in Nat /\ published <= data
           /\ bus \in [Subscribers -> [open : BOOLEAN, queue : Seq(Nat)]]
           /\ disp \in [at : {"select", "event", "returned"}, event : Nat,
                        targets : SUBSET Subscription, closed : BOOLEAN]
           /\ {"dispatcher", "traps"} \subseteq Subscribers
           /\ Streams \subseteq Subscribers
           /\ "dispatcher" \notin Streams /\ "traps" \notin Streams
BY Named DEF IInv, Typed, BusInOrder, Subscribers

\* The steps of connections and of the process.
LEMMA QuietSteps ==
    ASSUME IInv, \/ Change \/ Cancel \/ CloseBus \/ DispReturn \/ Close \/ ServeReturns
                 \/ \E s \in Sessions : \/ Accept(s) \/ track(s) \/ Hello(s) \/ Stall(s)
                                        \/ sessionEnded(s)
    PROVE  IInv'
<1> USE Types
<1>1. CASE Change
  <2>1. data' \in Nat /\ data' >= data
    BY <1>1 DEF Change
  <2> QED
    BY <1>1, <2>1, Quiet DEF Change, dispVars, sessVars
<1>2. CASE Cancel
  BY <1>2, Quiet DEF Cancel, dispVars, sessVars
<1>3. CASE CloseBus
  <2>1. /\ bus' \in [Subscribers -> [open : BOOLEAN, queue : Seq(Nat)]]
        /\ \A c \in Subscribers : bus'[c].queue = bus[c].queue
    BY <1>3, Zenon DEF CloseBus
  <2> QED
    BY <1>3, <2>1, Quiet DEF CloseBus, dispVars, sessVars
<1>4. CASE DispReturn
  <2>1. /\ disp' \in [at : {"select", "event", "returned"}, event : Nat,
                      targets : SUBSET Subscription, closed : BOOLEAN]
        /\ disp.event' = disp.event /\ disp.targets' = disp.targets /\ disp.at' # "event"
    BY <1>4, Zenon DEF DispReturn
  <2>2. /\ UNCHANGED <<published, queue, writer, sent, stream, trap, cast, bus, data, subs>>
        /\ data' \in Nat /\ data' >= data
    BY <1>4 DEF DispReturn, sessVars
  <2> QED
    BY <2>1, <2>2, Quiet
<1>5. CASE Close
  <2>1. /\ disp' \in [at : {"select", "event", "returned"}, event : Nat,
                      targets : SUBSET Subscription, closed : BOOLEAN]
        /\ disp.event' = disp.event /\ disp.targets' = disp.targets /\ disp.at' = disp.at
    BY <1>5, Zenon DEF Close, CloseDispatcher
  <2>2. /\ bus' \in [Subscribers -> [open : BOOLEAN, queue : Seq(Nat)]]
        /\ \A c \in Subscribers : bus'[c].queue = bus[c].queue
    BY <1>5, Zenon DEF Close, CloseDispatcher, Unsubscribe
  <2>3. /\ UNCHANGED <<published, queue, writer, sent, stream, trap, cast, data>>
        /\ subs' \subseteq subs /\ data' \in Nat /\ data' >= data
    BY <1>5 DEF Close, CloseDispatcher
  <2> QED
    BY <2>1, <2>2, <2>3, Quiet
<1>6. CASE ServeReturns
  BY <1>6, Quiet DEF ServeReturns, dispVars
<1>7. CASE \E s \in Sessions : \/ Accept(s) \/ track(s) \/ Hello(s) \/ Stall(s)
  BY <1>7, Quiet DEF Accept, track, Hello, Stall, ConnStep, dispVars
<1>8. CASE \E s \in Sessions : sessionEnded(s)
  BY <1>8, Quiet DEF sessionEnded
<1> QED
  BY Zenon, <1>1, <1>2, <1>3, <1>4, <1>5, <1>6, <1>7, <1>8

\* A step of a gNMI stream.
LEMMA StreamSteps ==
    ASSUME IInv, NEW g \in Streams,
           \/ sendSnapshot(g) \/ UpdatesOnly(g) \/ sendSyncResponse(g)
           \/ StreamSubscribe(g) \/ StreamReceive(g) \/ sendEvent(g) \/ StreamEnds(g)
    PROVE  IInv'
<1> USE Types
<1>0. /\ stream \in [Streams -> [at : {"idle", "snapshot", "synced", "on", "done"},
                                 sent : Nat \cup {None}, event : Nat \cup {None}]]
      /\ stream[g] \in [at : {"idle", "snapshot", "synced", "on", "done"},
                        sent : Nat \cup {None}, event : Nat \cup {None}]
      /\ g \in Subscribers
  BY Zenon DEF IInv, Typed
<1>1. UNCHANGED <<data, published, dispVars, sessVars, trap, cast>>
  BY DEF sendSnapshot, UpdatesOnly, sendSyncResponse, StreamSubscribe, StreamReceive, sendEvent,
         StreamEnds, StreamStep
\* The channel of the stream: unchanged, opened, read from, or closed.
<1>2. \/ UNCHANGED bus
      \/ bus' = [bus EXCEPT ![g].open = (ctx # "closed")]
      \/ bus[g].queue # << >> /\ bus' = [bus EXCEPT ![g].queue = Tail(@)]
      \/ bus' = [bus EXCEPT ![g] = [open |-> FALSE, queue |-> << >>]]
  BY Zenon DEF sendSnapshot, UpdatesOnly, sendSyncResponse, StreamSubscribe, StreamReceive, sendEvent,
         StreamEnds
<1>3. /\ bus' \in [Subscribers -> [open : BOOLEAN, queue : Seq(Nat)]]
      /\ \A c \in Subscribers : \/ bus'[c].queue = bus[c].queue
                                \/ bus'[c].queue = << >>
                                \/ bus[c].queue # << >> /\ bus'[c].queue = Tail(bus[c].queue)
      /\ \A c \in Subscribers : c # g => bus'[c] = bus[c]
  <2>1. CASE UNCHANGED bus
    BY <2>1
  <2>2. CASE bus' = [bus EXCEPT ![g].open = (ctx # "closed")]
    <3> DEFINE open == (ctx # "closed")
    <3>1. open \in BOOLEAN /\ bus' = [bus EXCEPT ![g].open = open]
      BY <2>2
    <3> HIDE DEF open
    <3>2. bus[g] \in [open : BOOLEAN, queue : Seq(Nat)]
      BY <1>0
    <3>3. /\ [bus[g] EXCEPT !.open = open] \in [open : BOOLEAN, queue : Seq(Nat)]
          /\ [bus[g] EXCEPT !.open = open].queue = bus[g].queue
      BY <3>1, <3>2, Zenon
    <3>4. bus'[g] = [bus[g] EXCEPT !.open = open]
      BY <1>0, <3>1
    <3>5. \A c \in Subscribers : c # g => bus'[c] = bus[c]
      BY <3>1
    <3>6. bus' \in [Subscribers -> [open : BOOLEAN, queue : Seq(Nat)]]
      BY <1>0, <3>1, <3>3
    <3> QED
      BY <3>3, <3>4, <3>5, <3>6, Zenon
  <2>3. CASE bus[g].queue # << >> /\ bus' = [bus EXCEPT ![g].queue = Tail(@)]
    <3> DEFINE t == Tail(bus[g].queue)
               b == [bus[g] EXCEPT !.queue = t]
    <3>1. t \in Seq(Nat) /\ bus[g] \in [open : BOOLEAN, queue : Seq(Nat)]
      BY <1>0, <2>3
    <3>2. b \in [open : BOOLEAN, queue : Seq(Nat)] /\ b.queue = t
      <4> HIDE DEF t
      <4> QED
        BY <3>1, Zenon
    <3>3. bus' = [bus EXCEPT ![g] = b]
      BY <2>3
    <3> HIDE DEF b
    <3>4. /\ bus' \in [Subscribers -> [open : BOOLEAN, queue : Seq(Nat)]]
          /\ bus'[g] = b /\ \A c \in Subscribers : c # g => bus'[c] = bus[c]
      BY <1>0, <3>2, <3>3
    <3> QED
      BY Zenon, <2>3, <3>2, <3>4
  <2>4. CASE bus' = [bus EXCEPT ![g] = [open |-> FALSE, queue |-> << >>]]
    BY Zenon, <1>0, <2>4, EmptyOrder
  <2> QED
    BY <1>2, <2>1, <2>2, <2>3, <2>4, Zenon
\* What the stream holds has been published.
<1>4. /\ stream' \in [Streams -> [at : {"idle", "snapshot", "synced", "on", "done"},
                                  sent : Nat \cup {None}, event : Nat \cup {None}]]
      /\ \/ stream'[g].event \in {stream[g].event, None}
         \/ bus[g].queue # << >> /\ stream'[g].event = Head(bus[g].queue)
      /\ \A h \in Streams : h # g => stream'[h] = stream[h]
  <2>1. CASE \/ sendSnapshot(g) \/ UpdatesOnly(g) \/ sendSyncResponse(g) \/ StreamSubscribe(g)
             \/ sendEvent(g) \/ StreamEnds(g)
    <3> DEFINE Record == [at : {"idle", "snapshot", "synced", "on", "done"},
                          sent : Nat \cup {None}, event : Nat \cup {None}]
    <3>1. \E to \in Record : /\ to.event \in {stream[g].event, None}
                            /\ stream' = [stream EXCEPT ![g] = to]
      <4>1. CASE sendSnapshot(g)
        <5> DEFINE to == [stream[g] EXCEPT !.at = "snapshot", !.sent = data]
        <5>1. to \in Record /\ to.event = stream[g].event
          BY <1>0, Zenon
        <5> QED
          BY <4>1, <5>1, Zenon DEF sendSnapshot, StreamStep
      <4>2. CASE UpdatesOnly(g) \/ sendSyncResponse(g) \/ StreamSubscribe(g)
        <5> DEFINE to(at) == [stream[g] EXCEPT !.at = at]
        <5>1. \A at \in {"snapshot", "synced", "on"} :
                  to(at) \in Record /\ to(at).event = stream[g].event
          BY <1>0, Zenon
        <5>2. \E at \in {"snapshot", "synced", "on"} : stream' = [stream EXCEPT ![g] = to(at)]
          BY <4>2 DEF UpdatesOnly, sendSyncResponse, StreamSubscribe, StreamStep
        <5> QED
          BY <5>1, <5>2, Zenon
      <4>3. CASE sendEvent(g)
        <5> DEFINE to == [stream[g] EXCEPT !.sent = data, !.event = None]
        <5>1. to \in Record /\ to.event = None
          BY <1>0, Zenon
        <5> QED
          BY <4>3, <5>1, Zenon DEF sendEvent, StreamStep
      <4>4. CASE StreamEnds(g)
        <5> DEFINE to == [stream[g] EXCEPT !.at = "done", !.event = None]
        <5>1. to \in Record /\ to.event = None
          BY <1>0, Zenon
        <5> QED
          BY <4>4, <5>1, Zenon DEF StreamEnds, StreamStep
      <4> QED
        BY <2>1, <4>1, <4>2, <4>3, <4>4
    <3>2. PICK to \in Record : /\ to.event \in {stream[g].event, None}
                              /\ stream' = [stream EXCEPT ![g] = to]
      BY <3>1, Zenon
    <3>3. stream \in [Streams -> Record]
      BY <1>0
    <3>4. stream' \in [Streams -> Record]
      <4> HIDE DEF Record
      <4> QED
        BY <3>2, <3>3
    <3>5. stream'[g] = to /\ \A h \in Streams : h # g => stream'[h] = stream[h]
      <4> HIDE DEF Record
      <4> QED
        BY <3>2, <3>3
    <3>6. stream'[g].event \in {stream[g].event, None}
      BY <3>2, <3>5
    <3> QED
      BY <3>4, <3>5, <3>6
  <2>2. CASE StreamReceive(g)
    <3>1. bus[g].queue # << >> /\ Head(bus[g].queue) \in Nat
      BY <1>0, <2>2 DEF StreamReceive
    <3> DEFINE to == [stream[g] EXCEPT !.event = Head(bus[g].queue)]
    <3>2. stream' = [stream EXCEPT ![g] = to]
      BY <2>2 DEF StreamReceive, StreamStep
    <3>3. /\ to \in [at : {"idle", "snapshot", "synced", "on", "done"},
                    sent : Nat \cup {None}, event : Nat \cup {None}]
          /\ to.event = Head(bus[g].queue)
      BY <1>0, <3>1, Zenon
    <3> HIDE DEF to
    <3> QED
      BY <1>0, <3>1, <3>2, <3>3
  <2> QED
    BY Zenon, <2>1, <2>2
<1>5. BusInOrder'
  <2>1. UNCHANGED <<data, published, disp>>
    BY <1>1 DEF dispVars
  <2> QED
    BY <1>3, <2>1, BusFrame
<1>6. LinesInOrder' /\ SentToOwner' /\ OnceAndInOrder'
      /\ \A k \in Subscription : Carried(k)' \subseteq Carried(k)
  BY <1>1, LinesFrame DEF dispVars, sessVars
<1>7. OneLine'
  <2>1. UNCHANGED <<disp, subs>>
    BY <1>1 DEF dispVars
  <2> QED
    BY <1>6, <2>1, OneLineFrame
<1>8. stream'[g].event # None => stream'[g].event <= data'
  <2>1. CASE stream'[g].event \in {stream[g].event, None}
    BY <1>1, <2>1 DEF IInv, ReadersBehind
  <2>2. CASE bus[g].queue # << >> /\ stream'[g].event = Head(bus[g].queue)
    <3>1. bus[g].queue \in Seq(Nat) /\ 1 \in DOMAIN bus[g].queue
          /\ Head(bus[g].queue) = bus[g].queue[1] /\ bus[g].queue[1] \in Nat
      BY <1>0, <2>2
    <3>2. bus[g].queue[1] <= published
      BY Zenon, <1>0, <3>1 DEF IInv, BusInOrder, Elems
    <3> QED
      BY <1>1, <2>2, <3>1, <3>2
  <2> QED
    BY Zenon, <1>4, <2>1, <2>2
<1>9. ReadersBehind'
  <2>1. \A h \in Streams : stream'[h].event # None => stream'[h].event <= data'
    BY <1>1, <1>4, <1>8, Zenon DEF IInv, ReadersBehind
  <2>2. /\ bus'["traps"].queue = bus["traps"].queue
        /\ UNCHANGED <<trap, data, published>>
    BY <1>1, <1>3, Zenon
  <2> QED
    BY SMTT(30), <2>1, <2>2 DEF IInv, ReadersBehind, Before, Elems
<1>10. Typed'
  BY <1>1, <1>3, <1>4, Zenon DEF IInv, Typed, dispVars, sessVars
<1> QED
  BY <1>5, <1>6, <1>7, <1>9, <1>10 DEF IInv

\* A step of the trap sender.
LEMMA TrapSteps ==
    ASSUME IInv, TrapReceive \/ Send \/ TrapSendFails \/ TrapReturn
    PROVE  IInv'
<1> USE Types
<1> DEFINE q == bus["traps"].queue
           Record == [at : {"select", "send", "returned"}, event : Nat,
                      last : [event : Nat, data : Nat]]
<1>0. /\ trap \in Record /\ q \in Seq(Nat) /\ Increasing(q)
      /\ \A e \in Elems(q) : e <= published
      /\ Before({trap.last.event}, Elems(q)) /\ trap.last.event <= published
  <2>1. trap \in Record /\ q \in Seq(Nat) /\ Increasing(q)
    BY Zenon DEF IInv, Typed, BusInOrder
  <2>2. Elems(q) \subseteq Nat /\ \A e \in Elems(q) : e <= published
    BY SMTT(30), <2>1 DEF IInv, BusInOrder, Elems
  <2> QED
    BY <2>1, <2>2 DEF IInv, ReadersBehind
<1>1. UNCHANGED <<data, published, dispVars, sessVars, stream, cast>>
  BY DEF TrapReceive, Send, TrapSendFails, TrapReturn, TrapStep
<1>2. UNCHANGED <<queue, writer, sent, disp, subs>>
  BY <1>1 DEF dispVars, sessVars
<1>3. /\ bus' \in [Subscribers -> [open : BOOLEAN, queue : Seq(Nat)]]
      /\ \A c \in Subscribers : \/ bus'[c].queue = bus[c].queue
                                \/ bus[c].queue # << >> /\ bus'[c].queue = Tail(bus[c].queue)
  <2>1. CASE TrapReceive
    <3>1. q # << >> /\ bus' = [bus EXCEPT !["traps"].queue = Tail(@)]
      BY <2>1 DEF TrapReceive
    <3>2. Tail(q) \in Seq(Nat)
      BY <1>0, <3>1
    <3> QED
      BY <3>1, <3>2, Zenon
  <2>2. CASE Send \/ TrapSendFails
    BY <2>2 DEF Send, TrapSendFails
  <2>3. CASE TrapReturn
    BY <2>3, ZenonT(30) DEF TrapReturn, Unsubscribe
  <2> QED
    BY <2>1, <2>2, <2>3
<1>4. BusInOrder' /\ Elems(bus'["traps"].queue) \subseteq Elems(q)
  <2>1. UNCHANGED <<published, data, disp>>
    BY <1>1, <1>2
  <2>2. \A c \in Subscribers :
            \/ bus'[c].queue = bus[c].queue
            \/ bus'[c].queue = << >>
            \/ bus[c].queue # << >> /\ bus'[c].queue = Tail(bus[c].queue)
    BY <1>3
  <2>3. data' \in Nat /\ data' >= data
    BY <2>1
  <2> QED
    BY <1>3, <2>1, <2>2, <2>3, BusFrame, Zenon
<1>5. LinesInOrder' /\ SentToOwner' /\ OnceAndInOrder'
      /\ \A k \in Subscription : Carried(k)' \subseteq Carried(k)
  BY <1>2, LinesFrame
<1>6. OneLine'
  BY <1>2, <1>5, OneLineFrame
<1>7. \A g \in Streams : stream'[g].event # None => stream'[g].event <= data'
  BY <1>1 DEF IInv, ReadersBehind
<1>8. /\ trap' \in Record
      /\ trap'.at = "send" => /\ trap'.event <= published'
                              /\ trap'.last.event < trap'.event
                              /\ Before({trap'.event}, Elems(bus'["traps"].queue))
      /\ Before({trap'.last.event}, Elems(bus'["traps"].queue))
      /\ trap'.last.event <= published'
  <2>1. CASE TrapReceive
    <3>1. /\ q # << >> /\ bus'["traps"].queue = Tail(q)
          /\ trap' = [trap EXCEPT !.at = "send", !.event = Head(q)]
      BY <2>1 DEF TrapReceive, TrapStep
    <3> HIDE DEF q
    <3>2. /\ Head(q) \in Nat /\ Head(q) \in Elems(q)
          /\ Before({Head(q)}, Elems(Tail(q)))
          /\ Elems(Tail(q)) \subseteq Elems(q)
      BY <1>0, <3>1, TailOrder, Zenon
    <3>3. trap' \in Record /\ trap'.event = Head(q) /\ trap'.last = trap.last
      BY <1>0, <3>1, <3>2, Zenon
    <3>4. trap.last.event < Head(q) /\ Head(q) <= published
      BY <1>0, <3>2 DEF Before
    <3> QED
      BY <1>0, <1>1, <3>1, <3>2, <3>3, <3>4 DEF Before
  <2>2. CASE Send
    <3>1. trap.at = "send" /\ UNCHANGED bus
      BY <2>2 DEF Send, TrapStep
    <3>2. Before({trap.event}, Elems(q)) /\ trap.event <= published
      BY <3>1 DEF IInv, ReadersBehind
    <3>3. /\ trap' \in Record /\ trap'.at = "select"
          /\ trap'.last.event \in {trap.event, trap.last.event}
      <4>1. CASE trapFor(trap.event)
        BY <1>0, <2>2, <4>1, Zenon DEF Send, TrapStep
      <4>2. CASE ~ trapFor(trap.event)
        BY <1>0, <2>2, <4>2, Zenon DEF Send, TrapStep
      <4> QED
        BY <4>1, <4>2
    <3> QED
      BY <1>0, <1>1, <3>1, <3>2, <3>3 DEF Before
  <2>3. CASE TrapSendFails \/ TrapReturn
    <3>1. trap' \in Record /\ trap'.at # "send" /\ trap'.last = trap.last
      BY <1>0, <2>3 DEF TrapSendFails, TrapReturn, TrapStep
    <3> QED
      BY <1>0, <1>1, <1>4, <3>1 DEF Before
  <2> QED
    BY <2>1, <2>2, <2>3
<1>9. ReadersBehind'
  BY <1>7, <1>8 DEF ReadersBehind, Before, Elems
<1>10. Typed'
  BY <1>1, <1>2, <1>3, <1>8, Zenon DEF IInv, Typed
<1> QED
  BY Zenon, <1>4, <1>5, <1>6, <1>9, <1>10 DEF IInv
-----------------------------------------------------------------------------
(***************************************************************************)
(* The way of an event.                                                    *)
(***************************************************************************)

\* A new event is larger than all that are under way.
LEMMA PublishStep ==
    ASSUME IInv, Publish
    PROVE  IInv'
<1> USE Types
<1>1. /\ UNCHANGED <<data, disp, subs, queue, writer, sent, stream, trap, cast>>
      /\ published < data /\ published' = data
      /\ bus' = [c \in Subscribers |->
                   IF bus[c].open /\ Fits(bus[c].queue)
                   THEN [bus[c] EXCEPT !.queue = Append(@, data)] ELSE bus[c]]
  BY DEF Publish, dispVars, sessVars
<1>2. ASSUME NEW c \in Subscribers
      PROVE  /\ bus'[c] \in [open : BOOLEAN, queue : Seq(Nat)]
             /\ Increasing(bus'[c].queue)
             /\ Elems(bus'[c].queue) \subseteq Elems(bus[c].queue) \cup {data}
             /\ Elems(bus[c].queue) \subseteq Nat
             /\ \A e \in Elems(bus[c].queue) : e <= published
  <2> DEFINE q == bus[c].queue
  <2>1. /\ bus[c] \in [open : BOOLEAN, queue : Seq(Nat)] /\ q \in Seq(Nat)
        /\ Increasing(q) /\ \A e \in Elems(q) : e <= published
    BY DEF IInv, BusInOrder
  <2>2. Elems(q) \subseteq Nat
    BY <2>1 DEF Elems
  <2>3. Before(Elems(q), {data})
    BY <1>1, <2>1, <2>2 DEF Before
  <2>4. CASE bus'[c] = bus[c]
    BY <2>1, <2>2, <2>4
  <2>5. CASE bus'[c] = [bus[c] EXCEPT !.queue = Append(@, data)]
    <3>1. /\ bus'[c].queue = Append(q, data)
          /\ Append(q, data) \in Seq(Nat) => bus'[c] \in [open : BOOLEAN, queue : Seq(Nat)]
      BY <2>1, <2>5, Zenon
    <3> HIDE DEF q
    <3>2. /\ Append(q, data) \in Seq(Nat) /\ Increasing(Append(q, data))
          /\ Elems(Append(q, data)) = Elems(q) \cup {data}
      BY <2>1, <2>3, AppendOrder, Zenon
    <3> QED
      BY <2>1, <2>2, <3>1, <3>2 DEF q
  <2> QED
    BY Zenon, <1>1, <2>4, <2>5
<1>3. bus' \in [Subscribers -> [open : BOOLEAN, queue : Seq(Nat)]]
  <2>1. bus' = [c \in Subscribers |-> bus'[c]]
    BY <1>1
  <2> QED
    BY <1>2, <2>1
<1>4. BusInOrder'
  <2>1. disp.event \in Nat /\ disp.event <= published
        /\ Before({disp.event}, Elems(bus["dispatcher"].queue))
    BY DEF IInv, BusInOrder
  <2>2. ASSUME NEW c \in Subscribers, NEW e \in Elems(bus'[c].queue) PROVE e <= data
    <3>1. e = data \/ (e \in Elems(bus[c].queue) /\ e \in Nat /\ e <= published)
      BY <1>2, <2>2, Zenon
    <3> QED
      BY <1>1, <3>1
  <2>3. Before({disp.event}, Elems(bus'["dispatcher"].queue))
    <3> SUFFICES ASSUME NEW e \in Elems(bus'["dispatcher"].queue) PROVE disp.event < e
      BY DEF Before
    <3>1. e = data \/ e \in Elems(bus["dispatcher"].queue)
      BY <1>2, Zenon
    <3> QED
      BY <1>1, <2>1, <3>1 DEF Before
  <2>4. disp'.event <= published' /\ published' <= data'
    BY <1>1, <2>1
  <2> QED
    BY <1>1, <1>2, <2>2, <2>3, <2>4, Zenon DEF BusInOrder, Increasing, Elems, Before
<1>5. ReadersBehind'
  <2>1. /\ trap.event \in Nat /\ trap.last.event \in Nat
        /\ trap.last.event <= published
        /\ trap.at = "send" => trap.event <= published
    BY DEF IInv, Typed, ReadersBehind
  <2>2. Elems(bus'["traps"].queue) \subseteq Elems(bus["traps"].queue) \cup {data}
    BY <1>2, Zenon
  <2>3. ASSUME NEW n \in Nat, n <= published, Before({n}, Elems(bus["traps"].queue))
        PROVE  Before({n}, Elems(bus'["traps"].queue)) /\ n <= published'
    <3>1. n < data
      BY <1>1, <2>3
    <3> QED
      BY <1>1, <2>2, <2>3, <3>1 DEF Before
  <2>4. /\ trap'.at = "send" => /\ trap'.event <= published'
                                /\ trap'.last.event < trap'.event
                                /\ Before({trap'.event}, Elems(bus'["traps"].queue))
        /\ trap'.last.event <= published'
        /\ Before({trap'.last.event}, Elems(bus'["traps"].queue))
    BY <1>1, <2>1, <2>3, Zenon DEF IInv, ReadersBehind
  <2>5. \A g \in Streams : stream'[g].event # None => stream'[g].event <= data'
    BY <1>1 DEF IInv, ReadersBehind
  <2> QED
    BY Zenon, <2>4, <2>5 DEF ReadersBehind, Before, Elems
<1>6. LinesInOrder' /\ SentToOwner' /\ OnceAndInOrder'
      /\ \A k \in Subscription : Carried(k)' \subseteq Carried(k)
  BY <1>1, LinesFrame
<1>7. OneLine'
  BY <1>1, <1>6, OneLineFrame
<1>8. Typed'
  BY <1>1, <1>3, Zenon DEF IInv, Typed
<1> QED
  BY <1>4, <1>5, <1>6, <1>7, <1>8 DEF IInv

\* The lines carry events.
LEMMA CarriedTyped ==
    ASSUME IInv, NEW k \in Subscription
    PROVE  SentBy(k) \subseteq Nat /\ InHand(k) \subseteq Nat /\ Carried(k) \subseteq Nat
<1>1. k[1] \in Sessions
  BY DEF Subscription
<1>2. \A i \in DOMAIN sent[k[1]] : sent[k[1]][i].event \in Nat
  <2> DEFINE R == [event : Nat, sub : Subscription]
             r == sent[k[1]]
  <2>1. r \in Seq(R)
    BY <1>1, Zenon DEF IInv, Typed
  <2>2. \A i \in DOMAIN r : r[i] \in R
    <3> HIDE DEF r, R
    <3> QED
      BY <2>1
  <2> QED
    BY <2>2
<1>3. SentBy(k) \subseteq Nat
  BY <1>2 DEF SentBy
<1>4. InHand(k) \subseteq Nat
  BY DEF IInv, Typed, InHand
<1>5. Elems(queue[k]) \subseteq Nat
  BY DEF IInv, Typed, Elems
<1> QED
  BY <1>3, <1>4, <1>5 DEF Carried

\* The event the dispatcher takes is one no line carries yet.
LEMMA ReceiveStep ==
    ASSUME IInv, DispReceive
    PROVE  IInv'
<1> USE Types
<1> DEFINE q == bus["dispatcher"].queue
<1>1. /\ UNCHANGED <<data, published, subs, queue, writer, sent, stream, trap, cast>>
      /\ disp.targets = {} /\ q # << >>
      /\ disp' = [disp EXCEPT !.at = "event", !.event = Head(q)]
      /\ bus' = [bus EXCEPT !["dispatcher"].queue = Tail(@)]
  BY DEF DispReceive, sessVars
<1>2. /\ q \in Seq(Nat) /\ Increasing(q) /\ disp.event \in Nat
      /\ Before({disp.event}, Elems(q)) /\ \A e \in Elems(q) : e <= published
  BY DEF IInv, BusInOrder
<1>3. /\ Head(q) \in Nat /\ Head(q) \in Elems(q)
      /\ Tail(q) \in Seq(Nat) /\ Increasing(Tail(q))
      /\ Elems(Tail(q)) \subseteq Elems(q)
      /\ Before({Head(q)}, Elems(Tail(q)))
  <2> HIDE DEF q
  <2> QED
    BY <1>1, <1>2, TailOrder, Zenon
<1>4. /\ bus' \in [Subscribers -> [open : BOOLEAN, queue : Seq(Nat)]]
      /\ bus'["dispatcher"].queue = Tail(q)
      /\ \A c \in Subscribers : c # "dispatcher" => bus'[c] = bus[c]
  BY <1>1, <1>3, Zenon
<1>5. /\ disp' \in [at : {"select", "event", "returned"}, event : Nat,
                    targets : SUBSET Subscription, closed : BOOLEAN]
      /\ disp'.event = Head(q) /\ disp'.targets = {} /\ disp'.at = "event"
  BY <1>1, <1>3, Zenon
<1> HIDE DEF q
<1>6. BusInOrder'
  <2>1. \A c \in Subscribers : /\ Increasing(bus'[c].queue)
                               /\ \A e \in Elems(bus'[c].queue) : e <= published
    BY <1>2, <1>3, <1>4, Zenon DEF IInv, BusInOrder
  <2>2. disp'.event <= published /\ Before({disp'.event}, Elems(bus'["dispatcher"].queue))
    BY Zenon, <1>2, <1>3, <1>4, <1>5
  <2> QED
    BY <1>1, <2>1, <2>2, Zenon DEF BusInOrder, Increasing, Elems, Before
<1>7. ReadersBehind'
  BY <1>1, <1>4, ReadersFrame
<1>8. LinesInOrder' /\ SentToOwner' /\ OnceAndInOrder'
      /\ \A k \in Subscription : Carried(k)' = Carried(k)
  BY <1>1, LinesFrame
<1>9. OneLine'
  <2>1. \A k \in Subscription : Carried(k) \subseteq Nat
    BY CarriedTyped
  <2>2. disp.event < Head(q)
    BY <1>2, <1>3 DEF Before
  <2>3. \A k \in Subscription : \A e \in Carried(k)' : e <= disp'.event /\ e < disp'.event
    <3> SUFFICES ASSUME NEW k \in Subscription, NEW e \in Carried(k)
                 PROVE  e <= Head(q) /\ e < Head(q)
      BY <1>5, <1>8
    <3>1. e <= disp.event /\ e \in Nat
      BY <2>1 DEF IInv, OneLine
    <3> QED
      BY <1>2, <1>3, <2>2, <3>1
  <2>4. \A k, h \in Subscription :
            k[1] = h[1] /\ k # h => Carried(k)' \cap Carried(h)' = {}
    BY <1>8 DEF IInv, OneLine
  <2>5. \A k, h \in subs' : k[1] = h[1] => k = h
    BY <1>1 DEF IInv, OneLine
  <2> QED
    BY <1>5, <2>3, <2>4, <2>5 DEF OneLine
<1>10. Typed'
  BY <1>1, <1>4, <1>5, Zenon DEF IInv, Typed
<1> QED
  BY <1>6, <1>7, <1>8, <1>9, <1>10 DEF IInv

\* The subscriptions that are to get the event are of different sessions.
LEMMA DispatchStep ==
    ASSUME IInv, dispatch
    PROVE  IInv'
<1> USE Types
<1>1. /\ UNCHANGED <<data, published, bus, subs, queue, writer, sent, stream, trap, cast>>
      /\ disp.at = "event" /\ disp' = [disp EXCEPT !.at = "select", !.targets = subs]
  BY Zenon DEF dispatch, sessVars
<1>2. subs \subseteq Subscription
  BY DEF IInv, Typed
<1>3. /\ disp' \in [at : {"select", "event", "returned"}, event : Nat,
                    targets : SUBSET Subscription, closed : BOOLEAN]
      /\ disp'.event = disp.event /\ disp'.targets = subs /\ disp'.at = "select"
  BY <1>1, <1>2, Zenon
<1>4. LinesInOrder' /\ SentToOwner' /\ OnceAndInOrder'
      /\ \A k \in Subscription : Carried(k)' = Carried(k)
  BY <1>1, LinesFrame
<1>5. OneLine'
  BY <1>1, <1>3, <1>4 DEF IInv, OneLine
<1>6. BusInOrder'
  BY <1>1, <1>3, BusFrame
<1>7. ReadersBehind'
  BY <1>1, ReadersFrame
<1>8. Typed'
  BY <1>1, <1>3, Zenon DEF IInv, Typed
<1> QED
  BY <1>4, <1>5, <1>6, <1>7, <1>8 DEF IInv

\* A line gets the event in hand, or a full queue drops it.
LEMMA DeliverStep ==
    ASSUME IInv, NEW k \in Subscription, deliver(k)
    PROVE  IInv'
<1> USE Types
<1> DEFINE e == disp.event
<1>1. /\ UNCHANGED <<data, published, bus, subs, writer, sent, stream, trap, cast>>
      /\ k \in disp.targets
      /\ disp' = [disp EXCEPT !.targets = @ \ {k}]
      /\ queue' = [queue EXCEPT ![k] = IF Fits(@) THEN Append(@, e) ELSE @]
  BY DEF deliver, sessVars
<1>2. /\ disp' \in [at : {"select", "event", "returned"}, event : Nat,
                    targets : SUBSET Subscription, closed : BOOLEAN]
      /\ disp'.event = e /\ disp'.targets = disp.targets \ {k} /\ disp'.at = disp.at
      /\ e \in Nat
  BY <1>1, Zenon
<1>3. /\ queue \in [Subscription -> Seq(Nat)]
      /\ Increasing(queue[k]) /\ Before(InHand(k), Elems(queue[k]))
      /\ Before(SentBy(k), InHand(k) \cup Elems(queue[k]))
  BY Zenon DEF IInv, Typed, LinesInOrder
<1>4. Before(Carried(k), {e})
  BY <1>1 DEF IInv, OneLine, Before
<1>5. disp.at # "event"
  BY <1>1 DEF IInv, OneLine
<1>6. /\ queue'[k] \in Seq(Nat) /\ Increasing(queue'[k])
      /\ Elems(queue'[k]) \subseteq Elems(queue[k]) \cup {e}
  <2>1. CASE queue'[k] = queue[k]
    BY Zenon, <1>3, <2>1
  <2>2. CASE queue'[k] = Append(queue[k], e)
    <3> DEFINE q == queue[k]
    <3>1. q \in Seq(Nat) /\ Increasing(q) /\ Before(Elems(q), {e})
      BY <1>3, <1>4 DEF Carried, Before
    <3> HIDE DEF q, e
    <3>2. /\ Append(q, e) \in Seq(Nat) /\ Increasing(Append(q, e))
          /\ Elems(Append(q, e)) = Elems(q) \cup {e}
      BY <1>2, <3>1, AppendOrder
    <3> QED
      BY <2>2, <3>2 DEF q
  <2> QED
    BY Zenon, <1>1, <1>3, <2>1, <2>2
<1>7. \A h \in Subscription : h # k => queue'[h] = queue[h]
  BY <1>1, <1>3
<1>8. \A h \in Subscription : SentBy(h)' = SentBy(h) /\ InHand(h)' = InHand(h)
  BY <1>1 DEF SentBy, InHand
<1>9. /\ Carried(k)' \subseteq Carried(k) \cup {e}
      /\ \A h \in Subscription : h # k => Carried(h)' = Carried(h)
  <2>1. Carried(k)' \subseteq Carried(k) \cup {e}
    BY <1>6, <1>8, Zenon DEF Carried, Elems
  <2>2. ASSUME NEW h \in Subscription, h # k PROVE Carried(h)' = Carried(h)
    BY <1>7, <1>8, <2>2 DEF Carried, Elems
  <2> QED
    BY <2>1, <2>2
<1> HIDE DEF e
<1>10. LinesInOrder'
  <2>1. ASSUME NEW h \in Subscription, h # k
        PROVE  (/\ Increasing(queue[h]) /\ Before(InHand(h), Elems(queue[h]))
                /\ Before(SentBy(h), InHand(h) \cup Elems(queue[h])))'
    <3>1. /\ Increasing(queue[h]) /\ Before(InHand(h), Elems(queue[h]))
          /\ Before(SentBy(h), InHand(h) \cup Elems(queue[h]))
      BY Zenon DEF IInv, LinesInOrder
    <3>2. /\ queue'[h] = queue[h] /\ SentBy(h)' = SentBy(h) /\ InHand(h)' = InHand(h)
          /\ Elems(queue[h])' = Elems(queue[h])
      BY SMTT(30), <1>7, <1>8, <2>1 DEF Elems
    <3> QED
      BY <3>1, <3>2 DEF Increasing, Before
  <2>2. Before(InHand(k), Elems(queue'[k]))
    BY <1>3, <1>4, <1>6 DEF Before, Carried
  <2>3. Before(SentBy(k), InHand(k) \cup Elems(queue'[k]))
    BY <1>3, <1>4, <1>6 DEF Before, Carried
  <2>4. (/\ Increasing(queue[k]) /\ Before(InHand(k), Elems(queue[k]))
         /\ Before(SentBy(k), InHand(k) \cup Elems(queue[k])))'
    BY Zenon, <1>6, <1>8, <2>2, <2>3 DEF Increasing, Before, Elems
  <2> QED
    BY <2>1, <2>4, Zenon DEF LinesInOrder
<1>11. OneLine'
  <2>1. \A h, g \in subs' : h[1] = g[1] => h = g
    BY Zenon, <1>1 DEF IInv, OneLine
  <2>2. \A h, g \in disp'.targets : h[1] = g[1] => h = g
    BY Zenon, <1>2 DEF IInv, OneLine
  <2>3. ASSUME NEW h \in Subscription, NEW x \in Carried(h)'
        PROVE  x <= e /\ \A g \in disp'.targets : g[1] = h[1] => x < e
    <3>1. CASE x \in Carried(h)
      BY <1>2, <3>1 DEF IInv, OneLine, e
    <3>2. CASE h = k /\ x = e
      BY <1>1, <1>2, <3>2 DEF IInv, OneLine
    <3> QED
      BY Zenon, <1>9, <2>3, <3>1, <3>2
  <2>4. ASSUME NEW h \in Subscription, h[1] = k[1], h # k
        PROVE  Carried(h)' \cap Carried(k)' = {}
    <3>1. e \notin Carried(h)
      BY <1>1, <1>2, <2>4 DEF IInv, OneLine, e
    <3>2. Carried(h) \cap Carried(k) = {}
      BY <2>4 DEF IInv, OneLine
    <3> QED
      BY <1>9, <2>4, <3>1, <3>2
  <2>5. ASSUME NEW h \in Subscription, NEW g \in Subscription, h[1] = g[1], h # g
        PROVE  Carried(h)' \cap Carried(g)' = {}
    <3>1. CASE h # k /\ g # k
      BY <1>9, <2>5, <3>1 DEF IInv, OneLine
    <3>2. CASE h = k \/ g = k
      BY <2>4, <2>5, <3>2
    <3> QED
      BY Zenon, <3>1, <3>2
  <2>6. disp'.at # "event"
    BY <1>2, <1>5
  <2>7. disp'.event = e
    BY <1>2
  <2> QED
    BY Zenon, <2>1, <2>2, <2>3, <2>5, <2>6, <2>7 DEF OneLine
<1>12. BusInOrder'
  BY <1>1, <1>2, BusFrame DEF e
<1>13. ReadersBehind'
  BY <1>1, ReadersFrame
<1>14. SentToOwner' /\ OnceAndInOrder'
  BY <1>1 DEF IInv, SentToOwner, OnceAndInOrder
<1>15. queue' \in [Subscription -> Seq(Nat)]
  BY <1>1, <1>3, <1>6
<1>16. Typed'
  BY <1>1, <1>2, <1>15, Zenon DEF IInv, Typed
<1> QED
  BY <1>10, <1>11, <1>12, <1>13, <1>14, <1>16 DEF IInv

\* A step of a line that passes events on or drops them.
LEMMA LineStep ==
    ASSUME IInv, UNCHANGED <<data, published, bus, disp, subs, stream, trap, cast>>,
           queue' \in [Subscription -> Seq(Nat)],
           writer' \in [Subscription ->
                          [at : {"none", "select", "send", "exited"}, event : Nat]],
           sent' \in [Sessions -> Seq([event : Nat, sub : Subscription])],
           LinesInOrder', SentToOwner', OnceAndInOrder',
           \A h \in Subscription : Carried(h)' \subseteq Carried(h)
    PROVE  IInv'
<1> USE Types
<1>1. OneLine'
  BY Zenon, OneLineFrame
<1>2. BusInOrder'
  BY BusFrame
<1>3. ReadersBehind'
  BY ReadersFrame
<1>4. Typed'
  BY Zenon DEF IInv, Typed
<1> QED
  BY <1>1, <1>2, <1>3, <1>4 DEF IInv

\* Writers that start, stop or give up what they have in hand.
LEMMA HandsFrame ==
    ASSUME IInv, UNCHANGED <<queue, sent>>,
           \A h \in Subscription : InHand(h)' \subseteq InHand(h)
    PROVE  /\ LinesInOrder' /\ SentToOwner' /\ OnceAndInOrder'
           /\ \A h \in Subscription : Carried(h)' \subseteq Carried(h)
<1>1. \A h \in Subscription : SentBy(h)' = SentBy(h) /\ Elems(queue[h])' = Elems(queue[h])
  BY Zenon DEF SentBy, Elems
<1>2. ASSUME NEW h \in Subscription
      PROVE  (/\ Increasing(queue[h]) /\ Before(InHand(h), Elems(queue[h]))
              /\ Before(SentBy(h), InHand(h) \cup Elems(queue[h])))'
  <2>1. /\ Increasing(queue[h]) /\ Before(InHand(h), Elems(queue[h]))
        /\ Before(SentBy(h), InHand(h) \cup Elems(queue[h]))
    BY Zenon DEF IInv, LinesInOrder
  <2> QED
    BY <1>1, <2>1 DEF Increasing, Before
<1>3. SentToOwner' /\ OnceAndInOrder'
  BY DEF IInv, SentToOwner, OnceAndInOrder
<1> QED
  BY Zenon, <1>1, <1>2, <1>3 DEF LinesInOrder, Carried

\* The writer takes the first event of its queue.
LEMMA TakeStep ==
    ASSUME IInv, NEW k \in Subscription, WriterTake(k)
    PROVE  IInv'
<1> DEFINE q == queue[k]
<1>1. /\ UNCHANGED <<data, published, bus, disp, subs, sent, stream, trap, cast>>
      /\ writer[k].at = "select" /\ q # << >>
      /\ writer' = [writer EXCEPT ![k] = [at |-> "send", event |-> Head(q)]]
      /\ queue' = [queue EXCEPT ![k] = Tail(@)]
  BY DEF WriterTake, sessVars
<1>2. /\ queue \in [Subscription -> Seq(Nat)] /\ q \in Seq(Nat) /\ Increasing(q)
      /\ Before(SentBy(k), Elems(q))
      /\ writer \in [Subscription -> [at : {"none", "select", "send", "exited"}, event : Nat]]
      /\ sent \in [Sessions -> Seq([event : Nat, sub : Subscription])]
  BY Zenon DEF IInv, Typed, LinesInOrder, Before
<1>3. /\ Head(q) \in Nat /\ Head(q) \in Elems(q)
      /\ Tail(q) \in Seq(Nat) /\ Increasing(Tail(q))
      /\ Elems(Tail(q)) \subseteq Elems(q)
      /\ Before({Head(q)}, Elems(Tail(q)))
  <2> HIDE DEF q
  <2> QED
    BY <1>1, <1>2, TailOrder, Zenon
<1>4. /\ queue' \in [Subscription -> Seq(Nat)] /\ queue'[k] = Tail(q)
      /\ \A h \in Subscription : h # k => queue'[h] = queue[h]
  BY Zenon, <1>1, <1>2, <1>3
<1>5. /\ writer' \in [Subscription -> [at : {"none", "select", "send", "exited"}, event : Nat]]
      /\ writer'[k].at = "send" /\ writer'[k].event = Head(q)
      /\ \A h \in Subscription : h # k => writer'[h] = writer[h]
  BY Zenon, <1>1, <1>2, <1>3
<1>6. \A h \in Subscription : SentBy(h)' = SentBy(h)
  BY Zenon, <1>1 DEF SentBy
<1>7. /\ InHand(k)' = {Head(q)} /\ Elems(queue[k])' = Elems(Tail(q))
      /\ \A h \in Subscription : h # k => /\ InHand(h)' = InHand(h)
                                          /\ Elems(queue[h])' = Elems(queue[h])
  <2>1. InHand(k)' = {Head(q)}
    BY <1>5 DEF InHand
  <2>2. Elems(queue[k])' = Elems(Tail(q))
    BY <1>4 DEF Elems
  <2>3. ASSUME NEW h \in Subscription, h # k
        PROVE  InHand(h)' = InHand(h) /\ Elems(queue[h])' = Elems(queue[h])
    <3>1. writer'[h] = writer[h] /\ queue'[h] = queue[h]
      BY <1>4, <1>5, <2>3
    <3>2. InHand(h)' = InHand(h)
      BY <3>1 DEF InHand
    <3>3. Elems(queue[h])' = Elems(queue[h])
      BY <3>1 DEF Elems
    <3> QED
      BY <3>2, <3>3
  <2> QED
    BY <2>1, <2>2, <2>3
<1> HIDE DEF q
<1>8. LinesInOrder'
  <2>1. ASSUME NEW h \in Subscription, h # k
        PROVE  (/\ Increasing(queue[h]) /\ Before(InHand(h), Elems(queue[h]))
                /\ Before(SentBy(h), InHand(h) \cup Elems(queue[h])))'
    <3>1. /\ Increasing(queue[h]) /\ Before(InHand(h), Elems(queue[h]))
          /\ Before(SentBy(h), InHand(h) \cup Elems(queue[h]))
      BY DEF IInv, LinesInOrder
    <3> QED
      BY <1>4, <1>6, <1>7, <2>1, <3>1 DEF Increasing, Before
  <2>2. Before(SentBy(k), {Head(q)} \cup Elems(Tail(q)))
    BY Zenon, <1>2, <1>3 DEF Before
  <2>3. (/\ Increasing(queue[k]) /\ Before(InHand(k), Elems(queue[k]))
         /\ Before(SentBy(k), InHand(k) \cup Elems(queue[k])))'
    BY <1>3, <1>4, <1>6, <1>7, <2>2 DEF Increasing, Before
  <2> QED
    BY Zenon, <2>1, <2>3 DEF LinesInOrder
<1>9. \A h \in Subscription : Carried(h)' \subseteq Carried(h)
  <2>1. Carried(k)' \subseteq Carried(k)
    BY Zenon, <1>3, <1>6, <1>7 DEF Carried, q
  <2>2. ASSUME NEW h \in Subscription, h # k PROVE Carried(h)' = Carried(h)
    BY Zenon, <1>6, <1>7, <2>2 DEF Carried
  <2> QED
    BY Zenon, <2>1, <2>2
<1>10. SentToOwner' /\ OnceAndInOrder'
  BY <1>1 DEF IInv, SentToOwner, OnceAndInOrder
<1> QED
  BY <1>1, <1>2, <1>4, <1>5, <1>8, <1>9, <1>10, LineStep, Zenon

\* The writer ends.
LEMMA ExitStep ==
    ASSUME IInv, NEW k \in Subscription, WriterStops(k) \/ SendFails(k)
    PROVE  IInv'
<1>1. /\ UNCHANGED <<data, published, bus, disp, subs, queue, sent, stream, trap, cast>>
      /\ writer' = [writer EXCEPT ![k].at = "exited"]
  BY DEF WriterStops, SendFails, sessVars
<1>2. /\ writer \in [Subscription -> [at : {"none", "select", "send", "exited"}, event : Nat]]
      /\ queue \in [Subscription -> Seq(Nat)]
      /\ sent \in [Sessions -> Seq([event : Nat, sub : Subscription])]
  BY Zenon DEF IInv, Typed
<1>3. /\ writer' \in [Subscription -> [at : {"none", "select", "send", "exited"}, event : Nat]]
      /\ writer'[k].at = "exited"
      /\ \A h \in Subscription : h # k => writer'[h] = writer[h]
  BY <1>1, <1>2, Zenon
<1>4. \A h \in Subscription : InHand(h)' \subseteq InHand(h)
  BY <1>3 DEF InHand
<1> QED
  BY <1>1, <1>2, <1>3, <1>4, HandsFrame, LineStep, Zenon

\* The event in hand is written: it follows what the line has written before,
\* and no other line of the session has carried it.
LEMMA SendStep ==
    ASSUME IInv, NEW k \in Subscription, send(k)
    PROVE  IInv'
<1> DEFINE s == k[1]
           e == writer[k].event
           r == sent[s]
           new == [event |-> e, sub |-> k]
           R == [event : Nat, sub : Subscription]
<1>1. /\ UNCHANGED <<data, published, bus, disp, subs, queue, stream, trap, cast>>
      /\ writer[k].at = "send"
      /\ sent' = [sent EXCEPT ![s] = Append(@, new)]
      /\ writer' = [writer EXCEPT ![k].at = "select"]
  BY DEF send
<1>2. /\ writer \in [Subscription -> [at : {"none", "select", "send", "exited"}, event : Nat]]
      /\ queue \in [Subscription -> Seq(Nat)] /\ sent \in [Sessions -> Seq(R)]
  BY Zenon DEF IInv, Typed
<1>3. s \in Sessions /\ e \in Nat /\ new \in R /\ new.event = e /\ new.sub = k
  BY <1>2 DEF Subscription
<1>4. r \in Seq(R)
  BY <1>2, <1>3, Zenon
<1>5. /\ Append(r, new) \in Seq(R)
      /\ DOMAIN r = 1..Len(r) /\ DOMAIN Append(r, new) = 1..(Len(r) + 1) /\ Len(r) \in Nat
      /\ Append(r, new)[Len(r) + 1] = new
      /\ \A i \in 1..Len(r) : Append(r, new)[i] = r[i]
  <2> HIDE DEF r, R, new
  <2> QED
    BY <1>3, <1>4
<1>6. /\ sent' \in [Sessions -> Seq(R)] /\ sent'[s] = Append(r, new)
      /\ \A t \in Sessions : t # s => sent'[t] = sent[t]
  <2> HIDE DEF R, new, s
  <2> QED
    BY <1>1, <1>2, <1>3, <1>5
<1>7. /\ writer' \in [Subscription -> [at : {"none", "select", "send", "exited"}, event : Nat]]
      /\ writer'[k].at = "select"
      /\ \A h \in Subscription : h # k => writer'[h] = writer[h]
  BY <1>1, <1>2
<1>8. InHand(k) = {e} /\ InHand(k)' = {}
      /\ \A h \in Subscription : h # k => InHand(h)' = InHand(h)
  BY <1>1, <1>7 DEF InHand
<1>9. \A h \in Subscription : Elems(queue[h])' = Elems(queue[h])
  BY <1>1 DEF Elems
<1> HIDE DEF r, R, new, e
\* What the lines have written.
<1>10. SentBy(k)' = SentBy(k) \cup {e}
  <2>1. ASSUME NEW x \in SentBy(k)' PROVE x \in SentBy(k) \cup {e}
    <3>1. PICK i \in 1..(Len(r) + 1) : /\ Append(r, new)[i].sub = k
                                       /\ x = Append(r, new)[i].event
      BY <1>5, <1>6, <2>1 DEF SentBy
    <3>2. i \in 1..Len(r) \/ i = Len(r) + 1
      BY <1>5
    <3>3. CASE i \in 1..Len(r)
      BY Zenon, <1>5, <3>1, <3>3 DEF SentBy, r
    <3>4. CASE i = Len(r) + 1
      BY Zenon, <1>3, <1>5, <3>1, <3>4
    <3> QED
      BY Zenon, <3>2, <3>3, <3>4
  <2>2. ASSUME NEW x \in SentBy(k) PROVE x \in SentBy(k)'
    <3>1. PICK i \in 1..Len(r) : r[i].sub = k /\ x = r[i].event
      BY <1>5, <2>2 DEF SentBy, r
    <3>2. i \in 1..(Len(r) + 1) /\ Append(r, new)[i] = r[i]
      BY <1>5
    <3> QED
      BY Zenon, <1>5, <1>6, <3>1, <3>2 DEF SentBy
  <2>3. e \in SentBy(k)'
    <3>1. Len(r) + 1 \in DOMAIN Append(r, new)
      BY <1>5
    <3> QED
      BY <1>3, <1>5, <1>6, <3>1 DEF SentBy
  <2> QED
    BY <2>1, <2>2, <2>3
<1>11. ASSUME NEW h \in Subscription, h # k PROVE SentBy(h)' = SentBy(h)
  <2>1. CASE h[1] # s
    <3>1. h[1] \in Sessions
      BY DEF Subscription
    <3> QED
      BY <1>6, <2>1, <3>1 DEF SentBy
  <2>2. CASE h[1] = s
    <3>1. SentBy(h)' = {Append(r, new)[i].event :
                            i \in {j \in 1..(Len(r) + 1) : Append(r, new)[j].sub = h}}
      <4> DEFINE a == Append(r, new)
      <4>1. sent'[h[1]] = a /\ DOMAIN a = 1..(Len(r) + 1)
        BY Zenon, <1>5, <1>6, <2>2
      <4> HIDE DEF a
      <4>2. SentBy(h)' = {a[i].event : i \in {j \in DOMAIN a : a[j].sub = h}}
        BY Zenon, <4>1 DEF SentBy
      <4> QED
        BY <4>1, <4>2 DEF a
    <3>2. SentBy(h) = {r[i].event : i \in {j \in 1..Len(r) : r[j].sub = h}}
      BY <1>5, <2>2 DEF SentBy, r
    <3>3. \A j \in 1..(Len(r) + 1) : j \in 1..Len(r) \/ j = Len(r) + 1
      BY <1>5
    <3>4. \A j \in 1..Len(r) : j \in 1..(Len(r) + 1)
      BY <1>5
    <3>5. {j \in 1..(Len(r) + 1) : Append(r, new)[j].sub = h} = {j \in 1..Len(r) : r[j].sub = h}
      BY Zenon, <1>3, <1>5, <1>11, <3>3, <3>4
    <3> QED
      BY ZenonT(30), <1>5, <3>1, <3>2, <3>5
  <2> QED
    BY Zenon, <2>1, <2>2
<1>12. \A h \in Subscription : Carried(h)' \subseteq Carried(h)
  <2>1. Carried(k)' \subseteq Carried(k)
    BY Zenon, <1>8, <1>9, <1>10 DEF Carried
  <2>2. ASSUME NEW h \in Subscription, h # k PROVE Carried(h)' = Carried(h)
    BY <1>8, <1>9, <1>11, <2>2 DEF Carried
  <2> QED
    BY <2>1, <2>2
<1>13. LinesInOrder'
  <2>1. ASSUME NEW h \in Subscription, h # k
        PROVE  (/\ Increasing(queue[h]) /\ Before(InHand(h), Elems(queue[h]))
                /\ Before(SentBy(h), InHand(h) \cup Elems(queue[h])))'
    <3>1. /\ Increasing(queue[h]) /\ Before(InHand(h), Elems(queue[h]))
          /\ Before(SentBy(h), InHand(h) \cup Elems(queue[h]))
      BY DEF IInv, LinesInOrder
    <3> QED
      BY Zenon, <1>1, <1>8, <1>9, <1>11, <2>1, <3>1 DEF Increasing, Before
  <2>2. /\ Increasing(queue[k]) /\ Before({e}, Elems(queue[k]))
        /\ Before(SentBy(k), {e} \cup Elems(queue[k]))
    BY <1>8 DEF IInv, LinesInOrder
  <2>3. (/\ Increasing(queue[k]) /\ Before(InHand(k), Elems(queue[k]))
         /\ Before(SentBy(k), InHand(k) \cup Elems(queue[k])))'
    BY Zenon, <1>1, <1>8, <1>9, <1>10, <2>2 DEF Increasing, Before
  <2> QED
    BY <2>1, <2>3 DEF LinesInOrder
<1>14. SentToOwner'
  <2>1. ASSUME NEW t \in Sessions, NEW i \in DOMAIN sent'[t] PROVE sent'[t][i].sub[1] = t
    <3>1. CASE t # s
      BY Zenon, <1>6, <2>1, <3>1 DEF IInv, SentToOwner
    <3>2. CASE t = s
      <4>1. i \in 1..Len(r) \/ i = Len(r) + 1
        BY <1>5, <1>6, <2>1, <3>2
      <4>2. CASE i \in 1..Len(r)
        BY SMTT(30), <1>3, <1>5, <1>6, <3>2, <4>2 DEF IInv, SentToOwner, r
      <4>3. CASE i = Len(r) + 1
        BY Zenon, <1>3, <1>5, <1>6, <3>2, <4>3
      <4> QED
        BY Zenon, <4>1, <4>2, <4>3
    <3> QED
      BY Zenon, <3>1, <3>2
  <2> QED
    BY <2>1 DEF SentToOwner
\* The new event against the earlier ones of the session.
<1>15. ASSUME NEW i \in 1..Len(r)
       PROVE  r[i].event # e /\ (r[i].sub = k => r[i].event < e)
  <2> DEFINE h == r[i].sub
  <2>1. h \in Subscription /\ h[1] = s
    <3>1. r[i] \in R
      BY <1>4, <1>5
    <3> QED
      BY <1>3, <1>5, <3>1 DEF IInv, SentToOwner, r, R
  <2>2. r[i].event \in SentBy(h)
    BY <1>5, <2>1 DEF SentBy, r
  <2>3. CASE h = k
    <3>1. Before(SentBy(k), {e})
      BY <1>8 DEF IInv, LinesInOrder, Before
    <3>2. SentBy(k) \subseteq Nat
      BY Zenon, CarriedTyped
    <3>3. r[i].event < e /\ r[i].event \in Nat
      BY Zenon, <2>2, <2>3, <3>1, <3>2 DEF Before
    <3> QED
      BY <1>3, <3>3
  <2>4. CASE h # k
    <3>1. Carried(h) \cap Carried(k) = {}
      BY Zenon, <2>1, <2>4 DEF IInv, OneLine
    <3>2. r[i].event \in Carried(h) /\ e \in Carried(k)
      BY Zenon, <1>8, <2>2 DEF Carried
    <3> QED
      BY Zenon, <2>4, <3>1, <3>2
  <2> QED
    BY Zenon, <2>3, <2>4
<1>16. OnceAndInOrder'
  <2>1. ASSUME NEW t \in Sessions, NEW i \in DOMAIN sent'[t], NEW j \in DOMAIN sent'[t], i < j
        PROVE  /\ sent'[t][i].event # sent'[t][j].event
               /\ sent'[t][i].sub = sent'[t][j].sub => sent'[t][i].event < sent'[t][j].event
    <3>1. CASE t # s
      BY <1>6, <2>1, <3>1 DEF IInv, OnceAndInOrder
    <3>2. CASE t = s
      <4>1. i \in 1..Len(r) /\ (j \in 1..Len(r) \/ j = Len(r) + 1)
        BY <1>5, <1>6, <2>1, <3>2
      <4>2. CASE j \in 1..Len(r)
        <5>1. sent'[t][i] = r[i] /\ sent'[t][j] = r[j]
          BY Zenon, <1>5, <1>6, <3>2, <4>1, <4>2
        <5> QED
          BY SMTT(30), <1>3, <1>5, <2>1, <4>1, <4>2, <5>1 DEF IInv, OnceAndInOrder, r
      <4>3. CASE j = Len(r) + 1
        <5>1. sent'[t][i] = r[i] /\ sent'[t][j] = new
          BY <1>5, <1>6, <3>2, <4>1, <4>3
        <5> QED
          BY Zenon, <1>3, <1>15, <4>1, <5>1
      <4> QED
        BY Zenon, <4>1, <4>2, <4>3
    <3> QED
      BY Zenon, <3>1, <3>2
  <2> QED
    BY Zenon, <2>1 DEF OnceAndInOrder
<1>17. sent' \in [Sessions -> Seq([event : Nat, sub : Subscription])]
  BY <1>6, Zenon DEF R
<1>18. queue' \in [Subscription -> Seq(Nat)]
  BY <1>1, <1>2
<1> QED
  BY <1>1, <1>7, <1>12, <1>13, <1>14, <1>16, <1>17, <1>18, LineStep, Zenon

\* A create-subscription replaces the line of the session; what the dispatcher
\* has in hand still goes to the line that it took.
LEMMA MessageStep ==
    ASSUME IInv, NEW s \in Sessions, NEW op \in Operations, handleMessage(s, op)
    PROVE  IInv'
<1> USE Types
<1>1. UNCHANGED <<data, published, sent, stream, trap, cast>>
  BY DEF handleMessage
<1>2. CASE op = "create-subscription"
  <2>1. PICK n \in Subs(s) :
        /\ writer' = [writer EXCEPT ![n].at = "select"]
        /\ UNCHANGED <<bus, disp, queue>>
        /\ subs' \in {subs, (subs \ Subs(s)) \cup {n}}
    BY <1>2 DEF handleMessage, Subscribe
  <2>2. n \in Subscription /\ n[1] = s
    BY Zenon DEF Subs
  <2>3. /\ writer \in [Subscription -> [at : {"none", "select", "send", "exited"}, event : Nat]]
        /\ subs \subseteq Subscription
    BY Zenon DEF IInv, Typed
  <2>4. /\ writer' \in [Subscription -> [at : {"none", "select", "send", "exited"}, event : Nat]]
        /\ writer'[n].at = "select"
        /\ \A h \in Subscription : h # n => writer'[h] = writer[h]
    BY <2>1, <2>2, <2>3, Zenon
  <2>5. \A h \in Subscription : InHand(h)' \subseteq InHand(h)
    BY Zenon, <2>4 DEF InHand
  <2>6. LinesInOrder' /\ SentToOwner' /\ OnceAndInOrder'
        /\ \A h \in Subscription : Carried(h)' \subseteq Carried(h)
    BY <1>1, <2>1, <2>5, HandsFrame
  <2>7. \A k, h \in subs' : k[1] = h[1] => k = h
    BY Zenon, <2>1, <2>2, <2>3 DEF IInv, OneLine, Subs
  <2>8. \A k \in Subscription : \A e \in Carried(k)' :
            /\ e <= disp.event
            /\ disp.at = "event" => e < disp.event
            /\ \A h \in disp.targets : h[1] = k[1] => e < disp.event
    BY Zenon, <2>6 DEF IInv, OneLine
  <2>9. ASSUME NEW k \in Subscription, NEW h \in Subscription, k[1] = h[1], k # h
        PROVE  Carried(k)' \cap Carried(h)' = {}
    <3>1. Carried(k) \cap Carried(h) = {}
      BY Zenon, <2>9 DEF IInv, OneLine
    <3>2. Carried(k)' \subseteq Carried(k) /\ Carried(h)' \subseteq Carried(h)
      BY <2>6
    <3> QED
      BY <3>1, <3>2
  <2>10. /\ \A k, h \in disp'.targets : k[1] = h[1] => k = h
         /\ disp'.at = "event" => disp'.targets = {}
    BY <2>1 DEF IInv, OneLine
  <2>11. OneLine'
    BY <2>1, <2>7, <2>8, <2>9, <2>10 DEF OneLine
  <2>12. BusInOrder'
    BY <1>1, <2>1, BusFrame
  <2>13. ReadersBehind'
    BY <1>1, <2>1, ReadersFrame
  <2>14. subs' \subseteq Subscription
    BY <2>1, <2>2, <2>3
  <2>15. Typed'
    BY <1>1, <2>1, <2>4, <2>14, Zenon DEF IInv, Typed
  <2> QED
    BY <2>6, <2>11, <2>12, <2>13, <2>15 DEF IInv
<1>3. CASE op # "create-subscription"
  BY <1>1, <1>3, Quiet DEF handleMessage, dispVars
<1> QED
  BY Zenon, <1>2, <1>3
-----------------------------------------------------------------------------
\* Nothing is under way at the start.
LEMMA InitEstablishes == Init => IInv
<1> SUFFICES ASSUME Init PROVE IInv
  OBVIOUS
<1>1. \A c \in Subscribers : /\ bus[c] \in [open : BOOLEAN, queue : Seq(Nat)]
                             /\ bus[c].queue = << >>
  BY CastAssumption, EmptyOrder, Zenon DEF Init
<1>2. /\ disp = [at |-> "select", event |-> 0, targets |-> {}, closed |-> FALSE]
      /\ data = 0 /\ published = 0 /\ subs = {} /\ cast \in Casts
      /\ queue = [k \in Subscription |-> << >>]
      /\ writer = [k \in Subscription |-> [at |-> "none", event |-> 0]]
      /\ sent = [t \in Sessions |-> << >>]
      /\ stream = [g \in Streams |-> [at |-> "idle", sent |-> None, event |-> None]]
  BY Zenon DEF Init
<1>3. /\ trap \in [at : {"select", "send", "returned"}, event : Nat,
                   last : [event : Nat, data : Nat]]
      /\ trap.at # "send" /\ trap.last.event = 0
  BY Zenon DEF Init
<1>4. {"dispatcher", "traps"} \subseteq Subscribers
  BY Zenon DEF Subscribers
<1>5. Typed
  <2>1. bus \in [Subscribers -> [open : BOOLEAN, queue : Seq(Nat)]]
    BY <1>1, Zenon DEF Init
  <2>2. sent \in [Sessions -> Seq([event : Nat, sub : Subscription])]
    BY <1>2
  <2>3. queue \in [Subscription -> Seq(Nat)]
    BY <1>2
  <2>4. /\ stream \in [Streams -> [at : {"idle", "snapshot", "synced", "on", "done"},
                                   sent : Nat \cup {None}, event : Nat \cup {None}]]
        /\ writer \in [Subscription -> [at : {"none", "select", "send", "exited"}, event : Nat]]
        /\ disp \in [at : {"select", "event", "returned"}, event : Nat,
                     targets : SUBSET Subscription, closed : BOOLEAN]
    BY Zenon, <1>2
  <2> QED
    BY Zenon, <1>2, <1>3, <2>1, <2>2, <2>3, <2>4 DEF Typed
<1>6. BusInOrder
  BY SMTT(30), <1>1, <1>2, <1>4, EmptyOrder DEF BusInOrder, Before
<1>7. \A k \in Subscription : /\ SentBy(k) = {} /\ InHand(k) = {}
                              /\ Increasing(queue[k]) /\ Elems(queue[k]) = {}
  <2> SUFFICES ASSUME NEW k \in Subscription
               PROVE  /\ SentBy(k) = {} /\ InHand(k) = {}
                      /\ Increasing(queue[k]) /\ Elems(queue[k]) = {}
    BY Zenon
  <2>1. k[1] \in Sessions
    BY DEF Subscription
  <2>2. SentBy(k) = {}
    BY SMTT(30), <1>2, <2>1 DEF SentBy
  <2> QED
    BY Zenon, <1>2, <2>2, EmptyOrder DEF InHand
<1>8. LinesInOrder
  BY <1>7 DEF LinesInOrder, Before
<1>9. \A k \in Subscription : Carried(k) = {}
  BY Zenon, <1>7 DEF Carried
<1>10. OneLine
  BY Zenon, <1>2, <1>9 DEF OneLine
<1>11. SentToOwner /\ OnceAndInOrder
  BY SMTT(30), <1>2 DEF SentToOwner, OnceAndInOrder
<1>12. ReadersBehind
  BY SMTT(30), <1>1, <1>2, <1>3, <1>4, EmptyOrder DEF ReadersBehind, Before
<1> QED
  BY <1>5, <1>6, <1>8, <1>10, <1>11, <1>12 DEF IInv

\* Every step keeps the invariant.
LEMMA Inductive == IInv /\ [Next]_vars => IInv'
<1> SUFFICES ASSUME IInv, [Next]_vars PROVE IInv'
  OBVIOUS
<1>1. CASE \/ Change \/ Cancel \/ CloseBus \/ DispReturn \/ Close \/ ServeReturns
  BY <1>1, QuietSteps
<1>2. CASE Publish \/ DispReceive \/ dispatch
  BY <1>2, PublishStep, ReceiveStep, DispatchStep
<1>3. CASE TrapReceive \/ Send \/ TrapSendFails \/ TrapReturn
  BY <1>3, TrapSteps
<1>4. CASE \E k \in Subscription : deliver(k) \/ writeLoop(k)
  BY Zenon, <1>4, DeliverStep, TakeStep, ExitStep, SendStep DEF writeLoop
<1>5. CASE \E s \in Sessions : \/ Accept(s) \/ track(s) \/ Hello(s) \/ SessionReturns(s)
                               \/ ClientLeaves(s) \/ ConnClosed(s) \/ Stall(s)
  BY Zenon, <1>5, QuietSteps DEF SessionReturns, ClientLeaves, ConnClosed
<1>6. CASE \E s \in Sessions, op \in Operations : handleMessage(s, op)
  BY <1>6, MessageStep
<1>7. CASE \E g \in Streams : \/ sendSnapshot(g) \/ UpdatesOnly(g) \/ sendSyncResponse(g)
                              \/ StreamSubscribe(g) \/ StreamReceive(g) \/ sendEvent(g)
                              \/ StreamEnds(g)
  BY Zenon, <1>7, StreamSteps
<1>8. CASE UNCHANGED vars
  BY SMTT(30), <1>8, Types, Quiet DEF vars, dispVars, sessVars
<1> QED
  BY Zenon, <1>1, <1>2, <1>3, <1>4, <1>5, <1>6, <1>7, <1>8 DEF Next

(***************************************************************************)
(* No NETCONF client is told twice of one event, and what one subscription *)
(* delivers is in the order of publication (event/bus.go Publish,          *)
(* notif/dispatcher.go dispatch, deliver and writeLoop), although every    *)
(* channel on the way drops events and a client may replace its            *)
(* subscription at any moment.                                             *)
(***************************************************************************)
THEOREM NotifiedOnce == Spec => []OnceAndInOrder
<1>1. IInv => OnceAndInOrder
  BY DEF IInv
<1> QED
  BY InitEstablishes, Inductive, <1>1, PTL DEF Spec

(***************************************************************************)
(* A gNMI notification and a trap are read from the device after the       *)
(* change their event announced, and traps are sent once and in order      *)
(* (gnmi/subscribe.go sendEvent, snmp/trap.go Send).                       *)
(***************************************************************************)
THEOREM ReadersUpToDate == Spec => UpdatesAreFresh
<1>1. ASSUME IInv, [Next]_vars, NEW g \in Streams, sendEvent(g)
      PROVE  stream'[g].sent # None /\ stream'[g].sent >= stream[g].event
  <2>1. /\ stream[g].event # None
        /\ stream' = [stream EXCEPT ![g] = [stream[g] EXCEPT !.sent = data, !.event = None]]
    BY Zenon, <1>1 DEF sendEvent, StreamStep
  <2>2. /\ stream[g] \in [at : {"idle", "snapshot", "synced", "on", "done"},
                          sent : Nat \cup {None}, event : Nat \cup {None}]
        /\ stream \in [Streams -> [at : {"idle", "snapshot", "synced", "on", "done"},
                                   sent : Nat \cup {None}, event : Nat \cup {None}]]
        /\ data \in Nat
    BY <1>1 DEF IInv, Typed
  <2>3. stream'[g].sent = data
    BY <2>1, <2>2
  <2>4. stream[g].event <= data /\ stream[g].event \in Nat
    BY Zenon, <1>1, <2>1, <2>2 DEF IInv, ReadersBehind
  <2> QED
    BY <2>2, <2>3, <2>4, Named
<1>2. ASSUME IInv, [Next]_vars, trap'.last # trap.last
      PROVE  trap'.last.data >= trap'.last.event /\ trap'.last.event > trap.last.event
  <2>1. trap \in [at : {"select", "send", "returned"}, event : Nat,
                  last : [event : Nat, data : Nat]]
        /\ data \in Nat /\ published \in Nat /\ published <= data
    BY Zenon, <1>2 DEF IInv, Typed, BusInOrder
  <2>2. CASE Send
    <3>1. /\ trap.at = "send"
          /\ trap'.last = [event |-> trap.event, data |-> data]
      BY Zenon, <1>2, <2>1, <2>2 DEF Send, TrapStep
    <3>2. trap.event <= published /\ trap.last.event < trap.event
      BY <1>2, <3>1 DEF IInv, ReadersBehind
    <3> QED
      BY SMTT(30), <2>1, <3>1, <3>2
  <2>3. CASE TrapReceive \/ TrapSendFails \/ TrapReturn
    BY <1>2, <2>1, <2>3, Zenon DEF TrapReceive, TrapSendFails, TrapReturn, TrapStep
  <2>4. CASE ~ (TrapReceive \/ Send \/ TrapSendFails \/ TrapReturn)
    <3>1. UNCHANGED trap
      BY <1>2, <2>4, Zenon DEF Next, vars, Change, Publish, Cancel, CloseBus, DispReceive, dispatch,
         DispReturn, Close, ServeReturns, deliver, writeLoop, WriterTake, WriterStops, send,
         SendFails, Accept, track, Hello, ConnStep, handleMessage, SessionReturns, ClientLeaves,
         ConnClosed, sessionEnded, Stall, sendSnapshot, UpdatesOnly, sendSyncResponse,
         StreamSubscribe, StreamReceive, sendEvent, StreamEnds, StreamStep
    <3> QED
      BY <1>2, <3>1
  <2> QED
    BY Zenon, <2>2, <2>3, <2>4
<1>3. IInv /\ [Next]_vars =>
        [/\ \A g \in Streams : sendEvent(g) => /\ stream'[g].sent # None
                                               /\ stream'[g].sent >= stream[g].event
         /\ trap'.last # trap.last => /\ trap'.last.data >= trap'.last.event
                                      /\ trap'.last.event > trap.last.event]_vars
  BY <1>1, <1>2
<1> QED
  BY InitEstablishes, Inductive, <1>3, PTL DEF Spec, UpdatesAreFresh
=============================================================================
