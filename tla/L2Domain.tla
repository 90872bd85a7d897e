------------------------------ MODULE L2Domain ------------------------------
(***************************************************************************)
(* The L2 domain (internal/l2): one manager runs the bridge (Bridge), the  *)
(* spanning tree (SpanningTree) and LLDP (LLDP) under one lock,            *)
(* Manager.mu.  A tick holds it through its three parts, the aging sweep,  *)
(* the forward delays and the LLDP refresh; a request or a link event      *)
(* holds it for the leaves it writes.  The planes do not take it, and      *)
(* their edits are validated over the whole device: what one part leaves   *)
(* invalid refuses the edits of the others.  An edit of the MAC table or   *)
(* of a neighbour is validated in one step and written in a later one      *)
(* (datatree.Apply); one of the spanning tree is a commit, which does both *)
(* under the lock of the store.                                            *)
(***************************************************************************)
EXTENDS Bridge, LLDP

CONSTANTS
    STPPorts,       \* the ports with an STP entry
    EdgePorts, Self, Others, MaxEvents,
    MaxSTPEdits

ASSUME L2Assumption == None \notin {"age", "stp", "lldp"}

\* What the environment does in a behaviour: it drives the bridge, the spanning
\* tree, or LLDP.
Focus == {"bridge", "stp", "lldp"}

VARIABLES
    enabled, protocol, role, state, root, pending, job, events, stpEdits,
    tick,           \* the part of the tick under way, or None
    proposal,       \* the edit that a plane has validated and not yet written, or
                    \* None: [part, at, old, new]
    focus,
    torn            \* history: a request was cut off, a plane wrote an edit while
                    \* another operation was under way or to an entry that had
                    \* changed since it was read, or it created an entry in a MAC
                    \* table that was full

STP == INSTANCE SpanningTree WITH
           Ports <- STPPorts, edits <- stpEdits, MaxEdits <- MaxSTPEdits

stpVars == <<enabled, protocol, role, state, root, pending, job, events, stpEdits>>

l2Vars == <<vars, lldpVars, stpVars, tick, proposal, focus, torn>>

\* Each action below changes one of the three parts.
OnlyBridge == UNCHANGED <<lldpVars, stpVars, focus>>

OnlySTP == UNCHANGED <<vars, lldpVars, focus>>

OnlyLLDP == UNCHANGED <<vars, stpVars, focus>>
-----------------------------------------------------------------------------
\* Manager.mu is free.
Unlocked == tick = None /\ job = None /\ work = None /\ talk = Idle

BridgeRequest ==
    /\ focus = "bridge"
    /\ Unlocked
    /\ Requests
    /\ UNCHANGED <<tick, proposal, torn>>
    /\ OnlyBridge

\* The next step of a request for the MAC table, or of the sweep of a tick.
BridgeWorks ==
    /\ WorkStep
    /\ UNCHANGED <<tick, proposal, torn>>
    /\ OnlyBridge

\* A request that is cut off leaves half an entry, if it was at one.
BridgeCutOff ==
    /\ CutOff
    /\ torn' = (torn \/ work.at # None)
    /\ UNCHANGED <<tick, proposal>>
    /\ OnlyBridge

NeighborRequests ==
    /\ focus = "lldp"
    /\ Unlocked
    /\ \E p \in LocalPorts : RemoveNeighbor(p) \/ \E ttl \in TTLs : SetNeighbor(p, ttl)
    /\ UNCHANGED <<tick, proposal, torn>>
    /\ OnlyLLDP

NeighborWorks ==
    /\ TalkStep
    /\ UNCHANGED <<tick, proposal, torn>>
    /\ OnlyLLDP

NeighborCutOff ==
    /\ TalkCutOff
    /\ torn' = TRUE
    /\ UNCHANGED <<tick, proposal>>
    /\ OnlyLLDP

LinkEvent ==
    /\ focus = "stp"
    /\ Unlocked
    /\ \E p \in STPPorts :
           \/ STP!LinkDown(p) \/ STP!LinkUp(p)
           \/ \E id \in Others : STP!BPDU(p, id)
    /\ UNCHANGED <<tick, proposal, torn>>
    /\ OnlySTP
-----------------------------------------------------------------------------
(***************************************************************************)
(* Tick.                                                                   *)
(***************************************************************************)
TickAge ==
    /\ Unlocked
    /\ age
    /\ tick' = "age"
    /\ UNCHANGED <<proposal, torn>>
    /\ OnlyBridge

TickSTP ==
    /\ tick = "age" /\ work = None
    /\ STP!advanceSTP
    /\ tick' = "stp"
    /\ UNCHANGED <<proposal, torn>>
    /\ OnlySTP

TickLLDP ==
    /\ \/ tick = "age" /\ work = None /\ STP!Due = {}
       \/ tick = "stp" /\ job = None
    /\ refreshLLDP
    /\ tick' = IF refresh'.left = {} THEN None ELSE "lldp"
    /\ UNCHANGED <<proposal, torn>>
    /\ OnlyLLDP

TickRefresh ==
    /\ tick = "lldp"
    /\ \E p \in LocalPorts : RefreshNeighbor(p)
    /\ tick' = IF refresh'.left = {} THEN None ELSE "lldp"
    /\ UNCHANGED <<proposal, torn>>
    /\ OnlyLLDP

\* The writes of a link event, or of the forward delays of a tick.
STPWrites ==
    /\ job # None
    /\ STP!Write
    /\ UNCHANGED <<tick, proposal, torn>>
    /\ OnlySTP

\* The context of the sender of a link event is cancelled.
LinkEventFails ==
    /\ STP!HandleFails
    /\ UNCHANGED <<tick, proposal>>
    /\ torn' = TRUE
    /\ OnlySTP

DelayPasses ==
    /\ \E p \in STPPorts : STP!DelayElapses(p)
    /\ UNCHANGED <<tick, proposal, torn>>
    /\ OnlySTP

\* Where nothing ages, only the next tick notices the time.
TimePasses ==
    /\ Unlocked /\ proposal = None
    /\ \/ focus = "bridge" /\ Elapse
       \/ /\ focus # "bridge"
          /\ since' = TickInterval
          /\ UNCHANGED <<vlans, tableVars, stormVars, work, budget, edits>>
    /\ UNCHANGED <<tick, proposal, torn>>
    /\ OnlyBridge
-----------------------------------------------------------------------------
(***************************************************************************)
(* The planes.                                                             *)
(***************************************************************************)
STPValid == enabled => \A p \in STPPorts : state[p] \in STP!STPPortStates(protocol)

DeviceValid == TableValid(table) /\ STPValid /\ NeighborsValid

\* A plane reads the device, and what it proposes is valid.
Propose(part, at, old, new) ==
    /\ proposal' = [part |-> part, at |-> at, old |-> old, new |-> new]
    /\ UNCHANGED <<vars, lldpVars, stpVars, tick, focus, torn>>

PlaneProposes ==
    /\ proposal = None
    /\ STPValid
    /\ \/ /\ focus = "bridge" /\ edits < budget.edits
          /\ NeighborsValid
          /\ \E m \in Stations : \E e \in Proposals(m) : Propose("bridge", m, Found(m), e)
       \/ /\ focus = "lldp" /\ lldpEdits < MaxLLDPEdits
          /\ TableValid(table)
          /\ \E p \in LocalPorts : \E n \in NeighborProposals(p) : Propose("lldp", p, At(p), n)

Overlaps(now) == ~ Unlocked \/ now # proposal.old

PlaneEditsBridge ==
    /\ proposal # None /\ proposal.part = "bridge"
    /\ PlaneApplies(proposal.at, proposal.old, proposal.new)
    /\ torn' = (torn \/ Overlaps(Found(proposal.at)) \/ Cardinality(DOMAIN table') > MaxEntries)
    /\ proposal' = None
    /\ UNCHANGED tick
    /\ OnlyBridge

PlaneEditsLLDP ==
    /\ proposal # None /\ proposal.part = "lldp"
    /\ PlaneSets(proposal.at, proposal.old, proposal.new)
    /\ torn' = (torn \/ Overlaps(At(proposal.at)))
    /\ proposal' = None
    /\ UNCHANGED tick
    /\ OnlyLLDP

\* Edits that are validated and written in one step.
PlaneConfiguresLLDP ==
    /\ focus = "lldp"
    /\ proposal = None
    /\ \E on \in BOOLEAN, ttl \in TTLs : PlaneConfigures(on, ttl)
    /\ TableValid(table) /\ STPValid
    /\ UNCHANGED <<tick, proposal, torn>>
    /\ OnlyLLDP

PlaneEditsSTP ==
    /\ focus = "stp"
    /\ STP!SetEnabled \/ \E proto \in {"stp", "rstp"} : STP!SetProtocol(proto)
    /\ OnlySTP
    /\ DeviceValid'
    /\ torn' = (torn \/ ~ Unlocked)
    /\ UNCHANGED <<tick, proposal>>
-----------------------------------------------------------------------------
L2Init ==
    /\ focus \in Focus
    /\ Init
    /\ STP!Init
    /\ LLDPInit
    /\ tick = None
    /\ proposal = None
    /\ torn = FALSE
    \* a part that is left alone starts from one state
    /\ focus # "bridge" => Known = {} /\ budget = CHOOSE b \in Budgets : TRUE
    /\ focus # "stp" => protocol = "rstp"

DomainTick == TickAge \/ TickSTP \/ TickLLDP \/ TickRefresh

\* The holder of the lock goes on.
Works == BridgeWorks \/ NeighborWorks \/ STPWrites

PlaneWritesEdit == PlaneEditsBridge \/ PlaneEditsLLDP

L2Next ==
    \/ BridgeRequest \/ BridgeCutOff \/ NeighborRequests \/ NeighborCutOff
    \/ LinkEvent \/ LinkEventFails
    \/ DomainTick \/ Works
    \/ DelayPasses \/ TimePasses
    \/ PlaneProposes \/ PlaneWritesEdit \/ PlaneConfiguresLLDP \/ PlaneEditsSTP

\* Run ticks every period and gets the lock, its holder goes on, an edit that was
\* validated is written, and time passes.
L2Fairness ==
    /\ WF_l2Vars(DomainTick \/ Works \/ PlaneWritesEdit \/ TimePasses)
    /\ WF_l2Vars(DelayPasses)

L2Spec == L2Init /\ [][L2Next]_l2Vars /\ L2Fairness
-----------------------------------------------------------------------------
\* The type invariant.
L2TypeOK ==
    /\ TypeOK
    /\ STP!TypeOK
    /\ LLDPTypeOK
    /\ tick \in {"age", "stp", "lldp", None}
    /\ work # None => tick = IF work.op = "age" THEN "age" ELSE None
    /\ talk # Idle => tick = None
    /\ refresh.left # {} => tick = "lldp"
    /\ job # None => tick = IF job.handle THEN None ELSE "stp"

\* OneRootPort of SpanningTree: one root port between any two leaf writes.
OneRootPort == STP!OneRootPort

\* TimerMatchesState of SpanningTree: a timer belongs to the state of its port.
TimerMatchesState == STP!TimerMatchesState

\* LearningEnds of SpanningTree: no port of an enabled bridge stays learning.
LearningEnds == STP!LearningEnds

\* The entry and the neighbour that are being written.
Busy == IF work = None THEN {} ELSE {work.at}

Talking == IF talk = Idle THEN {} ELSE {talk.port}

(***************************************************************************)
(* The MAC table, the spanning tree and the neighbours stay valid, so that *)
(* the planes can go on editing the device, under every mix of requests,   *)
(* link events, ticks and edits, but for the one entry whose leaves are    *)
(* being written, unless something was torn: a request was cut off between *)
(* two leaves, a plane wrote an edit while a request, a tick or a link     *)
(* event was under way, or to an entry that had changed since the edit was *)
(* validated, or planes created entries beyond max-entries, which no       *)
(* validation refuses until they are counted.                              *)
(***************************************************************************)
ValidUnlessTorn ==
    torn \/ /\ TableValid(Without(table, Busy))
            /\ STPValid
            /\ \A p \in Present \ Talking : Complete(neighbors[p])

(***************************************************************************)
(* "every advertised neighbour is refreshed to the configured TTL": once   *)
(* requests and edits stop, every neighbour carries the TTL of the         *)
(* configuration, or LLDP is disabled.                                     *)
(***************************************************************************)
NeighborsRefreshed ==
    <>[](lldp.enabled => \A p \in Present : neighbors[p].ttl = lldp.ttl)
=============================================================================
