-------------------------------- MODULE LLDP --------------------------------
(***************************************************************************)
(* The LLDP neighbours of the L2 domain (internal/l2/lldp.go).             *)
(*                                                                         *)
(* SetNeighbor and RemoveNeighbor hold Manager.mu and write or delete the  *)
(* leaves of one neighbour in turn, one action for each; the context of    *)
(* the caller can be cancelled before any of them.  refreshLLDP, the last  *)
(* part of a tick, reads one snapshot and then writes neighbour by         *)
(* neighbour.  Edits by the planes, which do not take the lock, come in    *)
(* between.  Of the leaves, those that validation asks for are kept.       *)
(***************************************************************************)
EXTENDS Naturals, LeafOrder

CONSTANTS
    LocalPorts,     \* the local ports neighbours are announced on
    TTLs,           \* values of ttl, and of tx-interval times tx-hold-multiplier
    MaxNeighborOps, \* bound on the requests for neighbours
    MaxLLDPEdits    \* bound on the edits of the planes

ASSUME LLDPAssumption == TTLs # {} /\ TTLs \subseteq Nat \ {0}

VARIABLES
    lldp,           \* the configuration: [enabled, ttl]
    neighbors,      \* the neighbours with a stored leaf
    talk,           \* the request under way, which holds Manager.mu: [step, port,
                    \* ttl, left]
    refresh,        \* what a tick has left to write: [ttl, left]
    ops, lldpEdits  \* counters of the bounds

lldpVars == <<lldp, neighbors, talk, refresh, ops, lldpEdits>>
-----------------------------------------------------------------------------
\* The leaves that validation asks for, in the order in which SetNeighbor stores
\* and removeSubtree deletes them.
Leaves == <<"chassis-id", "port-id", "ttl">>

Names == {"chassis-id", "port-id"}

Neighbor == [leaves : SUBSET Names, ttl : TTLs \cup {0}]

\* No leaf is stored.
Absent == [leaves |-> {}, ttl |-> 0]

LeavesOf(n) == n.leaves \cup (IF n.ttl # 0 THEN {"ttl"} ELSE {})

Present == DOMAIN neighbors

At(p) == IF p \in Present THEN neighbors[p] ELSE Absent

\* The neighbours with that of port p replaced, or gone with its last leaf.
Stored(p, n) ==
    [q \in (Present \cup {p}) \ (IF n = Absent THEN {p} ELSE {}) |->
        IF q = p THEN n ELSE neighbors[q]]

\* Validate of one neighbour: both identifiers and a ttl.
Complete(n) == Names \subseteq n.leaves /\ n.ttl # 0

NeighborsValid == \A p \in Present : Complete(neighbors[p])

Idle == [step |-> "idle", port |-> CHOOSE p \in LocalPorts : TRUE, ttl |-> 0, left |-> {}]

NeighborRequest ==
    /\ talk = Idle
    /\ ops < MaxNeighborOps
    /\ ops' = ops + 1
    /\ UNCHANGED <<lldp, neighbors, refresh, lldpEdits>>

SetNeighbor(p, ttl) ==
    /\ NeighborRequest
    /\ talk' = [step |-> "set", port |-> p, ttl |-> ttl, left |-> Names \cup {"ttl"}]

RemoveNeighbor(p) ==
    /\ NeighborRequest
    /\ p \in Present
    /\ talk' = [step |-> "list", port |-> p, ttl |-> 0, left |-> {}]

\* The request with these leaves left.
Going(step, left) == IF left = {} THEN Idle ELSE [talk EXCEPT !.step = step, !.left = left]

\* removeSubtree lists the leaves that are stored.
ListLeaves ==
    /\ talk.step = "list"
    /\ talk' = Going("delete", LeavesOf(At(talk.port)))
    /\ UNCHANGED <<lldp, neighbors, refresh, ops, lldpEdits>>

SetLeaf(leaf) ==
    /\ talk.step = "set"
    /\ Leads(Leaves, leaf, talk.left)
    /\ neighbors' = Stored(talk.port, IF leaf = "ttl" THEN [At(talk.port) EXCEPT !.ttl = talk.ttl]
                                      ELSE [At(talk.port) EXCEPT !.leaves = @ \cup {leaf}])
    /\ talk' = Going("set", talk.left \ {leaf})
    /\ UNCHANGED <<lldp, refresh, ops, lldpEdits>>

\* A leaf that is gone although it was listed ends the request with an error.
DeleteLeaf(leaf) ==
    /\ talk.step = "delete"
    /\ Leads(Leaves, leaf, talk.left)
    /\ \/ /\ leaf \in LeavesOf(At(talk.port))
          /\ neighbors' = Stored(talk.port, IF leaf = "ttl" THEN [At(talk.port) EXCEPT !.ttl = 0]
                                            ELSE [At(talk.port) EXCEPT !.leaves = @ \ {leaf}])
          /\ talk' = Going("delete", talk.left \ {leaf})
       \/ /\ leaf \notin LeavesOf(At(talk.port))
          /\ talk' = Idle
          /\ UNCHANGED neighbors
    /\ UNCHANGED <<lldp, refresh, ops, lldpEdits>>

TalkStep ==
    \/ ListLeaves
    \/ \E leaf \in talk.left : SetLeaf(leaf) \/ DeleteLeaf(leaf)

\* The context of a request is cancelled.
TalkCutOff ==
    /\ talk # Idle
    /\ talk' = Idle
    /\ UNCHANGED <<lldp, neighbors, refresh, ops, lldpEdits>>
-----------------------------------------------------------------------------
(***************************************************************************)
(* The refresh.                                                            *)
(***************************************************************************)

\* Mutant: a TTL is raised and never lowered.
NeedsRefreshRaises(p) == neighbors[p].ttl < lldp.ttl

NeedsRefresh(p) == neighbors[p].ttl # lldp.ttl

\* refreshLLDP up to its snapshot; a product outside 1..LLDPTTLMax is no valid
\* configuration.
refreshLLDP ==
    /\ refresh' = [ttl |-> lldp.ttl, left |-> {p \in Present : lldp.enabled /\ NeedsRefresh(p)}]
    /\ UNCHANGED <<lldp, neighbors, talk, ops, lldpEdits>>

RefreshNeighbor(p) ==
    /\ p \in refresh.left
    /\ neighbors' = Stored(p, [At(p) EXCEPT !.ttl = refresh.ttl])
    /\ refresh' = [refresh EXCEPT !.left = @ \ {p}]
    /\ UNCHANGED <<lldp, talk, ops, lldpEdits>>

\* The planes: a neighbour is configuration, so a delete takes all its leaves,
\* and a plane that configures one stores what validation asks for.  Validation
\* looks at the result.
PlaneRemoves(p) == Absent

PlaneAdds(p, ttl) == [leaves |-> Names, ttl |-> ttl]

NeighborProposals(p) ==
    {n \in {PlaneRemoves(p)} \cup {PlaneAdds(p, ttl) : ttl \in TTLs} :
        n # At(p) /\ \A q \in Present \ {p} : Complete(neighbors[q])}

\* The edit that read old and proposed new writes its differences.
PlaneSets(p, old, new) ==
    /\ lldpEdits < MaxLLDPEdits
    /\ lldpEdits' = lldpEdits + 1
    /\ neighbors' = Stored(p, [leaves |-> (At(p).leaves \ (old.leaves \ new.leaves))
                                            \cup (new.leaves \ old.leaves),
                               ttl |-> IF new.ttl # old.ttl THEN new.ttl ELSE At(p).ttl])
    /\ UNCHANGED <<lldp, talk, refresh, ops>>

\* Nobody else writes the configuration of LLDP: validated and written in one step.
PlaneConfigures(enabled, ttl) ==
    /\ lldpEdits < MaxLLDPEdits
    /\ NeighborsValid
    /\ lldp' = [enabled |-> enabled, ttl |-> ttl]
    /\ lldp' # lldp
    /\ lldpEdits' = lldpEdits + 1
    /\ UNCHANGED <<neighbors, talk, refresh, ops>>

\* The seed device: LLDP is on and knows no neighbour.
LLDPInit ==
    /\ lldp = [enabled |-> TRUE, ttl |-> CHOOSE ttl \in TTLs : TRUE]
    /\ neighbors = [p \in {} |-> Absent]
    /\ talk = Idle
    /\ refresh = [ttl |-> lldp.ttl, left |-> {}]
    /\ ops = 0
    /\ lldpEdits = 0
-----------------------------------------------------------------------------
\* The type invariant of this part.
LLDPTypeOK ==
    /\ lldp \in [enabled : BOOLEAN, ttl : TTLs]
    /\ Present \subseteq LocalPorts
    /\ \A p \in Present : neighbors[p] \in Neighbor \ {Absent}
    /\ talk # Idle =>
           /\ talk.step \in {"set", "list", "delete"}
           /\ talk.port \in LocalPorts
           /\ talk.left \subseteq Names \cup {"ttl"}
           /\ talk.step # "list" => talk.left # {}
           /\ talk.step = "set" => talk.ttl \in TTLs
    /\ refresh \in [ttl : TTLs, left : SUBSET LocalPorts]
=============================================================================
