--------------------------- MODULE MCDeviceTree ---------------------------
(***************************************************************************)
(* A cut of the seeded device: two interfaces, a VLAN with a member port   *)
(* and room for another, a static and a learned forwarding entry, two      *)
(* bridge ports.  VLAN 10 sorts before VLAN 2 as text, not as a number.    *)
(***************************************************************************)
EXTENDS DeviceTree

Node(names, kind) ==
    [names |-> names, kind |-> kind, key |-> "", config |-> TRUE,
     creatable |-> FALSE, needed |-> FALSE, unique |-> FALSE]
Container(names) == Node(names, "container")
Leaf(names) == Node(names, "leaf")
NeededLeaf(names) == [Leaf(names) EXCEPT !.needed = TRUE]
StateLeaf(names) == [Leaf(names) EXCEPT !.config = FALSE]
List(names, key, creatable) ==
    [Node(names, "list") EXCEPT !.key = key, !.creatable = creatable, !.unique = TRUE]

MCModel ==
    << Container(<<"system-info">>), NeededLeaf(<<"system-info", "name">>),
       Container(<<"interfaces">>), List(<<"interfaces", "interface">>, "name", FALSE),
       NeededLeaf(<<"interfaces", "interface", "name">>),
       NeededLeaf(<<"interfaces", "interface", "mtu">>),
       Container(<<"interfaces", "interface", "counters">>),
       StateLeaf(<<"interfaces", "interface", "counters", "in-octets">>),
       Container(<<"vlans">>), List(<<"vlans", "vlan">>, "id", TRUE),
       NeededLeaf(<<"vlans", "vlan", "id">>), NeededLeaf(<<"vlans", "vlan", "name">>),
       Container(<<"vlans", "vlan", "ports">>),
       [List(<<"vlans", "vlan", "ports", "port">>, "port", TRUE) EXCEPT !.unique = FALSE],
       NeededLeaf(<<"vlans", "vlan", "ports", "port", "port">>),
       NeededLeaf(<<"vlans", "vlan", "ports", "port", "mode">>),
       Container(<<"mac-table">>), List(<<"mac-table", "entry">>, "mac-address", TRUE),
       NeededLeaf(<<"mac-table", "entry", "mac-address">>),
       NeededLeaf(<<"mac-table", "entry", "port">>),
       StateLeaf(<<"mac-table", "entry", "age">>),
       Container(<<"stp">>), List(<<"stp", "port">>, "port", FALSE),
       NeededLeaf(<<"stp", "port", "port">>), Leaf(<<"stp", "port", "priority">>) >>

S(name) == Segment(name, NoKey)
Interface(n) == <<S("interfaces"), Segment("interface", n)>>
Vlan(id) == <<S("vlans"), Segment("vlan", id)>>
VlanPort(id, n) == Vlan(id) \o <<S("ports"), Segment("port", n)>>
Mac(m) == <<S("mac-table"), Segment("entry", m)>>
StpPort(n) == <<S("stp"), Segment("port", n)>>
InOctets(n) == Interface(n) \o <<S("counters"), S("in-octets")>>
SystemName == <<S("system-info"), S("name")>>

InterfaceLeaves(n) == <<InOctets(n), Below(Interface(n), "mtu"),
                        Below(Interface(n), "name")>>
VlanLeaves(id, n) == <<Below(Vlan(id), "id"), Below(Vlan(id), "name"),
                       Below(VlanPort(id, n), "mode"), Below(VlanPort(id, n), "port")>>
MacLeaves(m) == <<Below(Mac(m), "age"), Below(Mac(m), "mac-address"), Below(Mac(m), "port")>>
StpLeaves(n) == <<Below(StpPort(n), "port"), Below(StpPort(n), "priority")>>

MCPathOrder ==
    InterfaceLeaves(1) \o InterfaceLeaves(2) \o InterfaceLeaves(3)
    \o MacLeaves(7) \o MacLeaves(8)
    \o StpLeaves(1) \o StpLeaves(2) \o <<SystemName>> \o VlanLeaves(10, 1) \o VlanLeaves(2, 2)

\* Key leaves hold their key; every other seeded leaf 1, a counter or an age 0.
Seeded == Range(InterfaceLeaves(1) \o InterfaceLeaves(2) \o StpLeaves(1) \o StpLeaves(2)
                \o <<SystemName>> \o VlanLeaves(10, 1)) \cup Range(MacLeaves(7))
Initial(p) == IF Len(p) > 1 /\ Last(Front(p)).key # 0
                 /\ p = Below(Front(p), (CHOOSE n \in Range(MCModel) : n.names = Names(Front(p))).key)
              THEN Last(Front(p)).key ELSE IF Last(p).name \in {"in-octets", "age"} THEN 0 ELSE 1

MCTemplate ==
    [lists |-> (ListOf(Interface(1)) :> <<1, 2>>) @@ (ListOf(Vlan(10)) :> <<10>>)
               @@ (ListOf(VlanPort(10, 1)) :> <<1>>) @@ (ListOf(Mac(7)) :> <<7>>)
               @@ (ListOf(StpPort(1)) :> <<1, 2>>),
     leaves |-> [p \in Seeded |-> Initial(p)]]

MCobjectRules ==
    {[scope |-> "scalar", suffix |-> SystemName, oid |-> <<1, 5>>, writable |-> TRUE],
     [scope |-> "interface", suffix |-> <<S("counters"), S("in-octets")>>, oid |-> <<2, 10>>, writable |-> FALSE],
     [scope |-> "stp-port", suffix |-> <<S("priority")>>, oid |-> <<3, 2>>, writable |-> TRUE],
     [scope |-> "mac", suffix |-> <<S("port")>>, oid |-> <<4, 2>>, writable |-> FALSE],
     [scope |-> "vlan", suffix |-> <<S("name")>>, oid |-> <<5, 1>>, writable |-> FALSE]}

NoContent == <<>>
Request(via, op, resource, content) ==
    [via |-> via, op |-> op, resource |-> resource, content |-> content]

MCRequests ==
    {Request("restconf", "replace", Vlan(2), Below(Vlan(2), "name") :> 1),
     Request("restconf", "replace", Vlan(10), Below(Vlan(10), "name") :> 2),
     Request("restconf", "create", Vlan(2),
             Below(Vlan(2), "id") :> 2 @@ Below(Vlan(2), "name") :> 1
             @@ Below(VlanPort(2, 2), "port") :> 2 @@ Below(VlanPort(2, 2), "mode") :> 1),
     Request("restconf", "delete", Vlan(10), NoContent),
     Request("restconf", "delete", Interface(1), NoContent),
     Request("restconf", "merge", Interface(3), Below(Interface(3), "mtu") :> 2),
     Request("restconf", "merge", InOctets(1), InOctets(1) :> 2),
     Request("restconf", "delete", Mac(8), NoContent),
     Request("gnmi", "merge", Below(Vlan(10), "id"), Below(Vlan(10), "id") :> 2),
     Request("gnmi", "delete", Below(Vlan(10), "name"), NoContent),
     Request("netconf", "remove", Vlan(10), NoContent),
     Request("netconf", "remove", InOctets(2), NoContent),
     Request("netconf", "replace", VlanPort(10, 1), Below(VlanPort(10, 1), "mode") :> 2),
     Request("netconf", "delete", ListOf(Mac(7)), NoContent),
     Request("netconf", "create", SystemName, SystemName :> 2)}

\* Two edits and a restart, an edit and a domain write and a restart, a walk
\* during which an edit and a write happen, or a write and a restart.
Budget(edits, writes, commits, restarts, walks) ==
    [edits |-> edits, writes |-> writes, commits |-> commits, restarts |-> restarts, walks |-> walks]

MCBudgets == {Budget(2, 0, 1, 1, 0), Budget(1, 1, 1, 1, 0), Budget(1, 1, 0, 0, 1), Budget(0, 1, 1, 1, 1)}

MCCollections == {ListOf(Vlan(2)), ListOf(Interface(1))}
MCVarbinds == {<<[oid |-> <<1, 5, 0>>, value |-> 2], [oid |-> <<3, 2, 1>>, value |-> 2]>>,
               <<[oid |-> <<2, 10, 1>>, value |-> 2]>>}
MCStateWrites == {[path |-> InOctets(1), value |-> 1], [path |-> Below(Mac(8), "port"), value |-> 1],
                  [path |-> Below(Mac(8), "age"), value |-> 0]}
\* Leaves of a learned entry, and the first that a removal of a VLAN member deletes.
MCStateDeletes == {Below(Mac(8), "port"), Below(Mac(8), "age"), Below(VlanPort(10, 1), "mode")}
=============================================================================
