---------------------------- MODULE ObjectIndex ----------------------------
(***************************************************************************)
(* The SNMP objects of internal/router and the SET of internal/snmp.  The  *)
(* objects are those of the rebuilt device, not of the template, so a      *)
(* table exposes the entries that the datastore holds.                     *)
(***************************************************************************)
EXTENDS DeviceModel

CONSTANT objectRules   \* the OID tables: [scope, suffix, oid, writable]

NoPath == <<>>         \* the path of a constant object such as ifIndex

ifIndexOID == <<2, 1>>

\* The list whose entries the rules of a table scope apply to.
TableList(scope) ==
    CASE scope = "interface" -> <<Segment("interfaces", NoKey), Segment("interface", NoKey)>>
      [] scope = "stp-port"  -> <<Segment("stp", NoKey), Segment("port", NoKey)>>
      [] scope = "mac"       -> <<Segment("mac-table", NoKey), Segment("entry", NoKey)>>
      [] scope = "vlan"      -> <<Segment("vlans", NoKey), Segment("vlan", NoKey)>>

Interfaces(device) == KeysAt(device, TableList("interface"))

\* The ifIndex of an interface: its place in the rebuilt device, 0 without one.
interfaceIndexOf(device, name) ==
    SelectInSeq(Interfaces(device), LAMBDA k : k = name)

\* The sub-identifier of a table entry, 0 when the entry has none.
InstanceOf(device, scope, key) ==
    IF scope \in {"interface", "stp-port"} THEN interfaceIndexOf(device, key) ELSE key

scalarObjects ==
    {[oid |-> Append(r.oid, 0), path |-> r.suffix, writable |-> r.writable] :
        r \in {q \in objectRules : q.scope = "scalar"}}

tableObjects(device, scope) ==
    {[oid      |-> Append(r.oid, InstanceOf(device, scope, k)),
      path     |-> Entry(TableList(scope), k) \o r.suffix,
      writable |-> r.writable] :
        r \in {q \in objectRules : q.scope = scope},
        k \in {q \in Range(KeysAt(device, TableList(scope))) : InstanceOf(device, scope, q) > 0}}

buildObjects(device) ==
    scalarObjects
    \cup {[oid |-> Append(ifIndexOID, i), path |-> NoPath, writable |-> FALSE] :
             i \in DOMAIN Interfaces(device)}
    \cup UNION {tableObjects(device, s) : s \in {"interface", "stp-port", "mac", "vlan"}}

\* The objects with a value: the constants, and those whose leaf is stored.
Bindings(values) ==
    {o \in buildObjects(deviceFromValues(values)) : o.path = NoPath \/ o.path \in DOMAIN values}

OIDs(values) == {b.oid : b \in Bindings(values)}

\* The objects that a SET of this varbind may write: one or none.
Settable(objects, vb) == {o \in objects : o.oid = vb.oid /\ o.writable}

PathOf(objects, vb) == (CHOOSE o \in Settable(objects, vb) : TRUE).path

Proposed(objects, at, vb) == (PathOf(objects, vb) :> vb.value) @@ at.proposed

setVariable(objects, at, vb) ==
    IF \/ at.failed
       \/ Settable(objects, vb) = {}
       \/ vb.value = -1
       \/ ~Convert(PathOf(objects, vb))
       \/ ~Validate(Proposed(objects, at, vb))
    THEN [at EXCEPT !.failed = TRUE]
    ELSE [at EXCEPT !.proposed = Proposed(objects, at, vb)]

\* A SET of one varbind after the others: refused as a whole when an object does
\* not exist, is read-only, or makes the configuration inconsistent.
applySet(values, objects, varbinds) ==
    LET end == FoldLeft(LAMBDA at, vb : setVariable(objects, at, vb),
                        [proposed |-> values, failed |-> FALSE], varbinds)
    IN IF ~Values(values) \/ end.failed THEN values ELSE end.proposed
=============================================================================
