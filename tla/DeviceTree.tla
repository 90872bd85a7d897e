---------------------------- MODULE DeviceTree ----------------------------
(***************************************************************************)
(* The running datastore as the management planes and the domains see it:  *)
(* NETCONF, RESTCONF and gNMI edit it through the data tree, SNMP sets and *)
(* walks the objects of its index, the domains write state leaves, and the *)
(* process restarts from the startup file, which holds configuration only. *)
(*                                                                         *)
(* An edit is one action: it runs in a router transaction.  Deleting a     *)
(* list collection is two, since the entries are read before it.  A walk   *)
(* is one action per request, so everything may happen between two.        *)
(***************************************************************************)
EXTENDS DataTree, ObjectIndex, SnmpWalk

CONSTANTS
    Requests,     \* edits a client may send: [via, op, resource, content], where
                  \* content is the leaves of the body and via "restconf", "gnmi"
                  \* or "netconf" (default-operation none, op on the resource)
    Collections,  \* list paths a client may delete as a whole
    Varbinds,     \* SNMP SET requests: sequences of [oid, value]
    StateWrites,  \* leaves the domains write: [path, value]
    StateDeletes, \* leaves the domains remove again
    Budgets       \* how many requests, domain writes, commits, restarts and walks
                  \* a behaviour has: [edits, writes, commits, restarts, walks]

VARIABLES
    values,      \* the running datastore: leaf path -> value
    startup,     \* the leaves of the startup file
    rebooted,    \* the process has started from a startup file
    collection,  \* the entries a collection delete has read
    left         \* what is left of the budget

vars == <<values, startup, rebooted, collection, left, oids, walking>>

----------------------------------------------------------------------------
\* The documents of a request.

RECURSIVE Document(_, _)

\* The document of the node at path with the leaves of content.
Document(path, content) ==
    LET below == SelectSeq(PathOrder, LAMBDA p : p \in DOMAIN content /\ IsStrictPrefix(path, p))
        heads == InOrder({Upto(below[i], Len(path) + 1) : i \in DOMAIN below},
                         LAMBDA g, h : SelectInSeq(below, LAMBDA p : IsPrefix(g, p))
                                       < SelectInSeq(below, LAMBDA p : IsPrefix(h, p)))
    IN [name     |-> Last(path).name, op |-> Inherit,
        text     |-> IF path \in DOMAIN content THEN content[path] ELSE Zero,
        children |-> [i \in DOMAIN heads |-> Document(heads[i], content)]]

KeyDocument(entry) ==
    [name |-> Last(KeyLeaf(entry)).name, op |-> Inherit,
     text |-> Last(entry).key, children |-> <<>>]

IsEntry(path) == Last(path).key # NoKey

\* The body contradicts the key in the request path.
Contradicts(r) ==
    IsEntry(r.resource) /\ KeyLeaf(r.resource) \in DOMAIN r.content
                        /\ r.content[KeyLeaf(r.resource)] # Last(r.resource).key

\* The key leaf that the request path names, added when the body omits it.
ensureKey(r) ==
    [Document(r.resource, r.content) EXCEPT !.children =
        IF IsEntry(r.resource) /\ KeyLeaf(r.resource) \notin DOMAIN r.content
        THEN Append(@, KeyDocument(r.resource)) ELSE @]

\* PUT, PATCH, POST and DELETE: one document below the parent of the resource.
restconfWrite(r) ==
    [base |-> Front(r.resource), op |-> r.op,
     documents |-> <<IF r.op = "create" THEN Document(r.resource, r.content) ELSE ensureKey(r)>>]

RECURSIVE documentFor(_, _)

\* A gNMI operation or an edit-config: a chain of documents from the model root,
\* with the keys of the entries on the way and the operation on the deepest node.
documentFor(r, i) ==
    LET here == Upto(r.resource, i)
        deep == Document(r.resource, r.content)
        keys == IF IsEntry(here) /\ ~\E d \in Range(deep.children) : here = r.resource /\ d.name = Last(KeyLeaf(here)).name
                THEN <<KeyDocument(here)>> ELSE <<>>
    IN IF here = r.resource THEN [deep EXCEPT !.op = r.op, !.children = keys \o @]
       ELSE [name |-> Last(here).name, op |-> Inherit, text |-> Zero,
             children |-> keys \o <<documentFor(r, i + 1)>>]

gnmiSet(r) == [base |-> <<>>, op |-> "merge", documents |-> <<documentFor(r, 1)>>]

editConfig(r) == [base |-> <<>>, op |-> "none", documents |-> <<documentFor(r, 1)>>]

\* A body that contradicts the path, and a gNMI update of anything but a leaf, are
\* refused before the edit.
Refused(r) ==
    CASE r.via = "restconf" -> r.op # "create" /\ Contradicts(r)
      [] r.via = "gnmi"     -> r.op # "delete" /\ ~isLeaf(r.resource)
      [] r.via = "netconf"  -> FALSE

EditOf(r) ==
    CASE r.via = "restconf" -> restconfWrite(r)
      [] r.via = "gnmi"     -> gnmiSet(r)
      [] r.via = "netconf"  -> editConfig(r)

Edited(r) == IF Refused(r) THEN values ELSE apply(values, EditOf(r))

----------------------------------------------------------------------------
NoCollection == [list |-> <<>>, keys |-> <<>>]

Spend(what) == left[what] > 0 /\ left' = [left EXCEPT ![what] = @ - 1]

\* The datastore changes, and with it the objects of the next SNMP request.
Becomes(running) ==
    /\ values' = running
    /\ \E new \in {IF running = values THEN oids ELSE OIDs(running)} : IndexBecomes(new)

configOnly(leaves) == Restrict(leaves, {p \in DOMAIN leaves : ~readOnly(p)})

\* The first boot: the template is seeded and committed.
Init ==
    /\ values = Template.leaves
    /\ startup = configOnly(values)
    /\ rebooted = FALSE
    /\ left \in Budgets
    /\ oids = OIDs(values)
    /\ walking = NoWalk
    /\ collection = NoCollection

\* An edit-config of running, a RESTCONF write or a gNMI Set of one operation.
Edit(r) ==
    /\ Spend("edits")
    /\ \E running \in {Edited(r)} : Becomes(running)
    /\ UNCHANGED <<startup, rebooted, collection>>

SnmpSet(varbinds) ==
    /\ Spend("edits")
    /\ \E objects \in {Bindings(values)} :
          \E running \in {applySet(values, objects, varbinds)} : Becomes(running)
    /\ UNCHANGED <<startup, rebooted, collection>>

\* deleteCollection reads the entries of the list, state-only ones included.
CollectionReads(list) ==
    /\ collection = NoCollection
    /\ Spend("edits")
    /\ \E nodes \in {Read(values, list, "all")} :
          /\ nodes # <<>> /\ nodes[1].children # <<>>
          /\ collection' = [list |-> list,
                            keys |-> [i \in DOMAIN nodes[1].children |->
                                         Last(nodes[1].children[i].path).key]]
    /\ UNCHANGED <<values, startup, rebooted, walkVars>>

\* One document for each entry that was read.
deleteCollection ==
    LET document(key) ==
            [name |-> Last(collection.list).name, op |-> Inherit, text |-> Zero,
             children |-> <<KeyDocument(Entry(collection.list, key))>>]
    IN [base      |-> Front(collection.list), op |-> "delete",
        documents |-> [i \in DOMAIN collection.keys |-> document(collection.keys[i])]]

\* It then deletes the entries it has read, in one transaction of their own.
CollectionDeletes ==
    /\ collection # NoCollection
    /\ \E running \in {apply(values, deleteCollection)} : Becomes(running)
    /\ collection' = NoCollection
    /\ UNCHANGED <<startup, rebooted, left>>

\* A domain writes a leaf whose path it took from a snapshot read earlier.
SetState(w) ==
    /\ Spend("writes")
    /\ ConvertState(w.path)
    /\ \E running \in {(w.path :> w.value) @@ values} : Becomes(running)
    /\ UNCHANGED <<startup, rebooted, collection>>

DeleteState(path) ==
    /\ Spend("writes")
    /\ ConvertState(path)
    /\ \E running \in {Restrict(values, DOMAIN values \ {path})} : Becomes(running)
    /\ UNCHANGED <<startup, rebooted, collection>>

\* A NETCONF commit without pending edits: candidate mirrors running.  One that
\* does not validate is refused.
Commit ==
    /\ Spend("commits")
    /\ startup' = IF Validate(values) THEN configOnly(values) ELSE startup
    /\ UNCHANGED <<values, rebooted, collection, walkVars>>

\* A crash or a stop, LoadStartup and seedIfEmpty: a file without a leaf boots
\* the template, which is committed.  A process whose file does not validate does
\* not start.
Restart ==
    /\ Spend("restarts")
    /\ TRUE = Validate(startup)
    /\ rebooted' = TRUE
    /\ \E running \in {IF startup = <<>> THEN Template.leaves ELSE startup} :
          startup' = configOnly(running) /\ Becomes(running)
    /\ collection' = NoCollection

StartWalk ==
    /\ Spend("walks")
    /\ WalkStarts
    /\ UNCHANGED <<values, startup, rebooted, collection>>

WalkRequest ==
    /\ \E n \in Repetitions : WalkStep(n)
    /\ UNCHANGED <<values, startup, rebooted, collection, left>>

Next ==
    \/ \E r \in Requests : Edit(r)
    \/ \E v \in Varbinds : SnmpSet(v)
    \/ \E l \in Collections : CollectionReads(l)
    \/ CollectionDeletes
    \/ \E w \in StateWrites : SetState(w)
    \/ \E p \in StateDeletes : DeleteState(p)
    \/ Commit \/ Restart \/ StartWalk \/ WalkRequest

\* A manager in a walk sends its next request: weak fairness of WalkRequest, which
\* is enabled exactly while the manager walks.
WalkGoesOn == []<>(walking.phase # "walking") \/ []<><<WalkRequest>>_vars

Spec == Init /\ [][Next]_vars /\ WalkGoesOn

----------------------------------------------------------------------------
\* Reference definitions for the properties.

\* The leaf that holds the key of the entry it is in.
IsKeyLeaf(p) == Len(p) > 1 /\ IsEntry(Front(p)) /\ p = KeyLeaf(Front(p))

\* No plane has overwritten the key leaf of an entry with another key.
KeysIntact == \A p \in DOMAIN values : IsKeyLeaf(p) => values[p] = Last(Front(p)).key

\* The key path of a position path of a device.
Keyed(device, p) ==
    [i \in DOMAIN p |->
        IF p[i].key = NoKey THEN p[i]
        ELSE Segment(p[i].name, device.lists[ListOf(Upto(p, i))][p[i].key])]

\* The interfaces in the order of their ifIndex.
ifOrder(leaves) == Interfaces(deviceFromValues(leaves))

EntriesIn(leaves) ==
    UNION {{Upto(p, i) : i \in {j \in DOMAIN p : p[j].key # NoKey}} : p \in DOMAIN leaves}

\* A list in a list, or a leaf of one.
Nested(p) == Cardinality({i \in DOMAIN p : NodeAt(Names(Upto(p, i))).kind = "list"}) > 1

\* The keys of the stored entries of a list: the template's, then the others.
SnapshotKeys(list) ==
    LET stored == {Last(e).key : e \in {f \in EntriesIn(values) : ListOf(f) = list}}
        first(k) == SelectInSeq(PathOrder, LAMBDA p : IsPrefix(Entry(list, k), p))
        known == IF Nested(list) THEN <<>>
                 ELSE SelectSeq(KeysAt(Template, list), LAMBDA k : k \in stored)
    IN known \o InOrder(stored \ Range(known), LAMBDA j, k : first(j) < first(k))

\* The leaves of the device but for the key leaves: stored, or of the template.
SnapshotLeaves ==
    {p \in DOMAIN values \cup DOMAIN Template.leaves :
        /\ ~IsKeyLeaf(p)
        /\ \/ p \in DOMAIN values
           \/ ~Nested(p) /\ EntriesIn(p :> 0) \subseteq EntriesIn(values)}

\* A read of prefix returns the stored leaves at and below the nodes, each once.
ReadsExactly(prefix, nodes) ==
    \E leaves \in {LeavesOf(Read(values, prefix, "all"))} :
       /\ IsInjective(leaves)
       /\ Range(leaves) = {p \in DOMAIN values : \E e \in nodes : IsPrefix(e, p)}

\* The key leaves that a request writes because its path names their entries.
KeysNamed(r) ==
    {KeyLeaf(Upto(r.resource, i)) : i \in
        {j \in DOMAIN r.resource :
            /\ r.resource[j].key # NoKey
            /\ j = Len(r.resource) => r.op \notin {"delete", "remove"}
            /\ j < Len(r.resource) => r.via = "gnmi"}}

Written(r) == r.content @@ [k \in KeysNamed(r) |-> Last(Front(k)).key]

\* The configuration that a request takes away.
Gone(r) ==
    IF r.op \in {"replace", "delete", "remove"}
    THEN {p \in DOMAIN values : IsPrefix(r.resource, p) /\ ~readOnly(p)} ELSE {}

Expected(r) == Written(r) @@ Restrict(values, DOMAIN values \ Gone(r))

Admissible(r) ==
    /\ r.op = "create" => ~\E p \in DOMAIN values : IsPrefix(r.resource, p) /\ ~readOnly(p)
    /\ r.op = "delete" => Gone(r) # {}
    /\ r.op = "remove" => r.resource \notin DOMAIN values \ Gone(r)
    /\ \A p \in DOMAIN Written(r) : Written(r)[p] # Malformed /\ Convert(p)
    /\ r.via = "restconf" => ~Contradicts(r)
    /\ r.via = "gnmi" /\ r.op # "delete" => DOMAIN r.content = {r.resource}
    /\ Validate(Expected(r))

\* The entries that a collection delete has read, each with configuration still,
\* and the datastore without that.
Collected == {Entry(collection.list, k) : k \in Range(collection.keys)}

CollectionStands ==
    \A e \in Collected : \E p \in DOMAIN values : IsPrefix(e, p) /\ ~readOnly(p)

Uncollected ==
    Restrict(values, {p \in DOMAIN values :
                         readOnly(p) \/ ~\E e \in Collected : IsPrefix(e, p)})

----------------------------------------------------------------------------
\* Properties.

(***************************************************************************)
(* The device that a domain or a plane reads is the datastore, as long as  *)
(* no plane overwrites a key leaf.  Its list entries are those with a      *)
(* stored leaf, each once, those of the template first and in its order,   *)
(* then the others in byte order.  Its leaves are exactly the stored ones, *)
(* with the stored value, and those that the template has at the root or   *)
(* in an entry that is there, with the template's.  A list in a list has   *)
(* neither: hydrate.go prunes all its template entries, so the stored ones *)
(* come in byte order and a leaf that is not stored is zero.               *)
(***************************************************************************)
SnapshotIsDatastore ==
    KeysIntact =>
        \E device \in {deviceFromValues(values)} :
           \E at \in {[p \in DOMAIN device.leaves |-> Keyed(device, p)]} :
              /\ {Keyed(device, e) : e \in Entries(device)} = EntriesIn(values)
              /\ \A l \in DOMAIN device.lists : device.lists[l] = SnapshotKeys(Keyed(device, l))
              /\ {p \in Range(at) : ~IsKeyLeaf(p)} = SnapshotLeaves
              /\ \A p \in DOMAIN at : device.leaves[p] = (values @@ Template.leaves)[at[p]]

(***************************************************************************)
(* A read of everything, of a list or of an entry returns exactly the      *)
(* stored leaves at and below it, each once, and the reads of the          *)
(* configuration and of the state split them.  Read builds the tree from   *)
(* the schema and finds the list entries by matching path prefixes.        *)
(***************************************************************************)
ReadsAgree ==
    /\ Values(values)
    /\ ReadsExactly(<<>>, {<<>>})
    /\ \E entries \in {EntriesIn(values)} : \A e \in entries :
          /\ ReadsExactly(e, {e})
          /\ ReadsExactly(ListOf(e), {f \in entries : ListOf(f) = ListOf(e)})
    /\ Range(LeavesOf(Read(values, <<>>, "config"))) = {p \in DOMAIN values : ~readOnly(p)}
    /\ Range(LeavesOf(Read(values, <<>>, "nonconfig"))) = {p \in DOMAIN values : readOnly(p)}

(***************************************************************************)
(* From the first boot on, and until the process restarts, no request of   *)
(* any plane moves an interface to another ifIndex, not even the delete of *)
(* an interface: its counters stay, and with them its place in the rebuilt *)
(* device that buildObjects numbers.                                       *)
(***************************************************************************)
IfIndexStable ==
    [][~rebooted' => \E new \in {values'} : ifOrder(new) = ifOrder(values)]_values

\* A manager that keeps asking for the successor gets to the end of the MIB.
WalkEnds == []<>(walking.phase # "walking")

(***************************************************************************)
(* An edit does all of what it says or nothing: the leaves of the body and *)
(* the keys its path names are written, a replace or delete takes the      *)
(* configuration at and below the resource away, and no other leaf, no     *)
(* state leaf among them, changes.  walk, prepareSubtree and leaf get      *)
(* there node by node, over a tree of documents and inherited operations.  *)
(* The delete of a collection takes the configuration of the entries that  *)
(* it has read, all of them or, if one has none any more or the rest is    *)
(* not valid, nothing; an entry that came in between stays.                *)
(***************************************************************************)
EditsAreExact ==
    /\ left.edits > 0 =>
           \A r \in Requests : Edited(r) = IF Admissible(r) THEN Expected(r) ELSE values
    /\ collection # NoCollection =>
           apply(values, deleteCollection) =
               IF CollectionStands /\ Validate(Uncollected) THEN Uncollected ELSE values
=============================================================================
