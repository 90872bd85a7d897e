---------------------------- MODULE DeviceModel ----------------------------
(***************************************************************************)
(* The managed object of internal/router: the schema that the path tags    *)
(* of internal/model describe, the resolution of a path against the boot   *)
(* template, and the rebuild of a device from the flat leaf map that a     *)
(* datastore holds.                                                        *)
(*                                                                         *)
(* A path is a sequence of segments [name, key]; a segment that selects no *)
(* list entry has the key NoKey.  Keys and leaf values are numbers; 0 is   *)
(* the zero value of every leaf type.                                      *)
(***************************************************************************)
EXTENDS Integers, FiniteSets, SequencesExt

CONSTANTS
    Model,     \* the schema nodes in declaration order:
               \* [names, kind, key, config, creatable, needed, unique]
    Template,  \* the boot template: [lists: list path -> Seq(key),
               \*                     leaves: leaf path -> value]
    PathOrder  \* every leaf path of the instance, in the byte order of its text

NoKey == 0
Zero == 0

Segment(name, key) == [name |-> name, key |-> key]

Names(path) == [i \in DOMAIN path |-> path[i].name]

Upto(path, i) == SubSeq(path, 1, i)

\* The list whose entry the last segment of path selects.
ListOf(path) == Append(Front(path), Segment(Last(path).name, NoKey))

Entry(list, key) == Append(Front(list), Segment(Last(list).name, key))

Below(path, name) == Append(path, Segment(name, NoKey))

\* The elements of a finite set in the order of a strict total order.
InOrder(S, Less(_, _)) ==
    [i \in 1 .. Cardinality(S) |->
        CHOOSE x \in S : Cardinality({y \in S : Less(y, x)}) = i - 1]

----------------------------------------------------------------------------
\* The schema: type-driven, the same whatever a datastore holds.

Schema == [names \in {n.names : n \in Range(Model)} |->
              CHOOSE n \in Range(Model) : n.names = names]

HasNode(names) == names \in DOMAIN Schema

NodeAt(names) == Schema[names]

Children(path) ==
    SelectSeq(Model, LAMBDA n : Len(n.names) = Len(path) + 1
                                /\ IsPrefix(Names(path), n.names))

\* The leaf of a list entry that holds its key.
KeyLeaf(entry) == Below(entry, NodeAt(Names(entry)).key)

----------------------------------------------------------------------------
\* Resolution against the boot template.

TemplateKeys(list) ==
    IF list \in DOMAIN Template.lists THEN Range(Template.lists[list]) ELSE {}

\* A list entry is one the template has or, in a creatable list, any entry.
selectElement(list, key, creatable) ==
    key # NoKey /\ (key \in TemplateKeys(list) \/ creatable)

resolve(path) ==
    \A i \in DOMAIN path :
        /\ HasNode(Names(Upto(path, i)))
        /\ LET node == NodeAt(Names(Upto(path, i))) IN
           IF node.kind = "list"
           THEN selectElement(ListOf(Upto(path, i)), path[i].key, node.creatable)
           ELSE path[i].key = NoKey

isLeaf(path) == NodeAt(Names(path)).kind = "leaf"

\* A leaf is state when its field or one it is nested in is tagged config:"false".
readOnly(path) == \E i \in DOMAIN path : ~NodeAt(Names(Upto(path, i))).config

\* The path is a leaf that a management plane may write.
Convert(path) == resolve(path) /\ isLeaf(path) /\ ~readOnly(path)

\* The path is a leaf that the owning domain may write.
ConvertState(path) == resolve(path) /\ isLeaf(path)

Representable == {p \in Range(PathOrder) : ConvertState(p)}

\* Every stored leaf resolves; one that does not fails every bulk read and edit.
Values(values) == DOMAIN values \subseteq Representable

----------------------------------------------------------------------------
(***************************************************************************)
(* The rebuild.  A device is [lists, leaves] like the template, but its    *)
(* paths select list entries by position, since a slice element keeps its  *)
(* place even when its key field is overwritten.  A leaf that is not in    *)
(* the map has the zero value.                                             *)
(***************************************************************************)

NamesOnly(path) == [i \in DOMAIN path |-> Segment(path[i].name, NoKey)]

\* instances[list]: the keys stored below a path of names.  The index is by
\* names alone, and pruneList looks it up with the keys of the outer entries in
\* the path: a list nested in a list never finds its instances.
instances(values, list) ==
    {p[Len(list)].key : p \in {q \in DOMAIN values :
                                 /\ Len(q) >= Len(list)
                                 /\ q[Len(list)].key # NoKey
                                 /\ NamesOnly(Upto(q, Len(list))) = list}}

\* Mutant: every entry of the template is kept.
pruneListNothing(values, list) == Template.lists[list]

pruneList(values, list) ==
    SelectSeq(Template.lists[list], LAMBDA k : k \in instances(values, list))

\* The position path of a path that selects entries by key.
Position(lists, path) ==
    [i \in DOMAIN path |->
        IF path[i].key = NoKey THEN path[i]
        ELSE LET keys == lists[ListOf(Upto(path, i))] IN
             Segment(path[i].name, CHOOSE j \in DOMAIN keys : keys[j] = path[i].key)]

Positioned(lists, fcn, paths) ==
    LET at == [p \in paths |-> Position(lists, p)] IN
    [q \in Range(at) |-> fcn[CHOOSE p \in paths : at[p] = q]]

\* The template entries that remain; an empty datastore keeps the template.
pruneLists(values) ==
    LET lists == [l \in DOMAIN Template.lists |->
                    IF values = <<>> THEN Template.lists[l] ELSE pruneList(values, l)]
        kept(p) == \A i \in DOMAIN p :
                      p[i].key # NoKey => p[i].key \in Range(lists[ListOf(Upto(p, i))])
    IN [lists  |-> Positioned(lists, lists, {l \in DOMAIN lists : kept(l)}),
        leaves |-> Positioned(lists, Template.leaves, {p \in DOMAIN Template.leaves : kept(p)})]

KeysAt(device, list) ==
    IF list \in DOMAIN device.lists THEN device.lists[list] ELSE <<>>

\* The entry of list with this key, appended to the list when it has none.
appendOrSelect(device, list, key) ==
    LET keys == KeysAt(device, list) IN
    IF key \in Range(keys)
    THEN [device   |-> device,
          position |-> SelectInSeq(keys, LAMBDA k : k = key)]
    ELSE [device   |-> [device EXCEPT !.lists = (list :> Append(keys, key)) @@ @],
          position |-> Len(keys) + 1]

assignLeaf(device, path, value) ==
    IF Len(path) > 1 /\ Last(Front(path)).key # NoKey /\ path = KeyLeaf(Front(path))
    THEN [device EXCEPT !.lists[ListOf(Front(path))][Last(Front(path)).key] = value]
    ELSE [device EXCEPT !.leaves = (path :> value) @@ @]

NoDevice == [lists |-> <<>>, leaves |-> <<>>]   \* the rebuild failed

\* One segment of assignPath: at is the device and the position path so far.
selectOne(at, segment) ==
    IF segment.key = NoKey THEN [at EXCEPT !.path = Append(@, segment)]
    ELSE LET found == appendOrSelect(at.device, Below(at.path, segment.name), segment.key)
         IN [device |-> found.device, path |-> Append(at.path, Segment(segment.name, found.position))]

assignPath(device, path, value) ==
    LET at[i \in 0 .. Len(path)] ==
            IF i = 0 THEN [device |-> device, path |-> <<>>] ELSE selectOne(at[i - 1], path[i])
        end == at[Len(path)]
    IN IF device = NoDevice \/ ~HasNode(Names(path)) THEN NoDevice
       ELSE assignLeaf(end.device, end.path, value)

deviceFromValues(values) ==
    LET paths == SelectSeq(PathOrder, LAMBDA p : p \in DOMAIN values)
        device[i \in 0 .. Len(paths)] ==
            IF i = 0 THEN pruneLists(values)
            ELSE assignPath(device[i - 1], paths[i], values[paths[i]])
    IN device[Len(paths)]

----------------------------------------------------------------------------
\* Validation of a whole proposed datastore.

Entries(device) ==
    UNION {{Entry(l, i) : i \in DOMAIN device.lists[l]} : l \in DOMAIN device.lists}

\* A leaf of the entries of a list, directly or through containers.
LeafOf(list, node) ==
    /\ node.kind = "leaf" /\ IsStrictPrefix(list, node.names)
    /\ \A i \in Len(list) + 1 .. Len(node.names) - 1 :
           NodeAt(SubSeq(node.names, 1, i)).kind = "container"

\* The leaves that the entries of each list need.
NeededLeaves ==
    [list \in DOMAIN Schema |-> {n \in Range(Model) : n.needed /\ LeafOf(list, n)}]

LeafPath(entry, node) ==
    entry \o [i \in 1 .. Len(node.names) - Len(entry) |->
                 Segment(node.names[Len(entry) + i], NoKey)]

ValueAt(device, entry, node) ==
    LET path == LeafPath(entry, node) IN
    IF path = KeyLeaf(entry) THEN device.lists[ListOf(entry)][Last(entry).key]
    ELSE IF path \in DOMAIN device.leaves THEN device.leaves[path] ELSE Zero

Validate(values) ==
    \E device \in {deviceFromValues(values)} :
        /\ device # NoDevice
        /\ \A e \in Entries(device) :
               \A n \in NeededLeaves[Names(e)] : ValueAt(device, e, n) # Zero
        /\ \A l \in DOMAIN device.lists :
               NodeAt(Names(l)).unique => IsInjective(device.lists[l])
=============================================================================
