----------------------------- MODULE DataTree -----------------------------
(***************************************************************************)
(* internal/datatree: the tree that NETCONF and RESTCONF read from the     *)
(* leaves of a datastore, and the edit of a datastore by a document tree.  *)
(* A document is [name, op, text, children]; op is Inherit when the        *)
(* document carries no operation attribute.                                *)
(***************************************************************************)
EXTENDS DeviceModel

Inherit == "inherit"
Malformed == -1     \* a text that ParseLeaf refuses for the leaf's kind

----------------------------------------------------------------------------
\* Reading.

\* Mutant: configuration only, also when all leaves are asked for.
selectedConfig(path, content) == content # "nonconfig" /\ ~readOnly(path)

selected(path, content) ==
    IF readOnly(path) THEN content \in {"all", "nonconfig"} ELSE content # "nonconfig"

\* The keys of the entries of list that some stored leaf lies in.
instancesOf(values, list) ==
    {p[Len(list)].key : p \in {q \in DOMAIN values :
                                 /\ Len(q) >= Len(list)
                                 /\ IsPrefix(Front(list), q)
                                 /\ q[Len(list)].name = Last(list).name
                                 /\ q[Len(list)].key # NoKey}}

\* Every key of this model is numeric, and ordered as a number.
sortEntries(keys) == InOrder(keys, <)

RECURSIVE buildChildren(_, _, _)
RECURSIVE buildEntry(_, _, _)

\* One node for each schema child of prefix that has data.
buildChildren(values, prefix, content) ==
    LET node(child) ==
            LET path == Below(prefix, Last(child.names)) IN
            CASE child.kind = "leaf" -> [path |-> path, kind |-> "leaf", children |-> <<>>]
              [] child.kind = "container" ->
                    [path |-> path, kind |-> "container",
                     children |-> buildChildren(values, path, content)]
              [] child.kind = "list" ->
                    LET keys == sortEntries(instancesOf(values, path)) IN
                    [path |-> path, kind |-> "list",
                     children |-> [i \in DOMAIN keys |->
                                      buildEntry(values, Entry(path, keys[i]), content)]]
        present(child) ==
            LET path == Below(prefix, Last(child.names)) IN
            child.kind = "leaf" => path \in DOMAIN values /\ selected(path, content)
        shown == SelectSeq(Children(prefix), present)
    IN [i \in DOMAIN shown |-> node(shown[i])]

\* A list entry: its key leaf first, when it is stored.
buildEntry(values, entry, content) ==
    LET inner == buildChildren(values, entry, content)
        isKey(n) == n.path = KeyLeaf(entry)
        other(n) == n.path # KeyLeaf(entry)
    IN [path |-> entry, kind |-> "container",
        children |-> SelectSeq(inner, isKey) \o SelectSeq(inner, other)]

\* The node itself, or the list narrowed to the entry that the prefix names.
listEntryNode(node, prefix) ==
    IF node.kind = "list" /\ Last(prefix).key # NoKey
    THEN SelectSeq(<<[node EXCEPT !.children = SelectSeq(@, LAMBDA e : e.path = prefix)]>>,
                   LAMBDA n : n.children # <<>>)
    ELSE <<node>>

\* The nodes at prefix: all of the root, one node, or none.
Read(values, prefix, content) ==
    IF prefix = <<>> THEN buildChildren(values, <<>>, content)
    ELSE FoldLeft(LAMBDA out, n : out \o listEntryNode(n, prefix), <<>>,
                  SelectSeq(buildChildren(values, Front(prefix), content),
                            LAMBDA n : n.path = ListOf(prefix)))

RECURSIVE LeavesOf(_)

\* The leaf paths of nodes, in document order.
LeavesOf(nodes) ==
    FoldLeft(LAMBDA out, n : out \o (IF n.kind = "leaf" THEN <<n.path>> ELSE LeavesOf(n.children)),
             <<>>, nodes)

----------------------------------------------------------------------------
(***************************************************************************)
(* Editing.  The editor carries the proposed leaves, the paths among them  *)
(* that configuration may touch, and whether an operation failed, which    *)
(* ends the edit.                                                          *)
(***************************************************************************)

Editor(values) ==
    [proposed |-> values, writable |-> {p \in DOMAIN values : ~readOnly(p)}, failed |-> FALSE]

Fail(e) == [e EXCEPT !.failed = TRUE]

remove(e, paths) ==
    [e EXCEPT !.proposed = Restrict(@, DOMAIN @ \ paths), !.writable = @ \ paths]

\* The stored leaves at and below path that configuration may touch.
Subtree(e, path) == {p \in e.writable : IsPrefix(path, p)}

contains(e, path) == Subtree(e, path) # {}

\* Mutant: the state leaves of the subtree go with its configuration.
wipeAll(e, path) == remove(e, {p \in DOMAIN e.proposed : IsPrefix(path, p)})

wipe(e, path) == remove(e, Subtree(e, path))

\* Mutant: a replace keeps the leaves the document does not mention.
prepareSubtreeMerges(e, path, op) ==
    CASE op = "create" -> IF contains(e, path) THEN Fail(e) ELSE e
      [] op = "delete" -> IF contains(e, path) THEN wipe(e, path) ELSE Fail(e)
      [] op = "remove" -> wipe(e, path)
      [] OTHER -> e

prepareSubtree(e, path, op) ==
    CASE op = "create" -> IF contains(e, path) THEN Fail(e) ELSE e
      [] op = "delete" -> IF contains(e, path) THEN wipe(e, path) ELSE Fail(e)
      [] op \in {"remove", "replace"} -> wipe(e, path)
      [] OTHER -> e

leaf(e, path, document, op) ==
    CASE op = "none" -> e
      [] op = "delete" -> IF path \in e.writable THEN remove(e, {path}) ELSE Fail(e)
      [] op = "remove" ->
            IF path \in DOMAIN e.proposed \ e.writable THEN Fail(e) ELSE remove(e, {path})
      [] OTHER ->
            IF \/ document.text = Malformed
               \/ ~Convert(path)
               \/ op = "create" /\ path \in e.writable
            THEN Fail(e)
            ELSE [e EXCEPT !.proposed = (path :> document.text) @@ @,
                           !.writable = @ \cup {path}]

childOperation(op) == IF op \in {"replace", "create"} THEN "merge" ELSE op

\* The key of a list entry's document, NoKey when it carries none.
listKey(document, name) ==
    LET keys == SelectSeq(document.children, LAMBDA d : d.name = name) IN
    IF keys = <<>> THEN NoKey ELSE keys[1].text

RECURSIVE walk(_, _, _, _)

\* The subtree of a container or a list entry, then its children, each under the
\* operation it inherits.
container(e, document, path, op) ==
    IF op \in {"delete", "remove"} THEN prepareSubtree(e, path, op)
    ELSE FoldLeft(LAMBDA editor, child : walk(editor, child, path, childOperation(op)),
                  prepareSubtree(e, path, op), document.children)

\* A list entry is addressed by the key leaf that its document must carry.
listEntry(e, document, base, key, op) ==
    IF key = NoKey THEN Fail(e)
    ELSE container(e, document, Append(base, Segment(document.name, key)), op)

dispatch(e, document, base, node, op) ==
    CASE node.kind = "leaf" -> leaf(e, Below(base, document.name), document, op)
      [] node.kind = "container" -> container(e, document, Below(base, document.name), op)
      [] node.kind = "list" -> listEntry(e, document, base, listKey(document, node.key), op)

walk(e, document, base, inherited) ==
    IF e.failed \/ ~HasNode(Append(Names(base), document.name)) THEN Fail(e)
    ELSE dispatch(e, document, base, NodeAt(Append(Names(base), document.name)),
                  IF document.op = Inherit THEN inherited ELSE document.op)

\* The datastore after an edit; an edit that fails leaves it as it was.
apply(values, request) ==
    LET end == FoldLeft(LAMBDA e, d : walk(e, d, request.base, request.op),
                        Editor(values), request.documents)
    IN IF ~Values(values) \/ end.failed \/ ~Validate(end.proposed)
       THEN values ELSE end.proposed
=============================================================================
