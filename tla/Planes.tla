------------------------------- MODULE Planes -------------------------------
(***************************************************************************)
(* The management planes at work on the datastores: the edits of NETCONF,  *)
(* RESTCONF, gNMI and SNMP as router transactions (internal/datatree,      *)
(* internal/router), the change tracking of the store, the memoized object *)
(* index of the SNMP agent, and the conditional retrievals and edits of    *)
(* RESTCONF (internal/restconf/caching.go).                                *)
(*                                                                         *)
(* A transaction holds Router.txMu from the snapshot it reads to the batch *)
(* it applies.  The store locks single operations only, and the writers    *)
(* that do not ask for txMu come in between: commits, discards, rollbacks  *)
(* of confirmed commits, and the domains.  Files are left to module Store. *)
(***************************************************************************)
EXTENDS Datastores

CONSTANTS
    Editors,        \* requests that edit a datastore
    Readers,        \* SNMP requests that build the object index
    Clients,        \* RESTCONF clients that keep a copy
    Casts,          \* the sets of them that meet, each with a bound on the writes:
                    \* [who, writes]
    MaxWrites,      \* the largest of these bounds
    None

ASSUME NoneIsNoDatastore == None \notin Datastore

VARIABLES
    mem,        \* the datastores
    gen,        \* Memory.generation
    stamp,      \* Memory.configChanged; the time is the number of the write
    writes,     \* the writes so far
    tx,         \* the transaction of each editor, or None
    reader,     \* the rebuild of the index under way in each reader, or None
    cache,      \* Router.bindCache, or None
    client,     \* each client: what it asked for, the body read, its copy
    passed,     \* the condition that the request of an editor has met, or None
    cast        \* who takes part

storeVars == <<mem, gen, stamp, writes, cast>>

vars == <<storeVars, tx, reader, cache, client, passed>>
-----------------------------------------------------------------------------
(***************************************************************************)
(* One write of the store: the datastores it leaves and, for each of those *)
(* it records a change of, the paths recorded.                             *)
(***************************************************************************)
IsConfig(paths) == paths \cap ConfigPaths # {}

\* Mutant: the copy of a write in candidate is not recorded.
recordWriteUnmirrored(ds, paths) == [d \in {ds} |-> paths]

recordWrite(ds, paths) == [d \in mirror(ds) |-> paths]

bump(d, paths) == gen[d] + 1

Write(next, recorded) ==
    /\ writes < cast.writes
    /\ writes' = writes + 1
    /\ UNCHANGED cast
    /\ mem' = next
    /\ gen' = [d \in Datastore |->
                 IF d \in DOMAIN recorded THEN bump(d, recorded[d]) ELSE gen[d]]
    /\ stamp' = [d \in Datastore |->
                   IF d \in DOMAIN recorded /\ IsConfig(recorded[d]) THEN writes + 1
                   ELSE stamp[d]]

Generation(ds) == gen[ds]

ConfigChangedAt(ds) == stamp[ds]

\* The conditions of the editors es that a write of the configuration of their
\* datastore overtakes, marked so.
Overtaken(es) ==
    [e \in Editors |->
        IF e \in es /\ passed[e] # None /\ stamp'[passed[e].ds] # stamp[passed[e].ds]
        THEN [passed[e] EXCEPT !.overtaken = TRUE] ELSE passed[e]]

\* A write that does not wait for txMu: it is remembered in the transactions
\* whose datastore it changes under them.
Outside ==
    /\ passed' = Overtaken(Editors)
    /\ tx' = [e \in Editors |->
                IF tx[e] # None /\ configOnly(mem'[tx[e].ds]) # configOnly(mem[tx[e].ds])
                THEN [tx[e] EXCEPT !.raced = TRUE] ELSE tx[e]]
    /\ UNCHANGED <<reader, cache, client>>

\* A domain writes one of its leaves to running.
DomainSet(p, v) ==
    /\ Write(Set(mem, "running", p, v), recordWrite("running", {p}))
    /\ Outside

CommitCandidate ==
    /\ mem["candidate"] \in Valid
    /\ LET diff == diffValues(mem["running"], mem["candidate"])
       IN  Write(Commit(mem["candidate"]), [d \in Datastore |-> diff])
    /\ Outside

DiscardChanges ==
    LET diff == diffValues(mem["candidate"], mem["running"])
    IN  /\ Write(Rollback(mem), [d \in {"candidate"} |-> diff])
        /\ Outside

\* The rollback of a confirmed commit that was issued on the seed device.
RestoreSeed ==
    LET diff == diffValues(mem["running"], Seed)
    IN  /\ Write(Restore(mem, Seed), [d \in {"running", "startup"} |-> diff])
        /\ Outside
-----------------------------------------------------------------------------
(***************************************************************************)
(* The editor of internal/datatree on a copy t of a datastore.  A node is  *)
(* the set of the configuration leaves below it, a document the values it  *)
(* has for some of them; state leaves are out of its reach.  A request of  *)
(* several documents proposes no tree that a replace could not propose.    *)
(***************************************************************************)
Nodes == SUBSET ConfigPaths \ {{}}

Documents(node) == UNION {[S -> Values] : S \in SUBSET node}

contains(t, node) == \E p \in node : t[p] # Absent

wipe(t, node) == Overlay(t, [p \in node |-> Absent])

Operations == {"merge", "replace", "none", "create", "delete", "remove"}

\* What an operation insists on.
prepareSubtree(t, op, node) ==
    CASE op = "create" -> ~ contains(t, node)
      [] op = "delete" -> contains(t, node)
      [] OTHER -> TRUE

walk(t, op, node, document) ==
    CASE op \in {"delete", "remove"} -> wipe(t, node)
      [] op = "replace" -> Overlay(wipe(t, node), document)
      [] op \in {"merge", "create"} -> Overlay(t, document)
      [] op = "none" -> t

\* The difference that is written back.
applyDiff(original, proposed) ==
    [p \in diffValues(original, proposed) |-> proposed[p]]
-----------------------------------------------------------------------------
(***************************************************************************)
(* Edits.  A request takes txMu, reads the datastore, proposes a tree, has *)
(* it validated, and writes; what the tree, the editor or the validator    *)
(* refuses ends there and changes nothing.                                 *)
(***************************************************************************)

\* Mutant: every edit is let in.
TransactionOpen(e) == tx[e] = None

\* Router.txMu is free.
Transaction(e) == \A f \in Editors : tx[f] = None

Propose(e, ds, proposed, batch) ==
    /\ proposed \in Valid
    /\ tx' = [tx EXCEPT ![e] = [ds |-> ds, proposed |-> proposed, batch |-> batch,
                                raced |-> FALSE]]
    /\ UNCHANGED <<storeVars, reader, cache, client, passed>>

TreeEdit(e, ds, op, node, document) ==
    LET proposed == walk(mem[ds], op, node, document)
    IN  /\ Transaction(e)
        /\ op \in {"delete", "remove", "none"} => DOMAIN document = {}
        /\ prepareSubtree(mem[ds], op, node)
        /\ Propose(e, ds, proposed, applyDiff(mem[ds], proposed))

EditConfig(e, ds, op, node, document) ==
    /\ passed[e] = None
    /\ op \in Operations
    /\ TreeEdit(e, ds, op, node, document)

\* PATCH, PUT, POST and DELETE; a condition was checked before.
RestconfEdit(e, ds, op, node, document) ==
    /\ passed[e] # None => passed[e].ds = ds
    /\ op \in {"merge", "replace", "create", "delete"}
    /\ TreeEdit(e, ds, op, node, document)

\* Replace and update address one leaf each, delete any node of running.
GnmiSet(e, op, node, document) ==
    /\ passed[e] = None
    /\ op \in {"merge", "replace", "delete"}
    /\ op # "delete" => \E p \in node : node = {p} /\ DOMAIN document = node
    /\ TreeEdit(e, "running", op, node, document)

\* An SNMP SET gives values to existing leaves of running, one after the
\* other and each validated with those before it, and writes all of them.
SnmpSet(e, values) ==
    LET t == mem["running"]
        S == DOMAIN values
    IN  /\ Transaction(e)
        /\ passed[e] = None
        /\ S # {}
        /\ \A p \in S : t[p] # Absent
        /\ \E rank \in [S -> 1..Cardinality(S)] :
               /\ \A p, q \in S : rank[p] = rank[q] => p = q
               /\ \A k \in 1..Cardinality(S) :
                      Overlay(t, [p \in {q \in S : rank[q] <= k} |-> values[p]]) \in Valid
        /\ Propose(e, "running", Overlay(t, values), values)

ApplyEdit(e) ==
    /\ tx[e] # None
    /\ Write(Apply(mem, tx[e].ds, tx[e].batch), recordWrite(tx[e].ds, DOMAIN tx[e].batch))
    /\ tx' = [tx EXCEPT ![e] = None]
    /\ passed' = [Overtaken(Editors \ {e}) EXCEPT ![e] = None]
    /\ UNCHANGED <<reader, cache, client>>

\* The context of the request is cancelled before the batch is applied.
CancelEdit(e) ==
    /\ tx[e] # None
    /\ tx' = [tx EXCEPT ![e] = None]
    /\ passed' = [passed EXCEPT ![e] = None]
    /\ UNCHANGED <<storeVars, reader, cache, client>>
-----------------------------------------------------------------------------
(***************************************************************************)
(* Router.Bindings: the generation first, then a look at the cache under   *)
(* bindMu, and after a miss the values, which are stored in the cache.     *)
(***************************************************************************)
bindingCache == [gen : 0..MaxWrites, tree : Tree]

Hit(g) == cache # None /\ cache.gen = g

\* A get or getNext asks for the index: generation g, nothing looked up yet.
index(g) == [gen |-> g, missed |-> FALSE, tree |-> None]

ReadGeneration(r) ==
    /\ reader[r] = None
    /\ reader' = [reader EXCEPT ![r] = index(Generation("running"))]
    /\ UNCHANGED <<storeVars, tx, cache, client, passed>>

\* The cache has the index of that generation: it is the answer.
ServeIndex(r) ==
    /\ reader[r] # None /\ ~ reader[r].missed
    /\ Hit(reader[r].gen)
    /\ reader' = [reader EXCEPT ![r] = None]
    /\ UNCHANGED <<storeVars, tx, cache, client, passed>>

Miss(r) ==
    /\ reader[r] # None /\ ~ reader[r].missed
    /\ ~ Hit(reader[r].gen)
    /\ reader' = [reader EXCEPT ![r].missed = TRUE]
    /\ UNCHANGED <<storeVars, tx, cache, client, passed>>

ReadValues(r) ==
    /\ reader[r] # None /\ reader[r].missed /\ reader[r].tree = None
    /\ reader' = [reader EXCEPT ![r].tree = mem["running"]]
    /\ UNCHANGED <<storeVars, tx, cache, client, passed>>

\* Mutant: the index is stored under the generation of the moment.
StoreIndexLate(r) ==
    /\ reader[r] # None /\ reader[r].tree # None
    /\ cache' = [gen |-> gen["running"], tree |-> reader[r].tree]
    /\ reader' = [reader EXCEPT ![r] = None]
    /\ UNCHANGED <<storeVars, tx, client, passed>>

StoreIndex(r) ==
    /\ reader[r] # None /\ reader[r].tree # None
    /\ cache' = [gen |-> reader[r].gen, tree |-> reader[r].tree]
    /\ reader' = [reader EXCEPT ![r] = None]
    /\ UNCHANGED <<storeVars, tx, client, passed>>
-----------------------------------------------------------------------------
(***************************************************************************)
(* handleGet: the body first, the validators after it.  A client that has  *)
(* a copy sends its entity-tag in If-None-Match.                           *)
(***************************************************************************)
\* The entity-tag is a hash of the datastore, the representation (one here) and
\* the time of the last configuration change, so it stands for that time.
validators(ds) == ConfigChangedAt(ds)

\* A client's copy and tag, and what the datastore held when the tag was taken.
NoCopy == [ds |-> None, body |-> None, copy |-> None, tag |-> None, shown |-> None]

GetBody(c, ds) ==
    /\ client[c].body = None
    /\ client[c].ds \in {None, ds}
    /\ client' = [client EXCEPT ![c].ds = ds, ![c].body = configOnly(mem[ds])]
    /\ UNCHANGED <<storeVars, tx, reader, cache, passed>>

\* 304: the client keeps its copy.
NotModified(c) ==
    /\ client[c].body # None
    /\ client[c].tag = validators(client[c].ds)
    /\ client' = [client EXCEPT ![c].body = None]
    /\ UNCHANGED <<storeVars, tx, reader, cache, passed>>

\* 200: the client keeps the body and its tag.
GetValidators(c) ==
    /\ client[c].body # None
    /\ client[c].tag # validators(client[c].ds)
    /\ client' = [client EXCEPT ![c].copy = client[c].body, ![c].body = None,
                                ![c].tag = validators(client[c].ds),
                                ![c].shown = configOnly(mem[client[c].ds])]
    /\ UNCHANGED <<storeVars, tx, reader, cache, passed>>
-----------------------------------------------------------------------------
(***************************************************************************)
(* An edit with the entity-tag of client c in If-Match.  handleWrite and   *)
(* handleDelete check it before the edit takes txMu; startup is not to be  *)
(* written.  A tag that does not match is answered 412.                    *)
(***************************************************************************)
checkWritable(ds) == ds \in Writable

checkPreconditions(e, c) ==
    /\ tx[e] = None /\ passed[e] = None
    /\ client[c].tag # None
    /\ checkWritable(client[c].ds)
    /\ client[c].tag = validators(client[c].ds)
    /\ passed' = [passed EXCEPT ![e] = [ds |-> client[c].ds, shown |-> client[c].shown,
                                        overtaken |-> FALSE]]
    /\ UNCHANGED <<storeVars, tx, reader, cache, client>>

\* The request is refused later on, for its body or for what it proposes.
RefuseEdit(e) ==
    /\ tx[e] = None /\ passed[e] # None
    /\ passed' = [passed EXCEPT ![e] = None]
    /\ UNCHANGED <<storeVars, tx, reader, cache, client>>
-----------------------------------------------------------------------------
Init ==
    /\ mem = [d \in Datastore |-> Seed]
    /\ gen = [d \in Datastore |-> 0]
    /\ stamp = [d \in Datastore |-> 0]
    /\ writes = 0
    /\ tx = [e \in Editors |-> None]
    /\ reader = [r \in Readers |-> None]
    /\ cache = None
    /\ client = [c \in Clients |-> NoCopy]
    /\ passed = [e \in Editors |-> None]
    /\ cast \in Casts

Next ==
    \/ \E p \in Paths, v \in Values : DomainSet(p, v)
    \/ CommitCandidate
    \/ DiscardChanges
    \/ RestoreSeed
    \/ \E e \in Editors \cap cast.who :
           /\ Transaction(e)
           /\ \E node \in Nodes, op \in Operations : \E document \in Documents(node) :
                  \/ \E ds \in Writable : \/ EditConfig(e, ds, op, node, document)
                                         \/ RestconfEdit(e, ds, op, node, document)
                  \/ GnmiSet(e, op, node, document)
    \/ \E e \in Editors \cap cast.who : \E values \in Documents(ConfigPaths) : SnmpSet(e, values)
    \/ \E e \in Editors \cap cast.who : ApplyEdit(e) \/ CancelEdit(e) \/ RefuseEdit(e)
    \/ \E e \in Editors \cap cast.who, c \in Clients \cap cast.who : checkPreconditions(e, c)
    \/ \E r \in Readers \cap cast.who : ReadGeneration(r) \/ ServeIndex(r) \/ Miss(r)
                                   \/ ReadValues(r) \/ StoreIndex(r)
    \/ \E c \in Clients \cap cast.who : NotModified(c) \/ GetValidators(c)
    \/ \E c \in Clients \cap cast.who, ds \in Datastore : GetBody(c, ds)

Spec == Init /\ [][Next]_vars
-----------------------------------------------------------------------------
Stored == Tree \cup {None}

Batches == UNION {[S -> Values \cup {Absent}] : S \in SUBSET ConfigPaths}

\* The type invariant.
TypeOK ==
    /\ mem \in [Datastore -> Tree]
    /\ writes \in 0..MaxWrites
    /\ gen \in [Datastore -> 0..MaxWrites]
    /\ stamp \in [Datastore -> 0..writes]
    /\ tx \in [Editors -> [ds : Writable, proposed : Valid, batch : Batches, raced : BOOLEAN]
                          \cup {None}]
    /\ reader \in [Readers -> [gen : 0..MaxWrites, missed : BOOLEAN, tree : Stored] \cup {None}]
    /\ cache \in bindingCache \cup {None}
    /\ client \in [Clients -> [ds : Datastore \cup {None}, body : Stored, copy : Stored,
                               tag : 0..MaxWrites \cup {None}, shown : Stored]]
    /\ passed \in [Editors -> [ds : Writable, shown : Tree, overtaken : BOOLEAN] \cup {None}]

(***************************************************************************)
(* "concurrent edits cannot interleave and lose each other's changes": an  *)
(* edit that no writer outside the transactions overtook leaves exactly    *)
(* the configuration it proposed and validated, whatever the other editors *)
(* and the state writes of the domains did meanwhile.  An edit writes back *)
(* its differences only: a state leaf that a domain wrote after the edit   *)
(* read its snapshot keeps the later value.  And an edit whose condition   *)
(* was met, with no other change since the check, changes the              *)
(* configuration that its entity-tag was issued for.                       *)
(***************************************************************************)
EditsSerialize ==
    [][ \A e \in Editors : ApplyEdit(e) =>
          /\ ~ tx[e].raced => configOnly(mem'[tx[e].ds]) = configOnly(tx[e].proposed)
          /\ \A d \in Datastore, p \in StatePaths : mem'[d][p] = mem[d][p]
          /\ passed[e] # None /\ ~ passed[e].overtaken
               => configOnly(mem[passed[e].ds]) = passed[e].shown ]_vars

(***************************************************************************)
(* The validators of RESTCONF: a datastore whose time of change stands     *)
(* still has the same configuration, through edits, mirrored writes,       *)
(* commits, discards and rollbacks.  Startup has one exception: Commit and *)
(* Restore record their difference to running for it, so when running has  *)
(* the configuration already, startup catches up with running under the    *)
(* old time.                                                               *)
(***************************************************************************)
TagMovesWithConfig ==
    [][ \A d \in Datastore : stamp'[d] = stamp[d] =>
          \/ configOnly(mem'[d]) = configOnly(mem[d])
          \/ /\ d = "startup" /\ mem'[d] = mem'["running"]
             /\ configOnly(mem'["running"]) = configOnly(mem["running"]) ]_vars

(***************************************************************************)
(* The memoized object index is never served stale: while its generation   *)
(* is that of running, it holds the leaves of running, although readers    *)
(* rebuild it side by side and store it in any order.                      *)
(***************************************************************************)
IndexIsFresh == Hit(Generation("running")) => cache.tree = mem["running"]
-----------------------------------------------------------------------------
(***************************************************************************)
(* What the documentation says and the code does not keep.                 *)
(***************************************************************************)

\* "An unchanged condition is answered 304 Not Modified": the copy the client
\* is told to keep is the configuration of the datastore.
CopyIsCurrent ==
    [][ \A c \in Clients : NotModified(c) => client[c].copy = configOnly(mem[client[c].ds]) ]_vars
=============================================================================
