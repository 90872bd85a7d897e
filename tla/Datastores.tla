----------------------------- MODULE Datastores -----------------------------
(***************************************************************************)
(* The three datastores of store.Memory (internal/store/memory.go) and the *)
(* functions of store.Memory and diffValues as operators on them.          *)
(*                                                                         *)
(* A datastore is a flat map from a leaf path to a value.  It is modelled  *)
(* as a total function on Paths, with Absent for a path that has no entry. *)
(* Every store method runs under Memory.mu, so one method is one operator  *)
(* from the datastores before it to the datastores after it.  The only     *)
(* method that does more than that, the write of startup.json, is taken    *)
(* apart in module Store.                                                  *)
(***************************************************************************)
EXTENDS Naturals, FiniteSets

CONSTANTS
    ConfigPaths,    \* leaves that are configuration
    StatePaths,     \* leaves tagged config:"false" (Router.IsState)
    Values,         \* leaf values
    Absent,         \* the path has no entry in the map
    Valid,          \* the trees the validator (Router.Validate) accepts
    Seed            \* the leaves of model.DefaultDevice

Paths == ConfigPaths \cup StatePaths

Tree == [Paths -> Values \cup {Absent}]

EmptyTree == [p \in Paths |-> Absent]

Datastore == {"running", "candidate", "startup"}

\* Only running and candidate have writers other than Commit and Restore:
\* every plane refuses an edit of startup.
Writable == {"running", "candidate"}

(***************************************************************************)
(* The validator rebuilds a device from the leaves it is given.  An empty  *)
(* map yields the template itself, which is the seed device.               *)
(***************************************************************************)
ASSUME PathsDisjoint == ConfigPaths \cap StatePaths = {}
ASSUME AbsentIsNoValue == Absent \notin Values
ASSUME ValidTrees == Valid \subseteq Tree
ASSUME SeedIsValid == Seed \in Valid /\ EmptyTree \in Valid
-----------------------------------------------------------------------------
isState(p) == p \in StatePaths

configOnly(t) == [p \in Paths |-> IF isState(p) THEN Absent ELSE t[p]]

\* The paths whose value differs, one Change per path.
diffValues(old, new) == {p \in Paths : old[p] # new[p]}

\* The entries of the partial function e replace those of t; an entry of e
\* that is Absent removes the path.
Overlay(t, e) == [p \in Paths |-> IF p \in DOMAIN e THEN e[p] ELSE t[p]]

One(p, v) == [q \in {p} |-> v]

\* Mutant: a write to running is not mirrored.
mirrorNothing(ds) == {ds}

\* The datastores a mutation of ds reaches: running is mirrored into candidate.
mirror(ds) == IF ds = "running" THEN {"running", "candidate"} ELSE {ds}

\* Memory.Apply; Memory.Set and Memory.Delete are its one-entry cases.
Apply(m, ds, e) ==
    [d \in Datastore |-> IF d \in mirror(ds) THEN Overlay(m[d], e) ELSE m[d]]

Set(m, ds, p, v) == Apply(m, ds, One(p, v))

\* Mutant: a deletion in running stays in candidate.
DeleteUnmirrored(m, ds, p) == [m EXCEPT ![ds] = Overlay(m[ds], One(p, Absent))]

Delete(m, ds, p) == Apply(m, ds, One(p, Absent))

\* What Commit installs once the startup file is written.
Commit(next) == [d \in Datastore |-> next]

Rollback(m) == [m EXCEPT !["candidate"] = m["running"]]

\* Restore puts t into running and startup and leaves candidate alone.
Restore(m, t) == [d \in Datastore |-> IF d = "candidate" THEN m[d] ELSE t]

LoadStartup(t) == [d \in Datastore |-> configOnly(t)]
=============================================================================
