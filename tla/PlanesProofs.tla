---------------------------- MODULE PlanesProofs ----------------------------
(***************************************************************************)
(* Proofs about module Planes, for every set of paths, values, editors,    *)
(* readers and clients, every validator and every number of writes.        *)
(***************************************************************************)
EXTENDS Planes, TLAPS

Leaf == Values \cup {Absent}

Edits == [ds : Writable, proposed : Tree, batch : Batches, raced : BOOLEAN]

Indexes == [gen : Nat, missed : BOOLEAN, tree : Stored]

Copies == [ds : Datastore \cup {None}, body : Stored, copy : Stored,
           tag : Nat \cup {None}, shown : Stored]

Conditions == [ds : Writable, shown : Stored, overtaken : BOOLEAN]

\* Types; the bounds on the writes are left out.
Typed ==
    /\ mem \in [Datastore -> Tree]
    /\ writes \in Nat
    /\ gen \in [Datastore -> Nat]
    /\ stamp \in [Datastore -> Nat] /\ \A d \in Datastore : stamp[d] <= writes
    /\ tx \in [Editors -> Edits \cup {None}]
    /\ reader \in [Readers -> Indexes \cup {None}]
    /\ cache \in [gen : Nat, tree : Stored] \cup {None}
    /\ client \in [Clients -> Copies]
    /\ passed \in [Editors -> Conditions \cup {None}]

SameConfig(t, u) == \A p \in ConfigPaths : t[p] = u[p]

\* Whatever was read of running after generation g was read is running itself
\* as long as g is still the generation.
FreshAt(g, tree) ==
    /\ g <= gen["running"]
    /\ tree # None /\ g = gen["running"] => tree = mem["running"]

IndexesFresh ==
    /\ \A r \in Readers : reader[r] # None => FreshAt(reader[r].gen, reader[r].tree)
    /\ cache # None => cache.gen <= gen["running"]
                       /\ (cache.gen = gen["running"] => cache.tree = mem["running"])

\* One transaction at a time, and one that nobody overtook still proposes what
\* its batch makes of the datastore.
EditsStand ==
    /\ \A e, f \in Editors : tx[e] # None /\ tx[f] # None => e = f
    /\ \A e \in Editors : tx[e] # None /\ ~ tx[e].raced =>
           SameConfig(Overlay(mem[tx[e].ds], tx[e].batch), tx[e].proposed)

\* A tag is issued once: while it is the tag of its datastore, the datastore
\* holds what it was issued for.
TagsStand ==
    \A c \in Clients :
        LET k == client[c]
        IN  /\ k.body # None \/ k.tag # None => k.ds \in Datastore
            /\ k.tag # None => /\ k.tag <= stamp[k.ds]
                               /\ k.tag = stamp[k.ds] /\ k.ds \in Writable
                                    => configOnly(mem[k.ds]) = k.shown

ConditionsStand ==
    \A e \in Editors : passed[e] # None /\ ~ passed[e].overtaken =>
        configOnly(mem[passed[e].ds]) = passed[e].shown

IInv == Typed /\ IndexesFresh /\ EditsStand /\ TagsStand /\ ConditionsStand
-----------------------------------------------------------------------------
(***************************************************************************)
(* The operators of Datastores and of the editor.                          *)
(***************************************************************************)

\* Trees agree in their configuration exactly if configOnly does not tell them
\* apart.
LEMMA ConfigOnlySame ==
  ASSUME NEW t \in Tree, NEW u \in Tree
  PROVE  (configOnly(t) = configOnly(u)) <=> SameConfig(t, u)
  <1>1. ASSUME SameConfig(t, u) PROVE configOnly(t) = configOnly(u)
    BY <1>1 DEF configOnly, isState, SameConfig, Paths
  <1>2. ASSUME configOnly(t) = configOnly(u) PROVE SameConfig(t, u)
    <2> SUFFICES ASSUME NEW p \in ConfigPaths PROVE t[p] = u[p]
      BY DEF SameConfig
    <2>1. p \in Paths /\ ~ isState(p)
      BY PathsDisjoint DEF Paths, isState
    <2>2. configOnly(t)[p] = t[p] /\ configOnly(u)[p] = u[p]
      BY <2>1 DEF configOnly
    <2> QED BY <1>2, <2>2
  <1> QED BY <1>1, <1>2

\* configOnly returns a tree.
LEMMA ConfigOnlyTree == \A t \in Tree : configOnly(t) \in Tree
  BY DEF configOnly, Tree

\* Overlaying edits on a tree yields a tree and changes no path without an edit.
LEMMA OverlayTree ==
  ASSUME NEW t \in Tree, NEW S \in SUBSET Paths, NEW e \in [S -> Leaf]
  PROVE  /\ Overlay(t, e) \in Tree
         /\ \A p \in Paths : Overlay(t, e)[p] = IF p \in S THEN e[p] ELSE t[p]
  BY DEF Overlay, Tree, Leaf

\* A batch reaches the datastores that mirror says, and there the paths it has.
LEMMA ApplyFacts ==
  ASSUME NEW m \in [Datastore -> Tree], NEW ds \in Writable,
         NEW S \in SUBSET Paths, NEW e \in [S -> Leaf]
  PROVE  /\ Apply(m, ds, e) \in [Datastore -> Tree]
         /\ \A d \in mirror(ds) : d \in Datastore /\ Apply(m, ds, e)[d] = Overlay(m[d], e)
         /\ \A d \in Datastore \ mirror(ds) : Apply(m, ds, e)[d] = m[d]
         /\ ds \in mirror(ds)
  <1>1. mirror(ds) \subseteq Datastore /\ ds \in mirror(ds)
    BY DEF mirror, Datastore, Writable
  <1> QED BY Zenon, <1>1, OverlayTree DEF Apply

\* A batch of configuration leaves is a batch.
LEMMA BatchFacts ==
  ASSUME NEW b \in Batches
  PROVE  /\ DOMAIN b \in SUBSET ConfigPaths
         /\ DOMAIN b \in SUBSET Paths
         /\ b \in [DOMAIN b -> Leaf]
  BY DEF Batches, Leaf, Paths

\* An operation of the editor proposes a tree and touches the configuration only.
LEMMA WalkFacts ==
  ASSUME NEW t \in Tree, NEW op \in Operations, NEW node \in Nodes,
         NEW document \in Documents(node)
  PROVE  /\ walk(t, op, node, document) \in Tree
         /\ \A p \in Paths \ ConfigPaths : walk(t, op, node, document)[p] = t[p]
  <1>1. node \in SUBSET ConfigPaths /\ node \in SUBSET Paths
    BY DEF Nodes, Paths
  <1>2. PICK S \in SUBSET node : document \in [S -> Values]
    BY DEF Documents
  <1>3. S \in SUBSET Paths /\ S \in SUBSET ConfigPaths /\ document \in [S -> Leaf]
    BY <1>1, <1>2 DEF Leaf
  <1>4. [p \in node |-> Absent] \in [node -> Leaf]
    BY DEF Leaf
  <1>5. wipe(t, node) \in Tree /\ \A p \in Paths \ node : wipe(t, node)[p] = t[p]
    BY <1>1, <1>4, OverlayTree DEF wipe
  <1>6. \A u \in Tree : /\ Overlay(u, document) \in Tree
                        /\ \A p \in Paths \ S : Overlay(u, document)[p] = u[p]
    BY <1>3, OverlayTree
  <1> DEFINE w == walk(t, op, node, document)
  <1>7. w \in {wipe(t, node), Overlay(wipe(t, node), document), Overlay(t, document), t}
    BY DEF walk, Operations
  <1> HIDE DEF w
  <1>8. w \in Tree /\ \A p \in Paths \ ConfigPaths : w[p] = t[p]
    BY <1>1, <1>3, <1>5, <1>6, <1>7
  <1> QED BY <1>8 DEF w

\* The differences are a batch, which makes the proposed tree of the original.
LEMMA DiffFacts ==
  ASSUME NEW t \in Tree, NEW u \in Tree, \A p \in Paths \ ConfigPaths : u[p] = t[p]
  PROVE  /\ applyDiff(t, u) \in Batches
         /\ SameConfig(Overlay(t, applyDiff(t, u)), u)
  <1> DEFINE S == diffValues(t, u)
  <1>1. S \in SUBSET ConfigPaths /\ S \in SUBSET Paths
    BY DEF diffValues, Paths
  <1>2. \A p \in Paths \ S : t[p] = u[p]
    BY DEF diffValues
  <1> HIDE DEF S
  <1>3. applyDiff(t, u) = [p \in S |-> u[p]]
    BY DEF applyDiff, S
  <1>4. applyDiff(t, u) \in [S -> Leaf]
    BY <1>1, <1>3 DEF Leaf, Tree
  <1>5. applyDiff(t, u) \in Batches
    BY <1>1, <1>4 DEF Batches, Leaf
  <1>6. \A p \in Paths : Overlay(t, applyDiff(t, u))[p] = IF p \in S THEN applyDiff(t, u)[p] ELSE t[p]
    BY <1>1, <1>4, OverlayTree
  <1> QED BY <1>2, <1>3, <1>5, <1>6 DEF SameConfig, Paths
-----------------------------------------------------------------------------
(***************************************************************************)
(* What a write records.                                                   *)
(***************************************************************************)
Recorded ==
    /\ mem' \in [Datastore -> Tree]
    /\ writes' \in Nat
    /\ gen' \in [Datastore -> Nat]
    /\ stamp' \in [Datastore -> Nat]
    /\ \A d \in Datastore : stamp'[d] <= writes' /\ stamp[d] <= stamp'[d] /\ gen[d] <= gen'[d]
    /\ gen'["running"] = gen["running"] => mem'["running"] = mem["running"]
    /\ \A d \in Writable : stamp'[d] = stamp[d] => SameConfig(mem'[d], mem[d])
    /\ mem'["startup"] # mem["startup"] =>
           /\ mem'["startup"] = mem'["running"]
           /\ stamp'["startup"] = stamp["startup"] => SameConfig(mem'["running"], mem["running"])

\* Changes of running or candidate that are all recorded move the generation,
\* and the time of change if they are changes of the configuration; startup
\* becomes running, and has what running changes by recorded.
LEMMA WriteRecords ==
  ASSUME Typed, NEW next \in [Datastore -> Tree], NEW recorded, Write(next, recorded),
         \A d \in Writable \ DOMAIN recorded : next[d] = mem[d],
         \A d \in Writable \cap DOMAIN recorded :
             \A p \in Paths \ recorded[d] : next[d][p] = mem[d][p],
         next["startup"] # mem["startup"] =>
             /\ next["startup"] = next["running"]
             /\ {"startup", "running"} \subseteq DOMAIN recorded
             /\ recorded["startup"] = recorded["running"]
  PROVE  Recorded
  <1>1. /\ mem' = next
        /\ writes' = writes + 1
        /\ \A d \in Datastore : gen'[d] = IF d \in DOMAIN recorded THEN gen[d] + 1 ELSE gen[d]
        /\ \A d \in Datastore : stamp'[d] = IF d \in DOMAIN recorded /\ IsConfig(recorded[d])
                                            THEN writes + 1 ELSE stamp[d]
    BY DEF Write, bump
  <1>2. gen' \in [Datastore -> Nat] /\ stamp' \in [Datastore -> Nat]
    BY DEF Write, bump, Typed
  <1>3. writes' \in Nat /\ \A d \in Datastore : stamp'[d] <= writes' /\ stamp[d] <= stamp'[d]
                                               /\ gen[d] <= gen'[d]
    BY <1>1, <1>2 DEF Typed
  <1>4. gen'["running"] = gen["running"] => mem'["running"] = mem["running"]
    <2>1. "running" \in Writable /\ "running" \in Datastore
      BY DEF Writable, Datastore
    <2>2. gen["running"] \in Nat
      BY <2>1 DEF Typed
    <2>3. "running" \in DOMAIN recorded => gen'["running"] # gen["running"]
      BY <1>1, <2>1, <2>2
    <2> QED BY <1>1, <2>1, <2>3
  <1>5. ASSUME NEW d \in Writable, stamp'[d] = stamp[d] PROVE SameConfig(mem'[d], mem[d])
    <2>1. d \in Datastore
      BY DEF Writable, Datastore
    <2>2. ~ (d \in DOMAIN recorded /\ IsConfig(recorded[d]))
      BY <1>1, <1>5, <2>1 DEF Typed
    <2>3. CASE d \notin DOMAIN recorded
      BY <1>1, <2>3 DEF SameConfig
    <2>4. CASE d \in DOMAIN recorded /\ ~ IsConfig(recorded[d])
      BY <1>1, <2>4 DEF SameConfig, IsConfig, Paths
    <2> QED BY <2>2, <2>3, <2>4
  <1>6. ASSUME mem'["startup"] # mem["startup"], stamp'["startup"] = stamp["startup"]
        PROVE  SameConfig(mem'["running"], mem["running"])
    <2>1. "startup" \in Datastore /\ "running" \in Writable
      BY DEF Writable, Datastore
    <2>2. /\ "startup" \in DOMAIN recorded /\ "running" \in DOMAIN recorded
          /\ recorded["startup"] = recorded["running"]
      BY Zenon, <1>1, <1>6
    <2>3. ~ IsConfig(recorded["startup"])
      BY <1>1, <1>6, <2>1, <2>2 DEF Typed
    <2> QED BY Zenon, <1>1, <2>1, <2>2, <2>3 DEF SameConfig, IsConfig, Paths
  <1>7. mem'["startup"] # mem["startup"] => mem'["startup"] = mem'["running"]
    BY Zenon, <1>1
  <1> QED BY Zenon, <1>1, <1>2, <1>3, <1>4, <1>5, <1>6, <1>7 DEF Recorded

\* An edit that is applied is recorded wherever it is mirrored.
LEMMA ApplyRecords ==
  ASSUME Typed, NEW ds \in Writable, NEW S \in SUBSET Paths, NEW e \in [S -> Leaf],
         Write(Apply(mem, ds, e), recordWrite(ds, S))
  PROVE  Recorded
  <1> DEFINE next == Apply(mem, ds, e)
             recorded == recordWrite(ds, S)
  <1>1. DOMAIN recorded = mirror(ds) /\ \A d \in mirror(ds) : recorded[d] = S
    BY DEF recordWrite
  <1>2. /\ next \in [Datastore -> Tree]
        /\ \A d \in mirror(ds) : next[d] = Overlay(mem[d], e) /\ d \in Datastore
        /\ \A d \in Datastore \ mirror(ds) : next[d] = mem[d]
    BY ZenonT(30), ApplyFacts DEF Typed
  <1>3. \A d \in Datastore : \A p \in Paths : Overlay(mem[d], e)[p] = IF p \in S THEN e[p] ELSE mem[d][p]
    <2>1. \A t \in Tree : \A p \in Paths : Overlay(t, e)[p] = IF p \in S THEN e[p] ELSE t[p]
      BY OverlayTree
    <2> QED BY <2>1 DEF Typed
  <1>4. Write(next, recorded)
    OBVIOUS
  <1> HIDE DEF next, recorded
  <1>5. \A d \in Writable \ DOMAIN recorded : next[d] = mem[d]
    BY <1>1, <1>2 DEF Writable, Datastore
  <1>6. \A d \in Writable \cap DOMAIN recorded : \A p \in Paths \ recorded[d] : next[d][p] = mem[d][p]
    BY <1>1, <1>2, <1>3
  <1>7. next["startup"] = mem["startup"]
    BY <1>2 DEF mirror, Writable, Datastore
  <1> QED BY Zenon, <1>2, <1>4, <1>5, <1>6, <1>7, WriteRecords

\* The writers outside the transactions record what they change.
LEMMA OutsideRecords ==
  ASSUME Typed
  PROVE  /\ \A p \in Paths, v \in Values : DomainSet(p, v) => Recorded /\ Outside
         /\ CommitCandidate => Recorded /\ Outside
         /\ DiscardChanges => Recorded /\ Outside
         /\ RestoreSeed => Recorded /\ Outside
  <1>m. /\ mem \in [Datastore -> Tree]
        /\ Seed \in Tree
        /\ "running" \in Datastore /\ "candidate" \in Datastore
    BY ValidTrees, SeedIsValid DEF Typed, Datastore
  <1>1. ASSUME NEW p \in Paths, NEW v \in Values, DomainSet(p, v) PROVE Recorded /\ Outside
    <2>1. One(p, v) \in [{p} -> Leaf] /\ {p} \in SUBSET Paths /\ "running" \in Writable
      BY DEF One, Leaf, Writable
    <2>2. Write(Apply(mem, "running", One(p, v)), recordWrite("running", {p}))
      BY <1>1 DEF DomainSet, Set
    <2>3. Recorded
      BY <2>1, <2>2, ApplyRecords
    <2> QED BY <1>1, <2>3 DEF DomainSet
  <1>2. ASSUME CommitCandidate PROVE Recorded /\ Outside
    <2> DEFINE next == Commit(mem["candidate"])
               recorded == [d \in Datastore |-> diffValues(mem["running"], mem["candidate"])]
    <2>1. Write(next, recorded) /\ Outside
      BY <1>2 DEF CommitCandidate
    <2>2. next \in [Datastore -> Tree] /\ \A d \in Datastore : next[d] = mem["candidate"]
      BY <1>m DEF Commit
    <2>3. DOMAIN recorded = Datastore /\ \A d \in Datastore : \A p \in Paths \ recorded[d] :
                                             mem["running"][p] = mem["candidate"][p]
      BY DEF diffValues
    <2> HIDE DEF next, recorded
    <2>4. \A d \in Writable \ DOMAIN recorded : next[d] = mem[d]
      BY <2>3 DEF Writable, Datastore
    <2>5. \A d \in Writable \cap DOMAIN recorded : \A p \in Paths \ recorded[d] : next[d][p] = mem[d][p]
      BY <2>2, <2>3 DEF Writable
    <2>6. /\ next["startup"] = next["running"] /\ {"startup", "running"} \subseteq DOMAIN recorded
          /\ recorded["startup"] = recorded["running"]
      BY <2>2, <2>3 DEF Datastore, recorded
    <2> QED BY Zenon, <2>1, <2>2, <2>4, <2>5, <2>6, WriteRecords
  <1>3. ASSUME DiscardChanges PROVE Recorded /\ Outside
    <2> DEFINE next == Rollback(mem)
               recorded == [d \in {"candidate"} |-> diffValues(mem["candidate"], mem["running"])]
    <2>1. Write(next, recorded) /\ Outside
      BY <1>3 DEF DiscardChanges
    <2>2. /\ next \in [Datastore -> Tree]
          /\ next["candidate"] = mem["running"]
          /\ next["running"] = mem["running"]
          /\ next["startup"] = mem["startup"]
      BY <1>m DEF Rollback, Datastore
    <2>3. DOMAIN recorded = {"candidate"} /\ \A p \in Paths \ recorded["candidate"] :
                                                 mem["candidate"][p] = mem["running"][p]
      BY DEF diffValues
    <2> HIDE DEF next, recorded
    <2>4. \A d \in Writable \ DOMAIN recorded : next[d] = mem[d]
      BY <2>2, <2>3 DEF Writable
    <2>5. \A d \in Writable \cap DOMAIN recorded : \A p \in Paths \ recorded[d] : next[d][p] = mem[d][p]
      BY <2>2, <2>3
    <2> QED BY Zenon, <2>1, <2>2, <2>4, <2>5, WriteRecords
  <1>4. ASSUME RestoreSeed PROVE Recorded /\ Outside
    <2> DEFINE next == Restore(mem, Seed)
               recorded == [d \in {"running", "startup"} |-> diffValues(mem["running"], Seed)]
    <2>1. Write(next, recorded) /\ Outside
      BY <1>4 DEF RestoreSeed
    <2>2. /\ next \in [Datastore -> Tree]
          /\ next["running"] = Seed
          /\ next["startup"] = Seed
          /\ next["candidate"] = mem["candidate"]
      BY <1>m DEF Restore, Datastore
    <2>3. DOMAIN recorded = {"running", "startup"} /\ \A p \in Paths \ recorded["running"] :
                                                          mem["running"][p] = Seed[p]
      BY DEF diffValues
    <2> HIDE DEF next, recorded
    <2>4. \A d \in Writable \ DOMAIN recorded : next[d] = mem[d]
      BY <2>2, <2>3 DEF Writable
    <2>5. \A d \in Writable \cap DOMAIN recorded : \A p \in Paths \ recorded[d] : next[d][p] = mem[d][p]
      BY <2>2, <2>3 DEF Writable
    <2>6. /\ next["startup"] = next["running"] /\ {"startup", "running"} \subseteq DOMAIN recorded
          /\ recorded["startup"] = recorded["running"]
      BY <2>2, <2>3 DEF recorded
    <2> QED BY Zenon, <2>1, <2>2, <2>4, <2>5, <2>6, WriteRecords
  <1> QED BY <1>1, <1>2, <1>3, <1>4
-----------------------------------------------------------------------------
(***************************************************************************)
(* What a recorded write leaves standing.                                  *)
(***************************************************************************)

\* Indexes: a write that moves the generation makes every index out of date,
\* one that does not leaves running as it is.
LEMMA IndexesStay ==
  ASSUME Typed, IndexesFresh, Recorded, UNCHANGED <<reader, cache>>
  PROVE  IndexesFresh'
  <1>1. /\ gen["running"] \in Nat /\ gen'["running"] \in Nat
        /\ gen["running"] <= gen'["running"]
        /\ gen'["running"] = gen["running"] => mem'["running"] = mem["running"]
    BY DEF Typed, Recorded, Datastore
  <1>2. \A r \in Readers : reader[r] # None => reader[r].gen \in Nat
    BY DEF Typed, Indexes
  <1>3. cache # None => cache.gen \in Nat
    BY DEF Typed
  <1>4. ASSUME NEW r \in Readers, reader'[r] # None
        PROVE  FreshAt(reader[r].gen, reader[r].tree)'
    BY <1>1, <1>2, <1>4 DEF IndexesFresh, FreshAt
  <1>5. cache' # None => cache'.gen <= gen'["running"]
                         /\ (cache'.gen = gen'["running"] => cache'.tree = mem'["running"])
    BY <1>1, <1>3 DEF IndexesFresh
  <1> QED BY <1>4, <1>5 DEF IndexesFresh

\* Tags: likewise for the time of change.
LEMMA TagsStay ==
  ASSUME Typed, TagsStand, Recorded, UNCHANGED client
  PROVE  TagsStand'
  <1> SUFFICES ASSUME NEW c \in Clients
               PROVE  LET k == client[c]
                      IN  /\ k.body # None \/ k.tag # None => k.ds \in Datastore
                          /\ k.tag # None => /\ k.tag <= stamp'[k.ds]
                                             /\ k.tag = stamp'[k.ds] /\ k.ds \in Writable
                                                  => configOnly(mem'[k.ds]) = k.shown
    BY DEF TagsStand
  <1> DEFINE k == client[c]
  <1>1. k.body # None \/ k.tag # None => k.ds \in Datastore
    BY DEF TagsStand
  <1>2. k.tag # None => k.tag \in Nat /\ k.tag <= stamp[k.ds]
    BY DEF TagsStand, Typed, Copies
  <1>3. ASSUME k.tag # None PROVE k.tag <= stamp'[k.ds]
    <2>1. stamp[k.ds] \in Nat /\ stamp'[k.ds] \in Nat /\ stamp[k.ds] <= stamp'[k.ds]
      BY <1>1, <1>3 DEF Typed, Recorded
    <2> QED BY <1>2, <1>3, <2>1
  <1>4. ASSUME k.tag # None, k.tag = stamp'[k.ds], k.ds \in Writable
        PROVE  configOnly(mem'[k.ds]) = k.shown
    <2>1. k.ds \in Datastore
      BY <1>1, <1>4
    <2>2. stamp[k.ds] \in Nat /\ stamp'[k.ds] \in Nat /\ stamp[k.ds] <= stamp'[k.ds]
      BY <2>1 DEF Typed, Recorded
    <2>3. stamp'[k.ds] = stamp[k.ds]
      BY <1>2, <1>4, <2>2
    <2>4. SameConfig(mem'[k.ds], mem[k.ds])
      BY <1>4, <2>3 DEF Recorded
    <2>5. configOnly(mem'[k.ds]) = configOnly(mem[k.ds])
      BY <2>1, <2>4, ConfigOnlySame DEF Typed, Recorded
    <2>6. configOnly(mem[k.ds]) = k.shown
      BY <1>4, <2>3 DEF TagsStand
    <2> QED BY <2>5, <2>6
  <1> QED BY <1>1, <1>3, <1>4

\* Conditions: one that is overtaken is marked, the others still hold.
LEMMA ConditionsStay ==
  ASSUME Typed, ConditionsStand, Recorded, NEW es \in SUBSET Editors, NEW e \in es
  PROVE  /\ Overtaken(es)[e] \in Conditions \cup {None}
         /\ Overtaken(es)[e] # None /\ ~ Overtaken(es)[e].overtaken =>
                configOnly(mem'[Overtaken(es)[e].ds]) = Overtaken(es)[e].shown
  <1> DEFINE o == Overtaken(es)[e]
  <1>1. passed[e] \in Conditions \cup {None}
    BY DEF Typed
  <1>2. CASE passed[e] # None /\ stamp'[passed[e].ds] # stamp[passed[e].ds]
    <2>1. o = [passed[e] EXCEPT !.overtaken = TRUE]
      BY <1>2 DEF Overtaken
    <2>2. o \in Conditions /\ o.overtaken
      BY Zenon, <1>1, <1>2, <2>1 DEF Conditions
    <2> QED BY <2>2
  <1>3. CASE ~ (passed[e] # None /\ stamp'[passed[e].ds] # stamp[passed[e].ds])
    <2>1. o = passed[e]
      BY <1>3 DEF Overtaken
    <2>2. ASSUME o # None, ~ o.overtaken PROVE configOnly(mem'[o.ds]) = o.shown
      <3>1. o.ds \in Writable /\ o.ds \in Datastore
        BY <1>1, <2>1, <2>2 DEF Conditions, Writable, Datastore
      <3>2. SameConfig(mem'[o.ds], mem[o.ds])
        BY <1>3, <2>1, <2>2, <3>1 DEF Recorded
      <3>3. configOnly(mem'[o.ds]) = configOnly(mem[o.ds])
        BY <3>1, <3>2, ConfigOnlySame DEF Typed, Recorded
      <3> QED BY <2>1, <2>2, <3>3 DEF ConditionsStand
    <2> QED BY <1>1, <2>1, <2>2
  <1> QED BY <1>2, <1>3

\* The writers outside the transactions keep the invariant.
LEMMA OutsideStep ==
  ASSUME IInv, Recorded, Outside
  PROVE  IInv'
  <1>t. Typed
    BY DEF IInv
  <1>1. UNCHANGED <<reader, cache, client>>
    BY DEF Outside
  <1>2. IndexesFresh' /\ TagsStand'
    BY <1>1, IndexesStay, TagsStay DEF IInv
  <1>3. passed' \in [Editors -> Conditions \cup {None}] /\ ConditionsStand'
    <2>1. passed' = Overtaken(Editors) /\ DOMAIN Overtaken(Editors) = Editors
      BY DEF Outside, Overtaken
    <2>2. \A e \in Editors :
            /\ passed'[e] \in Conditions \cup {None}
            /\ passed'[e] # None /\ ~ passed'[e].overtaken =>
                   configOnly(mem'[passed'[e].ds]) = passed'[e].shown
      BY <2>1, ConditionsStay DEF IInv
    <2>3. passed' \in [Editors -> Conditions \cup {None}]
      BY Zenon, <2>1, <2>2 DEF Overtaken
    <2> QED BY <2>2, <2>3 DEF ConditionsStand
  <1>4. ASSUME NEW e \in Editors
        PROVE  /\ tx'[e] \in Edits \cup {None}
               /\ tx'[e] # None => tx[e] # None
               /\ tx'[e] # None /\ ~ tx'[e].raced =>
                      SameConfig(Overlay(mem'[tx'[e].ds], tx'[e].batch), tx'[e].proposed)
    <2>1. tx[e] \in Edits \cup {None}
      BY <1>t DEF Typed
    <2>2. CASE tx[e] # None /\ configOnly(mem'[tx[e].ds]) # configOnly(mem[tx[e].ds])
      <3>1. tx'[e] = [tx[e] EXCEPT !.raced = TRUE]
        BY <2>2 DEF Outside
      <3>2. tx'[e] \in Edits /\ tx'[e].raced
        BY Zenon, <2>1, <2>2, <3>1 DEF Edits
      <3> QED BY <2>2, <3>2
    <2>3. CASE ~ (tx[e] # None /\ configOnly(mem'[tx[e].ds]) # configOnly(mem[tx[e].ds]))
      <3>1. tx'[e] = tx[e]
        BY <2>3 DEF Outside
      <3>2. ASSUME tx[e] # None, ~ tx[e].raced
            PROVE  SameConfig(Overlay(mem'[tx[e].ds], tx[e].batch), tx[e].proposed)
        <4>1. tx[e].ds \in Datastore /\ tx[e].batch \in Batches
          BY <2>1, <3>2 DEF Edits, Writable, Datastore
        <4>2. mem[tx[e].ds] \in Tree /\ mem'[tx[e].ds] \in Tree
          BY <1>t, <4>1 DEF Typed, Recorded
        <4>3. SameConfig(mem'[tx[e].ds], mem[tx[e].ds])
          BY <2>3, <3>2, <4>2, ConfigOnlySame
        <4>4. SameConfig(Overlay(mem[tx[e].ds], tx[e].batch), tx[e].proposed)
          BY <3>2 DEF IInv, EditsStand
        <4> QED BY <4>3, <4>4 DEF SameConfig, Overlay, Paths
      <3> QED BY <2>1, <3>1, <3>2
    <2> QED BY <2>2, <2>3
  <1>5. tx' \in [Editors -> Edits \cup {None}]
    BY Zenon, <1>4 DEF Outside
  <1>6. EditsStand'
    BY <1>4 DEF IInv, EditsStand
  <1>7. Typed'
    BY Zenon, <1>t, <1>1, <1>3, <1>5 DEF Typed, Recorded
  <1> QED BY <1>2, <1>3, <1>6, <1>7 DEF IInv

\* A transaction that starts proposes what its batch makes of the datastore.
LEMMA ProposeStep ==
  ASSUME IInv, NEW e \in Editors, NEW ds \in Writable, NEW proposed \in Tree, NEW batch \in Batches,
         Transaction(e), Propose(e, ds, proposed, batch),
         SameConfig(Overlay(mem[ds], batch), proposed)
  PROVE  IInv'
  <1> DEFINE edit == [ds |-> ds, proposed |-> proposed, batch |-> batch, raced |-> FALSE]
  <1>1. edit \in Edits
    BY DEF Edits
  <1>2. UNCHANGED <<mem, gen, stamp, writes, reader, cache, client, passed>>
    BY DEF Propose, storeVars
  <1>3. tx' = [tx EXCEPT ![e] = edit]
    BY DEF Propose
  <1>4. edit.ds = ds /\ edit.batch = batch /\ edit.proposed = proposed
    OBVIOUS
  <1> HIDE DEF edit
  <1>5. tx'[e] = edit /\ \A f \in Editors \ {e} : tx'[f] = None
    BY Zenon, <1>3 DEF Transaction, IInv, Typed
  <1>6. EditsStand'
    BY <1>2, <1>4, <1>5 DEF EditsStand
  <1>7. Typed'
    BY Zenon, <1>1, <1>2, <1>3 DEF IInv, Typed
  <1> QED BY Zenon, <1>2, <1>6, <1>7 DEF IInv, IndexesFresh, FreshAt, TagsStand, ConditionsStand

\* An edit of the tree is such a transaction.
LEMMA TreeEditStep ==
  ASSUME IInv, NEW e \in Editors, NEW ds \in Writable, NEW op \in Operations, NEW node \in Nodes,
         NEW document \in Documents(node), TreeEdit(e, ds, op, node, document)
  PROVE  IInv'
  <1> DEFINE proposed == walk(mem[ds], op, node, document)
  <1>1. mem[ds] \in Tree
    BY DEF IInv, Typed, Writable, Datastore
  <1>2. proposed \in Tree /\ \A p \in Paths \ ConfigPaths : proposed[p] = mem[ds][p]
    BY <1>1, WalkFacts
  <1>3. Transaction(e) /\ Propose(e, ds, proposed, applyDiff(mem[ds], proposed))
    BY DEF TreeEdit
  <1> HIDE DEF proposed
  <1>4. /\ applyDiff(mem[ds], proposed) \in Batches
        /\ SameConfig(Overlay(mem[ds], applyDiff(mem[ds], proposed)), proposed)
    BY <1>1, <1>2, DiffFacts
  <1> QED BY Zenon, <1>2, <1>3, <1>4, ProposeStep

\* So is an SNMP SET, which writes the values of the request themselves.
LEMMA SnmpSetStep ==
  ASSUME IInv, NEW e \in Editors, NEW values \in Documents(ConfigPaths), SnmpSet(e, values)
  PROVE  IInv'
  <1>1. "running" \in Writable /\ mem["running"] \in Tree
    BY DEF IInv, Typed, Writable, Datastore
  <1>2. values \in Batches
    BY DEF Documents, Batches
  <1>3. Overlay(mem["running"], values) \in Tree
    BY <1>1, <1>2, BatchFacts, OverlayTree
  <1>4. SameConfig(Overlay(mem["running"], values), Overlay(mem["running"], values))
    BY Zenon DEF SameConfig
  <1>5. Transaction(e) /\ Propose(e, "running", Overlay(mem["running"], values), values)
    BY DEF SnmpSet
  <1> QED BY <1>1, <1>2, <1>3, <1>4, <1>5, ProposeStep

\* An edit that is applied keeps the invariant: nobody else is in a transaction.
LEMMA ApplyEditStep ==
  ASSUME IInv, NEW e \in Editors, ApplyEdit(e)
  PROVE  Recorded /\ IInv'
  <1>t. Typed /\ tx[e] \in Edits /\ tx[e].ds \in Writable /\ tx[e].batch \in Batches
    BY Zenon DEF IInv, Typed, ApplyEdit, Edits
  <1>1. Recorded
    <2>1. Write(Apply(mem, tx[e].ds, tx[e].batch), recordWrite(tx[e].ds, DOMAIN tx[e].batch))
      BY DEF ApplyEdit
    <2> QED BY <1>t, <2>1, BatchFacts, ApplyRecords
  <1>2. UNCHANGED <<reader, cache, client>>
    BY DEF ApplyEdit
  <1>3. IndexesFresh' /\ TagsStand'
    BY Zenon, <1>1, <1>2, IndexesStay, TagsStay DEF IInv
  <1>4. tx' = [tx EXCEPT ![e] = None] /\ \A f \in Editors : tx'[f] = None
    BY DEF ApplyEdit, IInv, Typed, EditsStand
  <1>5. EditsStand'
    BY Zenon, <1>4 DEF EditsStand
  <1>6. passed' \in [Editors -> Conditions \cup {None}] /\ ConditionsStand'
    <2> DEFINE es == Editors \ {e}
    <2>1. passed' = [Overtaken(es) EXCEPT ![e] = None] /\ DOMAIN Overtaken(es) = Editors
      BY DEF ApplyEdit, Overtaken
    <2>2. passed'[e] = None /\ \A f \in es : passed'[f] = Overtaken(es)[f]
      BY <2>1
    <2>3. \A f \in es :
            /\ passed'[f] \in Conditions \cup {None}
            /\ passed'[f] # None /\ ~ passed'[f].overtaken =>
                   configOnly(mem'[passed'[f].ds]) = passed'[f].shown
      BY Zenon, <1>1, <2>2, ConditionsStay DEF IInv
    <2>4. passed' \in [Editors -> Conditions \cup {None}]
      BY Zenon, <2>1, <2>2, <2>3 DEF Overtaken
    <2> QED BY <2>2, <2>3, <2>4 DEF ConditionsStand
  <1>7. Typed'
    BY Zenon, <1>t, <1>1, <1>2, <1>4, <1>6 DEF Typed, Recorded
  <1> QED BY Zenon, <1>1, <1>3, <1>5, <1>6, <1>7 DEF IInv
-----------------------------------------------------------------------------
(***************************************************************************)
(* The invariant is inductive.                                             *)
(***************************************************************************)

\* It holds of the seed device.
LEMMA InitIInv == Init => IInv
  <1> SUFFICES ASSUME Init PROVE IInv
    OBVIOUS
  <1>1. NoCopy \in Copies /\ NoCopy.body = None /\ NoCopy.tag = None
    BY DEF NoCopy, Copies, Stored
  <1>2. Typed
    BY <1>1, ValidTrees, SeedIsValid DEF Init, Typed
  <1>3. TagsStand
    BY Zenon, <1>1 DEF Init, TagsStand
  <1> QED BY <1>2, <1>3 DEF Init, IInv, IndexesFresh, EditsStand, ConditionsStand

\* The readers of the index keep it.
LEMMA ReaderStep ==
  ASSUME IInv, NEW r \in Readers,
         ReadGeneration(r) \/ ServeIndex(r) \/ Miss(r) \/ ReadValues(r) \/ StoreIndex(r)
  PROVE  IInv'
  <1>1. UNCHANGED <<mem, gen, stamp, writes, tx, client, passed>>
    BY DEF ReadGeneration, ServeIndex, Miss, ReadValues, StoreIndex, storeVars
  <1>g. gen["running"] \in Nat /\ mem["running"] \in Tree
    BY DEF IInv, Typed, Datastore
  <1>r. reader[r] # None => /\ reader[r] \in Indexes
                            /\ FreshAt(reader[r].gen, reader[r].tree)
    BY Zenon DEF IInv, Typed, IndexesFresh
  <1>2. /\ reader' \in [Readers -> Indexes \cup {None}]
        /\ \A q \in Readers \ {r} : reader'[q] = reader[q]
        /\ reader'[r] # None => FreshAt(reader'[r].gen, reader'[r].tree)
    <2>t. reader \in [Readers -> Indexes \cup {None}]
      BY DEF IInv, Typed
    <2>1. CASE ReadGeneration(r)
      <3>1. reader' = [reader EXCEPT ![r] = index(gen["running"])]
        BY Zenon, <2>1 DEF ReadGeneration, Generation
      <3>2. index(gen["running"]) \in Indexes
        BY Zenon, <1>g DEF index, Indexes, Stored
      <3>3. FreshAt(index(gen["running"]).gen, index(gen["running"]).tree)
        BY <1>g DEF index, FreshAt
      <3> QED BY <2>t, <3>1, <3>2, <3>3
    <2>2. CASE ServeIndex(r) \/ StoreIndex(r)
      BY Zenon, <2>t, <2>2 DEF ServeIndex, StoreIndex
    <2>3. CASE Miss(r)
      <3>1. reader' = [reader EXCEPT ![r] = [reader[r] EXCEPT !.missed = TRUE]] /\ reader[r] # None
        BY <2>3 DEF Miss
      <3>2. /\ [reader[r] EXCEPT !.missed = TRUE] \in Indexes
            /\ [reader[r] EXCEPT !.missed = TRUE].gen = reader[r].gen
            /\ [reader[r] EXCEPT !.missed = TRUE].tree = reader[r].tree
        BY Zenon, <1>r, <3>1 DEF Indexes
      <3> QED BY <1>r, <2>t, <3>1, <3>2
    <2>4. CASE ReadValues(r)
      <3>1. reader' = [reader EXCEPT ![r] = [reader[r] EXCEPT !.tree = mem["running"]]] /\ reader[r] # None
        BY <2>4 DEF ReadValues
      <3>2. /\ [reader[r] EXCEPT !.tree = mem["running"]] \in Indexes
            /\ [reader[r] EXCEPT !.tree = mem["running"]].gen = reader[r].gen
            /\ [reader[r] EXCEPT !.tree = mem["running"]].tree = mem["running"]
        BY <1>g, <1>r, <3>1 DEF Indexes, Stored
      <3> QED BY <1>r, <2>t, <3>1, <3>2 DEF FreshAt
    <2> QED BY Zenon, <2>1, <2>2, <2>3, <2>4
  <1>3. /\ cache' \in [gen : Nat, tree : Stored] \cup {None}
        /\ cache' # None => cache'.gen <= gen["running"]
                            /\ (cache'.gen = gen["running"] => cache'.tree = mem["running"])
    <2>1. CASE UNCHANGED cache
      BY <2>1 DEF IInv, Typed, IndexesFresh
    <2>2. CASE StoreIndex(r)
      <3>1. cache' = [gen |-> reader[r].gen, tree |-> reader[r].tree] /\ reader[r] # None
            /\ reader[r].tree # None
        BY Zenon, <2>2 DEF StoreIndex
      <3> QED BY Zenon, <1>r, <3>1 DEF Indexes, FreshAt
    <2> QED BY <2>1, <2>2 DEF ReadGeneration, ServeIndex, Miss, ReadValues
  <1>4. Typed'
    BY Zenon, <1>1, <1>2, <1>3 DEF IInv, Typed
  <1>5. \A q \in Readers : reader'[q] # None => FreshAt(reader'[q].gen, reader'[q].tree)
    BY Zenon, <1>2 DEF IInv, IndexesFresh
  <1>6. IndexesFresh'
    BY Zenon, <1>1, <1>3, <1>5 DEF IndexesFresh, FreshAt
  <1> QED BY Zenon, <1>1, <1>4, <1>6 DEF IInv, EditsStand, TagsStand, ConditionsStand

\* What a client keeps is the body, and the tag with what it was issued for.
LEMMA ClientStep ==
  ASSUME IInv, NEW c \in Clients, NEW k \in Copies,
         UNCHANGED <<mem, gen, stamp, writes, tx, reader, cache, passed>>,
         client' = [client EXCEPT ![c] = k],
         k.body # None \/ k.tag # None => k.ds \in Datastore,
         k.tag # None => /\ k.tag <= stamp[k.ds]
                         /\ k.tag = stamp[k.ds] /\ k.ds \in Writable => configOnly(mem[k.ds]) = k.shown
  PROVE  IInv'
  <1>1. Typed'
    BY Zenon DEF IInv, Typed
  <1>2. \A b \in Clients : client'[b] = IF b = c THEN k ELSE client[b]
    BY Zenon DEF IInv, Typed
  <1>3. TagsStand'
    BY ZenonT(30), <1>2 DEF IInv, TagsStand
  <1> QED BY Zenon, <1>1, <1>3 DEF IInv, IndexesFresh, FreshAt, EditsStand, ConditionsStand

\* The retrievals of the clients keep the invariant.
LEMMA RetrievalStep ==
  ASSUME IInv, NEW c \in Clients,
         NotModified(c) \/ GetValidators(c) \/ \E ds \in Datastore : GetBody(c, ds)
  PROVE  IInv'
  <1> DEFINE k == client[c]
  <1>1. UNCHANGED <<mem, gen, stamp, writes, tx, reader, cache, passed>>
    BY Zenon DEF NotModified, GetValidators, GetBody, storeVars
  <1>2. /\ k \in Copies
        /\ k.body # None \/ k.tag # None => k.ds \in Datastore
        /\ k.tag # None => /\ k.tag <= stamp[k.ds]
                           /\ k.tag = stamp[k.ds] /\ k.ds \in Writable => configOnly(mem[k.ds]) = k.shown
    BY Zenon DEF IInv, Typed, TagsStand
  <1>3. ASSUME NotModified(c) PROVE IInv'
    <2> DEFINE n == [k EXCEPT !.body = None]
    <2>1. client' = [client EXCEPT ![c] = n]
      BY <1>3 DEF NotModified
    <2>2. n \in Copies /\ n.body = None /\ n.ds = k.ds /\ n.tag = k.tag /\ n.shown = k.shown
      BY <1>2 DEF Copies, Stored
    <2> HIDE DEF n, k
    <2> QED BY Zenon, <1>1, <1>2, <2>1, <2>2, ClientStep
  <1>4. ASSUME GetValidators(c) PROVE IInv'
    <2> DEFINE n == [k EXCEPT !.copy = k.body, !.body = None, !.tag = stamp[k.ds],
                              !.shown = configOnly(mem[k.ds])]
    <2>1. client' = [client EXCEPT ![c] = n] /\ k.body # None
      BY Zenon, <1>4 DEF GetValidators, validators, ConfigChangedAt
    <2>2. k.ds \in Datastore
      BY <1>2, <2>1
    <2>3. stamp[k.ds] \in Nat /\ configOnly(mem[k.ds]) \in Stored
      BY Zenon, <2>2, ConfigOnlyTree DEF IInv, Typed, Stored
    <2>4. /\ n \in Copies
          /\ n.ds = k.ds /\ n.tag = stamp[k.ds] /\ n.shown = configOnly(mem[k.ds])
      BY Zenon, <1>2, <2>3 DEF Copies, Stored
    <2> HIDE DEF n, k
    <2>5. /\ n.body # None \/ n.tag # None => n.ds \in Datastore
          /\ n.tag <= stamp[n.ds]
          /\ configOnly(mem[n.ds]) = n.shown
      BY <2>2, <2>3, <2>4
    <2> QED BY Zenon, <1>1, <2>1, <2>4, <2>5, ClientStep
  <1>5. ASSUME NEW ds \in Datastore, GetBody(c, ds) PROVE IInv'
    <2> DEFINE n == [k EXCEPT !.ds = ds, !.body = configOnly(mem[ds])]
    <2>1. client' = [client EXCEPT ![c] = n] /\ (k.ds = None \/ k.ds = ds)
      BY ZenonT(30), <1>5 DEF GetBody
    <2>2. configOnly(mem[ds]) \in Stored
      BY Zenon, ConfigOnlyTree DEF IInv, Typed, Stored
    <2>3. n \in Copies /\ n.ds = ds /\ n.tag = k.tag /\ n.shown = k.shown
      BY Zenon, <1>2, <2>2 DEF Copies
    <2>4. k.tag # None => k.ds = ds
      BY <1>2, <2>1, NoneIsNoDatastore
    <2> HIDE DEF n, k
    <2>5. n.tag # None => /\ n.tag <= stamp[n.ds]
                          /\ n.tag = stamp[n.ds] /\ n.ds \in Writable => configOnly(mem[n.ds]) = n.shown
      BY Zenon, <1>2, <2>3, <2>4
    <2> QED BY Zenon, <1>1, <2>1, <2>3, <2>5, ClientStep
  <1> QED BY <1>3, <1>4, <1>5

\* A condition that is checked holds of the datastore.
LEMMA ConditionStep ==
  ASSUME IInv, NEW e \in Editors, NEW c \in Clients, checkPreconditions(e, c)
  PROVE  IInv'
  <1> DEFINE k == client[c]
             n == [ds |-> k.ds, shown |-> k.shown, overtaken |-> FALSE]
  <1>1. UNCHANGED <<mem, gen, stamp, writes, tx, reader, cache, client>>
    BY Zenon DEF checkPreconditions, storeVars
  <1>2. /\ k.tag # None /\ k.ds \in Writable /\ k.tag = stamp[k.ds]
        /\ passed' = [passed EXCEPT ![e] = n]
    BY Zenon DEF checkPreconditions, checkWritable, validators, ConfigChangedAt
  <1>3. k \in Copies /\ configOnly(mem[k.ds]) = k.shown
    BY Zenon, <1>2 DEF IInv, Typed, TagsStand
  <1>4. n \in Conditions /\ n.ds = k.ds /\ n.shown = k.shown
    BY Zenon, <1>2, <1>3 DEF Conditions, Copies
  <1> HIDE DEF n, k
  <1>5. Typed'
    BY Zenon, <1>1, <1>2, <1>4 DEF IInv, Typed
  <1>6. \A f \in Editors : passed'[f] = IF f = e THEN n ELSE passed[f]
    BY Zenon, <1>2 DEF IInv, Typed
  <1>7. ConditionsStand'
    BY Zenon, <1>1, <1>3, <1>4, <1>6 DEF IInv, ConditionsStand
  <1> QED BY Zenon, <1>1, <1>5, <1>7 DEF IInv, IndexesFresh, FreshAt, EditsStand, TagsStand

\* A request that ends without an edit keeps the invariant.
LEMMA EndStep ==
  ASSUME IInv, NEW e \in Editors, CancelEdit(e) \/ RefuseEdit(e)
  PROVE  IInv'
  <1>1. UNCHANGED <<mem, gen, stamp, writes, reader, cache, client>>
    BY DEF CancelEdit, RefuseEdit, storeVars
  <1>2. tx' = tx \/ tx' = [tx EXCEPT ![e] = None]
    BY DEF CancelEdit, RefuseEdit
  <1>3. passed' = [passed EXCEPT ![e] = None]
    BY Zenon DEF CancelEdit, RefuseEdit
  <1>4. Typed'
    BY Zenon, <1>1, <1>2, <1>3 DEF IInv, Typed
  <1>5. \A f \in Editors : tx'[f] = tx[f] \/ tx'[f] = None
    BY <1>2 DEF IInv, Typed
  <1>6. \A f \in Editors : passed'[f] = passed[f] \/ passed'[f] = None
    BY Zenon, <1>3 DEF IInv, Typed
  <1>7. EditsStand'
    BY Zenon, <1>1, <1>5 DEF IInv, EditsStand
  <1>8. ConditionsStand'
    BY Zenon, <1>1, <1>6 DEF IInv, ConditionsStand
  <1> QED BY Zenon, <1>1, <1>4, <1>7, <1>8 DEF IInv, IndexesFresh, FreshAt, TagsStand

\* A step of the planes or the domains writes and records what it writes, or
\* leaves the datastores alone.  Either way it keeps the invariant.
LEMMA NextStep ==
  ASSUME IInv, [Next]_vars
  PROVE  /\ IInv'
         /\ Recorded \/ UNCHANGED <<mem, stamp>>
  <1>1. ASSUME NEW p \in Paths, NEW v \in Values, DomainSet(p, v) PROVE Recorded /\ IInv'
    BY <1>1, OutsideRecords, OutsideStep DEF IInv
  <1>2. ASSUME CommitCandidate \/ DiscardChanges \/ RestoreSeed PROVE Recorded /\ IInv'
    BY Zenon, <1>2, OutsideRecords, OutsideStep DEF IInv
  <1>3. ASSUME NEW e \in Editors, NEW node \in Nodes, NEW op \in Operations,
               NEW document \in Documents(node), NEW ds \in Writable,
               EditConfig(e, ds, op, node, document) \/ RestconfEdit(e, ds, op, node, document)
                 \/ GnmiSet(e, op, node, document)
        PROVE  IInv' /\ UNCHANGED <<mem, stamp>>
    <2>1. PICK d \in Writable : TreeEdit(e, d, op, node, document)
      BY Zenon, <1>3 DEF EditConfig, RestconfEdit, GnmiSet, Writable
    <2>2. UNCHANGED <<mem, stamp>>
      BY Zenon, <2>1 DEF TreeEdit, Propose, storeVars
    <2> QED BY Zenon, <2>1, <2>2, TreeEditStep
  <1>4. ASSUME NEW e \in Editors, NEW values \in Documents(ConfigPaths), SnmpSet(e, values)
        PROVE  IInv' /\ UNCHANGED <<mem, stamp>>
    BY Zenon, <1>4, SnmpSetStep DEF SnmpSet, Propose, storeVars
  <1>5. ASSUME NEW e \in Editors, ApplyEdit(e) PROVE Recorded /\ IInv'
    BY Zenon, <1>5, ApplyEditStep
  <1>6. ASSUME NEW e \in Editors, CancelEdit(e) \/ RefuseEdit(e)
        PROVE  IInv' /\ UNCHANGED <<mem, stamp>>
    BY Zenon, <1>6, EndStep DEF CancelEdit, RefuseEdit, storeVars
  <1>7. ASSUME NEW e \in Editors, NEW c \in Clients, checkPreconditions(e, c)
        PROVE  IInv' /\ UNCHANGED <<mem, stamp>>
    BY Zenon, <1>7, ConditionStep DEF checkPreconditions, storeVars
  <1>8. ASSUME NEW r \in Readers,
               ReadGeneration(r) \/ ServeIndex(r) \/ Miss(r) \/ ReadValues(r) \/ StoreIndex(r)
        PROVE  IInv' /\ UNCHANGED <<mem, stamp>>
    BY Zenon, <1>8, ReaderStep DEF ReadGeneration, ServeIndex, Miss, ReadValues, StoreIndex, storeVars
  <1>9. ASSUME NEW c \in Clients,
               NotModified(c) \/ GetValidators(c) \/ \E ds \in Datastore : GetBody(c, ds)
        PROVE  IInv' /\ UNCHANGED <<mem, stamp>>
    BY Zenon, <1>9, RetrievalStep DEF NotModified, GetValidators, GetBody, storeVars
  <1>10. ASSUME UNCHANGED vars PROVE IInv' /\ UNCHANGED <<mem, stamp>>
    <2>1. UNCHANGED <<mem, gen, stamp, writes, tx, reader, cache, client, passed>>
      BY <1>10 DEF vars, storeVars
    <2> QED BY Zenon, <2>1 DEF IInv, Typed, IndexesFresh, FreshAt, EditsStand, TagsStand, ConditionsStand
  <1>11. "running" \in Writable
    BY DEF Writable
  <1> QED
    BY Zenon, <1>1, <1>2, <1>3, <1>4, <1>5, <1>6, <1>7, <1>8, <1>9, <1>10, <1>11 DEF Next
-----------------------------------------------------------------------------
\* The invariant holds of every reachable state.
LEMMA Inductive == Spec => []IInv
  <1>1. IInv /\ [Next]_vars => IInv'
    BY NextStep
  <1> QED BY <1>1, InitIInv, PTL DEF Spec

\* Bindings never answers from an index that is out of date: for any number of
\* readers that rebuild it and any number of writers.
THEOREM IndexNeverStale == Spec => []IndexIsFresh
  <1>1. IInv => IndexIsFresh
    BY DEF IInv, IndexesFresh, IndexIsFresh, Hit, Generation
  <1> QED BY <1>1, Inductive, PTL

\* A change of the configuration of a datastore moves the time that
\* ConfigChangedAt reports, whoever makes it, but for a startup that catches up
\* with a running which has the configuration already.
THEOREM TagFollowsConfig == Spec => TagMovesWithConfig
  <1>1. IInv /\ [Next]_vars => [\A d \in Datastore : stamp'[d] = stamp[d] =>
            \/ configOnly(mem'[d]) = configOnly(mem[d])
            \/ /\ d = "startup" /\ mem'[d] = mem'["running"]
               /\ configOnly(mem'["running"]) = configOnly(mem["running"])]_vars
    <2> SUFFICES ASSUME IInv, [Next]_vars, NEW d \in Datastore, stamp'[d] = stamp[d]
                 PROVE  \/ configOnly(mem'[d]) = configOnly(mem[d])
                        \/ /\ d = "startup" /\ mem'[d] = mem'["running"]
                           /\ configOnly(mem'["running"]) = configOnly(mem["running"])
      BY Zenon
    <2>1. CASE Recorded
      <3>1. \A c \in Datastore : mem[c] \in Tree /\ mem'[c] \in Tree
        BY <2>1 DEF IInv, Typed, Recorded
      <3>2. (d \in Writable \/ d = "startup") /\ "running" \in Datastore
        BY Zenon DEF Writable, Datastore
      <3>3. CASE d \in Writable
        BY Zenon, <2>1, <3>1, <3>3, ConfigOnlySame DEF Recorded
      <3>4. CASE d = "startup"
        <4>1. \/ mem'[d] = mem[d]
              \/ mem'[d] = mem'["running"] /\ SameConfig(mem'["running"], mem["running"])
          BY Zenon, <2>1, <3>4 DEF Recorded
        <4> QED BY Zenon, <3>1, <3>2, <3>4, <4>1, ConfigOnlySame
      <3> QED BY Zenon, <3>2, <3>3, <3>4
    <2>2. CASE UNCHANGED <<mem, stamp>>
      BY <2>2
    <2> QED BY Zenon, <2>1, <2>2, NextStep
  <1> QED BY <1>1, Inductive, PTL DEF Spec, TagMovesWithConfig

\* Edits that go through txMu are serializable, and an edit under If-Match that
\* nothing overtook changes what its entity-tag was issued for.
THEOREM EditsAreSerial == Spec => EditsSerialize
  <1>1. IInv /\ [Next]_vars => [\A e \in Editors : ApplyEdit(e) =>
          /\ ~ tx[e].raced => configOnly(mem'[tx[e].ds]) = configOnly(tx[e].proposed)
          /\ \A d \in Datastore, p \in StatePaths : mem'[d][p] = mem[d][p]
          /\ passed[e] # None /\ ~ passed[e].overtaken
               => configOnly(mem[passed[e].ds]) = passed[e].shown]_vars
    <2> SUFFICES ASSUME IInv, NEW e \in Editors, ApplyEdit(e)
                 PROVE  /\ ~ tx[e].raced => configOnly(mem'[tx[e].ds]) = configOnly(tx[e].proposed)
                        /\ \A d \in Datastore, p \in StatePaths : mem'[d][p] = mem[d][p]
                        /\ passed[e] # None /\ ~ passed[e].overtaken
                             => configOnly(mem[passed[e].ds]) = passed[e].shown
      BY Zenon
    <2> DEFINE ds == tx[e].ds
               b == tx[e].batch
    <2>1. tx[e] # None /\ tx[e] \in Edits /\ mem' = Apply(mem, ds, b)
      BY Zenon DEF IInv, Typed, ApplyEdit, Write
    <2>2. ds \in Writable /\ b \in Batches /\ tx[e].proposed \in Tree /\ ds \in Datastore
      BY Zenon, <2>1 DEF Edits, Writable, Datastore
    <2> HIDE DEF ds, b
    <2>3. /\ mem' \in [Datastore -> Tree]
          /\ mem'[ds] = Overlay(mem[ds], b)
          /\ \A d \in Datastore : mem'[d] = Overlay(mem[d], b) \/ mem'[d] = mem[d]
      <3>1. DOMAIN b \in SUBSET Paths /\ b \in [DOMAIN b -> Leaf]
        BY <2>2, BatchFacts
      <3>2. mem \in [Datastore -> Tree]
        BY Zenon DEF IInv, Typed
      <3>3. /\ Apply(mem, ds, b) \in [Datastore -> Tree]
            /\ \A d \in mirror(ds) : d \in Datastore /\ Apply(mem, ds, b)[d] = Overlay(mem[d], b)
            /\ \A d \in Datastore \ mirror(ds) : Apply(mem, ds, b)[d] = mem[d]
            /\ ds \in mirror(ds)
        BY Zenon, <2>2, <3>1, <3>2, ApplyFacts
      <3> QED BY Zenon, <2>1, <3>3
    <2>4. ASSUME ~ tx[e].raced PROVE configOnly(mem'[ds]) = configOnly(tx[e].proposed)
      <3>1. SameConfig(mem'[ds], tx[e].proposed)
        BY Zenon, <2>1, <2>3, <2>4 DEF IInv, EditsStand, ds, b
      <3> QED BY Zenon, <2>2, <2>3, <3>1, ConfigOnlySame
    <2>5. ASSUME NEW d \in Datastore, NEW p \in StatePaths PROVE mem'[d][p] = mem[d][p]
      <3>1. p \in Paths /\ p \notin DOMAIN b
        BY <2>2, BatchFacts, PathsDisjoint DEF Paths
      <3>2. Overlay(mem[d], b)[p] = mem[d][p]
        BY <3>1 DEF Overlay
      <3> QED BY <2>3, <3>2
    <2> QED BY Zenon, <2>4, <2>5 DEF IInv, ConditionsStand, ds
  <1> QED BY <1>1, Inductive, PTL DEF Spec, EditsSerialize
=============================================================================
