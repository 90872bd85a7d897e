---------------------------- MODULE BridgeProofs ----------------------------
(***************************************************************************)
(* Proofs about the steps of module Bridge, for every number of stations,  *)
(* ports and VLANs, every limit and every timing: what they keep of the    *)
(* MAC table, of the ages in it, of static entries and of storm control.   *)
(* L2DomainProofs puts them together for the L2 domain.                    *)
(***************************************************************************)
EXTENDS Bridge, FiniteSetTheorems, WellFoundedInduction, TLAPS

(***************************************************************************)
(* The invariant of the bridge speaks of the table and of the operation    *)
(* that is under way: what the operation has yet to write.                 *)
(***************************************************************************)
BridgeTyped ==
    /\ table \in Tables
    /\ count \in Nat
    /\ stale \in BOOLEAN
    /\ seen \in [Stations -> Nat] /\ lead \in [Stations -> Nat]
    /\ since \in Nat
    /\ edits \in Nat
    /\ work # None =>
           /\ work \in Operations
           /\ work.at # None => work.at \in DOMAIN work.todo

\* The stations that the operation has yet to write count as if they were known.
Coming == IF work = None THEN {} ELSE {m \in DOMAIN work.todo : work.todo[m] # Zero}

\* The number that the operation is about to publish is right, or stale says so.
Counting ==
    work # None /\ work.counted # None =>
        /\ work.recount /\ work.at = None /\ DOMAIN work.todo = {}
        /\ work.counted # Cardinality(Known) => stale

Accounted ==
    /\ IsFiniteSet(Known \cup Coming)
    /\ Cardinality(Known \cup Coming) <= MaxEntries + edits
    /\ count # Cardinality(Known) => stale \/ (work # None /\ work.counted # None)
    /\ Counting

Age(e) == IF e.age = None THEN 0 ELSE e.age

\* An entry may be as old as a, given its history.
Deserves(m, a) == AgingTime * Second <= seen[m] \/ a * Second + since <= seen[m] + lead[m]

\* No entry is older than the time since its last reset and the lead it had then,
\* the time since the last sweep included; nor does a sweep make it so.
AgesRight ==
    /\ \A m \in Known : Deserves(m, Age(table[m]))
    /\ work # None /\ work.op # "age" => \A m \in DOMAIN work.todo : Age(work.todo[m]) = 0
    /\ work # None /\ work.op = "age" =>
           /\ since = 0
           /\ \A m \in DOMAIN work.todo :
                  IF work.todo[m] = Zero
                  THEN work.at # m => AgingTime * Second <= seen[m] + lead[m]
                  ELSE /\ Deserves(m, Age(work.todo[m]))
                       /\ StoredLeaves(work.todo[m]) \subseteq {"age"}
                       /\ work.at = m => work.left \subseteq {"age"}

\* An operation that goes by what it read has read no static entry, and makes none.
StaticsSpared ==
    work # None /\ work.op \notin {"static", "delete"} =>
        \A m \in DOMAIN work.todo :
            /\ work.todo[m].type # "static"
            /\ m \in work.edited \/ ~ Static(m)

BridgeInv == BridgeTyped /\ Accounted /\ AgesRight /\ StaticsSpared
-----------------------------------------------------------------------------
\* The tables are the functions from stations to entries.
LEMMA TableType ==
  ASSUME NEW t
  PROVE  t \in Tables <=> /\ DOMAIN t \subseteq Stations
                         /\ t = [x \in DOMAIN t |-> t[x]]
                         /\ \A x \in DOMAIN t : t[x] \in Entry
  BY DEF Tables

\* The entry with no leaf is an entry.
LEMMA ZeroType == Zero \in Entry /\ Zero.age = None /\ Zero.type = "unset"
  BY DEF Zero, Entry

\* An entry more, or another entry for a station.
LEMMA WithTable ==
  ASSUME NEW t \in Tables, NEW m \in Stations, NEW e \in Entry
  PROVE  /\ With(t, m, e) \in Tables
         /\ DOMAIN With(t, m, e) = DOMAIN t \cup {m}
         /\ With(t, m, e)[m] = e
         /\ \A x \in DOMAIN t \ {m} : With(t, m, e)[x] = t[x]
  BY TableType DEF With

\* Some entries less.
LEMMA WithoutTable ==
  ASSUME NEW t \in Tables, NEW ms
  PROVE  /\ Without(t, ms) \in Tables
         /\ DOMAIN Without(t, ms) = DOMAIN t \ ms
         /\ \A x \in DOMAIN t \ ms : Without(t, ms)[x] = t[x]
  BY TableType DEF Without

\* An entry is stored, or gone with its last leaf; the others stay.
LEMMA PutTable ==
  ASSUME NEW t \in Tables, NEW m \in Stations, NEW e \in Entry
  PROVE  /\ Put(t, m, e) \in Tables
         /\ DOMAIN Put(t, m, e) = IF e = Zero THEN DOMAIN t \ {m} ELSE DOMAIN t \cup {m}
         /\ e # Zero => Put(t, m, e)[m] = e
         /\ \A x \in DOMAIN t \ {m} : Put(t, m, e)[x] = t[x]
  <1>1. CASE e = Zero
    <2>1. /\ Without(t, {m}) \in Tables
          /\ DOMAIN Without(t, {m}) = DOMAIN t \ {m}
          /\ \A x \in DOMAIN t \ {m} : Without(t, {m})[x] = t[x]
      BY Zenon, WithoutTable
    <2> QED BY <1>1, <2>1 DEF Put
  <1>2. CASE e # Zero
    <2>1. /\ With(t, m, e) \in Tables
          /\ DOMAIN With(t, m, e) = DOMAIN t \cup {m}
          /\ With(t, m, e)[m] = e
          /\ \A x \in DOMAIN t \ {m} : With(t, m, e)[x] = t[x]
      BY Zenon, WithTable
    <2> QED BY <1>2, <2>1 DEF Put
  <1> QED BY <1>1, <1>2

\* The leaves in which two entries differ.
LEMMA DifferLeaves ==
  ASSUME NEW e, NEW f, NEW leaf
  PROVE  leaf \in Differ(e, f) <=>
             \/ leaf = "vlan" /\ e.vlan # f.vlan
             \/ leaf = "port" /\ e.port # f.port
             \/ leaf = "type" /\ e.type # f.type
             \/ leaf = "age" /\ e.age # f.age
             \/ leaf = "permanent" /\ e.permanent # f.permanent
  BY DEF Differ

\* An entry whose leaves come from two entries has each leaf from one of them.
LEMMA PatchEntry ==
  ASSUME NEW old \in Entry, NEW new \in Entry, NEW leaves
  PROVE  /\ Patch(old, new, leaves) \in Entry
         /\ Patch(old, new, leaves).vlan = IF "vlan" \in leaves THEN new.vlan ELSE old.vlan
         /\ Patch(old, new, leaves).port = IF "port" \in leaves THEN new.port ELSE old.port
         /\ Patch(old, new, leaves).type = IF "type" \in leaves THEN new.type ELSE old.type
         /\ Patch(old, new, leaves).permanent =
                IF "permanent" \in leaves THEN new.permanent ELSE old.permanent
         /\ Patch(old, new, leaves).age = IF "age" \in leaves THEN new.age ELSE old.age
  BY DEF Patch, Entry

\* Entries are the same if their leaves are.
LEMMA SameEntry ==
  ASSUME NEW e \in Entry, NEW f \in Entry, e.vlan = f.vlan, e.port = f.port, e.type = f.type,
         e.permanent = f.permanent, e.age = f.age
  PROVE  e = f
  BY DEF Entry

\* The differences are all there is to an edit.
LEMMA PatchDiffer ==
  ASSUME NEW old \in Entry, NEW new \in Entry
  PROVE  Patch(old, new, Differ(old, new)) = new
  <1> DEFINE patched == Patch(old, new, Differ(old, new))
  <1>1. /\ patched \in Entry
        /\ patched.vlan = new.vlan /\ patched.port = new.port /\ patched.type = new.type
        /\ patched.permanent = new.permanent /\ patched.age = new.age
    <2>1. /\ "vlan" \in Differ(old, new) <=> old.vlan # new.vlan
          /\ "port" \in Differ(old, new) <=> old.port # new.port
          /\ "type" \in Differ(old, new) <=> old.type # new.type
          /\ "age" \in Differ(old, new) <=> old.age # new.age
          /\ "permanent" \in Differ(old, new) <=> old.permanent # new.permanent
      BY DifferLeaves
    <2> QED BY <2>1, PatchEntry
  <1> HIDE DEF patched
  <1>2. patched = new
    BY Zenon, <1>1, SameEntry
  <1> QED BY <1>2 DEF patched

\* The leaves that are stored: none of the entry that is gone, and one less after
\* a leaf is deleted.
LEMMA StoredSteps ==
  ASSUME NEW e \in Entry, NEW leaf
  PROVE  /\ StoredLeaves(e) \subseteq LeafNames
         /\ StoredLeaves(e) = {} <=> e = Zero
         /\ StoredLeaves(Patch(e, Zero, {leaf})) = StoredLeaves(e) \ {leaf}
  <1>1. StoredLeaves(e) \subseteq LeafNames
    BY Zenon, DifferLeaves DEF StoredLeaves, LeafNames
  <1>2. ASSUME StoredLeaves(e) = {} PROVE e = Zero
    <2>1. /\ e.vlan = Zero.vlan /\ e.port = Zero.port /\ e.type = Zero.type
          /\ e.permanent = Zero.permanent /\ e.age = Zero.age
      BY Zenon, <1>2, DifferLeaves DEF StoredLeaves
    <2> QED BY Zenon, <2>1, ZeroType, SameEntry
  <1>3. StoredLeaves(Zero) = {}
    BY Zenon, DifferLeaves DEF StoredLeaves
  <1>4. ASSUME NEW x
        PROVE  x \in StoredLeaves(Patch(e, Zero, {leaf})) <=> x \in StoredLeaves(e) \ {leaf}
    <2> DEFINE patched == Patch(e, Zero, {leaf})
    <2>1. /\ patched.vlan = IF "vlan" = leaf THEN Zero.vlan ELSE e.vlan
          /\ patched.port = IF "port" = leaf THEN Zero.port ELSE e.port
          /\ patched.type = IF "type" = leaf THEN Zero.type ELSE e.type
          /\ patched.permanent = IF "permanent" = leaf THEN Zero.permanent ELSE e.permanent
          /\ patched.age = IF "age" = leaf THEN Zero.age ELSE e.age
      BY ZeroType, PatchEntry
    <2> HIDE DEF patched
    <2>2. x \in StoredLeaves(patched) <=> x \in StoredLeaves(e) /\ x # leaf
      BY <2>1, DifferLeaves DEF StoredLeaves
    <2> QED BY <2>2 DEF patched
  <1> QED BY Zenon, <1>1, <1>2, <1>3, <1>4

\* What becomes of the table when an entry is stored.
LEMMA FoundPut ==
  ASSUME table \in Tables, NEW m \in Stations, NEW e \in Entry, table' = Put(table, m, e)
  PROVE  /\ table' \in Tables
         /\ Known' = IF e = Zero THEN Known \ {m} ELSE Known \cup {m}
         /\ Found(m)' = e
         /\ m \in Known' => e # Zero /\ table'[m] = e
         /\ \A x \in Known \ {m} : x \in Known' /\ table'[x] = table[x]
  <1>1. /\ Put(table, m, e) \in Tables
        /\ DOMAIN Put(table, m, e) = IF e = Zero THEN DOMAIN table \ {m} ELSE DOMAIN table \cup {m}
        /\ e # Zero => Put(table, m, e)[m] = e
        /\ \A x \in DOMAIN table \ {m} : Put(table, m, e)[x] = table[x]
    BY Zenon, PutTable
  <1>2. Known' = IF e = Zero THEN Known \ {m} ELSE Known \cup {m}
    BY Zenon, <1>1 DEF Known
  <1>3. m \in Known' => e # Zero /\ table'[m] = e
    BY Zenon, <1>1, <1>2
  <1>4. m \notin Known' => e = Zero
    BY Zenon, <1>2
  <1>5. Found(m)' = e
    BY Zenon, <1>3, <1>4 DEF Found
  <1>6. \A x \in Known \ {m} : x \in Known' /\ table'[x] = table[x]
    BY Zenon, <1>1, <1>2 DEF Known
  <1> QED BY Zenon, <1>1, <1>2, <1>3, <1>5, <1>6

\* What is found for a station is an entry.
LEMMA FoundType ==
  ASSUME table \in Tables
  PROVE  \A m : Found(m) \in Entry
  BY TableType, ZeroType DEF Found, Known

\* An age is a number of seconds.
LEMMA AgeNat ==
  ASSUME NEW e \in Entry
  PROVE  Age(e) \in Nat
  BY DEF Entry, Age

\* The operation that a request or a tick starts.
LEMMA WorkType ==
  ASSUME NEW op \in {"learn", "static", "delete", "flush", "age"}, NEW todo \in Tables,
         NEW recount \in BOOLEAN
  PROVE  /\ Work(op, todo, recount) \in Operations
         /\ Work(op, todo, recount).op = op
         /\ Work(op, todo, recount).todo = todo
         /\ Work(op, todo, recount).at = None
         /\ Work(op, todo, recount).counted = None
  BY Zenon DEF Work, Operations

\* The operation w and the operation n that it becomes, with these leaves left.
GoesOn(w, left, n) ==
    /\ n \in Operations
    /\ n.op = w.op /\ n.edited = w.edited /\ n.counted = w.counted
    /\ left # {} => n.at = w.at /\ n.todo = w.todo /\ n.left = left
    /\ left = {} => n.at = None /\ DOMAIN n.todo = DOMAIN w.todo \ {w.at}
    /\ \A x \in DOMAIN n.todo : x \in DOMAIN w.todo /\ n.todo[x] = w.todo[x]

\* The operation as it goes on.
LEMMA OnwardType ==
  ASSUME NEW w \in Operations, w.at \in DOMAIN w.todo, NEW left \in SUBSET LeafNames
  PROVE  GoesOn(w, left, Onward(w, left))
  <1>1. CASE left # {}
    <2>1. Onward(w, left) = [w EXCEPT !.left = left]
      BY Zenon, <1>1 DEF Onward
    <2> QED BY <1>1, <2>1 DEF Operations, GoesOn
  <1>2. CASE left = {}
    <2> DEFINE rest == Without(w.todo, {w.at})
               counts == w.recount \/ w.todo[w.at] = Zero
    <2>1. Onward(w, left) = [w EXCEPT !.left = {}, !.at = None, !.todo = rest, !.recount = counts]
      BY Zenon, <1>2 DEF Onward
    <2>2. w.todo \in Tables
      BY DEF Operations
    <2>3. /\ rest \in Tables /\ DOMAIN rest = DOMAIN w.todo \ {w.at}
          /\ \A x \in DOMAIN w.todo \ {w.at} : rest[x] = w.todo[x]
      BY Zenon, <2>2, WithoutTable
    <2>4. counts \in BOOLEAN
      BY DEF Operations
    <2> HIDE DEF rest, counts
    <2>5. /\ Onward(w, left) \in Operations
          /\ Onward(w, left).op = w.op
          /\ Onward(w, left).edited = w.edited
          /\ Onward(w, left).counted = w.counted
          /\ Onward(w, left).at = None
          /\ Onward(w, left).todo = rest
      BY Zenon, <2>1, <2>3, <2>4 DEF Operations
    <2> QED BY Zenon, <1>2, <2>3, <2>5 DEF GoesOn
  <1> QED BY <1>1, <1>2
-----------------------------------------------------------------------------
\* A set of entries that does not grow stays in bounds.
LEMMA ShrinksInBounds ==
  ASSUME NEW S, IsFiniteSet(S), NEW bound \in Nat, Cardinality(S) <= bound,
         NEW T \in SUBSET S
  PROVE  IsFiniteSet(T) /\ Cardinality(T) \in Nat /\ Cardinality(T) <= bound
  <1>1. IsFiniteSet(T) /\ Cardinality(T) <= Cardinality(S)
    BY FS_Subset
  <1> QED BY <1>1, FS_CardinalityType

\* A set of entries that grows by one only below max-entries stays in bounds.
LEMMA GrowsInBounds ==
  ASSUME NEW S, IsFiniteSet(S), NEW bound \in Nat, Cardinality(S) <= bound,
         MaxEntries <= bound, NEW m, m \in S \/ Cardinality(S) < MaxEntries,
         NEW T \in SUBSET (S \cup {m})
  PROVE  IsFiniteSet(T) /\ Cardinality(T) \in Nat /\ Cardinality(T) <= bound
  <1>1. /\ IsFiniteSet(S \cup {m}) /\ Cardinality(S \cup {m}) \in Nat
        /\ Cardinality(S \cup {m}) <= bound
    <2>1. Cardinality(S) \in Nat /\ MaxEntries \in Nat
      BY FS_CardinalityType, BridgeAssumption
    <2>2. /\ IsFiniteSet(S \cup {m})
          /\ Cardinality(S \cup {m}) = IF m \in S THEN Cardinality(S) ELSE Cardinality(S) + 1
      BY FS_AddElement
    <2> QED BY <2>1, <2>2
  <1>2. IsFiniteSet(T) /\ Cardinality(T) <= Cardinality(S \cup {m})
    BY <1>1, FS_Subset
  <1> QED BY <1>1, <1>2, FS_CardinalityType

\* A set of entries that gets one more is larger by one at most.
LEMMA GrowsByOne ==
  ASSUME NEW S, IsFiniteSet(S), NEW bound \in Nat, Cardinality(S) <= bound, NEW m,
         NEW T \in SUBSET (S \cup {m})
  PROVE  IsFiniteSet(T) /\ Cardinality(T) <= bound + 1
  <1>1. IsFiniteSet(S \cup {m}) /\ Cardinality(S \cup {m}) <= bound + 1
    <2>1. Cardinality(S) \in Nat
      BY FS_CardinalityType
    <2>2. /\ IsFiniteSet(S \cup {m})
          /\ Cardinality(S \cup {m}) = IF m \in S THEN Cardinality(S) ELSE Cardinality(S) + 1
      BY Zenon, FS_AddElement
    <2> QED BY <2>1, <2>2
  <1>2. bound + 1 \in Nat
    OBVIOUS
  <1> QED BY Zenon, <1>1, <1>2, ShrinksInBounds

\* Whole seconds of a time are no more than the time.
LEMMA WholeSeconds ==
  ASSUME NEW a \in Nat, NEW x \in Nat, NEW s \in Nat \ {0}
  PROVE  x \div s \in Nat /\ (a + (x \div s)) * s <= a * s + x
  <1> DEFINE d == x \div s
  <1>1. d \in Nat /\ x = s * d + (x % s) /\ x % s \in Nat
    OBVIOUS
  <1> HIDE DEF d
  <1>2. (a + d) * s = a * s + s * d /\ a * s \in Nat /\ s * d \in Nat
    BY <1>1
  <1> QED BY <1>1, <1>2 DEF d
-----------------------------------------------------------------------------
(***************************************************************************)
(* What a request reads and decides: the operation that it starts writes   *)
(* for at most one station that is not known, and only below max-entries,  *)
(* and resets what it writes.                                              *)
(***************************************************************************)
LEMMA StartStep ==
  ASSUME BridgeInv, work = None, UNCHANGED <<tableVars, since, edits>>,
         NEW op \in {"learn", "static", "delete", "flush"}, NEW todo \in Tables,
         NEW recount \in BOOLEAN, work' = Work(op, todo, recount),
         NEW k, k \in Known \/ Cardinality(Known) < MaxEntries,
         {m \in DOMAIN todo : todo[m] # Zero} \subseteq Known \cup {k},
         \A m \in DOMAIN todo : Age(todo[m]) = 0,
         op \in {"learn", "flush"} =>
             \A m \in DOMAIN todo : todo[m].type # "static" /\ ~ Static(m)
  PROVE  BridgeInv'
  <1>1. /\ table' = table /\ count' = count /\ seen' = seen /\ lead' = lead /\ stale' = stale
        /\ since' = since /\ edits' = edits /\ Known' = Known /\ Coming = {}
    BY DEF tableVars, Known, Coming
  <1>2. /\ work' \in Operations /\ work'.op = op /\ work'.todo = todo /\ work'.at = None
        /\ work'.counted = None
    <2>1. op \in {"learn", "static", "delete", "flush", "age"}
      OBVIOUS
    <2>2. /\ Work(op, todo, recount) \in Operations
          /\ Work(op, todo, recount).op = op
          /\ Work(op, todo, recount).todo = todo
          /\ Work(op, todo, recount).at = None
          /\ Work(op, todo, recount).counted = None
      BY <2>1, WorkType
    <2> QED BY Zenon, <2>2
  <1>3. BridgeTyped'
    BY Zenon, <1>1, <1>2 DEF BridgeInv, BridgeTyped
  <1>4. Accounted'
    <2> DEFINE bound == MaxEntries + edits
    <2>1. bound \in Nat /\ MaxEntries <= bound
      BY BridgeAssumption DEF BridgeInv, BridgeTyped
    <2>2. IsFiniteSet(Known) /\ Cardinality(Known) <= bound
      <3>1. Known \cup Coming = Known
        BY Zenon, <1>1
      <3> QED BY Zenon, <3>1 DEF BridgeInv, Accounted
    <2> HIDE DEF bound
    <2>3. (Known \cup Coming)' \in SUBSET (Known \cup {k})
      BY <1>1, <1>2 DEF Coming
    <2>4. IsFiniteSet((Known \cup Coming)') /\ Cardinality((Known \cup Coming)') <= bound
      BY Zenon, <2>1, <2>2, <2>3, GrowsInBounds
    <2>5. count' # Cardinality(Known') => stale'
      BY Zenon, <1>1 DEF BridgeInv, Accounted
    <2>6. Counting'
      BY Zenon, <1>2 DEF Counting
    <2> QED BY Zenon, <1>1, <2>4, <2>5, <2>6 DEF Accounted, bound
  <1>5. AgesRight'
    <2>1. work'.op # "age"
      BY <1>2
    <2>2. \A m \in Known' : Deserves(m, Age(table[m]))'
      BY Zenon, <1>1 DEF BridgeInv, AgesRight, Deserves
    <2> QED BY Zenon, <1>2, <2>1, <2>2 DEF AgesRight
  <1>6. StaticsSpared'
    <2>1. op \notin {"static", "delete"} => op \in {"learn", "flush"}
      BY Zenon
    <2> QED BY Zenon, <1>1, <1>2, <2>1 DEF StaticsSpared, Static
  <1> QED BY Zenon, <1>3, <1>4, <1>5, <1>6 DEF BridgeInv

\* A step that leaves the bridge alone.
LEMMA SameStep ==
  ASSUME BridgeInv, UNCHANGED <<tableVars, since, work, edits>>
  PROVE  BridgeInv'
  <1>1. UNCHANGED <<table, count, seen, lead, stale, since, work, edits>>
    BY DEF tableVars
  <1>2. Known' = Known /\ Coming' = Coming
    BY <1>1 DEF Known, Coming
  <1>3. BridgeTyped' /\ Accounted'
    BY Zenon, <1>1, <1>2 DEF BridgeInv, BridgeTyped, Accounted, Counting
  <1>4. AgesRight' /\ StaticsSpared'
    BY Zenon, <1>1, <1>2 DEF BridgeInv, AgesRight, Deserves, StaticsSpared, Static
  <1> QED BY Zenon, <1>3, <1>4 DEF BridgeInv

\* The end of an operation, whether it counted, failed or was cut off.
LEMMA WorkDone ==
  ASSUME BridgeInv, work # None, work' = None, UNCHANGED <<table, seen, lead, since, edits>>,
         count' \in Nat, stale' \in BOOLEAN, count' # Cardinality(Known) => stale'
  PROVE  BridgeInv'
  <1>1. Known' = Known /\ Coming' = {}
    BY DEF Known, Coming
  <1>2. BridgeTyped'
    BY Zenon DEF BridgeInv, BridgeTyped
  <1>3. Accounted'
    <2> DEFINE bound == MaxEntries + edits
    <2>1. bound \in Nat /\ IsFiniteSet(Known \cup Coming) /\ Cardinality(Known \cup Coming) <= bound
      BY BridgeAssumption DEF BridgeInv, BridgeTyped, Accounted
    <2> HIDE DEF bound
    <2>2. (Known \cup Coming)' \in SUBSET (Known \cup Coming)
      BY Zenon, <1>1
    <2>3. IsFiniteSet((Known \cup Coming)') /\ Cardinality((Known \cup Coming)') <= bound
      BY Zenon, <2>1, <2>2, ShrinksInBounds
    <2> QED BY Zenon, <1>1, <2>3 DEF Accounted, Counting, bound
  <1>4. AgesRight'
    BY Zenon, <1>1 DEF BridgeInv, AgesRight, Deserves
  <1>5. StaticsSpared'
    BY Zenon DEF StaticsSpared
  <1> QED BY Zenon, <1>2, <1>3, <1>4, <1>5 DEF BridgeInv

\* EndWork, LoseLeaf and CutOff: an operation that has not counted leaves the
\* count as right as it was.
LEMMA EndSteps ==
  ASSUME BridgeInv, EndWork \/ CutOff \/ \E leaf : LoseLeaf(leaf)
  PROVE  BridgeInv'
  <1>1. /\ work # None /\ work \in Operations /\ count \in Nat /\ stale \in BOOLEAN
        /\ work.counted \in Nat \cup {None}
    BY Zenon DEF EndWork, Through, CutOff, LoseLeaf, NextLeaf, BridgeInv, BridgeTyped, Operations
  <1>2. /\ count # Cardinality(Known) => stale \/ work.counted # None
        /\ work.counted # None => /\ work.recount /\ work.at = None
                                  /\ work.counted # Cardinality(Known) => stale
    BY Zenon, <1>1 DEF BridgeInv, Accounted, Counting
  <1>3. CASE EndWork
    <2>1. /\ work' = None /\ UNCHANGED <<table, seen, lead, since, edits, stale>>
          /\ work.recount => work.counted # None
          /\ count' = IF work.recount THEN work.counted ELSE count
      BY Zenon, <1>3 DEF EndWork
    <2>2. count' \in Nat /\ (count' # Cardinality(Known) => stale')
      BY Zenon, <1>1, <1>2, <2>1
    <2> QED BY Zenon, <1>1, <2>1, <2>2, WorkDone
  <1>4. CASE CutOff
    <2>1. /\ work' = None /\ UNCHANGED <<table, count, seen, lead, since, edits>>
          /\ stale' = (stale \/ work.counted # None)
      BY Zenon, <1>4 DEF CutOff
    <2>2. stale' \in BOOLEAN /\ (count' # Cardinality(Known) => stale')
      BY Zenon, <1>1, <1>2, <2>1
    <2> QED BY Zenon, <1>1, <2>1, <2>2, WorkDone
  <1>5. CASE \E leaf : LoseLeaf(leaf)
    <2>1. /\ work' = None /\ work.at # None
          /\ UNCHANGED <<table, count, seen, lead, since, edits, stale>>
      BY Zenon, <1>5 DEF LoseLeaf, NextLeaf, tableVars
    <2>2. count' # Cardinality(Known) => stale'
      BY Zenon, <1>2, <2>1
    <2> QED BY Zenon, <1>1, <2>1, <2>2, WorkDone
  <1> QED BY Zenon, <1>3, <1>4, <1>5

\* The first half of syncCount: the number is right when it is read.
LEMMA CountStep ==
  ASSUME BridgeInv, syncCount
  PROVE  BridgeInv'
  <1>1. /\ work # None /\ work.at = None /\ DOMAIN work.todo = {} /\ work.recount
        /\ work' = [work EXCEPT !.counted = Cardinality(Known)]
        /\ stale' = FALSE /\ UNCHANGED <<table, count, seen, lead, since, edits>>
    BY Zenon DEF syncCount, Through
  <1>2. work \in Operations
    BY Zenon, <1>1 DEF BridgeInv, BridgeTyped
  <1>3. Known' = Known /\ Known \cup Coming = Known
    BY <1>1 DEF Known, Coming
  <1>4. Cardinality(Known) \in Nat
    <2>1. IsFiniteSet(Known)
      BY Zenon, <1>3 DEF BridgeInv, Accounted
    <2> QED BY Zenon, <2>1, FS_CardinalityType
  <1>5. /\ work' \in Operations /\ work'.op = work.op /\ work'.todo = work.todo
        /\ work'.at = None /\ work'.left = work.left /\ work'.recount
        /\ work'.counted = Cardinality(Known)
    BY Zenon, <1>1, <1>2, <1>4 DEF Operations
  <1>6. work' # None /\ work'.counted # None
    <2>1. Cardinality(Known) # None
      BY Zenon, <1>4, NoneAssumption
    <2> QED BY Zenon, <1>5, <2>1, NoneAssumption
  <1>7. (Known \cup Coming)' = Known \cup Coming
    BY <1>1, <1>3, <1>5 DEF Coming
  <1>8. BridgeTyped'
    BY Zenon, <1>1, <1>5 DEF BridgeInv, BridgeTyped
  <1>9. Accounted'
    BY Zenon, <1>1, <1>3, <1>5, <1>6, <1>7 DEF BridgeInv, Accounted, Counting
  <1>10. AgesRight' /\ StaticsSpared'
    BY Zenon, <1>1, <1>3, <1>5 DEF BridgeInv, AgesRight, Deserves, StaticsSpared
  <1> QED BY Zenon, <1>8, <1>9, <1>10 DEF BridgeInv

(***************************************************************************)
(* An operation takes up entry m or writes a leaf of it: the entry comes,  *)
(* goes, or changes, with an age that its history allows; the others stay. *)
(***************************************************************************)
LEMMA GoStep ==
  ASSUME BridgeInv, work # None, NEW m \in DOMAIN work.todo, work.at \in {None, m},
         NEW w, w = [work EXCEPT !.at = m], NEW left \in SUBSET LeafNames,
         work' = Onward(w, left),
         UNCHANGED <<since, edits>>, count' = count,
         stale' \in BOOLEAN, stale => stale', Known' # Known => stale',
         table' \in Tables, Known' \subseteq Known \cup Coming,
         \A x \in Known' \ {m} : x \in Known /\ table'[x] = table[x],
         seen' \in [Stations -> Nat], lead' \in [Stations -> Nat],
         \A x \in Stations \ {m} : seen'[x] = seen[x] /\ lead'[x] = lead[x],
         m \in Known' => \/ AgingTime * Second <= seen'[m]
                         \/ Age(table'[m]) * Second + since <= seen'[m] + lead'[m],
         work.op = "age" /\ work.todo[m] # Zero /\ left # {} =>
             left \subseteq {"age"} /\ seen'[m] = seen[m] /\ lead'[m] = lead[m],
         work.op \notin {"static", "delete"} => m \in work.edited \/ ~ Static(m)'
  PROVE  BridgeInv'
  <1>1. /\ work \in Operations /\ work.todo \in Tables /\ DOMAIN work.todo \subseteq Stations
        /\ m \in Stations
    BY Zenon, TableType DEF BridgeInv, BridgeTyped, Operations
  <1>2. /\ w \in Operations /\ w.at = m /\ w.op = work.op /\ w.todo = work.todo
        /\ w.edited = work.edited /\ w.counted = work.counted
    BY Zenon, <1>1 DEF Operations
  <1>3. /\ work' \in Operations
        /\ work'.op = work.op /\ work'.edited = work.edited /\ work'.counted = work.counted
        /\ left # {} => work'.at = m /\ work'.left = left
        /\ left = {} => work'.at = None /\ m \notin DOMAIN work'.todo
        /\ \A x \in DOMAIN work'.todo : x \in DOMAIN work.todo /\ work'.todo[x] = work.todo[x]
        /\ left # {} => work'.todo = work.todo
    <2>1. w.at \in DOMAIN w.todo
      BY Zenon, <1>2
    <2>2. GoesOn(w, left, work')
      BY Zenon, <1>2, <2>1, OnwardType
    <2>3. left = {} => m \notin DOMAIN work'.todo
      BY Zenon, <1>2, <2>2 DEF GoesOn
    <2> QED BY Zenon, <1>2, <2>2, <2>3 DEF GoesOn
  <1>4. work.counted = None
    BY Zenon DEF BridgeInv, Accounted, Counting
  <1>5. BridgeTyped'
    <2>1. work'.at # None => work'.at \in DOMAIN work'.todo
      BY Zenon, <1>3
    <2> QED BY Zenon, <1>3, <2>1 DEF BridgeInv, BridgeTyped
  <1>6. Accounted'
    <2> DEFINE bound == MaxEntries + edits
    <2>1. bound \in Nat /\ IsFiniteSet(Known \cup Coming) /\ Cardinality(Known \cup Coming) <= bound
      BY BridgeAssumption DEF BridgeInv, BridgeTyped, Accounted
    <2>2. Coming' \subseteq Coming
      BY Zenon, <1>3 DEF Coming
    <2> HIDE DEF bound
    <2>3. (Known \cup Coming)' \in SUBSET (Known \cup Coming)
      BY Zenon, <2>2
    <2>4. IsFiniteSet((Known \cup Coming)') /\ Cardinality((Known \cup Coming)') <= bound
      BY Zenon, <2>1, <2>3, ShrinksInBounds
    <2>5. count' # Cardinality(Known') => stale'
      BY Zenon, <1>4 DEF BridgeInv, Accounted
    <2>6. Counting'
      BY Zenon, <1>3, <1>4 DEF Counting
    <2> QED BY Zenon, <2>4, <2>5, <2>6 DEF Accounted, bound
  <1>7. AgesRight'
    <2>1. Known \subseteq Stations /\ Known' \subseteq Stations
      BY Zenon, TableType DEF BridgeInv, BridgeTyped, Known
    <2>2. ASSUME NEW x \in Known' PROVE Deserves(x, Age(table[x]))'
      <3>1. CASE x = m
        BY Zenon, <2>2, <3>1 DEF Deserves
      <3>2. CASE x # m
        BY Zenon, <2>1, <2>2, <3>2 DEF BridgeInv, AgesRight, Deserves
      <3> QED BY Zenon, <3>1, <3>2
    <2>3. ASSUME work'.op # "age", NEW x \in DOMAIN work'.todo PROVE Age(work'.todo[x]) = 0
      <3>1. work.op # "age" /\ x \in DOMAIN work.todo /\ work'.todo[x] = work.todo[x]
        BY Zenon, <1>3, <2>3
      <3>2. Age(work.todo[x]) = 0
        BY Zenon, <3>1 DEF BridgeInv, AgesRight
      <3> QED BY Zenon, <3>1, <3>2
    <2>4. ASSUME work'.op = "age"
          PROVE  /\ since' = 0
                 /\ \A x \in DOMAIN work'.todo :
                       IF work'.todo[x] = Zero
                       THEN work'.at # x => AgingTime * Second <= seen'[x] + lead'[x]
                       ELSE /\ Deserves(x, Age(work.todo[x]))'
                            /\ StoredLeaves(work'.todo[x]) \subseteq {"age"}
                            /\ work'.at = x => work'.left \subseteq {"age"}
      <3>1. work.op = "age" /\ since = 0
        BY Zenon, <1>3, <2>4 DEF BridgeInv, AgesRight
      <3> SUFFICES ASSUME NEW x \in DOMAIN work'.todo
                   PROVE  IF work'.todo[x] = Zero
                          THEN work'.at # x => AgingTime * Second <= seen'[x] + lead'[x]
                          ELSE /\ Deserves(x, Age(work.todo[x]))'
                               /\ StoredLeaves(work'.todo[x]) \subseteq {"age"}
                               /\ work'.at = x => work'.left \subseteq {"age"}
        BY Zenon, <3>1
      <3>2. /\ x \in DOMAIN work.todo /\ x \in Stations /\ work'.todo[x] = work.todo[x]
            /\ x = m => left # {}
        BY Zenon, <1>1, <1>3
      <3>3. /\ work.todo[x] # Zero => /\ Deserves(x, Age(work.todo[x]))
                                      /\ StoredLeaves(work.todo[x]) \subseteq {"age"}
            /\ work.todo[x] = Zero /\ work.at # x => AgingTime * Second <= seen[x] + lead[x]
        BY Zenon, <3>1, <3>2 DEF BridgeInv, AgesRight
      <3>4. CASE x = m
        BY Zenon, <1>3, <3>1, <3>2, <3>3, <3>4 DEF Deserves
      <3>5. CASE x # m
        <4>1. work.at # x /\ work'.at # x
          BY Zenon, <1>3, <3>2, <3>5, NoneAssumption
        <4>2. seen'[x] = seen[x] /\ lead'[x] = lead[x]
          BY Zenon, <3>2, <3>5
        <4> QED BY Zenon, <3>2, <3>3, <4>1, <4>2 DEF Deserves
      <3> QED BY Zenon, <3>4, <3>5
    <2> QED BY Zenon, <2>2, <2>3, <2>4 DEF AgesRight
  <1>8. StaticsSpared'
    <2>1. ASSUME work.op \notin {"static", "delete"}, NEW x \in DOMAIN work.todo
          PROVE  work.todo[x].type # "static" /\ (x \in work.edited \/ ~ Static(x)')
      <3>1. work.todo[x].type # "static" /\ (x \in work.edited \/ ~ Static(x))
        BY Zenon, <2>1 DEF BridgeInv, StaticsSpared
      <3>2. CASE x = m
        BY Zenon, <2>1, <3>1, <3>2
      <3>3. CASE x # m
        BY Zenon, <3>1, <3>3 DEF Static
      <3> QED BY Zenon, <3>2, <3>3
    <2>2. ASSUME work'.op \notin {"static", "delete"}, NEW x \in DOMAIN work'.todo
          PROVE  work'.todo[x].type # "static" /\ (x \in work'.edited \/ ~ Static(x)')
      <3>1. /\ work.op \notin {"static", "delete"} /\ x \in DOMAIN work.todo
            /\ work'.todo[x] = work.todo[x] /\ work'.edited = work.edited
        BY Zenon, <1>3, <2>2
      <3> QED BY Zenon, <2>1, <3>1
    <2> QED BY Zenon, <2>2 DEF StaticsSpared
  <1> QED BY Zenon, <1>5, <1>6, <1>7, <1>8 DEF BridgeInv

\* TakeEntry leaves the table alone.
LEMMA TakeStep ==
  ASSUME BridgeInv, NEW m, TakeEntry(m)
  PROVE  BridgeInv'
  <1> DEFINE listed == IF work.todo[m] = Zero THEN Found(m) ELSE work.todo[m]
  <1>1. /\ work # None /\ work.at = None /\ m \in DOMAIN work.todo
        /\ work' = Onward([work EXCEPT !.at = m], StoredLeaves(listed))
        /\ UNCHANGED <<table, count, seen, lead, stale, since, edits>>
    BY Zenon DEF TakeEntry, tableVars
  <1>2. /\ table \in Tables /\ work \in Operations /\ work.todo[m] \in Entry /\ stale \in BOOLEAN
        /\ seen \in [Stations -> Nat] /\ lead \in [Stations -> Nat]
    BY Zenon, <1>1, TableType DEF BridgeInv, BridgeTyped, Operations
  <1>3. listed \in Entry
    BY Zenon, <1>2, FoundType
  <1>4. work.op = "age" /\ work.todo[m] # Zero => StoredLeaves(listed) \subseteq {"age"}
    BY Zenon, <1>1 DEF BridgeInv, AgesRight
  <1> HIDE DEF listed
  <1>5. PICK w, left : w = [work EXCEPT !.at = m] /\ left = StoredLeaves(listed)
    BY Zenon
  <1>6. left \in SUBSET LeafNames /\ work' = Onward(w, left)
    BY Zenon, <1>1, <1>3, <1>5, StoredSteps
  <1>7. Known' = Known /\ (m \in Known' => Deserves(m, Age(table[m])))
    BY Zenon, <1>1 DEF BridgeInv, AgesRight, Known
  <1>8. work.op \notin {"static", "delete"} => m \in work.edited \/ ~ Static(m)'
    BY Zenon, <1>1, <1>7 DEF BridgeInv, StaticsSpared, Static
  <1> QED
    BY Zenon, <1>1, <1>2, <1>4, <1>5, <1>6, <1>7, <1>8, GoStep DEF Deserves

\* The history of an entry starts over, or goes on; that of the others goes on.
LEMMA AgeingStep ==
  ASSUME seen \in [Stations -> Nat], lead \in [Stations -> Nat], since \in Nat,
         NEW m \in Stations, NEW again, Ageing(m, again)
  PROVE  /\ seen' \in [Stations -> Nat] /\ lead' \in [Stations -> Nat]
         /\ \A x \in Stations \ {m} : seen'[x] = seen[x] /\ lead'[x] = lead[x]
         /\ m \in Known' /\ again => lead'[m] = since
         /\ m \in Known' /\ ~ again => seen'[m] = seen[m] /\ lead'[m] = lead[m]
  <1>1. CASE again \/ m \notin Known'
    <2> DEFINE new == IF m \in Known' THEN since ELSE 0
    <2>1. seen' = [seen EXCEPT ![m] = 0] /\ lead' = [lead EXCEPT ![m] = new]
      BY Zenon, <1>1 DEF Ageing, Known
    <2>2. new \in Nat
      OBVIOUS
    <2>3. m \in Known' => new = since
      BY Zenon
    <2> HIDE DEF new
    <2>4. /\ seen' \in [Stations -> Nat] /\ lead' \in [Stations -> Nat] /\ lead'[m] = new
          /\ \A x \in Stations \ {m} : seen'[x] = seen[x] /\ lead'[x] = lead[x]
      BY <2>1, <2>2
    <2> QED BY Zenon, <1>1, <2>3, <2>4
  <1>2. CASE ~ (again \/ m \notin Known')
    <2>1. seen' = seen /\ lead' = lead
      BY Zenon, <1>2 DEF Ageing, Known
    <2> QED BY Zenon, <1>2, <2>1
  <1> QED BY Zenon, <1>1, <1>2

\* An age of zero is what an entry has at the least.
LEMMA YoungDeserves ==
  ASSUME NEW a, a = 0, NEW s \in Nat, NEW l \in Nat, NEW t \in Nat, l = t \/ t = 0
  PROVE  a * Second + t <= s + l
  BY BridgeAssumption

\* WriteLeaf: the leaf of an entry that an operation stores or deletes.
LEMMA WriteStep ==
  ASSUME BridgeInv, NEW leaf, WriteLeaf(leaf)
  PROVE  BridgeInv'
  <1>1. PICK m, target, e : /\ m = work.at /\ target = work.todo[work.at]
                            /\ e = Patch(Found(work.at), work.todo[work.at], {leaf})
    BY Zenon
  <1>2. /\ work # None /\ work.at # None /\ leaf \in work.left /\ ~ Lost(leaf)
        /\ table' = Put(table, m, e)
        /\ work' = Onward(work, work.left \ {leaf})
        /\ stale' = (stale \/ Known' # Known)
        /\ Ageing(m, \/ m \notin Known /\ work.op # "age"
                     \/ leaf = "age" /\ target.age \in {0, None})
        /\ count' = count /\ UNCHANGED <<since, edits>>
    BY Zenon, <1>1 DEF WriteLeaf, NextLeaf, Leads, Known
  <1>3. /\ table \in Tables /\ work \in Operations /\ m \in DOMAIN work.todo
        /\ since \in Nat /\ stale \in BOOLEAN
        /\ seen \in [Stations -> Nat] /\ lead \in [Stations -> Nat]
    BY Zenon, <1>1, <1>2 DEF BridgeInv, BridgeTyped
  <1>4. m \in Stations /\ target \in Entry /\ work.left \subseteq LeafNames
    <2>1. work.todo \in Tables
      BY Zenon, <1>3 DEF Operations
    <2>2. work.left \subseteq LeafNames
      BY <1>3 DEF Operations
    <2> QED BY Zenon, <1>1, <1>3, <2>1, <2>2, TableType
  <1>5. /\ Found(m) \in Entry /\ e \in Entry
        /\ e.age = IF leaf = "age" THEN target.age ELSE Found(m).age
        /\ e.type = IF leaf = "type" THEN target.type ELSE Found(m).type
    <2>1. Found(m) \in Entry
      BY Zenon, <1>3, FoundType
    <2>2. e = Patch(Found(m), target, {leaf})
      BY Zenon, <1>1
    <2> QED BY <1>4, <2>1, <2>2, PatchEntry
  <1>6. /\ table' \in Tables /\ Known' \subseteq Known \cup {m}
        /\ m \in Known' => table'[m] = e
        /\ \A x \in Known \ {m} : x \in Known' /\ table'[x] = table[x]
    <2>1. /\ table' \in Tables
          /\ Known' = IF e = Zero THEN Known \ {m} ELSE Known \cup {m}
          /\ m \in Known' => e # Zero /\ table'[m] = e
          /\ \A x \in Known \ {m} : x \in Known' /\ table'[x] = table[x]
      BY Zenon, <1>2, <1>3, <1>4, <1>5, FoundPut
    <2> QED BY Zenon, <2>1
  <1>7. Known' \subseteq Known \cup Coming
    <2>1. CASE target = Zero
      <3>1. leaf \in StoredLeaves(Found(m))
        BY Zenon, <1>1, <1>2, <2>1 DEF Lost, Removes
      <3>2. Found(m) # Zero
        BY Zenon, <1>5, <3>1, StoredSteps
      <3>3. m \in Known
        BY Zenon, <3>2 DEF Found
      <3> QED BY Zenon, <1>6, <3>3
    <2>2. CASE target # Zero
      BY Zenon, <1>1, <1>2, <1>3, <1>6, <2>2 DEF Coming
    <2> QED BY Zenon, <2>1, <2>2
  <1> DEFINE again == \/ m \notin Known /\ work.op # "age"
                      \/ leaf = "age" /\ target.age \in {0, None}
  <1>8. /\ seen' \in [Stations -> Nat] /\ lead' \in [Stations -> Nat]
        /\ \A x \in Stations \ {m} : seen'[x] = seen[x] /\ lead'[x] = lead[x]
        /\ m \in Known' /\ again => lead'[m] = since
        /\ m \in Known' /\ ~ again => seen'[m] = seen[m] /\ lead'[m] = lead[m]
    BY Zenon, <1>2, <1>3, <1>4, AgeingStep
  <1>9. ASSUME m \in Known'
        PROVE  \/ AgingTime * Second <= seen'[m]
               \/ Age(table'[m]) * Second + since <= seen'[m] + lead'[m]
    <2>1. table'[m] = e /\ seen'[m] \in Nat /\ lead'[m] \in Nat
      BY <1>4, <1>6, <1>8, <1>9
    <2>2. work.op # "age" => Age(target) = 0
      BY Zenon, <1>1, <1>2, <1>3 DEF BridgeInv, AgesRight
    <2>3. work.op = "age" => since = 0
      BY Zenon, <1>2 DEF BridgeInv, AgesRight
    <2>4. m \notin Known => Age(Found(m)) = 0
      BY Zenon, ZeroType DEF Found, Age
    <2>5. Age(e) = IF leaf = "age" THEN Age(target) ELSE Age(Found(m))
      BY Zenon, <1>5 DEF Age
    <2>6. CASE again
      <3>1. lead'[m] = since /\ Age(e) = 0
        BY Zenon, <1>8, <1>9, <2>2, <2>4, <2>5, <2>6 DEF Age
      <3> QED BY Zenon, <1>3, <2>1, <3>1, YoungDeserves
    <2>7. CASE ~ again
      <3>1. seen'[m] = seen[m] /\ lead'[m] = lead[m]
        BY Zenon, <1>8, <1>9, <2>7
      <3>2. CASE leaf # "age" /\ m \in Known
        <4>1. Deserves(m, Age(Found(m)))
          BY Zenon, <3>2 DEF BridgeInv, AgesRight, Found
        <4> QED BY Zenon, <2>1, <2>5, <3>1, <3>2, <4>1 DEF Deserves
      <3>3. CASE leaf # "age" /\ m \notin Known
        <4>1. work.op = "age"
          BY Zenon, <2>7, <3>3
        <4>2. Age(e) = 0 /\ since = 0
          BY Zenon, <2>3, <2>4, <2>5, <3>3, <4>1
        <4> QED BY Zenon, <1>3, <2>1, <4>2, YoungDeserves
      <3>4. CASE leaf = "age"
        <4>1. target.age # 0 /\ target.age # None
          BY Zenon, <2>7, <3>4
        <4>2. Age(target) # 0 /\ target # Zero
          BY Zenon, <4>1, ZeroType DEF Age
        <4>3. work.op = "age"
          BY Zenon, <2>2, <4>2
        <4>4. Deserves(m, Age(target))
          BY Zenon, <1>1, <1>2, <1>3, <4>2, <4>3 DEF BridgeInv, AgesRight
        <4> QED BY Zenon, <2>1, <2>5, <3>1, <3>4, <4>4 DEF Deserves
      <3> QED BY Zenon, <3>2, <3>3, <3>4
    <2> QED BY Zenon, <2>6, <2>7
  <1>10. work.op = "age" /\ target # Zero => work.left \ {leaf} = {}
    <2> SUFFICES ASSUME work.op = "age", target # Zero PROVE work.left \ {leaf} = {}
      BY Zenon
    <2>1. work.left \subseteq {"age"}
      BY Zenon, <1>1, <1>2, <1>3 DEF BridgeInv, AgesRight
    <2> QED BY Zenon, <1>2, <2>1
  <1>11. work.op \notin {"static", "delete"} => m \in work.edited \/ ~ Static(m)'
    <2> SUFFICES ASSUME work.op \notin {"static", "delete"}, m \notin work.edited
                 PROVE  ~ Static(m)'
      BY Zenon
    <2>1. target.type # "static" /\ ~ Static(m)
      BY Zenon, <1>1, <1>2, <1>3 DEF BridgeInv, StaticsSpared
    <2>2. Found(m).type # "static"
      BY Zenon, <2>1, ZeroType DEF Found, Static
    <2> QED BY Zenon, <1>5, <1>6, <2>1, <2>2 DEF Static
  <1>12. PICK w, left : w = work /\ left = work.left \ {leaf}
    BY Zenon
  <1>13. w = [work EXCEPT !.at = m]
    BY <1>1, <1>3, <1>12 DEF Operations
  <1>14. left \in SUBSET LeafNames /\ work' = Onward(w, left)
    BY Zenon, <1>2, <1>4, <1>12
  <1>15. \A x \in Known' \ {m} : x \in Known /\ table'[x] = table[x]
    BY Zenon, <1>6
  <1>16. stale' \in BOOLEAN /\ (stale => stale') /\ (Known' # Known => stale')
    BY Zenon, <1>2, <1>3
  <1>17. work.op = "age" /\ work.todo[m] # Zero /\ left # {} =>
             left \subseteq {"age"} /\ seen'[m] = seen[m] /\ lead'[m] = lead[m]
    BY Zenon, <1>1, <1>10, <1>12
  <1>18. work.at \in {None, m}
    BY Zenon, <1>1
  <1>19. /\ work # None /\ m \in DOMAIN work.todo /\ work.at \in {None, m}
         /\ UNCHANGED <<since, edits>> /\ count' = count
    BY Zenon, <1>1, <1>2, <1>3, <1>18
  <1>20. /\ table' \in Tables /\ seen' \in [Stations -> Nat] /\ lead' \in [Stations -> Nat]
         /\ \A x \in Stations \ {m} : seen'[x] = seen[x] /\ lead'[x] = lead[x]
    BY Zenon, <1>6, <1>8
  <1>21. BridgeInv
    BY Zenon
  <1> HIDE DEF again
  <1> QED
    BY ONLY Zenon, <1>7, <1>9, <1>11, <1>13, <1>14, <1>15, <1>16, <1>17, <1>19, <1>20, <1>21,
       GoStep
-----------------------------------------------------------------------------
(***************************************************************************)
(* An edit that a plane writes to the table, whatever is under way: it     *)
(* changes one entry, and no age.                                          *)
(***************************************************************************)
LEMMA PlaneStep ==
  ASSUME BridgeInv, NEW m \in Stations, NEW old \in Entry, NEW new \in Entry, new.age = old.age,
         PlaneApplies(m, old, new)
  PROVE  BridgeInv'
  <1>1. PICK e : e = Patch(Found(m), new, Differ(old, new))
    BY Zenon
  <1>2. /\ edits' = edits + 1 /\ since' = since /\ count' = count
        /\ table' = Put(table, m, e)
        /\ work' = IF work = None THEN None ELSE [work EXCEPT !.edited = @ \cup {m}]
        /\ stale' = (stale \/ Known' # Known)
        /\ IF work # None /\ work.op = "age" /\ m \in DOMAIN work.todo THEN UNCHANGED <<seen, lead>>
           ELSE Ageing(m, m \notin Known)
    BY Zenon, <1>1 DEF PlaneApplies, Known
  <1>3. /\ table \in Tables /\ since \in Nat /\ stale \in BOOLEAN /\ edits \in Nat
        /\ seen \in [Stations -> Nat] /\ lead \in [Stations -> Nat]
    BY Zenon DEF BridgeInv, BridgeTyped
  <1>4. Found(m) \in Entry /\ e \in Entry /\ e.age = Found(m).age
    <2>1. Found(m) \in Entry
      BY Zenon, <1>3, FoundType
    <2>2. "age" \notin Differ(old, new)
      BY DifferLeaves
    <2>3. Patch(Found(m), new, Differ(old, new)) \in Entry
      BY Zenon, <2>1, PatchEntry
    <2>4. Patch(Found(m), new, Differ(old, new)).age = Found(m).age
      BY <2>1, <2>2, PatchEntry
    <2> QED BY Zenon, <1>1, <2>1, <2>3, <2>4
  <1>5. /\ table' \in Tables /\ Known' \subseteq Known \cup {m}
        /\ m \in Known' => table'[m] = e
        /\ \A x \in Known \ {m} : x \in Known' /\ table'[x] = table[x]
    <2>1. /\ table' \in Tables
          /\ Known' = IF e = Zero THEN Known \ {m} ELSE Known \cup {m}
          /\ m \in Known' => e # Zero /\ table'[m] = e
          /\ \A x \in Known \ {m} : x \in Known' /\ table'[x] = table[x]
      BY Zenon, <1>2, <1>3, <1>4, FoundPut
    <2> QED BY Zenon, <2>1
  <1>6. work = None => work' = None
    BY Zenon, <1>2
  <1>7. ASSUME work # None
        PROVE  /\ work' # None /\ work' \in Operations /\ work'.op = work.op
               /\ work'.todo = work.todo /\ work'.at = work.at /\ work'.left = work.left
               /\ work'.recount = work.recount /\ work'.counted = work.counted
               /\ work'.edited = work.edited \cup {m}
    <2>1. work \in Operations /\ work' = [work EXCEPT !.edited = @ \cup {m}]
      BY Zenon, <1>2, <1>7 DEF BridgeInv, BridgeTyped
    <2>2. work' \in Operations
      BY Zenon, <2>1 DEF Operations
    <2> QED BY Zenon, <2>1, <2>2, NoneAssumption DEF Operations
  <1>8. /\ seen' \in [Stations -> Nat] /\ lead' \in [Stations -> Nat]
        /\ \A x \in Stations \ {m} : seen'[x] = seen[x] /\ lead'[x] = lead[x]
        /\ m \in Known' /\ m \in Known => seen'[m] = seen[m] /\ lead'[m] = lead[m]
        /\ m \in Known' /\ m \notin Known => lead'[m] = since \/ since = 0
        /\ work # None /\ work.op = "age" /\ m \in DOMAIN work.todo =>
               seen'[m] = seen[m] /\ lead'[m] = lead[m]
    <2>1. CASE work # None /\ work.op = "age" /\ m \in DOMAIN work.todo
      <3>1. since = 0 /\ seen' = seen /\ lead' = lead
        BY Zenon, <1>2, <2>1 DEF BridgeInv, AgesRight
      <3> QED BY Zenon, <1>3, <3>1
    <2>2. CASE ~ (work # None /\ work.op = "age" /\ m \in DOMAIN work.todo)
      <3>1. Ageing(m, m \notin Known)
        BY Zenon, <1>2, <2>2
      <3>2. PICK again : again = (m \notin Known)
        BY Zenon
      <3>3. /\ seen' \in [Stations -> Nat] /\ lead' \in [Stations -> Nat]
            /\ \A x \in Stations \ {m} : seen'[x] = seen[x] /\ lead'[x] = lead[x]
            /\ m \in Known' /\ again => lead'[m] = since
            /\ m \in Known' /\ ~ again => seen'[m] = seen[m] /\ lead'[m] = lead[m]
        BY Zenon, <1>3, <3>1, <3>2, AgeingStep
      <3> QED BY Zenon, <2>2, <3>2, <3>3
    <2> QED BY Zenon, <2>1, <2>2
  <1>9. BridgeTyped'
    <2>1. edits' \in Nat
      BY <1>2, <1>3
    <2>2. stale' \in BOOLEAN
      BY Zenon, <1>2, <1>3
    <2>3. work' # None => work' \in Operations /\ (work'.at # None => work'.at \in DOMAIN work'.todo)
      BY Zenon, <1>6, <1>7 DEF BridgeInv, BridgeTyped
    <2> QED BY Zenon, <1>2, <1>5, <1>8, <2>1, <2>2, <2>3 DEF BridgeInv, BridgeTyped
  <1>10. Accounted'
    <2> DEFINE bound == MaxEntries + edits
    <2>1. bound \in Nat /\ IsFiniteSet(Known \cup Coming) /\ Cardinality(Known \cup Coming) <= bound
      BY BridgeAssumption DEF BridgeInv, BridgeTyped, Accounted
    <2>2. Coming' = Coming
      BY Zenon, <1>6, <1>7 DEF Coming
    <2>3. MaxEntries + edits' = bound + 1
      BY <1>2, <1>3, BridgeAssumption
    <2> HIDE DEF bound
    <2>4. (Known \cup Coming)' \in SUBSET ((Known \cup Coming) \cup {m})
      BY Zenon, <1>5, <2>2
    <2>5. IsFiniteSet((Known \cup Coming)') /\ Cardinality((Known \cup Coming)') <= bound + 1
      BY Zenon, <2>1, <2>4, GrowsByOne
    <2>6. count' # Cardinality(Known') => stale' \/ (work' # None /\ work'.counted # None)
      BY Zenon, <1>2, <1>7 DEF BridgeInv, Accounted
    <2>7. Counting'
      BY Zenon, <1>2, <1>6, <1>7 DEF BridgeInv, Accounted, Counting
    <2> QED BY Zenon, <2>3, <2>5, <2>6, <2>7 DEF Accounted
  <1>11. AgesRight'
    <2>1. Known \subseteq Stations /\ Known' \subseteq Stations
      BY Zenon, <1>3, <1>5, TableType DEF Known
    <2>2. ASSUME NEW x \in Known' PROVE Deserves(x, Age(table[x]))'
      <3>1. CASE x # m
        <4>1. x \in Known /\ table'[x] = table[x] /\ seen'[x] = seen[x] /\ lead'[x] = lead[x]
          BY Zenon, <1>5, <1>8, <2>1, <2>2, <3>1
        <4> QED BY Zenon, <1>2, <4>1 DEF BridgeInv, AgesRight, Deserves
      <3>2. CASE x = m /\ m \in Known
        <4>1. /\ seen'[x] = seen[x] /\ lead'[x] = lead[x] /\ Age(table'[x]) = Age(table[x])
          BY Zenon, <1>4, <1>5, <1>8, <2>2, <3>2 DEF Found, Age
        <4> QED BY Zenon, <1>2, <3>2, <4>1 DEF BridgeInv, AgesRight, Deserves
      <3>3. CASE x = m /\ m \notin Known
        <4>1. Age(table'[x]) = 0 /\ (lead'[x] = since \/ since = 0)
          BY Zenon, <1>4, <1>5, <1>8, <2>2, <3>3, ZeroType DEF Found, Age
        <4>2. seen'[x] \in Nat /\ lead'[x] \in Nat
          BY Zenon, <1>8, <2>1, <2>2
        <4>3. Age(table'[x]) * Second + since <= seen'[x] + lead'[x]
          BY Zenon, <1>3, <4>1, <4>2, YoungDeserves
        <4> QED BY Zenon, <1>2, <4>3 DEF Deserves
      <3> QED BY Zenon, <3>1, <3>2, <3>3
    <2>3. ASSUME work' # None PROVE work # None
      BY Zenon, <1>6, <2>3
    <2>4. ASSUME work' # None, work'.op # "age", NEW x \in DOMAIN work'.todo
          PROVE  Age(work'.todo[x]) = 0
      <3>1. work # None /\ work.op # "age" /\ work'.todo = work.todo
        BY Zenon, <1>7, <2>3, <2>4
      <3> QED BY Zenon, <2>4, <3>1 DEF BridgeInv, AgesRight
    <2>5. ASSUME work' # None, work'.op = "age"
          PROVE  /\ since' = 0
                 /\ \A x \in DOMAIN work'.todo :
                       IF work'.todo[x] = Zero
                       THEN work'.at # x => AgingTime * Second <= seen'[x] + lead'[x]
                       ELSE /\ Deserves(x, Age(work.todo[x]))'
                            /\ StoredLeaves(work'.todo[x]) \subseteq {"age"}
                            /\ work'.at = x => work'.left \subseteq {"age"}
      <3>1. /\ work # None /\ work.op = "age" /\ work'.todo = work.todo /\ work'.at = work.at
            /\ work'.left = work.left
        BY Zenon, <1>7, <2>3, <2>5
      <3>2. \A x \in DOMAIN work.todo : x \in Stations
        BY Zenon, <3>1, TableType DEF BridgeInv, BridgeTyped, Operations
      <3>3. \A x \in DOMAIN work.todo : seen'[x] = seen[x] /\ lead'[x] = lead[x]
        BY Zenon, <1>8, <3>1, <3>2
      <3> QED BY Zenon, <1>2, <3>1, <3>3 DEF BridgeInv, AgesRight, Deserves
    <2> QED BY Zenon, <2>2, <2>4, <2>5 DEF AgesRight
  <1>12. StaticsSpared'
    <2>1. ASSUME work' # None, work'.op \notin {"static", "delete"}, NEW x \in DOMAIN work'.todo
          PROVE  work'.todo[x].type # "static" /\ (x \in work'.edited \/ ~ Static(x)')
      <3>1. /\ work # None /\ work.op \notin {"static", "delete"} /\ work'.todo = work.todo
            /\ work'.edited = work.edited \cup {m}
        BY Zenon, <1>6, <1>7, <2>1
      <3>2. work.todo[x].type # "static" /\ (x \in work.edited \/ ~ Static(x))
        BY Zenon, <2>1, <3>1 DEF BridgeInv, StaticsSpared
      <3>3. x # m => (Static(x)' => Static(x))
        BY Zenon, <1>5 DEF Static
      <3> QED BY Zenon, <3>1, <3>2, <3>3
    <2> QED BY Zenon, <2>1 DEF StaticsSpared
  <1> QED BY Zenon, <1>9, <1>10, <1>11, <1>12 DEF BridgeInv

\* age, up to the snapshot: what the sweep will do to an entry, its history allows.
LEMMA AgeStep ==
  ASSUME BridgeInv, age
  PROVE  BridgeInv'
  <1>1. /\ work = None /\ since' = 0 /\ work' = Sweep(since \div Second)
        /\ UNCHANGED <<table, count, stale, seen, lead, edits>>
        /\ Known' = Known
    BY Zenon DEF age, tableVars, Known
  <1>2. /\ table \in Tables /\ since \in Nat
        /\ seen \in [Stations -> Nat] /\ lead \in [Stations -> Nat]
        /\ Known \subseteq Stations /\ \A m \in Known : table[m] \in Entry
    BY Zenon, TableType DEF BridgeInv, BridgeTyped, Known
  <1>3. Second \in Nat \ {0} /\ AgingTime \in Nat
    BY BridgeAssumption
  <1>4. PICK elapsed : elapsed = since \div Second
    BY Zenon
  <1>5. elapsed \in Nat
    BY Zenon, <1>2, <1>3, <1>4, WholeSeconds
  <1>6. ASSUME NEW m \in Known
        PROVE  /\ Age(table[m]) \in Nat /\ seen[m] \in Nat /\ lead[m] \in Nat
               /\ Older(m, elapsed) = Age(table[m]) + elapsed
               /\ Older(m, elapsed) \in Nat
               /\ Age(table[m]) * Second \in Nat /\ Older(m, elapsed) * Second \in Nat
               /\ Older(m, elapsed) * Second <= Age(table[m]) * Second + since
    <2>1. Age(table[m]) \in Nat
      BY Zenon, <1>2, AgeNat
    <2>2. Older(m, elapsed) = Age(table[m]) + elapsed
      BY Zenon DEF Older, Age
    <2>3. (Age(table[m]) + elapsed) * Second <= Age(table[m]) * Second + since
      BY Zenon, <1>2, <1>3, <1>4, <2>1, WholeSeconds
    <2>4. seen[m] \in Nat /\ lead[m] \in Nat
      BY Zenon, <1>2
    <2>5. /\ Age(table[m]) + elapsed \in Nat /\ Age(table[m]) * Second \in Nat
          /\ (Age(table[m]) + elapsed) * Second \in Nat
      BY <1>3, <1>5, <2>1
    <2> QED BY Zenon, <2>1, <2>2, <2>3, <2>4, <2>5
  <1>7. ASSUME NEW m \in Known
        PROVE  \/ AgingTime * Second <= seen[m]
               \/ /\ Age(table[m]) * Second <= seen[m] + lead[m]
                  /\ Older(m, elapsed) * Second <= seen[m] + lead[m]
    <2>1. AgingTime * Second <= seen[m] \/ Age(table[m]) * Second + since <= seen[m] + lead[m]
      BY Zenon DEF BridgeInv, AgesRight, Deserves
    <2>2. /\ Age(table[m]) * Second \in Nat /\ Older(m, elapsed) * Second \in Nat
          /\ seen[m] \in Nat /\ lead[m] \in Nat
          /\ Older(m, elapsed) * Second <= Age(table[m]) * Second + since
      BY Zenon, <1>6
    <2> QED BY <1>2, <2>1, <2>2
  <1>8. ASSUME NEW m \in Known
        PROVE  /\ Aged(m, elapsed) \in Entry /\ Aged(m, elapsed).type # "static"
               /\ Aged(m, elapsed) = Zero => AgingTime * Second <= seen[m] + lead[m]
               /\ Aged(m, elapsed) # Zero =>
                      /\ Age(Aged(m, elapsed)) = Older(m, elapsed)
                      /\ StoredLeaves(Aged(m, elapsed)) \subseteq {"age"}
    <2>1. /\ Older(m, elapsed) \in Nat /\ Older(m, elapsed) # None
          /\ seen[m] \in Nat /\ lead[m] \in Nat
      BY Zenon, <1>6, NoneAssumption
    <2>2. CASE Older(m, elapsed) >= AgingTime
      <3>1. Aged(m, elapsed) = Zero
        BY Zenon, <2>2 DEF Aged
      <3>2. AgingTime * Second <= Older(m, elapsed) * Second
        BY <1>3, <2>1, <2>2
      <3>3. AgingTime * Second \in Nat /\ Older(m, elapsed) * Second \in Nat
        BY <1>3, <2>1
      <3>4. AgingTime * Second <= seen[m] + lead[m]
        BY <1>7, <2>1, <3>2, <3>3
      <3> QED BY Zenon, <3>1, <3>4, ZeroType
    <2>3. CASE ~ (Older(m, elapsed) >= AgingTime)
      <3>1. PICK a : a = Older(m, elapsed)
        BY Zenon
      <3>2. Aged(m, elapsed) = [Zero EXCEPT !.age = a] /\ a \in Nat /\ a # None
        BY Zenon, <2>1, <2>3, <3>1 DEF Aged
      <3>3. [Zero EXCEPT !.age = a] \in Entry /\ [Zero EXCEPT !.age = a].age = a
            /\ [Zero EXCEPT !.age = a].type = "unset"
        BY Zenon, <3>2 DEF Entry, Zero
      <3>4. [Zero EXCEPT !.age = a] # Zero
        BY Zenon, <3>2, <3>3, ZeroType
      <3>5. StoredLeaves([Zero EXCEPT !.age = a]) \subseteq {"age"}
        <4>1. /\ [Zero EXCEPT !.age = a].vlan = Zero.vlan /\ [Zero EXCEPT !.age = a].port = Zero.port
              /\ [Zero EXCEPT !.age = a].type = Zero.type
              /\ [Zero EXCEPT !.age = a].permanent = Zero.permanent
          BY Zenon DEF Zero
        <4> QED BY Zenon, <4>1, DifferLeaves DEF StoredLeaves
      <3> QED BY Zenon, <3>1, <3>2, <3>3, <3>4, <3>5 DEF Age
    <2> QED BY Zenon, <2>2, <2>3
  <1>9. \A m \in Known : Deserves(m, Age(table[m]))'
    <2> SUFFICES ASSUME NEW m \in Known, ~ (AgingTime * Second <= seen[m])
                 PROVE  Age(table[m]) * Second + 0 <= seen[m] + lead[m]
      BY Zenon, <1>1 DEF Deserves
    <2>1. Age(table[m]) * Second <= seen[m] + lead[m] /\ Age(table[m]) * Second \in Nat
      BY Zenon, <1>6, <1>7
    <2> QED BY <2>1
  <1>10. PICK dynamic : dynamic = {m \in Known : table[m].type = "dynamic"}
    BY Zenon
  <1>11. CASE work' = None
    <2>1. Coming' = {} /\ Coming = {}
      BY Zenon, <1>1, <1>11 DEF Coming
    <2>2. (Known \cup Coming)' = Known \cup Coming
      BY Zenon, <1>1, <2>1
    <2>3. BridgeTyped' /\ StaticsSpared'
      BY <1>1, <1>11 DEF BridgeInv, BridgeTyped, StaticsSpared
    <2>4. Accounted'
      BY Zenon, <1>1, <1>11, <2>2 DEF BridgeInv, Accounted, Counting
    <2>5. AgesRight'
      BY Zenon, <1>1, <1>9, <1>11 DEF AgesRight
    <2> QED BY Zenon, <2>3, <2>4, <2>5 DEF BridgeInv
  <1>12. CASE work' # None
    <2>1. PICK todo : todo = [m \in dynamic |-> Aged(m, elapsed)]
      BY Zenon
    <2>2. work' = Work("age", todo, FALSE)
      BY Zenon, <1>1, <1>4, <1>10, <1>12, <2>1 DEF Sweep
    <2>3. /\ todo \in Tables /\ DOMAIN todo = dynamic
          /\ \A m \in dynamic : m \in Known /\ todo[m] = Aged(m, elapsed) /\ ~ Static(m)
      <3>1. DOMAIN todo = dynamic /\ \A m \in dynamic : m \in Known /\ todo[m] = Aged(m, elapsed)
        BY Zenon, <1>10, <2>1
      <3>2. dynamic \subseteq Stations /\ \A m \in dynamic : todo[m] \in Entry
        BY Zenon, <1>2, <1>8, <3>1
      <3>3. todo \in Tables
        BY Zenon, <2>1, <3>1, <3>2, TableType
      <3> QED BY Zenon, <1>10, <3>1, <3>3 DEF Static
    <2>4. /\ work' \in Operations /\ work'.op = "age" /\ work'.todo = todo
          /\ work'.at = None /\ work'.counted = None
      BY Zenon, <2>2, <2>3, WorkType
    <2>5. (Known \cup Coming)' = Known \cup Coming
      <3>1. Coming = {} /\ Coming' \subseteq Known
        BY Zenon, <1>1, <2>3, <2>4 DEF Coming
      <3> QED BY Zenon, <1>1, <3>1
    <2>6. BridgeTyped'
      BY <1>1, <2>4 DEF BridgeInv, BridgeTyped
    <2>7. Accounted'
      BY Zenon, <1>1, <2>4, <2>5 DEF BridgeInv, Accounted, Counting
    <2>8. AgesRight'
      <3>1. ASSUME NEW m \in dynamic
            PROVE  IF todo[m] = Zero THEN AgingTime * Second <= seen'[m] + lead'[m]
                   ELSE /\ Deserves(m, Age(todo[m]))'
                        /\ StoredLeaves(todo[m]) \subseteq {"age"}
        <4>1. m \in Known /\ todo[m] = Aged(m, elapsed) /\ seen' = seen /\ lead' = lead
          BY Zenon, <1>1, <2>3
        <4>2. CASE todo[m] = Zero
          BY Zenon, <1>8, <4>1, <4>2
        <4>3. CASE todo[m] # Zero
          <5>1. Age(todo[m]) = Older(m, elapsed) /\ StoredLeaves(todo[m]) \subseteq {"age"}
            BY Zenon, <1>8, <4>1, <4>3
          <5>2. Older(m, elapsed) * Second \in Nat
            BY Zenon, <1>6, <4>1
          <5>3. AgingTime * Second <= seen[m] \/ Older(m, elapsed) * Second + 0 <= seen[m] + lead[m]
            <6>1. AgingTime * Second <= seen[m] \/ Older(m, elapsed) * Second <= seen[m] + lead[m]
              BY Zenon, <1>7, <4>1
            <6> QED BY <5>2, <6>1
          <5> QED BY Zenon, <1>1, <4>1, <4>3, <5>1, <5>3 DEF Deserves
        <4> QED BY Zenon, <4>2, <4>3
      <3>2. \A m \in dynamic : work'.at # m
        BY Zenon, <1>2, <2>3, <2>4, NoneAssumption
      <3> QED BY Zenon, <1>1, <1>9, <2>3, <2>4, <3>1, <3>2 DEF AgesRight
    <2>9. StaticsSpared'
      BY Zenon, <1>1, <1>8, <2>3, <2>4 DEF StaticsSpared, Static
    <2> QED BY Zenon, <2>6, <2>7, <2>8, <2>9 DEF BridgeInv
  <1> QED BY Zenon, <1>11, <1>12

\* Time passes for the last sweep and for the entries alike.
LEMMA ElapseStep ==
  ASSUME BridgeInv, Elapse
  PROVE  BridgeInv'
  <1>1. /\ work = None /\ work' = None /\ Coming = {} /\ Coming' = {} /\ Known' = Known
        /\ since' = since + 1
        /\ UNCHANGED <<table, count, lead, stale, edits>>
        /\ seen' = [m \in Stations |-> IF m \in Known /\ seen[m] < AgingTime * Second
                                       THEN seen[m] + 1 ELSE seen[m]]
    BY DEF Elapse, Coming, Known
  <1>2. /\ since \in Nat /\ seen \in [Stations -> Nat] /\ lead \in [Stations -> Nat]
        /\ table \in Tables /\ Known \subseteq Stations /\ AgingTime * Second \in Nat
    BY TableType, BridgeAssumption DEF BridgeInv, BridgeTyped, Known
  <1>3. seen' \in [Stations -> Nat] /\ since' \in Nat
    BY <1>1, <1>2
  <1>4. BridgeTyped' /\ StaticsSpared'
    BY Zenon, <1>1, <1>2, <1>3 DEF BridgeInv, BridgeTyped, StaticsSpared
  <1>5. Accounted'
    BY Zenon, <1>1 DEF BridgeInv, Accounted, Counting
  <1>6. \A m \in Known : Deserves(m, Age(table[m]))'
    <2> SUFFICES ASSUME NEW m \in Known
                 PROVE  \/ AgingTime * Second <= seen'[m]
                        \/ Age(table[m]) * Second + (since + 1) <= seen'[m] + lead[m]
      BY Zenon, <1>1 DEF Deserves
    <2>1. AgingTime * Second <= seen[m] \/ Age(table[m]) * Second + since <= seen[m] + lead[m]
      BY Zenon DEF BridgeInv, AgesRight, Deserves
    <2>2. m \in Stations /\ seen[m] \in Nat /\ lead[m] \in Nat
      BY Zenon, <1>2
    <2>3. seen'[m] = IF seen[m] < AgingTime * Second THEN seen[m] + 1 ELSE seen[m]
      BY Zenon, <1>1, <1>2, <2>2
    <2>4. Age(table[m]) * Second \in Nat
      BY <1>2, TableType, AgeNat, BridgeAssumption DEF Known
    <2> QED BY <1>2, <2>1, <2>2, <2>3, <2>4
  <1>7. AgesRight'
    BY Zenon, <1>1, <1>6 DEF AgesRight
  <1> QED BY Zenon, <1>4, <1>5, <1>7 DEF BridgeInv

\* Where the bridge is left alone its table is empty, and only the next tick
\* notices the time.
LEMMA IdleStep ==
  ASSUME BridgeInv, Known = {}, work = None, since' = TickInterval,
         UNCHANGED <<tableVars, work, edits>>
  PROVE  BridgeInv'
  <1>1. UNCHANGED <<table, count, seen, lead, stale, work, edits>>
    BY DEF tableVars
  <1>2. Known' = Known /\ Coming' = Coming /\ since' \in Nat
    BY <1>1, BridgeAssumption DEF Known, Coming
  <1>3. BridgeTyped' /\ StaticsSpared'
    BY Zenon, <1>1, <1>2 DEF BridgeInv, BridgeTyped, StaticsSpared
  <1>4. Accounted'
    BY Zenon, <1>1, <1>2 DEF BridgeInv, Accounted, Counting
  <1>5. AgesRight'
    BY Zenon, <1>1, <1>2 DEF AgesRight
  <1> QED BY Zenon, <1>3, <1>4, <1>5 DEF BridgeInv

\* An entry that a startup file or a plane brings has no age.
LEMMA RestoredType == \A m : /\ Restored(m) \in Entry /\ Restored(m).age = None
                             /\ Restored(m) # Zero
  <1>1. (CHOOSE p \in Ports : TRUE) \in Ports
    BY BridgeAssumption DEF Ports
  <1>2. \A m : /\ Restored(m) \in Entry /\ Restored(m).age = None /\ Restored(m).type = "dynamic"
    BY Zenon, <1>1 DEF Restored, Zero, Entry
  <1>3. "dynamic" # "unset"
    OBVIOUS
  <1> QED BY Zenon, <1>2, <1>3, ZeroType

\* The first table holds one entry of age zero at most.
LEMMA BridgeStarts == Init => BridgeInv
  <1> SUFFICES ASSUME Init PROVE BridgeInv
    OBVIOUS
  <1>1. Init
    OBVIOUS
  <1>2. PICK ms \in SUBSET {CHOOSE m \in Stations : TRUE} : table = [m \in ms |-> Restored(m)]
    BY <1>1 DEF Init
  <1>3. ms \subseteq Stations /\ Known = ms
    BY <1>2, BridgeAssumption DEF Known
  <1>4. table \in Tables
    BY <1>2, <1>3, RestoredType DEF Tables
  <1>5. IsFiniteSet(Known) /\ Cardinality(Known) \in Nat /\ Cardinality(Known) <= 1
    <2>1. IsFiniteSet({CHOOSE m \in Stations : TRUE}) /\ Cardinality({CHOOSE m \in Stations : TRUE}) = 1
      BY Zenon, FS_Singleton
    <2> QED BY <1>3, <2>1, FS_Subset, FS_CardinalityType
  <1>6. /\ count = Cardinality(Known) /\ since = 0 /\ work = None /\ edits = 0
        /\ seen = [m \in Stations |-> 0] /\ lead = [m \in Stations |-> 0] /\ stale \in BOOLEAN
        /\ Coming = {} /\ Known \cup Coming = Known
    BY Zenon, <1>1 DEF Init, Coming
  <1>7. BridgeTyped
    BY Zenon, <1>4, <1>5, <1>6 DEF BridgeTyped
  <1>8. Cardinality(Known) <= MaxEntries + edits
    BY <1>5, <1>6, BridgeAssumption
  <1>9. Accounted
    BY Zenon, <1>5, <1>6, <1>8 DEF Accounted, Counting
  <1>10. \A m \in Known : Age(table[m]) = 0 /\ seen[m] = 0 /\ lead[m] = 0
    BY Zenon, <1>2, <1>3, <1>6, RestoredType DEF Age
  <1>11. \A m \in Known : Deserves(m, Age(table[m]))
    BY <1>6, <1>10, BridgeAssumption DEF Deserves
  <1>12. AgesRight /\ StaticsSpared
    BY Zenon, <1>6, <1>11 DEF AgesRight, StaticsSpared
  <1> QED BY Zenon, <1>7, <1>9, <1>12 DEF BridgeInv

\* A table of one entry.
LEMMA OnlyTable ==
  ASSUME NEW m \in Stations, NEW e \in Entry
  PROVE  Only(m, e) \in Tables /\ DOMAIN Only(m, e) = {m} /\ Only(m, e)[m] = e
  BY TableType DEF Only

\* What learn writes.
LEMMA LearnedType ==
  ASSUME NEW m, NEW v \in Vlans, NEW p \in Ports
  PROVE  /\ Learned(m, v, p) \in Entry /\ Learned(m, v, p).age = 0
         /\ Learned(m, v, p).type = "dynamic" /\ Learned(m, v, p).port = p
         /\ Learned(m, v, p).permanent = IF Found(m).permanent = "yes" THEN "yes" ELSE "no"
  <1> DEFINE permanent == IF Found(m).permanent = "yes" THEN "yes" ELSE "no"
  <1>1. permanent \in {"yes", "no", "unset"}
    BY Zenon
  <1>2. Learned(m, v, p) = [vlan |-> v, port |-> p, type |-> "dynamic", permanent |-> permanent, age |-> 0]
    BY Zenon DEF Learned
  <1> HIDE DEF permanent
  <1>3. /\ Learned(m, v, p) \in Entry /\ Learned(m, v, p).age = 0
        /\ Learned(m, v, p).type = "dynamic" /\ Learned(m, v, p).port = p
        /\ Learned(m, v, p).permanent = permanent
    BY <1>1, <1>2 DEF Entry
  <1> QED BY Zenon, <1>3 DEF permanent

\* What SetStatic writes.
StaticEntry(v, p) == [vlan |-> v, port |-> p, type |-> "static", permanent |-> "yes", age |-> 0]

LEMMA StaticType ==
  ASSUME NEW v \in Vlans, NEW p \in Ports
  PROVE  /\ StaticEntry(v, p) \in Entry /\ StaticEntry(v, p).age = 0
         /\ StaticEntry(v, p).type = "static" /\ StaticEntry(v, p).port = p
         /\ StaticEntry(v, p).permanent = "yes"
  BY DEF StaticEntry, Entry

(***************************************************************************)
(* The requests, as the operation each of them starts.                     *)
(***************************************************************************)
Starts ==
    \/ UNCHANGED <<tableVars, since, work, edits>>
    \/ \E op \in {"learn", "static", "delete", "flush"}, todo \in Tables, recount \in BOOLEAN :
           /\ work = None /\ UNCHANGED <<tableVars, since, edits>>
           /\ work' = Work(op, todo, recount)
           /\ \/ op \in {"learn", "static"} /\ \E m \in Stations, e \in Entry :
                     /\ todo = Only(m, e) /\ ~ Full(m)
                     /\ \E v \in Vlans, p \in Ports :
                            \/ op = "learn" /\ e = Learned(m, v, p) /\ ~ Static(m)
                            \/ op = "static" /\ e = StaticEntry(v, p)
              \/ op \in {"delete", "flush"} /\ \A m \in DOMAIN todo :
                     /\ m \in Known /\ todo[m] = Zero
                     /\ op = "flush" => ~ Static(m)

\* Every request starts an operation or leaves the table alone.
LEMMA RequestsStart ==
  ASSUME Requests, table \in Tables
  PROVE  Starts /\ UNCHANGED <<since, edits>> /\ work = None
  <1>1. ASSUME NEW kind, Request(kind) PROVE work = None /\ UNCHANGED <<since, edits>>
    BY Zenon, <1>1 DEF Request
  <1>2. ASSUME NEW m \in Stations, NEW v \in Vlans, NEW p \in Ports, MayLearn(m), learn(m, v, p),
               UNCHANGED tableVars, Request("mac")
        PROVE  Starts
    <2>1. work' = Work("learn", Only(m, Learned(m, v, p)), TRUE) /\ ~ Full(m) /\ ~ Static(m)
      BY Zenon, <1>2 DEF learn, MayLearn
    <2>2. Learned(m, v, p) \in Entry /\ Only(m, Learned(m, v, p)) \in Tables
      BY Zenon, LearnedType, OnlyTable
    <2> QED BY Zenon, <1>1, <1>2, <2>1, <2>2 DEF Starts
  <1>3. ASSUME NEW m \in Stations, NEW v \in Vlans, NEW p \in Ports, Learn(m, v, p)
        PROVE  Starts /\ Request("mac")
    BY Zenon, <1>2, <1>3 DEF Learn
  <1>4. ASSUME NEW m \in Stations, NEW v \in Vlans, NEW p \in Ports, Transmit(m, v, p)
        PROVE  Starts /\ Request("mac")
    <2>1. learn(m, v, p) /\ UNCHANGED tableVars /\ Request("mac")
      BY Zenon, <1>4 DEF Transmit
    <2>2. CASE MayLearn(m)
      BY Zenon, <1>2, <2>1, <2>2
    <2>3. CASE ~ MayLearn(m)
      BY Zenon, <1>1, <2>1, <2>3 DEF learn, Starts
    <2> QED BY Zenon, <2>1, <2>2, <2>3
  <1>5. ASSUME NEW m \in Stations, NEW v \in Vlans, NEW p \in Ports, SetStatic(m, v, p)
        PROVE  Starts /\ Request("mac")
    <2>1. /\ Request("mac") /\ ~ Full(m) /\ UNCHANGED tableVars
          /\ work' = Work("static", Only(m, StaticEntry(v, p)), TRUE)
      BY Zenon, <1>5 DEF SetStatic, StaticEntry
    <2>2. StaticEntry(v, p) \in Entry /\ Only(m, StaticEntry(v, p)) \in Tables
      BY Zenon, StaticType, OnlyTable
    <2> QED BY Zenon, <1>1, <2>1, <2>2 DEF Starts
  <1>6. ASSUME NEW m \in Stations, DeleteMAC(m) PROVE Starts /\ Request("mac")
    <2>1. /\ Request("mac") /\ m \in Known /\ UNCHANGED tableVars
          /\ work' = Work("delete", Only(m, Zero), TRUE)
      BY Zenon, <1>6 DEF DeleteMAC
    <2>2. Only(m, Zero) \in Tables /\ DOMAIN Only(m, Zero) = {m} /\ Only(m, Zero)[m] = Zero
      BY Zenon, ZeroType, OnlyTable
    <2>3. PICK todo : todo = Only(m, Zero)
      BY Zenon
    <2>4. todo \in Tables /\ \A x \in DOMAIN todo : x \in Known /\ todo[x] = Zero
      BY Zenon, <2>1, <2>2, <2>3
    <2>5. "delete" # "flush"
      OBVIOUS
    <2> QED BY Zenon, <1>1, <2>1, <2>3, <2>4, <2>5 DEF Starts
  <1>7. ASSUME NEW v, FlushMAC(v) PROVE Starts /\ Request("mac")
    <2>1. PICK out : out = {m \in Known : table[m].type = "dynamic" /\ v \in {0, table[m].vlan}}
      BY Zenon
    <2>2. PICK todo : todo = [m \in out |-> Zero]
      BY Zenon
    <2>3. Request("mac") /\ work' = Work("flush", todo, FALSE) /\ UNCHANGED tableVars
      BY Zenon, <1>7, <2>1, <2>2 DEF FlushMAC
    <2>4. DOMAIN todo = out /\ \A m \in out : todo[m] = Zero /\ m \in Known /\ ~ Static(m)
      BY Zenon, <2>1, <2>2 DEF Static
    <2>5. DOMAIN todo \subseteq Stations
      BY Zenon, <2>4, TableType DEF Known
    <2>6. todo \in Tables
      BY Zenon, <2>2, <2>4, <2>5, ZeroType, TableType
    <2> QED BY Zenon, <1>1, <2>3, <2>4, <2>6 DEF Starts
  <1>8. ASSUME NEW v, NEW ms, VlanRequest(v, ms) PROVE Starts /\ Request("vlan")
    BY Zenon, <1>1, <1>8 DEF VlanRequest, Starts
  <1>9. ASSUME NEW v, DeleteVLAN(v) PROVE Starts /\ Request("vlan")
    BY Zenon, <1>1, <1>8, <1>9 DEF DeleteVLAN, Starts
  <1>10. ASSUME NEW p, NEW n, Storm(p, n) PROVE Starts /\ Request("storm")
    BY Zenon, <1>1, <1>10 DEF Storm, Starts
  <1>11. \E kind : Starts /\ Request(kind)
    BY Zenon, <1>3, <1>4, <1>5, <1>6, <1>7, <1>8, <1>9, <1>10
       DEF Requests, CreateVLAN, ReplaceVLAN, SetMember, RemoveMember
  <1> QED BY Zenon, <1>1, <1>11

\* Every request keeps the invariant.
LEMMA RequestsKeep ==
  ASSUME BridgeInv, Requests
  PROVE  BridgeInv'
  <1>1. table \in Tables
    BY Zenon DEF BridgeInv, BridgeTyped
  <1>2. Starts
    BY Zenon, <1>1, RequestsStart
  <1>3. CASE UNCHANGED <<tableVars, since, work, edits>>
    BY Zenon, <1>3, SameStep
  <1>4. ASSUME NEW op \in {"learn", "static", "delete", "flush"}, NEW todo \in Tables,
               NEW recount \in BOOLEAN, work = None, UNCHANGED <<tableVars, since, edits>>,
               work' = Work(op, todo, recount),
               NEW m \in Stations, NEW e \in Entry, todo = Only(m, e), ~ Full(m),
               NEW v \in Vlans, NEW p \in Ports,
               \/ op = "learn" /\ e = Learned(m, v, p) /\ ~ Static(m)
               \/ op = "static" /\ e = StaticEntry(v, p)
        PROVE  BridgeInv'
    <2>1. DOMAIN todo = {m} /\ todo[m] = e
      BY Zenon, <1>4, OnlyTable
    <2>2. e.age = 0 /\ (op = "learn" => e.type = "dynamic" /\ ~ Static(m))
      <3>1. "static" # "learn"
        OBVIOUS
      <3>2. CASE op = "learn" /\ e = Learned(m, v, p) /\ ~ Static(m)
        BY Zenon, <3>2, LearnedType
      <3>3. CASE op = "static" /\ e = StaticEntry(v, p)
        BY Zenon, <3>1, <3>3, StaticType
      <3> QED BY Zenon, <1>4, <3>2, <3>3
    <2>3. \A x \in DOMAIN todo : Age(todo[x]) = 0
      BY Zenon, <2>1, <2>2 DEF Age
    <2>4. m \in Known \/ Cardinality(Known) < MaxEntries
      <3>1. IsFiniteSet(Known)
        <4>1. Known \cup Coming = Known
          BY Zenon, <1>4 DEF Coming
        <4> QED BY Zenon, <4>1 DEF BridgeInv, Accounted
      <3>2. Cardinality(Known) \in Nat /\ MaxEntries \in Nat
        BY <3>1, FS_CardinalityType, BridgeAssumption
      <3> QED BY <1>4, <3>2 DEF Full
    <2>5. {x \in DOMAIN todo : todo[x] # Zero} \subseteq Known \cup {m}
      BY Zenon, <2>1
    <2>6. op \in {"learn", "flush"} => \A x \in DOMAIN todo : todo[x].type # "static" /\ ~ Static(x)
      <3>1. op # "flush" /\ "dynamic" # "static"
        BY <1>4
      <3> QED BY Zenon, <2>1, <2>2, <3>1
    <2> QED BY Zenon, <1>4, <2>3, <2>4, <2>5, <2>6, StartStep
  <1>5. ASSUME NEW op \in {"learn", "static", "delete", "flush"}, op \in {"delete", "flush"},
               NEW todo \in Tables, NEW recount \in BOOLEAN, work = None, UNCHANGED <<tableVars, since, edits>>,
               work' = Work(op, todo, recount),
               \A m \in DOMAIN todo : m \in Known /\ todo[m] = Zero /\ (op = "flush" => ~ Static(m))
        PROVE  BridgeInv'
    <2>1. \A m \in DOMAIN todo : Age(todo[m]) = 0
      BY Zenon, <1>5, ZeroType DEF Age
    <2>2. \E k : k \in Known \/ Cardinality(Known) < MaxEntries
      <3>1. CASE Known # {}
        BY Zenon, <3>1
      <3>2. CASE Known = {}
        <4>1. Cardinality({}) = 0
          BY Zenon, FS_EmptySet
        <4> QED BY <3>2, <4>1, BridgeAssumption
      <3> QED BY Zenon, <3>1, <3>2
    <2>3. PICK k : k \in Known \/ Cardinality(Known) < MaxEntries
      BY Zenon, <2>2
    <2>4. {m \in DOMAIN todo : todo[m] # Zero} \subseteq Known \cup {k}
      BY Zenon, <1>5
    <2>5. op \in {"learn", "flush"} => \A m \in DOMAIN todo : todo[m].type # "static" /\ ~ Static(m)
      <3>1. op # "learn" /\ "unset" # "static"
        BY <1>5
      <3> QED BY Zenon, <1>5, <3>1, ZeroType
    <2>6. work = None /\ UNCHANGED <<tableVars, since, edits>> /\ work' = Work(op, todo, recount)
      BY Zenon, <1>5
    <2> QED BY Zenon, <2>1, <2>3, <2>4, <2>5, <2>6, StartStep
  <1>6. CASE ~ UNCHANGED <<tableVars, since, work, edits>>
    <2>1. PICK op \in {"learn", "static", "delete", "flush"}, todo \in Tables, recount \in BOOLEAN :
             /\ work = None /\ UNCHANGED <<tableVars, since, edits>>
             /\ work' = Work(op, todo, recount)
             /\ \/ op \in {"learn", "static"} /\ \E m \in Stations, e \in Entry :
                       /\ todo = Only(m, e) /\ ~ Full(m)
                       /\ \E v \in Vlans, p \in Ports :
                              \/ op = "learn" /\ e = Learned(m, v, p) /\ ~ Static(m)
                              \/ op = "static" /\ e = StaticEntry(v, p)
                \/ op \in {"delete", "flush"} /\ \A m \in DOMAIN todo :
                       /\ m \in Known /\ todo[m] = Zero
                       /\ op = "flush" => ~ Static(m)
      BY Zenon, <1>2, <1>6 DEF Starts
    <2>2. CASE op \in {"delete", "flush"} /\ \A m \in DOMAIN todo :
                       m \in Known /\ todo[m] = Zero /\ (op = "flush" => ~ Static(m))
      BY Zenon, <1>5, <2>1, <2>2
    <2>3. CASE ~ (op \in {"delete", "flush"} /\ \A m \in DOMAIN todo :
                       m \in Known /\ todo[m] = Zero /\ (op = "flush" => ~ Static(m)))
      <3>1. PICK m \in Stations, e \in Entry, v \in Vlans, p \in Ports :
               /\ todo = Only(m, e) /\ ~ Full(m)
               /\ \/ op = "learn" /\ e = Learned(m, v, p) /\ ~ Static(m)
                  \/ op = "static" /\ e = StaticEntry(v, p)
        BY Zenon, <2>1, <2>3
      <3> QED BY Zenon, <1>4, <2>1, <3>1
    <2> QED BY Zenon, <2>2, <2>3
  <1> QED BY Zenon, <1>3, <1>6

\* Every step of an operation keeps the invariant.
LEMMA WorkSteps ==
  ASSUME BridgeInv, WorkStep
  PROVE  BridgeInv'
  <1>1. \/ \E m : TakeEntry(m)
        \/ \E leaf : WriteLeaf(leaf)
        \/ syncCount
        \/ EndWork \/ CutOff \/ \E leaf : LoseLeaf(leaf)
    BY Zenon DEF WorkStep
  <1> QED BY Zenon, <1>1, TakeStep, WriteStep, CountStep, EndSteps

\* What the invariant says of the count.
LEMMA InvAccounts == BridgeInv => TableAccounted
  <1> SUFFICES ASSUME BridgeInv PROVE TableAccounted
    OBVIOUS
  <1> DEFINE bound == MaxEntries + edits
  <1>1. bound \in Nat /\ IsFiniteSet(Known \cup Coming) /\ Cardinality(Known \cup Coming) <= bound
    BY BridgeAssumption DEF BridgeInv, BridgeTyped, Accounted
  <1> HIDE DEF bound
  <1>2. Known \in SUBSET (Known \cup Coming)
    BY Zenon
  <1>3. Cardinality(Known) <= bound
    BY Zenon, <1>1, <1>2, ShrinksInBounds
  <1>4. count # Cardinality(Known) => stale \/ work # None
    BY Zenon DEF BridgeInv, Accounted
  <1> QED BY Zenon, <1>3, <1>4 DEF TableAccounted, bound

\* What the invariant says of an entry that a sweep takes up to remove it.
LEMMA InvExpires ==
  ASSUME BridgeInv, NEW m \in Known, TakeEntry(m), work.op = "age", work.todo[m] = Zero
  PROVE  AgingTime * Second <= seen[m] + lead[m]
  <1>1. work # None /\ work.at = None /\ m \in DOMAIN work.todo
    BY Zenon DEF TakeEntry
  <1>2. m \in Stations /\ None # m
    BY Zenon, TableType, NoneAssumption DEF BridgeInv, BridgeTyped, Known
  <1> QED BY Zenon, <1>1, <1>2 DEF BridgeInv, AgesRight

\* A leaf that an operation writes: only its own entry changes, and that was no
\* static one unless the operation is about it by name or a plane edited it.
LEMMA WriteSpares ==
  ASSUME BridgeInv, NEW leaf, WriteLeaf(leaf), NEW m \in Known, Static(m),
         m \in Known' => table'[m] # table[m]
  PROVE  work.at = m /\ (work.op \in {"static", "delete"} \/ m \in work.edited)
  <1>1. PICK k, e : k = work.at /\ e = Patch(Found(work.at), work.todo[work.at], {leaf})
    BY Zenon
  <1>2. work # None /\ work.at # None /\ table' = Put(table, k, e)
    BY Zenon, <1>1 DEF WriteLeaf, NextLeaf
  <1>3. table \in Tables /\ work \in Operations /\ k \in DOMAIN work.todo
    BY Zenon, <1>1, <1>2 DEF BridgeInv, BridgeTyped
  <1>4. work.todo \in Tables
    BY Zenon, <1>3 DEF Operations
  <1>5. k \in Stations /\ work.todo[k] \in Entry /\ Found(k) \in Entry
    BY Zenon, <1>3, <1>4, TableType, FoundType
  <1>6. e \in Entry
    BY Zenon, <1>1, <1>5, PatchEntry
  <1>7. \A x \in Known \ {k} : x \in Known' /\ table'[x] = table[x]
    BY Zenon, <1>2, <1>3, <1>5, <1>6, FoundPut
  <1>8. m = k
    BY Zenon, <1>7
  <1> QED BY Zenon, <1>1, <1>2, <1>3, <1>8 DEF BridgeInv, StaticsSpared

\* What a step of the bridge may do to a static entry.
LEMMA StepsSpare ==
  ASSUME BridgeInv, WorkStep \/ CutOff, NEW m \in Known, Static(m),
         m \in Known' => table'[m] # table[m]
  PROVE  work.at = m /\ (work.op \in {"static", "delete"} \/ m \in work.edited)
  <1>1. table' # table
    BY Zenon DEF Known
  <1>2. ~ CutOff /\ ~ syncCount /\ ~ EndWork
    BY Zenon, <1>1 DEF CutOff, syncCount, EndWork
  <1>3. (\A x : ~ TakeEntry(x)) /\ \A leaf : ~ LoseLeaf(leaf)
    BY Zenon, <1>1 DEF TakeEntry, LoseLeaf, tableVars
  <1>4. PICK leaf : WriteLeaf(leaf)
    BY Zenon, <1>2, <1>3 DEF WorkStep
  <1> QED BY Zenon, <1>4, WriteSpares
-----------------------------------------------------------------------------
(***************************************************************************)
(* Validity.  While nothing is torn, every entry is valid but for the one  *)
(* that is being written, what an operation has yet to write is valid, and *)
(* of the entry it is at the leaves that are not left are as they should   *)
(* be.                                                                     *)
(***************************************************************************)
\* An operation has this in store for an entry that is e now.
Fit(op, target, e) ==
    \/ target = Zero
    \/ IF op = "age" THEN ValidEntry(e) ELSE ValidEntry(target) /\ target.permanent # "unset"

\* It is at the entry, and these leaves are left.
Halfway(op, target, e, left) ==
    /\ target = Zero => left = StoredLeaves(e)
    /\ target # Zero /\ op # "age" =>
           /\ "type" \in left \/ e.type = target.type
           /\ "port" \in left \/ e.port = target.port
           /\ "permanent" \in left \/ e.permanent = target.permanent

TableFits ==
    /\ count <= MaxEntries
    /\ Cardinality(Known \cup Coming) <= MaxEntries
    /\ \A m \in Known : ValidEntry(table[m]) \/ (work # None /\ work.at = m)
    /\ work # None =>
           /\ work.counted # None => work.counted <= MaxEntries
           /\ \A m \in DOMAIN work.todo :
                  /\ Fit(work.op, work.todo[m], Found(m))
                  /\ work.at = m => Halfway(work.op, work.todo[m], Found(m), work.left)

\* Validation looks at three leaves.
LEMMA SameValid ==
  ASSUME NEW e, NEW f, e.type = f.type, e.port = f.port, e.permanent = f.permanent
  PROVE  ValidEntry(e) <=> ValidEntry(f)
  BY Zenon DEF ValidEntry

\* The next entry or leaf of an operation.
LEMMA GoFits ==
  ASSUME BridgeInv, TableFits, work # None, NEW m \in DOMAIN work.todo, work.at \in {None, m},
         NEW w, w = [work EXCEPT !.at = m], NEW left \in SUBSET LeafNames,
         work' = Onward(w, left), count' = count, Known' \subseteq Known \cup Coming,
         \A x \in Known \ {m} : x \in Known',
         \A x \in Known' \ {m} : x \in Known /\ table'[x] = table[x],
         NEW e, Found(m)' = e,
         left = {} /\ m \in Known' => ValidEntry(e),
         left # {} => Fit(work.op, work.todo[m], e) /\ Halfway(work.op, work.todo[m], e, left)
  PROVE  TableFits'
  <1>1. /\ work \in Operations /\ work.todo \in Tables /\ DOMAIN work.todo \subseteq Stations
        /\ m \in Stations
    BY Zenon, TableType DEF BridgeInv, BridgeTyped, Operations
  <1>2. /\ w \in Operations /\ w.at = m /\ w.op = work.op /\ w.todo = work.todo
        /\ w.counted = work.counted
    BY Zenon, <1>1 DEF Operations
  <1>3. /\ work' \in Operations /\ work'.op = work.op /\ work'.counted = work.counted
        /\ left # {} => work'.at = m /\ work'.left = left
        /\ left = {} => work'.at = None /\ m \notin DOMAIN work'.todo
        /\ \A x \in DOMAIN work'.todo : x \in DOMAIN work.todo /\ work'.todo[x] = work.todo[x]
    <2>1. w.at \in DOMAIN w.todo
      BY Zenon, <1>2
    <2>2. GoesOn(w, left, work')
      BY Zenon, <1>2, <2>1, OnwardType
    <2> QED BY Zenon, <1>2, <2>2 DEF GoesOn
  <1>4. work' # None /\ \A x \in Stations : x # None
    BY Zenon, <1>3, NoneAssumption
  <1>5. count' <= MaxEntries
    BY Zenon DEF TableFits
  <1>6. Cardinality((Known \cup Coming)') <= MaxEntries
    <2>1. Coming' \subseteq Coming
      BY Zenon, <1>3, <1>4 DEF Coming
    <2>2. (Known \cup Coming)' \in SUBSET (Known \cup Coming)
      BY Zenon, <2>1
    <2>3. IsFiniteSet(Known \cup Coming) /\ Cardinality(Known \cup Coming) <= MaxEntries
      BY Zenon DEF BridgeInv, Accounted, TableFits
    <2>4. MaxEntries \in Nat
      BY BridgeAssumption
    <2> QED BY Zenon, <2>2, <2>3, <2>4, ShrinksInBounds
  <1>7. ASSUME NEW x \in Known'
        PROVE  ValidEntry(table'[x]) \/ (work' # None /\ work'.at = x)
    <2>1. CASE x = m
      <3>1. Found(m)' = table'[m]
        BY Zenon, <1>7, <2>1 DEF Found
      <3> QED BY Zenon, <1>3, <1>4, <1>7, <2>1, <3>1
    <2>2. CASE x # m
      <3>1. x \in Known /\ table'[x] = table[x]
        BY Zenon, <1>7, <2>2
      <3>2. x \in Stations
        BY Zenon, <3>1, TableType DEF BridgeInv, BridgeTyped, Known
      <3>3. work.at # x
        BY Zenon, <1>4, <2>2, <3>2
      <3> QED BY Zenon, <3>1, <3>3 DEF TableFits
    <2> QED BY Zenon, <2>1, <2>2
  <1>8. work'.counted # None => work'.counted <= MaxEntries
    BY Zenon, <1>3 DEF TableFits
  <1>9. ASSUME NEW x \in DOMAIN work'.todo
        PROVE  /\ Fit(work'.op, work'.todo[x], Found(x)')
               /\ work'.at = x => Halfway(work'.op, work'.todo[x], Found(x)', work'.left)
    <2>1. x \in DOMAIN work.todo /\ work'.todo[x] = work.todo[x] /\ x \in Stations
      BY Zenon, <1>1, <1>3, <1>9
    <2>2. CASE x = m
      <3>1. left # {}
        BY Zenon, <1>3, <1>9, <2>2
      <3> QED BY Zenon, <1>3, <2>1, <2>2, <3>1
    <2>3. CASE x # m
      <3>1. Found(x)' = Found(x)
        BY Zenon, <2>3 DEF Found
      <3>2. work'.at # x
        BY Zenon, <1>3, <1>4, <2>1, <2>3
      <3>3. Fit(work.op, work.todo[x], Found(x))
        BY Zenon, <2>1 DEF TableFits
      <3> QED BY Zenon, <1>3, <2>1, <3>1, <3>2, <3>3
    <2> QED BY Zenon, <2>2, <2>3
  <1> QED BY Zenon, <1>5, <1>6, <1>7, <1>8, <1>9 DEF TableFits

LEMMA TakeFits ==
  ASSUME BridgeInv, TableFits, NEW m, TakeEntry(m)
  PROVE  TableFits'
  <1>1. PICK target, e, listed : /\ target = work.todo[m] /\ e = Found(m)
                                 /\ listed = IF work.todo[m] = Zero THEN Found(m) ELSE work.todo[m]
    BY Zenon
  <1>2. /\ work # None /\ work.at = None /\ m \in DOMAIN work.todo
        /\ work' = Onward([work EXCEPT !.at = m], StoredLeaves(listed))
        /\ UNCHANGED <<table, count>>
    BY Zenon, <1>1 DEF TakeEntry, tableVars
  <1>3. /\ table \in Tables /\ work \in Operations /\ target \in Entry /\ m \in Stations
    BY Zenon, <1>1, <1>2, TableType DEF BridgeInv, BridgeTyped, Operations
  <1>4. e \in Entry /\ listed \in Entry /\ Known' = Known /\ Found(m)' = e
    BY Zenon, <1>1, <1>2, <1>3, FoundType DEF Known, Found
  <1>5. PICK w, left : w = [work EXCEPT !.at = m] /\ left = StoredLeaves(listed)
    BY Zenon
  <1>6. left \in SUBSET LeafNames /\ work' = Onward(w, left)
    BY Zenon, <1>2, <1>4, <1>5, StoredSteps
  <1>7. left = {} /\ m \in Known' => ValidEntry(e)
    <2>1. work.at # m
      BY Zenon, <1>2, <1>3, NoneAssumption
    <2> QED BY Zenon, <1>1, <1>4, <2>1 DEF TableFits, Found
  <1>8. Fit(work.op, target, e)
    BY Zenon, <1>1, <1>2 DEF TableFits
  <1>9. Halfway(work.op, target, e, left)
    <2>1. CASE target = Zero
      BY Zenon, <1>1, <1>5, <2>1 DEF Halfway
    <2>2. CASE target # Zero /\ work.op = "age"
      BY Zenon, <2>2 DEF Halfway
    <2>3. CASE target # Zero /\ work.op # "age"
      <3>1. ValidEntry(target) /\ target.permanent # "unset" /\ listed = target
        BY Zenon, <1>1, <1>8, <2>3 DEF Fit
      <3>2. target.type # Zero.type /\ target.port # Zero.port /\ target.permanent # Zero.permanent
        BY <3>1 DEF ValidEntry, Zero
      <3>3. "type" \in left /\ "port" \in left /\ "permanent" \in left
        BY <1>5, <3>1, <3>2, DifferLeaves DEF StoredLeaves
      <3> QED BY Zenon, <2>3, <3>3 DEF Halfway
    <2> QED BY Zenon, <2>1, <2>2, <2>3
  <1>10. /\ work.at \in {None, m} /\ Known' \subseteq Known \cup Coming
         /\ \A x \in Known \ {m} : x \in Known'
         /\ \A x \in Known' \ {m} : x \in Known /\ table'[x] = table[x]
    BY Zenon, <1>2, <1>4
  <1> QED
    BY Zenon, <1>1, <1>2, <1>4, <1>5, <1>6, <1>7, <1>8, <1>9, <1>10, GoFits

LEMMA WriteFits ==
  ASSUME BridgeInv, TableFits, NEW leaf, WriteLeaf(leaf)
  PROVE  TableFits'
  <1>1. PICK m, target, old, e :
           /\ m = work.at /\ target = work.todo[work.at] /\ old = Found(work.at)
           /\ e = Patch(Found(work.at), work.todo[work.at], {leaf})
    BY Zenon
  <1>2. /\ work # None /\ work.at # None /\ leaf \in work.left /\ ~ Lost(leaf)
        /\ table' = Put(table, m, e) /\ work' = Onward(work, work.left \ {leaf}) /\ count' = count
    BY Zenon, <1>1 DEF WriteLeaf, NextLeaf, Leads
  <1>3. table \in Tables /\ work \in Operations /\ m \in DOMAIN work.todo
    BY Zenon, <1>1, <1>2 DEF BridgeInv, BridgeTyped
  <1>4. m \in Stations /\ target \in Entry /\ work.left \subseteq LeafNames
    <2>1. work.todo \in Tables
      BY Zenon, <1>3 DEF Operations
    <2>2. work.left \subseteq LeafNames
      BY <1>3 DEF Operations
    <2> QED BY Zenon, <1>1, <1>3, <2>1, <2>2, TableType
  <1>5. old \in Entry /\ e = Patch(old, target, {leaf})
    BY Zenon, <1>1, <1>3, FoundType
  <1>6. /\ e \in Entry
        /\ e.port = IF "port" = leaf THEN target.port ELSE old.port
        /\ e.type = IF "type" = leaf THEN target.type ELSE old.type
        /\ e.permanent = IF "permanent" = leaf THEN target.permanent ELSE old.permanent
    BY <1>4, <1>5, PatchEntry
  <1>7. /\ Known' = IF e = Zero THEN Known \ {m} ELSE Known \cup {m}
        /\ Found(m)' = e
        /\ m \in Known' => e # Zero
        /\ \A x \in Known \ {m} : x \in Known' /\ table'[x] = table[x]
    BY Zenon, <1>2, <1>3, <1>4, <1>6, FoundPut
  <1>8. /\ Fit(work.op, target, old) /\ Halfway(work.op, target, old, work.left)
    BY Zenon, <1>1, <1>2, <1>3 DEF TableFits
  <1>9. PICK w, left : w = work /\ left = work.left \ {leaf}
    BY Zenon
  <1>10. w = [work EXCEPT !.at = m]
    BY <1>1, <1>3, <1>9 DEF Operations
  <1>11. left \in SUBSET LeafNames /\ work' = Onward(w, left) /\ work.at \in {None, m}
    BY Zenon, <1>1, <1>2, <1>4, <1>9
  <1>12. /\ Fit(work.op, target, e) /\ Halfway(work.op, target, e, left)
         /\ left = {} /\ m \in Known' => ValidEntry(e)
         /\ Known' \subseteq Known \cup Coming
    <2>1. CASE target = Zero
      <3>1. left = StoredLeaves(e)
        BY Zenon, <1>5, <1>8, <1>9, <2>1, StoredSteps DEF Halfway
      <3>2. left = {} => e = Zero
        BY Zenon, <1>6, <3>1, StoredSteps
      <3>3. leaf \in StoredLeaves(old)
        BY Zenon, <1>2, <1>8, <2>1 DEF Halfway
      <3>4. m \in Known
        <4>1. old # Zero
          BY Zenon, <1>5, <3>3, StoredSteps
        <4> QED BY Zenon, <1>1, <4>1 DEF Found
      <3> QED BY Zenon, <1>7, <2>1, <3>1, <3>2, <3>4 DEF Fit, Halfway
    <2>2. CASE target # Zero /\ work.op = "age"
      <3>1. work.left \subseteq {"age"}
        BY Zenon, <1>1, <1>2, <1>3, <2>2 DEF BridgeInv, AgesRight
      <3>2. leaf = "age"
        BY Zenon, <1>2, <3>1
      <3>3. e.port = old.port /\ e.type = old.type /\ e.permanent = old.permanent
        BY <1>6, <3>2
      <3>4. ValidEntry(e)
        BY Zenon, <1>8, <2>2, <3>3, SameValid DEF Fit
      <3>5. m \in Coming
        BY Zenon, <1>1, <1>2, <1>3, <2>2 DEF Coming
      <3>6. Known' \subseteq Known \cup Coming
        BY Zenon, <1>7, <3>5
      <3> QED BY Zenon, <2>2, <3>4, <3>6 DEF Fit, Halfway
    <2>3. CASE target # Zero /\ work.op # "age"
      <3>1. /\ "type" \in left \/ e.type = target.type
            /\ "port" \in left \/ e.port = target.port
            /\ "permanent" \in left \/ e.permanent = target.permanent
        <4>1. /\ "type" \in work.left \/ old.type = target.type
              /\ "port" \in work.left \/ old.port = target.port
              /\ "permanent" \in work.left \/ old.permanent = target.permanent
          BY Zenon, <1>8, <2>3 DEF Halfway
        <4> QED BY Zenon, <1>6, <1>9, <4>1
      <3>2. ValidEntry(target) /\ target.permanent # "unset"
        BY Zenon, <1>8, <2>3 DEF Fit
      <3>3. left = {} => ValidEntry(e)
        BY Zenon, <3>1, <3>2, SameValid
      <3>4. m \in Coming
        BY Zenon, <1>1, <1>2, <1>3, <2>3 DEF Coming
      <3>5. Known' \subseteq Known \cup Coming
        BY Zenon, <1>7, <3>4
      <3> QED BY Zenon, <2>3, <3>1, <3>2, <3>3, <3>5 DEF Fit, Halfway
    <2> QED BY Zenon, <2>1, <2>2, <2>3
  <1>13. /\ \A x \in Known \ {m} : x \in Known'
         /\ \A x \in Known' \ {m} : x \in Known /\ table'[x] = table[x]
    BY Zenon, <1>7
  <1>14. target = work.todo[m]
    BY Zenon, <1>1
  <1> QED
    BY Zenon, <1>2, <1>3, <1>7, <1>10, <1>11, <1>12, <1>13, <1>14, GoFits

\* The end of an operation that is at no entry.
LEMMA DoneFits ==
  ASSUME BridgeInv, TableFits, work # None, work.at = None, work' = None, table' = table,
         count' <= MaxEntries
  PROVE  TableFits'
  <1>1. Known' = Known /\ Coming' = {}
    BY DEF Known, Coming
  <1>2. \A x \in Known : x # None
    BY Zenon, TableType, NoneAssumption DEF BridgeInv, BridgeTyped, Known
  <1>3. Cardinality((Known \cup Coming)') <= MaxEntries
    <2>1. (Known \cup Coming)' \in SUBSET (Known \cup Coming)
      BY Zenon, <1>1
    <2>2. IsFiniteSet(Known \cup Coming) /\ Cardinality(Known \cup Coming) <= MaxEntries
      BY Zenon DEF BridgeInv, Accounted, TableFits
    <2>3. MaxEntries \in Nat
      BY BridgeAssumption
    <2> QED BY Zenon, <2>1, <2>2, <2>3, ShrinksInBounds
  <1>4. \A m \in Known' : ValidEntry(table'[m])
    BY Zenon, <1>1, <1>2 DEF TableFits
  <1> QED BY Zenon, <1>3, <1>4 DEF TableFits

\* A leaf that is listed is there as long as nothing is torn.
LEMMA NoneLost ==
  ASSUME BridgeInv, TableFits, NEW leaf, LoseLeaf(leaf)
  PROVE  FALSE
  <1>1. /\ work # None /\ work.at # None /\ leaf \in work.left
        /\ work.todo[work.at] = Zero /\ leaf \notin StoredLeaves(Found(work.at))
    BY Zenon DEF LoseLeaf, NextLeaf, Leads, Lost, Removes
  <1>2. PICK m : m = work.at
    BY Zenon
  <1>3. m \in DOMAIN work.todo
    BY Zenon, <1>1, <1>2 DEF BridgeInv, BridgeTyped
  <1>4. Halfway(work.op, work.todo[m], Found(m), work.left)
    BY Zenon, <1>1, <1>2, <1>3 DEF TableFits
  <1> QED BY Zenon, <1>1, <1>2, <1>4 DEF Halfway

LEMMA CountFits ==
  ASSUME BridgeInv, TableFits, syncCount
  PROVE  TableFits'
  <1>1. /\ work # None /\ work.at = None /\ DOMAIN work.todo = {}
        /\ work' = [work EXCEPT !.counted = Cardinality(Known)] /\ UNCHANGED <<table, count>>
    BY Zenon DEF syncCount, Through
  <1>2. work \in Operations /\ Known' = Known /\ Known \cup Coming = Known
    BY <1>1 DEF BridgeInv, BridgeTyped, Known, Coming
  <1>3. Cardinality(Known) <= MaxEntries
    BY Zenon, <1>2 DEF TableFits
  <1>4. work'.todo = work.todo /\ work'.at = None /\ work'.counted = Cardinality(Known)
    BY Zenon, <1>1, <1>2 DEF Operations
  <1>5. (Known \cup Coming)' = Known
    BY <1>1, <1>2, <1>4 DEF Coming
  <1>6. \A m \in Known' : ValidEntry(table'[m])
    <2>1. \A x \in Known : x # None
      BY Zenon, TableType, NoneAssumption DEF BridgeInv, BridgeTyped, Known
    <2> QED BY Zenon, <1>1, <1>2, <2>1 DEF TableFits
  <1>7. count' <= MaxEntries
    BY Zenon, <1>1 DEF TableFits
  <1> QED BY Zenon, <1>1, <1>3, <1>4, <1>5, <1>6, <1>7 DEF TableFits

LEMMA EndFits ==
  ASSUME BridgeInv, TableFits, EndWork
  PROVE  TableFits'
  <1>1. /\ work # None /\ work.at = None /\ work' = None /\ table' = table
        /\ work.recount => work.counted # None
        /\ count' = IF work.recount THEN work.counted ELSE count
    BY Zenon DEF EndWork, Through
  <1>2. count' <= MaxEntries
    BY Zenon, <1>1 DEF TableFits
  <1> QED BY Zenon, <1>1, <1>2, DoneFits

\* A request that is cut off between two entries.
LEMMA CutFits ==
  ASSUME BridgeInv, TableFits, CutOff, work.at = None
  PROVE  TableFits'
  <1>1. work # None /\ work' = None /\ table' = table /\ count' = count
    BY Zenon DEF CutOff
  <1>2. count' <= MaxEntries
    BY Zenon, <1>1 DEF TableFits
  <1> QED BY Zenon, <1>1, <1>2, DoneFits

\* Every step of an operation keeps the table valid.
LEMMA WorkFits ==
  ASSUME BridgeInv, TableFits, WorkStep
  PROVE  TableFits'
  <1>1. \/ \E m : TakeEntry(m)
        \/ \E leaf : WriteLeaf(leaf)
        \/ \E leaf : LoseLeaf(leaf)
        \/ syncCount
        \/ EndWork
    BY Zenon DEF WorkStep
  <1> QED BY Zenon, <1>1, TakeFits, WriteFits, NoneLost, CountFits, EndFits

\* A step that leaves the table alone.
LEMMA SameFits ==
  ASSUME TableFits, UNCHANGED <<table, count, work>>
  PROVE  TableFits'
  <1>1. Known' = Known /\ Coming' = Coming /\ \A m : Found(m)' = Found(m)
    BY Zenon DEF Known, Coming, Found
  <1> QED BY Zenon, <1>1 DEF TableFits

\* The snapshot of a request or a sweep.
LEMMA StartFits ==
  ASSUME BridgeInv, TableFits, work = None, UNCHANGED <<table, count>>,
         NEW op \in {"learn", "static", "delete", "flush", "age"}, NEW todo \in Tables,
         NEW recount \in BOOLEAN, work' = Work(op, todo, recount),
         NEW k, k \in Known \/ Cardinality(Known) < MaxEntries,
         {m \in DOMAIN todo : todo[m] # Zero} \subseteq Known \cup {k},
         \A m \in DOMAIN todo : Fit(op, todo[m], Found(m))
  PROVE  TableFits'
  <1>1. /\ work' \in Operations /\ work'.op = op /\ work'.todo = todo /\ work'.at = None
        /\ work'.counted = None
    BY WorkType
  <1>2. Known' = Known /\ Coming = {} /\ \A m : Found(m)' = Found(m)
    BY Zenon DEF Known, Coming, Found
  <1>3. (Known \cup Coming)' \in SUBSET (Known \cup {k})
    BY <1>1, <1>2 DEF Coming
  <1>4. IsFiniteSet(Known) /\ Cardinality(Known) <= MaxEntries
    <2>1. Known \cup Coming = Known
      BY Zenon, <1>2
    <2> QED BY Zenon, <2>1 DEF BridgeInv, Accounted, TableFits
  <1>5. MaxEntries \in Nat /\ MaxEntries <= MaxEntries
    BY BridgeAssumption
  <1>6. Cardinality((Known \cup Coming)') <= MaxEntries
    BY Zenon, <1>3, <1>4, <1>5, GrowsInBounds
  <1>7. \A m \in Stations : m # None
    BY Zenon, NoneAssumption
  <1>8. DOMAIN todo \subseteq Stations
    BY Zenon, TableType
  <1>9. /\ count' <= MaxEntries
        /\ \A m \in Known' : ValidEntry(table'[m])
    BY Zenon, <1>2 DEF TableFits
  <1>10. \A m \in DOMAIN work'.todo : /\ Fit(work'.op, work'.todo[m], Found(m)')
                                      /\ work'.at # m
    BY Zenon, <1>1, <1>2, <1>7, <1>8
  <1> QED BY Zenon, <1>1, <1>6, <1>9, <1>10 DEF TableFits

\* Every request keeps the table valid: learn and SetStatic write valid entries.
LEMMA RequestsFit ==
  ASSUME BridgeInv, TableFits, Requests
  PROVE  TableFits'
  <1>1. table \in Tables
    BY Zenon DEF BridgeInv, BridgeTyped
  <1>2. Starts /\ work = None
    BY Zenon, <1>1, RequestsStart
  <1>3. CASE UNCHANGED <<tableVars, since, work, edits>>
    BY Zenon, <1>3, SameFits DEF tableVars
  <1>4. ASSUME NEW op \in {"learn", "static", "delete", "flush"}, NEW todo \in Tables,
               NEW recount \in BOOLEAN, UNCHANGED <<tableVars, since, edits>>,
               work' = Work(op, todo, recount),
               NEW m \in Stations, NEW e \in Entry, todo = Only(m, e), ~ Full(m),
               NEW v \in Vlans, NEW p \in Ports,
               \/ op = "learn" /\ e = Learned(m, v, p) /\ ~ Static(m)
               \/ op = "static" /\ e = StaticEntry(v, p)
        PROVE  TableFits'
    <2>1. DOMAIN todo = {m} /\ todo[m] = e
      BY Zenon, <1>4, OnlyTable
    <2>2. p # 0
      BY DEF Ports
    <2>3. ValidEntry(e) /\ e.permanent # "unset"
      <3>1. CASE op = "learn" /\ e = Learned(m, v, p) /\ ~ Static(m)
        <4>1. Found(m).permanent # "yes"
          <5>1. CASE m \in Known
            <6>1. ValidEntry(table[m]) /\ table[m].type # "static"
              BY Zenon, <1>2, <3>1, <5>1 DEF TableFits, Static
            <6> QED BY Zenon, <5>1, <6>1 DEF ValidEntry, Found
          <5>2. CASE m \notin Known
            BY <5>2 DEF Found, Zero
          <5> QED BY Zenon, <5>1, <5>2
        <4>2. e.type = "dynamic" /\ e.port = p /\ e.permanent = "no"
          BY Zenon, <3>1, <4>1, LearnedType
        <4> QED BY <2>2, <4>2 DEF ValidEntry
      <3>2. CASE op = "static" /\ e = StaticEntry(v, p)
        <4>1. e.type = "static" /\ e.port = p /\ e.permanent = "yes"
          BY Zenon, <3>2, StaticType
        <4> QED BY <2>2, <4>1 DEF ValidEntry
      <3> QED BY Zenon, <1>4, <3>1, <3>2
    <2>4. op # "age"
      BY <1>4
    <2>5. \A x \in DOMAIN todo : Fit(op, todo[x], Found(x))
      BY Zenon, <2>1, <2>3, <2>4 DEF Fit
    <2>6. m \in Known \/ Cardinality(Known) < MaxEntries
      <3>1. IsFiniteSet(Known)
        <4>1. Known \cup Coming = Known
          BY Zenon, <1>2 DEF Coming
        <4> QED BY Zenon, <4>1 DEF BridgeInv, Accounted
      <3>2. Cardinality(Known) \in Nat /\ MaxEntries \in Nat
        BY <3>1, FS_CardinalityType, BridgeAssumption
      <3> QED BY <1>4, <3>2 DEF Full
    <2>7. {x \in DOMAIN todo : todo[x] # Zero} \subseteq Known \cup {m}
      BY Zenon, <2>1
    <2>8. /\ UNCHANGED <<table, count>> /\ op \in {"learn", "static", "delete", "flush", "age"}
          /\ work' = Work(op, todo, recount)
      BY Zenon, <1>4 DEF tableVars
    <2> QED BY Zenon, <1>2, <2>5, <2>6, <2>7, <2>8, StartFits
  <1>5. ASSUME NEW op \in {"learn", "static", "delete", "flush"}, NEW todo \in Tables,
               NEW recount \in BOOLEAN, UNCHANGED <<tableVars, since, edits>>,
               work' = Work(op, todo, recount),
               \A m \in DOMAIN todo : m \in Known /\ todo[m] = Zero
        PROVE  TableFits'
    <2>1. PICK k : k \in Known \/ Cardinality(Known) < MaxEntries
      <3>1. CASE Known # {}
        BY Zenon, <3>1
      <3>2. CASE Known = {}
        <4>1. Cardinality({}) = 0
          BY Zenon, FS_EmptySet
        <4> QED BY <3>2, <4>1, BridgeAssumption
      <3> QED BY Zenon, <3>1, <3>2
    <2>2. {m \in DOMAIN todo : todo[m] # Zero} \subseteq Known \cup {k}
      BY Zenon, <1>5
    <2>3. \A m \in DOMAIN todo : Fit(op, todo[m], Found(m))
      BY Zenon, <1>5 DEF Fit
    <2>4. UNCHANGED <<table, count>> /\ op \in {"learn", "static", "delete", "flush", "age"}
      BY Zenon, <1>5 DEF tableVars
    <2> QED BY Zenon, <1>2, <1>5, <2>1, <2>2, <2>3, <2>4, StartFits
  <1>6. CASE ~ UNCHANGED <<tableVars, since, work, edits>>
    <2>1. PICK op \in {"learn", "static", "delete", "flush"}, todo \in Tables, recount \in BOOLEAN :
             /\ work = None /\ UNCHANGED <<tableVars, since, edits>>
             /\ work' = Work(op, todo, recount)
             /\ \/ op \in {"learn", "static"} /\ \E m \in Stations, e \in Entry :
                       /\ todo = Only(m, e) /\ ~ Full(m)
                       /\ \E v \in Vlans, p \in Ports :
                              \/ op = "learn" /\ e = Learned(m, v, p) /\ ~ Static(m)
                              \/ op = "static" /\ e = StaticEntry(v, p)
                \/ op \in {"delete", "flush"} /\ \A m \in DOMAIN todo :
                       /\ m \in Known /\ todo[m] = Zero
                       /\ op = "flush" => ~ Static(m)
      BY Zenon, <1>2, <1>6 DEF Starts
    <2>2. CASE \A m \in DOMAIN todo : m \in Known /\ todo[m] = Zero
      BY Zenon, <1>5, <2>1, <2>2
    <2>3. CASE ~ \A m \in DOMAIN todo : m \in Known /\ todo[m] = Zero
      <3>1. PICK m \in Stations, e \in Entry, v \in Vlans, p \in Ports :
               /\ todo = Only(m, e) /\ ~ Full(m)
               /\ \/ op = "learn" /\ e = Learned(m, v, p) /\ ~ Static(m)
                  \/ op = "static" /\ e = StaticEntry(v, p)
        BY Zenon, <2>1, <2>3
      <3> QED BY Zenon, <1>4, <2>1, <3>1
    <2> QED BY Zenon, <2>2, <2>3
  <1> QED BY Zenon, <1>3, <1>6

\* A sweep goes by entries that are valid.
LEMMA AgeFits ==
  ASSUME BridgeInv, TableFits, age
  PROVE  TableFits'
  <1>1. work = None /\ work' = Sweep(since \div Second) /\ UNCHANGED <<table, count>>
    BY Zenon DEF age, tableVars
  <1>2. CASE work' = None
    BY Zenon, <1>1, <1>2, SameFits
  <1>3. CASE work' # None
    <2>1. PICK dynamic, todo : /\ dynamic = {m \in Known : table[m].type = "dynamic"}
                               /\ todo = [m \in dynamic |-> Aged(m, since \div Second)]
      BY Zenon
    <2>2. work' = Work("age", todo, FALSE)
      BY Zenon, <1>1, <1>3, <2>1 DEF Sweep
    <2>3. BridgeInv'
      BY Zenon, AgeStep
    <2>4. todo \in Tables
      <3>1. work' \in Operations
        BY Zenon, <1>3, <2>3 DEF BridgeInv, BridgeTyped
      <3>2. work'.todo \in Tables
        BY Zenon, <3>1 DEF Operations
      <3>3. work'.todo = todo
        BY Zenon, <2>2 DEF Work
      <3> QED BY Zenon, <3>2, <3>3
    <2>5. DOMAIN todo \subseteq Known
      BY Zenon, <2>1
    <2>6. \A m \in DOMAIN todo : Fit("age", todo[m], Found(m))
      BY Zenon, <1>1, <2>5 DEF Fit, Found, TableFits
    <2>7. PICK k : k \in Known \/ Cardinality(Known) < MaxEntries
      <3>1. CASE Known # {}
        BY Zenon, <3>1
      <3>2. CASE Known = {}
        <4>1. Cardinality({}) = 0
          BY Zenon, FS_EmptySet
        <4> QED BY <3>2, <4>1, BridgeAssumption
      <3> QED BY Zenon, <3>1, <3>2
    <2>8. {m \in DOMAIN todo : todo[m] # Zero} \subseteq Known \cup {k}
      BY Zenon, <2>5
    <2>9. PICK op, recount : op = "age" /\ recount = FALSE
      BY Zenon
    <2>10. op \in {"learn", "static", "delete", "flush", "age"} /\ recount \in BOOLEAN
      BY Zenon, <2>9
    <2> QED BY Zenon, <1>1, <2>2, <2>4, <2>6, <2>7, <2>8, <2>9, <2>10, StartFits
  <1> QED BY Zenon, <1>2, <1>3

\* What a plane proposes is an entry that is valid or gone, of the same age.
LEMMA ProposalsFit ==
  ASSUME table \in Tables, NEW m \in Stations, NEW e \in Proposals(m)
  PROVE  e \in Entry /\ e.age = Found(m).age /\ (e = Zero \/ ValidEntry(e))
  <1>1. /\ e \in {PlaneDeletes(m), PlaneWrites(m, "dynamic"), PlaneWrites(m, "static")}
        /\ TableValid(Put(table, m, e))
    BY Zenon DEF Proposals
  <1>2. Found(m) \in Entry
    BY Zenon, FoundType
  <1>3. PlaneDeletes(m) \in Entry /\ PlaneDeletes(m).age = Found(m).age
    <2>1. PICK a : a = Found(m).age
      BY Zenon
    <2>2. a \in Nat \cup {None}
      BY <1>2, <2>1 DEF Entry
    <2>3. [Zero EXCEPT !.age = a] \in Entry /\ [Zero EXCEPT !.age = a].age = a
      BY Zenon, <2>2 DEF Entry, Zero
    <2> QED BY Zenon, <2>1, <2>3 DEF PlaneDeletes
  <1>4. ASSUME NEW type \in {"dynamic", "static"}
        PROVE  PlaneWrites(m, type) \in Entry /\ PlaneWrites(m, type).age = Found(m).age
    <2>1. PICK was, permanent : /\ was = IF m \in Known THEN table[m] ELSE Restored(m)
                                /\ permanent = IF type = "static" THEN "yes" ELSE "no"
      BY Zenon
    <2>2. was \in Entry /\ was.age = Found(m).age
      <3>1. m \in Known => table[m] = Found(m)
        BY Zenon DEF Found
      <3>2. m \notin Known => Found(m) = Zero
        BY Zenon DEF Found
      <3> QED BY Zenon, <1>2, <2>1, <3>1, <3>2, RestoredType, ZeroType
    <2>3. PlaneWrites(m, type) = [was EXCEPT !.type = type, !.permanent = permanent]
      BY Zenon, <2>1 DEF PlaneWrites
    <2>4. permanent \in {"yes", "no", "unset"} /\ type \in {"dynamic", "static", "unset"}
      BY Zenon, <2>1
    <2> QED BY Zenon, <2>2, <2>3, <2>4 DEF Entry
  <1>5. e \in Entry /\ e.age = Found(m).age
    BY Zenon, <1>1, <1>3, <1>4
  <1>6. e = Zero \/ ValidEntry(e)
    <2> SUFFICES ASSUME e # Zero PROVE ValidEntry(e)
      BY Zenon
    <2>1. DOMAIN Put(table, m, e) = DOMAIN table \cup {m} /\ Put(table, m, e)[m] = e
      BY Zenon, <1>5, PutTable
    <2> QED BY Zenon, <1>1, <2>1 DEF TableValid
  <1> QED BY Zenon, <1>5, <1>6

\* An edit that nothing overtakes and that does not overfill the table.
LEMMA PlaneFits ==
  ASSUME BridgeInv, TableFits, NEW m \in Stations, NEW old \in Entry, NEW new \in Entry,
         PlaneApplies(m, old, new), work = None, Found(m) = old, new = Zero \/ ValidEntry(new),
         Cardinality(Known') <= MaxEntries
  PROVE  TableFits'
  <1>1. work' = None /\ count' = count /\ table' = Put(table, m, Patch(old, new, Differ(old, new)))
    BY Zenon DEF PlaneApplies
  <1>2. table \in Tables /\ table' = Put(table, m, new)
    BY Zenon, <1>1, PatchDiffer DEF BridgeInv, BridgeTyped
  <1>3. /\ Known' = IF new = Zero THEN Known \ {m} ELSE Known \cup {m}
        /\ m \in Known' => new # Zero /\ table'[m] = new
        /\ \A x \in Known \ {m} : x \in Known' /\ table'[x] = table[x]
    BY Zenon, <1>2, FoundPut
  <1>4. (Known \cup Coming)' = Known'
    BY Zenon, <1>1 DEF Coming
  <1>5. \A x \in Known : ValidEntry(table[x])
    BY Zenon DEF TableFits
  <1>6. \A x \in Known' : ValidEntry(table'[x])
    BY Zenon, <1>3, <1>5
  <1>7. count' <= MaxEntries
    BY Zenon, <1>1 DEF TableFits
  <1> QED BY Zenon, <1>1, <1>4, <1>6, <1>7 DEF TableFits

\* The first table is valid.
LEMMA FitStarts == Init => TableFits
  <1> SUFFICES ASSUME Init PROVE TableFits
    OBVIOUS
  <1>1. PICK ms \in SUBSET {CHOOSE m \in Stations : TRUE} : table = [m \in ms |-> Restored(m)]
    BY Zenon DEF Init
  <1>2. Known = ms /\ count = Cardinality(Known) /\ work = None
    BY Zenon, <1>1 DEF Init, Known
  <1>3. Cardinality(Known) <= MaxEntries
    <2>1. IsFiniteSet({CHOOSE m \in Stations : TRUE}) /\ Cardinality({CHOOSE m \in Stations : TRUE}) = 1
      BY Zenon, FS_Singleton
    <2>2. Known \in SUBSET {CHOOSE m \in Stations : TRUE}
      BY Zenon, <1>2
    <2>3. 1 \in Nat /\ 1 <= MaxEntries /\ 1 <= 1
      BY BridgeAssumption
    <2>4. Cardinality(Known) \in Nat /\ Cardinality(Known) <= 1
      BY <2>1, <2>2, <2>3, ShrinksInBounds
    <2> QED BY <2>3, <2>4, BridgeAssumption
  <1>4. Known \cup Coming = Known
    BY Zenon, <1>2 DEF Coming
  <1>5. \A m : ValidEntry(Restored(m))
    <2>1. (CHOOSE p \in Ports : TRUE) # 0
      BY BridgeAssumption DEF Ports
    <2>2. \A m : /\ Restored(m).type = "dynamic" /\ Restored(m).permanent = "no"
                 /\ Restored(m).port = CHOOSE p \in Ports : TRUE
      BY Zenon DEF Restored, Zero
    <2>3. "dynamic" # "unset" /\ "no" # "yes"
      OBVIOUS
    <2> QED BY Zenon, <2>1, <2>2, <2>3 DEF ValidEntry
  <1>6. \A m \in Known : ValidEntry(table[m])
    BY Zenon, <1>1, <1>2, <1>5
  <1> QED BY Zenon, <1>2, <1>3, <1>4, <1>6 DEF TableFits
-----------------------------------------------------------------------------
(***************************************************************************)
(* Storm control.  Its sums and windows are recursive functions, so that   *)
(* the induction principle and the existence of these functions come       *)
(* first.                                                                  *)
(***************************************************************************)

\* Induction: a set that holds 0 and the successors of its numbers holds them all.
LEMMA NatSetInduction ==
  ASSUME NEW S, 0 \in S, \A n \in Nat : n \in S => n + 1 \in S
  PROVE  Nat \subseteq S
  <1> DEFINE R == OpToRel(<, Nat)
             T == Nat \ S
  <1> SUFFICES ASSUME T # {} PROVE FALSE
    OBVIOUS
  <1>1. T \subseteq Nat
    OBVIOUS
  <1>2. \E x \in T : \A y \in T : ~ (<<y, x>> \in R)
    <2> HIDE DEF T, R
    <2> QED BY Zenon, <1>1, WFMin, NatLessThanWellFounded DEF R
  <1>3. PICK x \in T : \A y \in T : ~ (<<y, x>> \in R)
    BY Zenon, <1>2
  <1>4. x \in Nat /\ x # 0 /\ x - 1 \in Nat
    OBVIOUS
  <1>5. x - 1 \in T
    BY <1>4
  <1>6. <<x - 1, x>> \in R
    BY <1>4 DEF OpToRel
  <1> QED BY Zenon, <1>3, <1>5, <1>6

\* The recursion of Sum has a solution, put together from those up to some place.
LEMMA SumDefined ==
  ASSUME NEW f
  PROVE  \E g : g = [i \in Nat |-> IF i = 0 THEN 0 ELSE g[i - 1] + f[i]]
  <1> DEFINE P(n, g) == g = [i \in 0..n |-> IF i = 0 THEN 0 ELSE g[i - 1] + f[i]]
             S == {n \in Nat : \E g : P(n, g)}
             part(n) == CHOOSE g : P(n, g)
             F == [n \in Nat |-> part(n)[n]]
  <1>1. 0 \in S
    <2>1. P(0, [i \in 0..0 |-> 0])
      OBVIOUS
    <2> QED BY Zenon, <2>1
  <1>2. ASSUME NEW n \in Nat, n \in S PROVE n + 1 \in S
    <2>1. PICK g : P(n, g)
      BY Zenon, <1>2
    <2> DEFINE h == [i \in 0..(n + 1) |-> IF i = n + 1 THEN g[n] + f[n + 1] ELSE g[i]]
    <2>2. \A i \in 0..(n + 1) : h[i] = IF i = 0 THEN 0 ELSE h[i - 1] + f[i]
      <3> SUFFICES ASSUME NEW i \in 0..(n + 1) PROVE h[i] = IF i = 0 THEN 0 ELSE h[i - 1] + f[i]
        OBVIOUS
      <3>1. CASE i = 0
        BY <2>1, <3>1
      <3>2. CASE i = n + 1
        BY <3>2
      <3>3. CASE i \in 1..n
        BY <2>1, <3>3
      <3> QED BY <3>1, <3>2, <3>3
    <2>3. P(n + 1, h) /\ n + 1 \in Nat
      BY <2>2
    <2> HIDE DEF h
    <2> QED BY <2>3
  <1>3. Nat \subseteq S
    <2>1. \A n \in Nat : n \in S => n + 1 \in S
      BY <1>2
    <2> HIDE DEF S
    <2> QED BY Zenon, <1>1, <2>1, NatSetInduction
  <1>4. \A n \in Nat : P(n, part(n))
    BY Zenon, <1>3
  <1>5. ASSUME NEW n \in Nat PROVE part(n + 1)[n] = part(n)[n]
    <2> DEFINE g == part(n)
               h == part(n + 1)
               T == {i \in Nat : i <= n => g[i] = h[i]}
    <2>1. P(n, g) /\ P(n + 1, h)
      <3>1. n + 1 \in Nat
        OBVIOUS
      <3> HIDE DEF P, part
      <3> QED BY <1>4, <3>1
    <2> HIDE DEF g, h
    <2>2. 0 \in T
      <3>1. 0 \in 0..n /\ 0 \in 0..(n + 1)
        OBVIOUS
      <3>2. g[0] = 0 /\ h[0] = 0
        BY Zenon, <2>1, <3>1
      <3> QED BY <3>2
    <2>3. ASSUME NEW i \in Nat, i \in T PROVE i + 1 \in T
      <3> SUFFICES ASSUME i + 1 <= n PROVE g[i + 1] = h[i + 1]
        OBVIOUS
      <3>1. i + 1 \in 0..n /\ i + 1 \in 0..(n + 1) /\ (i + 1) - 1 = i /\ i + 1 # 0
        OBVIOUS
      <3>2. g[i + 1] = g[i] + f[i + 1] /\ h[i + 1] = h[i] + f[i + 1]
        BY Zenon, <2>1, <3>1
      <3> QED BY <2>3, <3>2
    <2>4. Nat \subseteq T
      <3>1. \A i \in Nat : i \in T => i + 1 \in T
        BY Zenon, <2>3
      <3> HIDE DEF T
      <3> QED BY Zenon, <2>2, <3>1, NatSetInduction
    <2>5. g[n] = h[n]
      BY <2>4
    <2> QED BY <2>5 DEF g, h
  <1>6. ASSUME NEW n \in Nat PROVE F[n] = IF n = 0 THEN 0 ELSE F[n - 1] + f[n]
    <2>1. P(n, part(n))
      BY Zenon, <1>4
    <2> HIDE DEF part
    <2>2. CASE n = 0
      BY <2>1, <2>2
    <2>3. CASE n # 0
      <3>1. n - 1 \in Nat /\ (n - 1) + 1 = n
        BY <2>3
      <3>2. part(n)[n - 1] = part(n - 1)[n - 1]
        BY Zenon, <1>5, <3>1
      <3>3. part(n)[n] = part(n)[n - 1] + f[n]
        BY <2>1, <2>3
      <3> QED BY Zenon, <2>3, <3>1, <3>2, <3>3
    <2> QED BY Zenon, <2>2, <2>3
  <1>7. F = [n \in Nat |-> IF n = 0 THEN 0 ELSE F[n - 1] + f[n]]
    <2> DEFINE G == [n \in Nat |-> IF n = 0 THEN 0 ELSE F[n - 1] + f[n]]
    <2>1. F = [n \in Nat |-> F[n]]
      OBVIOUS
    <2> HIDE DEF F
    <2>2. \A n \in Nat : F[n] = G[n]
      BY Zenon, <1>6
    <2> QED BY Zenon, <2>1, <2>2
  <1> HIDE DEF F
  <1> QED BY <1>7

\* The sum of the first values, value by value.
LEMMA SumStep ==
  ASSUME NEW f
  PROVE  Sum(f, 0) = 0 /\ \A n \in Nat : Sum(f, n + 1) = Sum(f, n) + f[n + 1]
  <1> DEFINE g == CHOOSE g : g = [i \in Nat |-> IF i = 0 THEN 0 ELSE g[i - 1] + f[i]]
  <1>1. g = [i \in Nat |-> IF i = 0 THEN 0 ELSE g[i - 1] + f[i]]
    BY Zenon, SumDefined
  <1>2. \A n : Sum(f, n) = g[n]
    BY DEF Sum
  <1> HIDE DEF g
  <1>3. g[0] = 0 /\ \A n \in Nat : g[n + 1] = g[n] + f[n + 1]
    BY <1>1
  <1> QED BY Zenon, <1>2, <1>3

\* Smaller values have a smaller sum, and natural values a natural one.
LEMMA SumLess ==
  ASSUME NEW f, NEW g, NEW n \in Nat,
         \A i \in 1..n : f[i] \in Nat /\ g[i] \in Nat /\ f[i] <= g[i]
  PROVE  Sum(f, n) \in Nat /\ Sum(g, n) \in Nat /\ Sum(f, n) <= Sum(g, n)
  <1> DEFINE T == {k \in Nat : k <= n => /\ Sum(f, k) \in Nat /\ Sum(g, k) \in Nat
                                         /\ Sum(f, k) <= Sum(g, k)}
  <1>1. 0 \in T
    BY SumStep
  <1>2. ASSUME NEW k \in Nat, k \in T PROVE k + 1 \in T
    <2> SUFFICES ASSUME k + 1 <= n
                 PROVE  /\ Sum(f, k + 1) \in Nat /\ Sum(g, k + 1) \in Nat
                        /\ Sum(f, k + 1) <= Sum(g, k + 1)
      OBVIOUS
    <2>1. Sum(f, k + 1) = Sum(f, k) + f[k + 1] /\ Sum(g, k + 1) = Sum(g, k) + g[k + 1]
      BY Zenon, SumStep
    <2>2. Sum(f, k) \in Nat /\ Sum(g, k) \in Nat /\ Sum(f, k) <= Sum(g, k)
      BY <1>2
    <2>3. f[k + 1] \in Nat /\ g[k + 1] \in Nat /\ f[k + 1] <= g[k + 1]
      OBVIOUS
    <2> QED BY <2>1, <2>2, <2>3
  <1>3. Nat \subseteq T
    <2>1. \A k \in Nat : k \in T => k + 1 \in T
      BY Zenon, <1>2
    <2> HIDE DEF T
    <2> QED BY Zenon, <1>1, <2>1, NatSetInduction
  <1> QED BY <1>3

\* The same values have the same sum.
LEMMA SumSame ==
  ASSUME NEW f, NEW g, NEW n \in Nat, \A i \in 1..n : f[i] \in Nat /\ g[i] = f[i]
  PROVE  Sum(f, n) = Sum(g, n)
  <1>1. \A i \in 1..n : f[i] \in Nat /\ g[i] \in Nat /\ f[i] <= g[i] /\ g[i] <= f[i]
    OBVIOUS
  <1>2. Sum(f, n) \in Nat /\ Sum(g, n) \in Nat /\ Sum(f, n) <= Sum(g, n)
    BY Zenon, <1>1, SumLess
  <1>3. Sum(g, n) <= Sum(f, n)
    BY Zenon, <1>1, SumLess
  <1> QED BY <1>2, <1>3

\* What recordStorm does with one sample, after those that it kept.
Keep(kept, x) == IF Fresh(x) THEN Append(kept, x) ELSE kept

\* Its loop has a result, put together like the sums above.
LEMMA WindowDefined ==
  ASSUME NEW old
  PROVE  \E g : g = [i \in Nat |-> IF i = 0 THEN <<>> ELSE Keep(g[i - 1], old[i])]
  <1> DEFINE P(n, g) == g = [i \in 0..n |-> IF i = 0 THEN <<>> ELSE Keep(g[i - 1], old[i])]
             S == {n \in Nat : \E g : P(n, g)}
             part(n) == CHOOSE g : P(n, g)
             F == [n \in Nat |-> part(n)[n]]
  <1>1. 0 \in S
    <2>1. P(0, [i \in 0..0 |-> <<>>])
      OBVIOUS
    <2> QED BY Zenon, <2>1
  <1>2. ASSUME NEW n \in Nat, n \in S PROVE n + 1 \in S
    <2>1. PICK g : P(n, g)
      BY Zenon, <1>2
    <2> DEFINE h == [i \in 0..(n + 1) |-> IF i = n + 1 THEN Keep(g[n], old[n + 1]) ELSE g[i]]
    <2>2. \A i \in 0..(n + 1) : h[i] = IF i = 0 THEN <<>> ELSE Keep(h[i - 1], old[i])
      <3> SUFFICES ASSUME NEW i \in 0..(n + 1) PROVE h[i] = IF i = 0 THEN <<>> ELSE Keep(h[i - 1], old[i])
        BY Zenon
      <3>1. CASE i = 0
        BY <2>1, <3>1
      <3>2. CASE i = n + 1
        BY <3>2
      <3>3. CASE i \in 1..n
        BY <2>1, <3>3
      <3> QED BY <3>1, <3>2, <3>3
    <2>3. P(n + 1, h) /\ n + 1 \in Nat
      BY <2>2
    <2> HIDE DEF h
    <2> QED BY <2>3
  <1>3. Nat \subseteq S
    <2>1. \A n \in Nat : n \in S => n + 1 \in S
      BY Zenon, <1>2
    <2> HIDE DEF S
    <2> QED BY <1>1, <2>1, NatSetInduction
  <1>4. \A n \in Nat : P(n, part(n))
    BY Zenon, <1>3
  <1>5. ASSUME NEW n \in Nat PROVE part(n + 1)[n] = part(n)[n]
    <2> DEFINE g == part(n)
               h == part(n + 1)
               T == {i \in Nat : i <= n => g[i] = h[i]}
    <2>1. P(n, g) /\ P(n + 1, h)
      <3>1. n + 1 \in Nat
        OBVIOUS
      <3> HIDE DEF P, part
      <3> QED BY <1>4, <3>1
    <2> HIDE DEF g, h
    <2>2. 0 \in T
      <3>1. 0 \in 0..n /\ 0 \in 0..(n + 1)
        OBVIOUS
      <3>2. g[0] = <<>> /\ h[0] = <<>>
        BY Zenon, <2>1, <3>1
      <3> QED BY Zenon, <3>2
    <2>3. ASSUME NEW i \in Nat, i \in T PROVE i + 1 \in T
      <3> SUFFICES ASSUME i + 1 <= n PROVE g[i + 1] = h[i + 1]
        OBVIOUS
      <3>1. i + 1 \in 0..n /\ i + 1 \in 0..(n + 1) /\ (i + 1) - 1 = i /\ i + 1 # 0
        OBVIOUS
      <3>2. g[i + 1] = Keep(g[i], old[i + 1]) /\ h[i + 1] = Keep(h[i], old[i + 1])
        BY Zenon, <2>1, <3>1
      <3> QED BY <2>3, <3>2
    <2>4. Nat \subseteq T
      <3>1. \A i \in Nat : i \in T => i + 1 \in T
        BY <2>3
      <3> HIDE DEF T
      <3> QED BY <2>2, <3>1, NatSetInduction
    <2>5. g[n] = h[n]
      BY <2>4
    <2> QED BY Zenon, <2>5 DEF g, h
  <1>6. ASSUME NEW n \in Nat PROVE F[n] = IF n = 0 THEN <<>> ELSE Keep(F[n - 1], old[n])
    <2>1. P(n, part(n))
      BY Zenon, <1>4
    <2> HIDE DEF part
    <2>2. CASE n = 0
      BY <2>1, <2>2
    <2>3. CASE n # 0
      <3>1. n - 1 \in Nat /\ (n - 1) + 1 = n
        BY <2>3
      <3>2. part(n)[n - 1] = part(n - 1)[n - 1]
        BY <1>5, <3>1
      <3>3. part(n)[n] = Keep(part(n)[n - 1], old[n])
        BY <2>1, <2>3
      <3> QED BY Zenon, <2>3, <3>1, <3>2, <3>3
    <2> QED BY <2>2, <2>3
  <1>7. F = [n \in Nat |-> IF n = 0 THEN <<>> ELSE Keep(F[n - 1], old[n])]
    <2> DEFINE G == [n \in Nat |-> IF n = 0 THEN <<>> ELSE Keep(F[n - 1], old[n])]
    <2>1. F = [n \in Nat |-> F[n]]
      OBVIOUS
    <2> HIDE DEF F
    <2>2. \A n \in Nat : F[n] = G[n]
      BY Zenon, <1>6
    <2> QED BY Zenon, <2>1, <2>2
  <1> HIDE DEF F
  <1> QED BY <1>7

Samples == {x \in [age : Nat, packets : Nat, accepted : Nat] : x.accepted <= x.packets}

\* The packets that a window let through.
Passed(window) ==
    Sum([i \in DOMAIN window |-> IF Fresh(window[i]) THEN window[i].accepted ELSE 0], Len(window))

\* A window lets through no more than was offered.
LEMMA PassedLess ==
  ASSUME NEW s \in Seq(Samples)
  PROVE  Passed(s) \in Nat /\ Packets(s) \in Nat /\ Passed(s) <= Packets(s)
  <1> DEFINE f == [i \in DOMAIN s |-> IF Fresh(s[i]) THEN s[i].accepted ELSE 0]
             g == [i \in DOMAIN s |-> s[i].packets]
  <1>1. \A i \in 1..Len(s) : f[i] \in Nat /\ g[i] \in Nat /\ f[i] <= g[i]
    BY DEF Samples
  <1>2. Len(s) \in Nat
    OBVIOUS
  <1> HIDE DEF f, g
  <1>3. Sum(f, Len(s)) \in Nat /\ Sum(g, Len(s)) \in Nat /\ Sum(f, Len(s)) <= Sum(g, Len(s))
    BY Zenon, <1>1, <1>2, SumLess
  <1> QED BY Zenon, <1>3 DEF Passed, Packets, f, g

\* One sample more.
LEMMA AppendSums ==
  ASSUME NEW s \in Seq(Samples), NEW x \in Samples
  PROVE  /\ Append(s, x) \in Seq(Samples)
         /\ Packets(Append(s, x)) = Packets(s) + x.packets
         /\ Passed(Append(s, x)) = Passed(s) + (IF Fresh(x) THEN x.accepted ELSE 0)
  <1> DEFINE t == Append(s, x)
             n == Len(s)
             f == [i \in DOMAIN s |-> IF Fresh(s[i]) THEN s[i].accepted ELSE 0]
             g == [i \in DOMAIN s |-> s[i].packets]
             ff == [i \in DOMAIN t |-> IF Fresh(t[i]) THEN t[i].accepted ELSE 0]
             gg == [i \in DOMAIN t |-> t[i].packets]
  <1>1. n \in Nat /\ t \in Seq(Samples) /\ Len(t) = n + 1 /\ t[n + 1] = x /\ \A i \in 1..n : t[i] = s[i]
    OBVIOUS
  <1>2. DOMAIN s = 1..n /\ DOMAIN t = 1..(n + 1) /\ \A i \in 1..n : s[i] \in Samples
    BY <1>1
  <1> HIDE DEF t, n
  <1>3. /\ \A i \in 1..n : f[i] \in Nat /\ ff[i] = f[i]
        /\ \A i \in 1..n : g[i] \in Nat /\ gg[i] = g[i]
        /\ ff[n + 1] = IF Fresh(x) THEN x.accepted ELSE 0
        /\ gg[n + 1] = x.packets
    BY <1>1, <1>2 DEF Samples
  <1> HIDE DEF f, g, ff, gg
  <1>4. Sum(f, n) = Sum(ff, n) /\ Sum(g, n) = Sum(gg, n)
    BY Zenon, <1>1, <1>3, SumSame
  <1>5. Sum(ff, n + 1) = Sum(ff, n) + ff[n + 1] /\ Sum(gg, n + 1) = Sum(gg, n) + gg[n + 1]
    BY Zenon, <1>1, SumStep
  <1>6. Passed(t) = Sum(ff, n + 1) /\ Packets(t) = Sum(gg, n + 1)
    BY Zenon, <1>1 DEF Passed, Packets, ff, gg
  <1>7. Passed(s) = Sum(f, n) /\ Packets(s) = Sum(g, n)
    BY Zenon DEF Passed, Packets, f, g, n
  <1>8. Passed(t) = Passed(s) + (IF Fresh(x) THEN x.accepted ELSE 0) /\ Packets(t) = Packets(s) + x.packets
    BY Zenon, <1>3, <1>4, <1>5, <1>6, <1>7
  <1> QED BY Zenon, <1>1, <1>8 DEF t

\* recordStorm drops nothing that counts.
LEMMA RecordKeeps ==
  ASSUME NEW p, samples[p] \in Seq(Samples)
  PROVE  recordStorm(p) \in Seq(Samples) /\ Passed(recordStorm(p)) = Passed(samples[p])
  <1> DEFINE old == samples[p]
             n == Len(old)
             w == CHOOSE g : g = [i \in Nat |-> IF i = 0 THEN <<>> ELSE Keep(g[i - 1], old[i])]
             f == [i \in DOMAIN old |-> IF Fresh(old[i]) THEN old[i].accepted ELSE 0]
             T == {i \in Nat : i <= n => w[i] \in Seq(Samples) /\ Passed(w[i]) = Sum(f, i)}
  <1>1. w = [i \in Nat |-> IF i = 0 THEN <<>> ELSE Keep(w[i - 1], old[i])]
    <2> HIDE DEF old
    <2> QED BY Zenon, WindowDefined
  <1>2. recordStorm(p) = w[n]
    BY DEF recordStorm, Keep
  <1>3. n \in Nat /\ DOMAIN old = 1..n /\ \A i \in 1..n : old[i] \in Samples
    OBVIOUS
  <1>4. Passed(old) = Sum(f, n)
    BY DEF Passed
  <1>f. \A i \in 1..n : f[i] = IF Fresh(old[i]) THEN old[i].accepted ELSE 0
    BY Zenon, <1>3
  <1> HIDE DEF w, n, old, f
  <1>5. 0 \in T
    <2>1. w[0] = <<>> /\ Sum(f, 0) = 0
      BY <1>1, SumStep
    <2>2. <<>> \in Seq(Samples) /\ Len(<<>>) = 0
      OBVIOUS
    <2>3. Passed(<<>>) = 0
      BY Zenon, <2>2, SumStep DEF Passed
    <2> QED BY Zenon, <2>1, <2>2, <2>3
  <1>6. ASSUME NEW i \in Nat, i \in T PROVE i + 1 \in T
    <2> SUFFICES ASSUME i + 1 <= n
                 PROVE  w[i + 1] \in Seq(Samples) /\ Passed(w[i + 1]) = Sum(f, i + 1)
      OBVIOUS
    <2> DEFINE x == old[i + 1]
    <2>1. i + 1 \in 1..n /\ x \in Samples
      BY <1>3
    <2>2. w[i] \in Seq(Samples) /\ Passed(w[i]) = Sum(f, i) /\ Passed(w[i]) \in Nat
      BY <1>3, <1>6, PassedLess
    <2>3. w[i + 1] = Keep(w[i], x)
      BY <1>1
    <2>4. Sum(f, i + 1) = Sum(f, i) + (IF Fresh(x) THEN x.accepted ELSE 0)
      BY Zenon, <1>f, <2>1, SumStep
    <2> HIDE DEF x
    <2>5. CASE Fresh(x)
      <3>1. /\ Append(w[i], x) \in Seq(Samples)
            /\ Passed(Append(w[i], x)) = Passed(w[i]) + (IF Fresh(x) THEN x.accepted ELSE 0)
        BY Zenon, <2>1, <2>2, AppendSums
      <3> QED BY Zenon, <2>2, <2>3, <2>4, <2>5, <3>1 DEF Keep
    <2>6. CASE ~ Fresh(x)
      BY <2>2, <2>3, <2>4, <2>6 DEF Keep
    <2> QED BY Zenon, <2>5, <2>6
  <1>7. Nat \subseteq T
    <2>1. \A i \in Nat : i \in T => i + 1 \in T
      BY Zenon, <1>6
    <2> HIDE DEF T
    <2> QED BY Zenon, <1>5, <2>1, NatSetInduction
  <1>8. w[n] \in Seq(Samples) /\ Passed(w[n]) = Sum(f, n)
    BY <1>3, <1>7
  <1> QED BY <1>2, <1>4, <1>8 DEF old

\* What storm control keeps of one port: the window lets through no more than the
\* threshold, and the alarm tells the rate.
PortControlled(s, alarmed, late) ==
    /\ s \in Seq(Samples)
    /\ Passed(s) <= Threshold
    /\ late \/ (alarmed <=> Packets(s) > Threshold)

StormInv ==
    /\ samples \in [Ports -> Seq(Samples)]
    /\ alarm \in [Ports -> BOOLEAN]
    /\ \A p \in Ports : PortControlled(samples[p], alarm[p], p \in cut)

\* An injection: what it lets through is what the window has room for.
LEMMA InjectionStep ==
  ASSUME StormInv, NEW p \in Ports, NEW n \in Nat, Storm(p, n)
  PROVE  StormInv'
  <1> DEFINE w == recordStorm(p)
             before == Packets(w)
             x == [age |-> 0, packets |-> n, accepted |-> Accepted(before, n)]
  <1>1. /\ w \in Seq(Samples) /\ Passed(w) <= Threshold
        /\ Passed(w) \in Nat /\ before \in Nat /\ Passed(w) <= before
    BY Zenon, RecordKeeps, PassedLess DEF StormInv, PortControlled
  <1>2. /\ samples' = [samples EXCEPT ![p] = Append(w, x)]
        /\ \/ alarm' = [alarm EXCEPT ![p] = (before + n > Threshold)] /\ cut' = cut \ {p}
           \/ alarm' = alarm /\ cut' = cut \cup {p}
    BY Zenon DEF Storm, reportStorm
  <1> HIDE DEF w, before
  <1>3. Threshold \in Nat /\ Window \in Nat
    BY BridgeAssumption
  <1>4. /\ Accepted(before, n) \in Nat /\ Accepted(before, n) <= n
        /\ Passed(w) + Accepted(before, n) <= Threshold
    BY <1>1, <1>3 DEF Accepted
  <1>5. x \in Samples /\ Fresh(x) /\ x.packets = n /\ x.accepted = Accepted(before, n)
    BY <1>3, <1>4 DEF Samples, Fresh
  <1> HIDE DEF x
  <1>6. /\ Append(w, x) \in Seq(Samples)
        /\ Packets(Append(w, x)) = before + n
        /\ Passed(Append(w, x)) <= Threshold
    BY Zenon, <1>1, <1>4, <1>5, AppendSums DEF before
  <1>7. /\ samples' \in [Ports -> Seq(Samples)]
        /\ samples'[p] = Append(w, x) /\ \A q \in Ports \ {p} : samples'[q] = samples[q]
    BY Zenon, <1>2, <1>6 DEF StormInv
  <1>8. /\ alarm' \in [Ports -> BOOLEAN]
        /\ \A q \in Ports \ {p} : alarm'[q] = alarm[q] /\ (q \in cut' <=> q \in cut)
    <2> DEFINE over == before + n > Threshold
    <2>1. alarm \in [Ports -> BOOLEAN] /\ over \in BOOLEAN
      BY DEF StormInv
    <2>2. /\ \/ alarm' = [alarm EXCEPT ![p] = over]
             \/ alarm' = alarm
          /\ cut' = cut \ {p} \/ cut' = cut \cup {p}
      BY Zenon, <1>2
    <2> HIDE DEF over
    <2> QED BY Zenon, <2>1, <2>2
  <1>9. p \in cut' \/ (alarm'[p] <=> before + n > Threshold)
    <2>1. CASE alarm' = [alarm EXCEPT ![p] = (before + n > Threshold)]
      BY <2>1, Zenon DEF StormInv
    <2> QED BY <1>2, <2>1
  <1>10. PortControlled(samples'[p], alarm'[p], p \in cut')
    BY Zenon, <1>6, <1>7, <1>9 DEF PortControlled
  <1>11. ASSUME NEW q \in Ports \ {p} PROVE PortControlled(samples'[q], alarm'[q], q \in cut')
    <2>1. PortControlled(samples[q], alarm[q], q \in cut)
      BY DEF StormInv
    <2> QED BY Zenon, <1>7, <1>8, <2>1 DEF PortControlled
  <1> QED BY Zenon, <1>7, <1>8, <1>10, <1>11 DEF StormInv

\* Samples that grow older count for less, and leave the rate that was reported.
LEMMA SamplesAge ==
  ASSUME StormInv, Elapse
  PROVE  StormInv'
  <1>1. /\ samples' = [p \in Ports |-> [i \in DOMAIN samples[p] |->
                         [samples[p][i] EXCEPT !.age = IF @ <= Window THEN @ + 1 ELSE @]]]
        /\ UNCHANGED <<alarm, cut>>
    BY Zenon DEF Elapse
  <1>2. ASSUME NEW p \in Ports
        PROVE  samples'[p] \in Seq(Samples) /\ Packets(samples'[p]) = Packets(samples[p])
               /\ Passed(samples'[p]) <= Passed(samples[p]) /\ Passed(samples'[p]) \in Nat
    <2> DEFINE s == samples[p]
               t == samples'[p]
               n == Len(s)
    <2>1. s \in Seq(Samples) /\ n \in Nat /\ DOMAIN s = 1..n /\ \A i \in 1..n : s[i] \in Samples
      BY DEF StormInv
    <2>2. t = [i \in DOMAIN s |-> [s[i] EXCEPT !.age = IF @ <= Window THEN @ + 1 ELSE @]]
      BY <1>1
    <2> HIDE DEF s, t, n
    <2>3. ASSUME NEW i \in 1..n
          PROVE  /\ t[i] \in Samples /\ t[i].packets = s[i].packets /\ t[i].accepted = s[i].accepted
                 /\ Fresh(t[i]) => Fresh(s[i])
      <3>1. s[i] \in Samples /\ t[i] = [s[i] EXCEPT !.age = IF @ <= Window THEN @ + 1 ELSE @]
        BY <2>1, <2>2
      <3>2. Window \in Nat
        BY Zenon, BridgeAssumption
      <3> QED BY <3>1, <3>2 DEF Samples, Fresh
    <2>4. DOMAIN t = 1..n /\ t \in Seq(Samples) /\ Len(t) = n
      <3>1. t \in [1..n -> Samples]
        BY Zenon, <2>1, <2>2, <2>3
      <3> QED BY <2>1, <3>1
    <2> DEFINE f == [i \in DOMAIN s |-> IF Fresh(s[i]) THEN s[i].accepted ELSE 0]
               ff == [i \in DOMAIN t |-> IF Fresh(t[i]) THEN t[i].accepted ELSE 0]
               g == [i \in DOMAIN s |-> s[i].packets]
               gg == [i \in DOMAIN t |-> t[i].packets]
    <2>5. \A i \in 1..n : /\ ff[i] \in Nat /\ f[i] \in Nat /\ ff[i] <= f[i]
                          /\ g[i] \in Nat /\ gg[i] = g[i]
      BY <2>1, <2>3, <2>4 DEF Samples
    <2>6. Passed(s) = Sum(f, n) /\ Packets(s) = Sum(g, n)
      BY DEF Passed, Packets, n
    <2>7. Passed(t) = Sum(ff, n) /\ Packets(t) = Sum(gg, n)
      BY <2>4 DEF Passed, Packets
    <2> HIDE DEF f, ff, g, gg
    <2>8. Sum(ff, n) <= Sum(f, n) /\ Sum(ff, n) \in Nat
      BY Zenon, <2>1, <2>5, SumLess
    <2>9. Sum(g, n) = Sum(gg, n)
      BY <2>1, <2>5, SumSame
    <2>10. t \in Seq(Samples) /\ Packets(t) = Packets(s) /\ Passed(t) <= Passed(s) /\ Passed(t) \in Nat
      BY Zenon, <2>4, <2>6, <2>7, <2>8, <2>9
    <2> QED BY Zenon, <2>10 DEF s, t
  <1>3. ASSUME NEW p \in Ports PROVE PortControlled(samples'[p], alarm'[p], p \in cut')
    <2>1. PortControlled(samples[p], alarm[p], p \in cut) /\ Passed(samples[p]) \in Nat
      BY Zenon, PassedLess DEF StormInv
    <2>2. Passed(samples'[p]) <= Threshold
      BY SMTT(30), <1>2, <2>1, BridgeAssumption DEF PortControlled
    <2> QED BY Zenon, <1>1, <1>2, <2>1, <2>2 DEF PortControlled
  <1>4. samples' \in [Ports -> Seq(Samples)]
    BY Zenon, <1>1, <1>2
  <1> QED BY Zenon, <1>1, <1>3, <1>4 DEF StormInv

\* Storm control starts with empty windows and no alarm.
LEMMA StormStarts == Init => StormInv
  <1> SUFFICES ASSUME Init PROVE StormInv
    OBVIOUS
  <1>1. samples = [p \in Ports |-> <<>>] /\ alarm = [p \in Ports |-> FALSE]
    BY DEF Init
  <1>2. <<>> \in Seq(Samples) /\ Len(<<>>) = 0
    OBVIOUS
  <1>3. Passed(<<>>) = 0 /\ Packets(<<>>) = 0
    BY Zenon, <1>2, SumStep DEF Passed, Packets
  <1>4. ~ (0 > Threshold) /\ 0 <= Threshold
    BY BridgeAssumption
  <1> QED BY Zenon, <1>1, <1>2, <1>3, <1>4 DEF StormInv, PortControlled

\* Of the requests only injections touch it.
LEMMA RequestsControlled ==
  ASSUME StormInv, Requests
  PROVE  StormInv'
  <1>1. CASE UNCHANGED stormVars
    BY Zenon, <1>1 DEF stormVars, StormInv, PortControlled, Packets, Passed
  <1>2. ASSUME NEW p \in Ports, NEW n \in Storms, Storm(p, n) PROVE StormInv'
    BY Zenon, <1>2, InjectionStep, BridgeAssumption
  <1>3. UNCHANGED stormVars \/ \E p \in Ports, n \in Storms : Storm(p, n)
    BY Zenon DEF Requests, Learn, SetStatic, Transmit, DeleteMAC, FlushMAC, CreateVLAN, ReplaceVLAN,
           SetMember, RemoveMember, DeleteVLAN, VlanRequest
  <1> QED BY <1>1, <1>2, <1>3
=============================================================================
