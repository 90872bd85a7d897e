------------------------------- MODULE Bridge -------------------------------
(***************************************************************************)
(* The forwarding side of the L2 domain (internal/l2): the VLANs and their *)
(* member ports (vlan.go), the MAC table with learning and aging (mac.go), *)
(* the frame simulation (counters.go) and storm control (storm.go).        *)
(*                                                                         *)
(* A request holds Manager.mu from the snapshot it decides on to the last  *)
(* leaf it writes, and so does the aging sweep of the tick.  The planes do *)
(* not take that lock: their edits come in between any two steps.  A       *)
(* request on the MAC table and the sweep are therefore an action that     *)
(* reads and decides, and then one action for each leaf that is written or *)
(* deleted; the context of the caller can be cancelled before each.  A     *)
(* request on the VLANs or for a storm, which no plane interferes with     *)
(* here, is one action with a second outcome, that of the request that is  *)
(* cut off.  The interface counters are left out.                          *)
(*                                                                         *)
(* Times are lengths in ticks of a clock that has Second of them to a      *)
(* second; nothing holds an absolute time.                                 *)
(***************************************************************************)
EXTENDS Integers, FiniteSets, Sequences, LeafOrder

CONSTANTS
    Stations,       \* MAC addresses, in their canonical form
    NumPorts,       \* bridge ports are numbered from 1
    Vlans,          \* VLAN identifiers, 0 is none
    MaxEntries,     \* mac-table/max-entries
    AgingTime,      \* mac-table/aging-time, in seconds
    Second,
    TickInterval,   \* at least this passes between two sweeps
    MaxGap,         \* and at most this: a tick can be late
    Window,         \* stormWindow
    Threshold,      \* stormThreshold, in packets per window
    Storms,         \* sizes of the injections
    Budgets,        \* bounds on the requests and the edits of the planes:
                    \* [mac, vlan, storm, edits] in turn
    None

ASSUME BridgeAssumption ==
    /\ {NumPorts, MaxEntries, AgingTime, Second, Window, Threshold} \subseteq Nat \ {0}
    /\ Stations # {}
    /\ Vlans \subseteq Nat \ {0}
    /\ TickInterval \in Nat \ {0}
    /\ MaxGap \in Nat /\ MaxGap >= TickInterval
    /\ Storms \subseteq Nat \ {0}

Ports == 1..NumPorts

VARIABLES
    vlans,      \* the member ports of each VLAN there is
    table,      \* the entries of the MAC table
    count,      \* mac-table/current-count
    since,      \* time since lastAging
    work,       \* what the request or sweep under way has yet to do to the table,
                \* or None; it holds Manager.mu
    samples,    \* stormSamples: [age, packets, accepted] per port
    alarm,      \* stormAlarm
    budget,     \* the requests of each kind there are still to come
    edits,      \* how many edits the planes made
    seen,       \* history: time since an entry got its age of zero
    lead,       \* history: time from the sweep before that to that moment
    stale,      \* history: entries came or went and nobody counted them since
    cut         \* history: ports whose last injection was cut off

tableVars == <<table, count, seen, lead, stale>>

stormVars == <<samples, alarm, cut>>

vars == <<vlans, tableVars, stormVars, since, work, budget, edits>>
-----------------------------------------------------------------------------
Entry == [vlan : Vlans \cup {0}, port : Ports \cup {0}, type : {"dynamic", "static", "unset"},
          permanent : {"yes", "no", "unset"}, age : Nat \cup {None}]

LeafNames == {"vlan", "port", "type", "permanent", "age"}

Tables == UNION {[ms -> Entry] : ms \in SUBSET Stations}

\* An operation on the table from its snapshot on: the entries it has yet to
\* write, or to remove (Zero); the one it is at and the leaves left of that;
\* whether the count is to be published, and what was counted.  History: the
\* entries that planes edited since the snapshot.
Operations ==
    [op : {"learn", "static", "delete", "flush", "age"}, todo : Tables,
     at : Stations \cup {None}, left : SUBSET LeafNames, recount : BOOLEAN,
     counted : Nat \cup {None}, edited : SUBSET Stations]

\* None is nothing else.
ASSUME NoneAssumption == None \notin Nat /\ None \notin Stations /\ None \notin Operations

\* An entry none of whose leaves is stored.
Zero == [vlan |-> 0, port |-> 0, type |-> "unset", permanent |-> "unset", age |-> None]

Known == DOMAIN table

Found(m) == IF m \in Known THEN table[m] ELSE Zero

With(t, m, e) == [x \in DOMAIN t \cup {m} |-> IF x = m THEN e ELSE t[x]]

Without(t, ms) == [x \in DOMAIN t \ ms |-> t[x]]

\* An entry is gone with its last leaf.
Put(t, m, e) == IF e = Zero THEN Without(t, {m}) ELSE With(t, m, e)

\* The leaves in which two entries differ, and those that are stored.
Differ(e, f) ==
    UNION { IF e.vlan # f.vlan THEN {"vlan"} ELSE {}, IF e.port # f.port THEN {"port"} ELSE {},
            IF e.type # f.type THEN {"type"} ELSE {}, IF e.age # f.age THEN {"age"} ELSE {},
            IF e.permanent # f.permanent THEN {"permanent"} ELSE {} }

StoredLeaves(e) == Differ(e, Zero)

\* Entry old with some leaves taken from entry new.
Patch(old, new, leaves) ==
    LET From(leaf) == IF leaf \in leaves THEN new ELSE old
    IN  [vlan |-> From("vlan").vlan, port |-> From("port").port, type |-> From("type").type,
         permanent |-> From("permanent").permanent, age |-> From("age").age]

\* The order in which writeMAC stores the leaves, and removeSubtree deletes them.
WriteOrder == <<"vlan", "port", "type", "permanent", "age">>

RemoveOrder == <<"age", "permanent", "port", "type", "vlan">>

portAccepts(p, v) == v \in DOMAIN vlans /\ p \in vlans[v]

Request(kind) ==
    /\ work = None
    /\ budget[kind] > 0
    /\ budget' = [budget EXCEPT ![kind] = @ - 1]
    /\ UNCHANGED <<since, edits>>

\* An operation that has read its snapshot.
Work(op, todo, recount) ==
    [op |-> op, todo |-> todo, at |-> None, left |-> {}, recount |-> recount,
     counted |-> None, edited |-> {}]

\* The operation, done with these leaves but for the ones that are left.
Onward(w, left) ==
    IF left # {} THEN [w EXCEPT !.left = left]
    ELSE [w EXCEPT !.left = {}, !.at = None, !.todo = Without(w.todo, {w.at}),
                   !.recount = w.recount \/ w.todo[w.at] = Zero]

\* The aging of an entry starts over, and matters no more once it is gone.
Ageing(m, again) ==
    IF again \/ m \notin DOMAIN table'
    THEN /\ seen' = [seen EXCEPT ![m] = 0]
         /\ lead' = [lead EXCEPT ![m] = IF m \in DOMAIN table' THEN since ELSE 0]
    ELSE UNCHANGED <<seen, lead>>
-----------------------------------------------------------------------------
(***************************************************************************)
(* The steps of an operation on the table.                                 *)
(***************************************************************************)

\* The next entry: removeSubtree lists its leaves, writeMAC has its own.
TakeEntry(m) ==
    /\ work # None /\ work.at = None
    /\ m \in DOMAIN work.todo
    /\ work' = Onward([work EXCEPT !.at = m],
                      StoredLeaves(IF work.todo[m] = Zero THEN Found(m) ELSE work.todo[m]))
    /\ UNCHANGED <<vlans, tableVars, stormVars, since, budget, edits>>

Removes == work.todo[work.at] = Zero

\* A leaf that is gone although it was listed: removeSubtree fails.
Lost(leaf) == Removes /\ leaf \notin StoredLeaves(Found(work.at))

NextLeaf(leaf) ==
    /\ work # None /\ work.at # None
    /\ Leads(IF Removes THEN RemoveOrder ELSE WriteOrder, leaf, work.left)

\* writeMAC, removeMAC and the aging of an entry, leaf by leaf.  A request that
\* stores an age stores zero, a sweep does not.
WriteLeaf(leaf) ==
    LET m == work.at
    IN  /\ NextLeaf(leaf)
        /\ ~ Lost(leaf)
        /\ table' = Put(table, m, Patch(Found(m), work.todo[m], {leaf}))
        /\ work' = Onward(work, work.left \ {leaf})
        /\ stale' = (stale \/ DOMAIN table' # Known)
        /\ Ageing(m, \/ m \notin Known /\ work.op # "age"
                     \/ leaf = "age" /\ work.todo[m].age \in {0, None})
        /\ UNCHANGED <<count, vlans, stormVars, since, budget, edits>>

\* The operation ends with the error, and counts nothing.
LoseLeaf(leaf) ==
    /\ NextLeaf(leaf)
    /\ Lost(leaf)
    /\ work' = None
    /\ UNCHANGED <<vlans, tableVars, stormVars, since, budget, edits>>

Through == work # None /\ work.at = None /\ DOMAIN work.todo = {}

\* syncCount counts the entries, then publishes the number.
syncCount ==
    /\ Through /\ work.recount /\ work.counted = None
    /\ work' = [work EXCEPT !.counted = Cardinality(Known)]
    /\ stale' = FALSE
    /\ UNCHANGED <<table, count, seen, lead, vlans, stormVars, since, budget, edits>>

EndWork ==
    /\ Through
    /\ work.recount => work.counted # None
    /\ count' = IF work.recount THEN work.counted ELSE count
    /\ work' = None
    /\ UNCHANGED <<table, seen, lead, stale, vlans, stormVars, since, budget, edits>>

WorkStep ==
    /\ work # None
    /\ \/ \E m \in DOMAIN work.todo : TakeEntry(m)
       \/ \E leaf \in work.left : WriteLeaf(leaf) \/ LoseLeaf(leaf)
       \/ syncCount
       \/ EndWork

\* The context of a request is cancelled.
CutOff ==
    /\ work # None /\ work.op # "age"
    /\ work' = None
    /\ stale' = (stale \/ work.counted # None)
    /\ UNCHANGED <<table, count, seen, lead, vlans, stormVars, since, budget, edits>>
-----------------------------------------------------------------------------
(***************************************************************************)
(* The MAC table.                                                          *)
(***************************************************************************)
Full(m) == m \notin Known /\ Cardinality(Known) >= MaxEntries

Static(m) == m \in Known /\ table[m].type = "static"

Learned(m, v, p) ==
    [vlan |-> v, port |-> p, type |-> "dynamic",
     permanent |-> IF Found(m).permanent = "yes" THEN "yes" ELSE "no", age |-> 0]

\* Mutant: one entry too many.
MayLearnFull(m) == ~ Static(m) /\ (m \notin Known => Cardinality(Known) <= MaxEntries)

\* Mutant: learning replaces a static entry.
MayLearnStatic(m) == ~ Full(m)

\* learn goes on to write: a static entry is returned as it is, a full table
\* is an error.
MayLearn(m) == ~ Static(m) /\ ~ Full(m)

Only(m, entry) == [x \in {m} |-> entry]

learn(m, v, p) ==
    work' = IF MayLearn(m) THEN Work("learn", Only(m, Learned(m, v, p)), TRUE) ELSE None

Learn(m, v, p) ==
    /\ Request("mac")
    /\ portAccepts(p, v)
    /\ MayLearn(m)
    /\ learn(m, v, p)
    /\ UNCHANGED <<vlans, tableVars, stormVars>>

SetStatic(m, v, p) ==
    /\ Request("mac")
    /\ ~ Full(m)
    /\ work' = Work("static", Only(m, [vlan |-> v, port |-> p, type |-> "static",
                                       permanent |-> "yes", age |-> 0]), TRUE)
    /\ UNCHANGED <<vlans, tableVars, stormVars>>

DeleteMAC(m) ==
    /\ Request("mac")
    /\ m \in Known
    /\ work' = Work("delete", Only(m, Zero), TRUE)
    /\ UNCHANGED <<vlans, tableVars, stormVars>>

\* Flushes VLAN v, or all of them when v is 0.
FlushMAC(v) ==
    LET out == {m \in Known : table[m].type = "dynamic" /\ v \in {0, table[m].vlan}}
    IN  /\ Request("mac")
        /\ out # {}
        /\ work' = Work("flush", [m \in out |-> Zero], FALSE)
        /\ UNCHANGED <<vlans, tableVars, stormVars>>
-----------------------------------------------------------------------------
(***************************************************************************)
(* The planes.  An edit of running reads the device, validates what it     *)
(* proposes, and then writes the leaves it changed, without Manager.mu;    *)
(* a commit does so in one step.                                           *)
(***************************************************************************)

\* An entry that a startup file brought back or a plane creates: configuration,
\* no state.
Restored(m) ==
    [Zero EXCEPT !.port = CHOOSE p \in Ports : TRUE, !.type = "dynamic", !.permanent = "no"]

\* What validation asks of the table before it accepts an edit of a plane.
ValidEntry(e) == e.type # "unset" /\ e.port # 0 /\ (e.permanent = "yes" => e.type = "static")

TableValid(t) == count <= MaxEntries /\ \A m \in DOMAIN t : ValidEntry(t[m])

\* A delete takes the configuration of an entry, and leaves an age in place.
PlaneDeletes(m) == [Zero EXCEPT !.age = Found(m).age]

\* An entry is configured, or created: the list is creatable, and no limit but
\* that on current-count is checked.  The age stays as it is.
PlaneWrites(m, type) ==
    [(IF m \in Known THEN table[m] ELSE Restored(m)) EXCEPT
        !.type = type, !.permanent = IF type = "static" THEN "yes" ELSE "no"]

\* The entries that a plane may propose for m, and validation accepts.
Proposals(m) ==
    {e \in {PlaneDeletes(m), PlaneWrites(m, "dynamic"), PlaneWrites(m, "static")} :
        e # Found(m) /\ TableValid(Put(table, m, e))}

\* The edit that read old and proposed new writes its differences.  An entry that
\* the sweep under way has yet to deal with is, to that sweep, the one it read.
PlaneApplies(m, old, new) ==
    /\ edits < budget.edits
    /\ edits' = edits + 1
    /\ table' = Put(table, m, Patch(Found(m), new, Differ(old, new)))
    /\ work' = IF work = None THEN None ELSE [work EXCEPT !.edited = @ \cup {m}]
    /\ stale' = (stale \/ DOMAIN table' # Known)
    /\ IF work # None /\ work.op = "age" /\ m \in DOMAIN work.todo THEN UNCHANGED <<seen, lead>>
       ELSE Ageing(m, m \notin Known)
    /\ UNCHANGED <<count, vlans, stormVars, since, budget>>
-----------------------------------------------------------------------------
(***************************************************************************)
(* The aging sweep.                                                        *)
(***************************************************************************)

\* Mutant: the age that is stored is not read back.
OlderForgets(m, elapsed) == elapsed

Older(m, elapsed) == (IF table[m].age = None THEN 0 ELSE table[m].age) + elapsed

\* What becomes of a dynamic entry of the snapshot: it goes, or grows older.
Aged(m, elapsed) ==
    IF Older(m, elapsed) >= AgingTime THEN Zero ELSE [Zero EXCEPT !.age = Older(m, elapsed)]

\* A sweep less than a second after the one before it has nothing to do, nor has
\* one that finds no dynamic entry.
Sweep(elapsed) ==
    LET dynamic == {m \in Known : table[m].type = "dynamic"}
    IN  IF elapsed = 0 \/ dynamic = {} THEN None
        ELSE Work("age", [m \in dynamic |-> Aged(m, elapsed)], FALSE)

\* Mutant: lastAging keeps the time of an earlier sweep.
ageKeepsTime ==
    /\ work = None
    /\ since >= TickInterval
    /\ UNCHANGED since
    /\ work' = Sweep(since \div Second)
    /\ UNCHANGED <<vlans, tableVars, stormVars, budget, edits>>

\* age, up to the snapshot
age ==
    /\ work = None
    /\ since >= TickInterval
    /\ since' = 0
    /\ work' = Sweep(since \div Second)
    /\ UNCHANGED <<vlans, tableVars, stormVars, budget, edits>>

\* A request, a sweep or an edit takes no time on this clock; ages are kept up to
\* where they matter.
Elapse ==
    /\ work = None
    /\ since < MaxGap
    /\ since' = since + 1
    /\ seen' = [m \in Stations |-> IF m \in Known /\ seen[m] < AgingTime * Second
                                   THEN seen[m] + 1 ELSE seen[m]]
    /\ samples' = [p \in Ports |-> [i \in DOMAIN samples[p] |->
                     [samples[p][i] EXCEPT !.age = IF @ <= Window THEN @ + 1 ELSE @]]]
    /\ UNCHANGED <<vlans, table, count, lead, stale, alarm, cut, work, budget, edits>>
-----------------------------------------------------------------------------
(***************************************************************************)
(* VLANs.  Ports are written and removed in the order of their numbers, so *)
(* a request that is cut off has dealt with those up to some port.         *)
(***************************************************************************)
Upto(ps, k) == {p \in ps : p <= k}

VlanRequest(v, members) ==
    /\ Request("vlan")
    /\ vlans' = With(vlans, v, members)
    /\ UNCHANGED <<tableVars, stormVars, work>>

\* The last of the ports is the request that runs to its end.
CreateVLAN(v, ports) ==
    /\ v \notin DOMAIN vlans
    /\ \E k \in 0..NumPorts : VlanRequest(v, Upto(ports, k))

\* ReplaceVLAN drops the members that are not listed, then writes the others.
ReplaceVLAN(v, ports) ==
    /\ v \in DOMAIN vlans
    /\ \E k \in Ports :
          \/ VlanRequest(v, vlans[v] \ Upto(vlans[v] \ ports, k))
          \/ VlanRequest(v, (vlans[v] \cap ports) \cup Upto(ports, k))

DeleteVLAN(v) ==
    /\ v \in DOMAIN vlans
    /\ \/ /\ Request("vlan")
          /\ vlans' = Without(vlans, {v})
          /\ UNCHANGED <<tableVars, stormVars, work>>
       \/ \E k \in Ports : vlans[v] \ Upto(vlans[v], k) # {}
                           /\ VlanRequest(v, vlans[v] \ Upto(vlans[v], k))

SetMember(v, p) ==
    /\ v \in DOMAIN vlans
    /\ VlanRequest(v, vlans[v] \cup {p})

RemoveMember(v, p) ==
    /\ portAccepts(p, v)
    /\ VlanRequest(v, vlans[v] \ {p})

\* Transmit: a frame that its port carries and that fits is counted, its source
\* is learned if there is room, and it is forwarded.
Transmit(m, v, p) ==
    /\ Request("mac")
    /\ portAccepts(p, v)
    /\ learn(m, v, p)
    /\ UNCHANGED <<vlans, tableVars, stormVars>>
-----------------------------------------------------------------------------
(***************************************************************************)
(* Storm control.                                                          *)
(***************************************************************************)
\* The sum of the first n values of f.
Sum(f, n) ==
    LET sum[i \in Nat] == IF i = 0 THEN 0 ELSE sum[i - 1] + f[i]
    IN  sum[n]

Fresh(x) == x.age <= Window

\* The samples of the port that recordStorm keeps, and the packets they hold.  The
\* rate is a uint32, which a few injections do not fill.
recordStorm(p) ==
    LET old == samples[p]
        window[i \in Nat] ==
            IF i = 0 THEN <<>>
            ELSE IF Fresh(old[i]) THEN Append(window[i - 1], old[i]) ELSE window[i - 1]
    IN  window[Len(old)]

Packets(window) == Sum([i \in DOMAIN window |-> window[i].packets], Len(window))

\* Mutant: what was offered before is not taken off the limit.
AcceptedAlone(before, packets) == IF packets <= Threshold THEN packets ELSE Threshold

\* The packets that storm control lets through.
Accepted(before, packets) ==
    CASE before + packets <= Threshold -> packets
      [] before + packets > Threshold /\ before < Threshold -> Threshold - before
      [] OTHER -> 0

reportStorm(p, storming) == alarm' = [alarm EXCEPT ![p] = storming]

Storm(p, packets) ==
    LET window == recordStorm(p)
        before == Packets(window)
    IN  /\ Request("storm")
        /\ samples' = [samples EXCEPT ![p] = Append(window,
                         [age |-> 0, packets |-> packets, accepted |-> Accepted(before, packets)])]
        /\ \/ /\ reportStorm(p, before + packets > Threshold)
              /\ cut' = cut \ {p}
           \/ /\ UNCHANGED alarm           \* cut off while the counters move
              /\ cut' = cut \cup {p}
        /\ UNCHANGED <<vlans, tableVars, work>>
-----------------------------------------------------------------------------
Requests ==
    \/ \E m \in Stations, v \in Vlans, p \in Ports :
           Learn(m, v, p) \/ SetStatic(m, v, p) \/ Transmit(m, v, p)
    \/ \E m \in Stations : DeleteMAC(m)
    \/ \E v \in Vlans \cup {0} : FlushMAC(v)
    \/ \E v \in Vlans, ports \in SUBSET Ports : CreateVLAN(v, ports) \/ ReplaceVLAN(v, ports)
    \/ \E v \in Vlans, p \in Ports : SetMember(v, p) \/ RemoveMember(v, p)
    \/ \E v \in Vlans : DeleteVLAN(v)
    \/ \E p \in Ports, n \in Storms : Storm(p, n)

\* After the first tick, which has nothing to age.
Init ==
    /\ vlans = [v \in Vlans |-> Ports]
    /\ \E ms \in SUBSET {CHOOSE m \in Stations : TRUE} : table = [m \in ms |-> Restored(m)]
    /\ count = Cardinality(Known)
    /\ since = 0
    /\ work = None
    /\ samples = [p \in Ports |-> <<>>]
    /\ alarm = [p \in Ports |-> FALSE]
    /\ \E b \in Budgets :
           /\ b.mac >= Cardinality(Known)
           /\ budget = [b EXCEPT !.mac = @ - Cardinality(Known)]
    /\ edits = 0
    /\ seen = [m \in Stations |-> 0]
    /\ lead = [m \in Stations |-> 0]
    /\ stale = (Known # {})
    /\ cut = {}
-----------------------------------------------------------------------------
\* The type invariant.
TypeOK ==
    /\ DOMAIN vlans \subseteq Vlans
    /\ \A v \in DOMAIN vlans : vlans[v] \subseteq Ports
    /\ Known \subseteq Stations
    /\ \A m \in Known : table[m] \in Entry
    /\ count \in 0..Cardinality(Stations)
    /\ since \in 0..MaxGap
    /\ work # None =>
           /\ work \in Operations
           /\ work.at \in DOMAIN work.todo \cup {None}
           /\ work.at # None => work.left # {}
    /\ \A p \in Ports : \A i \in DOMAIN samples[p] :
           samples[p][i].accepted \in 0..samples[p][i].packets
    /\ alarm \in [Ports -> BOOLEAN]

(***************************************************************************)
(* The table never outgrows max-entries by learning, static entries,       *)
(* frames, the leaves that cancelled requests leave behind or entries that *)
(* a request or a sweep writes back: only the entries that planes create   *)
(* come on top.  And current-count is the number of entries, unless a      *)
(* request was cut off or failed, a plane edited the table, or an          *)
(* operation is under way: every operation of the manager that runs to its *)
(* end republishes it.                                                     *)
(***************************************************************************)
TableAccounted ==
    /\ Cardinality(Known) <= MaxEntries + edits
    /\ count # Cardinality(Known) => stale \/ work # None

(***************************************************************************)
(* "A permanent (static) entry is never overwritten by learning",          *)
(* "Permanent entries survive" a flush, and a sweep leaves them alone: a   *)
(* leaf of a static entry changes by SetStatic or DeleteMAC of that entry, *)
(* or by a plane.  The code keeps this but for one case: learning, a flush *)
(* or a sweep goes by the snapshot it read, so an entry that a plane has   *)
(* edited since then is overwritten or removed whatever it is by now.      *)
(***************************************************************************)
StaticStays ==
    [][ \A m \in Known :
          (Static(m) /\ (m \in Known' => table'[m] # table[m])) =>
              \/ edits' = edits + 1
              \/ work.at = m /\ (work.op \in {"static", "delete"} \/ m \in work.edited) ]_vars

(***************************************************************************)
(* A sweep adds the whole time since the sweep before to every dynamic     *)
(* entry, those learned in between included.  It therefore expires an      *)
(* entry early, but by no more than the time from that earlier sweep to    *)
(* the moment the entry was learned.                                       *)
(***************************************************************************)
ExpiresNotEarly ==
    [][ \A m \in Known :
          TakeEntry(m) /\ work.op = "age" /\ work.todo[m] = Zero
              => AgingTime * Second <= seen[m] + lead[m] ]_vars

(***************************************************************************)
(* Aging empties the table: once requests stop, no dynamic entry stays,    *)
(* however the ticks and the rounding to whole seconds fall.               *)
(***************************************************************************)
DynamicEntriesExpire == <>[](\A m \in Known : table[m].type # "dynamic")

(***************************************************************************)
(* Storm control lets no more than the threshold through in any window,    *)
(* whatever was offered, accepted or cut off before; and its alarm stands  *)
(* while the rate of the last injection was above the threshold, and only  *)
(* then, unless that injection was cut off before it could report.         *)
(***************************************************************************)
StormControlled ==
    \A p \in Ports :
        /\ LET passed == [i \in DOMAIN samples[p] |->
                              IF Fresh(samples[p][i]) THEN samples[p][i].accepted ELSE 0]
           IN  Sum(passed, Len(samples[p])) <= Threshold
        /\ p \notin cut => (alarm[p] <=> Packets(samples[p]) > Threshold)
=============================================================================
