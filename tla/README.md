# Verification of TriadSim

TriadSim simulates a telecom network element: one Go process with a
configuration store, a router, an event bus, three domains (radio, L2,
synchronization) and four management planes (NETCONF, RESTCONF, gNMI, SNMP).
This directory holds TLA+ models of its stateful parts, the TLC runs that check
them on small instances, and TLAPS proofs, for every instance, of the safety of
most of them.

`PROJECT.json` lists the components, the runs with their properties, one mutant
for each property (a plausible bug that the property detects), the source lines
of every definition, the findings, the hazards and the theorems.

## The system and how its parts interact

The store (`internal/store`) keeps `running`, `candidate` and `startup` under
one lock and saves the configuration to `startup.json`. The router
(`internal/router`) gives the planes paths and validation, and one transaction
lock, `txMu`, that every edit holds from the snapshot it reads to the batch it
writes. The domains tick, read a snapshot of running and write state leaves to
it **leaf by leaf, without `txMu`**. NETCONF commits candidate; a confirmed
commit is rolled back by a timer, or when its session ends. The domains publish
alarms and changes on the bus (`internal/event`), whose channels are bounded and
lossy; NETCONF subscriptions, gNMI streams, SNMP traps and the synchronization
domain read it.

Nearly everything that can go wrong follows from three habits of this code:
a snapshot is read, and the writes that depend on it come later; state leaves
live in the same datastores as the configuration, so commits and rollbacks carry
them along; and each lock covers one part only.

| Part | Source under `src/internal` | Module | Status |
|---|---|---|---|
| Datastores | `store/memory.go`, `diff.go` | `Datastores`, `Store` | modelled, proved |
| Startup persistence | `store/persist.go` | `Store`, `DurableConfig` | modelled, proved |
| NETCONF commit, confirmed commit | `netconf/ops` | `ConfirmedCommit` | modelled, safety proved |
| PTP clock | `sync/ptp.go`, `manager.go` | `PtpClock`, `SyncDomain` | without the measured offset; safety proved |
| SyncE | `sync/synce.go`, `model/sync.go` | `SyncE`, `SyncDomain` | without the unused SSM code tables; selection proved |
| Radio link | `radio` | `RadioLink` | modelled, safety proved |
| Spanning tree | `l2/stp.go` | `SpanningTree`, `L2Domain` | modelled, safety proved |
| VLANs, MAC table, frames, storm control | `l2` | `Bridge`, `LeafOrder`, `L2Domain` | without interface counters; safety proved |
| LLDP | `l2/lldp.go` | `LLDP`, `LeafOrder`, `L2Domain` | modelled, safety proved |
| Transactions, memoized index, validators | `router/router.go`, `restconf`, `gnmi/set.go`, `snmp/agent.go` | `Planes` | safety proved |
| Schema, rebuild of the device | `router/schema.go`, `reflect.go`, `hydrate.go` | `DeviceModel` | without the syntax of paths |
| Reads and edits of the data tree | `datatree` | `DataTree` | modelled |
| SNMP objects and walks | `router/oid.go`, `snmp/oid.go`, `agent.go` | `ObjectIndex`, `SnmpWalk`, `DeviceTree` | without BER and SNMP types |
| RESTCONF, gNMI and NETCONF requests | `restconf/ops`, `gnmi/set.go`, `netconf/ops` | `DeviceTree`, `Planes` | without encodings |
| Event bus | `event` | `Notifications`, `PtpClock` | modelled |
| NETCONF notifications, server, sessions | `netconf/notif`, `ssh.go`, `session.go` | `Notifications`, `ConfirmedCommit` | without framing and XML; safety proved |
| gNMI streams, SNMP traps | `gnmi/subscribe.go`, `snmp/trap.go` | `Notifications` | STREAM subscriptions; safety proved |
| Start and shutdown | `cli/start.go` | `Store`, `ConfirmedCommit`, `SyncDomain`, `DeviceTree` | load, seed, exit |
| Encodings, CLI, logging, metrics | | | not modelled, see the end |

## The modules

**Datastores** holds the operators the others share: a datastore is a function
from leaves to values (`Absent` for a leaf that is not there), `configOnly`
drops the state leaves, `Overlay` writes a batch over a datastore, and a write of
running is mirrored to candidate.

**Store** is one process with its files. `BeginCommit` and `BeginRestore` start
a save, which then takes one action per file operation (create, write and
fsync, rename, fsync of the directory, swap); each can fail, and the process or
the machine can stop between any two. `disk` is what the directory shows,
`durable` what a power loss leaves. Boot is `LoadStartup`, then `SeedIfEmpty`.
The history variables record the document of the last acknowledged save
(`acked`) and those renamed in by saves that reported an error or never returned
(`limbo`).

**DurableConfig** is the abstract promise: there is one acknowledged document
and a set of unacknowledged ones; a restart comes up with one of them. (That it
can come up, because the file is never truncated, is `StartupFileSafe`.)
`Store!Promise` maps it onto the history variables; `RestartRecoversAcknowledged`
says that the file operations implement it.

**ConfirmedCommit** has one control state per session. A store method is one
step; between two of them, or between one and `Confirmed.mu`, other sessions,
the timer callback (`TimerExpires`, then `fire` once it has the lock), the end
of a session and the shutdown come in. A rollback is claimed under the lock and
run outside it (`rolling`), as in the code.

**PtpClock** and **SyncE** are the halves of the synchronization domain,
composed by **SyncDomain** under the one `Manager.mu`: a `DomainTick`
reconciles the clock and starts a refresh whose leaf writes (`TickWrites`)
follow one at a time, while planes edit and rollbacks restore. Timers are
numbered by the holdover they were armed for, so a stale one can be told from a
current one. `startup` is the saved document: a commit, a confirmed commit and a
rollback save, an edit of running by another plane does not, and a restart
reloads it, without state leaves.

**RadioLink** follows Tick and the injected fades: one snapshot, then ATPC,
budget, ACM, link state and alarm per link, with edits, rollbacks and cancelled
requests between. Levels are whole decibels, and the loss terms that do not
change are one constant.

**Bridge**, **SpanningTree** and **LLDP** are the parts of the L2 domain,
composed by **L2Domain** under its one lock, `Manager.mu`, which the planes do
not take. A request for the MAC table and the aging sweep read a snapshot and
decide in one action (`Learn`, `SetStatic`, `DeleteMAC`, `FlushMAC`, `Transmit`,
`age`); what they decided, their `work`, is then carried out leaf by leaf
(`TakeEntry`, `WriteLeaf`, `LoseLeaf`, `syncCount`, `EndWork`), and the context of
a request can be cancelled before each write (`CutOff`). `LLDP` does the same with
a neighbour (`SetLeaf`, `ListLeaves`, `DeleteLeaf`, `TalkCutOff`) and refreshes the
neighbours one by one; `LeafOrder` says which leaf is next. `SpanningTree` has the
events, the election and the forward delays; what a handler still has to write is
its `job`. A request for the VLANs, or for a storm, is one action with a second
outcome, the request that is cut off: no step of another actor depends on the
leaves in between. Time is relative: ages and gaps, never a clock value.

Planes edit between any two of these steps. An edit of the table or of a
neighbour is two steps, as in `datatree.Apply`: `PlaneProposes` reads the device
and validates the whole of it with the change, `PlaneEditsBridge` or
`PlaneEditsLLDP` later writes the leaves that differ, whatever is there by then.
The list of MAC entries is creatable, and only `current-count` is compared with
`max-entries`. An edit of the spanning tree is a commit, which is validated and
stored under the lock of the store and therefore one step; so is an edit of the
LLDP configuration, whose leaves nobody else writes. A tick of the domain runs
the three parts in the order of `Manager.Tick`. `torn` records that a request was
cut off between two leaves, that a plane wrote while an operation was under way or
to an entry that had changed since it was read, or that planes created entries
beyond `max-entries`.

**Planes** has the edits of all four planes as transactions on a set of leaves:
a guarded read-and-propose step and an `ApplyEdit` step, with commits, discards,
rollbacks and domain writes, which do not ask for `txMu`, in between; the change
tracking of the store; the readers of the memoized object index step by step;
RESTCONF clients with the copy and the entity-tag they keep; and edits with
`If-Match`, whose condition is checked in a step of its own before the
transaction (`passed` remembers what it was met for).

**DeviceModel**, **DataTree** and **ObjectIndex** are the pure algorithms, over a
device with lists in lists, state leaves and a boot template. `DeviceModel` has
the schema, the resolution of a path and `deviceFromValues`, which rebuilds a
device from the leaves: prune a copy of the template, then assign leaf by leaf.
`DataTree` has `Read` and the editor, which walks a tree of documents with
inherited operations. `ObjectIndex` has the rows of the SNMP tables and the SET.
**SnmpWalk** is a walk over their OIDs (`oids`, the objects with a value): the
order of the OIDs, the index that each request builds, GETNEXT and GETBULK, and
the manager's cursor. **DeviceTree** lets the planes, the domains, commits,
restarts and walks loose on all of them; an edit is one action there, since
`Planes` has the interleavings. It changes `oids` and `walking` only through the
actions of `SnmpWalk`: every write of the datastore is an `IndexBecomes`.

**Notifications** numbers the changes of the device. The bus, the dispatcher
(one event in hand, its remaining targets), the queue and the writer of each
subscription, the connections the NETCONF server accepts, tracks and closes, the
gNMI streams from snapshot to end and the trap sender are separate steps. A
notification of a stream and a trap carry the number of the change that running
held when they were built.

## What the runs check

| Run | What it shows | Covers | Bounds |
|---|---|---|---|
| `store` | candidate is running plus the pending edits; a commit changes nothing else in running; the file is never truncated and between saves it is the startup datastore; the file operations implement DurableConfig | every interleaving with failing file operations | one configuration leaf with two values, one state leaf, one crash |
| `confirmed` | a confirmed commit is resolved, once; a timer claims its own commit only; none outlives its session | both orders of every race for `Confirmed.mu` | two sessions, two confirmed commits, one timer restart, two edits |
| `sync` | timer, expiry channel and alarm stay with their holdover; a late expiry cannot bring back a holdover that has ended; a holdover ends; the selection is the best source, and settles on it after the edits | either the clock is driven or SyncE is edited | one radio link, two-event channel, three holdovers, four source configurations, two edits, one restart |
| `radio` | alarms match the link state; the loop settles; a deep fade is reported | all levels | one link, three configurations, three fades |
| `l2` | the table is bounded and counted; a static entry stays, unless a plane edited it under an operation that had read it as something else; dynamic ones expire, and not earlier than a sweep's rounding allows; storm control holds its limit and its alarm; one root port at most, between any two writes; a timer belongs to the state of its port; learning ends; neighbours come to the configured TTL; the device stays valid but for the entry being written, so that planes can edit it, unless something was torn | requests of one part at a time, under the ticks of all three; edits and cancellations between any two leaf writes | two stations, two ports, table of one; up to two requests and two plane edits in six mixes, three storms; two STP ports (one edge), a better and a worse bridge, three events, one edit; two neighbours, two requests, one edit |
| `planes` | edits serialize, keep state written under them, and apply to what their condition was met for; the index is never served stale; the time of change of a datastore moves with its configuration, startup excepted when a commit or restore finds running unchanged | two editors, two readers, or a client and an editor | two configuration leaves under one constraint, one state leaf, three writes |
| `device` | the rebuilt device is the datastore over the template, entry by entry, leaf by leaf and in order; reads of everything, of configuration and of state agree with it; an edit changes exactly what it names, or nothing, and so does the delete of a collection; no request moves an ifIndex before a restart; a walk ends, and reports every object that was there all the while | edits of three planes, SETs, collection deletes, domain writes, commits, restarts, GETNEXT and GETBULK walks | three interfaces, two VLANs with ports, two MAC entries, two STP ports; three operations in four mixes |
| `notifications` | no event is told twice or out of order; updates and traps are not older than their event; a client that does not read delays nobody; writers end; Serve returns after a shutdown | five casts of sessions, streams and the trap sender | two sessions, one stream, channels of one, three events |

Four runs show the code departing from what its documents say; TLC's
counterexample is the schedule.

- `confirmed_confirming`: `Commit` stores first and confirms later, with no lock
  across the two; the timer or the end of the owning session in between reverts
  the commit that was just acknowledged.
- `sync_boot`: disable eth0 in SyncE, let the selection move, delete eth0. Every
  transaction was accepted, yet the saved document is refused at the next start:
  it has no state leaves, and the boot template's selected source is eth0.
- `radio_valid`: a tick clamps the power to the range of its snapshot, an edit
  narrows the range, the write leaves running invalid until the next tick.
- `planes_copy`: a retrieval reads the body before the validators; a write in
  between leaves the client with an old body under a new entity-tag, and every
  later conditional retrieval is answered 304.

### Why the bounds are enough

Each bound is a named constant and a conjunct of a guard. One configuration leaf
is enough for the store because its methods treat leaves alike; two values and
"absent" tell apart a pending edit, a mirrored write and a rollback. Two sessions
and two confirmed commits allow a commit to be confirmed, replaced or reverted
by its owner, by another session and by the timer while a second is armed. Three
holdovers let an expiry of the first meet the second and a leaked timer meet a
third. A channel of one or two events overflows within the run. A table of one
entry is full as soon as something is learned. Where two concerns do not touch
each other's state, a behaviour chooses one at the start (`focus`, `Budgets`,
`Casts`) instead of multiplying them; the actions themselves are the same.

The device of `DeviceTree` has one list of every kind the real schema has:
entries that only the template has, entries a client may create, lists in lists,
entries that only a domain wrote, and keys whose order as text is not their order
as numbers.

Deadlock is checked in `sync`, `radio` and `l2`. In the other runs a behaviour
ends when its bounded requests are used up or the process has exited.

Each module keeps its type invariant (`TypeOK`, `SynceTypeOK`, `L2TypeOK`...);
the proofs establish what they need of it as `Typed`.

### Fairness

Clients, planes and operators owe nothing: no request, edit, fade or end of
session is fair. Fair are the steps the Go runtime takes by itself.

- `ConfirmedCommit`: an expired timer's callback runs, and a goroutine past its
  blocking read goes on (weak).
- `SyncDomain`: `Run` ticks, a tick that has begun completes and timers expire
  (weak); the two channels of `Run` are served again and again (strong: Go's
  `select` picks among the ready cases at random).
- `RadioLink`: a tick gets the lock although requests compete for it (strong: a
  Go mutex does not starve a waiter); its holder goes on (weak).
- `L2Domain`: ticks, the writes of the holder of the lock, the write of an edit
  that was validated, and time (weak; the requests are bounded, so a tick that
  waits for the lock gets it); forward delays elapse (weak). Cancellations and
  edits are not fair.
- `DeviceTree`: a manager that walks keeps asking (weak), which is what its
  property is about.
- `Notifications`: the dispatcher, the writers whose client reads, `Close` after
  the cancellation, `Serve`, and a session whose connection is closed (weak). A
  client that does not read is never assumed to start again. `ServeUnblocks`
  excepts the connection that `Close` cannot know of.

## What is proved

Eight modules hold theorems; each holds for every value of the constants, within
the assumptions named in the modules that declare them. They say that names do
not collide (`Absent` is no value, `None` no tree, session, station, operation or
number,
configuration and state leaves are disjoint), that bounds are naturals, that
channels have a capacity of at least one, and that the seed and the empty device
are valid. A proof has one step per action and, below it, one per conjunct that
the action can disturb. `PROJECT.json` lists the theorems with the run property
that each states.

**StoreProofs**: types (no state leaf is ever in `startup.json`), candidate is
running plus the pending edits, the file is complete or missing at every step
and between saves it is the startup datastore, a commit changes running only
where candidate was edited, and `Store` implements `DurableConfig`. That the file
agrees with memory is not inductive: it speaks of the moments between saves.
`IInv` adds what a save in progress has reached (`SaveInv`: before the rename the
temporary file is the whole document, after it the file is, and before the swap
it is durable too), that the file is always the acknowledged document or one in
limbo (`FileInv`), and that the startup datastore is the acknowledged document
while the process is up (`MemInv`). The refinement maps the swap of a save to the
acknowledgement, a rename to the arrival of an unacknowledged document, a boot to
the recovery of one of them, and every other step to a stutter.

The second half of the module is about `SnmpWalk`, whose walks read running while
it is written: a walk that ends has reported every object that was there all the
while (`WalkMissesNothing`), and a request that does not end the walk takes its
cursor strictly forward (`WalkAdvances`), so that no change of the rows makes it
turn back. Both are for `WalkSpec`, the walk by itself: any finite set of
nonempty OIDs, replaced by any other at any time, and requests for at least one
repetition (`RepetitionsAssumption`). The argument: `CompareOID` is a strict total
order (`NotBeforeItself`, `OneIsBefore`, `BeforeTransitive`); hence the rank of an
object is a bijection onto the places of the index, which is complete and sorted
(`IndexInOrder`); hence `next` is the successor (`NextIsSuccessor`); by induction
over the repetitions an answer leaves out nothing up to its cursor, or to the end
(`BulkCovers`). The invariant `WalkInv` adds to `WalkReports` that, during a walk,
an object that has been there all the while is reported or after the cursor.

**ConfirmedCommitProofs**: a pending commit has an owner that is still to end
(`OwnerLives`), a commit is resolved once (`CommitResolvedOnce`), a timer claims
its own commit (`TimerOwnCommit`). The invariant adds that the session about to
arm holds `Confirmed.mu` and has a free number (`ArmingHolds`), that the pending
commit is undecided and later numbers are unused (`PendingUndecided`), and that
rollbacks under way belong to different commits, each claimed, and a session
waits for its own (`RollbacksDistinct`).

**SyncDomainProofs**: every step of the domain is a step of the clock or leaves
it alone (`DomainRunsClock`), so the timer and the alarm belong to the state
(`BookkeepingHolds`) and a late expiry changes nothing but an in-spec holdover
(`LateExpirySafe`) in the whole domain. `Adopted` is the strengthening: the
manager agrees with its leaf once it has read it, and is as the boot left it
before.

`SelectionFindsBest` says that the one pass of `selectSyncESource` finds what
the criteria, applied one after the other, leave, for any configuration of the
interfaces and any order of listing. `betterSource` is a strict total order on
the usable sources (`BetterOrders`); by induction on the length of the pass its
result is the best of those it has seen (`PassFindsBest`), which the reference
definition also picks (`BestIsBest`). The invariant (`SynceInv`) carries what the pass needs of the
configuration, in running, in the saved document and in a snapshot that a
rollback may bring back: interfaces of the template, since the list is closed,
each with known leaves. The lemmas before it hold for any interfaces.

**BridgeProofs** holds the invariants of the bridge, and that its requests, its
sweeps, time and the planes keep them (`RequestsKeep` and the lemmas before it),
so that **L2DomainProofs** has only to say which step of the domain is which of
these. The lemmas follow an operation from its snapshot through every leaf to its
end, with the edit of a plane (`PlaneStep`) at any point. Its theorems are about the whole domain.

- `RootPortUnique`, `TimersBelong`: at most one root port and timers that match
  their ports, for the tree alone, and, since every step of the L2 domain is a
  step of the tree or leaves it alone (`DomainRunsTree`), for the whole domain
  (`DomainRootPort`, `DomainTimers`). One root port is not inductive while an
  election is being written: `Demoting` says that what is left to write demotes
  every root port but the one promoted last, and that a port that is skipped,
  because the snapshot shows it in place, is no root port now either.
- `TableStaysAccounted`: the table stays within `max-entries` but for what planes
  create, and `current-count` is right unless something is pending. Not
  inductive: a leaf written after a plane deleted the entry brings it back, and
  whether there is room for it depends on what came in between. `Accounted`
  therefore counts the entries that the operation under way has yet to write
  (`Coming`) with those of the table, and `Counting` holds the number it is about
  to publish to the table.
- `SweepsExpireNotEarly`: `AgesRight` bounds the age of every entry, and the age
  that the sweep under way will give to those left, by the time since the entry
  got its age of zero plus its lead; a sweep adds whole seconds only, and rounds
  down.
- `StaticEntriesStay`: an action property. `StaticsSpared` is what it needs:
  learning, a flush and a sweep have nothing in store for a static entry, unless
  a plane has edited it since their snapshot.
- `DeviceStaysValid`: the device passes validation unless something was torn. It
  combines the bridge (`TableSound`: every entry but the one being written is
  valid, and `Fit` and `Halfway` say that what an operation has in store, and what
  it has left of the entry it is at, makes a valid entry), the tree (`TreeSound`,
  with `StatesFit`: the names of the states, those still to be written included,
  are names of the configured protocol) and the neighbours (`LLDPSound`, with
  `NeighborsFit`: each is complete but for the one being written, whose other
  leaves are stored, and the refresh writes only to those there are). `Proposed`
  says that an edit not yet written takes an entry away or leaves a valid one;
  `Locked`, that a request for a neighbour and a refresh never run at the same
  time; `Quiet`, that where the bridge is left alone its table stays empty.
  `DomainInv` is all of these.
- `StormsAreControlled`: `StormInv` says for every port that what passed in the
  window is within the threshold, that what passed is at most what was offered
  and that the alarm is that of the last injection. `recordStorm` and the sums
  are recursive functions, so the argument is an induction over the samples:
  dropping the old ones changes no sum of the fresh ones (`RecordKeeps`), an
  injection adds at most what is left of the threshold (`InjectionStep`), and
  time only takes samples out of the window (`SamplesAge`).

**RadioLinkProofs**: the standing alarms are those of the link state
(`AlarmsFollowState`). Not inductive as it stands: the first evaluation takes
the state from a leaf, and would leave the alarm of that state unraised.
`Unevaluated` says that until then the leaf is "up", in running and in every
snapshot in use.

**PlanesProofs**: the index is never served stale (`IndexNeverStale`), the
entity-tag moves with the configuration (`TagFollowsConfig`), edits serialize and
meet their condition (`EditsAreSerial`). The invariant carries the same fact for
what is in flight: an index a reader has read (`IndexesFresh`), the batch of an
open transaction nobody overtook (`EditsStand`), a tag a client holds
(`TagsStand`), a condition that was met and not overtaken (`ConditionsStand`).
The common lemma is `Recorded`: a write that leaves the time of change of a
writable datastore alone leaves its configuration alone, and one that leaves that
of startup alone leaves startup alone or makes it a running that did not change.

**NotificationsProofs**: no session is told an event twice or out of order
(`NotifiedOnce`), no update of a stream and no trap is older than its event
(`ReadersUpToDate`). What was sent depends on what is under way, so the
invariant follows an event along the line: the queues of the bus and the event in
hand are increasing and published (`BusInOrder`), a subscription passes on in
order what it has queued, in hand and sent (`LinesInOrder`), and of the
subscriptions of a session one at most is registered or a target, and none
carries what another is to get (`OneLine`); `SentToOwner` and `ReadersBehind` tie
what was sent to its session, and the streams and the trap sender to the bus.

Induction over data: the library's induction rules take a predicate as an
operator, which the provers cannot instantiate. The proofs use induction over a
*set* of numbers instead (`NatSetInduction`: a set that has 0 and, with every
number, the next one, has them all; from the well-foundedness of `<`), and build
a recursive function from its initial segments to show that it is defined
(`SumDefined`, `WindowDefined`, `PassDefined`, `BulkDefined`).

Only model-checked: all liveness, which the prover does not reach, and what
`DeviceTree` says of the device (`SnapshotIsDatastore`, `ReadsAgree`,
`EditsAreExact`, `IfIndexStable`): its modules walk trees with RECURSIVE
operators, for which the prover has no support. For the same reason it is not
proved that `DeviceTree` implements `WalkSpec`; that holds by the way its actions
are put together.

## Where code and documents differ without a run

Met while modelling; each is visible in the model as the code does it.

- `store/persist.go:149`: the directory fsync fails after the rename; the caller
  gets an error and the old startup datastore beside the new `startup.json`
  (`docs/store.md:77`). The limbo of `DurableConfig` is this case.
- `netconf/ops/commit.go:63`: the rollback target is read before the lock that
  orders the commits; a write in between is undone by the rollback.
- `netconf/ops/confirmed_commit.go:96`: `Reset` does not recall a callback that
  waits for the lock; a follow-up confirmed commit can be reverted at once.
- `cli/start.go:257`: the process does not wait for `Serve`, so it can exit
  before the sessions have reverted their confirmed commits.
- `sync/manager.go:292`: the expiry in the channel carries no identity; one of an
  earlier holdover ends a later one early (`docs/protocols/PTP.md:179`).
- `l2/stp.go:191`: under rstp "disabled" and "blocking" have one name, so a link
  going down on a blocked port is no change, its timer stays and the port later
  forwards (`docs/protocols/L2.md:377`).
- `l2/mac.go:246`, `l2/mac.go:270`, `l2/lldp.go:85` and the other domain writes: a
  leaf written after a plane deleted its list entry brings back an entry with
  nothing else in it, which no later validation accepts.
- `l2/mac.go:40`, `l2/mac.go:169`, `l2/mac.go:229`: learning, a flush and a sweep
  go by their snapshot, so an entry that a plane has made static since then is
  overwritten or removed, although "a permanent (static) entry is never
  overwritten by learning" (`l2/mac.go:24`) and "permanent entries survive" a
  flush (`l2/mac.go:163`). `StaticStays` excepts exactly these entries.
- `store/memory.go:409`, `store/memory.go:470`: a commit and a restore record their
  difference to running for startup too; where there is none, startup can still
  change, from what was saved earlier to what running has become, under an
  unchanged time. `ConfigChangedAt` promises "the time of the last change to
  configuration data in ds" (`store/store.go:110`); `TagMovesWithConfig` excepts
  this case.
- `model/l2.go:172`: a plane can create MAC entries beyond `max-entries`, which
  nothing counts until a request of the manager does; `current-count` is then
  above `max-entries` and every later edit of the device is refused.
- `l2/counters.go:117`: the known destination is looked up by address alone, so a
  frame can leave by a port outside its VLAN. `l2/storm.go:124`: a steady load
  above the threshold passes nothing, since offered packets count.
- `store/memory.go:477`: a rollback restores state leaves that a domain does not
  write again until they change (`docs/protocols/RADIO-RRL.md:736`); after a
  restart they are absent from running while snapshots show the template's.
- `datatree/edit.go:53`: commits, rollbacks and domains do not take `txMu`, so the
  snapshot of an edit can change before its write. `restconf/server.go:265`: so
  can the entity-tag a precondition has just been checked against; two edits with
  the same tag can both be applied (`docs/protocols/RESTCONF.md:390`).
- `netconf/ssh.go:222`: a connection accepted before `Close` and tracked after it
  is not closed by it, and `Serve` waits until its client leaves.
- `netconf/notif/dispatcher.go:81`: a notification can precede the reply to its
  `create-subscription`; a replacement can lose the event in hand.
- `restconf/server.go:278`: whether a PUT answers 201 or 200 is decided outside
  its transaction. `restconf/ops/write.go:163`: the entries of a collection are
  read before the transaction that deletes them, so one that is gone by then
  fails the whole delete and a new one stays.
- Only a NETCONF commit, a rollback and the seeding of an empty store save; edits
  of running by RESTCONF, gNMI or SNMP are gone after a restart unless a commit
  follows.
- `model/radio.go:192`: `current-power` is state and must lie in the configured
  range, so, as in `sync_boot`, a committed range that excludes the template's
  power is refused at the next start.
- `gnmi/set.go:102`, and RESTCONF alike: a write to the key leaf of an entry gives
  it a key its path does not have; it then reads under both. `KeysIntact` in
  `DeviceTree` excepts these datastores.
- `router/hydrate.go:15`: the entries of lists in lists are not found among the
  instances, so those of the template are dropped and rebuilt: in byte order, and
  with zero for a leaf that is not stored, against the comment there.
  `SnapshotIsDatastore` states both for nested lists.
- `datatree/edit.go:303`: deleting an interface leaves its counters, and so its
  entry and its ifIndex, until a restart. Deleting the last leaf of a datastore
  brings the template back.
- `event/bus.go:58`, `snmp/trap.go:166`: a trap is lost with its event when the
  channel is full, and carries what the device holds when it is sent.
- `gnmi/subscribe.go:122`: a change between the snapshot of a stream and its
  subscription to the bus is not notified (`docs/protocols/gNMI.md:191`).

## Not modelled, and why

- XML, JSON, protobuf, BER, SSH, HTTP, the syntax of paths and NETCONF framing
  and filters: conversions and transports without state of the device. Leaf
  values are members of a small set; which of them a leaf accepts is modelled,
  how they are written is not.
- The registration tables of OIDs and YANG modules: constants of the models.
- Interface counters, and the measured offset, jitter and drift of the clock
  (random): only a reader depends on them.
- `If-Modified-Since` and `If-Unmodified-Since`, which compare whole seconds; gNMI
  Get and ONCE subscriptions, which read and keep no state (the code refuses POLL
  and SAMPLE).
- The simulation endpoints of RESTCONF: thin wrappers of the requests that
  `RadioLink`, `PtpClock` and `Bridge` model.
- Logging, metrics, configuration file, clock wrappers, the CLI clients: one-shot
  I/O.
- Two changes that wait for their events at the same time, and a NETCONF
  connection that outlives its session: `Notifications` publishes one change
  after the other, and ends a connection with its session. The rate of storm
  control is a uint32 in the code and a natural in `Bridge`; a few injections do
  not fill it.
- Planes that write the role or state leaf of an STP port, and a crash inside a
  save in `SyncE`, which is the subject of `Store`.

The compositions that remain apart (`Planes` with `ConfirmedCommit`, the domains
with each other over the bus) meet in the store and the bus only; each module
has the steps of the others that reach it there: commits and rollbacks in
`Planes`, `RadioLink` and `SyncE`, radio alarms in `PtpClock`, writes of any
plane in `ConfirmedCommit`.
