------------------------------- MODULE SyncE --------------------------------
(***************************************************************************)
(* SyncE source selection (internal/sync): the part of Manager.Tick that   *)
(* selects the best synchronization source of a snapshot of running and    *)
(* writes the three selected-* state leaves, one store write each.         *)
(*                                                                         *)
(* Manager.mu keeps two refreshes apart, but not the planes: an edit or    *)
(* the rollback of a confirmed commit comes between the snapshot and the   *)
(* writes.  Names are numbered in the order of the interface names, which  *)
(* is the order of the boot template; the list is closed, so a plane       *)
(* deletes and puts back the interfaces of the template and adds no other. *)
(*                                                                         *)
(* Commits and rollbacks are saved, configuration only; an edit of running *)
(* by another plane is not.  A state leaf that running does not hold reads *)
(* as the template's in every snapshot.  A crash within a save is the      *)
(* subject of Store; a save is one step here.                              *)
(***************************************************************************)
EXTENDS Naturals, FiniteSets, SequencesExt

CONSTANTS
    Sources,        \* the configurations of an interface in play
    MaxEdits        \* bound on the edits of the planes

QL == {"QL-PRC", "QL-SSU-A", "QL-SSU-B", "QL-SEC", "QL-DNU"}

ExtendedQL == {"none", "QL-PRTC", "QL-ePRTC", "QL-eEEC"}

SyncEInterface == [ssm : BOOLEAN, ql : QL, extended : ExtendedQL,
                   priority : 0..255, prefers : BOOLEAN]

ASSUME SourcesAreInterfaces == Sources \subseteq SyncEInterface

\* The boot template, eth0 and eth1 of the seed device.
SeedInterfaces == <<
    [ssm |-> TRUE, ql |-> "QL-PRC", extended |-> "none", priority |-> 10, prefers |-> TRUE],
    [ssm |-> TRUE, ql |-> "QL-SSU-A", extended |-> "none", priority |-> 20, prefers |-> FALSE]>>

Names == DOMAIN SeedInterfaces

\* The selected-* leaves; 0 and "none" stand for the empty leaves.
Selection == [name : Names \cup {0}, ql : QL \cup {"none"}, extended : ExtendedQL]

NoSelection == [name |-> 0, ql |-> "none", extended |-> "none"]

SeedSelection == [name |-> 1, ql |-> "QL-PRC", extended |-> "none"]

Idle == [todo |-> <<>>, want |-> NoSelection, on |-> FALSE]

VARIABLES
    enabled,    \* configuration leaf synce/enabled
    interfaces, \* the configured interfaces, by name
    selected,   \* the selected-* leaves that running holds
    refresh,    \* the refreshSyncE under way: its selection and the leaves to write
    saved,      \* the confirmed commit that is pending: a set of at most one device
    startup,    \* the startup document
    up,         \* the simulator has loaded its startup document
    edits       \* history: edits so far

synceVars == <<enabled, interfaces, selected, refresh, saved, startup, up, edits>>
-----------------------------------------------------------------------------
(***************************************************************************)
(* The selection.                                                          *)
(***************************************************************************)

\* Rank of a quality level, lower is better; QL-DNU has none.
Rank == [q \in QL \ {"QL-DNU"} |->
            CASE q = "QL-PRC" -> 0 [] q = "QL-SSU-A" -> 1
              [] q = "QL-SSU-B" -> 2 [] q = "QL-SEC" -> 3]

\* Mutant: the preference of the PTP receiver comes before the priority.
betterSourceSwapped(ifs, a, b) ==
    LET x == ifs[a]  y == ifs[b]
    IN  IF x.ql # y.ql THEN Rank[x.ql] < Rank[y.ql]
        ELSE IF x.prefers # y.prefers THEN x.prefers
        ELSE IF x.priority # y.priority THEN x.priority < y.priority
        ELSE a < b

betterSource(ifs, a, b) ==
    LET x == ifs[a]  y == ifs[b]
    IN  IF x.ql # y.ql THEN Rank[x.ql] < Rank[y.ql]
        ELSE IF x.priority # y.priority THEN x.priority < y.priority
        ELSE IF x.prefers # y.prefers THEN x.prefers
        ELSE a < b

\* One pass over the interfaces in the order the snapshot lists them.
selectSyncESource(on, ifs, order) ==
    LET usable(n) == ifs[n].ssm /\ ifs[n].ql \in DOMAIN Rank
        keep(best, n) ==
            IF usable(n) /\ (best = 0 \/ betterSource(ifs, n, best)) THEN n ELSE best
        pass[i \in Nat] == IF i = 0 THEN 0 ELSE keep(pass[i - 1], order[i])
        best == pass[Len(order)]
    IN  IF ~on \/ best = 0
        THEN NoSelection
        ELSE [name |-> best, ql |-> ifs[best].ql, extended |-> ifs[best].extended]

\* A snapshot lists the interfaces in the order of the template.
Listing(ifs) == SelectSeq([n \in Names |-> n], LAMBDA n : n \in DOMAIN ifs)

Selected(on, ifs) == selectSyncESource(on, ifs, Listing(ifs))

\* The selection a snapshot shows.
Snapshot(sel) == sel @@ SeedSelection

\* SyncEState.Validate, which every transaction of a plane must pass: a
\* selected source names an interface.
Validate(ifs, sel) == sel.name = 0 \/ sel.name \in DOMAIN ifs
-----------------------------------------------------------------------------
(***************************************************************************)
(* refreshSyncE: only the leaves that differ from the snapshot are         *)
(* written, one at a time.                                                 *)
(***************************************************************************)
Leaves == <<"name", "ql", "extended">>

Refresh(want, todo) ==
    refresh' = [todo |-> todo, want |-> want, on |-> TRUE]

\* Mutant: an empty selection is not written.
refreshSyncEKeepsLast ==
    LET want == Selected(enabled, interfaces)
        differs(l) == want.name # 0 /\ Snapshot(selected)[l] # want[l]
    IN  /\ ~refresh.on
        /\ Refresh(want, SelectSeq(Leaves, differs))
        /\ UNCHANGED <<enabled, interfaces, selected, saved, startup, up, edits>>

refreshSyncE ==
    /\ ~refresh.on
    /\ \E want \in {Selected(enabled, interfaces)} :
           LET differs(l) == Snapshot(selected)[l] # want[l]
           IN  Refresh(want, SelectSeq(Leaves, differs))
    /\ UNCHANGED <<enabled, interfaces, selected, saved, startup, up, edits>>

\* SetState does not validate the device.
stateWrite ==
    /\ refresh.todo # <<>>
    /\ selected' = (Head(refresh.todo) :> refresh.want[Head(refresh.todo)]) @@ selected
    /\ refresh' = [refresh EXCEPT !.todo = Tail(@)]
    /\ UNCHANGED <<enabled, interfaces, saved, startup, up, edits>>

\* Tick returns, and releases Manager.mu.
EndRefresh ==
    /\ refresh.on /\ refresh.todo = <<>>
    /\ refresh' = Idle
    /\ UNCHANGED <<enabled, interfaces, selected, saved, startup, up, edits>>
-----------------------------------------------------------------------------
(***************************************************************************)
(* The planes.                                                             *)
(***************************************************************************)
Document(on, ifs) == [enabled |-> on, interfaces |-> ifs]

\* A transaction, or an edit of candidate and its commit: the device it leads to
\* must validate, the mirrored state leaves included.
Transact(on, ifs) ==
    /\ edits < MaxEdits
    /\ edits' = edits + 1
    /\ Validate(ifs, Snapshot(selected))
    /\ enabled' = on
    /\ interfaces' = ifs
    /\ UNCHANGED <<selected, refresh, up>>

\* Only a commit is saved.
Saves(on, ifs) == startup' \in {startup, Document(on, ifs)}

SetEnabled ==
    /\ Transact(~enabled, interfaces)
    /\ Saves(~enabled, interfaces)
    /\ UNCHANGED saved

\* The interfaces with one of them added or changed.
Put(n, c) == [i \in DOMAIN interfaces \cup {n} |-> IF i = n THEN c ELSE interfaces[i]]

SetInterface(n, c) ==
    /\ Transact(enabled, Put(n, c))
    /\ Saves(enabled, Put(n, c))
    /\ UNCHANGED saved

DeleteInterface(n) ==
    /\ n \in DOMAIN interfaces
    /\ LET left == [i \in DOMAIN interfaces \ {n} |-> interfaces[i]]
       IN  Transact(enabled, left) /\ Saves(enabled, left)
    /\ UNCHANGED saved

\* A confirmed commit that adds or changes an interface keeps the whole of
\* running, the state leaves included.
ConfirmedCommit(n, c) ==
    /\ saved = {}
    /\ saved' = {[enabled |-> enabled, interfaces |-> interfaces, selected |-> selected]}
    /\ Transact(enabled, Put(n, c))
    /\ startup' = Document(enabled, Put(n, c))

\* Its confirmation in time.
Confirm ==
    /\ saved # {}
    /\ saved' = {}
    /\ UNCHANGED <<enabled, interfaces, selected, refresh, startup, up, edits>>

\* Its timeout: running is restored as a whole, and saved.
Rollback ==
    /\ \E d \in saved :
          /\ enabled' = d.enabled
          /\ interfaces' = d.interfaces
          /\ selected' = d.selected
          /\ startup' = Document(d.enabled, d.interfaces)
    /\ saved' = {}
    /\ UNCHANGED <<refresh, up, edits>>

Edit ==
    \/ SetEnabled
    \/ \E n \in Names, c \in Sources : SetInterface(n, c) \/ ConfirmedCommit(n, c)
    \/ \E n \in Names : DeleteInterface(n)
    \/ Confirm
    \/ Rollback

\* LoadStartup: running is the startup document without state leaves.  The
\* document must validate, so it must hold the source the template selects.
LoadStartup ==
    /\ up' = Validate(startup.interfaces, SeedSelection)
    /\ enabled' = startup.enabled
    /\ interfaces' = startup.interfaces
    /\ selected' = <<>>
    /\ refresh' = Idle
    /\ saved' = {}
    /\ UNCHANGED <<startup, edits>>

\* The first boot seeds the device; a later one loads any document it accepts.
SynceInit ==
    /\ \/ /\ enabled = TRUE
          /\ interfaces = SeedInterfaces
          /\ selected = SeedSelection
       \/ /\ enabled \in BOOLEAN
          /\ interfaces \in UNION {[D -> Sources] : D \in SUBSET Names}
          /\ Validate(interfaces, SeedSelection)
          /\ selected = <<>>
    /\ refresh = Idle
    /\ saved = {}
    /\ startup = Document(enabled, interfaces)
    /\ up = TRUE
    /\ edits = 0
-----------------------------------------------------------------------------
SynceTypeOK ==
    /\ enabled \in BOOLEAN
    /\ DOMAIN interfaces \subseteq Names
    /\ \A n \in DOMAIN interfaces : interfaces[n] \in SyncEInterface
    /\ Snapshot(selected) \in Selection
    /\ up \in BOOLEAN
    /\ refresh.want \in Selection
    /\ edits \in 0..MaxEdits

\* The selection order of SYNCE.md 5.3, one criterion after the other.
BestSource ==
    LET usable == {n \in DOMAIN interfaces :
                      enabled /\ interfaces[n].ssm /\ interfaces[n].ql # "QL-DNU"}
        first(S, v(_)) == {n \in S : \A k \in S : v(n) <= v(k)}
        byRank == first(usable, LAMBDA n : Rank[interfaces[n].ql])
        byPriority == first(byRank, LAMBDA n : interfaces[n].priority)
        preferred == {n \in byPriority : interfaces[n].prefers}
    IN  first(IF preferred # {} THEN preferred ELSE byPriority, LAMBDA n : n)

(***************************************************************************)
(* "the best quality level wins, then the lowest configured priority, then *)
(* the interface the PTP receiver prefers, and finally the interface name, *)
(* so the choice is deterministic" (selectSyncESource): in whatever order  *)
(* the snapshot lists the interfaces, the one pass finds the source that   *)
(* the criteria, applied one after the other, leave.                       *)
(***************************************************************************)
SelectionIsBest ==
    \A order \in SetToSeqs(DOMAIN interfaces) :
        LET s == selectSyncESource(enabled, interfaces, order)
        IN  IF BestSource = {} THEN s = NoSelection
            ELSE /\ s.name \in BestSource
                 /\ s.ql = interfaces[s.name].ql
                 /\ s.extended = interfaces[s.name].extended

(***************************************************************************)
(* Once the edits end, the selected leaves settle on the selection of the  *)
(* configuration: an overtaken refresh, a rollback to leaves that were     *)
(* saved half written, and a selection naming a deleted interface (which   *)
(* refuses every transaction) are all repaired by a later Tick.            *)
(***************************************************************************)
SelectionSettles ==
    <>[](up => Snapshot(selected) = Selected(enabled, interfaces))

(***************************************************************************)
(* Validate rejects nothing that a commit has stored: "a commit can never  *)
(* store a value the model rejects" (Router.Validate, architecture.md).    *)
(* What the planes have committed and saved loads again at the next boot.  *)
(***************************************************************************)
CommittedLoads == up
=============================================================================
