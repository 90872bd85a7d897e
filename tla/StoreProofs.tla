---------------------------- MODULE StoreProofs -----------------------------
(***************************************************************************)
(* Proofs about module Store, for every set of paths and values, every     *)
(* validator and every number of crashes; and about the SNMP walks of      *)
(* module SnmpWalk, which read running in many requests while it is        *)
(* written, for every finite set of objects and every change of it.        *)
(***************************************************************************)
EXTENDS Store, SnmpWalk, FiniteSetTheorems, WellFoundedInduction, TLAPS

(***************************************************************************)
(* Lemmas about the operators of Datastores: they return datastores.       *)
(***************************************************************************)

\* The seed device and the empty datastore are trees.
LEMMA SeedTree == Seed \in Tree /\ EmptyTree \in Tree
  BY ValidTrees, SeedIsValid

\* configOnly returns a tree, and a document, and changes no document.
LEMMA ConfigOnlyDocument ==
  ASSUME NEW t \in Tree
  PROVE  /\ configOnly(t) \in Tree
         /\ configOnly(t) \in Document
         /\ configOnly(configOnly(t)) = configOnly(t)
  <1>1. configOnly(t) \in Tree
    BY DEF configOnly, Tree
  <1>2. configOnly(t) \in Document
    BY <1>1, PathsDisjoint DEF Document, configOnly, isState, Paths
  <1>3. configOnly(configOnly(t)) = configOnly(t)
    BY DEF configOnly
  <1> QED BY <1>1, <1>2, <1>3

\* Documents are trees without state leaves.
LEMMA DocumentTree ==
  ASSUME NEW d \in Document
  PROVE  d \in Tree /\ configOnly(d) = d
  <1>1. d \in [Paths -> Values \cup {Absent}] /\ \A p \in Paths : isState(p) => d[p] = Absent
    BY DEF Document, Tree, isState
  <1>2. configOnly(d) = [p \in Paths |-> d[p]]
    BY <1>1 DEF configOnly
  <1> QED BY <1>1, <1>2 DEF Document

\* Overlaying edits on a tree yields a tree.
LEMMA OverlayTree ==
  ASSUME NEW t \in Tree, NEW S \in SUBSET Paths, NEW e \in [S -> Values \cup {Absent}]
  PROVE  Overlay(t, e) \in Tree
  BY DEF Overlay, Tree

\* A batch of edits of any datastore leaves three trees.
LEMMA ApplyType ==
  ASSUME NEW m \in [Datastore -> Tree], NEW ds,
         NEW S \in SUBSET Paths, NEW e \in [S -> Values \cup {Absent}]
  PROVE  Apply(m, ds, e) \in [Datastore -> Tree]
  BY OverlayTree DEF Apply

\* Every plane and domain edits leaves of the schema.
LEMMA EditPathsType == \A ds : EditPaths(ds) \subseteq Paths
  BY DEF EditPaths, Paths

\* A one-entry edit is a batch of edits.
LEMMA OneEdit ==
  ASSUME NEW p \in Paths, NEW v \in Values \cup {Absent}
  PROVE  {p} \in SUBSET Paths /\ One(p, v) \in [{p} -> Values \cup {Absent}]
  BY DEF One

-----------------------------------------------------------------------------
(***************************************************************************)
(* Type correctness.  TypeOK is inductive.                                 *)
(***************************************************************************)

\* Every reachable state of the store is well typed.
LEMMA InitType == Init => TypeOK
  BY SeedTree, CrashBound DEF Init, TypeOK, Idle, File, Datastore

\* Every step of the store keeps the types.
LEMMA NextType == TypeOK /\ [Next]_vars => TypeOK'
  <1> SUFFICES ASSUME TypeOK, [Next]_vars PROVE TypeOK'
    OBVIOUS
  <1> USE DEF TypeOK
  <1>1. ASSUME NEW ds \in Writable, NEW S \in SUBSET Paths,
               NEW e \in [S -> Values \cup {Absent}], StoreApply(ds, e)
        PROVE  TypeOK'
    BY Zenon, <1>1, ApplyType DEF StoreApply, PendingAfter, fileVars
  <1>2. ASSUME NEW ds \in Writable, NEW p \in Paths, NEW v \in Values, StoreSet(ds, p, v)
        PROVE  TypeOK'
    BY Zenon, <1>2, ApplyType, OneEdit DEF StoreSet, Set, PendingAfter, fileVars
  <1>3. ASSUME NEW ds \in Writable, NEW p \in Paths, StoreDelete(ds, p)
        PROVE  TypeOK'
    BY Zenon, <1>3, ApplyType, OneEdit DEF StoreDelete, Delete, PendingAfter, fileVars
  <1>4. CASE StoreRollback
    BY <1>4 DEF StoreRollback, Rollback, Datastore, fileVars
  <1>5. CASE StoreSnapshot
    BY <1>5 DEF StoreSnapshot, Datastore, fileVars
  <1>6. CASE BeginCommit
    BY <1>6 DEF BeginCommit, Datastore, memVars, fileVars
  <1>7. CASE BeginRestore
    BY <1>7 DEF BeginRestore, memVars, fileVars
  <1>8. CASE CreateTmp
    BY <1>8 DEF CreateTmp, memVars, File
  <1>9. CASE WriteAndSyncTmp
    BY <1>9, ConfigOnlyDocument DEF WriteAndSyncTmp, memVars, File
  <1>10. CASE Rename
    BY <1>10 DEF Rename, memVars, File
  <1>11. CASE SyncDir
    BY <1>11 DEF SyncDir, memVars
  <1>12. CASE SaveFails
    BY Zenon, <1>12, SeedTree DEF SaveFails, ForgetMemory, Idle, memVars, File, Datastore
  <1>13. CASE Swap
    <2>1. Commit(save.next) \in [Datastore -> Tree]
      BY DEF Commit
    <2>2. Restore(mem, save.next) \in [Datastore -> Tree]
      BY DEF Restore
    <2>3. diffValues(mem["running"], save.next) \subseteq Paths
      BY DEF diffValues
    <2> QED
      BY <1>13, <2>1, <2>2, <2>3, ConfigOnlyDocument, SeedTree DEF Swap, Idle, File
  <1>14. CASE Crash
    BY <1>14, SeedTree, CrashBound DEF Crash, ForgetMemory, Idle, Datastore
  <1>15. CASE Boot
    <2>1. Load(disk) \in Tree
      BY Zenon, <1>15, DocumentTree, SeedTree DEF Boot, Load, File
    <2>2. LoadStartup(Load(disk)) \in [Datastore -> Tree]
      BY Zenon, <2>1, ConfigOnlyDocument DEF LoadStartup
    <2> QED
      BY Zenon, <1>15, <2>2 DEF Boot
  <1>16. CASE SeedIfEmpty
    <2>1. Seed \in [Paths -> Values \cup {Absent}] /\ Paths \in SUBSET Paths
      BY SeedTree DEF Tree
    <2>2. Apply(mem, "candidate", Seed) \in [Datastore -> Tree]
      BY Zenon, <2>1, ApplyType
    <2> QED
      BY Zenon, <1>16, <2>2, SeedTree DEF SeedIfEmpty, PendingAfter, fileVars
  <1>17. CASE UNCHANGED vars
    BY <1>17 DEF vars
  <1> QED
    BY Zenon, <1>1, <1>2, <1>3, <1>4, <1>5, <1>6, <1>7, <1>8, <1>9, <1>10, <1>11,
       <1>12, <1>13, <1>14, <1>15, <1>16, <1>17, EditPathsType
    DEF Next, Edit, Saving

\* Every reachable state of the store is well typed.
THEOREM TypeCorrect == Spec => []TypeOK
  BY InitType, NextType, PTL DEF Spec
-----------------------------------------------------------------------------
(***************************************************************************)
(* The safety invariants.  IInv (module Store) is TypeOK with what the     *)
(* save in progress has reached and what may be in the file.               *)
(***************************************************************************)

\* The initial state satisfies the inductive invariant.
LEMMA InitIInv == Init => IInv
  BY InitType DEF Init, IInv, SaveInv, FileInv, MemInv, Idle, Datastore,
                  CandidateIsRunningPlusPending

\* Every step keeps the relation between memory, file and history.
LEMMA NextIInv == IInv /\ [Next]_vars => IInv'
  <1> SUFFICES ASSUME IInv, [Next]_vars PROVE IInv'
    OBVIOUS
  <1>0. TypeOK /\ TypeOK'
    BY NextType DEF IInv
  <1> USE DEF IInv
  <1>1. ASSUME NEW ds \in Writable, NEW S \in SUBSET Paths,
               NEW e \in [S -> Values \cup {Absent}],
               Ready, mem' = Apply(mem, ds, e), pending' = PendingAfter(ds, S),
               UNCHANGED <<snap, save, proc, crashes, fileVars>>
        PROVE  IInv'
    <2>1. SaveInv' /\ FileInv'
      BY Zenon, <1>0, <1>1 DEF SaveInv, FileInv, Ready, Unlocked, fileVars, TypeOK
    <2>2. mem'["startup"] = mem["startup"]
      BY Zenon, <1>0, <1>1 DEF Apply, mirror, Writable, Datastore, TypeOK
    <2>3. MemInv'
      BY Zenon, <1>1, <2>2 DEF MemInv, fileVars
    <2>4. CandidateIsRunningPlusPending'
      BY <1>0, <1>1 DEF CandidateIsRunningPlusPending, Apply, mirror, Overlay,
                        PendingAfter, Writable, Datastore, TypeOK, Ready
    <2> QED BY Zenon, <1>0, <2>1, <2>3, <2>4
  <1>2. ASSUME NEW ds \in Writable, NEW S \in SUBSET Paths,
               NEW e \in [S -> Values \cup {Absent}], StoreApply(ds, e)
        PROVE  IInv'
    BY <1>1, <1>2 DEF StoreApply
  <1>3. ASSUME NEW ds \in Writable, NEW p \in Paths, NEW v \in Values, StoreSet(ds, p, v)
        PROVE  IInv'
    BY Zenon, <1>1, <1>3, OneEdit DEF StoreSet, Set
  <1>4. ASSUME NEW ds \in Writable, NEW p \in Paths, StoreDelete(ds, p)
        PROVE  IInv'
    BY Zenon, <1>1, <1>4, OneEdit DEF StoreDelete, Delete
  <1>5. CASE StoreRollback
    BY <1>0, <1>5 DEF StoreRollback, Rollback, SaveInv, FileInv, MemInv,
         CandidateIsRunningPlusPending, Ready, Unlocked, fileVars, Datastore, TypeOK
  <1>6. CASE StoreSnapshot
    BY <1>0, <1>6 DEF StoreSnapshot, SaveInv, FileInv, MemInv,
         CandidateIsRunningPlusPending, Ready, Unlocked, fileVars
  <1>7. CASE BeginCommit \/ BeginRestore
    BY <1>0, <1>7 DEF BeginCommit, BeginRestore, SaveInv, FileInv, MemInv,
         CandidateIsRunningPlusPending, Ready, Unlocked, memVars, fileVars
  <1>8. CASE CreateTmp
    BY Zenon, <1>0, <1>8 DEF CreateTmp, SaveInv, FileInv, MemInv,
         CandidateIsRunningPlusPending, memVars, TypeOK
  <1>9. CASE WriteAndSyncTmp
    BY Zenon, <1>0, <1>9 DEF WriteAndSyncTmp, SaveInv, FileInv, MemInv,
         CandidateIsRunningPlusPending, memVars, TypeOK
  <1>10. CASE Rename
    <2>1. tmp \in Document
      BY Zenon, <1>0, <1>10, ConfigOnlyDocument DEF Rename, SaveInv, TypeOK
    <2> QED
      BY <1>0, <1>10, <2>1 DEF Rename, SaveInv, FileInv, MemInv,
         CandidateIsRunningPlusPending, memVars, TypeOK
  <1>11. CASE SyncDir
    BY <1>0, <1>11 DEF SyncDir, SaveInv, FileInv, MemInv,
         CandidateIsRunningPlusPending, memVars, TypeOK
  <1>12. CASE SaveFails
    BY <1>0, <1>12 DEF SaveFails, ForgetMemory, Idle, SaveInv, FileInv, MemInv,
         CandidateIsRunningPlusPending, memVars, Datastore, TypeOK
  <1>13. CASE Swap
    <2>1. configOnly(save.next) \in Document
      BY Zenon, <1>0, ConfigOnlyDocument DEF TypeOK
    <2>2. SaveInv' /\ FileInv'
      BY Zenon, <1>0, <1>13, <2>1 DEF Swap, SaveInv, FileInv, Idle
    <2>3. mem'["startup"] = save.next
      BY Zenon, <1>13 DEF Swap, Commit, Restore, Datastore
    <2>4. MemInv'
      BY <1>13, <2>3 DEF Swap, MemInv
    <2>5. CandidateIsRunningPlusPending'
      <3>1. CASE save.op = "commit"
        BY <1>13, <3>1 DEF Swap, Commit, CandidateIsRunningPlusPending, Datastore
      <3>2. CASE save.op = "restore"
        BY <1>0, <1>13, <3>2 DEF Swap, Restore, CandidateIsRunningPlusPending,
             Datastore, diffValues, SaveInv, TypeOK
      <3> QED BY Zenon, <1>13, <3>1, <3>2 DEF Swap
    <2> QED BY Zenon, <1>0, <2>2, <2>4, <2>5
  <1>14. CASE Crash
    BY Zenon, <1>0, <1>14 DEF Crash, ForgetMemory, Idle, SaveInv, FileInv, MemInv,
         CandidateIsRunningPlusPending, Datastore
  <1>15. CASE Boot
    <2>1. SaveInv' /\ FileInv'
      BY Zenon, <1>0, <1>15 DEF Boot, SaveInv, FileInv
    <2>2. MemInv'
      <3> SUFFICES ASSUME proc' = "up" PROVE acked' = configOnly(mem'["startup"])
        BY DEF MemInv
      <3>1. configOnly(EmptyTree) = EmptyTree
        BY DEF configOnly, EmptyTree
      <3>2. disk \in Document
        BY Zenon, <1>15, <3>1 DEF Boot, Load, FileInv
      <3> QED
        BY Zenon, <1>15, <3>2, DocumentTree, NoDocument DEF Boot, Load, LoadStartup, Datastore
    <2>3. CandidateIsRunningPlusPending'
      BY Zenon, <1>15 DEF Boot, LoadStartup, CandidateIsRunningPlusPending, Datastore
    <2> QED BY <1>0, <2>1, <2>2, <2>3
  <1>16. CASE SeedIfEmpty
    <2>1. mem'["candidate"] = Seed
      BY Zenon, <1>0, <1>16, SeedTree DEF SeedIfEmpty, Apply, mirror, Overlay, Datastore, Tree
    <2> QED
      BY Zenon, <1>0, <1>16, <2>1 DEF SeedIfEmpty, SaveInv, FileInv, MemInv, Unlocked,
         CandidateIsRunningPlusPending, fileVars
  <1>17. CASE UNCHANGED vars
    BY Zenon, <1>0, <1>17 DEF vars, SaveInv, FileInv, MemInv, CandidateIsRunningPlusPending
  <1> QED
    BY <1>2, <1>3, <1>4, <1>5, <1>6, <1>7, <1>8, <1>9, <1>10, <1>11,
       <1>12, <1>13, <1>14, <1>15, <1>16, <1>17, EditPathsType
    DEF Next, Edit, Saving

\* The inductive invariant holds of every reachable state.
THEOREM Inductive == Spec => []IInv
  BY InitIInv, NextIInv, PTL DEF Spec

\* Candidate holds running plus the pending edits, whatever planes and
\* domains write and however Commit, Rollback, Restore, Set, Delete and
\* Apply are interleaved.
THEOREM CandidateInvariant == Spec => []CandidateIsRunningPlusPending
  BY Inductive, PTL DEF IInv

\* No crash leaves a truncated startup.json; and while no save failed after
\* its rename, it is the startup datastore, in the directory and after a
\* power loss.
THEOREM StartupFileInvariant == Spec => []StartupFileSafe
  <1>1. IInv => StartupNeverTruncated
    BY DEF IInv, FileInv, StartupNeverTruncated
  <1>2. IInv => StartupFileMatchesMemory
    BY DEF IInv, FileInv, MemInv, StartupFileMatchesMemory
  <1> QED BY <1>1, <1>2, Inductive, PTL DEF StartupFileSafe

\* A commit reverts nothing that was written to running without candidate.
THEOREM CommitKeepsWrites == Spec => CommitKeepsRunningWrites
  <1>1. IInv /\ [Next]_vars =>
          [save.phase = "swap" /\ save.op = "commit" /\ proc = "up" /\ proc' = "up" =>
             \A p \in Paths \ pending : mem'["running"][p] = mem["running"][p]]_vars
    <2> SUFFICES ASSUME IInv, Next, save.phase = "swap", save.op = "commit",
                        proc = "up", proc' = "up", NEW p \in Paths \ pending
                 PROVE  mem'["running"][p] = mem["running"][p]
      BY Zenon
    <2>1. Swap
      BY Zenon DEF Next, Edit, Saving, StoreApply, StoreSet, StoreDelete, StoreRollback,
             StoreSnapshot, BeginCommit, BeginRestore, CreateTmp, WriteAndSyncTmp,
             Rename, SyncDir, SaveFails, Crash, Boot, SeedIfEmpty, Ready, Unlocked
    <2>2. mem'["running"] = mem["candidate"]
      BY <2>1 DEF Swap, Commit, Datastore, IInv, SaveInv
    <2> QED BY <2>2 DEF IInv, CandidateIsRunningPlusPending
  <1> QED BY <1>1, Inductive, PTL DEF Spec, CommitKeepsRunningWrites
-----------------------------------------------------------------------------
(***************************************************************************)
(* Refinement: every step of the store is a step of DurableConfig or       *)
(* leaves its variables unchanged.  Rename is an attempt, Swap is the      *)
(* acknowledgement and Boot the recovery.                                  *)
(***************************************************************************)

\* The store implements the promise about startup.json: a restart recovers
\* the acknowledged configuration or an attempt that was not acknowledged.
THEOREM StoreKeepsPromise == Spec => RestartRecoversAcknowledged
  <1>1. Init => Promise!Init
    BY DEF Init, Promise!Init
  <1>2. IInv /\ [Next]_vars => [Promise!Next]_<<acked, limbo>>
    <2> SUFFICES ASSUME IInv, [Next]_vars, ~ UNCHANGED <<acked, limbo>>
                 PROVE  Promise!Next
      BY Zenon
    <2>1. Rename \/ Swap \/ Boot
      BY Zenon DEF Next, Edit, Saving, StoreApply, StoreSet, StoreDelete, StoreRollback,
             StoreSnapshot, BeginCommit, BeginRestore, CreateTmp, WriteAndSyncTmp,
             SyncDir, SaveFails, Crash, SeedIfEmpty, fileVars, vars
    <2>2. CASE Rename
      <3>1. tmp \in Document
        BY <2>2, ConfigOnlyDocument DEF Rename, IInv, SaveInv, TypeOK
      <3>2. Promise!Attempt(tmp)
        BY <2>2 DEF Rename, Promise!Attempt
      <3> QED BY <3>1, <3>2 DEF Promise!Next
    <2>3. CASE Swap
      <3>1. configOnly(save.next) \in Document
        BY ConfigOnlyDocument DEF IInv, TypeOK
      <3>2. Promise!Acknowledge(configOnly(save.next))
        BY <2>3 DEF Swap, Promise!Acknowledge, IInv, SaveInv
      <3> QED BY <3>1, <3>2 DEF Promise!Next
    <2>4. CASE Boot
      <3>1. Promise!Recover(disk)
        BY <2>4 DEF Boot, Promise!Recover, IInv, FileInv
      <3> QED BY Zenon, <3>1 DEF Promise!Next, IInv, FileInv
    <2> QED BY <2>1, <2>2, <2>3, <2>4
  <1> QED
    BY <1>1, <1>2, Inductive, PTL DEF Spec, RestartRecoversAcknowledged, Promise!Spec
-----------------------------------------------------------------------------
(***************************************************************************)
(* The walk of module SnmpWalk.  The order of the OIDs and the index come  *)
(* first, then one request, whose repetitions are a recursive function,    *)
(* then the walk.                                                          *)
(***************************************************************************)

\* A set of natural numbers that is not empty has a least number.
LEMMA LeastNumber ==
  ASSUME NEW S \in SUBSET Nat, S # {}
  PROVE  \E x \in S : \A y \in S : x <= y
  <1> DEFINE R == OpToRel(<, Nat)
  <1>1. \E x \in S : \A y \in S : ~ (<<y, x>> \in R)
    <2> HIDE DEF R
    <2> QED BY Zenon, WFMin, NatLessThanWellFounded DEF R
  <1>2. PICK x \in S : \A y \in S : ~ (<<y, x>> \in R)
    BY Zenon, <1>1
  <1>3. ASSUME NEW y \in S, y < x PROVE <<y, x>> \in R
    BY <1>3 DEF OpToRel
  <1> HIDE DEF R
  <1>4. ASSUME NEW y \in S PROVE x <= y
    <2>1. ~ (y < x)
      BY Zenon, <1>2, <1>3
    <2>2. x \in Nat /\ y \in Nat
      OBVIOUS
    <2> QED BY <2>1, <2>2
  <1> QED BY <1>4

\* Induction: a set that holds 0 and the successors of its numbers holds them all.
LEMMA NatSetInduction ==
  ASSUME NEW S, 0 \in S, \A n \in Nat : n \in S => n + 1 \in S
  PROVE  Nat \subseteq S
  <1> DEFINE T == Nat \ S
  <1> SUFFICES ASSUME T # {} PROVE FALSE
    OBVIOUS
  <1>1. PICK x \in T : \A y \in T : x <= y
    <2>1. T \in SUBSET Nat
      OBVIOUS
    <2> HIDE DEF T
    <2> QED BY <2>1, LeastNumber
  <1>2. x \in Nat /\ x # 0 /\ x - 1 \in Nat /\ (x - 1) + 1 = x
    OBVIOUS
  <1>3. x - 1 \in S
    BY <1>1, <1>2
  <1> QED BY <1>2, <1>3

\* The places and the numbers of an OID.
LEMMA Numbers ==
  ASSUME NEW a \in Seq(Nat)
  PROVE  DOMAIN a = 1..Len(a) /\ Len(a) \in Nat /\ \A j \in DOMAIN a : a[j] \in Nat
  OBVIOUS

\* The positions before k are before i as well.
LEMMA FewerBefore ==
  ASSUME NEW i \in Nat, NEW k \in Nat, k <= i
  PROVE  \A j \in 1..k - 1 : j \in 1..i - 1
  OBVIOUS

\* CompareOID is the order of OIDs by their first difference: an OID is not before
\* itself, of two OIDs one is before the other, and the order is transitive.
LEMMA NotBeforeItself ==
  ASSUME NEW a \in Seq(Nat)
  PROVE  ~ CompareOID(a, a)
  <1>1. \A i \in DOMAIN a : a[i] \in Nat
    OBVIOUS
  <1> QED BY <1>1 DEF CompareOID

LEMMA OneIsBefore ==
  ASSUME NEW a \in Seq(Nat), NEW b \in Seq(Nat), a # b
  PROVE  CompareOID(a, b) \/ CompareOID(b, a)
  <1> DEFINE D == {i \in Nat \ {0} : \/ i \in DOMAIN a /\ i \notin DOMAIN b
                                     \/ i \in DOMAIN b /\ i \notin DOMAIN a
                                     \/ i \in DOMAIN a /\ i \in DOMAIN b /\ a[i] # b[i]}
  <1>1. DOMAIN a = 1..Len(a) /\ DOMAIN b = 1..Len(b) /\ Len(a) \in Nat /\ Len(b) \in Nat
    OBVIOUS
  <1>2. D # {}
    <2> SUFFICES ASSUME D = {} PROVE FALSE
      OBVIOUS
    <2>1. ASSUME NEW i \in Nat \ {0}
          PROVE  /\ i \in DOMAIN a <=> i \in DOMAIN b
                 /\ i \in DOMAIN a => a[i] = b[i]
      <3>1. i \notin D
        BY Zenon
      <3> QED BY <3>1
    <2>2. \A i \in DOMAIN a : i \in Nat \ {0}
      BY <1>1
    <2>3. \A i \in DOMAIN b : i \in Nat \ {0}
      BY <1>1
    <2>4. DOMAIN a = DOMAIN b /\ \A i \in DOMAIN a : a[i] = b[i]
      BY <2>1, <2>2, <2>3
    <2>5. a = [i \in DOMAIN a |-> a[i]] /\ b = [i \in DOMAIN b |-> b[i]]
      OBVIOUS
    <2> HIDE DEF D
    <2> QED BY <2>4, <2>5
  <1>3. PICK i \in D : \A j \in D : i <= j
    <2>1. D \in SUBSET Nat
      OBVIOUS
    <2> HIDE DEF D
    <2> QED BY Zenon, <1>2, <2>1, LeastNumber
  <1>4. i \in Nat \ {0} /\ \A j \in 1..i - 1 : j \in Nat \ {0} /\ j \notin D
    BY <1>3
  <1>5. \A j \in 1..i - 1 : /\ j \in DOMAIN a <=> j \in DOMAIN b
                            /\ j \in DOMAIN a => a[j] = b[j]
    BY Zenon, <1>4
  <1>6. i \in DOMAIN a => \A j \in 1..i - 1 : j \in DOMAIN a
    BY <1>1, <1>4
  <1>7. i \in DOMAIN b => \A j \in 1..i - 1 : j \in DOMAIN b
    BY <1>1, <1>4
  <1>8. CASE i \in DOMAIN a /\ i \notin DOMAIN b
    BY Zenon, <1>5, <1>6, <1>8 DEF CompareOID
  <1>9. CASE i \in DOMAIN b /\ i \notin DOMAIN a
    BY Zenon, <1>5, <1>7, <1>9 DEF CompareOID
  <1>10. CASE i \in DOMAIN a /\ i \in DOMAIN b /\ a[i] # b[i]
    <2>1. a[i] < b[i] \/ b[i] < a[i]
      BY <1>10
    <2> QED BY Zenon, <1>5, <1>6, <1>7, <1>10, <2>1 DEF CompareOID
  <1> QED BY <1>3, <1>8, <1>9, <1>10

LEMMA BeforeTransitive ==
  ASSUME NEW a \in Seq(Nat), NEW b \in Seq(Nat), NEW c \in Seq(Nat),
         CompareOID(a, b), CompareOID(b, c)
  PROVE  CompareOID(a, c)
  <1>1. PICK i \in DOMAIN b : /\ \A j \in 1..i - 1 : j \in DOMAIN a /\ a[j] = b[j]
                              /\ i \in DOMAIN a => a[i] < b[i]
    BY Zenon DEF CompareOID
  <1>2. PICK k \in DOMAIN c : /\ \A j \in 1..k - 1 : j \in DOMAIN b /\ b[j] = c[j]
                              /\ k \in DOMAIN b => b[k] < c[k]
    BY Zenon DEF CompareOID
  <1>3. /\ DOMAIN a = 1..Len(a) /\ DOMAIN b = 1..Len(b) /\ DOMAIN c = 1..Len(c)
        /\ Len(a) \in Nat /\ Len(b) \in Nat /\ Len(c) \in Nat
        /\ \A j \in DOMAIN a : a[j] \in Nat
        /\ \A j \in DOMAIN b : b[j] \in Nat
        /\ \A j \in DOMAIN c : c[j] \in Nat
    BY Zenon, Numbers
  <1>4. CASE i < k
    <2>1. i \in 1..k - 1 /\ i \in DOMAIN c
      BY <1>3, <1>4
    <2>3. b[i] = c[i]
      BY <1>2, <2>1
    <2>2. \A j \in 1..i - 1 : j \in DOMAIN a /\ a[j] = c[j]
      <3>1. \A j \in 1..i - 1 : j \in 1..k - 1
        BY <1>3, <1>4
      <3> QED BY Zenon, <1>1, <1>2, <3>1
    <2> QED BY Zenon, <1>1, <2>1, <2>2, <2>3 DEF CompareOID
  <1>5. CASE k <= i
    <2>0. i \in Nat /\ k \in Nat /\ \A j \in 1..k - 1 : j \in 1..i - 1
      <3>1. i \in Nat /\ k \in Nat
        BY <1>3
      <3> QED BY Zenon, <1>5, <3>1, FewerBefore
    <2>1. \A j \in 1..k - 1 : j \in DOMAIN a /\ a[j] = c[j]
      BY <1>1, <1>2, <2>0
    <2>2. k \in DOMAIN a => a[k] < c[k]
      <3> SUFFICES ASSUME k \in DOMAIN a PROVE a[k] < c[k]
        OBVIOUS
      <3>0. k \in DOMAIN b
        BY <1>3, <1>5, <2>0
      <3>1. k \in DOMAIN b /\ b[k] < c[k]
        BY Zenon, <1>2, <3>0
      <3>2. a[k] \in Nat /\ b[k] \in Nat /\ c[k] \in Nat
        BY Zenon, <1>3, <3>1
      <3>3. CASE k = i
        BY <1>1, <3>1, <3>2, <3>3
      <3>4. CASE k # i
        <4>1. k \in 1..i - 1
          BY <1>3, <1>5, <2>0, <3>4
        <4> QED BY Zenon, <1>1, <3>1, <3>2, <4>1
      <3> QED BY <3>3, <3>4
    <2> QED BY Zenon, <2>1, <2>2 DEF CompareOID
  <1> QED BY <1>3, <1>4, <1>5

\* The objects of S before o, and how many they are.
Preceding(S, o) == {q \in S : CompareOID(q, o)}

RankIn(S, o) == Cardinality(Preceding(S, o))

\* The rank follows the order, and is below the number of objects.
LEMMA RankFollowsOrder ==
  ASSUME NEW S \in ObjectSets
  PROVE  /\ Cardinality(S) \in Nat /\ S \subseteq Seq(Nat)
         /\ \A o \in S : RankIn(S, o) \in Nat /\ RankIn(S, o) < Cardinality(S)
         /\ \A o, p \in S : CompareOID(o, p) => RankIn(S, o) < RankIn(S, p)
         /\ \A o, p \in S : RankIn(S, o) = RankIn(S, p) => o = p
  <1>1. IsFiniteSet(S) /\ Cardinality(S) \in Nat /\ S \subseteq Seq(Nat)
    BY Zenon, FS_CardinalityType DEF ObjectSets, OID
  <1>2. ASSUME NEW o \in S
        PROVE  /\ Preceding(S, o) \in SUBSET S /\ IsFiniteSet(Preceding(S, o))
               /\ RankIn(S, o) \in Nat /\ o \notin Preceding(S, o)
    <2>1. Preceding(S, o) \in SUBSET S
      BY DEF Preceding
    <2>2. o \notin Preceding(S, o)
      BY Zenon, <1>1, NotBeforeItself DEF Preceding
    <2> QED BY Zenon, <1>1, <2>1, <2>2, FS_Subset, FS_CardinalityType DEF RankIn
  <1>3. ASSUME NEW o \in S PROVE RankIn(S, o) < Cardinality(S)
    <2>1. RankIn(S, o) <= Cardinality(S) /\ RankIn(S, o) # Cardinality(S)
      BY Zenon, <1>1, <1>2, FS_Subset DEF RankIn
    <2> QED BY <1>1, <1>2, <2>1
  <1>4. ASSUME NEW o \in S, NEW p \in S, CompareOID(o, p) PROVE RankIn(S, o) < RankIn(S, p)
    <2>1. Preceding(S, o) \in SUBSET Preceding(S, p)
      BY <1>1, <1>4, BeforeTransitive DEF Preceding
    <2>2. o \in Preceding(S, p)
      BY Zenon, <1>4 DEF Preceding
    <2>3. RankIn(S, o) <= RankIn(S, p) /\ RankIn(S, o) # RankIn(S, p)
      BY Zenon, <1>2, <2>1, <2>2, FS_Subset DEF RankIn
    <2> QED BY <1>2, <2>3
  <1>5. ASSUME NEW o \in S, NEW p \in S, RankIn(S, o) = RankIn(S, p) PROVE o = p
    <2>1. RankIn(S, o) \in Nat /\ RankIn(S, p) \in Nat
      BY Zenon, <1>2
    <2>2. ~ CompareOID(o, p) /\ ~ CompareOID(p, o)
      BY <1>4, <1>5, <2>1
    <2> QED BY Zenon, <1>1, <2>2, OneIsBefore
  <1>6. \A o \in S : RankIn(S, o) \in Nat
    BY Zenon, <1>2
  <1> QED BY Zenon, <1>1, <1>3, <1>4, <1>5, <1>6

\* newPDUIndex holds every object once, in order: the rank is a bijection onto the
\* places of the index.
LEMMA IndexInOrder ==
  ASSUME NEW S \in ObjectSets
  PROVE  /\ Cardinality(S) \in Nat
         /\ \A i \in 1..Cardinality(S) : newPDUIndex(S)[i] \in S
         /\ \A o \in S : \E i \in 1..Cardinality(S) : newPDUIndex(S)[i] = o
         /\ \A i, j \in 1..Cardinality(S) :
                i < j => CompareOID(newPDUIndex(S)[i], newPDUIndex(S)[j])
  <1> DEFINE n == Cardinality(S)
             f == [o \in S |-> RankIn(S, o) + 1]
             index == newPDUIndex(S)
  <1>1. /\ n \in Nat /\ S \subseteq Seq(Nat)
        /\ \A o \in S : RankIn(S, o) \in Nat /\ RankIn(S, o) < n
        /\ \A o, p \in S : CompareOID(o, p) => RankIn(S, o) < RankIn(S, p)
        /\ \A o, p \in S : RankIn(S, o) = RankIn(S, p) => o = p
    BY Zenon, RankFollowsOrder
  <1>2. f \in Surjection(S, 1..n)
    <2>1. f \in [S -> 1..n]
      <3>1. \A o \in S : RankIn(S, o) + 1 \in 1..n
        BY <1>1
      <3> QED BY Zenon, <3>1
    <2>2. \A o, p \in S : f[o] = f[p] => o = p
      <3>1. \A o, p \in S : RankIn(S, o) + 1 = RankIn(S, p) + 1 => o = p
        BY <1>1
      <3> QED BY Zenon, <3>1
    <2>3. f \in Injection(S, 1..n)
      <3> HIDE DEF f
      <3> QED BY Zenon, <2>1, <2>2 DEF Injection, IsInjective
    <2>4. IsFiniteSet(1..n) /\ Cardinality(1..n) = n
      BY <1>1, FS_Interval
    <2> HIDE DEF f
    <2> QED BY Zenon, <2>3, <2>4, FS_Injection
  <1>3. ASSUME NEW i \in 1..n PROVE index[i] \in S /\ RankIn(S, index[i]) = i - 1
    <2>1. PICK o \in S : f[o] = i
      <3> HIDE DEF f
      <3> QED BY <1>2 DEF Surjection
    <2>2. RankIn(S, o) = i - 1
      BY <1>1, <2>1
    <2>3. index[i] = CHOOSE q \in S : RankIn(S, q) = i - 1
      BY Zenon DEF newPDUIndex, RankIn, Preceding
    <2> HIDE DEF index
    <2> QED BY <2>2, <2>3
  <1> HIDE DEF index, n
  <1>4. ASSUME NEW o \in S PROVE \E i \in 1..n : index[i] = o
    <2>1. RankIn(S, o) + 1 \in 1..n /\ (RankIn(S, o) + 1) - 1 = RankIn(S, o)
      BY <1>1
    <2>2. index[RankIn(S, o) + 1] = o
      BY Zenon, <1>1, <1>3, <2>1
    <2> QED BY Zenon, <2>1, <2>2
  <1>5. ASSUME NEW i \in 1..n, NEW j \in 1..n, i < j PROVE CompareOID(index[i], index[j])
    <2>1. /\ index[i] \in S /\ RankIn(S, index[i]) = i - 1
          /\ index[j] \in S /\ RankIn(S, index[j]) = j - 1
      BY Zenon, <1>3
    <2>2. index[i] # index[j] /\ ~ CompareOID(index[j], index[i])
      BY <1>1, <1>5, <2>1
    <2> QED BY Zenon, <1>1, <2>1, <2>2, OneIsBefore
  <1> QED BY Zenon, <1>1, <1>3, <1>4, <1>5 DEF index, n

\* next is the successor: nothing of the index is between oid and the object at the
\* place it returns, and without one nothing is after oid.
LEMMA NextIsSuccessor ==
  ASSUME NEW S \in ObjectSets, NEW oid \in Seq(Nat),
         NEW index, index = newPDUIndex(S), NEW j, j = next(index, oid)
  PROVE  /\ j = 0 => \A o \in S : ~ CompareOID(oid, o)
         /\ j # 0 => /\ index[j] \in S /\ CompareOID(oid, index[j])
                     /\ \A o \in S : CompareOID(oid, o) =>
                            o = index[j] \/ CompareOID(index[j], o)
  <1> DEFINE n == Cardinality(S)
             after == After(index, oid)
  <1>1. /\ n \in Nat /\ DOMAIN index = 1..n
        /\ \A i \in 1..n : index[i] \in S
        /\ \A o \in S : \E i \in 1..n : index[i] = o
        /\ \A i, k \in 1..n : i < k => CompareOID(index[i], index[k])
    <2>1. DOMAIN index = 1..n
      BY DEF newPDUIndex
    <2> QED BY Zenon, <2>1, IndexInOrder
  <1>2. after \in SUBSET Nat /\ \A i \in after : i \in 1..n /\ CompareOID(oid, index[i])
    <2>1. \A i \in after : i \in 1..n /\ CompareOID(oid, index[i])
      BY Zenon, <1>1 DEF After
    <2>2. \A i \in 1..n : i \in Nat
      OBVIOUS
    <2> HIDE DEF after, n
    <2> QED BY <2>1, <2>2
  <1>3. ASSUME NEW o \in S, CompareOID(oid, o) PROVE \E i \in after : index[i] = o
    BY Zenon, <1>1, <1>3 DEF After
  <1> HIDE DEF after, n
  <1>4. CASE after = {}
    <2>1. j = 0
      BY Zenon, <1>4 DEF next, after
    <2> QED BY Zenon, <1>3, <1>4, <2>1
  <1>5. CASE after # {}
    <2>1. j \in after /\ \A i \in after : j <= i
      <3>1. \E i \in after : \A k \in after : i <= k
        BY Zenon, <1>2, <1>5, LeastNumber
      <3>2. j = First(after)
        BY Zenon, <1>5 DEF next, after
      <3> QED BY Zenon, <3>1, <3>2 DEF First
    <2>2. j \in 1..n /\ j # 0 /\ index[j] \in S /\ CompareOID(oid, index[j])
      BY <1>1, <1>2, <2>1
    <2>3. ASSUME NEW o \in S, CompareOID(oid, o) PROVE o = index[j] \/ CompareOID(index[j], o)
      <3>1. PICK i \in after : index[i] = o
        BY Zenon, <1>3, <2>3
      <3>2. i \in 1..n /\ j <= i /\ n \in Nat
        BY Zenon, <1>1, <1>2, <2>1
      <3>3. i = j \/ j < i
        BY <2>2, <3>2
      <3> QED BY Zenon, <1>1, <2>2, <3>1, <3>2, <3>3
    <2> QED BY Zenon, <2>2, <2>3
  <1> QED BY Zenon, <1>4, <1>5

\* What a repeater that started at oid has done after i repetitions over the index of
\* S: it has found what is after oid up to its cursor, or to the end.
Covers(S, oid, i, at) ==
    /\ at \in [cursor : Seq(Nat), found : SUBSET S, ended : BOOLEAN]
    /\ \A o \in S : CompareOID(oid, o) =>
           o \in at.found \/ (~ at.ended /\ CompareOID(at.cursor, o))
    /\ at.cursor = oid \/ CompareOID(oid, at.cursor)
    /\ i > 0 /\ ~ at.ended => CompareOID(oid, at.cursor)

LEMMA SuccessorCovers ==
  ASSUME NEW S \in ObjectSets, NEW oid \in Seq(Nat), NEW i \in Nat,
         NEW at, Covers(S, oid, i, at)
  PROVE  Covers(S, oid, i + 1, successor(newPDUIndex(S), at))
  <1> DEFINE index == newPDUIndex(S)
             j == next(index, at.cursor)
             to == successor(index, at)
  <1>1. at \in [cursor : Seq(Nat), found : SUBSET S, ended : BOOLEAN] /\ S \subseteq Seq(Nat)
    BY Zenon DEF Covers, ObjectSets, OID
  <1>2. /\ j = 0 => \A o \in S : ~ CompareOID(at.cursor, o)
        /\ j # 0 => /\ index[j] \in S /\ CompareOID(at.cursor, index[j])
                    /\ \A o \in S : CompareOID(at.cursor, o) =>
                           o = index[j] \/ CompareOID(index[j], o)
    <2>1. at.cursor \in Seq(Nat)
      BY <1>1
    <2>2. index = newPDUIndex(S) /\ j = next(index, at.cursor)
      OBVIOUS
    <2> HIDE DEF index, j
    <2> QED BY <2>1, <2>2, NextIsSuccessor
  <1>3. to = IF at.ended \/ j = 0 THEN [at EXCEPT !.ended = TRUE]
             ELSE [at EXCEPT !.cursor = index[j], !.found = @ \cup {index[j]}]
    BY DEF successor
  <1> HIDE DEF index, j, to
  <1>4. CASE at.ended \/ j = 0
    <2>1. /\ to \in [cursor : Seq(Nat), found : SUBSET S, ended : BOOLEAN]
          /\ to.ended /\ to.cursor = at.cursor /\ to.found = at.found
      BY Zenon, <1>1, <1>3, <1>4
    <2>2. \A o \in S : CompareOID(oid, o) => o \in at.found
      BY <1>2, <1>4 DEF Covers
    <2>3. at.cursor = oid \/ CompareOID(oid, at.cursor)
      BY DEF Covers
    <2>4. Covers(S, oid, i + 1, to)
      BY <2>1, <2>2, <2>3 DEF Covers
    <2> QED BY <2>4 DEF to, index
  <1>5. CASE ~ at.ended /\ j # 0
    <2>1. /\ to \in [cursor : Seq(Nat), found : SUBSET S, ended : BOOLEAN]
          /\ ~ to.ended /\ to.cursor = index[j] /\ to.found = at.found \cup {index[j]}
      BY Zenon, <1>1, <1>2, <1>3, <1>5
    <2>2. \A o \in S : CompareOID(oid, o) => o \in to.found \/ CompareOID(to.cursor, o)
      BY <1>2, <1>5, <2>1 DEF Covers
    <2>3. CompareOID(oid, index[j])
      <3>1. at.cursor = oid \/ CompareOID(oid, at.cursor)
        BY DEF Covers
      <3>2. CompareOID(at.cursor, index[j]) /\ at.cursor \in Seq(Nat) /\ index[j] \in Seq(Nat)
        BY Zenon, <1>1, <1>2, <1>5
      <3> QED BY <3>1, <3>2, BeforeTransitive
    <2>4. Covers(S, oid, i + 1, to)
      BY Zenon, <2>1, <2>2, <2>3 DEF Covers
    <2> QED BY <2>4 DEF to, index
  <1> QED BY Zenon, <1>1, <1>4, <1>5

\* The repetitions of one request up to the n-th.
IsBulk(index, oid, n, g) ==
    g = [i \in 0..n |-> IF i = 0 THEN [cursor |-> oid, found |-> {}, ended |-> FALSE]
                        ELSE successor(index, g[i - 1])]

LEMMA BulkDefined ==
  ASSUME NEW index, NEW oid, NEW n \in Nat
  PROVE  \E g : IsBulk(index, oid, n, g)
  <1> DEFINE S == {k \in Nat : \E g : IsBulk(index, oid, k, g)}
             start == [cursor |-> oid, found |-> {}, ended |-> FALSE]
  <1>1. 0 \in S
    <2> DEFINE g == [i \in 0..0 |-> start]
    <2>1. \A i \in 0..0 : i = 0
      OBVIOUS
    <2>2. g = [i \in 0..0 |-> IF i = 0 THEN start ELSE successor(index, g[i - 1])]
      <3> HIDE DEF start
      <3> QED BY Zenon, <2>1
    <2>3. IsBulk(index, oid, 0, g)
      BY <2>2 DEF IsBulk
    <2> HIDE DEF g
    <2> QED BY <2>3
  <1>2. ASSUME NEW k \in Nat, k \in S PROVE k + 1 \in S
    <2>1. PICK g : IsBulk(index, oid, k, g)
      BY Zenon, <1>2
    <2>2. \A i \in 0..k : g[i] = IF i = 0 THEN start ELSE successor(index, g[i - 1])
      BY Zenon, <2>1 DEF IsBulk
    <2> HIDE DEF start
    <2> DEFINE h == [i \in 0..(k + 1) |-> IF i = k + 1 THEN successor(index, g[k]) ELSE g[i]]
    <2>3. ASSUME NEW i \in 0..(k + 1)
          PROVE  h[i] = IF i = 0 THEN start ELSE successor(index, h[i - 1])
      <3>1. CASE i = 0
        BY <2>2, <3>1
      <3>2. CASE i = k + 1
        BY <3>2
      <3>3. CASE i \in 1..k
        BY <2>2, <3>3
      <3>4. i = 0 \/ i = k + 1 \/ i \in 1..k
        OBVIOUS
      <3> HIDE DEF h
      <3> QED BY Zenon, <3>1, <3>2, <3>3, <3>4
    <2>4. IsBulk(index, oid, k + 1, h)
      <3>1. h = [i \in 0..(k + 1) |-> h[i]]
        OBVIOUS
      <3> HIDE DEF h
      <3> QED BY Zenon, <2>3, <3>1 DEF IsBulk, start
    <2> HIDE DEF h
    <2> QED BY <2>4
  <1>3. Nat \subseteq S
    <2>1. \A k \in Nat : k \in S => k + 1 \in S
      BY <1>2
    <2> HIDE DEF S
    <2> QED BY <1>1, <2>1, NatSetInduction
  <1> QED BY <1>3

\* A whole request covers the index it was answered from.
LEMMA BulkCovers ==
  ASSUME NEW S \in ObjectSets, NEW oid \in Seq(Nat), NEW n \in Nat
  PROVE  Covers(S, oid, n, getBulk(newPDUIndex(S), oid, n))
  <1> DEFINE index == newPDUIndex(S)
             g == CHOOSE h : IsBulk(index, oid, n, h)
             start == [cursor |-> oid, found |-> {}, ended |-> FALSE]
             T == {i \in Nat : i <= n => Covers(S, oid, i, g[i])}
  <1>1. IsBulk(index, oid, n, g)
    <2> HIDE DEF index
    <2> QED BY Zenon, BulkDefined
  <1>2. getBulk(index, oid, n) = g[n]
    BY Zenon DEF getBulk, IsBulk
  <1> HIDE DEF g
  <1>3. \A i \in 0..n : g[i] = IF i = 0 THEN start ELSE successor(index, g[i - 1])
    <2>1. g = [i \in 0..n |-> IF i = 0 THEN start ELSE successor(index, g[i - 1])]
      BY Zenon, <1>1 DEF IsBulk
    <2> HIDE DEF index, start
    <2> QED BY <2>1
  <1>4. 0 \in T
    <2>1. /\ start \in [cursor : Seq(Nat), found : SUBSET S, ended : BOOLEAN]
          /\ start.cursor = oid /\ ~ start.ended /\ ~ (0 > 0)
      <3>1. \A Q : oid \in Q => start \in [cursor : Q, found : SUBSET S, ended : BOOLEAN]
        BY Zenon
      <3>2. start.cursor = oid /\ ~ start.ended /\ ~ (0 > 0)
        OBVIOUS
      <3> HIDE DEF start
      <3> QED BY Zenon, <3>1, <3>2
    <2> HIDE DEF start
    <2>3. Covers(S, oid, 0, start)
      BY Zenon, <2>1 DEF Covers
    <2>2. g[0] = start
      <3>1. 0 \in 0..n
        OBVIOUS
      <3> QED BY <1>3, <3>1
    <2> QED BY <2>2, <2>3
  <1>5. ASSUME NEW i \in Nat, i \in T PROVE i + 1 \in T
    <2> SUFFICES ASSUME i + 1 <= n PROVE Covers(S, oid, i + 1, g[i + 1])
      OBVIOUS
    <2>1. i <= n /\ i + 1 \in 0..n /\ i + 1 # 0 /\ (i + 1) - 1 = i
      OBVIOUS
    <2>2. Covers(S, oid, i, g[i])
      BY Zenon, <1>5, <2>1
    <2>3. g[i + 1] = successor(index, g[i])
      BY Zenon, <1>3, <2>1
    <2> QED BY Zenon, <2>2, <2>3, SuccessorCovers
  <1>6. Nat \subseteq T
    <2>1. \A i \in Nat : i \in T => i + 1 \in T
      BY <1>5
    <2> HIDE DEF T
    <2> QED BY Zenon, <1>4, <2>1, NatSetInduction
  <1>7. Covers(S, oid, n, g[n])
    BY <1>6
  <1> QED BY <1>2, <1>7

\* What is there all through a walk has been reported or is still ahead of it.
WalkInv ==
    /\ oids \in ObjectSets
    /\ walking \in [phase : {"idle", "walking", "done"}, cursor : Seq(Nat),
                    reported : SUBSET OID, always : SUBSET OID]
    /\ walking.phase = "walking" =>
           /\ walking.always \subseteq oids
           /\ \A o \in walking.always : o \in walking.reported \/ CompareOID(walking.cursor, o)
    /\ WalkReports

\* A request: what it answers covers what was ahead of the walk.
LEMMA StepKeepsWalk ==
  ASSUME WalkInv, NEW n \in Repetitions, WalkStep(n)
  PROVE  /\ WalkInv'
         /\ walking'.phase = "done" \/ CompareOID(walking.cursor, walking'.cursor)
  <1> DEFINE answer == getBulk(newPDUIndex(oids), walking.cursor, n)
  <1>1. /\ walking.phase = "walking" /\ oids' = oids
        /\ walking' = [walking EXCEPT !.cursor = answer.cursor,
                                     !.reported = @ \cup answer.found,
                                     !.phase = IF answer.ended THEN "done" ELSE @]
    BY DEF WalkStep, Answered
  <1>2. n \in Nat /\ n > 0
    BY RepetitionsAssumption
  <1>3. Covers(oids, walking.cursor, n, answer)
    BY Zenon, <1>2, BulkCovers DEF WalkInv
  <1> HIDE DEF answer
  <1>4. /\ answer \in [cursor : Seq(Nat), found : SUBSET oids, ended : BOOLEAN]
        /\ \A o \in oids : CompareOID(walking.cursor, o) =>
               o \in answer.found \/ (~ answer.ended /\ CompareOID(answer.cursor, o))
        /\ ~ answer.ended => CompareOID(walking.cursor, answer.cursor)
    BY <1>2, <1>3 DEF Covers
  <1>5. oids \subseteq OID
    BY DEF WalkInv, ObjectSets
  <1>6. /\ walking' \in [phase : {"idle", "walking", "done"}, cursor : Seq(Nat),
                         reported : SUBSET OID, always : SUBSET OID]
        /\ walking'.cursor = answer.cursor /\ walking'.always = walking.always
        /\ walking'.reported = walking.reported \cup answer.found
        /\ walking'.phase = IF answer.ended THEN "done" ELSE "walking"
    BY Zenon, <1>1, <1>4, <1>5 DEF WalkInv
  <1>7. \A o \in walking.always :
            o \in walking'.reported \/ (~ answer.ended /\ CompareOID(answer.cursor, o))
    BY <1>1, <1>4, <1>6 DEF WalkInv
  <1>8. WalkReports'
    BY <1>4, <1>6, <1>7 DEF WalkReports
  <1> QED BY <1>1, <1>4, <1>6, <1>7, <1>8 DEF WalkInv

LEMMA WalkInductive == WalkSpec => []WalkInv
  <1>1. WalkInit => WalkInv
    <2> SUFFICES ASSUME WalkInit PROVE WalkInv
      OBVIOUS
    <2>0. <<>> \in Seq(Nat)
      OBVIOUS
    <2>1. /\ oids \in ObjectSets
          /\ walking = [phase |-> "idle", cursor |-> <<>>, reported |-> {}, always |-> {}]
      BY Zenon DEF WalkInit, NoWalk
    <2>2. walking.phase # "walking" /\ WalkReports
      BY Zenon, <2>1 DEF WalkReports
    <2>3. walking \in [phase : {"idle", "walking", "done"}, cursor : Seq(Nat),
                       reported : SUBSET OID, always : SUBSET OID]
      BY Zenon, <2>0, <2>1
    <2> QED BY Zenon, <2>1, <2>2, <2>3 DEF WalkInv
  <1>2. WalkInv /\ [WalkNext]_walkVars => WalkInv'
    <2> SUFFICES ASSUME WalkInv, [WalkNext]_walkVars PROVE WalkInv'
      OBVIOUS
    <2>1. CASE oids' \in ObjectSets /\ IndexBecomes(oids')
      <3>1. /\ walking' \in [phase : {"idle", "walking", "done"}, cursor : Seq(Nat),
                             reported : SUBSET OID, always : SUBSET OID]
            /\ walking'.phase = walking.phase /\ walking'.cursor = walking.cursor
            /\ walking'.reported = walking.reported
            /\ walking'.always = walking.always \cap oids'
        BY Zenon, <2>1 DEF IndexBecomes, WalkInv
      <3> QED BY Zenon, <2>1, <3>1 DEF WalkInv, WalkReports
    <2>2. CASE WalkStarts
      <3>1. walking' = [phase |-> "walking", cursor |-> <<>>, reported |-> {}, always |-> oids]
        BY Zenon, <2>2 DEF WalkStarts, NoWalk
      <3>2. oids' = oids /\ oids \in ObjectSets /\ oids \subseteq OID /\ <<>> \in Seq(Nat)
        BY <2>2 DEF WalkStarts, WalkInv, ObjectSets
      <3>3. \A o \in oids : CompareOID(<<>>, o)
        <4> SUFFICES ASSUME NEW o \in oids PROVE CompareOID(<<>>, o)
          OBVIOUS
        <4>1. 1 \in DOMAIN o
          BY <3>2 DEF OID
        <4> QED BY <4>1 DEF CompareOID
      <3> QED BY <3>1, <3>2, <3>3 DEF WalkInv, WalkReports
    <2>3. CASE \E n \in Repetitions : WalkStep(n)
      BY <2>3, StepKeepsWalk
    <2>4. CASE UNCHANGED walkVars
      BY Zenon, <2>4 DEF walkVars, WalkInv, WalkReports
    <2> QED BY Zenon, <2>1, <2>2, <2>3, <2>4 DEF WalkNext
  <1> QED BY <1>1, <1>2, PTL DEF WalkSpec

(***************************************************************************)
(* A walk misses nothing: for every finite set of objects and every change *)
(* of it between the requests of getNext and getBulk, a walk that comes to *)
(* the end of the MIB has reported every object that was there throughout. *)
(***************************************************************************)
THEOREM WalkMissesNothing == WalkSpec => []WalkReports
  <1>1. WalkInv => WalkReports
    BY DEF WalkInv
  <1> QED BY <1>1, WalkInductive, PTL

(***************************************************************************)
(* A walk never goes back or stays where it is: every request that does    *)
(* not end it takes its cursor to an object that is after the old one,     *)
(* also when the rows around the cursor have changed in between.           *)
(***************************************************************************)
THEOREM WalkAdvances ==
    WalkSpec => [][\A n \in Repetitions : WalkStep(n) =>
                      \/ walking'.phase = "done"
                      \/ CompareOID(walking.cursor, walking'.cursor)]_walkVars
  <1>1. WalkInv => \A n \in Repetitions : WalkStep(n) =>
            \/ walking'.phase = "done"
            \/ CompareOID(walking.cursor, walking'.cursor)
    BY StepKeepsWalk
  <1> QED BY <1>1, WalkInductive, PTL
=============================================================================
