------------------------------- MODULE Store --------------------------------
(***************************************************************************)
(* The configuration store of one device process: the datastores, the      *)
(* write of startup.json step by step, crashes, and the boot sequence.     *)
(*                                                                         *)
(* Commit and Restore hold Memory.mu from the validation to the swap, so   *)
(* no other store method runs while a save is in progress, but the process *)
(* can die between any two file operations.  A crash is either the end of  *)
(* the process (what the directory shows survives) or a power loss (a      *)
(* rename that was not followed by a directory fsync may be undone).       *)
(***************************************************************************)
EXTENDS Datastores

CONSTANTS
    NoFile,         \* startup.json, or its temporary file, does not exist
    Truncated,      \* a file that was created but not completely written
    None,           \* no snapshot
    MaxCrashes      \* bound on the number of crashes in a behaviour

ASSUME NoDocument ==
    /\ NoFile \notin Tree
    /\ Truncated \notin Tree \cup {NoFile}
    /\ None \notin Tree
ASSUME CrashBound == MaxCrashes \in Nat

VARIABLES
    mem,        \* the datastores of store.Memory
    snap,       \* a snapshot of running a caller keeps for Restore
    save,       \* the Commit or Restore in progress
    tmp,        \* startup.json.tmp
    disk,       \* startup.json as the directory shows it
    durable,    \* startup.json as a power loss would leave it
    proc,       \* "down", "loaded" (LoadStartup done) or "up"
    crashes,    \* crashes so far
    pending,    \* history: the paths edited in candidate only
    acked,      \* history: the document of the last acknowledged save
    limbo       \* history: documents renamed in by a save not acknowledged

vars == <<mem, snap, save, tmp, disk, durable, proc, crashes,
          pending, acked, limbo>>

memVars  == <<mem, snap, pending>>
fileVars == <<tmp, disk, durable, acked, limbo>>

Idle == [op |-> "none", phase |-> "none", next |-> EmptyTree]

\* The contents of a complete startup.json: configuration leaves only.
Document == {t \in Tree : \A p \in StatePaths : t[p] = Absent}

\* What Load returns: a missing file is the empty map.
Load(file) == IF file = NoFile THEN EmptyTree ELSE file

\* The memory of a process that ended.
ForgetMemory ==
    /\ mem' = [d \in Datastore |-> EmptyTree]
    /\ snap' = None
    /\ pending' = {}

\* No process holds Memory.mu across a save.
Unlocked == save.op = "none"

Ready == proc = "up" /\ Unlocked
-----------------------------------------------------------------------------
(***************************************************************************)
(* The in-memory operations.                                               *)
(***************************************************************************)

\* A write to running overwrites the pending edit of the same path.
PendingAfter(ds, paths) ==
    IF ds = "running" THEN pending \ paths ELSE pending \cup paths

StoreApply(ds, e) ==
    /\ Ready
    /\ mem' = Apply(mem, ds, e)
    /\ pending' = PendingAfter(ds, DOMAIN e)
    /\ UNCHANGED <<snap, save, proc, crashes, fileVars>>

StoreSet(ds, p, v) ==
    /\ Ready
    /\ mem' = Set(mem, ds, p, v)
    /\ pending' = PendingAfter(ds, {p})
    /\ UNCHANGED <<snap, save, proc, crashes, fileVars>>

StoreDelete(ds, p) ==
    /\ Ready
    /\ mem[ds][p] # Absent
    /\ mem' = Delete(mem, ds, p)
    /\ pending' = PendingAfter(ds, {p})
    /\ UNCHANGED <<snap, save, proc, crashes, fileVars>>

StoreRollback ==
    /\ Ready
    /\ mem' = Rollback(mem)
    /\ pending' = {}
    /\ UNCHANGED <<snap, save, proc, crashes, fileVars>>

StoreSnapshot ==
    /\ Ready
    /\ snap' = mem["running"]
    /\ UNCHANGED <<mem, pending, save, proc, crashes, fileVars>>
-----------------------------------------------------------------------------
(***************************************************************************)
(* Commit and Restore: validate, write the temporary file, flush it,       *)
(* rename it over startup.json, flush the directory, swap the datastores.  *)
(***************************************************************************)
BeginCommit ==
    /\ Ready
    /\ mem["candidate"] \in Valid
    /\ save' = [op |-> "commit", phase |-> "create", next |-> mem["candidate"]]
    /\ UNCHANGED <<memVars, proc, crashes, fileVars>>

BeginRestore ==
    /\ Ready
    /\ snap # None
    /\ save' = [op |-> "restore", phase |-> "create", next |-> snap]
    /\ UNCHANGED <<memVars, proc, crashes, fileVars>>

\* Mutant: the document is written in place.
CreateInPlace ==
    /\ save.phase = "create"
    /\ tmp' = Truncated
    /\ disk' = Truncated
    /\ save' = [save EXCEPT !.phase = "write"]
    /\ UNCHANGED <<memVars, proc, crashes, durable, acked, limbo>>

CreateTmp ==
    /\ save.phase = "create"
    /\ tmp' = Truncated
    /\ save' = [save EXCEPT !.phase = "write"]
    /\ UNCHANGED <<memVars, proc, crashes, disk, durable, acked, limbo>>

WriteAndSyncTmp ==
    /\ save.phase = "write"
    /\ tmp' = configOnly(save.next)
    /\ save' = [save EXCEPT !.phase = "rename"]
    /\ UNCHANGED <<memVars, proc, crashes, disk, durable, acked, limbo>>

Rename ==
    /\ save.phase = "rename"
    /\ disk' = tmp
    /\ tmp' = NoFile
    /\ limbo' = limbo \cup {tmp}
    /\ save' = [save EXCEPT !.phase = "syncdir"]
    /\ UNCHANGED <<memVars, proc, crashes, durable, acked>>

\* Mutant: the directory is not flushed.
SyncDirSkipped ==
    /\ save.phase = "syncdir"
    /\ save' = [save EXCEPT !.phase = "swap"]
    /\ UNCHANGED <<memVars, proc, crashes, tmp, disk, durable, acked, limbo>>

SyncDir ==
    /\ save.phase = "syncdir"
    /\ durable' = disk
    /\ save' = [save EXCEPT !.phase = "swap"]
    /\ UNCHANGED <<memVars, proc, crashes, tmp, disk, acked, limbo>>

\* Every file operation can fail.  The temporary file is removed on every
\* failure path before the rename; the error of the directory fsync is
\* returned after it.  A failed seed commit ends the process.
SaveFails ==
    /\ save.phase \in {"create", "write", "rename", "syncdir"}
    /\ tmp' = NoFile
    /\ save' = Idle
    /\ \/ proc = "up" /\ UNCHANGED <<memVars, proc>>
       \/ proc = "loaded" /\ proc' = "down" /\ ForgetMemory
    /\ UNCHANGED <<crashes, disk, durable, acked, limbo>>

\* The datastores are swapped only after Save returned without error.
Swap ==
    /\ save.phase = "swap"
    /\ \/ /\ save.op = "commit"
          /\ mem' = Commit(save.next)
          /\ pending' = {}
       \/ /\ save.op = "restore"
          /\ mem' = Restore(mem, save.next)
          /\ pending' = pending \cup diffValues(mem["running"], save.next)
    /\ acked' = configOnly(save.next)
    /\ limbo' = {}
    /\ save' = Idle
    /\ proc' = "up"
    /\ UNCHANGED <<snap, crashes, tmp, disk, durable>>
-----------------------------------------------------------------------------
(***************************************************************************)
(* Crash and boot (internal/cli/start.go).                                 *)
(***************************************************************************)
Crash ==
    /\ proc # "down"
    /\ crashes < MaxCrashes
    /\ crashes' = crashes + 1
    /\ \/ UNCHANGED <<disk, durable>>
       \/ disk' = durable /\ UNCHANGED durable
       \/ durable' = disk /\ UNCHANGED disk
    /\ proc' = "down"
    /\ save' = Idle
    /\ ForgetMemory
    /\ UNCHANGED <<tmp, acked, limbo>>

\* LoadStartup refuses a document it cannot decode or validate, and run
\* returns the error.
Boot ==
    /\ proc = "down"
    /\ disk # Truncated
    /\ configOnly(Load(disk)) \in Valid
    /\ mem' = LoadStartup(Load(disk))
    /\ snap' = None
    /\ pending' = {}
    /\ acked' = disk
    /\ limbo' = {durable} \ {disk}
    /\ proc' = IF configOnly(Load(disk)) = EmptyTree THEN "loaded" ELSE "up"
    /\ UNCHANGED <<save, crashes, tmp, disk, durable>>

\* seedIfEmpty: the default device is written to candidate and committed.
SeedIfEmpty ==
    /\ proc = "loaded"
    /\ Unlocked
    /\ mem' = Apply(mem, "candidate", Seed)
    /\ pending' = PendingAfter("candidate", Paths)
    /\ save' = [op |-> "commit", phase |-> "create", next |-> Seed]
    /\ UNCHANGED <<snap, proc, crashes, fileVars>>

Init ==
    /\ mem = [d \in Datastore |-> EmptyTree]
    /\ snap = None
    /\ save = Idle
    /\ tmp = NoFile
    /\ disk = NoFile
    /\ durable = NoFile
    /\ proc = "down"
    /\ crashes = 0
    /\ pending = {}
    /\ acked = NoFile
    /\ limbo = {}

\* The router refuses a plane's write to a state leaf (ErrReadOnly); the
\* domains write theirs to running with SetState and DeleteState.
EditPaths(ds) == IF ds = "running" THEN Paths ELSE ConfigPaths

Edit ==
    \E ds \in Writable :
        \/ \E S \in SUBSET EditPaths(ds) : \E e \in [S -> Values \cup {Absent}] :
               StoreApply(ds, e)
        \/ \E p \in EditPaths(ds) : \E v \in Values : StoreSet(ds, p, v)
        \/ \E p \in EditPaths(ds) : StoreDelete(ds, p)

Saving ==
    \/ BeginCommit \/ BeginRestore
    \/ CreateTmp \/ WriteAndSyncTmp \/ Rename \/ SyncDir
    \/ SaveFails
    \/ Swap

Next ==
    \/ Edit
    \/ StoreRollback
    \/ StoreSnapshot
    \/ Saving
    \/ Crash
    \/ Boot
    \/ SeedIfEmpty

Spec == Init /\ [][Next]_vars
-----------------------------------------------------------------------------
File == Document \cup {NoFile, Truncated}

\* The type invariant.
TypeOK ==
    /\ mem \in [Datastore -> Tree]
    /\ snap \in Tree \cup {None}
    /\ save \in [op : {"none", "commit", "restore"},
                 phase : {"none", "create", "write", "rename", "syncdir", "swap"},
                 next : Tree]
    /\ tmp \in File
    /\ disk \in File
    /\ durable \in File
    /\ proc \in {"down", "loaded", "up"}
    /\ crashes \in 0..MaxCrashes
    /\ pending \subseteq Paths
    /\ acked \in File
    /\ limbo \subseteq File

(***************************************************************************)
(* The candidate invariant of memory.go: "candidate always holds running   *)
(* plus the pending edits".  Where no edit of candidate is pending, the    *)
(* two datastores agree, state leaves included.  A Restore turns what it   *)
(* takes back from running into a pending edit.                            *)
(***************************************************************************)
CandidateIsRunningPlusPending ==
    proc = "up" => \A p \in Paths \ pending : mem["candidate"][p] = mem["running"][p]

(***************************************************************************)
(* A commit "cannot revert configuration that a plane wrote without using  *)
(* candidate": the swap of a commit changes running only on paths edited   *)
(* in candidate since the last commit, rollback or boot, or taken back by  *)
(* a Restore.                                                              *)
(***************************************************************************)
CommitKeepsRunningWrites ==
    [][save.phase = "swap" /\ save.op = "commit" /\ proc = "up" /\ proc' = "up" =>
         \A p \in Paths \ pending : mem'["running"][p] = mem["running"][p]]_vars

(***************************************************************************)
(* Nothing is swapped before the document is safe: while the device is up  *)
(* and no save failed after its rename, startup.json (and what a power     *)
(* loss would leave of it) is exactly the configuration of the startup     *)
(* datastore in memory.                                                    *)
(***************************************************************************)
StartupFileMatchesMemory ==
    proc = "up" /\ Unlocked /\ limbo = {} =>
        disk = configOnly(mem["startup"]) /\ durable = disk

(***************************************************************************)
(* "a crash, a kill or a full disk mid-write cannot leave a truncated      *)
(* document that the next boot refuses to load" (Save): startup.json is a  *)
(* complete document or missing at every step of every save, and after a   *)
(* crash at any of them.                                                   *)
(***************************************************************************)
StartupNeverTruncated == {disk, durable} \subseteq Document \cup {NoFile}

\* Both: startup.json is never truncated, and agrees with memory between saves.
StartupFileSafe == StartupNeverTruncated /\ StartupFileMatchesMemory

(***************************************************************************)
(* The inductive strengthening: what a save in progress has reached, which *)
(* documents the file can hold, and what the startup datastore holds.      *)
(***************************************************************************)
SaveInv ==
    /\ save.op = "none" <=> save.phase = "none"
    /\ save.phase = "rename" => tmp = configOnly(save.next)
    /\ save.phase \in {"syncdir", "swap"} =>
           disk = configOnly(save.next) /\ disk \in limbo
    /\ save.phase = "swap" => durable = disk
    /\ save.op = "commit" => save.next = mem["candidate"]
    /\ save.op = "restore" => proc = "up"
    /\ proc = "down" => save.op = "none"

FileInv ==
    /\ {disk, durable, acked} \cup limbo \subseteq Document \cup {NoFile}
    /\ {disk, durable} \subseteq {acked} \cup limbo

MemInv == proc = "up" => acked = configOnly(mem["startup"])

IInv == TypeOK /\ SaveInv /\ FileInv /\ MemInv /\ CandidateIsRunningPlusPending

(***************************************************************************)
(* The promise of the persistence code: module DurableConfig, with the     *)
(* acknowledged document and the unacknowledged ones of the history.       *)
(***************************************************************************)
Promise == INSTANCE DurableConfig WITH
    Documents <- Document \cup {NoFile}, value <- acked, maybe <- limbo

\* The file operations of Save and the boot sequence implement DurableConfig.
RestartRecoversAcknowledged == Promise!Spec
=============================================================================
