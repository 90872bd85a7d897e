----------------------- MODULE ConfirmedCommitProofs ------------------------
(***************************************************************************)
(* Proofs about module ConfirmedCommit, for every set of sessions, paths   *)
(* and values, every validator and every number of commits.                *)
(***************************************************************************)
EXTENDS ConfirmedCommit, TLAPS

Typed ==
    /\ pc \in [Sessions -> {"ready", "confirm", "apply", "arm", "rollback", "ended"}]
    /\ mem \in [Datastore -> Tree]
    /\ snap \in [Sessions -> Tree \cup {None}]
    /\ \A s \in Sessions : pc[s] \in {"apply", "arm"} => snap[s] \in Tree
    /\ next \in 0..MaxSeq
    /\ pend \in Pending \cup {None}
    /\ outcome \in [Seq -> {"unused", "pending", "confirmed", "claimed", "rolledback", "failed"}]
    /\ \A r \in rolling : r.target \in Tree

\* The session that is about to arm a commit holds Confirmed.mu, and the number
\* it will use is free.
ArmingHolds ==
    \A s \in Sessions : pc[s] = "arm" => mu = s /\ (pend = None => next < MaxSeq)

\* The pending commit is undecided, and the later numbers are unused.
PendingUndecided ==
    /\ pend # None => outcome[pend.seq] = "pending" /\ pend.seq <= next
    /\ \A k \in Seq : k > next => outcome[k] = "unused"

\* Every rollback that waits is the only one of its commit, and its session, if
\* it is one that ended, waits for it.
RollbacksDistinct ==
    /\ \A r \in rolling : r.seq \in Seq /\ outcome[r.seq] = "claimed"
    /\ \A r, q \in rolling : r.seq = q.seq => r = q
    /\ \A r \in rolling : r.by \in Sessions => pc[r.by] = "rollback"
    /\ \A r, q \in rolling : r.by \in Sessions /\ r.by = q.by => r = q

IInv == Typed /\ ArmingHolds /\ PendingUndecided /\ RollbacksDistinct /\ PendingHasLiveOwner
-----------------------------------------------------------------------------
\* Edits, commits, discards and rollbacks leave three trees.
LEMMA StoreType ==
  ASSUME NEW m \in [Datastore -> Tree]
  PROVE  /\ \A ds \in Datastore, p \in ConfigPaths, v \in Values \cup {Absent} :
                Set(m, ds, p, v) \in [Datastore -> Tree]
         /\ Rollback(m) \in [Datastore -> Tree]
         /\ \A t \in Tree : Commit(t) \in [Datastore -> Tree] /\ Restore(m, t) \in [Datastore -> Tree]
  <1>1. ASSUME NEW ds \in Datastore, NEW p \in ConfigPaths, NEW v \in Values \cup {Absent}
        PROVE  Set(m, ds, p, v) \in [Datastore -> Tree]
    <2>1. \A t \in Tree : Overlay(t, One(p, v)) \in Tree
      BY DEF Overlay, One, Tree
    <2> QED BY <2>1 DEF Set, Apply
  <1>2. Rollback(m) \in [Datastore -> Tree]
    BY DEF Rollback, Datastore
  <1>3. \A t \in Tree : Commit(t) \in [Datastore -> Tree] /\ Restore(m, t) \in [Datastore -> Tree]
    BY DEF Commit, Restore
  <1> QED BY <1>1, <1>2, <1>3

\* The numbers of commits.
LEMMA SeqFacts == \A k \in Seq : k \in Nat /\ k # 0 /\ k <= MaxSeq
  BY SeqBound DEF Seq

\* Nothing is pending in the beginning.
LEMMA InitIInv == Init => IInv
  <1> SUFFICES ASSUME Init PROVE IInv
    OBVIOUS
  <1>1. Seed \in Tree
    BY ValidTrees, SeedIsValid
  <1>2. Typed
    BY <1>1, SeqBound DEF Init, Typed
  <1> QED BY <1>2 DEF Init, IInv, ArmingHolds, PendingUndecided, RollbacksDistinct, PendingHasLiveOwner

\* A session that moves on, without arming and without ending, keeps the
\* invariant as long as it leaves the shared state alone.
LEMMA MovesOn ==
  ASSUME IInv, NEW s \in Sessions, pc[s] \notin {"rollback", "ended"},
         NEW to \in {"ready", "confirm", "apply"}, pc' = [pc EXCEPT ![s] = to],
         mem' \in [Datastore -> Tree],
         NEW t \in Tree \cup {None}, snap' = [snap EXCEPT ![s] = t], to = "apply" => t \in Tree,
         UNCHANGED <<mu, next, pend, rolling, outcome>>
  PROVE  IInv'
  <1>1. \A q \in Sessions : pc'[q] = IF q = s THEN to ELSE pc[q]
    BY DEF IInv, Typed
  <1>2. \A q \in Sessions : snap'[q] = IF q = s THEN t ELSE snap[q]
    BY DEF IInv, Typed
  <1>3. Typed'
    BY <1>1, <1>2 DEF IInv, Typed
  <1>4. ArmingHolds'
    BY <1>1 DEF IInv, ArmingHolds
  <1>5. PendingUndecided'
    BY DEF IInv, PendingUndecided
  <1>6. RollbacksDistinct'
    BY <1>1 DEF IInv, RollbacksDistinct
  <1>7. PendingHasLiveOwner'
    BY <1>1 DEF IInv, PendingHasLiveOwner, Typed, Pending
  <1> QED BY <1>3, <1>4, <1>5, <1>6, <1>7 DEF IInv

\* A pending commit that is claimed joins the rollbacks as the only one of its
\* number.
LEMMA ClaimStep ==
  ASSUME IInv, pend # None, NEW who, Claim(who), mu = None, UNCHANGED <<mu, mem, snap, next>>,
         \/ who = "timer" /\ pc' = pc
         \/ who = pend.session /\ pc' = [pc EXCEPT ![who] = "rollback"]
  PROVE  IInv'
  <1> DEFINE r == [seq |-> pend.seq, target |-> pend.rollback, by |-> who]
  <1>1. /\ pend \in Pending /\ pend.seq \in Seq /\ pend.session \in Sessions
        /\ pend.rollback \in Tree
        /\ outcome[pend.seq] = "pending" /\ pend.seq <= next
        /\ pc[pend.session] \notin {"ended", "rollback"}
    BY DEF IInv, Typed, Pending, PendingUndecided, PendingHasLiveOwner
  <1>2. rolling' = rolling \cup {r} /\ pend' = None
        /\ outcome' = [outcome EXCEPT ![pend.seq] = "claimed"]
    BY DEF Claim
  <1>3. r.seq = pend.seq /\ r.target = pend.rollback /\ r.by = who
    OBVIOUS
  <1> HIDE DEF r
  <1>4. \A k \in Seq : outcome'[k] = IF k = pend.seq THEN "claimed" ELSE outcome[k]
    BY <1>2 DEF IInv, Typed
  <1>5. \A q \in rolling : q.seq # pend.seq
    BY <1>1 DEF IInv, RollbacksDistinct
  <1>6. \A s \in Sessions : pc'[s] = pc[s] \/ (s = who /\ pc'[s] = "rollback")
    BY <1>1 DEF IInv, Typed
  <1>7. who \in Sessions => pc'[who] = "rollback"
    BY <1>1, NoSession DEF IInv, Typed
  <1>8. pc' \in [Sessions -> {"ready", "confirm", "apply", "arm", "rollback", "ended"}]
    BY <1>1 DEF IInv, Typed
  <1>9. Typed'
    BY <1>1, <1>2, <1>3, <1>6, <1>8 DEF IInv, Typed
  <1>10. ArmingHolds'
    BY <1>6, NoSession DEF IInv, ArmingHolds
  <1>11. PendingUndecided'
    BY <1>1, <1>2, <1>4, SeqFacts DEF IInv, PendingUndecided, Typed
  <1>n. \A q \in rolling : who \in Sessions => q.by # who
    BY <1>1, NoSession DEF IInv, RollbacksDistinct
  <1>12. RollbacksDistinct'
    BY <1>n, <1>1, <1>2, <1>3, <1>4, <1>5, <1>6, <1>7 DEF IInv, RollbacksDistinct
  <1>13. PendingHasLiveOwner'
    BY <1>2 DEF PendingHasLiveOwner
  <1> QED BY <1>9, <1>10, <1>11, <1>12, <1>13 DEF IInv

\* What a step may do to the outcome of a commit, and which rollbacks of the
\* timer it may add.
Resolves ==
    \A k \in Seq : outcome'[k] # outcome[k] =>
        \/ outcome[k] = "unused" /\ outcome'[k] = "pending"
        \/ outcome[k] = "pending" /\ outcome'[k] \in {"confirmed", "claimed"}
        \/ outcome[k] = "claimed" /\ outcome'[k] \in {"rolledback", "failed"}

OwnCommit == \A r \in rolling' \ rolling : r.by = "timer" => r.seq \in firing \ firing'

\* A claim resolves the pending commit.
LEMMA ClaimResolves ==
  ASSUME IInv, pend # None, NEW who, Claim(who)
  PROVE  /\ Resolves
         /\ \A r \in rolling' \ rolling : r.by = who /\ r.seq = pend.seq
  BY DEF Claim, Resolves, IInv, Typed, PendingUndecided

\* The steps of a session.
LEMMA SessionKeeps ==
  ASSUME IInv, NEW s \in Sessions, SessionStep(s)
  PROVE  IInv' /\ Resolves /\ OwnCommit
  <1>s. [snap EXCEPT ![s] = snap[s]] = snap /\ snap[s] \in Tree \cup {None}
    BY DEF IInv, Typed
  <1>m. mem \in [Datastore -> Tree] /\ mem["candidate"] \in Tree /\ mem["running"] \in Tree
    BY DEF IInv, Typed, Datastore
  <1>u. ASSUME UNCHANGED <<rolling, outcome>> PROVE Resolves /\ OwnCommit
    BY <1>u DEF Resolves, OwnCommit
  <1>1. ASSUME NEW p \in ConfigPaths, NEW v \in Values \cup {Absent}, EditConfig(s, p, v)
        PROVE  IInv' /\ Resolves /\ OwnCommit
    <2>1. UNCHANGED <<pc, snap, mu, next, pend, rolling, outcome>>
      BY <1>1 DEF EditConfig, Write, confirmedVars, historyVars
    <2>2. mem' \in [Datastore -> Tree]
      BY <1>1, <1>m, StoreType DEF EditConfig, Write, Datastore
    <2> QED
      BY <1>u, <2>1, <2>2 DEF IInv, Typed, ArmingHolds, PendingUndecided, RollbacksDistinct,
                              PendingHasLiveOwner
  <1>2. ASSUME DiscardChanges(s) PROVE IInv' /\ Resolves /\ OwnCommit
    <2>1. UNCHANGED <<pc, snap, mu, next, pend, rolling, outcome>>
      BY <1>2 DEF DiscardChanges, confirmedVars, historyVars
    <2>2. mem' \in [Datastore -> Tree]
      BY <1>2, <1>m, StoreType DEF DiscardChanges
    <2> QED
      BY <1>u, <2>1, <2>2 DEF IInv, Typed, ArmingHolds, PendingUndecided, RollbacksDistinct,
                              PendingHasLiveOwner
  <1>3. ASSUME PlainCommit(s) PROVE IInv' /\ Resolves /\ OwnCommit
    <2>1. /\ pc[s] = "ready" /\ pc' = [pc EXCEPT ![s] = "confirm"]
          /\ UNCHANGED <<snap, mu, next, pend, rolling, outcome>>
      BY <1>3 DEF PlainCommit, Ready, confirmedVars
    <2>2. mem' \in [Datastore -> Tree]
      BY <1>3, <1>m, StoreType DEF PlainCommit
    <2> QED BY <1>s, <1>u, <2>1, <2>2, MovesOn
  <1>4. ASSUME Snapshot(s) PROVE IInv' /\ Resolves /\ OwnCommit
    <2>1. /\ pc[s] = "ready" /\ pc' = [pc EXCEPT ![s] = "apply"]
          /\ snap' = [snap EXCEPT ![s] = mem["running"]]
          /\ UNCHANGED <<mem, mu, next, pend, rolling, outcome>>
      BY <1>4 DEF Snapshot, Ready, confirmedVars, historyVars
    <2> QED BY <1>m, <1>u, <2>1, MovesOn
  <1>5. ASSUME ApplyFails(s) PROVE IInv' /\ Resolves /\ OwnCommit
    <2>1. /\ pc[s] = "apply" /\ pc' = [pc EXCEPT ![s] = "ready"]
          /\ snap' = [snap EXCEPT ![s] = None]
          /\ UNCHANGED <<mem, mu, next, pend, rolling, outcome>>
      BY <1>5 DEF ApplyFails, confirmedVars, historyVars
    <2> QED BY <1>m, <1>u, <2>1, MovesOn
  <1>6. ASSUME Confirm(s) PROVE IInv' /\ Resolves /\ OwnCommit
    <2>1. /\ mu = None /\ pend' = None /\ pc[s] = "confirm" /\ pc' = [pc EXCEPT ![s] = "ready"]
          /\ UNCHANGED <<mem, snap, mu, next, rolling>>
      BY <1>6 DEF Confirm
    <2>2. \A k \in Seq : outcome'[k] = outcome[k]
                         \/ (outcome[k] = "pending" /\ outcome'[k] = "confirmed" /\ k <= next)
      BY <1>6 DEF Confirm, IInv, Typed, PendingUndecided
    <2>3. outcome' \in [Seq -> {"unused", "pending", "confirmed", "claimed", "rolledback", "failed"}]
      BY <1>6 DEF Confirm, IInv, Typed
    <2>4. \A q \in Sessions : pc'[q] = IF q = s THEN "ready" ELSE pc[q]
      BY <2>1 DEF IInv, Typed
    <2>5. Typed'
      BY <2>1, <2>3, <2>4 DEF IInv, Typed
    <2>6. ArmingHolds'
      BY <2>1, <2>4, NoSession DEF IInv, ArmingHolds
    <2>7. PendingUndecided'
      BY <2>1, <2>2, SeqFacts DEF IInv, PendingUndecided, Typed
    <2>8. RollbacksDistinct'
      BY <2>1, <2>2, <2>4 DEF IInv, RollbacksDistinct
    <2>9. Resolves /\ OwnCommit
      BY <2>1, <2>2 DEF Resolves, OwnCommit
    <2> QED BY <2>1, <2>5, <2>6, <2>7, <2>8, <2>9 DEF IInv, PendingHasLiveOwner
  <1>7. ASSUME ApplyCommit(s) PROVE IInv' /\ Resolves /\ OwnCommit
    <2>1. /\ mu = None /\ mu' = s /\ pc[s] = "apply" /\ pc' = [pc EXCEPT ![s] = "arm"]
          /\ pend = None => next < MaxSeq
          /\ UNCHANGED <<snap, next, pend, rolling, outcome>>
      BY <1>7 DEF ApplyCommit
    <2>2. mem' \in [Datastore -> Tree]
      BY <1>7, <1>m, StoreType DEF ApplyCommit
    <2>3. \A q \in Sessions : pc'[q] = IF q = s THEN "arm" ELSE pc[q]
      BY <2>1 DEF IInv, Typed
    <2>4. Typed'
      BY <2>1, <2>2, <2>3 DEF IInv, Typed
    <2>5. ArmingHolds'
      BY <2>1, <2>3, NoSession DEF IInv, ArmingHolds
    <2>6. RollbacksDistinct'
      BY <2>1, <2>3 DEF IInv, RollbacksDistinct
    <2>7. PendingHasLiveOwner'
      BY <2>1, <2>3 DEF IInv, PendingHasLiveOwner, Typed, Pending
    <2> QED BY <1>u, <2>1, <2>4, <2>5, <2>6, <2>7 DEF IInv, PendingUndecided
  <1>8. ASSUME Arm(s) PROVE IInv' /\ Resolves /\ OwnCommit
    <2>1. /\ pc[s] = "arm" /\ pc' = [pc EXCEPT ![s] = "ready"]
          /\ snap' = [snap EXCEPT ![s] = None]
          /\ UNCHANGED <<mem, rolling>>
      BY <1>8 DEF Arm
    <2>2. mu = s /\ (pend = None => next < MaxSeq) /\ snap[s] \in Tree
      BY <2>1 DEF IInv, ArmingHolds, Typed
    <2>3. \A q \in Sessions : pc'[q] = IF q = s THEN "ready" ELSE pc[q]
      BY <2>1 DEF IInv, Typed
    <2>4. ArmingHolds'
      BY <2>2, <2>3 DEF IInv, ArmingHolds
    <2>5. CASE pend # None
      <3>1. pend' = Restart /\ UNCHANGED <<next, outcome>>
        BY <1>8, <2>5 DEF Arm
      <3>2. pend' \in Pending /\ pend'.seq = pend.seq /\ pend'.session = pend.session
        <4>1. pend \in Pending /\ pend.restarts + 1 \in Nat
          BY <2>5 DEF IInv, Typed, Pending
        <4>2. pend' = [pend EXCEPT !.armed = TRUE, !.restarts = pend.restarts + 1]
          BY <3>1 DEF Restart
        <4> QED BY <4>1, <4>2 DEF Pending
      <3>3. Typed'
        BY <2>1, <2>3, <3>1, <3>2 DEF IInv, Typed
      <3>4. PendingUndecided'
        BY <2>5, <3>1, <3>2 DEF IInv, PendingUndecided
      <3>5. RollbacksDistinct'
        BY <2>1, <2>3, <3>1 DEF IInv, RollbacksDistinct
      <3>6. PendingHasLiveOwner'
        BY <2>3, <2>5, <3>2 DEF IInv, PendingHasLiveOwner, Typed, Pending
      <3> QED BY <1>u, <2>1, <2>4, <3>1, <3>3, <3>4, <3>5, <3>6 DEF IInv
    <2>6. CASE pend = None
      <3> DEFINE c == [seq |-> next + 1, session |-> s, rollback |-> snap[s],
                       armed |-> TRUE, restarts |-> 0]
      <3>1. next' = next + 1 /\ pend' = c /\ outcome' = [outcome EXCEPT ![next + 1] = "pending"]
        BY <1>8, <2>6 DEF Arm
      <3>2. next \in Nat /\ next + 1 \in Seq /\ next + 1 \in 0..MaxSeq
        BY <2>2, <2>6, SeqBound DEF IInv, Typed, Seq
      <3>3. c \in Pending /\ c.seq = next + 1 /\ c.session = s
        BY <2>2, <3>2 DEF Pending
      <3> HIDE DEF c
      <3>4. \A k \in Seq : outcome'[k] = IF k = next + 1 THEN "pending" ELSE outcome[k]
        BY <3>1 DEF IInv, Typed
      <3>5. outcome[next + 1] = "unused"
        BY <3>2 DEF IInv, PendingUndecided
      <3>6. Typed'
        BY <2>1, <2>3, <3>1, <3>2, <3>3 DEF IInv, Typed
      <3>7. PendingUndecided'
        BY <3>1, <3>2, <3>3, <3>4, SeqFacts DEF IInv, PendingUndecided
      <3>8. RollbacksDistinct'
        BY <2>1, <2>3, <3>4, <3>5 DEF IInv, RollbacksDistinct
      <3>9. PendingHasLiveOwner'
        BY <2>3, <3>1, <3>3 DEF PendingHasLiveOwner
      <3>10. Resolves /\ OwnCommit
        BY <2>1, <3>4, <3>5 DEF Resolves, OwnCommit
      <3> QED BY <2>4, <3>6, <3>7, <3>8, <3>9, <3>10 DEF IInv
    <2> QED BY <2>5, <2>6
  <1>9. ASSUME SessionEnded(s) PROVE IInv' /\ Resolves /\ OwnCommit
    <2>1. mu = None /\ pc[s] = "ready" /\ UNCHANGED <<mem, snap, mu, next, firing>>
      BY <1>9 DEF SessionEnded
    <2>2. CASE Owns(s)
      <3>1. Claim(s) /\ pc' = [pc EXCEPT ![s] = "rollback"] /\ pend # None /\ pend.session = s
        BY <1>9, <2>2 DEF SessionEnded, Owns
      <3>2. IInv'
        BY <2>1, <3>1, ClaimStep
      <3>3. Resolves /\ OwnCommit
        BY <3>1, ClaimResolves, NoSession DEF OwnCommit
      <3> QED BY <3>2, <3>3
    <2>3. CASE ~ Owns(s)
      <3>1. pc' = [pc EXCEPT ![s] = "ended"] /\ UNCHANGED <<rolling, outcome, pend>>
        BY <1>9, <2>3 DEF SessionEnded
      <3>2. \A q \in Sessions : pc'[q] = IF q = s THEN "ended" ELSE pc[q]
        BY <3>1 DEF IInv, Typed
      <3>3. Typed'
        BY <2>1, <3>1, <3>2 DEF IInv, Typed
      <3>4. ArmingHolds'
        BY <2>1, <3>1, <3>2 DEF IInv, ArmingHolds
      <3>5. RollbacksDistinct'
        BY <2>1, <3>1, <3>2 DEF IInv, RollbacksDistinct
      <3>6. PendingHasLiveOwner'
        BY <2>3, <3>1, <3>2 DEF IInv, PendingHasLiveOwner, Owns, Typed, Pending
      <3> QED BY <1>u, <2>1, <3>1, <3>3, <3>4, <3>5, <3>6 DEF IInv, PendingUndecided
    <2> QED BY <2>2, <2>3
  <1> QED BY <1>1, <1>2, <1>3, <1>4, <1>5, <1>6, <1>7, <1>8, <1>9 DEF SessionStep

\* The steps of the timer, of a rollback and of the server, and all the others.
LEMMA NextKeeps ==
  ASSUME IInv, [Next]_vars
  PROVE  IInv' /\ Resolves /\ OwnCommit
  <1>u. ASSUME UNCHANGED <<rolling, outcome>> PROVE Resolves /\ OwnCommit
    BY <1>u DEF Resolves, OwnCommit
  <1>i. ASSUME UNCHANGED <<mem, pc, snap, mu, next, pend, rolling, outcome>>
        PROVE  IInv' /\ Resolves /\ OwnCommit
    BY <1>i, <1>u DEF IInv, Typed, ArmingHolds, PendingUndecided, RollbacksDistinct,
                      PendingHasLiveOwner
  <1>1. ASSUME NEW p \in ConfigPaths, NEW v \in Values \cup {Absent}, PlaneWrite(p, v)
        PROVE  IInv' /\ Resolves /\ OwnCommit
    <2>1. UNCHANGED <<pc, snap, mu, next, pend, rolling, outcome>>
      BY <1>1 DEF PlaneWrite, Write, confirmedVars, historyVars
    <2>2. mem' \in [Datastore -> Tree]
      BY <1>1, StoreType DEF PlaneWrite, Write, Datastore, IInv, Typed
    <2> QED
      BY <1>u, <2>1, <2>2 DEF IInv, Typed, ArmingHolds, PendingUndecided, RollbacksDistinct,
                              PendingHasLiveOwner
  <1>2. ASSUME TimerExpires PROVE IInv' /\ Resolves /\ OwnCommit
    <2>1. /\ pend # None /\ pend' = [pend EXCEPT !.armed = FALSE]
          /\ UNCHANGED <<mem, pc, snap, mu, next, rolling, outcome>>
      BY <1>2 DEF TimerExpires, historyVars
    <2>2. pend \in Pending
      BY <2>1 DEF IInv, Typed
    <2>3. pend' \in Pending /\ pend'.seq = pend.seq /\ pend'.session = pend.session
      BY <2>1, <2>2 DEF Pending
    <2>4. Typed'
      BY <2>1, <2>3 DEF IInv, Typed
    <2>5. ArmingHolds'
      BY <2>1, <2>3, NoneIsNoCommit DEF IInv, ArmingHolds
    <2>6. PendingUndecided'
      BY <2>1, <2>3 DEF IInv, PendingUndecided
    <2> QED
      BY <1>u, <2>1, <2>3, <2>4, <2>5, <2>6 DEF IInv, RollbacksDistinct, PendingHasLiveOwner
  <1>3. ASSUME NEW k \in firing, fire(k) PROVE IInv' /\ Resolves /\ OwnCommit
    <2>1. mu = None /\ firing' = firing \ {k} /\ UNCHANGED <<mem, pc, snap, mu, next>>
      BY <1>3 DEF fire
    <2>2. CASE Current(k)
      <3>1. Claim("timer") /\ pend # None /\ pend.seq = k
        BY <1>3, <2>2 DEF fire, Current
      <3>2. IInv'
        BY <2>1, <3>1, ClaimStep
      <3> QED BY <2>1, <3>1, <3>2, ClaimResolves DEF OwnCommit
    <2>3. CASE ~ Current(k)
      BY <1>3, <1>i, <2>1, <2>3 DEF fire
    <2> QED BY <2>2, <2>3
  <1>4. ASSUME NEW r \in rolling, RunRollback(r) PROVE IInv' /\ Resolves /\ OwnCommit
    <2>1. rolling' = rolling \ {r} /\ UNCHANGED <<snap, mu, next, pend>>
      BY <1>4 DEF RunRollback
    <2>2. r.seq \in Seq /\ outcome[r.seq] = "claimed" /\ r.target \in Tree
      BY DEF IInv, RollbacksDistinct, Typed
    <2>3. mem' \in [Datastore -> Tree]
      BY <1>4, <2>2, StoreType DEF RunRollback, IInv, Typed
    <2>4. PICK o \in {"rolledback", "failed"} : outcome' = [outcome EXCEPT ![r.seq] = o]
      BY <1>4 DEF RunRollback
    <2>5. \A k \in Seq : outcome'[k] = IF k = r.seq THEN o ELSE outcome[k]
      BY <2>4 DEF IInv, Typed
    <2>6. /\ pc' \in [Sessions -> {"ready", "confirm", "apply", "arm", "rollback", "ended"}]
          /\ \A s \in Sessions : pc'[s] = pc[s] \/ (s = r.by /\ pc[s] = "rollback" /\ pc'[s] = "ended")
      BY <1>4 DEF RunRollback, IInv, Typed, RollbacksDistinct
    <2>7. Typed'
      BY <2>1, <2>3, <2>4, <2>6 DEF IInv, Typed
    <2>8. ArmingHolds'
      BY <2>1, <2>6 DEF IInv, ArmingHolds
    <2>9. PendingUndecided'
      BY <2>1, <2>2, <2>5 DEF IInv, PendingUndecided, Typed, Pending
    <2>10. RollbacksDistinct'
      <3>1. \A q \in rolling' : q \in rolling /\ q.seq # r.seq
        BY <2>1 DEF IInv, RollbacksDistinct
      <3>2. \A q \in rolling' : q.by \in Sessions => q.by # r.by
        BY <3>1 DEF IInv, RollbacksDistinct
      <3> QED BY <2>5, <2>6, <3>1, <3>2 DEF IInv, RollbacksDistinct
    <2>11. PendingHasLiveOwner'
      BY <2>1, <2>6 DEF IInv, PendingHasLiveOwner, Typed, Pending
    <2>12. Resolves /\ OwnCommit
      BY <2>1, <2>2, <2>5 DEF Resolves, OwnCommit
    <2> QED BY <2>7, <2>8, <2>9, <2>10, <2>11, <2>12 DEF IInv
  <1>5. ASSUME Shutdown \/ Exit PROVE IInv' /\ Resolves /\ OwnCommit
    BY <1>5, <1>i DEF Shutdown, Exit, confirmedVars, historyVars
  <1>6. ASSUME ServeReturns PROVE IInv' /\ Resolves /\ OwnCommit
    <2>1. /\ pend' = None /\ \A s \in Sessions : pc[s] = "ended"
          /\ UNCHANGED <<mem, pc, snap, mu, next, rolling, outcome>>
      BY <1>6 DEF ServeReturns, historyVars
    <2> QED
      BY <1>u, <2>1 DEF IInv, Typed, ArmingHolds, PendingUndecided, RollbacksDistinct,
                        PendingHasLiveOwner
  <1>7. ASSUME UNCHANGED vars PROVE IInv' /\ Resolves /\ OwnCommit
    BY <1>7, <1>i DEF vars
  <1> QED BY <1>1, <1>2, <1>3, <1>4, <1>5, <1>6, <1>7, SessionKeeps DEF Next
-----------------------------------------------------------------------------
\* The invariant holds of every reachable state.
LEMMA Inductive == Spec => []IInv
  <1>1. IInv /\ [Next]_vars => IInv'
    BY NextKeeps
  <1> QED BY <1>1, InitIInv, PTL DEF Spec

\* No confirmed commit outlives its session, for any number of sessions, so that
\* Confirmed.Close drops no rollback.
THEOREM OwnerLives == Spec => []PendingHasLiveOwner
  <1>1. IInv => PendingHasLiveOwner
    BY DEF IInv
  <1> QED BY <1>1, Inductive, PTL

\* Confirm, the timer callback and SessionEnded resolve a confirmed commit once
\* between them.
THEOREM CommitResolvedOnce == Spec => ResolvedOnce
  <1>1. IInv /\ [Next]_vars => [Resolves]_vars
    BY NextKeeps
  <1> QED BY <1>1, Inductive, PTL DEF Spec, ResolvedOnce, Resolves

\* The callback of a timer claims the commit it was started for or nothing.
THEOREM TimerOwnCommit == Spec => TimerRevertsOwnCommit
  <1>1. IInv /\ [Next]_vars => [OwnCommit]_vars
    BY NextKeeps
  <1> QED BY <1>1, Inductive, PTL DEF Spec, TimerRevertsOwnCommit, OwnCommit
=============================================================================
