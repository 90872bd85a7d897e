--------------------------- MODULE ConfirmedCommit ---------------------------
(***************************************************************************)
(* NETCONF commit and confirmed commit: the sessions, the one Confirmed    *)
(* state they share, its timer, and the datastores they commit to          *)
(* (internal/netconf/ops, session.go, ssh.go).                             *)
(*                                                                         *)
(* A store method is one step, because it runs under the store's lock; its *)
(* file operations are module Store.  What lies between two store methods, *)
(* or between a store method and Confirmed.mu, is where the steps of other *)
(* sessions, of the timer and of the shutdown come in.                     *)
(***************************************************************************)
EXTENDS Datastores

CONSTANTS
    Sessions,       \* NETCONF session ids; an id is never reused
    None,
    MaxSeq,         \* bound on the confirmed commits armed
    MaxRestarts,    \* bound on the restarts of one timer
    MaxEdits        \* bound on the edits of the datastores

ASSUME SeqBound == MaxSeq \in Nat
ASSUME NoSession == "timer" \notin Sessions /\ None \notin Sessions

Seq == 1..MaxSeq

\* A confirmed commit that is neither confirmed nor reverted.
Pending == [seq : Seq, session : Sessions, rollback : Tree, armed : BOOLEAN, restarts : Nat]

ASSUME NoneIsNoCommit == None \notin Pending

VARIABLES
    mem,        \* the datastores
    edits,      \* edits so far
    pc,         \* what each session is doing
    snap,       \* the snapshot a session took for the rollback of its commit
    mu,         \* the session holding Confirmed.mu across its commit, or None
    next,       \* Confirmed.next
    pend,       \* Confirmed.pend, or None
    firing,     \* the commits with a timer callback waiting for Confirmed.mu
    rolling,    \* rollbacks claimed under Confirmed.mu and not yet run
    server,     \* "up", "closing", "served" or "exited"
    outcome,    \* history: what became of each confirmed commit
    superseded  \* history: confirmed commits unresolved when a plain commit came

vars == <<mem, edits, pc, snap, mu, next, pend, firing, rolling, server,
          outcome, superseded>>

confirmedVars == <<mu, next, pend, firing, rolling>>
historyVars   == <<outcome, superseded>>

Serving == server = "up"
Alive   == server # "exited"

\* The session is between two RPCs.
Ready(s) == pc[s] = "ready" /\ Serving

Unresolved == {k \in Seq : outcome[k] \in {"pending", "claimed"}}
-----------------------------------------------------------------------------
(***************************************************************************)
(* Edits: edit-config of the candidate, and writes to running by any       *)
(* plane.  Each validates its proposal and writes it as one batch.         *)
(***************************************************************************)
Write(ds, p, v) ==
    /\ Serving
    /\ edits < MaxEdits
    /\ mem[ds][p] # v
    /\ Set(mem, ds, p, v)[ds] \in Valid
    /\ mem' = Set(mem, ds, p, v)
    /\ edits' = edits + 1
    /\ UNCHANGED <<pc, snap, confirmedVars, server, historyVars>>

EditConfig(s, p, v) == Ready(s) /\ Write("candidate", p, v)

PlaneWrite(p, v) == Write("running", p, v)

DiscardChanges(s) ==
    /\ Ready(s)
    /\ mem' = Rollback(mem)
    /\ UNCHANGED <<edits, pc, snap, confirmedVars, server, historyVars>>
-----------------------------------------------------------------------------
(***************************************************************************)
(* <commit/>: Store.Commit, then Confirmed.Confirm.                        *)
(***************************************************************************)
PlainCommit(s) ==
    /\ Ready(s)
    /\ mem["candidate"] \in Valid
    /\ mem' = Commit(mem["candidate"])
    /\ superseded' = superseded \cup Unresolved
    /\ pc' = [pc EXCEPT ![s] = "confirm"]
    /\ UNCHANGED <<edits, snap, confirmedVars, server, outcome>>

\* Mutant: the pending commit is left armed.
ConfirmForgets(s) ==
    /\ Alive /\ pc[s] = "confirm"
    /\ mu = None
    /\ outcome' = IF pend = None THEN outcome
                  ELSE [outcome EXCEPT ![pend.seq] = "confirmed"]
    /\ pc' = [pc EXCEPT ![s] = "ready"]
    /\ UNCHANGED <<mem, edits, snap, mu, next, pend, firing, rolling, server, superseded>>

Confirm(s) ==
    /\ Alive /\ pc[s] = "confirm"
    /\ mu = None
    /\ pend' = None
    /\ outcome' = IF pend = None THEN outcome
                  ELSE [outcome EXCEPT ![pend.seq] = "confirmed"]
    /\ pc' = [pc EXCEPT ![s] = "ready"]
    /\ UNCHANGED <<mem, edits, snap, mu, next, firing, rolling, server, superseded>>
-----------------------------------------------------------------------------
(***************************************************************************)
(* <commit><confirmed/></commit>: Store.Snapshot, then Confirmed.Apply.    *)
(* Apply holds Confirmed.mu across Store.Commit and the arming.            *)
(***************************************************************************)
Snapshot(s) ==
    /\ Ready(s)
    /\ snap' = [snap EXCEPT ![s] = mem["running"]]
    /\ pc' = [pc EXCEPT ![s] = "apply"]
    /\ UNCHANGED <<mem, edits, confirmedVars, server, historyVars>>

Denied(s) == pend # None /\ pend.session # s

\* The error replies: access-denied, a rejected candidate, a failed save, or
\* a context that was cancelled in between.
ApplyFails(s) ==
    /\ Alive /\ pc[s] = "apply"
    /\ mu = None
    /\ pc' = [pc EXCEPT ![s] = "ready"]
    /\ snap' = [snap EXCEPT ![s] = None]
    /\ UNCHANGED <<mem, edits, confirmedVars, server, historyVars>>

ApplyCommit(s) ==
    /\ Serving /\ pc[s] = "apply"
    /\ mu = None
    /\ ~ Denied(s)
    /\ mem["candidate"] \in Valid
    /\ IF pend = None THEN next < MaxSeq ELSE pend.restarts < MaxRestarts
    /\ mu' = s
    /\ mem' = Commit(mem["candidate"])
    /\ pc' = [pc EXCEPT ![s] = "arm"]
    /\ UNCHANGED <<edits, snap, next, pend, firing, rolling, server,
                   outcome, superseded>>

\* A follow-up keeps the rollback target and only restarts the timer.
Restart == [pend EXCEPT !.armed = TRUE, !.restarts = pend.restarts + 1]

\* Mutant: the follow-up installs a new pending commit over the first one.
ArmAlways(s) ==
    /\ Alive /\ pc[s] = "arm"
    /\ next < MaxSeq
    /\ next' = next + 1
    /\ pend' = [seq |-> next + 1, session |-> s, rollback |-> snap[s],
                armed |-> TRUE, restarts |-> 0]
    /\ outcome' = [outcome EXCEPT ![next + 1] = "pending"]
    /\ mu' = None
    /\ pc' = [pc EXCEPT ![s] = "ready"]
    /\ snap' = [snap EXCEPT ![s] = None]
    /\ UNCHANGED <<mem, edits, firing, rolling, server, superseded>>

Arm(s) ==
    /\ Alive /\ pc[s] = "arm"
    /\ \/ /\ pend # None
          /\ pend' = Restart
          /\ UNCHANGED <<next, outcome>>
       \/ /\ pend = None
          /\ next' = next + 1
          /\ pend' = [seq |-> next + 1, session |-> s, rollback |-> snap[s],
                      armed |-> TRUE, restarts |-> 0]
          /\ outcome' = [outcome EXCEPT ![next + 1] = "pending"]
    /\ mu' = None
    /\ pc' = [pc EXCEPT ![s] = "ready"]
    /\ snap' = [snap EXCEPT ![s] = None]
    /\ UNCHANGED <<mem, edits, firing, rolling, server, superseded>>
-----------------------------------------------------------------------------
(***************************************************************************)
(* The timer.  Its callback is a goroutine of its own: Stop and Reset do   *)
(* not recall one that has started and is waiting for Confirmed.mu.        *)
(***************************************************************************)
TimerExpires ==
    /\ Alive
    /\ pend # None
    /\ pend.armed
    /\ pend' = [pend EXCEPT !.armed = FALSE]
    /\ firing' = firing \cup {pend.seq}
    /\ UNCHANGED <<mem, edits, pc, snap, mu, next, rolling, server, historyVars>>

\* The pending commit is taken out of Confirmed; its rollback runs later,
\* after Confirmed.mu is released.
Claim(who) ==
    /\ rolling' = rolling \cup {[seq |-> pend.seq, target |-> pend.rollback, by |-> who]}
    /\ outcome' = [outcome EXCEPT ![pend.seq] = "claimed"]
    /\ pend' = None

\* The callback belongs to the commit that is still pending.
Current(k) == pend # None /\ pend.seq = k

\* Mutant: the callback reverts whatever is pending.
fireAnySeq(k) ==
    /\ Alive
    /\ mu = None
    /\ firing' = firing \ {k}
    /\ \/ pend # None /\ Claim("timer")
       \/ pend = None /\ UNCHANGED <<rolling, outcome, pend>>
    /\ UNCHANGED <<mem, edits, pc, snap, mu, next, server, superseded>>

fire(k) ==
    /\ Alive
    /\ mu = None
    /\ firing' = firing \ {k}
    /\ \/ /\ Current(k)
          /\ Claim("timer")
       \/ /\ ~ Current(k)
          /\ UNCHANGED <<rolling, outcome, pend>>
    /\ UNCHANGED <<mem, edits, pc, snap, mu, next, server, superseded>>

\* runRollback: Restore, or its failure, which is only logged.
RunRollback(r) ==
    /\ Alive
    /\ rolling' = rolling \ {r}
    /\ \/ /\ mem' = Restore(mem, r.target)
          /\ outcome' = [outcome EXCEPT ![r.seq] = "rolledback"]
       \/ /\ outcome' = [outcome EXCEPT ![r.seq] = "failed"]
          /\ UNCHANGED mem
    /\ pc' = IF r.by \in Sessions THEN [pc EXCEPT ![r.by] = "ended"] ELSE pc
    /\ UNCHANGED <<edits, snap, mu, next, pend, firing, server, superseded>>
-----------------------------------------------------------------------------
(***************************************************************************)
(* The end of a session: close-session, a lost connection, or the server   *)
(* closing every connection.                                               *)
(***************************************************************************)

Owns(s) == pend # None /\ pend.session = s

\* Mutant: the confirmed commit of the session is left pending.
SessionEndedForgets(s) ==
    /\ Alive /\ pc[s] = "ready"
    /\ mu = None
    /\ pc' = [pc EXCEPT ![s] = "ended"]
    /\ UNCHANGED <<mem, edits, snap, confirmedVars, server, historyVars>>

SessionEnded(s) ==
    /\ Alive /\ pc[s] = "ready"
    /\ mu = None
    /\ \/ /\ Owns(s)
          /\ Claim(s)
          /\ pc' = [pc EXCEPT ![s] = "rollback"]
       \/ /\ ~ Owns(s)
          /\ pc' = [pc EXCEPT ![s] = "ended"]
          /\ UNCHANGED <<rolling, outcome, pend>>
    /\ UNCHANGED <<mem, edits, snap, mu, next, firing, server, superseded>>

\* SIGINT or SIGTERM cancels the context of run; Serve then closes every
\* connection.
Shutdown ==
    /\ Serving
    /\ server' = "closing"
    /\ UNCHANGED <<mem, edits, pc, snap, confirmedVars, historyVars>>

\* Serve waits for the sessions, then Confirmed.Close stops the timer.
ServeReturns ==
    /\ server = "closing"
    /\ \A s \in Sessions : pc[s] = "ended"
    /\ server' = "served"
    /\ pend' = None
    /\ UNCHANGED <<mem, edits, pc, snap, mu, next, firing, rolling, historyVars>>

\* run returns when the context is cancelled, and the process ends; it does
\* not wait for Serve.
Exit ==
    /\ server \in {"closing", "served"}
    /\ server' = "exited"
    /\ UNCHANGED <<mem, edits, pc, snap, confirmedVars, historyVars>>

Init ==
    /\ mem = [d \in Datastore |-> Seed]
    /\ edits = 0
    /\ pc = [s \in Sessions |-> "ready"]
    /\ snap = [s \in Sessions |-> None]
    /\ mu = None
    /\ next = 0
    /\ pend = None
    /\ firing = {}
    /\ rolling = {}
    /\ server = "up"
    /\ outcome = [k \in Seq |-> "unused"]
    /\ superseded = {}

SessionStep(s) ==
    \/ \E p \in ConfigPaths, v \in Values \cup {Absent} : EditConfig(s, p, v)
    \/ DiscardChanges(s)
    \/ PlainCommit(s)
    \/ Confirm(s)
    \/ Snapshot(s)
    \/ ApplyFails(s)
    \/ ApplyCommit(s)
    \/ Arm(s)
    \/ SessionEnded(s)

Next ==
    \/ \E s \in Sessions : SessionStep(s)
    \/ \E p \in ConfigPaths, v \in Values \cup {Absent} : PlaneWrite(p, v)
    \/ TimerExpires
    \/ \E k \in firing : fire(k)
    \/ \E r \in rolling : RunRollback(r)
    \/ Shutdown
    \/ ServeReturns
    \/ Exit

(***************************************************************************)
(* Fairness: the Go runtime runs an expired timer's callback, and every    *)
(* goroutine that is past its last blocking read goes on.  Clients owe     *)
(* nothing: no RPC, edit or end of session is fair.                        *)
(***************************************************************************)
Fairness ==
    /\ WF_vars(TimerExpires)
    /\ WF_vars(\E k \in firing : fire(k))
    /\ WF_vars(\E r \in rolling : RunRollback(r))
    /\ \A s \in Sessions : WF_vars(Confirm(s)) /\ WF_vars(Arm(s))

Spec == Init /\ [][Next]_vars

FairSpec == Spec /\ Fairness
-----------------------------------------------------------------------------
Rolling == [seq : Seq, target : Tree, by : Sessions \cup {"timer"}]

\* The type invariant.
TypeOK ==
    /\ mem \in [Datastore -> Tree]
    /\ edits \in 0..MaxEdits
    /\ pc \in [Sessions -> {"ready", "confirm", "apply", "arm", "rollback", "ended"}]
    /\ snap \in [Sessions -> Tree \cup {None}]
    /\ mu \in Sessions \cup {None}
    /\ next \in 0..MaxSeq
    /\ pend \in Pending \cup {None}
    /\ firing \subseteq Seq
    /\ rolling \subseteq Rolling
    /\ server \in {"up", "closing", "served", "exited"}
    /\ outcome \in [Seq -> {"unused", "pending", "confirmed", "claimed",
                            "rolledback", "failed"}]
    /\ superseded \subseteq Seq

(***************************************************************************)
(* A confirmed commit is resolved once: it is confirmed, or its rollback   *)
(* is claimed and then run, and nothing happens to it afterwards, in       *)
(* whatever order Confirm, the timer callback and SessionEnded get         *)
(* Confirmed.mu.                                                           *)
(***************************************************************************)
ResolvedOnce ==
    [][\A k \in Seq : outcome'[k] # outcome[k] =>
           \/ outcome[k] = "unused" /\ outcome'[k] = "pending"
           \/ outcome[k] = "pending" /\ outcome'[k] \in {"confirmed", "claimed"}
           \/ outcome[k] = "claimed" /\ outcome'[k] \in {"rolledback", "failed"}]_vars

(***************************************************************************)
(* "a timer that fires after the commit was confirmed or replaced cannot   *)
(* roll anything back" (pendingCommit.seq): a timer callback only ever     *)
(* claims the commit it was started for.                                   *)
(***************************************************************************)
TimerRevertsOwnCommit ==
    [][\A r \in rolling' \ rolling :
           r.by = "timer" => r.seq \in firing \ firing']_vars

(***************************************************************************)
(* "every session has already ended and reverted its own confirmed commit" *)
(* (Confirmed.Close): a confirmed commit never outlives the session that   *)
(* issued it, so the close after Serve's wait drops no rollback.           *)
(***************************************************************************)
PendingHasLiveOwner ==
    pend # None => pc[pend.session] \notin {"ended", "rollback"}

(***************************************************************************)
(* A confirmed commit does not stay undecided: it is confirmed or its      *)
(* rollback runs, unless the process exits first.                          *)
(***************************************************************************)
EventuallyResolved ==
    \A k \in Seq : k \in Unresolved ~> (k \notin Unresolved \/ server = "exited")
-----------------------------------------------------------------------------
(***************************************************************************)
(* What the documentation says and the code does not keep.                 *)
(***************************************************************************)

\* "any later successful <commit/> ... from any session - confirms the
\* change: the timer is cancelled and the configuration stays."
ConfirmingCommitSticks ==
    \A k \in superseded : outcome[k] # "rolledback"
=============================================================================
