------------------------------ MODULE PtpClock ------------------------------
(***************************************************************************)
(* The PTP clock of the synchronization domain (internal/sync): the state  *)
(* machine, the holdover timer with its one-element expiry channel, and    *)
(* the radio alarms the domain's Run loop drains from its bus channel.     *)
(*                                                                         *)
(* Handle, SyncLoss, Tick and the expiry hold Manager.mu, so each is one   *)
(* step.  The timer callback and the bus run outside it.                   *)
(***************************************************************************)
EXTENDS Naturals, Sequences, FiniteSets

CONSTANTS
    Links,          \* radio links
    Modes,          \* the configured values of ptp/clock/mode in play
    Buffer,         \* capacity of a bus subscriber's channel
    MaxHoldovers,   \* bound on the holdovers entered
    None

ASSUME BufferPositive == Buffer \in Nat \ {0}
ASSUME HoldoverBound == MaxHoldovers \in Nat

State == {"freerun", "acquiring", "locked", "holdover-in-spec", "holdover-out-of-spec"}

EventType == {"SourceDetected", "CalibrationComplete", "SourceLost",
              "SourceRestored", "HoldoverTimerExpired", "ManualReset"}

Holdovers == 1..MaxHoldovers

VARIABLES
    mode,       \* configuration leaf ptp/clock/mode
    leaf,       \* state leaf ptp/clock/state in running
    state,      \* Manager.state
    known,      \* Manager.known
    timer,      \* Manager.timer: the holdover it was armed for, or None
    armed,      \* timers scheduled on the clock, by holdover
    expired,    \* channel Manager.expired: the holdover that filled it, or None
    queue,      \* the bus channel Run drains
    down,       \* links whose radioLinkDown alarm the radio domain has raised
    holdover,   \* history: holdovers entered so far
    raised      \* history: the syncHoldover alarm stands for its subscribers

vars == <<mode, leaf, state, known, timer, armed, expired, queue, down,
          holdover, raised>>

clockVars == <<leaf, state, known, timer, armed, holdover, raised>>
-----------------------------------------------------------------------------
\* The state an event leads to; a pair that is not defined leads nowhere.
nextState(from, e) ==
    CASE e = "SourceDetected" /\ from = "freerun" -> "acquiring"
      [] e = "CalibrationComplete" /\ from = "acquiring" -> "locked"
      [] e = "SourceLost" /\ from = "locked" -> "holdover-in-spec"
      [] e = "SourceLost" /\ from = "acquiring" -> "freerun"
      [] e = "HoldoverTimerExpired" /\ from = "holdover-in-spec" -> "holdover-out-of-spec"
      [] e = "SourceRestored" /\ from \in {"holdover-in-spec", "holdover-out-of-spec"} -> "locked"
      [] e = "ManualReset" -> "freerun"
      [] OTHER -> from

\* ensureState: the state of a manager that has not adopted one is the leaf's.
Current == IF known THEN state ELSE leaf

\* The manager adopts the leaf without a transition.  (The leaf of a device
\* that has just started is the seed's, never a holdover.)
Adopt ==
    /\ state' = Current
    /\ known' = TRUE
    /\ UNCHANGED <<leaf, timer, armed, holdover, raised>>

\* Mutant: the spent timer is not forgotten.
stopHoldoverKeepsTimer == armed' = armed \ {timer} /\ UNCHANGED timer

stopHoldover == armed' = armed \ {timer} /\ timer' = None

\* Mutant: the timer is created and never scheduled.
startHoldoverUnarmed ==
    /\ holdover < MaxHoldovers
    /\ holdover' = holdover + 1
    /\ timer' = holdover'
    /\ armed' = armed \ {timer}

startHoldover ==
    /\ holdover < MaxHoldovers
    /\ holdover' = holdover + 1
    /\ timer' = holdover'
    /\ armed' = (armed \ {timer}) \cup {holdover'}

\* transition: the leaf, the state, the timer, and the alarm of the holdover.
\* Entering out-of-spec forgets the timer without stopping it.
transition(next) ==
    /\ leaf' = next
    /\ state' = next
    /\ known' = TRUE
    /\ CASE next = "holdover-in-spec" -> startHoldover
         [] next = "holdover-out-of-spec" -> timer' = None /\ UNCHANGED <<armed, holdover>>
         [] OTHER -> stopHoldover /\ UNCHANGED holdover
    /\ raised' = (next = "holdover-out-of-spec")

handleLocked(e) ==
    LET next == nextState(Current, e)
    IN  IF next = Current THEN Adopt ELSE transition(next)
-----------------------------------------------------------------------------
(***************************************************************************)
(* The callers of the state machine.                                       *)
(***************************************************************************)

\* Handle, the domain's entry point for events.
Handle(e) ==
    /\ handleLocked(e)
    /\ UNCHANGED <<mode, expired, queue, down>>

\* SyncLoss, behind the RESTCONF simulation endpoint; an unknown source is
\* refused before the state machine is reached.
SyncLoss ==
    /\ handleLocked("SourceLost")
    /\ UNCHANGED <<mode, expired, queue, down>>

\* reconcilePTP in Tick: a free-running master detects its own reference and
\* calibrates, two transitions in one hold of the lock.
Tick ==
    /\ IF mode = "master" /\ Current = "freerun" THEN transition("locked") ELSE Adopt
    /\ UNCHANGED <<mode, expired, queue, down>>

\* The callback of a holdover timer: a full channel swallows the expiry.
TimerFires(h) ==
    /\ armed' = armed \ {h}
    /\ expired' = IF expired = None THEN h ELSE expired
    /\ UNCHANGED <<mode, leaf, state, known, timer, queue, down, holdover, raised>>

\* Mutant: a late expiry is applied in whatever state the clock is.
ExpireHoldoverAlways ==
    /\ expired # None
    /\ expired' = None
    /\ transition("holdover-out-of-spec")
    /\ UNCHANGED <<mode, queue, down>>

ExpireHoldover ==
    /\ expired # None
    /\ expired' = None
    /\ IF state = "holdover-in-spec"
       THEN handleLocked("HoldoverTimerExpired")
       ELSE UNCHANGED clockVars
    /\ UNCHANGED <<mode, queue, down>>

\* handleDomainEvent for the event at the head of the channel.
HandleDomainEvent ==
    /\ queue # <<>>
    /\ queue' = Tail(queue)
    /\ handleLocked(IF Head(queue).type = "AlarmRaised" THEN "SourceLost" ELSE "SourceRestored")
    /\ UNCHANGED <<mode, expired, down>>
-----------------------------------------------------------------------------
(***************************************************************************)
(* The environment: the radio domain publishes, planes edit the mode.      *)
(***************************************************************************)

\* Bus.Publish never blocks: a full channel loses the event.
Publish(e) == queue' = IF Len(queue) < Buffer THEN Append(queue, e) ELSE queue

LinkDown(l) ==
    /\ l \notin down
    /\ down' = down \cup {l}
    /\ Publish([type |-> "AlarmRaised", link |-> l])
    /\ UNCHANGED <<mode, expired, clockVars>>

LinkUp(l) ==
    /\ l \in down
    /\ down' = down \ {l}
    /\ Publish([type |-> "AlarmCleared", link |-> l])
    /\ UNCHANGED <<mode, expired, clockVars>>

SetMode(md) ==
    /\ mode' = md
    /\ UNCHANGED <<expired, queue, down, clockVars>>

\* The seed device is a locked clock.
Init ==
    /\ mode \in Modes
    /\ leaf = "locked"
    /\ state = "freerun"
    /\ known = FALSE
    /\ timer = None
    /\ armed = {}
    /\ expired = None
    /\ queue = <<>>
    /\ down = {}
    /\ holdover = 0
    /\ raised = FALSE

\* The process restarts.  Nothing of the clock is persisted: its state leaf
\* reads as the seed's until the manager writes one.
Restart ==
    /\ leaf' = "locked"
    /\ state' = "freerun"
    /\ known' = FALSE
    /\ timer' = None
    /\ armed' = {}
    /\ expired' = None
    /\ queue' = <<>>
    /\ down' = {}
    /\ raised' = FALSE
    /\ UNCHANGED <<mode, holdover>>

\* One iteration of Run's select.
RunStep == Tick \/ ExpireHoldover \/ HandleDomainEvent

Next ==
    \/ RunStep
    \/ \E h \in armed : TimerFires(h)
    \/ \E e \in EventType : Handle(e)
    \/ SyncLoss
    \/ \E l \in Links : LinkDown(l) \/ LinkUp(l)
    \/ \E md \in Modes : SetMode(md)
    \/ Restart

Spec == Init /\ [][Next]_vars
-----------------------------------------------------------------------------
Event == [type : {"AlarmRaised", "AlarmCleared"}, link : Links]

\* The type invariant.
TypeOK ==
    /\ mode \in Modes
    /\ leaf \in State
    /\ state \in State
    /\ known \in BOOLEAN
    /\ timer \in Holdovers \cup {None}
    /\ armed \subseteq Holdovers
    /\ expired \in Holdovers \cup {None}
    /\ queue \in Seq(Event) /\ Len(queue) <= Buffer
    /\ down \subseteq Links
    /\ holdover \in 0..MaxHoldovers
    /\ raised \in BOOLEAN

(***************************************************************************)
(* "a late or repeated expiry cannot resurrect a holdover that a restore   *)
(* already ended" (expireHoldover): taking an expiry from the channel      *)
(* changes the state only from in-spec to out-of-spec holdover, however    *)
(* many restores came between the timer and Run.  (A restart of the        *)
(* process forgets the state and the channel.)                             *)
(***************************************************************************)
LateExpiryIsHarmless ==
    [][expired # None /\ expired' = None /\ state' # state /\ known' =>
           state = "holdover-in-spec" /\ state' = "holdover-out-of-spec"]_vars

(***************************************************************************)
(* What the manager holds belongs to the state it is in: a timer is held   *)
(* only while in spec, and is the one of the latest holdover; the          *)
(* syncHoldover alarm stands exactly while the clock is out of spec, since *)
(* every way out of that state, the reset included, clears it.             *)
(***************************************************************************)
HoldoverBookkeeping ==
    /\ timer # None => state = "holdover-in-spec" /\ timer = holdover
    /\ raised <=> state = "holdover-out-of-spec"

(***************************************************************************)
(* A holdover does not stay in spec for ever: the source returns, the      *)
(* clock is reset, or the expiry reaches Run, even when the channel was    *)
(* still full with the expiry of an earlier holdover.                      *)
(***************************************************************************)
HoldoverEnds == state = "holdover-in-spec" ~> state # "holdover-in-spec"
=============================================================================
