----------------------------- MODULE SyncDomain -----------------------------
(***************************************************************************)
(* The synchronization domain: one manager runs the PTP clock (PtpClock)   *)
(* and the SyncE source selection (SyncE) under one lock, Manager.mu, and  *)
(* a restart of the process takes both along.                              *)
(***************************************************************************)
EXTENDS PtpClock, SyncE

CONSTANT MaxRestarts    \* bound on the restarts

\* What the environment does in a behaviour: it drives the clock, or it edits
\* the SyncE configuration.  The two touch each other only through Tick.
Focus == {"clock", "synce"}

VARIABLES
    focus,
    restarts    \* history: restarts so far

domainVars == <<vars, synceVars, focus, restarts>>
-----------------------------------------------------------------------------
\* Manager.mu is free.
Unlocked == up /\ ~refresh.on

\* Tick: the clock is reconciled and the selection of the same snapshot is
\* refreshed.  The measured offset and jitter that follow are left out.
DomainTick ==
    /\ Unlocked
    /\ Tick
    /\ refreshSyncE
    /\ UNCHANGED <<focus, restarts>>

TickWrites ==
    /\ up
    /\ stateWrite \/ EndRefresh
    /\ UNCHANGED <<vars, focus, restarts>>

TakeExpiry ==
    /\ Unlocked
    /\ ExpireHoldover
    /\ UNCHANGED <<synceVars, focus, restarts>>

TakeEvent ==
    /\ Unlocked
    /\ HandleDomainEvent
    /\ UNCHANGED <<synceVars, focus, restarts>>

Timer(h) ==
    /\ up
    /\ h \in armed
    /\ TimerFires(h)
    /\ UNCHANGED <<synceVars, focus, restarts>>

\* Handle and SyncLoss wait for the lock.
Request ==
    /\ focus = "clock"
    /\ Unlocked
    /\ (\E e \in EventType : Handle(e)) \/ SyncLoss
    /\ UNCHANGED <<synceVars, focus, restarts>>

Surroundings ==
    /\ focus = "clock"
    /\ up
    /\ (\E l \in Links : LinkDown(l) \/ LinkUp(l)) \/ (\E md \in Modes : SetMode(md))
    /\ UNCHANGED <<synceVars, focus, restarts>>

Planes ==
    /\ focus = "synce"
    /\ up
    /\ Edit
    /\ UNCHANGED <<vars, focus, restarts>>

\* A simulator that does not accept its startup document is started again
\* and again, to no avail.
Reboot ==
    /\ ~up \/ restarts < MaxRestarts
    /\ restarts' = IF up THEN restarts + 1 ELSE restarts
    /\ Restart
    /\ LoadStartup
    /\ UNCHANGED focus

DomainInit ==
    /\ Init
    /\ SynceInit
    /\ focus \in Focus
    /\ focus = "clock" => interfaces = SeedInterfaces
    /\ focus = "synce" => mode = "slave"
    /\ restarts = 0

DomainNext ==
    \/ DomainTick \/ TickWrites \/ TakeExpiry \/ TakeEvent
    \/ \E h \in Holdovers : Timer(h)
    \/ Request \/ Surroundings \/ Planes \/ Reboot

(***************************************************************************)
(* Fairness: Run ticks for as long as the process lives, a Tick that has   *)
(* begun completes, timers expire, and Run's select serves each of its     *)
(* channels again and again (Go picks among the ready cases at random).    *)
(***************************************************************************)
DomainFairness ==
    /\ WF_domainVars(DomainTick \/ TickWrites)
    /\ SF_domainVars(TakeExpiry)
    /\ SF_domainVars(TakeEvent)
    /\ \A h \in Holdovers : WF_domainVars(Timer(h))

DomainSpec == DomainInit /\ [][DomainNext]_domainVars

FairSpec == DomainSpec /\ DomainFairness
-----------------------------------------------------------------------------
\* The type invariant.
DomainTypeOK ==
    /\ TypeOK
    /\ SynceTypeOK
    /\ focus \in Focus
    /\ restarts \in 0..MaxRestarts
=============================================================================
