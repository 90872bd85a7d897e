----------------------------- MODULE RadioLink ------------------------------
(***************************************************************************)
(* The radio domain (internal/radio): the link budget, the ATPC step, the  *)
(* ACM profile selection, the link state with its hysteresis and alarms,   *)
(* and the injected fades.  Levels are whole decibels.                     *)
(*                                                                         *)
(* Tick and inject hold Manager.mu, but they read one snapshot of running  *)
(* and write leaf by leaf, so edits by the planes and the rollback of a    *)
(* confirmed commit come between the read and the writes.                  *)
(***************************************************************************)
EXTENDS Integers, FiniteSets

CONSTANTS
    Links,
    Configs,        \* configurations of a link: ATPC and ACM (see Config)
    Profiles,       \* the modulation profiles: records [id, rsl]
    Gain,           \* antenna gains less all the losses of the link budget
    TxPower,        \* the configured tx-power, used while ATPC is disabled
    SeedConfig,     \* the configuration of the seed device
    SeedPower,      \* atpc/current-power of the seed device
    RSSIMin, RSSIMax,
    StepDB,         \* largest ATPC change of one tick
    RSSIAlarm, RSSIClear, FadeMin, FadeClear,
    Fades,          \* the fades that are injected
    None

Config == [enabled : BOOLEAN, min : Int, max : Int, target : Int,
           adaptive : BOOLEAN, minProfile : Int, maxProfile : Int]

LinkStates == {"up", "degraded", "down"}

VARIABLES
    conf,       \* configuration leaves of each link
    power,      \* state leaf atpc/current-power
    profile,    \* state leaf acm/current-profile
    rssi,       \* state leaf rssi
    leaf,       \* state leaf link-state
    fade,       \* Manager.fade, 0 for a link without an entry
    states,     \* Manager.states, "" for a link without an entry
    known,      \* Manager.known
    eval,       \* the Tick or inject that holds Manager.mu, or None
    pending,    \* a confirmed commit is pending
    alarms      \* history: the alarms that stand, by link

vars == <<conf, power, profile, rssi, leaf, fade, states, known, eval, pending, alarms>>

leafVars == <<conf, power, profile, rssi, leaf>>
-----------------------------------------------------------------------------
(***************************************************************************)
(* The link budget, ATPC and ACM.                                          *)
(***************************************************************************)
Least(S) == CHOOSE x \in S : \A y \in S : x <= y
Most(S)  == CHOOSE x \in S : \A y \in S : y <= x

clamp(v, lo, hi) == Least({Most({v, lo}), hi})

effectiveTxPower(c, p) == IF c.enabled THEN p ELSE TxPower

applyFade(level, f) == clamp(level - f, RSSIMin, RSSIMax)

atpcStep(c, p, level) ==
    clamp(p + clamp(c.target - level, 0 - StepDB, StepDB), c.min, c.max)

profileByID(id) == {q \in Profiles : q.id = id}

\* The selected profile as a set of at most one: an adaptive ACM takes the
\* highest profile of its window the level meets, else the most robust one.
selectProfile(c, current, level) ==
    LET met == {q \in Profiles :
                   q.id >= c.minProfile /\ q.id <= c.maxProfile /\ q.rsl <= level}
    IN  IF c.adaptive
        THEN IF met # {} THEN profileByID(Most({q.id : q \in met}))
                         ELSE profileByID(c.minProfile)
        ELSE IF profileByID(current) # {} THEN profileByID(current)
                                          ELSE profileByID(c.minProfile)

(***************************************************************************)
(* The link state: a level must pass the clear threshold to recover.       *)
(***************************************************************************)

\* Mutant: the raise and the clear threshold are swapped.
linkDownSwapped(current, level) ==
    level < IF current = "down" THEN RSSIAlarm ELSE RSSIClear

\* Mutant: a degraded link does not go down.
linkDownFromUp(current, level) ==
    current # "degraded" /\ level < IF current = "down" THEN RSSIClear ELSE RSSIAlarm

linkDown(current, level) ==
    level < IF current = "down" THEN RSSIClear ELSE RSSIAlarm

\* Without a profile the fade margin is infinite.
linkDegraded(current, level, sel) ==
    \E q \in sel : level - q.rsl < IF current = "degraded" THEN FadeClear ELSE FadeMin

nextLinkState(current, level, sel) ==
    IF linkDown(current, level) THEN "down"
    ELSE IF linkDegraded(current, level, sel) THEN "degraded" ELSE "up"

\* Mutant: the alarm of the state that is left is not cleared.
reportRaisesOnly(standing, current, next) == standing \cup ({next} \ {"up"})

\* The alarm the link leaves is cleared, then the one it enters is raised.
report(standing, current, next) == (standing \ {current}) \cup ({next} \ {"up"})
-----------------------------------------------------------------------------
(***************************************************************************)
(* evaluateLink: measure, write the measured leaves, then the link state.  *)
(***************************************************************************)
Device == [conf |-> conf, power |-> power, profile |-> profile, leaf |-> leaf]

\* Tick evaluates every link of its snapshot.
BeginTick ==
    /\ eval = None
    /\ eval' = [todo |-> Links, phase |-> "measure", dev |-> Device, inject |-> FALSE]
    /\ UNCHANGED <<leafVars, fade, states, known, pending, alarms>>

\* RadioFailure, or RadioRestore for f = 0.
BeginInject(l, f) ==
    /\ eval = None
    /\ eval' = [todo |-> {l}, phase |-> "measure", dev |-> Device, inject |-> TRUE]
    /\ fade' = [fade EXCEPT ![l] = f]
    /\ UNCHANGED <<leafVars, states, known, pending, alarms>>

Level(l) ==
    applyFade(effectiveTxPower(eval.dev.conf[l], eval.dev.power[l]) + Gain, fade[l])

Selected(l) == selectProfile(eval.dev.conf[l], eval.dev.profile[l], Level(l))

\* The links are evaluated in device order.
Turn(l) == eval # None /\ l = CHOOSE k \in eval.todo : TRUE

WriteLevel(l) == rssi' = [rssi EXCEPT ![l] = Level(l)]

WriteProfile(l) ==
    profile' = [profile EXCEPT ![l] =
                   IF Selected(l) = {} THEN @ ELSE (CHOOSE q \in Selected(l) : TRUE).id]

WriteMeasured(l) ==
    /\ Turn(l) /\ eval.phase = "measure"
    /\ WriteLevel(l)
    /\ WriteProfile(l)
    /\ power' = [power EXCEPT ![l] =
                    IF eval.dev.conf[l].enabled
                    THEN atpcStep(eval.dev.conf[l], eval.dev.power[l], Level(l)) ELSE @]
    /\ eval' = [eval EXCEPT !.phase = "state"]
    /\ UNCHANGED <<conf, leaf, fade, states, known, pending, alarms>>

Evaluated(l) ==
    eval' = IF eval.todo = {l} THEN None
            ELSE [eval EXCEPT !.todo = @ \ {l}, !.phase = "measure"]

\* A link seen for the first time is in the state its leaf says.
CurrentState(l) == IF known[l] THEN states[l] ELSE eval.dev.leaf[l]

UpdateState(l) ==
    /\ Turn(l) /\ eval.phase = "state"
    /\ LET current == CurrentState(l)
           next == nextLinkState(current, Level(l), Selected(l))
       IN  /\ leaf' = IF next # current THEN [leaf EXCEPT ![l] = next] ELSE leaf
           /\ alarms' = IF next # current
                        THEN [alarms EXCEPT ![l] = report(@, current, next)] ELSE alarms
           /\ states' = [states EXCEPT ![l] = next]
    /\ known' = [known EXCEPT ![l] = TRUE]
    /\ Evaluated(l)
    /\ UNCHANGED <<conf, power, profile, rssi, fade, pending>>

\* An injection carries the context of its HTTP request.  When it is cancelled
\* the writes that are left fail: the measured leaves were written in order up
\* to some point, or all of them were and the link state was not.
InjectFails(l) ==
    /\ Turn(l) /\ eval.inject
    /\ \/ /\ eval.phase = "measure"
          /\ \/ UNCHANGED <<rssi, profile>>
             \/ WriteLevel(l) /\ UNCHANGED profile
             \/ WriteLevel(l) /\ WriteProfile(l)
          /\ UNCHANGED known
       \/ /\ eval.phase = "state"
          /\ nextLinkState(CurrentState(l), Level(l), Selected(l)) # CurrentState(l)
          /\ known' = [known EXCEPT ![l] = TRUE]
          /\ UNCHANGED <<rssi, profile>>
    /\ eval' = None
    /\ UNCHANGED <<conf, power, leaf, fade, states, pending, alarms>>
-----------------------------------------------------------------------------
(***************************************************************************)
(* The planes: an edit is validated against the leaves running holds, and  *)
(* the rollback of a confirmed commit puts a snapshot of them back.        *)
(***************************************************************************)
ValidLink(c, p) ==
    c.enabled => c.min < c.max /\ p >= c.min /\ p <= c.max

EditConfig(l, c) ==
    /\ c # conf[l]
    /\ ValidLink(c, power[l])
    /\ conf' = [conf EXCEPT ![l] = c]
    /\ UNCHANGED <<power, profile, rssi, leaf, fade, states, known, eval, pending, alarms>>

\* The leaves of a link of the seed device: it is up.
Seed ==
    [conf |-> SeedConfig, power |-> SeedPower,
     profile |-> Most({q.id : q \in Profiles}), rssi |-> RSSIMax, leaf |-> "up"]

\* The rollback of a confirmed commit that was issued before the first tick:
\* every leaf of running is the seed's again.
RestoreRunning ==
    /\ pending
    /\ pending' = FALSE
    /\ conf' = [l \in Links |-> Seed.conf]
    /\ power' = [l \in Links |-> Seed.power]
    /\ profile' = [l \in Links |-> Seed.profile]
    /\ rssi' = [l \in Links |-> Seed.rssi]
    /\ leaf' = [l \in Links |-> Seed.leaf]
    /\ UNCHANGED <<fade, states, known, eval, alarms>>

Init ==
    /\ conf = [l \in Links |-> Seed.conf]
    /\ power = [l \in Links |-> Seed.power]
    /\ profile = [l \in Links |-> Seed.profile]
    /\ rssi = [l \in Links |-> Seed.rssi]
    /\ leaf = [l \in Links |-> Seed.leaf]
    /\ fade = [l \in Links |-> 0]
    /\ states = [l \in Links |-> ""]
    /\ known = [l \in Links |-> FALSE]
    /\ eval = None
    /\ pending \in BOOLEAN
    /\ alarms = [l \in Links |-> {}]

Evaluate(l) == WriteMeasured(l) \/ UpdateState(l)

Planes ==
    \/ \E l \in Links, f \in Fades \cup {0} : BeginInject(l, f)
    \/ \E l \in Links : InjectFails(l)
    \/ \E l \in Links, c \in Configs : EditConfig(l, c)

Next ==
    \/ BeginTick
    \/ \E l \in Links : Evaluate(l)
    \/ Planes
    \/ RestoreRunning

\* Run schedules a tick every period and gets the lock in the end (a Go mutex
\* does not starve a waiter); the holder of the lock goes on.
Fairness == SF_vars(BeginTick) /\ WF_vars(\E l \in Links : Evaluate(l))

Spec == Init /\ [][Next]_vars

FairSpec == Spec /\ Fairness
-----------------------------------------------------------------------------
\* The type invariant: the measured levels stay in the range the model accepts.
TypeOK ==
    /\ conf \in [Links -> Configs]
    /\ \A l \in Links :
           /\ \E c \in Configs : power[l] >= c.min /\ power[l] <= c.max
           /\ profile[l] \in {q.id : q \in Profiles}
           /\ rssi[l] \in RSSIMin..RSSIMax
           /\ alarms[l] \subseteq {"degraded", "down"}
    /\ leaf \in [Links -> LinkStates]
    /\ fade \in [Links -> Fades \cup {0}]
    /\ states \in [Links -> LinkStates \cup {""}]
    /\ known \in [Links -> BOOLEAN]
    /\ eval # None => eval.todo \subseteq Links /\ eval.todo # {}
    /\ pending \in BOOLEAN

(***************************************************************************)
(* "A link that is down reports only radioLinkDown: entering it clears a   *)
(* raised radioLinkDegraded, and recovering from it clears radioLinkDown": *)
(* the alarms that stand are always the ones of the link state the manager *)
(* holds, whatever was injected, cancelled half-way or rolled back.        *)
(***************************************************************************)
AlarmsMatchState ==
    \A l \in Links : alarms[l] = {states[l]} \ {"", "up"}

(***************************************************************************)
(* "a level on a threshold does not flap": once nobody injects, edits or   *)
(* rolls back any more, the ATPC loop and the link state both come to rest.*)
(***************************************************************************)
Settles ==
    <>[][UNCHANGED <<conf, fade, pending>>]_vars => <>[][UNCHANGED <<power, states>>]_vars

(***************************************************************************)
(* A fade no ATPC setting can make up for is reported: the link goes down  *)
(* even if the request that injected the fade was cancelled.               *)
(***************************************************************************)
DeepFadeReported ==
    \A l \in Links :
        (fade[l] = Most(Fades)) ~> (states[l] = "down" \/ fade[l] # Most(Fades))
-----------------------------------------------------------------------------
(***************************************************************************)
(* What the documentation says and the code does not keep.                 *)
(***************************************************************************)

\* "a domain state write can never make a later management-plane commit fail":
\* running, which candidate mirrors, stays valid.
RunningStaysValid == \A l \in Links : ValidLink(conf[l], power[l])
=============================================================================
