-------------------------- MODULE RadioLinkProofs ---------------------------
(***************************************************************************)
(* The alarms of a radio link follow its state, for any set of links, any  *)
(* configurations, profiles, thresholds and fades, and any interleaving of *)
(* ticks, injections, cancelled requests, edits and a rollback.            *)
(*                                                                         *)
(* AlarmsMatchState is not inductive: the first evaluation of a link takes *)
(* the state of the link from a leaf of its snapshot, and would leave the  *)
(* alarm of that state unraised.  Unevaluated says why this does not       *)
(* happen: until a link has been evaluated its leaf says "up", in running  *)
(* and in every snapshot that is in use.                                   *)
(***************************************************************************)
EXTENDS RadioLink, TLAPS

Typed ==
    /\ leaf \in [Links -> LinkStates]
    /\ states \in [Links -> LinkStates \cup {""}]
    /\ known \in [Links -> BOOLEAN]
    /\ alarms \in [Links -> SUBSET {"degraded", "down"}]
    /\ eval # None =>
           eval \in [todo : SUBSET Links, phase : {"measure", "state"},
                     dev : {eval.dev}, inject : BOOLEAN]

Unevaluated ==
    \A l \in Links :
        ~ known[l] => /\ states[l] = "" /\ leaf[l] = "up"
                      /\ eval # None => eval.dev.leaf[l] = "up"

\* The inductive invariant.
IInv == Typed /\ Unevaluated /\ AlarmsMatchState

\* Every evaluation ends in one of the three states.
LEMMA NextStateTyped ==
    ASSUME NEW current, NEW level, NEW sel
    PROVE  nextLinkState(current, level, sel) \in LinkStates
BY DEF nextLinkState, LinkStates

\* What report leaves standing when the alarms of the link matched its state.
LEMMA ReportMatches ==
    ASSUME NEW current \in LinkStates \cup {""}, NEW next \in LinkStates,
           NEW standing, standing = {current} \ {"", "up"}
    PROVE  report(standing, current, next) = {next} \ {"", "up"}
BY DEF report, LinkStates

\* No alarm stands at the start.
LEMMA InitEstablishes == Init => IInv
<1> SUFFICES ASSUME Init PROVE IInv
  OBVIOUS
<1>1. leaf = [l \in Links |-> "up"]
  BY DEF Init, Seed
<1>2. Typed
  BY <1>1 DEF Init, Typed, LinkStates
<1>3. Unevaluated
  BY <1>1 DEF Init, Unevaluated
<1>4. AlarmsMatchState
  BY DEF Init, AlarmsMatchState
<1> QED
  BY <1>2, <1>3, <1>4 DEF IInv

\* A step that leaves leaf, states, known, alarms and eval alone.
LEMMA Undisturbed ==
    ASSUME IInv, UNCHANGED <<leaf, states, known, alarms, eval>>
    PROVE  IInv'
BY DEF IInv, Typed, Unevaluated, AlarmsMatchState

\* A tick or an injection takes a snapshot of the leaves.
LEMMA BeginKeeps ==
    ASSUME IInv, NEW todo \in SUBSET Links, NEW inj \in BOOLEAN,
           eval' = [todo |-> todo, phase |-> "measure", dev |-> Device, inject |-> inj],
           UNCHANGED <<leaf, states, known, alarms>>
    PROVE  IInv'
<1>1. eval'.dev.leaf = leaf
  BY DEF Device
<1>2. Typed'
  BY DEF IInv, Typed
<1>3. Unevaluated'
  BY <1>1 DEF IInv, Unevaluated
<1> QED
  BY <1>2, <1>3 DEF IInv, AlarmsMatchState

\* The evaluation that is under way.
LEMMA TurnTyped ==
    ASSUME IInv, NEW l \in Links, Turn(l)
    PROVE  /\ eval # None
           /\ eval \in [todo : SUBSET Links, phase : {"measure", "state"},
                        dev : {eval.dev}, inject : BOOLEAN]
BY DEF IInv, Typed, Turn

\* The measured leaves are no part of the invariant.
LEMMA WriteMeasuredKeeps ==
    ASSUME IInv, NEW l \in Links, WriteMeasured(l)
    PROVE  IInv'
<1>1. eval # None /\ eval \in [todo : SUBSET Links, phase : {"measure", "state"},
                               dev : {eval.dev}, inject : BOOLEAN]
  BY TurnTyped DEF WriteMeasured
<1>2. /\ eval' \in [todo : SUBSET Links, phase : {"measure", "state"},
                    dev : {eval'.dev}, inject : BOOLEAN]
      /\ eval'.dev = eval.dev
  BY <1>1 DEF WriteMeasured
<1>3. UNCHANGED <<leaf, states, known, alarms>>
  BY DEF WriteMeasured
<1>4. Typed'
  BY <1>2, <1>3 DEF IInv, Typed
<1>5. Unevaluated'
  BY <1>1, <1>2, <1>3 DEF IInv, Unevaluated
<1> QED
  BY <1>3, <1>4, <1>5 DEF IInv, AlarmsMatchState

\* The state and its alarms change together.
LEMMA UpdateStateKeeps ==
    ASSUME IInv, NEW l \in Links, UpdateState(l)
    PROVE  IInv'
<1> DEFINE current == CurrentState(l)
           next == nextLinkState(current, Level(l), Selected(l))
<1>1. eval # None /\ eval \in [todo : SUBSET Links, phase : {"measure", "state"},
                               dev : {eval.dev}, inject : BOOLEAN]
  BY TurnTyped DEF UpdateState
<1>2. next \in LinkStates
  BY NextStateTyped
<1>3. /\ leaf' = IF next # current THEN [leaf EXCEPT ![l] = next] ELSE leaf
      /\ alarms' = IF next # current
                   THEN [alarms EXCEPT ![l] = report(@, current, next)] ELSE alarms
      /\ states' = [states EXCEPT ![l] = next]
      /\ known' = [known EXCEPT ![l] = TRUE]
  BY DEF UpdateState
<1>4. eval' # None => /\ eval' \in [todo : SUBSET Links, phase : {"measure", "state"},
                                    dev : {eval'.dev}, inject : BOOLEAN]
                      /\ eval'.dev = eval.dev
  BY <1>1 DEF UpdateState, Evaluated
\* A link that was never evaluated counts as up, without an alarm.
<1>5. /\ current \in LinkStates \cup {""}
      /\ alarms[l] = {current} \ {"", "up"}
  <2>1. CASE known[l]
    BY <2>1 DEF IInv, Typed, AlarmsMatchState, CurrentState
  <2>2. CASE ~ known[l]
    <3>1. current = "up"
      BY <1>1, <2>2 DEF IInv, Unevaluated, CurrentState
    <3>2. states[l] = ""
      BY <2>2 DEF IInv, Unevaluated
    <3> HIDE DEF current
    <3> QED
      BY <3>1, <3>2 DEF IInv, AlarmsMatchState, LinkStates
  <2> QED
    BY <2>1, <2>2
<1> HIDE DEF current, next
<1>6. report(alarms[l], current, next) = {next} \ {"", "up"}
  BY <1>2, <1>5, ReportMatches
<1>7. alarms' = [alarms EXCEPT ![l] = {next} \ {"", "up"}]
  <2>1. CASE next # current
    BY <1>3, <1>6, <2>1
  <2>2. CASE next = current
    <3>1. alarms' = alarms /\ alarms[l] = {next} \ {"", "up"}
      BY <1>3, <1>5, <2>2
    <3>2. alarms \in [Links -> SUBSET {"degraded", "down"}]
      BY DEF IInv, Typed
    <3> QED
      BY <3>1, <3>2
  <2> QED
    BY <2>1, <2>2
<1>8. Typed'
  <2>1. leaf' \in [Links -> LinkStates] /\ states' \in [Links -> LinkStates \cup {""}]
    BY <1>2, <1>3 DEF IInv, Typed
  <2>2. known' \in [Links -> BOOLEAN]
    BY <1>3 DEF IInv, Typed
  <2>3. alarms' \in [Links -> SUBSET {"degraded", "down"}]
    <3>1. {next} \ {"", "up"} \in SUBSET {"degraded", "down"}
      BY <1>2 DEF LinkStates
    <3> QED
      BY <1>7, <3>1 DEF IInv, Typed
  <2> QED
    BY <1>4, <2>1, <2>2, <2>3 DEF Typed
<1>9. Unevaluated'
  BY ZenonT(30), <1>1, <1>3, <1>4 DEF IInv, Typed, Unevaluated
<1>10. AlarmsMatchState'
  BY <1>3, <1>7 DEF IInv, Typed, AlarmsMatchState
<1> QED
  BY <1>8, <1>9, <1>10 DEF IInv

\* A cancelled injection gives up its snapshot; the link may count as known.
LEMMA InjectFailsKeeps ==
    ASSUME IInv, NEW l \in Links, InjectFails(l)
    PROVE  IInv'
<1>1. /\ eval' = None
      /\ known' \in {known, [known EXCEPT ![l] = TRUE]}
      /\ UNCHANGED <<leaf, states, alarms>>
  BY DEF InjectFails
<1> QED
  BY ZenonT(30), <1>1 DEF IInv, Typed, Unevaluated, AlarmsMatchState

\* A rollback brings back leaves that say up.
LEMMA RestoreKeeps ==
    ASSUME IInv, RestoreRunning
    PROVE  IInv'
<1>1. /\ leaf' = [l \in Links |-> "up"]
      /\ UNCHANGED <<states, known, alarms, eval>>
  BY DEF RestoreRunning, Seed
<1> QED
  BY <1>1 DEF IInv, Typed, Unevaluated, AlarmsMatchState, LinkStates

\* Every step keeps the invariant.
LEMMA Inductive == IInv /\ [Next]_vars => IInv'
<1> SUFFICES ASSUME IInv, [Next]_vars
             PROVE  IInv'
  OBVIOUS
<1>1. CASE BeginTick
  BY <1>1, BeginKeeps DEF BeginTick, leafVars
<1>2. CASE \E l \in Links : Evaluate(l)
  BY <1>2, WriteMeasuredKeeps, UpdateStateKeeps DEF Evaluate
<1>3. CASE \E l \in Links, f \in Fades \cup {0} : BeginInject(l, f)
  <2>1. PICK l \in Links, f \in Fades \cup {0} : BeginInject(l, f)
    BY <1>3
  <2> QED
    BY <2>1, BeginKeeps DEF BeginInject, leafVars
<1>4. CASE \E l \in Links : InjectFails(l)
  BY <1>4, InjectFailsKeeps
<1>5. CASE \E l \in Links, c \in Configs : EditConfig(l, c)
  BY <1>5, Undisturbed DEF EditConfig
<1>6. CASE RestoreRunning
  BY <1>6, RestoreKeeps
<1>7. CASE UNCHANGED vars
  BY <1>7, Undisturbed DEF vars
<1> QED
  BY <1>1, <1>2, <1>3, <1>4, <1>5, <1>6, <1>7 DEF Next, Planes

(***************************************************************************)
(* The alarms that stand are always those of the link state the manager    *)
(* holds (alarms.go report, manager.go evaluateLink): none is left over    *)
(* and none is missing after a fade, a cancelled injection or a rollback.  *)
(***************************************************************************)
THEOREM AlarmsFollowState == Spec => []AlarmsMatchState
<1>1. IInv => AlarmsMatchState
  BY DEF IInv
<1> QED
  BY InitEstablishes, Inductive, <1>1, PTL DEF Spec
=============================================================================
