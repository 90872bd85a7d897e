--------------------------- MODULE L2DomainProofs ---------------------------
(***************************************************************************)
(* Proofs about the L2 domain, for every number of stations, ports,        *)
(* bridges and neighbours.  First the spanning tree by itself: one root    *)
(* port, timers of their ports, states of the configured protocol.  Then   *)
(* the domain: it runs that tree, keeps what BridgeProofs says of the      *)
(* bridge, and leaves a device that validation accepts unless something    *)
(* was torn.                                                               *)
(***************************************************************************)
EXTENDS L2Domain, BridgeProofs

Changes == [port : STPPorts, role : STP!Roles, phase : STP!STPPhase]

Jobs == [handle : BOOLEAN, root : Others \cup {Self, None},
         todo : SUBSET Changes, last : SUBSET Changes, step : {"role", "state"},
         protocol : {"stp", "rstp"}, role : [STPPorts -> STP!Roles], state : [STPPorts -> STP!PortStates]]

Timers == [phase : {"learning", "forwarding"}, due : BOOLEAN]

\* Types, as far as the safety of the roles and timers depends on them.
TreeTyped ==
    /\ protocol \in {"stp", "rstp"}
    /\ role \in [STPPorts -> STP!Roles]
    /\ state \in [STPPorts -> STP!PortStates]
    /\ pending \in [STPPorts -> Timers \cup {None}]
    /\ job # None => job \in Jobs /\ job.todo \cup job.last # {}

(***************************************************************************)
(* Why there is one root port: what is still to do demotes every port but  *)
(* the one that is promoted last.  A port that is passed over because the  *)
(* snapshot shows it in its place is no root port now either.              *)
(***************************************************************************)
Demoting ==
    job # None =>
        /\ \A c \in job.todo : /\ c.role # "root"
                               /\ role[c.port] = "root" => job.role[c.port] = "root"
        /\ job.step = "state" /\ job.todo # {} => role[STP!Turn.port] # "root"
        /\ \A c \in job.last : c.role = "root" =>
               /\ \A d \in job.last : d.role = "root" => d.port = c.port
               /\ \A q \in STPPorts : role[q] = "root" =>
                      q = c.port \/ \E d \in job.todo : d.port = q

TreeInv == TreeTyped /\ STP!OneRootPort /\ Demoting /\ STP!TimerMatchesState
-----------------------------------------------------------------------------
\* A change that is left is the one whose turn it is.
LEMMA TurnIsLeft ==
  ASSUME job \in Jobs, job.todo \cup job.last # {}
  PROVE  /\ STP!Turn \in Changes
         /\ job.todo # {} => STP!Turn \in job.todo
         /\ job.todo = {} => STP!Turn \in job.last
  <1>1. STP!Left # {} /\ STP!Left \subseteq Changes
    BY DEF STP!Left, Jobs
  <1>2. STP!Turn \in STP!Left
    BY <1>1 DEF STP!Turn
  <1> QED BY Zenon, <1>1, <1>2 DEF STP!Left

\* The turn is the same as long as the changes that are left are the same.
LEMMA TurnStays ==
  ASSUME job'.todo = job.todo, job'.last = job.last
  PROVE  STP!Turn' = STP!Turn
  BY DEF STP!Turn, STP!Left

\* A new job is a job.
LEMMA JobTyped ==
  ASSUME TreeTyped, NEW h \in BOOLEAN, NEW id \in Others \cup {Self, None},
         NEW todo \in SUBSET Changes, NEW last \in SUBSET Changes
  PROVE  STP!Job(h, id, todo, last) \in Jobs
  BY DEF STP!Job, Jobs, TreeTyped

\* Finishing the turn leaves a job with one change less, or none.
LEMMA DoneTyped ==
  ASSUME job \in Jobs, job.todo \cup job.last # {}, STP!Done # None
  PROVE  /\ STP!Done \in Jobs
         /\ STP!Done.todo = job.todo \ {STP!Turn}
         /\ STP!Done.last \subseteq job.last
         /\ STP!Done.todo \cup STP!Done.last # {}
         /\ STP!Done.step = "role"
         /\ STP!Done.role = job.role
         /\ job.todo # {} => STP!Done.last = job.last
  <1>1. job.todo \cup job.last # {STP!Turn}
    BY DEF STP!Done
  <1>2. STP!Done = [job EXCEPT !.todo = @ \ {STP!Turn},
                           !.last = IF job.todo = {} THEN @ \ {STP!Turn} ELSE @, !.step = "role"]
    BY <1>1 DEF STP!Done
  <1>3. STP!Turn \in job.todo \cup job.last /\ (job.todo = {} => STP!Turn \in job.last)
    BY TurnIsLeft
  <1>4. STP!Done \in Jobs
    BY Zenon, <1>2 DEF Jobs
  <1>5. STP!Done.todo = job.todo \ {STP!Turn} /\ STP!Done.step = "role" /\ STP!Done.role = job.role
    BY <1>2 DEF Jobs
  <1>6. STP!Done.last = IF job.todo = {} THEN job.last \ {STP!Turn} ELSE job.last
    BY <1>2 DEF Jobs
  <1>7. STP!Done.todo \cup STP!Done.last = (job.todo \cup job.last) \ {STP!Turn} \/ job.todo # {}
    BY Zenon, <1>5, <1>6
  <1>8. STP!Done.todo \cup STP!Done.last # {}
    <2>1. CASE job.todo = {}
      BY <1>1, <1>3, <1>7, <2>1
    <2>2. CASE job.todo # {} /\ job.last # {}
      BY Zenon, <1>6, <2>2
    <2>3. CASE job.todo # {} /\ job.last = {}
      BY Zenon, <1>1, <1>3, <1>5, <2>3
    <2> QED BY Zenon, <2>1, <2>2, <2>3
  <1> QED BY Zenon, <1>4, <1>5, <1>6, <1>8

-----------------------------------------------------------------------------
LEMMA TreeInit == STP!Init => TreeInv
  <1> SUFFICES ASSUME STP!Init PROVE TreeInv
    OBVIOUS
  <1>1. TreeTyped
    BY DEF STP!Init, TreeTyped, STP!Roles, STP!PortStates, STP!STPPortStates, STP!STPPhase
  <1>2. STP!OneRootPort /\ Demoting /\ STP!TimerMatchesState
    BY Zenon DEF STP!Init, STP!OneRootPort, Demoting, STP!TimerMatchesState
  <1> QED BY Zenon, <1>1, <1>2 DEF TreeInv

\* The timer that scheduleSTP arms belongs to the state that is written with it.
LEMMA Scheduled ==
  ASSUME NEW phase \in STP!STPPhase, NEW proto \in {"stp", "rstp"}
  PROVE  /\ STP!scheduleSTP(phase) \in Timers \cup {None}
         /\ STP!stateName(proto, phase) \in STP!PortStates
         /\ STP!scheduleSTP(phase) # None =>
                IF STP!scheduleSTP(phase).phase = "forwarding"
                THEN STP!stateName(proto, phase) = "learning"
                ELSE STP!stateName(proto, phase) \in STP!Discarded \cup {"discarding"}
  <1>1. CASE phase \in {"blocking", "listening"}
    BY <1>1 DEF STP!scheduleSTP, STP!stateName, Timers, STP!PortStates, STP!STPPortStates, STP!STPPhase, STP!Discarded
  <1>2. CASE phase = "learning"
    BY <1>2 DEF STP!scheduleSTP, STP!stateName, Timers, STP!PortStates, STP!STPPortStates, STP!STPPhase, STP!Discarded
  <1>3. CASE phase \in {"disabled", "forwarding"}
    BY Zenon, <1>3 DEF STP!scheduleSTP, STP!stateName, Timers, STP!PortStates, STP!STPPortStates, STP!STPPhase, STP!Discarded
  <1> QED BY Zenon, <1>1, <1>2, <1>3 DEF STP!STPPhase

\* A link event or a BPDU starts a job and writes nothing.
LEMMA HandleStep ==
  ASSUME TreeInv, STP!Handle,
         NEW id \in Others \cup {Self, None},
         NEW todo \in SUBSET Changes, NEW c \in Changes,
         job' = STP!Job(TRUE, id, todo, {c}),
         \A d \in todo : d.role # "root",
         c.role = "root" => \A q \in STPPorts \ {c.port} : \E d \in todo : d.port = q
  PROVE  TreeInv'
  <1>1. UNCHANGED <<protocol, role, state, pending>>
    BY DEF STP!Handle, STP!confVars
  <1>2. job' \in Jobs /\ job'.todo = todo /\ job'.last = {c} /\ job'.step = "role"
                     /\ job'.role = role
    BY Zenon, JobTyped DEF TreeInv, STP!Job
  <1>3. TreeTyped'
    BY Zenon, <1>1, <1>2 DEF TreeInv, TreeTyped
  <1>4. Demoting'
    BY Zenon, <1>1, <1>2 DEF Demoting
  <1> QED BY <1>1, <1>3, <1>4 DEF TreeInv, STP!OneRootPort, STP!TimerMatchesState

\* The end of a turn: the port whose turn it was has its role.
LEMMA DoneStep ==
  ASSUME TreeInv, job # None, job' = STP!Done,
         UNCHANGED <<protocol, role>>, TreeTyped',
         job.todo # {} => role[STP!Turn.port] # "root"
  PROVE  Demoting'
  <1> SUFFICES ASSUME job' # None PROVE Demoting'
    BY DEF Demoting
  <1>1. job \in Jobs /\ job.todo \cup job.last # {}
    BY DEF TreeInv, TreeTyped
  <1>2. /\ job'.todo = job.todo \ {STP!Turn} /\ job'.last \subseteq job.last
        /\ job'.step = "role" /\ job'.role = job.role
        /\ job.todo # {} => job'.last = job.last
    BY Zenon, <1>1, DoneTyped
  <1>3. job.todo # {} => STP!Turn \in job.todo
    BY Zenon, <1>1, TurnIsLeft
  <1>4. \A c \in job'.todo : c.role # "root" /\ (role'[c.port] = "root" => job'.role[c.port] = "root")
    BY <1>2 DEF TreeInv, Demoting
  <1>5. ASSUME NEW c \in job'.last, c.role = "root"
        PROVE  /\ \A d \in job'.last : d.role = "root" => d.port = c.port
               /\ \A q \in STPPorts : role'[q] = "root" =>
                      q = c.port \/ \E d \in job'.todo : d.port = q
    <2>1. c \in job.last
      BY Zenon, <1>2, <1>5
    <2>2. \A d \in job'.last : d.role = "root" => d.port = c.port
      BY Zenon, <1>2, <1>5, <2>1 DEF TreeInv, Demoting
    <2>3. ASSUME NEW q \in STPPorts, role'[q] = "root", q # c.port
          PROVE  \E d \in job'.todo : d.port = q
      <3>1. PICK d \in job.todo : d.port = q
        BY Zenon, <1>5, <2>1, <2>3 DEF TreeInv, Demoting
      <3>2. d # STP!Turn
        BY Zenon, <2>3, <3>1
      <3> QED BY Zenon, <1>2, <3>1, <3>2
    <2> QED BY Zenon, <2>2, <2>3
  <1> QED BY <1>2, <1>4, <1>5 DEF Demoting

-----------------------------------------------------------------------------
\* Every step keeps the invariant.
LEMMA TreeNext == TreeInv /\ [STP!Next]_(STP!vars) => TreeInv'
  <1> SUFFICES ASSUME TreeInv, [STP!Next]_(STP!vars) PROVE TreeInv'
    BY Zenon
  <1>j. job # None => job \in Jobs /\ job.todo \cup job.last # {} /\ STP!Turn \in Changes
                      /\ (job.todo # {} => STP!Turn \in job.todo)
                      /\ (job.todo = {} => STP!Turn \in job.last)
    BY TurnIsLeft DEF TreeInv, TreeTyped
  <1>1. ASSUME NEW p \in STPPorts, STP!LinkDown(p) PROVE TreeInv'
    <2> DEFINE c == STP!Change(p, "alternate", "disabled")
    <2>1. c \in Changes /\ c.role # "root"
      BY DEF STP!Change, Changes, STP!Roles, STP!STPPhase
    <2> DEFINE todo == {}
    <2>2. job' = STP!Job(TRUE, None, todo, {c}) /\ STP!Handle
      BY <1>1 DEF STP!LinkDown
    <2>3. todo \in SUBSET Changes /\ \A d \in todo : d.role # "root"
      OBVIOUS
    <2> HIDE DEF c, todo
    <2> QED BY Zenon, <2>1, <2>2, <2>3, HandleStep
  <1>2. ASSUME NEW p \in STPPorts, STP!LinkUp(p) PROVE TreeInv'
    <2> DEFINE c == STP!Change(p, "designated", IF p \in EdgePorts THEN "forwarding" ELSE "blocking")
    <2>1. c \in Changes /\ c.role # "root"
      BY DEF STP!Change, Changes, STP!Roles, STP!STPPhase
    <2> DEFINE todo == {}
    <2>2. job' = STP!Job(TRUE, None, todo, {c}) /\ STP!Handle
      BY <1>2 DEF STP!LinkUp
    <2>3. todo \in SUBSET Changes /\ \A d \in todo : d.role # "root"
      OBVIOUS
    <2> HIDE DEF c, todo
    <2> QED BY Zenon, <2>1, <2>2, <2>3, HandleStep
  <1>3. ASSUME NEW p \in STPPorts, NEW id \in Others, STP!BPDU(p, id) PROVE TreeInv'
    <2> DEFINE better == STP!compareBridgeID(id, Self)
               phase == IF better /\ protocol = "stp" THEN "blocking" ELSE "forwarding"
               other(q) == STP!Change(q, IF better THEN "alternate" ELSE "designated",
                                  IF better THEN "blocking" ELSE "forwarding")
               others == {other(q) : q \in STPPorts \ {p}}
               receiver == STP!Change(p, IF better THEN "root" ELSE "designated", phase)
               bridge == IF better THEN id ELSE Self
    <2>1. STP!Handle /\ job' = STP!Job(TRUE, bridge, others, {receiver})
      BY <1>3 DEF STP!BPDU, STP!elect
    <2>2. \A q \in STPPorts : other(q) \in Changes /\ other(q).port = q /\ other(q).role # "root"
      BY DEF STP!Change, Changes, STP!Roles, STP!STPPhase
    <2>3. receiver \in Changes /\ receiver.port = p
      BY DEF STP!Change, Changes, STP!Roles, STP!STPPhase
    <2>4. bridge \in Others \cup {Self, None}
      OBVIOUS
    <2> HIDE DEF other, receiver, bridge
    <2>5. others \in SUBSET Changes /\ \A d \in others : d.role # "root"
      BY <2>2
    <2>6. \A q \in STPPorts \ {receiver.port} : \E d \in others : d.port = q
      BY Zenon, <2>2, <2>3
    <2> HIDE DEF others
    <2> QED BY Zenon, <2>1, <2>3, <2>4, <2>5, <2>6, HandleStep
  <1>4. ASSUME STP!advanceSTP PROVE TreeInv'
    <2>1. UNCHANGED <<protocol, role, state>> /\ job = None
      BY Zenon, <1>4 DEF STP!advanceSTP, STP!confVars
    <2>2. CASE ~ enabled
      <3>1. pending' = [p \in STPPorts |-> None] /\ job' = None
        BY Zenon, <1>4, <2>1, <2>2 DEF STP!advanceSTP
      <3> QED BY <2>1, <3>1 DEF TreeInv, TreeTyped, STP!OneRootPort, Demoting, STP!TimerMatchesState
    <2>3. CASE enabled
      <3> DEFINE change(p) == STP!Change(p, role[p], pending[p].phase)
                 changes == {change(p) : p \in STP!Due}
      <3>1. /\ pending' = [p \in STPPorts |-> IF p \in STP!Due THEN None ELSE pending[p]]
            /\ job' = STP!Job(FALSE, None, {}, changes)
        BY Zenon, <1>4, <2>3 DEF STP!advanceSTP
      <3>2. \A p \in STP!Due : /\ change(p) \in Changes
                           /\ change(p).port = p /\ change(p).role = role[p]
        <4> SUFFICES ASSUME NEW p \in STP!Due
                     PROVE  change(p) \in Changes /\ change(p).port = p /\ change(p).role = role[p]
          OBVIOUS
        <4>1. p \in STPPorts /\ pending[p] \in Timers /\ role[p] \in STP!Roles
          BY Zenon DEF STP!Due, TreeInv, TreeTyped
        <4> QED BY Zenon, <4>1 DEF STP!Change, Changes, Timers, STP!STPPhase
      <3> HIDE DEF change
      <3>3. changes \in SUBSET Changes /\ changes # {}
        BY <1>4, <3>2 DEF STP!advanceSTP
      <3>4. \A c \in changes : c.port \in STPPorts /\ c.role = role[c.port]
        BY <3>2 DEF STP!Due
      <3> HIDE DEF changes
      <3>5. job' \in Jobs /\ job'.todo = {} /\ job'.last = changes /\ job'.step = "role"
        BY Zenon, <3>1, <3>3, JobTyped DEF TreeInv, STP!Job
      <3>6. TreeTyped'
        BY Zenon, <2>1, <3>1, <3>3, <3>5 DEF TreeInv, TreeTyped
      <3>7. Demoting'
        BY <2>1, <3>4, <3>5 DEF TreeInv, STP!OneRootPort, Demoting
      <3>8. STP!TimerMatchesState'
        BY Zenon, <2>1, <3>1 DEF TreeInv, STP!TimerMatchesState
      <3> QED BY <2>1, <3>6, <3>7, <3>8 DEF TreeInv, STP!OneRootPort
    <2> QED BY Zenon, <2>2, <2>3
  <1>5. ASSUME STP!WriteRoot PROVE TreeInv'
    <2>1. UNCHANGED <<protocol, role, state, pending>> /\ job # None
      BY <1>5 DEF STP!WriteRoot, STP!confVars
    <2>2. /\ job' \in Jobs
          /\ \A f \in {"todo", "last", "step", "role"} : job'[f] = job[f]
      BY Zenon, <1>5, <1>j, <2>1 DEF STP!WriteRoot, Jobs
    <2>3. job'.todo = job.todo /\ job'.last = job.last /\ job'.step = job.step /\ job'.role = job.role
      BY <2>2
    <2>4. STP!Turn' = STP!Turn
      BY Zenon, <2>3, TurnStays
    <2>5. TreeTyped'
      BY <1>j, <2>1, <2>2, <2>3 DEF TreeInv, TreeTyped
    <2>6. Demoting'
      BY <2>1, <2>3, <2>4 DEF TreeInv, Demoting
    <2> QED BY Zenon, <2>1, <2>5, <2>6 DEF TreeInv, STP!OneRootPort, STP!TimerMatchesState
  <1>6. ASSUME STP!SkipPort PROVE TreeInv'
    <2>1. UNCHANGED <<protocol, role, state, pending>> /\ job # None /\ job' = STP!Done
      BY Zenon, <1>6 DEF STP!SkipPort, STP!Changing, STP!confVars
    <2>2. TreeTyped'
      BY Zenon, <1>j, <2>1, DoneTyped DEF TreeInv, TreeTyped
    <2>3. job.todo # {} => role[STP!Turn.port] # "root"
      BY Zenon, <1>6, <1>j, <2>1 DEF STP!SkipPort, STP!AlreadyThere, TreeInv, Demoting
    <2>4. Demoting'
      BY Zenon, <2>1, <2>2, <2>3, DoneStep
    <2> QED BY Zenon, <2>1, <2>2, <2>4 DEF TreeInv, STP!OneRootPort, STP!TimerMatchesState
  <1>7. ASSUME STP!WriteRole PROVE TreeInv'
    <2>1. UNCHANGED <<protocol, state, pending>> /\ job # None
      BY <1>7 DEF STP!WriteRole, STP!Changing, STP!confVars
    <2>2. role' = [role EXCEPT ![STP!Turn.port] = STP!Turn.role]
      BY <1>7 DEF STP!WriteRole
    <2>3. job' \in Jobs /\ job'.todo = job.todo /\ job'.last = job.last /\ job'.role = job.role
      BY Zenon, <1>7, <1>j, <2>1 DEF STP!WriteRole, Jobs
    <2>4. STP!Turn' = STP!Turn
      BY Zenon, <2>3, TurnStays
    <2>5. STP!Turn.port \in STPPorts /\ STP!Turn.role \in STP!Roles
      BY Zenon, <1>j, <2>1 DEF Changes
    <2>6. TreeTyped'
      BY <1>j, <2>1, <2>2, <2>3, <2>5 DEF TreeInv, TreeTyped
    <2>7. CASE job.todo # {}
      <3>1. STP!Turn.role # "root" /\ role'[STP!Turn.port] # "root"
        BY <1>j, <2>1, <2>2, <2>5, <2>7 DEF TreeInv, Demoting, TreeTyped
      <3>2. \A q \in STPPorts : role'[q] = "root" => role[q] = "root"
        BY Zenon, <2>2, <3>1 DEF TreeInv, TreeTyped
      <3>3. \A c \in job.todo : c.port \in STPPorts
        BY Zenon, <1>j, <2>1 DEF Jobs, Changes
      <3>4. Demoting'
        BY <2>1, <2>3, <2>4, <3>1, <3>2, <3>3 DEF TreeInv, Demoting
      <3>5. STP!OneRootPort'
        BY Zenon, <3>2 DEF TreeInv, STP!OneRootPort
      <3> QED BY <2>1, <2>6, <3>4, <3>5 DEF TreeInv, STP!TimerMatchesState
    <2>8. CASE job.todo = {}
      <3>1. STP!Turn \in job.last
        BY Zenon, <1>j, <2>1, <2>8
      <3>2. \A q \in STPPorts \ {STP!Turn.port} : role'[q] = role[q]
        BY Zenon, <2>2 DEF TreeInv, TreeTyped
      <3>3. role'[STP!Turn.port] = STP!Turn.role
        BY Zenon, <2>2, <2>5 DEF TreeInv, TreeTyped
      <3>4. STP!Turn.role = "root" => \A q \in STPPorts : role[q] = "root" => q = STP!Turn.port
        BY Zenon, <2>1, <2>8, <3>1 DEF TreeInv, Demoting
      <3>5. STP!OneRootPort'
        BY Zenon, <3>2, <3>3, <3>4 DEF TreeInv, STP!OneRootPort
      <3>6. ASSUME NEW c \in job.last, c.role = "root"
            PROVE  /\ \A d \in job.last : d.role = "root" => d.port = c.port
                   /\ \A q \in STPPorts : role'[q] = "root" => q = c.port
        BY <2>1, <2>8, <3>1, <3>2, <3>3, <3>6 DEF TreeInv, Demoting
      <3>7. Demoting'
        BY <2>3, <2>8, <3>6 DEF Demoting
      <3> QED BY Zenon, <2>1, <2>6, <3>5, <3>7 DEF TreeInv, STP!TimerMatchesState
    <2> QED BY Zenon, <2>7, <2>8
  <1>8. ASSUME STP!WriteState PROVE TreeInv'
    <2>1. UNCHANGED <<protocol, role>> /\ job # None /\ job' = STP!Done
      BY <1>8 DEF STP!WriteState, STP!Changing, STP!confVars
    <2>2. /\ state' = [state EXCEPT ![STP!Turn.port] = STP!stateName(job.protocol, STP!Turn.phase)]
          /\ pending' = [pending EXCEPT ![STP!Turn.port] = STP!scheduleSTP(STP!Turn.phase)]
      BY <1>8 DEF STP!WriteState
    <2>3. STP!Turn.port \in STPPorts /\ STP!Turn.phase \in STP!STPPhase /\ job.protocol \in {"stp", "rstp"}
      BY Zenon, <1>j, <2>1 DEF Changes, Jobs
    <2>4. job' # None => job' \in Jobs /\ job'.todo \cup job'.last # {}
      BY Zenon, <1>j, <2>1, DoneTyped
    <2>5. TreeTyped'
      BY Zenon, <2>1, <2>2, <2>3, <2>4, Scheduled DEF TreeInv, TreeTyped
    <2>6. STP!TimerMatchesState'
      BY Zenon, <2>2, <2>3, Scheduled DEF TreeInv, TreeTyped, STP!TimerMatchesState
    <2>7. job.todo # {} => role[STP!Turn.port] # "root"
      BY Zenon, <1>8, <2>1 DEF STP!WriteState, TreeInv, Demoting
    <2>8. Demoting'
      BY <2>1, <2>5, <2>7, DoneStep
    <2> QED BY Zenon, <2>1, <2>5, <2>6, <2>8 DEF TreeInv, STP!OneRootPort
  <1>9. ASSUME STP!HandleFails PROVE TreeInv'
    BY Zenon, <1>9 DEF STP!HandleFails, STP!confVars, TreeInv, TreeTyped, STP!OneRootPort, Demoting, STP!TimerMatchesState
  <1>10. ASSUME NEW p \in STPPorts, STP!DelayElapses(p) PROVE TreeInv'
    <2>1. UNCHANGED <<protocol, role, state, job>> /\ pending[p] # None
      BY Zenon, <1>10 DEF STP!DelayElapses, STP!confVars
    <2>2. pending[p] \in Timers
      BY Zenon, <2>1 DEF TreeInv, TreeTyped
    <2>3. /\ pending' = [pending EXCEPT ![p] = [pending[p] EXCEPT !.due = TRUE]]
          /\ [pending[p] EXCEPT !.due = TRUE] \in Timers
          /\ [pending[p] EXCEPT !.due = TRUE].phase = pending[p].phase
      BY Zenon, <1>10, <2>2 DEF STP!DelayElapses, Timers
    <2>4. TreeTyped'
      BY Zenon, <2>1, <2>3 DEF TreeInv, TreeTyped
    <2>5. STP!TimerMatchesState'
      BY Zenon, <2>1, <2>3 DEF TreeInv, TreeTyped, STP!TimerMatchesState
    <2>6. STP!Turn' = STP!Turn
      BY Zenon, <2>1, TurnStays
    <2> QED BY Zenon, <2>1, <2>4, <2>5, <2>6 DEF TreeInv, STP!OneRootPort, Demoting
  <1>11. ASSUME STP!SetEnabled PROVE TreeInv'
    <2>1. UNCHANGED <<protocol, role, state, pending, job>>
      BY <1>11 DEF STP!SetEnabled
    <2>2. STP!Turn' = STP!Turn
      BY Zenon, <2>1, TurnStays
    <2> QED BY <2>1, <2>2 DEF TreeInv, TreeTyped, STP!OneRootPort, Demoting, STP!TimerMatchesState
  <1>12. ASSUME NEW proto \in {"stp", "rstp"}, STP!SetProtocol(proto) PROVE TreeInv'
    <2>1. UNCHANGED <<role, pending, job>> /\ protocol' = proto
      BY <1>12 DEF STP!SetProtocol
    <2>2. state' = [p \in STPPorts |-> IF state[p] \in STP!STPPortStates(proto) THEN state[p]
                                    ELSE STP!stateName(proto, "blocking")]
      BY Zenon, <1>12 DEF STP!SetProtocol
    <2>3. \A p \in STPPorts :
              /\ state'[p] \in STP!PortStates
              /\ state[p] = "learning" => state'[p] = "learning"
              /\ state[p] \in STP!Discarded \cup {"discarding"} => state'[p] \in STP!Discarded \cup {"discarding"}
      BY Zenon, <2>2 DEF TreeInv, TreeTyped, STP!PortStates, STP!STPPortStates, STP!stateName, STP!Discarded, STP!STPPhase
    <2>4. TreeTyped'
      BY Zenon, <2>1, <2>2, <2>3 DEF TreeInv, TreeTyped
    <2>5. STP!TimerMatchesState'
      BY Zenon, <2>1, <2>3 DEF TreeInv, STP!TimerMatchesState
    <2>6. STP!Turn' = STP!Turn
      BY <2>1, TurnStays
    <2> QED BY Zenon, <2>1, <2>4, <2>5, <2>6 DEF TreeInv, STP!OneRootPort, Demoting
  <1>13. ASSUME UNCHANGED STP!vars PROVE TreeInv'
    <2>1. UNCHANGED <<protocol, role, state, pending, job>>
      BY Zenon, <1>13 DEF STP!vars
    <2>2. STP!Turn' = STP!Turn
      BY <2>1, TurnStays
    <2> QED BY <2>1, <2>2 DEF TreeInv, TreeTyped, STP!OneRootPort, Demoting, STP!TimerMatchesState
  <1> QED
    BY <1>1, <1>2, <1>3, <1>4, <1>5, <1>6, <1>7, <1>8, <1>9, <1>10, <1>11, <1>12, <1>13
       DEF STP!Next, STP!Write
-----------------------------------------------------------------------------
\* There is never a second root port: not between two leaf writes of an election
\* and not after one that was cancelled, for any number of ports.
THEOREM RootPortUnique == STP!Spec => []STP!OneRootPort
  <1>1. TreeInv => STP!OneRootPort
    BY Zenon DEF TreeInv
  <1> QED BY <1>1, TreeInit, TreeNext, PTL DEF STP!Spec

\* The timers of stpPending belong to the states of their ports, whatever link
\* events, ticks and edits of the protocol come after they were armed.
THEOREM TimersBelong == STP!Spec => []STP!TimerMatchesState
  <1>1. TreeInv => STP!TimerMatchesState
    BY DEF TreeInv
  <1> QED BY <1>1, TreeInit, TreeNext, PTL DEF STP!Spec
-----------------------------------------------------------------------------
(***************************************************************************)
(* What validation asks of an enabled bridge: every port is in a state of  *)
(* the protocol, and the job under way works for that protocol.            *)
(***************************************************************************)
StatesFit ==
    /\ \A p \in STPPorts : state[p] \in STP!STPPortStates(protocol)
    /\ job # None => job.protocol = protocol

\* The seed device fits.
LEMMA StatesInit == STP!Init => StatesFit
  BY DEF STP!Init, StatesFit, STP!STPPortStates, STP!STPPhase

\* Every step keeps it, but for an edit of the protocol inside a job.
LEMMA StatesNext ==
  ASSUME TreeInv, StatesFit, [STP!Next]_(STP!vars), job = None \/ UNCHANGED protocol
  PROVE  StatesFit'
  <1>j. job # None => job \in Jobs /\ STP!Turn \in Changes /\ STP!Turn.port \in STPPorts /\ STP!Turn.phase \in STP!STPPhase
    BY TurnIsLeft DEF TreeInv, TreeTyped, Changes
  <1>0. \A h, r, t, l : STP!Job(h, r, t, l).protocol = protocol
    BY DEF STP!Job
  <1>1. ASSUME UNCHANGED <<protocol, state>>, job' = None \/ job'.protocol = protocol
        PROVE  StatesFit'
    BY <1>1 DEF StatesFit
  <1>2. ASSUME NEW p \in STPPorts, NEW id \in Others, STP!LinkDown(p) \/ STP!LinkUp(p) \/ STP!BPDU(p, id)
        PROVE  StatesFit'
    <2>1. UNCHANGED <<protocol, state>> /\ \E h, r, t, l : job' = STP!Job(h, r, t, l)
      BY Zenon, <1>2 DEF STP!LinkDown, STP!LinkUp, STP!BPDU, STP!elect, STP!Handle, STP!confVars
    <2> QED BY Zenon, <1>0, <1>1, <2>1
  <1>3. ASSUME NEW p \in STPPorts, STP!LinkDown(p) \/ STP!LinkUp(p)
        PROVE  StatesFit'
    <2>1. UNCHANGED <<protocol, state>> /\ \E h, r, t, l : job' = STP!Job(h, r, t, l)
      BY Zenon, <1>3 DEF STP!LinkDown, STP!LinkUp, STP!Handle, STP!confVars
    <2> QED BY Zenon, <1>0, <1>1, <2>1
  <1>4. CASE STP!advanceSTP
    <2>1. /\ UNCHANGED <<protocol, state>> /\ job = None
          /\ job' = job \/ \E h, r, t, l : job' = STP!Job(h, r, t, l)
      BY Zenon, <1>4 DEF STP!advanceSTP, STP!confVars
    <2> QED BY Zenon, <1>0, <1>1, <2>1
  <1>5. job # None /\ STP!Done # None => STP!Done.protocol = job.protocol
    BY <1>j DEF STP!Done, Jobs
  <1>6. CASE STP!WriteRoot \/ STP!WriteRole
    <2>1. UNCHANGED <<protocol, state>> /\ job # None
          /\ (job' = [job EXCEPT !.root = None] \/ job' = [job EXCEPT !.step = "state"])
      BY <1>6 DEF STP!WriteRoot, STP!WriteRole, STP!Changing, STP!confVars
    <2>2. job'.protocol = job.protocol
      BY Zenon, <1>j, <2>1 DEF Jobs
    <2> QED BY Zenon, <1>1, <2>1, <2>2 DEF StatesFit
  <1>7. CASE STP!SkipPort
    <2>1. UNCHANGED <<protocol, state>> /\ job # None /\ job' = STP!Done
      BY Zenon, <1>7 DEF STP!SkipPort, STP!Changing, STP!confVars
    <2> QED BY Zenon, <1>1, <1>5, <2>1 DEF StatesFit
  <1>8. CASE STP!WriteState
    <2>1. /\ job # None /\ job' = STP!Done /\ protocol' = protocol
          /\ state' = [state EXCEPT ![STP!Turn.port] = STP!stateName(job.protocol, STP!Turn.phase)]
      BY Zenon, <1>8 DEF STP!WriteState, STP!Changing, STP!confVars
    <2>2. job.protocol = protocol
      BY Zenon, <2>1 DEF StatesFit
    <2>3. STP!stateName(protocol, STP!Turn.phase) \in STP!STPPortStates(protocol)
      BY Zenon, <1>j, <2>1 DEF STP!stateName, STP!STPPortStates, STP!STPPhase, STP!Discarded
    <2>4. state \in [STPPorts -> STP!PortStates]
      BY Zenon DEF TreeInv, TreeTyped
    <2>5. \A p \in STPPorts : state'[p] \in STP!STPPortStates(protocol)
      BY Zenon, <1>j, <2>1, <2>2, <2>3, <2>4 DEF StatesFit
    <2> QED BY Zenon, <1>5, <2>1, <2>2, <2>5 DEF StatesFit
  <1>9. CASE STP!HandleFails
    BY Zenon, <1>1, <1>9 DEF STP!HandleFails, STP!confVars
  <1>10. ASSUME NEW p \in STPPorts, STP!DelayElapses(p)
         PROVE  StatesFit'
    BY Zenon, <1>1, <1>10 DEF STP!DelayElapses, STP!confVars, StatesFit
  <1>11. CASE STP!SetEnabled
    BY Zenon, <1>1, <1>11 DEF STP!SetEnabled, StatesFit
  <1>12. ASSUME NEW proto \in {"stp", "rstp"}, STP!SetProtocol(proto)
         PROVE  StatesFit'
    <2>1. job = None /\ job' = None /\ protocol' = proto
      BY <1>12 DEF STP!SetProtocol
    <2>2. STP!stateName(proto, "blocking") \in STP!STPPortStates(proto)
      BY Zenon DEF STP!stateName, STP!STPPortStates, STP!STPPhase, STP!Discarded
    <2>3. \A p \in STPPorts : state'[p] \in STP!STPPortStates(proto)
      BY Zenon, <1>12, <2>2 DEF STP!SetProtocol
    <2> QED BY Zenon, <2>1, <2>3 DEF StatesFit
  <1>13. CASE UNCHANGED STP!vars
    BY Zenon, <1>1, <1>13 DEF STP!vars, StatesFit
  <1> QED
    BY <1>2, <1>3, <1>4, <1>6, <1>7, <1>8, <1>9, <1>10, <1>11, <1>12, <1>13 DEF STP!Next, STP!Write
-----------------------------------------------------------------------------
\* The tree starts as the domain does.
LEMMA TreeStarts == L2Init => STP!Init
  BY DEF L2Init

\* A step of the domain is a step of the tree or leaves the tree alone.
LEMMA TreeSteps == [L2Next]_l2Vars => [STP!Next]_(STP!vars)
  <1> SUFFICES ASSUME [L2Next]_l2Vars PROVE [STP!Next]_(STP!vars)
    OBVIOUS
  <1>1. CASE UNCHANGED stpVars
    BY Zenon, <1>1 DEF stpVars, STP!vars
  <1>2. CASE LinkEvent
    BY Zenon, <1>2 DEF LinkEvent, STP!Next
  <1>3. CASE TickSTP
    BY Zenon, <1>3 DEF TickSTP, STP!Next
  <1>4. CASE STPWrites
    BY Zenon, <1>4 DEF STPWrites, STP!Next
  <1>5. CASE LinkEventFails
    BY Zenon, <1>5 DEF LinkEventFails, STP!Next
  <1>6. CASE DelayPasses
    BY Zenon, <1>6 DEF DelayPasses, STP!Next
  <1>7. CASE PlaneEditsSTP
    BY Zenon, <1>7 DEF PlaneEditsSTP, STP!Next
  <1>8. BridgeRequest \/ BridgeWorks \/ BridgeCutOff \/ TickAge \/ TimePasses \/ PlaneEditsBridge
            => UNCHANGED stpVars
    BY Zenon DEF BridgeRequest, BridgeWorks, BridgeCutOff, TickAge, TimePasses, PlaneEditsBridge,
                 OnlyBridge
  <1>9. NeighborRequests \/ NeighborWorks \/ NeighborCutOff \/ TickLLDP \/ TickRefresh
            \/ PlaneEditsLLDP \/ PlaneConfiguresLLDP => UNCHANGED stpVars
    BY Zenon DEF NeighborRequests, NeighborWorks, NeighborCutOff, TickLLDP, TickRefresh,
                 PlaneEditsLLDP, PlaneConfiguresLLDP, OnlyLLDP
  <1>10. PlaneProposes => UNCHANGED stpVars
    BY Zenon DEF PlaneProposes, Propose
  <1>11. UNCHANGED l2Vars => UNCHANGED stpVars
    BY DEF l2Vars
  <1> QED
    BY Zenon, <1>1, <1>2, <1>3, <1>4, <1>5, <1>6, <1>7, <1>8, <1>9, <1>10, <1>11
       DEF L2Next, DomainTick, Works, PlaneWritesEdit
-----------------------------------------------------------------------------
\* The domain implements the spanning tree: its manager, its lock and its ticks
\* order the steps of the tree but add none.
THEOREM DomainRunsTree == L2Spec => STP!Spec
  BY TreeStarts, TreeSteps, PTL DEF L2Spec, STP!Spec

\* elect never leaves two root ports in running, whatever else the domain and
\* the planes are doing, for any number of ports.
THEOREM DomainRootPort == L2Spec => []OneRootPort
  BY DomainRunsTree, RootPortUnique, PTL DEF OneRootPort

\* stpPending agrees with the port states through every tick, request and edit.
THEOREM DomainTimers == L2Spec => []TimerMatchesState
  BY DomainRunsTree, TimersBelong, PTL DEF TimerMatchesState
-----------------------------------------------------------------------------
\* The lock keeps the requests for neighbours and the refresh of a tick apart.
Locked ==
    /\ refresh.left # {} => tick = "lldp"
    /\ talk # Idle => tick = None

\* Nothing mends a torn device in the eyes of this invariant.
LEMMA TornStays == [L2Next]_l2Vars => (torn => torn')
  BY Zenon DEF L2Next, DomainTick, Works, PlaneWritesEdit, l2Vars, BridgeRequest, BridgeWorks,
         BridgeCutOff, NeighborRequests, NeighborWorks, NeighborCutOff, LinkEvent, LinkEventFails,
         TickAge, TickSTP, TickLLDP, TickRefresh, STPWrites, DelayPasses, TimePasses,
         PlaneProposes, Propose, PlaneEditsBridge, PlaneEditsSTP, PlaneEditsLLDP,
         PlaneConfiguresLLDP

\* Which steps can change the bridge, which LLDP, and which the proposal.
LEMMA Owners ==
  ASSUME [L2Next]_l2Vars
  PROVE  /\ \/ UNCHANGED vars \/ BridgeRequest \/ BridgeWorks \/ BridgeCutOff \/ TickAge
            \/ TimePasses \/ PlaneEditsBridge
         /\ \/ UNCHANGED lldpVars \/ NeighborRequests \/ NeighborWorks \/ NeighborCutOff
            \/ TickLLDP \/ TickRefresh \/ PlaneEditsLLDP \/ PlaneConfiguresLLDP
         /\ UNCHANGED proposal \/ PlaneProposes \/ PlaneEditsBridge \/ PlaneEditsLLDP
         /\ UNCHANGED focus
  <1>1. LinkEvent \/ TickSTP \/ STPWrites \/ LinkEventFails \/ DelayPasses \/ PlaneEditsSTP
            => UNCHANGED <<vars, lldpVars, focus, proposal>>
    BY Zenon DEF LinkEvent, TickSTP, STPWrites, LinkEventFails, DelayPasses, PlaneEditsSTP, OnlySTP
  <1>2. NeighborRequests \/ NeighborWorks \/ NeighborCutOff \/ TickLLDP \/ TickRefresh
            \/ PlaneConfiguresLLDP => UNCHANGED <<vars, focus, proposal>>
    BY Zenon DEF NeighborRequests, NeighborWorks, NeighborCutOff, TickLLDP, TickRefresh,
                 PlaneConfiguresLLDP, OnlyLLDP
  <1>3. BridgeRequest \/ BridgeWorks \/ BridgeCutOff \/ TickAge \/ TimePasses
            => UNCHANGED <<lldpVars, focus, proposal>>
    BY Zenon DEF BridgeRequest, BridgeWorks, BridgeCutOff, TickAge, TimePasses, OnlyBridge
  <1>4. UNCHANGED l2Vars => UNCHANGED <<vars, lldpVars, focus, proposal>>
    BY DEF l2Vars
  <1>5. PlaneProposes => UNCHANGED <<vars, lldpVars, focus>>
    BY Zenon DEF PlaneProposes, Propose
  <1>6. PlaneEditsBridge => UNCHANGED <<lldpVars, focus>>
    BY Zenon DEF PlaneEditsBridge, OnlyBridge
  <1>7. PlaneEditsLLDP => UNCHANGED <<vars, focus>>
    BY Zenon DEF PlaneEditsLLDP, OnlyLLDP
  <1> QED BY Zenon, <1>1, <1>2, <1>3, <1>4, <1>5, <1>6, <1>7
             DEF L2Next, DomainTick, Works, PlaneWritesEdit

\* A request for a neighbour starts, and the refresh starts, when the lock is free.
LEMMA LockSteps == Locked /\ [L2Next]_l2Vars => Locked'
  <1> SUFFICES ASSUME Locked, [L2Next]_l2Vars PROVE Locked'
    OBVIOUS
  <1>0. None # "age" /\ None # "lldp" /\ None # "stp"
    BY Zenon, L2Assumption
  <1>1. CASE UNCHANGED lldpVars
    <2>1. UNCHANGED <<refresh, talk>>
      BY Zenon, <1>1 DEF lldpVars
    <2>2. CASE UNCHANGED tick
      BY Zenon, <2>1, <2>2 DEF Locked
    <2>3. CASE ~ UNCHANGED tick
      <3>1. TickAge \/ TickSTP \/ TickLLDP \/ TickRefresh
        BY Zenon, <2>3 DEF L2Next, DomainTick, Works, PlaneWritesEdit, l2Vars, BridgeRequest,
           BridgeWorks, BridgeCutOff, NeighborRequests, NeighborWorks, NeighborCutOff, LinkEvent,
           LinkEventFails, STPWrites, DelayPasses, TimePasses, PlaneProposes, Propose,
           PlaneEditsBridge, PlaneEditsSTP, PlaneEditsLLDP, PlaneConfiguresLLDP
      <3>2. CASE TickAge
        BY Zenon, <1>0, <2>1, <3>2 DEF TickAge, Unlocked, Locked
      <3>3. CASE TickSTP
        BY Zenon, <1>0, <2>1, <3>3 DEF TickSTP, Locked
      <3>4. CASE TickLLDP \/ TickRefresh
        BY Zenon, <1>0, <2>1, <3>4 DEF TickLLDP, TickRefresh, Locked
      <3> QED BY Zenon, <3>1, <3>2, <3>3, <3>4
    <2> QED BY Zenon, <2>2, <2>3
  <1>2. CASE NeighborRequests
    <2>1. Unlocked /\ UNCHANGED <<refresh, tick>>
      BY Zenon, <1>2 DEF NeighborRequests, RemoveNeighbor, SetNeighbor, NeighborRequest
    <2> QED BY Zenon, <1>0, <2>1 DEF Locked, Unlocked
  <1>3. CASE NeighborWorks
    <2>1. UNCHANGED <<refresh, tick>> /\ (talk.step = "list" \/ talk.left # {})
      BY Zenon, <1>3 DEF NeighborWorks, TalkStep, ListLeaves, SetLeaf, DeleteLeaf
    <2>2. talk # Idle
      BY <2>1 DEF Idle
    <2> QED BY Zenon, <2>1, <2>2 DEF Locked
  <1>4. CASE NeighborCutOff
    BY Zenon, <1>4 DEF NeighborCutOff, TalkCutOff, Locked
  <1>5. CASE TickLLDP
    <2>1. talk' = talk /\ tick # None /\ tick' = IF refresh'.left = {} THEN None ELSE "lldp"
      BY Zenon, <1>0, <1>5 DEF TickLLDP, refreshLLDP
    <2> QED BY Zenon, <2>1 DEF Locked
  <1>6. CASE TickRefresh
    <2>1. talk' = talk /\ tick # None /\ tick' = IF refresh'.left = {} THEN None ELSE "lldp"
      BY Zenon, <1>0, <1>6 DEF TickRefresh, RefreshNeighbor
    <2> QED BY Zenon, <2>1 DEF Locked
  <1>7. CASE PlaneEditsLLDP \/ PlaneConfiguresLLDP
    BY Zenon, <1>7 DEF PlaneEditsLLDP, PlaneSets, PlaneConfiguresLLDP, PlaneConfigures, Locked
  <1> QED BY Zenon, <1>1, <1>2, <1>3, <1>4, <1>5, <1>6, <1>7, Owners
-----------------------------------------------------------------------------
(***************************************************************************)
(* What a plane has proposed is valid or takes an entry away, and changes  *)
(* no age.                                                                 *)
(***************************************************************************)
Proposed ==
    proposal # None =>
        \/ /\ proposal.part = "bridge" /\ proposal.at \in Stations
           /\ proposal.old \in Entry /\ proposal.new \in Entry
           /\ proposal.new.age = proposal.old.age
           /\ proposal.new = Zero \/ ValidEntry(proposal.new)
        \/ /\ proposal.part = "lldp" /\ proposal.at \in LocalPorts
           /\ proposal.old \in Neighbor /\ proposal.new \in Neighbor
           /\ proposal.new = Absent \/ Complete(proposal.new)

\* Where the environment does not drive the bridge its table is empty.
Quiet ==
    focus # "bridge" =>
        Known = {} /\ work = None /\ (proposal # None => proposal.part # "bridge")

\* Every step of the domain preserves the invariant of the bridge.
LEMMA BridgeSteps ==
  ASSUME BridgeInv, Quiet, Proposed, [L2Next]_l2Vars
  PROVE  BridgeInv'
  <1>1. CASE UNCHANGED vars
    BY Zenon, <1>1, SameStep DEF vars
  <1>2. CASE BridgeRequest
    BY Zenon, <1>2, RequestsKeep DEF BridgeRequest
  <1>3. CASE BridgeWorks
    BY Zenon, <1>3, WorkSteps DEF BridgeWorks
  <1>4. CASE BridgeCutOff
    BY Zenon, <1>4, EndSteps DEF BridgeCutOff
  <1>5. CASE TickAge
    BY Zenon, <1>5, AgeStep DEF TickAge
  <1>6. CASE TimePasses
    <2>1. CASE Elapse
      BY Zenon, <2>1, ElapseStep
    <2>2. CASE ~ Elapse
      <3>1. /\ focus # "bridge" /\ since' = TickInterval
            /\ UNCHANGED <<tableVars, work, edits>>
        BY Zenon, <1>6, <2>2 DEF TimePasses
      <3>2. Known = {} /\ work = None
        BY Zenon, <3>1 DEF Quiet
      <3> QED BY Zenon, <3>1, <3>2, IdleStep
    <2> QED BY Zenon, <2>1, <2>2
  <1>7. CASE PlaneEditsBridge
    <2>1. /\ proposal # None /\ proposal.part = "bridge"
          /\ PlaneApplies(proposal.at, proposal.old, proposal.new)
      BY Zenon, <1>7 DEF PlaneEditsBridge
    <2>2. "bridge" # "lldp"
      OBVIOUS
    <2>3. /\ proposal.at \in Stations /\ proposal.old \in Entry /\ proposal.new \in Entry
          /\ proposal.new.age = proposal.old.age
      BY Zenon, <2>1, <2>2 DEF Proposed
    <2>4. PICK m, old, new : m = proposal.at /\ old = proposal.old /\ new = proposal.new
      BY Zenon
    <2> QED BY Zenon, <2>1, <2>3, <2>4, PlaneStep
  <1> QED BY Zenon, <1>1, <1>2, <1>3, <1>4, <1>5, <1>6, <1>7, Owners

\* A proposal comes from a device that was read, and is dropped when it is written.
LEMMA ProposedSteps ==
  ASSUME BridgeInv, Proposed, \A p : At(p) \in Neighbor, [L2Next]_l2Vars
  PROVE  Proposed'
  <1>1. CASE UNCHANGED proposal
    BY Zenon, <1>1 DEF Proposed
  <1>2. CASE PlaneEditsBridge \/ PlaneEditsLLDP
    <2>1. proposal' = None
      BY Zenon, <1>2 DEF PlaneEditsBridge, PlaneEditsLLDP
    <2> QED BY Zenon, <2>1 DEF Proposed
  <1>3. CASE PlaneProposes
    <2>1. ASSUME NEW m \in Stations, NEW e \in Proposals(m), Propose("bridge", m, Found(m), e)
          PROVE  Proposed'
      <3>1. table \in Tables
        BY Zenon DEF BridgeInv, BridgeTyped
      <3>2. e \in Entry /\ e.age = Found(m).age /\ (e = Zero \/ ValidEntry(e)) /\ Found(m) \in Entry
        BY Zenon, <3>1, ProposalsFit, FoundType
      <3>3. PICK old : old = Found(m)
        BY Zenon
      <3>4. proposal' = [part |-> "bridge", at |-> m, old |-> old, new |-> e]
        BY Zenon, <2>1, <3>3 DEF Propose
      <3>5. /\ proposal'.part = "bridge" /\ proposal'.at = m /\ proposal'.old = old
            /\ proposal'.new = e
        BY Zenon, <3>4
      <3> QED BY Zenon, <3>2, <3>3, <3>5 DEF Proposed
    <2>2. ASSUME NEW p \in LocalPorts, NEW n \in NeighborProposals(p), Propose("lldp", p, At(p), n)
          PROVE  Proposed'
      <3>1. n \in Neighbor /\ (n = Absent \/ Complete(n))
        <4>1. n = Absent \/ \E ttl \in TTLs : n = [leaves |-> Names, ttl |-> ttl]
          BY Zenon DEF NeighborProposals, PlaneRemoves, PlaneAdds
        <4>2. Absent \in Neighbor
          BY Zenon DEF Absent, Neighbor
        <4>3. ASSUME NEW ttl \in TTLs
              PROVE  /\ [leaves |-> Names, ttl |-> ttl] \in Neighbor
                     /\ Complete([leaves |-> Names, ttl |-> ttl])
          BY Zenon, LLDPAssumption DEF Neighbor, Complete
        <4> QED BY Zenon, <4>1, <4>2, <4>3
      <3>2. PICK old : old = At(p)
        BY Zenon
      <3>3. proposal' = [part |-> "lldp", at |-> p, old |-> old, new |-> n]
        BY Zenon, <2>2, <3>2 DEF Propose
      <3>4. /\ proposal'.part = "lldp" /\ proposal'.at = p /\ proposal'.old = old
            /\ proposal'.new = n
        BY Zenon, <3>3
      <3> QED BY Zenon, <3>1, <3>2, <3>4 DEF Proposed
    <2> QED BY Zenon, <1>3, <2>1, <2>2 DEF PlaneProposes
  <1> QED BY Zenon, <1>1, <1>2, <1>3, Owners

\* The bridge is left alone where it is not driven.
LEMMA QuietSteps ==
  ASSUME Quiet, [L2Next]_l2Vars
  PROVE  Quiet'
  <1> SUFFICES ASSUME focus # "bridge"
               PROVE  Known' = {} /\ work' = None /\ (proposal' # None => proposal'.part # "bridge")
    BY Zenon, Owners DEF Quiet
  <1>1. Known = {} /\ work = None /\ (proposal # None => proposal.part # "bridge")
    BY Zenon DEF Quiet
  <1>2. ~ BridgeRequest /\ ~ BridgeWorks /\ ~ BridgeCutOff /\ ~ PlaneEditsBridge
    BY Zenon, <1>1 DEF BridgeRequest, BridgeWorks, WorkStep, BridgeCutOff, CutOff, PlaneEditsBridge
  <1>3. TickAge \/ TimePasses \/ UNCHANGED vars => table' = table
    BY Zenon DEF TickAge, age, TimePasses, Elapse, tableVars, vars
  <1>4. work' = None
    <2>1. TickAge => work' = None
      <3>1. {m \in Known : table[m].type = "dynamic"} = {}
        BY Zenon, <1>1
      <3> QED BY Zenon, <3>1 DEF TickAge, age, Sweep
    <2>2. TimePasses \/ UNCHANGED vars => work' = work
      BY Zenon DEF TimePasses, Elapse, vars
    <2> QED BY Zenon, <1>1, <1>2, <2>1, <2>2, Owners
  <1>5. proposal' # None => proposal'.part # "bridge"
    <2>1. CASE PlaneProposes
      <3>1. PICK p, old, n : proposal' = [part |-> "lldp", at |-> p, old |-> old, new |-> n]
        BY Zenon, <2>1 DEF PlaneProposes, Propose
      <3>2. proposal'.part = "lldp"
        BY Zenon, <3>1
      <3> QED BY <3>2
    <2>2. CASE UNCHANGED proposal
      BY Zenon, <1>1, <2>2
    <2>3. PlaneEditsLLDP => proposal' = None
      BY Zenon DEF PlaneEditsLLDP
    <2> QED BY Zenon, <1>2, <2>1, <2>2, <2>3, Owners
  <1> QED BY Zenon, <1>1, <1>2, <1>3, <1>4, <1>5, Owners DEF Known
-----------------------------------------------------------------------------
(***************************************************************************)
(* LLDP: the types, and what the requests do leaf by leaf.                 *)
(***************************************************************************)
AllLeaves == Names \cup {"ttl"}

Talks == [step : {"idle", "set", "list", "delete"}, port : LocalPorts \cup {Idle.port},
          ttl : TTLs \cup {0}, left : SUBSET AllLeaves]

LLDPTyped ==
    /\ lldp \in [enabled : BOOLEAN, ttl : TTLs]
    /\ Present \subseteq LocalPorts
    /\ \A p \in Present : neighbors[p] \in Neighbor \ {Absent}
    /\ refresh \in [ttl : TTLs, left : SUBSET LocalPorts]
    /\ talk \in Talks
    /\ talk # Idle => talk.port \in LocalPorts /\ talk.step # "idle"
    /\ talk.step = "set" => talk.ttl \in TTLs

\* Storing a neighbour leaves the others alone; an absent one is gone.
LEMMA StoredAt ==
  ASSUME NEW p, NEW n, neighbors' = Stored(p, n)
  PROVE  /\ \A q : q # p => (q \in Present' <=> q \in Present)
         /\ \A q \in Present : q # p => neighbors'[q] = neighbors[q]
         /\ p \in Present' <=> n # Absent
         /\ p \in Present' => neighbors'[p] = n
         /\ At(p)' = n
         /\ \A q : q # p => At(q)' = At(q)
  <1>1. /\ \A q : q # p => (q \in Present' <=> q \in Present)
        /\ \A q \in Present : q # p => neighbors'[q] = neighbors[q]
        /\ p \in Present' <=> n # Absent
        /\ p \in Present' => neighbors'[p] = n
    BY Zenon DEF Stored, Present
  <1>2. At(p)' = n /\ \A q : q # p => At(q)' = At(q)
    BY Zenon, <1>1 DEF At
  <1> QED BY Zenon, <1>1, <1>2

LEMMA AtType ==
  ASSUME LLDPTyped
  PROVE  /\ \A p : At(p) \in Neighbor
         /\ Absent \in Neighbor
         /\ \A p \in Present : At(p) = neighbors[p]
  <1>1. Absent \in Neighbor
    BY Zenon DEF Absent, Neighbor
  <1> QED BY Zenon, <1>1 DEF LLDPTyped, At

\* A neighbour with a leaf set, and with a leaf deleted.
Setting(n, leaf, ttl) ==
    IF leaf = "ttl" THEN [n EXCEPT !.ttl = ttl] ELSE [n EXCEPT !.leaves = @ \cup {leaf}]

Deleting(n, leaf) ==
    IF leaf = "ttl" THEN [n EXCEPT !.ttl = 0] ELSE [n EXCEPT !.leaves = @ \ {leaf}]

LEMMA LeafType ==
  ASSUME NEW n \in Neighbor
  PROVE  /\ LeavesOf(n) \subseteq AllLeaves
         /\ "ttl" \in LeavesOf(n) <=> n.ttl # 0
         /\ \A leaf : leaf # "ttl" => (leaf \in LeavesOf(n) <=> leaf \in n.leaves)
         /\ LeavesOf(n) = {} => n = Absent
         /\ AllLeaves \subseteq LeavesOf(n) => Complete(n)
  <1>1. n.leaves \subseteq Names /\ n = [leaves |-> n.leaves, ttl |-> n.ttl]
    BY DEF Neighbor
  <1>2. "ttl" \notin Names
    BY DEF Names
  <1>3. LeavesOf(n) \subseteq AllLeaves
    BY Zenon, <1>1 DEF LeavesOf, AllLeaves
  <1>4. "ttl" \in LeavesOf(n) <=> n.ttl # 0
    BY Zenon, <1>1, <1>2 DEF LeavesOf
  <1>5. \A leaf : leaf # "ttl" => (leaf \in LeavesOf(n) <=> leaf \in n.leaves)
    BY Zenon DEF LeavesOf
  <1>6. ASSUME LeavesOf(n) = {} PROVE n = Absent
    <2>1. n.leaves = {} /\ n.ttl = 0
      BY Zenon, <1>4, <1>6 DEF LeavesOf
    <2> QED BY Zenon, <1>1, <2>1 DEF Absent
  <1>7. ASSUME AllLeaves \subseteq LeavesOf(n) PROVE Complete(n)
    <2>1. n.ttl # 0
      BY Zenon, <1>4, <1>7 DEF AllLeaves
    <2>2. Names \subseteq n.leaves
      BY Zenon, <1>2, <1>5, <1>7 DEF AllLeaves
    <2> QED BY Zenon, <2>1, <2>2 DEF Complete
  <1> QED BY Zenon, <1>3, <1>4, <1>5, <1>6, <1>7

LEMMA LeafSet ==
  ASSUME NEW n \in Neighbor, NEW leaf \in AllLeaves, NEW ttl \in TTLs
  PROVE  /\ Setting(n, leaf, ttl) \in Neighbor
         /\ LeavesOf(n) \cup {leaf} \subseteq LeavesOf(Setting(n, leaf, ttl))
  <1>1. n.leaves \subseteq Names /\ n.ttl \in TTLs \cup {0}
    BY DEF Neighbor
  <1>2. ttl # 0
    BY Zenon, LLDPAssumption
  <1>3. CASE leaf = "ttl"
    <2>1. Setting(n, leaf, ttl) = [n EXCEPT !.ttl = ttl]
      BY Zenon, <1>3 DEF Setting
    <2>2. [n EXCEPT !.ttl = ttl] \in Neighbor /\ [n EXCEPT !.ttl = ttl].leaves = n.leaves
          /\ [n EXCEPT !.ttl = ttl].ttl = ttl
      BY Zenon DEF Neighbor
    <2> QED BY Zenon, <1>2, <1>3, <2>1, <2>2, LeafType
  <1>4. CASE leaf # "ttl"
    <2>1. leaf \in Names
      BY Zenon, <1>4 DEF AllLeaves
    <2>2. PICK more : more = n.leaves \cup {leaf}
      BY Zenon
    <2>3. Setting(n, leaf, ttl) = [n EXCEPT !.leaves = more] /\ more \in SUBSET Names
      BY Zenon, <1>1, <1>4, <2>1, <2>2 DEF Setting
    <2>4. [n EXCEPT !.leaves = more] \in Neighbor /\ [n EXCEPT !.leaves = more].leaves = more
          /\ [n EXCEPT !.leaves = more].ttl = n.ttl
      BY Zenon, <2>3 DEF Neighbor
    <2> QED BY Zenon, <1>4, <2>2, <2>3, <2>4, LeafType
  <1> QED BY Zenon, <1>3, <1>4

LEMMA LeafDeleted ==
  ASSUME NEW n \in Neighbor, NEW leaf \in AllLeaves
  PROVE  /\ Deleting(n, leaf) \in Neighbor
         /\ LeavesOf(Deleting(n, leaf)) = LeavesOf(n) \ {leaf}
  <1>1. n.leaves \subseteq Names /\ n.ttl \in TTLs \cup {0}
    BY DEF Neighbor
  <1>2. CASE leaf = "ttl"
    <2>1. Deleting(n, leaf) = [n EXCEPT !.ttl = 0]
      BY Zenon, <1>2 DEF Deleting
    <2>2. [n EXCEPT !.ttl = 0] \in Neighbor /\ [n EXCEPT !.ttl = 0].leaves = n.leaves
          /\ [n EXCEPT !.ttl = 0].ttl = 0
      BY Zenon DEF Neighbor
    <2> QED BY Zenon, <1>2, <2>1, <2>2, LeafType
  <1>3. CASE leaf # "ttl"
    <2>1. PICK less : less = n.leaves \ {leaf}
      BY Zenon
    <2>2. Deleting(n, leaf) = [n EXCEPT !.leaves = less] /\ less \in SUBSET Names
      BY Zenon, <1>1, <1>3, <2>1 DEF Deleting
    <2>3. [n EXCEPT !.leaves = less] \in Neighbor /\ [n EXCEPT !.leaves = less].leaves = less
          /\ [n EXCEPT !.leaves = less].ttl = n.ttl
      BY Zenon, <2>2 DEF Neighbor
    <2> QED BY Zenon, <1>3, <2>1, <2>2, <2>3, LeafType
  <1> QED BY Zenon, <1>2, <1>3

\* A request goes on, or ends with its last leaf.
LEMMA GoingType ==
  ASSUME LLDPTyped, talk # Idle, NEW step \in {"set", "delete"}, NEW left \in SUBSET AllLeaves,
         step = "set" => talk.step = "set", talk' = Going(step, left)
  PROVE  /\ talk' \in Talks
         /\ talk' # Idle => talk'.port \in LocalPorts /\ talk'.step # "idle"
         /\ talk'.step = "set" => talk'.ttl \in TTLs
         /\ left = {} => talk' = Idle /\ talk'.step = "idle"
         /\ left # {} => talk' # Idle /\ talk'.port = talk.port /\ talk'.step = step
                         /\ talk'.left = left
  <1>0. Idle \in Talks /\ Idle.step = "idle" /\ Idle.left = {}
    BY Zenon DEF Idle, Talks
  <1>1. CASE left = {}
    <2>1. talk' = Idle
      BY Zenon, <1>1 DEF Going
    <2>2. talk'.step # "set"
      BY <1>0, <2>1
    <2> QED BY Zenon, <1>0, <1>1, <2>1, <2>2
  <1>2. CASE left # {}
    <2>1. talk' = [talk EXCEPT !.step = step, !.left = left] /\ talk \in Talks
      BY Zenon, <1>2 DEF Going, LLDPTyped
    <2>2. step \in {"idle", "set", "list", "delete"} /\ step # "idle"
      OBVIOUS
    <2>3. /\ talk' \in Talks /\ talk'.step = step /\ talk'.left = left
          /\ talk'.port = talk.port /\ talk'.ttl = talk.ttl
      BY Zenon, <2>1, <2>2 DEF Talks
    <2>4. talk' # Idle
      BY Zenon, <1>0, <1>2, <2>3
    <2> QED BY Zenon, <1>2, <2>2, <2>3, <2>4 DEF LLDPTyped
  <1> QED BY Zenon, <1>1, <1>2

\* What a plane makes of a neighbour that is now, having read old and proposed new.
Merged(now, old, new) ==
    [leaves |-> (now.leaves \ (old.leaves \ new.leaves)) \cup (new.leaves \ old.leaves),
     ttl |-> IF new.ttl # old.ttl THEN new.ttl ELSE now.ttl]

LEMMA MergedType ==
  ASSUME NEW now \in Neighbor, NEW old \in Neighbor, NEW new \in Neighbor
  PROVE  Merged(now, old, new) \in Neighbor /\ (now = old => Merged(now, old, new) = new)
  <1>1. /\ now.leaves \subseteq Names /\ now.ttl \in TTLs \cup {0}
        /\ new.leaves \subseteq Names /\ new.ttl \in TTLs \cup {0}
        /\ new = [leaves |-> new.leaves, ttl |-> new.ttl]
    BY DEF Neighbor
  <1>2. PICK leaves, ttl :
           /\ leaves = (now.leaves \ (old.leaves \ new.leaves)) \cup (new.leaves \ old.leaves)
           /\ ttl = IF new.ttl # old.ttl THEN new.ttl ELSE now.ttl
    BY Zenon
  <1>3. Merged(now, old, new) = [leaves |-> leaves, ttl |-> ttl]
    BY Zenon, <1>2 DEF Merged
  <1>4. leaves \subseteq Names /\ ttl \in TTLs \cup {0}
    BY Zenon, <1>1, <1>2
  <1>5. [leaves |-> leaves, ttl |-> ttl] \in Neighbor
    BY Zenon, <1>4 DEF Neighbor
  <1>6. now = old => leaves = new.leaves /\ ttl = new.ttl
    BY Zenon, <1>2
  <1> QED BY Zenon, <1>1, <1>3, <1>5, <1>6

\* What a plane writes to a neighbour, with the types that the proposal has.
LEMMA PlaneMerges ==
  ASSUME LLDPTyped, Proposed, PlaneEditsLLDP
  PROVE  /\ proposal.at \in LocalPorts /\ proposal.old \in Neighbor /\ proposal.new \in Neighbor
         /\ proposal.new = Absent \/ Complete(proposal.new)
         /\ neighbors' = Stored(proposal.at, Merged(At(proposal.at), proposal.old, proposal.new))
         /\ UNCHANGED <<lldp, talk, refresh>>
         /\ torn' = (torn \/ ~ Unlocked \/ At(proposal.at) # proposal.old)
  <1>1. /\ proposal # None /\ proposal.part = "lldp"
        /\ PlaneSets(proposal.at, proposal.old, proposal.new)
        /\ torn' = (torn \/ ~ Unlocked \/ At(proposal.at) # proposal.old)
    BY Zenon DEF PlaneEditsLLDP, Overlaps
  <1>2. "bridge" # "lldp"
    OBVIOUS
  <1>3. /\ proposal.at \in LocalPorts /\ proposal.old \in Neighbor /\ proposal.new \in Neighbor
        /\ proposal.new = Absent \/ Complete(proposal.new)
    BY Zenon, <1>1, <1>2 DEF Proposed
  <1> QED BY Zenon, <1>1, <1>3 DEF PlaneSets, Merged

\* What the steps of a request do.
LEMMA TalkSteps ==
  ASSUME LLDPTyped, TalkStep
  PROVE  /\ talk # Idle /\ talk.port \in LocalPorts /\ UNCHANGED <<lldp, refresh>>
         /\ \/ /\ talk.step = "list" /\ neighbors' = neighbors
               /\ talk' = Going("delete", LeavesOf(At(talk.port)))
            \/ \E leaf \in talk.left :
                   \/ /\ talk.step = "set" /\ talk.ttl \in TTLs
                      /\ neighbors' = Stored(talk.port, Setting(At(talk.port), leaf, talk.ttl))
                      /\ talk' = Going("set", talk.left \ {leaf})
                   \/ /\ talk.step = "delete"
                      /\ neighbors' = Stored(talk.port, Deleting(At(talk.port), leaf))
                      /\ talk' = Going("delete", talk.left \ {leaf})
                   \/ /\ talk.step = "delete" /\ leaf \notin LeavesOf(At(talk.port))
                      /\ neighbors' = neighbors /\ talk' = Idle
  <1>1. \/ talk.step = "list" \/ talk.left # {}
    BY Zenon DEF TalkStep, ListLeaves
  <1>2. talk # Idle
    BY <1>1 DEF Idle
  <1>3. talk.port \in LocalPorts /\ (talk.step = "set" => talk.ttl \in TTLs)
    BY Zenon, <1>2 DEF LLDPTyped
  <1>4. UNCHANGED <<lldp, refresh>>
    BY Zenon DEF TalkStep, ListLeaves, SetLeaf, DeleteLeaf
  <1>5. CASE ListLeaves
    BY Zenon, <1>2, <1>3, <1>4, <1>5 DEF ListLeaves
  <1>6. ASSUME NEW leaf \in talk.left, SetLeaf(leaf)
        PROVE  /\ talk.step = "set" /\ talk.ttl \in TTLs
               /\ neighbors' = Stored(talk.port, Setting(At(talk.port), leaf, talk.ttl))
               /\ talk' = Going("set", talk.left \ {leaf})
    BY Zenon, <1>3, <1>6 DEF SetLeaf, Setting
  <1>7. ASSUME NEW leaf \in talk.left, DeleteLeaf(leaf)
        PROVE  \/ /\ talk.step = "delete"
                  /\ neighbors' = Stored(talk.port, Deleting(At(talk.port), leaf))
                  /\ talk' = Going("delete", talk.left \ {leaf})
               \/ /\ talk.step = "delete" /\ leaf \notin LeavesOf(At(talk.port))
                  /\ neighbors' = neighbors /\ talk' = Idle
    BY Zenon, <1>7 DEF DeleteLeaf, Deleting
  <1> QED BY Zenon, <1>2, <1>3, <1>4, <1>5, <1>6, <1>7 DEF TalkStep

\* The types of LLDP are kept.
LEMMA LLDPTypedSteps ==
  ASSUME LLDPTyped, Proposed, [L2Next]_l2Vars
  PROVE  LLDPTyped'
  <1>0. Idle \in Talks /\ Idle.step = "idle" /\ Idle.step # "set"
    <2>1. Idle \in Talks /\ Idle.step = "idle"
      BY Zenon DEF Idle, Talks
    <2> QED BY <2>1
  <1>1. ASSUME NEW p \in LocalPorts, NEW n \in Neighbor, neighbors' = Stored(p, n)
        PROVE  Present' \subseteq LocalPorts /\ \A q \in Present' : neighbors'[q] \in Neighbor \ {Absent}
    <2>1. /\ \A q : q # p => (q \in Present' <=> q \in Present)
          /\ \A q \in Present : q # p => neighbors'[q] = neighbors[q]
          /\ p \in Present' <=> n # Absent
          /\ p \in Present' => neighbors'[p] = n
      BY Zenon, <1>1, StoredAt
    <2> QED BY Zenon, <1>1, <2>1 DEF LLDPTyped
  <1>2. ASSUME neighbors' = neighbors
        PROVE  Present' \subseteq LocalPorts /\ \A q \in Present' : neighbors'[q] \in Neighbor \ {Absent}
    BY Zenon, <1>2 DEF LLDPTyped, Present
  <1>3. UNCHANGED <<lldp, refresh>> =>
            /\ lldp' \in [enabled : BOOLEAN, ttl : TTLs]
            /\ refresh' \in [ttl : TTLs, left : SUBSET LocalPorts]
    BY Zenon DEF LLDPTyped
  <1>4. UNCHANGED talk \/ talk' = Idle =>
            /\ talk' \in Talks
            /\ talk' # Idle => talk'.port \in LocalPorts /\ talk'.step # "idle"
            /\ talk'.step = "set" => talk'.ttl \in TTLs
    BY Zenon, <1>0 DEF LLDPTyped
  <1>5. CASE NeighborRequests
    <2>1. UNCHANGED <<lldp, refresh, neighbors>>
      BY Zenon, <1>5 DEF NeighborRequests, RemoveNeighbor, SetNeighbor, NeighborRequest
    <2>2. PICK p \in LocalPorts :
              \/ talk' = [step |-> "list", port |-> p, ttl |-> 0, left |-> {}]
              \/ \E ttl \in TTLs : talk' = [step |-> "set", port |-> p, ttl |-> ttl, left |-> AllLeaves]
      BY Zenon, <1>5 DEF NeighborRequests, RemoveNeighbor, SetNeighbor, AllLeaves
    <2>3. /\ talk' \in Talks /\ talk'.port \in LocalPorts /\ talk'.step # "idle"
          /\ talk'.step = "set" => talk'.ttl \in TTLs
      BY <2>2 DEF Talks
    <2> QED BY Zenon, <1>2, <1>3, <2>1, <2>3 DEF LLDPTyped
  <1>6. CASE NeighborWorks
    <2>1. TalkStep
      BY Zenon, <1>6 DEF NeighborWorks
    <2>2. talk # Idle /\ talk.port \in LocalPorts /\ UNCHANGED <<lldp, refresh>>
      BY Zenon, <2>1, TalkSteps
    <2>3. PICK p, now, left : p = talk.port /\ now = At(talk.port) /\ left = talk.left
      BY Zenon
    <2>4. now \in Neighbor /\ left \subseteq AllLeaves /\ p \in LocalPorts
      <3>1. talk.left \subseteq AllLeaves
        BY DEF LLDPTyped, Talks
      <3> QED BY Zenon, <2>2, <2>3, <3>1, AtType
    <2>5. CASE talk.step = "list" /\ neighbors' = neighbors /\ talk' = Going("delete", LeavesOf(now))
      <3>1. LeavesOf(now) \in SUBSET AllLeaves /\ "delete" # "set"
        BY <2>4, LeafType
      <3>2. /\ talk' \in Talks
            /\ talk' # Idle => talk'.port \in LocalPorts /\ talk'.step # "idle"
            /\ talk'.step = "set" => talk'.ttl \in TTLs
        BY Zenon, <2>2, <2>5, <3>1, GoingType
      <3> QED BY Zenon, <1>2, <1>3, <2>2, <2>5, <3>2 DEF LLDPTyped
    <2>6. ASSUME NEW leaf \in left, talk.step = "set", talk.ttl \in TTLs,
                 neighbors' = Stored(p, Setting(now, leaf, talk.ttl)),
                 talk' = Going("set", left \ {leaf})
          PROVE  LLDPTyped'
      <3>1. Setting(now, leaf, talk.ttl) \in Neighbor /\ left \ {leaf} \in SUBSET AllLeaves
        BY Zenon, <2>4, <2>6, LeafSet
      <3>2. /\ talk' \in Talks
            /\ talk' # Idle => talk'.port \in LocalPorts /\ talk'.step # "idle"
            /\ talk'.step = "set" => talk'.ttl \in TTLs
        BY Zenon, <2>2, <2>6, <3>1, GoingType
      <3>3. Present' \subseteq LocalPorts /\ \A q \in Present' : neighbors'[q] \in Neighbor \ {Absent}
        BY Zenon, <1>1, <2>4, <2>6, <3>1
      <3> QED BY Zenon, <1>3, <2>2, <3>2, <3>3 DEF LLDPTyped
    <2>7. ASSUME NEW leaf \in left, neighbors' = Stored(p, Deleting(now, leaf)),
                 talk' = Going("delete", left \ {leaf})
          PROVE  LLDPTyped'
      <3>1. Deleting(now, leaf) \in Neighbor /\ left \ {leaf} \in SUBSET AllLeaves
        BY Zenon, <2>4, <2>7, LeafDeleted
      <3>2. "delete" # "set"
        OBVIOUS
      <3>3. /\ talk' \in Talks
            /\ talk' # Idle => talk'.port \in LocalPorts /\ talk'.step # "idle"
            /\ talk'.step = "set" => talk'.ttl \in TTLs
        BY Zenon, <2>2, <2>7, <3>1, <3>2, GoingType
      <3>4. Present' \subseteq LocalPorts /\ \A q \in Present' : neighbors'[q] \in Neighbor \ {Absent}
        BY Zenon, <1>1, <2>4, <2>7, <3>1
      <3> QED BY Zenon, <1>3, <2>2, <3>3, <3>4 DEF LLDPTyped
    <2>8. CASE neighbors' = neighbors /\ talk' = Idle
      BY Zenon, <1>2, <1>3, <1>4, <2>2, <2>8 DEF LLDPTyped
    <2> QED BY Zenon, <2>1, <2>3, <2>5, <2>6, <2>7, <2>8, TalkSteps
  <1>7. CASE NeighborCutOff
    BY Zenon, <1>2, <1>3, <1>4, <1>7 DEF NeighborCutOff, TalkCutOff, LLDPTyped
  <1>8. CASE TickLLDP
    <2>1. /\ UNCHANGED <<lldp, neighbors, talk>>
          /\ refresh' = [ttl |-> lldp.ttl, left |-> {p \in Present : lldp.enabled /\ NeedsRefresh(p)}]
      BY Zenon, <1>8 DEF TickLLDP, refreshLLDP
    <2>2. refresh' \in [ttl : TTLs, left : SUBSET LocalPorts] /\ lldp' \in [enabled : BOOLEAN, ttl : TTLs]
      BY Zenon, <2>1 DEF LLDPTyped
    <2> QED BY Zenon, <1>2, <1>4, <2>1, <2>2 DEF LLDPTyped
  <1>9. CASE TickRefresh
    <2>1. PICK p \in LocalPorts : RefreshNeighbor(p)
      BY Zenon, <1>9 DEF TickRefresh
    <2>2. [At(p) EXCEPT !.ttl = refresh.ttl] \in Neighbor
      <3>1. At(p) \in Neighbor /\ refresh.ttl \in TTLs \cup {0}
        BY Zenon, AtType DEF LLDPTyped
      <3> QED BY Zenon, <3>1 DEF Neighbor
    <2>3. /\ UNCHANGED <<lldp, talk>> /\ refresh' \in [ttl : TTLs, left : SUBSET LocalPorts]
          /\ lldp' \in [enabled : BOOLEAN, ttl : TTLs]
      BY Zenon, <2>1 DEF RefreshNeighbor, LLDPTyped
    <2>4. Present' \subseteq LocalPorts /\ \A q \in Present' : neighbors'[q] \in Neighbor \ {Absent}
      BY Zenon, <1>1, <2>1, <2>2 DEF RefreshNeighbor
    <2> QED BY Zenon, <1>4, <2>3, <2>4 DEF LLDPTyped
  <1>10. CASE PlaneEditsLLDP
    <2>1. /\ proposal.at \in LocalPorts /\ proposal.old \in Neighbor /\ proposal.new \in Neighbor
          /\ neighbors' = Stored(proposal.at, Merged(At(proposal.at), proposal.old, proposal.new))
          /\ UNCHANGED <<lldp, talk, refresh>>
      BY Zenon, <1>10, PlaneMerges
    <2>2. Merged(At(proposal.at), proposal.old, proposal.new) \in Neighbor
      BY Zenon, <2>1, AtType, MergedType
    <2>3. PICK p, n : p = proposal.at /\ n = Merged(At(proposal.at), proposal.old, proposal.new)
      BY Zenon
    <2>4. Present' \subseteq LocalPorts /\ \A q \in Present' : neighbors'[q] \in Neighbor \ {Absent}
      BY Zenon, <1>1, <2>1, <2>2, <2>3
    <2> QED BY Zenon, <1>3, <1>4, <2>1, <2>4 DEF LLDPTyped
  <1>11. CASE PlaneConfiguresLLDP
    <2>1. PICK on \in BOOLEAN, ttl \in TTLs : PlaneConfigures(on, ttl)
      BY Zenon, <1>11 DEF PlaneConfiguresLLDP
    <2>2. UNCHANGED <<neighbors, talk, refresh>> /\ lldp' = [enabled |-> on, ttl |-> ttl]
      BY Zenon, <2>1 DEF PlaneConfigures
    <2>3. lldp' \in [enabled : BOOLEAN, ttl : TTLs] /\ refresh' \in [ttl : TTLs, left : SUBSET LocalPorts]
      BY Zenon, <2>2 DEF LLDPTyped
    <2> QED BY Zenon, <1>2, <1>4, <2>2, <2>3 DEF LLDPTyped
  <1>12. CASE UNCHANGED lldpVars
    BY Zenon, <1>2, <1>3, <1>4, <1>12 DEF lldpVars, LLDPTyped
  <1> QED BY Zenon, <1>5, <1>6, <1>7, <1>8, <1>9, <1>10, <1>11, <1>12, Owners
-----------------------------------------------------------------------------
(***************************************************************************)
(* Validity.  What a request, a sweep, a link event or a refresh has read  *)
(* is still what is there, unless a plane came in between.                 *)
(***************************************************************************)
TableSound == torn \/ TableFits

TreeSound == torn \/ StatesFit

NeighborsFit ==
    /\ \A p \in Present : Complete(neighbors[p]) \/ (talk # Idle /\ talk.port = p)
    /\ refresh.left \subseteq Present
    /\ talk.step = "set" => AllLeaves \ talk.left \subseteq LeavesOf(At(talk.port))
    /\ talk.step = "delete" => talk.left = LeavesOf(At(talk.port))

LLDPSound == torn \/ NeighborsFit

\* The ports stay in states of the protocol, unless it is edited inside a job.
LEMMA TreeSoundSteps ==
  ASSUME TreeInv, TreeSound, [L2Next]_l2Vars
  PROVE  TreeSound'
  <1> SUFFICES ASSUME ~ torn' PROVE StatesFit'
    BY DEF TreeSound
  <1>1. ~ torn /\ StatesFit
    BY Zenon, TornStays DEF TreeSound
  <1>2. [STP!Next]_(STP!vars)
    BY Zenon, TreeSteps
  <1>3. job = None \/ UNCHANGED protocol
    <2>1. UNCHANGED stpVars => UNCHANGED protocol
      BY DEF stpVars
    <2>2. LinkEvent \/ TickSTP \/ STPWrites \/ LinkEventFails \/ DelayPasses => UNCHANGED protocol
      BY Zenon DEF LinkEvent, STP!LinkDown, STP!LinkUp, STP!BPDU, STP!elect, STP!Handle, TickSTP,
             STP!advanceSTP, STPWrites, STP!Write, STP!WriteRoot, STP!SkipPort, STP!WriteRole,
             STP!WriteState, LinkEventFails, STP!HandleFails, DelayPasses, STP!DelayElapses,
             STP!confVars
    <2>3. PlaneEditsSTP => job = None
      BY Zenon, <1>1 DEF PlaneEditsSTP, Unlocked
    <2>4. BridgeRequest \/ BridgeWorks \/ BridgeCutOff \/ TickAge \/ TimePasses \/ PlaneEditsBridge
              => UNCHANGED stpVars
      BY Zenon DEF BridgeRequest, BridgeWorks, BridgeCutOff, TickAge, TimePasses, PlaneEditsBridge,
                   OnlyBridge
    <2>5. NeighborRequests \/ NeighborWorks \/ NeighborCutOff \/ TickLLDP \/ TickRefresh
              \/ PlaneEditsLLDP \/ PlaneConfiguresLLDP => UNCHANGED stpVars
      BY Zenon DEF NeighborRequests, NeighborWorks, NeighborCutOff, TickLLDP, TickRefresh,
                   PlaneEditsLLDP, PlaneConfiguresLLDP, OnlyLLDP
    <2>6. PlaneProposes => UNCHANGED stpVars
      BY Zenon DEF PlaneProposes, Propose
    <2>7. UNCHANGED l2Vars => UNCHANGED stpVars
      BY Zenon DEF l2Vars
    <2> QED BY Zenon, <2>1, <2>2, <2>3, <2>4, <2>5, <2>6, <2>7
               DEF L2Next, DomainTick, Works, PlaneWritesEdit
  <1> QED BY Zenon, <1>1, <1>2, <1>3, StatesNext

\* A neighbour that is stored whole, or gone, while no request is under way.
LEMMA StoredFits ==
  ASSUME NeighborsFit, talk = Idle, talk' = Idle, NEW p, NEW n, neighbors' = Stored(p, n),
         n = Absent \/ Complete(n), refresh'.left \subseteq Present \ {p} \/
         (refresh'.left \subseteq Present /\ n # Absent)
  PROVE  NeighborsFit'
  <1>1. /\ \A q : q # p => (q \in Present' <=> q \in Present)
        /\ \A q \in Present : q # p => neighbors'[q] = neighbors[q]
        /\ p \in Present' <=> n # Absent
        /\ p \in Present' => neighbors'[p] = n
    BY Zenon, StoredAt
  <1>2. \A q \in Present : Complete(neighbors[q])
    BY Zenon DEF NeighborsFit
  <1>3. \A q \in Present' : Complete(neighbors'[q])
    BY Zenon, <1>1, <1>2
  <1>4. refresh'.left \subseteq Present'
    BY Zenon, <1>1
  <1>5. talk'.step # "set" /\ talk'.step # "delete"
    BY DEF Idle
  <1> QED BY Zenon, <1>3, <1>4, <1>5 DEF NeighborsFit

\* A leaf of a request: the neighbour that is left alone with no leaf left is
\* complete or gone.
LEMMA TalkFits ==
  ASSUME LLDPTyped, NeighborsFit, TalkStep, refresh.left = {}
  PROVE  NeighborsFit'
  <1>1. talk # Idle /\ talk.port \in LocalPorts /\ UNCHANGED <<lldp, refresh>>
    BY Zenon, TalkSteps
  <1>2. PICK p, now, left : p = talk.port /\ now = At(talk.port) /\ left = talk.left
    BY Zenon
  <1>3. now \in Neighbor /\ left \subseteq AllLeaves
    <2>1. talk.left \subseteq AllLeaves
      BY DEF LLDPTyped, Talks
    <2> QED BY Zenon, <1>2, <2>1, AtType
  <1>4. refresh'.left = {}
    BY Zenon, <1>1
  <1>5. \A q \in Present \ {p} : Complete(neighbors[q])
    BY Zenon, <1>2 DEF NeighborsFit
  <1>6. "set" # "delete" /\ "idle" # "set" /\ "idle" # "delete"
    OBVIOUS
  <1>7. CASE talk.step = "list" /\ neighbors' = neighbors /\ talk' = Going("delete", LeavesOf(now))
    <2>1. LeavesOf(now) \in SUBSET AllLeaves
      BY <1>3, LeafType
    <2>2. /\ LeavesOf(now) = {} => talk' = Idle /\ talk'.step = "idle"
          /\ LeavesOf(now) # {} => talk' # Idle /\ talk'.port = talk.port /\ talk'.step = "delete"
                                   /\ talk'.left = LeavesOf(now)
      BY Zenon, <1>1, <1>6, <1>7, <2>1, GoingType
    <2>3. Present' = Present /\ At(p)' = At(p)
      BY Zenon, <1>7 DEF Present, At
    <2>4. CASE LeavesOf(now) = {}
      <3>1. now = Absent
        BY Zenon, <1>3, <2>4, LeafType
      <3>2. p \notin Present
        BY Zenon, <1>2, <3>1, AtType DEF LLDPTyped
      <3> QED BY Zenon, <1>4, <1>5, <1>6, <1>7, <2>2, <2>3, <2>4, <3>2 DEF NeighborsFit
    <2>5. CASE LeavesOf(now) # {}
      BY Zenon, <1>2, <1>4, <1>5, <1>6, <1>7, <2>2, <2>3, <2>5 DEF NeighborsFit
    <2> QED BY Zenon, <2>4, <2>5
  <1>8. ASSUME NEW leaf \in left, talk.step = "set", talk.ttl \in TTLs,
               neighbors' = Stored(p, Setting(now, leaf, talk.ttl)),
               talk' = Going("set", left \ {leaf})
        PROVE  NeighborsFit'
    <2>1. PICK n : n = Setting(now, leaf, talk.ttl)
      BY Zenon
    <2>2. n \in Neighbor /\ LeavesOf(now) \cup {leaf} \subseteq LeavesOf(n)
      BY Zenon, <1>3, <1>8, <2>1, LeafSet
    <2>3. AllLeaves \ (left \ {leaf}) \subseteq LeavesOf(n)
      <3>1. AllLeaves \ left \subseteq LeavesOf(now)
        BY Zenon, <1>2, <1>8 DEF NeighborsFit
      <3> QED BY Zenon, <2>2, <3>1
    <2>4. PICK rest : rest = left \ {leaf}
      BY Zenon
    <2>5. rest \in SUBSET AllLeaves /\ talk' = Going("set", rest)
      BY Zenon, <1>3, <1>8, <2>4
    <2>6. /\ rest = {} => talk' = Idle /\ talk'.step = "idle"
          /\ rest # {} => talk' # Idle /\ talk'.port = talk.port /\ talk'.step = "set"
                          /\ talk'.left = rest
      BY Zenon, <1>1, <1>8, <2>5, GoingType
    <2>7. /\ \A q : q # p => (q \in Present' <=> q \in Present)
          /\ \A q \in Present : q # p => neighbors'[q] = neighbors[q]
          /\ p \in Present' => neighbors'[p] = n
          /\ At(p)' = n
      BY Zenon, <1>8, <2>1, StoredAt
    <2>8. \A q \in Present' : q # p => Complete(neighbors'[q])
      BY Zenon, <1>5, <2>7
    <2>9. CASE rest = {}
      <3>1. AllLeaves \subseteq LeavesOf(n)
        BY Zenon, <2>3, <2>4, <2>9
      <3>2. Complete(n)
        BY Zenon, <2>2, <3>1, LeafType
      <3>3. \A q \in Present' : Complete(neighbors'[q])
        BY Zenon, <2>7, <2>8, <3>2
      <3> QED BY Zenon, <1>4, <1>6, <2>6, <2>9, <3>3 DEF NeighborsFit
    <2>10. CASE rest # {}
      <3>1. AllLeaves \ talk'.left \subseteq LeavesOf(At(talk.port)')
        BY Zenon, <1>2, <2>3, <2>4, <2>6, <2>7, <2>10
      <3> QED BY Zenon, <1>2, <1>4, <1>6, <2>6, <2>8, <2>10, <3>1 DEF NeighborsFit
    <2> QED BY Zenon, <2>9, <2>10
  <1>9. ASSUME NEW leaf \in left, talk.step = "delete", neighbors' = Stored(p, Deleting(now, leaf)),
               talk' = Going("delete", left \ {leaf})
        PROVE  NeighborsFit'
    <2>1. PICK n : n = Deleting(now, leaf)
      BY Zenon
    <2>2. n \in Neighbor /\ LeavesOf(n) = LeavesOf(now) \ {leaf}
      BY Zenon, <1>3, <2>1, LeafDeleted
    <2>3. left = LeavesOf(now)
      BY Zenon, <1>2, <1>9 DEF NeighborsFit
    <2>4. PICK rest : rest = left \ {leaf}
      BY Zenon
    <2>5. rest \in SUBSET AllLeaves /\ talk' = Going("delete", rest) /\ rest = LeavesOf(n)
      BY Zenon, <1>3, <1>9, <2>2, <2>3, <2>4
    <2>6. /\ rest = {} => talk' = Idle /\ talk'.step = "idle"
          /\ rest # {} => talk' # Idle /\ talk'.port = talk.port /\ talk'.step = "delete"
                          /\ talk'.left = rest
      BY Zenon, <1>1, <1>6, <2>5, GoingType
    <2>7. /\ \A q : q # p => (q \in Present' <=> q \in Present)
          /\ \A q \in Present : q # p => neighbors'[q] = neighbors[q]
          /\ p \in Present' <=> n # Absent
          /\ At(p)' = n
      BY Zenon, <1>9, <2>1, StoredAt
    <2>8. \A q \in Present' : q # p => Complete(neighbors'[q])
      BY Zenon, <1>5, <2>7
    <2>9. CASE rest = {}
      <3>1. n = Absent
        BY Zenon, <2>2, <2>5, <2>9, LeafType
      <3>2. \A q \in Present' : Complete(neighbors'[q])
        BY Zenon, <2>7, <2>8, <3>1
      <3> QED BY Zenon, <1>4, <1>6, <2>6, <2>9, <3>2 DEF NeighborsFit
    <2>10. CASE rest # {}
      <3>1. talk'.left = LeavesOf(At(talk.port)')
        BY Zenon, <1>2, <2>5, <2>6, <2>7, <2>10
      <3> QED BY Zenon, <1>2, <1>4, <1>6, <2>6, <2>8, <2>10, <3>1 DEF NeighborsFit
    <2> QED BY Zenon, <2>9, <2>10
  <1>10. ASSUME NEW leaf \in left, talk.step = "delete", leaf \notin LeavesOf(now)
         PROVE  FALSE
    BY Zenon, <1>2, <1>10 DEF NeighborsFit
  <1> QED BY Zenon, <1>2, <1>7, <1>8, <1>9, <1>10, TalkSteps

\* The neighbours stay complete, and a refresh writes to neighbours that are there.
LEMMA LLDPSoundSteps ==
  ASSUME LLDPTyped, Proposed, Locked, LLDPSound, [L2Next]_l2Vars
  PROVE  LLDPSound'
  <1> SUFFICES ASSUME ~ torn' PROVE NeighborsFit'
    BY Zenon DEF LLDPSound
  <1>1. ~ torn /\ NeighborsFit
    BY Zenon, TornStays DEF LLDPSound
  <1>2. None # "lldp" /\ None # "age" /\ None # "stp"
    BY Zenon, L2Assumption
  <1>3. tick = None => refresh.left = {}
    BY Zenon, <1>2 DEF Locked
  <1>4. Idle.step = "idle" /\ Idle.step # "set" /\ Idle.step # "delete"
    BY DEF Idle
  <1>5. CASE NeighborRequests
    <2>1. /\ talk = Idle /\ UNCHANGED <<neighbors, refresh>> /\ refresh.left = {}
      BY Zenon, <1>3, <1>5 DEF NeighborRequests, Unlocked, RemoveNeighbor, SetNeighbor, NeighborRequest
    <2>2. PICK p \in LocalPorts :
              \/ talk' = [step |-> "list", port |-> p, ttl |-> 0, left |-> {}]
              \/ \E ttl \in TTLs : talk' = [step |-> "set", port |-> p, ttl |-> ttl, left |-> AllLeaves]
      BY Zenon, <1>5 DEF NeighborRequests, RemoveNeighbor, SetNeighbor, AllLeaves
    <2>3. talk'.step # "delete" /\ (talk'.step = "set" => talk'.left = AllLeaves)
      BY <2>2
    <2>4. Present' = Present
      BY Zenon, <2>1 DEF Present
    <2>5. AllLeaves \ AllLeaves = {}
      BY Zenon
    <2>6. talk'.step = "set" => AllLeaves \ talk'.left \subseteq LeavesOf(At(talk.port)')
      BY Zenon, <2>3, <2>5
    <2> QED BY Zenon, <1>1, <2>1, <2>3, <2>4, <2>6 DEF NeighborsFit
  <1>6. CASE NeighborWorks
    <2>1. TalkStep
      BY Zenon, <1>6 DEF NeighborWorks
    <2>2. talk # Idle
      BY Zenon, <2>1, TalkSteps
    <2> QED BY Zenon, <1>1, <1>3, <2>1, <2>2, TalkFits DEF Locked
  <1>7. ~ NeighborCutOff
    BY Zenon DEF NeighborCutOff
  <1>8. CASE TickLLDP
    <2>1. UNCHANGED <<neighbors, talk>> /\ refresh'.left \subseteq Present /\ tick # None
      BY Zenon, <1>2, <1>8 DEF TickLLDP, refreshLLDP
    <2>2. Present' = Present /\ At(talk.port)' = At(talk.port)
      BY Zenon, <2>1 DEF Present, At
    <2> QED BY Zenon, <1>1, <2>1, <2>2 DEF NeighborsFit
  <1>9. CASE TickRefresh
    <2>1. tick # None /\ \E p \in LocalPorts : RefreshNeighbor(p)
      BY Zenon, <1>2, <1>9 DEF TickRefresh
    <2>2. PICK p \in LocalPorts : RefreshNeighbor(p)
      BY Zenon, <2>1
    <2>3. PICK n : n = [At(p) EXCEPT !.ttl = refresh.ttl]
      BY Zenon
    <2>4. talk = Idle
      BY Zenon, <2>1 DEF Locked
    <2>5. p \in refresh.left /\ neighbors' = Stored(p, n) /\ talk' = talk
      BY Zenon, <2>2, <2>3 DEF RefreshNeighbor
    <2>6. refresh'.left \subseteq refresh.left
      BY Zenon, <2>2 DEF RefreshNeighbor, LLDPTyped
    <2>7. At(p) \in Neighbor /\ Complete(At(p))
      BY Zenon, <1>1, <2>4, <2>5, AtType DEF NeighborsFit
    <2>8. refresh.ttl # 0
      BY Zenon, LLDPAssumption DEF LLDPTyped
    <2>9. n.ttl = refresh.ttl /\ n.leaves = At(p).leaves
      BY Zenon, <2>3, <2>7 DEF Neighbor
    <2>10. Complete(n) /\ n # Absent
      <3>1. Absent.ttl = 0
        BY DEF Absent
      <3> QED BY Zenon, <2>7, <2>8, <2>9, <3>1 DEF Complete
    <2>11. refresh'.left \subseteq Present
      BY Zenon, <1>1, <2>6 DEF NeighborsFit
    <2>12. talk' = Idle
      BY Zenon, <2>4, <2>5
    <2> QED BY Zenon, <1>1, <2>4, <2>5, <2>10, <2>11, <2>12, StoredFits
  <1>10. CASE PlaneEditsLLDP
    <2>1. PICK p, now, old, new : /\ p = proposal.at /\ now = At(proposal.at)
                                  /\ old = proposal.old /\ new = proposal.new
      BY Zenon
    <2>2. /\ old \in Neighbor /\ new \in Neighbor /\ (new = Absent \/ Complete(new))
          /\ neighbors' = Stored(p, Merged(now, old, new))
          /\ UNCHANGED <<talk, refresh>> /\ Unlocked /\ now = old
      BY Zenon, <1>10, <2>1, PlaneMerges
    <2>3. Merged(now, old, new) = new
      BY Zenon, <2>2, MergedType
    <2>4. neighbors' = Stored(p, new) /\ talk = Idle /\ talk' = Idle /\ refresh.left = {}
      BY Zenon, <1>3, <2>2, <2>3 DEF Unlocked
    <2>5. refresh'.left \subseteq Present \ {p}
      BY Zenon, <2>2, <2>4
    <2> QED BY Zenon, <1>1, <2>2, <2>4, <2>5, StoredFits
  <1>11. CASE PlaneConfiguresLLDP \/ UNCHANGED lldpVars
    <2>1. UNCHANGED <<neighbors, talk, refresh>>
      BY Zenon, <1>11 DEF PlaneConfiguresLLDP, PlaneConfigures, lldpVars
    <2>2. Present' = Present /\ At(talk.port)' = At(talk.port)
      BY Zenon, <2>1 DEF Present, At
    <2> QED BY Zenon, <1>1, <2>1, <2>2 DEF NeighborsFit
  <1> QED BY Zenon, <1>5, <1>6, <1>7, <1>8, <1>9, <1>10, <1>11, Owners

\* The table stays sound.
LEMMA TableSoundSteps ==
  ASSUME BridgeInv, Quiet, Proposed, TableSound, [L2Next]_l2Vars
  PROVE  TableSound'
  <1> SUFFICES ASSUME ~ torn' PROVE TableFits'
    BY Zenon DEF TableSound
  <1>1. ~ torn /\ TableFits
    BY Zenon, TornStays DEF TableSound
  <1>2. CASE BridgeRequest
    BY Zenon, <1>1, <1>2, RequestsFit DEF BridgeRequest
  <1>3. CASE BridgeWorks
    BY Zenon, <1>1, <1>3, WorkFits DEF BridgeWorks
  <1>4. CASE BridgeCutOff
    BY Zenon, <1>1, <1>4, CutFits DEF BridgeCutOff
  <1>5. CASE TickAge
    BY Zenon, <1>1, <1>5, AgeFits DEF TickAge
  <1>6. CASE TimePasses
    <2>1. UNCHANGED <<table, count, work>>
      BY Zenon, <1>6 DEF TimePasses, Elapse, tableVars
    <2> QED BY Zenon, <1>1, <2>1, SameFits
  <1>7. CASE PlaneEditsBridge
    <2>1. PICK m, old, new : m = proposal.at /\ old = proposal.old /\ new = proposal.new
      BY Zenon
    <2>2. /\ proposal # None /\ proposal.part = "bridge" /\ PlaneApplies(m, old, new)
          /\ ~ (Cardinality(Known') > MaxEntries) /\ Unlocked /\ Found(m) = old
      BY Zenon, <1>7, <2>1 DEF PlaneEditsBridge, Overlaps, Known
    <2>3. "bridge" # "lldp"
      OBVIOUS
    <2>4. /\ m \in Stations /\ old \in Entry /\ new \in Entry
          /\ new = Zero \/ ValidEntry(new)
      BY Zenon, <2>1, <2>2, <2>3 DEF Proposed
    <2>5. work = None
      BY Zenon, <2>2 DEF Unlocked
    <2>6. Cardinality(Known') <= MaxEntries
      <3>1. IsFiniteSet((Known \cup Coming)')
        BY Zenon, BridgeSteps DEF BridgeInv, Accounted
      <3>2. IsFiniteSet(Known')
        BY Zenon, <3>1, FS_Subset
      <3>3. Cardinality(Known') \in Nat /\ MaxEntries \in Nat
        BY Zenon, <3>2, FS_CardinalityType, BridgeAssumption
      <3> QED BY <2>2, <3>3
    <2> QED BY Zenon, <1>1, <2>2, <2>4, <2>5, <2>6, PlaneFits
  <1>8. CASE UNCHANGED vars
    <2>1. UNCHANGED <<table, count, work>>
      BY Zenon, <1>8 DEF vars, tableVars
    <2> QED BY Zenon, <1>1, <2>1, SameFits
  <1> QED BY Zenon, <1>2, <1>3, <1>4, <1>5, <1>6, <1>7, <1>8, Owners
-----------------------------------------------------------------------------
\* The invariant of the domain: its parts, the lock that keeps them apart, and
\* that what was validated is still there to be written.
DomainInv ==
    /\ BridgeInv /\ Quiet /\ Proposed
    /\ TreeInv
    /\ LLDPTyped
    /\ Locked
    /\ TableSound /\ TreeSound /\ LLDPSound

\* The seed device and a startup file give a valid device.
LEMMA DomainStarts == L2Init => DomainInv
  <1> SUFFICES ASSUME L2Init PROVE DomainInv
    OBVIOUS
  <1>1. BridgeInv /\ TreeInv /\ StatesFit /\ TableFits
    BY BridgeStarts, TreeStarts, TreeInit, StatesInit, FitStarts DEF L2Init
  <1>2. proposal = None /\ work = None /\ (focus # "bridge" => Known = {})
    BY Zenon DEF L2Init, Init
  <1>3. /\ lldp = [enabled |-> TRUE, ttl |-> CHOOSE ttl \in TTLs : TRUE]
        /\ neighbors = [p \in {} |-> Absent] /\ talk = Idle
        /\ refresh = [ttl |-> lldp.ttl, left |-> {}]
    BY Zenon DEF L2Init, LLDPInit
  <1>4. (CHOOSE ttl \in TTLs : TRUE) \in TTLs
    BY Zenon, LLDPAssumption
  <1>5. Idle \in Talks /\ Idle.step # "set" /\ Idle.step # "delete"
    <2>1. Idle \in Talks /\ Idle.step = "idle"
      BY Zenon DEF Idle, Talks
    <2> QED BY <2>1
  <1>6. Present = {}
    BY Zenon, <1>3 DEF Present
  <1>7. lldp \in [enabled : BOOLEAN, ttl : TTLs] /\ lldp.ttl \in TTLs
    BY Zenon, <1>3, <1>4
  <1>8. refresh \in [ttl : TTLs, left : SUBSET LocalPorts] /\ refresh.left = {}
    BY Zenon, <1>3, <1>7
  <1>9. LLDPTyped
    BY Zenon, <1>3, <1>5, <1>6, <1>7, <1>8 DEF LLDPTyped
  <1>10. NeighborsFit
    BY Zenon, <1>3, <1>5, <1>6, <1>8 DEF NeighborsFit
  <1>11. Quiet /\ Proposed /\ Locked
    BY Zenon, <1>2, <1>3, <1>8 DEF Quiet, Proposed, Locked
  <1> QED BY Zenon, <1>1, <1>9, <1>10, <1>11 DEF DomainInv, TableSound, TreeSound, LLDPSound

\* Every step of the domain preserves it.
LEMMA DomainSteps == DomainInv /\ [L2Next]_l2Vars => DomainInv'
  <1> SUFFICES ASSUME DomainInv, [L2Next]_l2Vars PROVE DomainInv'
    OBVIOUS
  <1>1. BridgeInv' /\ Quiet' /\ Proposed'
    BY Zenon, BridgeSteps, QuietSteps, ProposedSteps, AtType DEF DomainInv
  <1>2. TreeInv'
    BY Zenon, TreeSteps, TreeNext DEF DomainInv
  <1>3. LLDPTyped' /\ Locked'
    BY Zenon, LLDPTypedSteps, LockSteps DEF DomainInv
  <1>4. TableSound' /\ TreeSound' /\ LLDPSound'
    BY Zenon, TableSoundSteps, TreeSoundSteps, LLDPSoundSteps DEF DomainInv
  <1> QED BY Zenon, <1>1, <1>2, <1>3, <1>4 DEF DomainInv

LEMMA DomainInvariant == L2Spec => []DomainInv
  BY DomainStarts, DomainSteps, PTL DEF L2Spec

(***************************************************************************)
(* No mix of requests, link events, ticks and edits leaves a device that   *)
(* validation refuses, but for the entry and the neighbour whose leaves    *)
(* are being written, unless one of the things that torn names happened:   *)
(* for any number of stations, ports and neighbours, any limit on the MAC  *)
(* table and any interleaving of leaves, edits and the parts of a tick.    *)
(***************************************************************************)
THEOREM DeviceStaysValid == L2Spec => []ValidUnlessTorn
  <1>1. ASSUME TableFits PROVE TableValid(Without(table, Busy))
    <2>1. count <= MaxEntries
      BY Zenon, <1>1 DEF TableFits
    <2>2. ASSUME NEW m \in DOMAIN Without(table, Busy)
          PROVE  ValidEntry(Without(table, Busy)[m])
      <3>1. m \in Known /\ m \notin Busy /\ Without(table, Busy)[m] = table[m]
        BY Zenon DEF Without, Known
      <3>2. ~ (work # None /\ work.at = m)
        BY Zenon, <3>1 DEF Busy
      <3> QED BY Zenon, <1>1, <3>1, <3>2 DEF TableFits
    <2> QED BY Zenon, <2>1, <2>2 DEF TableValid
  <1>2. StatesFit => STPValid
    BY Zenon DEF StatesFit, STPValid
  <1>3. NeighborsFit => \A p \in Present \ Talking : Complete(neighbors[p])
    BY Zenon DEF NeighborsFit, Talking
  <1>4. DomainInv => ValidUnlessTorn
    BY Zenon, <1>1, <1>2, <1>3 DEF DomainInv, ValidUnlessTorn, TableSound, TreeSound, LLDPSound
  <1> QED BY <1>4, DomainInvariant, PTL
-----------------------------------------------------------------------------
\* The bridge keeps its invariant in the domain.
LEMMA BridgeInvariant == L2Spec => []BridgeInv
  <1>1. DomainInv => BridgeInv
    BY Zenon DEF DomainInv
  <1> QED BY <1>1, DomainInvariant, PTL

(***************************************************************************)
(* The MAC table holds no more entries than max-entries and what planes    *)
(* created, and current-count is right unless the table is known to be     *)
(* uncounted or an operation is under way, for any number of stations and  *)
(* any limit: the entries that learn, SetStatic, Transmit and the sweep    *)
(* write after planes changed the table, and what requests that were cut   *)
(* off leave behind, are included.                                         *)
(***************************************************************************)
THEOREM TableStaysAccounted == L2Spec => []TableAccounted
  <1>1. BridgeInv => TableAccounted
    BY Zenon, InvAccounts
  <1> QED BY <1>1, BridgeInvariant, PTL

(***************************************************************************)
(* The sweep expires no entry earlier than the lead it had when its aging  *)
(* started, for every aging time, tick interval and clock, and whatever    *)
(* requests and planes do around and inside the sweeps.                    *)
(***************************************************************************)
THEOREM SweepsExpireNotEarly == L2Spec => ExpiresNotEarly
  <1> DEFINE Early == \E m \in Known : /\ TakeEntry(m) /\ work.op = "age" /\ work.todo[m] = Zero
                                       /\ ~ (AgingTime * Second <= seen[m] + lead[m])
  <1>1. BridgeInv => ~ Early
    BY Zenon, InvExpires
  <1>2. ~ Early => \A m \in Known : TakeEntry(m) /\ work.op = "age" /\ work.todo[m] = Zero
                                        => AgingTime * Second <= seen[m] + lead[m]
    BY Zenon
  <1> QED BY <1>1, <1>2, BridgeInvariant, PTL DEF ExpiresNotEarly

\* A step that changes a static entry is one of those that may.
LEMMA StaticStep ==
  ASSUME BridgeInv, [L2Next]_l2Vars, NEW m \in Known, Static(m), m \in Known' => table'[m] # table[m]
  PROVE  \/ edits' = edits + 1
         \/ work.at = m /\ (work.op \in {"static", "delete"} \/ m \in work.edited)
  <1>1. table' # table
    BY Zenon DEF Known
  <1>2. CASE BridgeWorks \/ BridgeCutOff
    BY Zenon, <1>2, StepsSpare DEF BridgeWorks, BridgeCutOff
  <1>3. CASE PlaneEditsBridge
    BY Zenon, <1>3 DEF PlaneEditsBridge, PlaneApplies
  <1>4. ~ BridgeRequest
    <2>1. table \in Tables
      BY Zenon DEF BridgeInv, BridgeTyped
    <2>2. Starts => table' = table
      BY Zenon DEF Starts, tableVars
    <2> QED BY Zenon, <1>1, <2>1, <2>2, RequestsStart DEF BridgeRequest
  <1>5. ~ TickAge /\ ~ TimePasses /\ ~ UNCHANGED vars
    BY Zenon, <1>1 DEF TickAge, age, TimePasses, Elapse, tableVars, vars
  <1> QED BY Zenon, <1>2, <1>3, <1>4, <1>5, Owners

(***************************************************************************)
(* "A permanent (static) entry is never overwritten by learning", nor by   *)
(* frames, flushes or a sweep, for any stations, ports and VLANs: what     *)
(* changes a leaf of it is SetStatic or DeleteMAC for that entry, a plane, *)
(* or an operation under way since before a plane edited the entry, which  *)
(* goes by what it had read.                                               *)
(***************************************************************************)
THEOREM StaticEntriesStay == L2Spec => StaticStays
  <1> DEFINE Body == \A m \in Known :
                        (Static(m) /\ (m \in Known' => table'[m] # table[m])) =>
                            \/ edits' = edits + 1
                            \/ work.at = m /\ (work.op \in {"static", "delete"} \/ m \in work.edited)
  <1>1. BridgeInv /\ [L2Next]_l2Vars => Body
    BY Zenon, StaticStep
  <1>2. BridgeInv /\ [L2Next]_l2Vars => [Body]_vars
    BY Zenon, <1>1
  <1> HIDE DEF Body
  <1>3. L2Spec => [][Body]_vars
    BY <1>2, BridgeInvariant, PTL DEF L2Spec
  <1> QED BY <1>3 DEF StaticStays, Body
-----------------------------------------------------------------------------
\* Every step of the domain keeps storm control: only injections and time touch it.
LEMMA StormSteps == StormInv /\ [L2Next]_l2Vars => StormInv'
  <1> SUFFICES ASSUME StormInv, [L2Next]_l2Vars PROVE StormInv'
    OBVIOUS
  <1>1. CASE UNCHANGED stormVars
    BY Zenon, <1>1 DEF stormVars, StormInv, PortControlled, Packets, Passed
  <1>2. CASE BridgeRequest
    BY Zenon, <1>2, RequestsControlled DEF BridgeRequest
  <1>3. CASE TimePasses
    BY Zenon, <1>1, <1>3, SamplesAge DEF TimePasses
  <1>4. BridgeWorks \/ BridgeCutOff => UNCHANGED stormVars
    BY Zenon DEF BridgeWorks, WorkStep, TakeEntry, WriteLeaf, LoseLeaf, syncCount, EndWork,
                 BridgeCutOff, CutOff
  <1>5. TickAge \/ PlaneEditsBridge => UNCHANGED stormVars
    BY Zenon DEF TickAge, age, PlaneEditsBridge, PlaneApplies
  <1>6. UNCHANGED vars => UNCHANGED stormVars
    BY Zenon DEF vars
  <1> QED BY Zenon, <1>1, <1>2, <1>3, <1>4, <1>5, <1>6, Owners

(***************************************************************************)
(* Storm control lets no more than stormThreshold through in any window,   *)
(* and its alarm tells whether the last injection that it heard of was     *)
(* above it, for any threshold, window and sequence of injections, cut off *)
(* ones included.                                                          *)
(***************************************************************************)
THEOREM StormsAreControlled == L2Spec => []StormControlled
  <1>1. StormInv => StormControlled
    BY Zenon DEF StormInv, PortControlled, Passed, StormControlled
  <1>2. L2Init => StormInv
    BY Zenon, StormStarts DEF L2Init
  <1> QED BY <1>1, <1>2, StormSteps, PTL DEF L2Spec
=============================================================================
