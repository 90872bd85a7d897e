---------------------------- MODULE SpanningTree ----------------------------
(***************************************************************************)
(* The simplified STP/RSTP machine of the L2 domain (internal/l2/stp.go):  *)
(* link events and BPDUs, the root election, the role and state leaves of  *)
(* the ports, and the forward delays applied by the periodic tick.         *)
(*                                                                         *)
(* Handle and Tick hold Manager.mu and read one snapshot of running; the   *)
(* leaves they then write one by one are their job.  Planes edit the       *)
(* protocol and the enabled leaf in between, and the context of a Handle   *)
(* can be cancelled, which fails the writes that are left.  Planes that    *)
(* write the role or the state leaf of a port are left out.                *)
(***************************************************************************)
EXTENDS Naturals

CONSTANTS
    Ports,
    EdgePorts,      \* ports with edge-port set
    Self,           \* identifier of this bridge, <<priority, address>>
    Others,         \* identifiers of the bridges BPDUs announce
    MaxEvents,      \* bound on the link events and BPDUs handled
    MaxEdits,       \* bound on the edits of the STP configuration
    None

Roles == {"root", "designated", "alternate"}

STPPhase == {"disabled", "blocking", "listening", "learning", "forwarding"}

VARIABLES
    enabled, protocol,  \* configuration leaves
    role, state,        \* leaves of each port
    root,               \* state leaf root-id
    pending,            \* Manager.stpPending: [phase, due], or None
    job,                \* the Handle or Tick that holds Manager.mu, or None
    events, edits       \* counters of the bounds

vars == <<enabled, protocol, role, state, root, pending, job, events, edits>>

confVars == <<enabled, protocol, edits>>
-----------------------------------------------------------------------------
\* -1, 0 or 1 of the source as a strict order: a is the better bridge.
compareBridgeID(a, b) == a[1] < b[1] \/ (a[1] = b[1] /\ a[2] < b[2])

Discarded == {"disabled", "blocking", "listening"}

\* Mutant: the names of the classic protocol whatever the protocol is.
stateNameClassic(proto, phase) == phase

stateName(proto, phase) ==
    IF proto = "rstp" /\ phase \in Discarded THEN "discarding" ELSE phase

\* Mutant: a learning port is not scheduled again.
scheduleSTPOnce(phase) ==
    CASE phase \in {"blocking", "listening"} -> [phase |-> "learning", due |-> FALSE]
      [] OTHER -> None

\* Mutant: a port that leaves the walk keeps its timer.
scheduleSTPKeeps(phase) ==
    CASE phase \in {"blocking", "listening"} -> [phase |-> "learning", due |-> FALSE]
      [] OTHER -> [phase |-> "forwarding", due |-> FALSE]

scheduleSTP(phase) ==
    CASE phase \in {"blocking", "listening"} -> [phase |-> "learning", due |-> FALSE]
      [] phase = "learning" -> [phase |-> "forwarding", due |-> FALSE]
      [] OTHER -> None

-----------------------------------------------------------------------------
(***************************************************************************)
(* A job: the changes left to make, one of them after all the others, and  *)
(* the root identifier an election writes first.                           *)
(***************************************************************************)
Change(p, r, phase) == [port |-> p, role |-> r, phase |-> phase]

Job(handle, id, todo, last) ==
    [handle |-> handle, root |-> id, todo |-> todo, last |-> last, step |-> "role",
     protocol |-> protocol, role |-> role, state |-> state]

\* Handle for an enabled bridge.
Handle ==
    /\ job = None
    /\ enabled
    /\ events < MaxEvents
    /\ events' = events + 1
    /\ UNCHANGED <<confVars, role, state, root, pending>>

LinkDown(p) ==
    /\ Handle
    /\ job' = Job(TRUE, None, {}, {Change(p, "alternate", "disabled")})

LinkUp(p) ==
    /\ Handle
    /\ LET phase == IF p \in EdgePorts THEN "forwarding" ELSE "blocking"
       IN  job' = Job(TRUE, None, {}, {Change(p, "designated", phase)})

\* Mutant: the receiving port is promoted before the others are demoted.
electRootFirst(p, id) ==
    LET better == compareBridgeID(id, Self)
        phase == IF better /\ protocol = "stp" THEN "blocking" ELSE "forwarding"
        others == {Change(q, IF better THEN "alternate" ELSE "designated",
                          IF better THEN "blocking" ELSE "forwarding") : q \in Ports \ {p}}
        receiver == Change(p, IF better THEN "root" ELSE "designated", phase)
    IN  /\ Handle
        /\ job' = Job(TRUE, IF better THEN id ELSE Self, {receiver}, others)

\* elect: first the other ports, then the one the BPDU came in on.
elect(p, id) ==
    LET better == compareBridgeID(id, Self)
        phase == IF better /\ protocol = "stp" THEN "blocking" ELSE "forwarding"
        others == {Change(q, IF better THEN "alternate" ELSE "designated",
                          IF better THEN "blocking" ELSE "forwarding") : q \in Ports \ {p}}
        receiver == Change(p, IF better THEN "root" ELSE "designated", phase)
    IN  /\ Handle
        /\ job' = Job(TRUE, IF better THEN id ELSE Self, others, {receiver})

BPDU(p, id) == elect(p, id)

\* advanceSTP takes the deadlines that are due; a disabled bridge forgets all.
Due == {p \in Ports : pending[p] # None /\ pending[p].due}

advanceSTP ==
    /\ job = None
    /\ Due # {}
    /\ \/ /\ enabled
          /\ pending' = [p \in Ports |-> IF p \in Due THEN None ELSE pending[p]]
          /\ job' = Job(FALSE, None, {}, {Change(p, role[p], pending[p].phase) : p \in Due})
       \/ /\ ~ enabled
          /\ pending' = [p \in Ports |-> None]
          /\ UNCHANGED job
    /\ UNCHANGED <<confVars, role, state, root, events>>
-----------------------------------------------------------------------------
(***************************************************************************)
(* The writes of a job.                                                    *)
(***************************************************************************)
Left == IF job.todo # {} THEN job.todo ELSE job.last

\* The ports are changed in the order of the port list.
Turn == CHOOSE c \in Left : TRUE

Done ==
    IF job.todo \cup job.last = {Turn} THEN None
    ELSE [job EXCEPT !.todo = @ \ {Turn}, !.last = IF job.todo = {} THEN @ \ {Turn} ELSE @,
                     !.step = "role"]

Changing == job # None /\ job.root = None

\* transition leaves a port alone that is where it should go.
AlreadyThere ==
    /\ job.role[Turn.port] = Turn.role
    /\ job.state[Turn.port] = stateName(job.protocol, Turn.phase)

WriteRoot ==
    /\ job # None /\ job.root # None
    /\ root' = job.root
    /\ job' = [job EXCEPT !.root = None]
    /\ UNCHANGED <<confVars, role, state, pending, events>>

SkipPort ==
    /\ Changing /\ job.step = "role"
    /\ AlreadyThere
    /\ job' = Done
    /\ UNCHANGED <<confVars, role, state, root, pending, events>>

WriteRole ==
    /\ Changing /\ job.step = "role"
    /\ ~ AlreadyThere
    /\ role' = [role EXCEPT ![Turn.port] = Turn.role]
    /\ job' = [job EXCEPT !.step = "state"]
    /\ UNCHANGED <<confVars, state, root, pending, events>>

WriteState ==
    /\ Changing /\ job.step = "state"
    /\ state' = [state EXCEPT ![Turn.port] = stateName(job.protocol, Turn.phase)]
    /\ pending' = [pending EXCEPT ![Turn.port] = scheduleSTP(Turn.phase)]
    /\ job' = Done
    /\ UNCHANGED <<confVars, role, root, events>>

\* The context of the caller of Handle is cancelled.
HandleFails ==
    /\ job # None /\ job.handle
    /\ job' = None
    /\ UNCHANGED <<confVars, role, state, root, pending, events>>

\* A forward delay of the injected clock has passed.
DelayElapses(p) ==
    /\ pending[p] # None
    /\ ~ pending[p].due
    /\ pending' = [pending EXCEPT ![p].due = TRUE]
    /\ UNCHANGED <<confVars, role, state, root, job, events>>
-----------------------------------------------------------------------------
(***************************************************************************)
(* The planes.  The model accepts only the states of the protocol, so an   *)
(* edit of the protocol renames the blocked ports.                         *)
(***************************************************************************)
STPPortStates(proto) ==
    IF proto = "rstp" THEN {"discarding", "learning", "forwarding"} ELSE STPPhase

SetEnabled ==
    /\ edits < MaxEdits
    /\ edits' = edits + 1
    /\ enabled' = ~ enabled
    /\ UNCHANGED <<protocol, role, state, root, pending, job, events>>

SetProtocol(proto) ==
    /\ edits < MaxEdits
    /\ edits' = edits + 1
    /\ protocol # proto
    /\ protocol' = proto
    /\ state' = [p \in Ports |-> IF state[p] \in STPPortStates(proto) THEN state[p]
                                 ELSE stateName(proto, "blocking")]
    /\ UNCHANGED <<enabled, role, root, pending, job, events>>

\* The seed device: one forwarding root port, the others are alternates.
Init ==
    /\ enabled = TRUE
    /\ protocol \in {"stp", "rstp"}
    /\ LET up == CHOOSE p \in Ports \ EdgePorts : TRUE
       IN  /\ role = [p \in Ports |-> IF p = up THEN "root" ELSE "alternate"]
           /\ state = [p \in Ports |-> IF p = up THEN "forwarding"
                                       ELSE IF protocol = "rstp" THEN "discarding" ELSE "blocking"]
    /\ root = Self
    /\ pending = [p \in Ports |-> None]
    /\ job = None
    /\ events = 0
    /\ edits = 0

Write == WriteRoot \/ SkipPort \/ WriteRole \/ WriteState

Next ==
    \/ \E p \in Ports : LinkDown(p) \/ LinkUp(p) \/ DelayElapses(p)
    \/ \E p \in Ports, id \in Others : BPDU(p, id)
    \/ advanceSTP
    \/ Write
    \/ HandleFails
    \/ SetEnabled
    \/ \E proto \in {"stp", "rstp"} : SetProtocol(proto)

Spec == Init /\ [][Next]_vars
-----------------------------------------------------------------------------
PortStates == STPPortStates("stp") \cup STPPortStates("rstp")

\* The type invariant.
TypeOK ==
    /\ enabled \in BOOLEAN
    /\ protocol \in {"stp", "rstp"}
    /\ role \in [Ports -> Roles]
    /\ state \in [Ports -> PortStates]
    /\ root \in Others \cup {Self}
    /\ pending \in [Ports -> [phase : {"learning", "forwarding"}, due : BOOLEAN] \cup {None}]
    /\ job # None =>
           /\ \A c \in job.todo \cup job.last :
                  c.port \in Ports /\ c.role \in Roles /\ c.phase \in STPPhase
           /\ job.todo \cup job.last # {}
    /\ events \in 0..MaxEvents
    /\ edits \in 0..MaxEdits

(***************************************************************************)
(* A bridge has one root port at most.  elect demotes the other ports      *)
(* before it promotes the one that heard the better bridge, so this holds  *)
(* between any two leaf writes and after an election that was cancelled    *)
(* half-way.                                                               *)
(***************************************************************************)
OneRootPort == \A p, q \in Ports : role[p] = "root" /\ role[q] = "root" => p = q

(***************************************************************************)
(* A timer belongs to the state its port is in: only a learning port is    *)
(* scheduled to forward and only a blocked one to learn, whatever events,  *)
(* cancelled requests and edits of the protocol came since it was armed.   *)
(***************************************************************************)
TimerMatchesState ==
    \A p \in Ports :
        pending[p] # None =>
            IF pending[p].phase = "forwarding" THEN state[p] = "learning"
            ELSE state[p] \in Discarded \cup {"discarding"}

(***************************************************************************)
(* "a port walks blocking -> learning -> forwarding through two delays":   *)
(* while STP stays enabled no port remains in the learning state.          *)
(***************************************************************************)
LearningEnds ==
    []enabled => \A p \in Ports : []<>(state[p] # "learning")
=============================================================================
