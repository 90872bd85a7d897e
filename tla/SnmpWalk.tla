----------------------------- MODULE SnmpWalk -----------------------------
(***************************************************************************)
(* A walk of an SNMP manager over the objects of the agent: GetNext and    *)
(* GetBulk requests of internal/snmp, each answered from an index of its   *)
(* own, while the set of objects with a value changes between them.        *)
(* An OID is a sequence of numbers.                                        *)
(***************************************************************************)
EXTENDS Integers, Sequences, FiniteSets

CONSTANT Repetitions  \* the max-repetitions of a walk; 1 is GetNext

ASSUME RepetitionsAssumption == Repetitions \subseteq Nat \ {0}

VARIABLES
    oids,     \* the OIDs that have a value, as Router.Bindings lists them
    walking   \* the walk: its phase, the last OID of the previous answer, what it
              \* has reported and, for the properties only, what was there always

walkVars == <<oids, walking>>

OID == Seq(Nat) \ {<<>>}

ObjectSets == {S \in SUBSET OID : IsFiniteSet(S)}

----------------------------------------------------------------------------
\* a is before b, compared number by number: where they first differ a has the
\* smaller number, or a has come to its end.
CompareOID(a, b) ==
    \E i \in DOMAIN b :
        /\ \A j \in 1 .. i - 1 : j \in DOMAIN a /\ a[j] = b[j]
        /\ i \in DOMAIN a => a[i] < b[i]

\* Mutant: the OIDs are ordered as text, where 10 sorts before 2.
TextOrder(a, b) ==
    LET rank(n) == IF n = 10 THEN 1 ELSE n + 1 IN
    CompareOID([i \in DOMAIN a |-> rank(a[i])], [i \in DOMAIN b |-> rank(b[i])])

newPDUIndexText(S) ==
    [i \in 1 .. Cardinality(S) |->
        CHOOSE o \in S : Cardinality({q \in S : TextOrder(q, o)}) = i - 1]

\* The index of one request: the OIDs in order.
newPDUIndex(S) ==
    [i \in 1 .. Cardinality(S) |->
        CHOOSE o \in S : Cardinality({q \in S : CompareOID(q, o)}) = i - 1]

\* The places of the index that are after oid.
After(index, oid) == {i \in DOMAIN index : CompareOID(oid, index[i])}

First(places) == CHOOSE i \in places : \A j \in places : i <= j

\* Mutant: the walk starts over at the end of the MIB.
nextWraps(index, oid) == IF After(index, oid) = {} THEN 1 ELSE First(After(index, oid))

\* The place of the first OID of the index after oid, 0 at the end of the MIB.
next(index, oid) == IF After(index, oid) = {} THEN 0 ELSE First(After(index, oid))

\* One repetition of a GetBulk repeater.
successor(index, at) ==
    LET j == next(index, at.cursor) IN
    IF at.ended \/ j = 0 THEN [at EXCEPT !.ended = TRUE]
    ELSE [at EXCEPT !.cursor = index[j], !.found = @ \cup {index[j]}]

\* The successors that one GetBulk repeater returns: at most n, all from the
\* index of the request; fewer at the end of the MIB.  GetNext is n = 1.
getBulk(index, oid, n) ==
    LET after[i \in 0 .. n] ==
            IF i = 0 THEN [cursor |-> oid, found |-> {}, ended |-> FALSE]
            ELSE successor(index, after[i - 1])
    IN after[n]

----------------------------------------------------------------------------
NoWalk == [phase |-> "idle", cursor |-> <<>>, reported |-> {}, always |-> {}]

\* The datastore changes, and with it the objects that have a value.  One that is
\* not there during all of a walk may be missed by it.
IndexBecomes(new) ==
    /\ oids' = new
    /\ walking' = [walking EXCEPT !.always = @ \cap new]

WalkStarts ==
    /\ walking.phase # "walking"
    /\ walking' = [NoWalk EXCEPT !.phase = "walking", !.always = oids]
    /\ UNCHANGED oids

\* The walk after a request from the last OID of the previous answer.
Answered(answer) ==
    [walking EXCEPT !.cursor = answer.cursor,
                    !.reported = @ \cup answer.found,
                    !.phase = IF answer.ended THEN "done" ELSE @]

WalkStep(n) ==
    /\ walking.phase = "walking"
    /\ \E index \in {newPDUIndex(oids)} :
          \E answer \in {getBulk(index, walking.cursor, n)} : walking' = Answered(answer)
    /\ UNCHANGED oids

WalkInit == oids \in ObjectSets /\ walking = NoWalk

WalkNext ==
    \/ oids' \in ObjectSets /\ IndexBecomes(oids')
    \/ WalkStarts
    \/ \E n \in Repetitions : WalkStep(n)

\* The walk by itself: any finite set of objects at any time.
WalkSpec == WalkInit /\ [][WalkNext]_walkVars

----------------------------------------------------------------------------
(***************************************************************************)
(* A walk that has ended has reported every object that was in the index   *)
(* all the while, whatever was created, deleted, or renumbered by a        *)
(* restart between its requests: each request answers from a new index.    *)
(***************************************************************************)
WalkReports == walking.phase = "done" => walking.always \subseteq walking.reported
=============================================================================
