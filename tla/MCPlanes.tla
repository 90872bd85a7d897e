------------------------------ MODULE MCPlanes ------------------------------
(***************************************************************************)
(* Two configuration leaves that must not both have the value v2, and one  *)
(* state leaf.                                                             *)
(***************************************************************************)
EXTENDS Planes, TLC

CONSTANTS a, b, s, v1, v2, e1, e2, r1, r2, c1

MCConfigPaths == {a, b}

MCStatePaths == {s}

MCValues == {v1, v2}

MCValid == {t \in Tree : ~ (t[a] = v2 /\ t[b] = v2)}

MCSeed == [p \in Paths |-> v1]

\* Readers meet the others in the datastores only.
MCCasts ==
    { [who |-> {e1, e2}, writes |-> 3],
      [who |-> {r1, r2}, writes |-> 3],
      [who |-> {c1, e1}, writes |-> 2] }

\* Requests of one kind differ in their names only.
Symmetric == Permutations({e1, e2}) \cup Permutations({r1, r2})
=============================================================================
