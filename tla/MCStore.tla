------------------------------ MODULE MCStore -------------------------------
(***************************************************************************)
(* The small instance of Store: one configuration leaf with two values and *)
(* one state leaf of the object the configuration leaf creates.            *)
(***************************************************************************)
EXTENDS Store

CONSTANTS c1, s1, v1, v2

MCValid == {t \in Tree : t[s1] # Absent => t[c1] # Absent}

MCSeed == [p \in Paths |-> v1]
=============================================================================
