--------------------------- MODULE DurableConfig ----------------------------
(***************************************************************************)
(* What the operator is promised about startup.json, without files or      *)
(* datastores: a restart comes up with the last configuration whose save   *)
(* was acknowledged, or with one whose save was attempted since and not    *)
(* acknowledged.  It never comes up with anything else.                    *)
(***************************************************************************)
CONSTANT Documents

VARIABLES
    value,      \* the document of the last acknowledged save
    maybe       \* the documents of attempts that were not acknowledged

Init == value \in Documents /\ maybe = {}

Attempt(d) ==
    /\ maybe' = maybe \cup {d}
    /\ UNCHANGED value

Acknowledge(d) ==
    /\ d \in maybe
    /\ value' = d
    /\ maybe' = {}

\* An attempt that is not the one recovered may still surface later.
Recover(d) ==
    /\ d \in {value} \cup maybe
    /\ value' = d
    /\ maybe' \subseteq ({value} \cup maybe) \ {d}

Next == \E d \in Documents : Attempt(d) \/ Acknowledge(d) \/ Recover(d)

Spec == Init /\ [][Next]_<<value, maybe>>
=============================================================================
