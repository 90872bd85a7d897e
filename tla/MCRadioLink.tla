---------------------------- MODULE MCRadioLink -----------------------------
(***************************************************************************)
(* The small instance of RadioLink: a power range of a few decibels that   *)
(* reaches both thresholds from both sides, two profiles, and a fade for   *)
(* each band of the link state.                                            *)
(***************************************************************************)
EXTENDS RadioLink

Atpc(lo, hi) == [enabled |-> TRUE, min |-> lo, max |-> hi, target |-> -2,
                 adaptive |-> TRUE, minProfile |-> 1, maxProfile |-> 2]

\* Two power ranges that do not contain each other, and ATPC and ACM off.
MCConfigs == {Atpc(0, 3), Atpc(3, 4),
              [Atpc(0, 3) EXCEPT !.enabled = FALSE, !.adaptive = FALSE]}

MCSeedConfig == Atpc(0, 3)

MCProfiles == {[id |-> 1, rsl |-> -9], [id |-> 2, rsl |-> -5]}

MCGain == -4

MCRSSIMin == -9

MCAlarm == -7

MCClear == -6
=============================================================================
