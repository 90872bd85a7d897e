--------------------------- MODULE MCNotifications ---------------------------
(***************************************************************************)
(* Two sessions with one subscription each, one session that replaces its  *)
(* subscription, one gNMI stream, the trap sender, or a client that        *)
(* connects while the server closes.                                       *)
(***************************************************************************)
EXTENDS Notifications, TLC

CONSTANTS s1, s2, g1

Idle == [s \in {s1, s2} |-> 0]

\* Sessions and streams meet at the bus only, which no subscriber holds up.
MCCasts ==
    { [up |-> {s1, s2}, late |-> {}, subs |-> [s \in {s1, s2} |-> 1], streams |-> {}, traps |-> FALSE,
       unruly |-> {s1}, events |-> 3, stops |-> FALSE],
      [up |-> {s1}, late |-> {}, subs |-> [Idle EXCEPT ![s1] = 2], streams |-> {}, traps |-> FALSE,
       unruly |-> {s1}, events |-> 2, stops |-> TRUE],
      [up |-> {s2}, late |-> {s1}, subs |-> [s \in {s1, s2} |-> 1], streams |-> {}, traps |-> FALSE,
       unruly |-> {s1}, events |-> 1, stops |-> TRUE],
      [up |-> {}, late |-> {}, subs |-> Idle, streams |-> {g1}, traps |-> FALSE,
       unruly |-> {}, events |-> 3, stops |-> TRUE],
      [up |-> {}, late |-> {}, subs |-> Idle, streams |-> {}, traps |-> TRUE,
       unruly |-> {}, events |-> 3, stops |-> TRUE] }
=============================================================================
