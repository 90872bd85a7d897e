----------------------------- MODULE MCL2Domain -----------------------------
(***************************************************************************)
(* The small instance of L2Domain: a bridge with two ports, two STP ports, *)
(* one of them an edge port, a better and a worse bridge, two ports with   *)
(* an LLDP neighbour.                                                      *)
(***************************************************************************)
EXTENDS L2Domain

MCVlans == {10}

MCStorms == {2, 3}

\* The requests of one kind do not meet the state of another, but for the
\* VLANs, which learning asks.
MCBudgets ==
    { [mac |-> 2, vlan |-> 0, storm |-> 0, edits |-> 0],
      [mac |-> 1, vlan |-> 0, storm |-> 0, edits |-> 1],
      [mac |-> 0, vlan |-> 0, storm |-> 0, edits |-> 2],
      [mac |-> 1, vlan |-> 1, storm |-> 0, edits |-> 0],
      [mac |-> 0, vlan |-> 2, storm |-> 0, edits |-> 0],
      [mac |-> 0, vlan |-> 0, storm |-> 3, edits |-> 0] }

MCSelf == <<2, 1>>

MCOthers == {<<1, 2>>, <<2, 2>>}

MCTTLs == {60, 120}
=============================================================================
