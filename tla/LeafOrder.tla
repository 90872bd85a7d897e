----------------------------- MODULE LeafOrder ------------------------------
(***************************************************************************)
(* The entry of a list is stored as leaves, and an operation of the L2     *)
(* domain sets or deletes them one at a time, in a fixed order.            *)
(***************************************************************************)
EXTENDS Naturals, Sequences

\* Of the leaves that are left, leaf comes first in the order.
Leads(order, leaf, left) ==
    /\ leaf \in left
    /\ \A i \in DOMAIN order : order[i] \in left => \E j \in 1..i : order[j] = leaf
=============================================================================
