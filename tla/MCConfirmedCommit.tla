-------------------------- MODULE MCConfirmedCommit --------------------------
(***************************************************************************)
(* The small instance of ConfirmedCommit: every tree is valid and the seed *)
(* is the empty device, so that only the order of the steps matters.       *)
(***************************************************************************)
EXTENDS ConfirmedCommit

CONSTANTS s1, s2

MCValid == Tree

MCSeed == EmptyTree

=============================================================================
