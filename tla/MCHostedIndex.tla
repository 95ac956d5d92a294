---------------------------- MODULE MCHostedIndex ----------------------------
(***************************************************************************)
(* Model values for HostedIndex.                                           *)
(***************************************************************************)
EXTENDS HostedIndex, TLC

Symmetry == Permutations(Specs)

=============================================================================
