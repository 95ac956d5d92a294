------------------------- MODULE MCHostedRepository -------------------------
(***************************************************************************)
(* Model values for HostedRepository.                                      *)
(***************************************************************************)
EXTENDS HostedRepository, TLC

\* Writes are alike, and so are paths and instances.
Symmetry == Permutations(Writes) \cup Permutations(Paths) \cup Permutations(Instances)

=============================================================================
