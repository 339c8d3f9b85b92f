--------------------------- MODULE MCPairService ---------------------------
(* Small instances of PairService for TLC. *)
EXTENDS PairService, TLC

\* Users, jobs and attempts are interchangeable.
Symmetry ==
  Permutations(Users) \cup Permutations(Jobs) \cup Permutations(Attempts)
=============================================================================
