---------------------------- MODULE MCFairQueues ----------------------------
(* Small instances of FairQueues for TLC. *)
EXTENDS FairQueues, TLC

CONSTANTS j1, j2, u1, u2

\* Two users, the first with one job and the second with another.
MCJobs == {j1, j2}
MCUsers == {u1, u2}
MCOwnerOf == j1 :> u1 @@ j2 :> u2

Symmetry == Permutations(Items) \cup Permutations(Workers)
=============================================================================
