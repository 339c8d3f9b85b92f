--------------------------- MODULE MCBrowserState ---------------------------
(***************************************************************************)
(* TLC instance of BrowserState.                                           *)
(***************************************************************************)
EXTENDS BrowserState, TLC

CONSTANTS w1, w2, u1, u2, j1, j2

\* Once a write went over what it had not read, nothing is claimed any more but
\* the type and the trial; the instance follows such histories no further.
Exact == ~clobbered

Symmetry ==
  Permutations(Windows) \cup Permutations(Users) \cup Permutations(JobIds)

=============================================================================
