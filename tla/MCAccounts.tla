----------------------------- MODULE MCAccounts -----------------------------
(* Small instances of Accounts for TLC. *)
EXTENDS Accounts, TLC

\* Each sign-in is one through Microsoft.
MCProviderOf == [f \in Flows |-> "microsoft"]

\* Two users share what one may use up: with both of them known, the instance follows
\* histories of at most three codes and sessions.
Shared ==
  (\A e \in Emails : users[e].known) => (NextCode - 1) + (NextSession - 1) <= 3

Symmetry == Permutations(Devices) \cup Permutations(Emails)
=============================================================================
