-------------------------- MODULE MCSubmissionGate --------------------------
(* Small instances of SubmissionGate for TLC. *)
EXTENDS SubmissionGate, TLC

CONSTANTS j1, j2, k1, k2, k3, u1, u2

\* As in the fixtures, the journeys share the key of their first file.
MCKeysOf == (j1 :> {k1, k2}) @@ (j2 :> {k1, k3})
=============================================================================
