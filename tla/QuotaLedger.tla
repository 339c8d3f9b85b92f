----------------------------- MODULE QuotaLedger -----------------------------
(***************************************************************************)
(* What the finalize service promises about quota: each job is charged at  *)
(* most once, a reservation ends as a charge or as a release and never     *)
(* comes back, and the totals of a user are the standings of the jobs that *)
(* the user pays for.                                                      *)
(***************************************************************************)
EXTENDS Naturals, FiniteSets

CONSTANTS Jobs, Users, NoUser

VARIABLES
  standing, \* open, reserved, consumed or closed, per job
  payer,    \* who pays for each job
  reserved, \* reservations per user
  consumed  \* charges per user

ledgerVars == <<standing, payer, reserved, consumed>>

Standings == {"open", "reserved", "consumed", "closed"}

\* A reservation, a charge, a release, and the end of a job that never reserved.
Moves ==
  {<<"open", "reserved">>, <<"reserved", "consumed">>,
   <<"reserved", "closed">>, <<"open", "closed">>}
  \cup {<<s, s>> : s \in Standings}

JobsOf(u, s) == {j \in Jobs : payer[j] = u /\ standing[j] = s}

Balanced ==
  \A u \in Users :
    /\ reserved[u] = Cardinality(JobsOf(u, "reserved"))
    /\ consumed[u] = Cardinality(JobsOf(u, "consumed"))

LedgerInit ==
  /\ standing = [j \in Jobs |-> "open"]
  /\ payer = [j \in Jobs |-> NoUser]
  /\ reserved = [u \in Users |-> 0]
  /\ consumed = [u \in Users |-> 0]

\* Any number of jobs move at once; a job's payer is chosen before it moves.
LedgerStep ==
  /\ \A j \in Jobs :
       /\ <<standing[j], standing'[j]>> \in Moves
       /\ payer[j] # NoUser => payer'[j] = payer[j]
       /\ payer[j] = NoUser => standing'[j] = standing[j]
  /\ Balanced'

LedgerSpec == LedgerInit /\ [][LedgerStep]_ledgerVars
=============================================================================
