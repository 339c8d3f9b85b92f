----------------------------- MODULE MCPairRun -----------------------------
(* Small instances of PairRun for TLC. *)
EXTENDS PairRun, TLC

\* Starts and attempts are interchangeable.
Symmetry == Permutations(Jobs) \cup Permutations(Attempts)

\* Starts that have a submission under way, or may still get one.
Unsettled ==
  {s \in Starts :
     \/ InFlight(s) # {} \/ call[s] = "finalize"
     \/ step[s] \in {"create", "attach", "upload", "finalize"}}

\* A poll with its answer, as PollApply reads it.
PollSeen ==
  IF poll.status \in {"none", "asked", "revealing"} THEN poll
  ELSE LET p == PhaseFromJobStatus(poll.status)
       IN [job |-> poll.job, phase |-> p,
           submitted |-> poll.submitted \/ p \in {"wait", "success"}]

\* What two states have to share so that the same can follow: everything but the refund
\* ledger, which no other variable depends on while runs are left; what was shown of
\* starts that nothing is under way for any more; and the entries of the past results,
\* which are read by the question whether they are earned (and, so that they are also
\* removed here, whether there are any in a window without a run).
ProtocolView ==
  <<serviceVars, open, run, step, call, active, effects, timers, PollSeen, report,
    remembered, HistoryIsEarned, run = NoRun /\ HistoryCard # {}, shownOver \cap Unsettled>>
=============================================================================
