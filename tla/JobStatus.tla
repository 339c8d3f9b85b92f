----------------------------- MODULE JobStatus ------------------------------
(***************************************************************************)
(* The status rows clients poll (apps/api/jobs/durable-status.js,          *)
(* createJobStatusStore).  upsert writes whatever status its caller names; *)
(* the order of the statuses is its callers' affair.                       *)
(***************************************************************************)
CONSTANTS Jobs

VARIABLES
  rows,      \* the row of each job, NoRow before the first upsert
  claimed    \* history: jobs told "Canceled before provider query acceptance."

NoRow == [status |-> "none"]
Terminal == {"succeeded", "failed", "canceled"}
Statuses ==
  Terminal \cup {"uploading", "validating", "queued", "submitting", "awaiting-report",
                 "cancel-requested"}
Row ==
  [ status : Statuses, queryAccepted : BOOLEAN, forgotten : BOOLEAN,
    terminalCancel : BOOLEAN ]      \* the job was canceled once

StatusInit ==
  /\ rows = [j \in Jobs |-> NoRow]
  /\ claimed = {}

\* upsert: the flags of the row stay unless the new one names them.
Upserted(j, status, accepted) ==
  [ status |-> status,
    queryAccepted |-> accepted \/ (rows[j] # NoRow /\ rows[j].queryAccepted),
    forgotten |-> rows[j] # NoRow /\ rows[j].forgotten,
    terminalCancel |-> rows[j] # NoRow /\ rows[j].terminalCancel ]

Upsert(j, status, accepted) ==
  /\ rows' = [rows EXCEPT ![j] = Upserted(j, status, accepted)]
  /\ UNCHANGED claimed

\* getProjection: what a poll of job j by its owner sees, and that it was the last.
IsOver(j) == rows[j] = NoRow \/ rows[j].forgotten \/ rows[j].status \in Terminal

\* A cancellation is requested of a job that was canceled once before and that a
\* writer has taken up again: polls end although the job goes on.
Withdrawn(j) ==
  rows[j] # NoRow /\ rows[j].status = "cancel-requested" /\ rows[j].terminalCancel

StopPolling(j) == IsOver(j) \/ Withdrawn(j)

\* The question of requestCancel whether the provider may have the query.
MayBeAccepted(r) == r.queryAccepted \/ r.status \in {"awaiting-report", "submitting"}

\* requestCancel.
RequestCancel(j) ==
  LET accepted == MayBeAccepted(rows[j])
  IN
  /\ rows[j] # NoRow /\ rows[j].status \notin Terminal
  /\ rows' = [rows EXCEPT ![j].status = IF accepted THEN "cancel-requested" ELSE "canceled",
                          ![j].terminalCancel = @ \/ ~accepted]
  /\ claimed' = IF accepted THEN claimed ELSE claimed \cup {j}

MarkForgotten(j) ==
  /\ rows[j] # NoRow
  /\ rows' = [rows EXCEPT ![j].forgotten = TRUE]
  /\ UNCHANGED claimed

StatusTypeOK ==
  /\ rows \in [Jobs -> Row \cup {NoRow}]
  /\ claimed \subseteq Jobs
=============================================================================
