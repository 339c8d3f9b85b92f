--------------------------- MODULE JobRepository ----------------------------
(***************************************************************************)
(* The job repository (apps/api/jobs/state-machine.js): guarded transitions*)
(* with optional optimistic versions, cancellation, and the event log.     *)
(*                                                                         *)
(* A job is named by its owner and idempotency key: createJob finds the    *)
(* job of an earlier call by them.  Writers read a job with getJob, which  *)
(* copies it, and name the version they read when they move it.            *)
(***************************************************************************)
EXTENDS Naturals, Sequences, FiniteSets

CONSTANTS
  Names,      \* owners' idempotency keys
  Writers

VARIABLES
  job,        \* the job of each name, NoJob before createJob
  events,     \* the statuses in the event log of each job, in their order
  copy        \* the job each writer has read, NoCopy for none

NoJob == [status |-> "none"]
NoCopy == [name |-> "none"]

TransitionsLax(from) ==       \* mutant: a cancellation can be overtaken
  CASE from = "draft"            -> {"uploading", "canceled"}
    [] from = "uploading"        -> {"uploaded", "failed", "cancel-requested"}
    [] from = "uploaded"         -> {"validating", "failed", "cancel-requested"}
    [] from = "validating"       -> {"queued", "failed", "cancel-requested"}
    [] from = "queued"           -> {"submitting", "failed", "cancel-requested"}
    [] from = "submitting"       -> {"awaiting-report", "failed", "cancel-requested"}
    [] from = "awaiting-report"  -> {"succeeded", "failed", "cancel-requested"}
    [] from = "cancel-requested" -> {"canceled", "failed", "succeeded"}
    [] OTHER                     -> {}

Transitions(from) ==
  CASE from = "draft"            -> {"uploading", "canceled"}
    [] from = "uploading"        -> {"uploaded", "failed", "cancel-requested"}
    [] from = "uploaded"         -> {"validating", "failed", "cancel-requested"}
    [] from = "validating"       -> {"queued", "failed", "cancel-requested"}
    [] from = "queued"           -> {"submitting", "failed", "cancel-requested"}
    [] from = "submitting"       -> {"awaiting-report", "failed", "cancel-requested"}
    [] from = "awaiting-report"  -> {"succeeded", "failed", "cancel-requested"}
    [] from = "cancel-requested" -> {"canceled", "failed"}
    [] OTHER                     -> {}

Ended == {"succeeded", "failed", "canceled"}

JobStatuses ==
  {"draft", "uploading", "uploaded", "validating", "queued", "submitting",
   "awaiting-report", "cancel-requested"} \cup Ended

RepoInit ==
  /\ job = [n \in Names |-> NoJob]
  /\ events = [n \in Names |-> <<>>]
  /\ copy = [w \in Writers |-> NoCopy]

\* createJob.  A repeated call changes nothing.
CreateJob(n) ==
  /\ job[n] = NoJob
  /\ job' = [job EXCEPT ![n] = [status |-> "draft", version |-> 0, reportAvailable |-> FALSE]]
  /\ events' = [events EXCEPT ![n] = <<"draft">>]
  /\ UNCHANGED copy

VersionAfter(j, to) == j.version + 1

\* transition once its guards have let it through; the report is looked for anew
\* when the job succeeds.
Move(n, to) ==
  /\ to \in Transitions(job[n].status)
  /\ job' = [job EXCEPT ![n] =
       [ status |-> to, version |-> VersionAfter(job[n], to),
         reportAvailable |-> job[n].reportAvailable /\ to # "succeeded" ]]
  /\ events' = [events EXCEPT ![n] = Append(@, to)]

\* getJob.
ReadJob(w, n) ==
  /\ job[n] # NoJob
  /\ copy' = [copy EXCEPT ![w] = 
       [name |-> n, version |-> job[n].version, status |-> job[n].status]]
  /\ UNCHANGED <<job, events>>

\* transition with the version that was read.
MoveAsRead(w, to) ==
  LET n == copy[w].name
  IN
  /\ n # "none"
  /\ copy[w].version = job[n].version
  /\ Move(n, to)
  /\ UNCHANGED copy

\* transition without a version.
MoveBlindly(n, to) ==
  /\ job[n] # NoJob
  /\ Move(n, to)
  /\ UNCHANGED copy

\* requestCancel: a draft is canceled at once, a request for a job that ended or is
\* being canceled is refused.
RequestCancelJob(n) ==
  MoveBlindly(n, IF job[n].status = "draft" THEN "canceled" ELSE "cancel-requested")

\* setReportAvailability, whatever the status.
SetReportAvailability(n, available) ==
  /\ job[n] # NoJob
  /\ job' = [job EXCEPT ![n].reportAvailable = available]
  /\ UNCHANGED <<events, copy>>

RepoNext ==
  \/ \E n \in Names :
       \/ CreateJob(n)
       \/ RequestCancelJob(n)
       \/ \E available \in BOOLEAN : SetReportAvailability(n, available)
       \/ \E w \in Writers : ReadJob(w, n)
       \/ \E to \in JobStatuses : MoveBlindly(n, to)
  \/ \E w \in Writers, to \in JobStatuses : MoveAsRead(w, to)

-----------------------------------------------------------------------------
\* Properties.

\* A version names one status: a writer whose version still fits moves the job from
\* the status that it read, so of two writers with one version only one can win.
VersionNamesStatus ==
  \A w \in Writers : copy[w] # NoCopy =>
    LET n == copy[w].name
    IN
    /\ copy[w].version <= job[n].version
    /\ copy[w].version = job[n].version => copy[w].status = job[n].status

Path == <<"draft", "uploading", "uploaded", "validating", "queued", "submitting",
          "awaiting-report", "succeeded">>

\* A job ends by the way its log shows: a success went through every stage once, a
\* canceled job asked for it first unless it was a draft, no status comes twice, and
\* the version counts the steps.
LogTellsTheWay ==
  \A n \in Names : job[n] # NoJob =>
    LET log == events[n]
        last == Len(log)
    IN
    /\ log[last] = job[n].status
    /\ job[n].version = last - 1
    /\ \A i, k \in 1..last : log[i] = log[k] => i = k
    /\ job[n].status = "succeeded" => log = Path
    /\ job[n].status = "canceled" => log[last - 1] \in {"draft", "cancel-requested"}

\* A version names one status for ever, and the log tells how a job came to it,
\* however many writers held stale copies.
RepositoryIsTrue == VersionNamesStatus /\ LogTellsTheWay
=============================================================================
