-------------------------- MODULE SandboxedWorkers --------------------------
(***************************************************************************)
(* The worker runtime (apps/api/workers/sandboxed.js): leases, runs,       *)
(* cancellations and crashes of intake and submission workers, and the     *)
(* source artifacts they hold.                                             *)
(*                                                                         *)
(* Artifacts are found by key alone, so two workers can hold the same one. *)
(* How a run goes is an input: it works, its cleanup fails, or one of the  *)
(* conditions that end it early is met.  Whether a deadline has passed is  *)
(* the case "timeout".                                                     *)
(***************************************************************************)
CONSTANTS
  Jobs,
  Keys,          \* keys of source artifacts
  WorkerIds

VARIABLES
  workers,       \* the workers by id, NoWorker before the lease
  artifacts,     \* keys of the artifacts that are present
  resultStore    \* jobs with stored result metadata

NoWorker == [kind |-> "none"]

\* last: what the stages end with, "leased" before a run or a crash.
Worker ==
  [ kind : {"intake", "submission"}, jobId : Jobs, artifactKeys : SUBSET Keys,
    canceled : BOOLEAN, alive : BOOLEAN,
    last : {"leased", "cleanup", "cleanup-failed"} ]

Runs == {"works", "cancel", "timeout", "memory-pressure", "egress-denied", "cleanup-failure"}

WorkersInit ==
  /\ workers = [w \in WorkerIds |-> NoWorker]
  /\ artifacts = {}
  /\ resultStore = {}

\* leaseIntake and leaseSubmission, whose arguments are complete; a submission
\* needs a credential and a frozen manifest, and its caller has both.
Lease(w, kind, job, keys) ==
  /\ workers[w] = NoWorker
  /\ workers' = [workers EXCEPT ![w] =
       [ kind |-> kind, jobId |-> job, artifactKeys |-> keys,
         canceled |-> FALSE, alive |-> TRUE, last |-> "leased" ]]
  /\ artifacts' = artifacts \cup keys
  /\ UNCHANGED resultStore

CleanupKeepsShared(this) ==      \* mutant: leaves what another worker was given
  {k \in this.artifactKeys :
     \A w \in WorkerIds : workers[w] # NoWorker /\ workers[w] # this
                            => k \notin workers[w].artifactKeys}

\* The artifacts cleanupArtifacts removes: all the worker was leased, whoever else
\* holds them.
Cleanup(this) == this.artifactKeys

\* finishWithSimulation ends the run before its work.
Fails(this, sim) ==
  \/ ~this.alive
  \/ this.canceled
  \/ sim \in Runs \ {"works", "cleanup-failure"}

\* The run stores a result.
Stores(this, sim) == ~Fails(this, sim) /\ this.kind = "submission"

\* The run reports success and that its artifacts are gone.
RunIsClean(w, sim) == ~Fails(workers[w], sim) /\ sim = "works"

\* runIntake or runSubmission, finishWithSimulation and failAndClean.  A worker may
\* be run again.
RunWorker(w, sim) ==
  LET this == workers[w]
      unclean == sim = "cleanup-failure" /\ ~Fails(this, sim)
  IN
  /\ this # NoWorker
  /\ workers' = [workers EXCEPT
       ![w].canceled = @ \/ (this.alive /\ sim = "cancel"),
       ![w].last = IF unclean THEN "cleanup-failed" ELSE "cleanup"]
  /\ artifacts' = IF unclean THEN artifacts ELSE artifacts \ Cleanup(this)
  /\ resultStore' = IF Stores(this, sim) THEN resultStore \cup {this.jobId} ELSE resultStore

\* cancel(workerId) leaves the artifacts to the next run.
CancelWorker(w) ==
  /\ workers[w] # NoWorker
  /\ workers' = [workers EXCEPT ![w].canceled = TRUE]
  /\ UNCHANGED <<artifacts, resultStore>>

\* simulateCrash(workerId).
CrashWorker(w) ==
  /\ workers[w] # NoWorker
  /\ workers' = [workers EXCEPT ![w].alive = FALSE, ![w].last = "cleanup"]
  /\ artifacts' = artifacts \ Cleanup(workers[w])
  /\ UNCHANGED resultStore

WorkersTypeOK ==
  /\ workers \in [WorkerIds -> Worker \cup {NoWorker}]
  /\ artifacts \subseteq Keys
  /\ resultStore \subseteq Jobs
=============================================================================
