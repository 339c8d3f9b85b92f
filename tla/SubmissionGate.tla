--------------------------- MODULE SubmissionGate ---------------------------
(***************************************************************************)
(* The submission pipeline (apps/api/pipeline/submission-gate.js): workers,*)
(* retention, vault, status rows, results and history, and the journey     *)
(* that takes one job through all of them.                                 *)
(*                                                                         *)
(* runJourney calls one service after the other and returns at the first   *)
(* failure, leaving in the others what it put there.  Nothing in it waits, *)
(* so no other call comes between its steps; they are three actions here,  *)
(* cut where a journey can end early.  Between journeys the services take  *)
(* the calls of operators, users and schedulers in any order.              *)
(***************************************************************************)
EXTENDS Naturals, FiniteSets

CONSTANTS
  Jobs,          \* the journeys; a job's name is made for its journey
  Keys,
  KeysOf,        \* artifact keys of each journey's files; two may share some
  WorkerIds,
  CredIds,
  Users,
  Owner,         \* the owner of all journeys
  MaxVersion,
  MaxCalls       \* bound on the calls between the journeys

ASSUME GateAssumption ==
  /\ KeysOf \in [Jobs -> SUBSET Keys]
  /\ Owner \in Users
  /\ MaxVersion \in Nat \ {0} /\ MaxCalls \in Nat

VARIABLES
  workers, artifacts, resultStore,
  sources, deletion, deletedAt, retryQueue, approved, alerts,
  creds, keyVersion, backup,
  results, history,
  rows, claimed,
  journey,       \* the journey under way, Idle for none
  outcome,       \* what runJourney returned for each job, "none" before
  calls          \* calls so far

INSTANCE SandboxedWorkers
INSTANCE SourceRetention
INSTANCE CredentialVault
INSTANCE ResultStore
INSTANCE JobStatus

workerVars == <<workers, artifacts, resultStore>>
retentionVars == <<sources, deletion, deletedAt, retryQueue, approved, alerts>>
vaultVars == <<creds, keyVersion, backup>>
resultVars == <<results, history>>
statusVars == <<rows, claimed>>
gateVars == <<journey, outcome>>
vars == <<workerVars, retentionVars, vaultVars, resultVars, statusVars, gateVars, calls>>

Idle == [at |-> "idle"]
Journey ==
  [ at : {"intake", "submission"}, job : Jobs, worker : WorkerIds ]

Init ==
  /\ WorkersInit /\ RetentionInit /\ VaultInit /\ ResultsInit /\ StatusInit
  /\ journey = Idle
  /\ outcome = [j \in Jobs |-> "none"]
  /\ calls = 0

-----------------------------------------------------------------------------
\* runJourney.

\* Every lease and every stored credential gets a name of its own.
NextWorker == Cardinality({w \in WorkerIds : workers[w] # NoWorker}) + 1
NextCred == Cardinality({c \in CredIds : creds[c] # NoCred}) + 1

Return(j, what) ==
  /\ journey' = Idle
  /\ outcome' = [outcome EXCEPT ![j] = what]

\* Registers the source, shows the job as uploading and leases the intake worker.
Begin(j) ==
  LET w == NextWorker
  IN
  /\ journey = Idle
  /\ outcome[j] = "none" /\ w \in WorkerIds
  /\ RegisterSource(j)
  /\ Upsert(j, "uploading", FALSE)
  /\ Lease(w, "intake", j, KeysOf[j])
  /\ journey' = [at |-> "intake", job |-> j, worker |-> w]
  /\ UNCHANGED <<vaultVars, resultVars, outcome>>

\* The intake worker misses its deadline: nobody tells the other services.
IntakeFails ==
  /\ journey.at = "intake"
  /\ RunWorker(journey.worker, "timeout")
  /\ Return(journey.job, "intake")
  /\ UNCHANGED <<retentionVars, vaultVars, resultVars, statusVars>>

\* Intake, credential and lease of the submission worker, whose artifacts are
\* the same keys again; the credential opens and the job is shown as submitting.
IntakeSucceeds ==
  LET j == journey.job
      w == NextWorker
      c == NextCred
      v == journey.worker
      done == [workers[v] EXCEPT !.last = "cleanup"]
      leased == [ kind |-> "submission", jobId |-> j, artifactKeys |-> KeysOf[j],
                  canceled |-> FALSE, alive |-> TRUE, last |-> "leased" ]
  IN
  /\ journey.at = "intake"
  /\ RunIsClean(v, "works")
  /\ w \in WorkerIds /\ workers[w] = NoWorker
  /\ c \in CredIds
  /\ workers' = [workers EXCEPT ![v] = done, ![w] = leased]
  /\ artifacts' = (artifacts \ Cleanup(workers[v])) \cup KeysOf[j]
  /\ StoreCred(c, Owner)
  /\ Upsert(j, "submitting", FALSE)
  /\ journey' = [at |-> "submission", job |-> j, worker |-> w]
  /\ UNCHANGED <<resultStore, retentionVars, resultVars, outcome>>

SubmissionFails ==
  /\ journey.at = "submission"
  /\ RunWorker(journey.worker, "timeout")
  /\ Return(journey.job, "submission")
  /\ UNCHANGED <<retentionVars, vaultVars, resultVars, statusVars>>

TerminalLate(j) == UNCHANGED retentionVars   \* mutant: the source is left to the sweep

\* The last calls: the source is deleted because the job has ended.
EndSource(j) == OnTerminal(j)

\* The submission, and all that is stored of its outcome.
SubmissionSucceeds ==
  LET j == journey.job
  IN
  /\ journey.at = "submission"
  /\ RunIsClean(journey.worker, "works")
  /\ RunWorker(journey.worker, "works")
  /\ Upsert(j, "succeeded", TRUE)
  /\ SaveResult(j)
  /\ Record(j)
  /\ EndSource(j)
  /\ Return(j, "ok")
  /\ UNCHANGED vaultVars

JourneyNext ==
  /\ \/ \E j \in Jobs : Begin(j)
     \/ IntakeFails
     \/ IntakeSucceeds
     \/ SubmissionFails
     \/ SubmissionSucceeds
  /\ UNCHANGED calls

-----------------------------------------------------------------------------
\* The calls between journeys.

WorkerCall ==
  /\ \E w \in WorkerIds :
       \/ \E sim \in Runs : RunWorker(w, sim)
       \/ CancelWorker(w)
       \/ CrashWorker(w)
  /\ UNCHANGED <<retentionVars, vaultVars, resultVars, statusVars>>

RetentionCall ==
  /\ \/ \E j \in Jobs :
          \/ \E outage \in BOOLEAN : DeleteSource(j, outage)
          \/ \E user \in Users, claimed_ \in Users \cup {"none"} :
               UserRequestedDeletion(j, user, claimed_, Owner)
          \/ GrowOld(j)
     \/ RunDeletionRetries
     \/ RunLifecycleSweep
  /\ UNCHANGED <<workerVars, vaultVars, resultVars, statusVars>>

VaultCall ==
  /\ \/ \E old \in CredIds : NextCred \in CredIds /\ ReplaceCred(old, NextCred, Owner)
     \/ \E c \in CredIds : ReplaceFails(c, Owner) \/ DeleteCred(c, Owner)
     \/ RotateKeys
     \/ ExportBackup
     \/ ImportBackup
  /\ UNCHANGED <<workerVars, retentionVars, resultVars, statusVars>>

ResultCall ==
  /\ \E j \in Jobs :
       \/ ForgetUrl(j) \/ ForgetLink(j) \/ DeleteResult(j) \/ DeleteHistory({j})
  /\ UNCHANGED <<workerVars, retentionVars, vaultVars, statusVars>>

PurgeOwner ==
  /\ DeleteHistory(Jobs)
  /\ UNCHANGED <<workerVars, retentionVars, vaultVars, statusVars>>

StatusCall ==
  /\ \E j \in Jobs : RequestCancel(j) \/ MarkForgotten(j)
  /\ UNCHANGED <<workerVars, retentionVars, vaultVars, resultVars>>

ServiceCall ==
  /\ journey = Idle
  /\ calls < MaxCalls /\ calls' = calls + 1
  /\ WorkerCall \/ RetentionCall \/ VaultCall \/ ResultCall \/ PurgeOwner \/ StatusCall
  /\ UNCHANGED gateVars

Next == JourneyNext \/ ServiceCall
Spec == Init /\ [][Next]_vars

-----------------------------------------------------------------------------
\* Properties.

\* The types, and that a journey under way has the worker it will run.
GateTypeOK ==
  /\ WorkersTypeOK /\ RetentionTypeOK /\ VaultTypeOK /\ ResultsTypeOK /\ StatusTypeOK
  /\ journey \in Journey \cup {Idle}
  /\ outcome \in [Jobs -> {"none", "intake", "submission", "ok"}]
  /\ calls \in 0..MaxCalls
  /\ journey # Idle => /\ workers[journey.worker] # NoWorker
                      /\ workers[journey.worker].kind = journey.at
                      /\ workers[journey.worker].last = "leased"

\* An artifact that is still there belongs to a worker that has not run since it
\* was leased, or to one whose cleanup failed; no run, failure, cancellation or
\* crash of workers that share keys leaves one that nobody answers for.  The
\* sentence "artifacts always clean on success, failure, cancel, or crash" of
\* docs/engineering/sandboxed-workers.md:10 is more than that, and does not hold: cancel
\* sets a flag, and what the worker was given stays until it runs or crashes.
PresentArtifactsAreHeld ==
  \A k \in artifacts : \E w \in WorkerIds :
    /\ workers[w] # NoWorker
    /\ k \in workers[w].artifactKeys
    /\ workers[w].last # "cleanup"

\* The audit never says more than happened: "deleted" means the source is gone, a
\* scheduled retry is in the queue whatever was deleted or swept meanwhile, and
\* what is gone has a time of deletion.
AuditIsHonest ==
  \A j \in Jobs :
    /\ deletion[j] = "deleted" => sources[j] = "removed"
    /\ deletion[j] = "retry-scheduled" => j \in retryQueue
    /\ sources[j] = "removed" => j \in deletedAt

\* A journey that returned ok has left no source, its metadata is the approved one,
\* its job is shown as succeeded with the query accepted, and no call made since
\* turns that back.
OkJourneyIsComplete ==
  \A j \in Jobs : outcome[j] = "ok" =>
    /\ sources[j] = "removed" /\ j \in approved
    /\ j \in resultStore
    /\ rows[j].status = "succeeded" /\ rows[j].queryAccepted

\* A journey that failed, or has not returned yet, has left no sign of success with
\* the services it called before: its job is not shown as succeeded nor its query as
\* accepted, whatever was canceled or forgotten since, and neither the results nor the
\* history know it.  A result of a worker is there only when the submission was reached.
FailedJourneyShowsNoSuccess ==
  \A j \in Jobs : outcome[j] # "ok" =>
    /\ results[j] = "none" /\ history[j] = "none"
    /\ rows[j] # NoRow => rows[j].status # "succeeded" /\ ~rows[j].queryAccepted
    /\ outcome[j] # "submission" => j \notin resultStore

\* A journey under way holds the worker it is at, one that returned ok is complete, and
\* one that did not has nothing to show.
JourneysAreHonest == GateTypeOK /\ OkJourneyIsComplete /\ FailedJourneyShowsNoSuccess

\* A live credential opens for its tenant and is wrapped under the current key,
\* through rotations, backups, restores and replacements in any order.
CredentialsFollowRotation ==
  \A c \in CredIds : Live(c) =>
    Decrypts(c, creds[c].tenantId) /\ creds[c].version = keyVersion
=============================================================================
