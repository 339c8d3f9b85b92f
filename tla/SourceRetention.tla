-------------------------- MODULE SourceRetention ---------------------------
(***************************************************************************)
(* Retention of uploaded source (apps/api/retention/source.js): when a     *)
(* source is registered and deleted, what the audit says of it, and which  *)
(* deletions wait for a retry.                                             *)
(***************************************************************************)
CONSTANTS Jobs, Users

VARIABLES
  sources,      \* the record of each job: "none", "present", "beyond" or "removed";
                \* a present one is beyond once it is older than the backstop
  deletion,     \* audit.deletionStatus, "none" before the registration
  deletedAt,    \* jobs whose audit has a deletedAt
  retryQueue,   \* jobs with an item in the queue; repeated items delete once more
  approved,     \* jobs with approved metadata
  alerts        \* jobs for which a lifecycle alert was raised

RetentionInit ==
  /\ sources = [j \in Jobs |-> "none"]
  /\ deletion = [j \in Jobs |-> "none"]
  /\ deletedAt = {}
  /\ retryQueue = {}
  /\ approved = {}
  /\ alerts = {}

\* registerSource.  It starts the audit anew and leaves the queue as it is.
RegisterSource(j) ==
  /\ sources' = [sources EXCEPT ![j] = "present"]
  /\ deletion' = [deletion EXCEPT ![j] = "retained"]
  /\ deletedAt' = deletedAt \ {j}
  /\ UNCHANGED <<retryQueue, approved, alerts>>

\* deleteSource of the jobs, whose storage answers.
Delete(gone) ==
  /\ sources' = [j \in Jobs |-> IF j \in gone THEN "removed" ELSE sources[j]]
  /\ deletion' = [j \in Jobs |-> IF j \in gone THEN "deleted" ELSE deletion[j]]
  /\ deletedAt' = deletedAt \cup gone

QueuedOnce(j) ==          \* mutant: only the first outage is remembered
  IF j \in deletedAt THEN retryQueue ELSE retryQueue \cup {j}

Queued(j) == retryQueue \cup {j}

\* deleteSource of one registered job, with or without a storage outage.
DeleteSource(j, outage) ==
  /\ sources[j] # "none"
  /\ \/ ~outage /\ Delete({j}) /\ UNCHANGED retryQueue
     \/ /\ outage
        /\ deletion' = [deletion EXCEPT ![j] = "retry-scheduled"]
        /\ retryQueue' = Queued(j)
        /\ UNCHANGED <<sources, deletedAt>>
  /\ UNCHANGED <<approved, alerts>>

\* onTerminal with metadata; onWorkerCrash is DeleteSource(j, FALSE).
OnTerminal(j) ==
  /\ sources[j] # "none"
  /\ Delete({j})
  /\ approved' = approved \cup {j}
  /\ UNCHANGED <<retryQueue, alerts>>

\* The check of userRequestedDeletion: a caller that names no owner, or the owner of
\* the source, is let through.
MayDelete(user, claimed, owner) == claimed \in {"none", user} \/ user = owner

UserRequestedDeletion(j, user, claimed, owner) ==
  MayDelete(user, claimed, owner) /\ DeleteSource(j, FALSE)

\* runDeletionRetries empties the queue before it deletes.
RunDeletionRetries ==
  /\ retryQueue # {}
  /\ Delete(retryQueue)
  /\ retryQueue' = {}
  /\ UNCHANGED <<approved, alerts>>

\* The source of j gets older than the backstop.
GrowOld(j) ==
  /\ sources[j] = "present"
  /\ sources' = [sources EXCEPT ![j] = "beyond"]
  /\ UNCHANGED <<deletion, deletedAt, retryQueue, approved, alerts>>

\* What runLifecycleSweep deletes, with an alert for each.
Swept == {j \in Jobs : sources[j] = "beyond"}

RunLifecycleSweep ==
  /\ Delete(Swept)
  /\ alerts' = alerts \cup Swept
  /\ UNCHANGED <<retryQueue, approved>>

RetentionTypeOK ==
  /\ sources \in [Jobs -> {"none", "present", "beyond", "removed"}]
  /\ deletion \in [Jobs -> {"none", "retained", "retry-scheduled", "deleted"}]
  /\ deletedAt \subseteq Jobs /\ retryQueue \subseteq Jobs
  /\ approved \subseteq Jobs /\ alerts \subseteq Jobs
=============================================================================
