------------------------ MODULE SubmissionGateProofs ------------------------
(***************************************************************************)
(* The safety invariants of SubmissionGate hold for any journeys, artifact *)
(* keys, workers, credentials and key versions, however many calls come    *)
(* between the journeys.                                                   *)
(***************************************************************************)
EXTENDS SubmissionGate, TLAPS

\* A journey under way is its worker's, and has returned nothing yet.
JourneyIsFirst ==
  journey # Idle =>
    /\ outcome[journey.job] = "none"
    /\ workers[journey.worker].jobId = journey.job

\* The inductive strengthening of the invariants.
IInv ==
  /\ GateTypeOK
  /\ OkJourneyIsComplete
  /\ JourneyIsFirst
  /\ PresentArtifactsAreHeld
  /\ AuditIsHonest
  /\ CredentialsFollowRotation

-----------------------------------------------------------------------------
\* Each service keeps what is said of its own variables.

\* One run of a worker: its types, and that what is present is still held.
LEMMA RunKeeps ==
  ASSUME WorkersTypeOK, PresentArtifactsAreHeld,
         NEW w \in WorkerIds, NEW sim \in Runs, RunWorker(w, sim)
  PROVE  /\ WorkersTypeOK'
         /\ PresentArtifactsAreHeld'
         /\ \A v \in WorkerIds \ {w} : workers'[v] = workers[v]
         /\ resultStore \subseteq resultStore'
<1>1. workers[w] \in Worker
  BY DEF RunWorker, WorkersTypeOK
<1>2. /\ DOMAIN workers = WorkerIds
      /\ workers' = [workers EXCEPT ![w] = workers'[w]]
      /\ workers'[w] \in Worker
      /\ workers'[w] # NoWorker
      /\ workers'[w].artifactKeys = workers[w].artifactKeys
  BY <1>1 DEF RunWorker, WorkersTypeOK, Worker, NoWorker
<1>3. WorkersTypeOK'
  BY <1>1, <1>2 DEF RunWorker, WorkersTypeOK, Worker
<1>4. PresentArtifactsAreHeld'
  <2> SUFFICES ASSUME NEW k \in artifacts'
               PROVE  \E u \in WorkerIds :
                        /\ workers'[u] # NoWorker
                        /\ k \in workers'[u].artifactKeys
                        /\ workers'[u].last # "cleanup"
    BY DEF PresentArtifactsAreHeld
  <2>1. PICK u \in WorkerIds :
          /\ workers[u] # NoWorker
          /\ k \in workers[u].artifactKeys
          /\ workers[u].last # "cleanup"
    BY DEF PresentArtifactsAreHeld, RunWorker
  <2>2. CASE u # w
    BY <1>2, <2>1, <2>2
  <2>3. CASE u = w
    <3>1. workers'[w].last = "cleanup-failed"
      BY <1>1, <2>1, <2>3 DEF RunWorker, Cleanup, WorkersTypeOK, Worker
    <3> QED
      BY <1>2, <2>1, <2>3, <3>1
  <2> QED
    BY <2>2, <2>3
<1> QED
  BY <1>2, <1>3, <1>4 DEF RunWorker

\* The lease of an unused worker holds what it adds.
LEMMA LeaseKeeps ==
  ASSUME WorkersTypeOK, PresentArtifactsAreHeld,
         NEW w \in WorkerIds, NEW kind \in {"intake", "submission"}, NEW j \in Jobs,
         NEW keys \in SUBSET Keys, Lease(w, kind, j, keys)
  PROVE  /\ WorkersTypeOK'
         /\ PresentArtifactsAreHeld'
         /\ workers'[w] # NoWorker
         /\ workers'[w].kind = kind /\ workers'[w].jobId = j /\ workers'[w].last = "leased"
         /\ resultStore' = resultStore
<1> DEFINE leased == [ kind |-> kind, jobId |-> j, artifactKeys |-> keys,
                       canceled |-> FALSE, alive |-> TRUE, last |-> "leased" ]
<1>1. /\ leased \in Worker /\ leased # NoWorker /\ workers' = [workers EXCEPT ![w] = leased]
      /\ leased.artifactKeys = keys /\ leased.last = "leased"
  BY DEF Lease, Worker, NoWorker
<1>2. WorkersTypeOK'
  BY <1>1 DEF Lease, WorkersTypeOK
<1>3. PresentArtifactsAreHeld'
  BY <1>1 DEF Lease, WorkersTypeOK, PresentArtifactsAreHeld
<1> QED
  BY <1>1, <1>2, <1>3 DEF Lease, WorkersTypeOK

\* Cancellation and crash of a worker.
LEMMA StopKeeps ==
  ASSUME WorkersTypeOK, PresentArtifactsAreHeld,
         NEW w \in WorkerIds, CancelWorker(w) \/ CrashWorker(w)
  PROVE  WorkersTypeOK' /\ PresentArtifactsAreHeld' /\ resultStore' = resultStore
<1>1. workers[w] \in Worker
  BY DEF CancelWorker, CrashWorker, WorkersTypeOK
<1>2. CASE CancelWorker(w)
  <2>1. /\ workers'[w] \in Worker /\ workers'[w] # NoWorker
        /\ workers'[w].artifactKeys = workers[w].artifactKeys
        /\ workers'[w].last = workers[w].last
        /\ workers' = [workers EXCEPT ![w] = workers'[w]]
    BY <1>1, <1>2 DEF CancelWorker, WorkersTypeOK, Worker, NoWorker
  <2> QED
    BY <1>2, <2>1 DEF CancelWorker, WorkersTypeOK, PresentArtifactsAreHeld
<1>3. CASE CrashWorker(w)
  <2>1. /\ workers'[w] \in Worker /\ workers'[w] # NoWorker
        /\ workers' = [workers EXCEPT ![w] = workers'[w]]
    BY <1>1, <1>3 DEF CrashWorker, WorkersTypeOK, Worker, NoWorker
  <2>2. \A k \in artifacts' : k \in artifacts /\ k \notin workers[w].artifactKeys
    BY <1>3 DEF CrashWorker, Cleanup
  <2> QED
    BY <1>3, <2>1, <2>2 DEF CrashWorker, WorkersTypeOK, PresentArtifactsAreHeld
<1> QED
  BY <1>2, <1>3

\* Deletion of any set of sources.
LEMMA DeleteKeeps ==
  ASSUME RetentionTypeOK, AuditIsHonest, NEW gone \in SUBSET Jobs, Delete(gone)
  PROVE  /\ sources' \in [Jobs -> {"none", "present", "beyond", "removed"}]
         /\ deletion' \in [Jobs -> {"none", "retained", "retry-scheduled", "deleted"}]
         /\ deletedAt' \subseteq Jobs
         /\ \A j \in Jobs : /\ sources[j] = "removed" => sources'[j] = "removed"
                            /\ deletion'[j] = "deleted" => sources'[j] = "removed"
                            /\ deletion'[j] = "retry-scheduled" =>
                                 deletion[j] = "retry-scheduled" /\ j \notin gone
                            /\ sources'[j] = "removed" => j \in deletedAt'
  BY DEF Delete, RetentionTypeOK, AuditIsHonest

\* A deletion with or without an outage, a retry round, ageing and a sweep.
LEMMA RetentionKeeps ==
  ASSUME RetentionTypeOK, AuditIsHonest,
         \/ \E j \in Jobs, outage \in BOOLEAN : DeleteSource(j, outage)
         \/ \E j \in Jobs : GrowOld(j)
         \/ \E j \in Jobs : OnTerminal(j)
         \/ RunDeletionRetries
         \/ RunLifecycleSweep
  PROVE  /\ RetentionTypeOK' /\ AuditIsHonest'
         /\ approved \subseteq approved'
         /\ \A j \in Jobs : sources[j] = "removed" => sources'[j] = "removed"
<1>1. ASSUME NEW j \in Jobs, NEW outage \in BOOLEAN, DeleteSource(j, outage)
      PROVE  /\ RetentionTypeOK' /\ AuditIsHonest' /\ approved \subseteq approved'
             /\ \A i \in Jobs : sources[i] = "removed" => sources'[i] = "removed"
  <2>1. CASE Delete({j}) /\ UNCHANGED retryQueue
    BY <1>1, <2>1, DeleteKeeps DEF DeleteSource, RetentionTypeOK, AuditIsHonest
  <2>2. CASE /\ deletion' = [deletion EXCEPT ![j] = "retry-scheduled"]
             /\ retryQueue' = Queued(j)
             /\ UNCHANGED <<sources, deletedAt>>
    BY <1>1, <2>2 DEF DeleteSource, Queued, RetentionTypeOK, AuditIsHonest
  <2> QED
    BY <1>1, <2>1, <2>2 DEF DeleteSource
<1>2. ASSUME NEW j \in Jobs, GrowOld(j)
      PROVE  /\ RetentionTypeOK' /\ AuditIsHonest' /\ approved \subseteq approved'
             /\ \A i \in Jobs : sources[i] = "removed" => sources'[i] = "removed"
  BY <1>2 DEF GrowOld, RetentionTypeOK, AuditIsHonest
<1>3. ASSUME NEW j \in Jobs, OnTerminal(j)
      PROVE  /\ RetentionTypeOK' /\ AuditIsHonest' /\ approved \subseteq approved'
             /\ \A i \in Jobs : sources[i] = "removed" => sources'[i] = "removed"
  BY <1>3, DeleteKeeps DEF OnTerminal, RetentionTypeOK, AuditIsHonest
<1>4. CASE RunDeletionRetries
  BY <1>4, DeleteKeeps DEF RunDeletionRetries, RetentionTypeOK, AuditIsHonest
<1>5. CASE RunLifecycleSweep
  <2>1. Swept \in SUBSET Jobs
    BY DEF Swept
  <2> QED
    BY <1>5, <2>1, DeleteKeeps DEF RunLifecycleSweep, RetentionTypeOK, AuditIsHonest
<1> QED
  BY <1>1, <1>2, <1>3, <1>4, <1>5

\* The calls of the vault.
LEMMA VaultKeeps ==
  ASSUME VaultTypeOK, CredentialsFollowRotation,
         \/ \E c \in CredIds : StoreCred(c, Owner)
         \/ \E old, c \in CredIds : ReplaceCred(old, c, Owner)
         \/ \E c \in CredIds : DeleteCred(c, Owner)
         \/ \E old \in CredIds : ReplaceFails(old, Owner)
         \/ RotateKeys
         \/ ExportBackup
         \/ ImportBackup
  PROVE  VaultTypeOK' /\ CredentialsFollowRotation'
<1> USE GateAssumption
<1>0. \A c \in CredIds, v \in 1..MaxVersion :
        /\ creds[c] \in Cred => Rewrap(creds[c], v) \in Cred
        /\ backup[c] \in Cred => Rewrap(backup[c], v) \in Cred
        /\ NoCred \notin Cred
  BY DEF Rewrap, Cred, NoCred
<1>1. ASSUME NEW c \in CredIds, StoreCred(c, Owner)
      PROVE  VaultTypeOK' /\ CredentialsFollowRotation'
  BY <1>1 DEF StoreCred, Stored, VaultTypeOK, Cred, NoCred, CredentialsFollowRotation,
              Live, Decrypts
<1>2. ASSUME NEW old \in CredIds, NEW c \in CredIds, ReplaceCred(old, c, Owner)
      PROVE  VaultTypeOK' /\ CredentialsFollowRotation'
  <2> DEFINE fresh == [ state |-> "live", tenantId |-> Owner,
                        wrapped |-> keyVersion, version |-> keyVersion ]
             past == [creds[old] EXCEPT !.state = IF @ = "live" THEN "revoked" ELSE @]
  <2>1. old # c /\ creds[old] \in Cred
    BY <1>2 DEF ReplaceCred, Owned, VaultTypeOK
  <2>2. fresh \in Cred /\ past \in Cred /\ past.state # "live"
    BY <2>1 DEF VaultTypeOK, Cred
  <2>3. creds' = [creds EXCEPT ![c] = fresh, ![old] = past]
    BY <1>2, <2>1 DEF ReplaceCred, Stored, Revoked, VaultTypeOK
  <2>4. /\ fresh.version = keyVersion /\ fresh.wrapped = keyVersion
        /\ UNCHANGED <<keyVersion, backup>>
    BY <1>2 DEF ReplaceCred
  <2> HIDE DEF past, fresh
  <2>5. VaultTypeOK'
    BY <2>2, <2>3, <2>4 DEF VaultTypeOK
  <2>6. CredentialsFollowRotation'
    BY <2>1, <2>2, <2>3, <2>4 DEF VaultTypeOK, CredentialsFollowRotation, Live, Decrypts
  <2> QED
    BY <2>5, <2>6
<1>7. ASSUME NEW old \in CredIds, ReplaceFails(old, Owner)
      PROVE  VaultTypeOK' /\ CredentialsFollowRotation'
  <2> DEFINE past == [creds[old] EXCEPT !.state = IF @ = "live" THEN "revoked" ELSE @]
  <2>1. creds[old] \in Cred
    BY <1>7 DEF ReplaceFails, Owned, VaultTypeOK
  <2>2. past \in Cred /\ past.state # "live"
    BY <2>1 DEF Cred
  <2>3. creds' = [creds EXCEPT ![old] = past] /\ UNCHANGED <<keyVersion, backup>>
    BY <1>7 DEF ReplaceFails, Revoked, VaultTypeOK
  <2> HIDE DEF past
  <2> QED
    BY <2>2, <2>3 DEF VaultTypeOK, CredentialsFollowRotation, Live, Decrypts
<1>3. ASSUME NEW c \in CredIds, DeleteCred(c, Owner)
      PROVE  VaultTypeOK' /\ CredentialsFollowRotation'
  BY <1>3 DEF DeleteCred, Owned, VaultTypeOK, Cred, NoCred, CredentialsFollowRotation,
              Live, Decrypts
<1>4. CASE RotateKeys
  <2>1. keyVersion' \in 1..MaxVersion
    BY <1>4 DEF RotateKeys, VaultTypeOK
  <2>2. VaultTypeOK'
    BY <1>0, <1>4, <2>1 DEF RotateKeys, VaultTypeOK, Live, NoCred
  <2>3. CredentialsFollowRotation'
    <3> SUFFICES ASSUME NEW c \in CredIds, creds'[c].state = "live"
                 PROVE  creds'[c].version = creds'[c].wrapped /\ creds'[c].version = keyVersion'
      BY DEF CredentialsFollowRotation, Live, Decrypts
    <3>1. Live(c) /\ creds[c] \in Cred /\ creds'[c] = Rewrap(creds[c], keyVersion')
      BY <1>4 DEF RotateKeys, VaultTypeOK, Live, NoCred
    <3> QED
      BY <3>1 DEF Rewrap, Cred
  <2> QED
    BY <2>2, <2>3
<1>5. CASE ExportBackup
  <2>1. 1 \in 1..MaxVersion
    OBVIOUS
  <2> QED
    BY <1>0, <1>5, <2>1 DEF ExportBackup, VaultTypeOK, Live, NoCred,
                            CredentialsFollowRotation, Decrypts
<1>6. CASE ImportBackup
  <2>1. VaultTypeOK'
    BY <1>0, <1>6 DEF ImportBackup, VaultTypeOK
  <2>2. CredentialsFollowRotation'
    BY <1>6 DEF ImportBackup, VaultTypeOK, Rewrap, Cred, NoCred, CredentialsFollowRotation,
                Live, Decrypts
  <2> QED
    BY <2>1, <2>2
<1> QED
  BY <1>1, <1>2, <1>3, <1>4, <1>5, <1>6, <1>7

\* A status row that is written keeps its type, and another row stays as it is.
LEMMA UpsertKeeps ==
  ASSUME StatusTypeOK, NEW j \in Jobs, NEW status \in Statuses, NEW accepted \in BOOLEAN,
         Upsert(j, status, accepted)
  PROVE  /\ StatusTypeOK'
         /\ rows'[j] \in Row /\ rows'[j].status = status
         /\ accepted => rows'[j].queryAccepted
         /\ \A i \in Jobs \ {j} : rows'[i] = rows[i]
<1>1. rows[j] = NoRow \/ rows[j] \in Row
  BY DEF StatusTypeOK
<1>2. Upserted(j, status, accepted) \in Row
  BY <1>1 DEF Upserted, Row, NoRow
<1> QED
  BY <1>2 DEF Upsert, Upserted, StatusTypeOK

\* A cancel request and a forgotten report leave what has succeeded as it is.
LEMMA StatusKeeps ==
  ASSUME StatusTypeOK, NEW j \in Jobs, RequestCancel(j) \/ MarkForgotten(j)
  PROVE  /\ StatusTypeOK'
         /\ \A i \in Jobs : rows[i].status = "succeeded" /\ rows[i].queryAccepted =>
              rows'[i].status = "succeeded" /\ rows'[i].queryAccepted
<1>1. rows[j] \in Row
  BY DEF RequestCancel, MarkForgotten, StatusTypeOK
<1>2. CASE RequestCancel(j)
  BY <1>1, <1>2 DEF RequestCancel, StatusTypeOK, Row, Statuses, Terminal
<1>3. CASE MarkForgotten(j)
  BY <1>1, <1>3 DEF MarkForgotten, StatusTypeOK, Row
<1> QED
  BY <1>2, <1>3

-----------------------------------------------------------------------------
\* The steps of a journey.

LEMMA InitIInv == Init => IInv
<1> SUFFICES ASSUME Init PROVE IInv
  OBVIOUS
<1> USE GateAssumption
<1>1. WorkersTypeOK /\ PresentArtifactsAreHeld
  BY DEF Init, WorkersInit, WorkersTypeOK, PresentArtifactsAreHeld
<1>2. RetentionTypeOK /\ AuditIsHonest
  BY DEF Init, RetentionInit, RetentionTypeOK, AuditIsHonest
<1>3. VaultTypeOK /\ CredentialsFollowRotation
  BY DEF Init, VaultInit, VaultTypeOK, CredentialsFollowRotation, Live, NoCred
<1>4. ResultsTypeOK /\ StatusTypeOK
  BY DEF Init, ResultsInit, ResultsTypeOK, StatusInit, StatusTypeOK
<1>5. /\ journey = Idle /\ outcome = [j \in Jobs |-> "none"]
      /\ calls \in 0..MaxCalls
  BY DEF Init
<1> QED
  BY <1>1, <1>2, <1>3, <1>4, <1>5 DEF IInv, GateTypeOK, OkJourneyIsComplete, JourneyIsFirst

LEMMA BeginKeeps ==
  ASSUME IInv, NEW j \in Jobs, Begin(j), UNCHANGED calls
  PROVE  IInv'
<1> DEFINE w == NextWorker
<1>1. /\ w \in WorkerIds /\ Lease(w, "intake", j, KeysOf[j])
      /\ RegisterSource(j) /\ Upsert(j, "uploading", FALSE)
      /\ outcome[j] = "none"
      /\ journey' = [at |-> "intake", job |-> j, worker |-> w]
      /\ UNCHANGED <<vaultVars, resultVars, outcome>>
  BY DEF Begin
<1> HIDE DEF w
<1>2. /\ WorkersTypeOK' /\ PresentArtifactsAreHeld'
      /\ workers'[w] # NoWorker
      /\ workers'[w].kind = "intake" /\ workers'[w].jobId = j /\ workers'[w].last = "leased"
      /\ resultStore' = resultStore
  <2>1. KeysOf[j] \in SUBSET Keys /\ WorkersTypeOK /\ PresentArtifactsAreHeld
    BY GateAssumption DEF IInv, GateTypeOK
  <2> QED
    BY <1>1, <2>1, LeaseKeeps
<1>3. RetentionTypeOK' /\ AuditIsHonest'
  BY <1>1 DEF IInv, GateTypeOK, RegisterSource, RetentionTypeOK, AuditIsHonest
<1>4. VaultTypeOK' /\ CredentialsFollowRotation' /\ ResultsTypeOK'
  BY <1>1 DEF IInv, GateTypeOK, vaultVars, resultVars, VaultTypeOK, ResultsTypeOK,
              CredentialsFollowRotation, Live, Decrypts
<1>5. StatusTypeOK' /\ \A i \in Jobs \ {j} : rows'[i] = rows[i]
  <2>1. StatusTypeOK /\ "uploading" \in Statuses
    BY DEF IInv, GateTypeOK, Statuses
  <2> QED
    BY <1>1, <2>1, UpsertKeeps
<1>6. OkJourneyIsComplete'
  BY <1>1, <1>2, <1>5 DEF IInv, GateTypeOK, OkJourneyIsComplete, RegisterSource,
                          RetentionTypeOK
<1>7. GateTypeOK' /\ JourneyIsFirst'
  BY <1>1, <1>2, <1>3, <1>4, <1>5 DEF IInv, GateTypeOK, Journey, JourneyIsFirst
<1> QED
  BY <1>2, <1>3, <1>4, <1>6, <1>7 DEF IInv

\* What a journey under way is known to have.
LEMMA UnderWay ==
  ASSUME IInv, journey # Idle
  PROVE  /\ journey \in Journey /\ journey.job \in Jobs /\ journey.worker \in WorkerIds
         /\ workers[journey.worker] \in Worker
         /\ workers[journey.worker].kind = journey.at
         /\ workers[journey.worker].jobId = journey.job
         /\ workers[journey.worker].last = "leased"
         /\ outcome[journey.job] = "none"
BY DEF IInv, GateTypeOK, JourneyIsFirst, Journey, WorkersTypeOK

\* A journey that ends early: its worker has run out of time, and that is all.
LEMMA FailureKeeps ==
  ASSUME IInv, IntakeFails \/ SubmissionFails, UNCHANGED calls
  PROVE  IInv'
<1>1. PICK what \in {"intake", "submission"} :
        /\ RunWorker(journey.worker, "timeout") /\ Return(journey.job, what)
        /\ journey # Idle
        /\ UNCHANGED <<retentionVars, vaultVars, resultVars, statusVars>>
  BY DEF IntakeFails, SubmissionFails, Idle
<1>2. /\ journey.job \in Jobs /\ journey.worker \in WorkerIds /\ outcome[journey.job] = "none"
  BY <1>1, UnderWay
<1>3. /\ WorkersTypeOK' /\ PresentArtifactsAreHeld' /\ resultStore \subseteq resultStore'
  <2>1. "timeout" \in Runs /\ WorkersTypeOK /\ PresentArtifactsAreHeld
    BY DEF IInv, GateTypeOK, Runs
  <2> QED
    BY <1>1, <1>2, <2>1, RunKeeps
<1>4. /\ journey' = Idle
      /\ outcome' \in [Jobs -> {"none", "intake", "submission", "ok"}]
      /\ \A j \in Jobs : outcome'[j] = "ok" => outcome[j] = "ok"
  BY <1>1, <1>2 DEF Return, IInv, GateTypeOK
<1>5. OkJourneyIsComplete'
  BY <1>1, <1>3, <1>4 DEF IInv, OkJourneyIsComplete, retentionVars, statusVars
<1>6. AuditIsHonest' /\ CredentialsFollowRotation'
  BY <1>1 DEF IInv, AuditIsHonest, retentionVars, vaultVars, CredentialsFollowRotation,
              Live, Decrypts
<1>7. RetentionTypeOK' /\ VaultTypeOK' /\ ResultsTypeOK' /\ StatusTypeOK'
  BY <1>1 DEF IInv, GateTypeOK, retentionVars, vaultVars, resultVars, statusVars,
              RetentionTypeOK, VaultTypeOK, ResultsTypeOK, StatusTypeOK
<1>8. GateTypeOK' /\ JourneyIsFirst'
  BY <1>3, <1>4, <1>7 DEF IInv, GateTypeOK, JourneyIsFirst
<1> QED
  BY <1>3, <1>5, <1>6, <1>8 DEF IInv

LEMMA IntakeSucceedsKeeps ==
  ASSUME IInv, IntakeSucceeds, UNCHANGED calls
  PROVE  IInv'
<1> DEFINE j == journey.job
           w == NextWorker
           v == journey.worker
           done == [workers[v] EXCEPT !.last = "cleanup"]
           leased == [ kind |-> "submission", jobId |-> j, artifactKeys |-> KeysOf[j],
                       canceled |-> FALSE, alive |-> TRUE, last |-> "leased" ]
<1>1. PICK c \in CredIds :
        /\ w \in WorkerIds /\ workers[w] = NoWorker
        /\ workers' = [workers EXCEPT ![v] = done, ![w] = leased]
        /\ artifacts' = (artifacts \ Cleanup(workers[v])) \cup KeysOf[j]
        /\ StoreCred(c, Owner)
        /\ Upsert(j, "submitting", FALSE)
        /\ journey' = [at |-> "submission", job |-> j, worker |-> w]
        /\ journey # Idle
        /\ UNCHANGED <<resultStore, retentionVars, resultVars, outcome>>
  <2>1. journey.at = "intake" => journey # Idle
    BY DEF Idle
  <2> QED
    BY <2>1 DEF IntakeSucceeds
<1>2. /\ j \in Jobs /\ v \in WorkerIds /\ workers[v] \in Worker /\ outcome[j] = "none"
  BY <1>1, UnderWay
<1>3. KeysOf[j] \in SUBSET Keys
  BY <1>2, GateAssumption
<1>4. /\ done \in Worker /\ done.artifactKeys = workers[v].artifactKeys
      /\ leased \in Worker /\ leased.artifactKeys = KeysOf[j]
      /\ leased.last = "leased" /\ leased.kind = "submission" /\ leased.jobId = j
      /\ NoWorker \notin Worker
  BY <1>2, <1>3 DEF Worker, NoWorker
<1>5. v # w
  BY <1>1, <1>2, <1>4
<1> HIDE DEF done, leased, w, v, j
<1>6. WorkersTypeOK'
  BY <1>1, <1>2, <1>3, <1>4 DEF IInv, GateTypeOK, WorkersTypeOK
<1>7. workers'[w] = leased /\ \A u \in WorkerIds \ {v, w} : workers'[u] = workers[u]
  BY <1>1, <1>5 DEF IInv, GateTypeOK, WorkersTypeOK
<1>8. PresentArtifactsAreHeld'
  <2> SUFFICES ASSUME NEW k \in artifacts'
               PROVE  \E u \in WorkerIds :
                        /\ workers'[u] # NoWorker
                        /\ k \in workers'[u].artifactKeys
                        /\ workers'[u].last # "cleanup"
    BY DEF PresentArtifactsAreHeld
  <2>1. CASE k \in KeysOf[j]
    BY <1>1, <1>4, <1>7, <2>1
  <2>2. CASE k \notin KeysOf[j]
    <3>1. k \in artifacts /\ k \notin workers[v].artifactKeys
      BY <1>1, <2>2 DEF Cleanup
    <3>2. PICK u \in WorkerIds :
            /\ workers[u] # NoWorker
            /\ k \in workers[u].artifactKeys
            /\ workers[u].last # "cleanup"
      BY <3>1 DEF IInv, PresentArtifactsAreHeld
    <3> QED
      BY <1>1, <1>7, <3>1, <3>2
  <2> QED
    BY <2>1, <2>2
<1>9. VaultTypeOK' /\ CredentialsFollowRotation'
  BY <1>1, VaultKeeps DEF IInv, GateTypeOK
<1>10. StatusTypeOK' /\ \A i \in Jobs \ {j} : rows'[i] = rows[i]
  <2>1. StatusTypeOK /\ "submitting" \in Statuses
    BY DEF IInv, GateTypeOK, Statuses
  <2> QED
    BY <1>1, <1>2, <2>1, UpsertKeeps
<1>11. RetentionTypeOK' /\ AuditIsHonest' /\ ResultsTypeOK'
  BY <1>1 DEF IInv, GateTypeOK, retentionVars, resultVars, RetentionTypeOK, ResultsTypeOK,
              AuditIsHonest
<1>12. OkJourneyIsComplete'
  BY <1>1, <1>2, <1>10 DEF IInv, OkJourneyIsComplete, retentionVars
<1>13. GateTypeOK' /\ JourneyIsFirst'
  BY <1>1, <1>2, <1>4, <1>6, <1>7, <1>9, <1>10, <1>11
     DEF IInv, GateTypeOK, Journey, JourneyIsFirst
<1> QED
  BY <1>8, <1>9, <1>11, <1>12, <1>13 DEF IInv

LEMMA SubmissionSucceedsKeeps ==
  ASSUME IInv, SubmissionSucceeds, UNCHANGED calls
  PROVE  IInv'
<1> DEFINE j == journey.job
<1>1. /\ journey.at = "submission" /\ journey # Idle
      /\ RunIsClean(journey.worker, "works") /\ RunWorker(journey.worker, "works")
      /\ Upsert(j, "succeeded", TRUE) /\ SaveResult(j) /\ Record(j)
      /\ OnTerminal(j) /\ Return(j, "ok") /\ UNCHANGED vaultVars
  <2>1. journey.at = "submission" => journey # Idle
    BY DEF Idle
  <2> QED
    BY <2>1 DEF SubmissionSucceeds, EndSource
<1>2. /\ j \in Jobs /\ journey.worker \in WorkerIds /\ outcome[j] = "none"
      /\ workers[journey.worker].kind = "submission" /\ workers[journey.worker].jobId = j
  BY <1>1, UnderWay
<1> HIDE DEF j
<1>3. /\ WorkersTypeOK' /\ PresentArtifactsAreHeld' /\ resultStore \subseteq resultStore'
  <2>1. "works" \in Runs /\ WorkersTypeOK /\ PresentArtifactsAreHeld
    BY DEF IInv, GateTypeOK, Runs
  <2> QED
    BY <1>1, <1>2, <2>1, RunKeeps
<1>4. j \in resultStore'
  BY <1>1, <1>2 DEF RunIsClean, RunWorker, Stores
<1>5. /\ RetentionTypeOK' /\ AuditIsHonest' /\ approved \subseteq approved'
      /\ \A i \in Jobs : sources[i] = "removed" => sources'[i] = "removed"
  BY <1>1, <1>2, RetentionKeeps DEF IInv, GateTypeOK
<1>6. sources'[j] = "removed" /\ j \in approved'
  BY <1>1, <1>2 DEF OnTerminal, Delete
<1>7. /\ StatusTypeOK' /\ rows'[j].status = "succeeded" /\ rows'[j].queryAccepted
      /\ \A i \in Jobs \ {j} : rows'[i] = rows[i]
  <2>1. StatusTypeOK /\ "succeeded" \in Statuses
    BY DEF IInv, GateTypeOK, Statuses, Terminal
  <2> QED
    BY <1>1, <1>2, <2>1, UpsertKeeps
<1>8. ResultsTypeOK'
  BY <1>1, <1>2 DEF IInv, GateTypeOK, SaveResult, Record, ResultsTypeOK
<1>9. VaultTypeOK' /\ CredentialsFollowRotation'
  BY <1>1 DEF IInv, GateTypeOK, vaultVars, VaultTypeOK, CredentialsFollowRotation,
              Live, Decrypts
<1>10. /\ journey' = Idle
       /\ outcome' \in [Jobs -> {"none", "intake", "submission", "ok"}]
       /\ \A i \in Jobs \ {j} : outcome'[i] = outcome[i]
  BY <1>1, <1>2 DEF Return, IInv, GateTypeOK
<1>11. OkJourneyIsComplete'
  BY <1>3, <1>4, <1>5, <1>6, <1>7, <1>10 DEF IInv, OkJourneyIsComplete
<1>12. GateTypeOK' /\ JourneyIsFirst'
  BY <1>3, <1>5, <1>7, <1>8, <1>9, <1>10 DEF IInv, GateTypeOK, JourneyIsFirst
<1> QED
  BY <1>3, <1>5, <1>9, <1>11, <1>12 DEF IInv

-----------------------------------------------------------------------------
\* The calls between journeys; each disturbs the variables of one service.

LEMMA ServiceKeeps ==
  ASSUME IInv, ServiceCall
  PROVE  IInv'
<1> USE GateAssumption DEF gateVars
<1>1. /\ journey' = Idle /\ UNCHANGED <<journey, outcome>>
      /\ calls' \in 0..MaxCalls
  BY DEF ServiceCall, IInv, GateTypeOK
<1>2. CASE WorkerCall
  <2>1. UNCHANGED <<retentionVars, vaultVars, resultVars, statusVars>>
    BY <1>2 DEF WorkerCall
  <2>2. /\ WorkersTypeOK' /\ PresentArtifactsAreHeld' /\ resultStore \subseteq resultStore'
    <3>1. WorkersTypeOK /\ PresentArtifactsAreHeld
      BY DEF IInv, GateTypeOK
    <3>2. PICK w \in WorkerIds :
            (\E sim \in Runs : RunWorker(w, sim)) \/ CancelWorker(w) \/ CrashWorker(w)
      BY <1>2 DEF WorkerCall
    <3>3. CASE \E sim \in Runs : RunWorker(w, sim)
      BY <3>1, <3>3, RunKeeps
    <3>4. CASE CancelWorker(w) \/ CrashWorker(w)
      BY <3>1, <3>4, StopKeeps
    <3> QED
      BY <3>2, <3>3, <3>4
  <2>3. OkJourneyIsComplete'
    BY <1>1, <2>1, <2>2 DEF IInv, OkJourneyIsComplete, retentionVars, statusVars
  <2>4. /\ AuditIsHonest' /\ CredentialsFollowRotation' /\ RetentionTypeOK'
        /\ VaultTypeOK' /\ ResultsTypeOK' /\ StatusTypeOK'
    BY <2>1 DEF IInv, GateTypeOK, AuditIsHonest, retentionVars, vaultVars, resultVars,
                statusVars, CredentialsFollowRotation, Live, Decrypts, RetentionTypeOK,
                VaultTypeOK, ResultsTypeOK, StatusTypeOK
  <2> QED
    BY <1>1, <2>2, <2>3, <2>4 DEF IInv, GateTypeOK, JourneyIsFirst
<1>3. CASE RetentionCall
  <2>1. UNCHANGED <<workerVars, vaultVars, resultVars, statusVars>>
    BY <1>3 DEF RetentionCall
  <2>2. /\ RetentionTypeOK' /\ AuditIsHonest' /\ approved \subseteq approved'
        /\ \A i \in Jobs : sources[i] = "removed" => sources'[i] = "removed"
    <3>1. RetentionTypeOK /\ AuditIsHonest
      BY DEF IInv, GateTypeOK
    <3>2. \/ \E j \in Jobs, outage \in BOOLEAN : DeleteSource(j, outage)
          \/ \E j \in Jobs : GrowOld(j)
          \/ RunDeletionRetries
          \/ RunLifecycleSweep
      BY <1>3 DEF RetentionCall, UserRequestedDeletion
    <3> QED
      BY <3>1, <3>2, RetentionKeeps
  <2>3. OkJourneyIsComplete'
    BY <1>1, <2>1, <2>2 DEF IInv, OkJourneyIsComplete, workerVars, statusVars
  <2>4. /\ PresentArtifactsAreHeld' /\ CredentialsFollowRotation' /\ WorkersTypeOK'
        /\ VaultTypeOK' /\ ResultsTypeOK' /\ StatusTypeOK'
    BY <2>1 DEF IInv, GateTypeOK, PresentArtifactsAreHeld, workerVars, vaultVars, resultVars,
                statusVars, CredentialsFollowRotation, Live, Decrypts, WorkersTypeOK,
                VaultTypeOK, ResultsTypeOK, StatusTypeOK
  <2> QED
    BY <1>1, <2>2, <2>3, <2>4 DEF IInv, GateTypeOK, JourneyIsFirst
<1>4. CASE VaultCall
  <2>1. UNCHANGED <<workerVars, retentionVars, resultVars, statusVars>>
    BY <1>4 DEF VaultCall
  <2>2. VaultTypeOK' /\ CredentialsFollowRotation'
    BY <1>4, VaultKeeps DEF VaultCall, IInv, GateTypeOK
  <2>3. OkJourneyIsComplete'
    BY <1>1, <2>1 DEF IInv, OkJourneyIsComplete, workerVars, retentionVars, statusVars
  <2>4. /\ PresentArtifactsAreHeld' /\ AuditIsHonest' /\ WorkersTypeOK'
        /\ RetentionTypeOK' /\ ResultsTypeOK' /\ StatusTypeOK'
    BY <2>1 DEF IInv, GateTypeOK, PresentArtifactsAreHeld, workerVars, retentionVars,
                resultVars, statusVars, AuditIsHonest, WorkersTypeOK, RetentionTypeOK,
                ResultsTypeOK, StatusTypeOK
  <2> QED
    BY <1>1, <2>2, <2>3, <2>4 DEF IInv, GateTypeOK, JourneyIsFirst
<1>5. CASE ResultCall \/ PurgeOwner
  <2>1. UNCHANGED <<workerVars, retentionVars, vaultVars, statusVars>>
    BY <1>5 DEF ResultCall, PurgeOwner
  <2>2. ResultsTypeOK'
    BY <1>5 DEF ResultCall, PurgeOwner, ForgetUrl, ForgetLink, DeleteResult, DeleteHistory,
                IInv, GateTypeOK, ResultsTypeOK
  <2>3. OkJourneyIsComplete'
    BY <1>1, <2>1 DEF IInv, OkJourneyIsComplete, workerVars, retentionVars, statusVars
  <2>4. /\ PresentArtifactsAreHeld' /\ AuditIsHonest' /\ CredentialsFollowRotation'
        /\ WorkersTypeOK' /\ RetentionTypeOK' /\ VaultTypeOK' /\ StatusTypeOK'
    BY <2>1 DEF IInv, GateTypeOK, PresentArtifactsAreHeld, workerVars, retentionVars,
                vaultVars, statusVars, AuditIsHonest, CredentialsFollowRotation, Live,
                Decrypts, WorkersTypeOK, RetentionTypeOK, VaultTypeOK, StatusTypeOK
  <2> QED
    BY <1>1, <2>2, <2>3, <2>4 DEF IInv, GateTypeOK, JourneyIsFirst
<1>6. CASE StatusCall
  <2>1. UNCHANGED <<workerVars, retentionVars, vaultVars, resultVars>>
    BY <1>6 DEF StatusCall
  <2>2. /\ StatusTypeOK'
        /\ \A i \in Jobs : rows[i].status = "succeeded" /\ rows[i].queryAccepted =>
             rows'[i].status = "succeeded" /\ rows'[i].queryAccepted
    BY <1>6, StatusKeeps DEF StatusCall, IInv, GateTypeOK
  <2>3. OkJourneyIsComplete'
    BY <1>1, <2>1, <2>2 DEF IInv, OkJourneyIsComplete, workerVars, retentionVars
  <2>4. /\ PresentArtifactsAreHeld' /\ AuditIsHonest' /\ CredentialsFollowRotation'
        /\ WorkersTypeOK' /\ RetentionTypeOK' /\ VaultTypeOK' /\ ResultsTypeOK'
    BY <2>1 DEF IInv, GateTypeOK, PresentArtifactsAreHeld, workerVars, retentionVars,
                vaultVars, resultVars, AuditIsHonest, CredentialsFollowRotation, Live,
                Decrypts, WorkersTypeOK, RetentionTypeOK, VaultTypeOK, ResultsTypeOK
  <2> QED
    BY <1>1, <2>2, <2>3, <2>4 DEF IInv, GateTypeOK, JourneyIsFirst
<1> QED
  BY <1>2, <1>3, <1>4, <1>5, <1>6 DEF ServiceCall

LEMMA NextIInv == IInv /\ [Next]_vars => IInv'
<1> SUFFICES ASSUME IInv, [Next]_vars PROVE IInv'
  OBVIOUS
<1>1. CASE JourneyNext
  <2>1. UNCHANGED calls
    BY <1>1 DEF JourneyNext
  <2>2. CASE \E j \in Jobs : Begin(j)
    BY <2>1, <2>2, BeginKeeps
  <2>3. CASE IntakeFails \/ SubmissionFails
    BY <2>1, <2>3, FailureKeeps
  <2>4. CASE IntakeSucceeds
    BY <2>1, <2>4, IntakeSucceedsKeeps
  <2>5. CASE SubmissionSucceeds
    BY <2>1, <2>5, SubmissionSucceedsKeeps
  <2> QED
    BY <1>1, <2>2, <2>3, <2>4, <2>5 DEF JourneyNext
<1>2. CASE ServiceCall
  BY <1>2, ServiceKeeps
<1>3. CASE UNCHANGED vars
  <2>1. UNCHANGED <<workers, artifacts, resultStore, sources, deletion, deletedAt, retryQueue,
                    approved, alerts>>
    BY <1>3 DEF vars, workerVars, retentionVars
  <2>2. UNCHANGED <<creds, keyVersion, backup, results, history, rows, claimed, journey,
                    outcome, calls>>
    BY <1>3 DEF vars, vaultVars, resultVars, statusVars, gateVars
  <2>3. OkJourneyIsComplete' /\ JourneyIsFirst' /\ PresentArtifactsAreHeld' /\ AuditIsHonest'
        /\ CredentialsFollowRotation'
    BY <2>1, <2>2 DEF IInv, OkJourneyIsComplete, JourneyIsFirst, PresentArtifactsAreHeld,
                      AuditIsHonest, CredentialsFollowRotation, Live, Decrypts
  <2>4. GateTypeOK'
    BY <2>1, <2>2 DEF IInv, GateTypeOK, WorkersTypeOK, RetentionTypeOK, VaultTypeOK,
                      ResultsTypeOK, StatusTypeOK
  <2> QED
    BY <2>3, <2>4 DEF IInv
<1> QED
  BY <1>1, <1>2, <1>3 DEF Next

LEMMA SpecIInv == Spec => []IInv
BY InitIInv, NextIInv, PTL DEF Spec

-----------------------------------------------------------------------------
\* Journeys that fail.

\* A submission worker is that of a journey that has reached the submission: what a
\* later run of it stores is not the result of a journey that stopped before.
SubmissionsAreReached ==
  \A w \in WorkerIds : workers[w] # NoWorker /\ workers[w].kind = "submission" =>
    \/ outcome[workers[w].jobId] \in {"submission", "ok"}
    \/ journey # Idle /\ journey.at = "submission" /\ journey.job = workers[w].jobId

\* Inductive relative to IInv.
FailInv == FailedJourneyShowsNoSuccess /\ SubmissionsAreReached

LEMMA InitFailInv == Init => FailInv
BY DEF Init, WorkersInit, ResultsInit, StatusInit, FailInv, FailedJourneyShowsNoSuccess,
       SubmissionsAreReached

\* A worker that is run, canceled or crashes stays the worker of its job, and only the
\* run of a submission worker stores a result, that of its job.
LEMMA WorkersStay ==
  ASSUME WorkersTypeOK, NEW w \in WorkerIds,
         (\E sim \in Runs : RunWorker(w, sim)) \/ CancelWorker(w) \/ CrashWorker(w)
  PROVE  /\ \A v \in WorkerIds : workers'[v] # NoWorker =>
              /\ workers[v] # NoWorker
              /\ workers'[v].kind = workers[v].kind /\ workers'[v].jobId = workers[v].jobId
         /\ \A j \in resultStore' \ resultStore :
              /\ workers[w] # NoWorker /\ workers[w].kind = "submission"
              /\ workers[w].jobId = j
<1>1. workers[w] \in Worker /\ workers[w] # NoWorker
  BY DEF RunWorker, CancelWorker, CrashWorker, WorkersTypeOK
<1>2. /\ workers'[w].kind = workers[w].kind /\ workers'[w].jobId = workers[w].jobId
      /\ \A v \in WorkerIds \ {w} : workers'[v] = workers[v]
  <2>1. CASE \E sim \in Runs : RunWorker(w, sim)
    <3>1. PICK sim \in Runs : RunWorker(w, sim)
      BY <2>1
    <3>2. PICK canceled, last :
            workers' = [workers EXCEPT ![w].canceled = canceled, ![w].last = last]
      BY <3>1 DEF RunWorker
    <3> QED
      BY <1>1, <3>2 DEF WorkersTypeOK, Worker
  <2>2. CASE CancelWorker(w)
    BY <1>1, <2>2 DEF CancelWorker, WorkersTypeOK, Worker
  <2>3. CASE CrashWorker(w)
    BY <1>1, <2>3 DEF CrashWorker, WorkersTypeOK, Worker
  <2> QED
    BY <2>1, <2>2, <2>3
<1>3. \A j \in resultStore' \ resultStore :
        workers[w].kind = "submission" /\ workers[w].jobId = j
  BY DEF RunWorker, CancelWorker, CrashWorker, Stores
<1> QED
  BY <1>1, <1>2, <1>3

LEMMA BeginShowsNothing ==
  ASSUME IInv, FailInv, NEW j \in Jobs, Begin(j)
  PROVE  FailInv'
<1>1. PICK w \in WorkerIds : Lease(w, "intake", j, KeysOf[j])
  BY DEF Begin
<1>2. /\ workers'[w].kind = "intake" /\ \A v \in WorkerIds \ {w} : workers'[v] = workers[v]
      /\ resultStore' = resultStore
  BY <1>1 DEF Lease, IInv, GateTypeOK, WorkersTypeOK
<1>3. /\ journey = Idle /\ outcome[j] = "none" /\ UNCHANGED <<results, history, outcome>>
      /\ Upsert(j, "uploading", FALSE)
  BY DEF Begin, resultVars
<1>4. /\ rows'[j].status = "uploading"
      /\ rows'[j].queryAccepted => rows[j] # NoRow /\ rows[j].queryAccepted
      /\ \A i \in Jobs \ {j} : rows'[i] = rows[i]
  BY <1>3 DEF Upsert, Upserted, IInv, GateTypeOK, StatusTypeOK
<1>5. FailedJourneyShowsNoSuccess'
  BY <1>2, <1>3, <1>4 DEF FailInv, FailedJourneyShowsNoSuccess
<1>6. SubmissionsAreReached'
  BY <1>2, <1>3 DEF FailInv, SubmissionsAreReached
<1> QED
  BY <1>5, <1>6 DEF FailInv

LEMMA FailureShowsNothing ==
  ASSUME IInv, FailInv, IntakeFails \/ SubmissionFails
  PROVE  FailInv'
<1>1. PICK what \in {"intake", "submission"} :
        /\ RunWorker(journey.worker, "timeout") /\ Return(journey.job, what)
        /\ journey # Idle /\ journey.at = what
        /\ UNCHANGED <<results, history, rows>>
  BY DEF IntakeFails, SubmissionFails, Idle, resultVars, statusVars
<1>2. /\ journey.job \in Jobs /\ journey.worker \in WorkerIds /\ outcome[journey.job] = "none"
  BY <1>1, UnderWay
<1>3. \A v \in WorkerIds : workers'[v] # NoWorker =>
        /\ workers[v] # NoWorker
        /\ workers'[v].kind = workers[v].kind /\ workers'[v].jobId = workers[v].jobId
  <2>1. "timeout" \in Runs
    BY DEF Runs
  <2> QED
    BY <1>1, <1>2, <2>1, WorkersStay DEF IInv, GateTypeOK
<1>4. resultStore' = resultStore
  BY <1>1 DEF RunWorker, Stores, Fails, Runs
<1>5. /\ journey' = Idle /\ outcome'[journey.job] = what
      /\ \A i \in Jobs \ {journey.job} : outcome'[i] = outcome[i]
  BY <1>1, <1>2 DEF Return, IInv, GateTypeOK
<1>6. FailedJourneyShowsNoSuccess'
  BY <1>1, <1>2, <1>4, <1>5 DEF FailInv, FailedJourneyShowsNoSuccess
<1>7. SubmissionsAreReached'
  <2> SUFFICES ASSUME NEW v \in WorkerIds, workers'[v] # NoWorker,
                      workers'[v].kind = "submission"
               PROVE  outcome'[workers'[v].jobId] \in {"submission", "ok"}
    BY DEF SubmissionsAreReached
  <2>1. workers[v].kind = "submission" /\ workers'[v].jobId = workers[v].jobId
        /\ workers[v] # NoWorker /\ workers[v].jobId \in Jobs
    BY <1>3 DEF IInv, GateTypeOK, WorkersTypeOK, Worker
  <2>2. CASE outcome[workers[v].jobId] \in {"submission", "ok"}
    BY <1>2, <1>5, <2>1, <2>2
  <2>3. CASE journey.at = "submission" /\ journey.job = workers[v].jobId
    BY <1>1, <1>5, <2>1, <2>3
  <2> QED
    BY <2>1, <2>2, <2>3 DEF FailInv, SubmissionsAreReached
<1> QED
  BY <1>6, <1>7 DEF FailInv

LEMMA IntakeShowsNothing ==
  ASSUME IInv, FailInv, IntakeSucceeds
  PROVE  FailInv'
<1> DEFINE j == journey.job
           w == NextWorker
           v == journey.worker
<1>1. /\ w \in WorkerIds /\ workers[w] = NoWorker /\ journey # Idle /\ journey.at = "intake"
      /\ Upsert(j, "submitting", FALSE)
      /\ journey' = [at |-> "submission", job |-> j, worker |-> w]
      /\ UNCHANGED <<resultStore, results, history, outcome>>
  <2>1. journey.at = "intake" => journey # Idle
    BY DEF Idle
  <2> QED
    BY <2>1 DEF IntakeSucceeds, resultVars
<1>2. /\ j \in Jobs /\ v \in WorkerIds /\ workers[v] \in Worker /\ outcome[j] = "none"
      /\ workers[v].kind = "intake"
  BY <1>1, UnderWay
<1>3. /\ workers'[w].jobId = j
      /\ v # w => workers'[v].kind = "intake"
      /\ \A u \in WorkerIds \ {v, w} : workers'[u] = workers[u]
  BY <1>1, <1>2 DEF IntakeSucceeds, IInv, GateTypeOK, WorkersTypeOK, Worker
<1>4. /\ rows'[j].status = "submitting"
      /\ rows'[j].queryAccepted => rows[j] # NoRow /\ rows[j].queryAccepted
      /\ \A i \in Jobs \ {j} : rows'[i] = rows[i]
  BY <1>1, <1>2 DEF Upsert, Upserted, IInv, GateTypeOK, StatusTypeOK
<1> HIDE DEF j, w, v
<1>5. FailedJourneyShowsNoSuccess'
  BY <1>1, <1>2, <1>4 DEF FailInv, FailedJourneyShowsNoSuccess
<1>6. SubmissionsAreReached'
  <2>1. journey' # Idle /\ journey'.at = "submission" /\ journey'.job = j
    BY <1>1 DEF Idle
  <2> QED
    BY <1>1, <1>3, <2>1 DEF FailInv, SubmissionsAreReached
<1> QED
  BY <1>5, <1>6 DEF FailInv

LEMMA SuccessIsShown ==
  ASSUME IInv, FailInv, SubmissionSucceeds
  PROVE  FailInv'
<1> DEFINE j == journey.job
<1>1. /\ journey # Idle /\ RunWorker(journey.worker, "works")
      /\ Upsert(j, "succeeded", TRUE) /\ SaveResult(j) /\ Record(j) /\ Return(j, "ok")
  <2>1. journey.at = "submission" => journey # Idle
    BY DEF Idle
  <2> QED
    BY <2>1 DEF SubmissionSucceeds
<1>2. /\ j \in Jobs /\ journey.worker \in WorkerIds /\ workers[journey.worker].jobId = j
  BY <1>1, UnderWay
<1> HIDE DEF j
<1>3. /\ \A v \in WorkerIds : workers'[v] # NoWorker =>
           /\ workers[v] # NoWorker
           /\ workers'[v].kind = workers[v].kind /\ workers'[v].jobId = workers[v].jobId
      /\ \A i \in resultStore' \ resultStore : i = j
  <2>1. "works" \in Runs
    BY DEF Runs
  <2> QED
    BY <1>1, <1>2, <2>1, WorkersStay DEF IInv, GateTypeOK
<1>4. /\ journey' = Idle /\ outcome'[j] = "ok"
      /\ \A i \in Jobs \ {j} : outcome'[i] = outcome[i]
  BY <1>1, <1>2 DEF Return, IInv, GateTypeOK
<1>5. \A i \in Jobs \ {j} :
        rows'[i] = rows[i] /\ results'[i] = results[i] /\ history'[i] = history[i]
  BY <1>1, <1>2 DEF Upsert, SaveResult, Record, IInv, GateTypeOK, StatusTypeOK, ResultsTypeOK
<1>6. FailedJourneyShowsNoSuccess'
  BY <1>3, <1>4, <1>5 DEF FailInv, FailedJourneyShowsNoSuccess
<1>7. SubmissionsAreReached'
  <2> SUFFICES ASSUME NEW v \in WorkerIds, workers'[v] # NoWorker,
                      workers'[v].kind = "submission"
               PROVE  outcome'[workers'[v].jobId] \in {"submission", "ok"}
    BY DEF SubmissionsAreReached
  <2>1. /\ workers[v].kind = "submission" /\ workers'[v].jobId = workers[v].jobId
        /\ workers[v] # NoWorker /\ workers[v].jobId \in Jobs
    BY <1>3 DEF IInv, GateTypeOK, WorkersTypeOK, Worker
  <2>2. outcome[workers[v].jobId] \in {"submission", "ok"} \/ j = workers[v].jobId
    BY <2>1 DEF FailInv, SubmissionsAreReached, j
  <2> QED
    BY <1>4, <2>1, <2>2
<1> QED
  BY <1>6, <1>7 DEF FailInv

LEMMA CallsShowNothing ==
  ASSUME IInv, FailInv, ServiceCall
  PROVE  FailInv'
<1>1. journey = Idle /\ UNCHANGED <<journey, outcome>>
  BY DEF ServiceCall, gateVars
<1>2. CASE WorkerCall
  <2>1. UNCHANGED <<results, history, rows>>
    BY <1>2 DEF WorkerCall, resultVars, statusVars
  <2>2. PICK w \in WorkerIds :
          (\E sim \in Runs : RunWorker(w, sim)) \/ CancelWorker(w) \/ CrashWorker(w)
    BY <1>2 DEF WorkerCall
  <2>3. /\ \A v \in WorkerIds : workers'[v] # NoWorker =>
             /\ workers[v] # NoWorker
             /\ workers'[v].kind = workers[v].kind /\ workers'[v].jobId = workers[v].jobId
        /\ \A j \in resultStore' \ resultStore :
             /\ workers[w] # NoWorker /\ workers[w].kind = "submission"
             /\ workers[w].jobId = j
    BY <2>2, WorkersStay DEF IInv, GateTypeOK
  <2>4. \A j \in resultStore' \ resultStore : outcome[j] \in {"submission", "ok"}
    BY <1>1, <2>3 DEF FailInv, SubmissionsAreReached
  <2> QED
    BY <1>1, <2>1, <2>3, <2>4
       DEF FailInv, FailedJourneyShowsNoSuccess, SubmissionsAreReached
<1>3. CASE RetentionCall \/ VaultCall
  <2>1. UNCHANGED <<workers, resultStore, results, history, rows>>
    BY <1>3 DEF RetentionCall, VaultCall, workerVars, resultVars, statusVars
  <2> QED
    BY <1>1, <2>1 DEF FailInv, FailedJourneyShowsNoSuccess, SubmissionsAreReached
<1>4. CASE ResultCall \/ PurgeOwner
  <2>1. UNCHANGED <<workers, resultStore, rows>>
    BY <1>4 DEF ResultCall, PurgeOwner, workerVars, statusVars
  <2>2. \A j \in Jobs : /\ results[j] = "none" => results'[j] = "none"
                        /\ history[j] = "none" => history'[j] = "none"
    BY <1>4 DEF ResultCall, PurgeOwner, ForgetUrl, ForgetLink, DeleteResult, DeleteHistory,
                IInv, GateTypeOK, ResultsTypeOK
  <2> QED
    BY <1>1, <2>1, <2>2 DEF FailInv, FailedJourneyShowsNoSuccess, SubmissionsAreReached
<1>5. CASE StatusCall
  <2>1. UNCHANGED <<workers, resultStore, results, history>>
    BY <1>5 DEF StatusCall, workerVars, resultVars
  <2>2. PICK j \in Jobs : RequestCancel(j) \/ MarkForgotten(j)
    BY <1>5 DEF StatusCall
  <2>3. rows[j] \in Row
    BY <2>2 DEF RequestCancel, MarkForgotten, IInv, GateTypeOK, StatusTypeOK
  <2>4. /\ rows[j] # NoRow /\ rows'[j].queryAccepted = rows[j].queryAccepted
        /\ rows'[j].status = "succeeded" => rows[j].status = "succeeded"
        /\ \A i \in Jobs \ {j} : rows'[i] = rows[i]
    BY <2>2, <2>3 DEF RequestCancel, MarkForgotten, IInv, GateTypeOK, StatusTypeOK, Row
  <2> QED
    BY <1>1, <2>1, <2>4 DEF FailInv, FailedJourneyShowsNoSuccess, SubmissionsAreReached
<1> QED
  BY <1>2, <1>3, <1>4, <1>5 DEF ServiceCall

LEMMA NextFailInv == IInv /\ FailInv /\ [Next]_vars => FailInv'
<1> SUFFICES ASSUME IInv, FailInv, [Next]_vars PROVE FailInv'
  OBVIOUS
<1>1. CASE JourneyNext
  BY <1>1, BeginShowsNothing, FailureShowsNothing, IntakeShowsNothing, SuccessIsShown
     DEF JourneyNext
<1>2. CASE ServiceCall
  BY <1>2, CallsShowNothing
<1>3. CASE UNCHANGED vars
  <2>1. UNCHANGED <<workers, resultStore, results, history, rows, journey, outcome>>
    BY <1>3 DEF vars, workerVars, resultVars, statusVars, gateVars
  <2> QED
    BY <2>1 DEF FailInv, FailedJourneyShowsNoSuccess, SubmissionsAreReached
<1> QED
  BY <1>1, <1>2, <1>3 DEF Next

LEMMA SpecFailInv == Spec => []FailInv
<1>1. [](IInv) /\ FailInv /\ [][Next]_vars => []FailInv
  BY NextFailInv, PTL
<1> QED
  BY <1>1, InitFailInv, SpecIInv, PTL DEF Spec

-----------------------------------------------------------------------------
\* A journey that returned ok has left no source, an approved record, a stored result
\* and a status of succeeded, and nothing the services are asked later undoes that; one
\* that failed or is under way is shown as a success by none of them (runJourney and
\* the services of apps/api/pipeline/submission-gate.js).
THEOREM JourneysStayHonest == Spec => []JourneysAreHonest
<1>1. IInv /\ FailInv => JourneysAreHonest
  BY DEF IInv, FailInv, JourneysAreHonest
<1> QED
  BY <1>1, SpecIInv, SpecFailInv, PTL

\* Whatever workers share keys, and in whatever order they are leased, run, canceled
\* and crash, an artifact that is present belongs to one that has not cleaned up
\* (apps/api/workers/sandboxed.js).
THEOREM ArtifactsStayHeld == Spec => []PresentArtifactsAreHeld
BY SpecIInv, PTL DEF IInv

\* The audit of a source never says more than happened to it, through outages, retries
\* and sweeps (apps/api/retention/source.js).
THEOREM AuditStaysHonest == Spec => []AuditIsHonest
BY SpecIInv, PTL DEF IInv

\* A live credential opens for its tenant under the current key, through rotations,
\* replacements and restored backups (apps/api/credentials/vault.js).
THEOREM CredentialsStayCurrent == Spec => []CredentialsFollowRotation
BY SpecIInv, PTL DEF IInv
=============================================================================
