---------------------------- MODULE PairService ----------------------------
(***************************************************************************)
(* The pair-check job service of the API (apps/api/live/pair-service.js):  *)
(* jobs, their credential and files, the submissions started by finalize,  *)
(* and the result rows that back a report link.                            *)
(*                                                                         *)
(* The process is single threaded.  A handler runs to its end without      *)
(* interruption, except finalize, whose runSubmission is suspended at      *)
(* "await submitPair": the part up to the await is Finalize, the part      *)
(* after it is Settle, and any handler may run in between.  The statuses   *)
(* "queued" and "submitting" are written and overwritten inside Finalize,  *)
(* so no other handler ever sees them.                                     *)
(***************************************************************************)
EXTENDS Naturals, FiniteSets

CONSTANTS
  Users,     \* owners of jobs
  Jobs,      \* job ids; a run of the service allocates each at most once
  Keys,      \* idempotency keys
  Attempts,  \* calls of submitPair, one element per call
  NoUser, NoJob, NoKey

ASSUME NamesAreDistinct ==
  NoUser \notin Users /\ NoJob \notin Jobs /\ NoKey \notin Keys

VARIABLES
  status,     \* row.status, or "none" / "gone" for an id with no row
  owner,      \* row.ownerUserId
  cred,       \* the tenant the row's vault credential was stored under
  files,      \* row.files: absent, with their bytes, or with bytes dropped
  submitted,  \* row.submitted
  result,     \* the row of the result store for this job
  idem,       \* the idempotency map
  attempt     \* the promises returned by submitPair

serviceVars == <<status, owner, cred, files, submitted, result, idem, attempt>>

Settled == {"succeeded", "failed", "ambiguous"}
Status  == {"none", "gone", "draft", "ready", "waiting"} \cup Settled

NoAttempt == [state |-> "idle", job |-> NoJob, body |-> "none"]

\* What submitPair can resolve to: a storable link, a link the result store
\* refuses, an error with each quota action, or a rejected promise.
Outcomes == {"link", "badLink", "release", "consume", "hold", "throw"}

HasRow(j) == status[j] \notin {"none", "gone"}

\* requireOwner: the row exists and the caller owns it.
Owns(u, j) == HasRow(j) /\ owner[j] = u

SubmissionsOf(j) == {a \in Attempts : attempt[a].job = j}
InFlight(j)      == {a \in SubmissionsOf(j) : attempt[a].state = "inflight"}

ServiceInit ==
  /\ status = [j \in Jobs |-> "none"]
  /\ owner = [j \in Jobs |-> NoUser]
  /\ cred = [j \in Jobs |-> NoUser]
  /\ files = [j \in Jobs |-> "none"]
  /\ submitted = [j \in Jobs |-> FALSE]
  /\ result = [j \in Jobs |-> "none"]
  /\ idem = [k \in Keys |-> NoJob]
  /\ attempt = [a \in Attempts |-> NoAttempt]

-----------------------------------------------------------------------------

\* createJob: a known key returns the job it named before and changes nothing;
\* otherwise a fresh id gets a draft row, and the key, if any, names it.
CreateJob(u, k, j) ==
  /\ status[j] = "none"
  /\ k # NoKey => idem[k] = NoJob
  /\ status' = [status EXCEPT ![j] = "draft"]
  /\ owner' = [owner EXCEPT ![j] = u]
  /\ idem' = IF k = NoKey THEN idem ELSE [idem EXCEPT ![k] = j]
  /\ UNCHANGED <<cred, files, submitted, result, attempt>>

\* attachCredential: accepted in every status; the vault binds the credential
\* to the caller as its tenant.
AttachCredential(u, j) ==
  /\ Owns(u, j)
  /\ cred' = [cred EXCEPT ![j] = u]
  /\ UNCHANGED <<status, owner, files, submitted, result, idem, attempt>>

\* uploadFiles: only before the job is finalized; a second upload replaces the
\* first.
UploadFiles(u, j) ==
  /\ Owns(u, j)
  /\ status[j] \in {"draft", "ready"}
  /\ files' = [files EXCEPT ![j] = "plain"]
  /\ status' = [status EXCEPT ![j] = "ready"]
  /\ UNCHANGED <<owner, cred, submitted, result, idem, attempt>>

\* vault.decryptForSubmission with the lease finalize makes: it opens the
\* credential when it was stored under the lease's tenant.
Decryptable(j) == cred[j] = owner[j]

\* Mutation: "ambiguous" left out of the statuses finalize turns away.
FinalizableAgain(j) == status[j] \notin {"succeeded", "failed"}

\* finalize answers "alreadyTerminal" for a settled job and for no other.
Finalizable(j) == status[j] \notin Settled

\* finalize and runSubmission up to the await.
Finalize(u, j) ==
  /\ Owns(u, j)
  /\ cred[j] # NoUser
  /\ files[j] # "none"
  /\ Finalizable(j)
  /\ IF Decryptable(j)
       THEN \E a \in Attempts :
              /\ attempt[a].state = "idle"
              /\ attempt' = [attempt EXCEPT ![a] =
                   [state |-> "inflight", job |-> j, body |-> files[j]]]
              /\ status' = [status EXCEPT ![j] = "waiting"]
              /\ submitted' = [submitted EXCEPT ![j] = TRUE]
       ELSE /\ status' = [status EXCEPT ![j] = "failed"]
            /\ UNCHANGED <<attempt, submitted>>
  /\ UNCHANGED <<owner, cred, files, result, idem>>

\* Mutations: a rejected promise that is not caught, and the verdict of
\* saveResult ignored.
StatusAfterUncaught(j, o) ==
  CASE o = "link" -> "succeeded" [] o = "throw" -> "waiting" [] OTHER -> "ambiguous"
StatusAfterUnsaved(j, o)  ==
  IF o \in {"link", "badLink"} THEN "succeeded" ELSE "ambiguous"

\* The status runSubmission writes once submitPair has answered with o.
StatusAfter(j, o) ==
  CASE o = "link" -> "succeeded"
    [] o = "badLink" -> "ambiguous"
    [] OTHER -> IF o \in {"hold", "consume", "throw"} \/ submitted[j]
                  THEN "ambiguous" ELSE "failed"

\* runSubmission after the await: drop the plaintext, then record the outcome.
\* The row is the one captured before the await, whatever happened to it since.
Settle(a, o) ==
  LET j == attempt[a].job IN
  /\ attempt[a].state = "inflight"
  /\ attempt' = [attempt EXCEPT ![a].state =
                   IF o = "link" THEN "linked" ELSE "unlinked"]
  /\ files' = [files EXCEPT ![j] = "dropped"]
  /\ status' = [status EXCEPT ![j] = StatusAfter(j, o)]
  /\ result' = IF o = "link" THEN [result EXCEPT ![j] = "kept"] ELSE result
  /\ UNCHANGED <<owner, cred, submitted, idem>>

\* forgetResult: the link goes, the row stays.
ForgetResult(u, j) ==
  /\ Owns(u, j)
  /\ result[j] # "none"
  /\ result' = [result EXCEPT ![j] = "forgotten"]
  /\ UNCHANGED <<status, owner, cred, files, submitted, idem, attempt>>

\* The process restarts.  Every map is in memory; a submission under way is
\* cut off, though the provider may have received it.
Restart ==
  /\ status' = [j \in Jobs |-> IF status[j] = "none" THEN "none" ELSE "gone"]
  /\ owner' = [j \in Jobs |-> NoUser]
  /\ cred' = [j \in Jobs |-> NoUser]
  /\ files' = [j \in Jobs |-> "none"]
  /\ submitted' = [j \in Jobs |-> FALSE]
  /\ result' = [j \in Jobs |-> "none"]
  /\ idem' = [k \in Keys |-> NoJob]
  /\ attempt' = [a \in Attempts |->
       IF attempt[a].state = "inflight"
         THEN [attempt[a] EXCEPT !.state = "lost"] ELSE attempt[a]]

-----------------------------------------------------------------------------

Handler(u, j) ==
  \/ \E k \in Keys \cup {NoKey} : CreateJob(u, k, j)
  \/ AttachCredential(u, j)
  \/ UploadFiles(u, j)
  \/ Finalize(u, j)
  \/ ForgetResult(u, j)

ServiceNext ==
  \/ \E u \in Users, j \in Jobs : Handler(u, j)
  \/ \E a \in Attempts, o \in Outcomes : Settle(a, o)
  \/ Restart

\* submitPair always settles: connect, read and overall timeouts bound it.
SubmissionsSettle ==
  \A a \in Attempts : WF_serviceVars(\E o \in Outcomes : Settle(a, o))

ServiceSpec     == ServiceInit /\ [][ServiceNext]_serviceVars
FairServiceSpec == ServiceSpec /\ SubmissionsSettle

-----------------------------------------------------------------------------

AttemptRecord ==
  [state : {"idle", "inflight", "linked", "unlinked", "lost"}, job : Jobs \cup {NoJob},
   body : {"none", "plain", "dropped"}]

\* Every variable holds a value of the rows and maps of the service.
TypeOK ==
  /\ status \in [Jobs -> Status]
  /\ owner \in [Jobs -> Users \cup {NoUser}]
  /\ cred \in [Jobs -> Users \cup {NoUser}]
  /\ files \in [Jobs -> {"none", "plain", "dropped"}]
  /\ submitted \in [Jobs -> BOOLEAN]
  /\ result \in [Jobs -> {"none", "kept", "forgotten"}]
  /\ idem \in [Keys -> Jobs \cup {NoJob}]
  /\ attempt \in [Attempts -> AttemptRecord]

\* A job the API reports as waiting has a submission under way that will settle
\* it: no interleaving of finalize calls, settlements and restarts leaves a
\* waiting job that nothing will ever move (runSubmission around its await).
WaitingIsCovered == \A j \in Jobs : status[j] = "waiting" => InFlight(j) # {}

\* Every submission went out with the bytes of its files: although runSubmission
\* drops them on the shared row when it settles, no later or concurrent
\* submission of the same job starts from a row already stripped.
SubmissionsCarryBytes ==
  \A a \in Attempts : attempt[a].state # "idle" => attempt[a].body = "plain"

\* A job that succeeded, or ended ambiguous, holds no plaintext any more ("Drop
\* plaintext file buffers after attempt"), and only such a job was stripped, so
\* finalize never finds a live job without bytes.
PlaintextDroppedOnSettle ==
  \A j \in Jobs : files[j] = "dropped" <=> status[j] \in {"succeeded", "ambiguous"}

\* "succeeded" is never shown without a result row behind it, and a result row
\* only exists once a submission of that job came back with a link: reveal on a
\* succeeded job answers with a link or with "forgotten", never "not-found".
SuccessIsBacked ==
  \A j \in Jobs :
    /\ status[j] = "succeeded" => result[j] # "none"
    /\ result[j] # "none" => \E a \in SubmissionsOf(j) : attempt[a].state = "linked"

\* The credential-unlock failure of runSubmission is never taken: a row's
\* credential is always bound to the row's owner, even when it is replaced while
\* a submission is waiting.
CredentialAlwaysUnlocks ==
  \A j \in Jobs : cred[j] # NoUser => Decryptable(j)

\* What the rows claim is there: they have their types, a success has its result,
\* and a credential opens for the job it was attached to.
ClaimsAreBacked == TypeOK /\ SuccessIsBacked /\ CredentialAlwaysUnlocks

\* The bytes of a job's files are there as long as a submission may need them, and
\* no longer (finalize, and runSubmission on both sides of its await).
BytesFollowTheJob == SubmissionsCarryBytes /\ PlaintextDroppedOnSettle

\* Every job that waits is settled in the end, unless the process restarts.
WaitingSettles ==
  \A j \in Jobs : status[j] = "waiting" ~> status[j] \in Settled \cup {"gone"}

\* A job is submitted to the provider at most once, however often its owner
\* repeats finalize.
AtMostOneSubmission == \A j \in Jobs : Cardinality(SubmissionsOf(j)) <= 1
=============================================================================
