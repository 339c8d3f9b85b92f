--------------------------- MODULE FinalizeOutbox ---------------------------
(***************************************************************************)
(* The finalize service of the API (apps/api/intake/finalize.js): one job  *)
(* per user and idempotency key, an outbox entry for its validation, a     *)
(* later outbox entry for its provider query, and the quota that is        *)
(* reserved, consumed or released on the way.                              *)
(*                                                                         *)
(* Every operation is synchronous; the order of the calls is open.  The    *)
(* status "validating" and "submitting" are overwritten within one call.   *)
(***************************************************************************)
EXTENDS ServerIntake

CONSTANTS
  Jobs, Users, NoUser, Keys, NoKey,
  Payloads    \* what finalize is called with

ASSUME OutboxAssumption ==
  /\ IsFiniteSet(Jobs)
  /\ NoUser \notin Users
  /\ NoKey \notin Keys

VARIABLES
  status,      \* job.status, "none" before the job exists
  owner,       \* job.userId
  key,         \* job.idempotencyKey
  reservedFor, \* job.quotaReserved
  consumedFor, \* job.quotaConsumed
  validation,  \* jobs with an entry in outboxValidation that is not done
  provider,    \* jobs with an entry in outboxProvider that is not done
  reserved, consumed, released, \* the quota of each user
  queries,     \* provider queries sent for each job (what the provider sees)
  manifest     \* job.manifest

quotaVars == <<reserved, consumed, released, reservedFor, consumedFor>>
vars == <<status, owner, key, validation, provider, quotaVars, queries, manifest>>

Init ==
  /\ status = [j \in Jobs |-> "none"]
  /\ owner = [j \in Jobs |-> NoUser]
  /\ key = [j \in Jobs |-> NoKey]
  /\ reservedFor = [j \in Jobs |-> FALSE]
  /\ consumedFor = [j \in Jobs |-> FALSE]
  /\ validation = {}
  /\ provider = {}
  /\ reserved = [u \in Users |-> 0]
  /\ consumed = [u \in Users |-> 0]
  /\ released = [u \in Users |-> 0]
  /\ queries = [j \in Jobs |-> 0]
  /\ manifest = [j \in Jobs |-> NoManifest]

HasRow(j) == status[j] # "none"
OwnedBy(u, S) == {j \in S : owner[j] = u}

\* Jobs of S with a reservation that was neither consumed nor released.
Unspent(S) == {j \in S : reservedFor[j] /\ ~consumedFor[j]}

\* A user's counter after one more, or one less but not below zero, for each of
\* the user's jobs in S.
More(counter, S) == [u \in Users |-> counter[u] + Cardinality(OwnedBy(u, S))]

\* Mutation: the reservation is not taken off the counter.
LessNothing(counter, S) == counter

Less(counter, S) ==
  [u \in Users |->
     LET n == Cardinality(OwnedBy(u, S)) IN
     IF counter[u] > n THEN counter[u] - n ELSE 0]

-----------------------------------------------------------------------------

\* The lookup of an existing job of the user under the idempotency key.
Known(u, k) == \E j \in Jobs : HasRow(j) /\ owner[j] = u /\ key[j] = k

\* The checks of a call before its intake; p.entitled is who may send p.
Complete(u, p) == u \in p.entitled /\ p.consented /\ p.language /\ p.objects # <<>>

\* finalize of a payload.  A call with a known key is answered with the old job or
\* with a conflict and changes nothing; nor does one that is refused.
Finalize(u, k, j, p) ==
  /\ Complete(u, p)
  /\ ~HasRow(j) /\ ~Known(u, k)
  /\ Accepted(p.objects, p.groups)
  /\ status' = [status EXCEPT ![j] = "uploaded"]
  /\ owner' = [owner EXCEPT ![j] = u]
  /\ key' = [key EXCEPT ![j] = k]
  /\ manifest' = [manifest EXCEPT ![j] = Manifest(p.objects, p.groups)]
  /\ validation' = validation \cup {j}
  /\ UNCHANGED <<provider, quotaVars, queries>>

\* Mutation: a canceled job ends the loop instead of its own turn.
WantedUntilCanceled(S) ==
  IF \E j \in S : status[j] = "canceled" THEN {} ELSE S

\* The entries of an outbox whose jobs are not canceled.
Wanted(S) == {j \in S : status[j] # "canceled"}

\* Mutation: only the entries of canceled jobs are marked as done.
DoneValidationsSome(S) == S \ Wanted(S)

\* The entries that processValidationOutbox marks as done.
DoneValidations(S) == S

\* processValidationOutbox without an outage: one pass over the pending entries.
ProcessValidationOutbox ==
  LET W == Wanted(validation) IN
  /\ validation # {}
  /\ status' = [j \in Jobs |-> IF j \in W THEN "queued" ELSE status[j]]
  /\ reservedFor' = [j \in Jobs |-> reservedFor[j] \/ j \in W]
  /\ reserved' = More(reserved, W)
  /\ provider' = provider \cup W
  /\ validation' = validation \ DoneValidations(validation)
  /\ UNCHANGED <<owner, key, consumedFor, consumed, released, queries, manifest>>

StatusAfterQuery == "awaiting-report"

\* processProviderOutbox({ consume }): jobs that are not canceled are queried and
\* charged, canceled ones give their quota back.
ProcessProviderOutbox(consume) ==
  LET Sent    == Wanted(provider)
      Charged == IF consume THEN Unspent(Sent) ELSE {}
      Back    == Unspent(provider \ Sent)
  IN
  /\ provider # {}
  /\ status' = [j \in Jobs |-> IF j \in Sent THEN StatusAfterQuery ELSE status[j]]
  /\ reserved' = Less(reserved, Charged \cup Back)
  /\ consumed' = More(consumed, Charged)
  /\ released' = More(released, Back)
  /\ reservedFor' = [j \in Jobs |-> reservedFor[j] /\ j \notin Back]
  /\ consumedFor' = [j \in Jobs |-> consumedFor[j] \/ j \in Charged]
  /\ queries' = [j \in Jobs |-> IF j \in Sent THEN queries[j] + 1 ELSE queries[j]]
  /\ provider' = {}
  /\ UNCHANGED <<owner, key, validation, manifest>>

\* releaseQuota of one job.
ReleaseQuota(j) ==
  LET S == Unspent({j}) IN
  /\ reserved' = Less(reserved, S)
  /\ released' = More(released, S)
  /\ reservedFor' = [reservedFor EXCEPT ![j] = @ /\ j \notin S]
  /\ UNCHANGED <<consumed, consumedFor>>

\* cancel, from whatever status the job has.
Cancel(j) ==
  /\ HasRow(j)
  /\ status' = [status EXCEPT ![j] = "canceled"]
  /\ ReleaseQuota(j)
  /\ UNCHANGED <<owner, key, validation, provider, queries, manifest>>

\* Mutation: the provider entry survives the rollback.
DroppedByRollbackNone(j) == {}

\* The provider entries that a rollback marks as done.
DroppedByRollback(j) == {j}

\* rollbackValidation, from whatever status the job has.  The job's validation
\* entry, if it is still pending, stays.
RollbackValidation(j) ==
  /\ HasRow(j)
  /\ status' = [status EXCEPT ![j] = "failed"]
  /\ ReleaseQuota(j)
  /\ provider' = provider \ DroppedByRollback(j)
  /\ UNCHANGED <<owner, key, validation, queries, manifest>>

Next ==
  \/ \E u \in Users, k \in Keys, j \in Jobs, p \in Payloads : Finalize(u, k, j, p)
  \/ ProcessValidationOutbox
  \/ \E consume \in BOOLEAN : ProcessProviderOutbox(consume)
  \/ \E j \in Jobs : Cancel(j) \/ RollbackValidation(j)

\* Both outboxes are worked off again and again; an outage only delays that.
Fairness ==
  /\ WF_vars(ProcessValidationOutbox)
  /\ WF_vars(\E consume \in BOOLEAN : ProcessProviderOutbox(consume))

Spec     == Init /\ [][Next]_vars
FairSpec == Spec /\ Fairness

-----------------------------------------------------------------------------

\* Every variable holds a value of the rows and counters, and no call leaves a
\* job in the middle of a validation or a query (finalize.js:83-85, 108-115).
TypeOK ==
  /\ status \in
       [Jobs -> {"none", "uploaded", "queued", "awaiting-report", "canceled", "failed"}]
  /\ owner \in [Jobs -> Users \cup {NoUser}]
  /\ key \in [Jobs -> Keys \cup {NoKey}]
  /\ reservedFor \in [Jobs -> BOOLEAN]
  /\ consumedFor \in [Jobs -> BOOLEAN]
  /\ validation \subseteq Jobs
  /\ provider \subseteq Jobs
  /\ reserved \in [Users -> Nat]
  /\ consumed \in [Users -> Nat]
  /\ released \in [Users -> Nat]
  /\ queries \in [Jobs -> Nat]
  /\ DOMAIN manifest = Jobs

\* A user's counters always equal what the rows of the user's jobs say, however
\* cancellations, rollbacks and both outboxes interleave (finalize.js:19-22,
\* 87-89, 109-114, 121-128).
LedgerMatchesRows ==
  \A u \in Users :
    /\ reserved[u] = Cardinality(OwnedBy(u, Unspent(Jobs)))
    /\ consumed[u] = Cardinality(OwnedBy(u, {j \in Jobs : consumedFor[j]}))

\* A pending provider event is backed by a reservation nobody else has spent,
\* unless its job was canceled meanwhile (finalize.js:82-91, 100-107, 142-146).
EventsArePaid ==
  \A j \in provider :
    IF status[j] = "canceled" THEN ~reservedFor[j]
    ELSE status[j] = "queued" /\ reservedFor[j] /\ ~consumedFor[j]

\* "Exactly one validation outbox task and later one provider event": whatever is
\* repeated, a job is sent to the provider once at most, and never while another
\* entry of it is pending (finalize.js:66-68, 76-92, 98-116).
OneQueryPerJob ==
  \A j \in Jobs :
    /\ queries[j] <= 1
    /\ queries[j] = 1 => j \notin validation \cup provider
    /\ j \in validation => j \notin provider /\ ~reservedFor[j]

\* "Identical repeats return one job": a user's idempotency key names one job at
\* most (finalize.js:38-43).
OneJobPerKey ==
  \A i, j \in Jobs :
    HasRow(i) /\ HasRow(j) /\ owner[i] = owner[j] /\ key[i] = key[j] => i = j

\* The counters, the flags of the rows and the outboxes tell one story of the
\* quota.
LedgerIsHonest == TypeOK /\ LedgerMatchesRows /\ EventsArePaid

\* "Authoritative server-side ingestion": no two files of a manifest are one file to
\* the workers, and its groups name files it has, whatever was sent: entries that
\* differ before they are normalized, names that several files have (ingest.js:
\* 145-160, 222-253).
ManifestsAreSound == \A j \in Jobs : Sound(manifest[j])

\* A repeated finalize makes no second job, a job no second query, and what a job is
\* about is sound.
JobsAreSingle == OneJobPerKey /\ OneQueryPerJob /\ ManifestsAreSound

\* Where a job's quota stands, for the ledger below: open until its validation
\* entry is done.
standing ==
  [j \in Jobs |->
     CASE consumedFor[j] -> "consumed"
       [] reservedFor[j] /\ ~consumedFor[j] -> "reserved"
       [] ~reservedFor[j] /\ ~consumedFor[j] ->
            IF HasRow(j) /\ j \notin validation THEN "closed" ELSE "open"]

Ledger == INSTANCE QuotaLedger WITH payer <- owner

\* The service keeps the promise of QuotaLedger: a job is charged once at most,
\* a released reservation never returns, and the totals stay balanced
\* (finalize.js:73-148).
QuotaIsKept == Ledger!LedgerSpec

\* A finalized job leaves "uploaded", although canceled and rolled-back jobs wait
\* in the same outbox (finalize.js:73-93).
UploadsMoveOn == \A j \in Jobs : status[j] = "uploaded" ~> status[j] # "uploaded"

\* "Terminal jobs never reprocess": a job that was canceled or failed is not
\* queued or queried again.
TerminalNeverReprocessed ==
  [][\A j \in Jobs :
       status[j] \in {"canceled", "failed"} =>
         status'[j] \notin {"queued", "awaiting-report"}]_vars
=============================================================================
