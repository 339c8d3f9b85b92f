----------------------------- MODULE FairQueues -----------------------------
(***************************************************************************)
(* The intake and provider queues of the API (apps/api/queues/fair.js):    *)
(* claims that favour the user served least, a cap on concurrent claims    *)
(* per credential, leases that expire, dead letters and a circuit breaker. *)
(*                                                                         *)
(* Workers are not part of the module: they call claim, heartbeat and      *)
(* complete, and a worker that is slow calls complete after its lease has  *)
(* expired and been recovered.  The service identifies a lease by its item *)
(* alone.                                                                  *)
(***************************************************************************)
EXTENDS Naturals, FiniteSets

CONSTANTS
  Items,       \* queue entries; each is enqueued at most once
  Jobs, Users,
  OwnerOf,     \* the user of each job
  Creds, NoCred,
  Workers, NoWorker, NoJob,
  Cap,         \* perCredentialCap
  MaxAttempts, \* failures after which an item is dead-lettered (3)
  MaxFailures, \* uncertain outcomes that open the circuit (3)
  MaxServed    \* bound: the service counters saturate here

ASSUME QueueAssumption ==
  /\ IsFiniteSet(Items)
  /\ OwnerOf \in [Jobs -> Users]
  /\ NoCred \notin Creds /\ NoWorker \notin Workers /\ NoJob \notin Jobs
  /\ Cap \in Nat /\ Cap > 0
  /\ MaxAttempts \in Nat /\ MaxAttempts > 0
  /\ MaxFailures \in Nat /\ MaxFailures > 0
  /\ MaxServed \in Nat

VARIABLES
  state,    \* absent, pending, leased (it has an entry in leases) or done
  job,      \* item.jobId
  cred,     \* item.credentialId, NoCred for intake items
  pos,      \* position in its queue, which is the order of enqueuedAt
  attempts, \* item.attempts
  holder,   \* item.workerId
  lease,    \* how old the lease is: fresh, due or expired
  letter,   \* reason of the item's dead letter, or "none"
  served,   \* claims granted per user
  inflight, \* credentialInflight
  failures, \* circuit.failures
  open,     \* circuit.open
  work      \* items each worker is busy with, whatever the service thinks

queueVars ==
  <<state, job, cred, pos, attempts, holder, lease, letter, served, inflight,
    failures, open>>
allQueueVars == <<queueVars, work>>

QueuesInit ==
  /\ state = [i \in Items |-> "absent"]
  /\ job = [i \in Items |-> NoJob]
  /\ cred = [i \in Items |-> NoCred]
  /\ pos = [i \in Items |-> 0]
  /\ attempts = [i \in Items |-> 0]
  /\ holder = [i \in Items |-> NoWorker]
  /\ lease = [i \in Items |-> "fresh"]
  /\ letter = [i \in Items |-> "none"]
  /\ served = [u \in Users |-> 0]
  /\ inflight = [c \in Creds |-> 0]
  /\ failures = 0
  /\ open = FALSE
  /\ work = [w \in Workers |-> {}]

Queued      == {i \in Items : state[i] # "absent"}
Leased(c)   == {i \in Items : state[i] = "leased" /\ cred[i] = c}
Pending(cs) == {i \in Items : state[i] = "pending" /\ cred[i] \in cs}

-----------------------------------------------------------------------------

\* enqueueIntake (c = NoCred), which always accepts, and enqueueProvider, which
\* refuses while the circuit is open.
Enqueue(i, j, c) ==
  /\ state[i] = "absent"
  /\ c # NoCred => ~open
  /\ state' = [state EXCEPT ![i] = "pending"]
  /\ job' = [job EXCEPT ![i] = j]
  /\ cred' = [cred EXCEPT ![i] = c]
  /\ pos' = [pos EXCEPT ![i] = Cardinality(Queued) + 1]
  /\ UNCHANGED <<attempts, holder, lease, letter, served, inflight, failures,
                 open, work>>

Score(i) == served[OwnerOf[job[i]]]

\* The order claims sort by: least served user first, then oldest item.
Before(i, k) ==
  Score(i) < Score(k) \/ (Score(i) = Score(k) /\ pos[i] < pos[k])
FirstOf(i, S) == i \in S /\ \A k \in S \ {i} : Before(i, k)

\* Mutation: the cap compared with "greater than".
BelowCapOffByOne(c) == c = NoCred \/ inflight[c] <= Cap

\* Intake items have no cap.
BelowCap(c) == c = NoCred \/ inflight[c] < Cap

\* What both claims do with the item they pick.
Grant(w, i) ==
  /\ state' = [state EXCEPT ![i] = "leased"]
  /\ holder' = [holder EXCEPT ![i] = w]
  /\ lease' = [lease EXCEPT ![i] = "fresh"]
  /\ served' = [served EXCEPT ![OwnerOf[job[i]]] =
                  IF @ < MaxServed THEN @ + 1 ELSE @]
  /\ work' = [work EXCEPT ![w] = @ \cup {i}]
  /\ UNCHANGED <<job, cred, pos, attempts, letter, failures, open>>

ClaimIntake(w, i) ==
  /\ FirstOf(i, Pending({NoCred}))
  /\ Grant(w, i)
  /\ UNCHANGED inflight

\* The first item in the order whose credential has room.
ClaimProvider(w, i) ==
  /\ ~open
  /\ FirstOf(i, Pending({c \in Creds : BelowCap(c)}))
  /\ Grant(w, i)
  /\ inflight' = [inflight EXCEPT ![cred[i]] = @ + 1]

\* heartbeat: the holder of a lease that has not expired renews it.
Heartbeat(w, i) ==
  /\ state[i] = "leased" /\ holder[i] = w /\ lease[i] # "expired"
  /\ lease' = [lease EXCEPT ![i] = "fresh"]
  /\ UNCHANGED <<state, job, cred, pos, attempts, holder, letter, served,
                 inflight, failures, open, work>>

\* credentialInflight once the leases on S are gone: never below zero.
SlotsAfter(S) ==
  [c \in Creds |->
     LET n == Cardinality({i \in S : cred[i] = c}) IN
     IF inflight[c] > n THEN inflight[c] - n ELSE 0]

\* Mutation: an uncertain query goes back to the queue like a failed one.
FateOfRetried(i, outcome) ==
  CASE outcome = "success" -> "done"
    [] OTHER -> IF attempts[i] + 1 >= MaxAttempts THEN "done" ELSE "pending"

\* Where an item goes with each outcome of complete.
FateOf(i, outcome) ==
  CASE outcome \in {"success", "uncertain"} -> "done"
    [] outcome = "failure" -> IF attempts[i] + 1 >= MaxAttempts THEN "done" ELSE "pending"

\* complete on an item that has a lease.  Whose lease it is, is not checked.  The
\* count of failures stops at MaxFailures: beyond it the circuit is open and only
\* a reset, which clears the count, makes a difference.
Release(i, outcome) ==
  /\ state' = [state EXCEPT ![i] = FateOf(i, outcome)]
  /\ inflight' = SlotsAfter({i})
  /\ attempts' = IF outcome = "failure" THEN [attempts EXCEPT ![i] = @ + 1]
                 ELSE attempts
  /\ letter' = [letter EXCEPT ![i] =
       CASE outcome = "uncertain" -> "uncertain-query"
         [] outcome = "failure" /\ attempts[i] + 1 >= MaxAttempts -> "max-attempts"
         [] OTHER -> @]
  /\ failures' =
       CASE outcome = "uncertain" /\ failures < MaxFailures -> failures + 1
         [] outcome = "success" /\ failures > 0 -> failures - 1
         [] OTHER -> failures
  /\ open' = (open \/ (outcome = "uncertain" /\ failures' >= MaxFailures))

\* A worker is done with an item and calls complete; without a lease the call
\* is answered with an error and changes nothing.
Complete(w, i, outcome) ==
  /\ i \in work[w]
  /\ work' = [work EXCEPT ![w] = @ \ {i}]
  /\ IF state[i] = "leased" THEN Release(i, outcome)
     ELSE UNCHANGED <<state, attempts, letter, inflight, failures, open>>
  /\ UNCHANGED <<job, cred, pos, holder, lease, served>>

\* A worker dies and never calls complete.
WorkerDies(w) ==
  /\ work[w] # {}
  /\ work' = [work EXCEPT ![w] = {}]
  /\ UNCHANGED queueVars

\* Time passes for a lease.
LeaseAges(i) ==
  /\ state[i] = "leased" /\ lease[i] # "expired"
  /\ lease' = [lease EXCEPT ![i] = IF @ = "fresh" THEN "due" ELSE "expired"]
  /\ UNCHANGED <<state, job, cred, pos, attempts, holder, letter, served,
                 inflight, failures, open, work>>

\* recoverExpiredLeases: every expired lease at once, without counting an
\* attempt.
RecoverExpiredLeases ==
  LET E == {i \in Items : state[i] = "leased" /\ lease[i] = "expired"} IN
  /\ E # {}
  /\ state' = [i \in Items |-> IF i \in E THEN "pending" ELSE state[i]]
  /\ holder' = [i \in Items |-> IF i \in E THEN NoWorker ELSE holder[i]]
  /\ inflight' = SlotsAfter(E)
  /\ UNCHANGED <<job, cred, pos, attempts, lease, letter, served, failures,
                 open, work>>

\* cancelJob: every item of the job in both queues is done and its lease goes;
\* the slot of its credential does not come back.
CancelJob(j) ==
  /\ \E i \in Items : job[i] = j /\ state[i] \in {"pending", "leased"}
  /\ state' = [i \in Items |-> IF job[i] = j THEN "done" ELSE state[i]]
  /\ UNCHANGED <<job, cred, pos, attempts, holder, lease, letter, served,
                 inflight, failures, open, work>>

ResetCircuit ==
  /\ open \/ failures > 0
  /\ open' = FALSE
  /\ failures' = 0
  /\ UNCHANGED <<state, job, cred, pos, attempts, holder, lease, letter,
                 served, inflight, work>>

-----------------------------------------------------------------------------

Outcomes == {"success", "failure", "uncertain"}

Claim(w, i) == ClaimIntake(w, i) \/ ClaimProvider(w, i)

WorkerMoves(w, i) ==
  Claim(w, i) \/ Heartbeat(w, i) \/ \E o \in Outcomes : Complete(w, i, o)

QueuesNext ==
  \/ \E i \in Items, j \in Jobs, c \in Creds \cup {NoCred} : Enqueue(i, j, c)
  \/ \E w \in Workers, i \in Items : WorkerMoves(w, i)
  \/ \E w \in Workers : WorkerDies(w)
  \/ \E i \in Items : LeaseAges(i)
  \/ RecoverExpiredLeases
  \/ \E j \in Jobs : CancelJob(j)
  \/ ResetCircuit

\* Workers poll for work and finish what they have, the recovery sweep runs, and
\* an operator closes the circuit again.
QueuesFairness ==
  /\ \A i \in Items : WF_allQueueVars(\E w \in Workers : Claim(w, i))
  /\ \A w \in Workers, i \in Items :
       WF_allQueueVars(\E o \in Outcomes : Complete(w, i, o))
  /\ \A i \in Items : WF_allQueueVars(LeaseAges(i))
  /\ WF_allQueueVars(RecoverExpiredLeases)
  /\ WF_allQueueVars(ResetCircuit)

QueuesSpec     == QueuesInit /\ [][QueuesNext]_allQueueVars
QueuesFairSpec == QueuesSpec /\ QueuesFairness

-----------------------------------------------------------------------------

\* Every variable holds a value of the queue entries and counters.
TypeOK ==
  /\ state \in [Items -> {"absent", "pending", "leased", "done"}]
  /\ job \in [Items -> Jobs \cup {NoJob}]
  /\ cred \in [Items -> Creds \cup {NoCred}]
  /\ pos \in [Items -> Nat]
  /\ attempts \in [Items -> Nat]
  /\ holder \in [Items -> Workers \cup {NoWorker}]
  /\ lease \in [Items -> {"fresh", "due", "expired"}]
  /\ letter \in [Items -> {"none", "uncertain-query", "max-attempts"}]
  /\ served \in [Users -> Nat]
  /\ inflight \in [Creds -> Nat]
  /\ failures \in Nat
  /\ open \in BOOLEAN
  /\ work \in [Workers -> SUBSET Items]

\* No interleaving of claims, completions by holders or strangers, expiries,
\* sweeps and cancellations gives one credential more leases than its cap, and
\* the counter the claims look at never runs below the leases that exist.
LeasesWithinCap ==
  \A c \in Creds : Cardinality(Leased(c)) <= inflight[c] /\ inflight[c] <= Cap

\* An item is dead-lettered as "max-attempts" exactly when it used up its
\* attempts, and what is dead-lettered is out of the queue: neither a late
\* completion nor the recovery sweep brings it back.
DeadLettersStayOut ==
  \A i \in Items :
    /\ letter[i] # "none" => state[i] = "done"
    /\ letter[i] = "max-attempts" => attempts[i] = MaxAttempts
    /\ state[i] \in {"pending", "leased"} => attempts[i] < MaxAttempts

\* The entries keep their types, and what is dead-lettered never comes back.
LettersAreFinal == TypeOK /\ DeadLettersStayOut

\* "Noisy users cannot starve others": an item that waits for the provider is
\* claimed or ended some day.
ProviderItemsMove ==
  \A i \in Items :
    (state[i] = "pending" /\ cred[i] # NoCred) ~> state[i] # "pending"
=============================================================================
