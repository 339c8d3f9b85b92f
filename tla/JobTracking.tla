---------------------------- MODULE JobTracking -----------------------------
(***************************************************************************)
(* What is known of jobs: the repository, the status rows, and the poller  *)
(* of a client (createStatusPoller of apps/api/jobs/durable-status.js).    *)
(* Repository and rows are written by different callers and share nothing. *)
(*                                                                         *)
(* One tick of the poller fetches one job after the other and waits for    *)
(* each answer; stop can be called in between.                             *)
(***************************************************************************)
EXTENDS Naturals, Sequences, FiniteSets

CONSTANTS
  Names, Writers,   \* of the repository
  Jobs,             \* the jobs of the status rows, all polled
  MaxFailures       \* bound on the fetches that fail

ASSUME TrackingAssumption ==
  /\ "none" \notin Names /\ "none" \notin Jobs
  /\ MaxFailures \in Nat

VARIABLES
  job, events, copy,
  rows, claimed,
  stage,       \* how far the writer of each row has come, see Stages
  active,      \* the ids the poller still polls
  stopped,
  tick,        \* the tick under way, see TickTypes
  failures,    \* fetches that failed
  stopCalled,  \* history: stop() was called
  lateUpdates, \* history: jobs whose projection was passed on after that
  lastSeen     \* history: what the last projection of each job said, see Sights

INSTANCE JobRepository
INSTANCE JobStatus

repoVars == <<job, events, copy>>
statusVars == <<rows, claimed>>
pollVars == <<active, stopped, tick, failures, stopCalled, lateUpdates,
              lastSeen>>
trackingVars == <<repoVars, statusVars, stage, pollVars>>

\* What a projection says of its job: it goes on; it is over (terminal, forgotten,
\* missing or refused); or it goes on although it was canceled once.
Sights == {"open", "over", "withdrawn"}

Sight(j) ==
  CASE IsOver(j) -> "over"
    [] ~IsOver(j) /\ Withdrawn(j) -> "withdrawn"
    [] ~StopPolling(j) -> "open"

\* todo: ids the loop has yet to visit, as long as they are in active.
TickTypes ==
  [ at    : {"none", "loop", "sent", "answered", "sleeping"},
    job   : Jobs \cup {"none"},
    sight : Sights,           \* what the answer says
    todo  : SUBSET Jobs,
    still : SUBSET Jobs ]

NoTick == [at |-> "none", job |-> "none", sight |-> "open", todo |-> {}, still |-> {}]

TrackingInit ==
  /\ RepoInit /\ StatusInit
  /\ stage = [j \in Jobs |-> 0]
  /\ active = Jobs
  /\ stopped = FALSE
  /\ tick = NoTick
  /\ failures = 0
  /\ stopCalled = FALSE
  /\ lateUpdates = {}
  /\ lastSeen = [j \in Jobs |-> "open"]

-----------------------------------------------------------------------------
\* The writer of a row names its status without looking at the row.

\* "queued" stands for the statuses before it, "submitting" for "awaiting-report":
\* no reader of a row tells them apart.
Stages == <<"queued", "submitting", "succeeded">>

WriteStatus(j) ==
  /\ stage[j] < Len(Stages)
  /\ \E to \in {stage[j] + 1, Len(Stages) + 1} :
       /\ stage' = [stage EXCEPT ![j] = to]
       /\ IF to > Len(Stages)
          THEN stage[j] > 0 /\ Upsert(j, "failed", FALSE)
          ELSE Upsert(j, Stages[to], to = Len(Stages))
  /\ UNCHANGED <<repoVars, pollVars>>

CancelRow(j) == RequestCancel(j) /\ UNCHANGED <<repoVars, stage, pollVars>>
ForgetRow(j) == MarkForgotten(j) /\ UNCHANGED <<repoVars, stage, pollVars>>

-----------------------------------------------------------------------------
\* tick.

StartTick ==
  /\ tick = NoTick /\ ~stopped /\ active # {}
  /\ tick' = [NoTick EXCEPT !.at = "loop", !.todo = active]
  /\ UNCHANGED <<repoVars, statusVars, stage, active, stopped, failures,
                 stopCalled, lateUpdates, lastSeen>>

UnvisitedSnapshot == tick.todo     \* mutant: loops over a copy of the set

\* What the loop has yet to visit of a set that stop may have cleared.
Unvisited == tick.todo \cap active

Fetch(j) ==
  /\ tick.at = "loop" /\ j \in Unvisited
  /\ tick' = [tick EXCEPT !.at = "sent", !.job = j, !.todo = @ \ {j}]
  /\ UNCHANGED <<repoVars, statusVars, stage, active, stopped, failures,
                 stopCalled, lateUpdates, lastSeen>>

\* The projection is read while the answer is on its way.
Answer ==
  /\ tick.at = "sent"
  /\ tick' = [tick EXCEPT !.at = "answered", !.sight = Sight(tick.job)]
  /\ UNCHANGED <<repoVars, statusVars, stage, active, stopped, failures,
                 stopCalled, lateUpdates, lastSeen>>

\* fetchStatus rejects, and so does tick.
FetchFails ==
  /\ tick.at = "sent"
  /\ failures < MaxFailures /\ failures' = failures + 1
  /\ tick' = NoTick
  /\ UNCHANGED <<repoVars, statusVars, stage, active, stopped, stopCalled,
                 lateUpdates, lastSeen>>

DropsRequested(sight, j) ==      \* mutant: a requested cancellation counts as the end
  sight # "open" \/ rows[j].status = "cancel-requested"

DropsNever(sight, j) == FALSE    \* mutant: every job stays

Drops(sight, j) == sight # "open"

\* onUpdate, and the decision whether to go on with the job.
OnUpdate ==
  /\ tick.at = "answered"
  /\ lastSeen' = [lastSeen EXCEPT ![tick.job] = tick.sight]
  /\ lateUpdates' = IF stopCalled THEN lateUpdates \cup {tick.job} ELSE lateUpdates
  /\ tick' = [tick EXCEPT !.at = "loop", !.job = "none", !.sight = "open",
       !.still = IF Drops(tick.sight, tick.job) THEN @ ELSE @ \cup {tick.job}]
  /\ UNCHANGED <<repoVars, statusVars, stage, active, stopped, failures,
                 stopCalled>>

\* After the loop: what is left is what comes next, also when stop has cleared it.
EndLoop ==
  /\ tick.at = "loop" /\ Unvisited = {}
  /\ active' = tick.still
  /\ stopped' = (stopped \/ tick.still = {})
  /\ tick' = IF tick.still = {} THEN NoTick ELSE [NoTick EXCEPT !.at = "sleeping"]
  /\ UNCHANGED <<repoVars, statusVars, stage, failures, stopCalled, lateUpdates, lastSeen>>

Wake ==
  /\ tick.at = "sleeping"
  /\ tick' = NoTick
  /\ UNCHANGED <<repoVars, statusVars, stage, active, stopped, failures,
                 stopCalled, lateUpdates, lastSeen>>

Stop ==
  /\ stopped' = TRUE
  /\ active' = {}
  /\ stopCalled' = TRUE
  /\ UNCHANGED <<repoVars, statusVars, stage, tick, failures, lateUpdates,
                 lastSeen>>

-----------------------------------------------------------------------------
RepoStep == RepoNext /\ UNCHANGED <<statusVars, stage, pollVars>>

TrackingNext ==
  \/ RepoStep
  \/ \E j \in Jobs : WriteStatus(j) \/ CancelRow(j) \/ ForgetRow(j) \/ Fetch(j)
  \/ StartTick \/ Answer \/ FetchFails \/ OnUpdate \/ EndLoop \/ Wake \/ Stop

\* The caller of the poller ticks again when a tick is over, and a fetch that is not
\* lost is answered.
TrackingFairness ==
  /\ WF_trackingVars(StartTick) /\ WF_trackingVars(\E j \in Jobs : Fetch(j)) /\ WF_trackingVars(Answer)
  /\ WF_trackingVars(OnUpdate) /\ WF_trackingVars(EndLoop) /\ WF_trackingVars(Wake)

TrackingSpec == TrackingInit /\ [][TrackingNext]_trackingVars /\ TrackingFairness

-----------------------------------------------------------------------------
\* Properties.

TrackingTypeOK ==
  /\ StatusTypeOK
  /\ active \subseteq Jobs
  /\ stopped \in BOOLEAN /\ stopCalled \in BOOLEAN
  /\ tick \in TickTypes /\ failures \in 0..MaxFailures
  /\ tick.job = "none" <=> tick.at \in {"none", "loop", "sleeping"}

\* The poller gives up on a job by itself only when the last projection of it said
\* that it was over, or when its owner had been told "Canceled before provider query
\* acceptance." and a later writer took it up again: the flag of that cancellation
\* (durable-status.js:93) outlives every upsert, and line 65 asks for it.
DroppedWereFinal ==
  \A j \in Jobs : j \notin active /\ ~stopCalled =>
    lastSeen[j] = "over" \/ (lastSeen[j] = "withdrawn" /\ j \in claimed)

\* docs/engineering/durable-job-status.md: "Polling stops for terminal, forgotten, and
\* unauthorized jobs."  It stops for others too: this does not hold of a job that was
\* canceled, shown as submitting and canceled again.
PollingStopsForTheEnded ==
  \A j \in Jobs : j \notin active /\ ~stopCalled => lastSeen[j] = "over"

\* What the poller keeps fits together, and the jobs it dropped had ended or had been
\* canceled.
ListIsEarned == TrackingTypeOK /\ DroppedWereFinal

\* stop() lets at most the one answer through that was awaited then.
OneUpdateAfterStop == Cardinality(lateUpdates) <= 1

\* A job whose projection goes on ending its polls is polled no more in the end, and neither is anything when
\* stop() was called.
PollingEnds ==
  \A j \in Jobs : <>[]StopPolling(j) => <>[](stopped \/ j \notin active)

\* docs/engineering/durable-job-status.md: "Late cancellation never claims to have
\* stopped an already-accepted provider query."  The row of a job that is being
\* submitted counts as one that may be accepted (durable-status.js:79).
LateCancelNeverClaims ==
  [][\A j \in Jobs : j \in claimed' \ claimed => stage[j] < 2]_trackingVars
=============================================================================
