------------------------------ MODULE PairRun ------------------------------
(***************************************************************************)
(* The live pair run of the extension's run window (WorkflowApp.tsx),      *)
(* composed with the job service it talks to.  A start walks through       *)
(* create, attach, upload and finalize calls; meanwhile React effects      *)
(* persist the run and refund credits, a poll reads the job, the deadline  *)
(* fires, the customer cancels, starts over, closes and reopens the        *)
(* window, and the server restarts.                                        *)
(*                                                                         *)
(* A start names the job id that createJob would allocate for it and the   *)
(* idempotency key it sends, so Starts = Jobs = Keys.  A call is handled   *)
(* by the server in a step of its own; the client may see it fail whether  *)
(* or not it was handled, and the server may still handle it afterwards.   *)
(***************************************************************************)
EXTENDS PairService, Sequences

CONSTANTS
  Customer,   \* the user of this browser
  Pending,    \* the jobId "pending" of a run whose job is not created yet
  Total,      \* runs in the entitlement
  MaxEffects  \* bound: persist effects under way at the same time

ASSUME RunAssumption ==
  /\ Keys = Jobs
  /\ Customer \in Users
  /\ Pending \notin Jobs /\ Pending # NoJob
  /\ Total \in Nat \ {0}
  /\ MaxEffects \in Nat \ {0}

VARIABLES
  open,       \* the run window is open
  run,        \* React state: the run shown
  step,       \* where tryStartJob of each start is
  call,       \* the request of each start that the server may still handle
  active,     \* activeJob in the extension's persisted state
  effects,    \* bodies of the persist effect that are under way, with the run
              \* each of them captured
  timers,     \* the timers armed for the run shown: "tick" and "deadline"
  poll,       \* the poll under way, and the job status it was answered with
  remaining,  \* runs left in the entitlement
  released,   \* run references already refunded
  report,     \* reportUrl: the job whose report the window links to
  history,    \* past results in storage: of each job, the report it links to
  remembered, \* jobs this window has written to them
  shownOver   \* history: jobs whose run a window has shown as over

linkVars   == <<report, history, remembered>>
clientVars ==
  <<open, run, step, call, active, effects, timers, poll, remaining,
    released, linkVars, shownOver>>
vars == <<serviceVars, clientVars>>

Starts == Jobs

TerminalPhases == {"success", "failure", "cancelled", "timeout"}
Phases == {"validate", "upload", "queue", "submit", "wait"} \cup TerminalPhases

Run(ref, phase, sub) == [ref |-> ref, phase |-> phase, submitted |-> sub]
NoRun    == Run(NoJob, "none", FALSE)
NoActive == [job |-> NoJob, status |-> "none"]
NoPoll   == [job |-> NoJob, status |-> "none", submitted |-> FALSE]
Asking(ref) == [job |-> ref, status |-> "asked", submitted |-> FALSE]
Revealing(ref) == [job |-> ref, status |-> "revealing", submitted |-> FALSE]

\* A run is shown and has not reached a terminal phase.
Live(r) == r.phase \notin TerminalPhases \cup {"none"}
Running == Live(run)

ClientInit ==
  /\ open = TRUE
  /\ run = NoRun
  /\ step = [s \in Starts |-> "idle"]
  /\ call = [s \in Starts |-> "none"]
  /\ active = NoActive
  /\ effects = <<>>
  /\ timers = {}
  /\ poll = NoPoll
  /\ remaining = Total
  /\ released = {}
  /\ report = NoJob
  /\ history = [s \in Starts |-> NoJob]
  /\ remembered = {}
  /\ shownOver = {}

-----------------------------------------------------------------------------
\* The phase tables of run-lifecycle and api-client.

\* Mutation: an ambiguous job shown as finished.
PhaseFromJobStatusLax(st) ==
  CASE st \in {"draft", "ready"} -> "validate"
    [] st = "waiting" -> "wait"
    [] st \in {"succeeded", "ambiguous"} -> "success"
    [] st = "failed" -> "failure"

\* phaseFromJobStatus, on the statuses the service shows.
PhaseFromJobStatus(st) ==
  CASE st \in {"draft", "ready"} -> "validate"
    [] st = "waiting" -> "wait"
    [] st = "succeeded" -> "success"
    [] st = "failed" -> "failure"
    [] st = "ambiguous" -> "timeout"

\* PHASE_JOB_STATUS, and its inverse JOB_STATUS_PHASE.
PhaseJobStatus ==
  [validate |-> "ready", upload |-> "uploading", queue |-> "queued",
   submit |-> "submitting", wait |-> "waiting", success |-> "succeeded",
   failure |-> "failed", cancelled |-> "cancelled", timeout |-> "ambiguous"]
JobStatusPhase(st) == CHOOSE p \in Phases : PhaseJobStatus[p] = st

JobStatusForRun(r) ==
  IF r.phase = "timeout" /\ ~r.submitted THEN "failed"
  ELSE PhaseJobStatus[r.phase]

ShouldReleaseRunCredit(r) ==
  r.phase \in TerminalPhases \ {"success"} /\ ~r.submitted

\* TERMINAL_STATUSES of the extension's state store; "ambiguous" is not one.
StoreTerminal == {"succeeded", "failed", "cancelled"}

\* The runs recoverRunState can rebuild from a persisted job: the phase it was
\* stored with, or a timeout when the deadline has passed.
Recovered(act) ==
  LET p   == JobStatusPhase(act.status)
      sub == p \in {"wait", "success"} \/ act.status = "ambiguous"
  IN {Run(act.job, p, sub)}
       \cup IF p \in TerminalPhases THEN {} ELSE {Run(act.job, "timeout", sub)}

\* releaseDemoRun: give a run back unless this reference was refunded before.
\* A reference made of the clock (NoJob here) is never met again.
Release(ref) ==
  IF ref \in released THEN UNCHANGED <<remaining, released>>
  ELSE /\ remaining' = IF remaining < Total THEN remaining + 1 ELSE Total
       /\ released' = released \cup ({ref} \ {NoJob})

\* bindJob for a job the store accepts.
Bound(s) == [job |-> s, status |-> "uploading"]

\* Mutation: bindJob replaces whatever is bound.
BindsAnyway(s) == s \in Starts

\* bindJob refuses a job while another one is bound and not terminal.
BindAccepted(s) ==
  active = NoActive \/ active.status \in StoreTerminal \/ active.job = s

\* The persist effect is entered for r and captures it.
Enter(r) ==
  IF r = NoRun THEN UNCHANGED effects
  ELSE Len(effects) < MaxEffects /\ effects' = Append(effects, r)

\* The timers are armed for a live run whenever another run object is shown, and
\* only then.
Arm(r) == timers' = IF Live(r) THEN {"tick", "deadline"} ELSE {}

\* setRun(r).  The render that shows r enters the effect unless syncedRunRef
\* already holds its job and phase.
Show(r) ==
  /\ run' = r
  /\ Arm(r)
  /\ IF r.ref = run.ref /\ r.phase = run.phase THEN UNCHANGED effects ELSE Enter(r)

\* setRun(r) after syncedRunRef was cleared.
ShowAnew(r) == run' = r /\ Arm(r) /\ Enter(r)

\* refreshState: the run shown is replaced by the persisted job, if there is one.
RefreshState ==
  IF active = NoActive THEN UNCHANGED <<run, effects, timers>>
  ELSE \E r \in Recovered(active) : Show(r)

\* setRun(prev => prev ? {...prev, phase: p} : prev)
ShowPhase(p) == Show(IF run = NoRun THEN NoRun ELSE [run EXCEPT !.phase = p])

-----------------------------------------------------------------------------
\* tryStartJob.

\* The button is enabled; the checks before consumeDemoRun pass.
ClickStart(s) ==
  /\ open /\ step[s] = "idle" /\ ~Running /\ remaining > 0
  /\ step' = [step EXCEPT ![s] = "clicked"]
  /\ UNCHANGED <<serviceVars, open, run, call, active, effects, timers, poll,
                 remaining, released, report>>

\* probeApi: the API does not answer, or is not well; no run is taken.
ProbeFails(s) ==
  /\ step[s] = "clicked"
  /\ step' = [step EXCEPT ![s] = "stopped"]
  /\ UNCHANGED <<serviceVars, open, run, call, active, effects, timers, poll,
                 remaining, released, report>>

\* consumeDemoRun takes a run, if one is left, and the run is shown as pending
\* while the create call leaves.
ConsumeAndCreate(s) ==
  /\ step[s] = "clicked"
  /\ IF remaining = 0
       THEN /\ step' = [step EXCEPT ![s] = "stopped"]
            /\ UNCHANGED <<run, call, effects, timers, remaining, report>>
       ELSE /\ step' = [step EXCEPT ![s] = "create"]
            /\ call' = [call EXCEPT ![s] = "create"]
            /\ remaining' = remaining - 1
            /\ ShowAnew(Run(Pending, "validate", FALSE))
            /\ report' = NoJob
  /\ UNCHANGED <<serviceVars, open, active, poll, released>>

\* The requests of the api client, each with the owner, and what they make the server
\* do.
CreatePairJob(s)        == call[s] = "create" /\ CreateJob(Customer, s, s)
AttachMossCredential(s) == call[s] = "attach" /\ AttachCredential(Customer, s)
UploadPairFiles(s)      == call[s] = "upload" /\ UploadFiles(Customer, s)
FinalizeJob(s)          == call[s] = "finalize" /\ Finalize(Customer, s)
GetJobStatus(j) ==
  [job |-> j, status |-> status[j], submitted |-> submitted[j]]

\* The server handles the request of s.
Serve(s) ==
  /\ CreatePairJob(s) \/ AttachMossCredential(s) \/ UploadPairFiles(s) \/ FinalizeJob(s)
  /\ call' = [call EXCEPT ![s] = "answered"]
  /\ UNCHANGED <<open, run, step, active, effects, timers, poll, remaining,
                 released, report>>

\* The step of s is over with a good answer, and the next call leaves.
Proceed(s, from, to) ==
  /\ step[s] = from /\ call[s] = "answered"
  /\ step' = [step EXCEPT ![s] = to]
  /\ call' = [call EXCEPT ![s] = to]

\* The job exists: bind it in the store, then hand over the Moss id.  When the
\* store refuses, the run is given back.
Created(s) ==
  /\ BindAccepted(s)
  /\ Proceed(s, "create", "attach")
  /\ active' = Bound(s)
  /\ Show(IF run = NoRun THEN NoRun
          ELSE [run EXCEPT !.ref = s, !.phase = "upload"])
  /\ UNCHANGED <<serviceVars, open, poll, remaining, released, report>>

BindRefused(s) ==
  /\ step[s] = "create" /\ call[s] = "answered" /\ ~BindAccepted(s)
  /\ step' = [step EXCEPT ![s] = "refresh"]
  /\ Show(NoRun)
  /\ Release(s)
  /\ UNCHANGED <<serviceVars, open, call, active, poll, report>>

Attached(s) ==
  /\ Proceed(s, "attach", "upload")
  /\ UNCHANGED <<serviceVars, open, run, active, effects, timers, poll,
                 remaining, released, report>>

Uploaded(s) ==
  /\ Proceed(s, "upload", "finalize")
  /\ ShowPhase("queue")
  /\ UNCHANGED <<serviceVars, open, active, poll, remaining,
                 released, report>>

Finalized(s) ==
  /\ step[s] = "finalize" /\ call[s] = "answered"
  /\ step' = [step EXCEPT ![s] = "refresh"]
  /\ Show(IF run = NoRun THEN NoRun
          ELSE [run EXCEPT !.phase = "submit", !.submitted = TRUE])
  /\ UNCHANGED <<serviceVars, open, call, active, poll,
                 remaining, released, report>>

\* refreshState at the end of a start replaces the run by the persisted one.
Refresh(s) ==
  /\ step[s] = "refresh"
  /\ step' = [step EXCEPT ![s] = "stopped"]
  /\ RefreshState
  /\ UNCHANGED <<serviceVars, open, call, active, poll,
                 remaining, released, report>>

\* After a failed call the start is over; a request may still be under way.
AfterFailure(s) == [step |-> "stopped", call |-> call[s]]

\* A call of s fails for the client: refused by the server, or its request or
\* its answer lost.  The run is credited back and, except for create, shown as
\* failed.
CallFailed(s) ==
  /\ step[s] \in {"create", "attach", "upload", "finalize"}
  /\ step' = [step EXCEPT ![s] = AfterFailure(s).step]
  /\ call' = [call EXCEPT ![s] = AfterFailure(s).call]
  /\ Release(IF step[s] = "create" THEN NoJob ELSE s)
  /\ CASE step[s] = "create" -> Show(NoRun)
       [] step[s] = "attach" -> Show(Run(s, "failure", FALSE))
       [] OTHER -> ShowPhase("failure")
  /\ UNCHANGED <<serviceVars, open, active, poll, report>>

-----------------------------------------------------------------------------
\* What runs beside a start.

\* The body of a persist effect ends: update-job, which the store ignores for a
\* job that is not bound, then the refund.
FinishEffect ==
  /\ effects # <<>>
  /\ LET r == Head(effects) IN
       /\ active' = IF active.job = r.ref
                      THEN [active EXCEPT !.status = JobStatusForRun(r)]
                      ELSE active
       /\ IF ShouldReleaseRunCredit(r) THEN Release(r.ref)
          ELSE UNCHANGED <<remaining, released>>
  /\ effects' = Tail(effects)
  /\ UNCHANGED <<serviceVars, open, run, step, call, timers, poll, report>>

\* A timer fires and calls pollLiveRun, which does nothing while a poll is under
\* way; otherwise it ends the run past its deadline or polls before it.
TimerFires(t) ==
  /\ t \in timers
  /\ \/ /\ poll # NoPoll
        /\ timers' = timers \ {t}
        /\ UNCHANGED <<run, effects, poll>>
     \/ /\ poll = NoPoll
        /\ ShowPhase("timeout")
        /\ UNCHANGED poll
     \/ /\ poll = NoPoll /\ t = "tick"
        /\ poll' = Asking(run.ref)
        /\ timers' = timers \ {t}
        /\ UNCHANGED <<run, effects>>
  /\ UNCHANGED <<serviceVars, open, step, call, active, remaining, released, report>>

\* The service answers the poll.
PollRead ==
  /\ poll.status = "asked" /\ poll.job \in Jobs /\ Owns(Customer, poll.job)
  /\ poll' = GetJobStatus(poll.job)
  /\ UNCHANGED <<serviceVars, open, run, step, call, active, effects, timers,
                 remaining, released, report>>

\* The poll fails: no network, no such job, or the jobId "pending".
PollFailed ==
  /\ poll # NoPoll
  /\ poll' = NoPoll
  /\ UNCHANGED <<serviceVars, open, run, step, call, active, effects, timers,
                 remaining, released, report>>

\* Its answer is applied unless the run shown is another one or over by now.
PollApply ==
  /\ poll.status \notin {"none", "asked", "revealing"}
  /\ LET p == PhaseFromJobStatus(poll.status) IN
     /\ poll' = IF p = "success" THEN Revealing(poll.job) ELSE NoPoll
     /\ IF run.ref = poll.job /\ Running
          THEN Show([run EXCEPT !.phase = p, !.submitted =
                       @ \/ poll.submitted \/ p \in {"wait", "success"}])
          ELSE UNCHANGED <<run, effects, timers>>
  /\ UNCHANGED <<serviceVars, open, step, call, active, remaining, released, report>>

\* revealUrl of the result store: there is a row, and its link was not forgotten.
UrlKept(j) == result[j] = "kept"

\* What revealResult answers with a link for.
Revealable(j) == Owns(Customer, j) /\ status[j] = "succeeded" /\ UrlKept(j)

\* The link of the report is asked for whatever run is shown by then, and shown when
\* it comes.
RevealResult ==
  /\ poll.status = "revealing" /\ Revealable(poll.job)
  /\ report' = poll.job
  /\ poll' = NoPoll
  /\ UNCHANGED <<serviceVars, open, run, step, call, active, effects, timers,
                 remaining, released>>

\* The link is forgotten here, and the server is told to forget that of the run shown.
ForgetReportLink ==
  /\ report # NoJob
  /\ report' = NoJob
  /\ \/ run.ref \in Jobs /\ ForgetResult(Customer, run.ref)
     \/ UNCHANGED serviceVars
  /\ UNCHANGED <<open, run, step, call, active, effects, timers, poll,
                 remaining, released>>

\* The customer cancels the run, which finds it timed out when the deadline has
\* passed: a local matter, the service is not told.
Cancel ==
  /\ open /\ Running
  /\ \E p \in {"cancelled", "timeout"} : ShowPhase(p)
  /\ UNCHANGED <<serviceVars, open, step, call, active, poll, remaining,
                 released, report>>

\* startOver (offered when the run is over) and discard (always offered):
\* clearRun, which cancels the bound job of a live run, then refreshState.
StartOver ==
  /\ open /\ run # NoRun
  /\ active' = IF Running /\ active.job = run.ref
                 THEN [active EXCEPT !.status = "cancelled"] ELSE active
  /\ IF active' = NoActive THEN ShowAnew(NoRun)
       ELSE \E r \in Recovered(active') : ShowAnew(r)
  /\ report' = NoJob
  /\ UNCHANGED <<serviceVars, open, step, call, poll, remaining,
                 released>>

\* Closing the window ends everything that runs in it.
CloseWindow ==
  /\ open
  /\ open' = FALSE
  /\ run' = NoRun
  /\ step' = [s \in Starts |-> IF step[s] = "idle" THEN "idle" ELSE "stopped"]
  /\ effects' = <<>>
  /\ timers' = {}
  /\ poll' = NoPoll
  /\ report' = NoJob
  /\ UNCHANGED <<serviceVars, call, active, remaining, released>>

\* A new window recovers the persisted job.
OpenWindow ==
  /\ ~open
  /\ open' = TRUE
  /\ RefreshState
  /\ UNCHANGED <<serviceVars, step, call, active, poll,
                 remaining, released, report>>

\* The service moves by itself.
ServiceMoves ==
  /\ \/ \E a \in Attempts, o \in Outcomes : Settle(a, o)
     \/ Restart
  /\ UNCHANGED <<open, run, step, call, active, effects, timers, poll,
                 remaining, released, report>>

\* rememberResult replaces what was kept for the job.
Kept(j, link) == [history EXCEPT ![j] = link]

\* The effect of a run that succeeded, with the link shown: once for each job in a
\* window.
Remember ==
  LET due == run'.phase = "success" /\ report' # NoJob /\ run'.ref \notin remembered
  IN
  /\ remembered' = IF ~open' THEN {}
                   ELSE IF due THEN remembered \cup {run'.ref} ELSE remembered
  /\ history' = IF due THEN Kept(run'.ref, report') ELSE history

\* What a window has shown of a run is not taken back.
ShowsOver ==
  shownOver' = IF run'.phase \in TerminalPhases /\ run'.ref \in Starts
                 THEN shownOver \cup {run'.ref} ELSE shownOver

\* The card of the past results, each with a button to remove it.
HistoryCard == {s \in Starts : history[s] # NoJob}

\* removeHistoryEntry and clearHistory.
ForgetHistory ==
  /\ open
  /\ \E gone \in {{s} : s \in HistoryCard} \cup ({HistoryCard} \ {{}}) :
       /\ history' = [s \in Starts |-> IF s \in gone THEN NoJob ELSE history[s]]
  /\ UNCHANGED <<serviceVars, open, run, step, call, active, effects, timers, poll,
                 remaining, released, report, remembered, shownOver>>

-----------------------------------------------------------------------------

Init == ServiceInit /\ ClientInit

StartMoves(s) ==
  \/ ClickStart(s) \/ ProbeFails(s) \/ ConsumeAndCreate(s) \/ Serve(s) \/ Created(s)
  \/ BindRefused(s) \/ Attached(s) \/ Uploaded(s) \/ Finalized(s)
  \/ Refresh(s) \/ CallFailed(s)

RunMoves ==
  \/ \E s \in Starts : StartMoves(s)
  \/ FinishEffect
  \/ \E t \in {"tick", "deadline"} : TimerFires(t)
  \/ PollRead \/ PollFailed \/ PollApply \/ RevealResult
  \/ Cancel \/ StartOver \/ ForgetReportLink \/ CloseWindow \/ OpenWindow
  \/ ServiceMoves

Next == (RunMoves /\ Remember /\ ShowsOver) \/ ForgetHistory

\* What runs without the customer goes on: timers fire, polls, calls and effects
\* come to an end, submissions settle.
Fairness ==
  /\ \A t \in {"tick", "deadline"} : WF_vars(TimerFires(t))
  /\ WF_vars(PollApply \/ PollFailed)
  /\ WF_vars(FinishEffect)
  /\ \A s \in Starts : WF_vars(StartMoves(s))
  /\ \A a \in Attempts : WF_vars((\E o \in Outcomes : Settle(a, o)) /\ UNCHANGED clientVars)

Spec     == Init /\ [][Next]_vars
FairSpec == Spec /\ Fairness

-----------------------------------------------------------------------------

RunRecord ==
  [ref : Jobs \cup {Pending, NoJob},
   phase : Phases \cup {"none"}, submitted : BOOLEAN]

\* Every variable of the client holds what the window and the store can hold.
ClientTypeOK ==
  /\ open \in BOOLEAN
  /\ run \in RunRecord
  /\ step \in [Starts -> {"idle", "clicked", "create", "attach", "upload",
                          "finalize", "refresh", "stopped"}]
  /\ call \in [Starts -> {"none", "create", "attach", "upload", "finalize",
                          "answered"}]
  /\ active \in [job : Starts \cup {NoJob},
                 status : {PhaseJobStatus[p] : p \in Phases} \cup {"none"}]
  /\ timers \subseteq {"tick", "deadline"}
  /\ timers # {} => Running
  /\ effects \in Seq(RunRecord) /\ Len(effects) <= MaxEffects
  /\ remaining \in 0..Total
  /\ released \subseteq Starts \cup {Pending}
  /\ report \in Starts \cup {NoJob}
  /\ history \in [Starts -> Starts \cup {NoJob}] /\ remembered \subseteq Starts
  /\ shownOver \subseteq Starts

\* A submission under way whose run no window has shown as over (failed, cancelled or
\* timed out) is that of the bound job, and the job is stored as unfinished: a new
\* window finds it and goes on asking for it, whatever answers, refusals and other
\* starts there were.  Not more can be said: the answer of finalize that is lost shows
\* the run as failed, and the next start then binds its own job over it (store.cjs:139).
SubmissionIsRecoverable ==
  \A s \in Starts : InFlight(s) # {} =>
    s \in shownOver \/ (active.job = s /\ active.status \notin StoreTerminal)

\* A past result is of a job that was submitted, and links to the report of a
\* submission, whichever run was shown when the link came.
HistoryIsEarned ==
  \A s \in Starts : history[s] # NoJob =>
    \A j \in {s, history[s]} : \E a \in SubmissionsOf(j) : attempt[a].state = "linked"

\* The window's own state fits together, a submission under way is bound until a window
\* has shown its run as over, and past results are of submissions.
WindowRemembers == ClientTypeOK /\ SubmissionIsRecoverable /\ HistoryIsEarned

\* "Persist successful report links into local past-results history": each with its
\* own run.  Not so when the link of an earlier run comes while a later one is shown:
\* it is then kept as the result of the later one, whose own link is not written, for
\* that job is remembered.
LinksAreTheirs == \A s \in Starts : history[s] \in {s, NoJob}

\* The window and the store never claim a report the service did not get: the
\* implementation of OncePerStart by the service and this client together.
fateOf(s) ==
  LET subs == SubmissionsOf(s) IN
  IF subs = {} THEN "unsent"
  ELSE IF Cardinality(subs) > 1 THEN "twice"
  ELSE attempt[CHOOSE a \in subs : TRUE].state
announcedNow ==
  {s \in Starts : \/ run.ref = s /\ run.phase = "success"
                  \/ active.job = s /\ active.status = "succeeded"}
Promise == INSTANCE OncePerStart
             WITH fate <- [s \in Starts |-> fateOf(s)], announced <- announcedNow
OneSubmissionPerStart == Promise!Spec

\* "Deadline always wins": a live run does not stay live for ever, however its
\* polls end (the two timers and pollInFlightRef of pollLiveRun).
RunResolves == Running ~> ~Running

\* "A run is credited back only when the attempt ended with nothing submitted":
\* a start that was refunded has not been submitted and never will be.
RefundOnlyWhenUnsubmitted ==
  \A s \in Starts : s \in released => SubmissionsOf(s) = {}
=============================================================================
