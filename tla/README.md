# TLA+ models of the Moss similarity extension

This directory is a verification development of the repository: TLA+ modules that
model the parts of the program that keep state, TLC configurations that check them on
small instances, and proofs checked by TLAPS of what holds on every instance. Paths
are relative to the repository.

Contents: 1 the system, 2 the modules, 3 the runs, 4 bounds and fairness, 5 the proofs,
6 where the code and its documents disagree, 7 what is not modelled, 8 the plan.

## 1. The system

The program compares two students' files with the Moss service. A browser extension
(`apps/extension`) opens a run window; the window talks to an HTTP API (`apps/api`),
which sends the files to Moss over a line protocol (`packages/provider-adapter`) and
hands the report link back. Beside this live path the API directory holds the
services of the larger product (uploads, intake, finalize, queues, workers, retention,
vault, results, commerce), each a factory with its own state and its own tests;
`pipeline/submission-gate.js` takes a job through most of them, and `server.js` routes
to the live path, to accounts and to some of the commerce endpoints.

All of it is JavaScript. A handler runs to its end without interruption unless it
contains an `await`; every `await` is a place where other handlers run. The accounts and
the device trials are written to a file (`password-auth.js`, `loadStore`); all other
service state, the sessions included, is in memory, and a restart of the process loses
it. The extension keeps its state in the browser's storage, which survives the window;
popup and run window run the same code on it at the same time.

### Components

| component | state | operations | talks to |
| --- | --- | --- | --- |
| Live pair-job service `apps/api/live/pair-service.js` | job rows, idempotency map, credentials, result rows, submissions under way | create, attach, upload, finalize, get, reveal, forget | run window (HTTP), provider adapter, vault, result metadata |
| HTTP routing `apps/api/server.js` | none of its own | routes, session lookup, rate limit | all services |
| Run window `apps/extension/src/shared/workflow/WorkflowApp.tsx`, `packages/ui/run-lifecycle` | the run shown, timers, poll flag, effects under way; the draft, consents, the sign-in dialog | pick, group, consent, start, poll, cancel, start over, close, recover, sign in | live service, extension store, entitlement, accounts |
| Local files `packages/ui/intake`, `grouping`, `preflight`, `base-code` | none | pure functions over a selection | run window |
| Extension entitlement `entitlement-demo.ts` | package with the runs left, references already refunded, mirror of the device's trial, Moss credential | sign in and out, unlock, claim trial, consume, release | browser storage, server |
| Extension store `apps/extension/state` | one record: the draft and the active job | save, discard, bind, update, purge, migrate | browser storage |
| Fair queues `apps/api/queues/fair.js` | two queues, leases, slots per credential, dead letters, circuit | enqueue, claim, heartbeat, complete, recover, cancel, reset | workers |
| Finalize service `apps/api/intake/finalize.js` | jobs, two outboxes, quota | finalize, process outboxes, cancel, rollback | intake, queues |
| File intake `apps/api/intake/ingest.js` | none | from objects to a manifest, or to a refusal | finalize |
| Provider adapter `packages/provider-adapter` | one connection, one line parser, timers per submission | connect, dialogue, tear down, classify failures | Moss |
| Uploads `apps/api/uploads` | sessions, objects; transfers with their files, progress and runs | create, put, complete, fail multipart; start, run, cancel, resume | object store |
| Job state and status `apps/api/jobs` | jobs with versions and an event log; status rows; the poller's list | create, transition, cancel; upsert, cancel, forget; tick, stop | gate, clients |
| Sandboxed workers `apps/api/workers` | worker leases, source artifacts by key | lease, run, cancel, crash, clean up | gate |
| Vault `apps/api/credentials/vault.js` | sealed credentials, key versions | store, replace, delete, decrypt, rotate, export, import | live service |
| Results and history `apps/api/results` | links, history index | save, reveal, forget, list, delete | live service |
| Source retention `apps/api/retention` | sources, deletion audit, retry queue | register, delete, retry, sweep | gate, workers |
| Commerce `apps/api/commerce` | entitlements, webhook ids, checkout sessions, license tokens | checkout, webhook, return, override, token, consume | payment processor |
| Accounts `apps/api/auth` | users, emailed codes, sessions, provider flows | register, sign in, verify, reset, refresh, log out, exchange | run window |
| Submission gate `apps/api/pipeline/submission-gate.js` | what each journey returned | run a journey | retention, workers, vault, results, status |
| Onboarding, boundaries, commercial gates | approvals, capacity | mostly pure decisions | server |
| UI packages, contracts, domain, config, scripts | none that outlives a call | rendering, validation, build | all |

### What is hard

- *Interleaving at `await`.* `runSubmission` holds a row across `await submitPair`;
  the run window holds its run across five calls and its persist effect across two;
  every storage call of the extension is a read, a wait and a write without a lock,
  and two windows and an alarm make them.
- *Stale renders.* A handler of the window works on the state of the render it was
  clicked in, and its continuation on whatever is shown by then.
- *Lost answers.* Each call of the window can be handled although its answer is lost.
- *Restarts.* The server forgets every job, session and code, and which provider
  callbacks it has seen; the window forgets everything it has not written to the store.
- *Timers against answers.* Poll timer, deadline timer and poll race each other;
  leases expire while their worker is still busy.
- *Two pieces of state that must agree.* Quota and job flags, slots and leases, credit
  and submission, run shown and job stored, parallel arrays of files and items, results
  and history, repository and status rows.
- *Order of calls.* Cancel, rollback and both outboxes may run in any order; webhooks
  come late, twice and out of order; refresh tokens come back after they were rotated.
- *One step of several failing.* A journey returns at its first failure and leaves in
  every service what it put there.

`PROJECT.json` lists the hazards at their lines, with the properties that cover them.

### What makes each component correct

- *Live service*: a waiting job always has a submission that will settle it; files go
  out whole and are dropped afterwards; success is only shown with a report behind it.
- *Run window*: one start sends the files once at most, whatever fails; a submission
  under way stays bound, so that a new window finds it, until a window has shown its run
  as over; what is kept of past results was revealed.
- *Fair queues*: a credential never exceeds its cap; what is dead-lettered stays out;
  an item that waits is served.
- *Finalize service*: one job per key, one query per job, quota equal to what the rows
  say, each reservation ending once.
- *Provider adapter*: the dialogue never skips a step, every submission resolves once
  with its timers released, only what the provider has not seen is retried.
- *Uploads*: progress counts what is stored, a completed transfer has all its objects, a
  canceled one stays canceled and its session is cleaned.
- *Job state and status*: a version names one status, the log tells how a job ended, the
  poller gives up only on what is over or was withdrawn, and ends when it was stopped.
- *Submission gate*: a journey that reports success left no source and stored what it
  says, one that fails shows no success anywhere; source that is still there is somebody's; the deletion audit is honest; stored
  credentials survive rotation and backup.
- *Commerce*: nobody runs more than was bought, and a refund takes effect.
- *Accounts*: whoever can refresh a session earned it, and the dialog sends a nonce to
  the call it is for.
- *Entitlement and store*: runs that stand were paid for, one trial per device, an
  account inherits neither package nor credential, a job in progress stays bound.
- *Workspace*: what is uploaded is what was agreed to, in the groups that were shown.

## 2. The modules

### PairService: the live pair-job service

One variable per column of a job row (`status`, `owner`, `cred`, `files`, `submitted`),
the result store (`result`), the idempotency map (`idem`), and one element of `attempt`
per call of `submitPair`. A handler is one action. `finalize` is two, because
`runSubmission` is suspended at `await submitPair`: `Finalize` is everything up to the
await, `Settle` everything after it, on the row that was captured before. `Settle`
takes any answer the adapter can give: a link that can be stored, a link the result
store refuses, a failure with each quota action, a rejected promise. Statuses that are
written and overwritten inside one handler ("queued", "submitting") are never seen by
another handler and are not in the model. `Restart` empties every map; a submission
under way becomes "lost", since the provider may have received it.

The vault is reduced to the question whether the tenant of the lease that finalize
makes is the tenant the credential was stored under. The hold action of a failure and a
rejected promise are kept apart because the code branches on them separately.

### PairRun: the run window with the service

PairRun extends PairService with the window of one customer. `tryStartJob` is a
sequence of steps, one per call it awaits: `ClickStart`, `ConsumeAndCreate`, then for
each call `Serve` (the server handles it) and `Created`, `Attached`, `Uploaded`,
`Finalized` (its answer is applied), and `Refresh`. `CallFailed` may happen at any time
while a call is out: because the server refused, because the request was lost, or
because the answer was lost. In the last case `Serve` may still happen afterwards.

React is modelled by what it schedules. `Show` sets the run, re-arms the timers, and
enters the persist effect unless `syncedRunRef` already holds this job and phase.
`FinishEffect` is the body of one effect, on the run it captured: update the stored
job, then refund if `shouldReleaseRunCredit` says so. `TimerFires`, `PollRead`,
`PollFailed` and `PollApply` are `pollLiveRun` cut at its await. `Recovered` is the
recovery of a stored job by a new window. Closing the window ends its steps, timers
and effects; the store and the entitlement stay.

A start names the job id its create call would allocate, so `Starts = Jobs = Keys`.
The phase tables of `run-lifecycle` are functions over phases. The calls of the API are
operators of their own (`CreatePairJob` to `GetJobStatus`), named for `api-client.ts`.

The link of a report is asked for in the continuation of a poll, after the run was
shown as a success, and shown whenever it comes (`RevealResult`), whatever run is shown
by then. `Remember` is the effect that keeps it among the past results, one entry per
job; it depends on run and link alone and is part of the step that changes them.
`ForgetReportLink` and `ForgetHistory` are the two ways to forget. `shownOver` is a
history of the starts whose run a window has shown in a terminal phase.

### OncePerStart: what a start is promised

The abstract specification of the composition: the submission of each start is unsent,
in flight, or has one final fate; only a start whose fate is "linked" is announced as a
report. PairRun implements it under a mapping that reads the fate from `attempt` and the
announcements from the run shown and the job stored.

### FairQueues: the intake and provider queues

One record per item spread over functions: `state`, `job`, `cred`, `pos` (the order of
`enqueuedAt`), `attempts`, `holder`, `lease`, `letter`; `served`, `inflight`,
`failures` and `open` are the counters of the factory. Intake items are those with
`NoCred`. A lease is fresh, due or expired: a heartbeat makes it fresh, `LeaseAges`
lets time pass, and `recoverExpiredLeases` takes all expired ones at once.

Workers are the environment. `work` says which items a worker believes it holds, so
that a worker whose lease was recovered still calls `complete`, and the service, which
looks up leases by item alone, takes it for the present holder.

### FinalizeOutbox and QuotaLedger: finalize, outboxes, quota

Every operation is synchronous, so each is one action and the order of the calls is
open. `validation` and `provider` are the jobs with a pending entry in each outbox; a
pass over an outbox handles all entries that were pending when it began, as the code
does. `queries` counts what the provider sees. Quota has three counters per user
(`reserved`, `consumed`, `released`) and two flags per job.

QuotaLedger is the abstract specification: a job's standing moves from open to
reserved to consumed or closed, never back, and the counters of a user are the numbers
of that user's jobs in each standing. FinalizeOutbox implements it with a standing
computed from the two flags and the outbox.

### ServerIntake: what a finalized upload is

`intake/ingest.js` as pure operators over the objects of an upload: paths that are
refused, limits on size, depth, count and ratio, archives with their members, and the
manifest of files and groups that is made of all of them or not at all. A path is a
sequence of segments; what the code reads from a name, a media type or a text is a field
of an entry. `Finalize` of FinalizeOutbox takes a payload through it, so the guard of the
action is the code's and the manifest is part of the job.

### LineParser: lines from a socket

`packages/provider-adapter/line-parser.js`. The bytes in the buffer are abstracted to
the complete lines among them (`buffer`) and to what is known of the unfinished line
at the end (`tail`: none, part of one, or one that is too long). `Push` takes a chunk
that completes zero, one or two lines. Calls of `readLine` are numbered; `read` holds
the promise of each, `waiter` the one slot, `timers` and `listening` the callbacks that
are still registered, so that a deadline or an abort listener of a call that is over
can meet the call after it. `pushed` and `taken` are ghosts: all lines that came in and
all lines handed out.

### SubmitSession: one submission

SubmitSession extends LineParser with `submitPairToMoss` and the session it opens:
checks, gate, connect with its timer, the dialogue, the final `end`, cleanup, and the
teardown of the loopback server. `Start` has the gate of the public mode: which mode a
server resolves from the flags of its environment, and that an allowance is asked for
again by the call, since a server can be told another mode. `pc` is the place of the
call, `sent` the number of commands the socket has accepted; the four settings between
`moss` and `language` count as one command and each file (its header and its bytes) as
one, since nothing is read between them. The call runs to its next await before any
event is taken (`Runnable`). A write that is accepted and its callback are one step, so
`sent` is also what the peer can have seen. The peer answers `language` and `query`
once, may say something unasked, may split or join lines, and may close or reset the
connection at any time. `Failure`, `IsRetryable` and `QuotaActionFor` are `failures.js`
for the causes this caller passes. Every way out goes through `Leave`, with the cleanup
of the code's `finally`; `Throw` is the outer `catch`, which forgets the phase.

### UploadSession and UploadTransfer: one transfer and its session

UploadSession is a session of `uploads/sessions.js` seen by one transfer: the keys are
those of the files, `objects` the object store, `completed` the count that completion
compares. The guards of `putObject` that do not depend on earlier puts (owner, origin,
expiry, size, type, checksum) are one condition that may hold or not at each put.

UploadTransfer is `uploads/transfer-manager.js`. A run is one call of `run`: its
snapshot of the files, its count of uploads under way and its promise. `Pump` is the
function of that name, with the loop as a set: `Taken` are the files the loop starts,
`Remaining` those it may come back to, `Settles` and `StatusAfter` what it decides. It
is called from `StartRun` and from the continuation of an upload (`Continue`), which is
a step of its own after the upload has ended. An upload is cut at its await: the service
handles the put (`Serve`), and its answer arrives (`Answered`) or the call throws
(`Lost`), before or after it was handled. Runs may overlap, and `Cancel` and
`ResumeAfterRestart` may come at any time, because nothing in the manager prevents it.
The calls of `startAfterReview` are one step: nothing refers to what it has created
until it returns. `cleanupUploadSession` exists in the API the manager is given and not
in the session service; it is modelled as deletion of the session and its objects.

### SubmissionGate: one job through six services

`SandboxedWorkers`, `SourceRetention`, `CredentialVault`, `ResultStore` and `JobStatus`
are the services, one module each with its variables and one action per operation.
SubmissionGate instantiates all five and adds `journey` and `outcome`: `runJourney` calls
one service after the other and returns at the first failure. Nothing in it waits, so a
journey is not interleaved with other calls; it is three actions, cut where it can end
early. Between journeys any service takes any of its calls, in any order: cancellation
and crash of a worker, another run of it, a deletion with or without an outage, a retry
pass, a sweep, a rotation, a backup and its restore, a replacement (or one whose new
credential is refused after the old one was revoked), a forgotten link.

- Artifacts are found by key alone, so a worker's cleanup removes what another one was
  given; `KeysOf` lets two journeys share a key, as the fixtures of the code do.
- The audit of a deletion, the source and the retry queue are separate variables, as in
  the code. A present source becomes "beyond" when it is older than the backstop.
- What matters of the vault's encryption is under which version of the key a data key
  is really wrapped and which one the record names. `Decrypts` compares the two.
- Result store and history keep rows of the same job and know nothing of each other.

### JobRepository, JobStatus and JobTracking: what is known of a job

JobRepository is `jobs/state-machine.js`: `job` with status and version, `events` as the
log, and `copy`, what each caller of `getJob` has read; a caller moves a job with the
version of its copy or blindly. JobStatus is the row store of `jobs/durable-status.js`;
its `upsert` writes whatever status it is told and keeps the flags of the row, that of a
cancellation among them. `StopPolling` is the question of `getProjection`, in two parts:
the job `IsOver`, or it was `Withdrawn` once and its cancellation is requested again. JobTracking composes both with the
poller of a client. A tick is a loop with an await in it: `StartTick`, then for each
job `Fetch`, `Answer` (the row is read), `OnUpdate` (its projection is passed on), and
`EndLoop`; `Stop` may come anywhere in between and clears the set the loop runs over,
so the loop sees what it has yet to visit intersected with the set (`Unvisited`).

### Commerce: entitlements, checkout, webhooks

`entitlements.js` and `checkout.js` with the payment processor as environment: an event
is sent once its cause has happened (`Causes`) and delivered any number of times until a
delivery is accepted. A purchase can be sent under two ids. `ent` is the record of a
user, `session` the checkout session with its status; `purchased`, `processed` the sets
the code keeps. `credits`, `used`, `ended` and `overridden` are ghosts.

### AccountService and Accounts: accounts, sessions, the dialog

AccountService is `auth/password-auth.js` and `oauth-broker.js`: users by email, emailed
codes by nonce, sessions, provider flows. Time is the state of a session: both tokens
work, the access token is over, the refresh token too. Tokens are their sessions, since
the code finds sessions by the hash of a token. A user has the provider identities linked
to it, and a sign-in through a provider is for the user its subject is linked to, whatever
email it brings (`UserFor`). A restart empties the maps, so the state of a flow that was
used before can be used again. `from` and `epoch` say what a session was
issued for (history). Accounts adds the devices: the stored session
(`account-session.ts`), the dialog of the run window with its step and nonce, and the
answers on their way to it, which the user may overtake by going to another step. What
the dialog sends goes through the router (`HandleOAuth`, `HandlePassword` and
`HandleSession` are `http-routes.js`), and a provider's id token is taken or refused by
what is in it. `RefreshStored` is `refreshAuthSession`: the session it sends is the one a
window read, which another window may have refreshed meanwhile, and unless it gets new
tokens it removes whatever session is stored by then. `AuthPanel` says which calls the
dialog offers in each step.

### StateStore and BrowserState: what the extension keeps

StateStore is `state/store.cjs` behind the router of `messages.cjs`: a call loads the
record, tidies it (migration, purge by age) and perhaps writes it back, waits, and
writes. `clobbered` remembers that some write went over a record it had not read.
BrowserState has two windows and the alarm of the background worker on one storage:
sign-in and sign-out, unlocking a plan, the device trial with the server's claim and
its mirror, the Moss credential, and a run of the offline demo from taking it to giving
it back, each flow cut at every storage call (`task` says where a window is and what it
has read). `mixed` is a history: windows have shown two accounts at the same time, and
some window has been open since. `PairRun` has the live runs with these calls as single steps. A window acts
only through what it offers: `GateOf` decides between sign-in, plans, Moss ID and portal,
each gate has a panel, and the card of a run that ended offers what the catalog of errors
lists for its code (`ErrorActions`), as far as the window wires it to an action
(`RunCard`). `Ends` are the ways a run of the demo can end, with what it had submitted.

### LocalFiles and Workspace: what is sent

LocalFiles are the pure functions of intake, grouping, preflight and base code as
operators over a selection; a key is a display name with a size, the way the code tells
files apart. Workspace is the state of the run window around them: the parallel arrays
`sources` and `files`, `base`, `groups`, language, extension filter, consents, and
`start`, what `tryStartJob` was clicked with. The awaits between the click and the
upload are one gap, in which the customer goes on editing. `agreed` and `uploaded` are
ghosts: the draft on screen when the second consent was given, and the rows sent. The
cards of the window are operators that say what is offered (`FilesCard`, `LanguageCard`,
`AdvancedCard`, `ReviewCard`), and every action of the customer needs its offer.
`settings` is an extension filter and one number with a lowest and a highest value.

## 3. The runs

Each property has a mutant in `PROJECT.json`: a change of one definition, the kind of
slip a later edit of the code might make, under which the property fails. Properties
that answer one question about the same state are conjunctions of named parts.

| run | question | distinct states |
| --- | --- | --- |
| `pair_service` | does the job service keep its rows, files and results consistent under repeated finalize, replaced credentials and restarts, and does a waiting job settle? | 27,048 |
| `pair_run` | does the composition implement OncePerStart, and is a submission under way bound until a window has shown it as over? | 1,053,913 |
| `fair_queues` | caps, slots, dead letters under expiry, strangers' completions and cancellation | 498,387 |
| `finalize_outbox` | ledger, events, one query, one job per key, QuotaLedger, progress | 87,793 |
| `submit_session` | is what a submission reports earned, is nothing left behind, does it always return? | 9,635 |
| `upload_transfer` | does a transfer report what is stored, and is a canceled one cleaned, whatever overlaps? | 28,380 |
| `submission_gate` | what is left in five services by journeys that fail anywhere, with the services' other calls in between? | 699,146 |
| `job_tracking` | versions and log of the repository; which jobs does the poller give up on? | 237,268 |
| `commerce` | are all runs bought, and do refunds take effect, in every order of webhooks? | 400,420 |
| `accounts` | can only those refresh who earned it, and does the dialog send what the server expects? | 1,248,768 |
| `browser_state` | what survives two windows and an alarm on one unlocked storage? | 1,056,618 |
| `workspace` | is what is uploaded what was agreed to? | 366,753 |

All of them hold. What they say:

- *pair_service.* `WaitingIsCovered` and `WaitingSettles` together say that no job is
  stuck: whatever finalize calls and settlements interleave, "waiting" implies a
  submission under way, and it ends. `BytesFollowTheJob` says the plaintext dropped by
  one settlement is never missed by another submission of the same row, which holds
  because a settled row cannot be finalized again, and that no settled row keeps it.
  `ClaimsAreBacked` ties the row to the result store, and shows that the unlock failure
  in `runSubmission` is not taken through tenancy, although attach replaces credentials
  in any status.
- *pair_run.* `OneSubmissionPerStart` is the refinement. It holds although a job may be
  submitted twice by two finalize calls (6.1), because this client sends one finalize
  per start and never retries it. `WindowRemembers` says which submissions can be
  found again. The job is bound before the window lets the server submit it, and a later
  start cannot replace the binding while it is not terminal, so a submission under way is
  that of the bound job as long as no window has shown its run as over. After that it may
  be lost: when the answer to finalize is lost the run is shown and stored as failed
  (`WorkflowApp.tsx:1365-1376`), the service goes on, and the next start binds its job over
  it (`store.cjs:139`). Its part about the past results says
  that a kept link was really revealed, and for a job that was really submitted, in
  whatever order polls, links and new starts come; that it is kept under the right job
  is more than the code gives (6.11).
- *fair_queues.* `LeasesWithinCap` is one-sided in an instructive way: the counter can
  exceed the number of leases (6.4) but never fall below it, so a cap is never
  exceeded, even when strangers complete leases. `LettersAreFinal` relates three
  columns: letter, state and attempts.
- *finalize_outbox.* `LedgerIsHonest` holds in spite of the clamping at zero, which
  means that the clamp is never needed; it also says that every pending provider event
  of a live job has its own unspent reservation. `JobsAreSingle` (one job per key, one
  query per job) holds over every order of the operations, including the reprocessing
  of 6.5. Its part `ManifestsAreSound` is about the intake: after paths are normalized
  and archives opened, no two files of a job are one to the workers, and groups name
  files that exist.
- *submit_session.* The part of `OutcomeIsHonest` about retries is the interesting one:
  the outer `catch` reports every exception as "before-connect", where a retry is
  allowed, and yet no failure after the query is retryable, because after it only the
  ignored `end` is written and a read never throws. The rest holds against lines that
  were not asked for: the code takes any line for the answer, and is right as long as
  the line says what only the real answer would say. `SessionResolves` needs no help of
  the peer or the network.
- *upload_transfer.* `ReportIsHonest` holds although two runs may put the same file:
  the service takes a key once, so at most one of them is acknowledged; completion
  needs that and the order of the questions in `pump`, canceled before done, since the
  session of a canceled transfer is deleted. `CancelCleans` is conditional on an upload
  under way, `LoneRunSettles` on no other run: both say exactly as much as the code
  does, see 6 for the rest.
- *submission_gate.* `PresentArtifactsAreHeld` is the weakest sentence that is true of
  shared artifact keys: what is present belongs to a worker that has not run since its
  lease, or whose cleanup failed. `AuditIsHonest` holds although deletions, sweeps and
  retries meet an entry that is in the retry queue several times. A source is registered
  once here, by its journey. `JourneysAreHonest` has a side for each ending: an ok journey
  needs the deletion before the answer and is not undone by later calls, and one that
  failed, or has not returned, shows no success in the status row, the results or the
  history; `CredentialsFollowRotation` says that a restore after
  a rotation brings back no live record under an older key than it names.
- *job_tracking.* `RepositoryIsTrue`: of two writers with the same version one wins, and
  a job's log is a simple path, the full one if it succeeded; that a stale version is
  refused is the code's own test and not what it rests on. `ListIsEarned` has two cases,
  because `stopPolling` has: a job that was canceled, taken up again by a writer and
  canceled once more is dropped while it goes on, and then its owner had been told that it
  was canceled (6.12). `OneUpdateAfterStop` is as
  much as `stop` gives: the answer that was awaited is still passed on.
- *commerce.* `BooksBalance` holds because a session is credited once whatever id its
  purchase comes under. `RefundTakesEffect` needs the processor's redelivery: a refund
  that comes before its purchase is refused and must not count as processed.
- *accounts.* `SessionsAreEarned` follows each session through rotation, replay, sign-out,
  reset and restart. `DialogFits` says that a nonce of one purpose never meets the call
  for another, in whatever order answers and clicks come, and also when the callback of a
  provider comes again after a restart. `AccountsTypeOK` includes that
  a device only ever stores sessions that were issued for it.
- *browser_state.* `BalanceHolds`, `PackageIsOwn` and `BindingHolds` are claimed for
  histories without a lost update; with one they fail, because nothing locks the
  storage (6). `PackageIsOwn` is about an account that signs in where another was: its
  window has dropped the other's package and credential before it is past the sign-in,
  however far the sign-out of the other came before its window was closed. It does not
  speak of windows that show two accounts at the same time, where it fails (6).
  `TrialOncePerDevice` needs no such premise: the server decides, and the
  mirror only spares it questions.
- *workspace.* `OnlyAgreedIsSent`: every edit resets the consents, the upload uses the
  state of the click, and files are found by key. `SubmissionsAreGroups` says that the
  numbers of an upload are those of the groups that were on screen.

## 4. Bounds and fairness

| module | instance | why it is enough |
| --- | --- | --- |
| PairService | two users, two jobs, one key, three submissions | two submissions of one job beside one of another job; a key that names a job while another job is created without one; a foreign user |
| PairRun | one customer, two starts, two submissions, `Total` = 3, `MaxEffects` = 1 | two starts overlap (one is still in a call when the next is shown); refusals of the second binding; window reopened between them |
| FairQueues | two items, two users' jobs, two workers, one credential with `Cap` = 1, `MaxAttempts` = 2, `MaxFailures` = 2, `MaxServed` = 2 | contention for the single slot; a holder and a stranger; one retry before the dead letter; one uncertain outcome before the circuit opens |
| FinalizeOutbox | three jobs, two users, two keys, some twenty payloads | two jobs of one user and one of another in the same pass over an outbox; a repeated key; a payload for each way to be refused, and two paths that differ before they are normalized |
| SubmitSession | two files, two reads, four lines of the peer, a buffer of two lines | both answers and two unsolicited lines; overflow of the buffer; a write before, between and after the files |
| UploadTransfer | two files, two runs, `Concurrency` = 1 | one run takes the file another has under way; a place that becomes free; a resume between two puts of one file |
| SubmissionGate | two journeys that share an artifact key, four workers, three credentials, three key versions, `MaxCalls` = 4 | a journey that fails while the next one's worker holds the same key; outage, sweep and retry of one source; backup, rotation, restore and replacement in one history |
| JobTracking | one job and two writers; two polled jobs, one failing fetch | two copies of one version; a job that ends while the other is awaited; stop in the middle of a tick |
| Commerce | two sessions of one user, two runs each, refunds, one further call | a refund of the first session before, between and after both purchases; one override, token or return among them |
| Accounts | two emails, one subject of a provider, two devices, two codes, two sessions, one sign-in through Microsoft, two answers waiting, one restart | a code overtaken by another, a rotation and a replay of the older token from the other device, a reset against a session of the other device; a provider identity that comes with another address after a restart |
| BrowserState | two windows and the alarm, two users, two jobs, two runs a package, one reference remembered, `MaxActs` = 5 | each pair of flows interleaved at each storage call, with an alarm or an age between them; a reference pushed out by another |
| Workspace | two files of one name and size, one more of that name, two archives (one named like the folder), two extension filters, `BatchMax` = 3, `MaxPick` = 2, `MaxActs` = 7 | duplicates across a folder, a replacement, a file that a filter drops, a base file that becomes a source, both plans; pick, group, tick twice, start and edit once more |

Named bounds inside the modules:

- `Attempts` bounds the calls of `submitPair` over a whole behaviour, restarts included.
- `MaxEffects` bounds the persist effects that are under way together; an action that
  would enter one more has to wait. With one, an effect can still be overtaken by any
  number of other steps between being entered and finishing.
- `Total` is the entitlement. With two starts and three runs a click is never refused
  for lack of credit, and the refund ledger then influences no other variable of
  PairRun; `ProtocolView` in MCPairRun leaves `remaining` and `released` out of the
  fingerprint for that reason. It also takes an answer of a poll as `PollApply` reads it,
  the past results as whether they are earned, and `shownOver` for the starts that may
  still have a submission under way: states that agree in these have the same future.
- `MaxServed` saturates the fairness counter: users at the bound are ordered by age.
- `MaxLines` bounds the lines the peer says in one connection; `MaxBuffer` is the
  limit of the buffer, in lines.
- `failures` stops at `MaxFailures`: beyond that the circuit is open and only a reset,
  which sets it to zero, changes it. JobTracking's `MaxFailures` bounds failing fetches.
- `MaxCalls` bounds the calls between journeys and, in Commerce, the calls that are
  neither webhooks nor runs; `MaxVersion` the rotations; `MaxRestarts` the restarts;
  `MaxWaiting` the answers a device waits for; `MaxPick` the files of one selection.
- `MaxActs` bounds what users and time begin: in BrowserState flows, alarms, stops of
  the worker, days, answers about the trial, ticks of a run, and ends of a run by the
  deadline or after it was submitted; in Workspace the customer's actions. What was begun
  goes on without a bound.
- The forty entries of the past results are never reached by two starts, so what falls
  off their end is not in PairRun.

Three instances have a constraint. `Shared` in MCAccounts follows histories in which both
users exist up to three codes and sessions, and those of one user up to the bounds. `Exact` in MCBrowserState follows a history up to its
first lost update, after which only the types and the trial are claimed. `OneAtATime` in
MCJobTracking lets repository and rows move one at a time: they share no variable, so
each behaviour of both is a pair of behaviours of one, and fairness concerns the rows
alone.

Symmetry is used for users, jobs, attempts, devices and windows in runs that check no
liveness. `CHECK_DEADLOCK FALSE` appears where the system may stop: queues with nothing
to do, submissions and transfers that have ended, and instances whose users have used up
their calls.

Fairness, used by the liveness properties only:

- PairService: each submission settles. The adapter bounds connect, read and the whole
  dialogue with timers (`packages/provider-adapter/live-submit.js`). Nothing else is
  fair: no user is assumed to act.
- PairRun: timers fire, a poll ends, an effect ends, the calls of a start end,
  submissions settle. That is the browser's event loop and the fetch timeout. The
  customer is not assumed to do anything.
- FairQueues: workers keep claiming and finish what they hold, leases age, the sweep
  runs, an operator resets the circuit. The starvation of 6.4 happens under all of these.
- FinalizeOutbox: both outboxes are processed again and again.
- SubmitSession: the call runs, its timers fire, a write on a socket that was destroyed
  fails, the teardown ends. Nothing is asked of the peer or of the network.
- UploadTransfer: an upload under way goes on to its answer or its loss and its
  continuation runs, which is what a fetch with a timeout gives; a cleanup call arrives.
- LineParser: deadline timers fire.
- JobTracking: the owner of the poller ticks again when a tick is over, an answer that
  is not lost arrives, and the loop goes on. Nobody is assumed to end a job.
- Commerce: the processor delivers an event again until it is accepted, as payment
  processors do. The code answers a refused event with an error for that purpose.

## 5. The proofs

Eight modules hold the proofs, for any values of the constants that satisfy the modules'
assumptions:

| module | proves about |
| --- | --- |
| `PairRunProofs` | PairService, PairRun and its refinement of OncePerStart |
| `ProviderProofs` | FairQueues, LineParser, SubmitSession |
| `FinalizeOutboxProofs` | FinalizeOutbox and its refinement of QuotaLedger |
| `ClientProofs` | UploadTransfer, JobTracking, LocalFiles and Workspace |
| `SubmissionGateProofs` | SubmissionGate and the services behind it |
| `CommerceProofs` | Commerce |
| `AccountsProofs` | AccountService and Accounts |
| `BrowserStateProofs` | StateStore and BrowserState |

Every safety property that a run checks is a theorem, invariants and action properties
alike. Each proof follows the same argument: an inductive invariant, a lemma that the
initial states satisfy it, a lemma per action (or group of actions) that it is kept, and
the theorem by PTL.

The assumptions: `NamesAreDistinct` (the markers for "no user", "no job", "no key" are not
names), `QueueAssumption` (the set of items is finite, each job has a user, the bounds
are natural numbers, the cap and the maximum of attempts and failures positive),
`OutboxAssumption` (finitely many jobs), `ParserAssumption` (calls are numbered from one,
the limits are numbers), `SessionAssumption` (two reads, no signals, what a line can
say), `FileCountAssumption`, `TransferAssumption` (a session has keys, runs are finitely
many, a run may have one upload at least), `GateAssumption` (each journey has artifact
keys, and the journeys' owner is a user), `CommerceAssumption` (finitely many checkout
sessions, a package has runs) and `AccountsAssumption` (nonces and session ids are drawn
in order, and no nonce is the id of a sign-in through a provider; in the code they are
random; a sign-in through a provider is with Google or Microsoft). The modules of the browser have four more: `RunAssumption` (keys are jobs, the
customer is a user, the reference "pending" is no job, there is a run to sell and an
effect to run), `TrackingAssumption` ("none" is no writer and no job, failures are
bounded), `BrowserAssumption` (the alarm is no window, "no job" and "no user" are none,
jobs are finitely many, a bought package has runs and the list of released references a
cap) and `WorkspaceAssumption` (each file has a key and a folder, each key a stem, "no
label" is no label, a batch takes two files at least).

The theorems of the parser alone have one more premise, `SignalsComeLast`: no
call follows one that was given an abort signal. It is needed, see 6.6; callers in the
repository give none, and SubmitSession's assumption says so.

Why the invariants have to be strengthened:

- *PairService.* A settlement writes into the row its attempt names, so one has to know
  which attempts name jobs: idle ones name none, every other one names a job, and one
  in flight names a job marked as submitted (`AttemptsNameJobs`). An id without a row
  has no credential, so that a job created under it does not inherit one
  (`BlankUntilCreated`).
- *FairQueues.* The cap needs the counter to cover the leases of each credential, which
  needs cardinality facts about the set of leases when one lease or a set of expired
  leases is taken away; `AbsentAreFresh` says that an item that was never enqueued has
  used no attempt.
- *FinalizeOutbox.* `LedgerMatchesRows` counts rows, so adding one to a counter must
  correspond to one row that enters the set; the processing of an outbox moves a whole
  set. `RowsAreWhole` says that rows have an owner and that absent ones have no owner,
  no reservation, no query and no entry, and `ChargesWereReserved` that a charge was
  reserved before.
- *LineParser.* The slot is freed by callbacks that do not ask whose it is. That this
  harms nobody is because a deadline timer is armed for a waiting call only
  (`TimersAreWaiting`) and a call with an abort listener is the first that can wait
  (`ListenersCameLater`).
- *SubmitSession.* Every conclusion depends on where the dialogue is: `DialogueFits` ties
  `pc` to `sent` and to what was read, `AckFits` follows the first answer until the next
  command, `WaiterFits` says whose read is out, `CleanupFits` what a cleaned-up session
  looks like, and `LinksAnswerQuery` that a link is said in answer to the query only.
  The proof has one lemma per action; those that only move the call share `QuietKeeps`,
  those that only move the parser `ParserAloneKeeps`, and all ways out `LeaveKeeps`,
  whose premise is that the outcome is `Honest` about the dialogue.
- *UploadTransfer.* `pump` decides on its own count, so the count must be the number of
  uploads under way; the loop as a set needs a cardinality argument (`RoomKeepsTheBound`:
  the files with room never exceed the places left). Progress and the session are tied
  through the answers on their way back: an "ok" that has not arrived belongs to a
  stored key that nobody has acknowledged, and no two calls carry one for the same file.
- *SubmissionGate.* Each service keeps what is said of its own variables, one lemma per
  service (`RunKeeps`, `RetentionKeeps`, `VaultKeeps`, `UpsertKeeps`, ...), and the journey
  is put together from them. What has to be added is that a journey under way has
  returned nothing yet and works with a worker of its own job (`JourneyIsFirst`);
  without it a second answer could overwrite an honest one.
- *Commerce.* `RunsAreBought` bounds what was used by the number of purchases credited, and
  that number by the cardinality of a set, so each credit must add one session to it
  (`PurchaseCounts`). A session is paid by an accepted event only if the events are of
  sessions that exist and a granted one was named by one of them (`CheckoutFits`).
  `RecordKeeps` and `CheckoutKeeps` are the two shapes of the remaining steps: one user's
  record, or one session and no money.
- *Accounts.* That one session is left of a sign-in needs what it began with to be used
  up (`OriginsFit`): a code that is over and a flow that is past its callback cannot issue
  a second one, and a rotation retires the one before. What waits behind an exchange
  code must be of the device that asked (`FlowsFit`), and what is on its way to a device
  must fit it (`AnswerFits`), for the answer is applied to whatever the dialog shows by
  then. `FadeKeeps` and `IssueKeeps` are the two shapes of the service's steps: sessions
  end, or one is added; `Grows` is all that the extension's half needs of either.
- *PairRun.* `RunInv` is `MoveInv` (what one step keeps) and `HistoryInv` (what the
  ghosts remember). `NotedInv` adds which runs have been shown as over (`Reached`): an
  effect that writes a terminal status into the store was entered by a render that showed
  it, so the binding cannot end before. `StartFits` ties where a start is to its request and to the
  submissions of its job: the files leave the window in the last request, and from the
  second one on the job is bound. `RunFits`, `ActiveFits` and `PollInv` say in three
  places, the view, the storage and an answer on its way, that only a job whose
  submission has a link is called a success; `LinksStay`, that a link is never lost, keeps
  the three. The refinement maps a start to what became of its submission, so it needs
  that a start has one at most.
- *JobTracking.* The log of a job is a way through the machine's table (`Way`, `LogFits`),
  and what a caller has read is a place on it (`CopyFits`). What the poller shows is of
  jobs it was given because a tick never visits another one (`TickFits`). A withdrawn job
  was told so because the flag is set together with that answer.
- *BrowserState.* Every place where a window has stopped says what it has read and means
  to write (`Fits`, `MessageFits`). The trial is granted once because one task at most
  may still grant it (`TrialInv`). Package and credential are of the account on screen, unless two were shown at
  once (`OwnInv`): a window that has looked for a foreign package has none behind it any
  more (`OwnedBy`), and one that has looked for a foreign credential either finds its own or
  is about to remove it (`KeyBy`). Another window cannot bring either back, since what it
  writes is of the account it shows, which is the same.
  The books need the runs that could be given back a second time (`Again`): a reference
  that was pushed out of the capped list of released ones may come back, and each one
  pushed out pays for one such run (`BalanceInv`). That a new
  run has not been given back before takes `RefInv`: nobody speaks of a job that does not
  exist yet.
- *Workspace.* Lemmas about the operators of LocalFiles come first. `Ranked` puts a
  finite set of positions in order, which is shown by counting, and everything the
  functions select keeps the order of the selection (`ThoseFits`). Groups partition the
  items, each with those it belongs together with (`GroupsFit`). The file found for a key
  is the first one picked (`IngestFits`, `MatchedFits`). `SourcesFit` keeps the two
  parallel arrays parallel while files are added, replaced and removed. `AgreedInv` says
  that while both boxes are ticked the draft on screen is the one agreed to, unless no
  start is possible: confirming another language and unlocking keep the boxes ticked, and
  it is the missing confirmation, or the empty selection, that closes the gap.
  `StartHolds` says it of what a start took along, whatever is edited meanwhile.
- *Manifests.* `OutboxManifests` follows from what the intake accepts: two files of one
  normalized path are refused, and a group names files of the same manifest. It needs
  nothing about the order of the operations, since a job's manifest is written once.

Only model-checked are the liveness properties (`WaitingSettles`, `UploadsMoveOn`,
`SessionResolves`, `CancelCleans`, `LoneRunSettles`, `PollingEnds`, `RefundTakesEffect`):
fairness and ENABLED are out of reach of the prover. Where an operator of LocalFiles
stands for a loop of the code, it is written by the positions the loop keeps (`Ranked`,
`Those`), not as a fold: what a recursion computes can be checked but not proved.

## 6. Where the code and its documents disagree

Found while modelling. No run of this project refutes these sentences; the definition
that states each of them is left in its module, and adding it to the configuration of
the module (or to one that gives a module of its own its constants) shows the
counterexample.

1. *Two submissions of one job.* `finalize` starts `runSubmission` for every status
   that is not settled, so a second finalize of a waiting job submits it again
   (`pair-service.js:156`). `plan.md:411`: "Duplicate submission caused by product retry:
   zero known incidents; idempotency is mandatory." Definition: `AtMostOneSubmission` of
   PairService.
2. *Refund of a run that is submitted.* A lost answer to finalize is handled like a
   failure "before MOSS submission", and the run is refunded while the service submits it
   (`WorkflowApp.tsx:1367`). `docs/engineering/extension-shell.md:145`: "A run is credited
   back (`releaseDemoRun`) only when the attempt ended with nothing submitted."
   Definition: `RefundOnlyWhenUnsubmitted` of PairRun, without the view.
3. *A run that never ends.* If both timers fire while a poll is under way and that poll
   then fails, nothing arms a timer again and the run stays live (`WorkflowApp.tsx:495`).
   The comment at `WorkflowApp.tsx:567`: "Deadline always wins." Definition: `RunResolves`
   of PairRun.
4. *A slot that never comes back.* Canceling a leased item removes the lease but not the
   slot it took, and with the cap used up the credential is never claimed for again
   (`fair.js:168`). `100-prompts.md:495`: "Jobs survive restarts, noisy users cannot starve
   others, and no credential or entitlement exceeds approved capacity." Definition:
   `ProviderItemsMove` of FairQueues.
5. *A failed job comes back.* `rollbackValidation` leaves the job's validation entry, and
   the next pass over that outbox queues the failed job (`finalize.js:79`).
   `docs/engineering/job-state-machine.md:10`: "Terminal jobs never reprocess."
   Definition: `TerminalNeverReprocessed` of FinalizeOutbox.
6. *A stale abort takes the next read's slot.* The deadline of a read leaves its abort
   listener registered; when its signal is aborted later, the listener frees the slot of
   the read that waits by then and clears the wrong timer. That read's own deadline then
   finds no waiter and does nothing, so its promise stays open (`line-parser.js:75`; the
   comment at `line-parser.js:5`: "always deadline/abort aware"). Definition: `ReadsSettle`
   of LineParser under `FairParserSpec`, with a signal for the first of two reads.
7. *A late cancellation that claims too much.* The first `requestCancel` of a row that is
   "submitting" answers "cancel-requested" and overwrites the status it decided on; a
   second one finds neither that status nor the flag, and answers that the job was
   canceled before the provider accepted the query (`durable-status.js:79`).
   `docs/engineering/durable-job-status.md`: "Late cancellation never claims to have
   stopped an already-accepted provider query." Definition: `LateCancelNeverClaims` of
   JobTracking.
8. *One account, two owners.* A start names the user id as owner of its job and a poll or
   reveal the email (`WorkflowApp.tsx:1250-1253` against `522`, `555`). The server looks at
   neither while the access token works, and takes the header's word once it is over
   (`server.js:165-173`); the window refreshes a token only after a 401, which a call with
   that header never gets, so a job that outlives the token is polled as somebody else's.
   `docs/engineering/auth-sessions.md`: "15-minute access tokens, rotating 30-day
   refresh". Definition: `ServedAsAccount` of Accounts.
9. *An ended run that blocks the next.* A run that timed out after it was submitted is
   stored as "ambiguous", which the store does not count as terminal; `clearRun` does
   nothing for it, since the window counts it as terminal. The next bind is refused
   (`store.cjs:139`), and "Resubmit deliberately", which the catalog of errors offers for
   this case, can never succeed. The comment at `WorkflowApp.tsx:644`: "Close out the
   current run locally so the next Start is not blocked by a bound job." Definition:
   `EndedMakesRoom` of BrowserState.
10. *Settings nobody agreed to.* "Reset to defaults" sets the settings and leaves the
   consents (`WorkflowApp.tsx:2525`), so what is uploaded goes with settings that were not
   on screen when it was agreed to. The text at `WorkflowApp.tsx:2396`: "Acknowledgements
   reset after material changes." Definition: `SettingsAreAgreed` of Workspace, with
   `MaxActs` = 8.
11. *A link under another job.* The link that a poll asked for is shown when it comes
   (`WorkflowApp.tsx:549-557`). If the run shown by then is a later one that succeeds, the
   link is kept as its result, and its own link is not, since `rememberedJobsRef` has the
   job (`WorkflowApp.tsx:619`). The comment at `WorkflowApp.tsx:615`: "Persist successful
   report links into local past-results history". Definition: `LinksAreTheirs` of PairRun.
12. *Polling that stops too early.* A row keeps the flag of a cancellation through every
   `upsert` (`durable-status.js:93`, `30-36`). A job that was canceled while queued, shown
   as submitting by a later writer and canceled again is "cancel-requested" with that flag,
   and line 65 tells the client to stop polling although the job goes on.
   `docs/engineering/durable-job-status.md:10`: "Polling stops for terminal, forgotten, and
   unauthorized jobs." Definition: `PollingStopsForTheEnded` of JobTracking.

Smaller observations, in the order of the modules:

- *The phase is forgotten.* A write that fails in the middle of the files is reported as
  a failure before connect (`live-submit.js:193`), with the retry rule of that phase.
  `100-prompts.md:556` asks to track the confirmed phase. `OutcomeIsHonest` shows that
  this never offers a retry after the query.
- *A put whose answer is lost cannot be repeated.* The object is stored, every retry is
  refused as a replay (`sessions.js:83`), and the transfer fails however often it is
  resumed; `100-prompts.md:468` says that a network interruption resumes safely.
- *A second run may never settle.* Its promise is resolved from its own `pump` only; if
  files of another run are uploading when its last one runs, it stays open. Two runs
  together also exceed the bound on concurrent uploads.
- *Nobody cleans an idle transfer.* `cancel` sets two fields; without an upload under
  way no `pump` follows, and the session is left to its expiry.
- *Explicit groups are taken as they are.* The intake checks that they name files, not
  that they are disjoint, cover all files or are two at least (`ingest.js:222-253`). File
  ids are random and part of the manifest's hash, so equal uploads have different hashes.
- *Any event pays.* `completeFromWebhook` marks a session as paid for every event that is
  taken, a refund too (`checkout.js:83-87`). A second purchase replaces the runs that
  remain of the first, and a purchase delivered after an accepted refund of an earlier
  one restores the package.
- *A granted trial that is refused.* If the trial status is mirrored between the server's
  grant and the read of the mirror, the window refuses the trial it was just granted
  (`entitlement-demo.ts:445-451`); a lost answer or a closed window loses it too. Any
  failure of the claim, also a lost call, is shown as a trial that was used.
- *Two refreshes of one session.* The window that comes second is refused and removes
  the session the first one has just stored.
- *What a recovered run forgets.* Whether a canceled run had been submitted is not
  stored, so it is refunded once it is recovered; a recovered failed run has no failure
  code, so its card offers support only.
- *References are forgotten.* Signing out removes the refunded references and only the
  last fifty are kept (`entitlement-demo.ts:526`), so a run can be refunded once more for
  each time its reference is forgotten. `docs/engineering/extension-shell.md:145`:
  "Releases are keyed by run reference, so a reopened popup cannot refund twice."; the
  comment at `entitlement-demo.ts:503`: "Releases are keyed by run reference so a recovered
  terminal job never refunds twice." `RunsArePaid` counts exactly what is forgotten.
- *Artifacts after a cancellation.* `cancel` of a worker sets a flag and cleans nothing
  (`sandboxed.js:143-149`); what the worker was given stays until it runs or crashes, or
  another run with the same keys cleans it. `docs/engineering/sandboxed-workers.md:10`:
  "artifacts always clean on success, failure, cancel, or crash".
- *A submission nobody asks for.* After a lost answer to finalize (2) the next start
  replaces the stored job, and the link of the first one is never fetched.
- *Two accounts at once.* Taking or giving back a run looks at no owner
  (`entitlement-demo.ts:480`, `508`). While two windows show two accounts, which needs no
  lost update, one of them runs on the package of the other, or finds it dropped.
- *Lost updates.* Two calls of the store or of the entitlement that overlap lose one of
  the writes: runs are paid twice or not at all, and a purge or a draft saved during a
  bind drops the binding. `updateJob` can also reopen a job that was terminal.
- *Same name, same size.* Two files of one folder tree with equal names and sizes count
  as duplicates and the second is dropped without a word, so two students' files named
  alike and of one size cannot be compared. An archive whose stem is a folder's name
  shares that folder's group; a picked class folder becomes one group.
- *Base files stay at home.* They are checked and consented to and never uploaded;
  `docs/product/base-code.md` says that they suppress expected overlap.
- *Consents that survive.* Unlocking a plan and changing the Moss ID keep the consents
  (`docs/legal/consent-and-data-rights.md:25`); a purchase in another window changes the
  mode without regrouping. Two clicks on Start before the first `setRun` start twice.

## 7. What is not modelled

- The commercial gates, capacity and boundary checks,
  provider onboarding and `packages/contracts`, `domain`, `config` are decisions without
  state: unit tests reach their cases better than a model checker.
- Cryptography in the vault and in accounts: sealing, hashing, token formats. The
  models ask only who may open what. Of `apps/api/auth` the magic-link prototype in
  `index.js` and the mail sender are left out.
- Presentation: progress texts, result experience, the wording of errors, the prototype
  under `docs/product/research`, scripts, build and release keep no state that outlives
  a call or are not part of the program.
- The writes of the past results to the browser storage are one step with the effect that
  makes them (PairRun), and two windows that write them at once are not modelled.
- The stream adapter, socket transport and command builder of the provider adapter,
  which only tests use, and multipart uploads, which the transfer manager never asks for.
- Rate limits and time in seconds: time appears as leases that age and timers that fire.
- In PairRun, consuming and releasing a run and writing the active job are single steps;
  BrowserState cuts them at their storage calls, for runs of the offline demo. After a
  lost update BrowserState claims only the types and the trial.
- A liveness property of the recovery sweep of the queues: it counts no attempt, so an
  item that kills its workers is retried for ever; nothing in the repository promises
  otherwise. A lifecycle alert of `runOrphanRepair` and the expiry that `rotateAuth`
  writes into a status row are read by nothing and left out.

## 8. How the project grew, and what is left

The most important behaviour came first: the live path (PairService, PairRun), then the
services that carry money or the provider's patience (FinalizeOutbox, FairQueues), the
session with the provider (LineParser, SubmitSession) and the upload of files
(UploadTransfer); then the services behind the gate, job tracking, commerce and
accounts; last the browser: its storage, and the workspace. Each module has one run that
asks its questions together.

Definitions that no run uses, because they state sentences of 6 that do not hold:
`AtMostOneSubmission`, `RefundOnlyWhenUnsubmitted`, `RunResolves`, `ProviderItemsMove`,
`TerminalNeverReprocessed`, `FairParserSpec` with `ReadsSettle`, `LateCancelNeverClaims`,
`ServedAsAccount`, `EndedMakesRoom`, `SettingsAreAgreed`, `LinksAreTheirs` and
`PollingStopsForTheEnded`.

Left: multipart uploads, if the transfer manager starts to use them; an abstract
specification of the gate in which a job is open and then ended once, with the proof
that SubmissionGate implements it, and one of the extension's books in which a run is
taken, standing or given back.
