---------------------------- MODULE BrowserState ----------------------------
(***************************************************************************)
(* What the extension keeps in storage.local, and the windows (popup and   *)
(* run window, both running WorkflowApp) that read, wait and write it:     *)
(* the package bought with its runs, the references already refunded, the  *)
(* mirror of the device's free trial, the Moss credential, the signed-in   *)
(* session, and through StateStore the draft and the bound job.            *)
(*                                                                         *)
(* Runs are those of the offline demo (tryStartJob with useOfflineDemo):   *)
(* nothing but storage stands between their steps; PairRun has the live    *)
(* ones.  A window carries out one flow at a time, the two of them         *)
(* interleave step by step.                                                *)
(***************************************************************************)
EXTENDS Naturals, Sequences, FiniteSets

CONSTANTS
  Windows, Alarm, JobIds, NoJob, Users, NoUser,
  PaidRuns,     \* runs of a bought package
  ReleasedMax,  \* RELEASED_RUNS_MAX
  MaxActs       \* bound: flows begun, alarms, worker stops, days passing, trial
                \* answers, ticks and runs that end by the deadline or after they were
                \* submitted

ASSUME BrowserAssumption ==
  /\ Alarm \notin Windows /\ NoJob \notin JobIds /\ NoUser \notin Users
  /\ IsFiniteSet(JobIds)
  /\ PaidRuns \in Nat \ {0} /\ ReleasedMax \in Nat

VARIABLES
  saved, work, clobbered,
  session,      \* the stored auth session
  ent,          \* ENTITLEMENT_KEY
  released,     \* RELEASED_RUNS_KEY
  mirror,       \* DEVICE_TRIAL_KEY: the trial counts as claimed
  cred,         \* MOSS_CRED_KEY: whose credential is stored
  claim,        \* the server: who claimed this device's trial
  win,          \* React state of each window
  task,         \* the flow each window is in, and what it has read
  status,       \* the trial status each window is being told
  acts,         \* the count of them
  \* History.
  granted,      \* runs of all packages written
  runs,         \* of each job: "new", "standing" (taken) or "given" back
  forgotten,    \* references dropped from the released ones
  trials,       \* trial packages written
  mixed         \* windows showed two accounts since one was open at all

INSTANCE StateStore WITH Slots <- Windows \cup {Alarm}

stVars  == <<saved, work, clobbered>>
entVars == <<ent, released, granted, runs, forgotten, trials>>
keyVars == <<session, mirror, cred, claim>>
vars == <<stVars, entVars, keyVars, win, task, status, acts, mixed>>

RunsOf(plan) == IF plan = "trial" THEN 1 ELSE PaidRuns
Package(plan, u, left) == [plan |-> plan, owner |-> u, left |-> left]
NoEnt   == Package("none", NoUser, 0)
Bought(plan, u) == Package(plan, u, RunsOf(plan))

\* A run shown, with failureCode when it failed.
RunWith(ref, st, s, code) == [ref |-> ref, status |-> st, synced |-> s, code |-> code]
Run(ref, st, s) == RunWith(ref, st, s, "none")
NoRun   == Run(NoJob, "none", FALSE)
\* told: the window takes the trial of this device for claimed; kept: there was a
\* draft or a job in the record it was last sent.
Fresh(u) ==
  [ open |-> TRUE, account |-> u, ent |-> NoEnt, moss |-> FALSE, run |-> NoRun,
    gate |-> "loading", told |-> FALSE, kept |-> FALSE ]
Shut    == [Fresh(NoUser) EXCEPT !.open = FALSE]

\* A flow's place, the run it is about, what it read, and where it goes on to.
Idle == [at |-> "idle", ref |-> NoJob, seen |-> NoEnt, list |-> <<>>,
         drop |-> FALSE, key |-> NoJob, then |-> "idle"]
At(p) == [Idle EXCEPT !.at = p]

Entitled(e) == e.left > 0

\* A run that is over; "kept" is one that was cancelled after it was submitted.
Over(st) == st \in Terminal \cup {"kept", "ambiguous"}

\* normalizeEntitlement: what a stored package is read as.  A plan that is not known is
\* a pair package, and one without an owner is nobody's.
Normalized(plan, owner, left) ==
  Package(IF plan \in {"trial", "batch"} THEN plan ELSE "pair", owner, left)

\* Statuses of a run that ended with nothing submitted.
Refundable(st) == st \in {"failed", "cancelled"}

\* jobStatusForRun
StoredAs(st) == IF st = "kept" THEN "cancelled" ELSE st

\* resolveOnboardingGate.
GateOf(account, e, moss) ==
  CASE account = NoUser -> "auth"
    [] account # NoUser /\ ~Entitled(e) -> "paywall"
    [] account # NoUser /\ Entitled(e) /\ ~moss -> "moss-id"
    [] OTHER -> "portal"

Init ==
  /\ StoreInit
  /\ session \in Users \cup {NoUser} /\ mirror = FALSE /\ claim = NoUser
  \* There may be a package of the account signed in, with one run left, or one of
  \* the time before packages had owners.
  /\ ent \in {NoEnt, Normalized("none", NoUser, 1), Normalized("pair", session, 1)}
  /\ cred = ent.owner
  /\ released = <<>>
  /\ win = [w \in Windows |-> Shut]
  /\ task = [w \in Windows |-> Idle]
  /\ status = [w \in Windows |-> "none"]
  /\ acts = 0
  /\ granted = ent.left /\ runs = [j \in JobIds |-> "new"] /\ forgotten = 0 /\ trials = 0
  /\ mixed = FALSE

-----------------------------------------------------------------------------
\* Steps shared by the flows.

Free(w) == win[w].open /\ task[w].at = "idle" /\ work[w] = Quiet
Act     == acts < MaxActs /\ acts' = acts + 1
Send(w, op, id, st) == work' = [work EXCEPT ![w] = Sent(op, id, st)]
Receive(w) == work' = [work EXCEPT ![w] = Quiet]
Go(w, p) == task' = [task EXCEPT ![w] = At(p)]
GoWith(w, p, ref) == task' = [task EXCEPT ![w] = [At(p) EXCEPT !.ref = ref]]
SetWin(w, f, v) == win' = [win EXCEPT ![w][f] = v]

\* refreshState asks the worker for the record.
AskState(w) == Send(w, "get", NoJob, "none") /\ Go(w, "refreshed")

\* A flow is over, or ends with refreshState; an answered message is received.
GoOn(w, then) ==
  IF then = "refresh" THEN AskState(w) ELSE Receive(w) /\ Go(w, "idle")

\* releaseDemoRun begins by reading the package.
Give(w, ref, key, then) ==
  IF ent = NoEnt THEN GoOn(w, then)
  ELSE /\ Receive(w)
       /\ task' = [task EXCEPT ![w] = [At("give") EXCEPT
            !.ref = ref, !.key = key, !.seen = ent, !.then = then]]

-----------------------------------------------------------------------------
\* What a window offers at its gate.  A form is filled in as it asks for: with a good
\* registration email, the acknowledgement and a numeric id.
AuthPanel       == {"sign in"}
PaywallPanel(v) == {"buy"} \cup (IF v.told THEN {} ELSE {"claim trial"})
MossIdPanel     == {"save id"}
PortalPanel(v)  == IF v.run.status = "running" \/ ~Entitled(v.ent) THEN {} ELSE {"start"}
AccountCard     == {"replace id", "sign out"}
Recoverable(v)  == IF v.kept THEN {"save draft", "discard"} ELSE {}

\* CATALOG: what the card of an error offers; a code that is not in it, or none, is
\* "unknown".
ErrorActions(code) ==
  CASE code = "provider"          -> {"retry", "support"}
    [] code = "worker"            -> {"retry"}
    [] code = "upload"            -> {"retry", "reconnect"}
    [] code = "offline"           -> {"reconnect"}
    [] code = "uncertain-query"   -> {"deliberate-resubmit", "support"}
    [] code = "validation"        -> {"fix-draft"}
    [] code = "auth"              -> {"settings"}
    [] code \in {"license", "quota"} -> {"settings", "support"}
    [] code = "result"            -> {"history", "support"}
    [] OTHER                      -> {"support"}

\* onRecoveryAction: the others open the options or show a text.
StartsOver == {"retry", "reconnect", "deliberate-resubmit"}

\* The error of describeRun.
ErrorOf(r) == IF r.status \in {"failed", "ambiguous"} THEN ErrorActions(r.code) ELSE {}

\* The card of the run: stopped while it goes on, left when it is over.
RunCard(v) ==
  CASE v.run.status = "none"    -> {}
    [] v.run.status = "running" -> {"cancel"}
    [] v.run.status \in {"failed", "ambiguous"} ->
         IF ErrorOf(v.run) \cap StartsOver # {} THEN {"start over"} ELSE {}
    [] OTHER                    -> {"start over"}

Offered(w) ==
  CASE win[w].gate = "auth"    -> AuthPanel
    [] win[w].gate = "paywall" -> PaywallPanel(win[w])
    [] win[w].gate = "moss-id" -> MossIdPanel
    [] win[w].gate = "portal"  ->
         PortalPanel(win[w]) \cup RunCard(win[w]) \cup Recoverable(win[w]) \cup AccountCard
    [] OTHER                   -> {}

-----------------------------------------------------------------------------
Store == \E s \in Windows \cup {Alarm} : Tidy(s) \/ Write(s)
StoreSteps ==
  /\ \/ Store /\ UNCHANGED acts
     \/ (StopWorker \/ DayPasses) /\ Act
  /\ UNCHANGED <<entVars, keyVars, win, task, status>>

\* The alarm of the background worker.
PurgeAlarm ==
  /\ \/ work[Alarm] = Quiet /\ Act /\ Send(Alarm, "purge", NoJob, "none")
     \/ Answered(work[Alarm]) /\ Receive(Alarm) /\ UNCHANGED acts
  /\ UNCHANGED <<saved, clobbered, entVars, keyVars, win, task, status>>

-----------------------------------------------------------------------------
\* Opening, signing in and out.

\* refreshSession reads who is signed in, refreshState follows.
Open(w) ==
  /\ ~win[w].open /\ work[w] = Quiet /\ Act
  /\ win' = [win EXCEPT ![w] = Fresh(session)]
  /\ task' = [task EXCEPT ![w] =
       [At(IF session = NoUser THEN "strip" ELSE "sync") EXCEPT !.then = "refresh"]]
  /\ UNCHANGED <<stVars, entVars, keyVars, status>>

\* A closed window forgets what it was doing; the worker does not.
Close(w) ==
  /\ win[w].open
  /\ win' = [win EXCEPT ![w] = Shut]
  /\ task' = [task EXCEPT ![w] = Idle]
  /\ status' = [status EXCEPT ![w] = "none"]
  /\ UNCHANGED <<stVars, entVars, keyVars, acts>>

\* The answer to a message of a window that closed.
Unheard(w) ==
  /\ Answered(work[w]) /\ task[w].at = "idle" /\ Receive(w)
  /\ UNCHANGED <<saved, clobbered, entVars, keyVars, win, task, status, acts>>

\* References of jobs that were in a list and no longer are (history).
Lost(list, kept) ==
  Cardinality({list[i] : i \in DOMAIN list} \ ({kept[i] : i \in DOMAIN kept} \cup {NoJob}))

\* Package and refunded references are removed together.
ForgetPackage ==
  /\ ent' = NoEnt /\ released' = <<>>
  /\ forgotten' = forgotten + Lost(released, <<>>)

\* Signed out browsers keep no package and no credential (clearDemoAccount).
Strip(w) ==
  /\ task[w].at = "strip" /\ AskState(w)
  /\ IF ent # NoEnt \/ cred # NoUser THEN ForgetPackage /\ cred' = NoUser
     ELSE UNCHANGED <<ent, released, forgotten, cred>>
  /\ SetWin(w, "gate", GateOf(NoUser, NoEnt, FALSE))
  /\ UNCHANGED <<saved, clobbered, session, mirror, claim, granted, runs, trials,
                 status, acts>>

SignIn(w, u) ==
  /\ Free(w) /\ "sign in" \in Offered(w) /\ Act
  /\ session' = u /\ SetWin(w, "account", u) /\ Go(w, "sync")
  /\ UNCHANGED <<stVars, entVars, mirror, cred, claim, status>>

\* Mutation: only a package without an owner is dropped.
ForeignUnnamed(e, u) == e # NoEnt /\ e.owner = NoUser

\* A package that belongs to another account, or to none.
Foreign(e, u) == e # NoEnt /\ e.owner # u

\* isMossConnected, of what loadDemoMossCredential makes of the stored credential.
MossConnected(c) == c # NoUser

\* syncLocalStateForAccount: read package and credential.
Sync(w) ==
  /\ task[w].at = "sync"
  /\ task' = [task EXCEPT ![w] =
       [At(IF Foreign(ent, win[w].account) THEN "dropEnt" ELSE "dropCred")
          EXCEPT !.seen = ent, !.drop = MossConnected(cred) /\ cred # win[w].account,
                 !.then = task[w].then]]
  /\ SetWin(w, "moss", MossConnected(cred) /\ cred = win[w].account)
  /\ UNCHANGED <<stVars, entVars, keyVars, status, acts>>

DropEnt(w) ==
  /\ task[w].at = "dropEnt"
  /\ ForgetPackage
  /\ clobbered' = (clobbered \/ ent # task[w].seen)
  /\ task' = [task EXCEPT ![w].at = "dropCred", ![w].seen = NoEnt]
  /\ UNCHANGED <<saved, work, keyVars, granted, runs, trials, win, status, acts>>

\* A credential of another account goes too; then the window shows the rest.
DropCred(w) ==
  /\ task[w].at = "dropCred"
  /\ cred' = IF task[w].drop THEN NoUser ELSE cred
  /\ win' = [win EXCEPT ![w].ent = task[w].seen,
       ![w].gate = GateOf(win[w].account, task[w].seen, win[w].moss)]
  /\ GoOn(w, task[w].then)
  /\ UNCHANGED <<saved, clobbered, entVars, session, mirror, claim, status, acts>>

\* onSignOut: the session, then the keys, then the draft and the run.
SignOut(w) ==
  /\ Free(w) /\ "sign out" \in Offered(w) /\ Act
  /\ session' = NoUser /\ Go(w, "outKeys")
  /\ UNCHANGED <<stVars, entVars, mirror, cred, claim, win, status>>

OutKeys(w) ==
  /\ task[w].at = "outKeys" /\ Go(w, "outDraft")
  /\ ForgetPackage /\ cred' = NoUser /\ session' = NoUser
  /\ win' = [win EXCEPT ![w] = [Fresh(NoUser) EXCEPT
       !.run = win[w].run, !.told = win[w].told, !.kept = win[w].kept,
       !.gate = "auth"]]
  /\ Send(w, "discard-draft", NoJob, "none")
  /\ UNCHANGED <<saved, clobbered, mirror, claim, granted, runs, trials, status,
                 acts>>

\* clearRun, called by sign-out, discard and start over: a run that has not
\* ended is stored as cancelled.
Clear(w) ==
  /\ IF win[w].run.status = "running"
     THEN Send(w, "update-job", win[w].run.ref, "cancelled") /\ Go(w, "cleared")
     ELSE AskState(w)
  /\ SetWin(w, "run", NoRun)

OutDraft(w) ==
  /\ task[w].at = "outDraft" /\ Answered(work[w]) /\ Clear(w)
  /\ UNCHANGED <<saved, clobbered, entVars, keyVars, status, acts>>

StartOver(w) ==
  /\ Free(w) /\ "start over" \in Offered(w) /\ Act /\ Clear(w)
  /\ UNCHANGED <<saved, clobbered, entVars, keyVars, status>>

\* discard: the worker first, then as signing out goes on.
Discard(w) ==
  /\ Free(w) /\ "discard" \in Offered(w) /\ Act
  /\ Send(w, "discard-draft", NoJob, "none") /\ Go(w, "outDraft")
  /\ UNCHANGED <<saved, clobbered, entVars, keyVars, win, status>>

Cleared(w) ==
  /\ task[w].at = "cleared" /\ Answered(work[w])
  /\ AskState(w)
  /\ UNCHANGED <<saved, clobbered, entVars, keyVars, win, status, acts>>

SaveDraft(w) ==
  /\ Free(w) /\ "save draft" \in Offered(w) /\ Act
  /\ Send(w, "save-draft", NoJob, "none") /\ Go(w, "cleared")
  /\ UNCHANGED <<saved, clobbered, entVars, keyVars, win, status>>

-----------------------------------------------------------------------------
\* Packages, the free trial and the credential.

\* resolveOwner: the account a window gives, or else that of the stored session.
OwnerOf(u) == IF u # NoUser THEN u ELSE session

\* unlockPlan: the window shows the package it was given, and asks for the Moss ID.
Unlocked(v, e) == [v EXCEPT !.ent = e, !.gate = "moss-id"]

\* purchaseDemoEntitlement writes without reading.
Purchase(w) ==
  /\ Free(w) /\ "buy" \in Offered(w) /\ Act
  /\ ent' = Bought("pair", OwnerOf(win[w].account))
  /\ granted' = granted + PaidRuns
  /\ win' = [win EXCEPT ![w] = Unlocked(@, ent')]
  /\ UNCHANGED <<stVars, released, runs, forgotten, trials, keyVars, task, status>>

\* Mutation: the server relies on the extension's own mirror.
DeviceUsedNever(u) == FALSE

\* The server's claimDeviceTrial refuses a device that was claimed before.
DeviceUsed(u) == claim # NoUser

\* Whom the route takes for the claimant: the access token says it, when there is one.
Claimant(w) == IF session # NoUser THEN session ELSE win[w].account

\* getDeviceTrial.
DeviceTrial == IF claim = NoUser THEN "free" ELSE "claimed"

\* onClaimFreeTrial takes every failure for a trial that was claimed before.
TrialFails(w) == SetWin(w, "told", TRUE)

\* claimDeviceTrial asks the server.  The claim is refused, or recorded and
\* answered, or its answer is lost, or it never arrives or is not authorized.
AskTrial(w) ==
  /\ Free(w) /\ "claim trial" \in Offered(w) /\ Act
  /\ \/ /\ ~DeviceUsed(win[w].account)
        /\ claim' = Claimant(w) /\ UNCHANGED mirror
        /\ \/ Go(w, "trialGranted") /\ UNCHANGED win
           \/ TrialFails(w) /\ UNCHANGED task
     \/ /\ DeviceUsed(win[w].account)
        /\ mirror' = TRUE /\ TrialFails(w) /\ UNCHANGED <<claim, task>>
     \/ TrialFails(w) /\ UNCHANGED <<claim, mirror, task>>
  /\ UNCHANGED <<stVars, entVars, session, cred, status>>

\* The mirror is read before it is written, after the server granted.
ReadMirror(w) ==
  /\ task[w].at = "trialGranted"
  /\ IF mirror THEN Go(w, "idle") /\ TrialFails(w)
     ELSE Go(w, "trialWrite") /\ UNCHANGED win
  /\ UNCHANGED <<stVars, entVars, keyVars, status, acts>>

WriteTrial(w) ==
  /\ task[w].at = "trialWrite" /\ Go(w, "idle")
  /\ ent' = Bought("trial", win[w].account) /\ mirror' = TRUE
  /\ granted' = granted + 1 /\ trials' = trials + 1
  /\ win' = [win EXCEPT ![w] = [Unlocked(@, ent') EXCEPT !.told = TRUE]]
  /\ UNCHANGED <<stVars, released, runs, forgotten, session, cred, claim,
                 status, acts>>

\* loadDeviceTrialStatus runs beside the window's flow: it is answered, and
\* the answer is mirrored later.
TellTrial(w) ==
  /\ win[w].open /\ status[w] = "none" /\ Act
  /\ status' = [status EXCEPT ![w] = DeviceTrial]
  /\ UNCHANGED <<stVars, entVars, keyVars, win, task>>

MirrorTrial(w) ==
  /\ status[w] # "none"
  /\ mirror' = (status[w] = "claimed")
  /\ SetWin(w, "told", mirror')
  /\ status' = [status EXCEPT ![w] = "none"]
  /\ UNCHANGED <<stVars, entVars, session, cred, claim, task, acts>>

SaveCredential(w) ==
  /\ Free(w) /\ "save id" \in Offered(w)
  /\ cred' = win[w].account
  /\ win' = [win EXCEPT ![w].moss = TRUE, ![w].gate = "portal"]
  /\ UNCHANGED <<stVars, entVars, session, mirror, claim, task, status, acts>>

DropCredential(w) ==
  /\ Free(w) /\ "replace id" \in Offered(w) /\ Act
  /\ cred' = NoUser
  /\ win' = [win EXCEPT ![w].moss = FALSE, ![w].gate = "moss-id"]
  /\ UNCHANGED <<stVars, entVars, session, mirror, claim, task, status>>

-----------------------------------------------------------------------------
\* A run: take one, bind the job, let it end, give it back.

\* consumeDemoRun refuses when there is no package, or no run of it is left.
Consumable(e) == e # NoEnt /\ e.left >= 1

\* tryStartJob trusts what the window shows, then consumeDemoRun reads.
Take(w, j) ==
  /\ Free(w) /\ "start" \in Offered(w) /\ Act
  /\ runs[j] = "new" /\ \A v \in Windows : task[v].ref # j  \* a fresh job id
  /\ task' = [task EXCEPT ![w] =
       IF Consumable(ent) THEN [At("take") EXCEPT !.ref = j, !.seen = ent] ELSE Idle]
  /\ UNCHANGED <<stVars, entVars, keyVars, win, status>>

\* consumeDemoRun writes.  Then the job is bound, or, when the API is asked for
\* it first, there may be no job.
TakeWrite(w) ==
  /\ task[w].at = "take"
  /\ ent' = [task[w].seen EXCEPT !.left = @ - 1]
  /\ clobbered' = (clobbered \/ ent # task[w].seen)
  /\ runs' = [runs EXCEPT ![task[w].ref] = "standing"]
  /\ SetWin(w, "ent", ent')
  /\ \/ Send(w, "bind-job", task[w].ref, "ready") /\ GoWith(w, "bind", task[w].ref)
     \/ GoWith(w, "uncreated", task[w].ref) /\ UNCHANGED work
  /\ UNCHANGED <<saved, released, granted, forgotten, trials, keyVars, status, acts>>

\* No job was created: the run is given back under a reference made of the
\* clock, which no other refund has.
Uncreated(w) ==
  /\ task[w].at = "uncreated" /\ Give(w, task[w].ref, NoJob, "idle")
  /\ UNCHANGED <<saved, clobbered, entVars, keyVars, win, status, acts>>

\* bind answered: the run begins, or is given back; refreshState follows.
Bound(w) ==
  /\ task[w].at = "bind" /\ Answered(work[w])
  /\ IF work[w].ok
     THEN SetWin(w, "run", Run(task[w].ref, "running", FALSE)) /\ AskState(w)
     ELSE Give(w, task[w].ref, task[w].ref, "refresh") /\ UNCHANGED win
  /\ UNCHANGED <<saved, clobbered, entVars, keyVars, status, acts>>

\* timeoutFailureCode.
TimeoutFailureCode(sub) == IF sub THEN "uncertain-query" ELSE "provider"

\* refreshState shows the run it finds bound, unless the answer tells of a migration or
\* a purge, which it shows instead; what a cancelled one had submitted, and
\* why a failed one did, is not recorded.
Shown(j, r) ==
  IF j = NoBinding THEN r
  ELSE LET st == IF Over(j.status) THEN j.status ELSE "running" IN
       RunWith(j.id, st, r.synced /\ r.ref = j.id /\ r.status = st,
               IF st = "ambiguous" THEN TimeoutFailureCode(TRUE) ELSE "none")

Refreshed(w) ==
  /\ task[w].at = "refreshed" /\ Answered(work[w]) /\ Receive(w) /\ Go(w, "idle")
  /\ win' = [win EXCEPT
       ![w].run  = IF work[w].ok /\ ~work[w].tidied THEN Shown(work[w].got.job, @) ELSE @,
       ![w].kept = work[w].ok /\ (work[w].got.draft # "none" \/ work[w].got.job # NoBinding)]
  /\ UNCHANGED <<saved, clobbered, entVars, keyVars, status, acts>>

\* The demo ticker goes on to another phase, which the persist effect stores.
Tick(w) ==
  /\ Free(w) /\ win[w].run.status = "running" /\ Act
  /\ Send(w, "update-job", win[w].run.ref, "running")
  /\ GoWith(w, "persisted", win[w].run.ref)
  /\ UNCHANGED <<saved, clobbered, entVars, keyVars, win, status>>

\* How the ticker, a cancel and the deadline end a run: where transition leads from
\* a phase before "wait" ("cancelled", or "failed" by the deadline) or from "wait",
\* when it counts as submitted.
Ends == {"cancelled", "failed", "succeeded", "kept", "ambiguous"}

EndRun(w, st) ==
  /\ Free(w) /\ win[w].run.status = "running"
  /\ IF st \in {"failed", "kept", "ambiguous"} THEN Act ELSE UNCHANGED acts
  /\ SetWin(w, "run", RunWith(win[w].run.ref, st, FALSE,
       IF st \in {"failed", "ambiguous"} THEN TimeoutFailureCode(st = "ambiguous") ELSE "none"))
  /\ UNCHANGED <<stVars, entVars, keyVars, task, status>>

\* The persist effect of a run that has ended, or was found ended.
Persist(w) ==
  /\ Free(w) /\ Over(win[w].run.status) /\ ~win[w].run.synced
  /\ win' = [win EXCEPT ![w].run.synced = TRUE]
  /\ Send(w, "update-job", win[w].run.ref, StoredAs(win[w].run.status))
  /\ GoWith(w, "persisted", win[w].run.ref)
  /\ UNCHANGED <<saved, clobbered, entVars, keyVars, status, acts>>

Persisted(w) ==
  /\ task[w].at = "persisted" /\ Answered(work[w])
  /\ IF Refundable(win[w].run.status) THEN Give(w, task[w].ref, task[w].ref, "idle")
     ELSE GoOn(w, "idle")
  /\ UNCHANGED <<saved, clobbered, entVars, keyVars, win, status, acts>>

\* Mutation: the references are not looked at.
RefundedBeforeNever(key, list) == FALSE

RefundedBefore(key, list) == key # NoJob /\ \E i \in DOMAIN list : list[i] = key

\* Then it reads the references, and writes both.
GiveReads(w) ==
  /\ task[w].at = "give"
  /\ IF RefundedBefore(task[w].key, released)
     THEN GoOn(w, task[w].then) /\ SetWin(w, "ent", task[w].seen)
     ELSE /\ task' = [task EXCEPT ![w].at = "giveWrite", ![w].list = released]
          /\ UNCHANGED <<work, win>>
  /\ UNCHANGED <<saved, clobbered, entVars, keyVars, status, acts>>

\* The last RELEASED_RUNS_MAX of the references and this one.
Remembered(list, key) ==
  LET all == Append(list, key)
      k   == Len(all) - ReleasedMax
  IN SubSeq(all, IF k > 0 THEN k + 1 ELSE 1, Len(all))

GiveWrites(w) ==
  LET t == task[w]
      left == IF t.seen.left < RunsOf(t.seen.plan) THEN t.seen.left + 1 ELSE t.seen.left
  IN
  /\ t.at = "giveWrite" /\ GoOn(w, t.then)
  /\ ent' = [t.seen EXCEPT !.left = left]
  /\ released' = Remembered(t.list, t.key)
  /\ forgotten' = forgotten + Lost(Append(t.list, t.key), released')
  /\ runs' = [runs EXCEPT ![t.ref] = "given"]
  /\ clobbered' = (clobbered \/ ent # t.seen \/ released # t.list)
  /\ SetWin(w, "ent", ent')
  /\ UNCHANGED <<saved, granted, trials, keyVars, status, acts>>

-----------------------------------------------------------------------------
Window(w) ==
  \/ Open(w) \/ Close(w) \/ Unheard(w) \/ Strip(w)
  \/ \E u \in Users : SignIn(w, u)
  \/ Sync(w) \/ DropEnt(w) \/ DropCred(w)
  \/ SignOut(w) \/ OutKeys(w) \/ OutDraft(w)
  \/ Discard(w) \/ StartOver(w) \/ Cleared(w) \/ SaveDraft(w)
  \/ Purchase(w) \/ AskTrial(w) \/ ReadMirror(w) \/ WriteTrial(w)
  \/ TellTrial(w) \/ MirrorTrial(w) \/ SaveCredential(w) \/ DropCredential(w)
  \/ \E j \in JobIds : Take(w, j)
  \/ TakeWrite(w) \/ Uncreated(w) \/ Bound(w) \/ Refreshed(w)
  \/ Tick(w) \/ \E st \in Ends : EndRun(w, st)
  \/ Persist(w) \/ Persisted(w)
  \/ GiveReads(w) \/ GiveWrites(w)

\* No two windows show different accounts: one that is signed out shows none.
OneAccount ==
  \A v, w \in Windows : win[v].account \in {win[w].account, NoUser} \/ win[w].account = NoUser

\* History: two accounts at once, until all windows are closed.
Mixes == mixed' = ((mixed \/ ~OneAccount') /\ \E w \in Windows : win'[w].open)

Next ==
  /\ StoreSteps \/ PurgeAlarm \/ \E w \in Windows : Window(w)
  /\ Mixes

Spec == Init /\ [][Next]_vars

-----------------------------------------------------------------------------
\* Types, the cap of the references, and that a closed window keeps nothing.
BrowserTypeOK ==
  /\ StoreTypeOK
  /\ session \in Users \cup {NoUser} /\ cred \in Users \cup {NoUser}
  /\ claim \in Users \cup {NoUser} /\ mirror \in BOOLEAN
  /\ ent.left \in 0..RunsOf(ent.plan) /\ Len(released) <= ReleasedMax
  /\ \A w \in Windows : ~win[w].open => task[w] = Idle /\ win[w] = Shut

\* Every run that stands was bought: what is left and what was taken and not
\* given back never exceed what the packages granted, as long as no write went
\* over a package it had not read.  A reference that is forgotten (only the
\* last RELEASED_RUNS_MAX are kept, and signing out removes them) may be
\* refunded once more for each time it is forgotten, and no more than that.
RunsArePaid ==
  ~clobbered =>
    ent.left + Cardinality({j \in JobIds : runs[j] = "standing"})
      <= granted + forgotten

\* The records keep their shape, and the runs that stand were paid for.
BalanceHolds == BrowserTypeOK /\ RunsArePaid

\* The free trial is unlocked at most once on a device, whatever accounts sign
\* in, windows are closed, answers are lost or mirrored late.
TrialOncePerDevice == trials <= 1

Inside   == {"paywall", "moss-id", "portal"}
Own(e, u) == e = NoEnt \/ e.owner = u

\* A window past the sign-in has nothing of another account: the package it shows, the
\* stored one its runs are taken from, and the stored credential are those of its own
\* account, whoever was signed in before, in this window or another, and however far
\* the sign-out came before its window was closed.  That is as long as windows did not
\* show two accounts at the same time and no write was stale.
PackageIsOwn ==
  ~clobbered /\ ~mixed =>
    \A w \in Windows : win[w].gate \in Inside =>
      /\ Own(win[w].ent, win[w].account) /\ Own(ent, win[w].account)
      /\ cred \in {win[w].account, NoUser}

\* A run that a window has stored as over makes room for the next: "Close out the
\* current run locally so the next Start is not blocked by a bound job".  It does
\* not: a run that timed out after it was submitted stays bound as ambiguous, which
\* the store does not take for an end, and no later call changes it.
EndedMakesRoom ==
  \A w \in Windows :
    task[w].at = "persisted" /\ Answered(work[w]) /\ work[w].ok /\ Over(win[w].run.status)
      => ~Unresolved(work[w].got)
=============================================================================
