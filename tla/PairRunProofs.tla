--------------------------- MODULE PairRunProofs ---------------------------
(***************************************************************************)
(* The safety invariants of the job service, and of the window of the      *)
(* extension over it, hold for any users, jobs, keys and submission        *)
(* attempts; and the window with the service keeps the promise of          *)
(* OncePerStart: one submission for one start, and success only of what    *)
(* came back with a link.                                                  *)
(***************************************************************************)
EXTENDS PairRun, FiniteSetTheorems, SequenceTheorems, TLAPS

-----------------------------------------------------------------------------
\* The service.

\* What ties a submission to the job it was started for: an unused attempt is
\* blank, a used one names a job, and while it is in flight the job's row says
\* that it was submitted.
AttemptsNameJobs ==
  \A a \in Attempts :
    /\ attempt[a].state = "idle" => attempt[a].job = NoJob
    /\ attempt[a].state # "idle" => attempt[a].job \in Jobs
    /\ attempt[a].state = "inflight" => submitted[attempt[a].job]

\* An id without a row carries nothing of an earlier row.
BlankUntilCreated ==
  \A j \in Jobs : status[j] = "none" => cred[j] = NoUser

\* The inductive strengthening of the invariants.
IInv ==
  /\ TypeOK
  /\ AttemptsNameJobs
  /\ BlankUntilCreated
  /\ WaitingIsCovered
  /\ SubmissionsCarryBytes
  /\ PlaintextDroppedOnSettle
  /\ SuccessIsBacked
  /\ CredentialAlwaysUnlocks

USE DEF Settled, Status, Owns, HasRow, SubmissionsOf, InFlight, Decryptable,
        Finalizable

\* The empty service satisfies the invariant.
LEMMA InitInvariant == ServiceInit => IInv
BY NamesAreDistinct
DEF ServiceInit, IInv, TypeOK, AttemptsNameJobs, BlankUntilCreated, NoAttempt,
    AttemptRecord, WaitingIsCovered, SubmissionsCarryBytes,
    PlaintextDroppedOnSettle, SuccessIsBacked, CredentialAlwaysUnlocks

\* createJob: a fresh row has no credential yet.
LEMMA CreateJobInvariant ==
  ASSUME IInv, NEW u \in Users, NEW j \in Jobs, NEW k \in Keys \cup {NoKey},
         CreateJob(u, k, j)
  PROVE  IInv'
<1>1. TypeOK' BY DEF IInv, TypeOK, CreateJob
<1>2. (AttemptsNameJobs /\ SubmissionsCarryBytes)'
  BY DEF IInv, AttemptsNameJobs, SubmissionsCarryBytes, CreateJob
<1>3. (BlankUntilCreated /\ CredentialAlwaysUnlocks)'
  BY DEF IInv, TypeOK, BlankUntilCreated, CredentialAlwaysUnlocks, CreateJob
<1>4. (WaitingIsCovered /\ PlaintextDroppedOnSettle /\ SuccessIsBacked)'
  BY DEF IInv, TypeOK, WaitingIsCovered, PlaintextDroppedOnSettle,
         SuccessIsBacked, CreateJob
<1> QED BY <1>1, <1>2, <1>3, <1>4 DEF IInv

\* attachCredential: the caller owns the row, so the tenant is the owner.
LEMMA AttachCredentialInvariant ==
  ASSUME IInv, NEW u \in Users, NEW j \in Jobs, AttachCredential(u, j)
  PROVE  IInv'
<1>1. TypeOK' BY DEF IInv, TypeOK, AttachCredential
<1>2. (BlankUntilCreated /\ CredentialAlwaysUnlocks)'
  BY DEF IInv, TypeOK, BlankUntilCreated, CredentialAlwaysUnlocks,
         AttachCredential
<1>3. (/\ AttemptsNameJobs /\ WaitingIsCovered /\ SubmissionsCarryBytes
       /\ PlaintextDroppedOnSettle /\ SuccessIsBacked)'
  BY DEF IInv, AttemptsNameJobs, WaitingIsCovered, SubmissionsCarryBytes,
         PlaintextDroppedOnSettle, SuccessIsBacked, AttachCredential
<1> QED BY <1>1, <1>2, <1>3 DEF IInv

\* uploadFiles: the row is a draft, so nothing was stripped from it.
LEMMA UploadFilesInvariant ==
  ASSUME IInv, NEW u \in Users, NEW j \in Jobs, UploadFiles(u, j)
  PROVE  IInv'
<1>1. TypeOK' BY DEF IInv, TypeOK, UploadFiles
<1>2. (BlankUntilCreated /\ CredentialAlwaysUnlocks)'
  BY DEF IInv, TypeOK, BlankUntilCreated, CredentialAlwaysUnlocks, UploadFiles
<1>3. (AttemptsNameJobs /\ SubmissionsCarryBytes)'
  BY DEF IInv, AttemptsNameJobs, SubmissionsCarryBytes, UploadFiles
<1>4. (WaitingIsCovered /\ PlaintextDroppedOnSettle /\ SuccessIsBacked)'
  BY DEF IInv, TypeOK, WaitingIsCovered, PlaintextDroppedOnSettle,
         SuccessIsBacked, UploadFiles
<1> QED BY <1>1, <1>2, <1>3, <1>4 DEF IInv

\* finalize: the row is live, so its files still have their bytes, and its
\* credential unlocks, so a submission starts with the status it explains.
LEMMA FinalizeInvariant ==
  ASSUME IInv, NEW u \in Users, NEW j \in Jobs, Finalize(u, j)
  PROVE  IInv'
<1>1. Decryptable(j) BY DEF IInv, CredentialAlwaysUnlocks, Finalize
<1>2. PICK a \in Attempts :
        /\ attempt[a].state = "idle"
        /\ attempt' = [attempt EXCEPT ![a] =
             [state |-> "inflight", job |-> j, body |-> files[j]]]
        /\ status' = [status EXCEPT ![j] = "waiting"]
        /\ submitted' = [submitted EXCEPT ![j] = TRUE]
  BY <1>1 DEF Finalize
<1>3. files[j] = "plain"
  BY DEF IInv, TypeOK, PlaintextDroppedOnSettle, Finalize
<1>4. UNCHANGED <<owner, cred, files, result, idem>> BY DEF Finalize
<1>5. TypeOK'
  BY <1>2, <1>3, <1>4 DEF IInv, TypeOK, AttemptRecord
<1>6. AttemptsNameJobs'
  BY <1>2, <1>4 DEF IInv, TypeOK, AttemptsNameJobs
<1>7. (SubmissionsCarryBytes /\ PlaintextDroppedOnSettle)'
  BY <1>2, <1>3, <1>4
  DEF IInv, TypeOK, SubmissionsCarryBytes, PlaintextDroppedOnSettle, Finalize
<1>8. (BlankUntilCreated /\ CredentialAlwaysUnlocks)'
  BY <1>2, <1>4 DEF IInv, TypeOK, BlankUntilCreated, CredentialAlwaysUnlocks
<1>9. WaitingIsCovered'
  BY <1>2 DEF IInv, TypeOK, AttemptsNameJobs, WaitingIsCovered
<1>10. SuccessIsBacked'
  BY <1>2, <1>4 DEF IInv, TypeOK, SuccessIsBacked
<1> QED
  BY <1>5, <1>6, <1>7, <1>8, <1>9, <1>10 DEF IInv

\* runSubmission after its await: the row says submitted, so the job settles
\* as succeeded or ambiguous and never as failed.
LEMMA SettleInvariant ==
  ASSUME IInv, NEW a \in Attempts, NEW o \in Outcomes, Settle(a, o)
  PROVE  IInv'
<1> DEFINE j == attempt[a].job
           end == IF o = "link" THEN "linked" ELSE "unlinked"
<1>1. j \in Jobs /\ submitted[j]
  BY DEF IInv, AttemptsNameJobs, Settle
<1>2. /\ StatusAfter(j, o) \in {"succeeded", "ambiguous"}
      /\ StatusAfter(j, o) = "succeeded" <=> o = "link"
  BY <1>1 DEF StatusAfter, Outcomes
<1>3. /\ attempt[a].state = "inflight"
      /\ attempt' = [attempt EXCEPT ![a].state = end]
      /\ files' = [files EXCEPT ![j] = "dropped"]
      /\ status' = [status EXCEPT ![j] = StatusAfter(j, o)]
      /\ result' = IF o = "link" THEN [result EXCEPT ![j] = "kept"] ELSE result
      /\ UNCHANGED <<owner, cred, submitted, idem>>
  BY DEF Settle
<1>a. end \in {"linked", "unlinked"} /\ (o = "link" => end = "linked")
  OBVIOUS
<1> HIDE DEF j, end
<1>4. TypeOK'
  <2>1. attempt' \in [Attempts -> AttemptRecord]
    BY <1>3, <1>a DEF IInv, TypeOK, AttemptRecord
  <2>2. result' \in [Jobs -> {"none", "kept", "forgotten"}]
    BY <1>1, <1>3 DEF IInv, TypeOK
  <2> QED BY <2>1, <2>2, <1>1, <1>2, <1>3 DEF IInv, TypeOK
<1>5. (AttemptsNameJobs /\ SubmissionsCarryBytes)'
  BY <1>1, <1>3, <1>a
  DEF IInv, TypeOK, AttemptsNameJobs, SubmissionsCarryBytes, j
<1>6. (BlankUntilCreated /\ CredentialAlwaysUnlocks)'
  BY <1>1, <1>2, <1>3 DEF IInv, TypeOK, BlankUntilCreated, CredentialAlwaysUnlocks
<1>7. WaitingIsCovered'
  <2> SUFFICES ASSUME NEW i \in Jobs, status'[i] = "waiting"
               PROVE  \E b \in Attempts :
                        attempt'[b].job = i /\ attempt'[b].state = "inflight"
    BY DEF WaitingIsCovered
  <2>1. i # j /\ status[i] = "waiting"
    BY <1>1, <1>2, <1>3 DEF IInv, TypeOK
  <2>2. PICK b \in Attempts : attempt[b].job = i /\ attempt[b].state = "inflight"
    BY <2>1 DEF IInv, WaitingIsCovered
  <2>3. b # a BY <2>1, <2>2 DEF j
  <2> QED BY <2>2, <2>3, <1>3 DEF IInv, TypeOK
<1>8. PlaintextDroppedOnSettle'
  BY <1>1, <1>2, <1>3 DEF IInv, TypeOK, PlaintextDroppedOnSettle
<1>9. SuccessIsBacked'
  <2>1. ASSUME NEW i \in Jobs, status'[i] = "succeeded"
        PROVE  result'[i] # "none"
    BY <2>1, <1>1, <1>2, <1>3 DEF IInv, TypeOK, SuccessIsBacked
  <2>2. ASSUME NEW i \in Jobs, result'[i] # "none"
        PROVE  \E b \in Attempts : attempt'[b].job = i /\ attempt'[b].state = "linked"
    <3>1. CASE i = j /\ o = "link"
      BY <3>1, <1>3, <1>a DEF IInv, TypeOK, AttemptRecord, j
    <3>2. CASE ~(i = j /\ o = "link")
      <4>1. result[i] # "none" BY <2>2, <3>2, <1>1, <1>3 DEF IInv, TypeOK
      <4>2. PICK b \in Attempts : attempt[b].job = i /\ attempt[b].state = "linked"
        BY <4>1 DEF IInv, SuccessIsBacked
      <4> QED BY <4>2, <1>3 DEF IInv, TypeOK
    <3> QED BY <3>1, <3>2
  <2> QED BY <2>1, <2>2 DEF SuccessIsBacked
<1> QED
  BY <1>4, <1>5, <1>6, <1>7, <1>8, <1>9 DEF IInv

\* forgetResult: the row of the result store stays, only its link goes.
LEMMA ForgetResultInvariant ==
  ASSUME IInv, NEW u \in Users, NEW j \in Jobs, ForgetResult(u, j)
  PROVE  IInv'
<1>1. TypeOK' BY DEF IInv, TypeOK, ForgetResult
<1>2. SuccessIsBacked' BY DEF IInv, TypeOK, SuccessIsBacked, ForgetResult
<1>3. (/\ AttemptsNameJobs /\ WaitingIsCovered /\ SubmissionsCarryBytes
       /\ PlaintextDroppedOnSettle /\ BlankUntilCreated
       /\ CredentialAlwaysUnlocks)'
  BY DEF IInv, AttemptsNameJobs, WaitingIsCovered, SubmissionsCarryBytes,
         PlaintextDroppedOnSettle, BlankUntilCreated, CredentialAlwaysUnlocks,
         ForgetResult
<1> QED BY <1>1, <1>2, <1>3 DEF IInv

\* A restart leaves ids without rows and no submission under way.
LEMMA RestartInvariant == ASSUME IInv, Restart PROVE IInv'
<1>1. \A j \in Jobs : status'[j] \in {"none", "gone"}
  BY DEF Restart
<1>2. \A a \in Attempts :
        /\ attempt'[a].job = attempt[a].job
        /\ attempt'[a].body = attempt[a].body
        /\ attempt'[a].state # "inflight"
        /\ attempt'[a].state = "idle" <=> attempt[a].state = "idle"
        /\ attempt'[a] \in AttemptRecord
  BY DEF IInv, TypeOK, AttemptRecord, Restart
<1>3. TypeOK' BY <1>2 DEF IInv, TypeOK, Restart
<1>4. (AttemptsNameJobs /\ SubmissionsCarryBytes)'
  BY <1>2 DEF IInv, AttemptsNameJobs, SubmissionsCarryBytes
<1>5. (/\ BlankUntilCreated /\ WaitingIsCovered /\ PlaintextDroppedOnSettle
       /\ SuccessIsBacked /\ CredentialAlwaysUnlocks)'
  BY <1>1 DEF BlankUntilCreated, WaitingIsCovered, PlaintextDroppedOnSettle,
              SuccessIsBacked, CredentialAlwaysUnlocks, Restart
<1> QED BY <1>3, <1>4, <1>5 DEF IInv

\* No step of the service, whoever calls it and whatever submitPair answers,
\* breaks the invariant.
LEMMA StepInvariant == IInv /\ [ServiceNext]_serviceVars => IInv'
<1> SUFFICES ASSUME IInv, [ServiceNext]_serviceVars PROVE IInv' OBVIOUS
<1>1. CASE \E u \in Users, j \in Jobs : Handler(u, j)
  BY <1>1, CreateJobInvariant, AttachCredentialInvariant, UploadFilesInvariant,
     FinalizeInvariant, ForgetResultInvariant DEF Handler
<1>2. CASE \E a \in Attempts, o \in Outcomes : Settle(a, o)
  BY <1>2, SettleInvariant
<1>3. CASE Restart BY <1>3, RestartInvariant
<1>4. CASE UNCHANGED serviceVars
  BY <1>4 DEF serviceVars, IInv, TypeOK, AttemptsNameJobs, BlankUntilCreated,
              WaitingIsCovered, SubmissionsCarryBytes, PlaintextDroppedOnSettle,
              SuccessIsBacked, CredentialAlwaysUnlocks
<1> QED BY <1>1, <1>2, <1>3, <1>4 DEF ServiceNext

-----------------------------------------------------------------------------

\* Every reachable state of the service satisfies the strengthened invariant.
THEOREM ServiceInvariant == ServiceSpec => []IInv
BY InitInvariant, StepInvariant, PTL DEF ServiceSpec

\* Every variable keeps the shape of the service's rows and maps.
THEOREM ServiceTypeOK == ServiceSpec => []TypeOK
<1>1. IInv => TypeOK BY DEF IInv
<1> QED BY <1>1, ServiceInvariant, PTL

\* A waiting job always has a submission under way that will settle it.
THEOREM ServiceWaitingIsCovered == ServiceSpec => []WaitingIsCovered
<1>1. IInv => WaitingIsCovered BY DEF IInv
<1> QED BY <1>1, ServiceInvariant, PTL

\* No submission starts from a row whose file bytes were already dropped.
THEOREM ServiceSubmissionsCarryBytes == ServiceSpec => []SubmissionsCarryBytes
<1>1. IInv => SubmissionsCarryBytes BY DEF IInv
<1> QED BY <1>1, ServiceInvariant, PTL

\* Plaintext is gone exactly from the jobs whose submission settled them.
THEOREM ServicePlaintextDropped == ServiceSpec => []PlaintextDroppedOnSettle
<1>1. IInv => PlaintextDroppedOnSettle BY DEF IInv
<1> QED BY <1>1, ServiceInvariant, PTL

\* "succeeded" is always backed by a result row.
THEOREM ServiceSuccessIsBacked == ServiceSpec => []SuccessIsBacked
<1>1. IInv => SuccessIsBacked BY DEF IInv
<1> QED BY <1>1, ServiceInvariant, PTL

\* The credential of a row always unlocks for its owner.
THEOREM ServiceCredentialUnlocks == ServiceSpec => []CredentialAlwaysUnlocks
<1>1. IInv => CredentialAlwaysUnlocks BY DEF IInv
<1> QED BY <1>1, ServiceInvariant, PTL

\* A row that says success has its result, and a credential that was attached opens
\* for its job (runSubmission's two try blocks; vault.js:65-100).
THEOREM ServiceClaimsAreBacked == ServiceSpec => []ClaimsAreBacked
<1>1. TypeOK /\ SuccessIsBacked /\ CredentialAlwaysUnlocks => ClaimsAreBacked
  BY DEF ClaimsAreBacked
<1> QED
  BY <1>1, ServiceTypeOK, ServiceSuccessIsBacked, ServiceCredentialUnlocks, PTL

\* The bytes of a job are there while a submission may need them and are gone once it
\* is settled (finalize, and runSubmission on both sides of its await).
THEOREM ServiceBytesFollowTheJob == ServiceSpec => []BytesFollowTheJob
<1>1. SubmissionsCarryBytes /\ PlaintextDroppedOnSettle => BytesFollowTheJob
  BY DEF BytesFollowTheJob
<1> QED
  BY <1>1, ServiceSubmissionsCarryBytes, ServicePlaintextDropped, PTL

-----------------------------------------------------------------------------
\* The run window.

HIDE DEF Settled, Status, Owns, HasRow, SubmissionsOf, InFlight, Decryptable,
         Finalizable

\* A submission of j came back with a link.
Linked(j) == \E a \in SubmissionsOf(j) : attempt[a].state = "linked"

ShownRuns == [ref : Jobs \cup {Pending}, phase : Phases, submitted : BOOLEAN]

\* A run that can be shown; it says success of what is linked only.
RunFits(r) ==
  /\ r = NoRun \/ r \in ShownRuns
  /\ r.phase = "success" => Linked(r.ref)

\* The window: the run shown, the effects under way and the timers.
ViewInv ==
  /\ open \in BOOLEAN
  /\ RunFits(run)
  /\ effects \in Seq(ShownRuns) /\ Len(effects) <= MaxEffects
  /\ \A i \in 1..Len(effects) : RunFits(effects[i])
  /\ timers \subseteq {"tick", "deadline"} /\ (timers # {} => Live(run))

StoredStatus == {PhaseJobStatus[p] : p \in Phases}

\* A job that the store can have bound.
ActiveFits(act) ==
  /\ act = NoActive \/ act \in [job : Jobs, status : StoredStatus]
  /\ act.status = "succeeded" => Linked(act.job)

\* The store: the bound job and the entitlement.
StoreInv ==
  /\ ActiveFits(active)
  /\ remaining \in 0..Total /\ released \subseteq Starts \cup {Pending}

\* The poll and the link that it brings.
PollInv ==
  /\ poll = NoPoll
       \/ poll.status \in {"asked", "revealing"} \cup (Status \ {"none", "gone"})
  /\ poll.submitted \in BOOLEAN
  /\ poll.status \in {"succeeded", "revealing"} => Linked(poll.job)
  /\ report = NoJob \/ Linked(report)

\* Past results.
HistoryInv ==
  /\ history \in [Starts -> Starts \cup {NoJob}] /\ remembered \subseteq Starts
  /\ HistoryIsEarned

Calling == {"create", "attach", "upload", "finalize"}

\* Where a start is, what the server may still do for it and what it did: the files
\* leave in the last of the calls, and from the second on the job is bound.
StartFits(s) ==
  /\ step[s] \in {"idle", "clicked"} => call[s] = "none"
  /\ step[s] \in Calling => call[s] \in {step[s], "answered"}
  /\ SubmissionsOf(s) # {} =>
       call[s] = "answered" /\ step[s] \in {"finalize", "refresh", "stopped"}
  /\ (\/ step[s] \in Calling \ {"create"}
      \/ call[s] \in Calling \ {"create"}
      \/ SubmissionsOf(s) # {}) => active # NoActive

CallsInv ==
  /\ step \in [Starts -> {"idle", "clicked", "refresh", "stopped"} \cup Calling]
  /\ call \in [Starts -> {"none", "answered"} \cup Calling]
  /\ \A s \in Starts : StartFits(s)
  /\ \A a, b \in Attempts :
       attempt[a].job = attempt[b].job /\ attempt[a].job \in Jobs => a = b

\* All but the past results, which follow from the rest.
MoveInv == IInv /\ ViewInv /\ StoreInv /\ PollInv /\ CallsInv

\* The inductive invariant.
RunInv == MoveInv /\ HistoryInv

\* What is linked stays linked, and what was submitted stays submitted.
LinksStay == \A j : Linked(j) => Linked(j)'

-----------------------------------------------------------------------------
\* Facts.

LEMMA PhaseFacts ==
  /\ \A p \in Phases : JobStatusPhase(PhaseJobStatus[p]) = p
  /\ \A p \in Phases : PhaseJobStatus[p] = "succeeded" <=> p = "success"
  /\ "none" \notin Phases /\ "none" \notin StoredStatus
<1>1. DOMAIN PhaseJobStatus = Phases
  BY DEF PhaseJobStatus, Phases, TerminalPhases
<1>2. \A p, q \in Phases : PhaseJobStatus[p] = PhaseJobStatus[q] => p = q
  BY DEF PhaseJobStatus, Phases, TerminalPhases
<1>3. \A p \in Phases : JobStatusPhase(PhaseJobStatus[p]) = p
  <2> SUFFICES ASSUME NEW p \in Phases PROVE JobStatusPhase(PhaseJobStatus[p]) = p
    OBVIOUS
  <2>1. \A q \in Phases : PhaseJobStatus[q] = PhaseJobStatus[p] <=> q = p
    BY <1>2
  <2> QED
    BY <2>1 DEF JobStatusPhase
<1>4. \A p \in Phases : PhaseJobStatus[p] = "succeeded" <=> p = "success"
  BY DEF PhaseJobStatus, Phases, TerminalPhases
<1>5. "none" \notin Phases /\ "none" \notin StoredStatus
  BY DEF StoredStatus, PhaseJobStatus, Phases, TerminalPhases
<1> QED
  BY <1>3, <1>4, <1>5

LEMMA NoFacts ==
  /\ NoRun.phase = "none" /\ NoRun.ref = NoJob
  /\ NoActive.status = "none" /\ NoActive.job = NoJob
  /\ NoPoll.status = "none" /\ NoPoll.submitted = FALSE
  /\ NoJob \notin Jobs \cup {Pending} /\ Pending \notin Jobs
  /\ Keys = Jobs /\ Customer \in Users
BY RunAssumption, NamesAreDistinct DEF NoRun, Run, NoActive, NoPoll

\* Only a job is linked.
LEMMA LinkedIsJob ==
  ASSUME IInv, NEW j, Linked(j)
  PROVE  j \in Jobs
BY DEF Linked, SubmissionsOf, IInv, AttemptsNameJobs

\* A step of the extension alone.
LEMMA QuietService ==
  ASSUME UNCHANGED attempt
  PROVE  /\ LinksStay
         /\ \A j : SubmissionsOf(j)' = SubmissionsOf(j)
BY DEF LinksStay, Linked, SubmissionsOf

LEMMA QuietInv ==
  ASSUME IInv, UNCHANGED serviceVars
  PROVE  IInv' /\ UNCHANGED attempt /\ LinksStay
<1>1. UNCHANGED attempt
  BY DEF serviceVars
<1> QED
  BY <1>1, QuietService, StepInvariant

LEMMA ViewStays ==
  ASSUME ViewInv, LinksStay, UNCHANGED <<open, run, effects, timers>>
  PROVE  ViewInv'
BY DEF ViewInv, RunFits, LinksStay, Live

LEMMA StoreStays ==
  ASSUME StoreInv, LinksStay, UNCHANGED <<active, remaining, released>>
  PROVE  StoreInv'
BY DEF StoreInv, ActiveFits, LinksStay

LEMMA PollStays ==
  ASSUME PollInv, LinksStay, UNCHANGED <<poll, report>>
  PROVE  PollInv'
BY DEF PollInv, LinksStay

LEMMA CallsStay ==
  ASSUME CallsInv, UNCHANGED <<step, call, attempt>>, active' = NoActive => active = NoActive
  PROVE  CallsInv'
BY QuietService DEF CallsInv, StartFits

\* A run that fits is shown.
LEMMA ShownKeeps ==
  ASSUME ViewInv, LinksStay, NEW r, RunFits(r), open' \in BOOLEAN,
         Show(r) \/ ShowAnew(r)
  PROVE  ViewInv'
<1>1. run' = r /\ Arm(r) /\ (UNCHANGED effects \/ Enter(r))
  BY DEF Show, ShowAnew
<1>2. \A x : RunFits(x) => RunFits(x)'
  BY DEF RunFits, LinksStay
<1>3. RunFits(run')
  BY <1>1
<1>4. timers' \subseteq {"tick", "deadline"} /\ (timers' # {} => Live(run'))
  BY <1>1 DEF Arm, Live
<1>5. CASE UNCHANGED effects
  BY <1>1, <1>2, <1>4, <1>5 DEF ViewInv, Live
<1>6. CASE effects' = Append(effects, r) /\ Len(effects) < MaxEffects /\ r # NoRun
  <2>1. r \in ShownRuns
    BY <1>6 DEF RunFits
  <2>2. MaxEffects \in Nat /\ effects \in Seq(ShownRuns) /\ Len(effects) \in Nat
    BY RunAssumption DEF ViewInv
  <2>3. /\ effects' \in Seq(ShownRuns) /\ Len(effects') = Len(effects) + 1
        /\ \A i \in 1..Len(effects) : effects'[i] = effects[i]
        /\ effects'[Len(effects) + 1] = r
    BY <1>6, <2>1, <2>2
  <2>4. \A i \in 1..Len(effects') : RunFits(effects'[i])
    BY <2>2, <2>3 DEF ViewInv
  <2>5. Len(effects') <= MaxEffects
    BY <1>6, <2>2, <2>3
  <2> QED
    BY <1>1, <1>2, <1>4, <2>3, <2>4, <2>5 DEF ViewInv, Live
<1> QED
  BY <1>1, <1>5, <1>6 DEF Enter

\* What recoverRunState makes of a bound job.
LEMMA RecoveredFits ==
  ASSUME NEW act, ActiveFits(act), act # NoActive, NEW r \in Recovered(act)
  PROVE  RunFits(r)
<1>1. PICK p \in Phases : act.status = PhaseJobStatus[p]
  BY DEF ActiveFits, StoredStatus
<1>2. JobStatusPhase(act.status) = p /\ (p = "success" => act.status = "succeeded")
  BY <1>1, PhaseFacts
<1>3. PICK sub \in BOOLEAN : r \in {Run(act.job, p, sub), Run(act.job, "timeout", sub)}
  BY <1>2 DEF Recovered
<1>4. act.job \in Jobs /\ "timeout" \in Phases
  BY DEF ActiveFits, Phases, TerminalPhases
<1> QED
  BY <1>2, <1>3, <1>4 DEF RunFits, Run, ShownRuns, ActiveFits

LEMMA ReleaseKeeps ==
  ASSUME StoreInv, LinksStay, UNCHANGED active, NEW ref \in Jobs \cup {Pending, NoJob},
         Release(ref)
  PROVE  StoreInv'
<1>1. Total \in Nat /\ remaining \in 0..Total
  BY RunAssumption DEF StoreInv
<1>2. remaining' \in 0..Total
  BY <1>1 DEF Release
<1>3. released' \subseteq Starts \cup {Pending}
  BY DEF Release, StoreInv, Starts
<1> QED
  BY <1>2, <1>3 DEF StoreInv, ActiveFits, LinksStay

\* The phase of the run shown is set.
LEMMA PhaseFits ==
  ASSUME ViewInv, NEW p \in Phases \ {"success"}
  PROVE  RunFits(IF run = NoRun THEN NoRun ELSE [run EXCEPT !.phase = p])
BY NoFacts DEF ViewInv, RunFits, ShownRuns

LEMMA NoRunFits == RunFits(NoRun)
BY NoFacts DEF RunFits

-----------------------------------------------------------------------------
\* The steps of a start.

\* The start s moves, and no other.
LEMMA StartMovesOn ==
  ASSUME CallsInv, UNCHANGED attempt, NEW s \in Starts,
         step' \in [Starts -> {"idle", "clicked", "refresh", "stopped"} \cup Calling],
         call' \in [Starts -> {"none", "answered"} \cup Calling],
         \A x \in Starts \ {s} : step'[x] = step[x] /\ call'[x] = call[x],
         active' = NoActive => active = NoActive,
         StartFits(s)'
  PROVE  CallsInv'
<1>1. \A x \in Starts : StartFits(x)'
  BY QuietService DEF CallsInv, StartFits
<1> QED
  BY <1>1 DEF CallsInv

LEMMA ClickStartKeeps ==
  ASSUME MoveInv, NEW s \in Starts, ClickStart(s)
  PROVE  MoveInv' /\ LinksStay
<1>1. IInv' /\ UNCHANGED attempt /\ LinksStay
  BY QuietInv DEF ClickStart, MoveInv
<1>2. ViewInv' /\ StoreInv' /\ PollInv'
  BY <1>1, ViewStays, StoreStays, PollStays DEF ClickStart, MoveInv
<1>3. /\ step' \in [Starts -> {"idle", "clicked", "refresh", "stopped"} \cup Calling]
      /\ step'[s] = "clicked" /\ \A x \in Starts \ {s} : step'[x] = step[x]
  BY DEF ClickStart, MoveInv, CallsInv
<1>4. StartFits(s)'
  BY <1>1, <1>3, QuietService DEF ClickStart, MoveInv, CallsInv, StartFits, Calling
<1>5. CallsInv'
  BY <1>1, <1>3, <1>4, StartMovesOn DEF ClickStart, MoveInv, CallsInv
<1> QED
  BY <1>1, <1>2, <1>5 DEF MoveInv

LEMMA ProbeFailsKeeps ==
  ASSUME MoveInv, NEW s \in Starts, ProbeFails(s)
  PROVE  MoveInv' /\ LinksStay
<1>1. IInv' /\ UNCHANGED attempt /\ LinksStay
  BY QuietInv DEF ProbeFails, MoveInv
<1>2. ViewInv' /\ StoreInv' /\ PollInv'
  BY <1>1, ViewStays, StoreStays, PollStays DEF ProbeFails, MoveInv
<1>3. /\ step' \in [Starts -> {"idle", "clicked", "refresh", "stopped"} \cup Calling]
      /\ step'[s] = "stopped" /\ \A x \in Starts \ {s} : step'[x] = step[x]
  BY DEF ProbeFails, MoveInv, CallsInv
<1>4. StartFits(s)'
  BY <1>1, <1>3, QuietService DEF ProbeFails, MoveInv, CallsInv, StartFits, Calling
<1>5. CallsInv'
  BY <1>1, <1>3, <1>4, StartMovesOn DEF ProbeFails, MoveInv, CallsInv
<1> QED
  BY <1>1, <1>2, <1>5 DEF MoveInv

LEMMA ConsumeKeeps ==
  ASSUME MoveInv, NEW s \in Starts, ConsumeAndCreate(s)
  PROVE  MoveInv' /\ LinksStay
<1>1. IInv' /\ UNCHANGED attempt /\ LinksStay
  BY QuietInv DEF ConsumeAndCreate, MoveInv
<1>2. CASE remaining = 0
  <2>1. ViewInv' /\ StoreInv' /\ PollInv'
    BY <1>1, <1>2, ViewStays, StoreStays, PollStays DEF ConsumeAndCreate, MoveInv
  <2>2. /\ step' \in [Starts -> {"idle", "clicked", "refresh", "stopped"} \cup Calling]
        /\ step'[s] = "stopped" /\ \A x \in Starts \ {s} : step'[x] = step[x]
        /\ step[s] = "clicked" /\ UNCHANGED <<call, active>>
    BY <1>2 DEF ConsumeAndCreate, MoveInv, CallsInv
  <2>3. StartFits(s)'
    BY <1>1, <2>2, QuietService DEF MoveInv, CallsInv, StartFits, Calling
  <2>4. CallsInv'
    BY <1>1, <2>2, <2>3, StartMovesOn DEF MoveInv, CallsInv
  <2> QED
    BY <1>1, <2>1, <2>4 DEF MoveInv
<1>3. CASE remaining # 0
  <2>1. RunFits(Run(Pending, "validate", FALSE))
    BY DEF RunFits, Run, ShownRuns, Phases
  <2>2. ShowAnew(Run(Pending, "validate", FALSE)) /\ UNCHANGED open
    BY <1>3 DEF ConsumeAndCreate
  <2>3. ViewInv'
    BY <1>1, <2>1, <2>2, ShownKeeps DEF MoveInv, ViewInv
  <2>4. StoreInv'
    <3>1. Total \in Nat /\ remaining \in 0..Total
      BY RunAssumption DEF MoveInv, StoreInv
    <3>2. remaining' \in 0..Total
      BY <1>3, <3>1 DEF ConsumeAndCreate
    <3> QED
      BY <1>1, <3>2 DEF ConsumeAndCreate, MoveInv, StoreInv, ActiveFits, LinksStay
  <2>5. PollInv'
    BY <1>1, <1>3 DEF ConsumeAndCreate, MoveInv, PollInv, LinksStay
  <2>6. /\ step' \in [Starts -> {"idle", "clicked", "refresh", "stopped"} \cup Calling]
        /\ call' \in [Starts -> {"none", "answered"} \cup Calling]
        /\ step'[s] = "create" /\ call'[s] = "create" /\ step[s] = "clicked"
        /\ \A x \in Starts \ {s} : step'[x] = step[x] /\ call'[x] = call[x]
        /\ UNCHANGED active
    BY <1>3 DEF ConsumeAndCreate, MoveInv, CallsInv, Calling
  <2>7. StartFits(s)'
    BY <1>1, <2>6, QuietService DEF MoveInv, CallsInv, StartFits, Calling
  <2>8. CallsInv'
    BY <1>1, <2>6, <2>7, StartMovesOn DEF MoveInv
  <2> QED
    BY <1>1, <2>3, <2>4, <2>5, <2>8 DEF MoveInv
<1> QED
  BY <1>2, <1>3

\* The client goes on with a good answer: only what is shown and stored changes.
LEMMA ProceedKeeps ==
  ASSUME MoveInv, NEW s \in Starts, NEW to \in Calling \ {"create"}, NEW from \in Calling,
         from # "finalize", Proceed(s, from, to), UNCHANGED serviceVars,
         active' # NoActive
  PROVE  CallsInv'
<1>1. UNCHANGED attempt
  BY DEF serviceVars
<1>2. /\ step' \in [Starts -> {"idle", "clicked", "refresh", "stopped"} \cup Calling]
      /\ call' \in [Starts -> {"none", "answered"} \cup Calling]
      /\ step'[s] = to /\ call'[s] = to /\ step[s] = from
      /\ \A x \in Starts \ {s} : step'[x] = step[x] /\ call'[x] = call[x]
  BY DEF Proceed, MoveInv, CallsInv
<1>3. StartFits(s)'
  BY <1>1, <1>2, QuietService DEF MoveInv, CallsInv, StartFits, Calling
<1> QED
  BY <1>1, <1>2, <1>3, StartMovesOn DEF MoveInv

LEMMA CreatedKeeps ==
  ASSUME MoveInv, NEW s \in Starts, Created(s)
  PROVE  MoveInv' /\ LinksStay
<1>1. IInv' /\ UNCHANGED attempt /\ LinksStay
  BY QuietInv DEF Created, MoveInv
<1> DEFINE r == IF run = NoRun THEN NoRun ELSE [run EXCEPT !.ref = s, !.phase = "upload"]
<1>2. RunFits(r)
  BY NoFacts DEF MoveInv, ViewInv, RunFits, ShownRuns, Phases, Starts
<1>3. Show(r) /\ UNCHANGED open
  BY DEF Created
<1> HIDE DEF r
<1>4. ViewInv'
  BY <1>1, <1>2, <1>3, ShownKeeps DEF MoveInv, ViewInv
<1>5. /\ active' = [job |-> s, status |-> "uploading"]
      /\ UNCHANGED <<remaining, released>>
  BY DEF Created, Bound
<1>6. active'.job \in Jobs /\ active'.status = "uploading" /\ active' # NoActive
  BY <1>5, NoFacts DEF Starts
<1>7. "uploading" \in StoredStatus
  <2>1. "upload" \in Phases /\ PhaseJobStatus["upload"] = "uploading"
    BY DEF Phases, PhaseJobStatus
  <2> QED
    BY <2>1 DEF StoredStatus
<1>8. StoreInv'
  BY <1>5, <1>6, <1>7 DEF MoveInv, StoreInv, ActiveFits, Starts
<1>9. PollInv'
  BY <1>1, PollStays DEF Created, MoveInv
<1>10. CallsInv'
  BY <1>6, ProceedKeeps DEF Created, Calling
<1> QED
  BY <1>1, <1>4, <1>8, <1>9, <1>10 DEF MoveInv

\* From the second call on the job is bound.
LEMMA BoundByNow ==
  ASSUME CallsInv, NEW s \in Starts, step[s] \in {"attach", "upload", "finalize"}
  PROVE  active # NoActive
BY DEF CallsInv, StartFits, Calling

LEMMA AttachedKeeps ==
  ASSUME MoveInv, NEW s \in Starts, Attached(s)
  PROVE  MoveInv' /\ LinksStay
<1>1. IInv' /\ UNCHANGED attempt /\ LinksStay
  BY QuietInv DEF Attached, MoveInv
<1>2. ViewInv' /\ StoreInv' /\ PollInv'
  BY <1>1, ViewStays, StoreStays, PollStays DEF Attached, MoveInv
<1>3. active # NoActive
  BY BoundByNow DEF Attached, Proceed, MoveInv
<1>4. CallsInv'
  BY <1>3, ProceedKeeps DEF Attached, Calling
<1> QED
  BY <1>1, <1>2, <1>4 DEF MoveInv

\* The phase of the run shown is set; nothing of the store and of the poll changes.
LEMMA ShowPhaseKeeps ==
  ASSUME MoveInv, LinksStay, NEW p \in Phases \ {"success"}, ShowPhase(p), UNCHANGED open
  PROVE  ViewInv'
BY PhaseFits, ShownKeeps DEF ShowPhase, MoveInv, ViewInv

LEMMA UploadedKeeps ==
  ASSUME MoveInv, NEW s \in Starts, Uploaded(s)
  PROVE  MoveInv' /\ LinksStay
<1>1. IInv' /\ UNCHANGED attempt /\ LinksStay
  BY QuietInv DEF Uploaded, MoveInv
<1>2. ViewInv'
  BY <1>1, ShowPhaseKeeps DEF Uploaded, Phases
<1>3. StoreInv' /\ PollInv'
  BY <1>1, StoreStays, PollStays DEF Uploaded, MoveInv
<1>4. active # NoActive
  BY BoundByNow DEF Uploaded, Proceed, MoveInv
<1>5. CallsInv'
  BY <1>4, ProceedKeeps DEF Uploaded, Calling
<1> QED
  BY <1>1, <1>2, <1>3, <1>5 DEF MoveInv

\* A start that makes no further call.
LEMMA EndsKeeps ==
  ASSUME CallsInv, UNCHANGED <<attempt, call, active>>, NEW s \in Starts,
         NEW to \in {"refresh", "stopped"}, step' = [step EXCEPT ![s] = to],
         step[s] \in Calling \cup {"refresh"}, to = "refresh" => call[s] = "answered"
  PROVE  CallsInv'
<1>1. /\ step' \in [Starts -> {"idle", "clicked", "refresh", "stopped"} \cup Calling]
      /\ step'[s] = to /\ \A x \in Starts \ {s} : step'[x] = step[x]
  BY DEF CallsInv
<1>2. StartFits(s)'
  BY <1>1, QuietService DEF CallsInv, StartFits, Calling
<1> QED
  BY <1>1, <1>2, StartMovesOn DEF CallsInv

LEMMA BindRefusedKeeps ==
  ASSUME MoveInv, NEW s \in Starts, BindRefused(s)
  PROVE  MoveInv' /\ LinksStay
<1>1. IInv' /\ UNCHANGED attempt /\ LinksStay
  BY QuietInv DEF BindRefused, MoveInv
<1>2. ViewInv'
  BY <1>1, NoRunFits, ShownKeeps DEF BindRefused, MoveInv, ViewInv
<1>3. StoreInv'
  BY <1>1, ReleaseKeeps DEF BindRefused, MoveInv, Starts
<1>4. PollInv'
  BY <1>1, PollStays DEF BindRefused, MoveInv
<1>5. CallsInv'
  BY <1>1, EndsKeeps DEF BindRefused, MoveInv, Calling
<1> QED
  BY <1>1, <1>2, <1>3, <1>4, <1>5 DEF MoveInv

LEMMA FinalizedKeeps ==
  ASSUME MoveInv, NEW s \in Starts, Finalized(s)
  PROVE  MoveInv' /\ LinksStay
<1>1. IInv' /\ UNCHANGED attempt /\ LinksStay
  BY QuietInv DEF Finalized, MoveInv
<1> DEFINE r == IF run = NoRun THEN NoRun
                ELSE [run EXCEPT !.phase = "submit", !.submitted = TRUE]
<1>2. RunFits(r)
  BY NoFacts DEF MoveInv, ViewInv, RunFits, ShownRuns, Phases
<1>3. Show(r) /\ UNCHANGED open
  BY DEF Finalized
<1> HIDE DEF r
<1>4. ViewInv'
  BY <1>1, <1>2, <1>3, ShownKeeps DEF MoveInv, ViewInv
<1>5. StoreInv' /\ PollInv'
  BY <1>1, StoreStays, PollStays DEF Finalized, MoveInv
<1>6. CallsInv'
  BY <1>1, EndsKeeps DEF Finalized, MoveInv, Calling
<1> QED
  BY <1>1, <1>4, <1>5, <1>6 DEF MoveInv

\* The persisted job is shown.
LEMMA RecoveredKeeps ==
  ASSUME MoveInv, LinksStay, RefreshState, open' \in BOOLEAN
  PROVE  ViewInv'
<1>1. CASE active = NoActive
  BY <1>1 DEF RefreshState, MoveInv, ViewInv, RunFits, LinksStay, Live
<1>2. CASE active # NoActive
  <2>1. PICK r \in Recovered(active) : Show(r)
    BY <1>2 DEF RefreshState
  <2>2. RunFits(r)
    BY <1>2, RecoveredFits DEF MoveInv, StoreInv
  <2> QED
    BY <2>1, <2>2, ShownKeeps DEF MoveInv
<1> QED
  BY <1>1, <1>2

LEMMA RefreshKeeps ==
  ASSUME MoveInv, NEW s \in Starts, Refresh(s)
  PROVE  MoveInv' /\ LinksStay
<1>1. IInv' /\ UNCHANGED attempt /\ LinksStay
  BY QuietInv DEF Refresh, MoveInv
<1>2. ViewInv'
  BY <1>1, RecoveredKeeps DEF Refresh, MoveInv, ViewInv
<1>3. StoreInv' /\ PollInv'
  BY <1>1, StoreStays, PollStays DEF Refresh, MoveInv
<1>4. CallsInv'
  BY <1>1, EndsKeeps DEF Refresh, MoveInv
<1> QED
  BY <1>1, <1>2, <1>3, <1>4 DEF MoveInv

LEMMA CallFailedKeeps ==
  ASSUME MoveInv, NEW s \in Starts, CallFailed(s)
  PROVE  MoveInv' /\ LinksStay
<1>1. IInv' /\ UNCHANGED attempt /\ LinksStay
  BY QuietInv DEF CallFailed, MoveInv
<1>2. ViewInv'
  <2>1. RunFits(Run(s, "failure", FALSE)) /\ "failure" \in Phases \ {"success"}
    BY DEF RunFits, Run, ShownRuns, Phases, TerminalPhases, Starts
  <2>2. Show(NoRun) \/ Show(Run(s, "failure", FALSE)) \/ ShowPhase("failure")
    BY DEF CallFailed
  <2>3. UNCHANGED open /\ open \in BOOLEAN
    BY DEF CallFailed, MoveInv, ViewInv
  <2> QED
    BY <1>1, <2>1, <2>2, <2>3, NoRunFits, ShownKeeps, ShowPhaseKeeps DEF MoveInv
<1>3. StoreInv'
  <2>1. PICK ref \in Jobs \cup {Pending, NoJob} : Release(ref)
    BY DEF CallFailed, Starts
  <2> QED
    BY <1>1, <2>1, ReleaseKeeps DEF CallFailed, MoveInv
<1>4. PollInv'
  BY <1>1, PollStays DEF CallFailed, MoveInv
<1>5. CallsInv'
  <2>1. call' = call
    BY DEF CallFailed, AfterFailure, MoveInv, CallsInv
  <2>2. step' = [step EXCEPT ![s] = "stopped"] /\ step[s] \in Calling /\ UNCHANGED active
    BY DEF CallFailed, AfterFailure, Calling
  <2> QED
    BY <1>1, <2>1, <2>2, EndsKeeps DEF MoveInv
<1> QED
  BY <1>1, <1>2, <1>3, <1>4, <1>5 DEF MoveInv

-----------------------------------------------------------------------------
\* The server.

\* An answer of the provider with a link is final.
LEMMA LinkedStays ==
  ASSUME \A a \in Attempts : attempt[a].state = "linked" =>
           attempt'[a].state = "linked" /\ attempt'[a].job = attempt[a].job
  PROVE  LinksStay
BY DEF LinksStay, Linked, SubmissionsOf

\* The server handles a call that sends nothing to the provider.
LEMMA AnsweredQuietly ==
  ASSUME MoveInv, NEW s \in Starts, call[s] \in Calling,
         call' = [call EXCEPT ![s] = "answered"], UNCHANGED <<step, active, attempt>>
  PROVE  CallsInv'
<1>1. /\ call' \in [Starts -> {"none", "answered"} \cup Calling]
      /\ call'[s] = "answered" /\ \A x \in Starts \ {s} : call'[x] = call[x]
  BY DEF MoveInv, CallsInv
<1>2. StartFits(s)'
  BY <1>1, QuietService DEF MoveInv, CallsInv, StartFits, Calling
<1> QED
  BY <1>1, <1>2, StartMovesOn DEF MoveInv, CallsInv

\* finalize sends the files of a start once, for its call is answered then.
LEMMA ServedFinalize ==
  ASSUME MoveInv, NEW s \in Starts, call[s] = "finalize", Finalize(Customer, s),
         call' = [call EXCEPT ![s] = "answered"], UNCHANGED <<step, active>>
  PROVE  /\ IInv' /\ LinksStay /\ CallsInv'
         /\ SubmissionsOf(s) = {}
         /\ \E a \in Attempts : /\ SubmissionsOf(s)' = {a} /\ attempt'[a].state = "inflight"
                                /\ \A x \in Starts \ {s} : SubmissionsOf(x)' = SubmissionsOf(x)
                                /\ \A b \in Attempts \ {a} : attempt'[b] = attempt[b]
<1>1. s \in Jobs /\ Customer \in Users
  BY NoFacts DEF Starts
<1>2. IInv'
  BY <1>1, FinalizeInvariant DEF MoveInv
<1>3. Decryptable(s)
  BY <1>1 DEF Finalize, MoveInv, IInv, CredentialAlwaysUnlocks
<1>4. PICK a \in Attempts :
        /\ attempt[a].state = "idle"
        /\ attempt' = [attempt EXCEPT ![a] =
             [state |-> "inflight", job |-> s, body |-> files[s]]]
  BY <1>3 DEF Finalize
<1>5. /\ attempt'[a].state = "inflight" /\ attempt'[a].job = s
      /\ \A b \in Attempts \ {a} : attempt'[b] = attempt[b]
  BY <1>4 DEF MoveInv, IInv, TypeOK
<1>6. attempt[a].job = NoJob /\ NoJob \notin Jobs
  BY <1>4, NoFacts DEF MoveInv, IInv, AttemptsNameJobs
<1>7. LinksStay
  BY <1>4, <1>5, LinkedStays
<1>8. SubmissionsOf(s) = {}
  BY DEF MoveInv, CallsInv, StartFits
<1>9. /\ SubmissionsOf(s)' = {a}
      /\ \A x \in Starts \ {s} : SubmissionsOf(x)' = SubmissionsOf(x)
  BY <1>5, <1>6, <1>8 DEF SubmissionsOf, Starts
<1>10. /\ call' \in [Starts -> {"none", "answered"} \cup Calling]
       /\ call'[s] = "answered" /\ \A x \in Starts \ {s} : call'[x] = call[x]
  BY DEF MoveInv, CallsInv
<1>11. StartFits(s)'
  BY <1>10 DEF MoveInv, CallsInv, StartFits, Calling
<1>12. \A x \in Starts \ {s} : StartFits(x)'
  BY <1>9, <1>10 DEF MoveInv, CallsInv, StartFits
<1>13. ASSUME NEW b \in Attempts, NEW c \in Attempts,
              attempt'[b].job = attempt'[c].job, attempt'[b].job \in Jobs
       PROVE  b = c
  <2>1. \A d \in Attempts : attempt[d].job # s
    BY <1>8 DEF SubmissionsOf
  <2> QED
    BY <1>5, <1>13, <2>1 DEF MoveInv, CallsInv
<1>14. CallsInv'
  BY <1>10, <1>11, <1>12, <1>13 DEF MoveInv, CallsInv
<1> QED
  BY <1>2, <1>5, <1>7, <1>8, <1>9, <1>14

LEMMA ServeKeeps ==
  ASSUME MoveInv, NEW s \in Starts, Serve(s)
  PROVE  MoveInv' /\ LinksStay
<1>1. s \in Jobs /\ s \in Keys /\ Customer \in Users
  BY NoFacts DEF Starts
<1>2. IInv' /\ LinksStay /\ CallsInv'
  <2>1. CASE CreatePairJob(s) \/ AttachMossCredential(s) \/ UploadPairFiles(s)
    <3>1. UNCHANGED attempt
      BY <2>1 DEF CreatePairJob, AttachMossCredential, UploadPairFiles, CreateJob,
                  AttachCredential, UploadFiles
    <3>2. IInv'
      BY <1>1, <2>1, CreateJobInvariant, AttachCredentialInvariant, UploadFilesInvariant
      DEF CreatePairJob, AttachMossCredential, UploadPairFiles, MoveInv
    <3>3. call[s] \in Calling
      BY <2>1 DEF CreatePairJob, AttachMossCredential, UploadPairFiles, Calling
    <3> QED
      BY <3>1, <3>2, <3>3, QuietService, AnsweredQuietly DEF Serve
  <2>2. CASE FinalizeJob(s)
    BY <2>2, ServedFinalize DEF FinalizeJob, Serve
  <2> QED
    BY <2>1, <2>2 DEF Serve
<1>3. ViewInv' /\ StoreInv' /\ PollInv'
  BY <1>2, ViewStays, StoreStays, PollStays DEF Serve, MoveInv
<1> QED
  BY <1>2, <1>3 DEF MoveInv

\* A submission settles, or the process restarts: no submission changes its job.
LEMMA ServiceMovesFacts ==
  ASSUME IInv, (\E a \in Attempts, o \in Outcomes : Settle(a, o)) \/ Restart
  PROVE  /\ IInv' /\ LinksStay
         /\ \A a \in Attempts : attempt'[a].job = attempt[a].job
         /\ \A j : SubmissionsOf(j)' = SubmissionsOf(j)
<1>1. IInv'
  BY SettleInvariant, RestartInvariant
<1>2. \A a \in Attempts : /\ attempt'[a].job = attempt[a].job
                          /\ attempt[a].state = "linked" => attempt'[a].state = "linked"
  <2>1. ASSUME NEW a \in Attempts, NEW o \in Outcomes, Settle(a, o)
        PROVE  \A b \in Attempts : /\ attempt'[b].job = attempt[b].job
                                   /\ attempt[b].state = "linked" => attempt'[b].state = "linked"
    <3>1. PICK end : attempt' = [attempt EXCEPT ![a].state = end]
      BY <2>1 DEF Settle
    <3>2. attempt[a].state = "inflight" /\ attempt[a] \in AttemptRecord
      BY <2>1 DEF Settle, IInv, TypeOK
    <3>3. attempt'[a].job = attempt[a].job /\ \A b \in Attempts \ {a} : attempt'[b] = attempt[b]
      BY <3>1, <3>2 DEF AttemptRecord, IInv, TypeOK
    <3> QED
      BY <3>2, <3>3
  <2>2. ASSUME Restart
        PROVE  \A b \in Attempts : /\ attempt'[b].job = attempt[b].job
                                   /\ attempt[b].state = "linked" => attempt'[b].state = "linked"
    BY <2>2 DEF Restart, IInv, TypeOK, AttemptRecord
  <2> QED
    BY <2>1, <2>2
<1> QED
  BY <1>1, <1>2, LinkedStays DEF SubmissionsOf

LEMMA ServiceMovesKeep ==
  ASSUME MoveInv, ServiceMoves
  PROVE  MoveInv' /\ LinksStay
<1>1. /\ IInv' /\ LinksStay
      /\ \A a \in Attempts : attempt'[a].job = attempt[a].job
      /\ \A j : SubmissionsOf(j)' = SubmissionsOf(j)
  BY ServiceMovesFacts DEF ServiceMoves, MoveInv
<1>2. ViewInv' /\ StoreInv' /\ PollInv'
  BY <1>1, ViewStays, StoreStays, PollStays DEF ServiceMoves, MoveInv
<1>3. CallsInv'
  BY <1>1 DEF ServiceMoves, MoveInv, CallsInv, StartFits
<1> QED
  BY <1>1, <1>2, <1>3 DEF MoveInv

-----------------------------------------------------------------------------
\* What runs beside a start.

LEMMA FinishEffectKeeps ==
  ASSUME MoveInv, FinishEffect
  PROVE  MoveInv' /\ LinksStay
<1>1. IInv' /\ UNCHANGED attempt /\ LinksStay
  BY QuietInv DEF FinishEffect, MoveInv
<1>2. PICK r : r = Head(effects)
  OBVIOUS
<1>3. /\ effects \in Seq(ShownRuns) /\ effects # <<>> /\ effects' = Tail(effects)
      /\ \A i \in 1..Len(effects) : RunFits(effects[i])
      /\ MaxEffects \in Nat /\ Len(effects) <= MaxEffects
  BY RunAssumption DEF FinishEffect, MoveInv, ViewInv
<1>4. r \in ShownRuns /\ RunFits(r)
  BY <1>2, <1>3
<1>5. ViewInv'
  <2>1. /\ effects' \in Seq(ShownRuns) /\ Len(effects') = Len(effects) - 1
        /\ Len(effects) \in Nat
        /\ \A i \in 1..Len(effects') : effects'[i] = effects[i + 1]
    BY <1>3
  <2>2. \A x : RunFits(x) => RunFits(x)'
    BY <1>1 DEF RunFits, LinksStay
  <2>3. \A i \in 1..Len(effects') : RunFits(effects'[i])
    BY <1>3, <2>1
  <2>4. Len(effects') <= MaxEffects
    BY <1>3, <2>1
  <2> QED
    BY <2>1, <2>2, <2>3, <2>4 DEF FinishEffect, MoveInv, ViewInv, Live
<1>6. ActiveFits(active)' /\ (active' = NoActive => active = NoActive)
  <2>1. CASE active.job = r.ref
    <3>1. active \in [job : Jobs, status : StoredStatus] /\ r.ref \in Jobs
      BY <1>4, <2>1, NoFacts DEF MoveInv, StoreInv, ActiveFits, ShownRuns
    <3>2. /\ JobStatusForRun(r) \in StoredStatus
          /\ JobStatusForRun(r) = "succeeded" => r.phase = "success"
      <4>1. r.phase \in Phases /\ PhaseJobStatus["failure"] = "failed" /\ "failure" \in Phases
        BY <1>4 DEF ShownRuns, PhaseJobStatus, Phases, TerminalPhases
      <4>2. CASE r.phase = "timeout" /\ ~r.submitted
        BY <4>1, <4>2 DEF JobStatusForRun, StoredStatus
      <4>3. CASE ~(r.phase = "timeout" /\ ~r.submitted)
        BY <4>1, <4>3, PhaseFacts DEF JobStatusForRun, StoredStatus
      <4> QED
        BY <4>2, <4>3
    <3>3. active' = [active EXCEPT !.status = JobStatusForRun(r)]
      BY <1>2, <2>1 DEF FinishEffect
    <3>4. /\ active' \in [job : Jobs, status : StoredStatus]
          /\ active'.job = r.ref /\ active'.status = JobStatusForRun(r)
      BY <2>1, <3>1, <3>2, <3>3
    <3>5. active' # NoActive
      BY <3>1, <3>4, NoFacts
    <3>6. active'.status = "succeeded" => Linked(active'.job)
      BY <1>4, <3>2, <3>4 DEF RunFits
    <3>7. ActiveFits(active')
      BY <3>4, <3>6 DEF ActiveFits
    <3> QED
      BY <1>1, <3>5, <3>7 DEF ActiveFits, LinksStay
  <2>2. CASE active.job # r.ref
    <3>1. active' = active
      BY <1>2, <2>2 DEF FinishEffect
    <3> QED
      BY <1>1, <3>1 DEF MoveInv, StoreInv, ActiveFits, LinksStay
  <2> QED
    BY <2>1, <2>2
<1>7. remaining' \in 0..Total /\ released' \subseteq Starts \cup {Pending}
  <2>1. CASE ShouldReleaseRunCredit(r)
    <3>1. Release(r.ref)
      BY <1>2, <2>1 DEF FinishEffect
    <3>2. Total \in Nat /\ remaining \in 0..Total
      BY RunAssumption DEF MoveInv, StoreInv
    <3>3. r.ref \in Starts \cup {Pending}
      BY <1>4 DEF ShownRuns, Starts
    <3> QED
      BY <3>1, <3>2, <3>3 DEF Release, MoveInv, StoreInv
  <2>2. CASE ~ShouldReleaseRunCredit(r)
    BY <1>2, <2>2 DEF FinishEffect, MoveInv, StoreInv
  <2> QED
    BY <2>1, <2>2
<1>8. PollInv'
  BY <1>1, PollStays DEF FinishEffect, MoveInv
<1>9. CallsInv'
  BY <1>1, <1>6, CallsStay DEF FinishEffect, MoveInv
<1> QED
  BY <1>1, <1>5, <1>6, <1>7, <1>8, <1>9 DEF MoveInv, StoreInv

LEMMA TimerKeeps ==
  ASSUME MoveInv, NEW t \in {"tick", "deadline"}, TimerFires(t)
  PROVE  MoveInv' /\ LinksStay
<1>1. IInv' /\ UNCHANGED attempt /\ LinksStay
  BY QuietInv DEF TimerFires, MoveInv
<1>2. ViewInv'
  <2>1. CASE ShowPhase("timeout")
    BY <1>1, <2>1, ShowPhaseKeeps DEF TimerFires, Phases, TerminalPhases
  <2>2. CASE timers' = timers \ {t} /\ UNCHANGED <<run, effects>>
    BY <1>1, <2>2 DEF TimerFires, MoveInv, ViewInv, RunFits, LinksStay, Live
  <2> QED
    BY <2>1, <2>2 DEF TimerFires
<1>3. PollInv'
  <2>1. CASE UNCHANGED poll
    BY <1>1, <2>1, PollStays DEF TimerFires, MoveInv
  <2>2. CASE poll' = Asking(run.ref)
    BY <1>1, <2>2 DEF TimerFires, MoveInv, PollInv, Asking, LinksStay
  <2> QED
    BY <2>1, <2>2 DEF TimerFires
<1>4. StoreInv' /\ CallsInv'
  BY <1>1, StoreStays, CallsStay DEF TimerFires, MoveInv
<1> QED
  BY <1>1, <1>2, <1>3, <1>4 DEF MoveInv

LEMMA PollReadKeeps ==
  ASSUME MoveInv, PollRead
  PROVE  MoveInv' /\ LinksStay
<1>1. IInv' /\ UNCHANGED attempt /\ LinksStay
  BY QuietInv DEF PollRead, MoveInv
<1>2. ViewInv' /\ StoreInv' /\ CallsInv'
  BY <1>1, ViewStays, StoreStays, CallsStay DEF PollRead, MoveInv
<1>3. PollInv'
  <2>1. PICK j \in Jobs : j = poll.job
    BY DEF PollRead
  <2>2. /\ status[j] \in Status \ {"none", "gone"} /\ submitted[j] \in BOOLEAN
        /\ status[j] = "succeeded" => Linked(j)
    BY <2>1 DEF PollRead, Owns, HasRow, MoveInv, IInv, TypeOK, SuccessIsBacked, Linked
  <2>3. poll'.job = j /\ poll'.status = status[j] /\ poll'.submitted = submitted[j]
    BY <2>1 DEF PollRead, GetJobStatus
  <2>4. status[j] # "revealing"
    BY <2>2 DEF Status, Settled
  <2>5. poll'.status \in {"succeeded", "revealing"} => Linked(poll'.job)
    BY <2>2, <2>3, <2>4
  <2>6. report' = report
    BY DEF PollRead
  <2> QED
    BY <1>1, <2>2, <2>3, <2>5, <2>6 DEF MoveInv, PollInv, LinksStay
<1> QED
  BY <1>1, <1>2, <1>3 DEF MoveInv

LEMMA PollFailedKeeps ==
  ASSUME MoveInv, PollFailed
  PROVE  MoveInv' /\ LinksStay
<1>1. IInv' /\ UNCHANGED attempt /\ LinksStay
  BY QuietInv DEF PollFailed, MoveInv
<1>2. ViewInv' /\ StoreInv' /\ CallsInv'
  BY <1>1, ViewStays, StoreStays, CallsStay DEF PollFailed, MoveInv
<1>3. PollInv'
  BY <1>1, NoFacts DEF PollFailed, MoveInv, PollInv, LinksStay
<1> QED
  BY <1>1, <1>2, <1>3 DEF MoveInv

\* What a poll is answered with is a phase; success is what is linked.
LEMMA PollApplyKeeps ==
  ASSUME MoveInv, PollApply
  PROVE  MoveInv' /\ LinksStay
<1>1. IInv' /\ UNCHANGED attempt /\ LinksStay
  BY QuietInv DEF PollApply, MoveInv
<1>2. PICK p : p = PhaseFromJobStatus(poll.status)
  OBVIOUS
<1>3. /\ p \in Phases /\ (p = "success" => poll.status = "succeeded")
      /\ poll.submitted \in BOOLEAN
  <2>1. poll.status \in Status \ {"none", "gone"}
    BY NoFacts DEF PollApply, MoveInv, PollInv
  <2>2. p \in Phases /\ (p = "success" => poll.status = "succeeded")
    BY <1>2, <2>1 DEF PhaseFromJobStatus, Phases, TerminalPhases, Status, Settled
  <2> QED
    BY <2>2 DEF MoveInv, PollInv
<1>4. p = "success" => Linked(poll.job)
  BY <1>3 DEF MoveInv, PollInv
<1>5. ViewInv'
  <2>1. CASE UNCHANGED <<run, effects, timers>>
    BY <1>1, <2>1, ViewStays DEF PollApply, MoveInv
  <2>2. CASE run.ref = poll.job /\ Running
    <3> DEFINE r == [run EXCEPT !.phase = p, !.submitted =
                       @ \/ poll.submitted \/ p \in {"wait", "success"}]
    <3>1. run # NoRun
      BY <2>2, NoFacts DEF Running, Live
    <3>2. run \in ShownRuns
      BY <3>1 DEF MoveInv, ViewInv, RunFits
    <3>3. r \in ShownRuns /\ r.phase = p /\ r.ref = run.ref
      BY <1>3, <3>2 DEF ShownRuns
    <3>4. Show(r) /\ UNCHANGED open
      BY <1>2, <2>2 DEF PollApply
    <3> HIDE DEF r
    <3>5. RunFits(r)
      BY <1>4, <2>2, <3>3 DEF RunFits
    <3> QED
      BY <1>1, <3>4, <3>5, ShownKeeps DEF MoveInv, ViewInv
  <2> QED
    BY <2>1, <2>2 DEF PollApply
<1>6. PollInv'
  <2>1. poll' = IF p = "success" THEN Revealing(poll.job) ELSE NoPoll
    BY <1>2 DEF PollApply
  <2>2. report' = report
    BY DEF PollApply
  <2>3. CASE p = "success"
    <3>1. poll'.status = "revealing" /\ poll'.job = poll.job /\ poll'.submitted = FALSE
      BY <2>1, <2>3 DEF Revealing
    <3> QED
      BY <1>1, <1>4, <2>2, <2>3, <3>1 DEF MoveInv, PollInv, LinksStay
  <2>4. CASE p # "success"
    BY <1>1, <2>1, <2>2, <2>4, NoFacts DEF MoveInv, PollInv, LinksStay
  <2> QED
    BY <2>3, <2>4
<1>7. StoreInv' /\ CallsInv'
  BY <1>1, StoreStays, CallsStay DEF PollApply, MoveInv
<1> QED
  BY <1>1, <1>5, <1>6, <1>7 DEF MoveInv

LEMMA RevealKeeps ==
  ASSUME MoveInv, RevealResult
  PROVE  MoveInv' /\ LinksStay
<1>1. IInv' /\ UNCHANGED attempt /\ LinksStay
  BY QuietInv DEF RevealResult, MoveInv
<1>2. ViewInv' /\ StoreInv' /\ CallsInv'
  BY <1>1, ViewStays, StoreStays, CallsStay DEF RevealResult, MoveInv
<1>3. Linked(poll.job) /\ report' = poll.job /\ poll' = NoPoll
  BY DEF RevealResult, MoveInv, PollInv
<1>4. PollInv'
  BY <1>1, <1>3, NoFacts DEF PollInv, LinksStay
<1> QED
  BY <1>1, <1>2, <1>4 DEF MoveInv

LEMMA ForgetLinkKeeps ==
  ASSUME MoveInv, ForgetReportLink
  PROVE  MoveInv' /\ LinksStay
<1>1. IInv' /\ UNCHANGED attempt
  <2>1. CASE UNCHANGED serviceVars
    BY <2>1, QuietInv DEF MoveInv
  <2>2. CASE run.ref \in Jobs /\ ForgetResult(Customer, run.ref)
    <3>1. IInv'
      BY <2>2, NoFacts, ForgetResultInvariant DEF MoveInv
    <3> QED
      BY <2>2, <3>1 DEF ForgetResult
  <2> QED
    BY <2>1, <2>2 DEF ForgetReportLink
<1>2. LinksStay
  BY <1>1, QuietService
<1>3. ViewInv' /\ StoreInv' /\ CallsInv'
  BY <1>1, <1>2, ViewStays, StoreStays, CallsStay DEF ForgetReportLink, MoveInv
<1>4. PollInv'
  BY <1>2 DEF ForgetReportLink, MoveInv, PollInv, LinksStay
<1> QED
  BY <1>1, <1>2, <1>3, <1>4 DEF MoveInv

LEMMA CancelKeeps ==
  ASSUME MoveInv, Cancel
  PROVE  MoveInv' /\ LinksStay
<1>1. IInv' /\ UNCHANGED attempt /\ LinksStay
  BY QuietInv DEF Cancel, MoveInv
<1>2. PICK p \in {"cancelled", "timeout"} : ShowPhase(p)
  BY DEF Cancel
<1>3. ViewInv'
  BY <1>1, <1>2, ShowPhaseKeeps DEF Cancel, Phases, TerminalPhases
<1>4. StoreInv' /\ PollInv' /\ CallsInv'
  BY <1>1, StoreStays, PollStays, CallsStay DEF Cancel, MoveInv
<1> QED
  BY <1>1, <1>3, <1>4 DEF MoveInv

LEMMA StartOverKeeps ==
  ASSUME MoveInv, StartOver
  PROVE  MoveInv' /\ LinksStay
<1>1. IInv' /\ UNCHANGED attempt /\ LinksStay
  BY QuietInv DEF StartOver, MoveInv
<1>2. ActiveFits(active') /\ (active' = NoActive => active = NoActive)
  <2>1. CASE active' = active
    BY <2>1 DEF MoveInv, StoreInv
  <2>2. CASE Running /\ active.job = run.ref /\ active' = [active EXCEPT !.status = "cancelled"]
    <3>1. run # NoRun
      BY <2>2, NoFacts DEF Running, Live
    <3>2. active \in [job : Jobs, status : StoredStatus]
      BY <2>2, <3>1, NoFacts DEF MoveInv, ViewInv, RunFits, ShownRuns, StoreInv, ActiveFits
    <3>3. "cancelled" \in StoredStatus
      <4>1. "cancelled" \in Phases /\ PhaseJobStatus["cancelled"] = "cancelled"
        BY DEF Phases, TerminalPhases, PhaseJobStatus
      <4> QED
        BY <4>1 DEF StoredStatus
    <3>4. /\ active' \in [job : Jobs, status : StoredStatus]
          /\ active'.status = "cancelled" /\ active'.job \in Jobs
      BY <2>2, <3>2, <3>3
    <3> QED
      BY <3>4, NoFacts DEF ActiveFits
  <2> QED
    BY <2>1, <2>2 DEF StartOver
<1>3. StoreInv'
  BY <1>1, <1>2 DEF StartOver, MoveInv, StoreInv, ActiveFits, LinksStay
<1>4. ViewInv'
  <2>1. PICK r : ShowAnew(r) /\ (r = NoRun \/ (active' # NoActive /\ r \in Recovered(active')))
    BY DEF StartOver
  <2>2. RunFits(r)
    BY <1>2, <2>1, NoRunFits, RecoveredFits
  <2> QED
    BY <1>1, <2>1, <2>2, ShownKeeps DEF StartOver, MoveInv, ViewInv
<1>5. PollInv'
  BY <1>1 DEF StartOver, MoveInv, PollInv, LinksStay
<1>6. CallsInv'
  BY <1>1, <1>2, CallsStay DEF StartOver, MoveInv
<1> QED
  BY <1>1, <1>3, <1>4, <1>5, <1>6 DEF MoveInv

LEMMA CloseKeeps ==
  ASSUME MoveInv, CloseWindow
  PROVE  MoveInv' /\ LinksStay
<1>1. IInv' /\ UNCHANGED attempt /\ LinksStay
  BY QuietInv DEF CloseWindow, MoveInv
<1>2. RunFits(run)'
  BY NoFacts DEF CloseWindow, RunFits
<1>3. /\ MaxEffects \in Nat /\ effects' \in Seq(ShownRuns)
      /\ Len(effects') = 0 /\ timers' = {} /\ open' \in BOOLEAN
  <2>1. <<>> \in Seq(ShownRuns) /\ Len(<<>>) = 0
    BY EmptySeq
  <2>2. effects' = <<>> /\ timers' = {} /\ open' = FALSE
    BY DEF CloseWindow
  <2> QED
    BY <2>1, <2>2, RunAssumption
<1>4. ViewInv'
  <2>1. \A i \in 1..Len(effects') : FALSE
    BY <1>3
  <2> QED
    BY <1>2, <1>3, <2>1 DEF ViewInv
<1>5. StoreInv'
  BY <1>1, StoreStays DEF CloseWindow, MoveInv
<1>6. PollInv'
  BY NoFacts DEF CloseWindow, PollInv
<1>7. CallsInv'
  <2>1. /\ step' \in [Starts -> {"idle", "clicked", "refresh", "stopped"} \cup Calling]
        /\ \A s \in Starts : step'[s] = IF step[s] = "idle" THEN "idle" ELSE "stopped"
    BY DEF CloseWindow, MoveInv, CallsInv
  <2>2. \A s \in Starts : StartFits(s)'
    BY <1>1, <2>1, QuietService DEF CloseWindow, MoveInv, CallsInv, StartFits, Calling
  <2> QED
    BY <1>1, <2>1, <2>2 DEF CloseWindow, MoveInv, CallsInv
<1> QED
  BY <1>1, <1>4, <1>5, <1>6, <1>7 DEF MoveInv

LEMMA OpenKeeps ==
  ASSUME MoveInv, OpenWindow
  PROVE  MoveInv' /\ LinksStay
<1>1. IInv' /\ UNCHANGED attempt /\ LinksStay
  BY QuietInv DEF OpenWindow, MoveInv
<1>2. ViewInv'
  BY <1>1, RecoveredKeeps DEF OpenWindow
<1>3. StoreInv' /\ PollInv' /\ CallsInv'
  BY <1>1, StoreStays, PollStays, CallsStay DEF OpenWindow, MoveInv
<1> QED
  BY <1>1, <1>2, <1>3 DEF MoveInv

-----------------------------------------------------------------------------
\* Every step, with the effect that writes past results.

LEMMA RunMovesKeep ==
  ASSUME MoveInv, RunMoves
  PROVE  MoveInv' /\ LinksStay
<1>1. CASE \E s \in Starts : StartMoves(s)
  BY <1>1, ClickStartKeeps, ProbeFailsKeeps, ConsumeKeeps, ServeKeeps, CreatedKeeps,
     BindRefusedKeeps, AttachedKeeps, UploadedKeeps, FinalizedKeeps, RefreshKeeps,
     CallFailedKeeps DEF StartMoves
<1>2. CASE FinishEffect \/ \E t \in {"tick", "deadline"} : TimerFires(t)
  BY <1>2, FinishEffectKeeps, TimerKeeps
<1>3. CASE PollRead \/ PollFailed \/ PollApply \/ RevealResult
  BY <1>3, PollReadKeeps, PollFailedKeeps, PollApplyKeeps, RevealKeeps
<1>4. CASE Cancel \/ StartOver \/ ForgetReportLink \/ CloseWindow \/ OpenWindow
  BY <1>4, CancelKeeps, StartOverKeeps, ForgetLinkKeeps, CloseKeeps, OpenKeeps
<1>5. CASE ServiceMoves
  BY <1>5, ServiceMovesKeep
<1> QED
  BY <1>1, <1>2, <1>3, <1>4, <1>5 DEF RunMoves

\* A past result is written for a run that says success, with a link that is shown:
\* both are linked.
LEMMA RememberKeeps ==
  ASSUME HistoryInv, MoveInv', LinksStay, Remember
  PROVE  HistoryInv'
<1> DEFINE due == run'.phase = "success" /\ report' # NoJob /\ run'.ref \notin remembered
<1>1. PICK L : L = {j \in Jobs : \E a \in Attempts :
                      attempt'[a].job = j /\ attempt'[a].state = "linked"}
  OBVIOUS
<1>2. \A j : Linked(j)' <=> j \in L
  BY <1>1 DEF Linked, SubmissionsOf, MoveInv, IInv, AttemptsNameJobs
<1>3. due => run'.ref \in L /\ report' \in L
  <2>1. due => Linked(run.ref)' /\ Linked(report)'
    BY DEF MoveInv, ViewInv, RunFits, PollInv
  <2> QED
    BY <1>2, <2>1 DEF Linked
<1>4. ASSUME NEW s \in Starts, history[s] # NoJob
      PROVE  s \in L /\ history[s] \in L
  <2>1. Linked(s) /\ Linked(history[s])
    BY <1>4 DEF HistoryInv, HistoryIsEarned, Linked
  <2> QED
    BY <1>2, <2>1 DEF LinksStay
<1>5. L \subseteq Starts
  BY <1>1 DEF Starts
<1>6. /\ remembered' = IF ~open' THEN {}
                       ELSE IF due THEN remembered \cup {run'.ref} ELSE remembered
      /\ history' = IF due THEN [history EXCEPT ![run'.ref] = report'] ELSE history
  BY DEF Remember, Kept
<1> HIDE DEF due
<1>7. /\ history' \in [Starts -> Starts \cup {NoJob}]
      /\ \A s \in Starts : history'[s] # NoJob => s \in L /\ history'[s] \in L
  <2>1. CASE due
    <3>1. /\ history'[run'.ref] = report'
          /\ \A s \in Starts \ {run'.ref} : history'[s] = history[s]
          /\ history' \in [Starts -> Starts \cup {NoJob}]
      BY <1>3, <1>5, <1>6, <2>1 DEF HistoryInv
    <3> QED
      BY <1>3, <1>4, <2>1, <3>1
  <2>2. CASE ~due
    BY <1>4, <1>6, <2>2 DEF HistoryInv
  <2> QED
    BY <2>1, <2>2
<1>8. remembered' \subseteq Starts
  BY <1>3, <1>5, <1>6 DEF HistoryInv
<1>9. HistoryIsEarned'
  <2>1. ASSUME NEW s \in Starts, history'[s] # NoJob
        PROVE  \A j \in {s, history'[s]} : Linked(j)'
    BY <1>2, <1>7, <2>1
  <2> QED
    BY <2>1 DEF HistoryIsEarned, Linked
<1> QED
  BY <1>7, <1>8, <1>9 DEF HistoryInv

LEMMA ForgetHistoryKeeps ==
  ASSUME RunInv, ForgetHistory
  PROVE  RunInv'
<1>1. IInv' /\ UNCHANGED attempt /\ LinksStay
  BY QuietInv DEF ForgetHistory, RunInv, MoveInv
<1>2. ViewInv' /\ StoreInv' /\ PollInv' /\ CallsInv'
  BY <1>1, ViewStays, StoreStays, PollStays, CallsStay DEF ForgetHistory, RunInv, MoveInv
<1>3. /\ history' \in [Starts -> Starts \cup {NoJob}] /\ remembered' = remembered
      /\ \A s \in Starts : history'[s] # NoJob => history'[s] = history[s]
  BY DEF ForgetHistory, RunInv, HistoryInv
<1>4. HistoryIsEarned'
  BY <1>1, <1>3, QuietService DEF HistoryIsEarned, RunInv, HistoryInv
<1> QED
  BY <1>1, <1>2, <1>3, <1>4 DEF RunInv, MoveInv, HistoryInv

LEMMA NextKeeps == RunInv /\ [Next]_vars => RunInv'
<1> SUFFICES ASSUME RunInv, [Next]_vars PROVE RunInv'
  OBVIOUS
<1>1. CASE RunMoves /\ Remember /\ ShowsOver
  BY <1>1, RunMovesKeep, RememberKeeps DEF RunInv
<1>2. CASE ForgetHistory
  BY <1>2, ForgetHistoryKeeps
<1>3. CASE UNCHANGED vars
  <2>1. UNCHANGED serviceVars /\ UNCHANGED clientVars
    BY <1>3 DEF vars
  <2>2. UNCHANGED <<open, run, step, call, active, effects, timers, poll, remaining,
                    released, report, history, remembered>>
    BY <2>1 DEF clientVars, linkVars
  <2>3. IInv' /\ UNCHANGED attempt /\ LinksStay
    BY <2>1, QuietInv DEF RunInv, MoveInv
  <2>4. MoveInv'
    BY <2>2, <2>3, ViewStays, StoreStays, PollStays, CallsStay DEF RunInv, MoveInv
  <2>5. HistoryInv'
    BY <2>2, <2>3, QuietService DEF RunInv, HistoryInv, HistoryIsEarned
  <2> QED
    BY <2>4, <2>5 DEF RunInv
<1> QED
  BY <1>1, <1>2, <1>3 DEF Next

LEMMA InitRunInv == Init => RunInv
<1> SUFFICES ASSUME Init PROVE RunInv
  OBVIOUS
<1>1. IInv
  BY InitInvariant DEF Init
<1>2. \A a \in Attempts : attempt[a].job = NoJob
  BY DEF Init, ServiceInit, NoAttempt
<1>3. \A s \in Starts : SubmissionsOf(s) = {}
  BY <1>2, NoFacts DEF SubmissionsOf, Starts
<1>4. ViewInv
  <2>1. effects \in Seq(ShownRuns) /\ Len(effects) = 0 /\ MaxEffects \in Nat
    BY RunAssumption DEF Init, ClientInit
  <2>2. \A i \in 1..Len(effects) : FALSE
    BY <2>1
  <2> QED
    BY <2>1, <2>2, NoRunFits DEF Init, ClientInit, ViewInv
<1>5. StoreInv
  BY NoFacts, RunAssumption DEF Init, ClientInit, StoreInv, ActiveFits
<1>6. PollInv
  BY NoFacts DEF Init, ClientInit, PollInv
<1>7. CallsInv
  BY <1>2, <1>3, NoFacts DEF Init, ClientInit, CallsInv, StartFits, Calling
<1>8. HistoryInv
  BY DEF Init, ClientInit, HistoryInv, HistoryIsEarned
<1> QED
  BY <1>1, <1>4, <1>5, <1>6, <1>7, <1>8 DEF RunInv, MoveInv

-----------------------------------------------------------------------------
\* The results.

\* The inductive invariant holds in every state of the run window and the service it
\* talks to.
THEOREM RunInvariant == Spec => []RunInv
<1> QED
  BY InitRunInv, NextKeeps, PTL DEF Spec

LEMMA RunTypes == RunInv /\ shownOver \subseteq Starts => ClientTypeOK
<1> SUFFICES ASSUME RunInv, shownOver \subseteq Starts PROVE ClientTypeOK
  OBVIOUS
<1>1. ShownRuns \subseteq RunRecord /\ NoRun \in RunRecord
  BY DEF ShownRuns, RunRecord, NoRun, Run
<1>2. run \in RunRecord
  BY <1>1 DEF RunInv, MoveInv, ViewInv, RunFits
<1>3. effects \in Seq(RunRecord) /\ Len(effects) <= MaxEffects
  BY <1>1 DEF RunInv, MoveInv, ViewInv
<1>4. active \in [job : Starts \cup {NoJob},
                  status : {PhaseJobStatus[p] : p \in Phases} \cup {"none"}]
  BY DEF RunInv, MoveInv, StoreInv, ActiveFits, NoActive, StoredStatus, Starts
<1>5. report \in Starts \cup {NoJob}
  BY LinkedIsJob DEF RunInv, MoveInv, PollInv, Starts
<1> QED
  BY <1>2, <1>3, <1>4, <1>5
  DEF ClientTypeOK, RunInv, MoveInv, ViewInv, StoreInv, CallsInv, HistoryInv, Calling, Running

-----------------------------------------------------------------------------
\* What windows have shown as over, and the job that is bound.

\* The start got beyond create, its request did, or its files were sent.
Reached(s) ==
  \/ step[s] \in Calling \ {"create"}
  \/ call[s] \in Calling \ {"create"}
  \/ SubmissionsOf(s) # {}

IsNoted(r) == r.phase \in TerminalPhases /\ r.ref \in Starts => r.ref \in shownOver

\* Inductive relative to RunInv: what is over was shown as over, on its way to the store
\* and in it; and a start that is not is bound as soon as its job can be submitted.
NotedInv ==
  /\ shownOver \subseteq Starts
  /\ IsNoted(run)
  /\ \A i \in 1..Len(effects) : IsNoted(effects[i])
  /\ active.status \in StoreTerminal => active.job \in shownOver
  /\ \A s \in Starts : Reached(s) => s \in shownOver \/ active.job = s

\* An effect under way was under way before, or is that of the run just shown.
EffectsCome ==
  \A i \in 1..Len(effects') :
    effects'[i] = run' \/ \E k \in 1..Len(effects) : effects'[i] = effects[k]

LEMMA ShownEffects ==
  ASSUME ViewInv, NEW r, Show(r) \/ ShowAnew(r)
  PROVE  EffectsCome
<1>1. run' = r /\ (UNCHANGED effects \/ effects' = Append(effects, r))
  BY DEF Show, ShowAnew, Enter
<1>2. CASE UNCHANGED effects
  BY <1>2 DEF EffectsCome
<1>3. CASE effects' = Append(effects, r)
  <2>1. effects \in Seq(ShownRuns)
    BY DEF ViewInv
  <2>2. /\ Len(effects') = Len(effects) + 1 /\ Len(effects) \in Nat
        /\ \A i \in 1..Len(effects) : effects'[i] = effects[i]
        /\ effects'[Len(effects) + 1] = r
    BY <1>3, <2>1
  <2>3. \A i \in 1..Len(effects') : i \in 1..Len(effects) \/ i = Len(effects) + 1
    BY <2>2
  <2> QED
    BY <1>1, <2>2, <2>3 DEF EffectsCome
<1> QED
  BY <1>1, <1>2, <1>3

LEMMA EffectsAlwaysCome == MoveInv /\ RunMoves => EffectsCome
<1> SUFFICES ASSUME MoveInv, RunMoves PROVE EffectsCome
  OBVIOUS
<1>1. CASE UNCHANGED effects
  BY <1>1 DEF EffectsCome
<1>2. CASE \E r : Show(r) \/ ShowAnew(r)
  BY <1>2, ShownEffects DEF MoveInv
<1>3. CASE FinishEffect
  <2>1. effects \in Seq(ShownRuns) /\ effects # <<>> /\ effects' = Tail(effects)
    BY <1>3 DEF FinishEffect, MoveInv, ViewInv
  <2>2. /\ Len(effects') = Len(effects) - 1 /\ Len(effects) \in Nat
        /\ \A i \in 1..Len(effects') : effects'[i] = effects[i + 1]
    BY <2>1
  <2>3. \A i \in 1..Len(effects') : i + 1 \in 1..Len(effects)
    BY <2>2
  <2> QED
    BY <2>2, <2>3 DEF EffectsCome
<1>4. CASE CloseWindow
  <2>1. Len(effects') = 0
    BY <1>4 DEF CloseWindow
  <2> QED
    BY <2>1 DEF EffectsCome
<1>5. CASE \E s \in Starts : StartMoves(s)
  BY <1>1, <1>2, <1>5
  DEF StartMoves, ClickStart, ProbeFails, ConsumeAndCreate, Serve, Created, BindRefused,
      Attached, Uploaded, Finalized, Refresh, CallFailed, ShowPhase, RefreshState
<1>6. CASE \E t \in {"tick", "deadline"} : TimerFires(t)
  BY <1>1, <1>2, <1>6 DEF TimerFires, ShowPhase
<1>7. CASE PollRead \/ PollFailed \/ PollApply \/ RevealResult
  BY <1>1, <1>2, <1>7 DEF PollRead, PollFailed, PollApply, RevealResult
<1>8. CASE Cancel \/ StartOver \/ ForgetReportLink \/ OpenWindow \/ ServiceMoves
  BY <1>1, <1>2, <1>8
  DEF Cancel, StartOver, ForgetReportLink, OpenWindow, ServiceMoves, ShowPhase, RefreshState
<1> QED
  BY <1>3, <1>4, <1>5, <1>6, <1>7, <1>8 DEF RunMoves

\* The bound job is stored as over only when its run is shown so, or was when an effect
\* was entered for it; and another job is bound only by Created.
LEMMA ActiveComes ==
  ASSUME MoveInv, RunMoves, ~\E s \in Starts : Created(s)
  PROVE  /\ active'.job = active.job
         /\ active'.status \in StoreTerminal =>
              \/ active' = active
              \/ \E r \in {run', Head(effects)} :
                   /\ r.ref = active.job /\ r.phase \in TerminalPhases
                   /\ r = run' \/ effects # <<>>
<1>1. CASE active' = active
  BY <1>1
<1>2. CASE FinishEffect /\ active' # active
  <2>1. PICK r : r = Head(effects)
    OBVIOUS
  <2>2. /\ effects # <<>> /\ active.job = r.ref
        /\ active' = [active EXCEPT !.status = JobStatusForRun(r)]
    BY <1>2, <2>1 DEF FinishEffect
  <2>3. active'.job = active.job /\ active'.status = JobStatusForRun(r)
    BY <2>2 DEF MoveInv, StoreInv, ActiveFits, NoActive
  <2>4. r \in ShownRuns
    <3>1. effects \in Seq(ShownRuns)
      BY DEF MoveInv, ViewInv
    <3> QED
      BY <2>1, <2>2, <3>1
  <2>5. JobStatusForRun(r) \in StoreTerminal => r.phase \in TerminalPhases
    BY <2>4 DEF JobStatusForRun, StoreTerminal, PhaseJobStatus, Phases, TerminalPhases,
                ShownRuns
  <2> QED
    BY <2>1, <2>2, <2>3, <2>5
<1>3. CASE StartOver /\ active' # active
  <2>1. /\ Running /\ active.job = run.ref
        /\ active' = [active EXCEPT !.status = "cancelled"]
    BY <1>3 DEF StartOver
  <2>2. run.ref \in Jobs \cup {Pending}
    BY <2>1 DEF Running, Live, MoveInv, ViewInv, RunFits, ShownRuns, NoRun, Run
  <2>3. active \in [job : Jobs, status : StoredStatus]
    BY <2>1, <2>2, NoFacts DEF MoveInv, StoreInv, ActiveFits
  <2>4. active'.job = active.job /\ active'.status = "cancelled" /\ active' # NoActive
    BY <2>1, <2>3, NoFacts
  <2>5. run' \in Recovered(active')
    BY <1>3, <2>4 DEF StartOver, ShowAnew
  <2>6. JobStatusPhase("cancelled") = "cancelled"
    <3>1. "cancelled" \in Phases /\ PhaseJobStatus["cancelled"] = "cancelled"
      BY DEF Phases, TerminalPhases, PhaseJobStatus
    <3> QED
      BY <3>1, PhaseFacts
  <2>7. run'.ref = active.job /\ run'.phase = "cancelled"
    BY <2>4, <2>5, <2>6 DEF Recovered, Run, TerminalPhases
  <2> QED
    BY <2>4, <2>7 DEF TerminalPhases
<1>4. FinishEffect \/ StartOver \/ active' = active
  <2>1. CASE \E s \in Starts : StartMoves(s)
    BY <2>1 DEF StartMoves, ClickStart, ProbeFails, ConsumeAndCreate, Serve, BindRefused,
                Attached, Uploaded, Finalized, Refresh, CallFailed
  <2>2. CASE \E t \in {"tick", "deadline"} : TimerFires(t)
    BY <2>2 DEF TimerFires
  <2>3. CASE PollRead \/ PollFailed \/ PollApply \/ RevealResult
    BY <2>3 DEF PollRead, PollFailed, PollApply, RevealResult
  <2>4. CASE Cancel \/ ForgetReportLink \/ CloseWindow \/ OpenWindow \/ ServiceMoves
    BY <2>4 DEF Cancel, ForgetReportLink, CloseWindow, OpenWindow, ServiceMoves
  <2> QED
    BY <2>1, <2>2, <2>3, <2>4 DEF RunMoves
<1> QED
  BY <1>1, <1>2, <1>3, <1>4

\* Only Created takes a start to the calls that end with a submission.
LEMMA ReachedComes ==
  ASSUME MoveInv, RunMoves, NEW s \in Starts, Reached(s)'
  PROVE  Reached(s) \/ Created(s)
<1>1. CASE UNCHANGED <<step, call, attempt>>
  BY <1>1, QuietService DEF Reached
<1>2. CASE \E x \in Starts : StartMoves(x)
  <2>1. PICK x \in Starts : StartMoves(x)
    BY <1>2
  <2>2. CASE Serve(x)
    <3>1. CASE FinalizeJob(x)
      <4>1. call[x] = "finalize"
        BY <3>1 DEF FinalizeJob
      <4>2. CASE x = s
        BY <4>1, <4>2 DEF Reached, Calling
      <4>3. CASE x # s
        <5>1. SubmissionsOf(s)' = SubmissionsOf(s) /\ UNCHANGED step
          BY <2>2, <3>1, <4>3, ServedFinalize DEF FinalizeJob, Serve
        <5>2. call'[s] = call[s]
          BY <2>2, <4>3 DEF Serve, MoveInv, CallsInv
        <5> QED
          BY <5>1, <5>2 DEF Reached
      <4> QED
        BY <4>2, <4>3
    <3>2. CASE CreatePairJob(x) \/ AttachMossCredential(x) \/ UploadPairFiles(x)
      <4>1. UNCHANGED <<attempt, step>>
        BY <2>2, <3>2 DEF Serve, CreatePairJob, AttachMossCredential, UploadPairFiles,
                          CreateJob, AttachCredential, UploadFiles
      <4>2. call'[s] \in {call[s], "answered"}
        BY <2>2 DEF Serve, MoveInv, CallsInv
      <4> QED
        BY <4>1, <4>2, QuietService DEF Reached, Calling
    <3> QED
      BY <2>2, <3>1, <3>2 DEF Serve
  <2>3. CASE ~Serve(x) /\ x # s
    <3>1. UNCHANGED attempt /\ step'[s] = step[s] /\ call'[s] = call[s]
      BY <2>1, <2>3
      DEF StartMoves, ClickStart, ProbeFails, ConsumeAndCreate, Created, BindRefused,
          Attached, Uploaded, Finalized, Refresh, CallFailed, Proceed, AfterFailure,
          serviceVars, MoveInv, CallsInv
    <3> QED
      BY <3>1, QuietService DEF Reached
  <2>4. CASE Attached(s) \/ Uploaded(s)
    BY <2>4 DEF Attached, Uploaded, Proceed, Reached, Calling
  <2>5. CASE Refresh(s) \/ CallFailed(s) \/ Finalized(s) \/ BindRefused(s) \/ ProbeFails(s)
             \/ ClickStart(s)
    <3>1. /\ UNCHANGED attempt /\ call'[s] = call[s]
          /\ step'[s] \in {"stopped", "refresh", "clicked"}
      BY <2>5 DEF Refresh, CallFailed, Finalized, BindRefused, ProbeFails, ClickStart,
                  AfterFailure, serviceVars, MoveInv, CallsInv
    <3> QED
      BY <3>1, QuietService DEF Reached, Calling
  <2>6. CASE ConsumeAndCreate(s)
    <3>1. /\ UNCHANGED attempt /\ call'[s] \in {call[s], "create"}
          /\ step'[s] \in {"stopped", "create"}
      BY <2>6 DEF ConsumeAndCreate, serviceVars, MoveInv, CallsInv
    <3> QED
      BY <3>1, QuietService DEF Reached, Calling
  <2> QED
    BY <2>1, <2>2, <2>3, <2>4, <2>5, <2>6 DEF StartMoves
<1>3. CASE CloseWindow
  <2>1. UNCHANGED <<attempt, call>> /\ step'[s] \in {"idle", "stopped"}
    BY <1>3 DEF CloseWindow, serviceVars
  <2> QED
    BY <2>1, QuietService DEF Reached, Calling
<1>4. CASE ServiceMoves
  <2>1. SubmissionsOf(s)' = SubmissionsOf(s)
    BY <1>4, ServiceMovesFacts DEF ServiceMoves, MoveInv
  <2> QED
    BY <1>4, <2>1 DEF ServiceMoves, Reached
<1>5. CASE FinishEffect \/ \E t \in {"tick", "deadline"} : TimerFires(t)
  BY <1>1, <1>5 DEF FinishEffect, TimerFires, serviceVars
<1>6. CASE PollRead \/ PollFailed \/ PollApply \/ RevealResult
  BY <1>1, <1>6 DEF PollRead, PollFailed, PollApply, RevealResult, serviceVars
<1>7. CASE Cancel \/ StartOver \/ ForgetReportLink \/ OpenWindow
  BY <1>1, <1>7 DEF Cancel, StartOver, ForgetReportLink, ForgetResult, OpenWindow, serviceVars
<1> QED
  BY <1>2, <1>3, <1>4, <1>5, <1>6, <1>7 DEF RunMoves

LEMMA MovesAreNoted == RunInv /\ NotedInv /\ RunMoves /\ ShowsOver => NotedInv'
<1> SUFFICES ASSUME RunInv, NotedInv, RunMoves, ShowsOver PROVE NotedInv'
  OBVIOUS
<1>1. /\ shownOver \subseteq shownOver' /\ shownOver' \subseteq Starts
      /\ run'.phase \in TerminalPhases /\ run'.ref \in Starts => run'.ref \in shownOver'
  BY DEF ShowsOver, NotedInv
<1>2. IsNoted(run)'
  BY <1>1 DEF IsNoted
<1>3. ASSUME NEW r, IsNoted(r) PROVE IsNoted(r)'
  BY <1>1, <1>3 DEF IsNoted
<1>4. \A i \in 1..Len(effects') : IsNoted(effects[i])'
  <2>1. EffectsCome
    BY EffectsAlwaysCome DEF RunInv
  <2> QED
    BY <1>1, <2>1 DEF EffectsCome, NotedInv, IsNoted
<1>5. CASE \E s \in Starts : Created(s)
  <2>1. PICK s \in Starts : Created(s)
    BY <1>5
  <2>2. active'.job = s /\ active'.status \notin StoreTerminal
    BY <2>1 DEF Created, Bound, StoreTerminal
  <2>3. ASSUME NEW x \in Starts, Reached(x)'
        PROVE  x \in shownOver' \/ active'.job = x
    <3>1. CASE Created(x)
      BY <3>1 DEF Created, Bound
    <3>2. CASE Reached(x) /\ x \notin shownOver
      <4>1. active.job = x /\ active.status \notin StoreTerminal /\ active # NoActive
        BY <3>2, NoFacts DEF NotedInv, Starts
      <4>2. x = s
        BY <2>1, <4>1 DEF Created, BindAccepted
      <4> QED
        BY <2>2, <4>2
    <3> QED
      BY <1>1, <2>3, <3>1, <3>2, ReachedComes DEF RunInv
  <2> QED
    BY <1>1, <1>2, <1>4, <2>2, <2>3 DEF NotedInv
<1>6. CASE ~\E s \in Starts : Created(s)
  <2>1. /\ active'.job = active.job
        /\ active'.status \in StoreTerminal =>
             \/ active' = active
             \/ \E r \in {run', Head(effects)} :
                  /\ r.ref = active.job /\ r.phase \in TerminalPhases
                  /\ r = run' \/ effects # <<>>
    BY <1>6, ActiveComes DEF RunInv
  <2>2. active'.status \in StoreTerminal => active'.job \in shownOver'
    <3> SUFFICES ASSUME active'.status \in StoreTerminal, active' # active
                 PROVE  active.job \in shownOver'
      BY <1>1, <2>1 DEF NotedInv
    <3>1. PICK r \in {run', Head(effects)} :
            /\ r.ref = active.job /\ r.phase \in TerminalPhases
            /\ r = run' \/ effects # <<>>
      BY <2>1
    <3>2. active.job \in Starts
      <4>1. CASE active = NoActive
        <5>1. r = NoRun \/ r \in ShownRuns
          <6>1. CASE r = run'
            BY <6>1, RunMovesKeep DEF RunInv, MoveInv, ViewInv, RunFits
          <6>2. CASE r = Head(effects) /\ effects # <<>>
            <7>1. effects \in Seq(ShownRuns)
              BY DEF RunInv, MoveInv, ViewInv
            <7> QED
              BY <6>2, <7>1
          <6> QED
            BY <3>1, <6>1, <6>2
        <5> QED
          BY <3>1, <4>1, <5>1, NoFacts DEF ShownRuns, TerminalPhases
      <4>2. CASE active # NoActive
        BY <4>2 DEF RunInv, MoveInv, StoreInv, ActiveFits, Starts
      <4> QED
        BY <4>1, <4>2
    <3>3. CASE r = run'
      BY <1>1, <3>1, <3>2, <3>3
    <3>4. CASE r = Head(effects) /\ effects # <<>>
      <4>1. effects \in Seq(ShownRuns)
        BY DEF RunInv, MoveInv, ViewInv
      <4>2. 1 \in 1..Len(effects) /\ r = effects[1]
        BY <3>4, <4>1
      <4> QED
        BY <1>1, <3>1, <3>2, <4>2 DEF NotedInv, IsNoted
    <3> QED
      BY <3>1, <3>3, <3>4
  <2>3. ASSUME NEW x \in Starts, Reached(x)'
        PROVE  x \in shownOver' \/ active'.job = x
    BY <1>1, <1>6, <2>1, <2>3, ReachedComes DEF RunInv, NotedInv
  <2> QED
    BY <1>1, <1>2, <1>4, <2>2, <2>3 DEF NotedInv
<1> QED
  BY <1>5, <1>6

LEMMA NextNotes == RunInv /\ NotedInv /\ [Next]_vars => NotedInv'
<1> SUFFICES ASSUME RunInv, NotedInv, [Next]_vars PROVE NotedInv'
  OBVIOUS
<1>1. CASE RunMoves /\ ShowsOver
  BY <1>1, MovesAreNoted
<1>2. CASE ForgetHistory \/ UNCHANGED vars
  <2>1. UNCHANGED <<attempt, run, step, call, active, effects, shownOver>>
    BY <1>2 DEF ForgetHistory, vars, clientVars, serviceVars
  <2> QED
    BY <2>1, QuietService DEF NotedInv, IsNoted, Reached
<1> QED
  BY <1>1, <1>2 DEF Next

LEMMA InitNotes == Init => NotedInv
<1> SUFFICES ASSUME Init PROVE NotedInv
  OBVIOUS
<1>1. \A s \in Starts : SubmissionsOf(s) = {}
  BY NoFacts DEF Init, ServiceInit, NoAttempt, SubmissionsOf, Starts
<1>2. Len(effects) = 0
  BY DEF Init, ClientInit
<1> QED
  BY <1>1, <1>2, NoFacts
  DEF Init, ClientInit, NotedInv, IsNoted, Reached, Calling, TerminalPhases, StoreTerminal

LEMMA NotedInvariant == Spec => []NotedInv
<1>1. []RunInv /\ NotedInv /\ [][Next]_vars => []NotedInv
  BY NextNotes, PTL
<1> QED
  BY <1>1, InitNotes, RunInvariant, PTL DEF Spec

\* A submission under way that no window has shown as over is that of the bound job, which
\* is stored as unfinished, and what is kept of past results was submitted, whatever was
\* lost, refused, closed or restarted on the way (WorkflowApp.tsx with pair-service.js).
THEOREM WindowAlwaysRemembers == Spec => []WindowRemembers
<1>1. NotedInv => SubmissionIsRecoverable
  BY DEF NotedInv, Reached, SubmissionIsRecoverable, InFlight
<1>2. RunInv /\ NotedInv => WindowRemembers
  BY <1>1, RunTypes DEF WindowRemembers, RunInv, HistoryInv, NotedInv
<1> QED
  BY <1>2, RunInvariant, NotedInvariant, PTL

-----------------------------------------------------------------------------
\* The service and this client together implement OncePerStart.

fatesNow == [s \in Starts |-> fateOf(s)]

\* A start has one submission at most, and its fate is what became of that.
FatesAreKnown ==
  \A s \in Starts :
    /\ SubmissionsOf(s) = {} => fatesNow[s] = "unsent"
    /\ \A a \in Attempts : attempt[a].job = s =>
         SubmissionsOf(s) = {a} /\ fatesNow[s] = attempt[a].state

\* What is shown or stored as a report is one.
ReportsAreReal == announcedNow \subseteq {s \in Starts : fatesNow[s] = "linked"}

LEMMA FateFacts == RunInv => FatesAreKnown
<1> SUFFICES ASSUME RunInv, NEW s \in Starts
             PROVE  /\ SubmissionsOf(s) = {} => fatesNow[s] = "unsent"
                    /\ \A a \in Attempts : attempt[a].job = s =>
                         SubmissionsOf(s) = {a} /\ fatesNow[s] = attempt[a].state
  BY DEF FatesAreKnown
<1>1. fatesNow[s] = fateOf(s)
  BY DEF fatesNow
<1>2. ASSUME NEW a \in Attempts, attempt[a].job = s
      PROVE  SubmissionsOf(s) = {a} /\ fatesNow[s] = attempt[a].state
  <2>1. SubmissionsOf(s) = {a}
    BY <1>2 DEF SubmissionsOf, RunInv, MoveInv, CallsInv, Starts
  <2>2. Cardinality({a}) = 1 /\ ~(1 > 1)
    BY FS_Singleton
  <2>3. (CHOOSE b \in {a} : TRUE) = a
    OBVIOUS
  <2> QED
    BY <1>1, <2>1, <2>2, <2>3 DEF fateOf
<1> QED
  BY <1>1, <1>2 DEF fateOf

LEMMA AnnouncedFacts == RunInv => ReportsAreReal
<1> SUFFICES ASSUME RunInv, NEW s \in announcedNow
             PROVE  s \in Starts /\ fatesNow[s] = "linked"
  BY DEF ReportsAreReal
<1>1. s \in Starts /\ Linked(s)
  BY DEF announcedNow, RunInv, MoveInv, ViewInv, RunFits, StoreInv, ActiveFits
<1>2. PICK a \in Attempts : attempt[a].job = s /\ attempt[a].state = "linked"
  BY <1>1 DEF Linked, SubmissionsOf
<1> QED
  BY <1>1, <1>2, FateFacts DEF FatesAreKnown

\* Nothing was submitted in the step: fates stay, and what is announced is real.
LEMMA AnnounceStep ==
  ASSUME RunInv', UNCHANGED attempt
  PROVE  /\ fatesNow' = fatesNow
         /\ announcedNow' \subseteq {s \in Starts : fatesNow[s] = "linked"}
<1>1. fatesNow' = fatesNow
  BY DEF fatesNow, fateOf, SubmissionsOf
<1>2. ReportsAreReal'
  BY AnnouncedFacts, PTL
<1> QED
  BY <1>1, <1>2 DEF ReportsAreReal

LEMMA AnnouncedStays ==
  ASSUME UNCHANGED <<run, active>>
  PROVE  announcedNow' = announcedNow
BY DEF announcedNow

LEMMA FatesAre == fatesNow = [s \in Starts |-> fatesNow[s]]
BY DEF fatesNow

\* finalize is the one step that sends.
LEMMA SendStep ==
  ASSUME RunInv, RunInv', NEW s \in Starts, call[s] = "finalize", Finalize(Customer, s),
         call' = [call EXCEPT ![s] = "answered"], UNCHANGED <<step, active>>
  PROVE  /\ fatesNow[s] = "unsent"
         /\ fatesNow' = [fatesNow EXCEPT ![s] = "inflight"]
<1>1. PICK a \in Attempts :
        /\ SubmissionsOf(s) = {} /\ SubmissionsOf(s)' = {a}
        /\ attempt'[a].state = "inflight"
        /\ \A x \in Starts \ {s} : SubmissionsOf(x)' = SubmissionsOf(x)
        /\ \A b \in Attempts \ {a} : attempt'[b] = attempt[b]
  BY ServedFinalize DEF RunInv
<1>2. FatesAreKnown /\ FatesAreKnown'
  BY FateFacts, PTL
<1>3. fatesNow'[s] = "inflight"
  BY <1>1, <1>2 DEF SubmissionsOf, FatesAreKnown
<1>4. ASSUME NEW x \in Starts \ {s} PROVE fatesNow'[x] = fatesNow[x]
  <2>1. CASE SubmissionsOf(x) = {}
    BY <1>1, <1>2, <2>1 DEF FatesAreKnown
  <2>2. CASE SubmissionsOf(x) # {}
    <3>1. PICK b \in Attempts : attempt[b].job = x
      BY <2>2 DEF SubmissionsOf
    <3>2. b # a
      BY <1>1, <3>1 DEF SubmissionsOf
    <3> QED
      BY <1>1, <1>2, <3>1, <3>2 DEF FatesAreKnown
  <2> QED
    BY <2>1, <2>2
<1>5. fatesNow[s] = "unsent"
  BY <1>1, <1>2 DEF FatesAreKnown
<1> QED
  BY <1>3, <1>4, <1>5, FatesAre DEF fatesNow

\* An answer, or a restart, is for submissions that are under way.
LEMMA MovesStep ==
  ASSUME RunInv, RunInv',
         \A a \in Attempts : attempt'[a].job = attempt[a].job,
         NEW s \in Starts
  PROVE  \/ fatesNow[s] = "unsent" /\ fatesNow'[s] = "unsent"
         \/ \E a \in Attempts : /\ attempt[a].job = s /\ fatesNow[s] = attempt[a].state
                                /\ fatesNow'[s] = attempt'[a].state
<1>1. FatesAreKnown /\ FatesAreKnown'
  BY FateFacts, PTL
<1>2. SubmissionsOf(s)' = SubmissionsOf(s)
  BY DEF SubmissionsOf
<1>3. CASE SubmissionsOf(s) = {}
  BY <1>1, <1>2, <1>3 DEF FatesAreKnown
<1>4. CASE SubmissionsOf(s) # {}
  <2>1. PICK a \in Attempts : attempt[a].job = s
    BY <1>4 DEF SubmissionsOf
  <2> QED
    BY <1>1, <2>1 DEF FatesAreKnown
<1> QED
  BY <1>3, <1>4

LEMMA ServeSends ==
  ASSUME RunInv, RunInv', NEW s \in Starts, Serve(s)
  PROVE  Promise!Next
<1>1. announcedNow' = announcedNow
  BY AnnouncedStays DEF Serve
<1>2. CASE CreatePairJob(s) \/ AttachMossCredential(s) \/ UploadPairFiles(s)
  <2>1. UNCHANGED attempt
    BY <1>2 DEF CreatePairJob, AttachMossCredential, UploadPairFiles, CreateJob,
                AttachCredential, UploadFiles
  <2> QED
    BY <2>1, AnnounceStep DEF Promise!Next, Promise!Announce, fatesNow
<1>3. CASE FinalizeJob(s)
  <2>1. fatesNow[s] = "unsent" /\ fatesNow' = [fatesNow EXCEPT ![s] = "inflight"]
    BY <1>3, SendStep DEF FinalizeJob, Serve
  <2> QED
    BY <1>1, <2>1 DEF Promise!Next, Promise!Send, fatesNow
<1> QED
  BY <1>2, <1>3 DEF Serve

LEMMA SettleAnswers ==
  ASSUME RunInv, RunInv', NEW a \in Attempts, NEW o \in Outcomes, Settle(a, o),
         UNCHANGED <<run, active>>
  PROVE  Promise!Next
<1> DEFINE s == attempt[a].job
           f == IF o = "link" THEN "linked" ELSE "unlinked"
<1>1. announcedNow' = announcedNow
  BY AnnouncedStays
<1>2. /\ \A b \in Attempts : attempt'[b].job = attempt[b].job
      /\ \A b \in Attempts \ {a} : attempt'[b].state = attempt[b].state
      /\ attempt[a].state = "inflight" /\ attempt'[a].state = f
      /\ s \in Starts
  BY DEF Settle, RunInv, MoveInv, IInv, TypeOK, AttemptRecord, AttemptsNameJobs, Starts
<1>3. \A b \in Attempts : attempt[b].job = s => b = a
  BY <1>2 DEF RunInv, MoveInv, CallsInv, Starts
<1>4. fatesNow[s] = "inflight" /\ fatesNow'[s] = f
  BY <1>2, <1>3, MovesStep, FateFacts DEF FatesAreKnown
<1>5. \A x \in Starts \ {s} : fatesNow'[x] = fatesNow[x]
  <2> SUFFICES ASSUME NEW x \in Starts \ {s} PROVE fatesNow'[x] = fatesNow[x]
    OBVIOUS
  <2>1. \/ fatesNow[x] = "unsent" /\ fatesNow'[x] = "unsent"
        \/ \E b \in Attempts : /\ attempt[b].job = x /\ fatesNow[x] = attempt[b].state
                               /\ fatesNow'[x] = attempt'[b].state
    BY <1>2, MovesStep
  <2> QED
    BY <1>2, <2>1
<1>6. f \in {"linked", "unlinked"}
  OBVIOUS
<1> HIDE DEF f
<1>7. fatesNow' = [fatesNow EXCEPT ![s] = f]
  BY <1>2, <1>4, <1>5, FatesAre DEF fatesNow
<1>8. PICK x \in Starts : x = s
  BY <1>2
<1>9. Promise!Answer(x, f)
  BY <1>1, <1>4, <1>7, <1>8 DEF Promise!Answer, fatesNow
<1> QED
  BY <1>6, <1>9 DEF Promise!Next

LEMMA RestartLoses ==
  ASSUME RunInv, RunInv', Restart, UNCHANGED <<run, active>>
  PROVE  Promise!Next
<1>1. announcedNow' = announcedNow
  BY AnnouncedStays
<1>2. \A b \in Attempts :
        /\ attempt'[b].job = attempt[b].job
        /\ attempt'[b].state =
             IF attempt[b].state = "inflight" THEN "lost" ELSE attempt[b].state
  BY DEF Restart, RunInv, MoveInv, IInv, TypeOK, AttemptRecord
<1>3. \A s \in Starts :
        fatesNow'[s] = IF fatesNow[s] = "inflight" THEN "lost" ELSE fatesNow[s]
  <2> SUFFICES ASSUME NEW s \in Starts
               PROVE  fatesNow'[s] = IF fatesNow[s] = "inflight" THEN "lost" ELSE fatesNow[s]
    OBVIOUS
  <2>1. \/ fatesNow[s] = "unsent" /\ fatesNow'[s] = "unsent"
        \/ \E b \in Attempts : /\ attempt[b].job = s /\ fatesNow[s] = attempt[b].state
                               /\ fatesNow'[s] = attempt'[b].state
    BY <1>2, MovesStep
  <2> QED
    BY <1>2, <2>1
<1>4. fatesNow' = [s \in Starts |-> IF fatesNow[s] = "inflight" THEN "lost" ELSE fatesNow[s]]
  BY <1>3 DEF fatesNow
<1> QED
  BY <1>1, <1>4 DEF Promise!Next, Promise!Lose, fatesNow

\* Every other step leaves the submissions alone.
LEMMA QuietAnnounces ==
  ASSUME RunInv', UNCHANGED attempt
  PROVE  Promise!Next
BY AnnounceStep DEF Promise!Next, Promise!Announce, fatesNow

LEMMA StepKeepsPromise ==
  RunInv /\ RunInv' /\ [Next]_vars => [Promise!Next]_<<fatesNow, announcedNow>>
<1> SUFFICES ASSUME RunInv, RunInv', [Next]_vars PROVE Promise!Next
  OBVIOUS
<1>1. CASE \E s \in Starts : Serve(s)
  BY <1>1, ServeSends
<1>2. CASE ServiceMoves
  BY <1>2, SettleAnswers, RestartLoses DEF ServiceMoves
<1>3. CASE UNCHANGED attempt
  BY <1>3, QuietAnnounces
<1>4. CASE \E s \in Starts : StartMoves(s) /\ ~Serve(s)
  <2>1. UNCHANGED attempt
    BY <1>4 DEF StartMoves, ClickStart, ProbeFails, ConsumeAndCreate, Created, BindRefused,
                Attached, Uploaded, Finalized, Refresh, CallFailed, serviceVars
  <2> QED
    BY <2>1, QuietAnnounces
<1>5. CASE FinishEffect \/ \E t \in {"tick", "deadline"} : TimerFires(t)
  <2>1. UNCHANGED attempt
    BY <1>5 DEF FinishEffect, TimerFires, serviceVars
  <2> QED
    BY <2>1, QuietAnnounces
<1>6. CASE PollRead \/ PollFailed \/ PollApply \/ RevealResult
  <2>1. UNCHANGED attempt
    BY <1>6 DEF PollRead, PollFailed, PollApply, RevealResult, serviceVars
  <2> QED
    BY <2>1, QuietAnnounces
<1>7. CASE Cancel \/ StartOver \/ ForgetReportLink \/ CloseWindow \/ OpenWindow
  <2>1. UNCHANGED attempt
    BY <1>7 DEF Cancel, StartOver, ForgetReportLink, ForgetResult, CloseWindow, OpenWindow,
                serviceVars
  <2> QED
    BY <2>1, QuietAnnounces
<1>8. CASE ForgetHistory \/ UNCHANGED vars
  <2>1. UNCHANGED attempt
    BY <1>8 DEF ForgetHistory, vars, serviceVars
  <2> QED
    BY <2>1, QuietAnnounces
<1> QED
  BY <1>1, <1>2, <1>4, <1>5, <1>6, <1>7, <1>8 DEF Next, RunMoves

LEMMA InitKeepsPromise == Init => Promise!Init
<1> SUFFICES ASSUME Init PROVE Promise!Init
  OBVIOUS
<1>1. RunInv
  BY InitRunInv
<1>2. \A s \in Starts : SubmissionsOf(s) = {}
  BY NoFacts DEF Init, ServiceInit, NoAttempt, SubmissionsOf, Starts
<1>3. fatesNow = [s \in Starts |-> "unsent"]
  BY <1>1, <1>2, FateFacts, FatesAre DEF FatesAreKnown
<1>4. announcedNow = {}
  BY <1>1, <1>3, AnnouncedFacts DEF ReportsAreReal
<1> QED
  BY <1>3, <1>4 DEF Promise!Init, fatesNow

\* The files of a start go to the provider at most once, the answer is final, and no
\* window and no record announces a report that did not come, whatever fails on the way
\* (tryStartJob and pollLiveRun with finalize and runSubmission).
THEOREM RunKeepsPromise == Spec => OneSubmissionPerStart
<1>1. RunInv /\ RunInv' /\ [Next]_vars => [Promise!Next]_<<fatesNow, announcedNow>>
  BY StepKeepsPromise
<1> QED
  BY <1>1, InitKeepsPromise, RunInvariant, PTL
  DEF Spec, OneSubmissionPerStart, Promise!Spec, fatesNow
=============================================================================
