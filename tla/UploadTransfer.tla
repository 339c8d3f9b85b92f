--------------------------- MODULE UploadTransfer ---------------------------
(***************************************************************************)
(* One transfer of the upload transfer manager                             *)
(* (apps/api/uploads/transfer-manager.js) and the session it uploads to.   *)
(*                                                                         *)
(* A run is one call of run(transferId): it takes a snapshot of the files  *)
(* to upload, keeps at most Concurrency uploads under way, and settles its *)
(* promise from pump.  Nothing stops a caller from starting a run while    *)
(* another one is under way, from canceling or from calling                *)
(* resumeAfterRestart meanwhile, so all of this happens here.  A put goes  *)
(* through three steps: the service serves it, its answer comes back or is *)
(* lost, and the continuation of the upload calls pump.                    *)
(***************************************************************************)
EXTENDS UploadSession

CONSTANTS
  Runs,          \* runs that may be under way together; a name is used again
  Concurrency    \* uploads of one run under way together

ASSUME TransferAssumption ==
  /\ IsFiniteSet(Runs)
  /\ Concurrency \in Nat \ {0}

VARIABLES
  status,    \* transfer.status, "none" before startAfterReview
  canceled,  \* transfer.canceled
  cleaning,  \* a cleanup call is on its way to the service
  fstate,    \* file.state
  done,      \* transfer.progress.done
  uploads,   \* entries of each file in transfer.completedUploads
  run,       \* what each call of run keeps, see RunTypes
  alone      \* history: no other run and no resume since this run began

transferVars == <<status, canceled, cleaning, fstate, done, uploads>>
vars == <<sessionVars, transferVars, run, alone>>

\* sent: on its way to the service.  ok, refused, replay: the answer on its way
\* back.  ended: the upload is over and its continuation has yet to run.
Answers == {"ok", "refused", "replay"}
Calls == {"idle", "sent", "ended"} \cup Answers

RunTypes ==
  [ phase  : {"idle", "open", "settled"},   \* its promise
    queue  : SUBSET Files,                  \* its snapshot, from index on
    active : Nat,                           \* its count of uploads under way
    call   : [Files -> Calls] ]             \* its put of each file

UnderWay(r) == {f \in Files : run[r].call[f] # "idle"}

Fresh(queue) ==
  [ phase |-> "open", queue |-> queue, active |-> 0,
    call |-> [f \in Files |-> "idle"] ]

Init ==
  /\ SessionInit
  /\ status = "none"
  /\ canceled = FALSE
  /\ cleaning = FALSE
  /\ fstate = [f \in Files |-> "pending"]
  /\ done = 0
  /\ uploads = [f \in Files |-> 0]
  /\ run = [r \in Runs |-> [Fresh({}) EXCEPT !.phase = "idle"]]
  /\ alone = [r \in Runs |-> FALSE]

\* startAfterReview once its job and its session exist.  Before that it keeps no
\* state, and no transfer ever names what it leaves at the API when it fails.
StartAfterReview ==
  /\ status = "none"
  /\ CreateSession
  /\ status' = "uploading"
  /\ UNCHANGED <<canceled, cleaning, fstate, done, uploads, run, alone>>

-----------------------------------------------------------------------------
\* pump.

StoppedUnlessDone == canceled /\ done < FileCount
  \* mutant: the question whether all is done comes first

\* pump asks first whether the transfer was canceled,
Stopped == canceled

\* then whether all is done.
AllDone == done = FileCount

\* The first of the files, in their order, that the loop has room for.
Room(files, active) ==
  {f \in files : active + Cardinality({g \in files : g < f}) < Concurrency}

\* The files of its snapshot that the loop starts.
Taken(this) ==
  IF Stopped \/ AllDone THEN {}
  ELSE Room({f \in this.queue : fstate[f] # "completed"}, this.active)

\* What it may come back to: it stops behind the upload that takes the last place,
\* and at the end of the snapshot while there are places left.
Remaining(this) ==
  IF Stopped \/ AllDone \/ this.active + Cardinality(Taken(this)) < Concurrency THEN {}
  ELSE {f \in this.queue : \A g \in Taken(this) : g < f}

\* No upload of the run is under way, and no file waits for one.
Exhausted(this) ==
  /\ this.active = 0
  /\ Taken(this) = {}
  /\ \A f \in Files : fstate[f] \in {"completed", "failed"}

Settles(this) == Stopped \/ AllDone \/ Exhausted(this)

StatusAfter(this) ==
  IF Stopped THEN "canceled"
  ELSE IF AllDone THEN "completed"
  ELSE IF ~Exhausted(this) THEN status
  ELSE IF \A f \in Files : fstate[f] = "completed" THEN "completed" ELSE "failed"

\* pump of run r, whose variables are those of `this'.
Pump(r, this) ==
  LET started == Taken(this)
  IN
  /\ fstate' = [f \in Files |-> IF f \in started THEN "uploading" ELSE fstate[f]]
  /\ run' = [run EXCEPT ![r] =
       [ phase  |-> IF Settles(this) THEN "settled" ELSE this.phase,
         queue  |-> Remaining(this),
         active |-> this.active + Cardinality(started),
         call   |-> [f \in Files |-> IF f \in started THEN "sent" ELSE this.call[f]] ]]
  /\ status' = StatusAfter(this)
  /\ cleaning' = (cleaning \/ Stopped)

-----------------------------------------------------------------------------
\* The handlers.

\* run(transferId).
StartRun(r) ==
  /\ status # "none"
  /\ run[r].phase # "open" /\ UnderWay(r) = {}
  /\ Pump(r, Fresh({f \in Files : fstate[f] \in {"pending", "failed"}}))
  /\ alone' = [s \in Runs |-> s = r /\ \A o \in Runs \ {r} : run[o].phase # "open"]
  /\ UNCHANGED <<sessionVars, canceled, done, uploads>>

\* The service serves the put of run r and file f.
Serve(r, f) ==
  /\ run[r].call[f] = "sent"
  /\ \E valid \in BOOLEAN :
       /\ PutObject(f, valid)
       /\ run' = [run EXCEPT ![r].call[f] = PutAnswer(f, valid)]
  /\ UNCHANGED <<transferVars, alone>>

\* The answer arrives: uploadOne after its await.
Answered(r, f) ==
  LET answer == run[r].call[f]
      ok     == answer = "ok"
  IN
  /\ answer \in Answers
  /\ fstate' = [fstate EXCEPT ![f] = IF ok THEN "completed" ELSE "failed"]
  /\ done' = IF ok THEN done + 1 ELSE done
  /\ uploads' = [uploads EXCEPT ![f] = IF ok THEN @ + 1 ELSE @]
  /\ run' = [run EXCEPT ![r].call[f] = "ended"]
  /\ UNCHANGED <<sessionVars, status, canceled, cleaning, alone>>

StateAfterLossKept(f) == fstate[f]   \* mutant: the catch block leaves the state

StateAfterLoss(f) == "failed"

\* The put or its answer is lost, or the network drops it at once, and the call
\* throws: the catch block of uploadOne.
Lost(r, f) ==
  /\ run[r].call[f] \in Answers \cup {"sent"}
  /\ fstate' = [fstate EXCEPT ![f] = StateAfterLoss(f)]
  /\ run' = [run EXCEPT ![r].call[f] = "ended"]
  /\ UNCHANGED <<sessionVars, status, canceled, cleaning, done, uploads, alone>>

\* The continuation of an upload.
Continue(r, f) ==
  /\ run[r].call[f] = "ended"
  /\ Pump(r, [run[r] EXCEPT !.active = @ - 1, !.call[f] = "idle"])
  /\ UNCHANGED <<sessionVars, canceled, done, uploads, alone>>

CancelStatusOnly == FALSE   \* mutant: cancel writes the status alone

CanceledByCancel == TRUE

Cancel ==
  /\ status # "none"
  /\ canceled' = CanceledByCancel
  /\ status' = "cancel-requested"
  /\ UNCHANGED <<sessionVars, cleaning, fstate, done, uploads, run, alone>>

\* resumeAfterRestart with the files of `same' reselected unchanged: it goes
\* through the files in their order and gives up at the first that is missing.
ResumeAfterRestart(same) ==
  LET todo == {f \in Files : fstate[f] # "completed"}
      good == {f \in todo : \A g \in todo : g <= f => g \in same}
  IN
  /\ status \notin {"none", "completed"}
  /\ fstate' = [f \in Files |-> IF f \in good THEN "pending" ELSE fstate[f]]
  /\ status' = IF good = todo THEN "uploading" ELSE status
  /\ alone' = [r \in Runs |-> FALSE]
  /\ UNCHANGED <<sessionVars, canceled, cleaning, done, uploads, run>>

\* The service serves a cleanup call.
ServeCleanup ==
  /\ cleaning
  /\ CleanUp
  /\ cleaning' = FALSE
  /\ UNCHANGED <<status, canceled, fstate, done, uploads, run, alone>>

Next ==
  \/ StartAfterReview
  \/ \E r \in Runs : StartRun(r)
  \/ \E r \in Runs, f \in Files :
       Serve(r, f) \/ Answered(r, f) \/ Lost(r, f) \/ Continue(r, f)
  \/ Cancel
  \/ \E same \in SUBSET Files : ResumeAfterRestart(same)
  \/ ServeCleanup

\* A put is served, answered or lost in the end, its continuation runs, and a
\* cleanup call arrives.
Fairness ==
  /\ \A r \in Runs, f \in Files :
       WF_vars(Serve(r, f) \/ Answered(r, f) \/ Lost(r, f) \/ Continue(r, f))
  /\ WF_vars(ServeCleanup)

Spec == Init /\ [][Next]_vars /\ Fairness

-----------------------------------------------------------------------------
\* Properties.

\* The type invariant of the transfer.  That `active' is the number of uploads
\* of its run that are under way, and within the bound, is part of it: pump
\* decides on this number when to start an upload and when to settle.
TransferTypeOK ==
  /\ SessionTypes
  /\ status \in {"none", "uploading", "cancel-requested", "canceled", "completed", "failed"}
  /\ canceled \in BOOLEAN /\ cleaning \in BOOLEAN
  /\ fstate \in [Files -> {"pending", "uploading", "completed", "failed"}]
  /\ done \in 0 .. FileCount
  /\ uploads \in [Files -> {0, 1}]
  /\ run \in [Runs -> RunTypes]
  /\ \A r \in Runs :
       run[r].active = Cardinality(UnderWay(r)) /\ run[r].active <= Concurrency
  /\ alone \in [Runs -> BOOLEAN]

\* Progress is honest (getProgress: "no fabricated percent beyond
\* completed/total"): it counts every file that was acknowledged once, however
\* many runs put it, and what it counts is at the service until a cancellation
\* cleans the session up.
ProgressIsHonest ==
  LET acknowledged == {f \in Files : uploads[f] = 1}
  IN  /\ done = Cardinality(acknowledged)
      /\ acknowledged \subseteq objects \/ session = "gone"

\* A transfer that reports "completed" can be completed at the service: its
\* session is there and holds one object for each file (run and completeSession).
CompletedIsStored ==
  status = "completed" => Completable /\ objects = Files

\* The counts of the runs are right, and what the transfer reports is stored.
ReportIsHonest == TransferTypeOK /\ ProgressIsHonest /\ CompletedIsStored

\* A canceled transfer never ends otherwise, whatever uploads were under way and
\* whoever resumes it (cancel, run, resumeAfterRestart).
CanceledIsFinal == canceled => status \notin {"completed", "failed"}

\* Cancellation cleans active objects: a transfer that is canceled while an
\* upload is under way has its session deleted (cancel and pump).
CancelCleans ==
  (status = "cancel-requested" /\ \E r \in Runs : UnderWay(r) # {}) ~> session = "gone"

\* A run that no other run and no resume gets in the way of settles (pump).
LoneRunSettles ==
  \A r \in Runs : (run[r].phase = "open" /\ alone[r]) ~> (run[r].phase # "open" \/ ~alone[r])
=============================================================================
