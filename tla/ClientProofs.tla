---------------------------- MODULE ClientProofs ----------------------------
(***************************************************************************)
(* Proofs about what the client does with files and jobs.  First,          *)
(* UploadTransfer: its safety invariants hold for any number of files, any *)
(* number of runs of the transfer under way together, and any bound on the *)
(* uploads of one run.  Then JobTracking: the job repository and the       *)
(* status poller, for any jobs, writers and numbers of polls.  Last,       *)
(* Workspace: what is picked, grouped, agreed to and sent, for any files   *)
(* on the device and any number of edits.                                  *)
(***************************************************************************)
EXTENDS UploadTransfer, JobTracking, Workspace, FiniteSetTheorems, SequenceTheorems,
        WellFoundedInduction, TLAPS

-----------------------------------------------------------------------------
(* The transfer. *)

UnderWayOf(this) == {f \in Files : this.call[f] # "idle"}
Acknowledged == {f \in Files : uploads[f] = 1}

\* The types alone, without what TransferTypeOK says about counts.
Types ==
  /\ session \in {"none", "open", "gone"}
  /\ objects \subseteq Files
  /\ completed \in Nat
  /\ status \in {"none", "uploading", "cancel-requested", "canceled", "completed", "failed"}
  /\ canceled \in BOOLEAN /\ cleaning \in BOOLEAN
  /\ fstate \in [Files -> {"pending", "uploading", "completed", "failed"}]
  /\ done \in Nat
  /\ uploads \in [Files -> {0, 1}]
  /\ run \in [Runs -> RunTypes]
  /\ alone \in [Runs -> BOOLEAN]

\* A run counts its uploads, has no more of them than it may, and has none of
\* the files that it may yet start.
Counted(this) ==
  /\ this.active = Cardinality(UnderWayOf(this))
  /\ this.active <= Concurrency
  /\ this.queue \cap UnderWayOf(this) = {}

\* What the service holds: it loses it by a cleanup only, which a cancellation
\* comes before.
Store ==
  /\ completed = Cardinality(objects)
  /\ session = "none" => objects = {}
  /\ (session = "gone" \/ cleaning) => canceled

\* One acknowledgement for each object: while it is on its way no other one is,
\* and none has arrived.
Acks ==
  /\ done = Cardinality(Acknowledged)
  /\ \A f \in Files : uploads[f] = 1 => f \in objects \/ session = "gone"
  /\ \A f \in Files : fstate[f] = "completed" => uploads[f] = 1
  /\ \A r \in Runs, f \in Files : run[r].call[f] = "ok" =>
       /\ uploads[f] = 0
       /\ f \in objects \/ session = "gone"
       /\ \A s \in Runs : run[s].call[f] = "ok" => s = r

\* What the status says.
Status ==
  /\ CanceledIsFinal
  /\ status = "completed" => done = FileCount

\* The inductive strengthening of the invariants.
IInv == Types /\ (\A r \in Runs : Counted(run[r])) /\ Store /\ Acks /\ Status

-----------------------------------------------------------------------------
\* Finite sets of files.

LEMMA FilesAreFinite == IsFiniteSet(Files) /\ Cardinality(Files) = FileCount
BY FileCountAssumption, FS_Interval DEF Files

\* Every set of files can be counted, and has at most FileCount members.
LEMMA SetOfFiles ==
  ASSUME NEW S \in SUBSET Files
  PROVE  /\ IsFiniteSet(S)
         /\ Cardinality(S) \in 0 .. FileCount
         /\ Cardinality(S) = FileCount => S = Files
<1>1. IsFiniteSet(S) /\ Cardinality(S) <= Cardinality(Files)
      /\ (Cardinality(Files) = Cardinality(S) => Files = S)
  BY FilesAreFinite, FS_Subset
<1>2. Cardinality(S) \in Nat BY <1>1, FS_CardinalityType
<1> QED BY <1>1, <1>2, FilesAreFinite, FileCountAssumption

\* The loop of pump starts uploads up to the bound and no further.
LEMMA RoomKeepsTheBound ==
  ASSUME NEW S \in SUBSET Files, NEW a \in Nat, a <= Concurrency
  PROVE  /\ Room(S, a) \subseteq S
         /\ a + Cardinality(Room(S, a)) <= Concurrency
<1> DEFINE Below(f) == {g \in S : g < f}
           R == Room(S, a)
           rank == [f \in R |-> Cardinality(Below(f))]
           places == 0 .. (Concurrency - a - 1)
<1>1. R \subseteq S /\ \A f \in R : a + Cardinality(Below(f)) < Concurrency
  BY DEF Room
<1>2. \A f \in S : IsFiniteSet(Below(f)) /\ Cardinality(Below(f)) \in Nat
  BY SetOfFiles, FileCountAssumption
<1>3. \A f, h \in S : f < h => Cardinality(Below(f)) # Cardinality(Below(h))
  <2> SUFFICES ASSUME NEW f \in S, NEW h \in S, f < h
               PROVE  Cardinality(Below(f)) # Cardinality(Below(h))
    OBVIOUS
  <2>1. Below(f) \in SUBSET Below(h) /\ f \in Below(h) /\ f \notin Below(f)
    <3>1. f \in Nat /\ h \in Nat /\ S \subseteq Nat
      BY FileCountAssumption DEF Files
    <3>2. \A g \in S : g < f => g < h BY <3>1
    <3>3. ~(f < f) BY <3>1
    <3> QED BY <3>2, <3>3
  <2>2. Cardinality(Below(h)) = Cardinality(Below(f)) => Below(h) = Below(f)
    BY <2>1, <1>2, FS_Subset
  <2> QED BY <2>1, <2>2
<1>4. rank \in [R -> places]
  <2> SUFFICES ASSUME NEW f \in R PROVE Cardinality(Below(f)) \in places
    OBVIOUS
  <2> HIDE DEF Below
  <2> QED BY <1>1, <1>2, TransferAssumption
<1>5. \A f, h \in R : f # h => rank[f] # rank[h]
  <2> SUFFICES ASSUME NEW f \in R, NEW h \in R, f # h
               PROVE  Cardinality(Below(f)) # Cardinality(Below(h))
    OBVIOUS
  <2>1. f < h \/ h < f
    <3>1. f \in S /\ h \in S BY <1>1
    <3>2. f \in Nat /\ h \in Nat BY <3>1, FileCountAssumption DEF Files
    <3> QED BY <3>2
  <2> HIDE DEF Below
  <2> QED BY <2>1, <1>1, <1>3
<1>6. IsFiniteSet(places)
      /\ Cardinality(places) = Concurrency - a
  BY FS_Interval, TransferAssumption
<1>7. IsFiniteSet(R) /\ Cardinality(R) \in Nat
  BY <1>1, SetOfFiles, FileCountAssumption
<1>8. ~(Cardinality(places) < Cardinality(R))
  <2> HIDE DEF rank, places, R
  <2> QED BY <1>4, <1>5, <1>6, <1>7, FS_PigeonHole
<1> HIDE DEF places, R, rank
<1>9. Cardinality(R) <= Concurrency - a
  BY <1>6, <1>7, <1>8, TransferAssumption
<1>10. a + Cardinality(R) <= Concurrency BY <1>9, <1>7, TransferAssumption
<1> QED BY <1>1, <1>10 DEF R

-----------------------------------------------------------------------------
\* Steps.

LEMMA InitEstablishes == Init => IInv
<1> SUFFICES ASSUME Init PROVE IInv
  OBVIOUS
<1> USE DEF Init, SessionInit
<1>1. Types
  BY DEF Types, RunTypes, Fresh, Calls
<1>2. \A r \in Runs : Counted(run[r])
  <2> SUFFICES ASSUME NEW r \in Runs PROVE Counted(run[r])
    OBVIOUS
  <2>1. run[r].queue = {} /\ run[r].active = 0 /\ \A f \in Files : run[r].call[f] = "idle"
    BY DEF Fresh
  <2>2. UnderWayOf(run[r]) = {} BY <2>1 DEF UnderWayOf
  <2> QED BY <2>1, <2>2, FS_EmptySet, TransferAssumption DEF Counted
<1>3. Store BY FS_EmptySet DEF Store
<1>4. Acks
  <2>1. Acknowledged = {} BY DEF Acknowledged
  <2>2. \A r \in Runs, f \in Files : run[r].call[f] = "idle" BY DEF Fresh
  <2> QED BY <2>1, <2>2, FS_EmptySet DEF Acks
<1>5. Status BY DEF Status, CanceledIsFinal
<1> QED BY <1>1, <1>2, <1>3, <1>4, <1>5 DEF IInv

\* pump keeps a run that counts its uploads counting them: what it starts was not
\* under way, and there was room for it.
LEMMA PumpCounts ==
  ASSUME Types, NEW r \in Runs, NEW this \in RunTypes, Counted(this), Pump(r, this)
  PROVE  /\ run'[r] \in RunTypes
         /\ Counted(run'[r])
         /\ \A s \in Runs \ {r} : run'[s] = run[s]
         /\ \A f \in Files : run'[r].call[f] = "ok" => this.call[f] = "ok"
<1> DEFINE fresh == {f \in this.queue : fstate[f] # "completed"}
           started == Taken(this)
           next == [ phase  |-> IF Settles(this) THEN "settled" ELSE this.phase,
                     queue  |-> Remaining(this),
                     active |-> this.active + Cardinality(started),
                     call   |-> [f \in Files |-> IF f \in started THEN "sent"
                                                 ELSE this.call[f]] ]
<1>1. run' = [run EXCEPT ![r] = next] BY DEF Pump
<1>2. run'[r] = next /\ \A s \in Runs \ {r} : run'[s] = run[s]
  <2> HIDE DEF next
  <2> QED BY <1>1 DEF Types
<1>3. this.active \in Nat /\ this.queue \in SUBSET Files /\ this.call \in [Files -> Calls]
      /\ this.phase \in {"idle", "open", "settled"}
  BY DEF RunTypes
<1>4. /\ started \subseteq this.queue
      /\ this.active + Cardinality(started) <= Concurrency
  <2>1. CASE Stopped \/ AllDone
    <3>1. started = {} BY <2>1 DEF Taken
    <3> QED BY <3>1, <1>3, FS_EmptySet, TransferAssumption DEF Counted
  <2>2. CASE ~(Stopped \/ AllDone)
    <3>1. started = Room(fresh, this.active) BY <2>2 DEF Taken
    <3>2. fresh \in SUBSET Files BY <1>3
    <3> HIDE DEF fresh, started
    <3>3. started \subseteq fresh /\ this.active + Cardinality(started) <= Concurrency
      BY <3>1, <3>2, <1>3, RoomKeepsTheBound DEF Counted
    <3> QED BY <3>3 DEF fresh
  <2> QED BY <2>1, <2>2
<1>5. Remaining(this) \subseteq this.queue /\ Remaining(this) \cap started = {}
  <2>1. \A f \in Files : ~(f < f) BY FileCountAssumption DEF Files
  <2> QED BY <2>1, <1>3 DEF Remaining
<1> HIDE DEF started
<1>6. next \in RunTypes
  <2>1. Cardinality(started) \in Nat BY <1>3, <1>4, SetOfFiles, FileCountAssumption
  <2>2. next.call \in [Files -> Calls] BY <1>3 DEF Calls
  <2> QED BY <1>3, <1>5, <2>1, <2>2 DEF RunTypes
<1>7. UnderWayOf(next) = UnderWayOf(this) \cup started
  BY <1>3, <1>4 DEF UnderWayOf
<1>8. next.active = Cardinality(UnderWayOf(next))
  <2>1. UnderWayOf(this) \in SUBSET Files /\ started \in SUBSET Files
    BY <1>3, <1>4 DEF UnderWayOf
  <2>2. UnderWayOf(this) \cap started = {} BY <1>4 DEF Counted
  <2>3. /\ IsFiniteSet(UnderWayOf(this)) /\ IsFiniteSet(started)
        /\ Cardinality(UnderWayOf(this)) \in Nat /\ Cardinality(started) \in Nat
    BY <2>1, SetOfFiles, FileCountAssumption
  <2>4. Cardinality(UnderWayOf(this) \cup started)
          = Cardinality(UnderWayOf(this)) + Cardinality(started) - Cardinality({})
    BY <2>2, <2>3, FS_Union
  <2>5. Cardinality({}) = 0 BY FS_EmptySet
  <2>6. next.active = this.active + Cardinality(started) OBVIOUS
  <2> HIDE DEF next
  <2> QED BY <1>7, <2>3, <2>4, <2>5, <2>6 DEF Counted
<1>9. Counted(next)
  <2>1. next.active = this.active + Cardinality(started) /\ next.queue = Remaining(this)
    OBVIOUS
  <2> HIDE DEF next
  <2> QED BY <1>4, <1>5, <1>7, <1>8, <2>1 DEF Counted
<1>10. \A f \in Files : next.call[f] = "ok" => this.call[f] = "ok"
  OBVIOUS
<1> HIDE DEF next
<1> QED BY <1>2, <1>6, <1>9, <1>10

\* When every file is completed, every file was acknowledged.
LEMMA CompletedFilesAreDone ==
  ASSUME Types, Acks, \A f \in Files : fstate[f] = "completed"
  PROVE  done = FileCount
<1>1. Acknowledged = Files BY DEF Acks, Acknowledged
<1> QED BY <1>1, FilesAreFinite DEF Acks

\* pump keeps the invariant, for a run that is about to call it.
LEMMA PumpKeeps ==
  ASSUME IInv, NEW r \in Runs, NEW this \in RunTypes, Counted(this), Pump(r, this),
         \A f \in Files : this.call[f] = "ok" => run[r].call[f] = "ok",
         UNCHANGED <<sessionVars, canceled, done, uploads>>,
         alone' \in [Runs -> BOOLEAN]
  PROVE  IInv'
<1>1. /\ run'[r] \in RunTypes /\ Counted(run'[r])
      /\ \A s \in Runs \ {r} : run'[s] = run[s]
      /\ \A f \in Files : run'[r].call[f] = "ok" => this.call[f] = "ok"
  BY PumpCounts DEF IInv
<1>2. run' \in [Runs -> RunTypes]
  <2>1. DOMAIN run' = Runs /\ \A s \in Runs : run'[s] \in RunTypes
    BY <1>1 DEF Pump, IInv, Types
  <2>2. run' = [s \in Runs |-> run'[s]] BY DEF Pump, IInv, Types
  <2> QED BY <2>1, <2>2
<1>3. Types'
  <2>1. fstate' \in [Files -> {"pending", "uploading", "completed", "failed"}]
    BY DEF Pump, IInv, Types
  <2>2. status' \in {"none", "uploading", "cancel-requested", "canceled", "completed", "failed"}
    BY DEF Pump, IInv, Types, StatusAfter
  <2>3. cleaning' \in BOOLEAN BY DEF Pump
  <2> QED BY <1>2, <2>1, <2>2, <2>3 DEF IInv, Types, sessionVars
<1>4. \A s \in Runs : Counted(run'[s])
  <2> SUFFICES ASSUME NEW s \in Runs PROVE Counted(run'[s])
    OBVIOUS
  <2>1. CASE s = r BY <2>1, <1>1
  <2>2. CASE s # r
    <3>1. run'[s] = run[s] BY <2>2, <1>1
    <3>2. Counted(run[s]) BY DEF IInv
    <3> QED BY <3>1, <3>2
  <2> QED BY <2>1, <2>2
<1>5. Store' BY DEF IInv, Store, sessionVars, Pump, Stopped
<1>6. Acks'
  <2>1. \A f \in Files : fstate'[f] = "completed" => fstate[f] = "completed"
    BY DEF Pump
  <2>2. \A s \in Runs, f \in Files : run'[s].call[f] = "ok" => run[s].call[f] = "ok"
    BY <1>1
  <2>3. Acknowledged' = Acknowledged BY DEF Acknowledged
  <2> QED BY <2>1, <2>2, <2>3 DEF IInv, Acks, sessionVars
<1>7. Status'
  <2>1. CASE Stopped BY <2>1 DEF Pump, StatusAfter, Status, CanceledIsFinal
  <2>2. CASE ~Stopped /\ AllDone
    BY <2>2 DEF Pump, StatusAfter, Status, CanceledIsFinal, Stopped, AllDone
  <2>3. CASE ~Stopped /\ ~AllDone
    <3>1. ~(\A f \in Files : fstate[f] = "completed")
      BY <2>3, CompletedFilesAreDone DEF IInv, AllDone
    <3>2. status' \in {status, "failed"} BY <2>3, <3>1 DEF Pump, StatusAfter
    <3> QED BY <2>3, <3>2 DEF IInv, Status, CanceledIsFinal, Stopped
  <2> QED BY <2>1, <2>2, <2>3
<1> QED BY <1>3, <1>4, <1>5, <1>6, <1>7 DEF IInv

\* A step that takes the put of one file, which is under way, to c.
PutStep(r, f, c) ==
  run[r].call[f] # "idle" /\ run' = [run EXCEPT ![r].call[f] = c]

\* Unless it ends there, the counts of the runs stay what they are.
LEMMA PutStepCounts ==
  ASSUME Types, \A s \in Runs : Counted(run[s]),
         NEW r \in Runs, NEW f \in Files, NEW c \in Calls \ {"idle"},
         PutStep(r, f, c)
  PROVE  /\ run' \in [Runs -> RunTypes]
         /\ \A s \in Runs : Counted(run'[s])
         /\ \A s \in Runs, g \in Files :
              run'[s].call[g] = IF s = r /\ g = f THEN c ELSE run[s].call[g]
<1>1. run[r] \in RunTypes /\ run[r].call \in [Files -> Calls] BY DEF Types, RunTypes
<1> DEFINE next == [run[r] EXCEPT !.call = [run[r].call EXCEPT ![f] = c]]
<1>2. run' = [run EXCEPT ![r] = next] BY DEF PutStep
<1>3. next \in RunTypes
  <2>1. [run[r].call EXCEPT ![f] = c] \in [Files -> Calls] BY <1>1
  <2> QED BY <1>1, <2>1 DEF RunTypes
<1>4. /\ next.active = run[r].active /\ next.queue = run[r].queue
      /\ next.call = [run[r].call EXCEPT ![f] = c]
  BY <1>1 DEF RunTypes
<1> HIDE DEF next
<1>5. UnderWayOf(next) = UnderWayOf(run[r]) BY <1>1, <1>4 DEF UnderWayOf, PutStep
<1>6. Counted(next) BY <1>4, <1>5 DEF Counted
<1>7. run'[r] = next /\ \A s \in Runs \ {r} : run'[s] = run[s]
  BY <1>2 DEF Types
<1>8. run' \in [Runs -> RunTypes] BY <1>2, <1>3 DEF Types
<1>9. \A s \in Runs : Counted(run'[s]) BY <1>6, <1>7
<1>10. \A s \in Runs, g \in Files :
         run'[s].call[g] = IF s = r /\ g = f THEN c ELSE run[s].call[g]
  BY <1>1, <1>4, <1>7
<1> QED BY <1>8, <1>9, <1>10

LEMMA StartAfterReviewKeeps == IInv /\ StartAfterReview => IInv'
<1> SUFFICES ASSUME IInv, StartAfterReview PROVE IInv'
  OBVIOUS
<1> USE DEF StartAfterReview, CreateSession
<1>1. Types' BY DEF IInv, Types
<1>2. \A s \in Runs : Counted(run'[s]) BY DEF IInv
<1>3. Store' BY DEF IInv, Store
<1>4. Acks' BY DEF IInv, Acks, Acknowledged
<1>5. Status' BY DEF IInv, Status, CanceledIsFinal
<1> QED BY <1>1, <1>2, <1>3, <1>4, <1>5 DEF IInv

LEMMA StartRunKeeps ==
  ASSUME IInv, NEW r \in Runs, StartRun(r)
  PROVE  IInv'
<1> DEFINE this == Fresh({f \in Files : fstate[f] \in {"pending", "failed"}})
<1>1. this \in RunTypes BY DEF Fresh, RunTypes, Calls
<1>2. this.active = 0 /\ \A f \in Files : this.call[f] = "idle" BY DEF Fresh
<1>3. UnderWayOf(this) = {} BY <1>2 DEF UnderWayOf
<1>4. Counted(this) BY <1>2, <1>3, FS_EmptySet, TransferAssumption DEF Counted
<1>5. Pump(r, this) BY DEF StartRun
<1>6. UNCHANGED <<sessionVars, canceled, done, uploads>> /\ alone' \in [Runs -> BOOLEAN]
  BY DEF StartRun
<1> HIDE DEF this
<1> QED BY <1>1, <1>2, <1>4, <1>5, <1>6, PumpKeeps

LEMMA ContinueKeeps ==
  ASSUME IInv, NEW r \in Runs, NEW f \in Files, Continue(r, f)
  PROVE  IInv'
<1> DEFINE this == [run[r] EXCEPT !.active = @ - 1, !.call[f] = "idle"]
<1>1. run[r] \in RunTypes /\ Counted(run[r]) /\ run[r].call[f] = "ended"
  BY DEF IInv, Types, Continue
<1>2. /\ run[r].active \in Nat /\ run[r].call \in [Files -> Calls]
      /\ run[r].queue \in SUBSET Files
  BY <1>1 DEF RunTypes
<1>3. /\ this.active = run[r].active - 1
      /\ this.call = [run[r].call EXCEPT ![f] = "idle"]
      /\ this.queue = run[r].queue
      /\ this = [run[r] EXCEPT !.active = run[r].active - 1,
                               !.call = [run[r].call EXCEPT ![f] = "idle"]]
  BY <1>1 DEF RunTypes
<1>4. UnderWayOf(this) = UnderWayOf(run[r]) \ {f} /\ f \in UnderWayOf(run[r])
  <2> HIDE DEF this
  <2> QED BY <1>1, <1>2, <1>3 DEF UnderWayOf
<1>5. /\ Cardinality(UnderWayOf(run[r]) \ {f}) = run[r].active - 1
      /\ run[r].active - 1 \in Nat
  <2>1. UnderWayOf(run[r]) \in SUBSET Files /\ UnderWayOf(run[r]) \ {f} \in SUBSET Files
    BY DEF UnderWayOf
  <2>2. IsFiniteSet(UnderWayOf(run[r])) /\ Cardinality(UnderWayOf(run[r]) \ {f}) \in Nat
    BY <2>1, SetOfFiles, FileCountAssumption
  <2>3. Cardinality(UnderWayOf(run[r]) \ {f}) = Cardinality(UnderWayOf(run[r])) - 1
    BY <1>4, <2>2, FS_RemoveElement
  <2> QED BY <1>1, <2>2, <2>3 DEF Counted
<1>6. this \in RunTypes
  <2>1. [run[r].call EXCEPT ![f] = "idle"] \in [Files -> Calls] BY <1>2 DEF Calls
  <2> HIDE DEF this
  <2> QED BY <1>1, <1>3, <1>5, <2>1 DEF RunTypes
<1>7. Pump(r, this) BY DEF Continue
<1>8. /\ UNCHANGED <<sessionVars, canceled, done, uploads>>
      /\ alone' \in [Runs -> BOOLEAN]
  BY DEF Continue, IInv, Types
<1> HIDE DEF this
<1>9. Counted(this)
  BY <1>1, <1>2, <1>3, <1>4, <1>5, TransferAssumption DEF Counted
<1>10. \A g \in Files : this.call[g] = "ok" => run[r].call[g] = "ok"
  BY <1>2, <1>3
<1> QED BY <1>6, <1>7, <1>8, <1>9, <1>10, PumpKeeps

LEMMA ServeKeeps ==
  ASSUME IInv, NEW r \in Runs, NEW f \in Files, Serve(r, f)
  PROVE  IInv'
<1>1. PICK valid \in BOOLEAN :
        /\ PutObject(f, valid)
        /\ run' = [run EXCEPT ![r].call[f] = PutAnswer(f, valid)]
  BY DEF Serve
<1> DEFINE answer == PutAnswer(f, valid)
<1>2. answer \in Answers BY DEF PutAnswer, Answers
<1>3. UNCHANGED <<status, canceled, cleaning, fstate, done, uploads, session, alone>>
  BY <1>1 DEF Serve, transferVars, PutObject
<1>4. answer = "ok" =>
        session = "open" /\ f \notin objects /\ objects' = objects \cup {f}
        /\ completed' = completed + 1
  BY <1>1 DEF PutObject, PutAnswer, Replayed
<1>5. answer # "ok" => objects' = objects /\ completed' = completed
  BY <1>1 DEF PutObject
<1> HIDE DEF answer
<1>6. /\ run' \in [Runs -> RunTypes]
      /\ \A s \in Runs : Counted(run'[s])
      /\ \A s \in Runs, g \in Files :
           run'[s].call[g] = IF s = r /\ g = f THEN answer ELSE run[s].call[g]
  <2>1. run[r].call[f] # "idle" /\ answer \in Calls \ {"idle"}
    BY <1>2 DEF Serve, Calls, Answers
  <2>2. PutStep(r, f, answer) BY <1>1, <2>1 DEF answer, PutStep
  <2>3. Types /\ \A s \in Runs : Counted(run[s]) BY DEF IInv
  <2> QED BY <2>1, <2>2, <2>3, PutStepCounts
<1>7. Types' BY <1>3, <1>4, <1>5, <1>6 DEF IInv, Types
<1>8. Store'
  <2>1. IsFiniteSet(objects) /\ objects \in SUBSET Files
    BY SetOfFiles, FileCountAssumption DEF IInv, Types
  <2>2. answer = "ok" => Cardinality(objects') = Cardinality(objects) + 1
    BY <2>1, <1>4, FS_AddElement
  <2> QED BY <2>2, <1>3, <1>4, <1>5 DEF IInv, Store
<1>9. Acks'
  <2>1. Acknowledged' = Acknowledged BY <1>3 DEF Acknowledged
  <2>2. objects \subseteq objects' BY <1>4, <1>5
  <2>3. answer = "ok" =>
          /\ uploads[f] = 0
          /\ \A s \in Runs : run[s].call[f] # "ok"
    BY <1>4 DEF IInv, Acks, Types
  <2> QED BY <2>1, <2>2, <2>3, <1>3, <1>4, <1>6 DEF IInv, Acks
<1>10. Status' BY <1>3 DEF IInv, Status, CanceledIsFinal
<1> QED BY <1>6, <1>7, <1>8, <1>9, <1>10 DEF IInv

LEMMA AnsweredKeeps ==
  ASSUME IInv, NEW r \in Runs, NEW f \in Files, Answered(r, f)
  PROVE  IInv'
<1> DEFINE ok == run[r].call[f] = "ok"
<1>1. /\ run[r].call[f] \in Answers
      /\ fstate' = [fstate EXCEPT ![f] = IF ok THEN "completed" ELSE "failed"]
      /\ done' = IF ok THEN done + 1 ELSE done
      /\ uploads' = [uploads EXCEPT ![f] = IF ok THEN uploads[f] + 1 ELSE uploads[f]]
      /\ run' = [run EXCEPT ![r].call[f] = "ended"]
      /\ UNCHANGED <<session, objects, completed, status, canceled, cleaning, alone>>
  BY DEF Answered, sessionVars
<1>2. /\ run' \in [Runs -> RunTypes]
      /\ \A s \in Runs : Counted(run'[s])
      /\ \A s \in Runs, g \in Files :
           run'[s].call[g] = IF s = r /\ g = f THEN "ended" ELSE run[s].call[g]
  <2>1. run[r].call[f] # "idle" /\ "ended" \in Calls \ {"idle"}
    BY <1>1 DEF Calls, Answers
  <2>2. PutStep(r, f, "ended") BY <1>1, <2>1 DEF PutStep
  <2>3. Types /\ \A s \in Runs : Counted(run[s]) BY DEF IInv
  <2> QED BY <2>1, <2>2, <2>3, PutStepCounts
<1>3. ok => uploads[f] = 0 /\ (f \in objects \/ session = "gone")
            /\ \A s \in Runs : run[s].call[f] = "ok" => s = r
  BY DEF IInv, Acks
<1> HIDE DEF ok
<1>4. uploads' = IF ok THEN [uploads EXCEPT ![f] = 1] ELSE uploads
  <2>1. ok => uploads[f] + 1 = 1 BY <1>3
  <2> QED BY <1>1, <2>1 DEF IInv, Types
<1>5. Types' BY <1>1, <1>2, <1>4 DEF IInv, Types
<1>6. Store' BY <1>1 DEF IInv, Store
<1>7. done' = Cardinality(Acknowledged')
  <2>1. CASE ok
    <3>1. Acknowledged' = Acknowledged \cup {f} /\ f \notin Acknowledged
      BY <2>1, <1>3, <1>4 DEF Acknowledged, IInv, Types
    <3>2. IsFiniteSet(Acknowledged)
      BY SetOfFiles, FileCountAssumption DEF Acknowledged
    <3> QED BY <2>1, <3>1, <3>2, <1>1, FS_AddElement DEF IInv, Acks
  <2>2. CASE ~ok
    <3>1. Acknowledged' = Acknowledged BY <2>2, <1>4 DEF Acknowledged
    <3> QED BY <2>2, <3>1, <1>1 DEF IInv, Acks
  <2> QED BY <2>1, <2>2
<1>8. Acks'
  <2>1. \A g \in Files : uploads'[g] = IF ok /\ g = f THEN 1 ELSE uploads[g]
    BY <1>4 DEF IInv, Types
  <2>2. \A g \in Files : uploads'[g] = 1 => g \in objects' \/ session' = "gone"
    BY <2>1, <1>1, <1>3 DEF IInv, Acks
  <2>3. \A g \in Files : fstate'[g] = "completed" => uploads'[g] = 1
    BY <2>1, <1>1 DEF IInv, Acks, Types
  <2>4. \A s \in Runs, g \in Files : run'[s].call[g] = "ok" =>
          /\ uploads'[g] = 0
          /\ g \in objects' \/ session' = "gone"
          /\ \A t \in Runs : run'[t].call[g] = "ok" => t = s
    BY <2>1, <1>1, <1>2, <1>3 DEF IInv, Acks, ok
  <2> QED BY <1>7, <2>2, <2>3, <2>4 DEF Acks
<1>9. Status'
  <2>1. CASE ok
    <3>1. f \notin Acknowledged BY <2>1, <1>3 DEF Acknowledged
    <3>2. Acknowledged # Files /\ Acknowledged \in SUBSET Files
      BY <3>1 DEF Acknowledged
    <3>3. done # FileCount BY <3>2, SetOfFiles DEF IInv, Acks
    <3> QED BY <3>3, <1>1 DEF IInv, Status, CanceledIsFinal
  <2>2. CASE ~ok BY <2>2, <1>1 DEF IInv, Status, CanceledIsFinal
  <2> QED BY <2>1, <2>2
<1> QED BY <1>2, <1>5, <1>6, <1>8, <1>9 DEF IInv

LEMMA LostKeeps ==
  ASSUME IInv, NEW r \in Runs, NEW f \in Files, Lost(r, f)
  PROVE  IInv'
<1>1. /\ run[r].call[f] \in Answers \cup {"sent"}
      /\ fstate' = [fstate EXCEPT ![f] = "failed"]
      /\ run' = [run EXCEPT ![r].call[f] = "ended"]
      /\ UNCHANGED <<session, objects, completed, status, canceled, cleaning, done,
                     uploads, alone>>
  BY DEF Lost, StateAfterLoss, sessionVars
<1>2. /\ run' \in [Runs -> RunTypes]
      /\ \A s \in Runs : Counted(run'[s])
      /\ \A s \in Runs, g \in Files :
           run'[s].call[g] = IF s = r /\ g = f THEN "ended" ELSE run[s].call[g]
  <2>1. run[r].call[f] # "idle" /\ "ended" \in Calls \ {"idle"}
    BY <1>1 DEF Calls, Answers
  <2>2. PutStep(r, f, "ended") BY <1>1, <2>1 DEF PutStep
  <2>3. Types /\ \A s \in Runs : Counted(run[s]) BY DEF IInv
  <2> QED BY <2>1, <2>2, <2>3, PutStepCounts
<1>3. Types' BY <1>1, <1>2 DEF IInv, Types
<1>4. Store' BY <1>1 DEF IInv, Store
<1>5. Acks'
  <2>1. Acknowledged' = Acknowledged BY <1>1 DEF Acknowledged
  <2>2. \A g \in Files : fstate'[g] = "completed" => fstate[g] = "completed"
    BY <1>1 DEF IInv, Types
  <2>3. \A s \in Runs, g \in Files : run'[s].call[g] = "ok" => run[s].call[g] = "ok"
    BY <1>2
  <2> QED BY <2>1, <2>2, <2>3, <1>1 DEF IInv, Acks
<1>6. Status' BY <1>1 DEF IInv, Status, CanceledIsFinal
<1> QED BY <1>2, <1>3, <1>4, <1>5, <1>6 DEF IInv

LEMMA CancelKeeps == IInv /\ Cancel => IInv'
<1> SUFFICES ASSUME IInv, Cancel PROVE IInv'
  OBVIOUS
<1> USE DEF Cancel, CanceledByCancel, sessionVars
<1>1. Types' BY DEF IInv, Types
<1>2. \A s \in Runs : Counted(run'[s]) BY DEF IInv
<1>3. Store' BY DEF IInv, Store
<1>4. Acks' BY DEF IInv, Acks, Acknowledged
<1>5. Status' BY DEF Status, CanceledIsFinal
<1> QED BY <1>1, <1>2, <1>3, <1>4, <1>5 DEF IInv

LEMMA ResumeKeeps ==
  ASSUME IInv, NEW same \in SUBSET Files, ResumeAfterRestart(same)
  PROVE  IInv'
<1>1. /\ status' \in {status, "uploading"}
      /\ \A f \in Files : fstate'[f] \in {fstate[f], "pending"}
      /\ fstate' \in [Files -> {"pending", "uploading", "completed", "failed"}]
      /\ alone' \in [Runs -> BOOLEAN]
      /\ UNCHANGED <<session, objects, completed, canceled, cleaning, done, uploads, run>>
  BY DEF ResumeAfterRestart, sessionVars, IInv, Types
<1>2. Types' BY <1>1 DEF IInv, Types
<1>3. \A s \in Runs : Counted(run'[s]) BY <1>1 DEF IInv
<1>4. Store' BY <1>1 DEF IInv, Store
<1>5. Acks' BY <1>1 DEF IInv, Acks, Acknowledged
<1>6. Status' BY <1>1 DEF IInv, Status, CanceledIsFinal
<1> QED BY <1>2, <1>3, <1>4, <1>5, <1>6 DEF IInv

LEMMA ServeCleanupKeeps == IInv /\ ServeCleanup => IInv'
<1> SUFFICES ASSUME IInv, ServeCleanup PROVE IInv'
  OBVIOUS
<1> USE DEF ServeCleanup, CleanUp
<1>1. Types' BY DEF IInv, Types
<1>2. \A s \in Runs : Counted(run'[s]) BY DEF IInv
<1>3. Store' BY FS_EmptySet DEF IInv, Store
<1>4. Acks' BY DEF IInv, Acks, Acknowledged
<1>5. Status' BY DEF IInv, Status, CanceledIsFinal
<1> QED BY <1>1, <1>2, <1>3, <1>4, <1>5 DEF IInv

\* A step that changes nothing keeps the invariant.
LEMMA StutterKeeps == IInv /\ UNCHANGED vars => IInv'
<1> SUFFICES ASSUME IInv, UNCHANGED vars PROVE IInv'
  OBVIOUS
<1> USE DEF vars, sessionVars, transferVars
<1>1. Types' BY DEF IInv, Types
<1>2. \A s \in Runs : Counted(run'[s]) BY DEF IInv
<1>3. Store' BY DEF IInv, Store
<1>4. Acks' BY DEF IInv, Acks, Acknowledged
<1>5. Status' BY DEF IInv, Status, CanceledIsFinal
<1> QED BY <1>1, <1>2, <1>3, <1>4, <1>5 DEF IInv

-----------------------------------------------------------------------------
\* Theorems.

\* The invariant holds of every behaviour of the transfer and its session.
THEOREM TransferInvariant == Spec => []IInv
<1>1. IInv /\ [Next]_vars => IInv'
  <2> SUFFICES ASSUME IInv, [Next]_vars PROVE IInv'
    OBVIOUS
  <2>1. CASE StartAfterReview BY <2>1, StartAfterReviewKeeps
  <2>2. ASSUME NEW r \in Runs, StartRun(r) PROVE IInv'
    BY <2>2, StartRunKeeps
  <2>3. ASSUME NEW r \in Runs, NEW f \in Files, Serve(r, f) PROVE IInv'
    BY <2>3, ServeKeeps
  <2>4. ASSUME NEW r \in Runs, NEW f \in Files, Answered(r, f) PROVE IInv'
    BY <2>4, AnsweredKeeps
  <2>5. ASSUME NEW r \in Runs, NEW f \in Files, Lost(r, f) PROVE IInv'
    BY <2>5, LostKeeps
  <2>6. ASSUME NEW r \in Runs, NEW f \in Files, Continue(r, f) PROVE IInv'
    BY <2>6, ContinueKeeps
  <2>7. CASE Cancel BY <2>7, CancelKeeps
  <2>8. ASSUME NEW same \in SUBSET Files, ResumeAfterRestart(same) PROVE IInv'
    BY <2>8, ResumeKeeps
  <2>9. CASE ServeCleanup BY <2>9, ServeCleanupKeeps
  <2>10. CASE UNCHANGED vars BY <2>10, StutterKeeps
  <2> QED BY <2>1, <2>2, <2>3, <2>4, <2>5, <2>6, <2>7, <2>8, <2>9, <2>10 DEF Next
<1> QED BY InitEstablishes, <1>1, PTL DEF Spec

LEMMA InvariantGivesTypes == IInv => TransferTypeOK
<1> SUFFICES ASSUME IInv PROVE TransferTypeOK
  OBVIOUS
<1>1. completed \in 0 .. FileCount
  BY SetOfFiles DEF IInv, Types, Store
<1>2. done \in 0 .. FileCount
  <2>1. Acknowledged \in SUBSET Files BY DEF Acknowledged
  <2> QED BY <2>1, SetOfFiles DEF IInv, Acks
<1>3. \A r \in Runs :
        run[r].active = Cardinality(UnderWay(r)) /\ run[r].active <= Concurrency
  BY DEF IInv, Counted, UnderWay, UnderWayOf
<1> QED BY <1>1, <1>2, <1>3 DEF IInv, Types, TransferTypeOK, SessionTypes

\* The types, and the count of every run's uploads within its bound, hold for any
\* number of files, runs and places (pump).
THEOREM TransferTypes == Spec => []TransferTypeOK
BY TransferInvariant, InvariantGivesTypes, PTL

\* Progress counts exactly the files whose bytes the service acknowledged, once
\* each, and holds (uploadOne and putObject).
THEOREM TransferProgress == Spec => []ProgressIsHonest
<1>1. IInv => ProgressIsHonest
  BY DEF IInv, Acks, Acknowledged, ProgressIsHonest
<1> QED BY <1>1, TransferInvariant, PTL

\* A transfer that reports completed has every object in a session that can be
\* completed (pump and completeSession).
THEOREM TransferCompletes == Spec => []CompletedIsStored
<1>1. IInv => CompletedIsStored
  <2> SUFFICES ASSUME IInv, status = "completed"
               PROVE  Completable /\ objects = Files
    BY DEF CompletedIsStored
  <2>1. done = FileCount /\ ~canceled
    BY DEF IInv, Types, Status, CanceledIsFinal
  <2>2. Acknowledged = Files
    <3>1. Acknowledged \in SUBSET Files BY DEF Acknowledged
    <3> QED BY <3>1, <2>1, SetOfFiles DEF IInv, Acks
  <2>3. session # "gone" BY <2>1 DEF IInv, Store
  <2>4. objects = Files BY <2>2, <2>3 DEF IInv, Acks, Acknowledged, Types
  <2>5. completed = FileCount BY <2>4, FilesAreFinite DEF IInv, Store
  <2>6. session # "none" BY <2>5, FileCountAssumption, FS_EmptySet DEF IInv, Store
  <2> QED BY <2>3, <2>4, <2>5, <2>6 DEF Completable, IInv, Types
<1> QED BY <1>1, TransferInvariant, PTL

\* No canceled transfer completes or fails afterwards (cancel and pump).
THEOREM TransferStaysCanceled == Spec => []CanceledIsFinal
<1>1. IInv => CanceledIsFinal BY DEF IInv, Status
<1> QED BY <1>1, TransferInvariant, PTL

\* The progress that is reported counts the files that are stored, and a transfer is
\* complete when the session holds every one (transfer-manager.js:76-150).
THEOREM TransferReportsHonestly == Spec => []ReportIsHonest
<1>1. TransferTypeOK /\ ProgressIsHonest /\ CompletedIsStored => ReportIsHonest
  BY DEF ReportIsHonest
<1> QED
  BY <1>1, TransferTypes, TransferProgress, TransferCompletes, PTL

-----------------------------------------------------------------------------
(* The repository and the poller. *)

JobRecords == [status : JobStatuses, version : Nat, reportAvailable : BOOLEAN]
Copies     == [name : Names, version : Nat, status : JobStatuses]

\* The ways of a job: along the path, and at the end of its log a failure or a
\* cancellation.
Way(log) ==
  \E k \in 1..8 :
    /\ \A i \in 1..k : log[i] = Path[i]
    /\ \/ Len(log) = k
       \/ Len(log) = 2 /\ k = 1 /\ log[2] = "canceled"
       \/ Len(log) = k + 1 /\ k \in 2..7 /\ log[k + 1] \in {"failed", "cancel-requested"}
       \/ /\ Len(log) = k + 2 /\ k \in 2..7
          /\ log[k + 1] = "cancel-requested" /\ log[k + 2] \in {"canceled", "failed"}

\* A job is where its log ends.
LogFits(n) ==
  /\ Way(events[n])
  /\ job[n].version = Len(events[n]) - 1
  /\ job[n].status = events[n][Len(events[n])]

\* What a writer has read is an entry of the log.
CopyFits(w) ==
  LET n == copy[w].name
  IN
  /\ job[n] # NoJob /\ copy[w].version <= job[n].version
  /\ copy[w].status = events[n][copy[w].version + 1]

RepoInv ==
  /\ job \in [Names -> JobRecords \cup {NoJob}]
  /\ events \in [Names -> Seq(JobStatuses)]
  /\ copy \in [Writers -> Copies \cup {NoCopy}]
  /\ \A n \in Names : job[n] # NoJob => LogFits(n)
  /\ \A w \in Writers : copy[w] # NoCopy => CopyFits(w)

UnderWayAt == {"loop", "sent", "answered"}

\* What a tick still has to say of the jobs that are polled, unless stop was called;
\* and once it was, only an answer that was awaited then is passed on.
TickFits ==
  /\ ~stopCalled =>
       /\ lateUpdates = {}
       /\ tick.job # "none" => tick.job \in active
       /\ tick.at \in UnderWayAt =>
            \A j \in active :
              j \in tick.todo \cup tick.still \cup {tick.job} \/ lastSeen[j] # "open"
  /\ stopCalled => stopped /\ (tick.at \in UnderWayAt => active = {})
  /\ lateUpdates # {} => tick.at \notin {"sent", "answered"}
  /\ \A i, j \in lateUpdates : i = j

\* A cancellation that is remembered was told to the owner, also when a projection of
\* it is still on its way or was the last one.
WithdrawnWereTold ==
  /\ \A j \in Jobs : rows[j] # NoRow /\ rows[j].terminalCancel => j \in claimed
  /\ tick.sight = "withdrawn" => tick.at = "answered" /\ tick.job \in claimed
  /\ \A j \in Jobs : lastSeen[j] = "withdrawn" => j \in claimed

PollingInv ==
  /\ TrackingTypeOK /\ stage \in [Jobs -> 0..4]
  /\ lateUpdates \subseteq Jobs /\ lastSeen \in [Jobs -> Sights]
  /\ WithdrawnWereTold
  /\ DroppedWereFinal /\ TickFits

\* The inductive invariant.
TrackingInv == RepoInv /\ PollingInv

-----------------------------------------------------------------------------
\* The repository.

LEMMA PathFacts ==
  /\ Len(Path) = 8 /\ Path \in Seq(JobStatuses)
  /\ Path[1] = "draft" /\ Path[2] = "uploading" /\ Path[3] = "uploaded"
  /\ Path[4] = "validating" /\ Path[5] = "queued" /\ Path[6] = "submitting"
  /\ Path[7] = "awaiting-report" /\ Path[8] = "succeeded"
BY DEF Path, JobStatuses, Ended

\* Where a job may go.
LEMMA TransitionFacts ==
  /\ Transitions("draft") = {Path[2], "canceled"}
  /\ \A k \in 2..7 : Transitions(Path[k]) = {Path[k + 1], "failed", "cancel-requested"}
  /\ Transitions("cancel-requested") = {"canceled", "failed"}
  /\ \A st \in Ended : Transitions(st) = {}
<1>1. \A k \in 2..7 : k = 2 \/ k = 3 \/ k = 4 \/ k = 5 \/ k = 6 \/ k = 7 OBVIOUS
<1>2. \A k \in 2..7 : Transitions(Path[k]) = {Path[k + 1], "failed", "cancel-requested"}
  <2> SUFFICES ASSUME NEW k \in 2..7
               PROVE  Transitions(Path[k]) = {Path[k + 1], "failed", "cancel-requested"}
    OBVIOUS
  <2>1. CASE k = 2 BY <2>1, PathFacts DEF Transitions
  <2>2. CASE k = 3 BY <2>2, PathFacts DEF Transitions
  <2>3. CASE k = 4 BY <2>3, PathFacts DEF Transitions
  <2>4. CASE k = 5 BY <2>4, PathFacts DEF Transitions
  <2>5. CASE k = 6 BY <2>5, PathFacts DEF Transitions
  <2>6. CASE k = 7 BY <2>6, PathFacts DEF Transitions
  <2> QED BY <1>1, <2>1, <2>2, <2>3, <2>4, <2>5, <2>6
<1>3. Transitions("draft") = {Path[2], "canceled"} BY PathFacts DEF Transitions
<1>4. Transitions("cancel-requested") = {"canceled", "failed"} BY DEF Transitions
<1>5. \A st \in Ended : Transitions(st) = {} BY DEF Transitions, Ended
<1> QED BY <1>2, <1>3, <1>4, <1>5

LEMMA AppendFacts ==
  ASSUME NEW S, NEW s \in Seq(S), NEW e \in S
  PROVE  /\ Append(s, e) \in Seq(S) /\ Len(Append(s, e)) = Len(s) + 1
         /\ \A i \in 1..Len(s) : Append(s, e)[i] = s[i]
         /\ Append(s, e)[Len(s) + 1] = e
         /\ Len(s) \in Nat
OBVIOUS

\* A transition leads on along a way.
LEMMA WayGoesOn ==
  ASSUME NEW log \in Seq(JobStatuses), Way(log),
         NEW to \in JobStatuses, to \in Transitions(log[Len(log)])
  PROVE  Way(Append(log, to))
<1> DEFINE more == Append(log, to)
<1>1. PICK k \in 1..8 :
        /\ \A i \in 1..k : log[i] = Path[i]
        /\ \/ Len(log) = k
           \/ Len(log) = 2 /\ k = 1 /\ log[2] = "canceled"
           \/ Len(log) = k + 1 /\ k \in 2..7 /\ log[k + 1] \in {"failed", "cancel-requested"}
           \/ /\ Len(log) = k + 2 /\ k \in 2..7
              /\ log[k + 1] = "cancel-requested" /\ log[k + 2] \in {"canceled", "failed"}
  BY DEF Way
<1>2. /\ Len(more) = Len(log) + 1 /\ more[Len(log) + 1] = to
      /\ \A i \in 1..Len(log) : more[i] = log[i]
  BY AppendFacts
<1> HIDE DEF more
<1>3. Len(log) >= k BY <1>1
<1>4. \A i \in 1..k : more[i] = Path[i] BY <1>1, <1>2, <1>3
<1>5. CASE Len(log) = k
  <2>1. log[Len(log)] = Path[k] BY <1>1, <1>5
  <2>2. CASE k = 1
    <3>1. to \in {Path[2], "canceled"} BY <2>1, <2>2, TransitionFacts, PathFacts
    <3>2. CASE to = "canceled"
      <4>1. Len(more) = 2 /\ more[2] = "canceled" BY <1>2, <1>5, <2>2, <3>2
      <4> QED BY <1>4, <2>2, <4>1 DEF Way, more
    <3>3. CASE to = Path[2]
      <4>1. \A i \in 1..2 : more[i] = Path[i] BY <1>2, <1>4, <1>5, <2>2, <3>3
      <4>2. Len(more) = 2 BY <1>2, <1>5, <2>2
      <4> QED BY <4>1, <4>2 DEF Way, more
    <3> QED BY <3>1, <3>2, <3>3 DEF more
  <2>3. CASE k \in 2..7
    <3>1. to \in {Path[k + 1], "failed", "cancel-requested"} BY <2>1, <2>3, TransitionFacts
    <3>2. CASE to \in {"failed", "cancel-requested"}
      <4>1. Len(more) = k + 1 /\ more[k + 1] \in {"failed", "cancel-requested"}
        BY <1>2, <1>5, <3>2
      <4> QED BY <1>4, <2>3, <4>1 DEF Way, more
    <3>3. CASE to = Path[k + 1]
      <4>1. \A i \in 1..k + 1 : more[i] = Path[i] BY <1>2, <1>4, <1>5, <3>3
      <4>2. Len(more) = k + 1 /\ k + 1 \in 1..8 BY <1>2, <1>5, <2>3
      <4> QED BY <4>1, <4>2 DEF Way, more
    <3> QED BY <3>1, <3>2, <3>3 DEF more
  <2>4. CASE k = 8 BY <2>1, <2>4, TransitionFacts, PathFacts DEF Ended
  <2> QED BY <2>2, <2>3, <2>4
<1>6. CASE Len(log) = 2 /\ k = 1 /\ log[2] = "canceled"
  BY <1>6, TransitionFacts DEF Ended
<1>7. CASE Len(log) = k + 1 /\ k \in 2..7 /\ log[k + 1] \in {"failed", "cancel-requested"}
  <2>1. CASE log[k + 1] = "failed" BY <1>7, <2>1, TransitionFacts DEF Ended
  <2>2. CASE log[k + 1] = "cancel-requested"
    <3>1. to \in {"canceled", "failed"} BY <1>7, <2>2, TransitionFacts
    <3>2. Len(more) = k + 2 /\ more[k + 1] = "cancel-requested" /\ more[k + 2] = to
      BY <1>2, <1>7, <2>2
    <3> QED BY <1>4, <1>7, <3>1, <3>2 DEF Way, more
  <2> QED BY <1>7, <2>1, <2>2
<1>8. CASE /\ Len(log) = k + 2 /\ k \in 2..7
           /\ log[k + 1] = "cancel-requested" /\ log[k + 2] \in {"canceled", "failed"}
  BY <1>8, TransitionFacts DEF Ended
<1> QED BY <1>1, <1>5, <1>6, <1>7, <1>8

\* What a log on a way tells.
LEMMA WayTells ==
  ASSUME NEW log \in Seq(JobStatuses), Way(log)
  PROVE  /\ Len(log) \in Nat \ {0}
         /\ \A i, k \in 1..Len(log) : log[i] = log[k] => i = k
         /\ log[Len(log)] = "succeeded" => log = Path
         /\ log[Len(log)] = "canceled" => log[Len(log) - 1] \in {"draft", "cancel-requested"}
<1>1. PICK k \in 1..8 :
        /\ \A i \in 1..k : log[i] = Path[i]
        /\ \/ Len(log) = k
           \/ Len(log) = 2 /\ k = 1 /\ log[2] = "canceled"
           \/ Len(log) = k + 1 /\ k \in 2..7 /\ log[k + 1] \in {"failed", "cancel-requested"}
           \/ /\ Len(log) = k + 2 /\ k \in 2..7
              /\ log[k + 1] = "cancel-requested" /\ log[k + 2] \in {"canceled", "failed"}
  BY DEF Way
<1>2. \A i, m \in 1..8 : Path[i] = Path[m] => i = m BY PathFacts
<1>3. \A i \in 1..8 :
        /\ Path[i] \notin {"failed", "canceled", "cancel-requested"}
        /\ Path[i] = "succeeded" => i = 8
  BY PathFacts
<1>4. CASE Len(log) = k
  <2>1. log[Len(log)] = Path[k] BY <1>1, <1>4
  <2>2. log[Len(log)] = "succeeded" => log = Path
    <3> SUFFICES ASSUME log[Len(log)] = "succeeded" PROVE log = Path OBVIOUS
    <3>1. k = 8 BY <1>3, <2>1
    <3> QED BY <1>1, <1>4, <3>1, PathFacts, SeqEqual
  <2> QED BY <1>1, <1>2, <1>3, <1>4, <2>1, <2>2
<1>5. CASE Len(log) = 2 /\ k = 1 /\ log[2] = "canceled"
  <2>1. log[1] = "draft" BY <1>1, <1>5, PathFacts
  <2> QED BY <1>5, <2>1
<1>6. CASE Len(log) = k + 1 /\ k \in 2..7 /\ log[k + 1] \in {"failed", "cancel-requested"}
  <2>1. \A i \in 1..Len(log) : i \in 1..k \/ i = k + 1 BY <1>6
  <2> QED BY <1>1, <1>2, <1>3, <1>6, <2>1
<1>7. CASE /\ Len(log) = k + 2 /\ k \in 2..7
           /\ log[k + 1] = "cancel-requested" /\ log[k + 2] \in {"canceled", "failed"}
  <2>1. \A i \in 1..Len(log) : i \in 1..k \/ i = k + 1 \/ i = k + 2 BY <1>7
  <2> QED BY <1>1, <1>2, <1>3, <1>7, <2>1
<1> QED BY <1>1, <1>4, <1>5, <1>6, <1>7

LEMMA RepoInitFits == RepoInit => RepoInv
BY DEF RepoInit, RepoInv, LogFits, CopyFits

\* The records with a status.
LEMMA JobFacts ==
  ASSUME RepoInv, NEW n \in Names, job[n] # NoJob
  PROVE  job[n] \in JobRecords /\ job[n].status \in JobStatuses /\ job[n].version \in Nat
BY DEF RepoInv, JobRecords

\* What writers have read stays true when a log grows.
LEMMA CopiesStay ==
  ASSUME RepoInv, copy' = copy, NEW n \in Names, job[n] # NoJob,
         job'[n] # NoJob, job'[n].version \in Nat, job[n].version <= job'[n].version,
         \A m \in Names : m # n => job'[m] = job[m] /\ events'[m] = events[m],
         \A i \in 1..Len(events[n]) : events'[n][i] = events[n][i]
  PROVE  \A w \in Writers : copy'[w] # NoCopy => CopyFits(w)'
<1> SUFFICES ASSUME NEW w \in Writers, copy[w] # NoCopy PROVE CopyFits(w)'
  OBVIOUS
<1>1. CopyFits(w) /\ copy[w] \in Copies BY DEF RepoInv
<1>2. copy[w].name \in Names /\ copy[w].version \in Nat BY <1>1 DEF Copies
<1>3. CASE copy[w].name = n
  <2>1. LogFits(n) /\ events[n] \in Seq(JobStatuses) BY DEF RepoInv
  <2>2. Len(events[n]) \in Nat BY <2>1, LenProperties
  <2>3. copy[w].version <= job[n].version /\ job[n].version = Len(events[n]) - 1
    BY <1>1, <1>3, <2>1 DEF CopyFits, LogFits
  <2>4. copy[w].version + 1 \in 1..Len(events[n]) BY <1>2, <2>2, <2>3
  <2>5. events'[n][copy[w].version + 1] = copy[w].status
    BY <1>1, <1>3, <2>4 DEF CopyFits
  <2>6. copy[w].version <= job'[n].version BY <1>2, <2>2, <2>3
  <2> QED BY <1>3, <2>5, <2>6 DEF CopyFits
<1>4. CASE copy[w].name # n
  BY <1>1, <1>2, <1>4 DEF CopyFits
<1> QED BY <1>3, <1>4

\* A transition.
LEMMA MoveKeeps ==
  ASSUME RepoInv, NEW n \in Names, NEW to \in JobStatuses, job[n] # NoJob,
         Move(n, to), UNCHANGED copy
  PROVE  RepoInv'
<1>1. /\ job[n] \in JobRecords /\ LogFits(n) /\ events[n] \in Seq(JobStatuses)
      /\ job[n].version \in Nat
  BY JobFacts DEF RepoInv
<1> DEFINE moved == [ status |-> to, version |-> job[n].version + 1,
                      reportAvailable |-> job[n].reportAvailable /\ to # "succeeded" ]
<1>2. /\ job' = [job EXCEPT ![n] = moved]
      /\ events' = [events EXCEPT ![n] = Append(events[n], to)]
  BY DEF Move, VersionAfter
<1>3. moved \in JobRecords
  <2>1. (job[n].reportAvailable /\ to # "succeeded") \in BOOLEAN OBVIOUS
  <2> QED BY <1>1, <2>1 DEF JobRecords
<1>4. moved # NoJob /\ moved.version = job[n].version + 1 /\ moved.status = to
  <2>1. to # "none" BY DEF JobStatuses, Ended
  <2> QED BY <2>1 DEF NoJob
<1> HIDE DEF moved
<1>5. /\ job' \in [Names -> JobRecords \cup {NoJob}]
      /\ \A m \in Names : job'[m] = IF m = n THEN moved ELSE job[m]
  BY <1>2, <1>3 DEF RepoInv
<1>6. Append(events[n], to) \in Seq(JobStatuses) BY <1>1, AppendFacts
<1>7. /\ events' \in [Names -> Seq(JobStatuses)]
      /\ \A m \in Names : events'[m] = IF m = n THEN Append(events[n], to) ELSE events[m]
  BY <1>2, <1>6 DEF RepoInv
<1>8. LogFits(n)'
  <2>1. Way(Append(events[n], to))
    BY <1>1, WayGoesOn DEF LogFits, Move
  <2>2. /\ Len(Append(events[n], to)) = Len(events[n]) + 1
        /\ Append(events[n], to)[Len(events[n]) + 1] = to
        /\ Len(events[n]) \in Nat
    BY <1>1, AppendFacts
  <2>3. job'[n] = moved /\ events'[n] = Append(events[n], to) BY <1>5, <1>7
  <2>4. job'[n].version = Len(events'[n]) - 1 BY <1>1, <1>4, <2>2, <2>3 DEF LogFits
  <2>5. job'[n].status = events'[n][Len(events'[n])] BY <1>4, <2>2, <2>3
  <2>6. Way(events'[n]) BY <2>1, <2>3
  <2> QED BY <2>4, <2>5, <2>6 DEF LogFits
<1>9. \A m \in Names : job'[m] # NoJob => LogFits(m)'
  <2> SUFFICES ASSUME NEW m \in Names, job'[m] # NoJob, m # n PROVE LogFits(m)'
    BY <1>8
  <2>1. LogFits(m) BY <1>5 DEF RepoInv
  <2> QED BY <1>5, <1>7, <2>1 DEF LogFits
<1>10. \A w \in Writers : copy'[w] # NoCopy => CopyFits(w)'
  <2>1. \A i \in 1..Len(events[n]) : events'[n][i] = events[n][i]
    BY <1>1, <1>7, AppendFacts
  <2>2. job'[n] # NoJob /\ job'[n].version \in Nat /\ job[n].version <= job'[n].version
    BY <1>1, <1>4, <1>5
  <2>3. \A m \in Names : m # n => job'[m] = job[m] /\ events'[m] = events[m]
    BY <1>5, <1>7
  <2> QED BY <2>1, <2>2, <2>3, CopiesStay
<1> QED BY <1>5, <1>7, <1>9, <1>10 DEF RepoInv

LEMMA CreateKeeps ==
  ASSUME RepoInv, NEW n \in Names, CreateJob(n)
  PROVE  RepoInv'
<1> DEFINE made == [status |-> "draft", version |-> 0, reportAvailable |-> FALSE]
<1>1. /\ made \in JobRecords /\ made # NoJob /\ made.version = 0 /\ made.status = "draft"
      /\ <<"draft">> \in Seq(JobStatuses)
  BY DEF JobRecords, JobStatuses, NoJob
<1>2. job' = [job EXCEPT ![n] = made] /\ events' = [events EXCEPT ![n] = <<"draft">>]
  BY DEF CreateJob
<1> HIDE DEF made
<1>3. /\ job' \in [Names -> JobRecords \cup {NoJob}] /\ events' \in [Names -> Seq(JobStatuses)]
      /\ \A m \in Names : /\ job'[m] = IF m = n THEN made ELSE job[m]
                          /\ events'[m] = IF m = n THEN <<"draft">> ELSE events[m]
  BY <1>1, <1>2 DEF RepoInv
<1>4. Way(<<"draft">>)
  <2>1. Len(<<"draft">>) = 1 /\ \A i \in 1..1 : <<"draft">>[i] = Path[i] BY PathFacts
  <2> QED BY <2>1 DEF Way
<1>5. \A m \in Names : job'[m] # NoJob => LogFits(m)'
  <2> SUFFICES ASSUME NEW m \in Names, job'[m] # NoJob PROVE LogFits(m)'
    OBVIOUS
  <2>1. CASE m = n
    <3>1. job'[m] = made /\ events'[m] = <<"draft">> BY <1>3, <2>1
    <3>2. Way(events'[m]) BY <1>4, <3>1
    <3>3. Len(events'[m]) = 1 /\ events'[m][1] = "draft" BY <3>1
    <3> QED BY <1>1, <3>1, <3>2, <3>3 DEF LogFits
  <2>2. CASE m # n
    <3>1. LogFits(m) BY <1>3, <2>2 DEF RepoInv
    <3> QED BY <1>3, <2>2, <3>1 DEF LogFits
  <2> QED BY <2>1, <2>2
<1>6. \A w \in Writers : copy'[w] # NoCopy => CopyFits(w)'
  <2> SUFFICES ASSUME NEW w \in Writers, copy'[w] # NoCopy PROVE CopyFits(w)'
    OBVIOUS
  <2>1. copy' = copy /\ job[n] = NoJob BY DEF CreateJob
  <2>2. CopyFits(w) /\ copy[w].name \in Names BY <2>1 DEF RepoInv, Copies
  <2>3. copy[w].name # n BY <2>1, <2>2 DEF CopyFits
  <2> QED BY <1>3, <2>1, <2>2, <2>3 DEF CopyFits
<1> QED BY <1>3, <1>5, <1>6 DEF RepoInv, CreateJob

LEMMA ReadKeeps ==
  ASSUME RepoInv, NEW w \in Writers, NEW n \in Names, ReadJob(w, n)
  PROVE  RepoInv'
<1> DEFINE read == [name |-> n, version |-> job[n].version, status |-> job[n].status]
<1>1. job[n] # NoJob /\ UNCHANGED <<job, events>> /\ copy' = [copy EXCEPT ![w] = read]
  BY DEF ReadJob
<1>2. read \in Copies BY <1>1, JobFacts DEF Copies
<1>3. read.name = n /\ read.version = job[n].version /\ read.status = job[n].status
  OBVIOUS
<1> HIDE DEF read
<1>4. /\ copy' \in [Writers -> Copies \cup {NoCopy}]
      /\ \A v \in Writers : copy'[v] = IF v = w THEN read ELSE copy[v]
  BY <1>1, <1>2 DEF RepoInv
<1>5. \A v \in Writers : copy'[v] # NoCopy => CopyFits(v)'
  <2> SUFFICES ASSUME NEW v \in Writers, copy'[v] # NoCopy PROVE CopyFits(v)'
    OBVIOUS
  <2>1. CASE v = w
    <3>1. LogFits(n) /\ events[n] \in Seq(JobStatuses) /\ job[n].version \in Nat
      BY <1>1, JobFacts DEF RepoInv
    <3>2. job[n].status = events[n][job[n].version + 1]
      BY <3>1, LenProperties DEF LogFits
    <3> QED BY <1>1, <1>3, <1>4, <2>1, <3>1, <3>2 DEF CopyFits
  <2>2. CASE v # w
    <3>1. CopyFits(v) BY <1>4, <2>2 DEF RepoInv
    <3> QED BY <1>1, <1>4, <2>2, <3>1 DEF CopyFits
  <2> QED BY <2>1, <2>2
<1> QED BY <1>1, <1>4, <1>5 DEF RepoInv, LogFits

LEMMA ReportKeeps ==
  ASSUME RepoInv, NEW n \in Names, NEW available \in BOOLEAN,
         SetReportAvailability(n, available)
  PROVE  RepoInv'
<1>1. job[n] # NoJob /\ job' = [job EXCEPT ![n].reportAvailable = available]
      /\ UNCHANGED <<events, copy>>
  BY DEF SetReportAvailability
<1> DEFINE r == [job[n] EXCEPT !.reportAvailable = available]
<1>2. job[n] \in JobRecords BY <1>1, JobFacts
<1>3. /\ r \in JobRecords /\ r.version = job[n].version /\ r.status = job[n].status
      /\ r # NoJob
  <2>1. r \in JobRecords /\ r.version = job[n].version /\ r.status = job[n].status
    BY <1>2 DEF JobRecords
  <2>2. r.status # "none" BY <1>2, <2>1 DEF JobRecords, JobStatuses, Ended
  <2> QED BY <2>1, <2>2 DEF NoJob
<1>4. job' = [job EXCEPT ![n] = r] BY <1>1
<1> HIDE DEF r
<1>5. /\ job' \in [Names -> JobRecords \cup {NoJob}]
      /\ \A m \in Names : job'[m] = IF m = n THEN r ELSE job[m]
  BY <1>3, <1>4 DEF RepoInv
<1>6. \A m \in Names : job'[m] # NoJob => LogFits(m)'
  <2> SUFFICES ASSUME NEW m \in Names, job'[m] # NoJob PROVE LogFits(m)'
    OBVIOUS
  <2>1. LogFits(m) BY <1>1, <1>5 DEF RepoInv
  <2> QED BY <1>1, <1>3, <1>5, <2>1 DEF LogFits
<1>7. \A w \in Writers : copy'[w] # NoCopy => CopyFits(w)'
  <2> SUFFICES ASSUME NEW w \in Writers, copy'[w] # NoCopy PROVE CopyFits(w)'
    OBVIOUS
  <2>1. CopyFits(w) /\ copy[w].name \in Names BY <1>1 DEF RepoInv, Copies
  <2> QED BY <1>1, <1>3, <1>5, <2>1 DEF CopyFits
<1> QED BY <1>1, <1>5, <1>6, <1>7 DEF RepoInv

LEMMA RepoNextKeeps ==
  ASSUME RepoInv, RepoNext
  PROVE  RepoInv'
<1>1. ASSUME NEW n \in Names, NEW to \in JobStatuses, MoveBlindly(n, to)
      PROVE  RepoInv'
  BY <1>1, MoveKeeps DEF MoveBlindly
<1>2. ASSUME NEW n \in Names, RequestCancelJob(n) PROVE RepoInv'
  BY <1>1, <1>2 DEF RequestCancelJob, JobStatuses, Ended
<1>3. ASSUME NEW w \in Writers, NEW to \in JobStatuses, MoveAsRead(w, to)
      PROVE  RepoInv'
  <2>1. copy[w] # NoCopy BY <1>3 DEF MoveAsRead, NoCopy
  <2>2. CopyFits(w) /\ copy[w].name \in Names BY <2>1 DEF RepoInv, Copies
  <2> QED BY <1>3, <2>2, MoveKeeps DEF MoveAsRead, CopyFits
<1> QED BY <1>1, <1>2, <1>3, CreateKeeps, ReadKeeps, ReportKeeps DEF RepoNext

LEMMA RepoRests ==
  ASSUME RepoInv, UNCHANGED repoVars
  PROVE  RepoInv'
BY DEF RepoInv, LogFits, CopyFits, repoVars

\* The invariant tells all that is asked of the repository.
LEMMA RepoInvTells == RepoInv => RepositoryIsTrue
<1> SUFFICES ASSUME RepoInv PROVE RepositoryIsTrue
  OBVIOUS
<1>1. VersionNamesStatus
  <2> SUFFICES ASSUME NEW w \in Writers, copy[w] # NoCopy
               PROVE  /\ copy[w].version <= job[copy[w].name].version
                      /\ copy[w].version = job[copy[w].name].version =>
                           copy[w].status = job[copy[w].name].status
    BY DEF VersionNamesStatus
  <2> DEFINE n == copy[w].name
  <2>1. CopyFits(w) /\ n \in Names BY DEF RepoInv, Copies
  <2>2. LogFits(n) /\ events[n] \in Seq(JobStatuses) /\ job[n].version \in Nat
    BY <2>1, JobFacts DEF RepoInv, CopyFits
  <2>3. job[n].status = events[n][job[n].version + 1]
    BY <2>2, LenProperties DEF LogFits
  <2> QED BY <2>1, <2>3 DEF CopyFits
<1>2. LogTellsTheWay
  <2> SUFFICES ASSUME NEW n \in Names, job[n] # NoJob
               PROVE  /\ events[n][Len(events[n])] = job[n].status
                      /\ job[n].version = Len(events[n]) - 1
                      /\ \A i, k \in 1..Len(events[n]) : events[n][i] = events[n][k] => i = k
                      /\ job[n].status = "succeeded" => events[n] = Path
                      /\ job[n].status = "canceled" =>
                           events[n][Len(events[n]) - 1] \in {"draft", "cancel-requested"}
    BY DEF LogTellsTheWay
  <2>1. LogFits(n) /\ events[n] \in Seq(JobStatuses) BY DEF RepoInv
  <2> QED BY <2>1, WayTells DEF LogFits
<1> QED BY <1>1, <1>2 DEF RepositoryIsTrue

-----------------------------------------------------------------------------
\* The rows and the poller.

\* A row that is written is a row.
LEMMA UpsertTypes ==
  ASSUME StatusTypeOK, NEW j \in Jobs, NEW st \in Statuses, NEW acc \in BOOLEAN,
         Upsert(j, st, acc),
         \A i \in Jobs : rows[i] # NoRow /\ rows[i].terminalCancel => i \in claimed
  PROVE  /\ StatusTypeOK'
         /\ \A i \in Jobs : rows'[i] # NoRow /\ rows'[i].terminalCancel => i \in claimed'
<1>1. Upserted(j, st, acc) \in Row
  <2>1. rows[j] \in Row \cup {NoRow} BY DEF StatusTypeOK
  <2>2. /\ (acc \/ (rows[j] # NoRow /\ rows[j].queryAccepted)) \in BOOLEAN
        /\ (rows[j] # NoRow /\ rows[j].forgotten) \in BOOLEAN
        /\ (rows[j] # NoRow /\ rows[j].terminalCancel) \in BOOLEAN
    OBVIOUS
  <2> QED BY <2>2 DEF Upserted, Row
<1>2. Upserted(j, st, acc).terminalCancel => rows[j] # NoRow /\ rows[j].terminalCancel
  BY DEF Upserted
<1> HIDE DEF Upserted
<1>3. \A i \in Jobs : rows'[i] = IF i = j THEN Upserted(j, st, acc) ELSE rows[i]
  BY DEF StatusTypeOK, Upsert
<1> QED BY <1>1, <1>2, <1>3 DEF StatusTypeOK, Upsert

LEMMA WriteStatusKeeps ==
  ASSUME TrackingInv, NEW j \in Jobs, WriteStatus(j)
  PROVE  TrackingInv'
<1>1. /\ StatusTypeOK /\ stage[j] \in 0..4
      /\ \A i \in Jobs : rows[i] # NoRow /\ rows[i].terminalCancel => i \in claimed
  BY DEF TrackingInv, PollingInv, TrackingTypeOK, WithdrawnWereTold
<1>2. /\ Len(Stages) = 3 /\ stage[j] < 3
      /\ \A k \in 1..3 : Stages[k] \in Statuses
  BY DEF WriteStatus, Stages, Statuses, Terminal
<1>3. PICK to \in {stage[j] + 1, Len(Stages) + 1} :
        /\ stage' = [stage EXCEPT ![j] = to]
        /\ IF to > Len(Stages) THEN stage[j] > 0 /\ Upsert(j, "failed", FALSE)
                               ELSE Upsert(j, Stages[to], to = Len(Stages))
  BY DEF WriteStatus
<1>4. to \in 0..4 BY <1>1, <1>2, <1>3
<1>5. /\ StatusTypeOK'
      /\ \A i \in Jobs : rows'[i] # NoRow /\ rows'[i].terminalCancel => i \in claimed'
      /\ claimed' = claimed
  <2>1. CASE to > Len(Stages)
    <3>1. "failed" \in Statuses BY DEF Statuses, Terminal
    <3>2. Upsert(j, "failed", FALSE) BY <1>3, <2>1
    <3> QED BY <1>1, <3>1, <3>2, UpsertTypes DEF Upsert
  <2>2. CASE ~(to > Len(Stages))
    <3>1. to \in 1..3 BY <1>1, <1>2, <1>3, <2>2
    <3>2. Stages[to] \in Statuses /\ (to = Len(Stages)) \in BOOLEAN BY <1>2, <3>1
    <3>3. Upsert(j, Stages[to], to = Len(Stages)) BY <1>3, <2>2
    <3> QED BY <1>1, <3>2, <3>3, UpsertTypes DEF Upsert
  <2> QED BY <2>1, <2>2
<1>6. stage' \in [Jobs -> 0..4] BY <1>3, <1>4 DEF TrackingInv, PollingInv
<1>7. RepoInv' BY RepoRests DEF TrackingInv, WriteStatus
<1> QED
  BY <1>5, <1>6, <1>7
  DEF TrackingInv, PollingInv, TrackingTypeOK, DroppedWereFinal, TickFits,
      WithdrawnWereTold, WriteStatus, pollVars

LEMMA RowKeeps ==
  ASSUME TrackingInv, NEW j \in Jobs, CancelRow(j) \/ ForgetRow(j)
  PROVE  TrackingInv'
<1>1. /\ StatusTypeOK
      /\ \A i \in Jobs : rows[i] # NoRow /\ rows[i].terminalCancel => i \in claimed
  BY DEF TrackingInv, PollingInv, TrackingTypeOK, WithdrawnWereTold
<1>2. /\ StatusTypeOK'
      /\ \A i \in Jobs : rows'[i] # NoRow /\ rows'[i].terminalCancel => i \in claimed'
      /\ claimed \subseteq claimed'
  <2>1. rows[j] # NoRow /\ rows[j] \in Row
    BY <1>1 DEF CancelRow, ForgetRow, RequestCancel, MarkForgotten, StatusTypeOK
  <2>2. CASE CancelRow(j)
    <3> DEFINE accepted == MayBeAccepted(rows[j])
               st == IF accepted THEN "cancel-requested" ELSE "canceled"
               row == [rows[j] EXCEPT !.status = st, !.terminalCancel = @ \/ ~accepted]
    <3>1. st \in Statuses BY DEF Statuses, Terminal
    <3>2. /\ row \in Row
          /\ row.terminalCancel => rows[j].terminalCancel \/ ~accepted
      BY <2>1, <3>1 DEF Row
    <3>3. /\ rows' = [rows EXCEPT ![j] = row]
          /\ claimed' = IF accepted THEN claimed ELSE claimed \cup {j}
      BY <1>1, <2>2 DEF CancelRow, RequestCancel, StatusTypeOK
    <3> HIDE DEF row, accepted
    <3> QED BY <1>1, <2>1, <3>2, <3>3 DEF StatusTypeOK
  <2>3. CASE ForgetRow(j)
    <3> DEFINE row == [rows[j] EXCEPT !.forgotten = TRUE]
    <3>1. row \in Row /\ row.terminalCancel = rows[j].terminalCancel BY <2>1 DEF Row
    <3>2. rows' = [rows EXCEPT ![j] = row] /\ claimed' = claimed
      BY <1>1, <2>3 DEF ForgetRow, MarkForgotten, StatusTypeOK
    <3> HIDE DEF row
    <3> QED BY <1>1, <2>1, <3>1, <3>2 DEF StatusTypeOK
  <2> QED BY <2>2, <2>3
<1>3. UNCHANGED <<repoVars, stage, pollVars>> BY DEF CancelRow, ForgetRow
<1>4. RepoInv' BY <1>3, RepoRests DEF TrackingInv
<1> QED
  BY <1>2, <1>3, <1>4
  DEF TrackingInv, PollingInv, TrackingTypeOK, DroppedWereFinal, TickFits,
      WithdrawnWereTold, pollVars

\* The steps of the poller leave repository, rows and writers alone.
LEMMA PollerKeeps ==
  ASSUME TrackingInv, UNCHANGED <<repoVars, statusVars, stage>>,
         /\ active' \subseteq Jobs /\ stopped' \in BOOLEAN /\ stopCalled' \in BOOLEAN
         /\ tick' \in TickTypes /\ failures' \in 0..MaxFailures
         /\ tick'.job = "none" <=> tick'.at \in {"none", "loop", "sleeping"},
         lateUpdates' \subseteq Jobs, lastSeen' \in [Jobs -> Sights],
         tick'.sight = "withdrawn" => tick'.at = "answered" /\ tick'.job \in claimed,
         \A j \in Jobs : lastSeen'[j] = "withdrawn" => j \in claimed,
         DroppedWereFinal', TickFits'
  PROVE  TrackingInv'
<1>1. RepoInv' BY RepoRests DEF TrackingInv
<1>2. StatusTypeOK' BY DEF TrackingInv, PollingInv, TrackingTypeOK, StatusTypeOK, statusVars
<1>3. WithdrawnWereTold'
  BY DEF TrackingInv, PollingInv, WithdrawnWereTold, statusVars
<1> QED BY <1>1, <1>2, <1>3 DEF TrackingInv, PollingInv, TrackingTypeOK

\* What is known of the poller.
LEMMA PollerFacts ==
  ASSUME TrackingInv
  PROVE  /\ active \subseteq Jobs /\ stopped \in BOOLEAN /\ stopCalled \in BOOLEAN
         /\ tick \in TickTypes /\ failures \in 0..MaxFailures
         /\ tick.job = "none" <=> tick.at \in {"none", "loop", "sleeping"}
         /\ lateUpdates \subseteq Jobs /\ lastSeen \in [Jobs -> Sights]
         /\ tick.sight = "withdrawn" => tick.at = "answered" /\ tick.job \in claimed
         /\ \A j \in Jobs : lastSeen[j] = "withdrawn" => j \in claimed
         /\ DroppedWereFinal /\ TickFits
         /\ "none" \notin Jobs
BY TrackingAssumption DEF TrackingInv, PollingInv, TrackingTypeOK, WithdrawnWereTold

LEMMA NoTickFacts ==
  /\ NoTick \in TickTypes /\ NoTick.at = "none" /\ NoTick.job = "none"
  /\ NoTick.sight = "open"
  /\ \A S \in SUBSET Jobs :
       LET t == [NoTick EXCEPT !.at = "loop", !.todo = S]
       IN  t \in TickTypes /\ t.at = "loop" /\ t.job = "none" /\ t.todo = S /\ t.still = {}
           /\ t.sight = "open"
  /\ LET t == [NoTick EXCEPT !.at = "sleeping"]
     IN  t \in TickTypes /\ t.at = "sleeping" /\ t.job = "none" /\ t.sight = "open"
BY DEF NoTick, TickTypes, Sights

LEMMA StartTickKeeps == TrackingInv /\ StartTick => TrackingInv'
<1> SUFFICES ASSUME TrackingInv, StartTick PROVE TrackingInv' OBVIOUS
<1> USE PollerFacts
<1>1. /\ tick' \in TickTypes /\ tick'.at = "loop" /\ tick'.job = "none" /\ tick'.todo = active
      /\ tick'.sight = "open"
  BY NoTickFacts DEF StartTick
<1>2. ~stopCalled BY DEF TickFits, StartTick
<1>3. TickFits' BY <1>1, <1>2 DEF TickFits, StartTick, UnderWayAt
<1>4. DroppedWereFinal' BY DEF DroppedWereFinal, StartTick, statusVars
<1> QED BY <1>1, <1>3, <1>4, PollerKeeps DEF StartTick

LEMMA FetchKeeps == ASSUME TrackingInv, NEW j \in Jobs, Fetch(j) PROVE TrackingInv'
<1> USE PollerFacts
<1>1. /\ tick' \in TickTypes /\ tick'.at = "sent" /\ tick'.job = j
      /\ tick'.todo = tick.todo \ {j} /\ tick'.still = tick.still /\ tick.job = "none"
      /\ tick'.sight = tick.sight
  BY DEF Fetch, TickTypes
<1>2. tick.at = "loop" /\ j \in active BY DEF Fetch, Unvisited
<1>3. ~stopCalled BY <1>2 DEF TickFits, UnderWayAt
<1>4. TickFits' BY <1>1, <1>2, <1>3 DEF TickFits, Fetch, UnderWayAt
<1>5. DroppedWereFinal' BY DEF DroppedWereFinal, Fetch, statusVars
<1> QED BY <1>1, <1>4, <1>5, PollerKeeps DEF Fetch

LEMMA AnswerKeeps == TrackingInv /\ Answer => TrackingInv'
<1> SUFFICES ASSUME TrackingInv, Answer PROVE TrackingInv' OBVIOUS
<1> USE PollerFacts
<1>1. /\ Sight(tick.job) \in Sights
      /\ Sight(tick.job) = "withdrawn" => tick.job \in claimed
  <2>1. tick.job \in Jobs BY DEF Answer, TickTypes
  <2>2. rows[tick.job] # NoRow /\ rows[tick.job].terminalCancel => tick.job \in claimed
    BY <2>1 DEF TrackingInv, PollingInv, WithdrawnWereTold
  <2> QED BY <2>2 DEF Sight, Sights, StopPolling, Withdrawn
<1>2. /\ tick' \in TickTypes /\ tick'.at = "answered" /\ tick'.job = tick.job
      /\ tick'.todo = tick.todo /\ tick'.still = tick.still
      /\ tick'.sight = Sight(tick.job) /\ tick'.at = "answered"
  BY <1>1 DEF Answer, TickTypes
<1>3. TickFits' BY <1>2 DEF TickFits, Answer, UnderWayAt
<1>4. DroppedWereFinal' BY DEF DroppedWereFinal, Answer, statusVars
<1> QED BY <1>1, <1>2, <1>3, <1>4, PollerKeeps DEF Answer

LEMMA FetchFailsKeeps == TrackingInv /\ FetchFails => TrackingInv'
<1> SUFFICES ASSUME TrackingInv, FetchFails PROVE TrackingInv' OBVIOUS
<1> USE PollerFacts, NoTickFacts
<1>a. failures \in 0..MaxFailures /\ MaxFailures \in Nat BY TrackingAssumption
<1>b. failures < MaxFailures /\ failures' = failures + 1 BY Zenon DEF FetchFails
<1>1. failures' \in 0..MaxFailures
  <2> HIDE PollerFacts, NoTickFacts
  <2> QED BY <1>a, <1>b
<1>2. TickFits' BY DEF TickFits, FetchFails, UnderWayAt
<1>3. DroppedWereFinal' BY DEF DroppedWereFinal, FetchFails, statusVars
<1> QED BY <1>1, <1>2, <1>3, PollerKeeps DEF FetchFails

\* onUpdate after stop is the one of the answer that was awaited.
LEMMA OnUpdateKeeps == TrackingInv /\ OnUpdate => TrackingInv'
<1> SUFFICES ASSUME TrackingInv, OnUpdate PROVE TrackingInv' OBVIOUS
<1> USE PollerFacts
<1>1. tick.at = "answered" /\ tick.job \in Jobs /\ tick.sight \in Sights
  BY DEF OnUpdate, TickTypes
<1>2. /\ tick' \in TickTypes /\ tick'.at = "loop" /\ tick'.job = "none"
      /\ tick'.todo = tick.todo
      /\ tick'.still = IF tick.sight # "open" THEN tick.still ELSE tick.still \cup {tick.job}
      /\ tick'.sight = "open"
  BY <1>1 DEF OnUpdate, TickTypes, Drops, Sights
<1>3. /\ lastSeen' \in [Jobs -> Sights]
      /\ \A j \in Jobs : lastSeen'[j] = IF j = tick.job THEN tick.sight ELSE lastSeen[j]
  BY <1>1 DEF OnUpdate
<1>4. lateUpdates = {} BY <1>1 DEF TickFits
<1>5. lateUpdates' = IF stopCalled THEN {tick.job} ELSE {} BY <1>4 DEF OnUpdate
<1>6. ~stopCalled => tick.job \in active BY <1>1 DEF TickFits
<1>7. TickFits'
  <2>1. ~stopCalled => \A j \in active : j \in tick'.todo \cup tick'.still \/ lastSeen'[j] # "open"
    BY <1>1, <1>2, <1>3 DEF TickFits, UnderWayAt
  <2> QED BY <1>1, <1>2, <1>5, <2>1 DEF TickFits, OnUpdate, UnderWayAt
<1>8. DroppedWereFinal' BY <1>3, <1>6 DEF DroppedWereFinal, OnUpdate, statusVars
<1> QED BY <1>1, <1>2, <1>3, <1>5, <1>7, <1>8, PollerKeeps DEF OnUpdate

LEMMA EndLoopKeeps == TrackingInv /\ EndLoop => TrackingInv'
<1> SUFFICES ASSUME TrackingInv, EndLoop PROVE TrackingInv' OBVIOUS
<1> USE PollerFacts, NoTickFacts
<1>1. tick.still \subseteq Jobs /\ tick.job = "none" BY DEF EndLoop, TickTypes
<1>2. tick' \in TickTypes /\ tick'.at \in {"none", "sleeping"} /\ tick'.job = "none"
  BY DEF EndLoop
<1>3. DroppedWereFinal'
  <2> SUFFICES ASSUME NEW j \in Jobs, j \notin tick.still, ~stopCalled
               PROVE  lastSeen[j] = "over" \/ (lastSeen[j] = "withdrawn" /\ j \in claimed)
    BY DEF DroppedWereFinal, EndLoop, statusVars
  <2>1. CASE j \notin active BY <2>1 DEF DroppedWereFinal
  <2>2. CASE j \in active
    <3>1. j \notin tick.todo BY <2>2 DEF EndLoop, Unvisited
    <3>2. j \in tick.todo \cup tick.still \cup {tick.job} \/ lastSeen[j] # "open"
      <4>1. tick.at = "loop" BY DEF EndLoop
      <4>2. TickFits OBVIOUS
      <4> HIDE PollerFacts, NoTickFacts
      <4> QED BY <2>2, <4>1, <4>2 DEF TickFits, UnderWayAt
    <3>4. lastSeen[j] # "open"
      <4>1. "none" \notin Jobs OBVIOUS
      <4> HIDE PollerFacts, NoTickFacts
      <4> QED BY <1>1, <3>1, <3>2, <4>1
    <3>3. lastSeen[j] \in Sights OBVIOUS
    <3>5. lastSeen[j] = "withdrawn" => j \in claimed OBVIOUS
    <3> HIDE PollerFacts, NoTickFacts
    <3> QED BY <3>3, <3>4, <3>5 DEF Sights
  <2> QED BY <2>1, <2>2
<1>4. TickFits' BY <1>2 DEF TickFits, EndLoop, UnderWayAt
<1>5. (stopped \/ tick.still = {}) \in BOOLEAN OBVIOUS
<1> QED BY <1>1, <1>2, <1>3, <1>4, <1>5, PollerKeeps DEF EndLoop

LEMMA WakeKeeps == TrackingInv /\ Wake => TrackingInv'
<1> SUFFICES ASSUME TrackingInv, Wake PROVE TrackingInv' OBVIOUS
<1> USE PollerFacts, NoTickFacts
<1>1. TickFits' BY DEF TickFits, Wake, UnderWayAt
<1>2. DroppedWereFinal' BY DEF DroppedWereFinal, Wake, statusVars
<1> QED BY <1>1, <1>2, PollerKeeps DEF Wake

LEMMA StopKeeps == TrackingInv /\ Stop => TrackingInv'
<1> SUFFICES ASSUME TrackingInv, Stop PROVE TrackingInv' OBVIOUS
<1> USE PollerFacts
<1>1. TickFits' BY DEF TickFits, Stop
<1>2. DroppedWereFinal' BY DEF DroppedWereFinal, Stop, statusVars
<1> QED BY <1>1, <1>2, PollerKeeps DEF Stop

LEMMA TrackingInitFits == TrackingInit => TrackingInv
<1> SUFFICES ASSUME TrackingInit PROVE TrackingInv OBVIOUS
<1>1. RepoInv BY RepoInitFits DEF TrackingInit
<1>2. StatusTypeOK BY DEF TrackingInit, StatusInit, StatusTypeOK
<1>3. TickFits BY NoTickFacts DEF TickFits, TrackingInit, UnderWayAt
<1>4. DroppedWereFinal BY DEF DroppedWereFinal, TrackingInit
<1>5. TrackingTypeOK
  <2>1. 0 \in 0..MaxFailures BY TrackingAssumption
  <2> QED BY <1>2, <2>1, NoTickFacts DEF TrackingTypeOK, TrackingInit
<1>6. stage \in [Jobs -> 0..4] /\ lastSeen \in [Jobs -> Sights] /\ lateUpdates \subseteq Jobs
  BY DEF TrackingInit, Sights
<1>7. WithdrawnWereTold BY NoTickFacts DEF WithdrawnWereTold, TrackingInit, StatusInit
<1> QED BY <1>1, <1>3, <1>4, <1>5, <1>6, <1>7 DEF TrackingInv, PollingInv

LEMMA TrackingNextKeeps == TrackingInv /\ [TrackingNext]_trackingVars => TrackingInv'
<1> SUFFICES ASSUME TrackingInv, [TrackingNext]_trackingVars PROVE TrackingInv'
  OBVIOUS
<1>1. CASE RepoStep
  <2>1. RepoInv' BY <1>1, RepoNextKeeps DEF RepoStep, TrackingInv
  <2> QED
    BY <1>1, <2>1
    DEF RepoStep, TrackingInv, PollingInv, TrackingTypeOK, StatusTypeOK, DroppedWereFinal,
        TickFits, WithdrawnWereTold, statusVars, pollVars
<1>2. CASE UNCHANGED trackingVars
  <2>1. RepoInv' BY <1>2, RepoRests DEF trackingVars, TrackingInv
  <2> QED
    BY <1>2, <2>1
    DEF trackingVars, TrackingInv, PollingInv, TrackingTypeOK, StatusTypeOK,
        DroppedWereFinal, TickFits, WithdrawnWereTold, statusVars, pollVars
<1> QED
  BY <1>1, <1>2, WriteStatusKeeps, RowKeeps, StartTickKeeps, FetchKeeps, AnswerKeeps,
     FetchFailsKeeps, OnUpdateKeeps, EndLoopKeeps, WakeKeeps, StopKeeps
  DEF TrackingNext

\* The inductive invariant holds in every state.
LEMMA TrackingInvariant == TrackingSpec => []TrackingInv
<1> QED BY TrackingInitFits, TrackingNextKeeps, PTL DEF TrackingSpec

\* A version of a job names one status for ever, and the log tells how the job came to
\* it, for any number of writers with stale copies (state-machine.js, transition).
THEOREM RepositoryStaysTrue == TrackingSpec => []RepositoryIsTrue
<1>1. TrackingInv => RepositoryIsTrue BY RepoInvTells DEF TrackingInv
<1> QED BY <1>1, TrackingInvariant, PTL

\* The poller gives up by itself only on a job whose last projection said that it was
\* over, or whose owner had been told that it was canceled, in any order of writes,
\* cancellations, answers, failures and calls of stop (durable-status.js, tick).
THEOREM PollingListIsEarned == TrackingSpec => []ListIsEarned
<1>1. TrackingInv => ListIsEarned BY DEF TrackingInv, PollingInv, ListIsEarned
<1> QED BY <1>1, TrackingInvariant, PTL

\* After stop at most the answer that was awaited is passed on (durable-status.js, tick
\* and stop).
THEOREM StopLetsOneThrough == TrackingSpec => []OneUpdateAfterStop
<1>1. TrackingInv => OneUpdateAfterStop
  <2> SUFFICES ASSUME TrackingInv PROVE Cardinality(lateUpdates) <= 1
    BY DEF OneUpdateAfterStop
  <2>1. \A i, j \in lateUpdates : i = j BY DEF TrackingInv, PollingInv, TickFits
  <2>2. lateUpdates = {} \/ \E x : lateUpdates = {x}
    <3> SUFFICES ASSUME NEW x \in lateUpdates PROVE lateUpdates = {x} OBVIOUS
    <3> QED BY <2>1
  <2>3. Cardinality({}) = 0 BY FS_EmptySet
  <2>4. CASE lateUpdates = {} BY <2>3, <2>4
  <2>5. CASE \E x : lateUpdates = {x}
    <3>1. PICK x : lateUpdates = {x} BY <2>5
    <3>2. Cardinality({x}) = 1 BY FS_Singleton
    <3> QED BY <3>1, <3>2
  <2> QED BY <2>2, <2>4, <2>5
<1> QED BY <1>1, TrackingInvariant, PTL

-----------------------------------------------------------------------------
(* The workspace: sequences at some of their positions. *)

\* Positions in their order: a bijection.
LEMMA RankedFits ==
  ASSUME NEW n \in Nat, NEW S \in SUBSET (1 .. n)
  PROVE  /\ Cardinality(S) \in Nat /\ Cardinality(S) <= n
         /\ DOMAIN Ranked(S) = 1 .. Cardinality(S)
         /\ \A m \in 1 .. Cardinality(S) : Ranked(S)[m] \in S
         /\ \A m, k \in 1 .. Cardinality(S) : Ranked(S)[m] = Ranked(S)[k] => m = k
         /\ \A i \in S : \E m \in 1 .. Cardinality(S) : Ranked(S)[m] = i
<1> DEFINE Below(i) == {j \in S : j <= i}
           rank == [i \in S |-> Cardinality(Below(i))]
           C == Cardinality(S)
<1>1. IsFiniteSet(S) /\ C \in Nat /\ C <= n
  <2>1. IsFiniteSet(1 .. n) /\ Cardinality(1 .. n) = n BY FS_Interval
  <2>2. IsFiniteSet(S) /\ C <= n BY <2>1, FS_Subset
  <2> QED BY <2>2, FS_CardinalityType
<1>2. \A i \in S : IsFiniteSet(Below(i)) /\ Cardinality(Below(i)) \in 1 .. C
  <2> SUFFICES ASSUME NEW i \in S
               PROVE  IsFiniteSet(Below(i)) /\ Cardinality(Below(i)) \in 1 .. C
    OBVIOUS
  <2>1. Below(i) \in SUBSET S OBVIOUS
  <2>2. IsFiniteSet(Below(i)) /\ Cardinality(Below(i)) <= C BY <1>1, <2>1, FS_Subset
  <2>3. Cardinality(Below(i)) \in Nat BY <2>2, FS_CardinalityType
  <2>4. i \in Below(i) OBVIOUS
  <2>5. Cardinality(Below(i)) # 0
    <3> HIDE DEF Below
    <3> QED BY <2>2, <2>4, FS_EmptySet
  <2> HIDE DEF Below, C
  <2> QED BY <1>1, <2>2, <2>3, <2>5
<1>3. \A i, k \in S : i < k => Cardinality(Below(i)) < Cardinality(Below(k))
  <2> SUFFICES ASSUME NEW i \in S, NEW k \in S, i < k
               PROVE  Cardinality(Below(i)) < Cardinality(Below(k))
    OBVIOUS
  <2>1. Below(i) \in SUBSET Below(k)
    <3> SUFFICES ASSUME NEW j \in S, j <= i PROVE j <= k OBVIOUS
    <3>1. i \in Int /\ j \in Int /\ k \in Int OBVIOUS
    <3> QED BY <3>1
  <2>2. Below(i) # Below(k)
    <3>1. k \in Below(k) /\ k \notin Below(i) OBVIOUS
    <3> QED BY <3>1
  <2>3. Cardinality(Below(i)) <= Cardinality(Below(k))
        /\ Cardinality(Below(i)) # Cardinality(Below(k))
    BY <1>2, <2>1, <2>2, FS_Subset
  <2>4. Cardinality(Below(i)) \in Int /\ Cardinality(Below(k)) \in Int BY <1>2
  <2> QED BY <2>3, <2>4
<1>4. rank \in Injection(S, 1 .. C)
  <2>1. rank \in [S -> 1 .. C] BY <1>2
  <2>2. \A i, k \in S : rank[i] = rank[k] => i = k
    <3> SUFFICES ASSUME NEW i \in S, NEW k \in S, rank[i] = rank[k] PROVE i = k
      OBVIOUS
    <3>1. rank[i] = Cardinality(Below(i)) /\ rank[k] = Cardinality(Below(k)) OBVIOUS
    <3>2. rank[i] \in Int BY <2>1, <1>1
    <3>3. i \in Int /\ k \in Int OBVIOUS
    <3>4. ~(i < k) /\ ~(k < i) BY <1>3, <1>2, <3>1
    <3> HIDE DEF rank, Below
    <3> QED BY <3>3, <3>4
  <2> QED BY <2>1, <2>2 DEF Injection, IsInjective
<1>5. rank \in Surjection(S, 1 .. C)
  <2>1. IsFiniteSet(1 .. C) /\ Cardinality(1 .. C) = C BY <1>1, FS_Interval
  <2> HIDE DEF rank
  <2> QED BY <2>1, <1>4, FS_Injection
<1>6. \A m \in 1 .. C : \E i \in S : rank[i] = m BY <1>5 DEF Surjection
<1>7. DOMAIN Ranked(S) = 1 .. C BY DEF Ranked
<1>8. ASSUME NEW m \in 1 .. C PROVE Ranked(S)[m] \in S /\ rank[Ranked(S)[m]] = m
  <2>1. PICK i \in S : rank[i] = m BY <1>6
  <2>2. Cardinality({j \in S : j <= i}) = m BY <2>1
  <2>3. Ranked(S)[m] = CHOOSE h \in S : Cardinality({j \in S : j <= h}) = m
    BY DEF Ranked
  <2> DEFINE r == Ranked(S)[m]
  <2> HIDE DEF rank
  <2>4. r \in S /\ Cardinality({j \in S : j <= r}) = m BY <2>2, <2>3
  <2> HIDE DEF r
  <2>5. rank[r] = m BY <2>4 DEF rank
  <2> QED BY <2>4, <2>5 DEF r
<1>9. \A i \in S : rank[i] \in 1 .. C BY <1>4 DEF Injection
<1>10. \A i, k \in S : rank[i] = rank[k] => i = k BY <1>4 DEF Injection, IsInjective
<1> HIDE DEF rank, C
<1>12. \A i \in S : Ranked(S)[rank[i]] = i BY <1>8, <1>9, <1>10
<1> QED BY <1>1, <1>8, <1>9, <1>7, <1>12 DEF C

\* Some position is the first of those that qualify.
LEMMA FirstIs ==
  ASSUME NEW S \in SUBSET Nat, S # {}
  PROVE  \E i \in S : \A j \in S : i <= j
<1> DEFINE R == OpToRel(<, Nat)
<1>1. IsWellFoundedOn(R, Nat) BY NatLessThanWellFounded
<1>2. \A x, y \in Nat : x < y => <<x, y>> \in R BY DEF OpToRel
<1> HIDE DEF R
<1>3. PICK i \in S : \A j \in S : ~(<<j, i>> \in R) BY <1>1, WFMin
<1>4. \A j \in S : ~(j < i) BY <1>2, <1>3
<1>5. \A j \in S : i <= j
  <2> SUFFICES ASSUME NEW j \in S PROVE i <= j OBVIOUS
  <2>1. i \in Nat /\ j \in Nat OBVIOUS
  <2> QED BY <1>4, <2>1
<1> QED BY <1>5

\* The n-th of the chosen positions is at[n].
Places(at, seq, S) ==
  /\ at \in [1 .. Cardinality(S) -> S]
  /\ \A m \in 1 .. Cardinality(S) : Those(seq, S)[m] = seq[at[m]]
  /\ \A m, k \in 1 .. Cardinality(S) : at[m] = at[k] => m = k
  /\ \A i \in S : \E m \in 1 .. Cardinality(S) : at[m] = i

\* What a sequence has at some of its positions: each of them once.
LEMMA ThoseFits ==
  ASSUME NEW T, NEW seq \in Seq(T), NEW S \in SUBSET (1 .. Len(seq))
  PROVE  /\ Those(seq, S) \in Seq(T) /\ Len(Those(seq, S)) = Cardinality(S)
         /\ Cardinality(S) \in Nat /\ Cardinality(S) <= Len(seq)
         /\ DOMAIN Those(seq, S) = 1 .. Cardinality(S)
         /\ \E at : Places(at, seq, S)
<1> DEFINE C == Cardinality(S)
           at == Ranked(S)
<1>1. Len(seq) \in Nat BY LenProperties
<1>2. /\ C \in Nat /\ C <= Len(seq) /\ DOMAIN at = 1 .. C
      /\ \A m \in 1 .. C : at[m] \in S
      /\ \A m, k \in 1 .. C : at[m] = at[k] => m = k
      /\ \A i \in S : \E m \in 1 .. C : at[m] = i
  BY <1>1, RankedFits
<1>3. Those(seq, S) = [m \in 1 .. C |-> seq[at[m]]] BY <1>2 DEF Those
<1>4. at = [m \in 1 .. C |-> at[m]] BY <1>2 DEF Ranked
<1> HIDE DEF C, at
<1>5. at \in [1 .. C -> S] BY <1>2, <1>4
<1>6. \A m \in 1 .. C : seq[at[m]] \in T BY <1>2, ElementOfSeq
<1>7. Those(seq, S) \in [1 .. C -> T] BY <1>3, <1>6
<1>8. /\ Those(seq, S) \in Seq(T) /\ Len(Those(seq, S)) = C
      /\ DOMAIN Those(seq, S) = 1 .. C
  BY <1>2, <1>7
<1>9. \A m \in 1 .. C : Those(seq, S)[m] = seq[at[m]] BY <1>3
<1>10. Places(at, seq, S) BY <1>2, <1>5, <1>9 DEF Places, C
<1> QED BY <1>2, <1>8, <1>10 DEF C

-----------------------------------------------------------------------------
(* The groups that are suggested. *)

Items == [file : DeviceFiles, key : Keys, label : Labels \cup {NoLabel}]

Distinct(items) == \A i, j \in DOMAIN items : items[i].key = items[j].key => i = j

\* Two items belong together: one folder or archive name holds both.
Together(items, i, j) ==
  i = j \/ (items[i].label = items[j].label /\ items[i].label # NoLabel)

GroupOf(items, i) == {items[j].key : j \in {h \in DOMAIN items : Together(items, i, h)}}

\* Each item is in one group, with those it belongs to.
GroupsFit(items, gs) ==
  /\ gs \in Seq(SUBSET Keys)
  /\ \A n \in 1 .. Len(gs) : gs[n] # {} => \E i \in DOMAIN items : gs[n] = GroupOf(items, i)
  /\ \A i \in DOMAIN items : \E n \in 1 .. Len(gs) : gs[n] = GroupOf(items, i)
  /\ \A m, n \in 1 .. Len(gs) : gs[m] = gs[n] => m = n \/ gs[m] = {}

\* Keys are chosen once, so a key tells the group it is in.
LEMMA GroupsTell ==
  ASSUME NEW items \in Seq(Items), Distinct(items)
  PROVE  /\ \A i \in DOMAIN items : items[i].key \in GroupOf(items, i)
         /\ \A i, j \in DOMAIN items : items[j].key \in GroupOf(items, i) <=> Together(items, i, j)
         /\ \A i, j \in DOMAIN items :
              Together(items, i, j) => GroupOf(items, i) = GroupOf(items, j)
         /\ \A i \in DOMAIN items : GroupOf(items, i) \in SUBSET Keys
<1>0. DOMAIN items = 1 .. Len(items) /\ \A i \in DOMAIN items : items[i] \in Items
  BY LenProperties, ElementOfSeq
<1>1. \A i, j \in DOMAIN items : Together(items, i, j) => items[j].key \in GroupOf(items, i)
  BY DEF GroupOf
<1>2. \A i, j \in DOMAIN items : items[j].key \in GroupOf(items, i) => Together(items, i, j)
  BY DEF GroupOf, Distinct
<1>3. \A i \in DOMAIN items : Together(items, i, i) BY DEF Together
<1>4. ASSUME NEW i \in DOMAIN items, NEW j \in DOMAIN items, Together(items, i, j)
      PROVE  GroupOf(items, i) = GroupOf(items, j)
  <2>1. \A h \in DOMAIN items : Together(items, i, h) <=> Together(items, j, h)
    BY <1>4 DEF Together
  <2> QED BY <2>1 DEF GroupOf
<1>5. \A i \in DOMAIN items : GroupOf(items, i) \in SUBSET Keys
  BY <1>0 DEF GroupOf, Items
<1> QED BY <1>1, <1>2, <1>3, <1>4, <1>5

\* The suggestion is one group for each folder or archive name and one for each flat
\* file: r names the item a group begins with (grouping, suggestGroups).
LEMMA SuggestedFits ==
  ASSUME NEW items \in Seq(Items), Distinct(items)
  PROVE  /\ Suggested(items) \in Seq(SUBSET Keys)
         /\ \E r \in [1 .. Len(Suggested(items)) -> DOMAIN items] :
              /\ \A n \in 1 .. Len(Suggested(items)) : Suggested(items)[n] = GroupOf(items, r[n])
              /\ \A i \in DOMAIN items :
                   \E n \in 1 .. Len(Suggested(items)) : Together(items, r[n], i)
              /\ \A m, n \in 1 .. Len(Suggested(items)) : Together(items, r[m], r[n]) => m = n
<1> DEFINE D == DOMAIN items
           A == Cardinality(Named(items))
           B == Cardinality(Flat(items))
           named == Those(items, Named(items))
           flat == Those(items, Flat(items))
           a == [n \in DOMAIN named |->
                   {it.key : it \in {i \in ToSet(items) : i.label = named[n].label}}]
           b == [n \in DOMAIN flat |-> {flat[n].key}]
<1>0. /\ D = 1 .. Len(items) /\ Len(items) \in Nat
      /\ \A i \in D : items[i] \in Items
  BY LenProperties, ElementOfSeq
<1>1. Named(items) \in SUBSET (1 .. Len(items)) /\ Flat(items) \in SUBSET (1 .. Len(items))
  BY <1>0 DEF Named, Flat
<1>2. /\ A \in Nat /\ DOMAIN named = 1 .. A
      /\ \E at : Places(at, items, Named(items))
  BY <1>1, ThoseFits
<1>3. /\ B \in Nat /\ DOMAIN flat = 1 .. B
      /\ \E at : Places(at, items, Flat(items))
  BY <1>1, ThoseFits
<1>4. PICK p \in [1 .. A -> Named(items)] :
           /\ \A m \in 1 .. A : named[m] = items[p[m]]
           /\ \A m, k \in 1 .. A : p[m] = p[k] => m = k
           /\ \A i \in Named(items) : \E m \in 1 .. A : p[m] = i
  BY <1>2 DEF Places
<1>5. PICK q \in [1 .. B -> Flat(items)] :
           /\ \A m \in 1 .. B : flat[m] = items[q[m]]
           /\ \A m, k \in 1 .. B : q[m] = q[k] => m = k
           /\ \A i \in Flat(items) : \E m \in 1 .. B : q[m] = i
  BY <1>3 DEF Places
<1>6. Suggested(items) = a \o b BY DEF Suggested
<1> HIDE DEF A, B, named, flat
<1>7. \A i \in Named(items) : i \in D /\ items[i].label # NoLabel BY DEF Named, Flat
<1>8. \A i \in Flat(items) : i \in D /\ items[i].label = NoLabel BY DEF Flat
<1>9. ASSUME NEW n \in 1 .. A PROVE a[n] = GroupOf(items, p[n])
  <2>1. p[n] \in D /\ items[p[n]].label # NoLabel /\ named[n] = items[p[n]]
    BY <1>4, <1>7
  <2>2. a[n] = {it.key : it \in {i \in ToSet(items) : i.label = items[p[n]].label}}
    BY <1>2, <2>1
  <2>3. \A h \in D : Together(items, p[n], h) <=> items[h].label = items[p[n]].label
    BY <2>1 DEF Together
  <2>4. a[n] = {items[h].key : h \in {h \in D : items[h].label = items[p[n]].label}}
    <3>1. ToSet(items) = {items[h] : h \in D} BY DEF ToSet
    <3> HIDE DEF D, a
    <3> QED BY <2>2, <3>1
  <2> QED BY <2>3, <2>4 DEF GroupOf
<1>10. ASSUME NEW n \in 1 .. B PROVE b[n] = GroupOf(items, q[n])
  <2>1. q[n] \in D /\ items[q[n]].label = NoLabel /\ flat[n] = items[q[n]]
    BY <1>5, <1>8
  <2>2. b[n] = {items[q[n]].key} BY <1>3, <2>1
  <2>3. \A h \in D : Together(items, q[n], h) <=> h = q[n] BY <2>1 DEF Together
  <2> QED BY <2>1, <2>2, <2>3 DEF GroupOf
<1>11. \A i \in D : GroupOf(items, i) \in SUBSET Keys BY GroupsTell
<1>12. a \in Seq(SUBSET Keys) /\ Len(a) = A
  <2>1. a \in [1 .. A -> SUBSET Keys] BY <1>2, <1>4, <1>7, <1>9, <1>11
  <2> HIDE DEF a
  <2> QED BY <2>1, <1>2
<1>13. b \in Seq(SUBSET Keys) /\ Len(b) = B
  <2>1. b \in [1 .. B -> SUBSET Keys] BY <1>3, <1>5, <1>8, <1>10, <1>11
  <2> HIDE DEF b
  <2> QED BY <2>1, <1>3
<1> HIDE DEF a, b
<1>14. /\ Suggested(items) \in Seq(SUBSET Keys) /\ Len(Suggested(items)) = A + B
       /\ \A n \in 1 .. A + B :
            Suggested(items)[n] = IF n <= A THEN a[n] ELSE b[n - A]
  <2>1. /\ a \o b \in Seq(SUBSET Keys) /\ Len(a \o b) = Len(a) + Len(b)
        /\ \A n \in 1 .. Len(a) + Len(b) :
             (a \o b)[n] = IF n <= Len(a) THEN a[n] ELSE b[n - Len(a)]
    BY <1>12, <1>13, ConcatProperties
  <2> QED BY <1>6, <1>12, <1>13, <2>1
<1> DEFINE r == [n \in 1 .. A + B |-> IF n <= A THEN p[n] ELSE q[n - A]]
<1>15. \A n \in 1 .. A + B : n <= A => n \in 1 .. A BY <1>2, <1>3
<1>16. \A n \in 1 .. A + B : ~(n <= A) => n - A \in 1 .. B BY <1>2, <1>3
<1>17. \A n \in 1 .. A + B : r[n] \in D
  BY <1>4, <1>5, <1>7, <1>8, <1>15, <1>16
<1>18. r \in [1 .. A + B -> D] BY <1>17
<1>19. \A n \in 1 .. A + B : Suggested(items)[n] = GroupOf(items, r[n])
  BY <1>9, <1>10, <1>14, <1>15, <1>16
<1>20. ASSUME NEW i \in D PROVE \E n \in 1 .. A + B : Together(items, r[n], i)
  <2>1. CASE items[i].label = NoLabel
    <3>1. i \in Flat(items) BY <2>1 DEF Flat
    <3>2. PICK m \in 1 .. B : q[m] = i BY <1>5, <3>1
    <3>3. A + m \in 1 .. A + B /\ ~(A + m <= A) /\ (A + m) - A = m BY <1>2, <1>3
    <3>4. r[A + m] = i BY <3>2, <3>3
    <3> QED BY <3>3, <3>4 DEF Together
  <2>2. CASE items[i].label # NoLabel
    <3> DEFINE S == {j \in D : items[j].label = items[i].label}
    <3>1. S \in SUBSET Nat /\ S # {} BY <1>0
    <3>2. PICK j \in S : \A k \in S : j <= k
      <4> HIDE DEF S
      <4> QED BY <3>1, FirstIs
    <3>3. \A k \in 1 .. j - 1 : items[k].label # items[j].label
      <4> SUFFICES ASSUME NEW k \in 1 .. j - 1, items[k].label = items[j].label
                   PROVE  FALSE
        OBVIOUS
      <4>1. k \in D /\ k \in Nat /\ j \in Nat /\ ~(j <= k) BY <1>0
      <4>2. k \in S BY <4>1
      <4> QED BY <3>2, <4>1, <4>2
    <3>4. j \in Named(items) BY <2>2, <3>3 DEF Named, Flat
    <3>5. PICK m \in 1 .. A : p[m] = j BY <1>4, <3>4
    <3>6. m \in 1 .. A + B /\ m <= A BY <1>2, <1>3
    <3>7. r[m] = j BY <3>5, <3>6
    <3> QED BY <2>2, <3>6, <3>7 DEF Together
  <2> QED BY <2>1, <2>2
<1>21. ASSUME NEW m \in 1 .. A + B, NEW n \in 1 .. A + B, Together(items, r[m], r[n])
       PROVE  m = n
  <2>1. \A k \in 1 .. A + B : k <= A => r[k] = p[k] OBVIOUS
  <2>2. \A k \in 1 .. A + B : ~(k <= A) => r[k] = q[k - A] OBVIOUS
  <2>3. \A i, j \in Named(items) : Together(items, i, j) => i = j
    <3> SUFFICES ASSUME NEW i \in Named(items), NEW j \in Named(items),
                        items[i].label = items[j].label
                 PROVE  i = j
      BY DEF Together
    <3>1. i \in Nat /\ j \in Nat /\ i >= 1 /\ j >= 1 BY <1>0, <1>7
    <3>2. \A k \in 1 .. i - 1 : items[k].label # items[i].label BY DEF Named
    <3>3. \A k \in 1 .. j - 1 : items[k].label # items[j].label BY DEF Named
    <3>4. ~(i < j) /\ ~(j < i) BY <3>1, <3>2, <3>3
    <3> QED BY <3>1, <3>4
  <2>4. \A i, j \in Flat(items) : Together(items, i, j) => i = j
    BY <1>8 DEF Together
  <2>5. \A i \in Named(items), j \in Flat(items) :
          ~Together(items, i, j) /\ ~Together(items, j, i)
    BY <1>7, <1>8 DEF Together
  <2> HIDE DEF r
  <2>6. CASE m <= A /\ n <= A BY <1>4, <1>15, <1>21, <2>1, <2>3, <2>6
  <2>7. CASE ~(m <= A) /\ ~(n <= A)
    <3>1. m - A = n - A BY <1>5, <1>16, <1>21, <2>2, <2>4, <2>7
    <3> QED BY <1>2, <1>3, <3>1
  <2>8. CASE m <= A /\ ~(n <= A)
    BY <1>4, <1>5, <1>15, <1>16, <1>21, <2>1, <2>2, <2>5, <2>8
  <2>9. CASE ~(m <= A) /\ n <= A
    BY <1>4, <1>5, <1>15, <1>16, <1>21, <2>1, <2>2, <2>5, <2>9
  <2> QED BY <2>6, <2>7, <2>8, <2>9
<1> HIDE DEF r
<1> QED BY <1>14, <1>18, <1>19, <1>20, <1>21

\* The empty groups that fill it up change nothing of that.
LEMMA SuggestGroupsFit ==
  ASSUME NEW items \in Seq(Items), Distinct(items)
  PROVE  GroupsFit(items, SuggestGroups(items))
<1> DEFINE gs == Suggested(items)
           L == IF Len(gs) < 2 THEN 2 - Len(gs) ELSE 0
           c == [n \in 1 .. L |-> {}]
<1>1. gs \in Seq(SUBSET Keys) BY SuggestedFits
<1>2. PICK r \in [1 .. Len(gs) -> DOMAIN items] :
        /\ \A n \in 1 .. Len(gs) : gs[n] = GroupOf(items, r[n])
        /\ \A i \in DOMAIN items : \E n \in 1 .. Len(gs) : Together(items, r[n], i)
        /\ \A m, n \in 1 .. Len(gs) : Together(items, r[m], r[n]) => m = n
  BY SuggestedFits
<1>3. SuggestGroups(items) = gs \o c BY DEF SuggestGroups
<1> HIDE DEF gs
<1>4. Len(gs) \in Nat /\ L \in Nat BY <1>1, LenProperties
<1>5. c \in Seq(SUBSET Keys) /\ Len(c) = L /\ \A n \in 1 .. L : c[n] = {}
  <2>1. c \in [1 .. L -> SUBSET Keys] OBVIOUS
  <2>2. \A n \in 1 .. L : c[n] = {} OBVIOUS
  <2> HIDE DEF c, L
  <2> QED BY <1>4, <2>1, <2>2
<1> DEFINE N == Len(gs) + L
           all == gs \o c
<1> HIDE DEF c, L
<1>6. /\ all \in Seq(SUBSET Keys) /\ Len(all) = N
      /\ \A n \in 1 .. N : all[n] = IF n <= Len(gs) THEN gs[n] ELSE c[n - Len(gs)]
  BY <1>1, <1>5, ConcatProperties
<1>7. \A n \in 1 .. N : ~(n <= Len(gs)) => all[n] = {}
  BY <1>4, <1>5, <1>6
<1>8. \A n \in 1 .. N : n <= Len(gs) => n \in 1 .. Len(gs) /\ all[n] = GroupOf(items, r[n])
  BY <1>2, <1>4, <1>6
<1>9. \A n \in 1 .. Len(gs) : n \in 1 .. N /\ all[n] = GroupOf(items, r[n])
  BY <1>2, <1>4, <1>6
<1> HIDE DEF all, N
<1>10. \A n \in 1 .. N : all[n] # {} => \E i \in DOMAIN items : all[n] = GroupOf(items, i)
  BY <1>2, <1>7, <1>8
<1>11. ASSUME NEW i \in DOMAIN items PROVE \E n \in 1 .. N : all[n] = GroupOf(items, i)
  <2>1. PICK n \in 1 .. Len(gs) : Together(items, r[n], i) BY <1>2
  <2>2. GroupOf(items, r[n]) = GroupOf(items, i) BY <2>1, GroupsTell
  <2> QED BY <1>9, <2>2
<1>12. ASSUME NEW m \in 1 .. N, NEW n \in 1 .. N, all[m] = all[n], all[m] # {}
       PROVE  m = n
  <2>1. m \in 1 .. Len(gs) /\ n \in 1 .. Len(gs)
        /\ all[m] = GroupOf(items, r[m]) /\ all[n] = GroupOf(items, r[n])
    BY <1>7, <1>8, <1>12
  <2>2. items[r[n]].key \in GroupOf(items, r[n]) BY <2>1, GroupsTell
  <2>3. Together(items, r[m], r[n]) BY <1>12, <2>1, <2>2, GroupsTell
  <2> QED BY <1>2, <2>1, <2>3
<1>13. GroupsFit(items, all) BY <1>6, <1>10, <1>11, <1>12 DEF GroupsFit
<1> QED BY <1>3, <1>13 DEF all

\* Nor does leaving the empty ones out (WorkflowApp, tryStartJob).
LEMMA FilledFits ==
  ASSUME NEW items \in Seq(Items), Distinct(items), NEW gs, GroupsFit(items, gs)
  PROVE  /\ GroupsFit(items, Filled(gs))
         /\ \A n \in 1 .. Len(Filled(gs)) : Filled(gs)[n] # {}
<1> DEFINE S == {n \in DOMAIN gs : gs[n] # {}}
           C == Cardinality(S)
           full == Those(gs, S)
<1>1. gs \in Seq(SUBSET Keys) /\ DOMAIN gs = 1 .. Len(gs)
  BY LenProperties DEF GroupsFit
<1>2. S \in SUBSET (1 .. Len(gs)) BY <1>1
<1>3. Filled(gs) = full BY DEF Filled
<1>4. \A n \in S : gs[n] # {} /\ n \in 1 .. Len(gs) BY <1>1
<1>5. \A n \in 1 .. Len(gs) : gs[n] # {} => n \in S BY <1>1
<1> HIDE DEF S
<1>6. full \in Seq(SUBSET Keys) /\ Len(full) = C /\ \E at : Places(at, gs, S)
  BY <1>1, <1>2, ThoseFits
<1>7. PICK at \in [1 .. C -> S] :
        /\ \A m \in 1 .. C : full[m] = gs[at[m]]
        /\ \A m, k \in 1 .. C : at[m] = at[k] => m = k
        /\ \A n \in S : \E m \in 1 .. C : at[m] = n
  BY <1>6 DEF Places
<1> HIDE DEF C, full
<1>8. \A m \in 1 .. C : full[m] # {} /\ at[m] \in 1 .. Len(gs) BY <1>4, <1>7
<1>9. \A m \in 1 .. C : \E i \in DOMAIN items : full[m] = GroupOf(items, i)
  BY <1>7, <1>8 DEF GroupsFit
<1>10. ASSUME NEW i \in DOMAIN items PROVE \E m \in 1 .. C : full[m] = GroupOf(items, i)
  <2>1. PICK n \in 1 .. Len(gs) : gs[n] = GroupOf(items, i) BY DEF GroupsFit
  <2>2. gs[n] # {} BY <2>1, GroupsTell
  <2>3. PICK m \in 1 .. C : at[m] = n BY <1>5, <1>7, <2>2
  <2> QED BY <1>7, <2>1, <2>3
<1>11. \A m, k \in 1 .. C : full[m] = full[k] => m = k
  <2> SUFFICES ASSUME NEW m \in 1 .. C, NEW k \in 1 .. C, full[m] = full[k] PROVE m = k
    OBVIOUS
  <2>1. gs[at[m]] = gs[at[k]] /\ gs[at[m]] # {} BY <1>7, <1>8
  <2>2. at[m] = at[k] BY <1>8, <2>1 DEF GroupsFit
  <2> QED BY <1>7, <2>2
<1> QED BY <1>3, <1>6, <1>8, <1>9, <1>10, <1>11 DEF GroupsFit

\* The number of an item is that of its group.
LEMMA NumbersFit ==
  ASSUME NEW items \in Seq(Items), Distinct(items),
         NEW s, GroupsFit(items, s.groups),
         \A n \in 1 .. Len(s.groups) : s.groups[n] # {}
  PROVE  /\ \A i \in DOMAIN items : NumberOf(s, items[i].key) \in 1 .. Len(s.groups)
         /\ \A i, j \in DOMAIN items :
              NumberOf(s, items[i].key) = NumberOf(s, items[j].key) <=> Together(items, i, j)
         /\ \A n \in 1 .. Len(s.groups) :
              \E i \in DOMAIN items : NumberOf(s, items[i].key) = n
<1> DEFINE gs == s.groups
<1>0. DOMAIN gs = 1 .. Len(gs) BY LenProperties DEF GroupsFit
<1>1. ASSUME NEW i \in DOMAIN items
      PROVE  /\ NumberOf(s, items[i].key) \in 1 .. Len(gs)
             /\ gs[NumberOf(s, items[i].key)] = GroupOf(items, i)
             /\ \A n \in 1 .. Len(gs) :
                  gs[n] = GroupOf(items, i) => n = NumberOf(s, items[i].key)
  <2> DEFINE k == items[i].key
             number == NumberOf(s, k)
  <2>1. PICK n \in 1 .. Len(gs) : gs[n] = GroupOf(items, i) BY DEF GroupsFit
  <2>2. k \in gs[n] BY <2>1, GroupsTell
  <2>3. number = CHOOSE m \in DOMAIN gs : k \in gs[m] BY DEF NumberOf
  <2> HIDE DEF number, k
  <2>4. number \in 1 .. Len(gs) /\ k \in gs[number] BY <1>0, <2>2, <2>3
  <2>5. PICK j \in DOMAIN items : gs[number] = GroupOf(items, j) BY <2>4 DEF GroupsFit
  <2>6. Together(items, j, i) BY <2>4, <2>5, GroupsTell DEF k
  <2>7. gs[number] = GroupOf(items, i) BY <2>5, <2>6, GroupsTell
  <2>8. \A m \in 1 .. Len(gs) : gs[m] = GroupOf(items, i) => m = number
    BY <2>4, <2>7 DEF GroupsFit
  <2> QED BY <2>4, <2>7, <2>8 DEF number, k
<1>2. ASSUME NEW i \in DOMAIN items, NEW j \in DOMAIN items
      PROVE  NumberOf(s, items[i].key) = NumberOf(s, items[j].key) <=> Together(items, i, j)
  <2>1. ASSUME NumberOf(s, items[i].key) = NumberOf(s, items[j].key)
        PROVE  Together(items, i, j)
    <3>1. GroupOf(items, i) = GroupOf(items, j) BY <1>1, <2>1
    <3> QED BY <3>1, GroupsTell
  <2>2. ASSUME Together(items, i, j)
        PROVE  NumberOf(s, items[i].key) = NumberOf(s, items[j].key)
    <3>1. GroupOf(items, i) = GroupOf(items, j) BY <2>2, GroupsTell
    <3> QED BY <1>1, <3>1
  <2> QED BY <2>1, <2>2
<1>3. ASSUME NEW n \in 1 .. Len(gs)
      PROVE  \E i \in DOMAIN items : NumberOf(s, items[i].key) = n
  <2>1. PICK i \in DOMAIN items : gs[n] = GroupOf(items, i) BY DEF GroupsFit
  <2> QED BY <1>1, <2>1
<1> QED BY <1>1, <1>2, <1>3

\* The groups hold the items and nothing else.
LEMMA GroupsHold ==
  ASSUME NEW items \in Seq(Items), Distinct(items), NEW gs, GroupsFit(items, gs)
  PROVE  UNION ToSet(gs) = KeysOf(items)
<1>0. DOMAIN gs = 1 .. Len(gs) BY LenProperties DEF GroupsFit
<1>1. ASSUME NEW n \in 1 .. Len(gs), NEW k \in gs[n] PROVE k \in KeysOf(items)
  <2>1. PICK i \in DOMAIN items : gs[n] = GroupOf(items, i) BY <1>1 DEF GroupsFit
  <2> QED BY <1>1, <2>1 DEF GroupOf, KeysOf
<1>2. ASSUME NEW i \in DOMAIN items PROVE \E n \in 1 .. Len(gs) : items[i].key \in gs[n]
  <2>1. PICK n \in 1 .. Len(gs) : gs[n] = GroupOf(items, i) BY DEF GroupsFit
  <2> QED BY <2>1, GroupsTell
<1>3. ToSet(gs) = {gs[n] : n \in 1 .. Len(gs)} BY <1>0 DEF ToSet
<1>4. UNION ToSet(gs) \subseteq KeysOf(items) BY <1>1, <1>3
<1>5. ASSUME NEW k \in KeysOf(items) PROVE k \in UNION ToSet(gs)
  <2>1. PICK i \in DOMAIN items : k = items[i].key BY DEF KeysOf
  <2>2. PICK n \in 1 .. Len(gs) : k \in gs[n] BY <1>2, <2>1
  <2>3. gs[n] \in ToSet(gs) BY <1>3
  <2> QED BY <2>2, <2>3
<1> QED BY <1>4, <1>5

-----------------------------------------------------------------------------
(* What is taken in. *)

\* What is taken in was picked, each key once and none that is there already; the
\* file of an item is the first one picked with its key (intake, ingestSelection).
LEMMA IngestFits ==
  ASSUME NEW sel \in Seq(DeviceFiles), NEW dir, NEW existing
  PROVE  LET items == IngestSelection(sel, dir, existing) IN
         /\ items \in Seq(Items) /\ Distinct(items)
         /\ Len(items) \in Nat /\ Len(items) <= Len(sel)
         /\ \A n \in 1 .. Len(items) :
              /\ items[n].key \notin existing
              /\ \E i \in DOMAIN sel :
                   /\ items[n].file = sel[i] /\ items[n].key = KeyOf[sel[i]]
                   /\ \A j \in 1 .. i - 1 : KeyOf[sel[j]] # KeyOf[sel[i]]
<1> DEFINE folder == AsFolder(sel, dir)
           all == [i \in DOMAIN sel |-> Item(sel[i], folder)]
           S == {i \in DOMAIN sel : TakenIn(sel, i, folder, existing)}
           C == Cardinality(S)
           items == Those(all, S)
<1>0. /\ DOMAIN sel = 1 .. Len(sel) /\ Len(sel) \in Nat
      /\ \A i \in DOMAIN sel : sel[i] \in DeviceFiles
  BY LenProperties, ElementOfSeq
<1>1. IngestSelection(sel, dir, existing) = items BY DEF IngestSelection
<1>2. \A i \in 1 .. Len(sel) : all[i] = Item(sel[i], folder) /\ all[i] \in Items
  <2> SUFFICES ASSUME NEW i \in 1 .. Len(sel) PROVE Item(sel[i], folder) \in Items
    BY <1>0
  <2>1. sel[i] \in DeviceFiles BY <1>0
  <2>2. KeyOf[sel[i]] \in Keys BY <2>1, WorkspaceAssumption
  <2>3. LabelOf(sel[i], folder) \in Labels \cup {NoLabel}
    BY <2>1, <2>2, WorkspaceAssumption DEF LabelOf
  <2> QED BY <2>1, <2>2, <2>3 DEF Item, Items
<1>3. all \in Seq(Items) /\ Len(all) = Len(sel)
  <2>1. all \in [1 .. Len(sel) -> Items] BY <1>0, <1>2
  <2> HIDE DEF all
  <2> QED BY <1>0, <2>1
<1>4. S \in SUBSET (1 .. Len(sel)) BY <1>0
<1>5. \A i \in S : TakenIn(sel, i, folder, existing) OBVIOUS
<1> HIDE DEF S, all
<1>6. /\ items \in Seq(Items) /\ Len(items) = C /\ C \in Nat /\ C <= Len(sel)
      /\ DOMAIN items = 1 .. C /\ \E at : Places(at, all, S)
  BY <1>3, <1>4, ThoseFits
<1>7. PICK at \in [1 .. C -> S] :
        /\ \A m \in 1 .. C : items[m] = all[at[m]]
        /\ \A m, k \in 1 .. C : at[m] = at[k] => m = k
  BY <1>6 DEF Places
<1> HIDE DEF items, C
<1>8. ASSUME NEW n \in 1 .. C
      PROVE  /\ at[n] \in 1 .. Len(sel)
             /\ items[n].file = sel[at[n]] /\ items[n].key = KeyOf[sel[at[n]]]
             /\ items[n].key \notin existing
             /\ \A j \in 1 .. at[n] - 1 : KeyOf[sel[j]] # KeyOf[sel[at[n]]]
  <2>1. at[n] \in S /\ at[n] \in 1 .. Len(sel) BY <1>4, <1>7
  <2>2. items[n] = Item(sel[at[n]], folder) BY <1>2, <1>7, <2>1
  <2>3. TakenIn(sel, at[n], folder, existing) BY <1>5, <2>1
  <2> QED BY <2>1, <2>2, <2>3 DEF Item, TakenIn
<1>9. Distinct(items)
  <2> SUFFICES ASSUME NEW m \in 1 .. C, NEW n \in 1 .. C, items[m].key = items[n].key
               PROVE  m = n
    BY <1>6 DEF Distinct
  <2>1. at[m] \in Nat /\ at[n] \in Nat /\ at[m] >= 1 /\ at[n] >= 1 BY <1>8
  <2>2. ~(at[m] < at[n]) /\ ~(at[n] < at[m]) BY <1>8, <2>1
  <2>3. at[m] = at[n] BY <2>1, <2>2
  <2> QED BY <1>7, <2>3
<1> QED BY <1>0, <1>1, <1>6, <1>8, <1>9

\* The file of an item is the one that is found for its key.
LEMMA MatchedFits ==
  ASSUME NEW sel \in Seq(DeviceFiles), NEW i \in DOMAIN sel,
         \A j \in 1 .. i - 1 : KeyOf[sel[j]] # KeyOf[sel[i]]
  PROVE  Matched(sel, KeyOf[sel[i]]) = i
<1> DEFINE key == KeyOf[sel[i]]
           First(h) == KeyOf[sel[h]] = key /\ \A j \in 1 .. h - 1 : KeyOf[sel[j]] # key
<1>0. DOMAIN sel = 1 .. Len(sel) /\ Len(sel) \in Nat BY LenProperties
<1>1. \A h \in DOMAIN sel : First(h) => h = i
  <2> SUFFICES ASSUME NEW h \in DOMAIN sel, First(h) PROVE h = i OBVIOUS
  <2>1. h \in Nat /\ i \in Nat /\ h >= 1 /\ i >= 1 BY <1>0
  <2>2. ~(h < i) /\ ~(i < h) BY <2>1
  <2> QED BY <2>1, <2>2
<1>2. First(i) OBVIOUS
<1>3. Matched(sel, key) = CHOOSE h \in DOMAIN sel : First(h) BY DEF Matched
<1> HIDE DEF First, key
<1>4. Matched(sel, key) = i BY <1>1, <1>2, <1>3
<1> QED BY <1>4 DEF key

\* The same of what passes the extension setting, with the files that are found for
\* the items (WorkflowApp, onSourceFiles).
LEMMA PassingFits ==
  ASSUME NEW sel \in Seq(DeviceFiles), NEW dir, NEW existing
  PROVE  LET items == Passing(sel, dir, existing) IN
         /\ items \in Seq(Items) /\ Distinct(items)
         /\ Len(items) \in Nat /\ Len(items) <= Len(sel)
         /\ \A n \in 1 .. Len(items) :
              /\ items[n].key \notin existing
              /\ sel[Matched(sel, items[n].key)] = items[n].file
<1> DEFINE all == IngestSelection(sel, dir, existing)
           S == {n \in DOMAIN all : all[n].key \in settings.filter}
           C == Cardinality(S)
           items == Those(all, S)
<1>1. Passing(sel, dir, existing) = items BY DEF Passing
<1>2. /\ all \in Seq(Items) /\ Distinct(all)
      /\ Len(all) \in Nat /\ Len(all) <= Len(sel) /\ DOMAIN all = 1 .. Len(all)
  BY IngestFits, LenProperties
<1>3. ASSUME NEW n \in 1 .. Len(all)
      PROVE  all[n].key \notin existing /\ sel[Matched(sel, all[n].key)] = all[n].file
  <2>1. all[n].key \notin existing BY IngestFits
  <2>2. PICK i \in DOMAIN sel :
          /\ all[n].file = sel[i] /\ all[n].key = KeyOf[sel[i]]
          /\ \A j \in 1 .. i - 1 : KeyOf[sel[j]] # KeyOf[sel[i]]
    BY IngestFits
  <2>3. Matched(sel, all[n].key) = i BY <2>2, MatchedFits
  <2> QED BY <2>1, <2>2, <2>3
<1>4. S \in SUBSET (1 .. Len(all)) BY <1>2
<1> HIDE DEF S, all
<1>5. /\ items \in Seq(Items) /\ Len(items) = C /\ C \in Nat /\ C <= Len(all)
      /\ DOMAIN items = 1 .. C /\ \E at : Places(at, all, S)
  BY <1>2, <1>4, ThoseFits
<1>6. PICK at \in [1 .. C -> S] :
        /\ \A m \in 1 .. C : items[m] = all[at[m]]
        /\ \A m, k \in 1 .. C : at[m] = at[k] => m = k
  BY <1>5 DEF Places
<1> HIDE DEF items, C
<1>7. \A n \in 1 .. C : at[n] \in 1 .. Len(all) BY <1>4, <1>6
<1>8. Distinct(items)
  <2> SUFFICES ASSUME NEW m \in 1 .. C, NEW n \in 1 .. C, items[m].key = items[n].key
               PROVE  m = n
    BY <1>5 DEF Distinct
  <2>1. all[at[m]].key = all[at[n]].key BY <1>6
  <2>2. at[m] = at[n] BY <1>2, <1>7, <2>1 DEF Distinct
  <2> QED BY <1>6, <2>2
<1>9. Len(sel) \in Nat BY LenProperties
<1> QED BY <1>1, <1>2, <1>3, <1>5, <1>6, <1>7, <1>8, <1>9

\* A sequence without one of its elements.
LEMMA RemoveAtFits ==
  ASSUME NEW T, NEW seq \in Seq(T), NEW i \in 1 .. Len(seq)
  PROVE  /\ RemoveAt(seq, i) \in Seq(T) /\ Len(RemoveAt(seq, i)) = Len(seq) - 1
         /\ \A n \in 1 .. Len(seq) - 1 :
              RemoveAt(seq, i)[n] = seq[IF n < i THEN n ELSE n + 1]
<1> DEFINE l == SubSeq(seq, 1, i - 1)
           r == SubSeq(seq, i + 1, Len(seq))
<1>0. Len(seq) \in Nat /\ \A n \in 1 .. Len(seq) : seq[n] \in T
  BY LenProperties, ElementOfSeq
<1>1. /\ l \in Seq(T) /\ Len(l) = i - 1
      /\ \A n \in 1 .. i - 1 : l[n] = seq[n]
  <2>1. /\ l \in Seq(T) /\ Len(l) = IF 1 <= i - 1 THEN (i - 1) - 1 + 1 ELSE 0
        /\ \A n \in 1 .. (i - 1) - 1 + 1 : l[n] = seq[1 + n - 1]
    <3>1. 1 \in Int /\ i - 1 \in Int /\ \A n \in 1 .. i - 1 : seq[n] \in T BY <1>0
    <3> QED BY <3>1, SubSeqProperties
  <2> HIDE DEF l
  <2> QED BY <1>0, <2>1
<1>2. /\ r \in Seq(T) /\ Len(r) = Len(seq) - i
      /\ \A n \in 1 .. Len(seq) - i : r[n] = seq[n + i]
  <2>1. /\ r \in Seq(T)
        /\ Len(r) = IF i + 1 <= Len(seq) THEN Len(seq) - (i + 1) + 1 ELSE 0
        /\ \A n \in 1 .. Len(seq) - (i + 1) + 1 : r[n] = seq[i + 1 + n - 1]
    <3>1. i + 1 \in Int /\ Len(seq) \in Int
          /\ \A n \in i + 1 .. Len(seq) : seq[n] \in T
      BY <1>0
    <3> QED BY <3>1, SubSeqProperties
  <2>2. \A n \in 1 .. Len(seq) - i : i + 1 + n - 1 = n + i BY <1>0
  <2>3. Len(seq) - (i + 1) + 1 = Len(seq) - i BY <1>0
  <2> HIDE DEF r
  <2>4. Len(r) = Len(seq) - i
    <3>1. Len(r) = IF i + 1 <= Len(seq) THEN Len(seq) - (i + 1) + 1 ELSE 0 BY <2>1
    <3>2. CASE i + 1 <= Len(seq) BY <2>3, <3>1, <3>2
    <3>3. CASE ~(i + 1 <= Len(seq))
      <4>1. i = Len(seq) BY <1>0, <3>3
      <4>2. Len(seq) - i = 0 BY <1>0, <4>1
      <4> QED BY <3>1, <3>3, <4>2
    <3> QED BY <3>2, <3>3
  <2>5. ASSUME NEW n \in 1 .. Len(seq) - i PROVE r[n] = seq[n + i]
    <3>1. r[n] = seq[i + 1 + n - 1] BY <2>1, <2>3
    <3> QED BY <2>2, <3>1
  <2> QED BY <2>1, <2>4, <2>5
<1>3. RemoveAt(seq, i) = l \o r BY DEF RemoveAt
<1> HIDE DEF l, r
<1>4. /\ l \o r \in Seq(T) /\ Len(l \o r) = Len(l) + Len(r)
      /\ \A n \in 1 .. Len(l) + Len(r) : (l \o r)[n] = IF n <= Len(l) THEN l[n] ELSE r[n - Len(l)]
  BY <1>1, <1>2, ConcatProperties
<1>5. Len(l) + Len(r) = Len(seq) - 1 BY <1>0, <1>1, <1>2
<1>6. ASSUME NEW n \in 1 .. Len(seq) - 1
      PROVE  (l \o r)[n] = seq[IF n < i THEN n ELSE n + 1]
  <2>1. (l \o r)[n] = IF n <= i - 1 THEN l[n] ELSE r[n - (i - 1)] BY <1>1, <1>4, <1>5
  <2>2. CASE n < i
    <3>1. n <= i - 1 /\ n \in 1 .. i - 1 BY <2>2, <1>0
    <3> QED BY <1>1, <2>1, <2>2, <3>1
  <2>3. CASE ~(n < i)
    <3>1. ~(n <= i - 1) /\ n - (i - 1) \in 1 .. Len(seq) - i /\ n - (i - 1) + i = n + 1
      BY <2>3, <1>0
    <3> QED BY <1>2, <2>1, <2>3, <3>1
  <2> QED BY <2>2, <2>3
<1> QED BY <1>3, <1>4, <1>5, <1>6

\* Sources and their file objects beside them.
SourcesFit(items, handles) ==
  /\ items \in Seq(Items) /\ Distinct(items)
  /\ handles \in Seq(DeviceFiles) /\ Len(handles) = Len(items)
  /\ \A i \in 1 .. Len(items) : handles[i] = items[i].file

\* Removing, adding and replacing keep the two sequences parallel.
LEMMA RemovedFits ==
  ASSUME NEW items, NEW handles, SourcesFit(items, handles), NEW i \in 1 .. Len(items)
  PROVE  /\ SourcesFit(RemoveAt(items, i), RemoveAt(handles, i))
         /\ Len(RemoveAt(items, i)) = Len(items) - 1
         /\ KeysOf(RemoveAt(items, i)) \subseteq KeysOf(items)
<1> DEFINE L == Len(items) - 1
           at(n) == IF n < i THEN n ELSE n + 1
           less == RemoveAt(items, i)
           fewer == RemoveAt(handles, i)
<1>0. /\ items \in Seq(Items) /\ Distinct(items)
      /\ handles \in Seq(DeviceFiles) /\ Len(handles) = Len(items)
      /\ \A n \in 1 .. Len(items) : handles[n] = items[n].file
  BY DEF SourcesFit
<1>1. Len(items) \in Nat /\ DOMAIN items = 1 .. Len(items) BY <1>0, LenProperties
<1>2. less \in Seq(Items) /\ Len(less) = L /\ \A n \in 1 .. L : less[n] = items[at(n)]
  BY <1>0, RemoveAtFits
<1>3. fewer \in Seq(DeviceFiles) /\ Len(fewer) = L
      /\ \A n \in 1 .. L : fewer[n] = handles[at(n)]
  BY <1>0, RemoveAtFits
<1>4. \A n \in 1 .. L : at(n) \in 1 .. Len(items) BY <1>1
<1>5. \A m, n \in 1 .. L : at(m) = at(n) => m = n BY <1>1
<1>6. DOMAIN less = 1 .. L BY <1>2, LenProperties
<1> HIDE DEF at, less, fewer, L
<1>7. Distinct(less)
  <2> SUFFICES ASSUME NEW m \in 1 .. L, NEW n \in 1 .. L, less[m].key = less[n].key
               PROVE  m = n
    BY <1>6 DEF Distinct
  <2>1. at(m) = at(n) BY <1>0, <1>1, <1>2, <1>4 DEF Distinct
  <2> QED BY <1>5, <2>1
<1>8. \A n \in 1 .. L : fewer[n] = less[n].file BY <1>0, <1>2, <1>3, <1>4
<1>9. KeysOf(less) \subseteq KeysOf(items) BY <1>1, <1>2, <1>4, <1>6 DEF KeysOf
<1>10. SourcesFit(less, fewer) BY <1>2, <1>3, <1>7, <1>8 DEF SourcesFit
<1> QED BY <1>2, <1>9, <1>10 DEF less, fewer, L

LEMMA AppendedFits ==
  ASSUME NEW items, NEW handles, SourcesFit(items, handles),
         NEW more, NEW others, SourcesFit(more, others),
         KeysOf(items) \cap KeysOf(more) = {}
  PROVE  /\ SourcesFit(items \o more, handles \o others)
         /\ Len(items \o more) = Len(items) + Len(more)
         /\ KeysOf(items \o more) = KeysOf(items) \cup KeysOf(more)
<1> DEFINE L == Len(items)
           M == Len(more)
           all == items \o more
           allFiles == handles \o others
<1>0. /\ items \in Seq(Items) /\ Distinct(items)
      /\ handles \in Seq(DeviceFiles) /\ Len(handles) = L
      /\ \A n \in 1 .. L : handles[n] = items[n].file
      /\ more \in Seq(Items) /\ Distinct(more)
      /\ others \in Seq(DeviceFiles) /\ Len(others) = M
      /\ \A n \in 1 .. M : others[n] = more[n].file
  BY DEF SourcesFit
<1>1. L \in Nat /\ DOMAIN items = 1 .. L /\ M \in Nat /\ DOMAIN more = 1 .. M
  BY <1>0, LenProperties
<1>2. /\ all \in Seq(Items) /\ Len(all) = L + M
      /\ \A n \in 1 .. L + M : all[n] = IF n <= L THEN items[n] ELSE more[n - L]
  BY <1>0, ConcatProperties
<1>3. /\ allFiles \in Seq(DeviceFiles) /\ Len(allFiles) = L + M
      /\ \A n \in 1 .. L + M : allFiles[n] = IF n <= L THEN handles[n] ELSE others[n - L]
  <2>1. /\ allFiles \in Seq(DeviceFiles) /\ Len(allFiles) = Len(handles) + Len(others)
        /\ \A n \in 1 .. Len(handles) + Len(others) :
             allFiles[n] = IF n <= Len(handles) THEN handles[n] ELSE others[n - Len(handles)]
    BY <1>0, ConcatProperties
  <2>2. Len(handles) = L /\ Len(others) = M BY <1>0
  <2> HIDE DEF allFiles, L, M
  <2> QED BY <2>1, <2>2
<1>4. DOMAIN all = 1 .. L + M BY <1>2, LenProperties
<1> HIDE DEF L, M, all, allFiles
<1>5. \A n \in 1 .. L + M : IF n <= L THEN n \in 1 .. L ELSE n - L \in 1 .. M
  BY <1>1
<1>6. \A n \in 1 .. L : n \in 1 .. L + M /\ n <= L BY <1>1
<1>7. \A n \in 1 .. M : n + L \in 1 .. L + M /\ ~(n + L <= L) /\ (n + L) - L = n BY <1>1
<1>8. ASSUME NEW n \in 1 .. L + M PROVE allFiles[n] = all[n].file
  <2>1. CASE n <= L
    <3>1. n \in 1 .. L /\ allFiles[n] = handles[n] /\ all[n] = items[n]
      BY <1>2, <1>3, <1>5, <2>1
    <3> QED BY <1>0, <3>1
  <2>2. CASE ~(n <= L)
    <3>1. n - L \in 1 .. M /\ allFiles[n] = others[n - L] /\ all[n] = more[n - L]
      BY <1>2, <1>3, <1>5, <2>2
    <3> QED BY <1>0, <3>1
  <2> QED BY <2>1, <2>2
<1>9. \A n \in 1 .. L : items[n].key \in KeysOf(items) BY <1>1 DEF KeysOf
<1>10. \A n \in 1 .. M : more[n].key \in KeysOf(more) BY <1>1 DEF KeysOf
<1>11. Distinct(all)
  <2> SUFFICES ASSUME NEW m \in 1 .. L + M, NEW n \in 1 .. L + M, all[m].key = all[n].key
               PROVE  m = n
    BY <1>4 DEF Distinct
  <2>1. CASE m <= L /\ n <= L BY <1>0, <1>1, <1>2, <1>5, <2>1 DEF Distinct
  <2>2. CASE ~(m <= L) /\ ~(n <= L)
    <3>1. m - L \in DOMAIN more /\ n - L \in DOMAIN more BY <1>1, <1>5, <2>2
    <3>2. more[m - L].key = more[n - L].key BY <1>2, <2>2
    <3>3. m - L = n - L BY <1>0, <3>1, <3>2 DEF Distinct
    <3> QED BY <1>1, <3>3
  <2>3. CASE m <= L /\ ~(n <= L)
    <3>1. all[m].key \in KeysOf(items) /\ all[n].key \in KeysOf(more)
      BY <1>2, <1>5, <1>9, <1>10, <2>3
    <3> QED BY <3>1
  <2>4. CASE ~(m <= L) /\ n <= L
    <3>1. all[n].key \in KeysOf(items) /\ all[m].key \in KeysOf(more)
      BY <1>2, <1>5, <1>9, <1>10, <2>4
    <3> QED BY <3>1
  <2> QED BY <2>1, <2>2, <2>3, <2>4
<1>12. KeysOf(all) = KeysOf(items) \cup KeysOf(more)
  <2>1. \A n \in 1 .. L + M : all[n].key \in KeysOf(items) \cup KeysOf(more)
    BY <1>2, <1>5, <1>9, <1>10
  <2>2. \A n \in 1 .. L : items[n].key \in KeysOf(all)
    <3> SUFFICES ASSUME NEW n \in 1 .. L PROVE items[n].key \in KeysOf(all) OBVIOUS
    <3>1. n \in DOMAIN all /\ all[n] = items[n] BY <1>2, <1>4, <1>6
    <3> QED BY <3>1 DEF KeysOf
  <2>3. \A n \in 1 .. M : more[n].key \in KeysOf(all)
    <3> SUFFICES ASSUME NEW n \in 1 .. M PROVE more[n].key \in KeysOf(all) OBVIOUS
    <3>1. n + L \in DOMAIN all /\ all[n + L] = more[n] BY <1>2, <1>4, <1>7
    <3> QED BY <3>1 DEF KeysOf
  <2>4. KeysOf(all) \subseteq KeysOf(items) \cup KeysOf(more) BY <1>4, <2>1 DEF KeysOf
  <2>5. KeysOf(items) \subseteq KeysOf(all) BY <1>1, <2>2 DEF KeysOf
  <2>6. KeysOf(more) \subseteq KeysOf(all) BY <1>1, <2>3 DEF KeysOf
  <2> QED BY <2>4, <2>5, <2>6
<1>13. SourcesFit(all, allFiles) BY <1>2, <1>3, <1>8, <1>11 DEF SourcesFit
<1> QED BY <1>2, <1>12, <1>13 DEF all, allFiles, L, M

LEMMA ReplacedFits ==
  ASSUME NEW items, NEW handles, SourcesFit(items, handles), NEW i \in 1 .. Len(items),
         NEW new \in Items, \A n \in 1 .. Len(items) : n # i => items[n].key # new.key
  PROVE  /\ SourcesFit(ReplaceAt(items, i, new), ReplaceAt(handles, i, new.file))
         /\ Len(ReplaceAt(items, i, new)) = Len(items)
         /\ KeysOf(ReplaceAt(items, i, new)) \subseteq KeysOf(items) \cup {new.key}
<1> DEFINE L == Len(items)
           all == ReplaceAt(items, i, new)
           allFiles == ReplaceAt(handles, i, new.file)
<1>0. /\ items \in Seq(Items) /\ Distinct(items)
      /\ handles \in Seq(DeviceFiles) /\ Len(handles) = L
      /\ \A n \in 1 .. L : handles[n] = items[n].file
  BY DEF SourcesFit
<1>1. L \in Nat /\ DOMAIN items = 1 .. L BY <1>0, LenProperties
<1>2. /\ all \in Seq(Items) /\ Len(all) = L
      /\ \A n \in 1 .. L : all[n] = IF n = i THEN new ELSE items[n]
  BY <1>0, ExceptSeq DEF ReplaceAt
<1>3. new.file \in DeviceFiles BY DEF Items
<1>4. /\ allFiles \in Seq(DeviceFiles) /\ Len(allFiles) = L
      /\ \A n \in 1 .. L : allFiles[n] = IF n = i THEN new.file ELSE handles[n]
  BY <1>0, <1>3, ExceptSeq DEF ReplaceAt
<1>5. DOMAIN all = 1 .. L BY <1>2, LenProperties
<1> HIDE DEF L, all, allFiles
<1>6. Distinct(all)
  <2> SUFFICES ASSUME NEW m \in 1 .. L, NEW n \in 1 .. L, all[m].key = all[n].key
               PROVE  m = n
    BY <1>5 DEF Distinct
  <2> QED BY <1>0, <1>1, <1>2 DEF Distinct, L
<1>7. \A n \in 1 .. L : allFiles[n] = all[n].file BY <1>0, <1>2, <1>4
<1>8. KeysOf(all) \subseteq KeysOf(items) \cup {new.key}
  <2>1. \A n \in 1 .. L : all[n].key = new.key \/ all[n].key = items[n].key BY <1>2
  <2> QED BY <1>1, <1>5, <2>1 DEF KeysOf
<1>9. SourcesFit(all, allFiles) BY <1>2, <1>4, <1>6, <1>7 DEF SourcesFit
<1> QED BY <1>2, <1>8, <1>9 DEF all, allFiles, L

-----------------------------------------------------------------------------
(* Base files. *)

\* Keys that were added once each, none of them taken already.
BaseFits(b, taken) ==
  b \in Seq(Keys) /\ IsInjective(b) /\ taken \cap ToSet(b) = {}

\* The base files that are added are new (base-code, addBaseFiles).
LEMMA AddedFits ==
  ASSUME NEW sel \in Seq(DeviceFiles), NEW dir, NEW gs, NEW b, NEW l
  PROVE  BaseFits(AddedBase(sel, dir, gs, b, l), BaseExisting(gs, b))
<1> DEFINE existing == BaseExisting(gs, b)
           items == IngestSelection(sel, dir, existing)
           keys == [n \in DOMAIN items |-> items[n].key]
           S == {n \in DOMAIN keys : FitsLanguage(keys[n], l)}
           C == Cardinality(S)
           added == Those(keys, S)
<1>1. AddedBase(sel, dir, gs, b, l) = added BY DEF AddedBase
<1>2. /\ items \in Seq(Items) /\ Distinct(items) /\ Len(items) \in Nat
      /\ DOMAIN items = 1 .. Len(items)
      /\ \A n \in 1 .. Len(items) : items[n].key \notin existing
  BY IngestFits, LenProperties
<1> HIDE DEF existing, items
<1>3. \A n \in 1 .. Len(items) : keys[n] = items[n].key /\ keys[n] \in Keys
  <2>1. \A n \in 1 .. Len(items) : items[n] \in Items BY <1>2, ElementOfSeq
  <2> QED BY <1>2, <2>1 DEF Items
<1>4. keys \in Seq(Keys) /\ Len(keys) = Len(items) /\ DOMAIN keys = 1 .. Len(items)
  <2>1. keys \in [1 .. Len(items) -> Keys] BY <1>2, <1>3
  <2> HIDE DEF keys
  <2> QED BY <1>2, <2>1
<1>5. S \in SUBSET (1 .. Len(keys)) BY <1>4
<1> HIDE DEF keys, S
<1>6. /\ added \in Seq(Keys) /\ C \in Nat /\ DOMAIN added = 1 .. C
      /\ \E at : Places(at, keys, S)
  BY <1>4, <1>5, ThoseFits
<1>7. PICK at \in [1 .. C -> S] :
        /\ \A m \in 1 .. C : added[m] = keys[at[m]]
        /\ \A m, k \in 1 .. C : at[m] = at[k] => m = k
  BY <1>6 DEF Places
<1> HIDE DEF added, C
<1>8. \A m \in 1 .. C : at[m] \in 1 .. Len(items) /\ added[m] = items[at[m]].key
  BY <1>3, <1>4, <1>5, <1>7
<1>9. IsInjective(added)
  <2> SUFFICES ASSUME NEW m \in 1 .. C, NEW n \in 1 .. C, added[m] = added[n] PROVE m = n
    BY <1>6 DEF IsInjective
  <2>1. items[at[m]].key = items[at[n]].key BY <1>8
  <2>2. at[m] = at[n] BY <1>2, <1>8, <2>1 DEF Distinct
  <2> QED BY <1>7, <2>2
<1>10. \A m \in 1 .. C : added[m] \notin existing BY <1>2, <1>8
<1>11. existing \cap ToSet(added) = {} BY <1>6, <1>10 DEF ToSet
<1>12. BaseFits(added, existing) BY <1>6, <1>9, <1>11 DEF BaseFits
<1> QED BY <1>1, <1>12 DEF existing

LEMMA JoinedBaseFits ==
  ASSUME NEW b, NEW taken, BaseFits(b, taken), NEW a, BaseFits(a, taken \cup ToSet(b))
  PROVE  BaseFits(b \o a, taken)
<1> DEFINE L == Len(b)
           M == Len(a)
           all == b \o a
<1>0. b \in Seq(Keys) /\ a \in Seq(Keys) /\ IsInjective(b) /\ IsInjective(a)
  BY DEF BaseFits
<1>1. L \in Nat /\ DOMAIN b = 1 .. L /\ M \in Nat /\ DOMAIN a = 1 .. M
  BY <1>0, LenProperties
<1>2. /\ all \in Seq(Keys) /\ Len(all) = L + M
      /\ \A n \in 1 .. L + M : all[n] = IF n <= L THEN b[n] ELSE a[n - L]
  BY <1>0, ConcatProperties
<1>3. DOMAIN all = 1 .. L + M BY <1>2, LenProperties
<1> HIDE DEF L, M, all
<1>4. \A n \in 1 .. L + M : IF n <= L THEN n \in 1 .. L ELSE n - L \in 1 .. M
  BY <1>1
<1>5. \A n \in 1 .. L : b[n] \in ToSet(b) BY <1>1 DEF ToSet
<1>6. \A n \in 1 .. M : a[n] \in ToSet(a) BY <1>1 DEF ToSet
<1>7. ToSet(b) \cap ToSet(a) = {} /\ taken \cap ToSet(b) = {} /\ taken \cap ToSet(a) = {}
  BY DEF BaseFits
<1>8. IsInjective(all)
  <2> SUFFICES ASSUME NEW m \in 1 .. L + M, NEW n \in 1 .. L + M, all[m] = all[n]
               PROVE  m = n
    BY <1>3 DEF IsInjective
  <2>1. CASE m <= L /\ n <= L BY <1>0, <1>1, <1>2, <1>4, <2>1 DEF IsInjective
  <2>2. CASE ~(m <= L) /\ ~(n <= L)
    <3>1. m - L \in DOMAIN a /\ n - L \in DOMAIN a BY <1>1, <1>4, <2>2
    <3>2. a[m - L] = a[n - L] BY <1>2, <2>2
    <3>3. m - L = n - L BY <1>0, <3>1, <3>2 DEF IsInjective
    <3> QED BY <1>1, <3>3
  <2>3. CASE m <= L /\ ~(n <= L)
    <3>1. all[m] \in ToSet(b) /\ all[n] \in ToSet(a) BY <1>2, <1>4, <1>5, <1>6, <2>3
    <3> QED BY <1>7, <3>1
  <2>4. CASE ~(m <= L) /\ n <= L
    <3>1. all[n] \in ToSet(b) /\ all[m] \in ToSet(a) BY <1>2, <1>4, <1>5, <1>6, <2>4
    <3> QED BY <1>7, <3>1
  <2> QED BY <2>1, <2>2, <2>3, <2>4
<1>9. ASSUME NEW n \in 1 .. L + M PROVE all[n] \notin taken
  <2>1. all[n] \in ToSet(b) \/ all[n] \in ToSet(a) BY <1>2, <1>4, <1>5, <1>6
  <2> QED BY <1>7, <2>1
<1>10. taken \cap ToSet(all) = {} BY <1>3, <1>9 DEF ToSet
<1> QED BY <1>2, <1>8, <1>10 DEF BaseFits, all

LEMMA RemovedBaseFits ==
  ASSUME NEW b, NEW taken, BaseFits(b, taken), NEW i \in 1 .. Len(b)
  PROVE  BaseFits(RemoveAt(b, i), taken)
<1> DEFINE L == Len(b) - 1
           at(n) == IF n < i THEN n ELSE n + 1
           less == RemoveAt(b, i)
<1>0. b \in Seq(Keys) /\ IsInjective(b) /\ taken \cap ToSet(b) = {} BY DEF BaseFits
<1>1. Len(b) \in Nat /\ DOMAIN b = 1 .. Len(b) BY <1>0, LenProperties
<1>2. less \in Seq(Keys) /\ Len(less) = L /\ \A n \in 1 .. L : less[n] = b[at(n)]
  BY <1>0, RemoveAtFits
<1>3. \A n \in 1 .. L : at(n) \in 1 .. Len(b) BY <1>1
<1>4. \A m, n \in 1 .. L : at(m) = at(n) => m = n BY <1>1
<1>5. DOMAIN less = 1 .. L BY <1>2, LenProperties
<1> HIDE DEF at, less, L
<1>6. IsInjective(less)
  <2> SUFFICES ASSUME NEW m \in 1 .. L, NEW n \in 1 .. L, less[m] = less[n] PROVE m = n
    BY <1>5 DEF IsInjective
  <2>1. at(m) = at(n) BY <1>0, <1>1, <1>2, <1>3 DEF IsInjective
  <2> QED BY <1>4, <2>1
<1>7. \A n \in 1 .. L : less[n] \in ToSet(b) BY <1>1, <1>2, <1>3 DEF ToSet
<1>8. taken \cap ToSet(less) = {}
  <2>1. ToSet(less) \subseteq ToSet(b) BY <1>5, <1>7 DEF ToSet
  <2> QED BY <1>0, <2>1
<1> QED BY <1>2, <1>6, <1>8 DEF BaseFits, less

-----------------------------------------------------------------------------
(* The invariant. *)

Plans == {"none", "pair", "batch"}

DraftInv ==
  /\ plan \in Plans /\ consent \subseteq Boxes
  /\ SourcesFit(sources, files) /\ Len(sources) <= BatchMax
  /\ BaseFits(base, KeysOf(sources))
  /\ groups = SuggestGroups(sources) \/ (sources = <<>> /\ groups = <<>>)

\* While both boxes are ticked, what was agreed to is on screen, unless a start is
\* impossible: the language has to be confirmed, or nothing is chosen.
AgreedInv ==
  IF Both \subseteq consent
  THEN \E d : agreed = {d} /\ (confirmed /\ sources # <<>> => Content(d) = Content(Draft))
  ELSE agreed = {}

\* What a start under way took with it.
StartHolds(s) ==
  /\ SourcesFit(s.sources, s.files) /\ GroupsFit(s.sources, s.groups)
  /\ \A n \in 1 .. Len(s.groups) : s.groups[n] # {}
  /\ Len(s.groups) >= 2
  /\ Len(s.sources) <= FilesOf(s.plan)
  /\ s.draft.sources = s.sources
  /\ {Content(d) : d \in s.of} = {Content(s.draft)}

StartInv == start.on => StartHolds(start)

WorkspaceInv ==
  DraftInv /\ AgreedInv /\ StartInv /\ OnlyAgreedIsSent /\ SubmissionsAreGroups

Agreeing ==
  agreed' = IF ~(Both \subseteq consent') THEN {}
            ELSE IF Both \subseteq consent THEN agreed ELSE {Draft'}

\* A step that leaves the consents leaves what they are about, or makes a start
\* impossible.
Kept ==
  Both \subseteq consent' /\ Both \subseteq consent =>
    (confirmed' /\ sources' # <<>> =>
       confirmed /\ sources # <<>> /\ Content(Draft)' = Content(Draft))

LEMMA AgreedKeeps ==
  ASSUME AgreedInv, Agreeing, Kept PROVE AgreedInv'
<1>1. CASE ~(Both \subseteq consent') BY <1>1 DEF AgreedInv, Agreeing
<1>2. CASE Both \subseteq consent' /\ ~(Both \subseteq consent)
  <2>1. agreed' = {Draft'} BY <1>2 DEF Agreeing
  <2>2. Content(Draft') = Content(Draft)' BY DEF Content, Draft
  <2> QED BY <1>2, <2>1, <2>2 DEF AgreedInv
<1>3. CASE Both \subseteq consent' /\ Both \subseteq consent
  <2>1. PICK d : agreed = {d} /\ (confirmed /\ sources # <<>> => Content(d) = Content(Draft))
    BY <1>3 DEF AgreedInv
  <2>2. agreed' = {d} BY <1>3, <2>1 DEF Agreeing
  <2>3. confirmed' /\ sources' # <<>> => Content(d) = Content(Draft)'
    BY <1>3, <2>1 DEF Kept
  <2> QED BY <1>3, <2>2, <2>3 DEF AgreedInv
<1> QED BY <1>1, <1>2, <1>3

LEMMA SameDraft ==
  ASSUME UNCHANGED <<sources, base, lang>> PROVE Content(Draft)' = Content(Draft)
BY DEF Content, Draft

LEMMA EmptyFits ==
  /\ SourcesFit(<<>>, <<>>) /\ Len(<<>>) = 0 /\ KeysOf(<<>>) = {}
  /\ BaseFits(<<>>, {}) /\ 0 <= BatchMax
<1>1. /\ <<>> \in Seq(Items) /\ <<>> \in Seq(DeviceFiles) /\ <<>> \in Seq(Keys)
      /\ Len(<<>>) = 0
  BY EmptySeq
<1>2. DOMAIN <<>> = {} OBVIOUS
<1> QED BY <1>1, <1>2, WorkspaceAssumption
    DEF SourcesFit, KeysOf, BaseFits, Distinct, IsInjective, ToSet

\* Whoever holds a disjoint base holds one of fewer sources.
LEMMA BaseOfFewer ==
  ASSUME NEW b, NEW taken, NEW fewer, BaseFits(b, taken), fewer \subseteq taken
  PROVE  BaseFits(b, fewer)
BY DEF BaseFits

LEMMA GroupedDraft ==
  ASSUME DraftInv
  PROVE  UNION ToSet(groups) = KeysOf(sources)
<1>1. CASE groups = SuggestGroups(sources)
  <2>1. sources \in Seq(Items) /\ Distinct(sources) BY DEF DraftInv, SourcesFit
  <2>2. GroupsFit(sources, groups) BY <1>1, <2>1, SuggestGroupsFit
  <2> QED BY <2>1, <2>2, GroupsHold
<1>2. CASE sources = <<>> /\ groups = <<>>
  <2>1. ToSet(<<>>) = {} BY DEF ToSet
  <2> QED BY <1>2, <2>1, EmptyFits
<1> QED BY <1>1, <1>2 DEF DraftInv

-----------------------------------------------------------------------------
(* The steps on the draft. *)

LEMMA ChosenAre ==
  ASSUME NEW most \in Nat, NEW dir, NEW sel \in Selections(most, dir)
  PROVE  sel \in Seq(DeviceFiles)
<1>1. sel \in UNION {[1 .. n -> DeviceFiles] : n \in 1 .. most} BY DEF Selections
<1>2. PICK n \in 1 .. most : sel \in [1 .. n -> DeviceFiles] BY <1>1
<1>3. n \in Nat OBVIOUS
<1> QED BY <1>2, <1>3

LEMMA CappedFits ==
  ASSUME NEW sel \in Seq(DeviceFiles), NEW room \in Nat
  PROVE  Capped(sel, room) \in Seq(DeviceFiles) /\ Len(Capped(sel, room)) <= room
<1> DEFINE m == IF Len(sel) < room THEN Len(sel) ELSE room
           t == SubSeq(sel, 1, m)
<1>1. Len(sel) \in Nat /\ \A i \in 1 .. Len(sel) : sel[i] \in DeviceFiles
  BY LenProperties, ElementOfSeq
<1>2. m \in Nat /\ m <= room /\ m <= Len(sel) BY <1>1
<1>3. Capped(sel, room) = t BY DEF Capped
<1> HIDE DEF m
<1>4. 1 \in Int /\ m \in Int /\ \A i \in 1 .. m : sel[i] \in DeviceFiles BY <1>1, <1>2
<1>5. t \in Seq(DeviceFiles) /\ Len(t) = IF 1 <= m THEN m - 1 + 1 ELSE 0
  BY <1>4, SubSeqProperties
<1> HIDE DEF t
<1>6. Len(t) = m BY <1>2, <1>5
<1> QED BY <1>2, <1>3, <1>5, <1>6

LEMMA OthersHold ==
  ASSUME NEW slot \in 1 .. Len(sources), Len(sources) \in Nat,
         NEW n \in 1 .. Len(sources), n # slot
  PROVE  sources[n].key \in KeysOf(Others(slot))
<1> DEFINE rest == Others(slot)
<1>1. rest = [i \in 1 .. Len(sources) - 1 |-> sources[IF i < slot THEN i ELSE i + 1]]
  BY DEF Others
<1>2. DOMAIN rest = 1 .. Len(sources) - 1 BY <1>1
<1>3. \E i \in DOMAIN rest : rest[i] = sources[n]
  <2>1. CASE n < slot
    <3>1. n \in DOMAIN rest BY <1>2, <2>1
    <3>2. rest[n] = sources[n] BY <1>1, <1>2, <2>1, <3>1
    <3> QED BY <3>1, <3>2
  <2>2. CASE ~(n < slot)
    <3>1. n - 1 \in DOMAIN rest /\ ~(n - 1 < slot) /\ (n - 1) + 1 = n BY <1>2, <2>2
    <3>2. rest[n - 1] = sources[n] BY <1>1, <1>2, <3>1
    <3> QED BY <3>1, <3>2
  <2> QED BY <2>1, <2>2
<1> HIDE DEF rest
<1> QED BY <1>3 DEF KeysOf, rest

LEMMA OnSourceFilesKeeps ==
  ASSUME DraftInv, NEW sel \in Seq(DeviceFiles), NEW dir, NEW slot,
         OnSourceFiles(sel, dir, slot)
  PROVE  DraftInv' /\ consent' = {}
<1> DEFINE room  == RoomFor(slot)
           first == Capped(sel, room)
           existing == KeysOf(IF Replaces(slot) THEN Others(slot) ELSE sources) \cup ToSet(base)
           items == Passing(first, dir, existing)
           handles == [n \in DOMAIN items |-> first[Matched(first, items[n].key)]]
<1>1. /\ room > 0 /\ items # <<>>
      /\ sources' = Placed(sources, items, slot)
      /\ files' = Placed(files, handles, slot)
      /\ groups' = SuggestGroups(sources')
      /\ consent' = {} /\ UNCHANGED <<plan, base>>
  BY DEF OnSourceFiles, ResetConsent
<1>2. /\ SourcesFit(sources, files) /\ Len(sources) <= BatchMax
      /\ BaseFits(base, KeysOf(sources)) /\ plan \in Plans
      /\ sources \in Seq(Items) /\ Len(sources) \in Nat
      /\ DOMAIN sources = 1 .. Len(sources) /\ BatchMax \in Nat
  BY LenProperties, WorkspaceAssumption DEF DraftInv, SourcesFit
<1>3. FilesOf(plan) \in Nat /\ FilesOf(plan) <= BatchMax
  BY WorkspaceAssumption DEF FilesOf
<1>4. room \in Nat
  <2>1. room \in Int BY <1>2, <1>3 DEF RoomFor
  <2> HIDE DEF room
  <2> QED BY <1>1, <2>1
<1> HIDE DEF room
<1>5. first \in Seq(DeviceFiles) /\ Len(first) <= room /\ Len(first) \in Nat
  BY <1>4, CappedFits, LenProperties
<1> HIDE DEF first, existing
<1>6. /\ items \in Seq(Items) /\ Distinct(items)
      /\ Len(items) \in Nat /\ Len(items) <= Len(first)
      /\ \A n \in 1 .. Len(items) :
           /\ items[n].key \notin existing
           /\ first[Matched(first, items[n].key)] = items[n].file
  BY <1>5, PassingFits
<1> HIDE DEF items
<1>7. /\ DOMAIN items = 1 .. Len(items) /\ Len(items) >= 1
      /\ \A n \in 1 .. Len(items) : items[n] \in Items
  BY <1>1, <1>6, LenProperties, ElementOfSeq, EmptySeq
<1>8. handles = [n \in 1 .. Len(items) |-> items[n].file]
  BY <1>6, <1>7
<1> HIDE DEF handles
<1>9. handles \in Seq(DeviceFiles) /\ Len(handles) = Len(items)
  <2>1. \A n \in 1 .. Len(items) : items[n].file \in DeviceFiles BY <1>7 DEF Items
  <2>2. handles \in [1 .. Len(items) -> DeviceFiles] BY <1>8, <2>1
  <2> QED BY <1>6, <2>2
<1>10. SourcesFit(items, handles) BY <1>6, <1>8, <1>9 DEF SourcesFit
<1>11. CASE Replaces(slot)
  <2>1. slot \in 1 .. Len(sources) BY <1>11 DEF Replaces
  <2>2. /\ sources' = ReplaceAt(sources, slot, items[1])
        /\ files' = ReplaceAt(files, slot, items[1].file)
    BY <1>1, <1>7, <1>8, <1>11 DEF Placed
  <2>3. existing = KeysOf(Others(slot)) \cup ToSet(base) BY <1>11 DEF existing
  <2>4. items[1] \in Items /\ items[1].key \notin existing BY <1>6, <1>7
  <2>5. \A n \in 1 .. Len(sources) : n # slot => sources[n].key # items[1].key
    BY <1>2, <2>1, <2>3, <2>4, OthersHold
  <2>6. /\ SourcesFit(sources', files') /\ Len(sources') = Len(sources)
        /\ KeysOf(sources') \subseteq KeysOf(sources) \cup {items[1].key}
    BY <1>2, <2>1, <2>2, <2>4, <2>5, ReplacedFits
  <2>7. BaseFits(base, KeysOf(sources'))
    <3>1. items[1].key \notin ToSet(base) BY <2>3, <2>4
    <3> QED BY <1>2, <2>6, <3>1 DEF BaseFits
  <2> QED BY <1>1, <1>2, <2>6, <2>7 DEF DraftInv
<1>12. CASE ~Replaces(slot)
  <2>1. sources' = sources \o items /\ files' = files \o handles
    BY <1>1, <1>12 DEF Placed
  <2>2. existing = KeysOf(sources) \cup ToSet(base) BY <1>12 DEF existing
  <2>3. KeysOf(items) \cap existing = {} BY <1>6, <1>7 DEF KeysOf
  <2>4. KeysOf(sources) \cap KeysOf(items) = {} BY <2>2, <2>3
  <2>5. /\ SourcesFit(sources', files') /\ Len(sources') = Len(sources) + Len(items)
        /\ KeysOf(sources') = KeysOf(sources) \cup KeysOf(items)
    BY <1>2, <1>10, <2>1, <2>4, AppendedFits
  <2>6. BaseFits(base, KeysOf(sources')) BY <1>2, <2>2, <2>3, <2>5 DEF BaseFits
  <2>7. room = FilesOf(plan) - Len(sources) BY <1>2, <1>3, <1>12 DEF room, RoomFor
  <2>8. Len(sources') <= BatchMax BY <1>2, <1>3, <1>5, <1>6, <2>5, <2>7
  <2> QED BY <1>1, <1>2, <2>5, <2>6, <2>8 DEF DraftInv
<1> QED BY <1>1, <1>11, <1>12

LEMMA RemoveSourceKeeps ==
  ASSUME DraftInv, NEW i, RemoveSource(i) PROVE DraftInv' /\ consent' = {}
<1>1. /\ i \in DOMAIN sources /\ sources' = RemoveAt(sources, i) /\ files' = RemoveAt(files, i)
      /\ groups' = SuggestGroups(sources') /\ consent' = {} /\ UNCHANGED <<plan, base>>
  BY DEF RemoveSource, ResetConsent
<1>2. /\ SourcesFit(sources, files) /\ Len(sources) <= BatchMax
      /\ BaseFits(base, KeysOf(sources)) /\ plan \in Plans
      /\ Len(sources) \in Nat /\ DOMAIN sources = 1 .. Len(sources) /\ BatchMax \in Nat
  BY LenProperties, WorkspaceAssumption DEF DraftInv, SourcesFit
<1>3. /\ SourcesFit(sources', files') /\ Len(sources') = Len(sources) - 1
      /\ KeysOf(sources') \subseteq KeysOf(sources)
  BY <1>1, <1>2, RemovedFits
<1>4. BaseFits(base, KeysOf(sources')) BY <1>2, <1>3, BaseOfFewer
<1>5. Len(sources') <= BatchMax BY <1>2, <1>3
<1> QED BY <1>1, <1>2, <1>3, <1>4, <1>5 DEF DraftInv

\* Nothing is chosen: no group, or the empty ones.
LEMMA EmptiedKeeps ==
  ASSUME DraftInv, plan' \in Plans, consent' \subseteq Boxes,
         sources' = <<>>, files' = <<>>, groups' = <<>> \/ groups' = SuggestGroups(<<>>),
         base' = base \/ base' = <<>>
  PROVE  DraftInv'
<1>1. BaseFits(base, {}) BY BaseOfFewer DEF DraftInv
<1>2. BaseFits(base', KeysOf(sources')) BY <1>1, EmptyFits
<1>3. SourcesFit(sources', files') /\ Len(sources') <= BatchMax BY EmptyFits
<1>4. groups' = SuggestGroups(sources') \/ (sources' = <<>> /\ groups' = <<>>) OBVIOUS
<1> QED BY <1>2, <1>3, <1>4 DEF DraftInv

LEMMA OnBaseFilesKeeps ==
  ASSUME DraftInv, NEW sel \in Seq(DeviceFiles), NEW dir, OnBaseFiles(sel, dir)
  PROVE  DraftInv' /\ consent' = {}
<1>1. /\ base' = base \o AddedBase(sel, dir, groups, base, lang) /\ consent' = {}
      /\ UNCHANGED <<plan, sources, files, groups>>
  BY DEF OnBaseFiles, ResetConsent
<1>2. BaseExisting(groups, base) = KeysOf(sources) \cup ToSet(base)
  <2>1. UNION ToSet(groups) = KeysOf(sources) BY GroupedDraft
  <2>2. ToSet(groups) = {groups[n] : n \in DOMAIN groups} BY DEF ToSet
  <2>3. BaseExisting(groups, base) = (UNION {groups[n] : n \in DOMAIN groups}) \cup ToSet(base)
    BY DEF BaseExisting
  <2> QED BY <2>1, <2>2, <2>3
<1>3. BaseFits(AddedBase(sel, dir, groups, base, lang), KeysOf(sources) \cup ToSet(base))
  BY <1>2, AddedFits
<1>4. BaseFits(base', KeysOf(sources)) BY <1>1, <1>3, JoinedBaseFits DEF DraftInv
<1> QED BY <1>1, <1>4 DEF DraftInv

LEMMA RemoveBaseKeeps ==
  ASSUME DraftInv, NEW i, RemoveBase(i) PROVE DraftInv' /\ consent' = {}
<1>1. /\ i \in DOMAIN base /\ base' = RemoveAt(base, i) /\ consent' = {}
      /\ UNCHANGED <<plan, sources, files, groups>>
  BY DEF RemoveBase, ResetConsent
<1>2. BaseFits(base, KeysOf(sources)) /\ DOMAIN base = 1 .. Len(base)
  BY LenProperties DEF DraftInv, BaseFits
<1>3. BaseFits(base', KeysOf(sources)) BY <1>1, <1>2, RemovedBaseFits
<1> QED BY <1>1, <1>3 DEF DraftInv

\* The steps that choose nothing.
LEMMA QuietKeeps ==
  ASSUME DraftInv, plan' \in Plans, consent' \subseteq Boxes,
         UNCHANGED <<sources, files, base, groups>>
  PROVE  DraftInv'
BY DEF DraftInv

-----------------------------------------------------------------------------
(* The start. *)

LEMMA ClickHolds ==
  ASSUME DraftInv, AgreedInv, NEW found \in Plans, Start(found)
  PROVE  DraftInv' /\ Kept /\ StartHolds(start')
<1>1. /\ StartOffered /\ EnoughGroups /\ plan' = found
      /\ start' = [on |-> TRUE, sources |-> sources, files |-> files,
                    groups |-> Filled(groups), plan |-> plan, of |-> agreed,
                    draft |-> Draft]
      /\ UNCHANGED <<sources, files, base, groups, lang, confirmed, consent>>
  BY DEF Start, draftVars
<1>2. DraftInv' BY <1>1, QuietKeeps DEF DraftInv
<1>3. Kept BY <1>1, SameDraft DEF Kept
<1>4. /\ SourcesFit(sources, files) /\ Len(sources) <= BatchMax /\ Len(sources) \in Nat
      /\ sources \in Seq(Items) /\ Distinct(sources) /\ plan \in Plans /\ plan # "none"
  BY <1>1, LenProperties DEF DraftInv, SourcesFit, StartOffered
<1>5. Len(sources) >= 2 /\ Len(sources) <= FilesOf(plan)
  <2>1. CASE plan = "pair"
    <3>1. FilesOf(plan) = 2 BY <2>1 DEF FilesOf
    <3>2. Len(sources) = FilesOf(plan) BY <1>1, <2>1 DEF StartOffered, FilesReady
    <3> QED BY <3>1, <3>2
  <2>2. CASE plan = "batch"
    <3>1. FilesOf(plan) = BatchMax BY <2>2 DEF FilesOf
    <3>2. Len(sources) >= 2 BY <1>1, <2>2 DEF StartOffered, FilesReady
    <3> QED BY <1>4, <3>1, <3>2
  <2> QED BY <1>4, <2>1, <2>2 DEF Plans
<1>6. sources # <<>> BY <1>5, EmptyFits
<1>7. GroupsFit(sources, groups) BY <1>4, <1>6, SuggestGroupsFit DEF DraftInv
<1>8. /\ GroupsFit(sources, Filled(groups))
      /\ \A n \in 1 .. Len(Filled(groups)) : Filled(groups)[n] # {}
  BY <1>4, <1>7, FilledFits
<1>9. Len(Filled(groups)) >= 2
  <2>1. Len(Filled(groups)) \in Nat BY <1>8, LenProperties DEF GroupsFit
  <2> QED BY <1>1, <2>1 DEF EnoughGroups
<1>10. \E d : agreed = {d} /\ Content(d) = Content(Draft)
  BY <1>1, <1>6 DEF AgreedInv, StartOffered, ConsentsReady
<1>11. {Content(d) : d \in agreed} = {Content(Draft)} BY <1>10
<1>12. Draft.sources = sources BY DEF Draft
<1>13. StartHolds(start')
  BY <1>1, <1>4, <1>5, <1>8, <1>9, <1>11, <1>12 DEF StartHolds
<1> QED BY <1>2, <1>3, <1>13

\* The rows an upload sends.
Sent(s) == {[item |-> s.sources[i], file |-> s.files[i],
             number |-> NumberOf(s, s.sources[i].key)] : i \in DOMAIN s.sources}

LEMMA SentFits ==
  ASSUME NEW s, StartHolds(s)
  PROVE  LET sent == Sent(s)
             numbers == {r.number : r \in sent}
         IN /\ \A r \in sent : r.file = r.item.file
            /\ {r.file : r \in sent} = {it.file : it \in ToSet(s.draft.sources)}
            /\ \A r, q \in sent :
                 r.number = q.number <=> r = q \/ (r.item.label = q.item.label
                                                   /\ r.item.label # NoLabel)
            /\ numbers = 1 .. Cardinality(numbers) /\ Cardinality(numbers) >= 2
            /\ Cardinality(sent) <= FilesOf(s.plan)
<1> DEFINE src == s.sources
           row(i) == [item |-> src[i], file |-> s.files[i], number |-> NumberOf(s, src[i].key)]
           sent == Sent(s)
           numbers == {r.number : r \in sent}
           L == Len(s.groups)
           D == DOMAIN src
<1>1. /\ src \in Seq(Items) /\ Distinct(src) /\ GroupsFit(src, s.groups)
      /\ \A i \in 1 .. Len(src) : s.files[i] = src[i].file
      /\ \A n \in 1 .. L : s.groups[n] # {}
      /\ L >= 2 /\ Len(src) <= FilesOf(s.plan) /\ s.draft.sources = src
  BY DEF StartHolds, SourcesFit
<1>2. D = 1 .. Len(src) /\ Len(src) \in Nat /\ L \in Nat
  BY <1>1, LenProperties DEF GroupsFit
<1>3. sent = {row(i) : i \in D} BY DEF Sent
<1>4. /\ \A i \in D : NumberOf(s, src[i].key) \in 1 .. L
      /\ \A i, j \in D :
           NumberOf(s, src[i].key) = NumberOf(s, src[j].key) <=> Together(src, i, j)
      /\ \A n \in 1 .. L : \E i \in D : NumberOf(s, src[i].key) = n
  BY <1>1, NumbersFit
<1> HIDE DEF sent, src, L
<1>5. \A i \in D : /\ row(i).item = src[i] /\ row(i).file = src[i].file
                    /\ row(i).number = NumberOf(s, src[i].key)
  BY <1>1, <1>2
<1>6. \A r \in sent : \E i \in D : r = row(i) BY <1>3
<1>7. \A i \in D : row(i) \in sent BY <1>3
<1> HIDE DEF row, D
<1>8. \A r \in sent : r.file = r.item.file BY <1>5, <1>6
<1>9. {r.file : r \in sent} = {it.file : it \in ToSet(s.draft.sources)}
  <2>1. ToSet(s.draft.sources) = {src[i] : i \in D} BY <1>1 DEF ToSet, D
  <2>2. {it.file : it \in ToSet(s.draft.sources)} = {src[i].file : i \in D} BY <2>1
  <2>3. {r.file : r \in sent} = {src[i].file : i \in D} BY <1>3, <1>5
  <2> QED BY <2>2, <2>3
<1>10. ASSUME NEW r \in sent, NEW q \in sent
       PROVE  r.number = q.number <=> r = q \/ (r.item.label = q.item.label
                                                /\ r.item.label # NoLabel)
  <2>1. PICK i \in D : r = row(i) BY <1>6
  <2>2. PICK j \in D : q = row(j) BY <1>6
  <2>3. r.number = q.number <=> Together(src, i, j) BY <1>4, <1>5, <2>1, <2>2
  <2>4. r.item = src[i] /\ q.item = src[j] BY <1>5, <2>1, <2>2
  <2>5. r = q => r.number = q.number OBVIOUS
  <2>6. i = j => r = q BY <2>1, <2>2
  <2> QED BY <2>3, <2>4, <2>5, <2>6 DEF Together
<1>11. numbers = 1 .. L
  <2>1. \A r \in sent : r.number \in 1 .. L BY <1>4, <1>5, <1>6
  <2>2. \A n \in 1 .. L : \E r \in sent : r.number = n BY <1>4, <1>5, <1>7
  <2> QED BY <2>1, <2>2
<1>12. Cardinality(1 .. L) = L BY <1>2, FS_Interval
<1>13. Cardinality(sent) <= FilesOf(s.plan)
  <2> DEFINE f == [i \in 1 .. Len(src) |-> row(i)]
  <2>1. f \in Surjection(1 .. Len(src), sent)
    <3>1. f \in [1 .. Len(src) -> sent] BY <1>2, <1>7 DEF D
    <3>2. \A r \in sent : \E i \in 1 .. Len(src) : f[i] = r BY <1>2, <1>6 DEF D
    <3> QED BY <3>1, <3>2 DEF Surjection
  <2>2. IsFiniteSet(1 .. Len(src)) /\ Cardinality(1 .. Len(src)) = Len(src)
    <3> DEFINE l == Len(src)
    <3>1. l \in Nat BY <1>2
    <3> HIDE DEF l
    <3>2. IsFiniteSet(1 .. l) /\ Cardinality(1 .. l) = l BY <3>1, FS_Interval
    <3> QED BY <3>2 DEF l
  <2> HIDE DEF f
  <2>3. IsFiniteSet(sent) /\ Cardinality(sent) <= Len(src) BY <2>1, <2>2, FS_Surjection
  <2>4. Cardinality(sent) \in Nat BY <2>3, FS_CardinalityType
  <2>5. FilesOf(s.plan) \in Nat BY WorkspaceAssumption DEF FilesOf
  <2> QED BY <1>1, <1>2, <2>3, <2>4, <2>5
<1>14. numbers = 1 .. Cardinality(numbers) /\ Cardinality(numbers) >= 2
  BY <1>1, <1>11, <1>12
<1> QED BY <1>8, <1>9, <1>10, <1>13, <1>14 DEF sent

LEMMA UploadKeeps ==
  ASSUME StartInv, Upload
  PROVE  StartInv' /\ OnlyAgreedIsSent' /\ SubmissionsAreGroups'
<1>1. /\ start.on /\ start' = NotStarted
      /\ uploaded' = [of |-> start.of, plan |-> start.plan, draft |-> start.draft,
                       rows |-> Sent(start)]
  BY DEF Upload, Sent
<1>2. StartHolds(start) BY <1>1 DEF StartInv
<1>3. StartInv' BY <1>1 DEF StartInv, NotStarted
<1>4. {Content(d) : d \in uploaded'.of} = {Content(uploaded'.draft)}
  BY <1>1, <1>2 DEF StartHolds
<1>5. uploaded'.rows = Sent(start) /\ uploaded'.plan = start.plan
      /\ uploaded'.draft = start.draft
  BY <1>1
<1>6. OnlyAgreedIsSent'
  <2>1. {r.file : r \in uploaded'.rows} = {it.file : it \in ToSet(uploaded'.draft.sources)}
    BY <1>2, <1>5, SentFits
  <2> QED BY <1>4, <2>1 DEF OnlyAgreedIsSent
<1>7. SubmissionsAreGroups'
  <2> DEFINE u == uploaded'
             sent == Sent(start)
             numbers == {r.number : r \in sent}
  <2>1. /\ \A r \in sent : r.file = r.item.file
        /\ \A r, q \in sent :
             r.number = q.number <=> r = q \/ (r.item.label = q.item.label
                                               /\ r.item.label # NoLabel)
        /\ numbers = 1 .. Cardinality(numbers) /\ Cardinality(numbers) >= 2
        /\ Cardinality(sent) <= FilesOf(start.plan)
    BY <1>2, SentFits
  <2>2. u.rows = sent /\ FilesOf(u.plan) = FilesOf(start.plan) BY <1>5
  <2> HIDE DEF sent
  <2> QED BY <2>1, <2>2, Zenon DEF SubmissionsAreGroups, FilesOf
<1> QED BY <1>3, <1>6, <1>7

-----------------------------------------------------------------------------
(* All of it. *)

\* What the customer and the storage do to the draft.
Edits ==
  \/ \E p \in {"pair", "batch"} : Unlock(p)
  \/ SetMoss \/ FilesCard \/ LanguageCard \/ AdvancedCard
  \/ \E b \in Boxes : Tick(b)
  \/ \E l \in Languages : RecoverLanguage(l)
  \/ Discard \/ Empty \/ Discarded

LEMMA EditsLeaveTheStart == Edits => UNCHANGED <<start, uploaded>>
BY DEF Edits, Unlock, SetMoss, FilesCard, OnSourceFiles, RemoveSource, ClearSources,
       LanguageCard, ApplyLanguage, AdvancedCard, PatchSetting, ResetSettings, OnBaseFiles,
       RemoveBase, Tick, RecoverLanguage, Discard, Empty, Discarded

\* Nothing that is chosen moves, or the consents are gone.
LEMMA ClearedKept == consent' = {} => Kept
BY DEF Kept, Both

LEMMA QuietKept == UNCHANGED <<sources, base, lang, confirmed>> => Kept
BY SameDraft DEF Kept

LEMMA EditsKeep ==
  ASSUME DraftInv, Edits PROVE DraftInv' /\ Kept
<1> USE DEF draftVars
<1>1. ASSUME NEW p \in {"pair", "batch"}, Unlock(p) PROVE DraftInv' /\ Kept
  <2>1. /\ plan' \in Plans /\ consent' = consent /\ base' = base
        /\ sources' = <<>> /\ files' = <<>> /\ groups' = <<>>
    BY <1>1 DEF Unlock, Plans
  <2>2. DraftInv' BY <2>1, EmptiedKeeps DEF DraftInv
  <2> QED BY <2>1, <2>2 DEF Kept
<1>2. ASSUME SetMoss PROVE DraftInv' /\ Kept
  <2>1. UNCHANGED <<plan, sources, files, base, groups, lang, confirmed, consent>>
    BY <1>2 DEF SetMoss
  <2> QED BY <2>1, QuietKeeps, QuietKept DEF DraftInv
<1>3. ASSUME FilesCard PROVE DraftInv' /\ Kept
  <2>1. ASSUME NEW slot, NEW dir, NEW sel \in Seq(DeviceFiles), OnSourceFiles(sel, dir, slot)
        PROVE  DraftInv' /\ Kept
    BY <2>1, OnSourceFilesKeeps, ClearedKept
  <2>2. ASSUME NEW i, RemoveSource(i) PROVE DraftInv' /\ Kept
    BY <2>2, RemoveSourceKeeps, ClearedKept
  <2>3. ASSUME ClearSources PROVE DraftInv' /\ Kept
    <3>1. /\ plan' = plan /\ consent' = {} /\ base' = base
          /\ sources' = <<>> /\ files' = <<>> /\ groups' = SuggestGroups(<<>>)
      BY <2>3 DEF ClearSources, ResetConsent
    <3>2. DraftInv' BY <3>1, EmptiedKeeps DEF DraftInv
    <3> QED BY <3>1, <3>2, ClearedKept
  <2>4. OnePick \subseteq Seq(DeviceFiles)
    BY ChosenAre DEF OnePick
  <2>5. FilePicks \subseteq Seq(DeviceFiles) /\ FolderPicks \subseteq Seq(DeviceFiles)
    BY ChosenAre, WorkspaceAssumption DEF FilePicks, FolderPicks
  <2> QED BY <1>3, <2>1, <2>2, <2>3, <2>4, <2>5 DEF FilesCard
<1>4. ASSUME LanguageCard PROVE DraftInv' /\ Kept
  <2>1. consent' = {} /\ UNCHANGED <<plan, sources, files, base, groups>>
    BY <1>4 DEF LanguageCard, ApplyLanguage, AfterLanguage
  <2>2. DraftInv' BY <2>1, QuietKeeps DEF DraftInv
  <2> QED BY <2>1, <2>2, ClearedKept
<1>5. ASSUME AdvancedCard PROVE DraftInv' /\ Kept
  <2>1. ASSUME NEW key, NEW value, PatchSetting(key, value) PROVE DraftInv' /\ Kept
    <3>1. /\ UNCHANGED <<plan, sources, files, base, groups, lang, confirmed>>
          /\ consent' = {} \/ consent' = consent
      BY <2>1 DEF PatchSetting, ResetConsent
    <3>2. consent' \subseteq Boxes BY <3>1 DEF DraftInv
    <3> QED BY <3>1, <3>2, QuietKeeps, QuietKept DEF DraftInv
  <2>2. ASSUME ResetSettings PROVE DraftInv' /\ Kept
    <3>1. UNCHANGED <<plan, sources, files, base, groups, lang, confirmed, consent>>
      BY <2>2 DEF ResetSettings
    <3> QED BY <3>1, QuietKeeps, QuietKept DEF DraftInv
  <2>3. ASSUME NEW sel \in OnePick, OnBaseFiles(sel, FALSE) PROVE DraftInv' /\ Kept
    <3>1. sel \in Seq(DeviceFiles) BY ChosenAre DEF OnePick
    <3> QED BY <2>3, <3>1, OnBaseFilesKeeps, ClearedKept
  <2>4. ASSUME NEW i, RemoveBase(i) PROVE DraftInv' /\ Kept
    BY <2>4, RemoveBaseKeeps, ClearedKept
  <2> QED BY <1>5, <2>1, <2>2, <2>3, <2>4 DEF AdvancedCard
<1>6. ASSUME NEW b \in Boxes, Tick(b) PROVE DraftInv' /\ Kept
  <2>1. /\ UNCHANGED <<plan, sources, files, base, groups, lang, confirmed>>
        /\ consent' = IF b \in consent THEN consent \ {b} ELSE consent \cup {b}
    BY <1>6 DEF Tick
  <2>2. consent' \subseteq Boxes BY <2>1 DEF DraftInv
  <2> QED BY <2>1, <2>2, QuietKeeps, QuietKept DEF DraftInv
<1>7. ASSUME NEW l \in Languages, RecoverLanguage(l) PROVE DraftInv' /\ Kept
  <2>1. confirmed' = FALSE /\ UNCHANGED <<plan, sources, files, base, groups, consent>>
    BY <1>7 DEF RecoverLanguage
  <2>2. DraftInv' BY <2>1, QuietKeeps DEF DraftInv
  <2> QED BY <2>1, <2>2 DEF Kept
<1>8. ASSUME Discard PROVE DraftInv' /\ Kept
  <2>1. UNCHANGED <<plan, sources, files, base, groups, lang, confirmed, consent>>
    BY <1>8 DEF Discard
  <2> QED BY <2>1, QuietKeeps, QuietKept DEF DraftInv
<1>9. ASSUME Empty PROVE DraftInv' /\ Kept
  <2>1. /\ plan' = plan /\ consent' = consent /\ base' = <<>>
        /\ sources' = <<>> /\ files' = <<>> /\ groups' = <<>>
    BY <1>9 DEF Empty
  <2>2. DraftInv' BY <2>1, EmptiedKeeps DEF DraftInv
  <2> QED BY <2>1, <2>2 DEF Kept
<1>10. ASSUME Discarded PROVE DraftInv' /\ Kept
  <2>1. consent' = {} /\ UNCHANGED <<plan, sources, files, base, groups>>
    BY <1>10 DEF Discarded, ResetConsent
  <2>2. DraftInv' BY <2>1, QuietKeeps DEF DraftInv
  <2> QED BY <2>1, <2>2, ClearedKept
<1> QED BY <1>1, <1>2, <1>3, <1>4, <1>5, <1>6, <1>7, <1>8, <1>9, <1>10 DEF Edits

LEMMA WorkspaceNextKeeps ==
  WorkspaceInv /\ [WorkspaceNext]_workspaceVars => WorkspaceInv'
<1> SUFFICES ASSUME WorkspaceInv, [WorkspaceNext]_workspaceVars PROVE WorkspaceInv'
  OBVIOUS
<1> USE DEF WorkspaceInv
<1>1. ASSUME Edits, Agreeing PROVE WorkspaceInv'
  <2>1. UNCHANGED <<start, uploaded>> BY <1>1, EditsLeaveTheStart
  <2>2. DraftInv' /\ AgreedInv' BY <1>1, EditsKeep, AgreedKeeps
  <2>3. StartInv' BY <2>1 DEF StartInv
  <2>4. OnlyAgreedIsSent' /\ SubmissionsAreGroups'
    BY <2>1 DEF OnlyAgreedIsSent, SubmissionsAreGroups
  <2> QED BY <2>2, <2>3, <2>4
<1>2. ASSUME NEW found \in {"none", "pair", "batch"}, Start(found), Agreeing PROVE WorkspaceInv'
  <2>1. DraftInv' /\ Kept /\ StartHolds(start') BY <1>2, ClickHolds DEF Plans
  <2>2. AgreedInv' BY <1>2, <2>1, AgreedKeeps
  <2>3. StartInv' BY <2>1 DEF StartInv
  <2>4. uploaded' = uploaded BY <1>2 DEF Start
  <2>5. OnlyAgreedIsSent' /\ SubmissionsAreGroups'
    BY <2>4 DEF OnlyAgreedIsSent, SubmissionsAreGroups
  <2> QED BY <2>1, <2>2, <2>3, <2>5
<1>3. ASSUME Upload, Agreeing PROVE WorkspaceInv'
  <2>1. UNCHANGED <<plan, sources, files, base, groups, lang, confirmed, consent>>
    BY <1>3 DEF Upload, draftVars
  <2>2. DraftInv' /\ AgreedInv'
    BY <1>3, <2>1, QuietKeeps, QuietKept, AgreedKeeps DEF DraftInv
  <2> QED BY <1>3, <2>2, UploadKeeps
<1>4. ASSUME StartFails, Agreeing PROVE WorkspaceInv'
  <2>1. /\ UNCHANGED <<plan, sources, files, base, groups, lang, confirmed, consent, uploaded>>
        /\ start' = NotStarted
    BY <1>4 DEF StartFails, draftVars
  <2>2. DraftInv' /\ AgreedInv'
    BY <1>4, <2>1, QuietKeeps, QuietKept, AgreedKeeps DEF DraftInv
  <2>3. StartInv' BY <2>1 DEF StartInv, NotStarted
  <2>4. OnlyAgreedIsSent' /\ SubmissionsAreGroups'
    BY <2>1 DEF OnlyAgreedIsSent, SubmissionsAreGroups
  <2> QED BY <2>2, <2>3, <2>4
<1>5. ASSUME UNCHANGED workspaceVars PROVE WorkspaceInv'
  BY <1>5 DEF workspaceVars, draftVars, DraftInv, AgreedInv, Draft, Content, StartInv,
              OnlyAgreedIsSent, SubmissionsAreGroups
<1> QED BY <1>1, <1>2, <1>3, <1>4, <1>5 DEF WorkspaceNext, Step, ReviewCard, Edits, Agreeing

LEMMA InitWorkspaceInv == WorkspaceInit => WorkspaceInv
<1> SUFFICES ASSUME WorkspaceInit PROVE WorkspaceInv OBVIOUS
<1>1. DraftInv
  BY EmptyFits DEF WorkspaceInit, DraftInv, Plans
<1>2. AgreedInv BY DEF WorkspaceInit, AgreedInv, Both
<1>3. StartInv BY DEF WorkspaceInit, StartInv, NotStarted
<1>4. uploaded.rows = {} BY DEF WorkspaceInit, NothingSent
<1> QED BY <1>1, <1>2, <1>3, <1>4 DEF WorkspaceInv, OnlyAgreedIsSent, SubmissionsAreGroups

\* What is on screen, what was agreed to, and what a start took with it.
LEMMA WorkspaceInvariant == WorkspaceSpec => []WorkspaceInv
BY InitWorkspaceInv, WorkspaceNextKeeps, PTL DEF WorkspaceSpec

\* What is on screen fits together after any edits: file objects beside their items, no
\* key twice, no source among the base files, and the groups of the sources
\* (WorkflowApp, onSourceFiles, removeSource, onBaseFiles).
THEOREM DraftStaysOne == WorkspaceSpec => []DraftIsOne
<1>1. WorkspaceInv => DraftIsOne
  <2> SUFFICES ASSUME WorkspaceInv PROVE DraftIsOne OBVIOUS
  <2>1. DraftInv BY DEF WorkspaceInv
  <2>2. /\ SourcesFit(sources, files) /\ DOMAIN sources = 1 .. Len(sources)
    BY <2>1, LenProperties DEF DraftInv, SourcesFit
  <2>3. UNION ToSet(groups) = KeysOf(sources) BY <2>1, GroupedDraft
  <2> QED BY <2>1, <2>2, <2>3 DEF DraftIsOne, DraftInv, SourcesFit, Distinct, BaseFits, Plans
<1> QED BY <1>1, WorkspaceInvariant, PTL

\* Nothing leaves the device that was not on screen when the second consent was given,
\* whatever is edited before or while the start is under way (WorkflowApp, tryStartJob,
\* resetConsent).
THEOREM AgreedIsSent == WorkspaceSpec => []OnlyAgreedIsSent
<1>1. WorkspaceInv => OnlyAgreedIsSent BY DEF WorkspaceInv
<1> QED BY <1>1, WorkspaceInvariant, PTL

\* The submissions of an upload are the groups that were shown, numbered without a gap
\* (grouping, suggestGroups; WorkflowApp, submissionByKey).
THEOREM GroupsAreSubmitted == WorkspaceSpec => []SubmissionsAreGroups
<1>1. WorkspaceInv => SubmissionsAreGroups BY DEF WorkspaceInv
<1> QED BY <1>1, WorkspaceInvariant, PTL

=============================================================================
