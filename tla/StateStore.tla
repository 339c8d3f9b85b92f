----------------------------- MODULE StateStore -----------------------------
(***************************************************************************)
(* The extension's persisted state (state/store.cjs) behind the message    *)
(* router of the background worker (state/messages.cjs): one record in     *)
(* storage.local that every call reads, tidies and writes back.  A call    *)
(* waits between its read and its write, nothing locks the record, and     *)
(* the calls of several windows and of the purge alarm overlap.            *)
(*                                                                         *)
(* Ages stand for the time stamps: "old" is past its 24 hours.  A job id   *)
(* stands for the job and for the idempotency key it was started with.     *)
(***************************************************************************)
EXTENDS Naturals

CONSTANTS
  Slots,    \* who sends messages: one call of each is under way at a time
  JobIds,
  NoJob

VARIABLES
  saved,    \* the record under STATE_KEY
  work,     \* the router's call for each slot
  clobbered \* some write went over a record it had not read (history)

storeVars == <<saved, work, clobbered>>

\* TERMINAL_STATUSES, and the statuses the windows write; "ambiguous" is none of
\* the terminal ones.
Terminal == {"succeeded", "failed", "cancelled"}
Statuses == {"ready", "running", "ambiguous"} \cup Terminal
Ages     == {"none", "fresh", "old"}

Job(id, st, ended) == [id |-> id, status |-> st, ended |-> ended]
NoBinding == Job(NoJob, "none", "none")

\* validateActiveJob: only a terminal job has the time it ended.
ValidJob(j) ==
  \/ j = NoBinding
  \/ /\ j.id \in JobIds
     /\ j.status \in Statuses
     /\ (j.ended # "none") <=> (j.status \in Terminal)

\* validatePersistedState, for records of the current schema.
ValidState(s) == s.draft \in Ages /\ ValidJob(s.job)
States ==
  {s \in [draft : Ages,
          job : {NoBinding} \cup [id : JobIds, status : Statuses, ended : Ages]] :
     ValidState(s)}

\* emptyState; Blank is anything migrateStorage resets: no record, the shell's
\* legacy key, another schema version, a record that does not validate.
Empty == [draft |-> "none", job |-> NoBinding]
Blank == [draft |-> "blank", job |-> NoBinding]

Unresolved(s) == s.job # NoBinding /\ s.job.status \notin Terminal

\* Mutation: a job that has not ended is purged with the rest.
PurgedAll(s) ==
  [draft |-> IF s.draft = "old" THEN "none" ELSE s.draft,
   job |-> IF s.draft = "old" \/ s.job.ended = "old" THEN NoBinding ELSE s.job]

\* purgeExpired
Purged(s) ==
  [draft |-> IF s.draft = "old" THEN "none" ELSE s.draft,
   job |-> IF s.job.ended = "old" THEN NoBinding ELSE s.job]

\* What load makes of the record it reads: migrateStorage, then purgeExpired.
Tidied(s) == IF s = Blank THEN Empty ELSE Purged(s)

\* bindJob refuses a second job while another one is unresolved.
BindRefused(s, id) == Unresolved(s) /\ s.job.id # id

\* The time a job ended is the first time it was written as terminal.
EndedAfter(j, st) ==
  IF st \notin Terminal THEN "none"
  ELSE IF j.ended = "none" THEN "fresh" ELSE j.ended

\* What each call makes of the record it loaded; the same record when it
\* returns without a write (a rebind, a refusal, a plain load).
After(c, s) ==
  CASE c.op = "save-draft"    -> [s EXCEPT !.draft = "fresh"]
    [] c.op = "discard-draft" -> [s EXCEPT !.draft = "none"]
    [] c.op = "bind-job" /\ ~BindRefused(s, c.id) /\ ~Unresolved(s) ->
         [draft |-> "none", job |-> Job(c.id, c.status, "none")]
    [] c.op = "update-job" /\ s.job.id = c.id ->
         [s EXCEPT !.job = Job(c.id, c.status, EndedAfter(s.job, c.status))]
    [] OTHER -> s

\* The answer: whether the call was accepted.
Accepted(c, s) ==
  CASE c.op = "bind-job"   -> ~BindRefused(s, c.id)
    [] c.op = "update-job" -> s.job.id = c.id
    [] OTHER -> TRUE

\* discardDraft writes whether there was a draft or not.
Writes(c, s) ==
  \/ c.op \in {"save-draft", "discard-draft"}
  \/ c.op = "bind-job" /\ ~Unresolved(s)
  \/ c.op = "update-job" /\ s.job.id = c.id

-----------------------------------------------------------------------------
Ops == {"get", "purge", "save-draft", "discard-draft", "bind-job", "update-job"}
\* tidied: load migrated or purged what it read, and the answer says so.
Quiet == [op |-> "none", id |-> NoJob, status |-> "none", at |-> "quiet",
          got |-> Empty, ok |-> TRUE, tidied |-> FALSE]
Answered(c) == c.at = "answered"
UnderWay(c) == c.at \in {"tidying", "writing"}

StoreInit ==
  /\ saved = Blank
  /\ work = [s \in Slots |-> Quiet]
  /\ clobbered = FALSE

\* The router's reading of a loaded record: a write is left to do, or an answer
\* can be given.
Loaded(c, s) ==
  [c EXCEPT !.at = IF Writes(c, s) THEN "writing" ELSE "answered",
            !.got = s, !.ok = Accepted(c, s)]

\* A message is routed and load reads the record: what it migrates or purges is
\* written before the call goes on.
Sent(op, id, st) ==
  LET c == [Quiet EXCEPT !.op = op, !.id = id, !.status = st] IN
  IF Tidied(saved) = saved THEN Loaded(c, saved)
  ELSE [c EXCEPT !.at = "tidying", !.got = saved, !.tidied = TRUE]

\* load writes what it tidied.
Tidy(s) ==
  /\ work[s].at = "tidying"
  /\ LET c == work[s] IN
     /\ saved' = Tidied(c.got)
     /\ clobbered' = (clobbered \/ saved # c.got)
     /\ work' = [work EXCEPT ![s] = Loaded(c, Tidied(c.got))]

\* writeState at the end of a call.
Write(s) ==
  /\ work[s].at = "writing"
  /\ LET c == work[s] IN
     /\ saved' = After(c, c.got)
     /\ clobbered' = (clobbered \/ saved # c.got)
     /\ work' = [work EXCEPT ![s].at = "answered", ![s].got = After(c, c.got)]

\* The worker is stopped with its calls under way; the senders get an error.
StopWorker ==
  /\ \E s \in Slots : UnderWay(work[s])
  /\ work' = [s \in Slots |->
       IF UnderWay(work[s])
       THEN [work[s] EXCEPT !.at = "answered", !.got = Empty, !.ok = FALSE, !.tidied = FALSE]
       ELSE work[s]]
  /\ UNCHANGED <<saved, clobbered>>

\* A day passes while no call is under way.
DayPasses ==
  /\ \A s \in Slots : work[s] = Quiet
  /\ saved # Blank
  /\ saved' = [draft |-> IF saved.draft = "fresh" THEN "old" ELSE saved.draft,
               job |-> [saved.job EXCEPT !.ended = IF @ = "fresh" THEN "old" ELSE @]]
  /\ saved' # saved
  /\ UNCHANGED <<work, clobbered>>

StoreTypeOK ==
  /\ saved \in States \cup {Blank}
  /\ \A s \in Slots :
       /\ work[s].op \in Ops \cup {"none"}
       /\ work[s].at \in {"quiet", "tidying", "writing", "answered"}
       /\ work[s].got \in States \cup {Blank}
  /\ clobbered \in BOOLEAN

\* An unresolved job stays bound whatever the windows, the alarm and the time
\* do: no bind, draft, purge or update takes its place or drops it, unless a
\* call wrote over a record it had not read.
BindingHolds ==
  [][Unresolved(saved) /\ ~clobbered' => saved'.job.id = saved.job.id]_storeVars
=============================================================================
