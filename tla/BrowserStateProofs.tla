-------------------------- MODULE BrowserStateProofs --------------------------
(***************************************************************************)
(* Proofs about BrowserState, for any number of windows, jobs and accounts *)
(* and histories of any length: BalanceHolds, TrialOncePerDevice,          *)
(* PackageIsOwn and, of the record, BindingHolds.                          *)
(***************************************************************************)
EXTENDS BrowserState, FiniteSetTheorems, SequenceTheorems, TLAPS

-----------------------------------------------------------------------------
(* The inductive invariant. *)

Places == {"idle", "strip", "sync", "dropEnt", "dropCred", "refreshed", "outKeys",
           "outDraft", "cleared", "trialGranted", "trialWrite", "take", "uncreated",
           "bind", "persisted", "give", "giveWrite"}
Gates == {"loading", "auth", "paywall", "moss-id", "portal"}
Plans == {"none", "trial", "pair", "batch"}
Refs  == JobIds \cup {NoJob}
Names == Users \cup {NoUser}

Packages == [plan : Plans, owner : Names, left : Nat]
Shows == [ref : Refs, status : {"none"} \cup {"running", "kept"} \cup Statuses, synced : BOOLEAN,
          code : {"none", "uncertain-query", "provider"}]
Views == [open : BOOLEAN, account : Names, ent : Packages, moss : BOOLEAN, run : Shows,
          gate : Gates, told : BOOLEAN, kept : BOOLEAN]
Tasks == [at : Places, ref : Refs, seen : Packages, list : Seq(Refs), drop : BOOLEAN,
          key : Refs, then : {"idle", "refresh"}]
Told  == {"none", "free", "claimed"}
Messages == [op : Ops \cup {"none"}, id : Refs, status : Statuses \cup {"none"},
             at : {"quiet", "tidying", "writing", "answered"}, got : States \cup {Blank},
             ok : BOOLEAN, tidied : BOOLEAN]

PackageFits(e) == e \in Packages /\ e.left <= RunsOf(e.plan)

\* A call of the router: what it loaded is a record, and what it binds or updates is a
\* job.
MessageFits(c) ==
  /\ c \in Messages
  /\ c.at # "tidying" => c.got \in States
  /\ c.op \in {"bind-job", "update-job"} =>
       /\ c.id \in JobIds /\ c.status \in Statuses
       /\ c.op = "bind-job" => c.status \notin Terminal

StoreInv ==
  /\ saved \in States \cup {Blank} /\ clobbered \in BOOLEAN
  /\ work \in [Windows \cup {Alarm} -> Messages]
  /\ \A s \in Windows \cup {Alarm} : MessageFits(work[s])

AboutRun == {"take", "uncreated", "bind", "persisted", "give", "giveWrite"}
Syncing  == {"sync", "dropEnt", "dropCred"}

\* Where a window is, by what it shows (v), the flow it is in (t) and the trial status it
\* is told (x): an account before it is synced, and what a flow is about.
Fits(v, t, x) ==
  /\ ~v.open => v = Shut /\ t = Idle /\ x = "none"
  /\ IF t.at \in AboutRun THEN t.ref \in JobIds ELSE t.ref = NoJob
  /\ v.run.status # "none" => v.run.ref \in JobIds
  /\ v.gate \in Inside => v.account # NoUser
  /\ v.open /\ v.gate = "loading" => t.at \in Syncing \cup {"strip"}
  /\ v.gate = "auth" /\ v.account # NoUser => t.at \in Syncing
  /\ t.at = "strip" => v.account = NoUser
  /\ t.at \in Syncing \cup {"take", "trialGranted", "trialWrite"} => v.account # NoUser
  /\ t.at = "dropCred" => ~Foreign(t.seen, v.account)
  /\ t.at = "take" => Consumable(t.seen)
  /\ t.at \in {"give", "giveWrite"} => t.key \in {NoJob, t.ref}
  /\ t.at = "giveWrite" => ~RefundedBefore(t.key, t.list)
  /\ PackageFits(v.ent) /\ PackageFits(t.seen)

ShapeInv ==
  /\ session \in Names /\ cred \in Names /\ claim \in Names /\ mirror \in BOOLEAN
  /\ PackageFits(ent)
  /\ released \in Seq(Refs) /\ Len(released) <= ReleasedMax
  /\ granted \in Nat /\ forgotten \in Nat /\ trials \in Nat
  /\ runs \in [JobIds -> {"new", "standing", "given"}]
  /\ win \in [Windows -> Views] /\ task \in [Windows -> Tasks]
  /\ status \in [Windows -> Told]
  /\ mixed \in BOOLEAN
  /\ \A w \in Windows : Fits(win[w], task[w], status[w])

\* One trial for one claim.
Granting(w) == task[w].at \in {"trialGranted", "trialWrite"}
TrialInv ==
  /\ trials <= 1
  /\ trials = 1 => \A w \in Windows : ~Granting(w)
  /\ \A v, w \in Windows : Granting(v) /\ Granting(w) => v = w
  /\ claim = NoUser => trials = 0 /\ \A w \in Windows : ~Granting(w)

\* The package is the one of the window's account as soon as the window has looked, and
\* so are the one it shows and those its runs are taken from and given back to.
Looked(w) == win[w].gate \in Inside \/ task[w].at = "dropCred"
OwnedBy(w) ==
  /\ Looked(w) => Own(ent, win[w].account)
  /\ win[w].gate \in Inside => Own(win[w].ent, win[w].account)
  /\ task[w].at \in {"give", "giveWrite"} => task[w].seen # NoEnt
  /\ win[w].gate \in Inside /\ task[w].at \in {"take", "give", "giveWrite"} =>
       task[w].seen.owner = win[w].account

\* So is the credential, unless the window has seen that it is to go.
Seeing(w) ==
  win[w].gate \in Inside \/ (task[w].at \in {"dropEnt", "dropCred"} /\ ~task[w].drop)
KeyBy(w) == Seeing(w) => cred \in {win[w].account, NoUser}

OwnInv ==
  ~mixed =>
    /\ \A w \in Windows : KeyBy(w)
    /\ ~clobbered => \A w \in Windows : OwnedBy(w)

\* Who may speak of a run: the record, a call under way, or a window that shows it;
\* and a flow that is about it.
Heard(j) ==
  \/ saved.job.id = j
  \/ \E s \in Windows \cup {Alarm} : work[s].id = j \/ work[s].got.job.id = j
  \/ \E w \in Windows : win[w].run.ref = j
Referred(j) == Heard(j) \/ \E w \in Windows : task[w].ref = j

\* A flow whose run nobody else has heard of.
GivesUnnamed(w) ==
  task[w].at = "uncreated" \/ (task[w].at \in {"give", "giveWrite"} /\ task[w].key = NoJob)
Alone(w) == task[w].at = "take" \/ GivesUnnamed(w)

RefInv ==
  /\ \A j \in JobIds : runs[j] = "new" =>
       ~Heard(j) /\ \A w \in Windows : task[w].ref = j => task[w].at = "take"
  /\ \A w \in Windows :
       /\ Alone(w) => ~Heard(task[w].ref) /\ \A v \in Windows : task[v].ref = task[w].ref => v = w
       /\ GivesUnnamed(w) => runs[task[w].ref] = "standing"

Standing == {j \in JobIds : runs[j] = "standing"}
\* The references of a list.
Elements(list) == {list[i] : i \in DOMAIN list}
\* Runs that could be given back a second time.
Again == {j \in JobIds : runs[j] = "given" /\ Referred(j)
                           /\ j \notin Elements(released)}
BalanceInv ==
  ~clobbered => ent.left + Cardinality(Standing) + Cardinality(Again) <= granted + forgotten

BrowserInv == StoreInv /\ ShapeInv /\ TrialInv /\ OwnInv /\ RefInv /\ BalanceInv

-----------------------------------------------------------------------------
(* The record and the calls of the router. *)

\* What a message asks for.
AskFits(op, id, st) ==
  /\ op \in Ops /\ id \in Refs /\ st \in Statuses \cup {"none"}
  /\ op \in {"bind-job", "update-job"} =>
       /\ id \in JobIds /\ st \in Statuses
       /\ op = "bind-job" => st \notin Terminal

\* Records, taken apart.
LEMMA StateShape ==
  ASSUME NEW s \in States
  PROVE  /\ s = [draft |-> s.draft, job |-> s.job] /\ s.draft \in Ages
         /\ s.job = [id |-> s.job.id, status |-> s.job.status, ended |-> s.job.ended]
         /\ ValidJob(s.job) /\ s.job.id \in Refs /\ s.job.ended \in Ages
BY DEF States, ValidState, NoBinding, Job, Refs, Ages, Statuses

\* Records, put together.
LEMMA StateMade ==
  ASSUME NEW d \in Ages, NEW id, NEW st, NEW e \in Ages, ValidJob(Job(id, st, e))
  PROVE  [draft |-> d, job |-> Job(id, st, e)] \in States
BY DEF States, ValidState, ValidJob, NoBinding, Job, Ages

LEMMA EmptyIsState == Empty \in States /\ Empty.job.id = NoJob
BY DEF States, ValidState, ValidJob, NoBinding, Job, Empty, Ages

\* What load makes of a record is a record, with the same job or none.
LEMMA TidiedFits ==
  ASSUME NEW s \in States \cup {Blank}
  PROVE  Tidied(s) \in States /\ Tidied(s).job.id \in {s.job.id, NoJob}
<1>1. CASE s = Blank
  BY <1>1, EmptyIsState DEF Tidied
<1>2. CASE s # Blank
  <2>1. s \in States /\ Tidied(s) = Purged(s)
    BY <1>2 DEF Tidied
  <2>2. Purged(s) \in States /\ Purged(s).job.id \in {s.job.id, NoJob}
    BY <2>1, StateShape DEF Purged, States, ValidState, ValidJob, NoBinding, Job, Ages
  <2> QED BY <2>1, <2>2
<1> QED BY <1>1, <1>2

\* What a call makes of a record is a record, of the same job or the one of the call.
LEMMA AfterFits ==
  ASSUME NEW c, MessageFits(c), NEW s \in States
  PROVE  After(c, s) \in States /\ After(c, s).job.id \in {s.job.id, c.id}
<1> USE BrowserAssumption, StateShape
<1>1. CASE c.op = "save-draft"
  BY <1>1 DEF After, States, ValidState, Ages
<1>2. CASE c.op = "discard-draft"
  BY <1>2 DEF After, States, ValidState, Ages
<1>3. CASE c.op = "bind-job" /\ ~BindRefused(s, c.id) /\ ~Unresolved(s)
  <2>1. ValidJob(Job(c.id, c.status, "none"))
    BY <1>3 DEF MessageFits, ValidJob, Job, Refs
  <2> QED BY <1>3, <2>1, StateMade DEF After, Ages, Job
<1>4. CASE c.op = "update-job" /\ s.job.id = c.id
  <2> DEFINE e == EndedAfter(s.job, c.status)
  <2>1. s.job.ended \in Ages /\ s = [draft |-> s.draft, job |-> s.job] /\ s.draft \in Ages
    BY StateShape
  <2>2. e \in Ages /\ (e # "none" <=> c.status \in Terminal)
    BY <2>1 DEF EndedAfter, Ages
  <2>3. ValidJob(Job(c.id, c.status, e))
    BY <1>4, <2>2 DEF MessageFits, ValidJob, Job
  <2>4. After(c, s) = [s EXCEPT !.job = Job(c.id, c.status, e)]
    BY <1>4 DEF After
  <2> HIDE DEF e
  <2>5. [s EXCEPT !.job = Job(c.id, c.status, e)]
          = [draft |-> s.draft, job |-> Job(c.id, c.status, e)]
    BY <2>1
  <2> QED BY <2>1, <2>2, <2>3, <2>4, <2>5, StateMade DEF Job
<1>5. CASE /\ c.op \notin {"save-draft", "discard-draft"}
           /\ ~(c.op = "bind-job" /\ ~BindRefused(s, c.id) /\ ~Unresolved(s))
           /\ ~(c.op = "update-job" /\ s.job.id = c.id)
  BY <1>5 DEF After
<1> QED BY <1>1, <1>2, <1>3, <1>4, <1>5

\* The reading of a record keeps what a call asks for.
LEMMA LoadedFits ==
  ASSUME NEW c \in Messages, AskFits(c.op, c.id, c.status) \/ MessageFits(c),
         NEW s \in States
  PROVE  MessageFits(Loaded(c, s)) /\ Loaded(c, s).id = c.id /\ Loaded(c, s).got = s
<1>1. Loaded(c, s) \in Messages /\ Loaded(c, s).id = c.id /\ Loaded(c, s).got = s
      /\ Loaded(c, s).op = c.op /\ Loaded(c, s).status = c.status
  <2>1. Accepted(c, s) \in BOOLEAN
    BY DEF Accepted, BindRefused, Unresolved
  <2> QED BY <2>1 DEF Loaded, Messages
<1> QED BY <1>1 DEF MessageFits, AskFits

\* A message that is routed fits, is about what it asks, and has read the record.
LEMMA SentFits ==
  ASSUME NEW op, NEW id, NEW st, AskFits(op, id, st), saved \in States \cup {Blank}
  PROVE  /\ MessageFits(Sent(op, id, st))
         /\ Sent(op, id, st).id = id /\ Sent(op, id, st).got = saved
<1> DEFINE c == [Quiet EXCEPT !.op = op, !.id = id, !.status = st]
<1>1. Quiet \in Messages
  BY EmptyIsState DEF Quiet, Messages, Refs
<1>2. c \in Messages /\ c.op = op /\ c.id = id /\ c.status = st
  BY <1>1 DEF AskFits, Messages
<1> HIDE DEF c
<1>3. CASE Tidied(saved) = saved
  <2>1. saved \in States
    BY <1>3, TidiedFits
  <2>2. Sent(op, id, st) = Loaded(c, saved)
    BY <1>3 DEF Sent, c
  <2> QED BY <1>2, <2>1, <2>2, LoadedFits
<1>4. CASE Tidied(saved) # saved
  <2> DEFINE d == [c EXCEPT !.at = "tidying", !.got = saved, !.tidied = TRUE]
  <2>1. Sent(op, id, st) = d
    BY <1>4 DEF Sent, c
  <2>2. d \in Messages /\ d.op = op /\ d.id = id /\ d.status = st /\ d.at = "tidying"
        /\ d.got = saved
    BY <1>2 DEF Messages
  <2> HIDE DEF d
  <2> QED BY <2>1, <2>2 DEF MessageFits, AskFits
<1> QED BY <1>3, <1>4

LEMMA QuietFits == MessageFits(Quiet) /\ Quiet.id = NoJob /\ Quiet.got.job.id = NoJob
BY EmptyIsState DEF MessageFits, Quiet, Messages, Refs


-----------------------------------------------------------------------------
(* What a step of a window does to its own state. *)

\* Only the state of w changes.
Acts(w) ==
  /\ win' = [win EXCEPT ![w] = win'[w]] /\ task' = [task EXCEPT ![w] = task'[w]]
  /\ status' = [status EXCEPT ![w] = status'[w]]

\* And w is afterwards where it may be.
Fine(w) ==
  /\ win'[w] \in Views /\ task'[w] \in Tasks /\ status'[w] \in Told
  /\ Fits(win'[w], task'[w], status'[w])

\* What w asks of the router: of no job, of the run it shows, or of one it has taken.
Asks(w) ==
  \/ work' = work
  \/ Receive(w)
  \/ \E op \in Ops, id \in {NoJob, win[w].run.ref}, st \in Statuses \cup {"none"} :
       AskFits(op, id, st) /\ Send(w, op, id, st)

LEMMA NoEntFits == NoEnt \in Packages /\ PackageFits(NoEnt) /\ NoEnt.left = 0
                   /\ NoEnt.owner = NoUser
BY BrowserAssumption DEF NoEnt, Package, Packages, PackageFits, Plans, Names, RunsOf

LEMMA IdleFits ==
  /\ Idle \in Tasks /\ Idle.at = "idle" /\ Idle.ref = NoJob /\ Idle.seen = NoEnt
  /\ Idle.list = <<>> /\ Idle.key = NoJob /\ Idle.then = "idle"
BY NoEntFits DEF Idle, Tasks, Places, Refs

LEMMA AtFits ==
  ASSUME NEW p \in Places
  PROVE  /\ At(p) \in Tasks /\ At(p).at = p /\ At(p).ref = NoJob /\ At(p).seen = NoEnt
         /\ At(p).list = <<>> /\ At(p).key = NoJob /\ At(p).then = "idle"
BY IdleFits DEF At, Tasks

LEMMA FreshFits ==
  ASSUME NEW u \in Names
  PROVE  /\ Fresh(u) \in Views /\ Fresh(u).open /\ Fresh(u).account = u
         /\ Fresh(u).ent = NoEnt /\ Fresh(u).gate = "loading"
         /\ Fresh(u).run.status = "none" /\ Fresh(u).run.ref = NoJob
         /\ Fresh(u).run \in Shows
BY NoEntFits DEF Fresh, Views, NoRun, Run, RunWith, Shows, Refs, Gates

LEMMA ShutFits ==
  /\ Shut \in Views /\ Shut.open = FALSE /\ Shut.account = NoUser /\ Shut.ent = NoEnt
  /\ Shut.gate = "loading" /\ Shut.run.status = "none" /\ Shut.run.ref = NoJob
<1> DEFINE v == Fresh(NoUser)
<1>1. /\ v \in Views /\ v.account = NoUser /\ v.ent = NoEnt
      /\ v.gate = "loading" /\ v.run.status = "none" /\ v.run.ref = NoJob
  BY FreshFits DEF Names
<1>2. Shut = [v EXCEPT !.open = FALSE]
  BY DEF Shut
<1> HIDE DEF v
<1> QED BY <1>1, <1>2 DEF Views

\* A flow that is about a run.
LEMMA AtRefFits ==
  ASSUME NEW p \in Places, NEW r \in Refs, NEW t, t = [At(p) EXCEPT !.ref = r]
  PROVE  /\ t \in Tasks /\ t.at = p /\ t.ref = r /\ t.seen = NoEnt
         /\ t.list = <<>> /\ t.key = NoJob /\ t.then = "idle"
<1>1. /\ At(p) \in Tasks /\ At(p).at = p /\ At(p).seen = NoEnt
      /\ At(p).list = <<>> /\ At(p).key = NoJob /\ At(p).then = "idle"
  BY AtFits
<1> QED BY <1>1 DEF Tasks

LEMMA WindowNow ==
  ASSUME ShapeInv, NEW w \in Windows
  PROVE  /\ win[w] \in Views /\ task[w] \in Tasks /\ status[w] \in Told
         /\ Fits(win[w], task[w], status[w])
BY DEF ShapeInv

\* A window that is not being brought up to date.
Settled(v) ==
  /\ v \in Views /\ v.open /\ v.gate # "loading"
  /\ v.gate \in Inside <=> v.account # NoUser
  /\ v.run.status # "none" => v.run.ref \in JobIds
  /\ PackageFits(v.ent)

LEMMA SettledNow ==
  ASSUME ShapeInv, NEW w \in Windows, win[w].open \/ task[w].at # "idle",
         task[w].at \notin Syncing \cup {"strip"}
  PROVE  Settled(win[w])
<1>1. win[w].gate \in Gates /\ win[w].open \in BOOLEAN
  BY WindowNow DEF Views
<1>2. win[w].open
  BY <1>1, WindowNow, IdleFits DEF Fits
<1> QED BY <1>1, <1>2, WindowNow DEF Settled, Fits, Gates, Inside

\* Where the flow of such a window may be.
LEMMA SettledFits ==
  ASSUME NEW v, Settled(v), NEW t, PackageFits(t.seen), NEW x,
         t.at \notin Syncing \cup {"strip"},
         IF t.at \in AboutRun THEN t.ref \in JobIds ELSE t.ref = NoJob,
         t.at \in {"take", "trialGranted", "trialWrite"} => v.account # NoUser,
         t.at = "take" => Consumable(t.seen),
         t.at \in {"give", "giveWrite"} => t.key \in {NoJob, t.ref},
         t.at = "giveWrite" => ~RefundedBefore(t.key, t.list)
  PROVE  Fits(v, t, x)
<1>1. v.gate \in Gates /\ v.open
  BY DEF Settled, Views
<1> QED BY <1>1 DEF Settled, Fits, Syncing, Gates, Inside

\* A step that brings w to a plain place.
Plain == {"idle", "refreshed", "cleared", "outDraft"}
LEMMA PlainFine ==
  ASSUME ShapeInv, NEW w \in Windows, NEW p \in Plain,
         task' = [task EXCEPT ![w] = At(p)], status' = status, Settled(win'[w]),
         win' = [win EXCEPT ![w] = win'[w]]
  PROVE  Acts(w) /\ Fine(w) /\ task'[w] = At(p)
<1>1. task'[w] = At(p) /\ status' = [status EXCEPT ![w] = status'[w]]
  BY DEF ShapeInv
<1>2. p \in Places /\ p \notin AboutRun \cup Syncing \cup {"strip", "trialGranted", "trialWrite"}
  BY DEF Plain, Places, AboutRun, Syncing
<1>3. At(p) \in Tasks /\ At(p).at = p /\ At(p).ref = NoJob /\ PackageFits(At(p).seen)
  BY <1>2, AtFits, NoEntFits
<1>4. Fits(win'[w], task'[w], status'[w])
  BY <1>1, <1>2, <1>3, SettledFits DEF AboutRun
<1>5. win'[w] \in Views /\ status'[w] \in Told
  BY WindowNow DEF Settled
<1> QED BY <1>1, <1>3, <1>4, <1>5 DEF Acts, Fine

LEMMA PlainAsk ==
  ASSUME ShapeInv, NEW w \in Windows, NEW op \in Ops \ {"bind-job", "update-job"},
         Send(w, op, NoJob, "none")
  PROVE  Asks(w)
BY DEF AskFits, Asks, Refs, Ops

LEMMA UpdateAsk ==
  ASSUME ShapeInv, NEW w \in Windows, NEW st \in Statuses, win[w].run.ref \in JobIds,
         Send(w, "update-job", win[w].run.ref, st)
  PROVE  Asks(w)
<1>1. AskFits("update-job", win[w].run.ref, st)
  BY DEF AskFits, Ops, Refs
<1> QED BY <1>1 DEF Asks, Ops

LEMMA AskStateFits ==
  ASSUME ShapeInv, NEW w \in Windows, AskState(w)
  PROVE  Asks(w) /\ task' = [task EXCEPT ![w] = At("refreshed")]
BY PlainAsk DEF AskState, Go, Ops

LEMMA GoOnFits ==
  ASSUME ShapeInv, NEW w \in Windows, NEW then, GoOn(w, then)
  PROVE  Asks(w) /\ \E p \in {"idle", "refreshed"} : task' = [task EXCEPT ![w] = At(p)]
BY AskStateFits DEF GoOn, Go, Asks

\* Giving a run back begins, or there is no package to give it to.
LEMMA GiveFits ==
  ASSUME ShapeInv, NEW w \in Windows, NEW r \in JobIds, NEW k \in {NoJob, r},
         NEW then \in {"idle", "refresh"}, Give(w, r, k, then),
         win' = win, status' = status, task[w].at \notin Syncing \cup {"strip", "idle"}
  PROVE  /\ Acts(w) /\ Fine(w) /\ Asks(w)
         /\ \/ task'[w].at \in Plain /\ task'[w].ref = NoJob
            \/ /\ task'[w].at = "give" /\ task'[w].seen = ent /\ ent # NoEnt
               /\ task'[w].ref = r /\ task'[w].key = k
<1>1. Settled(win[w]) /\ win'[w] = win[w] /\ win' = [win EXCEPT ![w] = win'[w]]
  BY SettledNow DEF ShapeInv
<1>2. CASE ent = NoEnt
  <2>1. GoOn(w, then)
    BY <1>2 DEF Give
  <2>2. PICK p \in {"idle", "refreshed"} : task' = [task EXCEPT ![w] = At(p)]
    BY <2>1, GoOnFits
  <2>3. Acts(w) /\ Fine(w) /\ task'[w] = At(p) /\ p \in Plain /\ p \in Places
    BY <1>1, <2>2, PlainFine DEF Plain, Places
  <2> QED BY <2>1, <2>3, GoOnFits, AtFits
<1>3. CASE ent # NoEnt
  <2> DEFINE a == At("give")
             t == [a EXCEPT !.ref = r, !.key = k, !.seen = ent, !.then = then]
  <2>1. Asks(w) /\ task' = [task EXCEPT ![w] = t]
    BY <1>3 DEF Give, Asks
  <2>2. a \in Tasks /\ a.at = "give"
    BY AtFits DEF Places
  <2> HIDE DEF a
  <2>3. PackageFits(ent) /\ ent \in Packages
    BY DEF ShapeInv, PackageFits
  <2>4. t \in Tasks /\ t.at = "give" /\ t.ref = r /\ t.key = k /\ t.seen = ent
    BY <2>2, <2>3 DEF Tasks, Refs
  <2>5. task'[w] = t /\ Acts(w)
    BY <1>1, <2>1 DEF ShapeInv, Acts
  <2> HIDE DEF t
  <2>6. Fits(win'[w], t, status'[w])
    BY <1>1, <2>3, <2>4, SettledFits DEF AboutRun, Syncing
  <2>7. Fine(w)
    BY <2>4, <2>5, <2>6, <1>1, WindowNow DEF Fine
  <2> QED BY <1>3, <2>1, <2>4, <2>5, <2>7
<1> QED BY <1>2, <1>3

\* A step that moves nothing but the window's run, its places and what it is told: the
\* package, the accounts and the claim stay.
Light(w) ==
  /\ saved' = saved /\ UNCHANGED <<entVars, session, claim, clobbered>>
  /\ win'[w].open = win[w].open /\ win'[w].account = win[w].account
  /\ win'[w].ent = win[w].ent
  /\ \/ win'[w].gate = win[w].gate
     \/ win[w].gate \in Inside /\ win'[w].gate \in Inside
  /\ win'[w].run.ref \in {NoJob, win[w].run.ref, work[w].got.job.id}
  /\ \/ task'[w] = task[w]
     \/ task'[w].at \in Plain /\ task'[w].ref = NoJob
     \/ task'[w].at = "persisted" /\ task'[w].ref = win[w].run.ref

Step(w) == Acts(w) /\ Fine(w) /\ Asks(w)

\* What a step leaves as it is where it may be.
LEMMA StayFine ==
  ASSUME ShapeInv, NEW w \in Windows, task' = task, win' = win, status' = status
  PROVE  Acts(w) /\ Fine(w)
BY WindowNow DEF Acts, Fine, ShapeInv

LEMMA UnheardActs ==
  ASSUME ShapeInv, NEW w \in Windows, Unheard(w)
  PROVE  Step(w) /\ Light(w)
<1>1. task' = task /\ win' = win /\ status' = status /\ Receive(w)
  BY DEF Unheard
<1>2. Step(w)
  BY <1>1, StayFine DEF Step, Asks
<1>3. saved' = saved /\ UNCHANGED <<entVars, session, claim, clobbered>>
  BY DEF Unheard, keyVars, entVars
<1>4. Light(w)
  BY <1>1, <1>3 DEF Light
<1> QED BY <1>2, <1>4

\* A window that goes on to a plain place and shows what it showed.
LEMMA PlainActs ==
  ASSUME ShapeInv, NEW w \in Windows, NEW p \in Plain, Go(w, p), UNCHANGED <<win, status>>,
         win[w].open, task[w].at \notin Syncing \cup {"strip"},
         UNCHANGED <<saved, clobbered, entVars, session, claim>>
  PROVE  Acts(w) /\ Fine(w) /\ Light(w)
<1>1. Settled(win[w]) /\ win' = [win EXCEPT ![w] = win'[w]]
  BY SettledNow DEF ShapeInv
<1>2. Acts(w) /\ Fine(w) /\ task'[w] = At(p)
  BY <1>1, PlainFine DEF Go
<1>3. At(p).at = p /\ At(p).ref = NoJob
  BY AtFits DEF Plain, Places
<1> QED BY <1>1, <1>2, <1>3 DEF Light, entVars, Settled

LEMMA DiscardActs ==
  ASSUME ShapeInv, NEW w \in Windows, Discard(w)
  PROVE  Step(w) /\ Light(w)
<1>1. Asks(w)
  BY PlainAsk DEF Discard, Ops
<1> QED BY <1>1, PlainActs DEF Discard, Free, Step, Plain, Syncing, keyVars, entVars

LEMMA SaveDraftActs ==
  ASSUME ShapeInv, NEW w \in Windows, SaveDraft(w)
  PROVE  Step(w) /\ Light(w)
<1>1. Asks(w)
  BY PlainAsk DEF SaveDraft, Ops
<1> QED BY <1>1, PlainActs DEF SaveDraft, Free, Step, Plain, Syncing, keyVars, entVars

LEMMA ClearedActs ==
  ASSUME ShapeInv, NEW w \in Windows, Cleared(w)
  PROVE  Step(w) /\ Light(w)
<1>1. Asks(w) /\ Go(w, "refreshed")
  BY AskStateFits DEF Cleared, AskState
<1>2. win[w].open /\ task[w].at \notin Syncing \cup {"strip"}
  BY SettledNow DEF Cleared, Syncing, Settled
<1> QED BY <1>1, <1>2, PlainActs DEF Cleared, Step, Plain, keyVars, entVars

\* clearRun: the run it shows is dropped, and told to the worker if it goes on.
LEMMA ClearActs ==
  ASSUME ShapeInv, NEW w \in Windows, Clear(w), Settled(win[w]),
         UNCHANGED <<saved, clobbered, entVars, keyVars, status>>
  PROVE  Step(w) /\ Light(w)
<1> DEFINE v == [win[w] EXCEPT !.run = NoRun]
<1>1. win' = [win EXCEPT ![w] = v] /\ win'[w] = v
  BY DEF Clear, SetWin, ShapeInv
<1>2. NoRun \in Shows /\ NoRun.status = "none" /\ NoRun.ref = NoJob
  BY DEF NoRun, Run, RunWith, Shows, Refs
<1>3. /\ v \in Views /\ v.open = win[w].open /\ v.account = win[w].account
      /\ v.ent = win[w].ent /\ v.gate = win[w].gate /\ v.run = NoRun
  BY <1>2 DEF Settled, Views
<1> HIDE DEF v
<1>4. Settled(v)
  BY <1>2, <1>3 DEF Settled
<1>5. \E p \in {"cleared", "refreshed"} : task' = [task EXCEPT ![w] = At(p)]
  BY AskStateFits DEF Clear, Go
<1>6. Asks(w)
  <2>1. CASE win[w].run.status = "running"
    BY <2>1, UpdateAsk DEF Clear, Statuses, Terminal, Settled
  <2>2. CASE win[w].run.status # "running"
    BY <2>2, AskStateFits DEF Clear
  <2> QED BY <2>1, <2>2
<1>7. PICK p \in {"cleared", "refreshed"} : task' = [task EXCEPT ![w] = At(p)]
  BY <1>5
<1>8. Acts(w) /\ Fine(w) /\ task'[w] = At(p)
  BY <1>1, <1>4, <1>7, PlainFine DEF Plain
<1>9. At(p).at = p /\ At(p).ref = NoJob
  BY AtFits DEF Places
<1> QED BY <1>1, <1>2, <1>3, <1>6, <1>8, <1>9 DEF Step, Light, Plain, keyVars, entVars

LEMMA OutDraftActs ==
  ASSUME ShapeInv, NEW w \in Windows, OutDraft(w)
  PROVE  Step(w) /\ Light(w)
BY ClearActs, SettledNow DEF OutDraft, Syncing

LEMMA StartOverActs ==
  ASSUME ShapeInv, NEW w \in Windows, StartOver(w)
  PROVE  Step(w) /\ Light(w)
BY ClearActs, SettledNow DEF StartOver, Free, Syncing

\* A window shows something else and stays where it is.
LEMMA ShownActs ==
  ASSUME ShapeInv, NEW w \in Windows, NEW v, win' = [win EXCEPT ![w] = v],
         task' = task, Fits(v, task[w], status'[w]), v \in Views,
         status'[w] \in Told, status' = [status EXCEPT ![w] = status'[w]]
  PROVE  Acts(w) /\ Fine(w) /\ win'[w] = v
BY WindowNow DEF Acts, Fine, ShapeInv

LEMMA TellTrialActs ==
  ASSUME ShapeInv, NEW w \in Windows, TellTrial(w)
  PROVE  Step(w) /\ Light(w)
<1>1. win' = win /\ task' = task /\ status' = [status EXCEPT ![w] = DeviceTrial]
      /\ DeviceTrial \in Told /\ win[w].open
  BY DEF TellTrial, DeviceTrial, Told
<1>2. status'[w] = DeviceTrial
  BY <1>1 DEF ShapeInv
<1>3. Fits(win[w], task[w], status'[w])
  BY <1>1, WindowNow DEF Fits
<1>4. Acts(w) /\ Fine(w)
  BY <1>1, <1>2, <1>3, WindowNow DEF Acts, Fine, ShapeInv
<1> QED BY <1>1, <1>4 DEF TellTrial, Step, Light, Asks, stVars, keyVars, entVars

LEMMA MirrorTrialActs ==
  ASSUME ShapeInv, NEW w \in Windows, MirrorTrial(w)
  PROVE  Step(w) /\ Light(w)
<1> DEFINE v == [win[w] EXCEPT !.told = mirror']
<1>1. /\ win' = [win EXCEPT ![w] = v] /\ task' = task /\ mirror' \in BOOLEAN
      /\ status' = [status EXCEPT ![w] = "none"] /\ status'[w] = "none" /\ status[w] # "none"
  BY DEF MirrorTrial, SetWin, ShapeInv
<1>2. /\ v \in Views /\ v.open = win[w].open /\ v.account = win[w].account
      /\ v.ent = win[w].ent /\ v.gate = win[w].gate /\ v.run = win[w].run
  BY <1>1, WindowNow DEF Views
<1> HIDE DEF v
<1>3. Fits(v, task[w], "none")
  BY <1>1, <1>2, WindowNow DEF Fits
<1>4. Acts(w) /\ Fine(w) /\ win'[w] = v
  BY <1>1, <1>2, <1>3, ShownActs DEF Told
<1> QED BY <1>1, <1>2, <1>4 DEF MirrorTrial, Step, Light, Asks, stVars, keyVars, entVars

LEMMA CredentialActs ==
  ASSUME ShapeInv, NEW w \in Windows, SaveCredential(w) \/ DropCredential(w)
  PROVE  Step(w) /\ Light(w)
<1>1. PICK m \in BOOLEAN, g \in {"portal", "moss-id"} :
        win' = [win EXCEPT ![w].moss = m, ![w].gate = g]
  BY DEF SaveCredential, DropCredential
<1> DEFINE v == [win[w] EXCEPT !.moss = m, !.gate = g]
<1>2. win[w].gate \in Inside /\ win[w].open /\ task[w].at = "idle"
  BY WindowNow DEF SaveCredential, DropCredential, Free, Offered, AuthPanel, PaywallPanel,
       MossIdPanel, PortalPanel, RunCard, Recoverable, AccountCard, Inside
<1>3. win' = [win EXCEPT ![w] = v]
  BY <1>1
<1>4. /\ v \in Views /\ v.open = win[w].open /\ v.account = win[w].account
      /\ v.ent = win[w].ent /\ v.gate = g /\ v.run = win[w].run
  BY WindowNow DEF Views, Gates
<1> HIDE DEF v
<1>5. Fits(v, task[w], status[w])
  BY <1>2, <1>4, WindowNow DEF Fits, Inside
<1>6. task' = task /\ status' = status
  BY DEF SaveCredential, DropCredential
<1>7. Acts(w) /\ Fine(w) /\ win'[w] = v
  BY <1>3, <1>4, <1>5, <1>6, WindowNow, ShownActs DEF ShapeInv
<1> QED BY <1>2, <1>4, <1>6, <1>7
        DEF SaveCredential, DropCredential, Step, Light, Asks, stVars, entVars, Inside

\* The run a record shows.
LEMMA ShownFits ==
  ASSUME NEW s \in States, NEW r \in Shows, r.status # "none" => r.ref \in JobIds
  PROVE  /\ Shown(s.job, r) \in Shows
         /\ Shown(s.job, r).status # "none" => Shown(s.job, r).ref \in JobIds
         /\ Shown(s.job, r).ref \in {r.ref, s.job.id}
<1>1. CASE s.job = NoBinding
  BY <1>1 DEF Shown
<1>2. CASE s.job # NoBinding
  <2>1. s.job.id \in JobIds /\ s.job.status \in Statuses
    BY <1>2, StateShape DEF ValidJob
  <2> DEFINE st == IF Over(s.job.status) THEN s.job.status ELSE "running"
             sy == r.synced /\ r.ref = s.job.id /\ r.status = st
             co == IF st = "ambiguous" THEN TimeoutFailureCode(TRUE) ELSE "none"
  <2>2. Shown(s.job, r) = [ref |-> s.job.id, status |-> st, synced |-> sy, code |-> co]
    BY <1>2 DEF Shown, RunWith
  <2>3. st \in {"running"} \cup Statuses /\ co \in {"none", "uncertain-query"} /\ sy \in BOOLEAN
    BY <2>1 DEF TimeoutFailureCode, Shows
  <2> HIDE DEF st, sy, co
  <2> QED BY <2>1, <2>2, <2>3 DEF Shows, Refs
<1> QED BY <1>1, <1>2

\* A window shows another run, of the kind it showed or the record names.
LEMMA RunShown ==
  ASSUME ShapeInv, NEW w \in Windows, Settled(win[w]), NEW v \in Views,
         win' = [win EXCEPT ![w] = v], v.open = win[w].open, v.account = win[w].account,
         v.ent = win[w].ent, v.gate = win[w].gate,
         v.run.status # "none" => v.run.ref \in JobIds
  PROVE  Settled(win'[w]) /\ win'[w] = v
BY DEF Settled, ShapeInv

LEMMA RefreshedActs ==
  ASSUME StoreInv, ShapeInv, NEW w \in Windows, Refreshed(w)
  PROVE  Step(w) /\ Light(w)
<1> DEFINE c == work[w]
           r == IF c.ok /\ ~c.tidied THEN Shown(c.got.job, win[w].run) ELSE win[w].run
           k == c.ok /\ (c.got.draft # "none" \/ c.got.job # NoBinding)
           v == [win[w] EXCEPT !.run = r, !.kept = k]
<1>1. c.got \in States /\ c.ok \in BOOLEAN /\ c.tidied \in BOOLEAN
  BY DEF StoreInv, MessageFits, Refreshed, Answered, Messages
<1>2. Settled(win[w]) /\ win[w].run \in Shows
  BY SettledNow DEF Refreshed, Syncing, Settled, Views
<1>3. r \in Shows /\ (r.status # "none" => r.ref \in JobIds) /\ r.ref \in {win[w].run.ref, c.got.job.id}
  BY <1>1, <1>2, ShownFits DEF Settled
<1>4. win' = [win EXCEPT ![w] = v] /\ k \in BOOLEAN
  BY <1>1 DEF Refreshed
<1> HIDE DEF r, k
<1>5. /\ v \in Views /\ v.open = win[w].open /\ v.account = win[w].account
      /\ v.ent = win[w].ent /\ v.gate = win[w].gate /\ v.run = r
  BY <1>2, <1>3, <1>4 DEF Settled, Views
<1> HIDE DEF v
<1>6. Settled(win'[w]) /\ win'[w] = v
  BY <1>2, <1>3, <1>4, <1>5, RunShown
<1>7. Receive(w) /\ task' = [task EXCEPT ![w] = At("idle")] /\ status' = status
      /\ saved' = saved /\ UNCHANGED <<entVars, session, claim, clobbered>>
  BY DEF Refreshed, Go, keyVars
<1>8. Acts(w) /\ Fine(w) /\ task'[w] = At("idle")
  BY <1>4, <1>6, <1>7, PlainFine DEF Plain
<1>9. At("idle").at = "idle" /\ At("idle").ref = NoJob
  BY AtFits DEF Places
<1> QED BY <1>3, <1>5, <1>6, <1>7, <1>8, <1>9 DEF Step, Light, Asks, Plain

LEMMA EndRunActs ==
  ASSUME ShapeInv, NEW w \in Windows, NEW st \in Ends, EndRun(w, st)
  PROVE  Step(w) /\ Light(w)
<1> DEFINE co == IF st \in {"failed", "ambiguous"} THEN TimeoutFailureCode(st = "ambiguous")
                 ELSE "none"
           r == RunWith(win[w].run.ref, st, FALSE, co)
           v == [win[w] EXCEPT !.run = r]
<1>1. win[w].open /\ task[w].at = "idle" /\ win[w].run.status = "running"
      /\ win' = [win EXCEPT ![w] = v] /\ task' = task /\ status' = status
  BY DEF EndRun, Free, SetWin
<1>2. Settled(win[w]) /\ win[w].run \in Shows
  BY <1>1, SettledNow DEF Syncing, Settled, Views
<1>3. co \in {"none", "uncertain-query", "provider"} /\ st \in {"kept"} \cup Statuses
  BY DEF TimeoutFailureCode, Ends, Statuses, Terminal
<1> HIDE DEF co
<1>4. r \in Shows /\ r.ref = win[w].run.ref /\ r.ref \in JobIds
  BY <1>1, <1>2, <1>3 DEF RunWith, Shows, Settled
<1> HIDE DEF r
<1>5. /\ v \in Views /\ v.open = win[w].open /\ v.account = win[w].account
      /\ v.ent = win[w].ent /\ v.gate = win[w].gate /\ v.run = r
  BY <1>2, <1>4 DEF Settled, Views
<1> HIDE DEF v
<1>6. Settled(win'[w]) /\ win'[w] = v
  BY <1>1, <1>2, <1>4, <1>5, RunShown
<1>7. Fits(v, task[w], status[w])
  BY <1>1, <1>4, <1>5, WindowNow DEF Fits
<1>8. Acts(w) /\ Fine(w)
  BY <1>1, <1>5, <1>7, WindowNow, ShownActs DEF ShapeInv
<1>9. saved' = saved /\ UNCHANGED <<entVars, session, claim, clobbered>> /\ work' = work
  BY DEF EndRun, keyVars, stVars
<1> QED BY <1>1, <1>4, <1>5, <1>6, <1>8, <1>9 DEF Step, Light, Asks

\* A window that tells the worker about the run it shows.
LEMMA UpdateActs ==
  ASSUME ShapeInv, NEW w \in Windows, Settled(win[w]), win[w].run.ref \in JobIds,
         NEW v, Settled(v), win' = [win EXCEPT ![w] = v], v.account = win[w].account,
         v.ent = win[w].ent, v.gate = win[w].gate, v.run.ref = win[w].run.ref,
         NEW st \in Statuses, Send(w, "update-job", win[w].run.ref, st),
         GoWith(w, "persisted", win[w].run.ref), status' = status,
         UNCHANGED <<saved, clobbered, entVars, session, claim>>
  PROVE  Step(w) /\ Light(w)
<1> DEFINE t == [At("persisted") EXCEPT !.ref = win[w].run.ref]
<1>1. task' = [task EXCEPT ![w] = t] /\ task'[w] = t /\ win'[w] = v
      /\ win' = [win EXCEPT ![w] = win'[w]] /\ status' = [status EXCEPT ![w] = status'[w]]
  BY DEF GoWith, ShapeInv
<1>2. t \in Tasks /\ t.at = "persisted" /\ t.ref = win[w].run.ref /\ t.seen = NoEnt
  <2>1. /\ At("persisted") \in Tasks /\ At("persisted").at = "persisted"
        /\ At("persisted").seen = NoEnt
    BY AtFits DEF Places
  <2> QED BY <2>1 DEF Tasks, Refs
<1> HIDE DEF t
<1>3. Fits(v, t, status'[w])
  BY <1>2, SettledFits, NoEntFits DEF AboutRun, Syncing
<1>4. Acts(w) /\ Fine(w)
  BY <1>1, <1>2, <1>3, WindowNow DEF Acts, Fine, Settled
<1>5. Asks(w)
  BY UpdateAsk
<1> QED BY <1>1, <1>2, <1>4, <1>5 DEF Step, Light, Settled, Views

LEMMA TickActs ==
  ASSUME ShapeInv, NEW w \in Windows, Tick(w)
  PROVE  Step(w) /\ Light(w)
<1>1. Settled(win[w]) /\ win[w].run.ref \in JobIds
  BY SettledNow DEF Tick, Free, Syncing, Settled
<1>2. win' = [win EXCEPT ![w] = win[w]] /\ status' = status
      /\ Send(w, "update-job", win[w].run.ref, "running")
      /\ GoWith(w, "persisted", win[w].run.ref)
      /\ UNCHANGED <<saved, clobbered, entVars, session, claim>>
  BY DEF Tick, ShapeInv, keyVars
<1> QED BY <1>1, <1>2, UpdateActs DEF Statuses

LEMMA PersistActs ==
  ASSUME ShapeInv, NEW w \in Windows, Persist(w)
  PROVE  Step(w) /\ Light(w)
<1> DEFINE r == [win[w].run EXCEPT !.synced = TRUE]
           v == [win[w] EXCEPT !.run = r]
<1>1. Settled(win[w]) /\ win[w].run \in Shows /\ win[w].run.ref \in JobIds
  BY SettledNow DEF Persist, Free, Syncing, Settled, Views, Over, Terminal
<1>2. r \in Shows /\ r.ref = win[w].run.ref
  BY <1>1 DEF Shows
<1>3. win' = [win EXCEPT ![w] = v]
  BY DEF Persist
<1> HIDE DEF r
<1>4. /\ v \in Views /\ v.open = win[w].open /\ v.account = win[w].account
      /\ v.ent = win[w].ent /\ v.gate = win[w].gate /\ v.run = r
  BY <1>1, <1>2 DEF Settled, Views
<1> HIDE DEF v
<1>5. Settled(v)
  BY <1>1, <1>2, <1>4 DEF Settled
<1>6. StoredAs(win[w].run.status) \in Statuses
  BY DEF StoredAs, Persist, Over, Statuses, Terminal
<1>7. status' = status /\ Send(w, "update-job", win[w].run.ref, StoredAs(win[w].run.status))
      /\ GoWith(w, "persisted", win[w].run.ref)
      /\ UNCHANGED <<saved, clobbered, entVars, session, claim>>
  BY DEF Persist, keyVars
<1> QED BY <1>1, <1>2, <1>3, <1>4, <1>5, <1>6, <1>7, UpdateActs

-----------------------------------------------------------------------------
(* The steps that move more: accounts. *)

\* What a window keeps from one step to the next.
SameView(v, u) ==
  v.open = u.open /\ v.account = u.account /\ v.ent = u.ent /\ v.gate = u.gate /\ v.run = u.run

LEMMA OpenActs ==
  ASSUME ShapeInv, NEW w \in Windows, Open(w)
  PROVE  /\ Step(w) /\ win'[w] = Fresh(session) /\ task'[w].ref = NoJob
         /\ task'[w].at = IF session = NoUser THEN "strip" ELSE "sync"
<1>1. win'[w] = Fresh(session) /\ session \in Names /\ status' = status
  BY DEF Open, ShapeInv, vars, keyVars
<1> DEFINE p == IF session = NoUser THEN "strip" ELSE "sync"
<1>2. p \in Places /\ At(p) \in Tasks /\ At(p).at = p /\ At(p).seen = NoEnt /\ At(p).ref = NoJob
  BY AtFits DEF Places
<1>3. task'[w] = [At(p) EXCEPT !.then = "refresh"]
  BY DEF Open, ShapeInv
<1>4. task'[w] \in Tasks /\ task'[w].at = p /\ task'[w].seen = NoEnt /\ task'[w].ref = NoJob
  BY <1>2, <1>3 DEF Tasks
<1>5. Acts(w) /\ Asks(w)
  BY DEF Open, ShapeInv, Acts, Asks, stVars
<1>6. Fine(w)
  BY <1>1, <1>4, FreshFits, NoEntFits, WindowNow
     DEF Fine, Fits, AboutRun, Inside, Syncing, Views
<1> QED BY <1>1, <1>4, <1>5, <1>6 DEF Step

LEMMA CloseActs ==
  ASSUME ShapeInv, NEW w \in Windows, Close(w)
  PROVE  Step(w) /\ win'[w] = Shut /\ task'[w] = Idle
<1>1. win'[w] = Shut /\ task'[w] = Idle /\ status'[w] = "none"
  BY DEF Close, ShapeInv
<1>2. Acts(w) /\ Asks(w)
  BY DEF Close, ShapeInv, Acts, Asks, stVars
<1>3. Fits(Shut, Idle, "none")
  BY ShutFits, IdleFits, NoEntFits DEF Fits, AboutRun, Inside, Syncing
<1> QED BY <1>1, <1>2, <1>3, ShutFits, IdleFits DEF Step, Fine, Told

LEMMA StripActs ==
  ASSUME ShapeInv, NEW w \in Windows, Strip(w)
  PROVE  /\ Step(w) /\ task'[w].at = "refreshed" /\ task'[w].ref = NoJob
         /\ win'[w].open = win[w].open /\ win'[w].account = NoUser /\ win[w].account = NoUser
         /\ win'[w].ent = win[w].ent /\ win'[w].gate = "auth" /\ win'[w].run = win[w].run
<1> DEFINE v == [win[w] EXCEPT !.gate = "auth"]
<1>1. win' = [win EXCEPT ![w] = v] /\ status' = status /\ AskState(w)
  BY DEF Strip, SetWin, GateOf
<1>2. /\ v \in Views /\ v.open = win[w].open /\ v.account = win[w].account
      /\ v.ent = win[w].ent /\ v.gate = "auth" /\ v.run = win[w].run
  BY WindowNow DEF Views, Gates
<1> HIDE DEF v
<1>3. win[w].account = NoUser /\ win[w].open
  BY WindowNow, IdleFits DEF Strip, Fits, Views
<1>4. Settled(v)
  BY <1>2, <1>3, WindowNow DEF Settled, Fits, Inside
<1>5. win' = [win EXCEPT ![w] = win'[w]] /\ win'[w] = v
  BY <1>1 DEF ShapeInv
<1>6. Asks(w) /\ task' = [task EXCEPT ![w] = At("refreshed")]
  BY <1>1, AskStateFits
<1>7. Acts(w) /\ Fine(w) /\ task'[w] = At("refreshed")
  BY <1>1, <1>4, <1>5, <1>6, PlainFine DEF Plain
<1>8. At("refreshed").at = "refreshed" /\ At("refreshed").ref = NoJob
  BY AtFits DEF Places
<1> QED BY <1>2, <1>3, <1>5, <1>6, <1>7, <1>8 DEF Step

LEMMA SignInActs ==
  ASSUME ShapeInv, NEW w \in Windows, NEW u \in Users, SignIn(w, u)
  PROVE  /\ Step(w) /\ task'[w].at = "sync" /\ task'[w].ref = NoJob
         /\ win'[w].open /\ win[w].open /\ win'[w].account = u /\ win[w].account = NoUser
         /\ win'[w].ent = win[w].ent /\ win'[w].gate = "auth" /\ win[w].gate = "auth"
         /\ win'[w].run = win[w].run
<1> DEFINE v == [win[w] EXCEPT !.account = u]
<1>1. win' = [win EXCEPT ![w] = v] /\ status' = status /\ work' = work
      /\ task' = [task EXCEPT ![w] = At("sync")]
  BY DEF SignIn, SetWin, Go, stVars
<1>2. win[w].gate = "auth" /\ win[w].open /\ task[w].at = "idle"
  BY WindowNow DEF SignIn, Free, Offered, AuthPanel, PaywallPanel,
       MossIdPanel, PortalPanel, RunCard, Recoverable, AccountCard
<1>3. /\ v \in Views /\ v.open = win[w].open /\ v.account = u
      /\ v.ent = win[w].ent /\ v.gate = win[w].gate /\ v.run = win[w].run
  BY WindowNow DEF Views, Names
<1> HIDE DEF v
<1>4. win[w].account = NoUser
  BY <1>2, WindowNow DEF Fits, Syncing
<1>5. At("sync") \in Tasks /\ At("sync").at = "sync" /\ At("sync").ref = NoJob
      /\ At("sync").seen = NoEnt
  BY AtFits DEF Places
<1>6. Fits(v, At("sync"), status[w])
  BY <1>2, <1>3, <1>5, WindowNow, NoEntFits, BrowserAssumption
     DEF Fits, AboutRun, Syncing, Inside
<1>7. task'[w] = At("sync") /\ win'[w] = v /\ status'[w] = status[w]
      /\ Acts(w) /\ Asks(w)
  BY <1>1 DEF ShapeInv, Acts, Asks
<1> QED BY <1>2, <1>3, <1>4, <1>5, <1>6, <1>7, WindowNow DEF Step, Fine

LEMMA SyncActs ==
  ASSUME ShapeInv, NEW w \in Windows, Sync(w)
  PROVE  /\ Step(w) /\ SameView(win'[w], win[w]) /\ task'[w].ref = NoJob
         /\ task'[w].at = IF Foreign(ent, win[w].account) THEN "dropEnt" ELSE "dropCred"
         /\ task'[w].seen = ent
         /\ task'[w].drop = (MossConnected(cred) /\ cred # win[w].account)
<1> DEFINE p == IF Foreign(ent, win[w].account) THEN "dropEnt" ELSE "dropCred"
           a == At(p)
           d == MossConnected(cred) /\ cred # win[w].account
           t == [a EXCEPT !.seen = ent, !.drop = d, !.then = task[w].then]
           m == MossConnected(cred) /\ cred = win[w].account
           v == [win[w] EXCEPT !.moss = m]
<1>1. /\ win' = [win EXCEPT ![w] = v] /\ status' = status /\ work' = work
      /\ task' = [task EXCEPT ![w] = t]
  BY DEF Sync, SetWin, stVars
<1>2. /\ v \in Views /\ SameView(v, win[w])
  BY WindowNow DEF Views, SameView, MossConnected
<1> HIDE DEF v
<1>3. a \in Tasks /\ a.at = p /\ a.ref = NoJob
  BY AtFits DEF Places
<1>4. d \in BOOLEAN /\ ent \in Packages /\ PackageFits(ent) /\ task[w].then \in {"idle", "refresh"}
  BY WindowNow DEF MossConnected, ShapeInv, PackageFits, Tasks
<1> HIDE DEF a, d
<1>5. t \in Tasks /\ t.at = p /\ t.ref = NoJob /\ t.seen = ent /\ t.drop = d
  BY <1>3, <1>4 DEF Tasks
<1> HIDE DEF t
<1>6. Fits(v, t, status[w])
  BY <1>2, <1>4, <1>5, WindowNow, IdleFits
     DEF Fits, AboutRun, Syncing, Inside, SameView, Sync
<1>7. task'[w] = t /\ win'[w] = v /\ status'[w] = status[w] /\ Acts(w) /\ Asks(w)
  BY <1>1 DEF ShapeInv, Acts, Asks
<1> QED BY <1>2, <1>5, <1>6, <1>7, WindowNow DEF Step, Fine, d

LEMMA DropEntActs ==
  ASSUME ShapeInv, NEW w \in Windows, DropEnt(w)
  PROVE  /\ Step(w) /\ win'[w] = win[w] /\ task'[w].ref = NoJob
         /\ task'[w].at = "dropCred" /\ task'[w].seen = NoEnt
<1> DEFINE t == [task[w] EXCEPT !.at = "dropCred", !.seen = NoEnt]
<1>1. win' = win /\ status' = status /\ work' = work
      /\ task' = [task EXCEPT ![w] = t]
  BY DEF DropEnt
<1>2. t \in Tasks /\ t.at = "dropCred" /\ t.ref = task[w].ref /\ t.seen = NoEnt
  BY WindowNow, NoEntFits DEF Tasks, Places
<1> HIDE DEF t
<1>3. Fits(win[w], t, status[w]) /\ t.ref = NoJob
  BY <1>2, WindowNow, NoEntFits, IdleFits
     DEF Fits, AboutRun, Syncing, Inside, DropEnt, Foreign
<1>4. task'[w] = t /\ win'[w] = win[w] /\ status'[w] = status[w] /\ Acts(w) /\ Asks(w)
  BY <1>1 DEF ShapeInv, Acts, Asks
<1> QED BY <1>2, <1>3, <1>4, WindowNow DEF Step, Fine

LEMMA DropCredActs ==
  ASSUME ShapeInv, NEW w \in Windows, DropCred(w)
  PROVE  /\ Step(w) /\ task'[w].at \in Plain /\ task'[w].ref = NoJob
         /\ win[w].account # NoUser /\ win'[w].account = win[w].account
         /\ win'[w].open = win[w].open /\ win'[w].ent = task[w].seen
         /\ win'[w].gate \in Inside /\ win'[w].run = win[w].run
         /\ ~Foreign(task[w].seen, win[w].account)
<1> DEFINE g == GateOf(win[w].account, task[w].seen, win[w].moss)
           v == [win[w] EXCEPT !.ent = task[w].seen, !.gate = g]
<1>1. win' = [win EXCEPT ![w] = v] /\ status' = status /\ GoOn(w, task[w].then)
  BY DEF DropCred
<1>2. /\ win[w].account # NoUser /\ win[w].open /\ ~Foreign(task[w].seen, win[w].account)
      /\ PackageFits(task[w].seen) /\ task[w].seen \in Packages
  BY WindowNow, IdleFits DEF DropCred, Fits, Syncing, Views, PackageFits
<1>3. g \in Inside
  BY <1>2 DEF GateOf, Inside
<1>4. /\ v \in Views /\ v.open = win[w].open /\ v.account = win[w].account
      /\ v.ent = task[w].seen /\ v.gate = g /\ v.run = win[w].run
  BY <1>2, <1>3, WindowNow DEF Views, Gates, Inside
<1> HIDE DEF v, g
<1>5. Settled(v)
  BY <1>2, <1>3, <1>4, WindowNow DEF Settled, Fits, Inside
<1>6. win' = [win EXCEPT ![w] = win'[w]] /\ win'[w] = v
  BY <1>1 DEF ShapeInv
<1>7. PICK p \in {"idle", "refreshed"} : task' = [task EXCEPT ![w] = At(p)]
  BY <1>1, GoOnFits
<1>8. Acts(w) /\ Fine(w) /\ task'[w] = At(p)
  BY <1>1, <1>5, <1>6, <1>7, PlainFine DEF Plain
<1>9. At(p).at = p /\ At(p).ref = NoJob
  BY AtFits DEF Places
<1> QED BY <1>1, <1>2, <1>3, <1>4, <1>6, <1>8, <1>9, GoOnFits DEF Step, Plain

LEMMA SignOutActs ==
  ASSUME ShapeInv, NEW w \in Windows, SignOut(w)
  PROVE  /\ Step(w) /\ win'[w] = win[w] /\ win[w].open /\ task'[w].ref = NoJob
         /\ task'[w].at = "outKeys" /\ task'[w].seen = NoEnt /\ win[w].account # NoUser
<1>1. win' = win /\ status' = status /\ work' = work
      /\ task' = [task EXCEPT ![w] = At("outKeys")]
  BY DEF SignOut, Go, stVars
<1>2. At("outKeys") \in Tasks /\ At("outKeys").at = "outKeys" /\ At("outKeys").ref = NoJob
      /\ At("outKeys").seen = NoEnt
  BY AtFits DEF Places
<1>3. Settled(win[w]) /\ win[w].gate = "portal"
  <2>1. task[w].at = "idle" /\ win[w].open
    BY DEF SignOut, Free
  <2>2. Settled(win[w])
    BY <2>1, SettledNow DEF Syncing
  <2> QED BY <2>2 DEF SignOut, Offered, AuthPanel, PaywallPanel,
       MossIdPanel, PortalPanel, RunCard, Recoverable, AccountCard
<1>4. Fits(win[w], At("outKeys"), status[w])
  BY <1>2, <1>3, SettledFits, NoEntFits DEF AboutRun, Syncing
<1>5. /\ task'[w] = At("outKeys") /\ win'[w] = win[w] /\ status'[w] = status[w]
      /\ Acts(w) /\ Asks(w)
  BY <1>1 DEF ShapeInv, Acts, Asks
<1> QED BY <1>2, <1>3, <1>4, <1>5, WindowNow DEF Step, Fine, Settled, Inside, Views

LEMMA OutKeysActs ==
  ASSUME ShapeInv, NEW w \in Windows, OutKeys(w)
  PROVE  /\ Step(w) /\ task'[w].at \in Plain /\ task'[w].ref = NoJob
         /\ win'[w].account = NoUser /\ win'[w].open /\ win'[w].ent = NoEnt
         /\ win'[w].gate = "auth" /\ win'[w].run = win[w].run /\ win[w].open
<1> DEFINE f == Fresh(NoUser)
           v == [f EXCEPT !.run = win[w].run, !.told = win[w].told, !.kept = win[w].kept,
                          !.gate = "auth"]
<1>1. win' = [win EXCEPT ![w] = v] /\ status' = status
      /\ task' = [task EXCEPT ![w] = At("outDraft")] /\ Send(w, "discard-draft", NoJob, "none")
  BY DEF OutKeys, Go
<1>2. f \in Views /\ f.account = NoUser /\ f.ent = NoEnt /\ f.open
  BY FreshFits DEF Names
<1> HIDE DEF f
<1>3. /\ v \in Views /\ v.open /\ v.account = NoUser /\ v.ent = NoEnt /\ v.gate = "auth"
      /\ v.run = win[w].run
  BY <1>2, WindowNow DEF Views, Gates
<1> HIDE DEF v
<1>4. Settled(v) /\ win[w].open
  <2>1. Settled(win[w])
    BY SettledNow DEF OutKeys, Syncing
  <2> QED BY <2>1, <1>3, NoEntFits DEF Settled, Inside
<1>5. win' = [win EXCEPT ![w] = win'[w]] /\ win'[w] = v
  BY <1>1 DEF ShapeInv
<1>6. Acts(w) /\ Fine(w) /\ task'[w] = At("outDraft")
  BY <1>1, <1>4, <1>5, PlainFine DEF Plain
<1>7. At("outDraft").at = "outDraft" /\ At("outDraft").ref = NoJob
  BY AtFits DEF Places
<1>8. Asks(w)
  BY <1>1, PlainAsk DEF Ops
<1> QED BY <1>3, <1>4, <1>5, <1>6, <1>7, <1>8 DEF Step, Plain

-----------------------------------------------------------------------------
(* The steps that move more: packages, the trial and runs. *)

\* What the gates offer, so far as it matters who is there.
LEMMA GateOffers ==
  ASSUME ShapeInv, NEW w \in Windows, Free(w)
  PROVE  /\ Settled(win[w]) /\ win[w].open /\ task[w].at = "idle"
         /\ ("buy" \in Offered(w) \/ "claim trial" \in Offered(w)) =>
              win[w].gate = "paywall" /\ win[w].account # NoUser
         /\ "start" \in Offered(w) => win[w].gate = "portal" /\ win[w].account # NoUser
<1>1. task[w].at = "idle" /\ win[w].open
  BY DEF Free
<1>2. Settled(win[w])
  BY <1>1, SettledNow DEF Syncing
<1> QED BY <1>1, <1>2 DEF Settled, Inside, Offered, AuthPanel, PaywallPanel,
       MossIdPanel, PortalPanel, RunCard, Recoverable, AccountCard

\* The packages that are written.
LEMMA BoughtFits ==
  ASSUME NEW plan \in {"trial", "pair"}, NEW u \in Names
  PROVE  /\ Bought(plan, u) \in Packages /\ PackageFits(Bought(plan, u))
         /\ Bought(plan, u).owner = u /\ Bought(plan, u).left = RunsOf(plan)
BY BrowserAssumption DEF Bought, Package, Packages, PackageFits, Plans, RunsOf

\* A window shows a package of its account.
LEMMA UnlockedFits ==
  ASSUME NEW u, Settled(u), u.account # NoUser, NEW e, PackageFits(e), e \in Packages
  PROVE  /\ Unlocked(u, e) \in Views /\ Settled(Unlocked(u, e))
         /\ Unlocked(u, e).open /\ Unlocked(u, e).account = u.account
         /\ Unlocked(u, e).ent = e /\ Unlocked(u, e).gate = "moss-id"
         /\ Unlocked(u, e).run = u.run
<1>1. /\ Unlocked(u, e) \in Views /\ Unlocked(u, e).open = u.open
      /\ Unlocked(u, e).account = u.account
      /\ Unlocked(u, e).ent = e /\ Unlocked(u, e).gate = "moss-id"
      /\ Unlocked(u, e).run = u.run
  BY DEF Unlocked, Settled, Views, Gates
<1> QED BY <1>1 DEF Settled, Inside

LEMMA PurchaseActs ==
  ASSUME ShapeInv, NEW w \in Windows, Purchase(w)
  PROVE  /\ Step(w) /\ task'[w] = task[w] /\ task[w].at = "idle" /\ win[w].open
         /\ win'[w].open /\ win'[w].account = win[w].account /\ win[w].account # NoUser
         /\ ent' = Bought("pair", win[w].account) /\ win'[w].ent = ent'
         /\ win[w].gate \in Inside /\ win'[w].gate \in Inside /\ win'[w].run = win[w].run
         /\ PackageFits(ent')
<1>1. /\ Settled(win[w]) /\ win[w].open /\ task[w].at = "idle" /\ win[w].account # NoUser
      /\ win[w].gate = "paywall"
  BY GateOffers DEF Purchase
<1>2. ent' = Bought("pair", win[w].account) /\ win[w].account \in Names
  BY <1>1 DEF Purchase, OwnerOf, Settled, Views
<1>3. ent' \in Packages /\ PackageFits(ent')
  BY <1>2, BoughtFits
<1> DEFINE v == Unlocked(win[w], ent')
<1>4. win' = [win EXCEPT ![w] = v] /\ task' = task /\ status' = status /\ work' = work
  BY DEF Purchase, stVars
<1>5. /\ v \in Views /\ Settled(v) /\ v.open /\ v.account = win[w].account /\ v.ent = ent'
      /\ v.gate = "moss-id" /\ v.run = win[w].run
  BY <1>1, <1>3, UnlockedFits
<1> HIDE DEF v
<1>6. Fits(v, task[w], status[w])
  BY <1>1, <1>5, WindowNow, SettledFits DEF Fits, AboutRun, Syncing
<1>7. Acts(w) /\ Fine(w) /\ win'[w] = v /\ task'[w] = task[w]
  BY <1>4, <1>5, <1>6, WindowNow, ShownActs DEF ShapeInv
<1> QED BY <1>1, <1>2, <1>3, <1>4, <1>5, <1>7 DEF Step, Asks, Inside

LEMMA WriteTrialActs ==
  ASSUME ShapeInv, NEW w \in Windows, WriteTrial(w)
  PROVE  /\ Step(w) /\ task'[w].at = "idle" /\ task'[w].ref = NoJob
         /\ win'[w].open /\ win'[w].account = win[w].account /\ win[w].account # NoUser
         /\ win[w].open /\ win[w].gate \in Inside
         /\ ent' = Bought("trial", win[w].account) /\ win'[w].ent = ent'
         /\ win'[w].gate \in Inside /\ win'[w].run = win[w].run
         /\ PackageFits(ent')
<1>1. Settled(win[w]) /\ win[w].account # NoUser
  BY SettledNow, WindowNow DEF WriteTrial, Syncing, Fits
<1>2. ent' = Bought("trial", win[w].account) /\ win[w].account \in Names
  BY <1>1 DEF WriteTrial, Settled, Views
<1>3. ent' \in Packages /\ PackageFits(ent')
  BY <1>2, BoughtFits
<1> DEFINE u == Unlocked(win[w], ent')
           v == [u EXCEPT !.told = TRUE]
<1>4. win' = [win EXCEPT ![w] = v] /\ task' = [task EXCEPT ![w] = At("idle")]
      /\ status' = status /\ work' = work
  BY DEF WriteTrial, Go, stVars
<1>5. /\ u \in Views /\ Settled(u) /\ u.open /\ u.account = win[w].account /\ u.ent = ent'
      /\ u.gate = "moss-id" /\ u.run = win[w].run
  BY <1>1, <1>3, UnlockedFits
<1> HIDE DEF u
<1>6. /\ v \in Views /\ v.open /\ v.account = win[w].account /\ v.ent = ent'
      /\ v.gate = "moss-id" /\ v.run = win[w].run
  BY <1>5 DEF Views
<1> HIDE DEF v
<1>7. Settled(v)
  BY <1>1, <1>3, <1>6 DEF Settled, Inside
<1>8. win' = [win EXCEPT ![w] = win'[w]] /\ win'[w] = v
  BY <1>4 DEF ShapeInv
<1>9. Acts(w) /\ Fine(w) /\ task'[w] = At("idle")
  BY <1>4, <1>7, <1>8, PlainFine DEF Plain
<1>10. At("idle").at = "idle" /\ At("idle").ref = NoJob
  BY AtFits DEF Places
<1> QED BY <1>1, <1>2, <1>3, <1>4, <1>6, <1>8, <1>9, <1>10 DEF Step, Asks, Inside, Settled

\* A window that is told the trial was claimed before.
LEMMA ToldFits ==
  ASSUME NEW u, Settled(u)
  PROVE  /\ [u EXCEPT !.told = TRUE] \in Views /\ Settled([u EXCEPT !.told = TRUE])
         /\ SameView([u EXCEPT !.told = TRUE], u)
<1> DEFINE v == [u EXCEPT !.told = TRUE]
<1>1. v \in Views /\ SameView(v, u)
  BY DEF Settled, Views, SameView
<1> HIDE DEF v
<1>2. Settled(v)
  BY <1>1 DEF Settled, SameView
<1> QED BY <1>1, <1>2 DEF v

\* A window that goes on, told or not.
LEMMA TrialStepActs ==
  ASSUME ShapeInv, NEW w \in Windows, Settled(win[w]),
         NEW p \in {"idle", "trialGranted", "trialWrite"},
         p # "idle" => win[w].account # NoUser,
         task' = [task EXCEPT ![w] = At(p)], win' = win \/ TrialFails(w),
         status' = status, work' = work
  PROVE  Step(w) /\ SameView(win'[w], win[w]) /\ task'[w] = At(p)
<1>1. /\ Settled(win'[w]) /\ SameView(win'[w], win[w]) /\ win' = [win EXCEPT ![w] = win'[w]]
  <2>1. CASE win' = win
    BY <2>1 DEF SameView, ShapeInv
  <2>2. CASE TrialFails(w)
    <3>1. win' = [win EXCEPT ![w] = [win[w] EXCEPT !.told = TRUE]]
      BY <2>2 DEF TrialFails, SetWin
    <3>2. win'[w] = [win[w] EXCEPT !.told = TRUE]
      BY <3>1 DEF ShapeInv
    <3> QED BY <3>1, <3>2, ToldFits
  <2> QED BY <2>1, <2>2
<1>2. At(p) \in Tasks /\ At(p).at = p /\ At(p).ref = NoJob /\ At(p).seen = NoEnt
  BY AtFits DEF Places
<1>3. Fits(win'[w], At(p), status[w])
  BY <1>1, <1>2, SettledFits, NoEntFits DEF AboutRun, Syncing, SameView
<1>4. task'[w] = At(p) /\ status'[w] = status[w] /\ Acts(w) /\ Asks(w)
  BY <1>1 DEF ShapeInv, Acts, Asks
<1> QED BY <1>1, <1>2, <1>3, <1>4, WindowNow DEF Step, Fine, Settled

LEMMA AskTrialActs ==
  ASSUME ShapeInv, NEW w \in Windows, AskTrial(w)
  PROVE  /\ Step(w) /\ SameView(win'[w], win[w]) /\ task[w].at = "idle"
         /\ task'[w] = task[w] \/ task'[w] = At("trialGranted")
<1>1. /\ Settled(win[w]) /\ win[w].open /\ task[w].at = "idle" /\ win[w].account # NoUser
  BY GateOffers DEF AskTrial
<1>2. status' = status /\ work' = work
  BY DEF AskTrial, stVars
<1>3. CASE Go(w, "trialGranted") /\ UNCHANGED win
  BY <1>1, <1>2, <1>3, TrialStepActs DEF Go
<1>4. CASE TrialFails(w) /\ UNCHANGED task
  <2> DEFINE v == [win[w] EXCEPT !.told = TRUE]
  <2>1. win' = [win EXCEPT ![w] = v]
    BY <1>4 DEF TrialFails, SetWin
  <2>2. v \in Views /\ Settled(v) /\ SameView(v, win[w])
    BY <1>1, ToldFits
  <2> HIDE DEF v
  <2>3. Fits(v, task[w], status[w])
    BY <1>1, <2>2, WindowNow, SettledFits DEF Fits, AboutRun, Syncing
  <2>4. Acts(w) /\ Fine(w) /\ win'[w] = v /\ task'[w] = task[w]
    BY <1>2, <1>4, <2>1, <2>2, <2>3, WindowNow, ShownActs DEF ShapeInv
  <2> QED BY <1>1, <1>2, <2>2, <2>4 DEF Step, Asks
<1> QED BY <1>3, <1>4 DEF AskTrial

LEMMA ReadMirrorActs ==
  ASSUME ShapeInv, NEW w \in Windows, ReadMirror(w)
  PROVE  /\ Step(w) /\ SameView(win'[w], win[w])
         /\ task'[w] = At("idle") \/ task'[w] = At("trialWrite")
<1>1. Settled(win[w]) /\ win[w].account # NoUser
  BY SettledNow, WindowNow DEF ReadMirror, Syncing, Fits
<1>2. status' = status /\ work' = work
  BY DEF ReadMirror, stVars
<1>3. CASE mirror
  BY <1>1, <1>2, <1>3, TrialStepActs DEF ReadMirror, Go
<1>4. CASE ~mirror
  BY <1>1, <1>2, <1>4, TrialStepActs DEF ReadMirror, Go
<1> QED BY <1>3, <1>4

LEMMA TakeActs ==
  ASSUME ShapeInv, NEW w \in Windows, NEW j \in JobIds, Take(w, j)
  PROVE  /\ Step(w) /\ win'[w] = win[w] /\ win[w].open /\ win[w].gate \in Inside
         /\ win[w].account # NoUser /\ task[w].at = "idle"
         /\ \/ task'[w] = Idle
            \/ /\ task'[w].at = "take" /\ task'[w].ref = j /\ task'[w].seen = ent
               /\ Consumable(ent)
<1>1. /\ Settled(win[w]) /\ win[w].open /\ task[w].at = "idle" /\ win[w].account # NoUser
      /\ win[w].gate \in Inside
  BY GateOffers DEF Take, Inside
<1>2. win' = win /\ status' = status /\ work' = work
  BY DEF Take, stVars
<1>3. CASE ~Consumable(ent)
  <2>1. task' = [task EXCEPT ![w] = Idle]
    BY <1>3 DEF Take
  <2>2. Fits(win[w], Idle, status[w])
    BY <1>1, IdleFits, NoEntFits, SettledFits DEF AboutRun, Syncing
  <2>3. task'[w] = Idle /\ win'[w] = win[w] /\ status'[w] = status[w] /\ Acts(w) /\ Asks(w)
    BY <1>2, <2>1 DEF ShapeInv, Acts, Asks
  <2> QED BY <1>1, <2>2, <2>3, WindowNow, IdleFits DEF Step, Fine
<1>4. CASE Consumable(ent)
  <2> DEFINE a == At("take")
             t == [a EXCEPT !.ref = j, !.seen = ent]
  <2>1. task' = [task EXCEPT ![w] = t]
    BY <1>4 DEF Take
  <2>2. a \in Tasks /\ a.at = "take" /\ PackageFits(ent) /\ ent \in Packages
    BY AtFits DEF Places, ShapeInv, PackageFits
  <2> HIDE DEF a
  <2>3. t \in Tasks /\ t.at = "take" /\ t.ref = j /\ t.seen = ent
    BY <2>2 DEF Tasks, Refs
  <2> HIDE DEF t
  <2>4. Fits(win[w], t, status[w])
    BY <1>1, <1>4, <2>2, <2>3, SettledFits DEF AboutRun, Syncing
  <2>5. task'[w] = t /\ win'[w] = win[w] /\ status'[w] = status[w] /\ Acts(w) /\ Asks(w)
    BY <1>2, <2>1 DEF ShapeInv, Acts, Asks
  <2> QED BY <1>1, <1>4, <2>3, <2>4, <2>5, WindowNow DEF Step, Fine
<1> QED BY <1>3, <1>4

\* A run is written off the package that was read; the call binds the job it is about.
LEMMA TakeWriteActs ==
  ASSUME ShapeInv, NEW w \in Windows, TakeWrite(w)
  PROVE  /\ Acts(w) /\ Fine(w) /\ PackageFits(ent') /\ win'[w].ent = ent'
         /\ task[w].ref \in JobIds /\ Consumable(task[w].seen)
         /\ task[w].seen.left \in Nat /\ ent'.left = task[w].seen.left - 1
         /\ ent'.owner = task[w].seen.owner
         /\ win'[w].open = win[w].open /\ win'[w].account = win[w].account
         /\ win'[w].gate = win[w].gate /\ win'[w].run = win[w].run
         /\ task'[w].at \in {"bind", "uncreated"} /\ task'[w].ref = task[w].ref
         /\ task'[w].at = "uncreated" => work' = work
         /\ \/ work' = work
            \/ /\ AskFits("bind-job", task[w].ref, "ready")
               /\ Send(w, "bind-job", task[w].ref, "ready")
<1> DEFINE s == task[w].seen
           e == [s EXCEPT !.left = s.left - 1]
           v == [win[w] EXCEPT !.ent = e]
<1>1. /\ Settled(win[w]) /\ Consumable(s) /\ PackageFits(s) /\ task[w].ref \in JobIds
  BY SettledNow, WindowNow DEF TakeWrite, Syncing, Fits, AboutRun
<1>2. s \in Packages /\ s.left \in Nat /\ s.left >= 1 /\ s # NoEnt /\ s.left <= RunsOf(s.plan)
  BY <1>1 DEF PackageFits, Consumable, Packages
<1> HIDE DEF s
<1>3. e \in Packages /\ e.left = s.left - 1 /\ e.owner = s.owner /\ e.plan = s.plan
  BY <1>2 DEF Packages
<1>4. PackageFits(e)
  <2>1. RunsOf(s.plan) \in Nat
    BY BrowserAssumption DEF RunsOf
  <2> QED BY <1>2, <1>3, <2>1 DEF PackageFits
<1>5. ent' = e /\ win' = [win EXCEPT ![w] = v] /\ status' = status
  BY DEF TakeWrite, SetWin, s
<1> HIDE DEF e
<1>6. /\ v \in Views /\ v.open = win[w].open /\ v.account = win[w].account /\ v.ent = e
      /\ v.gate = win[w].gate /\ v.run = win[w].run
  BY <1>1, <1>3 DEF Settled, Views
<1> HIDE DEF v
<1>7. Settled(v)
  BY <1>1, <1>4, <1>6 DEF Settled
<1> DEFINE t(p) == [At(p) EXCEPT !.ref = task[w].ref]
<1>8. /\ \/ /\ Send(w, "bind-job", task[w].ref, "ready") /\ task' = [task EXCEPT ![w] = t("bind")]
         \/ work' = work /\ task' = [task EXCEPT ![w] = t("uncreated")]
  BY DEF TakeWrite, GoWith
<1>9. AskFits("bind-job", task[w].ref, "ready")
  BY <1>1 DEF AskFits, Ops, Refs, Statuses, Terminal
<1>10. \A p \in {"bind", "uncreated"} : /\ t(p) \in Tasks /\ t(p).at = p /\ t(p).ref = task[w].ref
                                        /\ t(p).seen = NoEnt
  <2> SUFFICES ASSUME NEW p \in {"bind", "uncreated"}
               PROVE  /\ t(p) \in Tasks /\ t(p).at = p /\ t(p).ref = task[w].ref
                      /\ t(p).seen = NoEnt
    OBVIOUS
  <2>1. At(p) \in Tasks /\ At(p).at = p /\ At(p).seen = NoEnt
    BY AtFits DEF Places
  <2> QED BY <1>1, <2>1 DEF Tasks, Refs
<1>11. PICK p \in {"bind", "uncreated"} :
         /\ task' = [task EXCEPT ![w] = t(p)]
         /\ \/ p = "bind" /\ Send(w, "bind-job", task[w].ref, "ready")
            \/ p = "uncreated" /\ work' = work
  BY <1>8
<1>12. t(p) \in Tasks /\ t(p).at = p /\ t(p).ref = task[w].ref /\ t(p).seen = NoEnt
  BY <1>10
<1> HIDE DEF t
<1>13. Fits(v, t(p), status[w])
  BY <1>1, <1>7, <1>12, SettledFits, NoEntFits DEF AboutRun, Syncing
<1>14. task'[w] = t(p) /\ win'[w] = v /\ status'[w] = status[w] /\ Acts(w)
  BY <1>5, <1>11 DEF ShapeInv, Acts
<1> QED BY <1>1, <1>2, <1>3, <1>4, <1>5, <1>6, <1>9, <1>11, <1>12, <1>13, <1>14, WindowNow
        DEF Fine, s

\* What giving a run back begins with.
Giving(w, k) ==
  \/ task'[w].at \in Plain /\ task'[w].ref = NoJob
  \/ /\ task'[w].at = "give" /\ task'[w].seen = ent /\ ent # NoEnt
     /\ task'[w].ref = task[w].ref /\ task'[w].key = k

LEMMA UncreatedActs ==
  ASSUME ShapeInv, NEW w \in Windows, Uncreated(w)
  PROVE  Step(w) /\ win'[w] = win[w] /\ Giving(w, NoJob) /\ task[w].ref \in JobIds
<1>1. task[w].ref \in JobIds /\ win' = win /\ status' = status
      /\ Give(w, task[w].ref, NoJob, "idle")
  BY WindowNow DEF Uncreated, Fits, AboutRun
<1>2. task[w].at \notin Syncing \cup {"strip", "idle"}
  BY DEF Uncreated, Syncing
<1> QED BY <1>1, <1>2, GiveFits DEF Step, Giving

LEMMA PersistedActs ==
  ASSUME ShapeInv, NEW w \in Windows, Persisted(w)
  PROVE  Step(w) /\ win'[w] = win[w] /\ Giving(w, task[w].ref) /\ task[w].ref \in JobIds
<1>1. task[w].ref \in JobIds /\ win' = win /\ status' = status
      /\ task[w].at \notin Syncing \cup {"strip", "idle"}
  BY WindowNow DEF Persisted, Fits, AboutRun, Syncing
<1>2. CASE Refundable(win[w].run.status)
  <2>1. Give(w, task[w].ref, task[w].ref, "idle")
    BY <1>2 DEF Persisted
  <2> QED BY <1>1, <2>1, GiveFits DEF Step, Giving
<1>3. CASE ~Refundable(win[w].run.status)
  <2>1. Receive(w) /\ task' = [task EXCEPT ![w] = At("idle")]
    BY <1>3 DEF Persisted, GoOn, Go
  <2>2. Settled(win[w]) /\ win'[w] = win[w] /\ win' = [win EXCEPT ![w] = win'[w]]
    BY <1>1, SettledNow DEF ShapeInv
  <2>3. Acts(w) /\ Fine(w) /\ task'[w] = At("idle")
    BY <1>1, <2>1, <2>2, PlainFine DEF Plain
  <2>4. At("idle").at = "idle" /\ At("idle").ref = NoJob
    BY AtFits DEF Places
  <2> QED BY <1>1, <2>1, <2>2, <2>3, <2>4 DEF Step, Giving, Asks, Plain
<1> QED BY <1>2, <1>3

LEMMA BoundActs ==
  ASSUME ShapeInv, NEW w \in Windows, Bound(w)
  PROVE  /\ Step(w) /\ Giving(w, task[w].ref) /\ task[w].ref \in JobIds
         /\ win'[w].open = win[w].open /\ win'[w].account = win[w].account
         /\ win'[w].ent = win[w].ent /\ win'[w].gate = win[w].gate
         /\ win'[w].run.ref \in {win[w].run.ref, task[w].ref}
<1>1. task[w].ref \in JobIds /\ status' = status
      /\ task[w].at \notin Syncing \cup {"strip", "idle"}
  BY WindowNow DEF Bound, Fits, AboutRun, Syncing
<1>2. CASE ~work[w].ok
  <2>1. Give(w, task[w].ref, task[w].ref, "refresh") /\ win' = win
    BY <1>2 DEF Bound
  <2>2. win'[w] = win[w]
    BY <2>1
  <2> QED BY <1>1, <2>1, <2>2, GiveFits DEF Step, Giving
<1>3. CASE work[w].ok
  <2> DEFINE r == Run(task[w].ref, "running", FALSE)
             v == [win[w] EXCEPT !.run = r]
  <2>1. win' = [win EXCEPT ![w] = v] /\ AskState(w)
    BY <1>3 DEF Bound, SetWin
  <2>2. r \in Shows /\ r.ref = task[w].ref
    BY <1>1 DEF Run, RunWith, Shows, Refs
  <2> HIDE DEF r
  <2>3. Settled(win[w])
    BY <1>1, SettledNow
  <2>4. /\ v \in Views /\ v.open = win[w].open /\ v.account = win[w].account /\ v.ent = win[w].ent
        /\ v.gate = win[w].gate /\ v.run = r
    BY <2>2, <2>3 DEF Settled, Views
  <2> HIDE DEF v
  <2>5. Settled(win'[w]) /\ win'[w] = v
    BY <1>1, <2>1, <2>2, <2>3, <2>4, RunShown
  <2>6. Asks(w) /\ task' = [task EXCEPT ![w] = At("refreshed")]
    BY <2>1, AskStateFits
  <2>7. Acts(w) /\ Fine(w) /\ task'[w] = At("refreshed")
    BY <1>1, <2>1, <2>5, <2>6, PlainFine DEF Plain
  <2>8. At("refreshed").at = "refreshed" /\ At("refreshed").ref = NoJob
    BY AtFits DEF Places
  <2> QED BY <1>1, <2>2, <2>4, <2>5, <2>6, <2>7, <2>8 DEF Step, Giving, Plain
<1> QED BY <1>2, <1>3

LEMMA GiveReadsActs ==
  ASSUME ShapeInv, NEW w \in Windows, GiveReads(w)
  PROVE  /\ Step(w) /\ task[w].ref \in JobIds
         /\ win'[w].open = win[w].open /\ win'[w].account = win[w].account
         /\ win'[w].gate = win[w].gate /\ win'[w].run = win[w].run
         /\ \/ /\ task'[w].at \in Plain /\ task'[w].ref = NoJob
               /\ win'[w].ent = task[w].seen
            \/ /\ task'[w].at = "giveWrite" /\ task'[w].list = released
               /\ task'[w].ref = task[w].ref /\ task'[w].key = task[w].key
               /\ task'[w].seen = task[w].seen /\ win'[w] = win[w]
<1>1. /\ task[w].ref \in JobIds /\ status' = status /\ Settled(win[w])
      /\ PackageFits(task[w].seen) /\ task[w].seen \in Packages
      /\ task[w].key \in {NoJob, task[w].ref}
  BY WindowNow, SettledNow DEF GiveReads, Fits, AboutRun, Syncing, PackageFits
<1>2. CASE RefundedBefore(task[w].key, released)
  <2> DEFINE v == [win[w] EXCEPT !.ent = task[w].seen]
  <2>1. win' = [win EXCEPT ![w] = v] /\ GoOn(w, task[w].then)
    BY <1>2 DEF GiveReads, SetWin
  <2>2. /\ v \in Views /\ v.open = win[w].open /\ v.account = win[w].account
        /\ v.ent = task[w].seen /\ v.gate = win[w].gate /\ v.run = win[w].run
    BY <1>1 DEF Settled, Views
  <2> HIDE DEF v
  <2>3. Settled(v) /\ win'[w] = v /\ win' = [win EXCEPT ![w] = win'[w]]
    BY <1>1, <2>1, <2>2 DEF Settled, ShapeInv
  <2>4. PICK p \in {"idle", "refreshed"} : task' = [task EXCEPT ![w] = At(p)]
    BY <2>1, GoOnFits
  <2>5. Acts(w) /\ Fine(w) /\ task'[w] = At(p)
    BY <1>1, <2>3, <2>4, PlainFine DEF Plain
  <2>6. At(p).at = p /\ At(p).ref = NoJob
    BY AtFits DEF Places
  <2> QED BY <1>1, <2>1, <2>2, <2>3, <2>5, <2>6, GoOnFits DEF Step, Plain
<1>3. CASE ~RefundedBefore(task[w].key, released)
  <2> DEFINE t == [task[w] EXCEPT !.at = "giveWrite", !.list = released]
  <2>1. task' = [task EXCEPT ![w] = t] /\ work' = work /\ win' = win
    BY <1>3 DEF GiveReads
  <2>2. /\ t \in Tasks /\ t.at = "giveWrite" /\ t.list = released /\ t.ref = task[w].ref
        /\ t.key = task[w].key /\ t.seen = task[w].seen
    BY WindowNow DEF Tasks, Places, ShapeInv
  <2> HIDE DEF t
  <2>3. Fits(win[w], t, status[w])
    BY <1>1, <1>3, <2>2, SettledFits DEF AboutRun, Syncing
  <2>4. task'[w] = t /\ win'[w] = win[w] /\ status'[w] = status[w] /\ Acts(w) /\ Asks(w)
    BY <1>1, <2>1 DEF ShapeInv, Acts, Asks
  <2> QED BY <1>1, <2>2, <2>3, <2>4, WindowNow DEF Step, Fine
<1> QED BY <1>2, <1>3

\* The package that is given a run back.
Restored(e) == [e EXCEPT !.left = IF e.left < RunsOf(e.plan) THEN e.left + 1 ELSE e.left]

LEMMA RestoredFits ==
  ASSUME NEW e, PackageFits(e)
  PROVE  /\ Restored(e) \in Packages /\ PackageFits(Restored(e))
         /\ Restored(e).owner = e.owner /\ Restored(e).left <= e.left + 1
         /\ e # NoEnt => Restored(e) # NoEnt
<1>1. e \in Packages /\ RunsOf(e.plan) \in Nat /\ RunsOf(e.plan) >= 1
      /\ e.left \in Nat /\ e.left <= RunsOf(e.plan)
  BY BrowserAssumption DEF PackageFits, Packages, RunsOf
<1> DEFINE n == IF e.left < RunsOf(e.plan) THEN e.left + 1 ELSE e.left
<1>2. n \in Nat /\ n <= e.left + 1 /\ n <= RunsOf(e.plan) /\ n # 0
  BY <1>1
<1>3. Restored(e) = [e EXCEPT !.left = n]
  BY DEF Restored
<1> HIDE DEF n
<1>4. Restored(e) \in Packages /\ Restored(e).owner = e.owner /\ Restored(e).left = n
      /\ Restored(e).plan = e.plan
  BY <1>1, <1>2, <1>3 DEF Packages
<1> QED BY <1>2, <1>4, NoEntFits DEF PackageFits

LEMMA GiveWritesActs ==
  ASSUME ShapeInv, NEW w \in Windows, GiveWrites(w)
  PROVE  /\ Step(w) /\ task'[w].at \in Plain /\ task'[w].ref = NoJob
         /\ task[w].ref \in JobIds /\ PackageFits(task[w].seen)
         /\ win'[w].open = win[w].open /\ win'[w].account = win[w].account
         /\ win'[w].gate = win[w].gate /\ win'[w].run = win[w].run
         /\ ent' = Restored(task[w].seen) /\ win'[w].ent = ent' /\ PackageFits(ent')
<1>1. /\ task[w].ref \in JobIds /\ status' = status /\ Settled(win[w])
      /\ PackageFits(task[w].seen)
  BY WindowNow, SettledNow DEF GiveWrites, Fits, AboutRun, Syncing
<1>2. ent' = Restored(task[w].seen)
  BY DEF GiveWrites, Restored
<1>3. ent' \in Packages /\ PackageFits(ent')
  BY <1>1, <1>2, RestoredFits
<1> DEFINE v == [win[w] EXCEPT !.ent = ent']
<1>4. win' = [win EXCEPT ![w] = v] /\ GoOn(w, task[w].then)
  BY DEF GiveWrites, SetWin
<1>5. /\ v \in Views /\ v.open = win[w].open /\ v.account = win[w].account
      /\ v.ent = ent' /\ v.gate = win[w].gate /\ v.run = win[w].run
  BY <1>1, <1>3 DEF Settled, Views
<1> HIDE DEF v
<1>6. Settled(v) /\ win'[w] = v /\ win' = [win EXCEPT ![w] = win'[w]]
  BY <1>1, <1>3, <1>4, <1>5 DEF Settled, ShapeInv
<1>7. PICK p \in {"idle", "refreshed"} : task' = [task EXCEPT ![w] = At(p)]
  BY <1>4, GoOnFits
<1>8. Acts(w) /\ Fine(w) /\ task'[w] = At(p)
  BY <1>1, <1>6, <1>7, PlainFine DEF Plain
<1>9. At(p).at = p /\ At(p).ref = NoJob
  BY AtFits DEF Places
<1> QED BY <1>1, <1>2, <1>3, <1>4, <1>5, <1>6, <1>8, <1>9, GoOnFits DEF Step, Plain

-----------------------------------------------------------------------------
(* The state keeps its shape. *)

LightStep(w) ==
  \/ Unheard(w) \/ OutDraft(w) \/ Discard(w) \/ StartOver(w) \/ Cleared(w) \/ SaveDraft(w)
  \/ TellTrial(w) \/ MirrorTrial(w) \/ SaveCredential(w) \/ DropCredential(w)
  \/ Refreshed(w) \/ Tick(w) \/ (\E st \in Ends : EndRun(w, st)) \/ Persist(w)

LEMMA LightSteps ==
  ASSUME StoreInv, ShapeInv, NEW w \in Windows, LightStep(w)
  PROVE  Step(w) /\ Light(w)
<1>1. CASE Unheard(w) \/ OutDraft(w) \/ Discard(w) \/ StartOver(w) \/ Cleared(w) \/ SaveDraft(w)
  BY <1>1, UnheardActs, OutDraftActs, DiscardActs, StartOverActs, ClearedActs, SaveDraftActs
<1>2. CASE TellTrial(w) \/ MirrorTrial(w) \/ SaveCredential(w) \/ DropCredential(w)
  BY <1>2, TellTrialActs, MirrorTrialActs, CredentialActs
<1>3. CASE Refreshed(w) \/ Tick(w) \/ (\E st \in Ends : EndRun(w, st)) \/ Persist(w)
  BY <1>3, RefreshedActs, TickActs, EndRunActs, PersistActs
<1> QED BY <1>1, <1>2, <1>3 DEF LightStep

LEMMA WindowSteps ==
  ASSUME StoreInv, ShapeInv, NEW w \in Windows, Window(w)
  PROVE  /\ Acts(w) /\ Fine(w)
         /\ \/ Asks(w)
            \/ /\ task[w].ref \in JobIds /\ AskFits("bind-job", task[w].ref, "ready")
               /\ Send(w, "bind-job", task[w].ref, "ready")
<1>1. CASE LightStep(w)
  BY <1>1, LightSteps DEF Step
<1>2. CASE Open(w) \/ Close(w) \/ Strip(w) \/ \E u \in Users : SignIn(w, u)
  BY <1>2, OpenActs, CloseActs, StripActs, SignInActs DEF Step
<1>3. CASE Sync(w) \/ DropEnt(w) \/ DropCred(w) \/ SignOut(w) \/ OutKeys(w)
  BY <1>3, SyncActs, DropEntActs, DropCredActs, SignOutActs, OutKeysActs DEF Step
<1>4. CASE Purchase(w) \/ AskTrial(w) \/ ReadMirror(w) \/ WriteTrial(w)
  BY <1>4, PurchaseActs, AskTrialActs, ReadMirrorActs, WriteTrialActs DEF Step
<1>5. CASE (\E j \in JobIds : Take(w, j)) \/ Uncreated(w) \/ Bound(w) \/ Persisted(w)
  BY <1>5, TakeActs, UncreatedActs, BoundActs, PersistedActs DEF Step
<1>6. CASE GiveReads(w) \/ GiveWrites(w)
  BY <1>6, GiveReadsActs, GiveWritesActs DEF Step
<1>7. CASE TakeWrite(w)
  BY <1>7, TakeWriteActs DEF Asks
<1> QED BY <1>1, <1>2, <1>3, <1>4, <1>5, <1>6, <1>7 DEF Window, LightStep

LEMMA RememberedFits ==
  ASSUME NEW list \in Seq(Refs), NEW key \in Refs
  PROVE  /\ Remembered(list, key) \in Seq(Refs)
         /\ Len(Remembered(list, key)) <= ReleasedMax
<1> DEFINE all == Append(list, key)
           k == Len(all) - ReleasedMax
           m == IF k > 0 THEN k + 1 ELSE 1
<1>1. all \in Seq(Refs) /\ Len(all) \in Nat /\ ReleasedMax \in Nat
  BY AppendProperties, LenProperties, BrowserAssumption
<1> HIDE DEF all
<1>2. m \in 1..(Len(all) + 1) /\ (m <= Len(all) => Len(all) - m + 1 <= ReleasedMax)
  BY <1>1
<1> HIDE DEF m, k
<1>3. /\ SubSeq(all, m, Len(all)) \in Seq(Refs)
      /\ Len(SubSeq(all, m, Len(all))) = IF m <= Len(all) THEN Len(all) - m + 1 ELSE 0
  BY <1>1, <1>2, SubSeqProperties
<1> QED BY <1>1, <1>2, <1>3 DEF Remembered, all, m, k

LEMMA ElementsFinite ==
  ASSUME NEW list \in Seq(Refs)
  PROVE  Elements(list) \subseteq Refs /\ IsFiniteSet(Elements(list))
<1>1. Elements(list) \subseteq Refs
  BY LenProperties, ElementOfSeq DEF Elements
<1>2. IsFiniteSet(Refs)
  BY BrowserAssumption, FS_AddElement DEF Refs
<1> QED BY <1>1, <1>2, FS_Subset

LEMMA LostFits ==
  ASSUME NEW list \in Seq(Refs), NEW kept
  PROVE  /\ Lost(list, kept) = Cardinality(Elements(list) \ (Elements(kept) \cup {NoJob}))
         /\ IsFiniteSet(Elements(list) \ (Elements(kept) \cup {NoJob}))
         /\ Lost(list, kept) \in Nat
<1>1. Lost(list, kept) = Cardinality(Elements(list) \ (Elements(kept) \cup {NoJob}))
  BY DEF Lost, Elements
<1>2. IsFiniteSet(Elements(list) \ (Elements(kept) \cup {NoJob}))
  BY ElementsFinite, FS_Difference
<1> QED BY <1>1, <1>2, FS_CardinalityType

LEMMA ForgetFits ==
  ASSUME ShapeInv, ForgetPackage
  PROVE  /\ PackageFits(ent') /\ released' \in Seq(Refs) /\ Len(released') <= ReleasedMax
         /\ forgotten' \in Nat
<1>1. Lost(released, <<>>) \in Nat
  BY LostFits DEF ShapeInv
<1>2. released' = <<>> /\ Len(<<>>) = 0 /\ <<>> \in Seq(Refs)
  BY DEF ForgetPackage
<1> QED BY <1>1, <1>2, NoEntFits, BrowserAssumption DEF ForgetPackage, ShapeInv

\* What the windows share keeps its types.
SharedFits ==
  /\ session \in Names /\ cred \in Names /\ claim \in Names /\ mirror \in BOOLEAN
  /\ PackageFits(ent)
  /\ released \in Seq(Refs) /\ Len(released) <= ReleasedMax
  /\ granted \in Nat /\ forgotten \in Nat /\ trials \in Nat
  /\ runs \in [JobIds -> {"new", "standing", "given"}]

LEMMA SharedSteps ==
  ASSUME StoreInv, ShapeInv, NEW w \in Windows, Window(w)
  PROVE  SharedFits' /\ clobbered' \in BOOLEAN /\ saved' = saved
<1> USE DEF SharedFits, entVars, keyVars, stVars
<1>0. SharedFits /\ clobbered \in BOOLEAN /\ win[w].account \in Names
      /\ task[w].list \in Seq(Refs) /\ task[w].key \in Refs
  BY WindowNow DEF ShapeInv, StoreInv, Views, Tasks
<1>1. CASE Unheard(w) \/ OutDraft(w) \/ Discard(w) \/ StartOver(w) \/ Cleared(w) \/ SaveDraft(w)
           \/ TellTrial(w) \/ Refreshed(w) \/ Tick(w) \/ (\E st \in Ends : EndRun(w, st)) \/ Persist(w)
  BY <1>0, <1>1 DEF Unheard, OutDraft, Discard, StartOver, Cleared, SaveDraft, TellTrial,
       Refreshed, Tick, EndRun, Persist
<1>2. CASE MirrorTrial(w) \/ SaveCredential(w) \/ DropCredential(w)
  BY <1>0, <1>2 DEF MirrorTrial, SaveCredential, DropCredential, Names
<1>3. CASE Open(w) \/ Close(w) \/ (\E u \in Users : SignIn(w, u)) \/ Sync(w) \/ DropCred(w) \/ SignOut(w)
  BY <1>0, <1>3 DEF Open, Close, SignIn, Sync, DropCred, SignOut, Names
<1>4. CASE Strip(w)
  BY <1>0, <1>4, ForgetFits DEF Strip, ForgetPackage, Names
<1>5. CASE DropEnt(w) \/ OutKeys(w)
  BY <1>0, <1>5, ForgetFits DEF DropEnt, OutKeys, ForgetPackage, Names
<1>6. CASE Purchase(w)
  <2>1. PackageFits(ent')
    BY <1>6, PurchaseActs
  <2>2. granted' = granted + PaidRuns /\ PaidRuns \in Nat
        /\ UNCHANGED <<stVars, released, runs, forgotten, trials, keyVars>>
    BY <1>6, BrowserAssumption DEF Purchase
  <2> QED BY <1>0, <2>1, <2>2
<1>7. CASE WriteTrial(w)
  <2>1. PackageFits(ent')
    BY <1>7, WriteTrialActs
  <2>2. granted' = granted + 1 /\ trials' = trials + 1 /\ mirror' = TRUE
        /\ UNCHANGED <<stVars, released, runs, forgotten, session, cred, claim>>
    BY <1>7 DEF WriteTrial
  <2> QED BY <1>0, <2>1, <2>2
<1>8. CASE AskTrial(w) \/ ReadMirror(w)
  BY <1>0, <1>8 DEF AskTrial, ReadMirror, Claimant
<1>9. CASE (\E j \in JobIds : Take(w, j)) \/ Uncreated(w) \/ Bound(w) \/ Persisted(w) \/ GiveReads(w)
  BY <1>0, <1>9 DEF Take, Uncreated, Bound, Persisted, GiveReads
<1>10. CASE TakeWrite(w)
  BY <1>0, <1>10, TakeWriteActs DEF TakeWrite
<1>11. CASE GiveWrites(w)
  <2>1. PackageFits(ent') /\ task[w].ref \in JobIds
    BY <1>11, GiveWritesActs
  <2>2. /\ released' = Remembered(task[w].list, task[w].key)
        /\ forgotten' = forgotten + Lost(Append(task[w].list, task[w].key), released')
        /\ runs' = [runs EXCEPT ![task[w].ref] = "given"]
    BY <1>11 DEF GiveWrites
  <2>3. released' \in Seq(Refs) /\ Len(released') <= ReleasedMax
    BY <1>0, <2>2, RememberedFits
  <2>4. Append(task[w].list, task[w].key) \in Seq(Refs)
    BY <1>0, AppendProperties
  <2>5. Lost(Append(task[w].list, task[w].key), released') \in Nat
    BY <2>4, LostFits
  <2> QED BY <1>0, <1>11, <2>1, <2>2, <2>3, <2>5 DEF GiveWrites
<1> QED BY <1>1, <1>2, <1>3, <1>4, <1>5, <1>6, <1>7, <1>8, <1>9, <1>10, <1>11 DEF Window

LEMMA WindowStore ==
  ASSUME StoreInv, ShapeInv, NEW w \in Windows, Window(w)
  PROVE  StoreInv'
<1>1. saved' = saved /\ clobbered' \in BOOLEAN
  BY SharedSteps
<1>2. CASE work' = work
  BY <1>1, <1>2 DEF StoreInv
<1>3. ASSUME NEW c, MessageFits(c), work' = [work EXCEPT ![w] = c]
      PROVE  StoreInv'
  BY <1>1, <1>3 DEF StoreInv, MessageFits
<1>4. CASE Receive(w)
  BY <1>3, <1>4, QuietFits DEF Receive
<1>5. ASSUME NEW op, NEW id, NEW st, AskFits(op, id, st), Send(w, op, id, st)
      PROVE  StoreInv'
  BY <1>3, <1>5, SentFits DEF Send, StoreInv
<1> QED BY <1>2, <1>4, <1>5, WindowSteps DEF Asks

LEMMA WindowShape ==
  ASSUME StoreInv, ShapeInv, NEW w \in Windows, Window(w), mixed' \in BOOLEAN
  PROVE  ShapeInv'
<1>1. Acts(w) /\ Fine(w) /\ SharedFits'
  BY WindowSteps, SharedSteps
<1>2. /\ win' \in [Windows -> Views] /\ task' \in [Windows -> Tasks]
      /\ status' \in [Windows -> Told]
  BY <1>1 DEF ShapeInv, Acts, Fine
<1>3. ASSUME NEW v \in Windows PROVE Fits(win[v], task[v], status[v])'
  <2>1. CASE v = w
    BY <1>1, <2>1 DEF Fine
  <2>2. CASE v # w
    BY <1>1, <2>2 DEF Acts, ShapeInv
  <2> QED BY <2>1, <2>2
<1> QED BY <1>1, <1>2, <1>3 DEF ShapeInv, SharedFits

\* The steps of the worker, of the alarm and of time.
Behind == StoreSteps \/ PurgeAlarm

LEMMA CallStep ==
  ASSUME StoreInv, NEW s \in Windows \cup {Alarm}, NEW c, MessageFits(c),
         work' = [work EXCEPT ![s] = c], saved' \in States \cup {Blank}, clobbered' \in BOOLEAN
  PROVE  StoreInv'
BY DEF StoreInv, MessageFits

LEMMA TidyStore ==
  ASSUME StoreInv, NEW s \in Windows \cup {Alarm}, Tidy(s)
  PROVE  /\ StoreInv'
         /\ saved'.job.id \in {work[s].got.job.id, NoJob}
         /\ work' = [work EXCEPT ![s] = work'[s]] /\ work'[s].id = work[s].id
         /\ work'[s].got.job.id \in {work[s].got.job.id, NoJob}
<1> DEFINE c == work[s]
           d == Loaded(c, Tidied(c.got))
<1>1. MessageFits(c) /\ c.got \in States \cup {Blank} /\ c \in Messages
  BY DEF StoreInv, MessageFits, Messages
<1>2. Tidied(c.got) \in States /\ Tidied(c.got).job.id \in {c.got.job.id, NoJob}
  BY <1>1, TidiedFits
<1>3. saved' = Tidied(c.got) /\ clobbered' \in BOOLEAN /\ work' = [work EXCEPT ![s] = d]
  BY DEF Tidy, StoreInv
<1>4. MessageFits(d) /\ d.id = c.id /\ d.got = Tidied(c.got)
  BY <1>1, <1>2, LoadedFits
<1> HIDE DEF d
<1>5. StoreInv' /\ work'[s] = d
  BY <1>2, <1>3, <1>4, CallStep DEF StoreInv
<1> QED BY <1>2, <1>3, <1>4, <1>5

LEMMA WriteStore ==
  ASSUME StoreInv, NEW s \in Windows \cup {Alarm}, Write(s)
  PROVE  /\ StoreInv'
         /\ saved'.job.id \in {work[s].got.job.id, work[s].id}
         /\ work' = [work EXCEPT ![s] = work'[s]] /\ work'[s].id = work[s].id
         /\ work'[s].got.job.id \in {work[s].got.job.id, work[s].id}
<1> DEFINE c == work[s]
           a == After(c, c.got)
           d == [c EXCEPT !.at = "answered", !.got = a]
<1>1. MessageFits(c) /\ c.got \in States /\ c \in Messages
  BY DEF StoreInv, MessageFits, Write
<1>2. a \in States /\ a.job.id \in {c.got.job.id, c.id}
  BY <1>1, AfterFits
<1>3. saved' = a /\ clobbered' \in BOOLEAN /\ work' = [work EXCEPT ![s] = d]
  BY DEF Write, StoreInv
<1> HIDE DEF a
<1>4. d \in Messages /\ d.at = "answered" /\ d.got = a /\ d.id = c.id /\ d.op = c.op
      /\ d.status = c.status
  BY <1>1, <1>2 DEF Messages
<1> HIDE DEF d
<1>5. MessageFits(d)
  BY <1>1, <1>2, <1>4 DEF MessageFits
<1>6. StoreInv' /\ work'[s] = d
  BY <1>2, <1>3, <1>5, CallStep DEF StoreInv
<1> QED BY <1>2, <1>3, <1>4, <1>6

LEMMA StopStore ==
  ASSUME StoreInv, StopWorker
  PROVE  /\ StoreInv' /\ saved' = saved
         /\ \A s \in Windows \cup {Alarm} :
              work'[s].id = work[s].id /\ work'[s].got.job.id \in {work[s].got.job.id, NoJob}
<1> DEFINE stopped(c) ==
             [c EXCEPT !.at = "answered", !.got = Empty, !.ok = FALSE, !.tidied = FALSE]
<1>1. ASSUME NEW c, MessageFits(c)
      PROVE  /\ MessageFits(stopped(c)) /\ stopped(c).id = c.id /\ stopped(c).got = Empty
  <2>1. c \in Messages
    BY <1>1 DEF MessageFits
  <2>2. stopped(c) \in Messages /\ stopped(c).id = c.id /\ stopped(c).got = Empty
        /\ stopped(c).op = c.op /\ stopped(c).status = c.status
    BY <2>1, EmptyIsState DEF Messages
  <2> QED BY <1>1, <2>2, EmptyIsState DEF MessageFits
<1>2. /\ work' = [s \in Windows \cup {Alarm} |->
                    IF UnderWay(work[s]) THEN stopped(work[s]) ELSE work[s]]
      /\ saved' = saved /\ clobbered' = clobbered
  BY DEF StopWorker
<1> HIDE DEF stopped
<1>3. ASSUME NEW s \in Windows \cup {Alarm}
      PROVE  /\ MessageFits(work'[s]) /\ work'[s].id = work[s].id
             /\ work'[s].got.job.id \in {work[s].got.job.id, NoJob}
  BY <1>1, <1>2, EmptyIsState DEF StoreInv
<1>4. work' \in [Windows \cup {Alarm} -> Messages]
  <2>1. \A s \in Windows \cup {Alarm} : work'[s] \in Messages
    BY <1>3 DEF MessageFits
  <2> QED BY <1>2, <2>1
<1> QED BY <1>2, <1>3, <1>4 DEF StoreInv, MessageFits

LEMMA DayStore ==
  ASSUME StoreInv, DayPasses
  PROVE  StoreInv' /\ work' = work /\ saved'.job.id = saved.job.id
<1> DEFINE d == IF saved.draft = "fresh" THEN "old" ELSE saved.draft
           e == IF saved.job.ended = "fresh" THEN "old" ELSE saved.job.ended
<1>1. saved \in States /\ work' = work /\ clobbered' = clobbered
  BY DEF DayPasses, StoreInv
<1>2. saved' = [draft |-> d, job |-> [saved.job EXCEPT !.ended = e]]
  BY DEF DayPasses
<1>3. /\ saved.job = [id |-> saved.job.id, status |-> saved.job.status, ended |-> saved.job.ended]
      /\ ValidJob(saved.job) /\ saved.job.ended \in Ages /\ saved.draft \in Ages
  BY <1>1, StateShape
<1>4. d \in Ages /\ e \in Ages /\ (e # "none" <=> saved.job.ended # "none")
      /\ (saved.job.ended = "none" => e = "none")
  BY <1>3 DEF Ages
<1> HIDE DEF d, e
<1>5. [saved.job EXCEPT !.ended = e] = Job(saved.job.id, saved.job.status, e)
  BY <1>3 DEF Job
<1>6. ValidJob(Job(saved.job.id, saved.job.status, e))
  BY <1>3, <1>4 DEF ValidJob, NoBinding, Job
<1>7. saved' \in States /\ saved'.job.id = saved.job.id
  BY <1>2, <1>4, <1>5, <1>6, StateMade DEF Job
<1> QED BY <1>1, <1>7 DEF StoreInv, MessageFits

LEMMA BehindStore ==
  ASSUME StoreInv, Behind
  PROVE  StoreInv'
<1>1. CASE Store
  BY <1>1, TidyStore, WriteStore DEF Store
<1>2. CASE StopWorker \/ DayPasses
  BY <1>2, StopStore, DayStore
<1>3. CASE PurgeAlarm
  <2>1. saved' = saved /\ clobbered' = clobbered
    BY <1>3 DEF PurgeAlarm
  <2>2. CASE Send(Alarm, "purge", NoJob, "none")
    <3>1. AskFits("purge", NoJob, "none")
      BY DEF AskFits, Ops, Refs
    <3> QED BY <2>1, <2>2, <3>1, SentFits, CallStep DEF Send, StoreInv
  <2>3. CASE Receive(Alarm)
    BY <2>1, <2>3, QuietFits, CallStep DEF Receive, StoreInv
  <2> QED BY <1>3, <2>2, <2>3 DEF PurgeAlarm
<1> QED BY <1>1, <1>2, <1>3 DEF Behind, StoreSteps

LEMMA BehindKeeps ==
  ASSUME Behind
  PROVE  UNCHANGED <<ent, released, granted, runs, forgotten, trials, session, mirror, cred,
                     claim, win, task, status>>
BY DEF Behind, StoreSteps, PurgeAlarm, entVars, keyVars

LEMMA ShapeStep ==
  ASSUME StoreInv, ShapeInv, Next
  PROVE  StoreInv' /\ ShapeInv'
<1>1. mixed' \in BOOLEAN
  BY DEF Next, Mixes, OneAccount, ShapeInv
<1>2. CASE Behind
  BY <1>1, <1>2, BehindStore, BehindKeeps DEF ShapeInv
<1>3. CASE \E w \in Windows : Window(w)
  BY <1>1, <1>3, WindowStore, WindowShape
<1> QED BY <1>2, <1>3 DEF Next, Behind

LEMMA ShapeInit == Init => StoreInv /\ ShapeInv
<1> SUFFICES ASSUME Init PROVE StoreInv /\ ShapeInv
  OBVIOUS
<1>1. StoreInv
  BY QuietFits DEF Init, StoreInit, StoreInv, MessageFits
<1>2. session \in Names /\ claim \in Names /\ mirror \in BOOLEAN
  BY DEF Init, Names
<1>3. PackageFits(ent) /\ ent.owner \in Names /\ ent.left \in Nat
  <2>1. CASE ent = NoEnt
    BY <2>1, NoEntFits DEF Names
  <2>2. CASE ent \in {Normalized("none", NoUser, 1), Normalized("pair", session, 1)}
    <3>1. PICK o \in Names : ent = [plan |-> "pair", owner |-> o, left |-> 1]
      BY <1>2, <2>2 DEF Normalized, Package, Names
    <3> QED BY <3>1, BrowserAssumption DEF PackageFits, Packages, Plans, RunsOf
  <2> QED BY <2>1, <2>2 DEF Init
<1>4. /\ released \in Seq(Refs) /\ Len(released) <= ReleasedMax
      /\ granted \in Nat /\ forgotten \in Nat /\ trials \in Nat
      /\ runs \in [JobIds -> {"new", "standing", "given"}] /\ mixed \in BOOLEAN
      /\ cred \in Names
  <2>1. released \in Seq(Refs) /\ Len(released) = 0 /\ ReleasedMax \in Nat
    <3>1. released = <<>>
      BY DEF Init
    <3> QED BY <3>1, BrowserAssumption
  <2>2. granted = ent.left /\ forgotten = 0 /\ trials = 0 /\ mixed = FALSE
        /\ cred = ent.owner /\ runs = [j \in JobIds |-> "new"]
    BY DEF Init
  <2>3. granted \in Nat /\ forgotten \in Nat /\ trials \in Nat /\ cred \in Names /\ mixed \in BOOLEAN
    BY <1>3, <2>2
  <2>4. runs \in [JobIds -> {"new", "standing", "given"}]
    BY <2>2
  <2>5. Len(released) <= ReleasedMax
    BY <2>1
  <2> QED BY <2>1, <2>3, <2>4, <2>5
<1>5. /\ win \in [Windows -> Views] /\ task \in [Windows -> Tasks]
      /\ status \in [Windows -> Told]
  BY ShutFits, IdleFits DEF Init, Told
<1>6. Fits(Shut, Idle, "none")
  BY ShutFits, IdleFits, NoEntFits DEF Fits, AboutRun, Inside, Syncing
<1>7. \A w \in Windows : Fits(win[w], task[w], status[w])
  BY <1>6 DEF Init
<1> QED BY <1>1, <1>2, <1>3, <1>4, <1>5, <1>7 DEF ShapeInv

-----------------------------------------------------------------------------
(* One trial for one claim. *)

\* The steps that the claim and the granting are not in.
TrialStep(w) == AskTrial(w) \/ ReadMirror(w) \/ WriteTrial(w)

LEMMA OtherTrial ==
  ASSUME StoreInv, ShapeInv, NEW w \in Windows, Window(w), ~TrialStep(w)
  PROVE  /\ trials' = trials /\ claim' = claim
         /\ task'[w] = task[w] \/ task'[w].at \notin {"trialGranted", "trialWrite"}
<1> USE DEF entVars, keyVars, stVars
<1>1. CASE LightStep(w)
  BY <1>1, LightSteps DEF Light, Plain
<1>2. CASE Open(w)
  <2>1. task'[w].at \in {"strip", "sync"}
    BY <1>2, OpenActs
  <2> QED BY <1>2, <2>1 DEF Open
<1>3. CASE Close(w)
  BY <1>3, CloseActs, IdleFits DEF Close
<1>4. CASE Strip(w)
  <2>1. task'[w].at = "refreshed"
    BY <1>4, StripActs
  <2> QED BY <1>4, <2>1 DEF Strip
<1>5. CASE \E u \in Users : SignIn(w, u)
  BY <1>5, SignInActs DEF SignIn
<1>6. CASE Sync(w)
  <2>1. task'[w].at \in {"dropEnt", "dropCred"}
    BY <1>6, SyncActs
  <2> QED BY <1>6, <2>1 DEF Sync
<1>7. CASE DropEnt(w) \/ DropCred(w)
  <2>1. task'[w].at \in Plain \cup {"dropCred"}
    BY <1>7, DropEntActs, DropCredActs
  <2> QED BY <1>7, <2>1 DEF DropEnt, DropCred, Plain
<1>8. CASE SignOut(w) \/ OutKeys(w)
  BY <1>8, SignOutActs, OutKeysActs DEF SignOut, OutKeys, Plain
<1>9. CASE Purchase(w)
  BY <1>9, PurchaseActs DEF Purchase
<1>10. CASE \E j \in JobIds : Take(w, j)
  BY <1>10, TakeActs, IdleFits DEF Take
<1>11. CASE TakeWrite(w)
  BY <1>11, TakeWriteActs DEF TakeWrite
<1>12. CASE Uncreated(w) \/ Bound(w) \/ Persisted(w)
  BY <1>12, UncreatedActs, BoundActs, PersistedActs
     DEF Uncreated, Bound, Persisted, Giving, Plain
<1>13. CASE GiveReads(w) \/ GiveWrites(w)
  BY <1>13, GiveReadsActs, GiveWritesActs DEF GiveReads, GiveWrites, Plain
<1> QED BY <1>1, <1>2, <1>3, <1>4, <1>5, <1>6, <1>7, <1>8, <1>9, <1>10, <1>11, <1>12, <1>13
        DEF Window, LightStep, TrialStep

LEMMA TrialWindow ==
  ASSUME StoreInv, ShapeInv, TrialInv, NEW w \in Windows, Window(w)
  PROVE  TrialInv'
<1>0. \A v \in Windows : v # w => task'[v] = task[v]
  BY WindowSteps DEF Acts, ShapeInv
<1>00. trials \in Nat /\ claim \in Names
  BY DEF ShapeInv
<1>1. CASE ~TrialStep(w)
  BY <1>0, <1>1, OtherTrial DEF TrialInv, Granting
<1>2. CASE AskTrial(w)
  <2>1. task'[w] = task[w] \/ task'[w] = At("trialGranted")
    BY <1>2, AskTrialActs
  <2>2. At("trialGranted").at = "trialGranted"
    BY AtFits DEF Places
  <2>3. trials' = trials
    BY <1>2 DEF AskTrial, entVars
  <2>4. task[w].at = "idle" /\ win[w].account # NoUser
    BY <1>2, GateOffers DEF AskTrial
  <2>5. CASE claim = NoUser
    <3>1. \A v \in Windows : ~Granting(v) /\ trials = 0
      BY <2>5 DEF TrialInv
    <3>2. claim' = NoUser => task' = task
      BY <1>2, <2>4, BrowserAssumption DEF AskTrial, Claimant
    <3> QED BY <1>0, <2>1, <2>2, <2>3, <3>1, <3>2 DEF TrialInv, Granting
  <2>6. CASE claim # NoUser
    <3>1. task' = task /\ claim' = claim
      BY <1>2, <2>6 DEF AskTrial, DeviceUsed
    <3> QED BY <2>3, <3>1 DEF TrialInv, Granting
  <2> QED BY <2>5, <2>6
<1>3. CASE ReadMirror(w)
  <2>1. task'[w].at \in {"idle", "trialWrite"} /\ Granting(w)
    BY <1>3, ReadMirrorActs, AtFits DEF Places, ReadMirror, Granting
  <2>2. trials' = trials /\ claim' = claim
    BY <1>3 DEF ReadMirror, entVars, keyVars
  <2> QED BY <1>0, <2>1, <2>2 DEF TrialInv, Granting
<1>4. CASE WriteTrial(w)
  <2>1. task'[w].at = "idle" /\ Granting(w)
    BY <1>4, WriteTrialActs DEF WriteTrial, Granting
  <2>2. trials' = trials + 1 /\ claim' = claim
    BY <1>4 DEF WriteTrial
  <2>3. trials = 0 /\ claim # NoUser
    BY <1>00, <2>1 DEF TrialInv
  <2> QED BY <1>0, <2>1, <2>2, <2>3 DEF TrialInv, Granting
<1> QED BY <1>1, <1>2, <1>3, <1>4 DEF TrialStep

LEMMA TrialStepKeeps ==
  ASSUME StoreInv, ShapeInv, TrialInv, Next
  PROVE  TrialInv'
<1>1. CASE Behind
  BY <1>1, BehindKeeps DEF TrialInv, Granting
<1> QED BY <1>1, TrialWindow DEF Next, Behind

LEMMA TrialInit == Init => TrialInv
BY IdleFits DEF Init, TrialInv, Granting

-----------------------------------------------------------------------------
(* What a window has is of its own account. *)

\* A step of w leaves what the others need: the package stays, goes, is the one of the
\* account of w, or belongs to whom it belonged.
LEMMA OthersOwn ==
  ASSUME ShapeInv, NEW w \in Windows, Acts(w), OneAccount',
         \A v \in Windows : OwnedBy(v),
         OwnedBy(w)',
         \/ ent' = ent
         \/ ent' = NoEnt
         \/ ent'.owner = win'[w].account /\ win'[w].account # NoUser
         \/ ent # NoEnt /\ ent'.owner = ent.owner
  PROVE  \A v \in Windows : OwnedBy(v)'
<1>1. ASSUME NEW v \in Windows, v # w PROVE OwnedBy(v)'
  <2>1. win'[v] = win[v] /\ task'[v] = task[v]
    BY <1>1 DEF Acts, ShapeInv
  <2>2. OwnedBy(v) /\ Fits(win[v], task[v], status[v])
    BY WindowNow
  <2>3. Looked(v) => win[v].account # NoUser
    BY <2>2 DEF Looked, Fits, Syncing
  <2>4. \/ win'[w].account \in {win[v].account, NoUser}
        \/ win[v].account = NoUser
    BY <2>1 DEF OneAccount
  <2> QED BY <2>1, <2>2, <2>3, <2>4 DEF OwnedBy, Looked, Own
<1> QED BY <1>1

\* Places where nothing of a package is read.
LEMMA QuietOwn ==
  ASSUME NEW w \in Windows, OwnedBy(w), ent' = ent,
         win'[w].account = win[w].account, win'[w].ent = win[w].ent,
         \/ win'[w].gate = win[w].gate
         \/ win[w].gate \in Inside /\ win'[w].gate \in Inside,
         \/ task'[w] = task[w]
         \/ task'[w].at \notin {"take", "give", "giveWrite", "dropCred"}
  PROVE  OwnedBy(w)'
BY DEF OwnedBy, Looked, Own, Inside

LEMMA OwnWindow ==
  ASSUME StoreInv, ShapeInv, NEW w \in Windows, Window(w), OneAccount', ~clobbered',
         \A v \in Windows : OwnedBy(v)
  PROVE  \A v \in Windows : OwnedBy(v)'
<1> USE DEF entVars, keyVars, stVars
<1>0. Acts(w) /\ OwnedBy(w)
  BY WindowSteps
<1>1. CASE LightStep(w)
  <2>1. Light(w)
    BY <1>1, LightSteps
  <2> QED BY <1>0, <2>1, QuietOwn, OthersOwn DEF Light, Plain
<1>2. CASE Open(w)
  <2>1. task'[w].at \in {"strip", "sync"} /\ win'[w] = Fresh(session) /\ session \in Names
    BY <1>2, OpenActs DEF ShapeInv
  <2>2. win'[w].gate = "loading" /\ ent' = ent
    BY <1>2, <2>1, FreshFits DEF Open
  <2>3. OwnedBy(w)'
    BY <2>1, <2>2 DEF OwnedBy, Looked, Inside
  <2> QED BY <1>0, <2>2, <2>3, OthersOwn
<1>3. CASE Close(w)
  <2>1. win'[w] = Shut /\ task'[w] = Idle /\ ent' = ent
    BY <1>3, CloseActs DEF Close
  <2>2. OwnedBy(w)'
    BY <2>1, ShutFits, IdleFits DEF OwnedBy, Looked, Inside
  <2> QED BY <1>0, <2>1, <2>2, OthersOwn
<1>4. CASE Strip(w)
  <2>1. ent' \in {ent, NoEnt}
    BY <1>4 DEF Strip, ForgetPackage
  <2>2. task'[w].at = "refreshed" /\ win'[w].gate = "auth"
    BY <1>4, StripActs
  <2>3. OwnedBy(w)'
    BY <2>2 DEF OwnedBy, Looked, Inside
  <2> QED BY <1>0, <2>1, <2>3, OthersOwn
<1>5. CASE \E u \in Users : SignIn(w, u)
  <2>1. PICK u \in Users : SignIn(w, u)
    BY <1>5
  <2>2. task'[w].at = "sync" /\ win'[w].gate = "auth"
    BY <2>1, SignInActs
  <2>3. OwnedBy(w)' /\ ent' = ent
    BY <2>1, <2>2 DEF OwnedBy, Looked, Inside, SignIn
  <2> QED BY <1>0, <2>3, OthersOwn
<1>6. CASE Sync(w)
  <2>1. SameView(win'[w], win[w]) /\ ent' = ent
    BY <1>6, SyncActs DEF Sync
  <2>2. /\ task'[w].at \in {"dropEnt", "dropCred"}
        /\ task'[w].at = "dropCred" => ~Foreign(ent, win[w].account)
    BY <1>6, SyncActs
  <2>3. OwnedBy(w)'
    BY <1>0, <2>1, <2>2 DEF OwnedBy, Looked, Own, SameView, Foreign
  <2> QED BY <1>0, <2>1, <2>3, OthersOwn
<1>7. CASE DropEnt(w)
  <2>1. ent' = NoEnt /\ win'[w] = win[w] /\ task'[w].at = "dropCred"
    BY <1>7, DropEntActs DEF DropEnt, ForgetPackage
  <2>2. OwnedBy(w)'
    BY <1>0, <2>1 DEF OwnedBy, Looked, Own
  <2> QED BY <1>0, <2>1, <2>2, OthersOwn
<1>8. CASE DropCred(w)
  <2>1. /\ task'[w].at \in Plain /\ win'[w].account = win[w].account
        /\ win'[w].ent = task[w].seen /\ win'[w].gate \in Inside
        /\ ~Foreign(task[w].seen, win[w].account)
    BY <1>8, DropCredActs
  <2>2. ent' = ent /\ Looked(w)
    BY <1>8 DEF DropCred, Looked
  <2>3. OwnedBy(w)'
    BY <1>0, <2>1, <2>2 DEF OwnedBy, Looked, Own, Foreign, Plain
  <2> QED BY <1>0, <2>2, <2>3, OthersOwn
<1>9. CASE SignOut(w)
  <2>1. win'[w] = win[w] /\ task'[w].at = "outKeys" /\ ent' = ent
    BY <1>9, SignOutActs DEF SignOut
  <2>2. OwnedBy(w)'
    BY <1>0, <2>1, QuietOwn
  <2> QED BY <1>0, <2>1, <2>2, OthersOwn
<1>10. CASE OutKeys(w)
  <2>1. ent' = NoEnt /\ task'[w].at \in Plain /\ win'[w].gate = "auth"
    BY <1>10, OutKeysActs DEF OutKeys, ForgetPackage
  <2>2. OwnedBy(w)'
    BY <2>1 DEF OwnedBy, Looked, Inside, Plain
  <2> QED BY <1>0, <2>1, <2>2, OthersOwn
<1>11. CASE Purchase(w) \/ WriteTrial(w)
  <2>1. /\ win'[w].account = win[w].account /\ win[w].account # NoUser
        /\ win[w].account \in Names /\ win'[w].ent = ent' /\ task'[w].at = "idle"
        /\ \E plan \in {"pair", "trial"} : ent' = Bought(plan, win[w].account)
    BY <1>11, PurchaseActs, WriteTrialActs, WindowNow DEF Views
  <2>2. ent'.owner = win[w].account
    BY <2>1, BoughtFits
  <2>3. OwnedBy(w)'
    BY <2>1, <2>2 DEF OwnedBy, Looked, Own
  <2> QED BY <1>0, <2>1, <2>2, <2>3, OthersOwn
<1>12. CASE AskTrial(w) \/ ReadMirror(w)
  <2>1. SameView(win'[w], win[w]) /\ ent' = ent
    BY <1>12, AskTrialActs, ReadMirrorActs DEF AskTrial, ReadMirror
  <2>2. \/ task'[w] = task[w]
        \/ task'[w].at \in {"idle", "trialGranted", "trialWrite"}
    BY <1>12, AskTrialActs, ReadMirrorActs, AtFits DEF Places
  <2>3. OwnedBy(w)'
    BY <1>0, <2>1, <2>2, QuietOwn DEF SameView
  <2> QED BY <1>0, <2>1, <2>3, OthersOwn
<1>13. CASE \E j \in JobIds : Take(w, j)
  <2>1. /\ win'[w] = win[w] /\ win[w].gate \in Inside
        /\ \/ task'[w].at = "idle"
           \/ task'[w].at = "take" /\ task'[w].seen = ent /\ Consumable(ent)
        /\ ent' = ent
    <3>1. PICK j \in JobIds : Take(w, j)
      BY <1>13
    <3>2. ent' = ent
      BY <3>1 DEF Take
    <3> QED BY <3>1, <3>2, TakeActs, IdleFits
  <2>2. OwnedBy(w)'
    BY <1>0, <2>1 DEF OwnedBy, Looked, Own, Consumable
  <2> QED BY <1>0, <2>1, <2>2, OthersOwn
<1>14. CASE TakeWrite(w)
  <2>1. /\ win'[w].ent = ent' /\ ent'.owner = task[w].seen.owner
        /\ win'[w].account = win[w].account /\ win'[w].gate = win[w].gate
        /\ task'[w].at \in {"bind", "uncreated"} /\ Consumable(task[w].seen)
    BY <1>14, TakeWriteActs
  <2>2. ent = task[w].seen /\ ent # NoEnt /\ ent'.owner = ent.owner
    BY <1>14, <2>1 DEF TakeWrite, Consumable
  <2>3. OwnedBy(w)'
    BY <1>0, <2>1, <2>2 DEF OwnedBy, Looked, Own
  <2> QED BY <1>0, <2>2, <2>3, OthersOwn
<1>15. CASE Uncreated(w) \/ Bound(w) \/ Persisted(w)
  <2>1. /\ win'[w].account = win[w].account /\ win'[w].ent = win[w].ent
        /\ win'[w].gate = win[w].gate
        /\ \/ task'[w].at \in Plain
           \/ task'[w].at = "give" /\ task'[w].seen = ent /\ ent # NoEnt
    BY <1>15, UncreatedActs, BoundActs, PersistedActs DEF Giving
  <2>2. ent' = ent
    BY <1>15 DEF Uncreated, Bound, Persisted
  <2>3. OwnedBy(w)'
    BY <1>0, <2>1, <2>2 DEF OwnedBy, Looked, Own, Plain
  <2> QED BY <1>0, <2>2, <2>3, OthersOwn
<1>16. CASE GiveReads(w)
  <2>1. /\ win'[w].account = win[w].account /\ win'[w].gate = win[w].gate
        /\ \/ task'[w].at \in Plain /\ win'[w].ent = task[w].seen
           \/ task'[w].at = "giveWrite" /\ task'[w].seen = task[w].seen /\ win'[w] = win[w]
    BY <1>16, GiveReadsActs
  <2>2. ent' = ent /\ task[w].at = "give"
    BY <1>16 DEF GiveReads
  <2>3. OwnedBy(w)'
    BY <1>0, <2>1, <2>2 DEF OwnedBy, Looked, Own, Plain
  <2> QED BY <1>0, <2>2, <2>3, OthersOwn
<1>17. CASE GiveWrites(w)
  <2>1. /\ win'[w].ent = ent' /\ ent' = Restored(task[w].seen) /\ PackageFits(task[w].seen)
        /\ win'[w].account = win[w].account /\ win'[w].gate = win[w].gate
        /\ task'[w].at \in Plain
    BY <1>17, GiveWritesActs
  <2>2. ent = task[w].seen /\ ent # NoEnt
    BY <1>0, <1>17 DEF GiveWrites, OwnedBy
  <2>3. ent'.owner = ent.owner
    BY <2>1, <2>2, RestoredFits
  <2>4. OwnedBy(w)'
    BY <1>0, <2>1, <2>2, <2>3 DEF OwnedBy, Looked, Own, Plain
  <2> QED BY <1>0, <2>2, <2>3, <2>4, OthersOwn
<1> QED BY <1>1, <1>2, <1>3, <1>4, <1>5, <1>6, <1>7, <1>8, <1>9, <1>10, <1>11, <1>12, <1>13,
           <1>14, <1>15, <1>16, <1>17 DEF Window, LightStep

\* The same of the credential: it stays, goes, or becomes the one of the account of w.
LEMMA OthersKey ==
  ASSUME ShapeInv, NEW w \in Windows, Acts(w), OneAccount',
         \A v \in Windows : KeyBy(v),
         KeyBy(w)',
         cred' \in {cred, NoUser, win'[w].account}
  PROVE  \A v \in Windows : KeyBy(v)'
<1>1. ASSUME NEW v \in Windows, v # w PROVE KeyBy(v)'
  <2>1. win'[v] = win[v] /\ task'[v] = task[v]
    BY <1>1 DEF Acts, ShapeInv
  <2>2. KeyBy(v) /\ (Seeing(v) => win[v].account # NoUser)
    BY WindowNow DEF Seeing, Fits, Syncing
  <2>3. \/ win'[w].account \in {win[v].account, NoUser}
        \/ win[v].account = NoUser
    BY <2>1 DEF OneAccount
  <2> QED BY <2>1, <2>2, <2>3 DEF KeyBy, Seeing
<1> QED BY <1>1

\* Places where the credential was not looked at.
LEMMA QuietKey ==
  ASSUME NEW w \in Windows, KeyBy(w), cred' \in {cred, NoUser},
         win'[w].account = win[w].account,
         win'[w].gate \in Inside => win[w].gate \in Inside,
         \/ task'[w] = task[w]
         \/ task'[w].at \notin {"dropEnt", "dropCred"}
  PROVE  KeyBy(w)'
BY DEF KeyBy, Seeing

LEMMA KeyWindow ==
  ASSUME StoreInv, ShapeInv, NEW w \in Windows, Window(w), OneAccount',
         \A v \in Windows : KeyBy(v)
  PROVE  \A v \in Windows : KeyBy(v)'
<1> USE DEF keyVars
<1>0. Acts(w) /\ KeyBy(w)
  BY WindowSteps
<1>1. CASE SaveCredential(w)
  <2>1. cred' = win[w].account /\ win'[w].account = win[w].account
    BY <1>1, CredentialActs DEF SaveCredential, Light
  <2>2. KeyBy(w)'
    BY <2>1 DEF KeyBy
  <2> QED BY <1>0, <2>1, <2>2, OthersKey
<1>2. CASE LightStep(w) /\ ~SaveCredential(w)
  <2>1. Light(w)
    BY <1>2, LightSteps
  <2>2. cred' \in {cred, NoUser}
    <3>1. CASE \/ Unheard(w) \/ OutDraft(w) \/ Discard(w) \/ StartOver(w) \/ Cleared(w)
               \/ SaveDraft(w)
      BY <3>1 DEF Unheard, OutDraft, Discard, StartOver, Cleared, SaveDraft
    <3>2. CASE TellTrial(w) \/ MirrorTrial(w) \/ DropCredential(w)
      BY <3>2 DEF TellTrial, MirrorTrial, DropCredential
    <3>3. CASE Refreshed(w) \/ Tick(w) \/ (\E st \in Ends : EndRun(w, st)) \/ Persist(w)
      BY <3>3 DEF Refreshed, Tick, EndRun, Persist
    <3> QED BY <1>2, <3>1, <3>2, <3>3 DEF LightStep
  <2>3. KeyBy(w)'
    BY <1>0, <2>1, <2>2, QuietKey DEF Light, Plain
  <2> QED BY <1>0, <2>2, <2>3, OthersKey
<1>3. CASE Open(w) \/ Close(w) \/ Strip(w) \/ (\E u \in Users : SignIn(w, u)) \/ OutKeys(w)
  <2>1. task'[w].at \notin {"dropEnt", "dropCred"} /\ win'[w].gate \notin Inside
    <3>1. CASE Open(w)
      BY <3>1, OpenActs, FreshFits DEF ShapeInv, Inside
    <3>2. CASE Close(w)
      BY <3>2, CloseActs, ShutFits, IdleFits DEF Inside
    <3>3. CASE Strip(w) \/ (\E u \in Users : SignIn(w, u)) \/ OutKeys(w)
      BY <3>3, StripActs, SignInActs, OutKeysActs DEF Inside, Plain
    <3> QED BY <1>3, <3>1, <3>2, <3>3
  <2>2. cred' \in {cred, NoUser}
    BY <1>3 DEF Open, Close, Strip, SignIn, OutKeys
  <2>3. KeyBy(w)'
    BY <2>1 DEF KeyBy, Seeing
  <2> QED BY <1>0, <2>2, <2>3, OthersKey
<1>4. CASE Sync(w)
  <2>1. /\ SameView(win'[w], win[w]) /\ cred' = cred
        /\ task'[w].drop = (MossConnected(cred) /\ cred # win[w].account)
    BY <1>4, SyncActs DEF Sync
  <2>2. KeyBy(w)'
    BY <1>0, <2>1 DEF KeyBy, Seeing, SameView, MossConnected
  <2> QED BY <1>0, <2>1, <2>2, OthersKey
<1>5. CASE DropEnt(w)
  <2>1. /\ win'[w] = win[w] /\ cred' = cred /\ task[w].at = "dropEnt"
        /\ task'[w].drop = task[w].drop
    BY <1>5, DropEntActs, WindowNow DEF DropEnt, ShapeInv, Tasks
  <2>2. KeyBy(w)'
    BY <1>0, <2>1 DEF KeyBy, Seeing
  <2> QED BY <1>0, <2>1, <2>2, OthersKey
<1>6. CASE DropCred(w)
  <2>1. /\ win'[w].account = win[w].account /\ task[w].at = "dropCred"
        /\ cred' = IF task[w].drop THEN NoUser ELSE cred
    BY <1>6, DropCredActs DEF DropCred
  <2>2. KeyBy(w)' /\ cred' \in {cred, NoUser}
    BY <1>0, <2>1, WindowNow DEF KeyBy, Seeing, Tasks
  <2> QED BY <1>0, <2>2, OthersKey
<1>7. CASE \/ SignOut(w) \/ Purchase(w) \/ AskTrial(w) \/ ReadMirror(w) \/ WriteTrial(w)
           \/ (\E j \in JobIds : Take(w, j)) \/ TakeWrite(w)
           \/ Uncreated(w) \/ Bound(w) \/ Persisted(w) \/ GiveReads(w) \/ GiveWrites(w)
  <2>1. cred' = cred
    <3>1. CASE SignOut(w) \/ Purchase(w) \/ AskTrial(w) \/ ReadMirror(w) \/ WriteTrial(w)
      BY <3>1 DEF SignOut, Purchase, AskTrial, ReadMirror, WriteTrial
    <3>2. CASE \/ (\E j \in JobIds : Take(w, j)) \/ TakeWrite(w)
               \/ Uncreated(w) \/ Bound(w) \/ Persisted(w) \/ GiveReads(w) \/ GiveWrites(w)
      BY <3>2 DEF Take, TakeWrite, Uncreated, Bound, Persisted, GiveReads, GiveWrites
    <3> QED BY <1>7, <3>1, <3>2
  <2>2. /\ win'[w].account = win[w].account
        /\ win'[w].gate \in Inside => win[w].gate \in Inside
        /\ task'[w] = task[w] \/ task'[w].at \notin {"dropEnt", "dropCred"}
    <3>1. CASE SignOut(w) \/ Purchase(w) \/ WriteTrial(w)
      BY <3>1, SignOutActs, PurchaseActs, WriteTrialActs
    <3>2. CASE AskTrial(w) \/ ReadMirror(w)
      BY <3>2, AskTrialActs, ReadMirrorActs, AtFits DEF Places, SameView
    <3>3. CASE (\E j \in JobIds : Take(w, j)) \/ TakeWrite(w)
      BY <3>3, TakeActs, TakeWriteActs, IdleFits
    <3>4. CASE Uncreated(w) \/ Bound(w) \/ Persisted(w)
      BY <3>4, UncreatedActs, BoundActs, PersistedActs DEF Giving, Plain
    <3>5. CASE GiveReads(w) \/ GiveWrites(w)
      BY <3>5, GiveReadsActs, GiveWritesActs DEF Plain
    <3> QED BY <1>7, <3>1, <3>2, <3>3, <3>4, <3>5
  <2>3. KeyBy(w)'
    BY <1>0, <2>1, <2>2, QuietKey
  <2> QED BY <1>0, <2>1, <2>3, OthersKey
<1> QED BY <1>1, <1>2, <1>3, <1>4, <1>5, <1>6, <1>7 DEF Window, LightStep

\* A write that went over what it had not read is not forgotten.
LEMMA ClobberedStays ==
  ASSUME StoreInv, ShapeInv, Next, ~clobbered'
  PROVE  ~clobbered
<1>1. CASE Behind
  BY <1>1 DEF Behind, StoreSteps, Store, Tidy, Write, StopWorker, DayPasses, PurgeAlarm
<1>2. ASSUME NEW w \in Windows, Window(w) PROVE ~clobbered
  <2> USE DEF stVars
  <2>1. CASE LightStep(w)
    BY <2>1, LightSteps DEF Light
  <2>2. CASE Open(w) \/ Close(w) \/ Strip(w) \/ (\E u \in Users : SignIn(w, u)) \/ Sync(w)
    BY <2>2 DEF Open, Close, Strip, SignIn, Sync
  <2>3. CASE DropEnt(w) \/ DropCred(w) \/ SignOut(w) \/ OutKeys(w)
    BY <2>3 DEF DropEnt, DropCred, SignOut, OutKeys
  <2>4. CASE Purchase(w) \/ AskTrial(w) \/ ReadMirror(w) \/ WriteTrial(w)
    BY <2>4 DEF Purchase, AskTrial, ReadMirror, WriteTrial
  <2>5. CASE (\E j \in JobIds : Take(w, j)) \/ TakeWrite(w) \/ Uncreated(w) \/ Bound(w) \/ Persisted(w)
    BY <2>5 DEF Take, TakeWrite, Uncreated, Bound, Persisted
  <2>6. CASE GiveReads(w) \/ GiveWrites(w)
    BY <2>6 DEF GiveReads, GiveWrites
  <2> QED BY <1>2, <2>1, <2>2, <2>3, <2>4, <2>5, <2>6 DEF Window, LightStep
<1> QED BY <1>1, <1>2 DEF Next, Behind

LEMMA OwnStep ==
  ASSUME StoreInv, ShapeInv, ShapeInv', OwnInv, Next
  PROVE  OwnInv'
<1> SUFFICES ASSUME ~mixed'
             PROVE  /\ \A w \in Windows : KeyBy(w)'
                    /\ ~clobbered' => \A w \in Windows : OwnedBy(w)'
  BY DEF OwnInv
<1>1. CASE \A w \in Windows : ~win'[w].open
  <2>1. \A w \in Windows : win'[w] = Shut /\ task'[w] = Idle
    BY <1>1 DEF ShapeInv, Fits
  <2>2. \A w \in Windows : KeyBy(w)' /\ OwnedBy(w)'
    BY <2>1, ShutFits, IdleFits DEF KeyBy, Seeing, OwnedBy, Looked, Inside
  <2> QED BY <2>2
<1>2. CASE \E w \in Windows : win'[w].open
  <2>1. ~mixed /\ OneAccount'
    BY <1>2 DEF Next, Mixes
  <2>2. \A w \in Windows : KeyBy(w)
    BY <2>1 DEF OwnInv
  <2>3. CASE Behind
    <3>1. \A w \in Windows : KeyBy(w)'
      BY <2>2, <2>3, BehindKeeps DEF KeyBy, Seeing
    <3>2. ~clobbered' => \A w \in Windows : OwnedBy(w)'
      BY <2>1, <2>3, BehindKeeps, ClobberedStays DEF OwnInv, OwnedBy, Looked
    <3> QED BY <3>1, <3>2
  <2>4. CASE \E w \in Windows : Window(w)
    <3>1. \A w \in Windows : KeyBy(w)'
      BY <2>1, <2>2, <2>4, KeyWindow
    <3>2. ~clobbered' => \A w \in Windows : OwnedBy(w)'
      BY <2>1, <2>4, OwnWindow, ClobberedStays DEF OwnInv
    <3> QED BY <3>1, <3>2
  <2> QED BY <2>3, <2>4 DEF Next, Behind
<1> QED BY <1>1, <1>2

LEMMA OwnInit == Init => OwnInv
BY ShutFits, IdleFits DEF Init, OwnInv, KeyBy, Seeing, OwnedBy, Looked, Inside

-----------------------------------------------------------------------------
(* Who may speak of a run. *)

\* A step of w makes nobody hear of a run but what w shows then.
LEMMA HeardGrows ==
  ASSUME StoreInv, ShapeInv, NEW w \in Windows, Acts(w), Asks(w), saved' = saved,
         NEW j \in JobIds, Heard(j)'
  PROVE  Heard(j) \/ win'[w].run.ref = j
<1>0. j # NoJob
  BY BrowserAssumption
<1>1. CASE saved'.job.id = j
  BY <1>1 DEF Heard
<1>2. CASE \E s \in Windows \cup {Alarm} : work'[s].id = j \/ work'[s].got.job.id = j
  <2>1. PICK s \in Windows \cup {Alarm} : work'[s].id = j \/ work'[s].got.job.id = j
    BY <1>2
  <2>2. CASE work'[s] = work[s]
    BY <2>1, <2>2 DEF Heard
  <2>3. CASE work'[s] # work[s]
    <3>1. CASE Receive(w)
      <4>1. work'[s] = Quiet
        BY <2>3, <3>1 DEF Receive, StoreInv
      <4> QED BY <1>0, <2>1, <4>1, QuietFits
    <3>2. CASE work' = work
      BY <2>3, <3>2
    <3>3. ASSUME NEW op, NEW id \in {NoJob, win[w].run.ref}, NEW st, AskFits(op, id, st),
                 Send(w, op, id, st)
          PROVE  Heard(j)
      <4>1. work'[s] = Sent(op, id, st)
        BY <2>3, <3>3 DEF Send, StoreInv
      <4>2. work'[s].id = id /\ work'[s].got = saved
        BY <3>3, <4>1, SentFits DEF StoreInv
      <4> QED BY <1>0, <2>1, <4>2 DEF Heard
    <3> QED BY <3>1, <3>2, <3>3 DEF Asks
  <2> QED BY <2>2, <2>3
<1>3. CASE \E v \in Windows : win'[v].run.ref = j
  <2>1. PICK v \in Windows : win'[v].run.ref = j
    BY <1>3
  <2> QED BY <2>1 DEF Heard, Acts, ShapeInv
<1> QED BY <1>1, <1>2, <1>3 DEF Heard

\* Light steps, and those after which w shows the run it showed.
LEMMA HeardStays ==
  ASSUME StoreInv, ShapeInv, NEW w \in Windows, Step(w), saved' = saved,
         win'[w].run.ref \in {NoJob, win[w].run.ref, work[w].got.job.id},
         NEW j \in JobIds, Heard(j)'
  PROVE  Heard(j)
<1>1. Heard(j) \/ win'[w].run.ref = j
  BY HeardGrows DEF Step
<1> QED BY <1>1, BrowserAssumption DEF Heard

LEMMA HeardBehind ==
  ASSUME StoreInv, ShapeInv, Behind, NEW j \in JobIds, Heard(j)'
  PROVE  Heard(j)
<1>0. j # NoJob /\ win' = win
  BY BrowserAssumption, BehindKeeps
<1>1. ASSUME NEW s \in Windows \cup {Alarm}, Tidy(s) \/ Write(s)
      PROVE  Heard(j)
  <2>1. /\ saved'.job.id \in {work[s].got.job.id, work[s].id, NoJob}
        /\ work' = [work EXCEPT ![s] = work'[s]] /\ work'[s].id = work[s].id
        /\ work'[s].got.job.id \in {work[s].got.job.id, work[s].id, NoJob}
    BY <1>1, TidyStore, WriteStore
  <2>2. \A r \in Windows \cup {Alarm} : r # s => work'[r] = work[r]
    BY <2>1 DEF StoreInv
  <2> QED BY <1>0, <2>1, <2>2 DEF Heard
<1>2. CASE StopWorker
  BY <1>0, <1>2, StopStore DEF Heard
<1>3. CASE DayPasses
  BY <1>0, <1>3, DayStore DEF Heard
<1>4. CASE PurgeAlarm
  <2>1. saved' = saved
    BY <1>4 DEF PurgeAlarm
  <2>2. CASE Send(Alarm, "purge", NoJob, "none")
    <3>1. AskFits("purge", NoJob, "none")
      BY DEF AskFits, Ops, Refs
    <3> DEFINE c == Sent("purge", NoJob, "none")
    <3>2. c.id = NoJob /\ c.got = saved /\ work' = [work EXCEPT ![Alarm] = c]
      BY <2>2, <3>1, SentFits DEF Send, StoreInv
    <3> HIDE DEF c
    <3> QED BY <1>0, <2>1, <3>2 DEF Heard, StoreInv
  <2>3. CASE Receive(Alarm)
    BY <1>0, <2>1, <2>3, QuietFits DEF Receive, Heard, StoreInv
  <2> QED BY <1>4, <2>2, <2>3 DEF PurgeAlarm
<1> QED BY <1>1, <1>2, <1>3, <1>4 DEF Behind, StoreSteps, Store

\* What RefInv says of one run and of one window.
NewIsUnknown(j) ==
  runs[j] = "new" => ~Heard(j) /\ \A w \in Windows : task[w].ref = j => task[w].at = "take"
AloneIs(w) ==
  /\ Alone(w) => ~Heard(task[w].ref) /\ \A v \in Windows : task[v].ref = task[w].ref => v = w
  /\ GivesUnnamed(w) => runs[task[w].ref] = "standing"

LEMMA RefInvIs ==
  RefInv <=> (\A j \in JobIds : NewIsUnknown(j)) /\ (\A w \in Windows : AloneIs(w))
BY DEF RefInv, NewIsUnknown, AloneIs

LEMMA AloneRef ==
  ASSUME ShapeInv, NEW w \in Windows, Alone(w)
  PROVE  task[w].ref \in JobIds
BY WindowNow DEF Alone, GivesUnnamed, AboutRun, Fits

\* A step after which w is about no run, or about one that was heard of.
LEMMA RefOther ==
  ASSUME StoreInv, ShapeInv, RefInv, NEW w \in Windows, Acts(w), runs' = runs,
         \A j \in JobIds : Heard(j)' => Heard(j),
         \/ task'[w] = task[w]
         \/ task'[w].ref = NoJob
         \/ task'[w].at = "persisted" /\ task'[w].ref = win[w].run.ref,
         Fine(w)
  PROVE  RefInv'
<1>0. \A v \in Windows : v # w => task'[v] = task[v]
  BY DEF Acts, ShapeInv
<1>1. ASSUME NEW j \in JobIds PROVE NewIsUnknown(j)'
  <2>1. NewIsUnknown(j)
    BY RefInvIs
  <2> QED BY <1>0, <2>1, BrowserAssumption DEF NewIsUnknown, Heard
<1>2. ~Alone(w)' \/ task'[w] = task[w]
  BY BrowserAssumption DEF Fine, Fits, Alone, GivesUnnamed, AboutRun
<1>3. ASSUME NEW v \in Windows PROVE AloneIs(v)'
  <2>1. AloneIs(v)
    BY RefInvIs
  <2> SUFFICES ASSUME Alone(v)' PROVE AloneIs(v)'
    BY DEF AloneIs, Alone
  <2>2. task'[v] = task[v] /\ Alone(v)
    BY <1>0, <1>2 DEF Alone, GivesUnnamed
  <2>3. task[v].ref \in JobIds /\ task[v].ref # NoJob
    BY <2>2, AloneRef, BrowserAssumption
  <2>4. ~Heard(task[v].ref) /\ \A u \in Windows : task[u].ref = task[v].ref => u = v
    BY <2>1, <2>2 DEF AloneIs
  <2>5. ~Heard(task[v].ref)'
    <3>1. PICK j \in JobIds : j = task[v].ref /\ j = task'[v].ref /\ ~Heard(j)
      BY <2>2, <2>3, <2>4
    <3>2. ~Heard(j)'
      BY <3>1
    <3> QED BY <3>1, <3>2 DEF Heard
  <2>6. \A u \in Windows : task'[u].ref = task'[v].ref => u = v
    BY <1>0, <2>2, <2>3, <2>4 DEF Heard
  <2> QED BY <2>1, <2>2, <2>5, <2>6 DEF AloneIs, GivesUnnamed
<1> QED BY <1>1, <1>3 DEF RefInv, NewIsUnknown, AloneIs

\* The steps of a run that was taken.
RunStep(w) ==
  \/ \E j \in JobIds : Take(w, j)
  \/ TakeWrite(w) \/ Uncreated(w) \/ Bound(w) \/ Persisted(w) \/ GiveReads(w) \/ GiveWrites(w)

LEMMA RefOtherStep ==
  ASSUME StoreInv, ShapeInv, NEW w \in Windows, Window(w), ~RunStep(w)
  PROVE  /\ Step(w) /\ runs' = runs
         /\ win'[w].run.ref \in {NoJob, win[w].run.ref, work[w].got.job.id}
         /\ \/ task'[w] = task[w]
            \/ task'[w].ref = NoJob
            \/ task'[w].at = "persisted" /\ task'[w].ref = win[w].run.ref
<1> USE DEF entVars, keyVars, stVars
<1>1. CASE LightStep(w)
  BY <1>1, LightSteps DEF Light
<1>2. CASE Open(w)
  <2>1. Fresh(session).run.ref = NoJob
    BY FreshFits DEF ShapeInv
  <2> QED BY <1>2, <2>1, OpenActs DEF Open
<1>3. CASE Close(w)
  BY <1>3, CloseActs, IdleFits, ShutFits DEF Close
<1>4. CASE Strip(w)
  <2>1. runs' = runs
    BY <1>4 DEF Strip
  <2> QED BY <1>4, <2>1, StripActs
<1>5. CASE \E u \in Users : SignIn(w, u)
  <2>1. runs' = runs
    BY <1>5 DEF SignIn
  <2> QED BY <1>5, <2>1, SignInActs
<1>6. CASE Sync(w)
  <2>1. runs' = runs
    BY <1>6 DEF Sync
  <2> QED BY <1>6, <2>1, SyncActs DEF SameView
<1>7. CASE DropEnt(w) \/ DropCred(w)
  <2>1. runs' = runs
    BY <1>7 DEF DropEnt, DropCred
  <2> QED BY <1>7, <2>1, DropEntActs, DropCredActs
<1>8. CASE SignOut(w) \/ OutKeys(w)
  <2>1. runs' = runs
    BY <1>8 DEF SignOut, OutKeys
  <2> QED BY <1>8, <2>1, SignOutActs, OutKeysActs
<1>9. CASE Purchase(w) \/ WriteTrial(w)
  <2>1. runs' = runs
    BY <1>9 DEF Purchase, WriteTrial
  <2> QED BY <1>9, <2>1, PurchaseActs, WriteTrialActs
<1>10. CASE AskTrial(w) \/ ReadMirror(w)
  <2>1. runs' = runs
    BY <1>10 DEF AskTrial, ReadMirror
  <2> QED BY <1>10, <2>1, AskTrialActs, ReadMirrorActs, AtFits DEF SameView, Places
<1> QED BY <1>1, <1>2, <1>3, <1>4, <1>5, <1>6, <1>7, <1>8, <1>9, <1>10
        DEF Window, LightStep, RunStep

LEMMA OthersStay ==
  ASSUME ShapeInv, NEW w \in Windows, Acts(w), NEW v \in Windows, v # w
  PROVE  task'[v] = task[v] /\ win'[v] = win[v]
BY DEF Acts, ShapeInv

\* A step of w with its run r: nobody hears of another run, or of r while w is alone
\* with it.
LEMMA RefOwn ==
  ASSUME StoreInv, ShapeInv, RefInv, NEW w \in Windows, Acts(w), NEW r \in JobIds,
         \A j \in JobIds : Heard(j)' => Heard(j) \/ j = r,
         task'[w].ref \in {r, NoJob},
         Alone(w)' => ~Heard(r)',
         task'[w].ref = r \/ Heard(r)' => task'[w].at = "take" \/ runs'[r] # "new",
         GivesUnnamed(w)' => runs'[r] = "standing",
         \A j \in JobIds : j # r => runs'[j] = runs[j],
         \A v \in Windows : v # w /\ task[v].ref = r =>
           ~Alone(v) /\ ~Alone(w)' /\ runs'[r] # "new",
         ShapeInv'
  PROVE  RefInv'
<1>0. \A v \in Windows : v # w => task'[v] = task[v]
  BY OthersStay
<1>1. ASSUME NEW j \in JobIds PROVE NewIsUnknown(j)'
  <2>1. NewIsUnknown(j)
    BY RefInvIs
  <2>2. CASE j = r
    BY <1>0, <2>2 DEF NewIsUnknown, Alone
  <2>3. CASE j # r
    BY <1>0, <2>1, <2>3, BrowserAssumption DEF NewIsUnknown
  <2> QED BY <2>2, <2>3
<1>2. ASSUME NEW v \in Windows, Alone(v)' PROVE AloneIs(v)'
  <2>1. task'[v].ref \in JobIds
    BY <1>2, WindowNow DEF Alone, GivesUnnamed, AboutRun, Fits, ShapeInv
  <2>2. CASE v = w
    <3>1. task'[w].ref = r
      BY <2>1, <2>2, BrowserAssumption
    <3>2. ~Heard(task[v].ref)'
      BY <1>2, <2>2, <3>1 DEF Heard
    <3>3. \A u \in Windows : task'[u].ref = task'[v].ref => u = v
      BY <1>0, <1>2, <2>2, <3>1
    <3> QED BY <2>2, <3>1, <3>2, <3>3 DEF AloneIs
  <2>3. CASE v # w
    <3>1. task'[v] = task[v] /\ Alone(v)
      BY <1>0, <1>2, <2>3 DEF Alone, GivesUnnamed
    <3>2. ~Heard(task[v].ref) /\ (\A u \in Windows : task[u].ref = task[v].ref => u = v)
          /\ (GivesUnnamed(v) => runs[task[v].ref] = "standing")
      BY <3>1, RefInvIs DEF AloneIs
    <3>3. task[v].ref # r
      BY <2>3, <3>1
    <3>4. PICK j \in JobIds : j = task[v].ref /\ j = task'[v].ref /\ ~Heard(j) /\ j # r
      BY <2>1, <3>1, <3>2, <3>3
    <3>5. ~Heard(j)' /\ runs'[j] = runs[j]
      BY <3>4
    <3>6. ~Heard(task[v].ref)'
      BY <3>4, <3>5 DEF Heard
    <3>7. \A u \in Windows : task'[u].ref = task'[v].ref => u = v
      BY <1>0, <2>1, <3>1, <3>2, <3>3, BrowserAssumption
    <3>8. GivesUnnamed(v)' => runs'[task'[v].ref] = "standing"
      BY <3>1, <3>2, <3>4, <3>5 DEF GivesUnnamed
    <3> QED BY <3>6, <3>7, <3>8 DEF AloneIs
  <2> QED BY <2>2, <2>3
<1>3. ASSUME NEW v \in Windows PROVE AloneIs(v)'
  BY <1>2 DEF AloneIs, Alone
<1> QED BY <1>1, <1>3 DEF RefInv, NewIsUnknown, AloneIs

\* Binding the job of a run that was taken speaks of that run, as does nothing before.
LEMMA TakeWriteHears ==
  ASSUME StoreInv, ShapeInv, NEW w \in Windows, TakeWrite(w), NEW j \in JobIds, Heard(j)'
  PROVE  Heard(j) \/ (j = task[w].ref /\ work' # work)
<1> DEFINE r == task[w].ref
<1>1. /\ Acts(w) /\ win'[w].run = win[w].run
      /\ \/ work' = work
         \/ AskFits("bind-job", r, "ready") /\ Send(w, "bind-job", r, "ready")
  BY TakeWriteActs
<1>2. \A v \in Windows : win'[v].run.ref = win[v].run.ref
  BY <1>1 DEF Acts, ShapeInv
<1>3. saved' = saved
  BY DEF TakeWrite
<1>4. CASE work' = work
  BY <1>2, <1>3, <1>4 DEF Heard
<1>5. CASE work' # work
  <2>1. \A s \in Windows \cup {Alarm} : s # w => work'[s] = work[s]
    BY <1>1, <1>5 DEF Send, StoreInv
  <2>2. work'[w] = Sent("bind-job", r, "ready")
    BY <1>1, <1>5 DEF Send, StoreInv
  <2>3. work'[w].id = r /\ work'[w].got = saved
    BY <1>1, <1>5, <2>2, SentFits DEF StoreInv
  <2> QED BY <1>2, <1>3, <1>5, <2>1, <2>3 DEF Heard
<1> QED BY <1>4, <1>5

LEMMA RefWindow ==
  ASSUME StoreInv, ShapeInv, RefInv, NEW w \in Windows, Window(w), ShapeInv'
  PROVE  RefInv'
<1> USE DEF entVars, keyVars, stVars
<1>0. Acts(w) /\ Fine(w) /\ saved' = saved
  BY WindowSteps, SharedSteps
<1> DEFINE r == task[w].ref
<1>00. AloneIs(w) /\ \A v \in Windows : AloneIs(v)
  BY RefInvIs
\* Where w is about r already, r is no new run and nobody is alone with it but w.
<1>01. ASSUME r \in JobIds, task[w].at # "take"
       PROVE  runs[r] # "new"
  <2>1. NewIsUnknown(r)
    BY <1>01, RefInvIs
  <2> QED BY <1>01, <2>1 DEF NewIsUnknown
<1>02. \A v \in Windows : v # w /\ task[v].ref = r => ~Alone(v) /\ ~Alone(w)
  BY <1>00 DEF AloneIs
<1>1. CASE ~RunStep(w)
  <2>1. /\ Step(w) /\ runs' = runs
        /\ win'[w].run.ref \in {NoJob, win[w].run.ref, work[w].got.job.id}
        /\ \/ task'[w] = task[w]
           \/ task'[w].ref = NoJob
           \/ task'[w].at = "persisted" /\ task'[w].ref = win[w].run.ref
    BY <1>1, RefOtherStep
  <2>2. \A j \in JobIds : Heard(j)' => Heard(j)
    BY <1>0, <2>1, HeardStays
  <2> QED BY <1>0, <2>1, <2>2, RefOther
<1>2. CASE \E j \in JobIds : Take(w, j)
  <2>1. PICK j \in JobIds : Take(w, j)
    BY <1>2
  <2>2. /\ Step(w) /\ win'[w] = win[w]
        /\ \/ task'[w] = Idle
           \/ task'[w].at = "take" /\ task'[w].ref = j
    BY <2>1, TakeActs
  <2>3. runs' = runs /\ runs[j] = "new" /\ \A v \in Windows : task[v].ref # j
    BY <2>1 DEF Take
  <2>4. \A i \in JobIds : Heard(i)' => Heard(i)
    BY <1>0, <2>2, HeardStays
  <2>5. ~Heard(j)
    BY <2>3, RefInvIs DEF NewIsUnknown
  <2>6. CASE task'[w] = Idle
    BY <1>0, <2>2, <2>3, <2>4, <2>6, IdleFits, RefOther
  <2>7. CASE task'[w].at = "take" /\ task'[w].ref = j
    <3>1. ~GivesUnnamed(w)'
      BY <2>7 DEF GivesUnnamed
    <3>2. ~Heard(j)'
      BY <2>4, <2>5
    <3> QED BY <1>0, <2>3, <2>4, <2>7, <3>1, <3>2, RefOwn
  <2> QED BY <2>2, <2>6, <2>7
<1>3. CASE TakeWrite(w)
  <2>1. /\ r \in JobIds /\ win'[w].run = win[w].run
        /\ task'[w].at \in {"bind", "uncreated"} /\ task'[w].ref = r
        /\ task'[w].at = "uncreated" => work' = work
        /\ \/ work' = work
           \/ AskFits("bind-job", r, "ready") /\ Send(w, "bind-job", r, "ready")
    BY <1>3, TakeWriteActs
  <2>2. runs' = [runs EXCEPT ![r] = "standing"] /\ task[w].at = "take"
    BY <1>3 DEF TakeWrite
  <2>3. Alone(w) /\ ~Heard(r)
    BY <1>00, <2>2 DEF Alone, AloneIs
  <2>5. ASSUME work' = work, NEW j \in JobIds, Heard(j)' PROVE Heard(j)
    BY <1>3, <2>5, TakeWriteHears
  <2>7. \A j \in JobIds : Heard(j)' => Heard(j) \/ j = r
    BY <1>3, TakeWriteHears
  <2>8. Alone(w)' => ~Heard(r)'
    <3>1. SUFFICES ASSUME Alone(w)' PROVE ~Heard(r)'
      OBVIOUS
    <3>2. work' = work
      BY <2>1, <3>1 DEF Alone, GivesUnnamed
    <3>3. PICK j \in JobIds : j = r /\ j = task'[w].ref
      BY <2>1
    <3>4. ~Heard(j)'
      BY <2>3, <2>5, <3>2, <3>3
    <3> QED BY <3>3, <3>4 DEF Heard
  <2>9. runs'[r] = "standing" /\ \A j \in JobIds : j # r => runs'[j] = runs[j]
    BY <2>1, <2>2 DEF ShapeInv
  <2>10. PICK j \in JobIds : j = r /\ j = task'[w].ref
    BY <2>1
  <2>11. Alone(w)' => ~Heard(j)'
    BY <2>8, <2>10 DEF Heard
  <2>12. \A v \in Windows : v # w => task[v].ref # j
    BY <1>02, <2>3, <2>10
  <2> HIDE DEF r
  <2> QED BY <1>0, <2>7, <2>9, <2>10, <2>11, <2>12, RefOwn
<1>4. CASE Uncreated(w) \/ Persisted(w) \/ Bound(w)
  <2>1. /\ Step(w) /\ r \in JobIds /\ win'[w].run.ref \in {win[w].run.ref, r}
        /\ Giving(w, NoJob) \/ Giving(w, r)
        /\ Uncreated(w) => Giving(w, NoJob) /\ win'[w] = win[w]
        /\ Persisted(w) \/ Bound(w) => Giving(w, r)
    BY <1>4, UncreatedActs, PersistedActs, BoundActs
  <2>2. runs' = runs /\ task[w].at \in {"uncreated", "persisted", "bind"}
        /\ (task[w].at = "uncreated" <=> Uncreated(w))
    BY <1>4 DEF Uncreated, Persisted, Bound
  <2>3. \A j \in JobIds : Heard(j)' => Heard(j) \/ j = r
    BY <1>0, <2>1, HeardGrows DEF Step, Heard
  <2>4. runs[r] # "new"
    BY <1>01, <2>1, <2>2
  <2>5. PICK j \in JobIds : j = r /\ (task'[w].ref = j \/ task'[w].ref = NoJob)
    BY <2>1 DEF Giving
  <2>6. r # NoJob
    BY <2>1, BrowserAssumption
  <2>7. Alone(w)' => Uncreated(w)
    BY <1>4, <2>1, <2>6 DEF Alone, GivesUnnamed, Giving, Plain
  <2>8. Uncreated(w) => Alone(w) /\ GivesUnnamed(w)
    BY <2>2 DEF Alone, GivesUnnamed
  <2>9. Alone(w)' => ~Heard(j)' /\ runs[j] = "standing" /\ Alone(w)
    <3>1. SUFFICES ASSUME Alone(w)' PROVE ~Heard(j)' /\ runs[j] = "standing" /\ Alone(w)
      OBVIOUS
    <3>2. Uncreated(w) /\ Alone(w) /\ GivesUnnamed(w) /\ win'[w] = win[w]
      BY <2>1, <2>7, <2>8, <3>1
    <3>3. ~Heard(j) /\ runs[j] = "standing"
      BY <1>00, <2>5, <3>2 DEF AloneIs
    <3>4. Heard(j)' => Heard(j)
      BY <1>0, <2>1, <3>2, HeardStays
    <3> QED BY <3>2, <3>3, <3>4
  <2>10. \A v \in Windows : v # w /\ task[v].ref = j => ~Alone(v) /\ ~Alone(w)' /\ runs'[j] # "new"
    BY <1>02, <2>2, <2>4, <2>5, <2>9
  <2>11. GivesUnnamed(w)' => runs'[j] = "standing"
    BY <2>2, <2>9 DEF Alone
  <2>12. runs'[j] # "new" /\ \A i \in JobIds : Heard(i)' => Heard(i) \/ i = j
    BY <2>2, <2>3, <2>4, <2>5
  <2> HIDE DEF r
  <2> QED BY <1>0, <2>2, <2>5, <2>9, <2>10, <2>11, <2>12, RefOwn
<1>5. CASE GiveReads(w) \/ GiveWrites(w)
  <2>1. /\ Step(w) /\ r \in JobIds /\ win'[w].run = win[w].run
        /\ \/ task'[w].at \in Plain /\ task'[w].ref = NoJob
           \/ task'[w].at = "giveWrite" /\ task'[w].ref = r /\ task'[w].key = task[w].key
    BY <1>5, GiveReadsActs, GiveWritesActs
  <2>2. /\ task[w].at \in {"give", "giveWrite"}
        /\ runs' = runs \/ (task'[w].at \in Plain /\ runs' = [runs EXCEPT ![r] = "given"])
    BY <1>5, GiveWritesActs DEF GiveReads, GiveWrites
  <2>3. \A j \in JobIds : Heard(j)' => Heard(j)
    BY <1>0, <2>1, HeardStays
  <2>4. runs[r] # "new" /\ runs'[r] # "new" /\ \A j \in JobIds : j # r => runs'[j] = runs[j]
    BY <1>01, <2>1, <2>2 DEF ShapeInv
  <2>5. PICK j \in JobIds : j = r /\ (task'[w].ref = j \/ task'[w].ref = NoJob)
    BY <2>1
  <2>6. Alone(w)' => Alone(w) /\ GivesUnnamed(w) /\ runs' = runs
    BY <2>1, <2>2 DEF Alone, GivesUnnamed, Plain
  <2>7. Alone(w)' => ~Heard(j)' /\ runs'[j] = "standing"
    BY <1>00, <2>3, <2>5, <2>6 DEF AloneIs
  <2>8. \A v \in Windows : v # w /\ task[v].ref = j => ~Alone(v) /\ ~Alone(w)' /\ runs'[j] # "new"
    BY <1>02, <2>4, <2>5, <2>6
  <2>9. GivesUnnamed(w)' => runs'[j] = "standing"
    BY <2>7 DEF Alone
  <2>10. runs'[j] # "new" /\ \A i \in JobIds : i # j => runs'[i] = runs[i]
    BY <2>4, <2>5
  <2> HIDE DEF r
  <2> QED BY <1>0, <2>3, <2>5, <2>7, <2>8, <2>9, <2>10, RefOwn
<1> QED BY <1>1, <1>2, <1>3, <1>4, <1>5 DEF RunStep

LEMMA RefStep ==
  ASSUME StoreInv, ShapeInv, RefInv, Next
  PROVE  RefInv'
<1>1. ShapeInv'
  BY ShapeStep
<1>2. CASE Behind
  <2>1. runs' = runs /\ task' = task
    BY <1>2, BehindKeeps
  <2>2. \A j \in JobIds : Heard(j)' => Heard(j)
    BY <1>2, HeardBehind
  <2>3. ASSUME NEW j \in JobIds PROVE NewIsUnknown(j)'
    BY <2>1, <2>2, RefInvIs DEF NewIsUnknown
  <2>4. ASSUME NEW v \in Windows PROVE AloneIs(v)'
    <3>1. AloneIs(v)
      BY RefInvIs
    <3> SUFFICES ASSUME Alone(v)' PROVE AloneIs(v)'
      BY DEF AloneIs, Alone
    <3>2. Alone(v) /\ (GivesUnnamed(v)' <=> GivesUnnamed(v))
      BY <2>1 DEF Alone, GivesUnnamed
    <3>3. PICK j \in JobIds : j = task[v].ref /\ j = task'[v].ref /\ ~Heard(j)
      BY <2>1, <3>1, <3>2, AloneRef DEF AloneIs
    <3>4. ~Heard(j)'
      BY <2>2, <3>3
    <3>5. ~Heard(task[v].ref)'
      BY <3>3, <3>4 DEF Heard
    <3> QED BY <2>1, <3>1, <3>2, <3>5 DEF AloneIs
  <2> QED BY <2>3, <2>4 DEF RefInv, NewIsUnknown, AloneIs
<1> QED BY <1>1, <1>2, RefWindow DEF Next, Behind

LEMMA RefInit == Init => RefInv
<1> SUFFICES ASSUME Init PROVE RefInv
  OBVIOUS
<1>1. ASSUME NEW j \in JobIds PROVE ~Heard(j) /\ \A w \in Windows : task[w].ref # j
  BY BrowserAssumption, QuietFits, ShutFits, IdleFits
     DEF Init, StoreInit, Heard, Blank, NoBinding, Job
<1>2. \A w \in Windows : ~Alone(w)
  BY IdleFits DEF Init, Alone, GivesUnnamed
<1> QED BY <1>1, <1>2 DEF RefInv, Alone

-----------------------------------------------------------------------------
(* What is left and what stands was paid for. *)

LEMMA CountsFit ==
  ASSUME NEW S \in SUBSET JobIds
  PROVE  IsFiniteSet(S) /\ Cardinality(S) \in Nat
BY BrowserAssumption, FS_Subset, FS_CardinalityType

\* Nobody begins to speak of a run that was taken before.
LEMMA ReferredStays ==
  ASSUME StoreInv, ShapeInv, NEW w \in Windows, Window(w), NEW j \in JobIds,
         runs[j] # "new", Referred(j)'
  PROVE  Referred(j)
<1>0. Acts(w) /\ saved' = saved /\ j # NoJob
  BY WindowSteps, SharedSteps, BrowserAssumption
<1>00. ASSUME Heard(j)' => Referred(j),
              task'[w].ref = j => Referred(j)
       PROVE  Referred(j)
  BY <1>0, <1>00, OthersStay DEF Referred
<1>1. CASE ~RunStep(w)
  <2>1. /\ Step(w)
        /\ win'[w].run.ref \in {NoJob, win[w].run.ref, work[w].got.job.id}
        /\ \/ task'[w] = task[w]
           \/ task'[w].ref = NoJob
           \/ task'[w].at = "persisted" /\ task'[w].ref = win[w].run.ref
    BY <1>1, RefOtherStep
  <2>2. Heard(j)' => Heard(j)
    BY <1>0, <2>1, HeardStays
  <2>3. task'[w].ref = j => Referred(j)
    BY <1>0, <2>1 DEF Referred, Heard
  <2> QED BY <1>00, <2>2, <2>3 DEF Referred
<1>2. CASE \E i \in JobIds : Take(w, i)
  <2>1. PICK i \in JobIds : Take(w, i)
    BY <1>2
  <2>2. Step(w) /\ win'[w] = win[w] /\ (task'[w] = Idle \/ task'[w].ref = i) /\ i # j
    BY <2>1, TakeActs DEF Take
  <2>3. Heard(j)' => Heard(j)
    BY <1>0, <2>2, HeardStays
  <2> QED BY <1>0, <1>00, <2>2, <2>3, IdleFits DEF Referred
<1>3. CASE TakeWrite(w)
  <2>1. task'[w].ref = task[w].ref
    BY <1>3, TakeWriteActs
  <2>2. Heard(j)' => Heard(j) \/ j = task[w].ref
    BY <1>3, TakeWriteHears
  <2> QED BY <1>00, <2>1, <2>2 DEF Referred
<1>4. CASE Uncreated(w) \/ Persisted(w) \/ Bound(w)
  <2>1. Step(w) /\ win'[w].run.ref \in {win[w].run.ref, task[w].ref}
        /\ (task'[w].ref = NoJob \/ task'[w].ref = task[w].ref)
    BY <1>4, UncreatedActs, PersistedActs, BoundActs DEF Giving
  <2>2. Heard(j)' => Heard(j) \/ j = task[w].ref
    BY <1>0, <2>1, HeardGrows DEF Step, Heard
  <2> QED BY <1>0, <1>00, <2>1, <2>2 DEF Referred
<1>5. CASE GiveReads(w) \/ GiveWrites(w)
  <2>1. Step(w) /\ win'[w].run = win[w].run
        /\ (task'[w].ref = NoJob \/ task'[w].ref = task[w].ref)
    BY <1>5, GiveReadsActs, GiveWritesActs
  <2>2. Heard(j)' => Heard(j)
    BY <1>0, <2>1, HeardStays
  <2> QED BY <1>0, <1>00, <2>1, <2>2 DEF Referred
<1> QED BY <1>1, <1>2, <1>3, <1>4, <1>5 DEF RunStep

\* The balance, and what a step may do to its parts.
Balance == ent.left + Cardinality(Standing) + Cardinality(Again) <= granted + forgotten

LEMMA AgainShrinks ==
  ASSUME StoreInv, ShapeInv, NEW w \in Windows, Window(w), runs' = runs
  PROVE  Standing' = Standing /\ \A j \in Again' : j \in Again \/ j \in Elements(released) \ Elements(released')
<1>1. Standing' = Standing
  BY DEF Standing
<1>2. ASSUME NEW j \in Again', j \notin Elements(released) \ Elements(released')
      PROVE  j \in Again
  BY <1>2, ReferredStays DEF Again
<1> QED BY <1>1, <1>2

\* Nothing is forgotten.
LEMMA BalanceSame ==
  ASSUME ShapeInv, ShapeInv', Balance, Standing' = Standing,
         \A j \in Again' : j \in Again \/ j \in Elements(released) \ Elements(released'),
         released' = released,
         forgotten' = forgotten, ent'.left - ent.left <= granted' - granted
  PROVE  Balance'
<1>1. Again' \subseteq Again /\ Again \subseteq JobIds
  BY DEF Again
<1>2. Cardinality(Again') <= Cardinality(Again) /\ Cardinality(Again') \in Nat
      /\ Cardinality(Again) \in Nat
  BY <1>1, CountsFit, FS_Subset
<1>3. Cardinality(Standing) \in Nat
  BY CountsFit DEF Standing
<1>4. ent.left \in Nat /\ ent'.left \in Nat /\ granted \in Nat /\ granted' \in Nat
      /\ forgotten \in Nat
  BY DEF ShapeInv, PackageFits, Packages
<1>5. Balance' <=> ent'.left + Cardinality(Standing) + Cardinality(Again') <= granted' + forgotten
  BY DEF Balance
<1> QED BY <1>2, <1>3, <1>4, <1>5 DEF Balance

\* References are forgotten, each of which may be given back once more; of the runs that
\* could be before, A are left.
LEMMA BalanceForgets ==
  ASSUME ShapeInv, ShapeInv', Balance, NEW A \in SUBSET Again, NEW L, IsFiniteSet(L),
         Again' \subseteq A \cup L, forgotten' = forgotten + Cardinality(L),
         granted' = granted,
         ent'.left + Cardinality(Standing') + Cardinality(A)
           <= ent.left + Cardinality(Standing) + Cardinality(Again)
  PROVE  Balance'
<1>1. Again \in SUBSET JobIds /\ Again' \in SUBSET JobIds /\ Standing \in SUBSET JobIds
      /\ Standing' \in SUBSET JobIds /\ A \in SUBSET JobIds
  BY DEF Again, Standing
<1>2. IsFiniteSet(A) /\ Cardinality(Again) \in Nat /\ Cardinality(Again') \in Nat
      /\ Cardinality(Standing) \in Nat /\ Cardinality(Standing') \in Nat /\ Cardinality(A) \in Nat
  BY <1>1, CountsFit
<1>3. IsFiniteSet(A \cup L) /\ Cardinality(L) \in Nat
      /\ Cardinality(A \cup L) \in Nat /\ Cardinality(A \cap L) \in Nat
      /\ Cardinality(A \cup L) = Cardinality(A) + Cardinality(L) - Cardinality(A \cap L)
  BY <1>2, FS_Union, FS_CardinalityType, FS_Intersection
<1>4. Cardinality(Again') <= Cardinality(A \cup L)
  BY <1>3, FS_Subset
<1>5. ent.left \in Nat /\ ent'.left \in Nat /\ granted \in Nat /\ forgotten \in Nat
  BY DEF ShapeInv, PackageFits, Packages
<1> HIDE DEF Standing, Again
<1>6. Balance' <=> ent'.left + Cardinality(Standing') + Cardinality(Again') <= granted' + forgotten'
  BY DEF Balance
<1> QED BY <1>2, <1>3, <1>4, <1>5, <1>6 DEF Balance

\* The package and the references are forgotten.
LEMMA BalanceForget ==
  ASSUME StoreInv, ShapeInv, ShapeInv', Balance, NEW w \in Windows, Window(w),
         ForgetPackage, runs' = runs, granted' = granted
  PROVE  Balance'
<1> DEFINE L == Elements(released) \ {NoJob}
<1>1. released \in Seq(Refs) /\ released' = <<>> /\ Elements(<<>>) = {}
  BY DEF ShapeInv, ForgetPackage, Elements
<1>2. /\ IsFiniteSet(L) /\ forgotten' = forgotten + Cardinality(L)
  <2>1. Elements(released) \ (Elements(<<>>) \cup {NoJob}) = L
    BY <1>1
  <2> QED BY <1>1, <2>1, LostFits DEF ForgetPackage
<1>3. Standing' = Standing /\ Again' \subseteq Again \cup L
  BY AgainShrinks, BrowserAssumption DEF Again
<1>4. ent'.left = 0 /\ ent.left \in Nat
  BY NoEntFits DEF ForgetPackage, ShapeInv, PackageFits, Packages
<1>5. Cardinality(Standing) \in Nat
  BY CountsFit DEF Standing
<1>7. Cardinality(Again) \in Nat
  BY CountsFit DEF Again
<1> HIDE DEF L
<1>6. ent'.left + Cardinality(Standing') + Cardinality(Again)
        <= ent.left + Cardinality(Standing) + Cardinality(Again)
  BY <1>3, <1>4, <1>5, <1>7
<1> QED BY <1>2, <1>3, <1>6, BalanceForgets


\* A run is taken off the package that was read.
LEMMA BalanceTakes ==
  ASSUME StoreInv, ShapeInv, ShapeInv', Balance, NEW w \in Windows, TakeWrite(w), ~clobbered'
  PROVE  Balance'
<1> DEFINE j == task[w].ref
<1>1. /\ j \in JobIds /\ ent'.left = ent.left - 1
      /\ runs' = [runs EXCEPT ![j] = "standing"]
      /\ released' = released /\ granted' = granted /\ forgotten' = forgotten
  BY TakeWriteActs DEF TakeWrite
<1> HIDE DEF j
<1>2. Standing' = Standing \cup {j}
  BY <1>1 DEF Standing, ShapeInv
<1>3. Cardinality(Standing') <= Cardinality(Standing) + 1 /\ Cardinality(Standing') \in Nat
      /\ Cardinality(Standing) \in Nat
  <2>1. Standing \in SUBSET JobIds /\ Standing' \in SUBSET JobIds
    BY DEF Standing
  <2>2. IsFiniteSet(Standing) /\ Cardinality(Standing) \in Nat /\ Cardinality(Standing') \in Nat
    BY <2>1, CountsFit
  <2> HIDE DEF Standing
  <2> QED BY <1>2, <2>2, FS_AddElement
<1>4. Again' \subseteq Again
  <2> SUFFICES ASSUME NEW i \in Again' PROVE i \in Again
    OBVIOUS
  <2>1. i \in JobIds /\ runs'[i] = "given" /\ Referred(i)' /\ i \notin Elements(released)
    BY <1>1 DEF Again
  <2>2. i # j /\ runs[i] = "given"
    BY <1>1, <2>1 DEF ShapeInv
  <2>3. Referred(i)
    BY <2>1, <2>2, ReferredStays DEF Window
  <2> QED BY <2>1, <2>2, <2>3 DEF Again
<1>5. IsFiniteSet({}) /\ Cardinality({}) = 0
  BY FS_EmptySet
<1>6. ent.left \in Nat /\ forgotten \in Nat /\ Cardinality(Again) \in Nat
  BY CountsFit DEF Again, ShapeInv, PackageFits, Packages
<1> HIDE DEF Standing, Again
<1>7. ent'.left + Cardinality(Standing') + Cardinality(Again)
        <= ent.left + Cardinality(Standing) + Cardinality(Again)
  BY <1>1, <1>3, <1>6
<1>8. forgotten' = forgotten + Cardinality({}) /\ Again' \subseteq Again \cup {}
  BY <1>1, <1>4, <1>5, <1>6
<1> QED BY <1>1, <1>5, <1>7, <1>8, BalanceForgets

\* A run is given back: one that stood, or one that was given back before and whose
\* reference was forgotten since.
LEMMA BalanceGives ==
  ASSUME StoreInv, ShapeInv, ShapeInv', RefInv, Balance, NEW w \in Windows, GiveWrites(w),
         ~clobbered'
  PROVE  Balance'
<1> DEFINE t == task[w]
           all == Append(t.list, t.key)
           L == Elements(all) \ (Elements(released') \cup {NoJob})
<1>1. PICK j \in JobIds :
        /\ j = t.ref /\ Step(w) /\ win'[w].run = win[w].run /\ task'[w].ref = NoJob
        /\ ent' = Restored(t.seen) /\ PackageFits(t.seen)
  BY GiveWritesActs
<1>2. /\ t.at = "giveWrite" /\ ent = t.seen /\ released = t.list /\ granted' = granted
      /\ runs' = [runs EXCEPT ![j] = "given"]
      /\ forgotten' = forgotten + Lost(all, released')
  BY <1>1 DEF GiveWrites
<1>0. Window(w) /\ saved' = saved /\ j # NoJob
  BY SharedSteps, BrowserAssumption DEF Window
<1>3. /\ t.list \in Seq(Refs) /\ t.key \in {NoJob, j} /\ ~RefundedBefore(t.key, released)
      /\ t.key \in Refs
  BY <1>1, <1>2, WindowNow DEF Fits, Tasks
<1>4. ent'.left <= ent.left + 1 /\ ent'.left \in Nat /\ ent.left \in Nat /\ forgotten \in Nat
  BY <1>1, <1>2, RestoredFits DEF PackageFits, Packages, ShapeInv
<1>5. IsFiniteSet(L) /\ forgotten' = forgotten + Cardinality(L)
  BY <1>2, <1>3, AppendProperties, LostFits
<1>6. Elements(all) = Elements(released) \cup {t.key}
  <2> DEFINE n == Len(t.list)
  <2>1. /\ DOMAIN all = 1..(n + 1) /\ DOMAIN t.list = 1..n
        /\ n \in Nat /\ all[n + 1] = t.key
        /\ \A i \in 1..n : all[i] = t.list[i]
    BY <1>3, AppendProperties, LenProperties
  <2> HIDE DEF all, n
  <2>2. \A x : x \in Elements(all) <=> \E i \in 1..(n + 1) : all[i] = x
    BY <2>1 DEF Elements
  <2>3. \A x : x \in Elements(released) <=> \E i \in 1..n : t.list[i] = x
    BY <1>2, <2>1 DEF Elements
  <2>4. \A x : x \in Elements(all) <=> x \in Elements(released) \/ x = t.key
    BY <2>1, <2>2, <2>3
  <2> QED BY <2>4
<1>7. AloneIs(w) /\ (t.key = NoJob => GivesUnnamed(w)) /\ runs[j] # "new"
  <2>1. AloneIs(w) /\ NewIsUnknown(j)
    BY <1>1, RefInvIs
  <2> QED BY <1>1, <1>2, <2>1 DEF GivesUnnamed, NewIsUnknown
<1>8. ASSUME t.key = NoJob PROVE ~Referred(j)' /\ runs[j] = "standing"
  <2>1. /\ ~Heard(j) /\ runs[j] = "standing" /\ \A v \in Windows : task[v].ref = j => v = w
    BY <1>1, <1>7, <1>8 DEF AloneIs, Alone
  <2>3. ~Heard(j)'
    BY <1>0, <1>1, <2>1, HeardStays
  <2>4. \A v \in Windows : task'[v].ref # j
    BY <1>0, <1>1, <2>1, OthersStay DEF Step
  <2> QED BY <2>1, <2>3, <2>4 DEF Referred
\* Whoever could be given back now could before, or was forgotten.
<1>9. Again' \subseteq (Again \ {j}) \cup L
  <2> SUFFICES ASSUME NEW i \in Again' PROVE i \in (Again \ {j}) \cup L
    OBVIOUS
  <2>1. i \in JobIds /\ runs'[i] = "given" /\ Referred(i)' /\ i \notin Elements(released')
    BY DEF Again
  <2>2. CASE i = j
    <3>1. t.key = j
      BY <1>3, <1>8, <2>1, <2>2
    <3> QED BY <1>0, <1>6, <2>1, <2>2, <3>1
  <2>3. CASE i # j
    <3>1. runs[i] = "given"
      BY <1>2, <2>1, <2>3 DEF ShapeInv
    <3>2. Referred(i)
      BY <1>0, <2>1, <3>1, ReferredStays
    <3>3. i \in Again \/ i \in Elements(released)
      BY <2>1, <3>1, <3>2 DEF Again
    <3> QED BY <1>6, <2>1, <2>3, <3>3, BrowserAssumption
  <2> QED BY <2>2, <2>3
<1> HIDE DEF L, all
<1>10. /\ Standing \in SUBSET JobIds /\ IsFiniteSet(Standing) /\ Cardinality(Standing) \in Nat
       /\ Again \in SUBSET JobIds /\ IsFiniteSet(Again) /\ Cardinality(Again) \in Nat
  BY CountsFit DEF Standing, Again
<1>11. CASE runs[j] = "standing"
  <2>1. j \in Standing /\ Standing' = Standing \ {j} /\ j \notin Again
    BY <1>2, <1>11 DEF Standing, Again, ShapeInv
  <2> HIDE DEF Standing, Again
  <2>2. Cardinality(Standing') = Cardinality(Standing) - 1 /\ Cardinality(Standing') \in Nat
    BY <1>10, <2>1, FS_RemoveElement, FS_CardinalityType
  <2>3. ent'.left + Cardinality(Standing') + Cardinality(Again)
          <= ent.left + Cardinality(Standing) + Cardinality(Again)
    BY <1>4, <1>10, <2>2
  <2>4. Again' \subseteq Again \cup L
    BY <1>9
  <2> QED BY <1>2, <1>5, <2>3, <2>4, BalanceForgets
<1>12. CASE runs[j] = "given"
  <2>1. t.key = j
    BY <1>3, <1>8, <1>12
  <2>2. j \in Again
    <3>1. Referred(j)
      BY <1>1 DEF Referred
    <3>2. j \notin Elements(released)
      BY <1>0, <1>3, <2>1 DEF RefundedBefore, Elements
    <3> QED BY <1>12, <3>1, <3>2 DEF Again
  <2>3. Standing' = Standing
    BY <1>2, <1>12 DEF Standing, ShapeInv
  <2> DEFINE A == Again \ {j}
  <2> HIDE DEF Standing, Again
  <2>4. Cardinality(A) = Cardinality(Again) - 1 /\ A \in SUBSET Again
    BY <1>10, <2>2, FS_RemoveElement
  <2>5. ent'.left + Cardinality(Standing') + Cardinality(A)
          <= ent.left + Cardinality(Standing) + Cardinality(Again)
    BY <1>4, <1>10, <2>3, <2>4
  <2>6. Again' \subseteq A \cup L
    BY <1>9
  <2> HIDE DEF A
  <2> QED BY <1>2, <1>5, <2>4, <2>5, <2>6, BalanceForgets
<1>13. runs[j] \in {"new", "standing", "given"}
  BY DEF ShapeInv
<1> QED BY <1>7, <1>11, <1>12, <1>13

\* Whatever a window does.
LEMMA BalanceWindow ==
  ASSUME StoreInv, ShapeInv, ShapeInv', RefInv, Balance, NEW w \in Windows, Window(w),
         ~clobbered'
  PROVE  Balance'
<1> USE DEF entVars, keyVars, stVars
<1>0. ent.left \in Nat
  BY DEF ShapeInv, PackageFits, Packages
<1>1. ASSUME ent' = ent, released' = released, granted' = granted, forgotten' = forgotten,
             runs' = runs
      PROVE  Balance'
  BY <1>0, <1>1, AgainShrinks, BalanceSame DEF ShapeInv
<1>2. CASE LightStep(w)
  BY <1>1, <1>2, LightSteps DEF Light
<1>3. CASE Open(w) \/ Close(w) \/ (\E u \in Users : SignIn(w, u)) \/ Sync(w) \/ DropCred(w)
           \/ SignOut(w) \/ AskTrial(w) \/ ReadMirror(w)
  BY <1>1, <1>3 DEF Open, Close, SignIn, Sync, DropCred, SignOut, AskTrial, ReadMirror
<1>4. CASE (\E j \in JobIds : Take(w, j)) \/ Uncreated(w) \/ Bound(w) \/ Persisted(w) \/ GiveReads(w)
  BY <1>1, <1>4 DEF Take, Uncreated, Bound, Persisted, GiveReads
<1>5. CASE Strip(w)
  <2>1. CASE ent # NoEnt \/ cred # NoUser
    <3>1. ForgetPackage /\ runs' = runs /\ granted' = granted
      BY <1>5, <2>1 DEF Strip
    <3> QED BY <3>1, BalanceForget
  <2>2. CASE ~(ent # NoEnt \/ cred # NoUser)
    BY <1>1, <1>5, <2>2 DEF Strip
  <2> QED BY <2>1, <2>2
<1>6. CASE DropEnt(w) \/ OutKeys(w)
  <2>1. ForgetPackage /\ runs' = runs /\ granted' = granted
    BY <1>6 DEF DropEnt, OutKeys
  <2> QED BY <2>1, BalanceForget
<1>7. CASE Purchase(w) \/ WriteTrial(w)
  <2>1. ent'.left = granted' - granted
    <3>1. CASE Purchase(w)
      <4>1. ent' = Bought("pair", win[w].account) /\ win[w].account \in Names
        BY <3>1, PurchaseActs, WindowNow DEF Views
      <4>2. granted' = granted + PaidRuns /\ RunsOf("pair") = PaidRuns
        BY <3>1 DEF Purchase, RunsOf
      <4> QED BY <4>1, <4>2, BoughtFits, BrowserAssumption DEF ShapeInv
    <3>2. CASE WriteTrial(w)
      <4>1. ent' = Bought("trial", win[w].account) /\ win[w].account \in Names
        BY <3>2, WriteTrialActs, WindowNow DEF Views
      <4>2. granted' = granted + 1 /\ RunsOf("trial") = 1
        BY <3>2 DEF WriteTrial, RunsOf
      <4> QED BY <4>1, <4>2, BoughtFits DEF ShapeInv
    <3> QED BY <1>7, <3>1, <3>2
  <2>2. released' = released /\ forgotten' = forgotten /\ runs' = runs
    BY <1>7 DEF Purchase, WriteTrial
  <2>3. granted \in Nat /\ granted' \in Nat
    BY DEF ShapeInv
  <2>4. ent'.left - ent.left <= granted' - granted
    BY <1>0, <2>1, <2>3
  <2> QED BY <2>2, <2>4, AgainShrinks, BalanceSame
<1>8. CASE TakeWrite(w)
  BY <1>8, BalanceTakes
<1>9. CASE GiveWrites(w)
  BY <1>9, BalanceGives
<1> QED BY <1>2, <1>3, <1>4, <1>5, <1>6, <1>7, <1>8, <1>9 DEF Window, LightStep

LEMMA BalanceStep ==
  ASSUME StoreInv, ShapeInv, RefInv, BalanceInv, Next
  PROVE  BalanceInv'
<1> SUFFICES ASSUME ~clobbered' PROVE Balance'
  BY DEF BalanceInv, Balance
<1>1. Balance /\ ShapeInv'
  BY ClobberedStays, ShapeStep DEF BalanceInv, Balance
<1>2. CASE Behind
  <2>1. UNCHANGED <<ent, released, granted, runs, forgotten, task>>
    BY <1>2, BehindKeeps
  <2>2. \A j \in JobIds : Referred(j)' => Referred(j)
    BY <1>2, <2>1, HeardBehind DEF Referred
  <2>3. Standing' = Standing /\ \A j \in Again' : j \in Again
    BY <2>1, <2>2 DEF Standing, Again
  <2>4. ent'.left - ent.left <= granted' - granted
    BY <2>1 DEF ShapeInv, PackageFits, Packages
  <2> QED BY <1>1, <2>1, <2>3, <2>4, BalanceSame
<1>3. CASE \E w \in Windows : Window(w)
  BY <1>1, <1>3, BalanceWindow
<1> QED BY <1>2, <1>3 DEF Next, Behind

LEMMA BalanceInit == Init => BalanceInv
<1> SUFFICES ASSUME Init PROVE BalanceInv
  OBVIOUS
<1>1. Standing = {} /\ Again = {}
  BY DEF Init, Standing, Again
<1>2. Cardinality(Standing) = 0 /\ Cardinality(Again) = 0
  BY <1>1, FS_EmptySet
<1>3. ent.left \in Nat /\ granted = ent.left /\ forgotten = 0
  BY ShapeInit DEF ShapeInv, PackageFits, Packages, Init
<1> QED BY <1>2, <1>3 DEF BalanceInv

-----------------------------------------------------------------------------
(* The theorems. *)

\* The inductive invariant: what a window shows, the flow it is in and the calls under way
\* fit together, and what they say of the trial, of the owner, of the runs and of their
\* number.
LEMMA BrowserInvariant == Spec => []BrowserInv
<1>1. Init => BrowserInv
  BY ShapeInit, TrialInit, OwnInit, RefInit, BalanceInit DEF BrowserInv
<1>2. BrowserInv /\ [Next]_vars => BrowserInv'
  <2> SUFFICES ASSUME BrowserInv, [Next]_vars PROVE BrowserInv'
    OBVIOUS
  <2> USE DEF BrowserInv
  <2>1. CASE Next
    BY <2>1, ShapeStep, TrialStepKeeps, OwnStep, RefStep, BalanceStep
  <2>2. CASE UNCHANGED vars
    <3>1. StoreInv'
      BY <2>2 DEF vars, stVars, StoreInv, MessageFits
    <3>2. ShapeInv'
      BY <2>2 DEF vars, entVars, keyVars, ShapeInv
    <3>3. TrialInv'
      BY <2>2 DEF vars, entVars, keyVars, TrialInv, Granting
    <3>4. OwnInv'
      BY <2>2 DEF vars, stVars, entVars, keyVars, OwnInv, KeyBy, Seeing, OwnedBy, Looked
    <3>5. RefInv'
      BY <2>2 DEF vars, stVars, entVars, RefInv, Heard, Alone, GivesUnnamed
    <3>6. BalanceInv'
      BY <2>2 DEF vars, stVars, entVars, BalanceInv, Standing, Again, Referred, Heard
    <3> QED BY <3>1, <3>2, <3>3, <3>4, <3>5, <3>6
  <2> QED BY <2>1, <2>2
<1> QED BY <1>1, <1>2, PTL DEF Spec

\* BalanceHolds: the record and the windows keep their shape, the references their cap, and
\* what is left of the package and the runs that stand were paid for, but for one refund
\* more for each reference that was forgotten (consumeDemoRun, releaseDemoRun,
\* clearDemoAccount), unless a write went over what it had not read.
THEOREM RunsWerePaid == Spec => []BalanceHolds
<1>1. BrowserInv => BalanceHolds
  <2> SUFFICES ASSUME StoreInv, ShapeInv, BalanceInv PROVE BalanceHolds
    BY DEF BrowserInv
  <2>1. StoreTypeOK
    BY DEF StoreInv, StoreTypeOK, MessageFits, Messages
  <2>2. ent.left \in 0..RunsOf(ent.plan)
    BY DEF ShapeInv, PackageFits, Packages, RunsOf
  <2>3. BrowserTypeOK
    BY <2>1, <2>2 DEF BrowserTypeOK, ShapeInv, Fits, Names
  <2>4. RunsArePaid
    <3>1. Cardinality(Again) \in Nat /\ Cardinality(Standing) \in Nat
      BY CountsFit DEF Again, Standing
    <3>2. ent.left \in Nat /\ granted \in Nat /\ forgotten \in Nat
      BY DEF ShapeInv, PackageFits, Packages
    <3> HIDE DEF Again
    <3>3. ~clobbered => ent.left + Cardinality(Standing) <= granted + forgotten
      BY <3>1, <3>2 DEF BalanceInv
    <3> QED BY <3>3 DEF RunsArePaid, Standing
  <2> QED BY <2>3, <2>4 DEF BalanceHolds
<1> QED BY <1>1, BrowserInvariant, PTL

\* TrialOncePerDevice: the trial of a device is unlocked at most once, whatever windows
\* claim it, close, or are told late (claimDeviceTrial, writeDeviceTrial).
THEOREM TrialIsOnce == Spec => []TrialOncePerDevice
<1>1. BrowserInv => TrialOncePerDevice
  BY DEF BrowserInv, TrialInv, TrialOncePerDevice
<1> QED BY <1>1, BrowserInvariant, PTL

\* PackageIsOwn: whoever was signed in before, a window past the sign-in shows and finds in
\* the storage no package and no credential of another account (syncLocalStateForAccount,
\* clearDemoAccount), as long as windows did not show two accounts at the same time and
\* no write was stale.
THEOREM PackageOfAccount == Spec => []PackageIsOwn
<1>1. BrowserInv => PackageIsOwn
  BY DEF BrowserInv, OwnInv, KeyBy, Seeing, OwnedBy, Looked, PackageIsOwn
<1> QED BY <1>1, BrowserInvariant, PTL

\* No step takes a job that has not ended out of the record it has read.
LEMMA BindingStays ==
  ASSUME StoreInv, ShapeInv, Next, Unresolved(saved), ~clobbered'
  PROVE  saved'.job.id = saved.job.id
<1>1. saved \in States
  BY DEF StoreInv, Unresolved, Blank
<1>2. ValidJob(saved.job) /\ saved.job # NoBinding /\ saved.job.status \notin Terminal
      /\ saved.job.ended = "none"
  BY <1>1, StateShape DEF Unresolved, ValidJob
<1>3. ASSUME NEW s \in Windows \cup {Alarm}, Tidy(s)
      PROVE  saved'.job.id = saved.job.id
  <2>1. saved' = Tidied(saved)
    BY <1>3 DEF Tidy
  <2> QED BY <1>2, <2>1 DEF Tidied, Blank, Purged
<1>4. ASSUME NEW s \in Windows \cup {Alarm}, Write(s)
      PROVE  saved'.job.id = saved.job.id
  <2>1. saved' = After(work[s], saved)
    BY <1>4 DEF Write
  <2> QED BY <1>1, <2>1, StateShape DEF After, Job, States
<1>5. CASE StopWorker \/ DayPasses
  BY <1>5, StopStore, DayStore
<1>6. CASE PurgeAlarm
  BY <1>6 DEF PurgeAlarm
<1>7. ASSUME NEW w \in Windows, Window(w)
      PROVE  saved'.job.id = saved.job.id
  BY <1>7, SharedSteps
<1> QED BY <1>3, <1>4, <1>5, <1>6, <1>7 DEF Next, Store, StoreSteps

\* BindingHolds: a job that has not ended stays bound whatever the windows, the alarm, a
\* stop of the worker and time do (bindJob, updateJob, purgeExpired), unless a call wrote
\* over a record it had not read.
THEOREM BindingIsKept == Spec => BindingHolds
<1>1. BrowserInv /\ [Next]_vars
        => [Unresolved(saved) /\ ~clobbered' => saved'.job.id = saved.job.id]_storeVars
  BY BindingStays DEF BrowserInv, vars, stVars, storeVars
<1> QED BY <1>1, BrowserInvariant, PTL DEF Spec, BindingHolds

=============================================================================
