--------------------------- MODULE ProviderProofs ---------------------------
(***************************************************************************)
(* Proofs about the way to the provider.  First, the safety invariants of  *)
(* FairQueues hold for any number of items, users and credentials, any     *)
(* number of workers and any caps.  Then the adapter: the line parser      *)
(* answers every call with the lines in their order, and never forgets a   *)
(* call, provided that no call follows one that brought an abort signal;   *)
(* and what a submission over it reports is earned, and nothing of it is   *)
(* left when it returns, for any number of files and whatever the peer     *)
(* says.                                                                   *)
(***************************************************************************)
EXTENDS FairQueues, SubmitSession, FiniteSetTheorems, SequenceTheorems, TLAPS

-----------------------------------------------------------------------------
\* The queues.

\* An item that was not enqueued yet has used no attempt.
AbsentAreFresh == \A i \in Items : state[i] = "absent" => attempts[i] = 0

\* The inductive strengthening of the invariants.
IInv == TypeOK /\ AbsentAreFresh /\ LeasesWithinCap /\ DeadLettersStayOut

\* The leases of a credential are finitely many.
LEMMA LeasedIsFinite ==
  ASSUME NEW c
  PROVE  /\ IsFiniteSet(Leased(c))
         /\ Cardinality(Leased(c)) \in Nat
<1>1. IsFiniteSet(Leased(c)) BY QueueAssumption, FS_Subset DEF Leased
<1> QED BY <1>1, FS_CardinalityType

\* The leases of a credential that are left when others end are not more.
LEMMA FewerLeasesFit ==
  ASSUME LeasesWithinCap, inflight' = inflight,
         NEW c \in Creds, Leased(c)' \subseteq Leased(c),
         inflight[c] \in Nat
  PROVE  Cardinality(Leased(c)') <= inflight[c]' /\ inflight[c]' <= Cap
<1>1. /\ Cardinality(Leased(c)) \in Nat
      /\ Cardinality(Leased(c)') \in Nat
      /\ Cardinality(Leased(c)') <= Cardinality(Leased(c))
  <2>1. IsFiniteSet(Leased(c)) BY LeasedIsFinite
  <2>2. IsFiniteSet(Leased(c)') BY <2>1, FS_Subset
  <2> QED BY <2>1, <2>2, FS_Subset, FS_CardinalityType
<1>2. Cardinality(Leased(c)) <= inflight[c] /\ inflight[c] <= Cap
  BY DEF LeasesWithinCap
<1> QED BY <1>1, <1>2, QueueAssumption

\* SlotsAfter gives back exactly one slot for each lease that ends: what is left
\* still covers the leases that are left.
LEMMA SlotsCoverTheRest ==
  ASSUME TypeOK, LeasesWithinCap,
         NEW S \in SUBSET {i \in Items : state[i] = "leased"},
         inflight' = SlotsAfter(S),
         NEW c \in Creds, Leased(c)' \subseteq Leased(c) \ S
  PROVE  Cardinality(Leased(c)') <= inflight[c]' /\ inflight[c]' <= Cap
<1> DEFINE Ended == {i \in S : cred[i] = c}
           StillLeased == Leased(c) \ Ended
<1>1. /\ Ended \subseteq Leased(c)
      /\ Leased(c)' \subseteq StillLeased
  BY DEF Leased
<1>2. IsFiniteSet(Leased(c)) BY LeasedIsFinite
<1>3. IsFiniteSet(Ended) BY <1>1, <1>2, FS_Subset
<1>4. IsFiniteSet(StillLeased) /\ IsFiniteSet(Leased(c)')
  BY <1>1, <1>2, FS_Subset
<1>5. /\ Cardinality(Leased(c)) \in Nat
      /\ Cardinality(Ended) \in Nat
      /\ Cardinality(StillLeased) \in Nat
      /\ Cardinality(Leased(c)') \in Nat
  BY <1>2, <1>3, <1>4, FS_CardinalityType
<1>6. Cardinality(Leased(c)') <= Cardinality(StillLeased)
  BY <1>1, <1>4, FS_Subset
<1>7. Cardinality(StillLeased) = Cardinality(Leased(c)) - Cardinality(Ended)
  <2>1. Leased(c) \cap Ended = Ended BY <1>1
  <2> QED BY <1>2, <2>1, FS_Difference
<1>8. /\ Cardinality(Leased(c)) <= inflight[c]
      /\ inflight[c] <= Cap
      /\ inflight[c] \in Nat
  BY DEF LeasesWithinCap, TypeOK
<1>9. inflight[c]' = IF inflight[c] > Cardinality(Ended)
                     THEN inflight[c] - Cardinality(Ended) ELSE 0
  BY DEF SlotsAfter
<1> HIDE DEF Ended, StillLeased
<1> QED BY <1>5, <1>6, <1>7, <1>8, <1>9, QueueAssumption

\* The slots that are left are still a count.
LEMMA SlotsAreCounts ==
  ASSUME TypeOK, NEW S \in SUBSET Items
  PROVE  SlotsAfter(S) \in [Creds -> Nat]
<1> SUFFICES ASSUME NEW c \in Creds
             PROVE  SlotsAfter(S)[c] \in Nat
  BY DEF SlotsAfter
<1> DEFINE Ended == {i \in S : cred[i] = c}
<1>1. IsFiniteSet(Ended) BY QueueAssumption, FS_Subset
<1>2. Cardinality(Ended) \in Nat BY <1>1, FS_CardinalityType
<1>3. inflight[c] \in Nat BY DEF TypeOK
<1>4. SlotsAfter(S)[c] = IF inflight[c] > Cardinality(Ended)
                         THEN inflight[c] - Cardinality(Ended) ELSE 0
  BY DEF SlotsAfter
<1> HIDE DEF Ended
<1> QED BY <1>2, <1>3, <1>4

\* A claim leaves the entries and the counters of the users well-typed.
LEMMA GrantTypes ==
  ASSUME TypeOK, NEW w \in Workers, NEW i \in Items, Grant(w, i),
         inflight' \in [Creds -> Nat]
  PROVE  TypeOK'
<1>1. served' \in [Users -> Nat]
  <2>1. \A u \in Users : served'[u] \in {served[u], served[u] + 1}
    BY DEF Grant, TypeOK
  <2>2. DOMAIN served' = Users /\ served' = [u \in DOMAIN served' |-> served'[u]]
    BY DEF Grant, TypeOK
  <2>3. \A u \in Users : served'[u] \in Nat BY <2>1 DEF TypeOK
  <2> QED BY <2>2, <2>3
<1>2. work' \in [Workers -> SUBSET Items] BY DEF Grant, TypeOK
<1>3. /\ state' \in [Items -> {"absent", "pending", "leased", "done"}]
      /\ holder' \in [Items -> Workers \cup {NoWorker}]
      /\ lease' \in [Items -> {"fresh", "due", "expired"}]
  BY DEF Grant, TypeOK
<1> QED BY <1>1, <1>2, <1>3 DEF Grant, TypeOK

\* Empty queues satisfy the invariant.
LEMMA InitInvariant == QueuesInit => IInv
<1> SUFFICES ASSUME QueuesInit PROVE IInv OBVIOUS
<1>1. TypeOK /\ AbsentAreFresh /\ DeadLettersStayOut
  BY QueueAssumption DEF QueuesInit, TypeOK, AbsentAreFresh, DeadLettersStayOut
<1>2. LeasesWithinCap
  <2> SUFFICES ASSUME NEW c \in Creds
               PROVE  Cardinality(Leased(c)) <= inflight[c] /\ inflight[c] <= Cap
    BY DEF LeasesWithinCap
  <2>1. Leased(c) = {} /\ inflight[c] = 0 BY DEF QueuesInit, Leased
  <2> QED BY <2>1, FS_EmptySet, QueueAssumption
<1> QED BY <1>1, <1>2 DEF IInv

\* enqueueIntake and enqueueProvider: the new item has no lease.
LEMMA EnqueueInvariant ==
  ASSUME IInv, NEW i \in Items, NEW j \in Jobs, NEW c \in Creds \cup {NoCred},
         Enqueue(i, j, c)
  PROVE  IInv'
<1> USE DEF IInv
<1>1. TypeOK'
  <2>1. Cardinality(Queued) \in Nat
    BY QueueAssumption, FS_Subset, FS_CardinalityType DEF Queued
  <2> QED BY <2>1 DEF TypeOK, Enqueue
<1>2. (AbsentAreFresh /\ DeadLettersStayOut)'
  BY QueueAssumption DEF TypeOK, AbsentAreFresh, DeadLettersStayOut, Enqueue
<1>3. LeasesWithinCap'
  <2> SUFFICES ASSUME NEW d \in Creds
               PROVE  Cardinality(Leased(d)') <= inflight[d]' /\ inflight[d]' <= Cap
    BY DEF LeasesWithinCap, Leased
  <2>1. inflight' = inflight /\ inflight[d] \in Nat BY DEF Enqueue, TypeOK
  <2>2. Leased(d)' \subseteq Leased(d) BY DEF Leased, Enqueue, TypeOK
  <2> QED BY <2>1, <2>2, FewerLeasesFit
<1> QED BY <1>1, <1>2, <1>3

\* claimIntake: the lease belongs to no credential.
LEMMA ClaimIntakeInvariant ==
  ASSUME IInv, NEW w \in Workers, NEW i \in Items, ClaimIntake(w, i)
  PROVE  IInv'
<1> USE DEF IInv
<1>1. state[i] = "pending" /\ cred[i] = NoCred
  BY DEF ClaimIntake, FirstOf, Pending
<1>2. (TypeOK /\ AbsentAreFresh /\ DeadLettersStayOut)'
  <2>1. Grant(w, i) /\ inflight' \in [Creds -> Nat] BY DEF ClaimIntake, TypeOK
  <2>2. TypeOK' BY <2>1, GrantTypes
  <2> QED BY <1>1, <2>1, <2>2
       DEF TypeOK, AbsentAreFresh, DeadLettersStayOut, Grant
<1>3. LeasesWithinCap'
  <2> SUFFICES ASSUME NEW d \in Creds
               PROVE  Cardinality(Leased(d)') <= inflight[d]' /\ inflight[d]' <= Cap
    BY DEF LeasesWithinCap, Leased
  <2>1. inflight' = inflight /\ inflight[d] \in Nat BY DEF ClaimIntake, TypeOK
  <2>2. Leased(d)' \subseteq Leased(d)
    BY <1>1, QueueAssumption DEF Leased, ClaimIntake, Grant, TypeOK
  <2> QED BY <2>1, <2>2, FewerLeasesFit
<1> QED BY <1>2, <1>3

\* claimProvider: the new lease takes the slot that the guard found free.
LEMMA ClaimProviderInvariant ==
  ASSUME IInv, NEW w \in Workers, NEW i \in Items, ClaimProvider(w, i)
  PROVE  IInv'
<1> USE DEF IInv
<1>1. state[i] = "pending" /\ cred[i] \in Creds /\ inflight[cred[i]] < Cap
  BY QueueAssumption DEF ClaimProvider, FirstOf, Pending, BelowCap
<1>2. (TypeOK /\ AbsentAreFresh /\ DeadLettersStayOut)'
  <2>1. Grant(w, i) /\ inflight' \in [Creds -> Nat]
    BY <1>1 DEF ClaimProvider, TypeOK
  <2>2. TypeOK' BY <2>1, GrantTypes
  <2> QED BY <1>1, <2>1, <2>2
       DEF TypeOK, AbsentAreFresh, DeadLettersStayOut, Grant
<1>3. LeasesWithinCap'
  <2> SUFFICES ASSUME NEW d \in Creds
               PROVE  Cardinality(Leased(d)') <= inflight[d]' /\ inflight[d]' <= Cap
    BY DEF LeasesWithinCap, Leased
  <2>1. /\ IsFiniteSet(Leased(d)) /\ Cardinality(Leased(d)) \in Nat
        /\ Cardinality(Leased(d)) <= inflight[d] /\ inflight[d] <= Cap
        /\ inflight[d] \in Nat
    BY LeasedIsFinite DEF LeasesWithinCap, TypeOK
  <2>2. CASE cred[i] = d
    <3>1. Leased(d)' = Leased(d) \cup {i} /\ i \notin Leased(d)
      BY <1>1, <2>2 DEF Leased, ClaimProvider, Grant, TypeOK
    <3>2. Cardinality(Leased(d)') = Cardinality(Leased(d)) + 1
      BY <2>1, <3>1, FS_AddElement
    <3>3. inflight[d]' = inflight[d] + 1
      BY <2>2 DEF ClaimProvider, TypeOK
    <3> QED BY <1>1, <2>1, <2>2, <3>2, <3>3, QueueAssumption
  <2>3. CASE cred[i] # d
    <3>1. Leased(d)' = Leased(d) /\ inflight[d]' = inflight[d]
      BY <1>1, <2>3 DEF Leased, ClaimProvider, Grant, TypeOK
    <3> QED BY <2>1, <3>1
  <2> QED BY <2>2, <2>3
<1> QED BY <1>2, <1>3

\* complete: one lease ends, whoever reports it, and one slot comes back.
LEMMA CompleteInvariant ==
  ASSUME IInv, NEW w \in Workers, NEW i \in Items, NEW o \in Outcomes,
         Complete(w, i, o)
  PROVE  IInv'
<1> USE DEF IInv
<1>1. CASE state[i] = "leased"
  <2>1. Release(i, o) /\ UNCHANGED <<job, cred, pos, holder, lease, served>>
    BY <1>1 DEF Complete
  <2>2. FateOf(i, o) \in {"pending", "done"} BY DEF FateOf, Outcomes
  <2>3. TypeOK'
    <3>1. inflight' \in [Creds -> Nat]
      BY <2>1, SlotsAreCounts DEF Release
    <3>2. state' \in [Items -> {"absent", "pending", "leased", "done"}]
      BY <2>1, <2>2 DEF Release, TypeOK
    <3>3. attempts' \in [Items -> Nat]
      BY <2>1 DEF Release, TypeOK
    <3>4. letter' \in [Items -> {"none", "uncertain-query", "max-attempts"}]
      BY <2>1 DEF Release, TypeOK
    <3>5. failures' \in Nat
      BY <2>1, QueueAssumption DEF Release, TypeOK
    <3>6. open' \in BOOLEAN
      BY <2>1 DEF Release, TypeOK
    <3>7. work' \in [Workers -> SUBSET Items]
      BY DEF Complete, TypeOK
    <3> QED BY <2>1, <3>1, <3>2, <3>3, <3>4, <3>5, <3>6, <3>7 DEF TypeOK
  <2>4. AbsentAreFresh'
    BY <1>1, <2>1, <2>2 DEF AbsentAreFresh, Release, TypeOK
  <2>5. DeadLettersStayOut'
    <3> SUFFICES ASSUME NEW k \in Items
                 PROVE  /\ letter[k]' # "none" => state[k]' = "done"
                        /\ letter[k]' = "max-attempts" => attempts[k]' = MaxAttempts
                        /\ state[k]' \in {"pending", "leased"}
                             => attempts[k]' < MaxAttempts
      BY DEF DeadLettersStayOut
    <3>1. CASE k # i
      BY <2>1, <3>1 DEF Release, DeadLettersStayOut, TypeOK
    <3>2. CASE k = i
      <4>1. /\ letter[i] = "none" /\ attempts[i] < MaxAttempts
            /\ attempts[i] \in Nat
        BY <1>1 DEF DeadLettersStayOut, TypeOK
      <4>2. CASE o = "uncertain"
        BY <2>1, <3>2, <4>1, <4>2 DEF Release, FateOf, TypeOK
      <4>3. CASE o = "success"
        BY <2>1, <3>2, <4>1, <4>3 DEF Release, FateOf, TypeOK
      <4>4. CASE o = "failure"
        BY <2>1, <3>2, <4>1, <4>4, QueueAssumption DEF Release, FateOf, TypeOK
      <4> QED BY <4>2, <4>3, <4>4 DEF Outcomes
    <3> QED BY <3>1, <3>2
  <2>6. LeasesWithinCap'
    <3> SUFFICES ASSUME NEW d \in Creds
                 PROVE  Cardinality(Leased(d)') <= inflight[d]' /\ inflight[d]' <= Cap
      BY DEF LeasesWithinCap, Leased
    <3>1. Leased(d)' \subseteq Leased(d) \ {i}
      BY <2>1, <2>2 DEF Leased, Release, TypeOK
    <3>2. inflight' = SlotsAfter({i}) BY <2>1 DEF Release
    <3>3. {i} \in SUBSET {k \in Items : state[k] = "leased"} BY <1>1
    <3> QED BY <3>1, <3>2, <3>3, SlotsCoverTheRest
  <2> QED BY <2>3, <2>4, <2>5, <2>6
<1>2. CASE state[i] # "leased"
  <2>1. UNCHANGED queueVars BY <1>2 DEF Complete, queueVars
  <2>2. work' \in [Workers -> SUBSET Items]
    BY DEF Complete, TypeOK
  <2> QED BY <2>1, <2>2
       DEF queueVars, TypeOK, AbsentAreFresh, DeadLettersStayOut,
           LeasesWithinCap, Leased
<1> QED BY <1>1, <1>2

\* recoverExpiredLeases: every expired lease gives its own slot back.
LEMMA RecoverInvariant ==
  ASSUME IInv, RecoverExpiredLeases
  PROVE  IInv'
<1> USE DEF IInv
<1> DEFINE E == {i \in Items : state[i] = "leased" /\ lease[i] = "expired"}
<1>1. inflight' = SlotsAfter(E) BY DEF RecoverExpiredLeases
<1>2. (TypeOK /\ AbsentAreFresh /\ DeadLettersStayOut)'
  <2>1. SlotsAfter(E) \in [Creds -> Nat] BY SlotsAreCounts
  <2> QED BY <1>1, <2>1
       DEF TypeOK, AbsentAreFresh, DeadLettersStayOut, RecoverExpiredLeases
<1>3. LeasesWithinCap'
  <2> SUFFICES ASSUME NEW d \in Creds
               PROVE  Cardinality(Leased(d)') <= inflight[d]' /\ inflight[d]' <= Cap
    BY DEF LeasesWithinCap, Leased
  <2>1. Leased(d)' \subseteq Leased(d) \ E
    BY DEF Leased, RecoverExpiredLeases, TypeOK
  <2>2. E \in SUBSET {i \in Items : state[i] = "leased"} OBVIOUS
  <2> HIDE DEF E
  <2> QED BY <1>1, <2>1, <2>2, SlotsCoverTheRest
<1> QED BY <1>2, <1>3

\* cancelJob: leases end without giving a slot back, so the slots still cover
\* the rest.
LEMMA CancelJobInvariant ==
  ASSUME IInv, NEW j \in Jobs, CancelJob(j)
  PROVE  IInv'
<1> USE DEF IInv
<1>1. (TypeOK /\ AbsentAreFresh /\ DeadLettersStayOut)'
  BY DEF TypeOK, AbsentAreFresh, DeadLettersStayOut, CancelJob
<1>2. LeasesWithinCap'
  <2> SUFFICES ASSUME NEW d \in Creds
               PROVE  Cardinality(Leased(d)') <= inflight[d]' /\ inflight[d]' <= Cap
    BY DEF LeasesWithinCap, Leased
  <2>1. inflight' = inflight /\ inflight[d] \in Nat BY DEF CancelJob, TypeOK
  <2>2. Leased(d)' \subseteq Leased(d) BY DEF Leased, CancelJob, TypeOK
  <2> QED BY <2>1, <2>2, FewerLeasesFit
<1> QED BY <1>1, <1>2

\* The other steps leave the items, their credentials and the counters alone.
LEMMA OtherInvariant ==
  ASSUME IInv,
         \/ \E w \in Workers, i \in Items : Heartbeat(w, i)
         \/ \E w \in Workers : WorkerDies(w)
         \/ \E i \in Items : LeaseAges(i)
         \/ ResetCircuit
         \/ UNCHANGED allQueueVars
  PROVE  IInv'
<1>1. UNCHANGED <<state, job, cred, pos, attempts, holder, letter, served,
                  inflight>>
  BY DEF Heartbeat, WorkerDies, LeaseAges, ResetCircuit, allQueueVars, queueVars
<1>2. TypeOK'
  <2>1. CASE \E w \in Workers, i \in Items : Heartbeat(w, i)
    BY <2>1 DEF IInv, TypeOK, Heartbeat
  <2>2. CASE \E w \in Workers : WorkerDies(w)
    BY <2>2 DEF IInv, TypeOK, WorkerDies, queueVars
  <2>3. CASE \E i \in Items : LeaseAges(i)
    BY <2>3 DEF IInv, TypeOK, LeaseAges
  <2>4. CASE ResetCircuit BY <2>4 DEF IInv, TypeOK, ResetCircuit
  <2>5. CASE UNCHANGED allQueueVars BY <2>5 DEF IInv, TypeOK, allQueueVars, queueVars
  <2> QED BY <2>1, <2>2, <2>3, <2>4, <2>5
<1>3. (AbsentAreFresh /\ DeadLettersStayOut /\ LeasesWithinCap)'
  BY <1>1 DEF IInv, AbsentAreFresh, DeadLettersStayOut, LeasesWithinCap, Leased
<1> QED BY <1>2, <1>3 DEF IInv

\* Whatever claims, completions, expiries, sweeps and cancellations happen, the
\* invariant holds (fair.js:22-178).
THEOREM QueueInvariant == QueuesSpec => []IInv
<1>1. QueuesInit => IInv BY InitInvariant
<1>2. IInv /\ [QueuesNext]_allQueueVars => IInv'
  <2> SUFFICES ASSUME IInv, [QueuesNext]_allQueueVars PROVE IInv' OBVIOUS
  <2>1. CASE \E i \in Items, j \in Jobs, c \in Creds \cup {NoCred} : Enqueue(i, j, c)
    BY <2>1, EnqueueInvariant
  <2>2. ASSUME NEW w \in Workers, NEW i \in Items, WorkerMoves(w, i)
        PROVE  IInv'
    <3>1. CASE ClaimIntake(w, i) BY <3>1, ClaimIntakeInvariant
    <3>2. CASE ClaimProvider(w, i) BY <3>2, ClaimProviderInvariant
    <3>3. CASE Heartbeat(w, i) BY <3>3, OtherInvariant
    <3>4. CASE \E o \in Outcomes : Complete(w, i, o)
      BY <3>4, CompleteInvariant
    <3> QED BY <2>2, <3>1, <3>2, <3>3, <3>4 DEF WorkerMoves, Claim
  <2>3. CASE RecoverExpiredLeases BY <2>3, RecoverInvariant
  <2>4. CASE \E j \in Jobs : CancelJob(j) BY <2>4, CancelJobInvariant
  <2>5. CASE \/ \E w \in Workers : WorkerDies(w)
             \/ \E i \in Items : LeaseAges(i)
             \/ ResetCircuit
             \/ UNCHANGED allQueueVars
    BY <2>5, OtherInvariant
  <2> QED BY <2>1, <2>2, <2>3, <2>4, <2>5 DEF QueuesNext
<1> QED BY <1>1, <1>2, PTL DEF QueuesSpec

\* The queue entries and counters keep their types (fair.js:15-20).
THEOREM QueueTypeOK == QueuesSpec => []TypeOK
BY QueueInvariant, PTL DEF IInv

\* For any cap and any number of workers, items and credentials: no credential
\* has more leases than perCredentialCap, and its counter covers its leases
\* (fair.js:93-101, 120-122, 155-157).
THEOREM CredentialCap == QueuesSpec => []LeasesWithinCap
BY QueueInvariant, PTL DEF IInv

\* What is dead-lettered never returns to the queue, and an item is
\* dead-lettered for its attempts exactly at the limit (fair.js:124-142).
THEOREM DeadLetterFinality == QueuesSpec => []DeadLettersStayOut
BY QueueInvariant, PTL DEF IInv

\* A letter in the dead-letter list is never claimed again, whatever became of the
\* leases that were out (fair.js:115-185).
THEOREM QueueLettersAreFinal == QueuesSpec => []LettersAreFinal
<1>1. TypeOK /\ DeadLettersStayOut => LettersAreFinal
  BY DEF LettersAreFinal
<1> QED
  BY <1>1, QueueTypeOK, DeadLetterFinality, PTL

-----------------------------------------------------------------------------
\* The line parser.

\* The premise: only the last call may bring a signal.  The callers in the
\* repository bring none.
SignalsComeLast ==
  \A r, q \in Reads : SignalOf[r] # NoSignal => q <= r

\* A deadline timer is armed for a call that waits only.
TimersAreWaiting == \A r \in timers : read[r] = "waiting"

\* A call with an abort listener was made when nobody waited.
ListenersCameLater ==
  \A r \in listening :
    /\ SignalOf[r] # NoSignal
    /\ \A q \in Reads : q < r => read[q] \notin {"idle", "waiting"}

\* The inductive strengthening of the invariants.
ParserInv ==
  /\ ParserTypeOK /\ NoOrphanedReads /\ NobodyWaitsInVain /\ LinesInOrder
  /\ TimersAreWaiting /\ ListenersCameLater

\* The marker for "no call" is no call.
LEMMA NoReadIsNone == NoRead \notin Reads
  BY ParserAssumption DEF NoRead

\* Moving the first line from one sequence to the end of another keeps their
\* concatenation.
LEMMA MoveHead ==
  ASSUME NEW S, NEW t \in Seq(S), NEW b \in Seq(S), b # <<>>
  PROVE  /\ Append(t, Head(b)) \in Seq(S)
         /\ Append(t, Head(b)) \o Tail(b) = t \o b
<1>1. Head(b) \in S /\ Tail(b) \in Seq(S) /\ <<Head(b)>> \in Seq(S)
  BY HeadTailProperties
<1>2. b = <<Head(b)>> \o Tail(b)
  <2>1. Len(b) \in Nat \ {0}
    BY EmptySeq
  <2>2. b = SubSeq(b, 1, Len(b))
    BY SubSeqFull
  <2>3. SubSeq(b, 1, Len(b)) = <<b[1]>> \o SubSeq(b, 2, Len(b))
    BY <2>1, SubSeqRecursiveFirst
  <2>4. Tail(b) = SubSeq(b, 2, Len(b)) /\ Head(b) = b[1]
    BY TailIsSubSeq
  <2> QED
    BY <2>2, <2>3, <2>4
<1>3. Append(t, Head(b)) = t \o <<Head(b)>>
  BY <1>1, AppendIsConcat
<1>4. (t \o <<Head(b)>>) \o Tail(b) = t \o (<<Head(b)>> \o Tail(b))
  BY <1>1, ConcatAssociative
<1> QED
  BY <1>1, <1>2, <1>3, <1>4, AppendProperties

\* Settling the waiting call leaves nobody waiting.
LEMMA SettleKeeps ==
  ASSUME ParserInv, NEW a \in Answers, Settle(a)
  PROVE  /\ waiter' = NoRead
         /\ read' \in [Reads -> Answers \cup {"idle", "waiting"}]
         /\ timers' \subseteq Reads /\ listening' \subseteq Reads
         /\ \A r \in Reads : read'[r] # "waiting"
         /\ TimersAreWaiting' /\ ListenersCameLater'
<1>1. \A r \in Reads : read'[r] # "waiting"
  BY DEF ParserInv, ParserTypeOK, NoOrphanedReads, Settle, Answers, Errors
<1>2. TimersAreWaiting'
  BY DEF ParserInv, ParserTypeOK, NoOrphanedReads, TimersAreWaiting, Settle
<1>3. ListenersCameLater'
  <2>1. \A r \in listening' : r \in listening
    BY DEF Settle
  <2>2. \A q \in Reads : read[q] # "idle" => read'[q] # "idle"
    BY DEF ParserInv, ParserTypeOK, Settle, Answers, Errors
  <2> QED
    BY <1>1, <2>1, <2>2 DEF ParserInv, ListenersCameLater
<1> QED
  BY <1>1, <1>2, <1>3 DEF ParserInv, ParserTypeOK, Settle

LEMMA InitParserInv == ParserInit => ParserInv
<1> SUFFICES ASSUME ParserInit PROVE ParserInv
  OBVIOUS
<1>1. <<>> \in Seq(Lines) /\ <<>> \o <<>> = <<>>
  BY EmptySeq, ConcatEmptySeq
<1> QED
  BY <1>1 DEF ParserInit, ParserInv, ParserTypeOK, NoOrphanedReads,
     NobodyWaitsInVain, LinesInOrder, TimersAreWaiting, ListenersCameLater, Errors,
     Answers

LEMMA FailKeepsInv ==
  ASSUME ParserInv, NEW c \in BOOLEAN, NEW e \in Errors \cup {"none"},
         NEW why \in Errors, FailWith(c, e, why)
  PROVE  ParserInv'
<1>1. why \in Answers
  BY DEF Answers
<1>2. Settle(why)
  BY DEF FailWith
<1> QED
  BY <1>1, <1>2, SettleKeeps DEF FailWith, ParserInv, ParserTypeOK,
     NoOrphanedReads, NobodyWaitsInVain, LinesInOrder

\* Concatenation of lines is associative.
LEMMA LinesAssociate ==
  ASSUME NEW s \in Seq(Lines), NEW t \in Seq(Lines), NEW u \in Seq(Lines)
  PROVE  s \o (t \o u) = (s \o t) \o u
<1>1. (s \o t) \o u = s \o (t \o u)
  BY ConcatAssociative
<1> QED
  BY <1>1

LEMMA PushKeepsInv ==
  ASSUME ParserInv, NEW ls \in Seq(Lines), NEW t \in {"none", "part", "long"},
         Push(ls, t)
  PROVE  ParserInv'
<1> DEFINE b == buffer \o ls
<1>1. b \in Seq(Lines) /\ pushed' \in Seq(Lines) /\ taken \o b = pushed'
  <2>1. buffer \in Seq(Lines) /\ taken \in Seq(Lines) /\ pushed \in Seq(Lines)
    BY DEF ParserInv, ParserTypeOK
  <2>2. pushed' = pushed \o ls /\ taken \o buffer = pushed
    BY DEF ParserInv, LinesInOrder, Push
  <2>3. taken \o (buffer \o ls) = (taken \o buffer) \o ls
    BY <2>1, LinesAssociate
  <2> QED
    BY <2>1, <2>2, <2>3, ConcatProperties
<1>2. CASE buffer' = b /\ errored' = "buffer-oversize" /\ Settle("buffer-oversize")
           /\ UNCHANGED taken
  BY <1>1, <1>2, SettleKeeps
     DEF Push, ParserInv, ParserTypeOK, NoOrphanedReads, NobodyWaitsInVain,
         LinesInOrder, Answers, Errors
<1>3. CASE /\ b # <<>> /\ buffer' = Rest(b) /\ taken' = Append(taken, Head(b))
           /\ Settle("line") /\ UNCHANGED errored
  <2>1. /\ taken' \in Seq(Lines) /\ buffer' \in Seq(Lines)
        /\ taken' \o buffer' = pushed'
    BY <1>1, <1>3, MoveHead, HeadTailProperties
       DEF Rest, ParserInv, ParserTypeOK
  <2> QED
    BY <1>1, <1>3, <2>1, SettleKeeps
       DEF Push, ParserInv, ParserTypeOK, NoOrphanedReads, NobodyWaitsInVain,
           LinesInOrder, Answers
<1>4. CASE buffer' = b /\ errored' = "line-oversize" /\ Settle("line-oversize")
           /\ UNCHANGED taken
  BY <1>1, <1>4, SettleKeeps
     DEF Push, ParserInv, ParserTypeOK, NoOrphanedReads, NobodyWaitsInVain,
         LinesInOrder, Answers, Errors
<1>5. CASE /\ waiter = NoRead \/ (b = <<>> /\ t # "long")
           /\ buffer' = b
           /\ UNCHANGED <<taken, errored, read, timers, listening, waiter>>
  BY <1>1, <1>5
     DEF Push, ParserInv, ParserTypeOK, NoOrphanedReads, NobodyWaitsInVain,
         LinesInOrder, TimersAreWaiting, ListenersCameLater
<1> QED
  BY <1>2, <1>3, <1>4, <1>5 DEF Push

\* What a change of one call's promise to an answer keeps.
LEMMA AnswerKeeps ==
  ASSUME ParserInv, NEW r \in Reads, read[r] = "idle", NEW a \in Answers,
         read' = [read EXCEPT ![r] = a], UNCHANGED <<waiter, timers, listening>>
  PROVE  /\ read' \in [Reads -> Answers \cup {"idle", "waiting"}]
         /\ NoOrphanedReads' /\ TimersAreWaiting' /\ ListenersCameLater'
         /\ waiter # NoRead => read'[waiter] = read[waiter]
<1>1. a # "waiting" /\ a # "idle"
  BY DEF Answers, Errors
<1>2. \A q \in Reads : q # r => read'[q] = read[q]
  BY DEF ParserInv, ParserTypeOK
<1>3. waiter # r \/ waiter = NoRead
  BY DEF ParserInv, NobodyWaitsInVain
<1>4. ListenersCameLater'
  BY <1>1, <1>2 DEF ParserInv, ParserTypeOK, ListenersCameLater
<1> QED
  BY <1>1, <1>2, <1>3, <1>4
     DEF ParserInv, ParserTypeOK, NoOrphanedReads, TimersAreWaiting

LEMMA ReadLineKeepsInv ==
  ASSUME ParserInv, NEW r \in Reads, ReadLine(r)
  PROVE  ParserInv'
<1>1. ASSUME NEW a \in Answers, AnswerNow(r, a) PROVE ParserInv'
  <2>1. /\ read[r] = "idle" /\ read' = [read EXCEPT ![r] = a]
        /\ UNCHANGED <<waiter, timers, listening>>
    BY <1>1 DEF AnswerNow, ReadLine
  <2> QED
    BY <1>1, <2>1, AnswerKeeps
       DEF AnswerNow, ParserInv, ParserTypeOK, NobodyWaitsInVain, LinesInOrder
<1>2. CASE Looks(r) /\ ~Ready /\ ~closed /\ Wait(r)
  <2>1. \A q \in Reads : read[q] # "waiting"
    BY <1>2, NoReadIsNone DEF Looks, Busy, ParserInv, NoOrphanedReads
  <2>2. \A q \in Reads : read'[q] = IF q = r THEN "waiting" ELSE read[q]
    BY <1>2 DEF Wait, ParserInv, ParserTypeOK
  <2>3. timers = {}
    BY <2>1 DEF ParserInv, ParserTypeOK, TimersAreWaiting
  <2>4. waiter' = r /\ timers' = {r}
    BY <1>2, <2>3 DEF Wait, Armed
  <2>5. ListenersCameLater'
    <3> SUFFICES ASSUME NEW k \in listening'
                 PROVE  /\ SignalOf[k] # NoSignal
                        /\ \A q \in Reads : q < k => read'[q] \notin {"idle", "waiting"}
      BY DEF ListenersCameLater
    <3>1. CASE k = r
      <4>1. SignalOf[k] # NoSignal \/ k \in listening
        BY <1>2, <3>1 DEF Wait
      <4>2. SignalOf[k] # NoSignal
        BY <4>1 DEF ParserInv, ListenersCameLater
      <4>3. \A q \in Reads : q < k => q # r /\ read[q] # "idle"
        BY <3>1, ParserAssumption DEF ReadLine
      <4> QED
        BY <2>1, <2>2, <4>2, <4>3
    <3>2. CASE k # r
      <4>1. k \in listening
        BY <1>2, <3>2 DEF Wait
      <4>2. \A q \in Reads : q < k => q # r
        BY <4>1 DEF ParserInv, ListenersCameLater, ReadLine
      <4> QED
        BY <2>2, <4>1, <4>2 DEF ParserInv, ListenersCameLater
    <3> QED
      BY <3>1, <3>2
  <2>6. ParserTypeOK'
    BY <1>2, <2>4 DEF Wait, ParserInv, ParserTypeOK
  <2> QED
    BY <1>2, <2>1, <2>2, <2>4, <2>5, <2>6
       DEF Wait, Looks, Ready, ParserInv, ParserTypeOK, NoOrphanedReads,
           NobodyWaitsInVain, LinesInOrder, TimersAreWaiting
<1>3. CASE Looks(r) /\ Ready /\ TakeLine(r)
  <2>1. /\ taken' \in Seq(Lines) /\ buffer' \in Seq(Lines)
        /\ taken' \o buffer' = taken \o buffer
    BY <1>3, MoveHead, HeadTailProperties
       DEF TakeLine, Ready, Rest, ParserInv, ParserTypeOK
  <2>2. /\ read[r] = "idle" /\ read' = [read EXCEPT ![r] = "line"]
        /\ UNCHANGED <<waiter, timers, listening>> /\ "line" \in Answers
    BY <1>3 DEF TakeLine, ReadLine, Answers
  <2> QED
    BY <1>3, <2>1, <2>2, AnswerKeeps
       DEF TakeLine, Looks, Busy, ParserInv, ParserTypeOK, NobodyWaitsInVain,
           LinesInOrder
<1>4. CASE Looks(r) /\ FindTooLong(r)
  <2>1. /\ read[r] = "idle" /\ read' = [read EXCEPT ![r] = "line-oversize"]
        /\ UNCHANGED <<waiter, timers, listening>> /\ "line-oversize" \in Answers
    BY <1>4 DEF FindTooLong, ReadLine, Answers, Errors
  <2> QED
    BY <1>4, <2>1, AnswerKeeps
       DEF FindTooLong, Looks, Busy, ParserInv, ParserTypeOK, NobodyWaitsInVain,
           LinesInOrder, Errors
<1>5. {"waiter-busy", "closed", "abort"} \subseteq Answers
      /\ (errored # "none" => errored \in Answers)
  BY DEF Answers, Errors, ParserInv, ParserTypeOK
<1> QED
  BY <1>1, <1>2, <1>3, <1>4, <1>5 DEF ReadLine

\* What the callback of the waiting call does, whoever else listens.
LEMMA ExpireKeeps ==
  ASSUME ParserInv, NEW r \in Reads, read[r] = "waiting", NEW why \in Answers,
         NEW L \in SUBSET listening, Expire(r, why, L),
         aborted' \subseteq Signals
  PROVE  ParserInv'
<1>1. waiter = r /\ \A q \in Reads : read[q] = "waiting" => q = r
  BY DEF ParserInv, NoOrphanedReads
<1>2. \A q \in Reads : read'[q] = IF q = r THEN why ELSE read[q]
  BY DEF Expire, ParserInv, ParserTypeOK
<1>3. why \notin {"idle", "waiting"}
  BY DEF Answers, Errors
<1>4. ParserTypeOK'
  BY <1>2 DEF Expire, ParserInv, ParserTypeOK
<1>5. \A q \in Reads : read'[q] # "waiting"
  BY <1>1, <1>2, <1>3
<1>6. TimersAreWaiting'
  BY <1>1, <1>2 DEF Expire, ParserInv, ParserTypeOK, TimersAreWaiting
<1>7. ListenersCameLater'
  BY <1>2, <1>3 DEF Expire, ParserInv, ParserTypeOK, ListenersCameLater
<1> QED
  BY <1>4, <1>5, <1>6, <1>7
     DEF Expire, ParserInv, NoOrphanedReads, NobodyWaitsInVain, LinesInOrder

LEMMA DeadlineKeepsInv ==
  ASSUME ParserInv, NEW r \in Reads, Deadline(r)
  PROVE  ParserInv'
<1>1. read[r] = "waiting" /\ waiter = r /\ waiter # NoRead
  BY NoReadIsNone DEF Deadline, ParserInv, TimersAreWaiting, NoOrphanedReads
<1>2. Expire(r, "deadline", listening) /\ aborted' \subseteq Signals
  BY <1>1 DEF Deadline, ParserInv, ParserTypeOK
<1>3. "deadline" \in Answers
  BY DEF Answers
<1> QED
  BY <1>1, <1>2, <1>3, ExpireKeeps

LEMMA AbortKeepsInv ==
  ASSUME SignalsComeLast, ParserInv, NEW s \in Signals, Abort(s)
  PROVE  ParserInv'
<1> DEFINE L == {r \in listening : SignalOf[r] = s}
<1>1. aborted' \subseteq Signals
  BY DEF Abort, ParserInv, ParserTypeOK
<1>2. CASE waiter # NoRead /\ \E r \in L : Expire(r, "abort", listening \ L)
  <2>1. PICK r \in L : Expire(r, "abort", listening \ L)
    BY <1>2
  <2>2. r \in Reads /\ waiter \in Reads /\ read[waiter] = "waiting" /\ r \in listening
    BY <1>2 DEF ParserInv, ParserTypeOK, NobodyWaitsInVain
  <2>3. waiter <= r /\ ~(waiter < r)
    BY <2>2 DEF SignalsComeLast, ParserInv, ListenersCameLater
  <2>4. waiter = r
    BY <2>2, <2>3, ParserAssumption
  <2>5. "abort" \in Answers /\ listening \ L \in SUBSET listening
    BY DEF Answers
  <2> QED
    BY <1>1, <2>1, <2>2, <2>4, <2>5, ExpireKeeps
<1>3. CASE /\ listening' = listening \ L
           /\ UNCHANGED <<buffer, tail, waiter, closed, errored, read, timers,
                          pushed, taken>>
  BY <1>1, <1>3
     DEF ParserInv, ParserTypeOK, NoOrphanedReads, NobodyWaitsInVain, LinesInOrder,
         TimersAreWaiting, ListenersCameLater
<1> QED
  BY <1>2, <1>3 DEF Abort

LEMMA StepKeepsInv ==
  ASSUME SignalsComeLast, ParserInv, [ParserNext]_parserVars
  PROVE  ParserInv'
<1>1. CASE \E ls \in Chunks, t \in {"none", "part", "long"} : Push(ls, t)
  <2>1. Chunks \subseteq Seq(Lines)
    <3>1. <<>> \in Seq(Lines)
      OBVIOUS
    <3>2. ASSUME NEW k \in Lines PROVE <<k>> \in Seq(Lines)
      OBVIOUS
    <3>3. ASSUME NEW k \in Lines, NEW l \in Lines PROVE <<k, l>> \in Seq(Lines)
      OBVIOUS
    <3>4. SUFFICES ASSUME NEW c \in Chunks PROVE c \in Seq(Lines)
      OBVIOUS
    <3>5. \/ c = <<>>
          \/ \E k \in Lines : c = <<k>>
          \/ \E k \in Lines, l \in Lines : c = <<k, l>>
      BY DEF Chunks
    <3> QED
      BY <3>1, <3>2, <3>3, <3>5
  <2> QED
    BY <1>1, <2>1, PushKeepsInv
<1>2. CASE \E r \in Reads : ReadLine(r) \/ Deadline(r)
  BY <1>2, ReadLineKeepsInv, DeadlineKeepsInv
<1>3. CASE OnClose \/ OnError
  BY <1>3, FailKeepsInv DEF OnClose, OnError, ParserInv, ParserTypeOK, Errors
<1>4. CASE \E s \in Signals : Abort(s)
  BY <1>4, AbortKeepsInv
<1>5. CASE UNCHANGED parserVars
  BY <1>5
     DEF parserVars, ParserInv, ParserTypeOK, NoOrphanedReads, NobodyWaitsInVain,
         LinesInOrder, TimersAreWaiting, ListenersCameLater
<1> QED
  BY <1>1, <1>2, <1>3, <1>4, <1>5 DEF ParserNext

\* The parser keeps its types, answers its calls in order and forgets none, for
\* any number of calls and lines, if no call follows one with an abort signal
\* (line-parser.js:23-125).
THEOREM ParserInvariant ==
  ASSUME SignalsComeLast
  PROVE  ParserSpec => []ParserInv
<1>1. ParserInv /\ [ParserNext]_parserVars => ParserInv'
  BY StepKeepsInv
<1> QED
  BY InitParserInv, <1>1, PTL DEF ParserSpec

\* A call whose promise is open is the one the parser will answer, and has a timer
\* of its own (line-parser.js:61-109).
THEOREM ParserForgetsNobody ==
  ASSUME SignalsComeLast
  PROVE  ParserSpec => []NoOrphanedReads
<1>1. ParserInv => NoOrphanedReads
  BY DEF ParserInv
<1> QED
  BY ParserInvariant, <1>1, PTL

\* No call waits while there is a line, a close or an error to answer it with
\* (line-parser.js:23-59, 98-109).
THEOREM ParserAnswersAtOnce ==
  ASSUME SignalsComeLast
  PROVE  ParserSpec => []NobodyWaitsInVain
<1>1. ParserInv => NobodyWaitsInVain
  BY DEF ParserInv
<1> QED
  BY ParserInvariant, <1>1, PTL

\* No line is lost, repeated or overtaken on its way through the parser
\* (line-parser.js:28-59).
THEOREM ParserKeepsOrder ==
  ASSUME SignalsComeLast
  PROVE  ParserSpec => []LinesInOrder
<1>1. ParserInv => LinesInOrder
  BY DEF ParserInv
<1> QED
  BY ParserInvariant, <1>1, PTL

\* Each line reaches the read it is for, at once and in order, for any number of calls
\* and lines, if no call follows one with an abort signal (line-parser.js:23-125).
THEOREM ParserServesReads ==
  ASSUME SignalsComeLast
  PROVE  ParserSpec => []LinesReachTheirReads
<1>1. ParserInv => LinesReachTheirReads
  BY DEF ParserInv, LinesReachTheirReads
<1> QED
  BY ParserInvariant, <1>1, PTL

-----------------------------------------------------------------------------
\* The submission.

Consent == taken # <<>> /\ Head(taken).says = "yes"

\* How far the dialogue is wherever the call is.
DialogueFits ==
  /\ pc \in {"start", "connecting"} => sent = 0 /\ ~destroyed /\ ~overall
  /\ pc = "start" => socket = "none" /\ mock = "none"
  /\ pc = "connecting" => socket = "connecting"
  /\ pc \in {"ask", "awaitAck"} => sent = Language
  /\ pc \in {"askAnswer", "awaitAnswer", "end", "ending"} => sent = Query
  /\ pc \in {"end", "ending"} => taken # <<>> /\ Line.says = "url"
  /\ sent > Language => Consent

\* What was read of the answer to "language" until the next command.
AckFits ==
  /\ sent < Language \/ pc = "ask" => read[Ack] = "idle"
  /\ sent <= Language /\ read[Ack] # "line" => taken = <<>>
  /\ sent <= Language /\ read[Ack] = "line" => Len(taken) = 1
  /\ sent = Language /\ pc \in {"send", "writing"} => Consent

\* Who waits.
WaiterFits ==
  /\ pc \notin {"awaitAck", "awaitAnswer"} => waiter = NoRead
  /\ pc = "awaitAck" => waiter \in {Ack, NoRead}
  /\ pc = "awaitAnswer" => waiter \in {Answer, NoRead}

\* What the cleanup leaves, and when it was made.
CleanupFits ==
  /\ destroyed => socket = "closed" /\ ~connectTimer /\ ~overall /\ closed
  /\ pc = "teardown" => destroyed
  /\ pc = "done" => destroyed \/ (socket = "none" /\ ~connectTimer /\ ~overall)
  /\ pc = "done" => mock # "up"
  /\ connectTimer => pc = "connecting"
  /\ pc \notin {"teardown", "done"} => outcome = NoOutcome

\* A link is said in answer to the query only.
LinksAnswer(s) == \A i \in 1..Len(s) : s[i].says = "url" => s[i].to = "query"
LinksAnswerQuery == LinksAnswer(pushed) /\ LinksAnswer(transit)

\* The inductive strengthening of the invariants.
SessionInv ==
  /\ SessionTypeOK /\ ParserInv
  /\ DialogueFits /\ AckFits /\ WaiterFits /\ CleanupFits /\ LinksAnswerQuery
  /\ RetryOnlyBeforeSideEffect /\ OutcomeIsEarned

-----------------------------------------------------------------------------
\* What the parser's steps do to the lines that were taken and to the calls.

\* The promises of the calls as far as the dialogue looks at them.
Same(r) == (read'[r] = "line" <=> read[r] = "line") /\ (read[r] = "idle" => read'[r] = "idle")

\* One call is answered with one more line.
Given(r) ==
  /\ read'[r] = "line" /\ waiter' = NoRead
  /\ \E l \in Lines : taken' = Append(taken, l)

LEMMA ParserStays ==
  ASSUME ParserInv, UNCHANGED parserVars
  PROVE  ParserInv'
  BY DEF parserVars, ParserInv, ParserTypeOK, NoOrphanedReads, NobodyWaitsInVain,
     LinesInOrder, TimersAreWaiting, ListenersCameLater

LEMMA SettleGives ==
  ASSUME ParserInv, NEW a \in Errors, Settle(a)
  PROVE  waiter' = NoRead /\ \A r \in Reads : Same(r)
<1>1. waiter' = NoRead /\ NoRead \notin Reads
  BY NoReadIsNone DEF Settle
<1>2. a # "line"
  BY DEF Errors
<1>3. ASSUME NEW r \in Reads PROVE Same(r)
  <2>1. CASE r = waiter
    <3>1. read[r] = "waiting" /\ read'[r] = a
      BY <2>1, <1>1 DEF Settle, ParserInv, NobodyWaitsInVain
    <3> QED
      BY <3>1, <1>2 DEF Same
  <2>2. CASE r # waiter
    BY <2>2 DEF Settle, Same
  <2> QED
    BY <2>1, <2>2
<1> QED
  BY <1>1, <1>3

LEMMA FailGives ==
  ASSUME ParserInv, NEW c \in BOOLEAN, NEW e \in Errors \cup {"none"},
         NEW why \in Errors, FailWith(c, e, why)
  PROVE  /\ ParserInv' /\ closed' = c /\ waiter' = NoRead
         /\ \A r \in Reads : Same(r)
         /\ UNCHANGED <<taken, pushed>>
  BY FailKeepsInv, SettleGives DEF FailWith

LEMMA PushGives ==
  ASSUME ParserInv, NEW ls \in Seq(Lines), NEW t \in {"none", "part", "long"},
         Push(ls, t)
  PROVE  /\ ParserInv' /\ closed' = closed /\ pushed' = pushed \o ls
         /\ \/ /\ taken' = taken /\ waiter' \in {waiter, NoRead}
               /\ \A r \in Reads : Same(r)
            \/ /\ waiter # NoRead /\ Given(waiter)
               /\ \A r \in Reads \ {waiter} : Same(r)
<1> DEFINE b == buffer \o ls
<1>1. ParserInv' /\ closed' = closed /\ pushed' = pushed \o ls
  BY PushKeepsInv DEF Push
<1>2. CASE \E a \in Errors : Settle(a) /\ UNCHANGED taken
  BY <1>1, <1>2, SettleGives
<1>3. CASE /\ waiter # NoRead /\ b # <<>> /\ taken' = Append(taken, Head(b))
           /\ Settle("line")
  <2>1. Head(b) \in Lines
    BY <1>3, ConcatProperties, HeadTailProperties DEF ParserInv, ParserTypeOK
  <2> QED
    BY <1>1, <1>3, <2>1 DEF Settle, Given, Same, ParserInv, ParserTypeOK
<1>4. CASE UNCHANGED <<taken, read, waiter>>
  BY <1>1, <1>4 DEF Same
<1> QED
  BY <1>2, <1>3, <1>4 DEF Push, Errors

LEMMA ReadLineGives ==
  ASSUME ParserInv, NEW r \in Reads, ReadLine(r)
  PROVE  /\ ParserInv' /\ closed' = closed /\ pushed' = pushed
         /\ \A q \in Reads \ {r} : Same(q)
         /\ \/ taken' = taken /\ read'[r] # "line" /\ waiter' \in {waiter, r}
            \/ waiter = NoRead /\ Given(r)
<1>1. ParserInv' /\ closed' = closed /\ pushed' = pushed
  BY ReadLineKeepsInv DEF ReadLine, AnswerNow, TakeLine, FindTooLong, Wait
<1>2. CASE Looks(r) /\ Ready /\ TakeLine(r)
  <2>1. Head(buffer) \in Lines
    BY <1>2, HeadTailProperties DEF Ready, ParserInv, ParserTypeOK
  <2> QED
    BY <1>1, <1>2, <2>1
       DEF TakeLine, Looks, Busy, Given, Same, ParserInv, ParserTypeOK
<1>3. CASE FindTooLong(r)
  BY <1>1, <1>3 DEF FindTooLong, Same, ParserInv, ParserTypeOK
<1>4. CASE Wait(r)
  BY <1>1, <1>4 DEF Wait, Same, ParserInv, ParserTypeOK
<1>5. CASE \E a \in Answers \ {"line"} : AnswerNow(r, a)
  BY <1>1, <1>5 DEF AnswerNow, Same, ParserInv, ParserTypeOK
<1>6. {"waiter-busy", "closed", "abort"} \subseteq Answers \ {"line"}
      /\ (errored # "none" => errored \in Answers \ {"line"})
  BY DEF Answers, Errors, ParserInv, ParserTypeOK
<1> QED
  BY <1>2, <1>3, <1>4, <1>5, <1>6 DEF ReadLine

LEMMA DeadlineGives ==
  ASSUME ParserInv, NEW r \in Reads, Deadline(r)
  PROVE  /\ ParserInv' /\ waiter' = NoRead
         /\ \A q \in Reads : Same(q)
         /\ UNCHANGED <<taken, pushed, closed>>
<1>1. read[r] = "waiting"
  BY DEF Deadline, ParserInv, TimersAreWaiting
<1> QED
  BY <1>1, DeadlineKeepsInv
     DEF Deadline, Expire, Same, ParserInv, ParserTypeOK

\* The two calls of a session, and the lengths of its dialogue.
LEMMA SessionFacts ==
  /\ Reads = {1, 2} /\ Ack \in Reads /\ Answer \in Reads /\ Ack # Answer
  /\ NoRead \notin Reads
  /\ Language = 3 /\ Query \in Nat /\ Language < Query
  BY SessionAssumption DEF Ack, Answer, Language, Query, NoRead

LEMMA CodesAreKnown ==
  \A c : CodeOf(c) \in
    {"timeout", "credential", "language", "invalid-url", "uncertain-query",
     "generic-failure"}
  BY DEF CodeOf

LEMMA FailuresAreOutcomes ==
  ASSUME NEW p \in {"before-connect", "authenticated", "query-sent", "awaiting-url"},
         NEW c
  PROVE  Failure(p, c) \in OutcomeRecord
  BY CodesAreKnown DEF Failure, OutcomeRecord, AfterQuery

-----------------------------------------------------------------------------

LEMMA InitSessionInv == Init => SessionInv
<1> SUFFICES ASSUME Init PROVE SessionInv
  OBVIOUS
<1>1. ParserInv
  BY InitParserInv DEF Init
<1>2. <<>> \in Seq(Lines) /\ Len(<<>>) = 0
  BY EmptySeq
<1>3. SessionTypeOK
  <2>1. ParserTypeOK /\ transit \in Seq(Lines) /\ sent \in 0..Query
    BY <1>1, <1>2, SessionFacts DEF Init, ParserInv
  <2>2. outcome \in OutcomeRecord
    BY DEF Init, OutcomeRecord, NoOutcome
  <2> QED
    BY <2>1, <2>2 DEF Init, SessionTypeOK
<1>4. DialogueFits /\ AckFits /\ WaiterFits /\ CleanupFits
  BY SessionFacts
     DEF Init, ParserInit, DialogueFits, AckFits, WaiterFits, CleanupFits
<1>5. LinksAnswerQuery
  BY <1>2 DEF Init, ParserInit, LinksAnswerQuery, LinksAnswer
<1>6. RetryOnlyBeforeSideEffect /\ OutcomeIsEarned
  BY DEF Init, RetryOnlyBeforeSideEffect, OutcomeIsEarned, Retryable, QuotaAction,
     NoOutcome
<1> QED
  BY <1>1, <1>3, <1>4, <1>5, <1>6 DEF SessionInv

LEMMA CleanupKeeps ==
  ASSUME SessionInv, Cleanup
  PROVE  /\ ParserInv' /\ waiter' = NoRead /\ closed' /\ destroyed'
         /\ socket' = "closed" /\ connectTimer' = FALSE /\ overall' = FALSE
         /\ \A r \in Reads : Same(r)
         /\ UNCHANGED <<taken, pushed>>
<1>1. CASE destroyed
  <2>1. UNCHANGED parserVars /\ UNCHANGED <<socket, destroyed, connectTimer, overall>>
    BY <1>1 DEF Cleanup
  <2>2. closed /\ waiter = NoRead
    BY <1>1 DEF SessionInv, CleanupFits, ParserInv, NobodyWaitsInVain
  <2> QED
    BY <1>1, <2>1, <2>2, ParserStays
       DEF SessionInv, CleanupFits, SessionTypeOK, parserVars, Same
<1>2. CASE ~destroyed
  <2>1. OnClose
    BY <1>2 DEF Cleanup
  <2>2. FailWith(TRUE, errored, "closed") /\ "closed" \in Errors
        /\ errored \in Errors \cup {"none"}
    BY <2>1 DEF OnClose, SessionInv, ParserInv, ParserTypeOK, Errors
  <2> QED
    BY <1>2, <2>2, FailGives DEF SessionInv, Cleanup, TimersAfterCleanup
<1> QED
  BY <1>1, <1>2

\* What follows from the parts of the invariant wherever the call is.
LEMMA UnchargedIsReleased ==
  \A p, c : p \in Uncharged => QuotaActionFor(p, c) = "release"
<1>1. \A p : p \in Uncharged => p \notin AfterQuery
  BY DEF Uncharged, AfterQuery
<1> QED
  BY <1>1, Zenon DEF QuotaActionFor

LEMMA NextAwait ==
  /\ After(Language) = "ask" /\ After(Query) = "askAnswer"
  /\ \A n : n # Language /\ n # Query => After(n) = "send"
<1>1. Language # Query
  BY SessionFacts
<1> QED
  BY <1>1 DEF After

LEMMA LineIsLinked ==
  ASSUME SessionInv, taken # <<>>, Line.says = "url"
  PROVE  Line.to = "query"
<1>1. taken \in Seq(Lines) /\ buffer \in Seq(Lines) /\ taken \o buffer = pushed
  BY DEF SessionInv, ParserInv, ParserTypeOK, LinesInOrder
<1>2. Len(taken) \in 1..Len(taken) /\ Len(taken) <= Len(pushed)
      /\ Len(pushed) \in Nat
  BY <1>1, EmptySeq, ConcatProperties
<1>3. pushed[Len(taken)] = Line
  BY <1>1, <1>2, ConcatProperties DEF Line
<1> QED
  BY <1>2, <1>3 DEF SessionInv, LinksAnswerQuery, LinksAnswer

\* The first answer stays the first.
LEMMA ConsentStays ==
  ASSUME NEW s \in Seq(Lines), s # <<>>, NEW l \in Lines
  PROVE  Append(s, l) # <<>> /\ Head(Append(s, l)) = Head(s)
<1>1. Len(s) \in Nat \ {0}
  BY EmptySeq
<1> QED
  BY <1>1, AppendProperties

\* An outcome that says where the dialogue is.
Honest(o) ==
  /\ o \in OutcomeRecord
  /\ o.kind = "failure" =>
       \/ o.phase \in Uncharged /\ sent < Query
       \/ o.phase \in AfterQuery /\ sent = Query
  /\ o.kind = "report" =>
       sent = Query /\ taken # <<>> /\ Line.to = "query" /\ Line.says = "url"

\* An honest outcome is charged and retried as it should be.
LEMMA HonestIsEarned ==
  ASSUME SessionTypeOK, Honest(outcome)
  PROVE  RetryOnlyBeforeSideEffect /\ OutcomeIsEarned
<1>1. sent < Query => sent # Query
  BY SessionFacts DEF SessionTypeOK
<1>2. RetryOnlyBeforeSideEffect
  BY DEF Honest, RetryOnlyBeforeSideEffect, Retryable, IsRetryable, AfterQuery
<1>3. QuotaAction \in {"consume", "hold"} => sent = Query
  BY UnchargedIsReleased DEF Honest, QuotaAction
<1> QED
  BY <1>2, <1>3 DEF OutcomeIsEarned, Honest

LEMMA LeaveKeeps ==
  ASSUME SessionInv, NEW o, Honest(o), Leave(o)
  PROVE  SessionInv'
<1>1. /\ ParserInv' /\ waiter' = NoRead /\ closed' /\ destroyed'
      /\ socket' = "closed" /\ connectTimer' = FALSE /\ overall' = FALSE
      /\ \A r \in Reads : Same(r)
      /\ UNCHANGED <<taken, pushed>>
  BY CleanupKeeps DEF Leave
<1>2. pc' = "teardown" /\ outcome' = o /\ UNCHANGED <<sent, mock, transit, said>>
  BY DEF Leave, peerVars
<1>3. SessionTypeOK'
  BY <1>1, <1>2 DEF SessionInv, SessionTypeOK, ParserInv, Honest
<1>4. DialogueFits' /\ WaiterFits' /\ CleanupFits'
  BY <1>1, <1>2
     DEF SessionInv, DialogueFits, WaiterFits, CleanupFits, Consent
<1>5. AckFits'
  BY <1>1, <1>2, SessionFacts DEF SessionInv, AckFits, Same
<1>6. LinksAnswerQuery'
  BY <1>1, <1>2 DEF SessionInv, LinksAnswerQuery
<1>7. Honest(outcome)'
  BY <1>1, <1>2 DEF Honest, Line
<1>8. RetryOnlyBeforeSideEffect' /\ OutcomeIsEarned'
  <2>1. SessionTypeOK /\ Honest(outcome) => RetryOnlyBeforeSideEffect /\ OutcomeIsEarned
    BY HonestIsEarned
  <2>2. (SessionTypeOK /\ Honest(outcome) => RetryOnlyBeforeSideEffect /\ OutcomeIsEarned)'
    BY HonestIsEarned, PTL
  <2> QED
    BY <2>2, <1>3, <1>7
<1> QED
  BY <1>1, <1>3, <1>4, <1>5, <1>6, <1>8 DEF SessionInv

LEMMA ThrowKeeps ==
  ASSUME SessionInv, NEW c, sent < Query, Throw(c)
  PROVE  SessionInv'
<1>1. Honest(Failure("before-connect", c))
  BY FailuresAreOutcomes DEF Honest, Failure, Uncharged
<1> QED
  BY <1>1, LeaveKeeps DEF Throw

LEMMA ReportKeeps ==
  ASSUME SessionInv, pc \in {"end", "ending"}, Leave(Report)
  PROVE  SessionInv'
<1>1. taken # <<>> /\ Line.says = "url" /\ sent = Query
  BY DEF SessionInv, DialogueFits
<1>2. Honest(Report)
  BY <1>1, LineIsLinked DEF Honest, Report, OutcomeRecord
<1> QED
  BY <1>2, LeaveKeeps

-----------------------------------------------------------------------------
\* Every step keeps the invariant: first the steps of the call.

LEMMA StartKeeps == SessionInv /\ Start => SessionInv'
<1> SUFFICES ASSUME SessionInv, Start PROVE SessionInv'
  OBVIOUS
<1>1. /\ pc = "start" /\ sent = 0 /\ ~destroyed /\ ~overall /\ ~connectTimer
      /\ socket = "none" /\ mock = "none" /\ waiter = NoRead
      /\ outcome = NoOutcome
  BY DEF Start, SessionInv, DialogueFits, CleanupFits, WaiterFits
<1>2. ASSUME NEW o, Honest(o), ReturnEarly(o) PROVE SessionInv'
  <2>1. ParserInv' /\ pc' = "done" /\ outcome' = o
        /\ UNCHANGED <<parserVars, sent, socket, destroyed, connectTimer,
                       overall, mock, transit, said>>
    BY <1>2, ParserStays DEF ReturnEarly, peerVars, SessionInv
  <2>2. SessionTypeOK'
    BY <2>1, <1>2 DEF SessionInv, SessionTypeOK, ParserInv, Honest
  <2>3. DialogueFits' /\ AckFits' /\ WaiterFits' /\ CleanupFits'
        /\ LinksAnswerQuery'
    BY <1>1, <2>1, SessionFacts
       DEF SessionInv, DialogueFits, AckFits, WaiterFits, CleanupFits,
           LinksAnswerQuery, Consent, parserVars
  <2>4. Honest(outcome)'
    BY <1>2, <2>1 DEF Honest, Line, parserVars
  <2>5. (SessionTypeOK /\ Honest(outcome) => RetryOnlyBeforeSideEffect /\ OutcomeIsEarned)'
    BY HonestIsEarned, PTL
  <2> QED
    BY <2>1, <2>2, <2>3, <2>4, <2>5 DEF SessionInv
<1>3. ASSUME NEW c \in {"credential", "language", "count", "mock"},
             ReturnEarly(Failure("before-connect", c))
      PROVE  SessionInv'
  <2>1. Honest(Failure("before-connect", c))
    BY <1>1, FailuresAreOutcomes, SessionFacts DEF Honest, Failure, Uncharged
  <2> QED
    BY <1>2, <1>3, <2>1
<1>4. CASE ReturnEarly(Forbidden)
  <2>1. Honest(Forbidden)
    BY DEF Honest, Forbidden, OutcomeRecord
  <2> QED
    BY <1>2, <1>4, <2>1
<1>5. CASE /\ pc' = "connecting" /\ socket' = "connecting" /\ connectTimer' = TRUE
           /\ mock' \in {"none", "up"}
           /\ UNCHANGED <<parserVars, sent, destroyed, overall, outcome, peerVars>>
  <2>1. ParserInv' /\ UNCHANGED <<transit, said>>
    BY <1>5, ParserStays DEF peerVars, SessionInv
  <2>2. SessionTypeOK'
    BY <1>5, <2>1 DEF SessionInv, SessionTypeOK, ParserInv
  <2>3. DialogueFits' /\ AckFits' /\ WaiterFits' /\ CleanupFits'
        /\ LinksAnswerQuery'
    BY <1>1, <1>5, <2>1, SessionFacts
       DEF SessionInv, DialogueFits, AckFits, WaiterFits, CleanupFits,
           LinksAnswerQuery, Consent, parserVars
  <2>4. RetryOnlyBeforeSideEffect' /\ OutcomeIsEarned'
    BY <1>1, <1>5
       DEF RetryOnlyBeforeSideEffect, OutcomeIsEarned, Retryable, QuotaAction, NoOutcome
  <2> QED
    BY <2>1, <2>2, <2>3, <2>4 DEF SessionInv
<1>6. /\ Loopback # Public
      /\ \A env \in Environments : ResolveSubmitMode(env) \in {Public, Loopback}
  BY DEF Loopback, Public, ResolveSubmitMode
<1>7. \/ \E c \in {"credential", "language", "count", "mock"} :
          ReturnEarly(Failure("before-connect", c))
      \/ ReturnEarly(Forbidden)
      \/ /\ pc' = "connecting" /\ socket' = "connecting" /\ connectTimer' = TRUE
         /\ mock' \in {"none", "up"}
         /\ UNCHANGED <<parserVars, sent, destroyed, overall, outcome, peerVars>>
  BY <1>6 DEF Start
<1> QED
  BY <1>3, <1>4, <1>5, <1>7

\* A step that leaves the parser, the dialogue's lines and the outcome alone.
LEMMA QuietKeeps ==
  ASSUME SessionInv, UNCHANGED <<parserVars, outcome, transit>>,
         SessionTypeOK', DialogueFits', AckFits', WaiterFits', CleanupFits',
         outcome = NoOutcome \/ sent' = sent
  PROVE  SessionInv'
<1>1. ParserInv'
  BY ParserStays DEF SessionInv
<1>2. LinksAnswerQuery'
  BY DEF SessionInv, LinksAnswerQuery, parserVars
<1>3. RetryOnlyBeforeSideEffect' /\ OutcomeIsEarned'
  <2>1. CASE outcome = NoOutcome
    BY <2>1
       DEF RetryOnlyBeforeSideEffect, OutcomeIsEarned, Retryable, QuotaAction, NoOutcome
  <2>2. CASE sent' = sent
    BY <2>2
       DEF SessionInv, RetryOnlyBeforeSideEffect, OutcomeIsEarned, Retryable,
           QuotaAction, Line, parserVars
  <2> QED
    BY <2>1, <2>2
<1> QED
  BY <1>1, <1>2, <1>3 DEF SessionInv

LEMMA IssueKeeps == SessionInv /\ (IssueWrite \/ IssueEnd) => SessionInv'
<1>1. ASSUME SessionInv, IssueWrite PROVE SessionInv'
  <2>1. CASE destroyed
    <3>1. sent < Query
      BY <1>1 DEF IssueWrite, SessionInv, SessionTypeOK
    <3> QED
      BY <1>1, <2>1, <3>1, ThrowKeeps DEF IssueWrite
  <2>2. CASE ~destroyed
    <3>1. UNCHANGED <<parserVars, outcome, transit, sent>>
      BY <1>1, <2>2 DEF IssueWrite, peerVars
    <3>2. SessionTypeOK'
      BY <1>1, <2>2
         DEF IssueWrite, SessionInv, SessionTypeOK, ParserTypeOK, parserVars, peerVars
    <3>3. DialogueFits' /\ AckFits' /\ WaiterFits' /\ CleanupFits'
      BY <1>1, <2>2
         DEF IssueWrite, SessionInv, DialogueFits, AckFits, WaiterFits, CleanupFits,
             Consent, parserVars
    <3> QED
      BY <1>1, <3>1, <3>2, <3>3, QuietKeeps
  <2> QED
    BY <2>1, <2>2
<1>2. ASSUME SessionInv, IssueEnd PROVE SessionInv'
  <2>1. CASE destroyed
    BY <1>2, <2>1, ReportKeeps DEF IssueEnd
  <2>2. CASE ~destroyed
    <3>1. UNCHANGED <<parserVars, outcome, transit, sent>>
      BY <1>2, <2>2 DEF IssueEnd, peerVars
    <3>2. SessionTypeOK'
      BY <1>2, <2>2
         DEF IssueEnd, SessionInv, SessionTypeOK, ParserTypeOK, parserVars, peerVars
    <3>3. DialogueFits' /\ AckFits' /\ WaiterFits' /\ CleanupFits'
      BY <1>2, <2>2, SessionFacts
         DEF IssueEnd, SessionInv, DialogueFits, AckFits, WaiterFits, CleanupFits,
             Consent, Line, parserVars
    <3> QED
      BY <1>2, <3>1, <3>2, <3>3, QuietKeeps
  <2> QED
    BY <2>1, <2>2
<1> QED
  BY <1>1, <1>2

\* Calling readLine: the call is answered at once, or becomes the waiter.
LEMMA AskKeeps ==
  SessionInv /\ (Ask(Ack, "ask", "awaitAck") \/ Ask(Answer, "askAnswer", "awaitAnswer"))
    => SessionInv'
<1> DEFINE Calm == UNCHANGED <<sent, socket, destroyed, connectTimer, overall, mock,
                              outcome, transit, said>>
<1>1. ASSUME SessionInv, NEW r \in Reads, ReadLine(r), Calm,
             pc' \in {"awaitAck", "awaitAnswer"}, pc \in {"ask", "askAnswer"},
             DialogueFits', AckFits', WaiterFits'
      PROVE  SessionInv'
  <2>1. ParserInv' /\ closed' = closed /\ pushed' = pushed
    BY <1>1, ReadLineGives DEF SessionInv
  <2>2. SessionTypeOK'
    BY <1>1, <2>1 DEF SessionInv, SessionTypeOK, ParserInv
  <2>3. CleanupFits' /\ LinksAnswerQuery'
    BY <1>1, <2>1 DEF SessionInv, CleanupFits, LinksAnswerQuery
  <2>4. outcome' = NoOutcome
    BY <1>1 DEF SessionInv, CleanupFits
  <2>5. RetryOnlyBeforeSideEffect' /\ OutcomeIsEarned'
    BY <2>4
       DEF RetryOnlyBeforeSideEffect, OutcomeIsEarned, Retryable, QuotaAction, NoOutcome
  <2> QED
    BY <1>1, <2>1, <2>2, <2>3, <2>5 DEF SessionInv
<1>2. ASSUME SessionInv, Ask(Ack, "ask", "awaitAck") PROVE SessionInv'
  <2>1. /\ pc = "ask" /\ pc' = "awaitAck" /\ ReadLine(Ack) /\ Calm
        /\ sent = Language /\ taken = <<>> /\ waiter = NoRead
    BY <1>2, SessionFacts
       DEF Ask, SessionInv, DialogueFits, AckFits, WaiterFits, peerVars
  <2>2. \/ taken' = taken /\ read'[Ack] # "line" /\ waiter' \in {waiter, Ack}
        \/ waiter = NoRead /\ Given(Ack)
    BY <1>2, <2>1, SessionFacts, ReadLineGives DEF SessionInv
  <2>3. DialogueFits' /\ WaiterFits'
    BY <2>1, <2>2, <1>2, SessionFacts DEF DialogueFits, WaiterFits, Given
  <2>4. ASSUME Given(Ack) PROVE read'[Ack] = "line" /\ Len(taken') = 1
    BY <2>1, <2>4 DEF Given
  <2>5. AckFits'
    BY <2>1, <2>2, <2>4, SessionFacts DEF AckFits
  <2> QED
    BY <1>1, <1>2, <2>1, <2>3, <2>5, SessionFacts
<1>3. ASSUME SessionInv, Ask(Answer, "askAnswer", "awaitAnswer") PROVE SessionInv'
  <2>1. /\ pc = "askAnswer" /\ pc' = "awaitAnswer" /\ ReadLine(Answer) /\ Calm
        /\ sent = Query /\ Consent /\ waiter = NoRead
    BY <1>3, SessionFacts DEF Ask, SessionInv, DialogueFits, WaiterFits, peerVars
  <2>2. \/ taken' = taken /\ waiter' \in {waiter, Answer}
        \/ waiter' = NoRead /\ \E l \in Lines : taken' = Append(taken, l)
    BY <1>3, <2>1, SessionFacts, ReadLineGives DEF SessionInv, Given
  <2>3. Consent'
    BY <1>3, <2>1, <2>2, ConsentStays DEF Consent, SessionInv
  <2>4. DialogueFits' /\ WaiterFits' /\ AckFits'
    BY <2>1, <2>2, <2>3, SessionFacts DEF DialogueFits, WaiterFits, AckFits
  <2> QED
    BY <1>1, <1>3, <2>1, <2>4, SessionFacts
<1> QED
  BY <1>2, <1>3

\* The answer to "language".
LEMMA AckReadKeeps == SessionInv /\ AckRead => SessionInv'
<1> SUFFICES ASSUME SessionInv, AckRead PROVE SessionInv'
  OBVIOUS
<1>1. pc = "awaitAck" /\ sent = Language /\ sent < Query
  BY SessionFacts DEF AckRead, SessionInv, DialogueFits
<1>2. ASSUME NEW c, Leave(Failure("authenticated", c)) PROVE SessionInv'
  <2>1. Honest(Failure("authenticated", c))
    BY <1>1, FailuresAreOutcomes DEF Honest, Failure, Uncharged
  <2> QED
    BY <1>2, <2>1, LeaveKeeps
<1>3. CASE /\ read[Ack] = "line" /\ Accepted
           /\ pc' = "send"
           /\ UNCHANGED <<parserVars, sent, socket, destroyed, connectTimer,
                          overall, mock, outcome, peerVars>>
  <2>1. Len(taken) = 1 /\ taken \in Seq(Lines)
    BY <1>1, <1>3, SessionFacts DEF SessionInv, AckFits, ParserInv, ParserTypeOK
  <2>2. Consent
    <3>1. taken # <<>> /\ Head(taken) = taken[1]
      BY <2>1
    <3>2. taken[1].says = "yes"
      BY <1>3, <2>1 DEF Accepted, Line
    <3> QED
      BY <3>1, <3>2 DEF Consent
  <2>3. waiter = NoRead
    BY <1>1, <1>3 DEF SessionInv, WaiterFits, ParserInv, NobodyWaitsInVain
  <2>4. SessionTypeOK'
    BY <1>1, <1>3 DEF SessionInv, SessionTypeOK, ParserTypeOK, parserVars, peerVars
  <2>5. DialogueFits' /\ AckFits' /\ WaiterFits' /\ CleanupFits'
    BY <1>1, <1>3, <2>2, <2>3, SessionFacts
       DEF SessionInv, DialogueFits, AckFits, WaiterFits, CleanupFits, Consent,
           parserVars
  <2> QED
    BY <1>3, <2>4, <2>5, QuietKeeps DEF peerVars
<1> QED
  BY <1>2, <1>3 DEF AckRead

\* The answer to "query".
LEMMA AnswerReadKeeps == SessionInv /\ AnswerRead => SessionInv'
<1> SUFFICES ASSUME SessionInv, AnswerRead PROVE SessionInv'
  OBVIOUS
<1>1. pc = "awaitAnswer" /\ sent = Query /\ Consent
  BY SessionFacts DEF AnswerRead, SessionInv, DialogueFits
<1>2. ASSUME NEW p \in AfterQuery, NEW c, Leave(Failure(p, c)) PROVE SessionInv'
  <2>1. p \in {"before-connect", "authenticated", "query-sent", "awaiting-url"}
    BY DEF AfterQuery
  <2>2. Failure(p, c) \in OutcomeRecord
    BY <2>1, FailuresAreOutcomes
  <2>3. Honest(Failure(p, c))
    BY <1>1, <2>2 DEF Honest, Failure
  <2> QED
    BY <1>2, <2>3, LeaveKeeps
<1>3. CASE /\ read[Answer] = "line" /\ Line.says = "url"
           /\ pc' = "end"
           /\ UNCHANGED <<parserVars, sent, socket, destroyed, connectTimer,
                          overall, mock, outcome, peerVars>>
  <2>1. waiter = NoRead
    BY <1>1, <1>3 DEF SessionInv, WaiterFits, ParserInv, NobodyWaitsInVain
  <2>2. SessionTypeOK'
    BY <1>1, <1>3 DEF SessionInv, SessionTypeOK, ParserTypeOK, parserVars, peerVars
  <2>3. DialogueFits' /\ AckFits' /\ WaiterFits' /\ CleanupFits'
    BY <1>1, <1>3, <2>1, SessionFacts
       DEF SessionInv, DialogueFits, AckFits, WaiterFits, CleanupFits, Consent, Line,
           parserVars
  <2> QED
    BY <1>3, <2>2, <2>3, QuietKeeps DEF peerVars
<1>4. "query-sent" \in AfterQuery /\ "awaiting-url" \in AfterQuery
  BY DEF AfterQuery
<1> QED
  BY <1>2, <1>3, <1>4 DEF AnswerRead

-----------------------------------------------------------------------------
\* The events of the connection and of the timers.

LEMMA ConnectKeeps ==
  SessionInv /\ (ConnectTimerFires \/ ConnectFails \/ Connected) => SessionInv'
<1>1. ASSUME SessionInv, NEW c, NotConnected(c) PROVE SessionInv'
  <2>1. sent < Query
    BY <1>1, SessionFacts DEF NotConnected, SessionInv, DialogueFits
  <2> QED
    BY <1>1, <2>1, ThrowKeeps DEF NotConnected, Throw
<1>2. ASSUME SessionInv, Connected PROVE SessionInv'
  <2>1. UNCHANGED <<parserVars, outcome, transit, sent>>
    BY <1>2 DEF Connected, peerVars
  <2>2. pc = "connecting" /\ sent = 0 /\ ~destroyed /\ ~overall /\ waiter = NoRead
    BY <1>2 DEF Connected, SessionInv, DialogueFits, WaiterFits
  <2>3. SessionTypeOK'
    <3>1. ParserTypeOK' /\ UNCHANGED <<transit, said>>
      BY <1>2, ParserStays DEF Connected, SessionInv, ParserInv, peerVars
    <3>2. sent' = 0 /\ 0 \in 0..Query /\ 0 < Query
      BY <1>2, <2>2, SessionFacts DEF Connected
    <3> QED
      BY <1>2, <3>1, <3>2 DEF Connected, SessionInv, SessionTypeOK
  <2>4. DialogueFits' /\ AckFits'
    BY <1>2, <2>2, SessionFacts
       DEF Connected, SessionInv, DialogueFits, AckFits, Consent, parserVars
  <2>5. WaiterFits' /\ CleanupFits'
    BY <1>2, <2>2
       DEF Connected, SessionInv, WaiterFits, CleanupFits, parserVars
  <2> QED
    BY <1>2, <2>1, <2>3, <2>4, <2>5, QuietKeeps
<1> QED
  BY <1>1, <1>2 DEF ConnectTimerFires, ConnectFails

LEMMA WriteAcceptedKeeps == SessionInv /\ WriteAccepted => SessionInv'
<1> SUFFICES ASSUME SessionInv, WriteAccepted PROVE SessionInv'
  OBVIOUS
<1> DEFINE n == sent + 1
<1>1. /\ pc = "writing" /\ sent \in Nat /\ sent < Query /\ sent' = n
      /\ pc' = After(n)
      /\ UNCHANGED <<parserVars, socket, destroyed, connectTimer, overall, mock,
                     outcome, transit, said>>
  BY SessionFacts DEF WriteAccepted, SessionInv, SessionTypeOK, peerVars
<1>2. /\ n = Language => pc' = "ask"
      /\ n = Query => pc' = "askAnswer"
      /\ n # Language /\ n # Query => pc' = "send"
  BY <1>1, NextAwait
<1>3. SessionTypeOK'
  <2>1. sent' \in 0..Query /\ (pc' \in {"send", "writing"} => sent' < Query)
    BY <1>1, <1>2, SessionFacts
  <2>2. pc' \in {"ask", "askAnswer", "send"}
    BY <1>2
  <2> QED
    BY <1>1, <2>1, <2>2 DEF SessionInv, SessionTypeOK, ParserTypeOK, parserVars
<1>4. DialogueFits'
  <2>1. n > Language => Consent
    BY <1>1, SessionFacts DEF SessionInv, DialogueFits, AckFits
  <2> QED
    BY <1>1, <1>2, <2>1, SessionFacts DEF DialogueFits, Consent, parserVars
<1>5. AckFits'
  <2>1. n <= Language => read[Ack] = "idle" /\ taken = <<>>
    BY <1>1, SessionFacts DEF SessionInv, AckFits
  <2> QED
    BY <1>1, <1>2, <2>1, SessionFacts DEF AckFits, parserVars
<1>6. WaiterFits' /\ CleanupFits'
  BY <1>1, <1>2 DEF SessionInv, WaiterFits, CleanupFits, parserVars
<1>7. outcome = NoOutcome
  BY <1>1 DEF SessionInv, CleanupFits
<1> QED
  BY <1>1, <1>3, <1>4, <1>5, <1>6, <1>7, QuietKeeps

LEMMA WriteEndsKeep ==
  SessionInv /\ (EndAccepted \/ WriteFails \/ OverallFires) => SessionInv'
<1>1. ASSUME SessionInv, NEW c, pc = "writing", Throw(c) PROVE SessionInv'
  BY <1>1, ThrowKeeps DEF SessionInv, SessionTypeOK
<1>2. ASSUME SessionInv, pc = "ending", Leave(Report) PROVE SessionInv'
  BY <1>2, ReportKeeps
<1>3. ASSUME SessionInv, overall' = FALSE,
             UNCHANGED <<parserVars, pc, sent, socket, destroyed, connectTimer,
                         mock, outcome, peerVars>>
      PROVE  SessionInv'
  <2>1. SessionTypeOK'
    <3>1. ParserTypeOK' /\ UNCHANGED <<transit, said>>
      BY <1>3, ParserStays DEF SessionInv, ParserInv, peerVars
    <3> QED
      BY <1>3, <3>1 DEF SessionInv, SessionTypeOK
  <2>2. DialogueFits' /\ AckFits' /\ WaiterFits' /\ CleanupFits'
    <3>1. DialogueFits'
      BY <1>3 DEF SessionInv, DialogueFits, Consent, Line, parserVars
    <3>2. AckFits'
      BY <1>3 DEF SessionInv, AckFits, Consent, parserVars
    <3>3. WaiterFits' /\ CleanupFits'
      BY <1>3 DEF SessionInv, WaiterFits, CleanupFits, parserVars
    <3> QED
      BY <3>1, <3>2, <3>3
  <2> QED
    BY <1>3, <2>1, <2>2, QuietKeeps DEF peerVars
<1> QED
  BY <1>1, <1>2, <1>3 DEF EndAccepted, WriteFails, OverallFires, EndFailed

LEMMA TeardownKeeps == SessionInv /\ Teardown => SessionInv'
<1> SUFFICES ASSUME SessionInv, Teardown PROVE SessionInv'
  OBVIOUS
<1>1. UNCHANGED <<parserVars, outcome, transit, sent>>
  BY DEF Teardown, peerVars
<1>2. SessionTypeOK'
  BY DEF Teardown, SessionInv, SessionTypeOK, ParserTypeOK, parserVars, peerVars
<1>3. DialogueFits' /\ AckFits' /\ WaiterFits' /\ CleanupFits'
  BY DEF Teardown, SessionInv, DialogueFits, AckFits, WaiterFits, CleanupFits,
         Consent, parserVars
<1> QED
  BY <1>1, <1>2, <1>3, QuietKeeps

LEMMA PeerClosesKeeps == SessionInv /\ PeerCloses => SessionInv'
<1> SUFFICES ASSUME SessionInv, PeerCloses PROVE SessionInv'
  OBVIOUS
<1>1. UNCHANGED <<parserVars, outcome, transit, sent>>
  BY DEF PeerCloses, peerVars
<1>2. SessionTypeOK'
  BY DEF PeerCloses, SessionInv, SessionTypeOK, ParserTypeOK, parserVars, peerVars
<1>3. DialogueFits' /\ AckFits' /\ WaiterFits' /\ CleanupFits'
  BY DEF PeerCloses, SessionInv, DialogueFits, AckFits, WaiterFits, CleanupFits,
         Consent, Line, parserVars
<1> QED
  BY <1>1, <1>2, <1>3, QuietKeeps

-----------------------------------------------------------------------------
\* What the socket and the peer bring.

LEMMA LinksJoin ==
  ASSUME NEW s \in Seq(Lines), NEW t \in Seq(Lines), LinksAnswer(s), LinksAnswer(t),
         NEW n \in 0..Len(t)
  PROVE  /\ SubSeq(t, 1, n) \in Seq(Lines) /\ SubSeq(t, n + 1, Len(t)) \in Seq(Lines)
         /\ LinksAnswer(s \o SubSeq(t, 1, n))
         /\ LinksAnswer(SubSeq(t, n + 1, Len(t)))
<1> DEFINE u == SubSeq(t, 1, n)  v == SubSeq(t, n + 1, Len(t))
<1>1. Len(t) \in Nat /\ Len(s) \in Nat
  OBVIOUS
<1>2. u \in Seq(Lines) /\ Len(u) = n /\ \A i \in 1..n : u[i] = t[i]
  BY <1>1, SubSeqProperties
<1>3. /\ v \in Seq(Lines) /\ Len(v) = Len(t) - n
      /\ \A i \in 1..(Len(t) - n) : v[i] = t[n + i]
  BY <1>1, SubSeqProperties
<1>4. LinksAnswer(s \o u)
  <2>1. Len(s \o u) = Len(s) + n
    BY <1>2, ConcatProperties
  <2>2. ASSUME NEW i \in 1..Len(s \o u), (s \o u)[i].says = "url"
        PROVE  (s \o u)[i].to = "query"
    <3>1. CASE i <= Len(s)
      <4>1. (s \o u)[i] = s[i] /\ i \in 1..Len(s)
        BY <1>1, <1>2, <3>1, ConcatProperties
      <4> QED
        BY <2>2, <4>1 DEF LinksAnswer
    <3>2. CASE i > Len(s)
      <4>1. (s \o u)[i] = u[i - Len(s)] /\ i - Len(s) \in 1..n
        BY <1>1, <1>2, <2>1, <3>2, ConcatProperties
      <4>2. u[i - Len(s)] = t[i - Len(s)] /\ i - Len(s) \in 1..Len(t)
        BY <1>1, <1>2, <4>1
      <4> QED
        BY <2>2, <4>1, <4>2 DEF LinksAnswer
    <3> QED
      BY <1>1, <3>1, <3>2
  <2> QED
    BY <2>2 DEF LinksAnswer
<1>5. LinksAnswer(v)
  <2>1. ASSUME NEW i \in 1..Len(v), v[i].says = "url" PROVE v[i].to = "query"
    <3>1. v[i] = t[n + i] /\ n + i \in 1..Len(t)
      BY <1>1, <1>3
    <3> QED
      BY <2>1, <3>1 DEF LinksAnswer
  <2> QED
    BY <2>1 DEF LinksAnswer
<1> QED
  BY <1>2, <1>3, <1>4, <1>5

\* A step of the parser by itself, which gives no line to a call.
LEMMA ParserAloneKeeps ==
  ASSUME SessionInv, ParserInv', waiter' \in {waiter, NoRead},
         \A r \in Reads : Same(r),
         UNCHANGED <<taken, pc, sent, outcome>>,
         SessionTypeOK', LinksAnswerQuery', CleanupFits',
         pc \in {"start", "connecting"} => UNCHANGED <<socket, mock, destroyed, overall>>
  PROVE  SessionInv'
<1>1. DialogueFits'
  BY DEF SessionInv, DialogueFits, Consent, Line
<1>2. AckFits'
  BY SessionFacts DEF SessionInv, AckFits, Same, Consent
<1>3. WaiterFits'
  BY DEF SessionInv, WaiterFits
<1>4. RetryOnlyBeforeSideEffect' /\ OutcomeIsEarned'
  BY DEF SessionInv, RetryOnlyBeforeSideEffect, OutcomeIsEarned, Retryable,
         QuotaAction, Line
<1> QED
  BY <1>1, <1>2, <1>3, <1>4 DEF SessionInv

LEMMA ReadTimerKeeps ==
  ASSUME SessionInv, NEW r \in Reads, ReadTimerFires(r)
  PROVE  SessionInv'
<1>1. /\ ParserInv' /\ waiter' = NoRead /\ \A q \in Reads : Same(q)
      /\ UNCHANGED <<taken, pushed, closed>>
  BY DeadlineGives DEF ReadTimerFires, SessionInv
<1>2. UNCHANGED <<pc, sent, socket, destroyed, connectTimer, overall, mock, outcome,
                  transit, said>>
  BY DEF ReadTimerFires, sessionVars, peerVars
<1>3. SessionTypeOK' /\ CleanupFits' /\ LinksAnswerQuery'
  BY <1>1, <1>2
     DEF SessionInv, SessionTypeOK, ParserInv, CleanupFits, LinksAnswerQuery
<1> QED
  BY <1>1, <1>2, <1>3, ParserAloneKeeps

LEMMA CloseKeeps == SessionInv /\ CloseEvent => SessionInv'
<1> SUFFICES ASSUME SessionInv, CloseEvent PROVE SessionInv'
  OBVIOUS
<1>1. FailWith(TRUE, errored, "closed") /\ "closed" \in Errors
      /\ errored \in Errors \cup {"none"}
  BY DEF CloseEvent, OnClose, SessionInv, ParserInv, ParserTypeOK, Errors
<1>2. /\ ParserInv' /\ closed' = TRUE /\ waiter' = NoRead
      /\ \A r \in Reads : Same(r)
      /\ UNCHANGED <<taken, pushed>>
  BY <1>1, FailGives DEF SessionInv
<1>3. UNCHANGED <<pc, sent, socket, destroyed, connectTimer, overall, mock, outcome,
                  transit, said>>
  BY DEF CloseEvent, sessionVars, peerVars
<1>4. SessionTypeOK' /\ CleanupFits' /\ LinksAnswerQuery'
  BY <1>2, <1>3
     DEF SessionInv, SessionTypeOK, ParserInv, CleanupFits, LinksAnswerQuery
<1> QED
  BY <1>2, <1>3, <1>4, ParserAloneKeeps

LEMMA ErrorKeeps == SessionInv /\ ErrorEvent => SessionInv'
<1> SUFFICES ASSUME SessionInv, ErrorEvent PROVE SessionInv'
  OBVIOUS
<1>1. /\ socket \in {"open", "ended"} /\ FailWith(TRUE, "socket-error", "closed")
      /\ socket' = "closed" /\ destroyed' = TRUE
      /\ connectTimer' = FALSE /\ overall' = FALSE /\ transit' = <<>>
      /\ UNCHANGED <<pc, sent, mock, outcome, said>>
  BY DEF ErrorEvent, TimersAfterCleanup
<1>2. "closed" \in Errors /\ "socket-error" \in Errors \cup {"none"}
  BY DEF Errors
<1>3. /\ ParserInv' /\ closed' = TRUE /\ waiter' = NoRead
      /\ \A r \in Reads : Same(r)
      /\ UNCHANGED <<taken, pushed>>
  BY <1>1, <1>2, FailGives DEF SessionInv
<1>4. pc \notin {"start", "connecting"}
  BY <1>1 DEF SessionInv, DialogueFits
<1>5. SessionTypeOK'
  <2>1. transit' \in Seq(Lines) /\ ParserTypeOK'
    BY <1>1, <1>3, EmptySeq DEF ParserInv
  <2> QED
    BY <1>1, <2>1 DEF SessionInv, SessionTypeOK
<1>6. CleanupFits'
  BY <1>1, <1>3 DEF SessionInv, CleanupFits
<1>7. LinksAnswerQuery'
  BY <1>1, <1>3 DEF SessionInv, LinksAnswerQuery, LinksAnswer
<1> QED
  BY <1>1, <1>3, <1>4, <1>5, <1>6, <1>7, ParserAloneKeeps

LEMMA DataKeeps ==
  ASSUME SessionInv, NEW n \in 0..Len(transit), NEW t \in {"none", "part", "long"},
         Data(n, t)
  PROVE  SessionInv'
<1> DEFINE ls == SubSeq(transit, 1, n)
<1>1. transit \in Seq(Lines) /\ pushed \in Seq(Lines)
      /\ LinksAnswer(transit) /\ LinksAnswer(pushed)
  BY DEF SessionInv, SessionTypeOK, ParserInv, ParserTypeOK, LinksAnswerQuery
<1>2. /\ Push(ls, t) /\ transit' = SubSeq(transit, n + 1, Len(transit))
      /\ UNCHANGED <<pc, sent, socket, destroyed, connectTimer, overall, mock,
                     outcome, said>>
  BY DEF Data, sessionVars
<1>3. ls \in Seq(Lines) /\ transit' \in Seq(Lines)
      /\ LinksAnswer(pushed \o ls) /\ LinksAnswer(transit')
  BY <1>1, <1>2, LinksJoin
<1>4. /\ ParserInv' /\ closed' = closed /\ pushed' = pushed \o ls
      /\ \/ /\ taken' = taken /\ waiter' \in {waiter, NoRead}
            /\ \A r \in Reads : Same(r)
         \/ /\ waiter # NoRead /\ Given(waiter)
            /\ \A r \in Reads \ {waiter} : Same(r)
  BY <1>2, <1>3, PushGives DEF SessionInv
<1>5. SessionTypeOK'
  BY <1>2, <1>3, <1>4 DEF SessionInv, SessionTypeOK, ParserInv
<1>6. CleanupFits' /\ LinksAnswerQuery'
  BY <1>2, <1>3, <1>4 DEF SessionInv, CleanupFits, LinksAnswerQuery
<1>7. CASE /\ taken' = taken /\ waiter' \in {waiter, NoRead}
           /\ \A r \in Reads : Same(r)
  BY <1>2, <1>4, <1>5, <1>6, <1>7, ParserAloneKeeps
<1>8. CASE /\ waiter # NoRead /\ Given(waiter)
           /\ \A r \in Reads \ {waiter} : Same(r)
  <2>1. \/ pc = "awaitAck" /\ waiter = Ack /\ sent = Language
        \/ pc = "awaitAnswer" /\ waiter = Answer /\ sent = Query
    BY <1>8 DEF SessionInv, WaiterFits, DialogueFits
  <2>2. read[waiter] = "waiting" /\ taken \in Seq(Lines) /\ waiter' = NoRead
    BY <1>8 DEF SessionInv, ParserInv, ParserTypeOK, NobodyWaitsInVain, Given
  <2>3. PICK l \in Lines : taken' = Append(taken, l)
    BY <1>8 DEF Given
  <2>4. sent > Language => Consent'
    <3>1. sent > Language => taken # <<>> /\ Head(taken).says = "yes"
      BY DEF SessionInv, DialogueFits, Consent
    <3>2. taken # <<>> =>
            Append(taken, l) # <<>> /\ Head(Append(taken, l)) = Head(taken)
      BY <2>2, ConsentStays
    <3> QED
      BY <2>3, <3>1, <3>2 DEF Consent
  <2>5. DialogueFits' /\ WaiterFits'
    BY <1>2, <2>1, <2>2, <2>4, SessionFacts DEF DialogueFits, WaiterFits
  <2>6. AckFits'
    <3>1. CASE pc = "awaitAck"
      <4>1. taken = <<>> /\ read'[Ack] = "line"
        BY <1>8, <2>1, <2>2, <3>1, SessionFacts DEF SessionInv, AckFits, Given
      <4>2. Len(taken') = 1
        BY <2>3, <4>1
      <4> QED
        BY <1>2, <2>1, <3>1, <4>1, <4>2, SessionFacts DEF AckFits
    <3>2. CASE pc = "awaitAnswer"
      BY <1>2, <2>1, <3>2, SessionFacts DEF AckFits
    <3> QED
      BY <2>1, <3>1, <3>2
  <2>7. outcome' = NoOutcome
    BY <1>2, <2>1 DEF SessionInv, CleanupFits
  <2>8. RetryOnlyBeforeSideEffect' /\ OutcomeIsEarned'
    BY <2>7
       DEF RetryOnlyBeforeSideEffect, OutcomeIsEarned, Retryable, QuotaAction, NoOutcome
  <2> QED
    BY <1>4, <1>5, <1>6, <2>5, <2>6, <2>8 DEF SessionInv
<1> QED
  BY <1>4, <1>7, <1>8

LEMMA PeerSaysKeeps ==
  ASSUME SessionInv, NEW l \in Lines, PeerSays(l)
  PROVE  SessionInv'
<1>1. /\ transit' = Append(transit, l)
      /\ UNCHANGED <<parserVars, pc, sent, socket, destroyed, connectTimer, overall,
                     mock, outcome>>
  BY DEF PeerSays, sessionVars
<1>2. transit \in Seq(Lines) /\ transit' \in Seq(Lines)
  BY <1>1, AppendProperties DEF SessionInv, SessionTypeOK
<1>3. l.says = "url" => l.to = "query"
  BY DEF PeerSays
<1>4. LinksAnswer(transit')
  <2>1. /\ Len(transit') = Len(transit) + 1
        /\ \A i \in 1..Len(transit) : transit'[i] = transit[i]
        /\ transit'[Len(transit) + 1] = l
    BY <1>1, <1>2, AppendProperties
  <2>2. \A i \in 1..Len(transit) : transit[i].says = "url" => transit[i].to = "query"
    BY DEF SessionInv, LinksAnswerQuery, LinksAnswer
  <2>3. Len(transit) \in Nat
    BY <1>2
  <2>4. ASSUME NEW i \in 1..Len(transit'), transit'[i].says = "url"
        PROVE  transit'[i].to = "query"
    <3>1. CASE i = Len(transit) + 1
      BY <1>3, <2>1, <2>4, <3>1
    <3>2. CASE i \in 1..Len(transit)
      BY <2>1, <2>2, <2>4, <3>2
    <3> QED
      BY <2>1, <2>3, <3>1, <3>2
  <2> QED
    BY <2>4 DEF LinksAnswer
<1>5. ParserInv' /\ \A r \in Reads : Same(r)
  BY <1>1, ParserStays DEF SessionInv, Same, parserVars
<1>6. SessionTypeOK'
  <2>1. said' \subseteq {"language", "query"}
    <3>1. l.to \in {"language", "query", "none"}
      BY SessionAssumption
    <3> QED
      BY <3>1 DEF PeerSays, SessionInv, SessionTypeOK
  <2> QED
    BY <1>1, <1>2, <1>5, <2>1 DEF SessionInv, SessionTypeOK, ParserInv
<1>7. CleanupFits' /\ LinksAnswerQuery'
  BY <1>1, <1>4 DEF SessionInv, CleanupFits, LinksAnswerQuery, parserVars
<1> QED
  BY <1>1, <1>5, <1>6, <1>7, ParserAloneKeeps DEF parserVars

-----------------------------------------------------------------------------

LEMMA StutterKeeps == SessionInv /\ UNCHANGED vars => SessionInv'
<1> SUFFICES ASSUME SessionInv, UNCHANGED vars PROVE SessionInv'
  OBVIOUS
<1>1. UNCHANGED <<parserVars, pc, sent, socket, destroyed, connectTimer, overall, mock,
                  outcome, transit, said>>
  BY DEF vars, sessionVars, peerVars
<1>2. ParserInv' /\ \A r \in Reads : Same(r)
  BY <1>1, ParserStays DEF SessionInv, Same, parserVars
<1>3. SessionTypeOK' /\ CleanupFits' /\ LinksAnswerQuery'
  BY <1>1, <1>2
     DEF SessionInv, SessionTypeOK, ParserInv, CleanupFits, LinksAnswerQuery, parserVars
<1> QED
  BY <1>1, <1>2, <1>3, ParserAloneKeeps DEF parserVars

LEMMA NextSessionInv == SessionInv /\ [Next]_vars => SessionInv'
<1> SUFFICES ASSUME SessionInv, Next PROVE SessionInv'
  BY StutterKeeps
<1>1. CASE CallMoves
  BY <1>1, StartKeeps, IssueKeeps, AskKeeps, AckReadKeeps, AnswerReadKeeps DEF CallMoves
<1>2. CASE Events
  BY <1>2, ConnectKeeps, WriteAcceptedKeeps, WriteEndsKeep, ReadTimerKeeps, DataKeeps,
     CloseKeeps, ErrorKeeps, TeardownKeeps
     DEF Events
<1>3. CASE (\E l \in Lines : PeerSays(l)) \/ PeerCloses
  BY <1>3, PeerSaysKeeps, PeerClosesKeeps
<1> QED
  BY <1>1, <1>2, <1>3 DEF Next

\* The inductive invariant of one submission, for any number of files and any
\* behaviour of the peer and the network.
THEOREM SessionInvariant == Spec => []SessionInv
  BY InitSessionInv, NextSessionInv, PTL DEF Spec

\* What the call has written fits the place where it is.
THEOREM SessionTypes == Spec => []SessionTypeOK
<1>1. SessionInv => SessionTypeOK
  BY DEF SessionInv
<1> QED
  BY <1>1, SessionInvariant, PTL

\* No file leaves before the peer has accepted the language
\* (live-submit.js:144-165).
THEOREM SessionAsksFirst == Spec => []FilesNeedConsent
<1>1. SessionInv => FilesNeedConsent
  BY DEF SessionInv, DialogueFits, Consent, FilesNeedConsent
<1> QED
  BY <1>1, SessionInvariant, PTL

\* A failure that may be retried comes before the query was accepted
\* (failures.js:60-71).
THEOREM SessionRetriesSafely == Spec => []RetryOnlyBeforeSideEffect
<1>1. SessionInv => RetryOnlyBeforeSideEffect
  BY DEF SessionInv
<1> QED
  BY <1>1, SessionInvariant, PTL

\* Quota is charged for a query that was accepted only, and a report is a link
\* that answers it (live-submit.js:168-183).
THEOREM SessionEarnsOutcome == Spec => []OutcomeIsEarned
<1>1. SessionInv => OutcomeIsEarned
  BY DEF SessionInv
<1> QED
  BY <1>1, SessionInvariant, PTL

\* Nothing of a submission is left when it returns (live-submit.js:255-267).
THEOREM SessionLeavesNothing == Spec => []ReturnsClean
<1>1. ASSUME SessionInv PROVE ReturnsClean
  <2>1. SUFFICES ASSUME pc = "done"
                 PROVE  /\ ~connectTimer /\ ~overall /\ timers = {} /\ waiter = NoRead
                        /\ socket \in {"none", "closed"} /\ mock # "up"
    BY DEF ReturnsClean
  <2>2. waiter = NoRead
    BY <1>1, <2>1 DEF SessionInv, WaiterFits
  <2>3. timers = {}
    BY <1>1, <2>2, NoReadIsNone
       DEF SessionInv, ParserInv, ParserTypeOK, TimersAreWaiting, NoOrphanedReads
  <2> QED
    BY <1>1, <2>1, <2>2, <2>3 DEF SessionInv, CleanupFits
<1> QED
  BY <1>1, SessionInvariant, PTL

\* The parser serves the reads of the dialogue as it does those of any caller
\* (live-submit.js:130-170 calls line-parser.js:61-96).
THEOREM SessionServesReads == Spec => []LinesReachTheirReads
<1>1. SessionInv => LinesReachTheirReads
  BY DEF SessionInv, ParserInv, LinesReachTheirReads
<1> QED
  BY <1>1, SessionInvariant, PTL

\* What a submission answers is what happened on the wire: no file leaves without the
\* peer's consent, a failure that may be retried comes before the query was accepted,
\* and a report answers it (live-submit.js:144-195, failures.js:60-71).
THEOREM SessionReportsHonestly == Spec => []OutcomeIsHonest
<1>1. SessionTypeOK /\ FilesNeedConsent /\ RetryOnlyBeforeSideEffect /\ OutcomeIsEarned => OutcomeIsHonest
  BY DEF OutcomeIsHonest
<1> QED
  BY <1>1, SessionTypes, SessionAsksFirst, SessionRetriesSafely, SessionEarnsOutcome, PTL
=============================================================================
