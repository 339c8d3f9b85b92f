------------------------ MODULE FinalizeOutboxProofs ------------------------
(***************************************************************************)
(* The invariants of FinalizeOutbox, and that it implements QuotaLedger,   *)
(* hold for any sets of jobs, users and keys.                              *)
(***************************************************************************)
EXTENDS FinalizeOutbox, FiniteSetTheorems, WellFoundedInduction, TLAPS

\* What is known of a job before it exists and once it does.
RowsAreWhole ==
  \A j \in Jobs :
    /\ HasRow(j) => owner[j] \in Users
    /\ ~HasRow(j) =>
         /\ owner[j] = NoUser /\ ~reservedFor[j] /\ queries[j] = 0
         /\ j \notin validation \cup provider

\* Only a reservation can be consumed, and it is marked as reserved for good.
ChargesWereReserved == \A j \in Jobs : consumedFor[j] => reservedFor[j]

\* The inductive strengthening of the invariants.
IInv ==
  /\ TypeOK /\ RowsAreWhole /\ ChargesWereReserved
  /\ LedgerMatchesRows /\ EventsArePaid /\ OneQueryPerJob /\ OneJobPerKey
  /\ ManifestsAreSound

Charged == {j \in Jobs : consumedFor[j]}

\* A counter that equals the number of a user's jobs in A.
Counts(counter, A) == \A u \in Users : counter[u] = Cardinality(OwnedBy(u, A))

\* Files are numbered.
LEMMA FilesAreNumbered ==
  ASSUME NEW objects
  PROVE  DOMAIN FilesOf(objects) \subseteq Nat
<1>1. DOMAIN FilesOf(objects) = 1 .. Len(Members(objects)) BY DEF FilesOf
<1> QED BY <1>1

\* Some file is the first of those a reference can mean.
LEMMA LeastExists ==
  ASSUME NEW S \in SUBSET Nat, S # {}
  PROVE  \E n \in S : \A m \in S : n <= m
<1> DEFINE R == OpToRel(<, Nat)
<1>1. IsWellFoundedOn(R, Nat) BY NatLessThanWellFounded
<1>2. \A x, y \in Nat : x < y => <<x, y>> \in R BY DEF OpToRel
<1> HIDE DEF R
<1>3. PICK x \in S : \A y \in S : <<y, x>> \notin R BY <1>1, WFMin
<1>4. \A y \in S : ~(y < x) BY <1>2, <1>3
<1>5. \A y \in S : x <= y BY <1>4
<1> QED BY <1>5

\* A reference that hits something means a file of the manifest.
LEMMA ReferencesAreFiles ==
  ASSUME NEW objects, NEW ref, Hits(FilesOf(objects), ref) # {}
  PROVE  FileIdOf(FilesOf(objects), ref) \in DOMAIN FilesOf(objects)
<1> DEFINE H == Hits(FilesOf(objects), ref)
<1>1. H \subseteq DOMAIN FilesOf(objects) BY DEF Hits, ByPath, ByName
<1>2. \E n \in H : \A m \in H : n <= m
  <2>1. H \in SUBSET Nat BY <1>1, FilesAreNumbered
  <2> HIDE DEF H
  <2>2. H # {} BY DEF H
  <2> QED BY <2>1, <2>2, LeastExists
<1>3. FileIdOf(FilesOf(objects), ref) \in H BY <1>2 DEF FileIdOf
<1> QED BY <1>1, <1>3

\* The intake lets only sound manifests through, whatever is sent.
LEMMA AcceptedIsSound ==
  ASSUME NEW objects, NEW wanted, Accepted(objects, wanted)
  PROVE  Sound(Manifest(objects, wanted))
<1> DEFINE F == FilesOf(objects)
           M == Manifest(objects, wanted)
<1>1. M.files = F /\ M.groups = MapSafeGroups(F, wanted) BY DEF Manifest
<1>2. \A m, n \in DOMAIN F : F[m].path = F[n].path => m = n
  BY DEF Accepted, Collides
<1>3. ASSUME NEW g \in DOMAIN M.groups
      PROVE  M.groups[g] \subseteq DOMAIN F
  <2>1. CASE wanted = <<>>
    <3>1. M.groups = [h \in Hints(F) |-> {n \in DOMAIN F : F[n].hint = h}]
      BY <1>1, <2>1 DEF MapSafeGroups
    <3> QED BY <1>3, <3>1
  <2>2. CASE wanted # <<>>
    <3>1. M.groups = [i \in DOMAIN wanted |->
                        {FileIdOf(F, wanted[i][r]) : r \in DOMAIN wanted[i]}]
      BY <1>1, <2>2 DEF MapSafeGroups
    <3>2. \A i \in DOMAIN wanted : \A r \in DOMAIN wanted[i] : Hits(F, wanted[i][r]) # {}
      BY <2>2 DEF Accepted, GroupsMap
    <3>3. \A i \in DOMAIN wanted : \A r \in DOMAIN wanted[i] :
             FileIdOf(F, wanted[i][r]) \in DOMAIN F
      BY <3>2, ReferencesAreFiles
    <3> QED BY <1>3, <3>1, <3>3
  <2> QED BY <2>1, <2>2
<1> QED BY <1>1, <1>2, <1>3 DEF Sound

\* Sets of jobs are counted by natural numbers.
LEMMA OwnedIsFinite ==
  ASSUME NEW u \in Users, NEW A \in SUBSET Jobs
  PROVE  IsFiniteSet(OwnedBy(u, A)) /\ Cardinality(OwnedBy(u, A)) \in Nat
<1>1. IsFiniteSet(OwnedBy(u, A)) BY OutboxAssumption, FS_Subset DEF OwnedBy
<1> QED BY <1>1, FS_CardinalityType

\* Counters keep their type.
LEMMA CounterTypes ==
  ASSUME NEW counter \in [Users -> Nat], NEW W \in SUBSET Jobs
  PROVE  /\ More(counter, W) \in [Users -> Nat]
         /\ Less(counter, W) \in [Users -> Nat]
<1>1. \A u \in Users : Cardinality(OwnedBy(u, W)) \in Nat BY OwnedIsFinite
<1>2. More(counter, W) \in [Users -> Nat] BY <1>1 DEF More
<1>3. Less(counter, W) \in [Users -> Nat] BY <1>1 DEF Less
<1> QED BY <1>2, <1>3

\* More counts the jobs that join.
LEMMA MoreCounts ==
  ASSUME NEW counter \in [Users -> Nat], NEW A \in SUBSET Jobs,
         NEW W \in SUBSET Jobs, A \cap W = {}, Counts(counter, A)
  PROVE  Counts(More(counter, W), A \cup W)
<1> SUFFICES ASSUME NEW u \in Users
             PROVE  More(counter, W)[u] = Cardinality(OwnedBy(u, A \cup W))
  BY DEF Counts
<1> DEFINE a == OwnedBy(u, A)
           w == OwnedBy(u, W)
           b == OwnedBy(u, A \cup W)
<1>1. /\ IsFiniteSet(a) /\ Cardinality(a) \in Nat
      /\ IsFiniteSet(w) /\ Cardinality(w) \in Nat
      /\ IsFiniteSet(b) /\ Cardinality(b) \in Nat
  BY OwnedIsFinite
<1>2. b \ w = a /\ b \cap w = w BY DEF OwnedBy
<1>3. Cardinality(a) = Cardinality(b) - Cardinality(w)
  BY <1>1, <1>2, FS_Difference
<1>4. More(counter, W)[u] = counter[u] + Cardinality(w) BY DEF More
<1>5. counter[u] = Cardinality(a) BY DEF Counts
<1> QED BY <1>1, <1>3, <1>4, <1>5

\* Less counts the jobs that stay, and never has to stop at zero.
LEMMA LessCounts ==
  ASSUME NEW counter \in [Users -> Nat], NEW A \in SUBSET Jobs,
         NEW W \in SUBSET A, Counts(counter, A)
  PROVE  Counts(Less(counter, W), A \ W)
<1> SUFFICES ASSUME NEW u \in Users
             PROVE  Less(counter, W)[u] = Cardinality(OwnedBy(u, A \ W))
  BY DEF Counts
<1> DEFINE a == OwnedBy(u, A)
           w == OwnedBy(u, W)
           b == OwnedBy(u, A \ W)
<1>1. /\ IsFiniteSet(a) /\ Cardinality(a) \in Nat
      /\ Cardinality(w) \in Nat
      /\ Cardinality(b) \in Nat
  BY OwnedIsFinite
<1>2. b = a \ w /\ a \cap w = w BY DEF OwnedBy
<1>3. Cardinality(b) = Cardinality(a) - Cardinality(w)
  <2>1. Cardinality(a \ w) = Cardinality(a) - Cardinality(a \cap w)
    BY <1>1, FS_Difference
  <2> QED BY <1>2, <2>1
<1>4. Less(counter, W)[u] =
        IF counter[u] > Cardinality(w) THEN counter[u] - Cardinality(w) ELSE 0
  BY DEF Less
<1>5. counter[u] = Cardinality(a) BY DEF Counts
<1>6. Less(counter, W)[u] = Cardinality(b)
  <2> HIDE DEF a, w, b
  <2> QED BY <1>1, <1>3, <1>4, <1>5
<1> QED BY <1>6

\* The ledger invariant, said with Counts.
LEMMA LedgerIsCounts ==
  LedgerMatchesRows <=> Counts(reserved, Unspent(Jobs)) /\ Counts(consumed, Charged)
BY DEF LedgerMatchesRows, Counts, Charged

\* The service starts without jobs.
LEMMA InitInvariant == Init => IInv
<1> SUFFICES ASSUME Init PROVE IInv OBVIOUS
<1>1. TypeOK /\ RowsAreWhole /\ ChargesWereReserved
  BY DEF Init, TypeOK, RowsAreWhole, ChargesWereReserved, HasRow
<1>2. LedgerMatchesRows
  <2>1. \A u \in Users : /\ OwnedBy(u, Unspent(Jobs)) = {}
                         /\ OwnedBy(u, {j \in Jobs : consumedFor[j]}) = {}
    BY DEF Init, OwnedBy, Unspent
  <2> QED BY <2>1, FS_EmptySet DEF Init, LedgerMatchesRows
<1>3. EventsArePaid /\ OneQueryPerJob /\ OneJobPerKey
  BY DEF Init, EventsArePaid, OneQueryPerJob, OneJobPerKey, HasRow
<1>4. ManifestsAreSound BY DEF Init, ManifestsAreSound, NoManifest, Sound
<1> QED BY <1>1, <1>2, <1>3, <1>4 DEF IInv

\* finalize: the new row has no quota yet, and nobody has its key.
LEMMA FinalizeInvariant ==
  ASSUME IInv, NEW u \in Users, NEW k \in Keys, NEW j \in Jobs, NEW p \in Payloads,
         Finalize(u, k, j, p)
  PROVE  IInv'
<1> USE DEF IInv, HasRow
<1>1. TypeOK' BY DEF TypeOK, Finalize, quotaVars
<1>2. (RowsAreWhole /\ ChargesWereReserved)'
  BY DEF TypeOK, RowsAreWhole, ChargesWereReserved, Finalize, quotaVars
<1>3. LedgerMatchesRows'
  <2> SUFFICES ASSUME NEW v \in Users
               PROVE  /\ OwnedBy(v, Unspent(Jobs))' = OwnedBy(v, Unspent(Jobs))
                      /\ OwnedBy(v, {i \in Jobs : consumedFor[i]})' =
                           OwnedBy(v, {i \in Jobs : consumedFor[i]})
    BY DEF LedgerMatchesRows, Finalize, quotaVars
  <2>1. ~reservedFor[j] /\ ~consumedFor[j]
    BY DEF RowsAreWhole, ChargesWereReserved, Finalize
  <2>2. /\ owner' = [owner EXCEPT ![j] = u]
        /\ reservedFor' = reservedFor /\ consumedFor' = consumedFor
    BY DEF Finalize, quotaVars
  <2> QED BY <2>1, <2>2 DEF OwnedBy, Unspent, TypeOK
<1>4. (EventsArePaid /\ OneQueryPerJob)'
  BY DEF TypeOK, RowsAreWhole, EventsArePaid, OneQueryPerJob, Finalize, quotaVars
<1>5. OneJobPerKey'
  BY DEF TypeOK, OneJobPerKey, Known, Finalize
<1>6. ManifestsAreSound'
  <2>1. Sound(Manifest(p.objects, p.groups))
    BY AcceptedIsSound DEF Finalize
  <2>2. \A i \in Jobs : manifest'[i] \in {manifest[i], Manifest(p.objects, p.groups)}
    BY DEF Finalize, TypeOK
  <2> QED BY <2>1, <2>2 DEF ManifestsAreSound
<1> QED BY <1>1, <1>2, <1>3, <1>4, <1>5, <1>6

\* processValidationOutbox: the jobs that reserve had no reservation.
LEMMA ValidationInvariant ==
  ASSUME IInv, ProcessValidationOutbox
  PROVE  IInv'
<1> USE DEF IInv, HasRow
<1> DEFINE W == Wanted(validation)
<1>1. /\ W \subseteq validation /\ validation \subseteq Jobs
      /\ \A j \in Jobs : j \in W => status[j] # "canceled" /\ ~reservedFor[j]
                                    /\ ~consumedFor[j] /\ status[j] # "none"
      /\ validation' = {}
  BY DEF Wanted, TypeOK, OneQueryPerJob, ChargesWereReserved, RowsAreWhole,
         ProcessValidationOutbox, DoneValidations
<1>2. /\ status' = [j \in Jobs |-> IF j \in W THEN "queued" ELSE status[j]]
      /\ reservedFor' = [j \in Jobs |-> reservedFor[j] \/ j \in W]
      /\ reserved' = More(reserved, W)
      /\ provider' = provider \cup W
      /\ UNCHANGED <<owner, key, consumedFor, consumed, released, queries, manifest>>
  BY DEF ProcessValidationOutbox
<1> HIDE DEF W
<1>3. TypeOK'
  <2>1. reserved' \in [Users -> Nat] BY <1>1, <1>2, CounterTypes DEF TypeOK
  <2> QED BY <1>1, <1>2, <2>1 DEF TypeOK
<1>4. (RowsAreWhole /\ ChargesWereReserved)'
  BY <1>1, <1>2 DEF TypeOK, RowsAreWhole, ChargesWereReserved
<1>5. LedgerMatchesRows'
  <2>1. Counts(reserved, Unspent(Jobs)) /\ Counts(consumed, Charged)
    BY LedgerIsCounts
  <2>2. Unspent(Jobs)' = Unspent(Jobs) \cup W /\ Unspent(Jobs) \cap W = {}
    BY <1>1, <1>2 DEF Unspent, TypeOK
  <2>3. Counts(More(reserved, W), Unspent(Jobs) \cup W)
    <3>1. Unspent(Jobs) \in SUBSET Jobs /\ W \in SUBSET Jobs
      BY <1>1 DEF Unspent
    <3> QED BY <2>1, <2>2, <3>1, MoreCounts DEF TypeOK
  <2>4. Counts(reserved, Unspent(Jobs))'
    BY <1>2, <2>2, <2>3 DEF Counts, OwnedBy
  <2>5. Counts(consumed, Charged)'
    BY <1>2, <2>1 DEF Counts, OwnedBy, Charged
  <2> QED BY <2>4, <2>5 DEF LedgerMatchesRows, Counts, Charged
<1>6. (EventsArePaid /\ OneQueryPerJob)'
  BY <1>1, <1>2 DEF TypeOK, EventsArePaid, OneQueryPerJob
<1>7. OneJobPerKey' BY <1>1, <1>2 DEF TypeOK, OneJobPerKey
<1>8. ManifestsAreSound' BY DEF ManifestsAreSound, ProcessValidationOutbox
<1> QED BY <1>3, <1>4, <1>5, <1>6, <1>7, <1>8

\* processProviderOutbox: what is charged was reserved, and every entry is done.
LEMMA ProviderInvariant ==
  ASSUME IInv, NEW consume \in BOOLEAN, ProcessProviderOutbox(consume)
  PROVE  IInv'
<1> USE DEF IInv, HasRow
<1> DEFINE Sent == Wanted(provider)
           Paid == IF consume THEN Unspent(Sent) ELSE {}
           Back == Unspent(provider \ Sent)
<1>1. /\ Sent \subseteq provider /\ provider \subseteq Jobs
      /\ \A j \in Jobs : j \in Sent => queries[j] = 0 /\ status[j] # "none"
      /\ Paid \subseteq Unspent(Jobs) /\ Back \subseteq Unspent(Jobs)
  BY DEF Wanted, Unspent, TypeOK, OneQueryPerJob, RowsAreWhole
<1>2. /\ status' = [j \in Jobs |-> IF j \in Sent THEN "awaiting-report" ELSE status[j]]
      /\ reserved' = Less(reserved, Paid \cup Back)
      /\ consumed' = More(consumed, Paid)
      /\ released' = More(released, Back)
      /\ reservedFor' = [j \in Jobs |-> reservedFor[j] /\ j \notin Back]
      /\ consumedFor' = [j \in Jobs |-> consumedFor[j] \/ j \in Paid]
      /\ queries' = [j \in Jobs |-> IF j \in Sent THEN queries[j] + 1 ELSE queries[j]]
      /\ provider' = {}
      /\ UNCHANGED <<owner, key, validation, manifest>>
  BY DEF ProcessProviderOutbox, StatusAfterQuery
<1>3. /\ Paid \cap Back = {}
      /\ \A j \in Jobs : j \in Paid \cup Back => reservedFor[j] /\ ~consumedFor[j]
  BY DEF Unspent
<1> HIDE DEF Sent, Paid, Back
<1>4. TypeOK'
  <2>1. /\ reserved' \in [Users -> Nat] /\ consumed' \in [Users -> Nat]
        /\ released' \in [Users -> Nat]
    <3>1. Paid \subseteq Jobs /\ Back \subseteq Jobs BY <1>1 DEF Unspent
    <3> QED BY <1>2, <3>1, CounterTypes DEF TypeOK
  <2>2. status' \in [Jobs -> {"none", "uploaded", "queued", "awaiting-report", "canceled", "failed"}]
    BY <1>2 DEF TypeOK
  <2>3. queries' \in [Jobs -> Nat] BY <1>2 DEF TypeOK
  <2>4. reservedFor' \in [Jobs -> BOOLEAN] /\ consumedFor' \in [Jobs -> BOOLEAN]
    BY <1>2 DEF TypeOK
  <2> QED BY <1>2, <2>1, <2>2, <2>3, <2>4 DEF TypeOK
<1>5. (RowsAreWhole /\ ChargesWereReserved)'
  BY <1>1, <1>2, <1>3 DEF TypeOK, RowsAreWhole, ChargesWereReserved
<1>6. LedgerMatchesRows'
  <2>1. Counts(reserved, Unspent(Jobs)) /\ Counts(consumed, Charged)
    BY LedgerIsCounts
  <2>2. /\ Unspent(Jobs)' = Unspent(Jobs) \ (Paid \cup Back)
        /\ Charged' = Charged \cup Paid /\ Charged \cap Paid = {}
        /\ Unspent(Jobs) \in SUBSET Jobs /\ Charged \in SUBSET Jobs
        /\ Paid \cup Back \in SUBSET Unspent(Jobs) /\ Paid \in SUBSET Jobs
    BY <1>1, <1>2, <1>3 DEF Unspent, Charged, TypeOK
  <2>3. Counts(Less(reserved, Paid \cup Back), Unspent(Jobs) \ (Paid \cup Back))
    BY <2>1, <2>2, LessCounts DEF TypeOK
  <2>4. Counts(More(consumed, Paid), Charged \cup Paid)
    BY <2>1, <2>2, MoreCounts DEF TypeOK
  <2>5. Counts(reserved, Unspent(Jobs))'
    BY <1>2, <2>2, <2>3 DEF Counts, OwnedBy
  <2>6. Counts(consumed, Charged)'
    BY <1>2, <2>2, <2>4 DEF Counts, OwnedBy
  <2> QED BY <2>5, <2>6 DEF LedgerMatchesRows, Counts, Charged
<1>7. (EventsArePaid /\ OneQueryPerJob)'
  BY <1>1, <1>2 DEF TypeOK, EventsArePaid, OneQueryPerJob
<1>8. OneJobPerKey' BY <1>1, <1>2 DEF TypeOK, OneJobPerKey
<1>9. ManifestsAreSound' BY DEF ManifestsAreSound, ProcessProviderOutbox
<1> QED BY <1>4, <1>5, <1>6, <1>7, <1>8, <1>9

\* cancel and rollbackValidation: the row ends, its entry for the provider is
\* canceled or gone, and an unspent reservation is given back.
LEMMA EndInvariant ==
  ASSUME IInv, NEW j \in Jobs, Cancel(j) \/ RollbackValidation(j)
  PROVE  IInv'
<1> USE DEF IInv, HasRow
<1> DEFINE S == Unspent({j})
<1>1. /\ status[j] # "none"
      /\ status' \in {[status EXCEPT ![j] = "canceled"], [status EXCEPT ![j] = "failed"]}
      /\ provider' = IF status'[j] = "canceled" THEN provider ELSE provider \ {j}
      /\ UNCHANGED <<owner, key, validation, queries, consumed, consumedFor, manifest>>
  BY DEF Cancel, RollbackValidation, DroppedByRollback, ReleaseQuota, TypeOK
<1>2. /\ reserved' = Less(reserved, S) /\ released' = More(released, S)
      /\ reservedFor' = [reservedFor EXCEPT ![j] = @ /\ j \notin S]
  BY DEF Cancel, RollbackValidation, ReleaseQuota
<1>3. /\ S \subseteq Unspent(Jobs) /\ S \subseteq {j}
      /\ j \in S <=> reservedFor[j] /\ ~consumedFor[j]
  BY DEF Unspent
<1> HIDE DEF S
<1>4. TypeOK'
  <2>1. reserved' \in [Users -> Nat] /\ released' \in [Users -> Nat]
    <3>1. S \subseteq Jobs BY <1>3
    <3> QED BY <1>2, <3>1, CounterTypes DEF TypeOK
  <2>2. provider' \subseteq Jobs BY <1>1 DEF TypeOK
  <2>3. reservedFor' \in [Jobs -> BOOLEAN] BY <1>2 DEF TypeOK
  <2>4. status' \in [Jobs -> {"none", "uploaded", "queued", "awaiting-report", "canceled", "failed"}]
    BY <1>1 DEF TypeOK
  <2> QED BY <1>1, <2>1, <2>2, <2>3, <2>4 DEF TypeOK
<1>5. (RowsAreWhole /\ ChargesWereReserved)'
  BY <1>1, <1>2, <1>3 DEF TypeOK, RowsAreWhole, ChargesWereReserved
<1>6. LedgerMatchesRows'
  <2>1. Counts(reserved, Unspent(Jobs)) /\ Counts(consumed, Charged)
    BY LedgerIsCounts
  <2>2. /\ Unspent(Jobs)' = Unspent(Jobs) \ S
        /\ Unspent(Jobs) \in SUBSET Jobs /\ S \in SUBSET Unspent(Jobs)
    BY <1>1, <1>2, <1>3 DEF Unspent, TypeOK
  <2>3. Counts(Less(reserved, S), Unspent(Jobs) \ S)
    BY <2>1, <2>2, LessCounts DEF TypeOK
  <2>4. Counts(reserved, Unspent(Jobs))'
    BY <1>1, <1>2, <2>2, <2>3 DEF Counts, OwnedBy
  <2>5. Counts(consumed, Charged)'
    BY <1>1, <2>1 DEF Counts, OwnedBy, Charged
  <2> QED BY <2>4, <2>5 DEF LedgerMatchesRows, Counts, Charged
<1>7. EventsArePaid'
  BY <1>1, <1>2, <1>3 DEF TypeOK, EventsArePaid
<1>8. OneQueryPerJob'
  BY <1>1, <1>2, <1>3 DEF TypeOK, OneQueryPerJob
<1>9. OneJobPerKey' BY <1>1 DEF TypeOK, OneJobPerKey
<1>10. ManifestsAreSound' BY DEF ManifestsAreSound, Cancel, RollbackValidation
<1> QED BY <1>4, <1>5, <1>6, <1>7, <1>8, <1>9, <1>10

\* However calls interleave, the invariant holds (finalize.js:24-148).
THEOREM OutboxInvariant == Spec => []IInv
<1>1. IInv /\ [Next]_vars => IInv'
  <2> SUFFICES ASSUME IInv, [Next]_vars PROVE IInv' OBVIOUS
  <2>1. CASE \E u \in Users, k \in Keys, j \in Jobs, p \in Payloads : Finalize(u, k, j, p)
    BY <2>1, FinalizeInvariant
  <2>2. CASE ProcessValidationOutbox BY <2>2, ValidationInvariant
  <2>3. CASE \E consume \in BOOLEAN : ProcessProviderOutbox(consume)
    BY <2>3, ProviderInvariant
  <2>4. CASE \E j \in Jobs : Cancel(j) \/ RollbackValidation(j)
    BY <2>4, EndInvariant
  <2>5. CASE UNCHANGED vars
    <3>1. (TypeOK /\ RowsAreWhole /\ ChargesWereReserved)'
      BY <2>5 DEF vars, quotaVars, IInv, TypeOK, RowsAreWhole,
                  ChargesWereReserved, HasRow
    <3>2. LedgerMatchesRows'
      BY <2>5 DEF vars, quotaVars, IInv, LedgerMatchesRows, OwnedBy, Unspent
    <3>3. (EventsArePaid /\ OneQueryPerJob /\ OneJobPerKey)'
      BY <2>5 DEF vars, quotaVars, IInv, EventsArePaid, OneQueryPerJob,
                  OneJobPerKey, HasRow
    <3>4. ManifestsAreSound' BY <2>5 DEF vars, IInv, ManifestsAreSound
    <3> QED BY <3>1, <3>2, <3>3, <3>4 DEF IInv
  <2> QED BY <2>1, <2>2, <2>3, <2>4, <2>5 DEF Next
<1> QED BY <1>1, InitInvariant, PTL DEF Spec

\* The rows and counters keep their types (finalize.js:14-22).
THEOREM OutboxTypeOK == Spec => []TypeOK
BY OutboxInvariant, PTL DEF IInv

\* The quota counters of every user always match the user's rows, for any number
\* of jobs (finalize.js:19-22, 87-89, 109-114, 121-128).
THEOREM OutboxLedger == Spec => []LedgerMatchesRows
BY OutboxInvariant, PTL DEF IInv

\* A pending provider event is backed by an unspent reservation or belongs to a
\* canceled job (finalize.js:82-91, 100-107, 142-146).
THEOREM OutboxEventsArePaid == Spec => []EventsArePaid
BY OutboxInvariant, PTL DEF IInv

\* No job is sent to the provider twice (finalize.js:66-68, 76-92, 98-116).
THEOREM OutboxOneQuery == Spec => []OneQueryPerJob
BY OutboxInvariant, PTL DEF IInv

\* A user's idempotency key never names two jobs (finalize.js:38-43).
THEOREM OutboxOneJobPerKey == Spec => []OneJobPerKey
BY OutboxInvariant, PTL DEF IInv

\* No intake lets two files of a job be one file, or a group name a file that is not
\* there (ingest.js:92-253).
THEOREM OutboxManifests == Spec => []ManifestsAreSound
BY OutboxInvariant, PTL DEF IInv

-----------------------------------------------------------------------------
(* The refinement.                                                         *)

\* The service without jobs is the ledger without charges.
LEMMA LedgerInitMatches == Init => Ledger!LedgerInit
BY DEF Init, Ledger!LedgerInit, standing, HasRow

\* The ledger counts the same way.
LEMMA SameCardinality == \A S : Ledger!Cardinality(S) = Cardinality(S)
BY DEF Ledger!Cardinality, Cardinality

\* The counters are the tallies of the standings.
LEMMA LedgerIsBalanced ==
  ASSUME IInv
  PROVE  Ledger!Balanced
<1> SUFFICES ASSUME NEW u \in Users
             PROVE  /\ reserved[u] = Cardinality(Ledger!JobsOf(u, "reserved"))
                    /\ consumed[u] = Cardinality(Ledger!JobsOf(u, "consumed"))
  BY SameCardinality DEF Ledger!Balanced
<1>1. Ledger!JobsOf(u, "reserved") = OwnedBy(u, Unspent(Jobs))
  <2>1. \A j \in Jobs : /\ reservedFor[j] \in BOOLEAN /\ consumedFor[j] \in BOOLEAN
    BY DEF IInv, TypeOK
  <2>2. ASSUME NEW j \in Jobs
        PROVE  standing[j] = "reserved" <=> reservedFor[j] /\ ~consumedFor[j]
    BY <2>1 DEF standing
  <2> QED BY <2>2 DEF Ledger!JobsOf, OwnedBy, Unspent
<1>2. Ledger!JobsOf(u, "consumed") = OwnedBy(u, {j \in Jobs : consumedFor[j]})
  BY DEF Ledger!JobsOf, OwnedBy, standing, IInv, TypeOK
<1> QED BY <1>1, <1>2 DEF IInv, LedgerMatchesRows

\* A job's standing only moves forward, and only once somebody owns the job.
LEMMA StandingMoves ==
  ASSUME IInv, [Next]_vars, NEW j \in Jobs
  PROVE  /\ <<standing[j], standing[j]'>> \in Ledger!Moves
         /\ owner[j] # NoUser => owner'[j] = owner[j]
         /\ owner[j] = NoUser => standing[j]' = standing[j]
<1> USE DEF IInv, HasRow
<1> DEFINE Later == {<<"open", "reserved">>, <<"reserved", "consumed">>,
                     <<"reserved", "closed">>, <<"open", "closed">>}
           Moved == \/ <<standing[j], standing[j]'>> \in Later
                    \/ standing[j]' = standing[j]
<1>1. standing[j] \in Ledger!Standings
  BY DEF standing, Ledger!Standings, TypeOK
<1>2. Moved => <<standing[j], standing[j]'>> \in Ledger!Moves
  BY <1>1 DEF Ledger!Moves
<1>3. /\ status[j] = "none" => owner[j] = NoUser /\ ~reservedFor[j]
                                /\ j \notin validation \cup provider
      /\ status[j] # "none" => owner[j] # NoUser
      /\ consumedFor[j] => reservedFor[j]
      /\ j \in validation => ~reservedFor[j]
      /\ reservedFor[j] \in BOOLEAN /\ consumedFor[j] \in BOOLEAN
  BY OutboxAssumption
  DEF RowsAreWhole, ChargesWereReserved, OneQueryPerJob, TypeOK
<1>4. ASSUME NEW u \in Users, NEW k \in Keys, NEW i \in Jobs, NEW p \in Payloads,
             Finalize(u, k, i, p)
      PROVE  /\ standing[j]' = standing[j]
             /\ owner[j] # NoUser => owner'[j] = owner[j]
  <2>1. /\ reservedFor' = reservedFor /\ consumedFor' = consumedFor
        /\ status[i] = "none"
        /\ status' = [status EXCEPT ![i] = "uploaded"]
        /\ owner' = [owner EXCEPT ![i] = u]
        /\ validation' = validation \cup {i}
    BY <1>4 DEF Finalize, quotaVars
  <2>2. CASE i = j BY <1>3, <2>1, <2>2 DEF standing, TypeOK
  <2>3. CASE i # j BY <2>1, <2>3 DEF standing, TypeOK
  <2> QED BY <2>2, <2>3
<1>5. CASE ProcessValidationOutbox
  <2>1. /\ owner' = owner /\ consumedFor' = consumedFor
        /\ validation' = {}
        /\ status[j] = "none" <=> status'[j] = "none"
        /\ reservedFor'[j] = (reservedFor[j] \/ j \in Wanted(validation))
        /\ j \in Wanted(validation) => j \in validation
    BY <1>3, <1>5 DEF ProcessValidationOutbox, DoneValidations, Wanted, TypeOK
  <2>2. Moved BY <1>3, <2>1 DEF standing
  <2>3. owner[j] = NoUser => standing[j]' = standing[j]
    BY <1>3, <2>1 DEF standing
  <2> QED BY <1>2, <2>1, <2>2, <2>3
<1>6. ASSUME NEW consume \in BOOLEAN, ProcessProviderOutbox(consume)
      PROVE  Moved /\ owner' = owner
             /\ (owner[j] = NoUser => standing[j]' = standing[j])
  <2> DEFINE Sent == Wanted(provider)
             Paid == IF consume THEN Unspent(Sent) ELSE {}
             Back == Unspent(provider \ Sent)
  <2>1. /\ owner' = owner /\ validation' = validation
        /\ reservedFor'[j] = (reservedFor[j] /\ j \notin Back)
        /\ consumedFor'[j] = (consumedFor[j] \/ j \in Paid)
    BY <1>6 DEF ProcessProviderOutbox
  <2>2. /\ j \in Paid => reservedFor[j] /\ ~consumedFor[j] /\ j \in provider
                         /\ j \notin Back
        /\ j \in Back => reservedFor[j] /\ ~consumedFor[j] /\ j \in provider
    BY DEF Unspent, Wanted
  <2>3. status[j] = "none" <=> status'[j] = "none"
    BY <1>3, <1>6 DEF ProcessProviderOutbox, StatusAfterQuery, Wanted, TypeOK
  <2> HIDE DEF Sent, Paid, Back
  <2>4. Moved BY <1>3, <2>1, <2>2, <2>3 DEF standing
  <2>5. owner[j] = NoUser => standing[j]' = standing[j]
    BY <1>3, <2>1, <2>2, <2>3 DEF standing
  <2> QED BY <2>1, <2>4, <2>5
<1>7. ASSUME NEW i \in Jobs, Cancel(i) \/ RollbackValidation(i)
      PROVE  Moved /\ owner' = owner
             /\ (owner[j] = NoUser => standing[j]' = standing[j])
  <2>1. /\ owner' = owner /\ validation' = validation
        /\ consumedFor' = consumedFor
        /\ status[i] # "none"
        /\ status[j] = "none" <=> status'[j] = "none"
        /\ reservedFor'[j] = (reservedFor[j] /\ (i = j => j \notin Unspent({i})))
    BY <1>3, <1>7 DEF Cancel, RollbackValidation, ReleaseQuota, TypeOK
  <2>2. j \in Unspent({i}) <=> i = j /\ reservedFor[j] /\ ~consumedFor[j]
    BY DEF Unspent
  <2>3. Moved BY <1>3, <2>1, <2>2 DEF standing
  <2>4. owner[j] = NoUser => standing[j]' = standing[j]
    BY <1>3, <2>1, <2>2 DEF standing
  <2> QED BY <2>1, <2>3, <2>4
<1>8. CASE UNCHANGED vars
  BY <1>2, <1>8 DEF vars, quotaVars, standing
<1> HIDE DEF Moved
<1>9. CASE \E u \in Users, k \in Keys, i \in Jobs, p \in Payloads : Finalize(u, k, i, p)
  BY <1>2, <1>4, <1>9 DEF Moved
<1>10. CASE \E consume \in BOOLEAN : ProcessProviderOutbox(consume)
  BY <1>2, <1>6, <1>10
<1>11. CASE \E i \in Jobs : Cancel(i) \/ RollbackValidation(i)
  BY <1>2, <1>7, <1>11
<1> QED BY <1>5, <1>8, <1>9, <1>10, <1>11 DEF Next

\* The finalize service implements QuotaLedger: a job is charged once at most, a
\* reservation ends as a charge or a release for good, and the totals of every
\* user stay balanced (finalize.js:73-148).
THEOREM OutboxKeepsQuota == Spec => QuotaIsKept
<1>1. IInv => Ledger!Balanced BY LedgerIsBalanced
<1>2. IInv' => Ledger!Balanced' BY <1>1, PTL
<1>3. IInv /\ IInv' /\ [Next]_vars => [Ledger!LedgerStep]_(Ledger!ledgerVars)
  <2> SUFFICES ASSUME IInv, IInv', [Next]_vars PROVE Ledger!LedgerStep
    OBVIOUS
  <2>1. Ledger!Balanced' BY <1>2
  <2>2. \A j \in Jobs :
          /\ <<standing[j], standing[j]'>> \in Ledger!Moves
          /\ owner[j] # NoUser => owner'[j] = owner[j]
          /\ owner[j] = NoUser => standing[j]' = standing[j]
    BY StandingMoves
  <2> QED BY <2>1, <2>2 DEF Ledger!LedgerStep
<1> QED BY <1>3, LedgerInitMatches, OutboxInvariant, PTL
    DEF Spec, QuotaIsKept, Ledger!LedgerSpec

\* The ledger's sums are those of the rows' flags, and every provider event was paid for
\* (finalize.js:76-180).
THEOREM OutboxLedgerIsHonest == Spec => []LedgerIsHonest
<1>1. TypeOK /\ LedgerMatchesRows /\ EventsArePaid => LedgerIsHonest
  BY DEF LedgerIsHonest
<1> QED
  BY <1>1, OutboxTypeOK, OutboxLedger, OutboxEventsArePaid, PTL

\* A retried finalize finds the job of its first attempt, and a job asks the provider
\* once (finalize.js:36-74, 95-140).
THEOREM OutboxJobsAreSingle == Spec => []JobsAreSingle
<1>1. OneJobPerKey /\ OneQueryPerJob /\ ManifestsAreSound => JobsAreSingle
  BY DEF JobsAreSingle
<1> QED
  BY <1>1, OutboxOneJobPerKey, OutboxOneQuery, OutboxManifests, PTL
=============================================================================
