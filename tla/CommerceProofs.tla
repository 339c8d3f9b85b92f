--------------------------- MODULE CommerceProofs ---------------------------
(***************************************************************************)
(* The books of Commerce balance for any users, checkout sessions, runs of *)
(* a package and order of the webhooks, however often they are delivered.  *)
(***************************************************************************)
EXTENDS Commerce, FiniteSetTheorems, TLAPS

\* The processor only tells of sessions that were created, and a session is granted
\* by an event that was accepted.
CheckoutFits ==
  /\ \A e \in sent : session[e.session] # NoSession
  /\ \A s \in Sessions : session[s] # NoSession /\ session[s].granted =>
       \E e \in processed : e.session = s

\* The histories of the users.
CountsFit ==
  /\ used \in [Users -> Nat] /\ credits \in [Users -> Nat]
  /\ overridden \subseteq Users

\* The inductive strengthening of BooksBalance.
IInv == CommerceTypeOK /\ CheckoutFits /\ CountsFit /\ RunsAreBought

-----------------------------------------------------------------------------
\* Facts.

LEMMA EventFacts ==
  ASSUME NEW e \in Events
  PROVE  /\ e.session \in Sessions
         /\ e.type \in EndTypes \cup {"completed", "other"}
         /\ e.type # "completed" => e = [type |-> e.type, session |-> e.session, id |-> 1]
BY DEF Events

LEMMA SessionFacts ==
  /\ \A x \in Session : x # NoSession
  /\ NoSession.status = "none"
  /\ \A x \in Session : x.status # "none" /\ x.granted \in BOOLEAN /\ x.returned \in BOOLEAN
BY DEF Session, NoSession

LEMMA EntFacts ==
  /\ \A x \in Ent \cup {NoEnt} : x.remaining \in 0..Runs
  /\ \A x \in Ent : x # NoEnt /\ x.status # "none"
  /\ NoEnt.remaining = 0 /\ NoEnt.status = "none"
BY CommerceAssumption DEF Ent, NoEnt

\* What the invariant says of one user.
LEMMA UserFacts ==
  ASSUME IInv, NEW u \in Users
  PROVE  /\ used[u] \in Nat /\ credits[u] \in Nat /\ ent[u].remaining \in Nat
         /\ used[u] + ent[u].remaining <= Runs * credits[u]
<1>1. ent[u] \in Ent \cup {NoEnt}
  BY DEF IInv, CommerceTypeOK
<1>2. ent[u].remaining \in 0..Runs
  BY <1>1, EntFacts
<1>3. used[u] \in Nat /\ credits[u] \in Nat
  BY DEF IInv, CountsFit
<1>4. used[u] + ent[u].remaining <= Runs * credits[u]
  BY DEF IInv, RunsAreBought
<1> QED
  BY <1>2, <1>3, <1>4, CommerceAssumption

\* One purchase more is worth Runs.
LEMMA OneMoreCredit ==
  ASSUME NEW c \in Nat PROVE Runs * (c + 1) = Runs * c + Runs /\ Runs * c \in Nat
BY CommerceAssumption

\* The purchases of a user, when s is credited.
LEMMA PurchaseCounts ==
  ASSUME purchased \subseteq Sessions, NEW s \in Sessions \ purchased, NEW u \in Users
  PROVE  LET mine(P) == {x \in P : Buyer[x] = u} IN
         Cardinality(mine(purchased \cup {s})) =
           Cardinality(mine(purchased)) + (IF Buyer[s] = u THEN 1 ELSE 0)
<1> DEFINE mine(P) == {x \in P : Buyer[x] = u}
<1>1. IsFiniteSet(mine(purchased)) /\ Cardinality(mine(purchased)) \in Nat
  BY CommerceAssumption, FS_Subset, FS_CardinalityType
<1>2. CASE Buyer[s] = u
  <2>1. mine(purchased \cup {s}) = mine(purchased) \cup {s} /\ s \notin mine(purchased)
    BY <1>2
  <2> QED
    BY <1>1, <1>2, <2>1, FS_AddElement
<1>3. CASE Buyer[s] # u
  <2>1. mine(purchased \cup {s}) = mine(purchased)
    BY <1>3
  <2> QED
    BY <1>1, <1>3, <2>1
<1> QED
  BY <1>2, <1>3

-----------------------------------------------------------------------------
LEMMA InitIInv == Init => IInv
<1> SUFFICES ASSUME Init PROVE IInv
  OBVIOUS
<1>1. CommerceTypeOK
  BY SessionFacts DEF Init, CommerceTypeOK
<1>2. CheckoutFits /\ CountsFit
  BY DEF Init, CheckoutFits, CountsFit
<1>3. RunsAreBought
  <2>1. \A u \in Users : {s \in purchased : Buyer[s] = u} = {}
    BY DEF Init
  <2> QED
    BY <2>1, FS_EmptySet, EntFacts, CommerceAssumption DEF Init, RunsAreBought
<1> QED
  BY <1>1, <1>2, <1>3 DEF IInv

-----------------------------------------------------------------------------
\* The processor and the webhook.

LEMMA SendKeeps ==
  ASSUME IInv, NEW e \in Events, Send(e) PROVE IInv'
<1>1. CommerceTypeOK'
  BY DEF IInv, Send, CommerceTypeOK
<1>2. CheckoutFits' /\ CountsFit' /\ RunsAreBought'
  BY DEF IInv, Send, CheckoutFits, CountsFit, RunsAreBought
<1> QED
  BY <1>1, <1>2 DEF IInv

\* What a webhook does to the session it names and to the set of processed events.
LEMMA WebhookMarks ==
  ASSUME IInv, NEW e \in Events, Webhook(e)
  PROVE  /\ session' \in [Sessions -> Session \cup {NoSession}]
         /\ session'[e.session] \in Session /\ session'[e.session].granted
         /\ \A s \in Sessions \ {e.session} : session'[s] = session[s]
         /\ processed' = processed \cup {e} /\ processed' \subseteq sent'
         /\ CheckoutFits'
<1>1. e.session \in Sessions /\ e \in sent
  BY EventFacts DEF Webhook
<1>2. session[e.session] \in Session
  BY <1>1 DEF IInv, CommerceTypeOK, CheckoutFits
<1>3. session' = [session EXCEPT ![e.session] =
        [session[e.session] EXCEPT !.status = "paid", !.granted = TRUE]]
  BY DEF Webhook
<1>4. /\ [session[e.session] EXCEPT !.status = "paid", !.granted = TRUE] \in Session
      /\ [session[e.session] EXCEPT !.status = "paid", !.granted = TRUE].granted
  BY <1>2 DEF Session
<1>5. /\ session' \in [Sessions -> Session \cup {NoSession}]
      /\ session'[e.session] \in Session /\ session'[e.session].granted
      /\ \A s \in Sessions \ {e.session} : session'[s] = session[s]
  BY <1>1, <1>3, <1>4 DEF IInv, CommerceTypeOK
<1>6. processed' = processed \cup {e} /\ sent' = sent /\ processed' \subseteq sent'
  BY <1>1 DEF Webhook, IInv, CommerceTypeOK
<1>7. CheckoutFits'
  <2>1. \A x \in sent' : session'[x.session] # NoSession
    BY <1>1, <1>5, <1>6, EventFacts, SessionFacts DEF IInv, CommerceTypeOK, CheckoutFits
  <2>2. ASSUME NEW s \in Sessions, session'[s] # NoSession /\ session'[s].granted
        PROVE  \E x \in processed' : x.session = s
    BY <1>5, <1>6, <2>2 DEF IInv, CheckoutFits
  <2> QED
    BY <2>1, <2>2 DEF CheckoutFits
<1> QED
  BY <1>5, <1>6, <1>7

\* The sessions are paid by accepted events, whatever the event was.
LEMMA WebhookPays ==
  ASSUME IInv, NEW e \in Events, Webhook(e)
  PROVE  \A s \in Sessions : session'[s].status \in {"paid", "complete"} =>
           session'[s].granted /\ \E x \in processed' : x.session = s
<1>1. e.session \in Sessions
  BY EventFacts
<1> QED
  BY <1>1, WebhookMarks DEF IInv, CommerceTypeOK

LEMMA PurchaseKeeps ==
  ASSUME IInv, NEW e \in Events, Webhook(e), e.type = "completed" PROVE IInv'
<1> DEFINE s == e.session
           u == Buyer[s]
<1>1. s \in Sessions /\ u \in Users
  BY EventFacts, CommerceAssumption
<1>2. ApplyPurchase(s) /\ UNCHANGED <<sent, tokens, used, overridden, ended>>
  BY DEF Webhook, ApplyPurchase
<1>3. purchased' = purchased \cup {s}
  BY <1>2 DEF ApplyPurchase, Credited
<1>4. ent' \in [Users -> Ent \cup {NoEnt}]
  <2>1. [status |-> "active", remaining |-> Runs] \in Ent
    BY CommerceAssumption DEF Ent
  <2> QED
    BY <1>1, <1>2, <2>1 DEF ApplyPurchase, IInv, CommerceTypeOK
<1>5. CommerceTypeOK'
  <2>1. \A x \in Sessions : x \in purchased' <=>
          \E y \in processed' : y.session = x /\ y.type = "completed"
    BY <1>1, <1>3, WebhookMarks DEF IInv, CommerceTypeOK
  <2> QED
    BY <1>1, <1>2, <1>3, <1>4, <2>1, WebhookMarks, WebhookPays DEF IInv, CommerceTypeOK
<1>6. CASE s \in purchased
  BY <1>2, <1>5, <1>6, WebhookMarks
     DEF ApplyPurchase, Credited, IInv, CountsFit, RunsAreBought
<1>7. CASE s \notin purchased
  <2>1. /\ ent' = [ent EXCEPT ![u] = [status |-> "active", remaining |-> Runs]]
        /\ credits' = [credits EXCEPT ![u] = @ + 1]
    BY <1>2, <1>7 DEF ApplyPurchase, Credited
  <2>2. CountsFit'
    BY <1>1, <1>2, <2>1 DEF IInv, CountsFit
  <2>3. ASSUME NEW v \in Users
        PROVE  /\ used'[v] + ent'[v].remaining <= Runs * credits'[v]
               /\ v \notin overridden' =>
                    /\ credits'[v] = Cardinality({x \in purchased' : Buyer[x] = v})
                    /\ ent'[v].status # "active" => ent'[v].remaining = 0
    <3>1. Cardinality({x \in purchased' : Buyer[x] = v}) =
            Cardinality({x \in purchased : Buyer[x] = v}) + (IF u = v THEN 1 ELSE 0)
      BY <1>1, <1>3, <1>7, PurchaseCounts DEF IInv, CommerceTypeOK
    <3>2. /\ used[v] \in Nat /\ credits[v] \in Nat /\ ent[v].remaining \in Nat
          /\ used[v] + ent[v].remaining <= Runs * credits[v]
      BY UserFacts
    <3>3. CASE v = u
      <4>1. ent'[v].remaining = Runs /\ ent'[v].status = "active" /\ credits'[v] = credits[v] + 1
        BY <1>1, <2>1, <3>3 DEF IInv, CommerceTypeOK, CountsFit
      <4> QED
        BY <1>2, <3>1, <3>2, <3>3, <4>1, OneMoreCredit, CommerceAssumption
           DEF IInv, RunsAreBought
    <3>4. CASE v # u
      <4>1. ent'[v] = ent[v] /\ credits'[v] = credits[v]
        BY <1>1, <2>1, <3>4 DEF IInv, CommerceTypeOK, CountsFit
      <4>2. Cardinality({x \in purchased' : Buyer[x] = v})
              = credits[v] \/ v \in overridden
        BY <3>1, <3>2, <3>4 DEF IInv, RunsAreBought
      <4> QED
        BY <1>2, <3>4, <4>1, <4>2 DEF IInv, RunsAreBought
    <3> QED
      BY <3>3, <3>4
  <2>4. RunsAreBought'
    BY <2>3 DEF RunsAreBought
  <2> QED
    BY <1>5, <2>2, <2>4, WebhookMarks DEF IInv
<1> QED
  BY <1>6, <1>7

\* Refunds, disputes and events of other types.
LEMMA EndingKeeps ==
  ASSUME IInv, NEW e \in Events, Webhook(e), e.type # "completed" PROVE IInv'
<1> DEFINE s == e.session
           u == Buyer[s]
<1>1. /\ s \in Sessions /\ u \in Users /\ e.type \in EndTypes \cup {"other"}
      /\ e = [type |-> e.type, session |-> s, id |-> 1]
  BY EventFacts, CommerceAssumption
<1>2. UNCHANGED <<sent, tokens, used, overridden, purchased, credits>>
  BY <1>1, CommerceAssumption DEF Webhook, ApplyStatus
<1>3. \/ UNCHANGED <<ent, ended>>
      \/ /\ ent' = [ent EXCEPT ![u] = [status |-> e.type, remaining |-> 0]]
         /\ ended' = ended \cup {e} /\ e.type \in EndTypes
  BY <1>1, CommerceAssumption DEF Webhook, ApplyStatus
<1>4. /\ ent' \in [Users -> Ent \cup {NoEnt}]
      /\ \A v \in Users : ent'[v] = ent[v] \/ ent'[v].remaining = 0
  <2>1. \A t \in EndTypes : [status |-> t, remaining |-> 0] \in Ent
    BY CommerceAssumption DEF Ent
  <2> QED
    BY <1>1, <1>3, <2>1 DEF IInv, CommerceTypeOK
<1>5. ended' \subseteq processed'
  BY <1>3, WebhookMarks DEF IInv, CommerceTypeOK
<1>6. CommerceTypeOK'
  <2>1. \A x \in Sessions : x \in purchased' <=>
          \E y \in processed' : y.session = x /\ y.type = "completed"
    BY <1>1, <1>2, WebhookMarks DEF IInv, CommerceTypeOK
  <2> QED
    BY <1>2, <1>4, <1>5, <2>1, WebhookMarks, WebhookPays DEF IInv, CommerceTypeOK
<1>7. CountsFit'
  BY <1>2 DEF IInv, CountsFit
<1>8. RunsAreBought'
  <2> SUFFICES ASSUME NEW v \in Users
               PROVE  /\ used[v] + ent'[v].remaining <= Runs * credits[v]
                      /\ v \notin overridden =>
                           /\ credits[v] = Cardinality({x \in purchased : Buyer[x] = v})
                           /\ ent'[v].status # "active" => ent'[v].remaining = 0
    BY <1>2 DEF RunsAreBought
  <2>1. /\ used[v] \in Nat /\ credits[v] \in Nat /\ ent[v].remaining \in Nat
        /\ used[v] + ent[v].remaining <= Runs * credits[v]
    BY UserFacts
  <2>2. Runs * credits[v] \in Nat
    BY <2>1, OneMoreCredit
  <2> QED
    BY <1>4, <2>1, <2>2 DEF IInv, RunsAreBought
<1> QED
  BY <1>6, <1>7, <1>8, WebhookMarks DEF IInv

-----------------------------------------------------------------------------
\* Checkout: the money stays where it is.

\* A step that moves one session and nothing else that IInv speaks of.
LEMMA CheckoutKeeps ==
  ASSUME IInv, NEW s \in Sessions, NEW now \in Session,
         session' = [session EXCEPT ![s] = now],
         now.granted => session[s] # NoSession /\ session[s].granted,
         now.status \in {"paid", "complete"} => now.granted,
         UNCHANGED <<sent, processed, purchased, ent, tokens, used, credits, overridden, ended>>
  PROVE  IInv'
<1>1. /\ session'[s] = now /\ session' \in [Sessions -> Session \cup {NoSession}]
      /\ \A x \in Sessions \ {s} : session'[x] = session[x]
  BY DEF IInv, CommerceTypeOK
<1>2. now.granted => \E e \in processed : e.session = s
  BY DEF IInv, CheckoutFits
<1>3. CommerceTypeOK'
  BY <1>1, <1>2 DEF IInv, CommerceTypeOK
<1>4. CheckoutFits'
  <2>1. \A e \in sent : e.session \in Sessions
    BY EventFacts DEF IInv, CommerceTypeOK
  <2> QED
    BY <1>1, <1>2, <2>1, SessionFacts DEF IInv, CheckoutFits
<1>5. CountsFit' /\ RunsAreBought'
  BY DEF IInv, CountsFit, RunsAreBought
<1> QED
  BY <1>3, <1>4, <1>5 DEF IInv

LEMMA SessionStepKeeps ==
  ASSUME IInv, NEW s \in Sessions,
         \/ CreateSession(s) \/ RecordProcessorOutcome(s)
         \/ \E success \in BOOLEAN : HandleReturn(s, success)
  PROVE  IInv'
<1>1. CASE CreateSession(s)
  <2>1. [status |-> "open", returned |-> FALSE, granted |-> FALSE] \in Session
    BY DEF Session
  <2> QED
    BY <1>1, <2>1, CheckoutKeeps DEF CreateSession
<1>2. CASE RecordProcessorOutcome(s)
  <2>1. PICK status \in {"declined", "pending"} :
          session' = [session EXCEPT ![s].status = status]
    BY <1>2 DEF RecordProcessorOutcome
  <2>2. session[s] # NoSession /\ session[s] \in Session \cup {NoSession}
    BY <1>2 DEF RecordProcessorOutcome, IInv, CommerceTypeOK
  <2> DEFINE now == [session[s] EXCEPT !.status = status]
  <2>3. /\ now \in Session /\ now.status = status /\ now.granted = session[s].granted
        /\ session' = [session EXCEPT ![s] = now]
    BY <2>1, <2>2 DEF Session
  <2>4. status \notin {"paid", "complete"}
    BY <2>1
  <2> HIDE DEF now
  <2> QED
    BY <1>2, <2>2, <2>3, <2>4, CheckoutKeeps DEF RecordProcessorOutcome
<1>3. ASSUME NEW success \in BOOLEAN, HandleReturn(s, success) PROVE IInv'
  <2>0. session[s] # NoSession
    BY <1>3 DEF HandleReturn
  <2>1. session[s] \in Session
    BY <2>0 DEF IInv, CommerceTypeOK
  <2> DEFINE after == AfterReturn(s, success)
             now == [session[s] EXCEPT !.returned = TRUE, !.status = after]
  <2>2. /\ after \in {"open", "paid", "canceled", "complete", "declined", "pending"}
        /\ after \in {"paid", "complete"} => session[s].granted
    BY <2>1 DEF AfterReturn, Session, IInv, CommerceTypeOK
  <2>3. /\ now \in Session /\ now.status = after /\ now.granted = session[s].granted
    BY <2>1, <2>2 DEF Session
  <2>4. session' = [session EXCEPT ![s] = now] /\ session[s] # NoSession
    BY <1>3 DEF HandleReturn
  <2> HIDE DEF now, after
  <2> QED
    BY <1>3, <2>2, <2>3, <2>4, CheckoutKeeps DEF HandleReturn
<1> QED
  BY <1>1, <1>2, <1>3

-----------------------------------------------------------------------------
\* The entitlement of one user.

\* A step that changes the record of one user and its histories.
LEMMA RecordKeeps ==
  ASSUME IInv, NEW u \in Users, NEW now \in Ent, NEW n \in Nat, NEW c \in Nat,
         ent' = [ent EXCEPT ![u] = now],
         used' = [used EXCEPT ![u] = n],
         credits' = [credits EXCEPT ![u] = c],
         n + now.remaining <= Runs * c,
         overridden \subseteq overridden', overridden' \subseteq Users,
         \/ u \in overridden'
         \/ c = credits[u] /\ (now.status # "active" => now.remaining = 0),
         UNCHANGED <<session, sent, processed, purchased, tokens, ended>>
  PROVE  IInv'
<1>1. CommerceTypeOK'
  BY DEF IInv, CommerceTypeOK
<1>2. CheckoutFits' /\ CountsFit'
  BY DEF IInv, CheckoutFits, CountsFit
<1>3. RunsAreBought'
  <2> SUFFICES ASSUME NEW v \in Users
               PROVE  /\ used'[v] + ent'[v].remaining <= Runs * credits'[v]
                      /\ v \notin overridden' =>
                           /\ credits'[v] = Cardinality({x \in purchased' : Buyer[x] = v})
                           /\ ent'[v].status # "active" => ent'[v].remaining = 0
    BY DEF RunsAreBought
  <2>1. CASE v = u
    BY <2>1 DEF IInv, CommerceTypeOK, CountsFit, RunsAreBought
  <2>2. CASE v # u
    BY <2>2 DEF IInv, CommerceTypeOK, CountsFit, RunsAreBought
  <2> QED
    BY <2>1, <2>2
<1> QED
  BY <1>1, <1>2, <1>3 DEF IInv

LEMMA OverrideKeeps ==
  ASSUME IInv, NEW u \in Users, SupportOverride(u) PROVE IInv'
<1>1. PICK r \in {0, Runs}, status \in {"active", "refunded"} :
        ent' = [ent EXCEPT ![u] = [status |-> status, remaining |-> r]]
  BY DEF SupportOverride
<1>2. /\ [status |-> status, remaining |-> r] \in Ent
      /\ 0 + r <= Runs * 1
  BY <1>1, CommerceAssumption DEF Ent
<1>3. overridden' = overridden \cup {u} /\ overridden' \subseteq Users
  BY DEF SupportOverride, IInv, CountsFit
<1> QED
  BY <1>1, <1>2, <1>3, RecordKeeps DEF SupportOverride

LEMMA ConsumeKeeps ==
  ASSUME IInv, NEW u \in Users, NEW withToken \in BOOLEAN, ConsumeRun(u, withToken)
  PROVE  IInv'
<1>1. ent[u] \in Ent /\ ent[u].status = "active" /\ ent[u].remaining > 0
  BY EntFacts DEF ConsumeRun, Consumable, IInv, CommerceTypeOK
<1> DEFINE now == [ent[u] EXCEPT !.remaining = @ - 1]
<1>2. /\ now \in Ent /\ now.status = "active" /\ now.remaining = ent[u].remaining - 1
      /\ ent[u].remaining \in Nat
  BY <1>1, CommerceAssumption DEF Ent
<1>3. used[u] \in Nat /\ credits[u] \in Nat /\ overridden \subseteq Users
  BY DEF IInv, CountsFit
<1>4. used[u] + ent[u].remaining <= Runs * credits[u] /\ Runs * credits[u] \in Nat
  BY <1>3, OneMoreCredit DEF IInv, RunsAreBought
<1>5. /\ ent' = [ent EXCEPT ![u] = now]
      /\ used' = [used EXCEPT ![u] = used[u] + 1]
      /\ credits' = [credits EXCEPT ![u] = credits[u]]
      /\ overridden' = overridden
      /\ UNCHANGED <<session, sent, processed, purchased, tokens, ended>>
  BY DEF ConsumeRun, IInv, CountsFit
<1>6. used[u] + 1 \in Nat /\ (used[u] + 1) + now.remaining <= Runs * credits[u]
  BY <1>2, <1>3, <1>4
<1> HIDE DEF now
<1> QED
  BY <1>2, <1>3, <1>5, <1>6, RecordKeeps

LEMMA TokenKeeps ==
  ASSUME IInv, NEW u \in Users, IssueLicenseToken(u) \/ TokenExpires(u) PROVE IInv'
<1>1. /\ tokens' \subseteq Users
      /\ UNCHANGED <<session, sent, processed, purchased, ent, used, credits, overridden, ended>>
  BY DEF IssueLicenseToken, TokenExpires, IInv, CommerceTypeOK
<1>2. CommerceTypeOK'
  BY <1>1 DEF IInv, CommerceTypeOK
<1>3. CheckoutFits' /\ CountsFit' /\ RunsAreBought'
  BY <1>1 DEF IInv, CheckoutFits, CountsFit, RunsAreBought
<1> QED
  BY <1>2, <1>3 DEF IInv

-----------------------------------------------------------------------------
LEMMA NextIInv == IInv /\ [Next]_vars => IInv'
<1> SUFFICES ASSUME IInv, [Next]_vars PROVE IInv'
  OBVIOUS
<1>1. ASSUME NEW e \in Events, Send(e) \/ Webhook(e) PROVE IInv'
  BY <1>1, SendKeeps, PurchaseKeeps, EndingKeeps
<1>2. ASSUME NEW s \in Sessions,
             \/ CreateSession(s) \/ RecordProcessorOutcome(s)
             \/ \E success \in BOOLEAN : HandleReturn(s, success)
      PROVE  IInv'
  BY <1>2, SessionStepKeeps
<1>3. ASSUME NEW u \in Users,
             \/ SupportOverride(u) \/ IssueLicenseToken(u) \/ TokenExpires(u)
             \/ \E withToken \in BOOLEAN : ConsumeRun(u, withToken)
      PROVE  IInv'
  BY <1>3, OverrideKeeps, TokenKeeps, ConsumeKeeps
<1>4. CASE UNCHANGED vars
  BY <1>4 DEF vars, IInv, CommerceTypeOK, CheckoutFits, CountsFit, RunsAreBought
<1> QED
  BY <1>1, <1>2, <1>3, <1>4 DEF Next

\* The inductive invariant of entitlements and checkout (entitlements.js, checkout.js).
THEOREM CommerceInvariant == Spec => []IInv
<1> QED
  BY InitIInv, NextIInv, PTL DEF Spec

\* Nothing is paid, granted or used that no delivered purchase stands for
\* (handleWebhook, applyPurchase, consumeRun), in every order of the webhooks.
THEOREM CommerceBalances == Spec => []BooksBalance
<1>1. IInv => BooksBalance
  BY DEF IInv, BooksBalance
<1> QED
  BY <1>1, CommerceInvariant, PTL
=============================================================================
