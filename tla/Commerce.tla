------------------------------ MODULE Commerce ------------------------------
(***************************************************************************)
(* Entitlements and checkout (apps/api/commerce/entitlements.js and        *)
(* checkout.js): webhooks of the payment processor credit runs to a user,  *)
(* take them away, and move the checkout session they name.                *)
(*                                                                         *)
(* The processor is external.  It sends an event any number of times, in   *)
(* any order, until one delivery is accepted, and may send a purchase      *)
(* again under another id.  Signatures and amounts are right here: an      *)
(* event refused for them changes nothing.                                 *)
(***************************************************************************)
EXTENDS Naturals, FiniteSets

CONSTANTS
  Sessions,       \* checkout sessions
  Users,
  Buyer,          \* the user of each session
  Runs,           \* approved.runsIncluded
  EndTypes,       \* charge.refunded and charge.dispute.created, handled alike
  MaxCalls        \* bound on the calls that are neither webhooks nor runs

ASSUME CommerceAssumption ==
  /\ IsFiniteSet(Sessions) /\ Buyer \in [Sessions -> Users]
  /\ Runs \in Nat \ {0} /\ MaxCalls \in Nat
  /\ EndTypes \subseteq {"refunded", "disputed"}

VARIABLES
  session,        \* checkout sessions, NoSession before createSession
  sent,           \* events the processor has sent
  processed,      \* processedEvents
  purchased,      \* sessionsPurchased
  ent,            \* entitlements by user, NoEnt for none
  tokens,         \* users with a license token that has not expired
  calls,          \* such calls so far
  used,           \* history: runs consumed by each user since the last override
  credits,        \* history: purchases credited to each user since the last override
  overridden,     \* history: users support has set the record of
  ended           \* history: refunds and disputes that were applied

vars == <<session, sent, processed, purchased, ent, tokens, calls, used, credits, overridden, ended>>

NoSession == [status |-> "none"]
Session ==
  [ status : {"open", "paid", "canceled", "complete", "declined", "pending"},
    returned : BOOLEAN, granted : BOOLEAN ]

\* "other" stands for the types the switch of handleWebhook does not name.
Events ==
  [type : {"completed"}, session : Sessions, id : 1..2]
    \cup [type : EndTypes \cup {"other"}, session : Sessions, id : {1}]

NoEnt == [status |-> "none", remaining |-> 0]
Ent == [status : {"active", "refunded", "disputed"}, remaining : 0..Runs]

Init ==
  /\ session = [s \in Sessions |-> NoSession]
  /\ sent = {} /\ processed = {} /\ purchased = {}
  /\ ent = [u \in Users |-> NoEnt]
  /\ tokens = {}
  /\ calls = 0
  /\ used = [u \in Users |-> 0]
  /\ credits = [u \in Users |-> 0]
  /\ overridden = {} /\ ended = {}

-----------------------------------------------------------------------------
\* The processor.

\* What has to have happened at the processor before it sends e.
Causes(e) ==
  CASE e.type = "completed" -> TRUE
    [] e.type = "other"     -> [type |-> "completed", session |-> e.session, id |-> 1] \notin sent
    [] OTHER                -> [type |-> "completed", session |-> e.session, id |-> 1] \in sent

Send(e) ==
  /\ session[e.session] # NoSession
  /\ e \notin sent /\ Causes(e)
  /\ sent' = sent \cup {e}
  /\ UNCHANGED <<session, processed, purchased, ent, tokens, calls, used, credits, overridden, ended>>

-----------------------------------------------------------------------------
\* The webhook.

CreditedNever(s) == FALSE     \* mutant: a session can be credited again

\* The session was credited under another event id.
Credited(s) == s \in purchased

\* applyPurchase replaces the record of the user.
ApplyPurchase(s) ==
  LET u == Buyer[s]
  IN /\ IF Credited(s)
        THEN UNCHANGED <<ent, purchased, credits>>
        ELSE /\ ent' = [ent EXCEPT ![u] = [status |-> "active", remaining |-> Runs]]
             /\ purchased' = purchased \cup {s}
             /\ credits' = [credits EXCEPT ![u] = @ + 1]
     /\ UNCHANGED ended

\* applyStatus changes nothing for a user whom nobody has credited.
ApplyStatus(s, status) ==
  LET u == Buyer[s]
  IN /\ IF ent[u] = NoEnt
        THEN UNCHANGED <<ent, ended>>
        ELSE /\ ent' = [ent EXCEPT ![u] = [status |-> status, remaining |-> 0]]
             /\ ended' = ended \cup {[type |-> status, session |-> s, id |-> 1]}
     /\ UNCHANGED <<purchased, credits>>

AcceptedAlways(e) == TRUE     \* mutant: an event that failed is not taken again

\* handleWebhook takes the event for processed.
Accepted(e) ==
  e.type \in EndTypes => ent[Buyer[e.session]] # NoEnt

\* completeFromWebhook and the handleWebhook it calls.  Any event that is taken
\* marks the session it names as paid.
Webhook(e) ==
  /\ e \in sent \ processed
  /\ Accepted(e)
  /\ processed' = processed \cup {e}
  /\ CASE e.type = "completed" -> ApplyPurchase(e.session)
       [] e.type = "other"     -> UNCHANGED <<ent, purchased, credits, ended>>
       [] OTHER                -> ApplyStatus(e.session, e.type)
  /\ session' = [session EXCEPT ![e.session].status = "paid",
                                ![e.session].granted = TRUE]
  /\ UNCHANGED <<sent, tokens, calls, used, overridden>>

-----------------------------------------------------------------------------
\* Checkout.

CreateSession(s) ==
  /\ session[s] = NoSession
  /\ session' = [session EXCEPT ![s] =
       [status |-> "open", returned |-> FALSE, granted |-> FALSE]]
  /\ UNCHANGED <<sent, processed, purchased, ent, tokens, calls, used, credits, overridden, ended>>

AfterReturn(s, success) ==
  IF ~success THEN "canceled"
  ELSE IF session[s].granted THEN "complete" ELSE session[s].status

\* handleReturn; only the first return counts.
HandleReturn(s, success) ==
  /\ calls < MaxCalls /\ calls' = calls + 1
  /\ session[s] # NoSession /\ ~session[s].returned
  /\ session' = [session EXCEPT ![s].returned = TRUE, ![s].status = AfterReturn(s, success)]
  /\ UNCHANGED <<sent, processed, purchased, ent, tokens, used, credits, overridden, ended>>

\* recordProcessorOutcome, whatever has been paid.
RecordProcessorOutcome(s) ==
  /\ calls < MaxCalls /\ calls' = calls + 1
  /\ session[s] # NoSession
  /\ \E status \in {"declined", "pending"} :
       session' = [session EXCEPT ![s].status = status]
  /\ UNCHANGED <<sent, processed, purchased, ent, tokens, used, credits, overridden, ended>>

-----------------------------------------------------------------------------
\* The entitlement of a user.

\* applySupportOverride sets what it is told; the counting starts again.
SupportOverride(u) ==
  /\ calls < MaxCalls /\ calls' = calls + 1
  /\ \E r \in {0, Runs}, status \in {"active", "refunded"} :
       ent' = [ent EXCEPT ![u] = [status |-> status, remaining |-> r]]
  /\ overridden' = overridden \cup {u}
  /\ used' = [used EXCEPT ![u] = 0]
  /\ credits' = [credits EXCEPT ![u] = 1]
  /\ UNCHANGED <<session, sent, processed, purchased, tokens, ended>>

\* issueLicenseToken: of an active user, whatever remains.
IssueLicenseToken(u) ==
  /\ calls < MaxCalls /\ calls' = calls + 1
  /\ ent[u].status = "active"
  /\ tokens' = tokens \cup {u}
  /\ UNCHANGED <<session, sent, processed, purchased, ent, used, credits, overridden, ended>>

\* The tokens of u run out.
TokenExpires(u) ==
  /\ u \in tokens
  /\ tokens' = tokens \ {u}
  /\ UNCHANGED <<session, sent, processed, purchased, ent, calls, used, credits, overridden, ended>>

\* verifyLicenseToken: the entitlement is looked up anew each time.
Verified(u) == u \in tokens /\ ent[u].status = "active"

\* The guards of consumeRun, with or without a token.
Consumable(u, withToken) ==
  /\ withToken => Verified(u)
  /\ ent[u].status = "active" /\ ent[u].remaining > 0

\* consumeRun.
ConsumeRun(u, withToken) ==
  /\ Consumable(u, withToken)
  /\ ent' = [ent EXCEPT ![u].remaining = @ - 1]
  /\ used' = [used EXCEPT ![u] = @ + 1]
  /\ UNCHANGED <<session, sent, processed, purchased, tokens, calls, credits, overridden, ended>>

-----------------------------------------------------------------------------
Next ==
  \/ \E e \in Events : Send(e) \/ Webhook(e)
  \/ \E s \in Sessions :
       \/ CreateSession(s) \/ RecordProcessorOutcome(s)
       \/ \E success \in BOOLEAN : HandleReturn(s, success)
  \/ \E u \in Users :
       \/ SupportOverride(u) \/ IssueLicenseToken(u) \/ TokenExpires(u)
       \/ \E withToken \in BOOLEAN : ConsumeRun(u, withToken)

\* The processor sends an event again until it is accepted.
Spec == Init /\ [][Next]_vars /\ \A e \in Events : WF_vars(Webhook(e))

-----------------------------------------------------------------------------
\* Properties.

\* Types, and what relates the checkout to the webhooks: a session is paid or
\* complete only after an event for it was accepted.
CommerceTypeOK ==
  /\ session \in [Sessions -> Session \cup {NoSession}]
  /\ sent \subseteq Events /\ processed \subseteq sent
  /\ ended \subseteq processed
  /\ purchased \subseteq Sessions
  /\ ent \in [Users -> Ent \cup {NoEnt}]
  /\ tokens \subseteq Users
  /\ \A s \in Sessions : session[s].status \in {"paid", "complete"} =>
       session[s].granted /\ \E e \in processed : e.session = s
  /\ \A s \in Sessions : s \in purchased <=>
       \E e \in processed : e.session = s /\ e.type = "completed"

\* Nobody runs more than was bought: through deliveries in any order and number,
\* duplicates of a purchase, refunds, tokens and overrides, what a user has used and
\* still has is at most the runs of the purchases (entitlements-webhooks.md:
\* "duplicate sessionId purchases converge without double-crediting"), each session
\* counted once, and after a refund nothing is left.
RunsAreBought ==
  \A u \in Users :
    /\ used[u] + ent[u].remaining <= Runs * credits[u]
    /\ u \notin overridden =>
         /\ credits[u] = Cardinality({s \in purchased : Buyer[s] = u})
         /\ ent[u].status # "active" => ent[u].remaining = 0

\* Sessions, processed events, packages and uses agree: nothing is paid, granted or
\* used that no delivered purchase stands for.
BooksBalance == CommerceTypeOK /\ RunsAreBought

\* A refund or dispute takes effect, although its event may come before the purchase
\* it is for and be refused then.
RefundTakesEffect ==
  \A e \in Events : e.type \in EndTypes => (e \in sent ~> e \in ended)
=============================================================================
