--------------------------- MODULE AccountService ---------------------------
(***************************************************************************)
(* Accounts on the server: passwords, emailed codes and sessions           *)
(* (apps/api/auth/password-auth.js) and sign-in through a provider         *)
(* (apps/api/auth/oauth-broker.js).                                        *)
(*                                                                         *)
(* Users are written to a file before each answer; codes,                  *)
(* sessions, exchanges and used OAuth states are in memory and die with    *)
(* the process.  Access and refresh token of a session are one here: what  *)
(* can be done with them depends on the state of the session.              *)
(***************************************************************************)
EXTENDS Naturals, FiniteSets

CONSTANTS
  Emails, Devices,
  CodeIds,        \* 1..n: emailed codes, by their nonce
  SessionIds,     \* 1..n
  Flows,          \* sign-ins through a provider, by the id in their state
  ProviderOf,     \* of each flow
  Subjects        \* who a provider says somebody is

VARIABLES
  users,          \* by email, NoUser before the first registration
  codes,          \* otps, NoCode before they are sent
  sessions,       \* NoSession before they are issued
  flows,
  resets          \* history: password resets of each user

\* identities: the subjects of providers that are linked to the user.
Providers == {"google", "microsoft"}
Identities == Providers \X Subjects
NoUser == [verified |-> FALSE, password |-> FALSE, known |-> FALSE, identities |-> {}]
User ==
  [ verified : BOOLEAN, password : BOOLEAN, known : BOOLEAN,
    identities : SUBSET Identities ]

\* A code is over once it is used, too old, or forgotten by a restart.
NoCode == [state |-> "none"]
Code ==
  [ state : {"sent", "over"}, email : Emails,
    purpose : {"register", "login", "reset"} ]

\* fresh: both tokens work; aged: the access token is over; old: the refresh token
\* too; retired: rotated away; ended: by a logout or a restart.
\* from and epoch are history: what the session was issued for, and how many resets
\* its user had had.
NoSession == [state |-> "none"]
Session ==
  [ state : {"fresh", "aged", "old", "retired", "ended"}, email : Emails,
    device : Devices, from : CodeIds \cup Flows, epoch : Nat ]

\* A flow holds the session that waits behind its exchange code, 0 for none.
NoFlow == [state |-> "none"]
Flow ==
  [ state : {"started", "awaiting", "code", "spent"}, device : Devices,
    session : SessionIds \cup {0} ]

AccountsInit ==
  /\ users = [e \in Emails |-> NoUser]
  /\ codes = [c \in CodeIds |-> NoCode]
  /\ sessions = [s \in SessionIds |-> NoSession]
  /\ flows = [f \in Flows |-> NoFlow]
  /\ resets = [e \in Emails |-> 0]

NextCode == Cardinality({c \in CodeIds : codes[c] # NoCode}) + 1
NextSession == Cardinality({s \in SessionIds : sessions[s] # NoSession}) + 1

\* In the maps sessions and refreshByHash.
InMaps(s) == sessions[s].state \in {"fresh", "aged", "old"}
Refreshable(s) == sessions[s].state \in {"fresh", "aged"}

-----------------------------------------------------------------------------
\* Codes.

\* startOtp whose mail was sent; one whose mail failed leaves no code.
SendCode(e, purpose) ==
  /\ NextCode \in CodeIds
  /\ codes' = [codes EXCEPT ![NextCode] = [state |-> "sent", email |-> e, purpose |-> purpose]]

\* register; the user stays when the mail fails.
Register(e, mailed) ==
  /\ ~users[e].known
  /\ users' = [users EXCEPT ![e] = [NoUser EXCEPT !.password = TRUE, !.known = TRUE]]
  /\ IF mailed THEN SendCode(e, "register") ELSE UNCHANGED codes
  /\ UNCHANGED <<sessions, flows, resets>>

\* login with the right password.
Login(e) ==
  /\ users[e].password
  /\ SendCode(e, IF users[e].verified THEN "login" ELSE "register")
  /\ UNCHANGED <<users, sessions, flows, resets>>

RequestPasswordReset(e) ==
  /\ users[e].known
  /\ SendCode(e, "reset")
  /\ UNCHANGED <<users, sessions, flows, resets>>

\* expiresAt has passed.
CodeExpires(c) ==
  /\ codes[c].state = "sent"
  /\ codes' = [codes EXCEPT ![c].state = "over"]
  /\ UNCHANGED <<users, sessions, flows, resets>>

-----------------------------------------------------------------------------
\* Sessions.

IssuedForAny(old, e, d, from) ==    \* mutant: the device of the caller is not used
  [old EXCEPT ![NextSession] =
     [ state |-> "fresh", email |-> e, device |-> CHOOSE any \in Devices : TRUE,
       from |-> from, epoch |-> resets[e] ]]

\* issueSession.
Issued(old, e, d, from) ==
  [old EXCEPT ![NextSession] =
     [state |-> "fresh", email |-> e, device |-> d, from |-> from, epoch |-> resets[e]]]

\* verifyOtp of the right code.
VerifyOtp(c, d) ==
  LET e == codes[c].email
  IN
  /\ codes[c].state = "sent" /\ codes[c].purpose # "reset"
  /\ NextSession \in SessionIds
  /\ codes' = [codes EXCEPT ![c].state = "over"]
  /\ users' = [users EXCEPT ![e].verified = TRUE]
  /\ sessions' = Issued(sessions, e, d, c)
  /\ UNCHANGED <<flows, resets>>

LoggedOutHere(e) ==          \* mutant: only the first session of the user
  LET mine == {s \in SessionIds : InMaps(s) /\ sessions[s].email = e}
  IN [sessions EXCEPT ![CHOOSE s \in SessionIds : mine # {} => s \in mine].state =
        IF mine # {} THEN "ended" ELSE @]

\* logoutAll.
LoggedOut(e) ==
  [s \in SessionIds |->
     IF InMaps(s) /\ sessions[s].email = e
     THEN [sessions[s] EXCEPT !.state = "ended"] ELSE sessions[s]]

\* resetPassword with the right code and a strong password.
ResetPassword(c) ==
  LET e == codes[c].email
  IN
  /\ codes[c].state = "sent" /\ codes[c].purpose = "reset"
  /\ codes' = [codes EXCEPT ![c].state = "over"]
  /\ users' = [users EXCEPT ![e].verified = TRUE, ![e].password = TRUE]
  /\ sessions' = LoggedOut(e)
  /\ resets' = [resets EXCEPT ![e] = @ + 1]
  /\ UNCHANGED <<flows>>

Rotated(s) == [sessions EXCEPT ![s].state = "retired"]

\* refresh with the token of s, by a caller that names device d; a token that was
\* rotated away ends the sessions of whoever is the first on that device.
Refresh(s, d) ==
  LET onDevice == {r \in SessionIds : InMaps(r) /\ sessions[r].device = d}
      prior == CHOOSE r \in onDevice : \A q \in onDevice : r <= q
  IN
  /\ \/ /\ Refreshable(s) /\ sessions[s].device = d
        /\ NextSession \in SessionIds
        /\ sessions' = Issued(Rotated(s), sessions[s].email, d, sessions[s].from)
     \/ /\ sessions[s].state = "retired" /\ onDevice # {}
        /\ sessions' = LoggedOut(sessions[prior].email)
  /\ UNCHANGED <<users, codes, flows, resets>>

\* authorize.
Authorized(s) == sessions[s].state = "fresh"

\* POST /v1/auth/logout with the token of s.
Logout(s) ==
  /\ Authorized(s)
  /\ sessions' = LoggedOut(sessions[s].email)
  /\ UNCHANGED <<users, codes, flows, resets>>

\* Fifteen minutes, then thirty days pass.
SessionAges(s) ==
  /\ Refreshable(s)
  /\ sessions' = [sessions EXCEPT ![s].state = IF @ = "fresh" THEN "aged" ELSE "old"]
  /\ UNCHANGED <<users, codes, flows, resets>>

-----------------------------------------------------------------------------
\* Sign-in through a provider.

StartFlow(f, d) ==
  /\ flows[f] = NoFlow
  /\ flows' = [flows EXCEPT ![f] = [state |-> "started", device |-> d, session |-> 0]]
  /\ UNCHANGED <<users, codes, sessions, resets>>

\* verifyState with completeCallback's check: the state that comes back to the route of
\* provider p is the signed one of f, for that provider, and not used before.
StateFits(f, p) == flows[f].state = "started" /\ ProviderOf[f] = p

\* completeCallback up to its first wait: the state is used now.
Callback(f, p) ==
  /\ StateFits(f, p)
  /\ flows' = [flows EXCEPT ![f].state = "awaiting"]
  /\ UNCHANGED <<users, codes, sessions, resets>>

\* What an id token can lack, one at a time; only Google says whether an email is
\* verified, and a token of Microsoft with an email and a subject is taken to say so.
Flaws == {"none", "signature", "audience", "issuer", "expired", "subject", "unverified"}
IdToken == [email : Emails, subject : Subjects, nonce : Flows, flaw : Flaws]

\* verifyIdToken.
Believed(t, f) ==
  /\ t.nonce = f
  /\ t.flaw = "none" \/ (t.flaw = "unverified" /\ ProviderOf[f] = "microsoft")

\* Whom authenticateProvider takes the token for: the user its subject is linked to,
\* whatever email it has by now, or else the one with that email.
Identity(f, t) == <<ProviderOf[f], t.subject>>
Linked(f, t) == {e \in Emails : Identity(f, t) \in users[e].identities}
UserFor(f, t) == IF Linked(f, t) = {} THEN t.email ELSE CHOOSE e \in Linked(f, t) : TRUE

\* The rest of it, when the provider vouches for an email: authenticateProvider and a
\* code to fetch the session with.
IdentityVerified(f, t) ==
  LET e == UserFor(f, t)
  IN
  /\ flows[f].state = "awaiting" /\ Believed(t, f) /\ NextSession \in SessionIds
  /\ users' = [users EXCEPT ![e].verified = TRUE, ![e].known = TRUE,
                            ![e].identities = @ \cup {Identity(f, t)}]
  /\ sessions' = Issued(sessions, e, flows[f].device, f)
  /\ flows' = [flows EXCEPT ![f].state = "code", ![f].session = NextSession]
  /\ UNCHANGED <<codes, resets>>

\* The provider refuses, its token is not believed, or nobody comes for the code in
\* time.
FlowFails(f) ==
  /\ flows[f].state \in {"awaiting", "code"}
  /\ flows' = [flows EXCEPT ![f].state = "spent"]
  /\ UNCHANGED <<users, codes, sessions, resets>>

\* exchange.
Exchange(f) ==
  /\ flows[f].state = "code"
  /\ flows' = [flows EXCEPT ![f].state = "spent"]
  /\ UNCHANGED <<users, codes, sessions, resets>>

-----------------------------------------------------------------------------
\* createAuthRouter: the operation that a call comes to.  A refused call changes
\* nothing.
HandleOAuth(call) ==
  \/ call.path = "start" /\ StartFlow(call.flow, call.device)
  \/ call.path = "callback" /\ Callback(call.flow, call.provider)
  \/ call.path = "exchange" /\ Exchange(call.flow)

HandlePassword(call) ==
  \/ call.path = "register" /\ Register(call.email, call.mailed)
  \/ call.path = "login" /\ Login(call.email)
  \/ call.path = "forgot-password" /\ RequestPasswordReset(call.email)
  \/ call.path = "reset-password" /\ ResetPassword(call.nonce)

\* A logout is for the user of the access token, on every device.
HandleSession(call) ==
  \/ call.path = "verify-otp" /\ VerifyOtp(call.nonce, call.device)
  \/ call.path = "refresh" /\ Refresh(call.session, call.device)
  \/ call.path = "logout" /\ Logout(call.session)

-----------------------------------------------------------------------------
\* The process restarts: the file is read, the maps are empty.  Which states were used is
\* forgotten too, so the callback of any flow can come again, and what waited behind an
\* exchange code is gone.
RestartAccounts ==
  /\ codes' = [c \in CodeIds |->
       IF codes[c] = NoCode THEN NoCode ELSE [codes[c] EXCEPT !.state = "over"]]
  /\ sessions' = [s \in SessionIds |->
       IF sessions[s] = NoSession THEN NoSession ELSE [sessions[s] EXCEPT !.state = "ended"]]
  /\ flows' = [f \in Flows |->
       IF flows[f] = NoFlow THEN NoFlow
       ELSE [flows[f] EXCEPT !.state = "started", !.session = 0]]
  /\ UNCHANGED <<users, resets>>

ServiceTypeOK ==
  /\ users \in [Emails -> User]
  /\ codes \in [CodeIds -> Code \cup {NoCode}]
  /\ sessions \in [SessionIds -> Session \cup {NoSession}]
  /\ flows \in [Flows -> Flow \cup {NoFlow}]
=============================================================================
