------------------------------ MODULE Accounts ------------------------------
(***************************************************************************)
(* The account service with the extension that signs in to it: the stored  *)
(* session (apps/extension/src/shared/account-session.ts), the sign-in     *)
(* dialog of WorkflowApp.tsx, and whose job a call of the extension is     *)
(* taken for (apps/api/server.js).                                         *)
(*                                                                         *)
(* A handler of the dialog waits for its answer while the user can go on:  *)
(* answers come in any order, or not at all.                               *)
(***************************************************************************)
EXTENDS Naturals, FiniteSets

CONSTANTS
  Emails, Devices, CodeIds, SessionIds, Flows, ProviderOf, Subjects,
  MaxWaiting,     \* bound on the answers a device waits for
  MaxRestarts     \* bound on restarts of the server

ASSUME AccountsAssumption ==
  \* Nonces and session ids are drawn in order, and a nonce is not the id of a flow.
  /\ IsFiniteSet(SessionIds) /\ SessionIds = 1..Cardinality(SessionIds)
  /\ IsFiniteSet(CodeIds) /\ CodeIds = 1..Cardinality(CodeIds)
  /\ CodeIds \cap Flows = {}
  /\ ProviderOf \in [Flows -> {"google", "microsoft"}]

VARIABLES
  users, codes, sessions, flows, resets,
  stored,         \* the session each device has stored, 0 for none
  dialog,         \* sign-in dialog of each device
  answers,        \* answers on their way to each device
  restarts

INSTANCE AccountService

serviceVars == <<users, codes, sessions, flows, resets>>
clientVars == <<stored, dialog, answers>>
vars == <<serviceVars, clientVars, restarts>>

\* authStep and otpNonce.
Dialog ==
  [ step : {"credentials", "otp", "forgot", "reset"}, nonce : CodeIds \cup {0} ]

Answer ==
  [ kind : {"code sent", "reset sent"}, code : CodeIds ]
    \cup [ kind : {"verified"}, session : SessionIds ]
    \cup [ kind : {"reset done"} ]

Closed == [step |-> "credentials", nonce |-> 0]

Init ==
  /\ AccountsInit
  /\ stored = [d \in Devices |-> 0]
  /\ dialog = [d \in Devices |-> Closed]
  /\ answers = [d \in Devices |-> {}]
  /\ restarts = 0

-----------------------------------------------------------------------------
\* What the sign-in panel offers in each step.  The mode of the first one is chosen
\* there, and both of its forms are reached by a click; buttons that wait for valid
\* input are pressed with it.
CredentialsPanel == {"social", "create", "signin", "forgot"}
ForgotPanel == {"send code", "back"}
ResetPanel == {"update", "back"}
CodePanel == {"verify", "back"}

Offered(d) ==
  CASE dialog[d].step = "credentials" -> CredentialsPanel
    [] dialog[d].step = "forgot"      -> ForgotPanel
    [] dialog[d].step = "reset"       -> ResetPanel
    [] OTHER                          -> CodePanel

-----------------------------------------------------------------------------
\* The dialog sends.  What the server refuses changes nothing but an error text.

Expect(d, answer) ==
  /\ Cardinality(answers[d]) < MaxWaiting
  /\ answers' = [answers EXCEPT ![d] = @ \cup {answer}]
  /\ UNCHANGED <<stored, dialog, restarts>>

\* onAuthSubmit with email and password.
SubmitCredentials(d, e) ==
  /\ \/ "create" \in Offered(d)
        /\ HandlePassword([path |-> "register", email |-> e, mailed |-> TRUE])
     \/ "signin" \in Offered(d) /\ HandlePassword([path |-> "login", email |-> e])
  /\ Expect(d, [kind |-> "code sent", code |-> NextCode])

RegisterUnmailed(d, e) ==
  /\ "create" \in Offered(d)
  /\ HandlePassword([path |-> "register", email |-> e, mailed |-> FALSE])
  /\ UNCHANGED <<clientVars, restarts>>

\* onAuthSubmit with the code.
SubmitCode(d) ==
  /\ "verify" \in Offered(d) /\ dialog[d].nonce # 0
  /\ HandleSession([path |-> "verify-otp", nonce |-> dialog[d].nonce, device |-> d])
  /\ Expect(d, [kind |-> "verified", session |-> NextSession])

\* onRequestResetCode.
SubmitForgot(d, e) ==
  /\ "send code" \in Offered(d)
  /\ HandlePassword([path |-> "forgot-password", email |-> e])
  /\ Expect(d, [kind |-> "reset sent", code |-> NextCode])

\* onSubmitNewPassword.
SubmitNewPassword(d) ==
  /\ "update" \in Offered(d) /\ dialog[d].nonce # 0
  /\ HandlePassword([path |-> "reset-password", nonce |-> dialog[d].nonce])
  /\ Expect(d, [kind |-> "reset done"])

AfterAnswerNonce(now, a) ==     \* mutant: "verified" leaves the step
  CASE a.kind = "code sent"  -> [step |-> "otp", nonce |-> a.code]
    [] a.kind = "reset sent" -> [step |-> "reset", nonce |-> a.code]
    [] a.kind = "verified"   -> [now EXCEPT !.nonce = 0]
    [] OTHER                 -> Closed

\* What the handler makes of the dialog, whatever the user did to it meanwhile.
AfterAnswer(now, a) ==
  CASE a.kind = "code sent"  -> [step |-> "otp", nonce |-> a.code]
    [] a.kind = "reset sent" -> [step |-> "reset", nonce |-> a.code]
    [] OTHER                 -> Closed

\* The handler goes on; verifyAccountOtp has stored the session before.
Answered(d, a) ==
  /\ a \in answers[d]
  /\ dialog' = [dialog EXCEPT ![d] = AfterAnswer(@, a)]
  /\ stored' = [stored EXCEPT ![d] = IF a.kind = "verified" THEN a.session ELSE @]
  /\ answers' = [answers EXCEPT ![d] = @ \ {a}]
  /\ UNCHANGED <<serviceVars, restarts>>

AnswerLost(d, a) ==
  /\ a \in answers[d]
  /\ answers' = [answers EXCEPT ![d] = @ \ {a}]
  /\ UNCHANGED <<serviceVars, stored, dialog, restarts>>

\* onStartPasswordReset and onAuthBackToCredentials.
MoveDialog(d) ==
  /\ \/ /\ "forgot" \in Offered(d)
        /\ dialog' = [dialog EXCEPT ![d] = [step |-> "forgot", nonce |-> 0]]
     \/ "back" \in Offered(d) /\ dialog' = [dialog EXCEPT ![d] = Closed]
  /\ UNCHANGED <<serviceVars, stored, answers, restarts>>

-----------------------------------------------------------------------------
\* Everything else the extension does with accounts.

\* onSocialSignIn and loginWithSocialProvider, in the order of its calls; the last
\* stores the session, unless its answer is lost.
SocialSignIn(f) ==
  LET d == flows[f].device
  IN
  /\ \/ /\ \E any \in Devices :
             /\ "social" \in Offered(any)
             /\ HandleOAuth([path |-> "start", flow |-> f, device |-> any])
        /\ UNCHANGED stored
     \/ /\ \E p \in Providers :
             HandleOAuth([path |-> "callback", flow |-> f, provider |-> p])
        /\ UNCHANGED stored
     \/ (\E t \in IdToken : IdentityVerified(f, t)) /\ UNCHANGED stored
     \/ FlowFails(f) /\ UNCHANGED stored
     \/ /\ HandleOAuth([path |-> "exchange", flow |-> f])
        /\ \E got \in {stored[d], flows[f].session} :
             stored' = [stored EXCEPT ![d] = got]
  /\ UNCHANGED <<dialog, answers, restarts>>

\* refreshAuthSession, by a window that read s when d had it stored, and may be the
\* second to send it: unless it gets new tokens, it forgets what is stored by now.
RefreshStored(s, d) ==
  /\ sessions[s] # NoSession /\ sessions[s].device = d
  /\ \/ /\ HandleSession([path |-> "refresh", session |-> s, device |-> d])
        /\ \E got \in {0, IF Refreshable(s) THEN NextSession ELSE 0} :
             stored' = [stored EXCEPT ![d] = got]
     \/ stored' = [stored EXCEPT ![d] = 0] /\ UNCHANGED serviceVars
  /\ UNCHANGED <<dialog, answers, restarts>>

\* logoutAccount: the session is forgotten whether or not the server ended it.
SignOut(d) ==
  /\ stored[d] # 0
  /\ \/ HandleSession([path |-> "logout", session |-> stored[d]])
     \/ UNCHANGED serviceVars
  /\ stored' = [stored EXCEPT ![d] = 0]
  /\ UNCHANGED <<dialog, answers, restarts>>

ServerStep ==
  /\ \/ \E c \in CodeIds : CodeExpires(c)
     \/ \E s \in SessionIds : SessionAges(s)
  /\ UNCHANGED <<clientVars, restarts>>

Restart ==
  /\ restarts < MaxRestarts /\ restarts' = restarts + 1
  /\ RestartAccounts
  /\ answers' = [d \in Devices |-> {}]
  /\ UNCHANGED <<stored, dialog>>

Next ==
  \/ \E d \in Devices :
       \/ \E e \in Emails : SubmitCredentials(d, e) \/ RegisterUnmailed(d, e) \/ SubmitForgot(d, e)
       \/ SubmitCode(d) \/ SubmitNewPassword(d) \/ MoveDialog(d) \/ SignOut(d)
       \/ \E a \in answers[d] : Answered(d, a) \/ AnswerLost(d, a)
       \/ \E s \in SessionIds : RefreshStored(s, d)
  \/ \E f \in Flows : SocialSignIn(f)
  \/ ServerStep \/ Restart

Spec == Init /\ [][Next]_vars

\* Whose call the server takes a call of d for (server.js): the access token says it,
\* or the header of the call when the token is over.
TakenFor(d, header) ==
  IF Authorized(stored[d]) THEN [userId |-> sessions[stored[d]].email] ELSE header

-----------------------------------------------------------------------------
\* Properties.

\* Types, and that what a device has stored was issued for it, through refreshes,
\* answers that come late and sign-ins through a provider: a refresh names the device
\* and is refused when the session is another one's.
AccountsTypeOK ==
  /\ ServiceTypeOK
  /\ stored \in [Devices -> SessionIds \cup {0}]
  /\ \A d \in Devices : stored[d] # 0 => sessions[stored[d]].device = d
  /\ dialog \in [Devices -> Dialog]
  /\ \A d \in Devices : answers[d] \subseteq Answer

\* Whoever can refresh a session has earned it: its email was verified, it was issued
\* since the last password reset (email-password-auth.md: "Completing a reset revokes
\* every existing session"), and it is the only one left of the code or provider
\* sign-in it began with, however often it was rotated, replayed or restarted.
SessionsAreEarned ==
  \A s \in SessionIds : InMaps(s) =>
    LET this == sessions[s]
    IN
    /\ users[this.email].verified
    /\ this.epoch = resets[this.email]
    /\ \A r \in SessionIds : InMaps(r) /\ sessions[r].from = this.from => r = s

\* The nonce the dialog will send is one for the step that it shows, in whatever order
\* answers and clicks come: a reset code never goes to verify-otp, nor a login code
\* to reset-password.
DialogFits ==
  \A d \in Devices :
    LET step == dialog[d].step
        nonce == dialog[d].nonce
    IN
    /\ step \in {"otp", "reset"} <=> nonce # 0
    /\ step \in {"otp", "reset"} => (codes[nonce].purpose = "reset" <=> step = "reset")

\* docs/engineering/auth-sessions.md: "15-minute access tokens, rotating 30-day
\* refresh".  While the refresh token of the stored session works, the calls of the
\* device are taken for those of its account.
ServedAsAccount ==
  \A d \in Devices :
    LET s == stored[d]
    IN s # 0 /\ Refreshable(s) =>
         \* tryStartJob names the user id, pollLiveRun the email
         TakenFor(d, [userId |-> sessions[s].email]) = TakenFor(d, [email |-> sessions[s].email])
=============================================================================
