--------------------------- MODULE AccountsProofs ---------------------------
(***************************************************************************)
(* The safety invariants of Accounts, for any emails, devices, emailed     *)
(* codes, sessions and sign-ins through a provider, and any number of      *)
(* answers on their way and of restarts.                                   *)
(***************************************************************************)
EXTENDS Accounts, FiniteSetTheorems, TLAPS

UsedSessions == {s \in SessionIds : sessions[s] # NoSession}
UsedCodes    == {c \in CodeIds : codes[c] # NoCode}

\* Codes and sessions are taken one after the other.
InOrder ==
  /\ UsedSessions = 1..Cardinality(UsedSessions)
  /\ UsedCodes = 1..Cardinality(UsedCodes)

\* Whoever is verified, has a password or was sent a code is known.
UsersFit ==
  /\ \A e \in Emails : users[e].verified \/ users[e].password => users[e].known
  /\ \A c \in UsedCodes : users[codes[c].email].known

\* What a session that works was issued for is used up.
OriginsFit ==
  \A s \in SessionIds : InMaps(s) =>
    /\ \A c \in CodeIds : sessions[s].from = c => codes[c].state = "over"
    /\ \A f \in Flows : sessions[s].from = f => flows[f].state \in {"code", "spent"}

\* The session behind an exchange code is one of the device that asked for it.
FlowsFit ==
  \A f \in Flows : flows[f].state = "code" =>
    /\ flows[f].session \in UsedSessions
    /\ sessions[flows[f].session].device = flows[f].device

ServiceInv ==
  /\ ServiceTypeOK /\ resets \in [Emails -> Nat]
  /\ InOrder /\ UsersFit /\ OriginsFit /\ FlowsFit
  /\ SessionsAreEarned

\* What a device has stored or is being sent is its own.
Mine(s, d) == s \in UsedSessions /\ sessions[s].device = d

\* What the dialog of a device was told, and is being told.
AnswerFits(d, a) ==
  CASE a.kind = "verified"   -> Mine(a.session, d)
    [] a.kind = "code sent"  -> a.code \in UsedCodes /\ codes[a.code].purpose # "reset"
    [] a.kind = "reset sent" -> a.code \in UsedCodes /\ codes[a.code].purpose = "reset"
    [] OTHER                 -> TRUE

ClientInv ==
  /\ stored \in [Devices -> SessionIds \cup {0}]
  /\ dialog \in [Devices -> Dialog]
  /\ \A d \in Devices :
       /\ answers[d] \subseteq Answer
       /\ \A a \in answers[d] : AnswerFits(d, a)
       /\ stored[d] # 0 => Mine(stored[d], d)
       /\ dialog[d].nonce # 0 => dialog[d].nonce \in UsedCodes
  /\ answers \in [Devices -> SUBSET Answer]
  /\ DialogFits

\* The inductive invariant.
IInv == ServiceInv /\ ClientInv

\* A step forgets no session and no code: the device of one and the purpose of the
\* other stay.
Grows ==
  /\ \A s \in UsedSessions : s \in UsedSessions' /\ sessions'[s].device = sessions[s].device
  /\ \A c \in UsedCodes : c \in UsedCodes' /\ codes'[c].purpose = codes[c].purpose

-----------------------------------------------------------------------------
\* Facts.

LEMMA RecordFacts ==
  /\ \A x \in Session : x # NoSession /\ x.state # "none"
  /\ \A x \in Code : x # NoCode /\ x.state # "none"
  /\ \A x \in Flow : x # NoFlow /\ x.state # "none"
  /\ NoSession.state = "none" /\ NoCode.state = "none" /\ NoFlow.state = "none"
BY DEF Session, NoSession, Code, NoCode, Flow, NoFlow

LEMMA UsedFacts ==
  ASSUME ServiceTypeOK
  PROVE  /\ \A s \in UsedSessions : sessions[s] \in Session
         /\ \A c \in UsedCodes : codes[c] \in Code
         /\ \A s \in SessionIds : InMaps(s) => s \in UsedSessions
         /\ \A c \in CodeIds : codes[c].state # "none" => c \in UsedCodes
         /\ \A f \in Flows : flows[f].state # "none" => flows[f] \in Flow
BY RecordFacts DEF ServiceTypeOK, UsedSessions, UsedCodes, InMaps

\* The first k numbers, and the next one.
LEMMA NextNumber ==
  ASSUME NEW S, NEW k \in Nat, S = 1..k
  PROVE  /\ Cardinality(S) = k
         /\ k + 1 \notin S /\ S \cup {k + 1} = 1..(k + 1)
         /\ Cardinality(S \cup {k + 1}) = k + 1
<1>1. Cardinality(S) = k /\ Cardinality(1..(k + 1)) = k + 1
  BY FS_Interval
<1>2. S \cup {k + 1} = 1..(k + 1) /\ k + 1 \notin S
  OBVIOUS
<1>3. Cardinality(S \cup {k + 1}) = k + 1
  BY <1>1, <1>2, Zenon
<1> QED
  BY <1>1, <1>2, <1>3

LEMMA Counted ==
  ASSUME ServiceInv
  PROVE  /\ Cardinality(UsedSessions) \in Nat /\ Cardinality(UsedCodes) \in Nat
         /\ NextSession = Cardinality(UsedSessions) + 1
         /\ NextCode = Cardinality(UsedCodes) + 1
         /\ NextSession \notin UsedSessions /\ NextCode \notin UsedCodes
<1>1. IsFiniteSet(UsedSessions) /\ IsFiniteSet(UsedCodes)
  <2>1. IsFiniteSet(SessionIds) /\ IsFiniteSet(CodeIds)
    BY AccountsAssumption
  <2> QED
    BY <2>1, FS_Subset DEF UsedSessions, UsedCodes
<1>2. Cardinality(UsedSessions) \in Nat /\ Cardinality(UsedCodes) \in Nat
  BY <1>1, FS_CardinalityType
<1>3. NextSession = Cardinality(UsedSessions) + 1 /\ NextCode = Cardinality(UsedCodes) + 1
  BY DEF NextSession, NextCode, UsedSessions, UsedCodes
<1> QED
  BY <1>2, <1>3, NextNumber DEF ServiceInv, InOrder

-----------------------------------------------------------------------------
\* Sending a code.

\* A code is sent to a known user; nothing else changes but the user it is sent to.
LEMMA SendKeeps ==
  ASSUME ServiceInv, NEW e \in Emails, NEW purpose \in {"register", "login", "reset"},
         SendCode(e, purpose),
         users' \in [Emails -> User],
         users'[e].known,
         \A x \in Emails : /\ users[x].known => users'[x].known
                           /\ users[x].verified = users'[x].verified
                           /\ users'[x].verified \/ users'[x].password => users'[x].known,
         UNCHANGED <<sessions, flows, resets>>
  PROVE  /\ ServiceInv' /\ Grows
         /\ NextCode \in UsedCodes' /\ codes'[NextCode].purpose = purpose
<1> DEFINE n == NextCode
           new == [state |-> "sent", email |-> e, purpose |-> purpose]
<1>1. /\ n \in CodeIds /\ n \notin UsedCodes /\ codes[n] = NoCode
      /\ new \in Code /\ new # NoCode
      /\ codes' = [codes EXCEPT ![n] = new]
  BY Counted, RecordFacts DEF SendCode, UsedCodes, Code
<1>2. /\ codes' \in [CodeIds -> Code \cup {NoCode}]
      /\ codes'[n] = new
      /\ \A c \in CodeIds \ {n} : codes'[c] = codes[c]
  BY <1>1 DEF ServiceInv, ServiceTypeOK
<1>3. UsedCodes' = UsedCodes \cup {n} /\ UsedSessions' = UsedSessions
  BY <1>1, <1>2 DEF UsedCodes, UsedSessions
<1>4. InOrder'
  <2>1. Cardinality(UsedCodes \cup {n}) = n /\ UsedCodes \cup {n} = 1..n
    BY Counted, NextNumber DEF ServiceInv, InOrder
  <2> QED
    BY <1>3, <2>1 DEF ServiceInv, InOrder
<1>5. ServiceTypeOK' /\ resets' \in [Emails -> Nat]
  BY <1>2 DEF ServiceInv, ServiceTypeOK
<1>6. UsersFit'
  <2>1. \A c \in UsedCodes : codes[c].email \in Emails
    BY UsedFacts DEF ServiceInv, Code
  <2> QED
    BY <1>1, <1>2, <1>3, <2>1 DEF ServiceInv, UsersFit, UsedCodes
<1>7. OriginsFit'
  <2>1. \A s \in SessionIds : InMaps(s)' <=> InMaps(s)
    BY DEF InMaps
  <2>2. \A c \in CodeIds : codes[c].state = "over" => c # n
    BY <1>1, RecordFacts
  <2> QED
    BY <1>2, <2>1, <2>2 DEF ServiceInv, OriginsFit
<1>8. FlowsFit'
  BY <1>3 DEF ServiceInv, FlowsFit
<1>9. SessionsAreEarned'
  <2>1. \A s \in SessionIds : InMaps(s)' <=> InMaps(s)
    BY DEF InMaps
  <2>2. \A s \in SessionIds : InMaps(s) => sessions[s].email \in Emails
    BY UsedFacts DEF ServiceInv, Session
  <2> QED
    BY <2>1, <2>2 DEF ServiceInv, SessionsAreEarned
<1>10. Grows
  BY <1>1, <1>2, <1>3 DEF Grows, UsedCodes
<1> QED
  BY <1>2, <1>3, <1>4, <1>5, <1>6, <1>7, <1>8, <1>9, <1>10 DEF ServiceInv

\* register, also when its mail fails.
LEMMA RegisterKeeps ==
  ASSUME ServiceInv, NEW e \in Emails, NEW mailed \in BOOLEAN, Register(e, mailed)
  PROVE  /\ ServiceInv' /\ Grows
         /\ mailed => NextCode \in UsedCodes' /\ codes'[NextCode].purpose = "register"
<1>1. /\ users' \in [Emails -> User] /\ users'[e].known /\ ~users'[e].verified
      /\ ~users[e].known
      /\ \A x \in Emails \ {e} : users'[x] = users[x]
      /\ UNCHANGED <<sessions, flows, resets>>
  <2> DEFINE now == [NoUser EXCEPT !.password = TRUE, !.known = TRUE]
  <2>1. now \in User /\ now.known /\ ~now.verified
    BY DEF NoUser, User
  <2>2. users' = [users EXCEPT ![e] = now] /\ ~users[e].known
    BY DEF Register
  <2> HIDE DEF now
  <2> QED
    BY <2>1, <2>2 DEF Register, ServiceInv, ServiceTypeOK
<1>2. ~users[e].verified
  BY <1>1 DEF ServiceInv, UsersFit
<1>3. users[e].verified \in BOOLEAN /\ users'[e].verified \in BOOLEAN
  BY <1>1 DEF ServiceInv, ServiceTypeOK, User
<1>4. \A x \in Emails : /\ users[x].known => users'[x].known
                        /\ users[x].verified = users'[x].verified
                        /\ users'[x].verified \/ users'[x].password => users'[x].known
  BY <1>1, <1>2, <1>3 DEF ServiceInv, UsersFit
<1>5. CASE mailed
  <2>1. SendCode(e, "register")
    BY <1>5 DEF Register
  <2> QED
    BY <1>1, <1>4, <2>1, SendKeeps
<1>6. CASE ~mailed
  <2>1. UNCHANGED codes
    BY <1>6 DEF Register
  <2>2. UsedCodes' = UsedCodes /\ UsedSessions' = UsedSessions
    BY <1>1, <2>1 DEF UsedCodes, UsedSessions
  <2>3. /\ \A c \in UsedCodes : codes[c].email \in Emails
        /\ \A s \in SessionIds : InMaps(s) => sessions[s].email \in Emails
    BY UsedFacts DEF ServiceInv, Code, Session
  <2>4. ServiceTypeOK' /\ resets' \in [Emails -> Nat] /\ InOrder' /\ FlowsFit'
    BY <1>1, <2>1, <2>2 DEF ServiceInv, ServiceTypeOK, InOrder, FlowsFit
  <2>5. UsersFit'
    BY <1>4, <2>1, <2>2, <2>3 DEF ServiceInv, UsersFit
  <2>6. \A s \in SessionIds : InMaps(s)' <=> InMaps(s)
    BY <1>1 DEF InMaps
  <2>7. OriginsFit' /\ SessionsAreEarned'
    BY <1>1, <1>4, <2>1, <2>3, <2>6 DEF ServiceInv, OriginsFit, SessionsAreEarned
  <2>8. Grows
    BY <1>1, <2>1, <2>2 DEF Grows
  <2> QED
    BY <1>6, <2>4, <2>5, <2>7, <2>8 DEF ServiceInv
<1> QED
  BY <1>5, <1>6

\* login and forgot-password send to a user who is known.
LEMMA LoginKeeps ==
  ASSUME ServiceInv, NEW e \in Emails, users[e].known, NEW purpose \in {"register", "login", "reset"},
         SendCode(e, purpose), UNCHANGED <<users, sessions, flows, resets>>
  PROVE  /\ ServiceInv' /\ Grows
         /\ NextCode \in UsedCodes' /\ codes'[NextCode].purpose = purpose
<1>1. users' \in [Emails -> User] /\ \A x \in Emails : users[x].verified \/ users[x].password => users[x].known
  BY DEF ServiceInv, ServiceTypeOK, UsersFit
<1> QED
  BY <1>1, SendKeeps

-----------------------------------------------------------------------------
\* Steps that end sessions, codes and flows.

\* The sessions of old are those there are; they may work no longer.
Faded(old) ==
  /\ old \in [SessionIds -> Session \cup {NoSession}]
  /\ \A s \in SessionIds : old[s] # NoSession <=> s \in UsedSessions
  /\ \A s \in UsedSessions :
       /\ old[s].email = sessions[s].email /\ old[s].device = sessions[s].device
       /\ old[s].from = sessions[s].from /\ old[s].epoch = sessions[s].epoch
       /\ old[s].state \in {"fresh", "aged", "old"} => InMaps(s)

\* Codes are used up or stay as they are.
CodesFade ==
  /\ codes' \in [CodeIds -> Code \cup {NoCode}]
  /\ \A c \in CodeIds : codes'[c] # NoCode <=> c \in UsedCodes
  /\ \A c \in UsedCodes :
       /\ codes'[c].email = codes[c].email /\ codes'[c].purpose = codes[c].purpose
       /\ codes[c].state = "over" => codes'[c].state = "over"

\* Nobody becomes less known or less verified.
UsersGrow ==
  /\ users' \in [Emails -> User]
  /\ \A e \in Emails : /\ users[e].known => users'[e].known
                       /\ users[e].verified => users'[e].verified
                       /\ users'[e].verified \/ users'[e].password => users'[e].known

LEMMA SessionsStay ==
  ASSUME ServiceInv PROVE Faded(sessions)
BY RecordFacts DEF ServiceInv, ServiceTypeOK, Faded, UsedSessions, InMaps

LEMMA CodesStay ==
  ASSUME ServiceInv, UNCHANGED codes PROVE CodesFade
BY RecordFacts DEF ServiceInv, ServiceTypeOK, CodesFade, UsedCodes

LEMMA UsersStay ==
  ASSUME ServiceInv, UNCHANGED users PROVE UsersGrow
BY DEF ServiceInv, ServiceTypeOK, UsersFit, UsersGrow

\* One user, who is known, is changed to no less.
LEMMA UserGrows ==
  ASSUME ServiceInv, NEW e \in Emails, NEW now \in User, users' = [users EXCEPT ![e] = now],
         now.known, users[e].verified => now.verified
  PROVE  UsersGrow /\ users'[e] = now
<1>1. /\ users' \in [Emails -> User] /\ users'[e] = now
      /\ \A x \in Emails \ {e} : users'[x] = users[x]
  BY DEF ServiceInv, ServiceTypeOK
<1> QED
  BY <1>1 DEF ServiceInv, UsersFit, UsersGrow

\* The state of one session is changed.
LEMMA StateFades ==
  ASSUME ServiceInv, NEW s \in UsedSessions, InMaps(s),
         NEW st \in {"fresh", "aged", "old", "retired", "ended"}
  PROVE  Faded([sessions EXCEPT ![s].state = st])
<1> DEFINE old == [sessions EXCEPT ![s].state = st]
           now == [sessions[s] EXCEPT !.state = st]
<1>1. sessions[s] \in Session /\ s \in SessionIds
  BY UsedFacts DEF ServiceInv, UsedSessions
<1>2. /\ now \in Session /\ now # NoSession
      /\ now.email = sessions[s].email /\ now.device = sessions[s].device
      /\ now.from = sessions[s].from /\ now.epoch = sessions[s].epoch
  BY <1>1 DEF Session, NoSession
<1>3. old = [sessions EXCEPT ![s] = now]
  OBVIOUS
<1> HIDE DEF now
<1>4. /\ old \in [SessionIds -> Session \cup {NoSession}] /\ old[s] = now
      /\ \A x \in SessionIds \ {s} : old[x] = sessions[x]
  BY <1>1, <1>2, <1>3 DEF ServiceInv, ServiceTypeOK
<1> HIDE DEF old
<1>5. Faded(old)
  BY <1>1, <1>2, <1>4 DEF Faded, UsedSessions, InMaps
<1> QED
  BY <1>5 DEF old

\* Every step of this kind.
LEMMA FadeKeeps ==
  ASSUME ServiceInv, Faded(sessions'), CodesFade, UsersGrow,
         resets' \in [Emails -> Nat],
         \A s \in UsedSessions : InMaps(s)' =>
           resets'[sessions[s].email] = resets[sessions[s].email],
         flows' \in [Flows -> Flow \cup {NoFlow}],
         \A f \in Flows : flows'[f].state = "code" => flows'[f] = flows[f],
         \A s \in SessionIds, f \in Flows :
           InMaps(s)' /\ flows[f].state \in {"code", "spent"} =>
             flows'[f].state \in {"code", "spent"}
  PROVE  ServiceInv' /\ Grows
<1>1. UsedSessions' = UsedSessions /\ UsedCodes' = UsedCodes
  BY DEF Faded, CodesFade, UsedSessions, UsedCodes
<1>2. ServiceTypeOK'
  BY DEF ServiceTypeOK, Faded, CodesFade, UsersGrow
<1>3. InOrder'
  BY <1>1 DEF ServiceInv, InOrder
<1>4. UsersFit'
  <2>1. \A c \in UsedCodes : codes[c].email \in Emails
    BY UsedFacts DEF ServiceInv, Code
  <2> QED
    BY <1>1, <2>1 DEF ServiceInv, UsersFit, UsersGrow, CodesFade
<1>5. \A s \in SessionIds : InMaps(s)' => s \in UsedSessions /\ InMaps(s)
  <2>1. \A s \in SessionIds : InMaps(s)' => s \in UsedSessions'
    BY <1>2, UsedFacts, RecordFacts DEF InMaps, UsedSessions
  <2> QED
    BY <1>1, <2>1 DEF Faded, InMaps
<1>6. OriginsFit'
  <2> SUFFICES ASSUME NEW s \in SessionIds, InMaps(s)'
               PROVE  /\ \A c \in CodeIds : sessions'[s].from = c => codes'[c].state = "over"
                      /\ \A f \in Flows : sessions'[s].from = f =>
                           flows'[f].state \in {"code", "spent"}
    BY DEF OriginsFit
  <2>1. s \in UsedSessions /\ InMaps(s) /\ sessions'[s].from = sessions[s].from
    BY <1>5 DEF Faded
  <2>2. \A c \in CodeIds : codes[c].state = "over" => c \in UsedCodes
    BY UsedFacts DEF ServiceInv
  <2> QED
    BY <2>1, <2>2 DEF ServiceInv, OriginsFit, CodesFade
<1>7. FlowsFit'
  BY <1>1 DEF ServiceInv, FlowsFit, Faded
<1>8. SessionsAreEarned'
  <2> SUFFICES ASSUME NEW s \in SessionIds, InMaps(s)'
               PROVE  /\ users'[sessions'[s].email].verified
                      /\ sessions'[s].epoch = resets'[sessions'[s].email]
                      /\ \A r \in SessionIds :
                           InMaps(r)' /\ sessions'[r].from = sessions'[s].from => r = s
    BY DEF SessionsAreEarned
  <2>1. /\ s \in UsedSessions /\ InMaps(s)
        /\ sessions'[s].email = sessions[s].email /\ sessions'[s].epoch = sessions[s].epoch
        /\ sessions'[s].from = sessions[s].from /\ sessions[s].email \in Emails
    BY <1>5, UsedFacts DEF Faded, ServiceInv, Session
  <2>2. ASSUME NEW r \in SessionIds, InMaps(r)', sessions'[r].from = sessions'[s].from
        PROVE  r = s
    <3>1. InMaps(r) /\ sessions[r].from = sessions[s].from
      BY <1>5, <2>1, <2>2 DEF Faded
    <3> QED
      BY <2>1, <3>1 DEF ServiceInv, SessionsAreEarned
  <2> QED
    BY <2>1, <2>2 DEF ServiceInv, SessionsAreEarned, UsersGrow
<1>9. Grows
  BY <1>1 DEF Grows, Faded, CodesFade
<1> QED
  BY <1>2, <1>3, <1>4, <1>6, <1>7, <1>8, <1>9 DEF ServiceInv

-----------------------------------------------------------------------------
\* Steps that issue a session.

LEMMA IssueKeeps ==
  ASSUME ServiceInv, NEW old, Faded(old), NextSession \in SessionIds,
         NEW e \in Emails, NEW d \in Devices, NEW from \in CodeIds \cup Flows,
         sessions' = Issued(old, e, d, from),
         CodesFade, UsersGrow, users'[e].verified, UNCHANGED resets,
         flows' \in [Flows -> Flow \cup {NoFlow}],
         \A f \in Flows :
           \/ flows'[f] = flows[f]
           \/ /\ f = from /\ flows'[f].state = "code"
              /\ flows'[f].session = NextSession /\ flows'[f].device = d,
         \* Nothing that works was issued for it, and it is used up.
         \A s \in UsedSessions :
           old[s].state \in {"fresh", "aged", "old"} => sessions[s].from # from,
         from \in CodeIds => codes'[from].state = "over",
         from \in Flows => flows'[from].state \in {"code", "spent"}
  PROVE  /\ ServiceInv' /\ Grows
         /\ NextSession \in UsedSessions' /\ sessions'[NextSession].device = d
<1> DEFINE n == NextSession
           new == [state |-> "fresh", email |-> e, device |-> d, from |-> from,
                   epoch |-> resets[e]]
<1>1. n \in SessionIds /\ n \notin UsedSessions /\ new \in Session /\ new # NoSession
  BY Counted, RecordFacts DEF ServiceInv, Session
<1>2. /\ sessions' \in [SessionIds -> Session \cup {NoSession}]
      /\ sessions'[n] = new
      /\ \A s \in SessionIds \ {n} : sessions'[s] = old[s]
  <2>1. sessions' = [old EXCEPT ![n] = new]
    BY DEF Issued
  <2> HIDE DEF new, n
  <2> QED
    BY <1>1, <2>1 DEF Faded
<1>3. UsedSessions' = UsedSessions \cup {n} /\ UsedCodes' = UsedCodes
  <2> HIDE DEF new, n
  <2>1. UsedSessions' = UsedSessions \cup {n}
    BY <1>1, <1>2 DEF UsedSessions, Faded
  <2> QED
    BY <2>1 DEF UsedCodes, CodesFade
<1>4. \A s \in UsedSessions : s \in SessionIds /\ s # n /\ sessions'[s] = old[s]
  <2> HIDE DEF new, n
  <2> QED
    BY <1>1, <1>2 DEF UsedSessions
<1>5. \A s \in SessionIds : InMaps(s)' =>
         \/ s = n
         \/ s \in UsedSessions /\ InMaps(s) /\ old[s].state \in {"fresh", "aged", "old"}
  <2> SUFFICES ASSUME NEW s \in SessionIds, InMaps(s)', s # n
               PROVE  s \in UsedSessions /\ InMaps(s) /\ old[s].state \in {"fresh", "aged", "old"}
    OBVIOUS
  <2>1. sessions'[s] = old[s] /\ old[s].state \in {"fresh", "aged", "old"}
    BY <1>2 DEF InMaps
  <2>2. s \in UsedSessions
    BY <2>1, RecordFacts DEF Faded
  <2> QED
    BY <2>1, <2>2 DEF Faded
<1>6. new.email = e /\ new.device = d /\ new.from = from /\ new.epoch = resets[e]
  OBVIOUS
<1> HIDE DEF new, n
<1>7. ServiceTypeOK' /\ resets' \in [Emails -> Nat]
  BY <1>2 DEF ServiceInv, ServiceTypeOK, CodesFade, UsersGrow
<1>8. InOrder'
  <2>1. n = Cardinality(UsedSessions) + 1 /\ Cardinality(UsedSessions) \in Nat
    BY Counted DEF n
  <2>2. Cardinality(UsedSessions \cup {n}) = n /\ UsedSessions \cup {n} = 1..n
    BY <2>1, NextNumber DEF ServiceInv, InOrder
  <2> QED
    BY <1>3, <2>2 DEF ServiceInv, InOrder
<1>9. UsersFit'
  <2>1. \A c \in UsedCodes : codes[c].email \in Emails
    BY UsedFacts DEF ServiceInv, Code
  <2> QED
    BY <1>3, <2>1 DEF ServiceInv, UsersFit, UsersGrow, CodesFade
<1>10. OriginsFit'
  <2> SUFFICES ASSUME NEW s \in SessionIds, InMaps(s)'
               PROVE  /\ \A c \in CodeIds : sessions'[s].from = c => codes'[c].state = "over"
                      /\ \A f \in Flows : sessions'[s].from = f =>
                           flows'[f].state \in {"code", "spent"}
    BY DEF OriginsFit
  <2>1. CASE s = n
    BY <1>2, <1>6, <2>1
  <2>2. CASE s # n
    <3>1. s \in UsedSessions /\ InMaps(s) /\ sessions'[s].from = sessions[s].from
      BY <1>4, <1>5, <2>2 DEF Faded
    <3>2. \A c \in CodeIds : codes[c].state = "over" => c \in UsedCodes
      BY UsedFacts DEF ServiceInv
    <3> QED
      BY <3>1, <3>2 DEF ServiceInv, OriginsFit, CodesFade
  <2> QED
    BY <2>1, <2>2
<1>11. FlowsFit'
  <2> SUFFICES ASSUME NEW f \in Flows, flows'[f].state = "code"
               PROVE  /\ flows'[f].session \in UsedSessions'
                      /\ sessions'[flows'[f].session].device = flows'[f].device
    BY DEF FlowsFit
  <2>1. CASE flows'[f] = flows[f]
    BY <1>3, <1>4, <2>1 DEF ServiceInv, FlowsFit, Faded
  <2>2. CASE flows'[f].session = n /\ flows'[f].device = d
    BY <1>2, <1>3, <1>6, <2>2
  <2> QED
    BY <2>1, <2>2 DEF n
<1>12. SessionsAreEarned'
  <2> SUFFICES ASSUME NEW s \in SessionIds, InMaps(s)'
               PROVE  /\ users'[sessions'[s].email].verified
                      /\ sessions'[s].epoch = resets'[sessions'[s].email]
                      /\ \A r \in SessionIds :
                           InMaps(r)' /\ sessions'[r].from = sessions'[s].from => r = s
    BY DEF SessionsAreEarned
  <2>1. ASSUME NEW r \in SessionIds, InMaps(r)', r # n
        PROVE  /\ InMaps(r) /\ sessions[r].email \in Emails /\ sessions'[r].from # from
               /\ sessions'[r].email = sessions[r].email
               /\ sessions'[r].epoch = sessions[r].epoch
               /\ sessions'[r].from = sessions[r].from
    <3>1. r \in UsedSessions /\ InMaps(r) /\ old[r].state \in {"fresh", "aged", "old"}
      BY <1>5, <2>1
    <3>2. sessions[r].email \in Emails
      BY <3>1, UsedFacts DEF ServiceInv, Session
    <3> QED
      BY <1>4, <3>1, <3>2 DEF Faded
  <2>2. CASE s = n
    BY <1>2, <1>6, <2>1, <2>2
  <2>3. CASE s # n
    <3>1. users'[sessions'[s].email].verified /\ sessions'[s].epoch = resets'[sessions'[s].email]
      BY <2>1, <2>3 DEF ServiceInv, SessionsAreEarned, UsersGrow
    <3>2. ASSUME NEW r \in SessionIds, InMaps(r)', sessions'[r].from = sessions'[s].from
          PROVE  r = s
      <4>1. r # n
        BY <1>2, <1>6, <2>1, <2>3, <3>2
      <4> QED
        BY <2>1, <2>3, <3>2, <4>1 DEF ServiceInv, SessionsAreEarned
    <3> QED
      BY <3>1, <3>2
  <2> QED
    BY <2>2, <2>3
<1>13. Grows
  BY <1>3, <1>4 DEF Grows, Faded, CodesFade
<1> QED
  BY <1>2, <1>3, <1>6, <1>7, <1>8, <1>9, <1>10, <1>11, <1>12, <1>13 DEF ServiceInv, n

\* A code is used up.
LEMMA CodeFades ==
  ASSUME ServiceInv, NEW c \in UsedCodes, codes' = [codes EXCEPT ![c].state = "over"]
  PROVE  CodesFade /\ codes'[c].state = "over"
<1> DEFINE now == [codes[c] EXCEPT !.state = "over"]
<1>1. codes[c] \in Code /\ c \in CodeIds
  BY UsedFacts DEF ServiceInv, UsedCodes
<1>2. /\ now \in Code /\ now # NoCode /\ now.state = "over"
      /\ now.email = codes[c].email /\ now.purpose = codes[c].purpose
  BY <1>1 DEF Code, NoCode
<1>3. codes' = [codes EXCEPT ![c] = now]
  OBVIOUS
<1> HIDE DEF now
<1>4. /\ codes' \in [CodeIds -> Code \cup {NoCode}] /\ codes'[c] = now
      /\ \A x \in CodeIds \ {c} : codes'[x] = codes[x]
  BY <1>1, <1>2, <1>3 DEF ServiceInv, ServiceTypeOK
<1> QED
  BY <1>1, <1>2, <1>4 DEF CodesFade, UsedCodes

LEMMA VerifyOtpKeeps ==
  ASSUME ServiceInv, NEW c \in CodeIds, NEW d \in Devices, VerifyOtp(c, d)
  PROVE  /\ ServiceInv' /\ Grows
         /\ NextSession \in UsedSessions' /\ sessions'[NextSession].device = d
<1> DEFINE e == codes[c].email
<1>1. c \in UsedCodes /\ e \in Emails /\ users[e].known
  BY UsedFacts DEF VerifyOtp, ServiceInv, UsersFit, Code
<1>2. CodesFade /\ codes'[c].state = "over"
  BY <1>1, CodeFades DEF VerifyOtp
<1>3. UsersGrow /\ users'[e].verified
  <2> DEFINE now == [users[e] EXCEPT !.verified = TRUE]
  <2>0. users[e] \in User /\ users[e].known
    BY <1>1 DEF ServiceInv, ServiceTypeOK
  <2>1. now \in User /\ now.verified /\ now.known
    BY <2>0 DEF User
  <2>2. users' = [users EXCEPT ![e] = now]
    BY DEF VerifyOtp
  <2> HIDE DEF now, e
  <2> QED
    BY <1>1, <2>1, <2>2, UserGrows
<1>4. \A s \in UsedSessions :
        sessions[s].state \in {"fresh", "aged", "old"} => sessions[s].from # c
  BY DEF VerifyOtp, ServiceInv, OriginsFit, InMaps, UsedSessions
<1>5. c \notin Flows
  BY AccountsAssumption
<1>6. /\ NextSession \in SessionIds /\ sessions' = Issued(sessions, e, d, c)
      /\ UNCHANGED <<flows, resets>>
  BY DEF VerifyOtp
<1>7. Faded(sessions) /\ flows \in [Flows -> Flow \cup {NoFlow}]
  BY SessionsStay DEF ServiceInv, ServiceTypeOK
<1> HIDE DEF e
<1> QED
  BY <1>1, <1>2, <1>3, <1>4, <1>5, <1>6, <1>7, IssueKeeps

LEMMA IdentityKeeps ==
  ASSUME ServiceInv, NEW f \in Flows, NEW t \in IdToken, IdentityVerified(f, t)
  PROVE  ServiceInv' /\ Grows
<1> DEFINE e == UserFor(f, t)
           d == flows[f].device
<1>1. e \in Emails /\ flows[f] \in Flow /\ d \in Devices
  <2>1. e \in Emails
    BY DEF UserFor, Linked, IdToken
  <2> QED
    BY <2>1, UsedFacts DEF IdentityVerified, ServiceInv, Flow
<1>2. UsersGrow /\ users'[e].verified
  <2> DEFINE i == users[e].identities \cup {Identity(f, t)}
             now == [users[e] EXCEPT !.verified = TRUE, !.known = TRUE, !.identities = i]
  <2>0. users[e] \in User /\ i \in SUBSET Identities
    <3>1. Identity(f, t) \in Identities
      BY AccountsAssumption DEF Identity, Identities, IdToken, Providers
    <3>2. users[e] \in User
      BY <1>1 DEF ServiceInv, ServiceTypeOK
    <3> QED
      BY <3>1, <3>2 DEF User
  <2>1. now \in User /\ now.verified /\ now.known
    <3> HIDE DEF i
    <3> QED
      BY <2>0 DEF User
  <2>2. users' = [users EXCEPT ![e] = now]
    BY DEF IdentityVerified
  <2> HIDE DEF now
  <2> HIDE DEF e
  <2> QED
    BY <1>1, <2>1, <2>2, UserGrows
<1>3. /\ flows'[f].state = "code" /\ flows'[f].session = NextSession /\ flows'[f].device = d
      /\ \A g \in Flows \ {f} : flows'[g] = flows[g]
      /\ flows' \in [Flows -> Flow \cup {NoFlow}]
  <2> DEFINE now == [flows[f] EXCEPT !.state = "code", !.session = NextSession]
  <2>1. now \in Flow /\ now.state = "code" /\ now.session = NextSession /\ now.device = d
    BY <1>1 DEF Flow, IdentityVerified
  <2>2. flows' = [flows EXCEPT ![f] = now]
    BY DEF IdentityVerified
  <2> HIDE DEF now
  <2> QED
    BY <2>1, <2>2 DEF ServiceInv, ServiceTypeOK
<1>4. \A s \in UsedSessions :
        sessions[s].state \in {"fresh", "aged", "old"} => sessions[s].from # f
  BY DEF IdentityVerified, ServiceInv, OriginsFit, InMaps, UsedSessions
<1>5. f \notin CodeIds
  BY AccountsAssumption
<1>6. /\ NextSession \in SessionIds /\ sessions' = Issued(sessions, e, d, f)
      /\ UNCHANGED <<codes, resets>>
  BY DEF IdentityVerified
<1>7. Faded(sessions) /\ CodesFade
  BY <1>6, SessionsStay, CodesStay
<1> HIDE DEF e, d
<1> QED
  BY <1>1, <1>2, <1>3, <1>4, <1>5, <1>6, <1>7, IssueKeeps

\* Nothing but sessions changes, and none works that did not.
LEMMA OnlySessionsFade ==
  ASSUME ServiceInv, Faded(sessions'), UNCHANGED <<users, codes, flows, resets>>
  PROVE  ServiceInv' /\ Grows
<1>1. CodesFade /\ UsersGrow
  BY CodesStay, UsersStay
<1>2. flows \in [Flows -> Flow \cup {NoFlow}] /\ resets \in [Emails -> Nat]
  BY DEF ServiceInv, ServiceTypeOK
<1>3. \A s \in UsedSessions : sessions[s].email \in Emails
  BY UsedFacts DEF ServiceInv, Session
<1> QED
  BY <1>1, <1>2, <1>3, FadeKeeps

\* Whoever is logged out.
LEMMA LoggedOutFades ==
  ASSUME ServiceInv, NEW e
  PROVE  /\ Faded(LoggedOut(e))
         /\ \A s \in UsedSessions :
              LoggedOut(e)[s].state \in {"fresh", "aged", "old"} => sessions[s].email # e
<1> DEFINE out == LoggedOut(e)
<1>1. ASSUME NEW s \in SessionIds
      PROVE  out[s] = IF InMaps(s) /\ sessions[s].email = e
                      THEN [sessions[s] EXCEPT !.state = "ended"] ELSE sessions[s]
  BY DEF LoggedOut
<1>2. ASSUME NEW s \in UsedSessions
      PROVE  LET x == [sessions[s] EXCEPT !.state = "ended"]
             IN  /\ x \in Session /\ x.state = "ended"
                 /\ x.email = sessions[s].email /\ x.device = sessions[s].device
                 /\ x.from = sessions[s].from /\ x.epoch = sessions[s].epoch
  BY UsedFacts DEF ServiceInv, Session
<1>3. \A s \in SessionIds : InMaps(s) => s \in UsedSessions
  BY UsedFacts DEF ServiceInv
<1>4. \A s \in SessionIds : sessions[s] \in Session \cup {NoSession}
  BY DEF ServiceInv, ServiceTypeOK
<1>5. ASSUME NEW s \in SessionIds
      PROVE  out[s] \in Session \cup {NoSession} /\ (out[s] # NoSession <=> s \in UsedSessions)
  <2>1. CASE InMaps(s) /\ sessions[s].email = e
    BY <1>1, <1>2, <1>3, <2>1, RecordFacts
  <2>2. CASE ~(InMaps(s) /\ sessions[s].email = e)
    BY <1>1, <1>4, <2>2 DEF UsedSessions
  <2> QED
    BY <2>1, <2>2
<1>6. out \in [SessionIds -> Session \cup {NoSession}]
  <2>1. out = [s \in SessionIds |-> out[s]]
    BY DEF LoggedOut
  <2> QED
    BY <1>5, <2>1
<1>7. ASSUME NEW s \in UsedSessions
      PROVE  /\ out[s].email = sessions[s].email /\ out[s].device = sessions[s].device
             /\ out[s].from = sessions[s].from /\ out[s].epoch = sessions[s].epoch
             /\ out[s].state \in {"fresh", "aged", "old"} => InMaps(s) /\ sessions[s].email # e
  <2>1. s \in SessionIds
    BY DEF UsedSessions
  <2>2. CASE InMaps(s) /\ sessions[s].email = e
    BY <1>1, <1>2, <2>1, <2>2
  <2>3. CASE ~(InMaps(s) /\ sessions[s].email = e)
    BY <1>1, <2>1, <2>3 DEF InMaps
  <2> QED
    BY <2>2, <2>3
<1> HIDE DEF out
<1>8. Faded(out)
  BY <1>5, <1>6, <1>7 DEF Faded
<1> QED
  BY <1>7, <1>8 DEF out

LEMMA CodeExpiresKeeps ==
  ASSUME ServiceInv, NEW c \in CodeIds, CodeExpires(c)
  PROVE  ServiceInv' /\ Grows
<1>1. c \in UsedCodes
  BY UsedFacts DEF CodeExpires, ServiceInv
<1>2. CodesFade
  BY <1>1, CodeFades DEF CodeExpires
<1>3. Faded(sessions') /\ UsersGrow /\ UNCHANGED <<flows, resets>>
  BY SessionsStay, UsersStay DEF CodeExpires
<1> QED
  BY <1>2, <1>3, FadeKeeps DEF ServiceInv, ServiceTypeOK

LEMMA ResetPasswordKeeps ==
  ASSUME ServiceInv, NEW c \in CodeIds, ResetPassword(c)
  PROVE  ServiceInv' /\ Grows
<1> DEFINE e == codes[c].email
<1>1. c \in UsedCodes /\ e \in Emails /\ users[e].known
  BY UsedFacts DEF ResetPassword, ServiceInv, UsersFit, Code
<1>2. CodesFade
  BY <1>1, CodeFades DEF ResetPassword
<1>3. UsersGrow
  <2> DEFINE now == [users[e] EXCEPT !.verified = TRUE, !.password = TRUE]
  <2>0. users[e] \in User /\ users[e].known
    BY <1>1 DEF ServiceInv, ServiceTypeOK
  <2>1. now \in User /\ now.verified /\ now.known
    BY <2>0 DEF User
  <2>2. users' = [users EXCEPT ![e] = now]
    BY DEF ResetPassword
  <2> HIDE DEF now, e
  <2> QED
    BY <1>1, <2>1, <2>2, UserGrows
<1>4. /\ Faded(sessions')
      /\ \A s \in UsedSessions : InMaps(s)' => sessions[s].email # e
  BY <1>1, LoggedOutFades DEF ResetPassword, InMaps
<1>5. /\ resets' \in [Emails -> Nat] /\ \A x \in Emails \ {e} : resets'[x] = resets[x]
      /\ UNCHANGED flows
  BY <1>1 DEF ResetPassword, ServiceInv
<1>6. \A s \in UsedSessions : sessions[s].email \in Emails
  BY UsedFacts DEF ServiceInv, Session
<1> HIDE DEF e
<1> QED
  BY <1>2, <1>3, <1>4, <1>5, <1>6, FadeKeeps DEF ServiceInv, ServiceTypeOK

LEMMA LogoutKeeps ==
  ASSUME ServiceInv, NEW s \in SessionIds, Logout(s)
  PROVE  ServiceInv' /\ Grows
BY LoggedOutFades, OnlySessionsFade DEF Logout

LEMMA SessionAgesKeeps ==
  ASSUME ServiceInv, NEW s \in SessionIds, SessionAges(s)
  PROVE  ServiceInv' /\ Grows
<1>1. InMaps(s) /\ s \in UsedSessions
  BY UsedFacts DEF SessionAges, Refreshable, InMaps, ServiceInv
<1>2. PICK st \in {"aged", "old"} : sessions' = [sessions EXCEPT ![s].state = st]
  BY DEF SessionAges
<1> QED
  BY <1>1, <1>2, StateFades, OnlySessionsFade DEF SessionAges

\* A rotated session is the only one left of what the first was issued for.
LEMMA RefreshKeeps ==
  ASSUME ServiceInv, NEW s \in SessionIds, NEW d \in Devices, Refresh(s, d)
  PROVE  /\ ServiceInv' /\ Grows
         /\ Refreshable(s) => NextSession \in UsedSessions' /\ sessions'[NextSession].device = d
<1>1. CASE /\ Refreshable(s) /\ NextSession \in SessionIds
           /\ sessions' = Issued(Rotated(s), sessions[s].email, d, sessions[s].from)
  <2> DEFINE e == sessions[s].email
             from == sessions[s].from
  <2>1. /\ InMaps(s) /\ s \in UsedSessions /\ e \in Emails /\ from \in CodeIds \cup Flows
    BY <1>1, UsedFacts DEF Refreshable, InMaps, ServiceInv, Session
  <2>2. Faded(Rotated(s))
    BY <2>1, StateFades DEF Rotated
  <2>3. \A r \in UsedSessions :
          Rotated(s)[r].state \in {"fresh", "aged", "old"} => sessions[r].from # from
    <3> SUFFICES ASSUME NEW r \in UsedSessions,
                        Rotated(s)[r].state \in {"fresh", "aged", "old"},
                        sessions[r].from = from
                 PROVE  FALSE
      OBVIOUS
    <3>1. r \in SessionIds /\ InMaps(r)
      BY <2>2 DEF Faded, UsedSessions
    <3>2. r = s
      BY <2>1, <3>1 DEF ServiceInv, SessionsAreEarned
    <3>3. Rotated(s)[s].state = "retired"
      BY <2>1, UsedFacts DEF Rotated, ServiceInv, ServiceTypeOK, Session
    <3> QED
      BY <3>2, <3>3
  <2>4. CodesFade /\ UsersGrow /\ users'[e].verified
    BY <2>1, CodesStay, UsersStay DEF Refresh, ServiceInv, SessionsAreEarned
  <2>5. /\ from \in CodeIds => codes'[from].state = "over"
        /\ from \in Flows => flows'[from].state \in {"code", "spent"}
    BY <2>1 DEF Refresh, ServiceInv, OriginsFit
  <2>6. UNCHANGED <<flows, resets>> /\ flows \in [Flows -> Flow \cup {NoFlow}]
    BY DEF Refresh, ServiceInv, ServiceTypeOK
  <2>7. sessions' = Issued(Rotated(s), e, d, from) /\ NextSession \in SessionIds
    BY <1>1
  <2> HIDE DEF e, from
  <2> QED
    BY <2>1, <2>2, <2>3, <2>4, <2>5, <2>6, <2>7, IssueKeeps
<1>2. CASE /\ sessions[s].state = "retired"
           /\ \E e : sessions' = LoggedOut(e)
  <2>1. Faded(sessions')
    BY <1>2, LoggedOutFades
  <2> QED
    BY <1>2, <2>1, OnlySessionsFade DEF Refresh, Refreshable
<1> QED
  BY <1>1, <1>2 DEF Refresh

-----------------------------------------------------------------------------
\* Sign-ins through a provider, and the restart.

\* A flow that is started, or moves without a session or away from its code.
LEMMA FlowMoves ==
  ASSUME ServiceInv, NEW f \in Flows, NEW now \in Flow, now.state # "code",
         flows' = [flows EXCEPT ![f] = now],
         flows[f].state \in {"code", "spent"} => now.state = "spent",
         UNCHANGED <<users, codes, sessions, resets>>
  PROVE  ServiceInv' /\ Grows
<1>1. Faded(sessions') /\ CodesFade /\ UsersGrow
  BY SessionsStay, CodesStay, UsersStay
<1>2. /\ flows' \in [Flows -> Flow \cup {NoFlow}] /\ flows'[f] = now
      /\ \A g \in Flows \ {f} : flows'[g] = flows[g]
  BY DEF ServiceInv, ServiceTypeOK
<1>3. resets' \in [Emails -> Nat]
  BY DEF ServiceInv
<1> QED
  BY <1>1, <1>2, <1>3, FadeKeeps

LEMMA StartFlowKeeps ==
  ASSUME ServiceInv, NEW f \in Flows, NEW d \in Devices, StartFlow(f, d)
  PROVE  ServiceInv' /\ Grows
<1> DEFINE now == [state |-> "started", device |-> d, session |-> 0]
<1>1. now \in Flow /\ now.state = "started" /\ flows' = [flows EXCEPT ![f] = now]
  BY DEF StartFlow, Flow
<1>2. flows[f].state = "none"
  BY RecordFacts DEF StartFlow
<1> HIDE DEF now
<1> QED
  BY <1>1, <1>2, FlowMoves DEF StartFlow

\* The other steps change the state of a flow, and nothing else of it.
LEMMA FlowStateMoves ==
  ASSUME ServiceInv, NEW f \in Flows, flows[f].state # "none",
         NEW st \in {"awaiting", "spent"},
         flows[f].state \in {"code", "spent"} => st = "spent",
         flows' = [flows EXCEPT ![f].state = st],
         UNCHANGED <<users, codes, sessions, resets>>
  PROVE  ServiceInv' /\ Grows
<1> DEFINE now == [flows[f] EXCEPT !.state = st]
<1>1. flows[f] \in Flow
  BY UsedFacts DEF ServiceInv
<1>2. now \in Flow /\ now.state = st
  BY <1>1 DEF Flow
<1>3. flows' = [flows EXCEPT ![f] = now]
  OBVIOUS
<1> HIDE DEF now
<1> QED
  BY <1>2, <1>3, FlowMoves

LEMMA CallbackKeeps ==
  ASSUME ServiceInv, NEW f \in Flows, NEW p, Callback(f, p)
  PROVE  ServiceInv' /\ Grows
BY FlowStateMoves DEF Callback, StateFits

LEMMA FlowFailsKeeps ==
  ASSUME ServiceInv, NEW f \in Flows, FlowFails(f)
  PROVE  ServiceInv' /\ Grows
BY FlowStateMoves DEF FlowFails

\* The session that is fetched is one of the device that began.
LEMMA ExchangeKeeps ==
  ASSUME ServiceInv, NEW f \in Flows, Exchange(f)
  PROVE  /\ ServiceInv' /\ Grows
         /\ flows[f].device \in Devices /\ Mine(flows[f].session, flows[f].device)'
<1>1. ServiceInv' /\ Grows
  BY FlowStateMoves DEF Exchange
<1>2. flows[f].device \in Devices
  BY UsedFacts DEF Exchange, ServiceInv, Flow
<1>3. Mine(flows[f].session, flows[f].device)
  BY DEF Exchange, ServiceInv, FlowsFit, Mine
<1>4. (UNCHANGED sessions) => UsedSessions' = UsedSessions
  BY DEF UsedSessions
<1> QED
  BY <1>1, <1>2, <1>3, <1>4 DEF Exchange, Mine

\* Nothing works after a restart, and everything that was used stays used.
LEMMA RestartKeeps ==
  ASSUME ServiceInv, RestartAccounts
  PROVE  ServiceInv' /\ Grows
<1>1. ASSUME NEW s \in UsedSessions
      PROVE  LET x == [sessions[s] EXCEPT !.state = "ended"]
             IN  /\ x \in Session /\ x.state = "ended"
                 /\ x.email = sessions[s].email /\ x.device = sessions[s].device
                 /\ x.from = sessions[s].from /\ x.epoch = sessions[s].epoch
  BY UsedFacts DEF ServiceInv, Session
<1>2. Faded(sessions')
  <2>1. ASSUME NEW s \in SessionIds
        PROVE  /\ s \in UsedSessions =>
                    sessions'[s] = [sessions[s] EXCEPT !.state = "ended"]
               /\ s \notin UsedSessions => sessions'[s] = NoSession
    BY DEF RestartAccounts, UsedSessions
  <2>2. \A s \in SessionIds : sessions'[s] \in Session \cup {NoSession}
    BY <1>1, <2>1
  <2>3. sessions' \in [SessionIds -> Session \cup {NoSession}]
    <3>1. sessions' = [s \in SessionIds |-> sessions'[s]]
      BY DEF RestartAccounts
    <3> QED
      BY <2>2, <3>1
  <2>4. \A s \in UsedSessions : s \in SessionIds
    BY DEF UsedSessions
  <2>5. \A s \in SessionIds : sessions'[s] # NoSession <=> s \in UsedSessions
    BY <1>1, <2>1, RecordFacts
  <2>6. ASSUME NEW s \in UsedSessions
        PROVE  /\ sessions'[s].email = sessions[s].email
               /\ sessions'[s].device = sessions[s].device
               /\ sessions'[s].from = sessions[s].from
               /\ sessions'[s].epoch = sessions[s].epoch
               /\ sessions'[s].state \notin {"fresh", "aged", "old"}
    BY <1>1, <2>1, <2>4
  <2> QED
    BY <2>3, <2>5, <2>6 DEF Faded
<1>3. ASSUME NEW c \in UsedCodes
      PROVE  LET x == [codes[c] EXCEPT !.state = "over"]
             IN  /\ x \in Code /\ x.state = "over"
                 /\ x.email = codes[c].email /\ x.purpose = codes[c].purpose
  BY UsedFacts DEF ServiceInv, Code
<1>4. CodesFade
  <2>1. ASSUME NEW c \in CodeIds
        PROVE  /\ c \in UsedCodes => codes'[c] = [codes[c] EXCEPT !.state = "over"]
               /\ c \notin UsedCodes => codes'[c] = NoCode
    BY DEF RestartAccounts, UsedCodes
  <2>2. \A c \in CodeIds : codes'[c] \in Code \cup {NoCode}
    BY <1>3, <2>1
  <2>3. codes' \in [CodeIds -> Code \cup {NoCode}]
    <3>1. codes' = [c \in CodeIds |-> codes'[c]]
      BY DEF RestartAccounts
    <3> QED
      BY <2>2, <3>1
  <2>4. \A c \in UsedCodes : c \in CodeIds
    BY DEF UsedCodes
  <2>5. \A c \in CodeIds : codes'[c] # NoCode <=> c \in UsedCodes
    BY <1>3, <2>1, RecordFacts
  <2>6. ASSUME NEW c \in UsedCodes
        PROVE  /\ codes'[c].email = codes[c].email /\ codes'[c].purpose = codes[c].purpose
               /\ codes'[c].state = "over"
    BY <1>3, <2>1, <2>4
  <2> QED
    BY <2>3, <2>5, <2>6 DEF CodesFade
<1>5. /\ flows' \in [Flows -> Flow \cup {NoFlow}]
      /\ \A f \in Flows : flows'[f].state # "code"
  <2>2. ASSUME NEW f \in Flows
        PROVE  flows'[f] \in Flow \cup {NoFlow} /\ flows'[f].state # "code"
    <3>1. CASE flows[f] = NoFlow
      BY <3>1, RecordFacts DEF RestartAccounts
    <3>2. CASE flows[f] # NoFlow
      <4>1. flows[f] \in Flow /\ flows'[f] = [flows[f] EXCEPT !.state = "started", !.session = 0]
        BY <3>2 DEF ServiceInv, ServiceTypeOK, RestartAccounts
      <4> QED
        BY <4>1 DEF Flow
    <3> QED
      BY <3>1, <3>2
  <2>3. flows' = [f \in Flows |-> flows'[f]]
    BY DEF RestartAccounts
  <2> QED
    BY <2>2, <2>3
<1>6. \A s \in SessionIds : ~InMaps(s)'
  <2>1. ASSUME NEW s \in SessionIds PROVE sessions'[s].state \in {"ended", "none"}
    <3>1. CASE s \in UsedSessions
      BY <1>1, <3>1 DEF RestartAccounts, UsedSessions
    <3>2. CASE s \notin UsedSessions
      BY <3>2, RecordFacts DEF RestartAccounts, UsedSessions
    <3> QED
      BY <3>1, <3>2
  <2> QED
    BY <2>1 DEF InMaps
<1>7. UsersGrow /\ resets' \in [Emails -> Nat]
  BY UsersStay DEF RestartAccounts, ServiceInv
<1>8. \A s \in UsedSessions : s \in SessionIds
  BY DEF UsedSessions
<1> QED
  BY <1>2, <1>4, <1>5, <1>6, <1>7, <1>8, FadeKeeps

LEMMA InitIInv == Init => IInv
<1> SUFFICES ASSUME Init PROVE IInv
  OBVIOUS
<1>1. UsedSessions = {} /\ UsedCodes = {}
  BY DEF Init, AccountsInit, UsedSessions, UsedCodes
<1>2. InOrder
  <2>1. Cardinality({}) = 0 /\ 1..0 = {}
    BY FS_EmptySet
  <2> QED
    BY <1>1, <2>1 DEF InOrder
<1>3. ServiceTypeOK /\ resets \in [Emails -> Nat]
  BY DEF Init, AccountsInit, ServiceTypeOK, NoUser, User
<1>4. \A s \in SessionIds : ~InMaps(s)
  BY <1>1, <1>3, UsedFacts
<1>5. UsersFit /\ FlowsFit
  BY <1>1, RecordFacts DEF Init, AccountsInit, UsersFit, FlowsFit, NoUser
<1>6. OriginsFit /\ SessionsAreEarned
  BY <1>4 DEF OriginsFit, SessionsAreEarned
<1>7. Closed \in Dialog /\ Closed.step = "credentials" /\ Closed.nonce = 0
  BY DEF Closed, Dialog
<1>8. ClientInv
  BY <1>7 DEF Init, ClientInv, DialogFits
<1> QED
  BY <1>2, <1>3, <1>5, <1>6, <1>8 DEF IInv, ServiceInv

-----------------------------------------------------------------------------
\* The extension.

\* The dialog shows a step for what it was told.
Told(d) ==
  LET step == dialog[d].step
      nonce == dialog[d].nonce
  IN
  /\ step \in {"otp", "reset"} <=> nonce # 0
  /\ nonce # 0 => nonce \in UsedCodes /\ (codes[nonce].purpose = "reset" <=> step = "reset")

LEMMA ToldFits ==
  /\ IInv => \A d \in Devices : Told(d)
  /\ (\A d \in Devices : Told(d)) =>
       DialogFits /\ \A d \in Devices : dialog[d].nonce # 0 => dialog[d].nonce \in UsedCodes
BY DEF IInv, ClientInv, DialogFits, Told

\* What a device has, is sent and shows stays its own while the service goes on.
LEMMA ClientKeeps ==
  ASSUME IInv, ServiceInv', Grows,
         stored' \in [Devices -> SessionIds \cup {0}],
         \A d \in Devices : stored'[d] \in {0, stored[d]} \/ Mine(stored[d], d)',
         answers' \in [Devices -> SUBSET Answer],
         \A d \in Devices : \A a \in answers'[d] : a \in answers[d] \/ AnswerFits(d, a)',
         dialog' \in [Devices -> Dialog],
         \A d \in Devices : dialog'[d] = dialog[d] \/ Told(d)'
  PROVE  IInv'
<1>1. \A s, d : Mine(s, d) => Mine(s, d)'
  BY DEF Mine, Grows
<1>2. \A c \in UsedCodes : c \in UsedCodes' /\ codes'[c].purpose = codes[c].purpose
  BY DEF Grows
<1>3. ASSUME NEW d \in Devices
      PROVE  stored'[d] # 0 => Mine(stored[d], d)'
  <2>1. CASE stored'[d] = stored[d] /\ stored[d] # 0
    <3>1. Mine(stored[d], d)
      BY <2>1 DEF IInv, ClientInv
    <3> QED
      BY <2>1, <3>1 DEF Mine, Grows
  <2> QED
    BY <2>1
<1>4. ASSUME NEW d \in Devices, NEW a \in answers'[d]
      PROVE  AnswerFits(d, a)'
  <2>1. CASE a \in answers[d]
    <3>1. AnswerFits(d, a)
      BY <2>1 DEF IInv, ClientInv
    <3> QED
      BY <1>1, <1>2, <3>1 DEF AnswerFits
  <2> QED
    BY <1>4, <2>1
<1>5. ASSUME NEW d \in Devices PROVE Told(d)'
  <2>1. CASE dialog'[d] = dialog[d]
    <3>1. Told(d)
      BY ToldFits
    <3> QED
      BY <1>2, <2>1, <3>1 DEF Told
  <2> QED
    BY <2>1
<1>6. DialogFits' /\ \A d \in Devices : dialog'[d].nonce # 0 => dialog'[d].nonce \in UsedCodes'
  BY <1>5 DEF DialogFits, Told
<1> QED
  BY <1>3, <1>4, <1>6 DEF IInv, ClientInv

\* The service goes on, and the extension does nothing.
LEMMA OnlyService ==
  ASSUME IInv, ServiceInv', Grows, UNCHANGED clientVars
  PROVE  IInv'
<1>1. UNCHANGED <<stored, dialog, answers>>
  BY DEF clientVars
<1>2. /\ stored \in [Devices -> SessionIds \cup {0}] /\ dialog \in [Devices -> Dialog]
      /\ answers \in [Devices -> SUBSET Answer]
  BY DEF IInv, ClientInv
<1> QED
  BY <1>1, <1>2, ClientKeeps

\* Only what is stored changes.
LEMMA StoredKeeps ==
  ASSUME IInv, ServiceInv', Grows, NEW d \in Devices, NEW s \in SessionIds \cup {0},
         s \in {0, stored[d]} \/ Mine(s, d)',
         stored' = [stored EXCEPT ![d] = s], UNCHANGED <<dialog, answers>>
  PROVE  IInv'
<1>1. /\ stored' \in [Devices -> SessionIds \cup {0}] /\ stored'[d] = s
      /\ \A x \in Devices \ {d} : stored'[x] = stored[x]
  BY DEF IInv, ClientInv
<1>2. /\ dialog \in [Devices -> Dialog] /\ answers \in [Devices -> SUBSET Answer]
  BY DEF IInv, ClientInv
<1>3. \A x \in Devices : stored'[x] \in {0, stored[x]} \/ Mine(stored[x], x)'
  <2>1. stored'[d] \in {0, stored[d]} \/ Mine(stored[d], d)'
    BY <1>1
  <2> QED
    BY <1>1, <2>1
<1> QED
  BY <1>1, <1>2, <1>3, ClientKeeps

\* The service did what the dialog of d asked for, and answers.
LEMMA ExpectKeeps ==
  ASSUME IInv, ServiceInv', Grows, NEW d \in Devices, NEW a \in Answer,
         AnswerFits(d, a)', Expect(d, a)
  PROVE  IInv'
<1>1. /\ answers' = [answers EXCEPT ![d] = @ \cup {a}] /\ UNCHANGED <<stored, dialog>>
      /\ answers \in [Devices -> SUBSET Answer]
  BY DEF Expect, IInv, ClientInv
<1>2. /\ answers' \in [Devices -> SUBSET Answer] /\ answers'[d] = answers[d] \cup {a}
      /\ \A x \in Devices \ {d} : answers'[x] = answers[x]
  BY <1>1
<1> QED
  BY <1>1, <1>2, ClientKeeps DEF IInv, ClientInv

\* A step of the extension alone.
LEMMA NothingServed ==
  ASSUME IInv, UNCHANGED serviceVars
  PROVE  ServiceInv' /\ Grows
<1>1. Faded(sessions') /\ UNCHANGED <<users, codes, flows, resets>>
  BY SessionsStay DEF serviceVars, IInv
<1> QED
  BY <1>1, OnlySessionsFade DEF IInv

-----------------------------------------------------------------------------
\* One lemma per action.

LEMMA RegisterRoute ==
  ASSUME NEW e \in Emails, NEW mailed \in BOOLEAN,
         HandlePassword([path |-> "register", email |-> e, mailed |-> mailed])
  PROVE  Register(e, mailed)
BY DEF HandlePassword

LEMMA SubmitCredentialsKeeps ==
  ASSUME IInv, NEW d \in Devices, NEW e \in Emails, SubmitCredentials(d, e)
  PROVE  IInv'
<1>1. PICK n : n = NextCode
  OBVIOUS
<1> DEFINE a == [kind |-> "code sent", code |-> n]
<1>2. Register(e, TRUE) \/ Login(e)
  BY RegisterRoute DEF SubmitCredentials, HandlePassword
<1>3. PICK purpose \in {"register", "login"} :
        ServiceInv' /\ Grows /\ n \in UsedCodes' /\ codes'[n].purpose = purpose
  <2>1. CASE Register(e, TRUE)
    BY <1>1, <2>1, RegisterKeeps DEF IInv
  <2>2. CASE Login(e)
    <3>1. users[e].known
      BY <2>2 DEF Login, IInv, ServiceInv, UsersFit
    <3> QED
      BY <1>1, <2>2, <3>1, LoginKeeps DEF Login, IInv
  <2> QED
    BY <1>2, <2>1, <2>2
<1>4. a \in Answer /\ AnswerFits(d, a)'
  BY <1>3 DEF Answer, UsedCodes, AnswerFits
<1>5. Expect(d, a)
  BY <1>1 DEF SubmitCredentials
<1> HIDE DEF a
<1> QED
  BY <1>3, <1>4, <1>5, ExpectKeeps

LEMMA RegisterUnmailedKeeps ==
  ASSUME IInv, NEW d \in Devices, NEW e \in Emails, RegisterUnmailed(d, e)
  PROVE  IInv'
<1>1. Register(e, FALSE)
  BY RegisterRoute DEF RegisterUnmailed
<1> QED
  BY <1>1, RegisterKeeps, OnlyService DEF RegisterUnmailed, IInv

LEMMA SubmitForgotKeeps ==
  ASSUME IInv, NEW d \in Devices, NEW e \in Emails, SubmitForgot(d, e)
  PROVE  IInv'
<1>1. PICK n : n = NextCode
  OBVIOUS
<1> DEFINE a == [kind |-> "reset sent", code |-> n]
<1>2. RequestPasswordReset(e)
  BY DEF SubmitForgot, HandlePassword
<1>3. ServiceInv' /\ Grows /\ n \in UsedCodes' /\ codes'[n].purpose = "reset"
  BY <1>1, <1>2, LoginKeeps DEF RequestPasswordReset, IInv
<1>4. a \in Answer /\ AnswerFits(d, a)'
  BY <1>3 DEF Answer, UsedCodes, AnswerFits
<1>5. Expect(d, a)
  BY <1>1 DEF SubmitForgot
<1> HIDE DEF a
<1> QED
  BY <1>3, <1>4, <1>5, ExpectKeeps

LEMMA SubmitCodeKeeps ==
  ASSUME IInv, NEW d \in Devices, SubmitCode(d)
  PROVE  IInv'
<1>1. PICK n : n = NextSession
  OBVIOUS
<1> DEFINE a == [kind |-> "verified", session |-> n]
<1>2. VerifyOtp(dialog[d].nonce, d)
  BY DEF SubmitCode, HandleSession
<1>3. dialog[d].nonce \in CodeIds
  BY DEF SubmitCode, IInv, ClientInv, UsedCodes
<1>4. ServiceInv' /\ Grows /\ n \in UsedSessions' /\ sessions'[n].device = d
  BY <1>1, <1>2, <1>3, VerifyOtpKeeps DEF IInv
<1>5. a \in Answer /\ AnswerFits(d, a)'
  BY <1>4 DEF Answer, UsedSessions, AnswerFits, Mine
<1>6. Expect(d, a)
  BY <1>1 DEF SubmitCode
<1> HIDE DEF a
<1> QED
  BY <1>4, <1>5, <1>6, ExpectKeeps

LEMMA SubmitNewPasswordKeeps ==
  ASSUME IInv, NEW d \in Devices, SubmitNewPassword(d)
  PROVE  IInv'
<1> DEFINE a == [kind |-> "reset done"]
<1>1. ResetPassword(dialog[d].nonce)
  BY DEF SubmitNewPassword, HandlePassword
<1>2. dialog[d].nonce \in CodeIds
  BY DEF SubmitNewPassword, IInv, ClientInv, UsedCodes
<1>3. ServiceInv' /\ Grows
  BY <1>1, <1>2, ResetPasswordKeeps DEF IInv
<1>4. a \in Answer /\ AnswerFits(d, a)'
  BY DEF Answer, AnswerFits
<1>5. Expect(d, a)
  BY DEF SubmitNewPassword
<1> HIDE DEF a
<1> QED
  BY <1>3, <1>4, <1>5, ExpectKeeps

\* Whatever the dialog shows, the answer tells it its step with its nonce.
LEMMA AnsweredKeeps ==
  ASSUME IInv, NEW d \in Devices, NEW a \in answers[d], Answered(d, a)
  PROVE  IInv'
<1> DEFINE next == AfterAnswer(dialog[d], a)
<1>0. PICK got : got = IF a.kind = "verified" THEN a.session ELSE stored[d]
  OBVIOUS
<1>1. a \in Answer /\ AnswerFits(d, a) /\ answers \in [Devices -> SUBSET Answer]
  BY DEF IInv, ClientInv
<1>2. ServiceInv' /\ Grows /\ UNCHANGED <<sessions, codes>>
  BY NothingServed DEF Answered, serviceVars
<1>3. UsedSessions' = UsedSessions /\ UsedCodes' = UsedCodes
  BY <1>2 DEF UsedSessions, UsedCodes
<1>4. \/ next = Closed
      \/ /\ next.step = "otp" /\ next.nonce = a.code /\ a.kind = "code sent"
         /\ next = [step |-> "otp", nonce |-> a.code]
      \/ /\ next.step = "reset" /\ next.nonce = a.code /\ a.kind = "reset sent"
         /\ next = [step |-> "reset", nonce |-> a.code]
  BY DEF AfterAnswer
<1>5. a.kind \in {"code sent", "reset sent"} => a.code \in CodeIds /\ a.code # 0
  <2>1. \A c \in CodeIds : c # 0
    <3>1. PICK n \in Nat : CodeIds = 1..n
      BY AccountsAssumption, FS_CardinalityType
    <3> QED
      BY <3>1
  <2> QED
    BY <1>1, <2>1 DEF AnswerFits, UsedCodes
<1>6. next \in Dialog
  <2>1. /\ Closed \in Dialog
        /\ \A c \in CodeIds : /\ [step |-> "otp", nonce |-> c] \in Dialog
                              /\ [step |-> "reset", nonce |-> c] \in Dialog
    BY DEF Dialog, Closed
  <2> HIDE DEF next
  <2> QED
    BY <1>4, <1>5, <2>1
<1>7. got \in SessionIds \cup {0} /\ (got = stored[d] \/ Mine(got, d)')
  <2>1. CASE a.kind = "verified"
    <3>1. Mine(got, d)
      BY <1>0, <1>1, <2>1 DEF AnswerFits
    <3> QED
      BY <1>2, <1>3, <3>1 DEF Mine, UsedSessions
  <2>2. CASE a.kind # "verified"
    BY <1>0, <2>2 DEF IInv, ClientInv
  <2> QED
    BY <2>1, <2>2
<1>8. /\ dialog' = [dialog EXCEPT ![d] = next]
      /\ stored' = [stored EXCEPT ![d] = got]
      /\ answers' = [answers EXCEPT ![d] = @ \ {a}]
  BY <1>0 DEF Answered
<1>9. \/ next = Closed
      \/ /\ next.step \in {"otp", "reset"} /\ next.nonce # 0 /\ next.nonce \in UsedCodes
         /\ codes[next.nonce].purpose = "reset" <=> next.step = "reset"
  BY <1>1, <1>4, <1>5 DEF AnswerFits
<1> HIDE DEF next
<1>10. /\ dialog' \in [Devices -> Dialog] /\ dialog'[d] = next
       /\ \A x \in Devices \ {d} : dialog'[x] = dialog[x]
       /\ stored' \in [Devices -> SessionIds \cup {0}] /\ stored'[d] = got
       /\ \A x \in Devices \ {d} : stored'[x] = stored[x]
       /\ answers' \in [Devices -> SUBSET Answer]
       /\ \A x \in Devices : answers'[x] \subseteq answers[x]
  BY <1>1, <1>6, <1>7, <1>8 DEF IInv, ClientInv
<1>11. Told(d)'
  BY <1>2, <1>3, <1>9, <1>10 DEF Told, Closed
<1> QED
  BY <1>2, <1>7, <1>10, <1>11, ClientKeeps

LEMMA AnswerLostKeeps ==
  ASSUME IInv, NEW d \in Devices, NEW a \in answers[d], AnswerLost(d, a)
  PROVE  IInv'
<1>1. ServiceInv' /\ Grows
  BY NothingServed DEF AnswerLost
<1>2. /\ answers' \in [Devices -> SUBSET Answer]
      /\ \A x \in Devices : answers'[x] \subseteq answers[x]
  BY DEF AnswerLost, IInv, ClientInv
<1>3. stored \in [Devices -> SessionIds \cup {0}] /\ dialog \in [Devices -> Dialog]
  BY DEF IInv, ClientInv
<1> QED
  BY <1>1, <1>2, <1>3, ClientKeeps DEF AnswerLost

LEMMA MoveDialogKeeps ==
  ASSUME IInv, NEW d \in Devices, MoveDialog(d)
  PROVE  IInv'
<1>1. ServiceInv' /\ Grows
  BY NothingServed DEF MoveDialog
<1>2. PICK next \in {[step |-> "forgot", nonce |-> 0], Closed} :
        dialog' = [dialog EXCEPT ![d] = next]
  BY DEF MoveDialog
<1>3. next \in Dialog /\ next.nonce = 0 /\ next.step \notin {"otp", "reset"}
  BY DEF Dialog, Closed
<1>4. /\ dialog' \in [Devices -> Dialog] /\ dialog'[d] = next
      /\ \A x \in Devices \ {d} : dialog'[x] = dialog[x]
  BY <1>2, <1>3 DEF IInv, ClientInv
<1>5. Told(d)'
  BY <1>3, <1>4 DEF Told
<1> QED
  BY <1>1, <1>4, <1>5, ClientKeeps DEF MoveDialog, IInv, ClientInv

LEMMA SignOutKeeps ==
  ASSUME IInv, NEW d \in Devices, SignOut(d)
  PROVE  IInv'
<1>1. ServiceInv' /\ Grows
  <2>1. CASE Logout(stored[d])
    <3>1. stored[d] \in SessionIds
      BY DEF SignOut, IInv, ClientInv
    <3> QED
      BY <2>1, <3>1, LogoutKeeps DEF IInv
  <2>2. CASE UNCHANGED serviceVars
    BY <2>2, NothingServed
  <2> QED
    BY <2>1, <2>2 DEF SignOut, HandleSession
<1> QED
  BY <1>1, StoredKeeps DEF SignOut

LEMMA RefreshStoredKeeps ==
  ASSUME IInv, NEW s \in SessionIds, NEW d \in Devices, RefreshStored(s, d)
  PROVE  IInv'
<1>1. PICK n : n = NextSession
  OBVIOUS
<1>2. CASE /\ Refresh(s, d)
           /\ \E got \in {0, IF Refreshable(s) THEN n ELSE 0} :
                stored' = [stored EXCEPT ![d] = got]
  <2>1. PICK got \in {0, IF Refreshable(s) THEN n ELSE 0} :
          stored' = [stored EXCEPT ![d] = got]
    BY <1>2
  <2>2. /\ ServiceInv' /\ Grows
        /\ Refreshable(s) => n \in UsedSessions' /\ sessions'[n].device = d
    BY <1>1, <1>2, RefreshKeeps DEF IInv
  <2>3. got \in SessionIds \cup {0} /\ (got = 0 \/ Mine(got, d)')
    BY <2>1, <2>2 DEF Mine, UsedSessions
  <2> QED
    BY <2>1, <2>2, <2>3, StoredKeeps DEF RefreshStored
<1>3. CASE stored' = [stored EXCEPT ![d] = 0] /\ UNCHANGED serviceVars
  <2>1. ServiceInv' /\ Grows
    BY <1>3, NothingServed
  <2> QED
    BY <1>3, <2>1, StoredKeeps DEF RefreshStored
<1> QED
  BY <1>1, <1>2, <1>3 DEF RefreshStored, HandleSession

LEMMA SocialSignInKeeps ==
  ASSUME IInv, NEW f \in Flows, SocialSignIn(f)
  PROVE  IInv'
<1>1. CASE /\ \/ \E d \in Devices : StartFlow(f, d)
              \/ \E p : Callback(f, p)
              \/ \E t \in IdToken : IdentityVerified(f, t)
              \/ FlowFails(f)
           /\ UNCHANGED stored
  <2>1. ServiceInv' /\ Grows
    BY <1>1, StartFlowKeeps, CallbackKeeps, IdentityKeeps, FlowFailsKeeps DEF IInv
  <2> QED
    BY <1>1, <2>1, OnlyService DEF SocialSignIn, clientVars
<1>2. CASE Exchange(f) /\ \E got \in {stored[flows[f].device], flows[f].session} :
                            stored' = [stored EXCEPT ![flows[f].device] = got]
  <2>1. PICK d, s : d = flows[f].device /\ s = flows[f].session
    OBVIOUS
  <2>2. PICK got \in {stored[d], s} : stored' = [stored EXCEPT ![d] = got]
    BY <1>2, <2>1
  <2>3. ServiceInv' /\ Grows /\ d \in Devices /\ Mine(s, d) /\ UNCHANGED sessions
    <3>1. Mine(flows[f].session, flows[f].device)
      BY <1>2 DEF Exchange, IInv, ServiceInv, FlowsFit, Mine
    <3> QED
      BY <1>2, <2>1, <3>1, ExchangeKeeps DEF Exchange, IInv
  <2>4. Mine(s, d)' /\ s \in SessionIds
    BY <2>3 DEF Mine, UsedSessions
  <2>5. got \in SessionIds \cup {0}
    BY <2>2, <2>3, <2>4 DEF IInv, ClientInv
  <2> QED
    BY <2>2, <2>3, <2>4, <2>5, StoredKeeps DEF SocialSignIn
<1> QED
  BY <1>1, <1>2 DEF SocialSignIn, HandleOAuth

LEMMA ServerStepKeeps ==
  ASSUME IInv, ServerStep
  PROVE  IInv'
<1>1. ServiceInv' /\ Grows
  BY CodeExpiresKeeps, SessionAgesKeeps DEF ServerStep, IInv
<1> QED
  BY <1>1, OnlyService DEF ServerStep

LEMMA RestartStepKeeps ==
  ASSUME IInv, Restart
  PROVE  IInv'
<1>1. ServiceInv' /\ Grows
  BY RestartKeeps DEF Restart, IInv
<1>2. answers' \in [Devices -> SUBSET Answer] /\ \A d \in Devices : answers'[d] = {}
  BY DEF Restart
<1> QED
  BY <1>1, <1>2, ClientKeeps DEF Restart, IInv, ClientInv

LEMMA NextIInv == IInv /\ [Next]_vars => IInv'
<1> SUFFICES ASSUME IInv, [Next]_vars PROVE IInv'
  OBVIOUS
<1>1. CASE \E d \in Devices, e \in Emails :
             SubmitCredentials(d, e) \/ RegisterUnmailed(d, e) \/ SubmitForgot(d, e)
  BY <1>1, SubmitCredentialsKeeps, RegisterUnmailedKeeps, SubmitForgotKeeps
<1>2. CASE \E d \in Devices :
             SubmitCode(d) \/ SubmitNewPassword(d) \/ MoveDialog(d) \/ SignOut(d)
  BY <1>2, SubmitCodeKeeps, SubmitNewPasswordKeeps, MoveDialogKeeps, SignOutKeeps
<1>3. CASE \E d \in Devices : \E a \in answers[d] : Answered(d, a) \/ AnswerLost(d, a)
  BY <1>3, AnsweredKeeps, AnswerLostKeeps
<1>4. CASE \E d \in Devices, s \in SessionIds : RefreshStored(s, d)
  BY <1>4, RefreshStoredKeeps
<1>5. CASE \E f \in Flows : SocialSignIn(f)
  BY <1>5, SocialSignInKeeps
<1>6. CASE ServerStep
  BY <1>6, ServerStepKeeps
<1>7. CASE Restart
  BY <1>7, RestartStepKeeps
<1>8. CASE UNCHANGED vars
  <2>1. UNCHANGED serviceVars /\ UNCHANGED clientVars
    BY <1>8 DEF vars
  <2> QED
    BY <2>1, NothingServed, OnlyService
<1> QED
  BY <1>1, <1>2, <1>3, <1>4, <1>5, <1>6, <1>7, <1>8 DEF Next

-----------------------------------------------------------------------------
\* The results.

\* The inductive invariant holds in every state of password-auth.js, oauth-broker.js
\* and the extension's sign-in together.
THEOREM AccountsInvariant == Spec => []IInv
<1> QED
  BY InitIInv, NextIInv, PTL DEF Spec

\* What account-session.ts has stored on a device was issued for that device, whatever
\* refreshes, late answers and provider sign-ins came before.
THEOREM StoredIsOwn == Spec => []AccountsTypeOK
<1>1. IInv => AccountsTypeOK
  BY DEF IInv, ServiceInv, ClientInv, Mine, AccountsTypeOK
<1> QED
  BY <1>1, AccountsInvariant, PTL

\* No session of password-auth.js works that its user's verification, the last reset
\* and the rotation of its refresh tokens do not justify.
THEOREM SessionsEarned == Spec => []SessionsAreEarned
<1>1. IInv => SessionsAreEarned
  BY DEF IInv, ServiceInv
<1> QED
  BY <1>1, AccountsInvariant, PTL

\* The dialog of WorkflowApp.tsx never sends a reset code to verify-otp, nor a login
\* code to reset-password.
THEOREM DialogAlwaysFits == Spec => []DialogFits
<1>1. IInv => DialogFits
  BY DEF IInv, ClientInv
<1> QED
  BY <1>1, AccountsInvariant, PTL
=============================================================================
