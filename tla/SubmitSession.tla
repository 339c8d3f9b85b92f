--------------------------- MODULE SubmitSession ---------------------------
(***************************************************************************)
(* One call of submitPairToMoss                                            *)
(* (packages/provider-adapter/live-submit.js) with the session it opens,   *)
(* its line parser, the failure it reports (failures.js), and the peer at  *)
(* the other end of the connection.                                        *)
(*                                                                         *)
(* The call runs to its next await without interruption; then the socket,  *)
(* the timers and the peer move.  A write is accepted by the socket and    *)
(* its callback runs in one step, as in Node; the peer sees what was       *)
(* accepted, in order.                                                     *)
(***************************************************************************)
EXTENDS LineParser

CONSTANT Files  \* files of the job

ASSUME SessionAssumption ==
  /\ Files \in Nat
  /\ Reads = {1, 2}
  /\ \A r \in Reads : SignalOf[r] = NoSignal
  /\ Lines = [to : {"language", "query", "none"},
              says : {"yes", "no", "url", "uncertain"}]

VARIABLES
  pc,           \* what the call awaits or does next
  sent,         \* commands accepted by the socket so far, and seen by the peer
  socket,       \* none, connecting, open, ended (the peer closed it), closed
  destroyed,    \* the session was cleaned up
  connectTimer, \* the connect timer is armed
  overall,      \* timers of the overall deadline are armed
  mock,         \* the loopback server: none (public mode), up or down
  outcome,      \* what the call is about to return
  transit,      \* lines of the peer that were not delivered yet
  said          \* what the peer has answered

sessionVars ==
  <<pc, sent, socket, destroyed, connectTimer, overall, mock, outcome>>
peerVars == <<transit, said>>
vars == <<parserVars, sessionVars, peerVars>>

\* The dialogue: moss, four settings taken as one, language, the files, query.
Language == 3
Query    == Language + Files + 1

Ack    == 1  \* the readLine after "language"
Answer == 2  \* the readLine after "query"

-----------------------------------------------------------------------------
\* failures.js.

\* mapCause, for what this caller passes.
CodeOf(cause) ==
  CASE cause \in {"deadline", "connect-timeout", "overall-timeout"} -> "timeout"
    [] cause \in {"credential", "language", "invalid-url"} -> cause
    [] cause = "uncertain" -> "uncertain-query"
    [] OTHER -> "generic-failure"

Uncharged == {"before-connect", "connected", "authenticated", "uploading"}
AfterQuery == {"query-sent", "awaiting-url"}

IsRetryable(phase, code) ==
  \/ phase \in {"before-connect", "connected"}
       /\ code \in {"timeout", "overload", "generic-failure"}
  \/ phase \in {"authenticated", "uploading"} /\ code \in {"timeout", "overload"}

QuotaActionFor(phase, code) ==
  CASE phase \in Uncharged -> "release"
    [] phase \in AfterQuery -> IF code = "uncertain-query" THEN "hold" ELSE "consume"
    [] OTHER -> "none"

\* classify.
Failure(phase, cause) == [kind |-> "failure", phase |-> phase, code |-> CodeOf(cause)]
Report    == [kind |-> "report", phase |-> "completed", code |-> "none"]
Forbidden == [kind |-> "forbidden", phase |-> "none", code |-> "none"]
NoOutcome == [kind |-> "none", phase |-> "none", code |-> "none"]

Retryable == outcome.kind = "failure" /\ IsRetryable(outcome.phase, outcome.code)
QuotaAction ==
  IF outcome.kind = "failure" THEN QuotaActionFor(outcome.phase, outcome.code)
  ELSE "none"

-----------------------------------------------------------------------------

Init ==
  /\ ParserInit
  /\ pc = "start"
  /\ sent = 0
  /\ socket = "none" /\ destroyed = FALSE
  /\ connectTimer = FALSE /\ overall = FALSE
  /\ mock = "none"
  /\ outcome = NoOutcome
  /\ transit = <<>> /\ said = {}

\* Mutation: the timers survive the cleanup.
TimersAfterCleanupKept == overall

\* clearTimers of the session.
TimersAfterCleanup == FALSE

\* cleanup, once: timers, parser, socket.
Cleanup ==
  IF destroyed
    THEN UNCHANGED <<parserVars, socket, destroyed, connectTimer, overall>>
    ELSE /\ OnClose
         /\ socket' = "closed" /\ destroyed' = TRUE
         /\ connectTimer' = FALSE /\ overall' = TimersAfterCleanup

\* The body returns or throws: its finally block cleans up, and then waits for
\* the loopback server to be torn down.
Leave(o) ==
  /\ outcome' = o
  /\ Cleanup
  /\ pc' = "teardown"
  /\ UNCHANGED <<sent, mock, peerVars>>

\* An exception ends in the outer catch, whatever phase it came from.
Throw(cause) == Leave(Failure("before-connect", cause))

\* The call returns at once, with nothing opened.
ReturnEarly(o) ==
  /\ outcome' = o
  /\ pc' = "done"
  /\ UNCHANGED <<parserVars, sent, socket, destroyed, connectTimer, overall,
                 mock, peerVars>>

\* The flags of the environment, and the mode a server is told to use, if any.
Environments == [public : BOOLEAN, hosted : BOOLEAN, production : BOOLEAN]
Loopback == "mock-loopback"
Public   == "public-raw-tcp"

ResolveSubmitMode(env) ==
  IF env.public /\ (env.production => env.hosted) THEN Public ELSE Loopback

\* assertPublicMossAllowed.
PublicMossAllowed(env) == env.public /\ (env.production => env.hosted)

\* The checks of the job, the gate of the public mode, the start of the mock.  A mode
\* the server is told may not be the one its environment resolves to.
Start ==
  /\ pc = "start"
  /\ \/ \E c \in {"credential", "language", "count"} :
          ReturnEarly(Failure("before-connect", c))
     \/ \E env \in Environments : \E mode \in {ResolveSubmitMode(env), Public, Loopback} :
          \/ mode = Public /\ ~PublicMossAllowed(env) /\ ReturnEarly(Forbidden)
          \/ mode = Loopback /\ ReturnEarly(Failure("before-connect", "mock"))
          \/ /\ mode = Public => PublicMossAllowed(env)
             /\ pc' = "connecting"
             /\ socket' = "connecting"
             /\ connectTimer' = TRUE
             /\ mock' = IF mode = Public THEN "none" ELSE "up"
             /\ UNCHANGED <<parserVars, sent, destroyed, overall, outcome, peerVars>>

-----------------------------------------------------------------------------
\* Steps of the call between two awaits.

\* writeLine or writeBytes of the next command: refused on a session that was
\* cleaned up, else handed to the socket with a timer for the overall deadline.
IssueWrite ==
  /\ pc = "send"
  /\ IF destroyed THEN Throw("destroyed")
     ELSE /\ pc' = "writing"
          /\ overall' = TRUE
          /\ UNCHANGED <<parserVars, sent, socket, destroyed, connectTimer,
                         mock, outcome, peerVars>>

\* writeLine("end"), whose failure is ignored.
IssueEnd ==
  /\ pc = "end"
  /\ IF destroyed THEN Leave(Report)
     ELSE /\ pc' = "ending"
          /\ overall' = TRUE
          /\ UNCHANGED <<parserVars, sent, socket, destroyed, connectTimer,
                         mock, outcome, peerVars>>

\* readLine after "language" and after "query".
Ask(r, from, to) ==
  /\ pc = from
  /\ ReadLine(r)
  /\ pc' = to
  /\ UNCHANGED <<sent, socket, destroyed, connectTimer, overall, mock, outcome,
                 peerVars>>

Answered(r) == read[r] \notin {"idle", "waiting"}
Line == taken[Len(taken)]

Accepted == Line.says = "yes"

\* The answer to "language": an error, a refusal, or leave to send the files.
AckRead ==
  /\ pc = "awaitAck" /\ Answered(Ack)
  /\ \/ read[Ack] # "line" /\ Leave(Failure("authenticated", read[Ack]))
     \/ read[Ack] = "line" /\ ~Accepted /\ Leave(Failure("authenticated", "language"))
     \/ /\ read[Ack] = "line" /\ Accepted
        /\ pc' = "send"
        /\ UNCHANGED <<parserVars, sent, socket, destroyed, connectTimer,
                       overall, mock, outcome, peerVars>>

\* What the answer to "query" means when it is not a link of the provider.
Unlinked == IF Line.says = "uncertain" THEN "uncertain" ELSE "invalid-url"

\* The answer to "query": an error, something that is no link, or the link.
AnswerRead ==
  /\ pc = "awaitAnswer" /\ Answered(Answer)
  /\ \/ read[Answer] # "line" /\ Leave(Failure("query-sent", read[Answer]))
     \/ /\ read[Answer] = "line" /\ Line.says # "url"
        /\ Leave(Failure("awaiting-url", Unlinked))
     \/ /\ read[Answer] = "line" /\ Line.says = "url"
        /\ pc' = "end"
        /\ UNCHANGED <<parserVars, sent, socket, destroyed, connectTimer,
                       overall, mock, outcome, peerVars>>

\* teardownMock is over.
Teardown ==
  /\ pc = "teardown"
  /\ pc' = "done"
  /\ mock' = IF mock = "up" THEN "down" ELSE mock
  /\ UNCHANGED <<parserVars, sent, socket, destroyed, connectTimer, overall,
                 outcome, peerVars>>

\* The call runs before the next event is taken.
Runnable ==
  \/ pc \in {"start", "send", "ask", "askAnswer", "end"}
  \/ pc = "awaitAck" /\ Answered(Ack)
  \/ pc = "awaitAnswer" /\ Answered(Answer)

CallMoves ==
  \/ Start \/ IssueWrite \/ IssueEnd
  \/ Ask(Ack, "ask", "awaitAck") \/ Ask(Answer, "askAnswer", "awaitAnswer")
  \/ AckRead \/ AnswerRead

-----------------------------------------------------------------------------
\* Events of the connection and of the timers.

\* What a session that could not be opened is reported as.
NotConnected(cause) ==
  /\ pc = "connecting"
  /\ Leave(Failure("before-connect", cause))

ConnectTimerFires == connectTimer /\ NotConnected("connect-timeout")
ConnectFails      == NotConnected("connect-failed")

Connected ==
  /\ pc = "connecting"
  /\ socket' = "open" /\ connectTimer' = FALSE
  /\ pc' = "send"
  /\ UNCHANGED <<parserVars, sent, destroyed, overall, mock, outcome, peerVars>>

\* The await after the n-th command.
After(n) == CASE n = Language -> "ask" [] n = Query -> "askAnswer" [] OTHER -> "send"

\* The socket takes a write until its "close" event, also after the peer closed.
Writable == socket \in {"open", "ended"} /\ ~closed

WriteAccepted ==
  /\ pc = "writing" /\ Writable
  /\ sent' = sent + 1
  /\ pc' = After(sent + 1)
  /\ UNCHANGED <<parserVars, socket, destroyed, connectTimer, overall, mock,
                 outcome, peerVars>>

EndAccepted == pc = "ending" /\ Writable /\ Leave(Report)

\* Mutation: the failure of "end" is thrown like that of any other write.
EndFailedThrows == Throw("write-failed")

\* The failure of "end" is ignored.
EndFailed == Leave(Report)

\* The write callback gets an error, as it does for every write on a socket that
\* is gone.
WriteFails ==
  \/ pc = "writing" /\ Throw("write-failed")
  \/ pc = "ending" /\ EndFailed

\* The overall deadline passes: it ends a write, and is not heard by a read.
OverallFires ==
  /\ overall
  /\ \/ pc = "writing" /\ Throw("overall-timeout")
     \/ pc = "ending" /\ EndFailed
     \/ /\ pc \notin {"writing", "ending"}
        /\ overall' = FALSE
        /\ UNCHANGED <<parserVars, pc, sent, socket, destroyed, connectTimer,
                       mock, outcome, peerVars>>

\* The deadline of a read.
ReadTimerFires(r) ==
  /\ Deadline(r)
  /\ UNCHANGED <<sessionVars, peerVars>>

\* The socket emits "data": some lines of the peer, the next one perhaps cut, or
\* longer than the parser accepts.
Data(n, t) ==
  /\ socket \in {"open", "ended"}
  /\ n <= Len(transit)
  /\ t # "none" => n < Len(transit)
  /\ n > 0 \/ t # tail
  /\ Push(SubSeq(transit, 1, n), t)
  /\ transit' = SubSeq(transit, n + 1, Len(transit))
  /\ UNCHANGED <<sessionVars, said>>

\* The socket emits "close" after the peer has closed the connection.
CloseEvent ==
  /\ socket = "ended" /\ transit = <<>> /\ ~closed
  /\ OnClose
  /\ UNCHANGED <<sessionVars, peerVars>>

\* The socket emits "error": the session is cleaned up by the listener of
\* net.connect, and then the parser is told by the listener of the session.
ErrorEvent ==
  /\ socket \in {"open", "ended"}
  /\ FailWith(TRUE, "socket-error", "closed")
  /\ socket' = "closed" /\ destroyed' = TRUE
  /\ connectTimer' = FALSE /\ overall' = TimersAfterCleanup
  /\ transit' = <<>>
  /\ UNCHANGED <<pc, sent, mock, outcome, said>>

Events ==
  \/ ConnectTimerFires \/ ConnectFails \/ Connected
  \/ WriteAccepted \/ EndAccepted \/ WriteFails \/ OverallFires
  \/ \E r \in Reads : ReadTimerFires(r)
  \/ \E n \in 0..Len(transit), t \in {"none", "part", "long"} : Data(n, t)
  \/ CloseEvent \/ ErrorEvent
  \/ Teardown

-----------------------------------------------------------------------------
\* The peer.

\* It answers "language" and "query" once each, and may say things nobody asked
\* for.
PeerSays(l) ==
  /\ socket = "open"
  /\ Len(pushed) + Len(transit) < MaxLines
  /\ \/ l.to = "language" /\ sent >= Language /\ l.says \in {"yes", "no"}
     \/ l.to = "query" /\ sent = Query /\ l.says \in {"url", "uncertain", "no"}
     \/ l.to = "none" /\ l.says = "no"
  /\ l.to \notin said
  /\ said' = said \cup ({l.to} \ {"none"})
  /\ transit' = Append(transit, l)
  /\ UNCHANGED <<parserVars, sessionVars>>

PeerCloses ==
  /\ socket = "open"
  /\ socket' = "ended"
  /\ UNCHANGED <<parserVars, pc, sent, destroyed, connectTimer, overall, mock,
                 outcome, peerVars>>

Next ==
  \/ CallMoves
  \/ ~Runnable /\ Events
  \/ (\E l \in Lines : PeerSays(l)) \/ PeerCloses

\* The call runs, its timers fire, a teardown ends.  Nothing is asked of the
\* network or of the peer.
Fairness ==
  /\ WF_vars(CallMoves)
  /\ WF_vars(~Runnable /\ ConnectTimerFires)
  /\ WF_vars(~Runnable /\ OverallFires)
  /\ WF_vars(~Runnable /\ destroyed /\ WriteFails)
  /\ WF_vars(~Runnable /\ \E r \in Reads : ReadTimerFires(r))
  /\ WF_vars(~Runnable /\ Teardown)

Spec     == Init /\ [][Next]_vars
FairSpec == Spec /\ Fairness

-----------------------------------------------------------------------------

OutcomeRecord ==
  [kind : {"none", "failure", "report", "forbidden"},
   phase : {"none", "completed", "before-connect", "authenticated"} \cup AfterQuery,
   code : {"none", "timeout", "credential", "language", "invalid-url",
           "uncertain-query", "generic-failure"}]

\* Every variable holds a value of the session, and what the call has written
\* fits the place where it is.
SessionTypeOK ==
  /\ ParserTypeOK
  /\ pc \in {"start", "connecting", "send", "writing", "ask", "awaitAck",
             "askAnswer", "awaitAnswer", "end", "ending", "teardown", "done"}
  /\ sent \in 0..Query
  /\ pc \in {"send", "writing"} => sent < Query
  /\ socket \in {"none", "connecting", "open", "ended", "closed"}
  /\ destroyed \in BOOLEAN /\ connectTimer \in BOOLEAN /\ overall \in BOOLEAN
  /\ mock \in {"none", "up", "down"}
  /\ outcome \in OutcomeRecord
  /\ transit \in Seq(Lines)
  /\ said \subseteq {"language", "query"}

\* No file leaves before the peer has said yes to the language, whatever lines and
\* packet boundaries surround its answer (live-submit.js:144-165).
FilesNeedConsent == sent > Language => taken # <<>> /\ Head(taken).says = "yes"

\* "Automatic retry only before any upstream side effect": a failure is reported
\* as retryable only if the query was not accepted, although every exception of
\* the dialogue is reported as a failure before connect (live-submit.js:168-193,
\* failures.js:60-71).
RetryOnlyBeforeSideEffect == Retryable => sent < Query

\* Quota is consumed or held only after the query was accepted, and a report is
\* returned only for a link that answers it (live-submit.js:168-183,
\* failures.js:73-83).
OutcomeIsEarned ==
  /\ QuotaAction \in {"consume", "hold"} => sent = Query
  /\ outcome.kind = "report" =>
       sent = Query /\ taken # <<>> /\ Line.to = "query" /\ Line.says = "url"

\* What the call reports of the files, the quota and a retry is true of what the
\* peer has seen and said.
OutcomeIsHonest ==
  SessionTypeOK /\ FilesNeedConsent /\ RetryOnlyBeforeSideEffect /\ OutcomeIsEarned

\* "Every connection ... releases timers, listeners, buffers, streams, and
\* sockets": when the call returns nothing of it is left, whichever way it took
\* (live-submit.js:184-189, 255-273).
ReturnsClean ==
  pc = "done" =>
    /\ ~connectTimer /\ ~overall /\ timers = {} /\ waiter = NoRead
    /\ socket \in {"none", "closed"} /\ mock # "up"

\* "Every connection resolves/fails within bounds": the call returns although the
\* peer and the network may do nothing at all (live-submit.js:228-313).
SessionResolves == pc = "start" ~> pc = "done"
=============================================================================
