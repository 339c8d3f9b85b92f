----------------------------- MODULE LineParser -----------------------------
(***************************************************************************)
(* The line parser of the provider adapter                                 *)
(* (packages/provider-adapter/line-parser.js): bytes are pushed as the     *)
(* socket delivers them, readLine asks for one line, and at most one       *)
(* reader waits at a time, with a deadline and perhaps an abort signal.    *)
(*                                                                         *)
(* Bytes are abstracted to complete lines and to the unfinished line at    *)
(* the end of the buffer.  Calls of readLine are numbered in their order.  *)
(***************************************************************************)
EXTENDS Naturals, Sequences

CONSTANTS
  Reads,      \* numbers of the calls of readLine
  Lines,      \* what a line can say
  SignalOf,   \* the abort signal each call was given, or NoSignal
  NoSignal,
  MaxBuffer,  \* lines that fit into maxBuffer
  MaxLines    \* bound: lines pushed over the life of the parser

ASSUME ParserAssumption ==
  /\ Reads \subseteq Nat \ {0}
  /\ MaxBuffer \in Nat /\ MaxLines \in Nat

Signals == {SignalOf[r] : r \in Reads} \ {NoSignal}
NoRead == 0

VARIABLES
  buffer,    \* complete lines that were pushed and not read
  tail,      \* the unfinished line: none, part, or long (over maxLineLength)
  waiter,    \* the call that waits, or NoRead
  closed,
  errored,   \* "none" or the error every later call is answered with
  read,      \* the promise of each call
  timers,    \* calls whose deadline timer is armed
  listening, \* calls whose abort listener is registered
  aborted,   \* signals that were aborted
  pushed,    \* ghost: every line accepted by push, in order
  taken      \* ghost: every line a read was answered with, in order

parserVars ==
  <<buffer, tail, waiter, closed, errored, read, timers, listening, aborted,
    pushed, taken>>

ParserInit ==
  /\ buffer = <<>> /\ tail = "none"
  /\ waiter = NoRead
  /\ closed = FALSE /\ errored = "none"
  /\ read = [r \in Reads |-> "idle"]
  /\ timers = {} /\ listening = {} /\ aborted = {}
  /\ pushed = <<>> /\ taken = <<>>

-----------------------------------------------------------------------------
\* Settling the call that waits.

\* The promise of the waiting call, if there is one, is resolved with the
\* answer a: its timer is cleared, its abort listener removed, the slot freed.
Settle(a) ==
  /\ read' = [r \in Reads |-> IF r = waiter THEN a ELSE read[r]]
  /\ timers' = timers \ {waiter}
  /\ listening' = listening \ {waiter}
  /\ waiter' = NoRead

\* failWaiter, with the flags its callers set before.
FailWith(c, e, why) ==
  /\ closed' = c /\ errored' = e
  /\ Settle(why)
  /\ UNCHANGED <<buffer, tail, aborted, pushed, taken>>

\* Mutation: the surplus after the line is dropped with it.
RestDropped(b) == <<>>

\* The buffer once its first line was cut off.
Rest(b) == Tail(b)

-----------------------------------------------------------------------------
\* The four entry points.

\* push of a chunk that completes the lines ls and leaves the unfinished line t:
\* the buffer overflows, or the call that waits gets the first line, or learns
\* that the unfinished line is too long.
Push(ls, t) ==
  /\ ~closed /\ errored = "none"
  /\ tail' = t
  /\ pushed' = pushed \o ls
  /\ LET b == buffer \o ls IN
     \/ /\ Len(b) > MaxBuffer
        /\ buffer' = b /\ errored' = "buffer-oversize"
        /\ Settle("buffer-oversize")
        /\ UNCHANGED taken
     \/ /\ Len(b) <= MaxBuffer
        /\ waiter # NoRead /\ b # <<>>
        /\ buffer' = Rest(b) /\ taken' = Append(taken, Head(b))
        /\ Settle("line")
        /\ UNCHANGED errored
     \/ /\ Len(b) <= MaxBuffer
        /\ waiter # NoRead /\ b = <<>> /\ t = "long"
        /\ buffer' = b /\ errored' = "line-oversize"
        /\ Settle("line-oversize")
        /\ UNCHANGED taken
     \/ /\ Len(b) <= MaxBuffer
        /\ waiter = NoRead \/ (b = <<>> /\ t # "long")
        /\ buffer' = b
        /\ UNCHANGED <<taken, errored, read, timers, listening, waiter>>
  /\ UNCHANGED <<closed, aborted>>

\* A call that is answered at once, without becoming the waiter.
AnswerNow(r, a) ==
  /\ read' = [read EXCEPT ![r] = a]
  /\ UNCHANGED <<buffer, tail, waiter, closed, errored, timers, listening,
                 aborted, pushed, taken>>

Busy == waiter # NoRead

\* Mutation: the deadline is armed only for calls that bring a signal.
ArmedForSignals(r) == IF SignalOf[r] = NoSignal THEN {} ELSE {r}

\* setTimeout of readLine.
Armed(r) == {r}

\* The call becomes the waiter.
Wait(r) ==
  /\ waiter' = r
  /\ read' = [read EXCEPT ![r] = "waiting"]
  /\ timers' = timers \cup Armed(r)
  /\ listening' = IF SignalOf[r] = NoSignal THEN listening ELSE listening \cup {r}
  /\ UNCHANGED <<buffer, tail, closed, errored, aborted, pushed, taken>>

\* tryResolve finds a line for a call that has just come.
Ready == buffer # <<>>

Drained == closed /\ buffer = <<>> /\ tail = "none"

\* The call of r gets as far as to look into the buffer.
Looks(r) == ~Busy /\ errored = "none" /\ ~Drained /\ SignalOf[r] \notin aborted

\* It finds a line.
TakeLine(r) ==
  /\ read' = [read EXCEPT ![r] = "line"]
  /\ buffer' = Rest(buffer)
  /\ taken' = Append(taken, Head(buffer))
  /\ UNCHANGED <<tail, waiter, closed, errored, timers, listening, aborted,
                 pushed>>

\* It finds an unfinished line that is too long.
FindTooLong(r) ==
  /\ read' = [read EXCEPT ![r] = "line-oversize"]
  /\ errored' = "line-oversize"
  /\ UNCHANGED <<buffer, tail, waiter, closed, timers, listening, aborted,
                 pushed, taken>>

\* readLine, the r-th call.
ReadLine(r) ==
  /\ read[r] = "idle"
  /\ \A q \in Reads : q < r => read[q] # "idle"
  /\ \/ Busy /\ AnswerNow(r, "waiter-busy")
     \/ ~Busy /\ errored # "none" /\ AnswerNow(r, errored)
     \/ ~Busy /\ errored = "none" /\ Drained /\ AnswerNow(r, "closed")
     \/ ~Busy /\ errored = "none" /\ ~Drained /\ SignalOf[r] \in aborted
          /\ AnswerNow(r, "abort")
     \/ Looks(r) /\ Ready /\ TakeLine(r)
     \/ Looks(r) /\ ~Ready /\ tail = "long" /\ FindTooLong(r)
     \/ Looks(r) /\ ~Ready /\ tail # "long" /\ closed /\ AnswerNow(r, "closed")
     \/ Looks(r) /\ ~Ready /\ tail # "long" /\ ~closed /\ Wait(r)

\* onClose and onError.
OnClose == FailWith(TRUE, errored, "closed")
OnError == FailWith(closed, "socket-error", "socket-error")

-----------------------------------------------------------------------------
\* The callbacks of a call that waits.  Each of them frees the slot whoever
\* holds it, and resolves the promise of its own call.

Expire(r, why, L) ==
  /\ waiter' = NoRead
  /\ read' = [read EXCEPT ![r] = IF @ = "waiting" THEN why ELSE @]
  /\ timers' = timers \ {r}
  /\ listening' = L
  /\ UNCHANGED <<buffer, tail, closed, errored, pushed, taken>>

\* The deadline timer of r fires; its abort listener stays registered.
Deadline(r) ==
  /\ r \in timers
  /\ IF waiter # NoRead
       THEN Expire(r, "deadline", listening) /\ UNCHANGED aborted
       ELSE /\ timers' = timers \ {r}
            /\ UNCHANGED <<buffer, tail, waiter, closed, errored, read,
                           listening, aborted, pushed, taken>>

\* The signal s is aborted: its listeners run in the order of their calls, and
\* the first of them leaves no waiter to the others.
Abort(s) ==
  LET L == {r \in listening : SignalOf[r] = s} IN
  /\ s \notin aborted
  /\ aborted' = aborted \cup {s}
  /\ \/ /\ waiter # NoRead
        /\ \E r \in L :
             /\ \A q \in L : r <= q
             /\ Expire(r, "abort", listening \ L)
     \/ /\ waiter = NoRead \/ L = {}
        /\ listening' = listening \ L
        /\ UNCHANGED <<buffer, tail, waiter, closed, errored, read, timers,
                       pushed, taken>>

-----------------------------------------------------------------------------

Chunks == {<<>>} \cup {<<k>> : k \in Lines} \cup {<<k, l>> : k \in Lines, l \in Lines}

ParserNext ==
  \/ \E ls \in Chunks, t \in {"none", "part", "long"} :
       Len(pushed \o ls) <= MaxLines /\ Push(ls, t)
  \/ \E r \in Reads : ReadLine(r) \/ Deadline(r)
  \/ OnClose
  \/ OnError
  \/ \E s \in Signals : Abort(s)

\* Timers fire.
TimersFire == \A r \in Reads : WF_parserVars(Deadline(r))

ParserSpec     == ParserInit /\ [][ParserNext]_parserVars
FairParserSpec == ParserSpec /\ TimersFire

-----------------------------------------------------------------------------

Errors == {"closed", "socket-error", "buffer-oversize", "line-oversize"}
Answers == {"line", "deadline", "abort", "waiter-busy"} \cup Errors

\* Every variable holds a value of the parser's closure.
ParserTypeOK ==
  /\ buffer \in Seq(Lines)
  /\ tail \in {"none", "part", "long"}
  /\ waiter \in Reads \cup {NoRead}
  /\ closed \in BOOLEAN
  /\ errored \in Errors \cup {"none"}
  /\ read \in [Reads -> Answers \cup {"idle", "waiting"}]
  /\ timers \subseteq Reads
  /\ listening \subseteq Reads
  /\ aborted \subseteq Signals
  /\ pushed \in Seq(Lines)
  /\ taken \in Seq(Lines)

\* "Never wait without deadline or abort": a call whose promise is open is the
\* one the parser will answer, and its own timer is armed, although deadlines,
\* aborts, closes and later calls free the slot without asking who holds it
\* (readLine, onAbort, failWaiter).
NoOrphanedReads ==
  \A r \in Reads : read[r] = "waiting" => waiter = r /\ r \in timers

\* A call never waits for what is there already: while one waits, the buffer holds
\* no complete line, and the parser is neither closed nor failed (readLine,
\* tryResolve, onClose, onError).
NobodyWaitsInVain ==
  waiter # NoRead =>
    /\ read[waiter] = "waiting"
    /\ buffer = <<>> /\ ~closed /\ errored = "none"

\* "Each command receives its intended response regardless of packet boundaries
\* or adjacent lines": reads are answered with the lines in the order in which
\* they came, none lost and none twice (push, tryResolve).
LinesInOrder == taken \o buffer = pushed

\* Each line reaches the read it is for, at once and in order, although one slot
\* serves the data, the deadlines, the closes and the errors of all calls.
LinesReachTheirReads == NoOrphanedReads /\ NobodyWaitsInVain /\ LinesInOrder

\* Every call of readLine is answered in the end.
ReadsSettle == \A r \in Reads : read[r] = "waiting" ~> read[r] # "waiting"
=============================================================================
