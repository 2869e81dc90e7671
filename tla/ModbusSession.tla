---------------------------- MODULE ModbusSession ----------------------------
(***************************************************************************)
(* One Modbus session as it runs on the worker thread: ModbusClient with   *)
(* its RequestExecutor, ConnectionManager, RetryStrategy, FrameExtractor   *)
(* and transport (core/modbus/session, core/modbus/transport).             *)
(*                                                                         *)
(* Every handler the Qt event loop calls is one step.  Two things are      *)
(* finer.  executeAsync() is cut where another thread can act with effect: *)
(* after the test of aborted_, and around the blocking wait for a channel  *)
(* to open.  abort() may be called by any thread, so it is enabled while   *)
(* the worker is inside such a call.                                       *)
(*                                                                         *)
(* Time is abstract: an armed timer may fire at any later moment, a        *)
(* QTimer::singleShot once posted cannot be taken back, and the device     *)
(* answers what it received late, out of order or never.                   *)
(***************************************************************************)
EXTENDS Integers, Sequences, FiniteSets, SessionStates

CONSTANTS
  Mode,                  \* base::ModbusMode
  Kinds,                 \* the requests callers make: [fc, slave, valid]
  Retries, PollRetries, WriteRetries, UnresponsiveThreshold,  \* ModbusConfig
  MaxCalls,              \* bound: calls of executeAsync
  MaxNoise               \* bound: complete frames a noisy line can pile up

FunctionClasses == {"read", "write", "other"}

ASSUME ModeAssumption  == Mode \in {"TCP", "RTU", "ASCII"}
ASSUME KindsAssumption ==
  Kinds \subseteq [fc : FunctionClasses, slave : Nat, valid : BOOLEAN]
ASSUME ConfigAssumption ==
  /\ Retries \in Nat
  /\ PollRetries \in Nat
  /\ WriteRetries \in Int
  /\ UnresponsiveThreshold \in Nat
ASSUME BoundsAssumption == MaxCalls \in Nat /\ MaxNoise \in Nat

Calls == 1 .. MaxCalls

VARIABLES
  reqState,    \* RequestStateMachine
  conn,        \* ConnectionStateMachine, IChannel::isOpen(), consecutiveTimeoutCount_
  aborted,     \* aborted_
  blocked,     \* where the worker thread stands inside a blocking call
  calling,     \* the arguments of the executeAsync() call on the stack
  locked,      \* requestLocked_
  active,      \* activeRequest_, activeSlaveId_, activeRequestId_
  callback,    \* activeCallback_ is set
  attempts,    \* RetryStrategy::attemptCount_
  maxRetries,  \* RetryStrategy::config_.maxRetries
  txTimer,     \* transactionTimer_ is running
  silence,     \* rtuSilenceTimer_ is running
  resends,     \* posted singleShots that call sendCurrentRequest()
  writes,      \* posted singleShots that call performWrite(adu)
  extractor,   \* FrameExtractor: completedFrames_, buffer_, drop limit exceeded
  expected,    \* the transport's pending transaction or slave
  nextSeq,     \* transactionId_; on a serial line only tells the ADUs apart
  drained,     \* writeDrained_
  unsent,      \* the channel has bytes it has not handed to the device
  wire,        \* ADUs the device received and has not answered
  calls,       \* history: executeAsync() calls made
  answers,     \* history: how often each call's callback ran
  reply,       \* history: the last response handed to a caller
  sent         \* history: ADUs written on behalf of each call

ctl  == <<reqState, locked, callback, txTimer, silence, answers, reply>>
req  == <<active, attempts, maxRetries>>
call == <<blocked, calling, calls>>
io   == <<nextSeq, wire, unsent, sent>>
vars == <<ctl, req, call, io, conn, aborted, resends, writes, extractor,
          expected, drained>>

-----------------------------------------------------------------------------
(* Data *)

NoFrame    == [seq |-> 0, slave |-> 0, fc |-> "none", status |-> "none", id |-> 0]
NoiseFrame == [NoFrame EXCEPT !.status = "corrupt"]
EmptyExtractor == [frames |-> <<>>, partial |-> NoFrame, over |-> FALSE]
NoCall     == [fc |-> "none", slave |-> 0, valid |-> FALSE]
NoRequest  == [id |-> 0, fc |-> "none", slave |-> 0]
NoReply    == [id |-> 0, result |-> "none", origin |-> 0, attempts |-> 0]

\* The response kinds and error codes a caller can be handed.
Delivered == {"Success", "NoResponseExpected"}
Failures  == {"Busy", "Aborted", "NotConnected", "InvalidPdu", "InvalidAdu",
              "ExceptionResponse", "WriteFailed", "ConnectionFailed",
              "Timeout", "TooManyInvalidBytes"}

\* isBroadcastRequest(): only a serial line has broadcasts.
IsBroadcast(r) == Mode # "TCP" /\ r.slave = 0

\* determineMaxRetries()
DetermineMaxRetries(fc) ==
  CASE fc = "write" /\ WriteRetries > Retries -> WriteRetries
    [] fc = "read" /\ PollRetries > 0         -> PollRetries
    [] OTHER                                  -> Retries

\* RetryStrategy::shouldRetry() after recordAttempt() made the count n.
ShouldRetry(n) == n <= maxRetries

-----------------------------------------------------------------------------
(* completeTransaction() *)

\* Where the request machine ends: rs on entry, ab the value of aborted_.
Settled(rs, result, ab) ==
  Req!TryTransition(rs, IF result \in Delivered THEN "Completed"
                        ELSE IF ab THEN "Aborted" ELSE "Failed")

\* The attempt count put into a response that carries none.
ReportedAttempts(result, n) ==
  IF result \in Delivered THEN n + 1 ELSE IF n > 1 THEN n ELSE 1

Answer(id, result, origin, n) ==
  /\ answers' = [answers EXCEPT ![id] = @ + 1]
  /\ reply' = [id |-> id, result |-> result, origin |-> origin, attempts |-> n]

\* Mutant of Release: the callback is run but not taken out of activeCallback_.
ReleaseKeepsCallback(result, origin, cb) ==
  /\ locked' = FALSE
  /\ callback' = cb
  /\ IF cb
     THEN Answer(active'.id, result, origin, ReportedAttempts(result, attempts'))
     ELSE UNCHANGED <<answers, reply>>

\* Mutant of Release: a caller turned away with Busy has left its callback in the slot
\* of the request in flight, and hears that request's end.
ReleaseToLatestCaller(result, origin, cb) ==
  /\ locked' = FALSE
  /\ callback' = FALSE
  /\ IF cb
     THEN Answer(calls, result, origin, ReportedAttempts(result, attempts'))
     ELSE UNCHANGED <<answers, reply>>

\* Unlock and run the callback, if there is one (cb).
Release(result, origin, cb) ==
  /\ locked' = FALSE
  /\ callback' = FALSE
  /\ IF cb
     THEN Answer(active'.id, result, origin, ReportedAttempts(result, attempts'))
     ELSE UNCHANGED <<answers, reply>>

\* Mutant of StopTimers: only the silence timer is stopped.
StopSilenceTimer == txTimer' = txTimer /\ silence' = FALSE

StopTimers == txTimer' = FALSE /\ silence' = FALSE

CompleteTransaction(result, origin, cb) ==
  StopTimers /\ Release(result, origin, cb)

-----------------------------------------------------------------------------
(* The channel, seen from the session *)

\* Mutant of LoseChannel: no state handler tells the connection machine.
LoseChannelUnnoticed(c) == [c EXCEPT !.open = FALSE]

\* The state handler the client installs: a loss seen in Connected is Failed.
LoseChannel(c) ==
  [c EXCEPT !.open = FALSE, !.state = IF @ = "Connected" THEN "Failed" ELSE @]

\* A TCP connection takes the unanswered requests with it, a serial line
\* does not: what its device still sends arrives after the port is reopened.
DropTraffic ==
  /\ unsent' = FALSE
  /\ wire' = IF Mode = "TCP" THEN {} ELSE wire

-----------------------------------------------------------------------------
(* Sending.  In these operators c and rs are the connection and the request *)
(* state on entry, and cb says whether activeCallback_ is set; active',     *)
(* attempts' and aborted' are already in effect.                            *)

\* performWrite() without a transmission: the call ends in result.
WriteEndsIn(result, to, c, rs, cb) ==
  /\ CompleteTransaction(result, 0, cb)
  /\ reqState' = Settled(Req!TryTransition(rs, to), result, aborted')
  /\ conn' = c
  /\ UNCHANGED <<wire, unsent, sent>>

\* The part of performWrite() after a channel write that returned true.
AwaitResponse(rs, cb) ==
  LET sending == Req!TryTransition(rs, "Sending") IN
  IF IsBroadcast(active')
  THEN /\ CompleteTransaction("NoResponseExpected", 0, cb)
       /\ reqState' = Settled(Req!TryTransition(sending, "Completed"),
                              "NoResponseExpected", aborted')
  ELSE /\ reqState' = Req!TryTransition(sending, "Waiting")
       /\ txTimer' = TRUE
       /\ callback' = cb
       /\ UNCHANGED <<silence, locked, answers, reply>>

\* The device refuses the bytes while the channel is open: write() reports
\* the error through the error handler, which completes the request, and
\* still returns true to performWrite(), which goes on without a callback.
WriteErrorWithinWrite(c, rs, cb) ==
  LET failed == IF cb THEN Settled(rs, "ConnectionFailed", aborted') ELSE rs
      sending == Req!TryTransition(failed, "Sending")
  IN /\ Release("ConnectionFailed", 0, cb)
     /\ silence' = (silence /\ ~cb /\ ~IsBroadcast(active'))
     /\ txTimer' = ~IsBroadcast(active')
     /\ reqState' = IF IsBroadcast(active')
                    THEN Req!TryTransition(sending, "Completed")
                    ELSE Req!TryTransition(sending, "Waiting")
     /\ conn' = LoseChannel(c)
     /\ DropTraffic
     /\ UNCHANGED sent

PerformWrite(adu, c, rs, cb) ==
  \/ /\ aborted'
     /\ WriteEndsIn("Aborted", "Aborted", c, rs, cb)
  \/ /\ ~aborted' /\ ~c.open
     /\ WriteEndsIn("WriteFailed", "Failed", c, rs, cb)
  \/ /\ ~aborted' /\ c.open
     /\ AwaitResponse(rs, cb)
     /\ wire' = wire \cup {adu}
     /\ unsent' = TRUE
     /\ sent' = [sent EXCEPT ![adu.id] = @ + 1]
     /\ conn' = c
  \/ /\ ~aborted' /\ c.open
     /\ WriteErrorWithinWrite(c, rs, cb)

\* A broadcast of a function that is no write is refused before it is built.
RefuseBroadcast(c, rs, cb) ==
  /\ IsBroadcast(active') /\ active'.fc # "write"
  /\ WriteEndsIn("InvalidPdu", "Failed", c, rs, cb)
  /\ expected' = {}
  /\ UNCHANGED <<nextSeq, writes>>

\* buildRequest(), then the write: at once, or after the quiet interval that
\* an RTU line still needs.
BuildAndWrite(c, rs, cb) ==
  LET adu == [seq |-> nextSeq, slave |-> active'.slave, fc |-> active'.fc,
              id |-> active'.id]
  IN /\ ~(IsBroadcast(active') /\ active'.fc # "write")
     /\ expected' = {adu}
     /\ nextSeq' = nextSeq + 1
     /\ \/ /\ PerformWrite(adu, c, rs, cb)
           /\ UNCHANGED writes
        \/ /\ Mode = "RTU"
           /\ writes' = writes \cup {adu}
           /\ conn' = c /\ reqState' = rs /\ callback' = cb
           /\ UNCHANGED <<txTimer, silence, locked, answers, reply,
                          wire, unsent, sent>>

SendCurrentRequest(c, rs, cb) ==
  \/ /\ aborted'
     /\ WriteEndsIn("Aborted", "Aborted", c, rs, cb)
     /\ UNCHANGED <<extractor, drained, expected, nextSeq, writes>>
  \/ /\ ~aborted'
     /\ extractor' = EmptyExtractor
     /\ drained' = (drained /\ Mode # "RTU")
     /\ (RefuseBroadcast(c, rs, cb) \/ BuildAndWrite(c, rs, cb))

-----------------------------------------------------------------------------
(* executeAsync() *)

\* A call turned away before it became the active request.
TurnAway(id, result, n) ==
  /\ Answer(id, result, 0, n)
  /\ UNCHANGED <<callback, txTimer, silence>>

\* The lock and the test of aborted_.
Execute(k) ==
  /\ blocked = "no"
  /\ calls < MaxCalls
  /\ calls' = calls + 1
  /\ \/ /\ locked
        /\ TurnAway(calls + 1, "Busy", 0)
        /\ UNCHANGED <<reqState, locked, blocked, calling>>
     \/ /\ ~locked /\ aborted
        /\ TurnAway(calls + 1, "Aborted", attempts)
        /\ reqState' = Req!TryTransition(reqState, "Aborted")
        /\ UNCHANGED <<locked, blocked, calling>>
     \/ /\ ~locked /\ ~aborted
        /\ locked' = TRUE
        /\ blocked' = "starting"
        /\ calling' = k
        /\ UNCHANGED <<reqState, callback, txTimer, silence, answers, reply>>
  /\ UNCHANGED <<req, io, conn, aborted, resends, writes, extractor,
                 expected, drained>>

\* What follows once ensureConnected() returned true, in connection c.
StartRequest(c) ==
  LET k == calling IN
  \/ /\ ~k.valid
     /\ TurnAway(calls, "InvalidPdu", 0)
     /\ locked' = FALSE
     /\ reqState' = Req!TryTransition(reqState, "Failed")
     /\ conn' = c
     /\ UNCHANGED <<req, io, writes, extractor, expected, drained>>
  \/ /\ k.valid
     /\ active' = [id |-> calls, fc |-> k.fc, slave |-> k.slave]
     /\ attempts' = 0
     /\ maxRetries' = DetermineMaxRetries(k.fc)
     /\ SendCurrentRequest(c, Req!TryTransition(reqState, "Idle"), TRUE)

\* assertCleanEntryState(), then the transition to Connecting.
EnterConnecting(s) ==
  Conn!TryTransition(CASE s = "Disconnecting"              -> "Disconnected"
                       [] s \in {"Connecting", "Connected"} -> "Failed"
                       [] OTHER                             -> s, "Connecting")

\* ensureConnected() with the channel already open.
FastPath(s) == IF s = "Disconnecting" THEN s ELSE "Connected"

\* aborted_ is cleared; an open channel is used, a closed one is opened.
Proceed ==
  /\ blocked = "starting"
  /\ aborted' = FALSE
  /\ \/ /\ conn.open
        /\ blocked' = "no" /\ calling' = NoCall
        /\ StartRequest([conn EXCEPT !.state = FastPath(@)])
     \/ /\ ~conn.open
        /\ blocked' = "request" /\ UNCHANGED calling
        /\ conn' = [conn EXCEPT !.state = EnterConnecting(@)]
        /\ UNCHANGED <<ctl, req, io, writes, extractor, expected, drained>>
  /\ UNCHANGED <<calls, resends>>

\* The channel was opened; a machine that left Connecting meanwhile stays.
Opened(c) ==
  [state |-> Conn!TryTransition(c.state, "Connected"), open |-> TRUE, timeouts |-> 0]

OpenFailed(c) ==
  [c EXCEPT !.open = FALSE, !.state = Conn!TryTransition(@, "Failed")]

\* waitForChannelState() returned within executeAsync().
OpenedForRequest ==
  /\ blocked = "request"
  /\ UNCHANGED <<calls, resends, aborted>>
  /\ blocked' = "no" /\ calling' = NoCall
  /\ StartRequest(Opened(conn))

\* Mutant of NotOpenedForRequest: the early return keeps the request lock.
NotOpenedKeepsLock ==
  /\ blocked = "request"
  /\ UNCHANGED <<calls, req, io, aborted, resends, writes, extractor,
                 expected, drained, locked>>
  /\ blocked' = "no" /\ calling' = NoCall
  /\ conn' = OpenFailed(conn)
  /\ TurnAway(calls, "NotConnected", 0)
  /\ reqState' = Req!TryTransition(reqState, "Failed")

NotOpenedForRequest ==
  /\ blocked = "request"
  /\ UNCHANGED <<calls, req, io, aborted, resends, writes, extractor,
                 expected, drained>>
  /\ blocked' = "no" /\ calling' = NoCall
  /\ conn' = OpenFailed(conn)
  /\ TurnAway(calls, "NotConnected", 0)
  /\ locked' = FALSE
  /\ reqState' = Req!TryTransition(reqState, "Failed")

\* The lambda posted for a retry runs; it cannot tell whose retry it is.
ResendFires(r) ==
  /\ blocked = "no"
  /\ r \in resends
  /\ resends' = resends \ {r}
  /\ UNCHANGED <<req, call, aborted>>
  /\ SendCurrentRequest(conn, reqState, callback)

\* The lambda posted for the RTU quiet interval runs with the ADU it captured.
WindowOpens(adu) ==
  /\ blocked = "no"
  /\ adu \in writes
  /\ writes' = writes \ {adu}
  /\ UNCHANGED <<req, call, aborted, resends, extractor, expected, drained, nextSeq>>
  /\ PerformWrite(adu, conn, reqState, callback)

-----------------------------------------------------------------------------
(* Receiving *)

\* Mutant of Matches: the transaction id is not compared.
MatchesAnyTransaction(f) == \E e \in expected : e.slave = f.slave

\* What parseResponse() and handleParsedFrame() make of a frame.
Matches(f) ==
  \E e \in expected : e.slave = f.slave /\ (Mode = "TCP" => e.seq = f.seq)

Consumes(f) == f.status # "corrupt" /\ Matches(f)

Verdict(f) ==
  IF f.status = "corrupt" THEN "InvalidAdu"
  ELSE IF ~Matches(f) THEN "Ignored"
  ELSE IF f.status = "exception" THEN "ExceptionResponse"
  ELSE IF f.fc # active.fc THEN "Ignored"
  ELSE IF f.status = "bad" THEN "InvalidPdu" ELSE "Success"

\* Mutant of RetryOrFail: the next attempt is counted but never posted.
RetryNotPosted(result, origin, rs) ==
  /\ attempts' = attempts + 1
  /\ UNCHANGED resends
  /\ \/ /\ ShouldRetry(attempts + 1) /\ ~aborted
        /\ reqState' = Req!TryTransition(rs, "Failed")
        /\ UNCHANGED <<locked, callback, answers, reply>>
     \/ /\ ~ShouldRetry(attempts + 1) \/ aborted
        /\ Release(result, origin, callback)
        /\ reqState' = Settled(rs, result, aborted)

\* A failed attempt: another one is posted while the budget lasts.  The
\* transaction timer is left as it is by a retry.
RetryOrFail(result, origin, rs) ==
  /\ attempts' = attempts + 1
  /\ \/ /\ ShouldRetry(attempts + 1) /\ ~aborted
        /\ resends' = resends \cup {[id |-> active.id, attempt |-> attempts + 1]}
        /\ reqState' = Req!TryTransition(rs, "Failed")
        /\ UNCHANGED <<locked, callback, answers, reply>>
     \/ /\ ~ShouldRetry(attempts + 1) \/ aborted
        /\ Release(result, origin, callback)
        /\ reqState' = Settled(rs, result, aborted)
        /\ UNCHANGED resends

\* The end of checkPendingResponse() when no frame settled the request; ti is
\* the silence timer.
CheckDropLimit(over, ti) ==
  /\ UNCHANGED <<conn, attempts, resends>>
  /\ IF over
     THEN /\ CompleteTransaction("TooManyInvalidBytes", 0, callback)
          /\ reqState' = Settled(Req!TryTransition(reqState, "Failed"),
                                 "TooManyInvalidBytes", aborted)
     ELSE /\ silence' = ti
          /\ UNCHANGED <<reqState, locked, callback, txTimer, answers, reply>>

HandleParsedFrame(f, over) ==
  LET v == Verdict(f) IN
  /\ expected' = IF Consumes(f) THEN {} ELSE expected
  /\ \/ /\ v = "Ignored"
        /\ CheckDropLimit(over, FALSE)
     \/ /\ v = "Success"
        /\ conn' = [conn EXCEPT !.timeouts = 0]
        /\ UNCHANGED <<attempts, resends>>
        /\ CompleteTransaction("Success", f.id, callback)
        /\ reqState' = Settled(Req!TryTransition(reqState, "Completed"),
                               "Success", aborted)
     \/ /\ v \notin {"Ignored", "Success"}
        /\ silence' = FALSE
        /\ RetryOrFail(v, f.id, Req!TryTransition(reqState, "Failed"))
        /\ txTimer' = (txTimer /\ callback')
        /\ UNCHANGED conn

\* The frame the extractor gives out: the first complete one, or on an RTU
\* line the buffer once the line has been silent long enough.
PopFrame(ex) ==
  \/ /\ ex.frames # <<>>
     /\ extractor' = [ex EXCEPT !.frames = Tail(@)]
     /\ HandleParsedFrame(Head(ex.frames), ex.over)
  \/ /\ ex.frames = <<>> /\ ex.partial # NoFrame
     /\ extractor' = [ex EXCEPT !.partial = NoFrame]
     /\ HandleParsedFrame(ex.partial, ex.over)

\* checkPendingResponse() with the extractor ex, writeDrained_ dr and the
\* silence timer ti.  At most one frame is taken.
CheckPendingResponse(ex, dr, ti) ==
  \/ /\ ~callback \/ (Mode = "RTU" /\ ~dr)
     /\ extractor' = ex
     /\ silence' = ti
     /\ UNCHANGED <<reqState, locked, callback, txTimer, answers, reply,
                    conn, attempts, resends, expected>>
  \/ /\ callback /\ (Mode = "RTU" => dr)
     /\ \/ PopFrame(ex)
        \/ /\ ex.frames = <<>>
           /\ extractor' = ex
           /\ CheckDropLimit(ex.over, ti \/ ex.partial # NoFrame)
           /\ UNCHANGED expected

\* FrameExtractor::feed() with the bytes of one frame: complete at once on TCP
\* and ASCII; on RTU what was in the buffer is completed by a silence,
\* dropped for a gap within it, or run together with the new bytes.
Feed(f) ==
  IF Mode # "RTU"
  THEN {[extractor EXCEPT !.frames = Append(@, f), !.over = FALSE]}
  ELSE IF extractor.partial = NoFrame
       THEN {[extractor EXCEPT !.partial = f]}
       ELSE {[extractor EXCEPT !.frames = Append(@, extractor.partial), !.partial = f],
             [extractor EXCEPT !.partial = f],
             [extractor EXCEPT !.partial = NoiseFrame]}

Received(ex) ==
  /\ UNCHANGED <<active, maxRetries, call, aborted, writes, drained, nextSeq,
                 unsent, sent>>
  /\ CheckPendingResponse(ex, drained, silence)

\* The device answers an ADU it has received: a broadcast it never answers.
DeviceAnswers(adu, status) ==
  /\ blocked = "no" /\ conn.open
  /\ adu \in wire
  /\ Mode # "TCP" => adu.slave # 0
  /\ status = "corrupt" => Mode = "RTU"
  /\ wire' = wire \ {adu}
  /\ \E ex \in Feed([seq |-> adu.seq, slave |-> adu.slave, fc |-> adu.fc,
                     status |-> status, id |-> adu.id]) : Received(ex)

\* Noise: an unreadable chunk on an RTU line, elsewhere more bytes that frame
\* nothing than kMaxDroppedInvalidBytes allows.
LineNoise ==
  /\ blocked = "no" /\ conn.open
  /\ Len(extractor.frames) < MaxNoise
  /\ \E ex \in IF Mode = "RTU" THEN Feed(NoiseFrame)
               ELSE {[extractor EXCEPT !.over = TRUE]} : Received(ex)
  /\ UNCHANGED wire

\* onWriteDrained()
WriteDrained ==
  /\ blocked = "no" /\ unsent
  /\ UNCHANGED <<active, maxRetries, call, aborted, writes, nextSeq, wire, sent>>
  /\ unsent' = FALSE
  /\ drained' = TRUE
  /\ CheckPendingResponse(extractor, TRUE, silence)

SilenceExpires ==
  /\ blocked = "no" /\ silence
  /\ UNCHANGED <<active, maxRetries, call, aborted, writes, drained, io>>
  /\ CheckPendingResponse(extractor, drained, FALSE)

-----------------------------------------------------------------------------
(* The transaction timer and the channel's own events *)

\* Mutant of AfterTimeout: the session survives one timeout too many.
AfterTimeoutTooLate(c) ==
  IF c.state # "Connected" \/ UnresponsiveThreshold = 0
  THEN c
  ELSE IF c.timeouts < UnresponsiveThreshold
       THEN [c EXCEPT !.timeouts = @ + 1]
       ELSE [state |-> "Failed", open |-> FALSE, timeouts |-> 0]

\* onRequestTimeout(): enough timeouts in a row end a half-open session.
AfterTimeout(c) ==
  IF c.state # "Connected" \/ UnresponsiveThreshold = 0
  THEN c
  ELSE IF c.timeouts + 1 < UnresponsiveThreshold
       THEN [c EXCEPT !.timeouts = @ + 1]
       ELSE [state |-> "Failed", open |-> FALSE, timeouts |-> 0]

\* handleTimeout()
TimeoutFires ==
  /\ blocked = "no" /\ txTimer
  /\ UNCHANGED <<active, maxRetries, call, aborted, writes, extractor, expected,
                 drained, nextSeq, sent>>
  /\ txTimer' = FALSE
  /\ conn' = AfterTimeout(conn)
  /\ IF conn.open /\ ~conn'.open THEN DropTraffic ELSE UNCHANGED <<unsent, wire>>
  /\ RetryOrFail("Timeout", 0, Req!TryTransition(reqState, "Failed"))
  /\ silence' = (silence /\ callback')

\* onChannelError() while a request is active; otherwise it only keeps a text.
ChannelError ==
  /\ blocked = "no" /\ callback
  /\ UNCHANGED <<req, call, io, conn, aborted, resends, writes, extractor,
                 expected, drained>>
  /\ CompleteTransaction("ConnectionFailed", 0, TRUE)
  /\ reqState' = Settled(reqState, "ConnectionFailed", aborted)

\* The peer closes the connection, or the port goes away.
ChannelLost ==
  /\ blocked = "no" /\ conn.open
  /\ conn' = LoseChannel(conn)
  /\ DropTraffic
  /\ UNCHANGED <<ctl, req, call, nextSeq, sent, aborted, resends, writes,
                 extractor, expected, drained>>

\* sendRaw(), which leaves as soon as a request holds the lock.
SendRaw ==
  /\ blocked = "no" /\ ~locked /\ conn.open
  /\ \/ unsent' = TRUE /\ UNCHANGED <<conn, wire>>
     \/ conn' = LoseChannel(conn) /\ DropTraffic
  /\ UNCHANGED <<ctl, req, call, nextSeq, sent, aborted, resends, writes,
                 extractor, expected, drained>>

-----------------------------------------------------------------------------
(* The client's own operations *)

\* Mutant of ClearRuntimeState: the open request is forgotten, not completed.
ForgetRuntimeState(rs, cb, ab) ==
  /\ extractor' = EmptyExtractor
  /\ drained' = TRUE
  /\ expected' = {}
  /\ StopTimers
  /\ locked' = FALSE /\ callback' = FALSE
  /\ reqState' = Req!TryTransition(rs, "Idle")
  /\ UNCHANGED <<answers, reply>>

\* clearRuntimeState() from request state rs, with aborted_ = ab; then the
\* request machine is sent to Idle.
ClearRuntimeState(rs, cb, ab) ==
  /\ extractor' = EmptyExtractor
  /\ drained' = TRUE
  /\ expected' = {}
  /\ StopTimers
  /\ IF cb
     THEN /\ Release("ConnectionFailed", 0, TRUE)
          /\ reqState' = Req!TryTransition(
               Settled(Req!TryTransition(rs, "Failed"), "ConnectionFailed", ab), "Idle")
     ELSE /\ reqState' = Req!TryTransition(rs, "Idle")
          /\ UNCHANGED <<locked, callback, answers, reply>>

\* connect()
Connect ==
  /\ blocked = "no"
  /\ UNCHANGED <<req, calling, calls, io, resends, writes>>
  /\ aborted' = FALSE
  /\ \/ /\ conn.open
        /\ conn' = [conn EXCEPT !.state = FastPath(@)]
        /\ ClearRuntimeState(reqState, callback, FALSE)
        /\ UNCHANGED blocked
     \/ /\ ~conn.open
        /\ blocked' = "connect"
        /\ conn' = [conn EXCEPT !.state = EnterConnecting(@)]
        /\ UNCHANGED <<ctl, extractor, drained, expected>>

\* waitForChannelState() returned within connect().
OpenedForConnect ==
  /\ blocked = "connect"
  /\ UNCHANGED <<req, calling, calls, io, aborted, resends, writes>>
  /\ blocked' = "no"
  /\ conn' = Opened(conn)
  /\ ClearRuntimeState(reqState, callback, aborted)

NotOpenedForConnect ==
  /\ blocked = "connect"
  /\ blocked' = "no"
  /\ conn' = OpenFailed(conn)
  /\ UNCHANGED <<ctl, req, calling, calls, io, aborted, resends, writes,
                 extractor, expected, drained>>

\* disconnect(), which ends with aborted_ cleared.
Disconnect(rs, cb) ==
  /\ aborted' = FALSE
  /\ conn' = [conn EXCEPT !.open = FALSE,
                !.state = Conn!TryTransition(
                            Conn!TryTransition(@, "Disconnecting"), "Disconnected")]
  /\ DropTraffic
  /\ ClearRuntimeState(rs, cb, TRUE)

\* The request state after abort().
AbortedState ==
  LET first == IF reqState \in {"Completed", "Failed"} THEN reqState
               ELSE Req!TryTransition(reqState, "Aborted")
  IN IF callback THEN Settled(first, "Aborted", TRUE) ELSE first

\* abort(), from any thread.
Abort ==
  /\ UNCHANGED <<req, call, io, resends, writes, extractor, expected, drained>>
  /\ aborted' = TRUE
  /\ conn' = [conn EXCEPT !.state = IF @ = "Connecting" THEN "Failed" ELSE @]
  /\ StopTimers
  /\ reqState' = AbortedState
  /\ IF callback THEN Release("Aborted", 0, TRUE)
     ELSE UNCHANGED <<locked, callback, answers, reply>>

\* handleRequestDisconnectInThread(): abort(), then disconnect() provided that
\* the channel is open; if it is not, aborted_ stays set.
RequestDisconnect ==
  /\ blocked = "no"
  /\ IF callback THEN Answer(active.id, "Aborted", 0, ReportedAttempts("Aborted", attempts))
     ELSE UNCHANGED <<answers, reply>>
  /\ locked' = FALSE /\ callback' = FALSE
  /\ StopTimers
  /\ IF conn.open
     THEN /\ aborted' = FALSE
          /\ conn' = [conn EXCEPT !.open = FALSE, !.state = "Disconnected"]
          /\ DropTraffic
          /\ extractor' = EmptyExtractor /\ drained' = TRUE /\ expected' = {}
          /\ reqState' = Req!TryTransition(AbortedState, "Idle")
     ELSE /\ aborted' = TRUE
          /\ conn' = [conn EXCEPT !.state = IF @ = "Connecting" THEN "Failed" ELSE @]
          /\ reqState' = AbortedState
          /\ UNCHANGED <<wire, unsent, extractor, drained, expected>>
  /\ UNCHANGED <<req, call, nextSeq, sent, resends, writes>>

\* setConfig(): the retry budget falls back to the global count; a new
\* endpoint disconnects an open channel.
SetConfig(endpointChanged) ==
  /\ blocked = "no"
  /\ UNCHANGED <<active, attempts, call, nextSeq, sent, resends, writes>>
  /\ maxRetries' = Retries
  /\ IF endpointChanged /\ conn.open
     THEN Disconnect(reqState, callback)
     ELSE /\ extractor' = EmptyExtractor
          /\ UNCHANGED <<ctl, conn, aborted, wire, unsent, drained, expected>>

-----------------------------------------------------------------------------
Init ==
  /\ reqState = "Idle"
  /\ conn = [state |-> "Disconnected", open |-> FALSE, timeouts |-> 0]
  /\ aborted = FALSE
  /\ blocked = "no"
  /\ calling = NoCall
  /\ locked = FALSE
  /\ active = NoRequest
  /\ callback = FALSE
  /\ attempts = 0
  /\ maxRetries = 0
  /\ txTimer = FALSE
  /\ silence = FALSE
  /\ resends = {}
  /\ writes = {}
  /\ extractor = EmptyExtractor
  /\ expected = {}
  /\ nextSeq = 0
  /\ drained = TRUE
  /\ unsent = FALSE
  /\ wire = {}
  /\ calls = 0
  /\ answers = [i \in Calls |-> 0]
  /\ reply = NoReply
  /\ sent = [i \in Calls |-> 0]

Statuses == {"ok", "exception", "bad", "corrupt"}

Next ==
  \/ \E k \in Kinds : Execute(k)
  \/ Proceed \/ OpenedForRequest \/ NotOpenedForRequest
  \/ \E r \in resends : ResendFires(r)
  \/ \E adu \in writes : WindowOpens(adu)
  \/ \E adu \in wire, status \in Statuses : DeviceAnswers(adu, status)
  \/ LineNoise \/ WriteDrained \/ SilenceExpires
  \/ TimeoutFires \/ ChannelError \/ ChannelLost \/ SendRaw
  \/ Connect \/ OpenedForConnect \/ NotOpenedForConnect
  \/ Abort \/ RequestDisconnect
  \/ \E changed \in BOOLEAN : SetConfig(changed)

Spec == Init /\ [][Next]_vars

\* A blocking open ends, and the event loop comes back to every timer that
\* has run out and to every posted lambda, whatever else it is given to do.
Fairness ==
  /\ WF_vars(Proceed)
  /\ WF_vars(OpenedForRequest \/ NotOpenedForRequest)
  /\ WF_vars(OpenedForConnect \/ NotOpenedForConnect)
  /\ SF_vars(TimeoutFires)
  /\ SF_vars(\E r \in resends : ResendFires(r))
  /\ SF_vars(\E adu \in writes : WindowOpens(adu))

FairSpec == Spec /\ Fairness

-----------------------------------------------------------------------------
(* Properties *)

Adus   == [seq : Nat, slave : Nat, fc : FunctionClasses, id : Calls]
Frames == [seq : Nat, slave : Nat, fc : FunctionClasses \cup {"none"},
           status : Statuses \cup {"none"}, id : 0 .. MaxCalls]

\* The state keeps its types, and the count of consecutive timeouts never
\* reaches the threshold that ends the session.
TypeOK ==
  /\ reqState \in RequestStates
  /\ conn \in [state : ConnectionStates, open : BOOLEAN, timeouts : Nat]
  /\ conn.timeouts > 0 => conn.timeouts < UnresponsiveThreshold
  /\ aborted \in BOOLEAN
  /\ blocked \in {"no", "starting", "request", "connect"}
  /\ calling \in Kinds \cup {NoCall}
  /\ locked \in BOOLEAN
  /\ active \in [id : Calls, fc : FunctionClasses, slave : Nat] \cup {NoRequest}
  /\ callback \in BOOLEAN
  /\ attempts \in Nat
  /\ maxRetries \in Int
  /\ txTimer \in BOOLEAN
  /\ silence \in BOOLEAN
  /\ resends \subseteq [id : Calls, attempt : Nat]
  /\ writes \subseteq Adus
  /\ extractor \in [frames : Seq(Frames), partial : Frames, over : BOOLEAN]
  /\ expected \subseteq Adus
  /\ nextSeq \in Nat
  /\ drained \in BOOLEAN
  /\ unsent \in BOOLEAN
  /\ wire \subseteq Adus
  /\ calls \in 0 .. MaxCalls
  /\ answers \in [Calls -> Nat]
  /\ reply \in [id : 0 .. MaxCalls, result : Delivered \cup Failures \cup {"none"},
                origin : 0 .. MaxCalls, attempts : Nat]
  /\ sent \in [Calls -> Nat]

\* A call was taken and its callback has not run.
Starting == blocked \in {"starting", "request"}
Open(i)  == (callback /\ i = active.id) \/ (Starting /\ i = calls)

\* The request lock is held exactly while a call is open: every early return
\* of executeAsync() and every way a transaction ends gives it back.
LockMeansOpenCall == locked = (callback \/ Starting)

\* Every executeAsync() call runs its callback exactly once, whatever mixes of
\* retries, timeouts, late answers, aborts and disconnects end the request.
AnsweredExactlyOnce ==
  \A i \in Calls : answers[i] = IF i <= calls /\ ~Open(i) THEN 1 ELSE 0

\* An open transaction always has something left that will move it: the
\* transaction timer, a posted retry or a posted RTU write.
NoStuckRequest == callback => txTimer \/ resends # {} \/ writes # {}

\* On TCP a caller is never handed the answer to another call's request, no
\* matter how late it comes (transaction ids, resetPendingState()).
OwnAnswer == Mode = "TCP" /\ reply.origin # 0 => reply.origin = reply.id

\* A success reported to a caller, a broadcast's included, is about bytes that
\* the channel took for that very call.  Holds where writes are made at once,
\* on TCP and ASCII; on an RTU line see BroadcastWasSent.
SuccessWasSent == reply.result \in Delivered => sent[reply.id] > 0

\* The session reports Connected only over an open channel, so the passive-loss
\* handler, eviction, disconnect and failed opens all take it out of Connected.
ConnectedMeansOpen == conn.state = "Connected" => conn.open

\* From abort() until the session is used again nothing is in flight, which is
\* what the destructor's std::abort() check of Sending and Waiting relies on.
AbortedIsQuiet ==
  aborted => ~callback /\ ~txTimer /\ reqState \notin {"Sending", "Waiting"}

\* Every call is eventually answered.
EveryCallAnswered == \A i \in Calls : calls >= i ~> answers[i] = 1

\* executeAsync() implements the service its callers see.
Service == INSTANCE RequestService WITH
             current <- IF callback THEN active.id ELSE IF Starting THEN calls ELSE 0

ServiceImplemented == Service!FairSpec

-----------------------------------------------------------------------------
(* What comments of the code say, and the code does not do *)

\* ModbusClient::connect(): the request machine can always be reset to Idle.
ConnectResetsToIdle ==
  [][OpenedForConnect => reqState' = "Idle"]_vars

\* SessionTypes.h: attemptCount is the number of transmissions made.
TimeoutReportsTransmissions ==
  reply.result = "Timeout" => reply.attempts = sent[reply.id]

\* ModbusConfig.h: poll reads fail fast, so a read that may not be retried is
\* transmitted at most once.
FailFastReadSentOnce ==
  active.fc = "read" /\ DetermineMaxRetries("read") = 0 => sent[active.id] <= 1

\* RequestStateMachine.h: broadcast writes complete at send time, so a caller
\* who is told of one has had its bytes sent.
BroadcastWasSent ==
  reply.result = "NoResponseExpected" => sent[reply.id] > 0

=============================================================================
