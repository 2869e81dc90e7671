------------------------------ MODULE IoChannels ------------------------------
(***************************************************************************)
(* One channel of infra/io: TcpChannel, SerialChannel (both on             *)
(* BufferedWritingChannel) or UdpChannel, on the thread of its device.     *)
(* Calls from other threads and every Qt signal arrive through the queue   *)
(* of that thread, so a handler may run long after what it reports.  The   *)
(* device is Qt's: QTcpSocket, QSerialPort or QUdpSocket, "Connected" when *)
(* open or bound.  A frame is two chunks.                                  *)
(***************************************************************************)
EXTENDS Integers, Sequences, SequencesExt

CONSTANTS
  ChannelKinds,   \* subset of {"tcp", "serial", "udp"}
  MaxCalls,       \* bound: opens and closes
  MaxWrites,      \* bound: frames written
  MaxDrops,       \* bound: losses of the connection
  MaxWaiting      \* bound: events that wait when a call is posted

ASSUME ChannelKindsAssumption == ChannelKinds \subseteq {"tcp", "serial", "udp"}

VARIABLE
  c    \* the channel: whether its endpoint is valid, state_, closing_, socketDropIsError_ (drop), pendingWrites_,
       \* currentWriteOffset_ (offset), its three timers, bytesTx_ as the set of frames
       \* counted (tx); the device: sock, buf, pendingClose; queue: the thread's events;
       \* history: wire (chunks sent), calls, writes, drops
ioVars == <<c>>

FrameSize == 2
Chunk(frame, i) == <<frame, i>>

-----------------------------------------------------------------------------
(* The device: what Qt does, and the signals it queues *)

Post(d, events) == [d EXCEPT !.queue = @ \o events]
SC(s) == [kind |-> "stateChanged", sock |-> s]
Signal(kind) == [kind |-> kind, sock |-> "-"]

Become(d, s) == Post([d EXCEPT !.sock = s], <<SC(s)>>)

\* abort(): what was not sent is dropped.
Abort(d) ==
  LET empty == [d EXCEPT !.buf = <<>>, !.pendingClose = FALSE] IN
  CASE d.sock = "Unconnected" -> empty
    [] d.sock = "Closing"     -> Become(empty, "Unconnected")
    [] OTHER                  -> Become(Become(empty, "Closing"), "Unconnected")

\* disconnectFromHost(): waits for the connection, and for what is not sent yet.
DisconnectFromHost(d) ==
  CASE d.sock = "Connecting" -> [d EXCEPT !.pendingClose = TRUE]
    [] d.sock = "Connected"  -> LET g == Become(d, "Closing") IN
                                IF d.buf # <<>> THEN g ELSE Become(g, "Unconnected")
    [] OTHER -> d

-----------------------------------------------------------------------------
(* BufferedWritingChannel; k is how many chunks the device takes, -1 for failure *)

SetState(d, s) == [d EXCEPT !.state = s]
ResetWriteState(d) == [d EXCEPT !.pending = <<>>, !.offset = 0]
FailWith(d) == SetState([ResetWriteState(d) EXCEPT !.writeOn = FALSE], "Error")
Writable(d) == d.sock = "Connected"
AllSent(d) == d.pending = <<>> /\ d.buf = <<>>

FlushPendingWrites(d, k) ==
  LET left == FrameSize - d.offset
      n == IF k < left THEN k ELSE left IN
  IF d.pending = <<>> \/ ~Writable(d)
  THEN [d EXCEPT !.writeOn = @ /\ ~AllSent(d)]
  ELSE IF left = 0 THEN d
  ELSE IF k < 0 THEN FailWith(d)
  ELSE [d EXCEPT !.offset = @ + n, !.writeOn = @ \/ n > 0,
                 !.buf = @ \o [i \in 1..n |-> Chunk(Head(d.pending), d.offset + i)]]

Write(d, frame, k) ==
  IF ~Writable(d) THEN d
  ELSE IF d.kind = "udp" THEN IF k < 0 THEN d
       ELSE [d EXCEPT !.tx = @ \cup {frame}, !.wire = @ \cup {Chunk(frame, i) : i \in 1..FrameSize}]
  ELSE FlushPendingWrites([d EXCEPT !.pending = Append(@, frame), !.writeOn = TRUE], k)

\* Mutant of OnBytesWritten: what the device still holds counts as sent.
OnBytesWrittenEager(d, k) ==
  LET whole == d.pending # <<>> /\ d.offset >= FrameSize
      e == IF whole
           THEN [d EXCEPT !.tx = @ \cup {Head(d.pending)}, !.pending = Tail(@), !.offset = 0]
           ELSE d
      drained == whole /\ e.pending = <<>> IN
  FlushPendingWrites([e EXCEPT !.writeOn = ~drained /\ (@ \/ ~AllSent(e))], k)

\* A frame is counted, and the next one begun, when the device has sent all it took.
OnBytesWritten(d, k) ==
  LET whole == d.pending # <<>> /\ d.offset >= FrameSize /\ d.buf = <<>>
      e == IF whole
           THEN [d EXCEPT !.tx = @ \cup {Head(d.pending)}, !.pending = Tail(@), !.offset = 0]
           ELSE d
      drained == whole /\ e.pending = <<>> IN
  FlushPendingWrites([e EXCEPT !.writeOn = ~drained /\ (@ \/ ~AllSent(e))], k)

OnWriteTimeout(d) ==
  IF d.closing \/ ~Writable(d) \/ AllSent(d) THEN [d EXCEPT !.writeOn = FALSE] ELSE FailWith(d)

-----------------------------------------------------------------------------
(* open() and close(), on the device's thread; ok: the port opens, the bind succeeds    *)

OpenTcp(d, k) ==
  LET e == [d EXCEPT !.connectOn = FALSE, !.lingerOn = FALSE] IN
  CASE d.sock = "Connected"  -> FlushPendingWrites(SetState([e EXCEPT !.drop = TRUE], "Open"), k)
    [] d.sock = "Connecting" -> SetState([e EXCEPT !.drop = TRUE], "Opening")
    [] OTHER ->
         LET f == ResetWriteState([e EXCEPT !.closing = FALSE]) IN
         IF ~d.valid THEN SetState(f, "Error")
         ELSE Become(Abort([SetState(f, "Opening") EXCEPT !.drop = TRUE, !.connectOn = TRUE]),
                     "Connecting")

OpenSerial(d, ok, k) ==
  IF d.sock = "Connected" THEN FlushPendingWrites(SetState(d, "Open"), k)
  ELSE LET e == ResetWriteState([d EXCEPT !.closing = FALSE]) IN
       IF ok THEN SetState([e EXCEPT !.sock = "Connected"], "Open") ELSE SetState(e, "Error")

\* UdpChannel::open(): a bind that fails leaves the state Opening.
OpenUdp(d, ok) ==
  IF d.sock = "Connected" THEN SetState(d, "Open")
  ELSE IF ok THEN SetState(Become(d, "Connected"), "Open") ELSE SetState(d, "Opening")

Closed(d) == SetState([d EXCEPT !.closing = FALSE], "Closed")

\* TcpChannel::close(): the linger timer bounds a graceful close that has to wait.
CloseTcp(d) ==
  LET e == [SetState(ResetWriteState(d), "Closing")
              EXCEPT !.writeOn = FALSE, !.connectOn = FALSE, !.drop = FALSE, !.closing = TRUE]
      f == IF d.sock \in {"Connected", "Connecting"} THEN DisconnectFromHost(e) ELSE e IN
  IF f.sock = "Unconnected" THEN Closed(f) ELSE [f EXCEPT !.lingerOn = TRUE]

CloseSerial(d) ==
  Closed([ResetWriteState(d) EXCEPT !.writeOn = FALSE, !.sock = "Unconnected", !.buf = <<>>])

CloseUdp(d) ==
  Closed(IF d.sock = "Unconnected" THEN d ELSE Become(Become(d, "Closing"), "Unconnected"))

-----------------------------------------------------------------------------
(* The slots *)

OnConnected(d, k) ==
  FlushPendingWrites(
    SetState([d EXCEPT !.connectOn = FALSE, !.closing = FALSE, !.drop = TRUE], "Open"), k)

\* onSocketError(): only a live attempt or session, or the drop of one, is an error.
OnSocketError(d) ==
  LET e == [d EXCEPT !.connectOn = FALSE] IN
  IF d.closing \/ ~(d.state \in {"Opening", "Open"} \/ (d.state = "Closed" /\ d.drop)) THEN e
  ELSE FailWith([e EXCEPT !.drop = FALSE])

\* Mutant of OnStateChanged: the end of a connection is left to onSocketError().
OnStateChangedDeaf(d, s, k) ==
  IF d.state = "Error" THEN d
  ELSE CASE s = "Connected"     -> FlushPendingWrites(SetState(d, "Open"), k)
         [] s = "Unconnected"   -> Abort(d)
         [] s = "Connecting"    -> SetState(d, "Opening")
         [] s = "Closing"       -> SetState(d, "Closing")

\* TcpChannel::onStateChanged(): Error is left alone.
OnStateChanged(d, s, k) ==
  IF d.state = "Error" THEN d
  ELSE CASE s = "Connected"     -> FlushPendingWrites(SetState(d, "Open"), k)
         [] s = "Unconnected"   -> Closed(Abort([ResetWriteState(d) EXCEPT !.writeOn = FALSE,
                                                                          !.lingerOn = FALSE]))
         [] s = "Connecting"    -> SetState(d, "Opening")
         [] s = "Closing"       -> SetState(d, "Closing")

\* SerialChannel::onErrorOccurred()
OnSerialError(d) == IF d.closing THEN d ELSE FailWith(d)

\* UdpChannel::onStateChanged()
OnUdpStateChanged(d, s) ==
  IF d.closing THEN d
  ELSE CASE s = "Unconnected" -> SetState(d, "Closed")
         [] s = "Connected"   -> SetState(d, "Open")
         [] OTHER             -> d

Handle(d, e, ok, k) ==
  CASE e.kind = "open"  -> IF d.kind = "tcp" THEN OpenTcp(d, k)
                           ELSE IF d.kind = "serial" THEN OpenSerial(d, ok, k) ELSE OpenUdp(d, ok)
    [] e.kind = "close" -> IF d.kind = "tcp" THEN CloseTcp(d)
                           ELSE IF d.kind = "serial" THEN CloseSerial(d) ELSE CloseUdp(d)
    [] e.kind = "write" -> Write([d EXCEPT !.writes = @ + 1], d.writes + 1, k)
    [] e.kind = "connected"    -> OnConnected(d, k)
    [] e.kind = "bytesWritten" -> OnBytesWritten(d, k)
    [] e.kind = "writeTimeout" -> OnWriteTimeout(d)
    [] e.kind = "error"        -> IF d.kind = "tcp" THEN OnSocketError(d)
                                  ELSE IF d.kind = "serial" THEN OnSerialError(d) ELSE d
    [] e.kind = "stateChanged" -> IF d.kind = "tcp" THEN OnStateChanged(d, e.sock, k)
                                  ELSE OnUdpStateChanged(d, e.sock)

\* The thread takes its next event.
RunEvent ==
  /\ c.queue # <<>>
  /\ \E ok \in BOOLEAN, k \in -1..FrameSize :
       c' = Handle([c EXCEPT !.queue = Tail(@)], Head(c.queue), ok, k)

-----------------------------------------------------------------------------
(* Callers on other threads *)

MayCall == c.calls < MaxCalls /\ Len(c.queue) <= MaxWaiting

CallOpen == MayCall /\ c' = Post([c EXCEPT !.calls = @ + 1], <<Signal("open")>>)

\* close() clears socketDropIsError_ at once.
CallClose ==
  /\ MayCall
  /\ c' = Post([c EXCEPT !.calls = @ + 1, !.drop = FALSE], <<Signal("close")>>)

CallWrite ==
  /\ c.writes + Len(SelectSeq(c.queue, LAMBDA e : e.kind = "write")) < MaxWrites
  /\ Len(c.queue) <= MaxWaiting
  /\ c' = Post(c, <<Signal("write")>>)

(* The timers *)

ConnectTimeout ==
  /\ c.connectOn
  /\ c' = SetState(Abort([c EXCEPT !.connectOn = FALSE, !.drop = FALSE]), "Error")

LingerTimeout ==
  /\ c.lingerOn /\ c' = Closed(Abort([c EXCEPT !.lingerOn = FALSE, !.drop = FALSE]))

WriteTimer == c.writeOn /\ c' = Post([c EXCEPT !.writeOn = FALSE], <<Signal("writeTimeout")>>)

(* The network *)

Established ==
  /\ c.sock = "Connecting"
  /\ LET d == Post(Become(c, "Connected"), <<Signal("connected")>>) IN
     c' = IF c.pendingClose THEN DisconnectFromHost([d EXCEPT !.pendingClose = FALSE]) ELSE d

\* The order of the two signals depends on the platform.
Refused ==
  /\ c.sock = "Connecting"
  /\ LET d == [c EXCEPT !.sock = "Unconnected", !.pendingClose = FALSE] IN
     \/ c' = Post(d, <<SC("Unconnected"), Signal("error")>>)
     \/ c' = Post(d, <<Signal("error"), SC("Unconnected")>>)

\* The device sends what it holds; a close that waits for the last byte completes.
Transmit ==
  /\ c.buf # <<>>
  /\ LET d == Post([c EXCEPT !.buf = <<>>, !.wire = @ \cup ToSet(c.buf)],
                   <<Signal("bytesWritten")>>) IN
     c' = IF c.sock = "Closing" THEN Become(d, "Unconnected") ELSE d

\* The peer goes away, or the serial device reports an error and stays open.
Drop ==
  /\ c.sock = "Connected" /\ c.kind # "udp" /\ c.drops < MaxDrops
  /\ LET d == [c EXCEPT !.drops = @ + 1] IN
     IF c.kind = "serial" THEN c' = Post(d, <<Signal("error")>>)
     ELSE \/ c' = Abort(Post(d, <<Signal("error")>>))
          \/ c' = Post(Abort(d), <<Signal("error")>>)

-----------------------------------------------------------------------------
IoInit ==
  \E kind \in ChannelKinds, valid \in BOOLEAN :
    c = [kind |-> kind, valid |-> valid \/ kind # "tcp", state |-> "Closed", closing |-> FALSE, drop |-> FALSE,
         pending |-> <<>>, offset |-> 0, connectOn |-> FALSE, lingerOn |-> FALSE,
         writeOn |-> FALSE, tx |-> {}, sock |-> "Unconnected", buf |-> <<>>,
         pendingClose |-> FALSE, queue |-> <<>>, wire |-> {}, calls |-> 0, writes |-> 0, drops |-> 0]

IoNext ==
  \/ RunEvent \/ CallOpen \/ CallClose \/ CallWrite \/ ConnectTimeout \/ LingerTimeout
  \/ WriteTimer \/ Established \/ Refused \/ Transmit \/ Drop

\* The thread runs its loop, its timers fire, and the operating system ends a
\* connection attempt; no peer has to take what is sent to it.
IoFairness ==
  /\ WF_ioVars(RunEvent) /\ WF_ioVars(ConnectTimeout) /\ WF_ioVars(LingerTimeout)
  /\ WF_ioVars(Established \/ Refused)

IoSpec == IoInit /\ [][IoNext]_ioVars /\ IoFairness

-----------------------------------------------------------------------------
(* Properties *)

Quiet == c.queue = <<>> /\ ~c.connectOn /\ ~c.lingerOn

\* When every late signal has been handled, the state and the device agree,
\* whatever opens, closes, timeouts and losses overtook each other: what says Open
\* is connected and hears its errors, what is connected says Open or Error, and
\* what is not says Closed or Error (a UDP bind that failed apart).
QuietAgrees ==
  Quiet => /\ c.state = "Open" => c.sock = "Connected" /\ ~c.closing
           /\ c.sock = "Connected" => c.state \in {"Open", "Error"}
           /\ c.sock = "Unconnected" /\ c.kind # "udp" => c.state \in {"Closed", "Error"}

\* A TCP or serial channel is never stranded on its way: Opening and Closing end,
\* also when the peer neither answers nor takes what is left to send.
TransientEnds ==
  (c.kind # "udp" /\ c.state \in {"Opening", "Closing"}) ~> (c.state \in {"Open", "Closed", "Error"})

\* A frame counted as sent while the connection stands has left the device whole.
SentIsOnWire ==
  [][c'.sock = "Connected" =>
       \A frame \in c'.tx \ c.tx : \A i \in 1..FrameSize : Chunk(frame, i) \in c'.wire]_ioVars

\* Error is left only by open() and close().
ErrorIsSticky ==
  [][c.state = "Error" /\ c'.state # "Error" =>
       c.queue # <<>> /\ Head(c.queue).kind \in {"open", "close"}]_ioVars

=============================================================================
