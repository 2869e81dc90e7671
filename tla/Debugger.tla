------------------------------- MODULE Debugger -------------------------------
(***************************************************************************)
(* The network and serial debuggers: the view (NetworkDebuggerView.cpp,    *)
(* SerialDebuggerView.cpp on GenericChannelViewBase.cpp), its              *)
(* ChannelController, and the ChannelOperationWorker that owns the channel *)
(* on a thread of its own.  The channel is a state that moves the ways     *)
(* IoChannels moves it.  The network page has one isConnected_ for its     *)
(* client, UDP and server pages: what the server writes into it is an      *)
(* action of the environment here, and the server itself, with the client  *)
(* list that a change of page clears, is in ServerClients.                 *)
(***************************************************************************)
EXTENDS Integers, Sequences, SequencesExt

CONSTANTS
  MaxOpens,     \* bound: connection attempts
  MaxSends,     \* bound: frames sent
  MaxCloses,    \* bound: disconnects
  MaxMoves      \* bound: changes of protocol, losses, late signals, reports of the server

VARIABLES
  panel,       \* the view: protocol, isConnected_, connectionGeneration_, the display
               \* state of each widget, which attempt it shows, and whether the
               \* server's page has been shown
  toWorker,    \* calls queued to the worker
  io,          \* ChannelOperationWorker: channelGeneration_ and the channel
  toPanel,     \* state changes queued to the view
  tally        \* history: sends, disconnects and losses so far, the frames sent (which attempt
               \* for and on), and whether the protocol changed after an attempt or the
               \* server wrote isConnected_

debuggerVars == <<panel, toWorker, io, toPanel, tally>>

Protocols == {"tcp", "udp", "serial"}    \* of a channel; the view has the page "server" too
NetworkPages == {"tcp", "udp", "server"}
NoChannel == [state |-> "none", attempt |-> 0, kind |-> "tcp"]
WorkerCall(kind) == [kind |-> kind, generation |-> 0, attempt |-> 0, proto |-> "tcp"]

-----------------------------------------------------------------------------
(* The user *)

PostCall(call) == toWorker' = Append(toWorker, call)

\* onProtocolChanged() and switchToProtocol(), on the network page, while not connected;
\* during an attempt too.  The widgets keep what they display.
ChangeProtocol ==
  /\ panel.proto \in NetworkPages /\ ~panel.connected /\ tally.moves < MaxMoves
  /\ \E p \in NetworkPages \ {panel.proto} :
       panel' = [panel EXCEPT !.proto = p, !.served = @ \/ p = "server"]
  /\ tally' = [tally EXCEPT !.moves = @ + 1, !.crossed = @ \/ panel.attempt > 0]
  /\ UNCHANGED <<toWorker, io, toPanel>>

\* The widget onWorkerStateChanged() writes: on the server's page, too, it is the UDP one.
Widget(proto) == IF proto = "server" THEN "udp" ELSE proto
Displayed == panel.display[Widget(panel.proto)]

\* onServerStateChanged(), once the user may have started the server: it writes isConnected_
\* whatever page is shown.
ServerReports ==
  /\ panel.served /\ tally.moves < MaxMoves
  /\ \E open \in BOOLEAN : panel' = [panel EXCEPT !.connected = open, !.shows = 0]
  /\ tally' = [tally EXCEPT !.moves = @ + 1, !.crossed = TRUE]
  /\ UNCHANGED <<toWorker, io, toPanel>>

\* onConnectClicked() and, without a generation of its own, onBindClicked(): the button of a
\* widget that displays Disconnected.
Connect ==
  /\ panel.proto \in Protocols /\ Displayed = "Disconnected" /\ panel.attempt < MaxOpens
  /\ LET g == panel.generation + (IF panel.proto = "udp" THEN 0 ELSE 1)
         n == panel.attempt + 1 IN
     /\ panel' = [panel EXCEPT !.generation = g, !.attempt = n, !.display[panel.proto] = "Connecting"]
     /\ PostCall([kind |-> "open", generation |-> g, attempt |-> n, proto |-> panel.proto])
  /\ UNCHANGED <<io, toPanel, tally>>

\* onDisconnectClicked(), onUnbindClicked()
Disconnect ==
  /\ panel.proto \in Protocols /\ Displayed \in {"Connecting", "Connected"}
  /\ tally.closes < MaxCloses /\ tally' = [tally EXCEPT !.closes = @ + 1]
  /\ panel' = IF panel.proto = "udp" THEN [panel EXCEPT !.display["udp"] = "Disconnecting"] ELSE panel
  /\ PostCall(WorkerCall("close"))
  /\ UNCHANGED <<io, toPanel>>

\* onSendRequested(): the button at any time, or the auto-send timer.
Send ==
  /\ panel.proto \in Protocols /\ panel.connected /\ tally.sends < MaxSends
  /\ PostCall([WorkerCall("write") EXCEPT !.attempt = panel.shows])
  /\ tally' = [tally EXCEPT !.sends = @ + 1]
  /\ UNCHANGED <<panel, io, toPanel>>

-----------------------------------------------------------------------------
(* The worker's thread *)

\* setState() calls the worker's handler, if it is installed.
Emits(states, generation, attempt) ==
  toPanel \o [i \in 1..Len(states) |->
                [state |-> states[i], generation |-> generation, attempt |-> attempt]]

\* write(): a channel that is not open is an error.
RunWrite(call) ==
  IF io.channel.state = "Open"
  THEN tally' = [tally EXCEPT !.sent = @ \cup {<<call.attempt, io.channel.attempt>>}]
  ELSE UNCHANGED tally

\* cleanupChannel() takes the old channel's handler away, then open*(); udp keeps the
\* generation.  Opening alone: TCP goes on, or a UDP bind failed.
RunOpen(call) ==
  \E states \in {<<"Opening">>, <<"Opening", "Open">>, <<"Error">>, <<"Opening", "Error">>} :
    LET g == IF call.proto = "udp" THEN io.generation ELSE call.generation IN
    /\ call.proto = "udp"    => states \in {<<"Opening">>, <<"Opening", "Open">>}
    /\ call.proto = "tcp"    => states \in {<<"Opening">>, <<"Error">>}
    /\ call.proto = "serial" => states # <<"Opening">>
    /\ io' = [generation |-> g,
              channel |-> [state |-> Last(states), attempt |-> call.attempt, kind |-> call.proto]]
    /\ toPanel' = Emits(states, g, call.attempt)

RunClose ==
  LET ch == io.channel
      gone == [io EXCEPT !.channel.state = "Closed"]
      going == [io EXCEPT !.channel.state = "Closing"]
      first == IF ch.state = "Closing" THEN <<>> ELSE <<"Closing">> IN
  IF ch.state = "none" THEN UNCHANGED <<io, toPanel>>
  ELSE \/ io' = gone  /\ toPanel' = Emits(first \o <<"Closed">>, io.generation, ch.attempt)
       \/ /\ ch.kind = "tcp" /\ ch.state \in {"Opening", "Open"}
          /\ io' = going /\ toPanel' = Emits(<<"Closing">>, io.generation, ch.attempt)

RunCall ==
  /\ toWorker # <<>> /\ toWorker' = Tail(toWorker)
  /\ LET call == Head(toWorker) IN
     \/ call.kind = "open"  /\ RunOpen(call) /\ UNCHANGED tally
     \/ call.kind = "close" /\ RunClose /\ UNCHANGED tally
     \/ /\ call.kind = "write" /\ UNCHANGED <<io, toPanel>>
        /\ RunWrite(call)
  /\ UNCHANGED panel

MoveTo(s) ==
  /\ io' = [io EXCEPT !.channel.state = s]
  /\ toPanel' = Emits(<<s>>, io.generation, io.channel.attempt)
  /\ UNCHANGED <<panel, toWorker>>

\* A TCP attempt ends, and a close that waited.
ChannelEnds ==
  /\ \/ io.channel.kind = "tcp" /\ io.channel.state = "Opening" /\ (MoveTo("Open") \/ MoveTo("Error"))
     \/ io.channel.state = "Closing" /\ MoveTo("Closed")
  /\ UNCHANGED tally

\* The connection is lost, in one of the orders of IoChannels; a signal that was
\* late takes Error back to Open.
ChannelMoves ==
  /\ tally.moves < MaxMoves /\ tally' = [tally EXCEPT !.moves = @ + 1]
  /\ \/ io.channel.state = "Open" /\ io.channel.kind # "udp" /\ MoveTo("Error")
     \/ io.channel.kind = "tcp"
        /\ \/ io.channel.state = "Open"   /\ MoveTo("Closing")
           \/ io.channel.state = "Closed" /\ MoveTo("Error")
           \/ io.channel.state = "Error"  /\ MoveTo("Open")

-----------------------------------------------------------------------------
(* The view hears of it *)

Display(state) ==
  CASE state = "Opening" -> "Connecting"
    [] state = "Open"    -> "Connected"
    [] state = "Closing" -> "Disconnecting"
    [] OTHER             -> "Disconnected"

\* onWorkerStateChanged() of a state of the current generation; the alert of a lost
\* connection and the auto-send timer, which it stops, have no state here.
Show(e) ==
  LET open == e.state = "Open" IN
  panel' = [panel EXCEPT !.connected = open, !.display[Widget(panel.proto)] = Display(e.state),
                         !.shows = IF open THEN e.attempt ELSE 0]

\* Mutant of Hear: every state is the current channel's.
HearAll ==
  /\ toPanel # <<>> /\ toPanel' = Tail(toPanel)
  /\ Show(Head(toPanel))
  /\ UNCHANGED <<toWorker, io, tally>>

Hear ==
  /\ toPanel # <<>> /\ toPanel' = Tail(toPanel)
  /\ IF Head(toPanel).generation = panel.generation THEN Show(Head(toPanel))
     ELSE UNCHANGED panel
  /\ UNCHANGED <<toWorker, io, tally>>

-----------------------------------------------------------------------------
DebuggerInit ==
  /\ \E proto \in {"tcp", "serial"} :
       panel = [proto |-> proto, connected |-> FALSE, generation |-> 0, attempt |-> 0, shows |-> 0,
                display |-> [widget \in Protocols |-> "Disconnected"], served |-> FALSE]
  /\ toWorker = <<>> /\ toPanel = <<>>
  /\ io = [generation |-> 0, channel |-> NoChannel]
  /\ tally = [sends |-> 0, closes |-> 0, moves |-> 0, sent |-> {}, crossed |-> FALSE]

DebuggerNext ==
  \/ ChangeProtocol \/ ServerReports \/ Connect \/ Disconnect \/ Send
  \/ RunCall \/ ChannelEnds \/ ChannelMoves \/ Hear

DebuggerSpec == DebuggerInit /\ [][DebuggerNext]_debuggerVars

\* Both threads run their loops, and a channel is not stranded (TransientEnds of IoChannels).
DebuggerFairness ==
  WF_debuggerVars(RunCall) /\ WF_debuggerVars(ChannelEnds) /\ WF_debuggerVars(Hear)

-----------------------------------------------------------------------------
(* Properties *)

\* What the view shows as connected is the attempt the user asked for last: no state of
\* a channel that has been replaced is taken for one of the new channel (the purpose of
\* cleanupChannel() and of connectionGeneration_).
ShowsLatest == panel.connected => panel.shows = panel.attempt

\* A frame goes out on the connection it was typed for, or not at all.
SentWhereTyped == \A pair \in tally.sent : pair[1] = pair[2]

\* A UDP attempt has no generation of its own: it shares that of the attempts before
\* it, other UDP ones or, after a change of protocol, a TCP one.  The server's reports have
\* none either.
EachHasGeneration == panel.proto # "udp" /\ ~tally.crossed

\* When the threads have nothing left to do, connected in the view is open in the worker.
DebuggerAgrees ==
  toWorker = <<>> /\ toPanel = <<>> => (panel.connected <=> io.channel.state = "Open")

\* The widget never stays on Connecting or Disconnecting.
DisplaySettles ==
  (panel.proto # "udp" /\ ~tally.crossed /\ Displayed \in {"Connecting", "Disconnecting"})
    ~> (panel.proto = "udp" \/ tally.crossed \/ Displayed \in {"Connected", "Disconnected"})

\* The debugger never mistakes one connection for another as long as each attempt has a
\* generation, and the view and the worker agree in the end, as long as the protocol
\* does not change after an attempt and the server writes nothing.
ConnectionsKeptApart ==
  /\ EachHasGeneration => ShowsLatest /\ SentWhereTyped
  /\ ~tally.crossed => DebuggerAgrees

=============================================================================
