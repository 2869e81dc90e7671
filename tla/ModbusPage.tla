------------------------------ MODULE ModbusPage ------------------------------
(***************************************************************************)
(* The Modbus page: ModbusPage, ModbusPagePresenter, ModbusSessionPresenter,*)
(* PollingController, RequestSubmissionService and AnalyzerLinkCoordinator *)
(* on the GUI thread, with the stack they drive on its own thread.         *)
(*                                                                         *)
(* The GUI objects call each other, so a handler is an operator on the     *)
(* whole of their state, a, and one step of the GUI thread is one handler. *)
(* What a stack emits is posted and handled later, in order; the state of  *)
(* its core and channel is read when the handler runs.  The alert about a  *)
(* lost connection is modal: its handler is suspended in it while posted   *)
(* events and timers go on.                                                *)
(*                                                                         *)
(* A generation only ever grows, so an event keeps whether it is of the    *)
(* present one instead of its number; a request id is used again once no   *)
(* queue holds it.  How a release ends is in WorkerRelease, how a session  *)
(* goes in ModbusSession: here a release completes and a session connects, *)
(* fails, is lost, heals and answers.                                      *)
(***************************************************************************)
EXTENDS Integers, Sequences, FiniteSets

CONSTANTS
  Modes,      \* the session modes the protocol combo offers
  NoMode,
  Ids,        \* the request ids in use at a time
  MaxPosted,  \* how far the stack may get ahead of the GUI thread
  MaxAlerts,  \* alerts open at a time
  MaxClicks,  \* what the user does
  MaxLosses   \* connections lost

\* The page opens with Tcp.
ASSUME ModesAssumption ==
  "Tcp" \in Modes /\ Modes \subseteq {"Tcp", "Rtu", "Ascii"} /\ NoMode \notin Modes
ASSUME BoundsAssumption == {MaxPosted, MaxAlerts, MaxClicks, MaxLosses} \subseteq Nat

VARIABLES
  app,    \* the objects of the GUI thread and what is posted to it
  stack,  \* the live stack, on its own thread
  clicks, losses

vars == <<app, stack, clicks, losses>>

NoStack == [core |-> "Disconnected", channel |-> "Closed", attempt |-> "none", held |-> <<>>]

WidgetOf(m) == IF m = "Tcp" THEN "tcp" ELSE "serial"

-----------------------------------------------------------------------------
(* Posted events *)

\* Mutant of SessionEvent: the generation is captured before it is counted up.
EarlierEvent(e, id, arg) == [e |-> e, fresh |-> FALSE, id |-> id, arg |-> arg]

\* An event of the live stack carries the generation it was wired with.
SessionEvent(e, id, arg) == [e |-> e, fresh |-> TRUE, id |-> id, arg |-> arg]
PageEvent(e, arg) == [e |-> e, fresh |-> TRUE, id |-> 0, arg |-> arg]

ChannelEvents(states) == [i \in DOMAIN states |-> SessionEvent("channel", 0, states[i])]
ConnectFinished(ok) == SessionEvent("connectFinished", 0, IF ok THEN "ok" ELSE "failed")
RequestFinished(id, ok) == SessionEvent("requestFinished", id, IF ok THEN "ok" ELSE "failed")

\* ++connectionGeneration_: what the stack has posted so far is of an older one.
Stale(events) ==
  [i \in DOMAIN events |->
     IF events[i].e \in {"channel", "connectFinished", "requestFinished"}
     THEN [events[i] EXCEPT !.fresh = FALSE] ELSE events[i]]

Post(a, e) == [a EXCEPT !.posted = Append(@, e)]

-----------------------------------------------------------------------------
(* The widgets *)

\* syncConnectionWidget()
Display(a, s) ==
  [a EXCEPT !.display[WidgetOf(a.mode)] = IF s = "TransportConnected" THEN "Connected" ELSE s]

\* syncWidgetGuards(): only Connected and Disconnected are ever passed to it.
SyncGuards(a, s) ==
  IF a.guards = s THEN a
  ELSE [a EXCEPT !.guards = s, !.pollBox = @ /\ s = "Connected"]

-----------------------------------------------------------------------------
(* AnalyzerLinkCoordinator *)

\* transitionTo() and applyState(): the page, the session and the box follow.
LinkTo(a, s) ==
  [a EXCEPT !.link = s, !.buffered = @ /\ s # "Idle",
            !.pageLinked = s # "Idle", !.linked = s # "Idle", !.linkBox = s # "Idle"]

\* handleLiveData()
LinkData(a) ==
  IF a.link = "Idle" THEN a ELSE [a EXCEPT !.buffered = a.link = "Paused"]

-----------------------------------------------------------------------------
(* PollingController *)

NoPoll == [state |-> "Idle", timer |-> FALSE, valid |-> TRUE, inFlight |-> FALSE,
           connected |-> FALSE, errors |-> 0, fault |-> FALSE, fatal |-> FALSE]

\* Mutant of StopPoll: the poll in flight is still waited for.
StopTimerOnly(a) ==
  [a EXCEPT !.poll = [NoPoll EXCEPT !.connected = a.poll.connected, !.inFlight = a.poll.inFlight],
            !.pollBox = FALSE]

\* stopPoll(): the page unchecks the box on stopRequested.
StopPoll(a) ==
  [a EXCEPT !.poll = [NoPoll EXCEPT !.connected = a.poll.connected, !.valid = a.poll.valid],
            !.pollBox = FALSE]

\* reset(), with clearAll() of the request service.
ResetPoll(a) == [StopPoll(a) EXCEPT !.polls = {}, !.reads = {}]

\* setSessionConnectedInternal()
PollSession(a, connected, stop) ==
  LET p == [a.poll EXCEPT !.connected = connected, !.fault = ~connected,
                          !.fatal = @ /\ ~connected]
      b == [a EXCEPT !.poll = p] IN
  IF ~connected /\ stop /\ (a.poll.inFlight \/ a.poll.state # "Idle") THEN StopPoll(b) ELSE b

\* sessionDisconnected, as the polling controller and the page take it.
SessionDisconnected(a) == SyncGuards(PollSession(a, FALSE, TRUE), "Disconnected")

SessionConnected(a) == SyncGuards(PollSession(a, TRUE, FALSE), "Connected")

\* buildAndSubmit(): a request the PDU builder refuses changes nothing.
BuildAndSubmit(a, id) ==
  IF ~a.poll.valid THEN a
  ELSE LET p == [a.poll EXCEPT !.inFlight = TRUE,
                               !.state = IF @ = "Idle" THEN "Polling" ELSE @] IN
       [a EXCEPT !.poll = p, !.polls = @ \cup {id}, !.submit = <<id>>]

\* startPolling()
StartPolling(a, valid, id) ==
  LET b == [a EXCEPT !.poll = [a.poll EXCEPT !.valid = valid, !.timer = TRUE]] IN
  IF ~a.poll.inFlight /\ (a.poll.connected \/ a.poll.state # "Idle")
  THEN BuildAndSubmit(b, id) ELSE b

PollSucceeded(p) ==
  [p EXCEPT !.inFlight = FALSE, !.errors = 0, !.fault = FALSE, !.fatal = FALSE,
            !.state = IF @ \in {"Degraded", "Escalated"} THEN "Polling" ELSE @]

\* A first failure never escalates by itself (the threshold is at least two, and
\* its streak begins with it); a connection fault always does.
PollFailed(p, escalates) ==
  LET up == ~p.connected \/ (escalates /\ p.errors > 0) IN
  [p EXCEPT !.inFlight = FALSE, !.errors = IF @ < 2 THEN @ + 1 ELSE @,
            !.state = IF up THEN "Escalated" ELSE IF @ = "Polling" THEN "Degraded" ELSE @]

\* The fault has outlived the self-healing window.
PollIsFatal(p, late) ==
  ~p.connected /\ p.state = "Escalated" /\ ~p.fatal /\ p.fault /\ late

-----------------------------------------------------------------------------
(* ModbusSessionPresenter *)

StackReleased(a) ==
  IF a.watching THEN Post([a EXCEPT !.watching = FALSE], PageEvent("teardown", "")) ELSE a

\* Mutant of MaybeRunDeferred: left to the next connect.
ForgetDeferred(a) == a

MaybeRunDeferred(a) ==
  IF a.releases = 0 /\ a.deferred # NoMode
  THEN Post([a EXCEPT !.deferred = NoMode], PageEvent("runDeferred", a.deferred)) ELSE a

\* onConnectionStateChanged()
SetUi(a, s) ==
  Display([a EXCEPT !.ui = s,
             !.explicit = CASE s \in {"Connecting", "Connected"} -> FALSE
                            [] s = "Disconnecting" -> TRUE
                            [] OTHER -> @], s)

\* What a stack may still emit while it is being released.
Remains ==
  (IF stack.attempt = "connect" THEN <<ConnectFinished(FALSE)>> ELSE <<>>)
    \o [i \in DOMAIN stack.held |-> RequestFinished(stack.held[i], FALSE)]

HandOver(a) ==
  [Display(a, "Disconnecting") EXCEPT
     !.live = FALSE, !.releases = @ + 1, !.leaving = @ \o Stale(Remains)]

\* Mutant of RequestRelease: linkageSourceDisconnected is not emitted.
ReleaseUnlinked(a) ==
  LET b == [SetUi([ResetPoll(a) EXCEPT !.posted = Stale(@), !.explicit = TRUE], "Disconnected")
              EXCEPT !.linked = FALSE, !.linkBox = FALSE] IN
  IF ~a.live THEN MaybeRunDeferred(StackReleased(b))
  ELSE HandOver(b)

\* requestRelease(): the stack is handed to the coordinator; with nothing live
\* stackReleased is emitted at once.
RequestRelease(a) ==
  LET b == [SetUi([ResetPoll(a) EXCEPT !.posted = Stale(@), !.explicit = TRUE], "Disconnected")
              EXCEPT !.linked = FALSE, !.linkBox = FALSE]
      c == IF a.linked THEN LinkTo(b, "Idle") ELSE b IN
  IF ~a.live THEN MaybeRunDeferred(StackReleased(c))
  ELSE HandOver(c)

ReleaseStack(a) == RequestRelease([a EXCEPT !.deferred = NoMode])

RequestDisconnect(a) == RequestRelease(SetUi([a EXCEPT !.deferred = NoMode], "Disconnecting"))

\* startConnect(), startTcpConnect() and startSerialConnect(): a stack that is
\* live is replaced.
StartConnect(a, m) ==
  [SetUi(a, "Connecting") EXCEPT
     !.live = TRUE, !.started = m,
     !.leaving = IF a.live THEN @ \o Remains ELSE @]

\* requestConnect(), behind the page's guard against a second click.
RequestConnect(a, m) ==
  IF a.ui = "Connecting" THEN a
  ELSE IF a.live \/ a.releases > 0 THEN RequestRelease([a EXCEPT !.deferred = m])
  ELSE StartConnect(a, m)

\* deriveUiState()
DeriveUi(mode) ==
  CASE stack.core = "Connecting" /\ mode = "Tcp" /\ stack.channel = "Open" -> "TransportConnected"
    [] stack.core = "Failed" -> "Disconnected"
    [] OTHER -> stack.core

\* syncStateFromCore()
SyncFromCore(a) ==
  IF ~a.live \/ DeriveUi(a.mode) = a.ui THEN a ELSE SetUi(a, DeriveUi(a.mode))

\* The rest of handleChannelStateTransition() for a dead session, once the alert
\* is closed.
ReportLoss(a) ==
  IF a.explicit THEN SessionDisconnected(StopPoll(a)) ELSE PollSession(a, FALSE, FALSE)

Established(ui) == ui \in {"Connected", "TransportConnected"}

\* handleChannelStateTransition()
HandleChannelState(a, s) ==
  LET b == SyncFromCore(a) IN
  CASE s = "Opening" -> IF b.ui # "Connected" THEN Display(b, "Connecting") ELSE b
    [] s = "Closing" -> Display(b, "Disconnecting")
    [] s \in {"Closed", "Error"} /\ Established(a.ui) ->
         IF a.mode = "Tcp" /\ a.ui = "Connected" /\ ~b.explicit
         THEN [b EXCEPT !.alerts = @ + 1] ELSE ReportLoss(b)
    [] OTHER -> b

\* handleConnectFinished()
HandleConnectFinished(a, ok) ==
  LET b == SyncFromCore(a) IN
  IF ok THEN SessionConnected(b)
  ELSE ReleaseStack(SessionDisconnected(StopPoll(b)))

-----------------------------------------------------------------------------
(* ModbusPagePresenter *)

\* ensureConnected()
SessionIsConnected(a) == Established(a.ui)

\* handleRequestFinished(), here and in the session presenter.
HandleRequestFinished(a, id, ok, escalates, late) ==
  LET b == [SyncFromCore(a) EXCEPT !.polls = @ \ {id}, !.reads = @ \ {id}]
      p == PollFailed(b.poll, escalates)
      linkage(c) == IF c.pageLinked THEN LinkData(c) ELSE c IN
  CASE id \notin a.polls \cup a.reads -> b
    [] id \in a.reads -> IF ok THEN linkage(b) ELSE b
    [] id \in a.polls \ a.reads /\ ok -> linkage([b EXCEPT !.poll = PollSucceeded(b.poll)])
    [] OTHER -> IF PollIsFatal(p, late)
                THEN RequestDisconnect([b EXCEPT !.poll = [p EXCEPT !.fatal = TRUE]])
                ELSE [b EXCEPT !.poll = p]

\* createServices() for a mode, on the widgets as they are.
FreshServices(a, m) ==
  [Display([a EXCEPT !.mode = m, !.ui = "Disconnected"], "Disconnected") EXCEPT
     !.explicit = FALSE, !.deferred = NoMode, !.linked = FALSE, !.live = FALSE,
     !.releases = 0, !.watching = FALSE, !.polls = {}, !.reads = {},
     !.poll = [NoPoll EXCEPT !.fault = TRUE],
     !.pageLinked = FALSE, !.linkBox = FALSE, !.guards = "Disconnected", !.pollBox = FALSE]

\* The queued teardown of a switch: the session presenter releases what is live
\* as it is destroyed, and its events and its coordinator go with it.  What the
\* page has posted to itself would stay: it is this teardown and no other.
Teardown(a) ==
  [FreshServices(RequestRelease(a), a.pending) EXCEPT !.posted = <<>>, !.leaving = <<>>]

\* switchMode(): nothing to do when the presenter has the mode already.
SwitchMode(a, m) ==
  IF m = a.mode THEN a
  ELSE LET b == [a EXCEPT !.pending = m, !.watching = TRUE] IN
       IF SessionIsConnected(a) THEN RequestDisconnect(b) ELSE ReleaseStack(b)

-----------------------------------------------------------------------------
(* The GUI thread *)

\* A handler has turned the GUI objects from app into a.  The stack follows: a
\* new one, one handed over, or the live one with a request submitted.
Becomes(a) ==
  /\ app' = [a EXCEPT !.submit = <<>>, !.started = NoMode]
  /\ stack' = CASE a.started # NoMode -> [NoStack EXCEPT !.attempt = "connect"]
                [] a.started = NoMode /\ ~a.live -> NoStack
                [] OTHER -> [stack EXCEPT !.held = @ \o a.submit]

\* The user does something, unless an alert is open.  What a handler has posted
\* to the GUI thread itself is delivered before input is taken.
User ==
  /\ app.alerts = 0
  /\ \A i \in DOMAIN app.posted : app.posted[i].e \notin {"runDeferred", "teardown"}
  /\ clicks < MaxClicks /\ clicks' = clicks + 1 /\ UNCHANGED losses

Unbidden == UNCHANGED <<clicks, losses>>

ShownDisplay == app.display[WidgetOf(app.shown)]

\* connectClicked: the widget that is shown asks for the protocol that is shown.
ClickConnect ==
  /\ User /\ ShownDisplay = "Disconnected"
  /\ Becomes(RequestConnect(app, app.shown))

ClickDisconnect ==
  /\ User /\ ShownDisplay \in {"Connecting", "Connected"}
  /\ Becomes(RequestDisconnect(app))

\* switchToProtocol(): both boxes are unchecked with the new settings group.
SwitchToProtocol ==
  /\ User
  /\ \E m \in Modes \ {app.shown} :
       Becomes(SwitchMode([app EXCEPT !.shown = m, !.pollBox = FALSE, !.linkBox = FALSE], m))

InUse ==
  LET answers(q) == {q[i].id : i \in DOMAIN q}
      held == {stack.held[i] : i \in DOMAIN stack.held} IN
  app.polls \cup app.reads \cup held \cup answers(app.posted) \cup answers(app.leaving)

\* nextRequestId()
NewId(id) == id \in Ids \ InUse

\* readRequested, writeRequested
ClickRequest ==
  /\ User /\ app.guards = "Connected" /\ SessionIsConnected(app)
  /\ \E id \in Ids : NewId(id) /\ Becomes([app EXCEPT !.reads = @ \cup {id}, !.submit = <<id>>])

\* enablePollCheck_, and a parameter changed while it is checked.
StartPoll ==
  /\ User /\ (app.guards = "Connected" \/ app.pollBox)
  /\ \/ /\ ~SessionIsConnected(app)
        /\ Becomes([app EXCEPT !.pollBox = FALSE])
     \/ /\ SessionIsConnected(app)
        /\ \E id \in Ids, valid \in BOOLEAN :
             NewId(id) /\ Becomes(StartPolling([app EXCEPT !.pollBox = TRUE], valid, id))

ClickPollOff ==
  /\ User /\ app.pollBox /\ app.guards = "Connected"
  /\ Becomes(StopPoll(app))

\* linkToggled
ToggleLink ==
  /\ User
  /\ Becomes(LinkTo(app, IF app.linkBox THEN "Idle" ELSE "Live"))

\* linkagePauseToggled and linkageStopRequested of the analyzer.
PauseLink ==
  /\ User /\ app.link = "Live"
  /\ Becomes(LinkTo(app, "Paused"))

ResumeLink ==
  /\ User /\ app.link = "Paused"
  /\ Becomes([LinkTo(app, "Live") EXCEPT !.buffered = FALSE])

StopLink == User /\ app.link # "Idle" /\ Becomes(LinkTo(app, "Idle"))

\* onPollTimerTick()
PollTick ==
  /\ Unbidden
  /\ app.poll.timer /\ app.poll.state # "Idle" /\ ~app.poll.inFlight /\ app.poll.connected
  /\ \E id \in Ids : NewId(id) /\ Becomes(BuildAndSubmit(app, id))

\* The user closes the alert: its handler goes on where it stood.
CloseAlert ==
  /\ Unbidden
  /\ app.alerts > 0
  /\ Becomes(ReportLoss([app EXCEPT !.alerts = @ - 1]))

\* Mutant of Handle: the generation is not compared.
HandleAnyGeneration(e, h) == Head(app.posted).e = e /\ Becomes(h)

\* An event of an older generation is dropped.
Handle(e, h) ==
  Head(app.posted).e = e
    /\ Becomes(IF Head(app.posted).fresh THEN h ELSE [app EXCEPT !.posted = Tail(@)])

Rest == [app EXCEPT !.posted = Tail(@)]

DeliverChannel ==
  /\ Unbidden
  /\ app.posted # <<>> /\ app.alerts < MaxAlerts
  /\ Handle("channel", HandleChannelState(Rest, Head(app.posted).arg))

DeliverConnectFinished ==
  /\ Unbidden
  /\ app.posted # <<>>
  /\ Handle("connectFinished", HandleConnectFinished(Rest, Head(app.posted).arg = "ok"))

DeliverRequestFinished ==
  /\ Unbidden
  /\ app.posted # <<>>
  /\ \E escalates, late \in BOOLEAN :
       Handle("requestFinished",
              HandleRequestFinished(Rest, Head(app.posted).id,
                                    Head(app.posted).arg = "ok", escalates, late))

\* The deferred connect; the presenter that posted it is still there.
DeliverRunDeferred ==
  /\ Unbidden
  /\ app.posted # <<>>
  /\ Handle("runDeferred", StartConnect(Rest, Head(app.posted).arg))

DeliverTeardown ==
  /\ Unbidden
  /\ app.posted # <<>>
  /\ Handle("teardown", Teardown(Rest))

\* onReleaseCompleted(): what the stack has not emitted by now it never will.
ReleaseCompletes ==
  /\ Unbidden
  /\ app.releases > 0
  /\ LET a == [app EXCEPT !.releases = @ - 1, !.leaving = IF app.releases = 1 THEN <<>> ELSE @]
         b == IF ~a.live /\ a.ui # "Connecting" THEN Display(a, "Disconnected") ELSE a IN
     Becomes(MaybeRunDeferred(StackReleased(b)))

-----------------------------------------------------------------------------
(* The stack's thread *)

Emit(events) == app' = [app EXCEPT !.posted = @ \o events]
InTime == Len(app.posted) < MaxPosted

\* ensureConnected(), for the connect asked for or for the next request.
AttemptStarts ==
  /\ Unbidden
  /\ app.live /\ InTime /\ stack.core \in {"Disconnected", "Failed"}
  /\ \/ stack.attempt = "connect"
     \/ stack.attempt = "none" /\ stack.held # <<>>
  /\ stack' = [stack EXCEPT !.core = "Connecting", !.channel = "Opening",
                            !.attempt = IF @ = "none" THEN "heal" ELSE @]
  /\ Emit(ChannelEvents(<<"Opening">>))

ChannelOpens ==
  /\ Unbidden
  /\ app.live /\ InTime /\ stack.channel = "Opening"
  /\ stack' = [stack EXCEPT !.channel = "Open"]
  /\ Emit(ChannelEvents(<<"Open">>))

AttemptSucceeds ==
  /\ Unbidden
  /\ app.live /\ InTime /\ stack.core = "Connecting" /\ stack.channel = "Open"
  /\ stack' = [stack EXCEPT !.core = "Connected", !.attempt = "none"]
  /\ Emit(IF stack.attempt = "connect" THEN <<ConnectFinished(TRUE)>> ELSE <<>>)

\* The open fails or times out; the request it was for fails with it.
AttemptFails ==
  /\ Unbidden
  /\ app.live /\ InTime /\ stack.core = "Connecting" /\ stack.channel = "Opening"
  /\ stack' = [stack EXCEPT !.core = "Failed", !.channel = "Closed", !.attempt = "none",
                            !.held = IF stack.attempt = "heal" THEN Tail(@) ELSE @]
  /\ \E states \in {<<"Error", "Closed">>, <<"Closed">>} :
       Emit(ChannelEvents(states)
              \o IF stack.attempt = "heal" THEN <<RequestFinished(Head(stack.held), FALSE)>>
                 ELSE <<ConnectFinished(FALSE)>>)

\* The client's state handler has moved the core before the event is handled.
ChannelLost ==
  /\ app.live /\ InTime /\ stack.core = "Connected" /\ losses < MaxLosses
  /\ losses' = losses + 1 /\ UNCHANGED clicks
  /\ stack' = [stack EXCEPT !.core = "Failed", !.channel = "Closed"]
  /\ \E states \in {<<"Error", "Closed">>, <<"Closed">>, <<"Closing", "Closed">>} :
       Emit(ChannelEvents(states))

RequestAnswered ==
  /\ Unbidden
  /\ app.live /\ InTime /\ stack.core = "Connected" /\ stack.held # <<>>
  /\ stack' = [stack EXCEPT !.held = Tail(@)]
  /\ \E ok \in BOOLEAN : Emit(<<RequestFinished(Head(stack.held), ok)>>)

\* A stack that is being released emits what it had still to answer.
LeavingEmits ==
  /\ Unbidden
  /\ app.leaving # <<>>
  /\ app' = [app EXCEPT !.posted = Append(@, Head(app.leaving)), !.leaving = Tail(@)]
  /\ UNCHANGED stack

-----------------------------------------------------------------------------

Init ==
  /\ stack = NoStack /\ clicks = 0 /\ losses = 0
  /\ app = [shown |-> "Tcp", mode |-> "Tcp", pending |-> "Tcp", watching |-> FALSE,
            guards |-> "Disconnected", pollBox |-> FALSE, linkBox |-> FALSE,
            pageLinked |-> FALSE, ui |-> "Disconnected", explicit |-> FALSE,
            deferred |-> NoMode, linked |-> FALSE, live |-> FALSE, releases |-> 0,
            poll |-> [NoPoll EXCEPT !.fault = TRUE], polls |-> {}, reads |-> {}, link |-> "Idle", buffered |-> FALSE,
            display |-> [tcp |-> "Disconnected", serial |-> "Disconnected"],
            posted |-> <<>>, leaving |-> <<>>, alerts |-> 0,
            submit |-> <<>>, started |-> NoMode]

UserActs ==
  \/ ClickConnect \/ ClickDisconnect \/ SwitchToProtocol \/ ClickRequest
  \/ StartPoll \/ ClickPollOff \/ ToggleLink \/ PauseLink \/ ResumeLink \/ StopLink

Deliver ==
  \/ DeliverChannel \/ DeliverConnectFinished \/ DeliverRequestFinished
  \/ DeliverRunDeferred \/ DeliverTeardown

Connecting == AttemptStarts \/ ChannelOpens \/ AttemptSucceeds \/ AttemptFails

Next ==
  \/ UserActs \/ Deliver \/ PollTick \/ CloseAlert \/ ReleaseCompletes
  \/ Connecting \/ ChannelLost \/ RequestAnswered \/ LeavingEmits

Spec == Init /\ [][Next]_vars

\* The GUI thread handles what is posted and its timers, a stack gets on with
\* what it was asked, a release completes, and nobody leaves an alert open.
FairSpec ==
  /\ Spec /\ WF_vars(Deliver) /\ WF_vars(PollTick) /\ WF_vars(CloseAlert)
  /\ WF_vars(ReleaseCompletes) /\ WF_vars(Connecting) /\ WF_vars(RequestAnswered)
  /\ WF_vars(LeavingEmits)
-----------------------------------------------------------------------------
(* Properties *)

UiStates == {"Disconnected", "Connecting", "TransportConnected", "Connected", "Disconnecting"}

TypeOK ==
  /\ app.ui \in UiStates /\ app.guards \in {"Disconnected", "Connected"}
  /\ {app.shown, app.mode, app.pending} \subseteq Modes /\ app.deferred \in Modes \cup {NoMode}
  /\ app.link \in {"Idle", "Live", "Paused"} /\ app.releases \in Nat
  /\ app.display \in [{"tcp", "serial"} -> UiStates \ {"TransportConnected"}]
  /\ app.poll.state \in {"Idle", "Polling", "Degraded", "Escalated"} /\ app.poll.errors \in 0..2
  /\ app.polls \cup app.reads \subseteq Ids /\ app.alerts \in 0..MaxAlerts
  /\ stack.core \in {"Disconnected", "Connecting", "Connected", "Failed"}
  /\ stack.channel \in {"Closed", "Opening", "Open"}
  /\ stack.attempt \in {"none", "connect", "heal"}

\* The coordinator, the page and the session agree on whether the analyzer is
\* linked, through disconnects, switches and stops from either side; a checked
\* box never claims a link there is not.
LinkAgrees ==
  /\ app.pageLinked <=> app.link # "Idle"
  /\ app.linked <=> app.pageLinked
  /\ app.linkBox => app.pageLinked

\* A connect that waits for a release is waited for: it is dropped or started
\* with the last of the releases, whichever way that one ends.
DeferredIsAwaited == app.deferred # NoMode => app.releases > 0

\* While the page shows a session, there is a stack behind it.
ShownSessionHasStack == app.ui \in {"Connecting", "TransportConnected", "Connected"} => app.live

AnswerPosted(id) ==
  \/ \E i \in DOMAIN stack.held : stack.held[i] = id
  \/ \E i \in DOMAIN app.posted :
       app.posted[i].e = "requestFinished" /\ app.posted[i].id = id /\ app.posted[i].fresh

\* What the page shows is what there is: a stack behind a session, a link on both of
\* its ends, a release behind a connect that waits.
PageTruthful == TypeOK /\ ShownSessionHasStack /\ LinkAgrees /\ DeferredIsAwaited

\* The controller never waits for an answer that cannot come any more, which
\* would silence its timer for good.
AwaitedAnswerComes ==
  app.poll.inFlight => \E id \in app.polls : AnswerPosted(id)

\* A session is given up for a failed connect only while its core has failed:
\* the result of an earlier attempt never ends a later session.
GivenUpOnlyWhenFailed ==
  [][(/\ app.live /\ ~app'.live /\ Len(app'.posted) < Len(app.posted)
      /\ Head(app.posted).e = "connectFinished") => stack.core = "Failed"]_vars

\* A connect click never stays unanswered: the session connects, fails or is
\* given up, and one that waits for a release gets its turn.
ConnectSettles == app.live /\ stack.attempt = "connect" ~> app.ui # "Connecting"
DeferredServed == app.deferred # NoMode ~> app.deferred = NoMode

\* ModbusSessionPresenter.cpp:654 "This allows the polling loop to drive core
\* ensureConnected() self-healing on next cycle": an active poll never falls
\* silent for good.
PollsKeepFlowing ==
  []<>(app.poll.inFlight \/ app.poll.state = "Idle" \/ ~app.poll.valid)
=============================================================================
