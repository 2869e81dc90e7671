# Modbus-Tools in TLA+

A verification project for Modbus-Tools, a Qt desktop tool for Modbus TCP, RTU and ASCII. It
models the session with a device (requests, timeouts, retries, the connection and the threads
they run on), the page that drives it, the bytes on the line, and the parts around it: frame
analyzer, frame builder, channels, debuggers, TCP server, update and logs. TLC checks small
instances of the models; TLAPS proves what matters most about each of them for every value of
their constants: each safety property of the runs is one of the 41 theorems or has a part that is.

## 1. The system

    ModbusPage ── ModbusPagePresenter ── PollingController ── RequestSubmissionService    GUI thread
            │                     │                │
    ModbusSessionPresenter ───────┴────────────────┘      AnalyzerLinkCoordinator ── FrameAnalyzerView
            │  owns a stack, hands it to WorkerReleaseCoordinator             FrameParseWorker (own thread)
            │  queued calls                                        ▲ queued signals
    ════════▼══════════════════════════════════════════════════════╧═══════════════
    ModbusWorker            request queue, stop, connect, disconnect            worker thread
      └ ModbusClient        connect/disconnect/abort/setConfig                  (also the
         ├ RequestExecutor  one request at a time: lock, timers, retries         channel's
         ├ ConnectionManager open/close, eviction of half-open sessions          thread)
         ├ RetryStrategy, FrameExtractor, transport (TCP / RTU / ASCII)
         └ IChannel         TcpChannel, SerialChannel, UdpChannel

    NetworkDebuggerView, SerialDebuggerView ── ChannelController ══ ChannelOperationWorker ── IChannel
                        ServerClientPanel                        ══ ServerChannelWorker ── TcpServerHandle
    UpdateCoordinator ── UpdateChecker, UpdateManager (download, hash on a pool thread) ─▶ updater process
    ModbusFrameBuilderWidget ─▶ FrameAnalyzerView ("Inspect")

### Inventory

| Component | State it keeps | Operations | What makes it correct |
|---|---|---|---|
| `RequestExecutor` | request lock, active request and callback, two timers, posted lambdas, request state machine | `executeAsync`, `onDataReceived`, `onWriteDrained`, `onChannelError`, `handleTimeout`, retry and quiet-interval lambdas, `abort`, `resetState`, `sendRaw` | every call answered exactly once; the lock is given back; a transaction is never orphaned; an answer belongs to its request |
| `ConnectionManager` | connection state machine, timeout count, last error | `ensureConnected`, `onRequestTimeout`, `onRequestSuccess` | Connected only over an open channel; eviction exactly at the threshold |
| `ModbusClient` | `aborted_`, session health | `connect`, `disconnect`, `abort`, `setConfig`, destructor | abort leaves nothing in flight; disconnect completes what is open |
| `FrameExtractor`, transports | buffers, complete frames, drop count; pending transaction or slave | `feed`, `popFrame`, `reset`; `buildRequest`, `parseResponse` | frames come out whole, in order, once, whatever the chunks; late, foreign and broken ones are told from the answer |
| `ModbusWorker` | queue, `isProcessing_`, `stopping_`, `stopped_` | `submit`, `requestConnect`, `requestDisconnect`, `start`, `stop` and their handlers on the worker thread | every submitted request is answered once, also by stop and disconnect |
| `WorkerReleaseCoordinator` | pending releases with stage and completion flags, two timers each | `requestRelease`, `onWorkerStopped`, `onThreadFinished`, `onTimeout`, channel observer, force timer | each release completes once and in bounded time; the channel is closed on its thread |
| Session and page presenter, polling, submission | stack, generation, deferred connect, UI state; poll state, in-flight flag; pending contexts | clicks, posted signals of a stack, poll tick, link | a signal of a released stack has no effect; the last connect request wins; a poll never waits for an answer that cannot come |
| base: builders, checks, validator, address mapping, decoders | none | pure functions | one half never refuses what the other half makes; conversions agree |
| Frame analyzer | latest request id, shown result, live link, row types, history | parse, link, pause, history, types of rows | what is shown is the latest that was asked for |
| Frame builder | form, range, output, rebuild timer, saved settings | edits, rebuild, language change, restart | the frame on show is that of the form and says what was typed |
| Channels | channel state, device, write queue, timers | `open`, `close`, `write`, device signals, timeouts | state and device agree at rest; nothing is stranded on its way; sent means sent |
| Debuggers, channel workers | attempt, display of each widget, generation, one `isConnected_` for all pages; channel in the worker | connect, disconnect, send, change of protocol | one connection is never mistaken for another |
| TCP server, client panel | clients with their channels; the list, selection, broadcast; the page shown and the same `isConnected_` | listen, accept, close, send, change of page or language | each client leaves once; the list is the server's as long as the page stays |
| Update | offers, job, dialog, staged files; updater's phases | check, download, verify, cancel, install, roll back, restart | a program that runs is always left; only the right and verified release is installed |
| Traffic log, byte monitor | history, rows, pending batch, counters | log, flush, rebuild, filters, pause, save, clear | nothing is lost, and nothing shown twice but what waits during a rebuild; counts are right |
| Settings, logging, lifecycle; other widgets | see `PROJECT.json` | | not modelled (section 5) |

### What is hard about it

* Retries and delayed RTU writes are `QTimer::singleShot`s that nobody cancels. They run
  after the request that posted them is gone, under whatever request is active then.
* `channel->write()` can report an error through a callback before it returns, so
  `performWrite()` continues after its own request has been completed.
* A retry after an unreadable response leaves the transaction timer running.
* `abort()` may run on the GUI thread while the worker is in a blocking open.
* Answers come late, out of order, broken, or never; a serial line has no transaction ids.
* Stop, disconnect and release run on two threads, and one thread hosts worker and channel.
* Everything a stack, a channel or a parse thread reports is queued: it is handled after the
  user has disconnected, switched, cleared or asked again.
* The network view has one `isConnected_` for its client, UDP and server pages. What a late
  attempt of one page writes into it opens the protocol box, or closes it, for the others.
* The executable is swapped by a second process, which the machine may take down at any step.

`PROJECT.json` lists the hazards with the line where each bites and the properties that
would catch it.

## 2. Modules

| Module | Models | Kind |
|---|---|---|
| `StateMachineBase`, `SessionStates` | `StateMachineBase.h`, instantiated twice, and the transition tables of the two core machines | operators |
| `ModbusSession` | client, executor, connection manager, retry strategy, extractor and transport of one session | detailed specification |
| `RequestService` | what `executeAsync()` promises its caller | abstract specification |
| `MCModbusSession` | request kinds for the runs | model checking |
| `ModbusSessionProofs` | theorems about `ModbusSession`: calls, lock and connection; then what the answers are about | proofs |
| `ModbusWorker` | the worker's queue and handlers on its thread, `stop()` and the calls of the GUI thread | detailed specification |
| `WorkerService` | a first-come-first-served queue that may also turn its items away | abstract specification |
| `ModbusWorkerProofs` | theorems about `ModbusWorker`, with its refinement of `WorkerService` | proofs |
| `WorkerRelease` | `WorkerReleaseCoordinator`, the threads it quits and the channel it closes | detailed specification |
| `WorkerReleaseProofs` | the theorem about `WorkerRelease` | proofs |
| `ModbusPage` | page, presenters, polling, submission and analyzer link on the GUI thread, over the promise of a stack | detailed specification |
| `ModbusPageProofs` | theorems about `ModbusPage` | proofs |
| `ModbusFrames` | checksums, PDU and ADU builders, inspections, request and response validation | operators |
| `FrameStream` | `FrameExtractor` on a line, byte by byte | detailed specification |
| `FrameParser` | the analyzer's parser, register orders, decoding, table rows, address mapping | operators |
| `TypedData` | typed texts to write data, on the page and in the frame builder | operators |
| `FrameCodec` | `FrameStream` and samples for the operators | model checking |
| `Analyzer`, `FrameTable` | the analyzer's view with parse thread and live link; the types of its rows | detailed specifications |
| `FrameBuilder` | the form, its frame, timer and settings | detailed specification |
| `IoChannels` | `TcpChannel`, `SerialChannel`, `UdpChannel` with `BufferedWritingChannel` | detailed specification |
| `Debugger`, `ServerClients` | the debugger views with the channel worker; the TCP server with its list | detailed specifications |
| `Updates`, `ReleaseChoice` | the update over two processes; which release is offered | detailed specifications |
| `Monitors` | the traffic monitor and the byte monitor | detailed specifications |
| `CodecProofs` | theorems about `FrameCodec`, with `FrameStream` and `FrameParser` under it, and about `FrameTable` | proofs |
| `ChannelProofs`, `PartsProofs`, `DataProofs` | theorems about `IoChannels`; `Updates`, `Debugger`, `Analyzer`, `ServerClients` and `FrameBuilder`; `Monitors` and `ReleaseChoice` | proofs |
| `Desk` | `Analyzer`, `FrameTable`, `FrameBuilder`, `IoChannels`, `Debugger`, `ServerClients`, `Updates`, `ReleaseChoice` and `Monitors`, one part at a time | composition, model checking |

The systems meet at promises. `ModbusSession` implements `RequestService`, and `ModbusWorker`
uses `RequestService` as its client, so what TLC and TLAPS show of the worker rests on what they
show of the session. `WorkerRelease` has of the worker what the coordinator sees: the event of
`stop()`, the `stopped` signal, and a thread that may be in a blocking open. `ModbusPage` has of a
stack that it connects or fails, is lost, heals, answers each request, and that its release
completes: `EveryRequestAnswered` and `ReleaseCompletes`. `Debugger` has of a channel the moves
`IoChannels` makes. `Analyzer` has of the parser that a text parses or does not; what a frame is
parsed to is `FrameParser`, which the codec run puts against the builders, and the frame builder
against the form.

### ModbusSession

One action is one handler of the worker's event loop, with everything it calls. The calls
are operators with the names of the source (`CompleteTransaction`, `PerformWrite`,
`SendCurrentRequest`, `CheckPendingResponse`, `HandleParsedFrame`, `ClearRuntimeState`…);
`PROJECT.json` maps every definition to its lines.

| Action | Code |
|---|---|
| `Execute`, `Proceed`, `OpenedForRequest`, `NotOpenedForRequest` | `executeAsync()`, cut after the test of `aborted_` and around the blocking open |
| `ResendFires`, `WindowOpens` | the lambda of a retry, the lambda of an RTU quiet interval |
| `DeviceAnswers`, `LineNoise` | `onDataReceived()` with what the device or the line produced |
| `WriteDrained`, `SilenceExpires`, `TimeoutFires`, `ChannelError` | `onWriteDrained()`, `rtuSilenceTimer_`, `handleTimeout()`, `onChannelError()` |
| `ChannelLost` | the state handler of `ModbusClient` |
| `SendRaw` | `RequestExecutor::sendRaw()` |
| `Connect`, `OpenedForConnect`, `NotOpenedForConnect` | `ModbusClient::connect()` around its blocking open |
| `Abort`, `RequestDisconnect`, `SetConfig` | `abort()` from any thread; the worker's disconnect handler; `setConfig()` |

State variables are the members of the same role (the comment of each says which), plus the
environment (`wire`, `unsent`), and four history variables (`calls`, `answers`, `reply`,
`sent`) that no action reads in a guard except the bound on calls.

Abstractions. Time is left out: an armed timer may fire at any moment, so every order of
timeout, answer, retry and abort is explored, at the price of some orders that real delays
exclude. A request is its function class (read, write, other), slave and whether the validator
accepts it. A frame is the ADU it answers and a status: ok, exception, an answer
`validateResponsePdu` rejects, or unreadable. Bytes are not modelled: TCP and ASCII feeds give
whole frames, RTU feeds pass through the silence-delimited buffer. The transaction id is not
reduced modulo 2^16. An abort inside a handler is only possible where the code leaves a window
that matters: after the test of `aborted_` and during a blocking open. Session health, logging
and messages are left out, since no control depends on them.

### ModbusWorker

| Action | Code |
|---|---|
| `Start`, `Submit`, `RequestDisconnect` | `start()` with the `requestConnect()` that follows it, `submit()`, `requestDisconnect()`: each posts an event |
| `Stop`, `StopAborts`, `StopPosts` | `stop()`: the flag, `client_->abort()` on the caller's thread, the posted event |
| `Quit`, `ThreadFinishes`, `Destroy` | `QThread::quit()` right after `stop()`, the end of the loop, `~ModbusWorker()` |
| `DeliverSubmit`, `DeliverProcess`, `DeliverConnect`, `DeliverDisconnect`, `DeliverStop` | the posted lambdas |
| `ProcessQueue`, `RefuseItem`, `HandleSubmit`, `CallReturns` | `processQueue()` and `handleSubmit()`, cut where `stop()` on the other thread can come between: after the first test of `stopping_`, and inside the client's call |
| `ConnectReturns`, `ClientCompletes`, `ChannelChanges` | the end of the blocking connect, the completion callback, the channel under the client |
| `RacedCompletion` | a callback run by `abort()` and by the worker's thread (only in `RacySpec`, which no run checks) |

Abstractions. An event is its kind and the request it carries. `quit()` ends the loop with
events undelivered. `sendRaw()` and `updateConfig()` only reach the client and are actions of
`ModbusSession`. `Spec` takes an `abort()` from the GUI thread and a completion on the
worker's thread as ordered, which is what `ModbusClient.h` documents; `RacySpec` drops that
assumption (section 5).

### WorkerRelease

The handlers of the coordinator call each other (`onWorkerStopped` → `advanceStage` →
`beginChannelShutdown` → `tryComplete` → `finalize`). They are operators on a context: the
`PendingReleaseContext` with the threads that have been told to quit, the channel's state and
a posted `close()`. One step of the GUI thread is one handler with all it calls;
`requestRelease()` is cut between `stop()`, `quit()` and its end.

| Action | Code |
|---|---|
| `RequestRelease`, `QuitWorkerThread`, `EndOfRequestRelease` | `requestRelease()` |
| `HandleWorkerStopped`, `HandleWorkerThreadFinished`, `HandleChannelThreadFinished`, `HandleChannelClosed` | the queued signals and the observer of the channel |
| `DeadlineFires`, `ForceTimerFires` | `onTimeout()`, the lambda of `channelForceTimer` |
| `StartBatch`, `ThreadFinishes` | `QThread`'s event loop: `quit()` is tested between two batches of posted events |
| `DeliverStop`, `OpenReturns` | `handleStopInThread()` with `disconnect()`, the end of `ensureConnected()` |
| `DeliverClose`, `DeliverConnected`, `DeliverClosing`, `DeliverUnconnected`, `DeliverError` | the posted handlers of `TcpChannel` |
| `LingerFires`, `ConnectTimesOut`, `SocketConnects`, `SocketEnds` | its timers and its socket |

Abstractions. One release: several share no state. `channelThreadFinished` and
`workerThreadFinished` never hold before the thread has ended, so they are read off
`running`. Time is left out: the force timer and the deadline may fire in any order with
everything else, and the history variable `forced` says that the force timer has. The state of
the socket is whether it is `live`. `WorkThread` says on which thread the worker lives: `"io"`
as `createStack()` builds a stack, `"work"` as the handle would also allow. The second
instance is where the order the coordinator is written for can be seen to work; it shows too
that `JoiningThreads`, entered when the worker's thread has already ended, refuses the later
`ClosingChannel`, so that such a release completes only through its deadline.

### ModbusPage

The GUI objects call each other directly, so a handler is an operator on the record `app` of all
of them, and one step is one handler with everything it calls. What a stack emits is appended to
`app.posted` with whether it is of the present generation; the core and the channel are read when
the handler runs, as the code does. The alert about a lost connection is modal: its handler is
suspended in it while events and timers go on (`CloseAlert`).

| Action | Code |
|---|---|
| `ClickConnect`, `ClickDisconnect`, `SwitchToProtocol`, `ClickRequest`, `StartPoll`, `ClickPollOff`, `ToggleLink`, `PauseLink`, `ResumeLink`, `StopLink` | the user's actions (`UserActs`) |
| `DeliverChannel`, `DeliverConnectFinished`, `DeliverRequestFinished`, `DeliverRunDeferred`, `DeliverTeardown` | the queued handlers of `ModbusSessionPresenter` and what they reach |
| `PollTick`, `CloseAlert` | `onPollTimerTick()`, the end of the alert |
| `Connecting`, `ChannelLost`, `RequestAnswered`, `LeavingEmits`, `ReleaseCompletes` | the stack on its thread, external to the page |

### The byte level

`FrameStream` delivers the bytes of at most two ADUs, noise and silences to `feed()` in chunks of
any size. `FrameCodec` adds samples: requests by function code, start and quantity at every limit
and one past it, with the answers a device gives; tables of numbers of one, two and four words;
pairs of registers by byte order; addresses at every border of the notations. The operators are
the functions of the source under their names. Values of floating-point types, scaling and texts
are left out.

### The parts around

Each has a `…Next` of one action per handler; the comment above an action names it, and
`PROJECT.json` its lines. Assumptions a reader should know:

* `IoChannels`: a frame is two chunks; at most `MaxWaiting` events wait when a call is posted;
  the device does every thing Qt's may, in any order the queue allows. A UDP bind that fails is
  left out of `QuietAgrees`.
* `Debugger`: after a change of protocol a UDP attempt has the generation of the TCP attempt
  before it, and the server, once its page was shown, may write `isConnected_` at any time
  (`ServerReports`). `tally.crossed` marks such behaviours and its properties are about the others.
  Each widget keeps what it displays when another page is in front.
* `Updates`: one updater works at a time (`Resting`), and nobody starts an application and then an
  update in the milliseconds between the updater's check and its moves (`Moving`).
* `ServerClients`: the clients leave with `stop()` in the order of a hash table, which is any order;
  the same goes for what is sent to the selected ones. The client and the UDP page are one page here
  and an environment: what they report writes the shared `isConnected_` (`ClientSideReports`), with
  any value at any time. A change of page, or of the language, which goes through the client page,
  empties the list when that flag is down (`SelectProtocol`, `LanguageChanged`).
* `ReleaseChoice`: numbers of exactly ten digits are left out (whether they overflow depends on the
  digits). The identifiers after a dash are numbers, labels, and labels with digits behind
  (`TagsArePlain`); of others `compareVersions()` makes no order (section 5).
* `Monitors`: one save at a time. A rebuild shows the whole history and leaves the batch that waits
  where it is, so what waits comes a second time with the next flush. `log.again`, a history variable,
  has those events: after a change of language, which rebuilds without a flush, and events that come
  in the turn before a rebuild.
* `FrameBuilder`, `TypedData`: a text is a sequence of tokens of digits and letters, so the
  separators are one; in 0x10 the page reads bits as hexadecimal digits, which `EntriesAgree`
  excepts. The texts of errors and rows are left out.

## 3. Runs

| Run | Instance | What it shows |
|---|---|---|
| `session_tcp` | TCP, 2 calls (write or malformed), 1 retry | types with the count of timeouts below its threshold, exactly-once, no orphan, own answer, success only for bytes the channel took, quiet abort |
| `session_rtu` | RTU, 2 calls (write, broadcast, illegal broadcast), no retry, fairness | the lock is given back, the connection is truthful, every call is answered through quiet interval and silence timer; refinement of `RequestService` |
| `worker` | 3 requests, 2 disconnects, fairness | nothing lost or served twice, one at a time, the queue is never stranded, a stopped worker is quiet; refinement of `WorkerService`; every request answered, every stop completed |
| `release` | one thread for worker and channel, or two; fairness | a release completes, once, joined; with two threads the channel's outlives its socket |
| `page` | 2 protocols, 2 ids, 4 clicks, 1 loss, 3 posted events, 1 alert, fairness | page, session and link agree; no poll waits for ever; no session is given up for an old failure; every connect, deferred or not, comes to an end |
| `codec` | 3 modes; streams of 2 ADUs with 2 noise bytes and 2 silences; about 4,300 samples | frames are kept; a request, its answer and an exception get through at every limit; the analyzer shows them as what they are; conversions in two places agree |
| `desk` | the ten parts, one at a time, fairness | section 2's parts, below |
| `stale_write`, `release_order`, `page_heal`, `detect_rtu`, `udp_stale` | small instances | five statements of the repository that the code does not keep (below) |

A property of a run may be a conjunction of named parts; the module states each with its meaning.

* `release`: `ReleaseSafe` is the types, `CompletedOnce`, `JoinedBeforeDestroyed` and, with two
  threads, `ThreadOutlivesSocket`.
* `page`: `PageTruthful` is the types, `ShownSessionHasStack`, `LinkAgrees`, `DeferredIsAwaited`.
* `codec`: `FramesKept` (`StreamKept`, `WholeFramesKept`), `ExchangeFits` (`RequestFits`,
  `FrameExtracted`, `AnswerAccepted`), `ExchangeRead` (`RequestRead`, `AnswerRead`),
  `ConversionsAgree` (`RowsCover`, `OrdersAgree`, `AddressReadsBack`).
* `desk`: analyzer `ShowsCurrent` (`ShownWasAsked`, `PauseAgrees`, `LiveCatchesUp`); table
  `BatchCovers`; channels `QuietAgrees`, `SentIsOnWire`; debuggers `ConnectionsKeptApart`
  (`ShowsLatest`, `SentWhereTyped`, `DebuggerAgrees`); server `ClientsTracked` (`GoneOnce`,
  `ListAgrees`, `LostToOthers`, `TargetsListed`); update `ProgramKept` (`ProgramSurvives`, `ProgramInPlace`),
  `OfferIsRight` (`OrderMatchesSemVer`, `OffersNewest`, `DigestBelongs`), `UpdateIsWanted`
  (`QuitsForVerified`, `NeverOfferedAgain`); logs `MonitorsComplete` (`NothingMissing`,
  `OnceEach`, `SamplingAccounts`, `LinesInOrder`, `StatsAgree`); builder `BuilderTruthful` (`OutputIsCurrent`,
  `FrameSaysWhatWasTyped`, `FieldsTile`, `EntriesAgree`, `RestartKeepsFrame`); all of them
  `DeskSettles` (`ParseEnds`, `TransientEnds`, `DisplaySettles`, `VerificationEnds`).

Two of these state what the program does where it does less than one would like. A listening
server's list can be emptied while its clients stay connected: an attempt of the client page that was
begun before the server was started fails later and lowers `isConnected_`, and the next change of
page, which that flag would have refused, clears the panel. `ListAgrees` subtracts the clients that
were so lost (`gone.lost`), and `LostToOthers` says that nothing else loses one. The traffic monitor
shows lines twice after a rebuild that met a waiting batch, and loses that many of its oldest rows
sooner: `OnceEach` allows a second row to just these events, and `NothingMissing` lets an event be off
the screen only where the later ones and these fill it. No document, comment or test of the
repository says more of either, so neither is a finding.

Bounds. `MaxCalls` 2 gives every interaction of a request with the leavings of an earlier one
(late answers, posted retries, posted writes) and the Busy case; one retry on TCP gives the double
retry of one attempt; `UnresponsiveThreshold` 2 gives a timeout that evicts and one that does
not; `MaxNoise` 1 is enough to have a frame in front of the answer. The retry budget bounds
`attempts`, hence posted retries. No passing run has the mode ASCII, which differs from TCP in having
broadcasts and no transaction ids, and from RTU in writing at once; the theorems of section 4 hold
for it too. Three requests let one be in service while two wait when a stop
or a disconnect drains the queue, or be refused one by one; two disconnects let one be delivered
before a stop and one after. `WorkerRelease` has no bound: its run visits every reachable state of
both values of `WorkThread`. Four clicks of the page are a connect, a disconnect or switch while
it is released, another connect, and a poll or a link on top; two ids let an old answer meet a new
request. In the codec the quantities are the limits of each function code and their neighbours,
and the sizes that leave a byte of bits partly used. In the desk two of each thing let the second
overtake the first (two parses, connection attempts, clients, downloads, launches of the
application), and `MaxCalls` 3 of the channels is open, close, open. `MaxClicks` 2 of the server bounds clicks and
reports of the client side together, which is enough for a listen and the report that opens the
protocol box; changes of page and language have no bound. `MaxMoves` 2 of the debugger is shared by changes of
protocol, losses, late signals and reports of the server; the finding needs one move. A form starts from one of
five saved ones with a hard combination each, so that two edits reach the others next to it.

`CHECK_DEADLOCK FALSE` stands in the runs of the worker, the release, the page, the codec and the
desk: a destroyed worker, a completed release and a user at the end of the bounded clicks, edits
or samples have nothing left to do.

Fairness. Session: `WF` of the steps that end a blocking open, which has a deadline; `SF` of
the transaction timer, the posted retries and the posted writes: a QTimer that has run out and
a posted lambda stay pending in the event loop, which reaches them even if other events keep
disabling and enabling them. Nothing is assumed of the device or of the caller.
Worker: `WF` of the handlers and of the rest of a `stop()` that has begun, since a thread runs what
it has entered and a loop takes its events in order, and `WF` of the client's completion, which is
`EveryCallAnswered` of the session. Its liveness properties except a thread that was quit: `quit()`
may leave events behind. Release: `WF` of the GUI thread's handlers, of the deadline (a timer that
is only stopped when the release is over), of each loop, of the handlers in a batch and of the
linger timer; the force timer and the socket owe nothing. Page: `WF` of the event loop (posted
events, the poll timer), of the user who closes an alert, of the release (`ReleaseCompletes`), of
an attempt to connect (it has a timeout) and of answers (`EveryRequestAnswered`); nothing of other
clicks. Analyzer: `WF` of the parse thread and of its queued result. Channels: `WF` of the queue, of
the connect and linger timers and of the operating system's answer to a connect; nothing of the
peer that takes data. Debuggers: `WF` of the worker, of a channel that is closing, and of the GUI
queue. Update: `WF` of the hash on the pool thread and of its watcher; the network owes nothing.

Findings.

* `stale_write`: a broadcast is said to complete when it is sent. On an RTU line the posted write
  of a call that has ended (its ADU waited for the quiet interval) runs under the next call and
  completes that call's broadcast, of which nothing has been sent yet.
* `release_order`: the header says that the channel's thread must stay alive until the channel
  is Closed. `requestRelease()` quits the worker's thread at once, which is the channel's.
* `page_heal`: a passive loss keeps the poll active so that it "keeps flowing to drive the core",
  and at the same time clears the flag without which every tick returns: the poll falls silent.
* `detect_rtu`: with the protocol to be detected, the RTU request 01 03 00 00 00 02 C4 0B is shown
  as TCP, since a PDU with an unsupported function code counts as valid. It is the frame the frame
  builder starts with, and "Inspect" hands it to the analyzer.
* `udp_stale`: each attempt to connect is to have a generation, so that what an earlier one still
  reports is told from it. A UDP bind takes none, and passes for the TCP connection before it.

## 4. Proofs

Assumed: the named ASSUMEs of the modules, which TLC evaluates in every run that uses them: types
of constants (modes, kinds of requests and channels, bounds that are natural numbers), a number of
half-open timeouts, a length of the history, a sampling rate and lengths of the logs that are at
least 1; buffers of the extractor that hold a frame and at most 255 answers on its line, told apart
by a byte (`LimitsFit`); samples and words of 16 bits (`SamplesReal`); rows of a table
(`RowsPositive`); forms with the types of their widgets (`FormsCanBeTyped`). Nothing bounds the number of
calls, retries, frames, requests, disconnects, clicks, clients, losses, events that wait, or the
mode, unless a theorem says so. The theorems about a part of the desk are about that part's own
`Init` and `Next`; the run `desk` steps one part at a time.

**`ModbusSessionProofs`** proves the inductive invariant
`SessionInv = TypeOK /\ ActiveReal /\ OpenCallOK /\ LockMeansOpenCall /\ AnsweredExactlyOnce`.
`AnsweredExactlyOnce` alone is not inductive: an action that runs the callback answers
`active.id`, so the invariant must know that a set callback belongs to a call already made
(`ActiveReal`) and that a call on the stack and an active request exclude each other
(`OpenCallOK`), which in turn needs the lock. From it follow `TypeCorrect`, `LockDiscipline`,
`ExactlyOnce`, and `ImplementsService`: initial states map to initial states and each step to
`Take`, `TurnAway`, `AnswerCurrent` or a stutter of `RequestService`. Over the same invariant:
`NeverStuck` (an open transaction has a timer, a retry or a write pending), `ConnectedIsTrue` and
`QuietAfterAbort`.

Its second part follows the ADUs. On TCP (`OwnInv`) every transaction id below the next
one stands for one call, wherever it is: with the device, in the transport's expectation, in the
extractor's frames; an open request expects nobody else's answer. Nothing of this is true of a
serial line, which has no ids, and `OwnAnswer` claims nothing there. `SentInv`: an open request has
been written at least once, hence `SuccessesWereSent`. It needs that writes are made at once; on an
RTU line the posted write of a call that has ended breaks it, which is the run `stale_write`.

**`ModbusWorkerProofs`** proves, first, the inductive invariant `WorkerInv = TypeOK /\ NotStarted
/\ HandlersNeedTheThread /\ Marked /\ StoppedHandlers /\ StoppedIsQuiet /\ QueueIsScheduled`.
`QueueIsScheduled` needs to know which points of a handler hold `isProcessing_` (`Marked`) and that
a handler only runs on a running thread; `StoppedIsQuiet` needs that a handler entered before the
stop cannot be inside the client once the stop has been delivered (`StoppedHandlers`). From it
follow `TypeCorrect`, `OneRequestAtATime`, `NothingStranded` and `QuietOnceStopped`. Its second part
adds the order of submission (`InTurn`: the request in service is older than the queued ones, these
are older than the posted ones) and what has been answered (`Settled`: exactly what was submitted
and is neither waiting nor in service). With them a request is answered when it is taken out and
never again (`AnswersAreSingle`), none is lost (`NothingLost`), and every step is one of
`WorkerService`: it joins, its turn comes, it leaves, it is turned away, or the service gives up
(`ServesInTurn`). All of this is about `Spec`, where `abort()` and a completion are ordered.

**`WorkerReleaseProofs`** has no bound to generalise (TLC visits every state for both threads) but
the length of the queues; what it adds is the argument. A release is fresh, living or taken down
(`Life`). Only `TryComplete` reaches `finalize()`, with every thread joined, and it leaves no timer
and no watcher that could bring a handler back. With a thread of its own for the worker, whatever
lets the channel's thread go (a channel that is Closed, a "closed" on its way) comes after the
socket is gone (`SocketFirst`), unless the force timer gave it up.

**`ModbusPageProofs`** states its invariant of a state `a` of the GUI thread, because a step is a
chain of handlers: `Sound(a)` (types, link, what is live, deferred, posted and asked for agree),
`Served(a, W)` (a poll in flight is with the stack, on its way back or in the handler's hands; the
failure of a first connect waits only while the core is Failed and nothing was asked), and
`StackSound`. Every handler is shown to keep it, or to end in `Launched(a)`, a stack that starts; a
lemma then relates `a` to the stack that the step leaves. From it follow `PageSound`, `Truthful` and
`PollIsAnswered`; the action property `FailureIsItsOwn` needs besides that only a delivery takes a
posted event (`Longer`).

**`ChannelProofs`**: the device queues a stateChanged with every change, so the last one in the
queue is true of it; a queued "connected" is true or taken back behind it; when no stateChanged is
left, the channel agrees with its device (`Base`), and a close that waits for the buffer is met by
what ends it (`ClosingIsMet`). `ChannelAgrees` follows. For `CountedIsSent`, `OnWire` says where the
chunks of a frame are from `write()` to the line; only the end of the connection drops a buffer.

**`PartsProofs`**. Update: `FilesSafe` says, for each point of the updater, which copies exist;
`DialogHeld` why no download can be under way when it begins. Together they give `ProgramIsKept`,
wherever the machine is taken down, and `QuitsWithGoodFile`. Debugger: the attempts between view and
worker are in order (`AttemptsInOrder`), the last state on its way is that of the channel there is
(`EventsInOrder`), and with a generation for each attempt nothing typed crosses to another
connection (`FramesFollow`), and a connected view has no connect button in front of it (`NoButton`);
hence `NeverMistaken`. From a crossing on only the types are kept. Analyzer: every request and answer under way is
the latest and for the text asked last, or has been overtaken (`Known`); the view's live frame is
the link's newest (`LinkShown`); hence `AlwaysCurrent`. Server: the last signal in the queue about a
client, or about the server, is true, and where none is queued the list knows the truth, but for the
clients a change of page took off it (`Follows`, for each id); appending signals, hearing one and
changing the page keep this. What the view heard of the server last is carried along (`Heard`): while
the client side is silent it is what `isConnected_` says, so a page changes only with a server that
is down, whose list is empty, and nobody is lost. `ServerIsTracked` is what this says of an empty queue. Frame builder: `FrameIsCurrent`, of which the hard half is the start. The range of
the quantity is not saved, so what is loaded is cut to the range of its function code. The frame is
the one before because the form was inside that range already, or its function code writes one
value and the quantity does not count (`BuilderInv`).

**`DataProofs`** is about lists that the code fills, trims and folds. They are recursive functions
in the models; that such a function is what its equation says, and what holds of all its values, is
proved by induction up to a bound, from the least element of a set of numbers. Logs: the rows
are two runs, those the last rebuild made and those flushed since, each in the order of the log, and
what is in both came again (`Laid`); together with what waits they have all of the history that
passes the filters, back to the last row that was dropped (`Complete`). `LogInv` keeps this through
trimming, filters, pause, saving and rebuilding; that no more is missing than came again is then a
count of the rows (`RowsCounted`). `BytesInv` that the lines of the byte
monitor and its statistics account for every chunk; `SamplingInv` that the phase of the sampling is
what is left over of the frames polled. Together `MonitorsAreComplete`. Release: `compareVersions()`
is shown to be the first difference of two lists of ranks, which makes it an order on plain tags
(`VersionsOrdered`); the loop over the releases then ends with one that none is above, by induction
over the list, and `ChoiceInv` gives `RightIsOffered` and `OfferedOnce`.

**`CodecProofs`**. Rows: each row follows from those above it (`RowsFollow`), and a type given to a
block of whole numbers leaves those outside as they were, which with `TableInv` is
`BlocksAreCovered`. `ConversionsAgreeAlways`: rows for tables of any length, byte orders for any
pair of registers, addresses by arithmetic on the notations. Exchanges: `LineInv` says that before
the first ADU only noise was on the line, and no noise is a frame; what the request validator lets
through is described once (`RequestIs`), and so is what the three builders make of a PDU. The loop
of the extractor is a recursive function, shown to hand out such a frame however it stands in the
buffer; the parser shows the PDU that was built. No lemma depends on the values of the checksums,
only on both sides computing the same function. From these `ExchangesFit` and `ExchangesAreRead`.
RTU line: what waits on the line is the rest of the last frame, and what came of it without a
silence is the buffer (`LineHolds`); a whole frame is handed out or in the buffer with the silence
that ends it before the next byte (`WholeSafe`). Hence `WholeFramesAreKept`, the RTU part of
`FramesKept`.

Only model-checked:

* liveness, and the fairness part of the refinements: out of the prover's reach;
* the TCP and ASCII part of `FramesKept` (`StreamKept`). It is not true of every bound on the noise: TCP
  noise of four bytes and more can look like a header with a length, which swallows the frame behind
  it. That it holds below is a matter of the bytes there are, which TLC enumerates;
* of `BuilderTruthful` the parts about texts (`FrameSaysWhatWasTyped`, `EntriesAgree`) and rows
  (`FieldsTile`): they speak of folds of the community modules, whose operator parameters the provers
  cannot instantiate;
* what CRC and LRC compute. Builder and check call one function, in the models as in the code, and
  neither TLC nor a theorem compares it with anything.

## 5. Not checked, not modelled

Stated in the modules but checked by no run, because the code does not keep them; each has its
comment there:

* `ModbusSession`: `ConnectResetsToIdle` (a write error inside `write()` leaves the request machine
  where the comment in `connect()` calls it unreachable), `TimeoutReportsTransmissions` (a timeout
  of an attempt that had already failed is counted twice), `FailFastReadSentOnce` (the leftover
  retry of an aborted write sends the read again).
* `ModbusWorker`: `AnsweredAtMostOnce` under `RacySpec` (nothing orders the `abort()` of `stop()`
  against a completion on the worker's thread; under `Spec` it is the theorem `AnswersAreSingle`).
* `IoChannels`: `ErrorIsSticky` (`TcpChannel` calls Error sticky; `connected()` is queued, and the
  one that comes with a connect timeout repaints Error to Open).
* `WorkerRelease`: `DestroyedOnlyClosed` (`finalize()` means to leak a channel that is not Closed;
  the `reset()` it does it with drops the owning reference).

`ReleaseChoice` is checked for plain tags only. An identifier that is neither a number nor a label with
digits behind it makes `compareVersions()` intransitive: rc10 < rc1a < rc2 < rc10, so of releases listed
as rc10, rc1a, rc2 the check offers rc2, and what it offers depends on the order of the list.

Known hazards without a property: `~ModbusWorker` calls a `stop()` that returns at once when an
earlier one lost its event; a transaction id wraps after 65536 requests; `QuietAgrees`
leaves out a UDP channel whose bind failed; `ensureConnected()` blocks the thread by sleeping, and events that
fall due meanwhile wait.

Not modelled:

* the converter of floating-point numbers, the sizes and styles of widgets, the texts of tables,
  logs, dialogs and exports: formatting without control;
* settings, logging, language and navigation: values read and written in one step. Where a setting
  matters to a property (frame builder, link box) it is in that module;
* stack factory: construction; `WorkerRelease` has its choice of threads as a constant;
* time. A timer may fire whenever it is armed. How long a backoff or a quiet interval is, and hence
  what real delays exclude, is left out;
* the parts of the desk are checked one at a time. Where two of them share state, each has the
  other as an environment that may do more than it does: the client side and the server of the
  network view, which share `isConnected_`, the protocol box and the panel. What they do to each other
  step by step is in no composed model.

Still worth doing: the theorems of the parts stated of the composition in `Desk`; `StreamKept` for
the noise that cannot be a header; the texts of the frame builder with their folds replaced by
recursive functions; `ensureConnected()` over `IoChannels` instead of over its promise.
