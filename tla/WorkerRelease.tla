---------------------------- MODULE WorkerRelease ----------------------------
(***************************************************************************)
(* WorkerReleaseCoordinator: the release of one stack by the GUI thread,   *)
(* with the threads it quits and the channel whose socket lives on one of  *)
(* them.                                                                   *)
(*                                                                         *)
(* The coordinator's handlers call each other; they are operators on a     *)
(* context c, the PendingReleaseContext with what they do to the threads   *)
(* and the channel, and one step of the GUI thread is one handler.         *)
(* requestRelease() is cut between stop(), quit() and its last statements, *)
(* where the threads can act.                                              *)
(*                                                                         *)
(* An event loop takes what is posted in batches: it tests quit() before a *)
(* batch, never inside one.  An event no batch takes is lost.              *)
(***************************************************************************)
EXTENDS Integers, Sequences

\* Where the worker and the client may live: "io" is the channel's thread, as
\* ModbusFactory::createStack() builds a stack; a thread of its own, "work", is
\* what the StackHandle and the coordinator's steps also allow.
CONSTANT WorkThreads

ASSUME WorkThreadsAssumption == WorkThreads \subseteq {"io", "work"}

VARIABLES
  gui,         \* how far requestRelease() has come: idle, stopping, quitting, free
  context,     \* the pending release
  inbox,       \* events queued for the coordinator, oldest first
  running,     \* QThread::isRunning()
  delivering,  \* the thread's loop is inside a batch of events
  mailbox,     \* events posted to the objects of each thread
  blocked,     \* the worker's thread is inside a blocking open
  worker,      \* "running", "stopping" or "stopped"
  live,        \* the channel's socket or port is open or being closed
  linger,      \* lingerTimer_ is armed
  dropIsError, \* socketDropIsError_
  forced       \* history: channelForceTimer has fired

threads == <<running, delivering, blocked, worker>>
socket  == <<live, linger, dropIsError>>
vars    == <<gui, context, inbox, mailbox, threads, socket, forced>>

channel == context.channel

\* The handle's workerThread; the channel's is "io".
WorkThread == context.workThread
Threads == {"io", WorkThread}

StageNo == [Initial |-> 0, StoppingWorker |-> 1, ClosingChannel |-> 2,
            JoiningThreads |-> 3, TimedOut |-> 4, Finalized |-> 5]

-----------------------------------------------------------------------------
(* The coordinator: operators on a context c *)

\* QThread::quit() for the threads in T.
QuitThreads(c, T) == [c EXCEPT !.quit = @ \cup T]

DetachChannelWatchers(c) == [c EXCEPT !.watching = FALSE, !.force = FALSE]

\* Mutant of Finalize: the timers and the state handler are left behind.
FinalizeAttached(c) ==
  IF c.stage = "Finalized" \/ ~c.pending THEN c
  ELSE [c EXCEPT !.stage = "Finalized", !.pending = FALSE,
                 !.completed = @ + 1, !.destroyed = c.channel]

\* advanceStage(Finalized) and finalize(): worker, client and channel go with
\* their last reference.  A channel that is not Closed goes the same way: the
\* reset() meant to leak it drops the owning reference.
Finalize(c) ==
  IF c.stage = "Finalized" \/ ~c.pending THEN c
  ELSE [DetachChannelWatchers(c) EXCEPT
          !.stage = "Finalized", !.pending = FALSE, !.deadline = FALSE,
          !.completed = @ + 1, !.destroyed = c.channel]

\* Mutant of TryComplete: only the signal tells that the worker has stopped.
TryCompleteOnSignal(c) ==
  IF c.workerStopped /\ \A t \in Threads : ~running[t] THEN Finalize(c) ELSE c

\* The three completion flags never hold before the thread has finished.
TryComplete(c) ==
  IF \A t \in Threads : ~running[t] THEN Finalize(c)
  ELSE IF c.stage = "StoppingWorker" /\ (c.workerStopped \/ ~running[WorkThread])
       THEN [c EXCEPT !.stage = "JoiningThreads"]
       ELSE c

BeginChannelShutdown(c) ==
  IF c.shutdownStarted THEN c
  ELSE LET d == [c EXCEPT !.shutdownStarted = TRUE] IN
       IF ~running["io"] THEN TryComplete([d EXCEPT !.channel = "Closed"])
       ELSE IF d.channel = "Closed" THEN TryComplete(QuitThreads(d, {"io"}))
       ELSE [d EXCEPT !.watching = TRUE, !.close = TRUE, !.force = TRUE]

\* advanceStage(ClosingChannel)
CloseStage(c) ==
  IF StageNo[c.stage] >= StageNo["ClosingChannel"] THEN c
  ELSE BeginChannelShutdown([c EXCEPT !.stage = "ClosingChannel"])

\* advanceStage(TimedOut)
TimeOutStage(c) ==
  IF c.stage = "Finalized" THEN c
  ELSE BeginChannelShutdown(
         QuitThreads([c EXCEPT !.stage = "TimedOut", !.timedOut = TRUE], {WorkThread}))

OnWorkerStopped(c) ==
  TryComplete(CloseStage(QuitThreads([c EXCEPT !.workerStopped = TRUE], {WorkThread})))

OnWorkerThreadFinished(c) ==
  TryComplete(IF c.workerStopped THEN c ELSE CloseStage(c))

OnChannelClosed(c) == TryComplete(QuitThreads(DetachChannelWatchers(c), {"io"}))

OnForceTimer(c) ==
  TryComplete(QuitThreads(DetachChannelWatchers(TimeOutStage(c)), Threads))

-----------------------------------------------------------------------------
(* The GUI thread *)

\* A handler of the coordinator has turned the context into c.
Becomes(c) ==
  /\ context' = [c EXCEPT !.close = FALSE]
  /\ mailbox' = IF c.close THEN [mailbox EXCEPT !["io"] = Append(@, "close")] ELSE mailbox
  /\ dropIsError' = (dropIsError /\ ~c.close)

\* requestRelease() through worker->stop().
RequestRelease ==
  /\ gui = "idle"
  /\ gui' = "stopping"
  /\ context' = [context EXCEPT !.pending = TRUE, !.deadline = TRUE]
  /\ worker' = "stopping"
  /\ mailbox' = [mailbox EXCEPT ![WorkThread] = Append(@, "stop")]
  /\ UNCHANGED <<inbox, running, delivering, blocked, socket, forced>>

QuitWorkerThread ==
  /\ gui = "stopping"
  /\ gui' = "quitting"
  /\ context' = QuitThreads(context, {WorkThread})
  /\ UNCHANGED <<inbox, mailbox, threads, socket, forced>>

EndOfRequestRelease ==
  /\ gui = "quitting"
  /\ gui' = "free"
  /\ Becomes(TryComplete([context EXCEPT !.stage = "StoppingWorker"]))
  /\ UNCHANGED <<inbox, threads, live, linger, forced>>

GuiHandles(e, c) ==
  /\ gui = "free" /\ inbox # <<>> /\ Head(inbox) = e
  /\ inbox' = Tail(inbox)
  /\ Becomes(c)
  /\ UNCHANGED <<gui, threads, live, linger, forced>>

HandleWorkerStopped == GuiHandles("workerStopped", OnWorkerStopped(context))
HandleWorkerThreadFinished ==
  GuiHandles("workerThreadFinished", OnWorkerThreadFinished(context))
HandleChannelThreadFinished ==
  GuiHandles("channelThreadFinished", TryComplete(context))
HandleChannelClosed == GuiHandles("closed", OnChannelClosed(context))

\* onTimeout()
DeadlineFires ==
  /\ gui = "free" /\ context.deadline
  /\ Becomes(TimeOutStage([context EXCEPT !.deadline = FALSE]))
  /\ UNCHANGED <<gui, inbox, threads, live, linger, forced>>

ForceTimerFires ==
  /\ gui = "free" /\ context.force
  /\ forced' = TRUE
  /\ Becomes(OnForceTimer(context))
  /\ UNCHANGED <<gui, inbox, threads, live, linger>>

-----------------------------------------------------------------------------
(* The threads and the channel *)

Blocked(t) == blocked /\ t = WorkThread

\* setState(s) on the channel's thread: the coordinator's state handler queues
\* "closed" when the state has become Closed; more is queued after it.
SetState(s, more) ==
  /\ context' = [context EXCEPT !.channel = s]
  /\ inbox' = inbox \o (IF s = "Closed" /\ context.watching THEN <<"closed">> ELSE <<>>) \o more

KeepState(more) == UNCHANGED context /\ inbox' = inbox \o more

StartBatch(t) ==
  /\ running[t] /\ ~delivering[t] /\ ~Blocked(t) /\ t \notin context.quit
  /\ mailbox[t] # <<>>
  /\ delivering' = [delivering EXCEPT ![t] = TRUE]
  /\ UNCHANGED <<gui, context, inbox, running, blocked, worker, mailbox, socket, forced>>

Delivers(t, e) ==
  /\ running[t] /\ delivering[t] /\ ~Blocked(t)
  /\ mailbox[t] # <<>> /\ Head(mailbox[t]) = e

\* The events m are left in the batch of t, which goes on as long as there are.
Left(t, m) ==
  /\ mailbox' = [mailbox EXCEPT ![t] = m]
  /\ delivering' = [delivering EXCEPT ![t] = m # <<>>]

\* What close() can come to on the channel's thread: Closed with nothing open,
\* Closed in the same call, or Closing with the linger timer armed.  A serial
\* port is closed in the same call.
CloseResults ==
  IF live
  THEN {[to |-> "Closed", live |-> FALSE, linger |-> linger, posted |-> <<"closing", "unconnected">>],
        [to |-> "Closing", live |-> TRUE, linger |-> TRUE, posted |-> <<>>]}
  ELSE {[to |-> "Closed", live |-> FALSE, linger |-> linger, posted |-> <<>>]}

\* close() on the channel's thread ended with r.
Closes(r, more) ==
  /\ SetState(r.to, more)
  /\ live' = r.live /\ linger' = r.linger /\ dropIsError' = FALSE

\* close() from a worker's thread of its own, where the events w are left: it is
\* posted, or it only sets the state when the channel's thread has ended.
ClosesFromWorker(more, w) ==
  /\ IF running["io"] THEN KeepState(more) ELSE SetState("Closed", more)
  /\ mailbox' = [mailbox EXCEPT !["work"] = w,
                    !["io"] = IF running["io"] THEN Append(@, "close") ELSE @]
  /\ delivering' = [delivering EXCEPT !["work"] = w # <<>>]
  /\ dropIsError' = FALSE
  /\ UNCHANGED <<live, linger>>

DeliverClose ==
  /\ Delivers("io", "close")
  /\ \E r \in CloseResults :
       Closes(r, <<>>) /\ Left("io", Tail(mailbox["io"]) \o r.posted)
  /\ UNCHANGED <<gui, running, blocked, worker, forced>>

\* handleStopInThread(): disconnect() if the channel is open, then stopped.
DeliverStop ==
  /\ Delivers(WorkThread, "stop")
  /\ worker' = "stopped"
  /\ \/ /\ channel # "Open"
        /\ KeepState(<<"workerStopped">>)
        /\ Left(WorkThread, Tail(mailbox[WorkThread]))
        /\ UNCHANGED socket
     \/ /\ channel = "Open" /\ WorkThread = "io"
        /\ \E r \in CloseResults :
             Closes(r, <<"workerStopped">>) /\ Left("io", Tail(mailbox["io"]) \o r.posted)
     \/ /\ channel = "Open" /\ WorkThread # "io"
        /\ ClosesFromWorker(<<"workerStopped">>, Tail(mailbox["work"]))
  /\ UNCHANGED <<gui, running, blocked, forced>>

\* onConnected(), whatever the state has become since the socket connected.
DeliverConnected ==
  /\ Delivers("io", "connected")
  /\ Left("io", Tail(mailbox["io"]))
  /\ SetState("Open", <<>>) /\ dropIsError' = TRUE
  /\ UNCHANGED <<gui, running, blocked, worker, live, linger, forced>>

\* onStateChanged(ClosingState): Error is sticky.
DeliverClosing ==
  /\ Delivers("io", "closing")
  /\ Left("io", Tail(mailbox["io"]))
  /\ IF channel = "Error" THEN KeepState(<<>>) ELSE SetState("Closing", <<>>)
  /\ UNCHANGED <<gui, running, blocked, worker, socket, forced>>

\* onStateChanged(UnconnectedState)
DeliverUnconnected ==
  /\ Delivers("io", "unconnected")
  /\ Left("io", Tail(mailbox["io"]))
  /\ IF channel = "Error"
     THEN KeepState(<<>>) /\ UNCHANGED <<live, linger>>
     ELSE /\ live' = FALSE /\ linger' = FALSE
          /\ IF channel = "Closed" THEN KeepState(<<>>) ELSE SetState("Closed", <<>>)
  /\ UNCHANGED <<gui, running, blocked, worker, dropIsError, forced>>

\* onSocketError()
DeliverError ==
  /\ Delivers("io", "error")
  /\ Left("io", Tail(mailbox["io"]))
  /\ IF channel \in {"Opening", "Open"} \/ (channel = "Closed" /\ dropIsError)
     THEN dropIsError' = FALSE /\ SetState("Error", <<>>)
     ELSE KeepState(<<>>) /\ UNCHANGED dropIsError
  /\ UNCHANGED <<gui, running, blocked, worker, live, linger, forced>>

\* Timers and sockets are served between two batches.
IoPolls == running["io"] /\ ~delivering["io"] /\ ~Blocked("io")

PostToIo(posted) == mailbox' = [mailbox EXCEPT !["io"] = @ \o posted]

\* onLingerTimeout()
LingerFires ==
  /\ IoPolls /\ linger
  /\ linger' = FALSE /\ live' = FALSE /\ dropIsError' = FALSE
  /\ IF channel = "Closed" THEN KeepState(<<>>) ELSE SetState("Closed", <<>>)
  /\ PostToIo(IF live THEN <<"unconnected">> ELSE <<>>)
  /\ UNCHANGED <<gui, threads, forced>>

\* connectTimer_
ConnectTimesOut ==
  /\ IoPolls /\ live /\ channel = "Opening"
  /\ live' = FALSE /\ dropIsError' = FALSE
  /\ SetState("Error", <<>>)
  /\ PostToIo(<<"unconnected">>)
  /\ UNCHANGED <<gui, threads, linger, forced>>

SocketConnects ==
  /\ IoPolls /\ live /\ channel = "Opening"
  /\ \A i \in DOMAIN mailbox["io"] : mailbox["io"][i] # "connected"
  /\ PostToIo(<<"connected">>)
  /\ UNCHANGED <<gui, context, inbox, threads, socket, forced>>

\* The peer drops the connection, or a graceful close comes through.
SocketEnds ==
  /\ IoPolls /\ live
  /\ live' = FALSE
  /\ \E posted \in {<<"unconnected">>, <<"unconnected", "error">>, <<"error", "unconnected">>} :
       PostToIo(posted)
  /\ UNCHANGED <<gui, context, inbox, threads, linger, dropIsError, forced>>

\* ensureConnected() returns: the channel is open, or close() is called.
OpenReturns ==
  /\ blocked
  /\ blocked' = FALSE
  /\ \/ /\ channel = "Open"
        /\ KeepState(<<>>) /\ Left(WorkThread, mailbox[WorkThread])
        /\ UNCHANGED socket
     \/ /\ channel # "Open" /\ WorkThread = "io"
        /\ \E r \in CloseResults :
             Closes(r, <<>>) /\ Left("io", mailbox["io"] \o r.posted)
     \/ /\ channel # "Open" /\ WorkThread # "io"
        /\ ClosesFromWorker(<<>>, mailbox["work"])
  /\ UNCHANGED <<gui, running, worker, forced>>

\* The loop has seen quit(): what is still posted is lost.
ThreadFinishes(t) ==
  /\ running[t] /\ ~delivering[t] /\ ~Blocked(t) /\ t \in context.quit
  /\ running' = [running EXCEPT ![t] = FALSE]
  /\ inbox' = inbox \o (IF t = WorkThread THEN <<"workerThreadFinished">> ELSE <<>>)
                    \o (IF t = "io" THEN <<"channelThreadFinished">> ELSE <<>>)
  /\ UNCHANGED <<gui, context, delivering, blocked, worker, mailbox, socket, forced>>

-----------------------------------------------------------------------------

\* The channel as a session leaves it, with a socket or without.
Init ==
  /\ gui = "idle" /\ inbox = <<>> /\ forced = FALSE
  /\ worker = "running"
  /\ \E s \in {"Closed", "Opening", "Open", "Closing", "Error"}, w \in WorkThreads :
       /\ context = [stage |-> "Initial", pending |-> FALSE, workerStopped |-> FALSE,
                     shutdownStarted |-> FALSE, watching |-> FALSE, force |-> FALSE,
                     deadline |-> FALSE, completed |-> 0, timedOut |-> FALSE,
                     destroyed |-> "no", quit |-> {}, close |-> FALSE, channel |-> s,
                     workThread |-> w]
       /\ live = (s \in {"Opening", "Open", "Closing"})
       /\ linger = (s = "Closing")
       /\ dropIsError = (s \in {"Opening", "Open"})
       /\ blocked = (s = "Opening")
  /\ running = [t \in Threads |-> TRUE]
  /\ mailbox = [t \in Threads |-> <<>>]
  /\ delivering = [t \in Threads |-> blocked /\ t = WorkThread]

Requesting == RequestRelease \/ QuitWorkerThread \/ EndOfRequestRelease

Handling ==
  \/ HandleWorkerStopped \/ HandleWorkerThreadFinished
  \/ HandleChannelThreadFinished \/ HandleChannelClosed

Timers == DeadlineFires \/ ForceTimerFires

InThread ==
  \/ DeliverClose \/ DeliverStop \/ DeliverConnected \/ DeliverClosing
  \/ DeliverUnconnected \/ DeliverError \/ OpenReturns

Sockets == LingerFires \/ ConnectTimesOut \/ SocketConnects \/ SocketEnds

Loop(t) == t \in Threads /\ (StartBatch(t) \/ ThreadFinishes(t))

Next ==
  \/ Requesting \/ Handling \/ Timers \/ InThread
  \/ Sockets \/ \E t \in {"io", "work"} : Loop(t)

Spec == Init /\ [][Next]_vars

\* Every thread runs what it has begun, its events and its timers.
FairSpec ==
  /\ Spec
  /\ WF_vars(QuitWorkerThread \/ EndOfRequestRelease) /\ WF_vars(Handling)
  /\ WF_vars(DeadlineFires) /\ WF_vars(InThread) /\ WF_vars(LingerFires)
  /\ \A t \in {"io", "work"} : WF_vars(Loop(t))

-----------------------------------------------------------------------------
(* Properties *)

Events == {"close", "stop", "connected", "closing", "unconnected", "error"}

ContextSet ==
  [stage : DOMAIN StageNo, pending : BOOLEAN, workerStopped : BOOLEAN,
   shutdownStarted : BOOLEAN, watching : BOOLEAN, force : BOOLEAN, deadline : BOOLEAN,
   completed : Nat, timedOut : BOOLEAN, destroyed : {"no", "Closed", "Opening", "Open",
   "Closing", "Error"}, quit : SUBSET {"io", "work"}, close : {FALSE},
   channel : {"Closed", "Opening", "Open", "Closing", "Error"},
   workThread : WorkThreads]

TypeOK ==
  /\ gui \in {"idle", "stopping", "quitting", "free"}
  /\ context \in ContextSet
  /\ inbox \in Seq({"workerStopped", "workerThreadFinished", "channelThreadFinished", "closed"})
  /\ running \in [Threads -> BOOLEAN] /\ delivering \in [Threads -> BOOLEAN]
  /\ mailbox \in [Threads -> Seq(Events)]
  /\ blocked \in BOOLEAN /\ worker \in {"running", "stopping", "stopped"}
  /\ live \in BOOLEAN /\ linger \in BOOLEAN /\ dropIsError \in BOOLEAN /\ forced \in BOOLEAN

\* releaseCompleted() is emitted once per requestRelease(), when the release
\* leaves the pending list, through whichever handlers it is reached.
CompletedOnce ==
  context.completed = IF gui = "idle" \/ context.pending THEN 0 ELSE 1

\* Worker, client and channel are destroyed only when every thread that could
\* run them has been joined, and nothing of the release can still call back
\* (ModbusClient.h "Worker thread must be fully joined").
JoinedBeforeDestroyed ==
  context.destroyed # "no" =>
    /\ \A t \in Threads : ~running[t]
    /\ ~context.watching /\ ~context.force /\ ~context.deadline

\* Unless the force timer has given up on it, the channel's thread ends only
\* after the socket has been closed on it (beginChannelShutdown()).
ThreadOutlivesSocket == ~running["io"] => ~live \/ forced

\* A channel that is not Closed is leaked instead of destroyed (finalize()).
DestroyedOnlyClosed == context.destroyed \in {"no", "Closed"}

\* Every release completes, whatever the socket does and whichever events the
\* end of a thread swallows.
ReleaseCompletes == gui = "stopping" ~> context.completed = 1

\* A release is reported and taken down once, and only when nobody can run it; with a
\* thread of its own for the worker, the channel's thread outlives the socket.
ReleaseSafe ==
  /\ TypeOK /\ CompletedOnce /\ JoinedBeforeDestroyed
  /\ WorkThread = "work" => ThreadOutlivesSocket

=============================================================================
