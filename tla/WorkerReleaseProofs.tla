-------------------------- MODULE WorkerReleaseProofs --------------------------
(***************************************************************************)
(* ReleaseSafe of WorkerRelease for every choice of the worker's thread,   *)
(* every length of the queues and every order of handlers, timers and      *)
(* thread steps.                                                           *)
(*                                                                         *)
(* The argument.  The pending release is fresh before the request, living  *)
(* until finalize() and taken down after it; only TryComplete reaches      *)
(* finalize(), with every thread joined, and what it leaves has no timer   *)
(* and no watcher that could bring a handler back to a living stage.  With *)
(* a thread of its own for the worker, whatever lets the channel's thread  *)
(* quit - a channel that is Closed, a "closed" on its way to the           *)
(* coordinator - comes after the socket is gone, which stays gone.         *)
(***************************************************************************)
EXTENDS WorkerRelease, TLAPS

-----------------------------------------------------------------------------
(* The inductive invariant *)

\* A context as the handlers pass it on: ContextSet with a close() still to post.
HandlerContext ==
  [stage : DOMAIN StageNo, pending : BOOLEAN, workerStopped : BOOLEAN,
   shutdownStarted : BOOLEAN, watching : BOOLEAN, force : BOOLEAN, deadline : BOOLEAN,
   completed : Nat, timedOut : BOOLEAN, destroyed : {"no", "Closed", "Opening", "Open",
   "Closing", "Error"}, quit : SUBSET {"io", "work"}, close : BOOLEAN,
   channel : {"Closed", "Opening", "Open", "Closing", "Error"},
   workThread : WorkThreads]

Quiet(c) == c.watching = FALSE /\ c.force = FALSE /\ c.deadline = FALSE

Joined == \A t \in Threads : running[t] = FALSE

\* Before the request, until finalize(), and after it.
Fresh(c) ==
  c.stage = "Initial" /\ c.pending = FALSE /\ c.completed = 0 /\ c.destroyed = "no" /\ Quiet(c)
Living(c) ==
  c.stage # "Finalized" /\ c.pending = TRUE /\ c.completed = 0 /\ c.destroyed = "no"
TakenDown(c) ==
  c.stage = "Finalized" /\ c.pending = FALSE /\ c.completed = 1 /\ c.destroyed # "no" /\ Quiet(c)

Life ==
  \/ gui = "idle" /\ Fresh(context)
  \/ gui # "idle" /\ Living(context)
  \/ gui = "free" /\ TakenDown(context) /\ Joined

\* The socket is closed, or given up on.
SocketIsGone == live = FALSE \/ forced = TRUE

Announced == \E i \in 1..Len(inbox) : inbox[i] = "closed"

\* What lets the channel's thread end comes after the socket is gone.
LetsGo(c) == c.channel = "Closed" \/ "io" \in c.quit
SocketFirst ==
  WorkThread = "work" =>
    (LetsGo(context) \/ running["io"] = FALSE \/ Announced => SocketIsGone)

RInv == TypeOK /\ Life /\ SocketFirst

-----------------------------------------------------------------------------
(* The handlers on a context *)

\* The context a handler works on, and how it may leave it.
Sound(c) ==
  /\ c \in HandlerContext /\ c.workThread = WorkThread
  /\ Living(c) \/ (TakenDown(c) /\ Joined)

Careful(c) == WorkThread = "work" /\ LetsGo(c) => SocketIsGone

ThreadsSound ==
  /\ WorkThread \in {"io", "work"} /\ running \in [Threads -> BOOLEAN]
  /\ WorkThread = "work" /\ running["io"] = FALSE => SocketIsGone

\* quit() ends no release and, but for the channel's thread, lets no socket go.
LEMMA QuitKeeps ==
  ASSUME NEW c, Sound(c), NEW T \in SUBSET {"io", "work"}
  PROVE  /\ Sound(QuitThreads(c, T))
         /\ Living(c) => Living(QuitThreads(c, T))
         /\ Careful(c) /\ ("io" \notin T \/ WorkThread = "io" \/ SocketIsGone) => Careful(QuitThreads(c, T))
         /\ QuitThreads(c, T).channel = c.channel
<1> DEFINE d == QuitThreads(c, T)
<1>1. d \in HandlerContext /\ d.quit = c.quit \cup T
  BY DEF Sound, HandlerContext, QuitThreads
<1>2. /\ d.workThread = c.workThread /\ d.channel = c.channel /\ d.stage = c.stage
      /\ d.pending = c.pending /\ d.completed = c.completed /\ d.destroyed = c.destroyed
      /\ d.watching = c.watching /\ d.force = c.force /\ d.deadline = c.deadline
  BY DEF Sound, HandlerContext, QuitThreads
<1> QED BY <1>1, <1>2 DEF Sound, Living, TakenDown, Quiet, Careful, LetsGo

\* finalize() takes a release down when its threads have been joined, once.
LEMMA FinalizeKeeps ==
  ASSUME NEW c, Sound(c), Joined
  PROVE  Sound(Finalize(c)) /\ (Careful(c) => Careful(Finalize(c)))
<1>1. CASE c.stage = "Finalized" \/ c.pending = FALSE
  BY <1>1 DEF Finalize
<1>2. CASE c.stage # "Finalized" /\ c.pending = TRUE
  <2> DEFINE n == DetachChannelWatchers(c)
             d == [n EXCEPT !.stage = "Finalized", !.pending = FALSE, !.deadline = FALSE,
                            !.completed = @ + 1, !.destroyed = c.channel]
  <2>1. n \in HandlerContext BY DEF DetachChannelWatchers, Sound, HandlerContext
  <2>2. /\ n.workThread = c.workThread /\ n.channel = c.channel /\ n.quit = c.quit
        /\ n.completed = c.completed /\ n.watching = FALSE /\ n.force = FALSE
    BY DEF DetachChannelWatchers, Sound, HandlerContext
  <2>3. Finalize(c) = d BY <1>2 DEF Finalize
  <2> HIDE DEF n
  <2>4. c.completed = 0 /\ c.channel # "no" /\ c.channel \in {"Closed", "Opening", "Open", "Closing", "Error"}
    BY <1>2 DEF Sound, Living, TakenDown, HandlerContext
  <2>5. d \in HandlerContext
    <3> DEFINE e == [n EXCEPT !.stage = "Finalized", !.pending = FALSE, !.deadline = FALSE]
    <3>1. e \in HandlerContext BY <2>1 DEF HandlerContext, StageNo
    <3>2. d = [e EXCEPT !.completed = n.completed + 1, !.destroyed = c.channel] OBVIOUS
    <3>3. n.completed + 1 \in Nat BY <2>1 DEF HandlerContext
    <3> HIDE DEF e, d
    <3> QED BY <2>4, <3>1, <3>2, <3>3 DEF HandlerContext
  <2>6. /\ d.workThread = c.workThread /\ d.channel = c.channel /\ d.quit = c.quit
        /\ d.stage = "Finalized" /\ d.pending = FALSE /\ d.completed = 1
        /\ d.destroyed = c.channel /\ d.watching = FALSE /\ d.force = FALSE /\ d.deadline = FALSE
    BY <2>1, <2>2, <2>4 DEF HandlerContext
  <2> HIDE DEF d
  <2>7. Sound(d) BY <2>4, <2>5, <2>6 DEF Sound, TakenDown, Quiet
  <2>8. Careful(c) => Careful(d) BY <2>6 DEF Careful, LetsGo
  <2> QED BY <2>3, <2>7, <2>8
<1> QED BY <1>1, <1>2 DEF Sound, HandlerContext

\* tryCompleteRelease() finalizes over joined threads only.
LEMMA TryKeeps ==
  ASSUME NEW c, Sound(c), ThreadsSound
  PROVE  Sound(TryComplete(c)) /\ (Careful(c) => Careful(TryComplete(c)))
<1>1. CASE \A t \in Threads : ~running[t]
  <2>1. Joined BY <1>1 DEF Joined, ThreadsSound
  <2> QED BY <1>1, <2>1, FinalizeKeeps DEF TryComplete
<1>2. CASE ~(\A t \in Threads : ~running[t])
           /\ c.stage = "StoppingWorker" /\ (c.workerStopped \/ ~running[WorkThread])
  <2> DEFINE d == [c EXCEPT !.stage = "JoiningThreads"]
  <2>1. d \in HandlerContext BY DEF Sound, HandlerContext, StageNo
  <2>2. /\ d.workThread = c.workThread /\ d.channel = c.channel /\ d.quit = c.quit
        /\ d.stage = "JoiningThreads" /\ d.pending = c.pending /\ d.completed = c.completed
        /\ d.destroyed = c.destroyed
    BY DEF Sound, HandlerContext
  <2>3. Living(c) BY <1>2 DEF Sound, TakenDown
  <2>4. Sound(d) /\ (Careful(c) => Careful(d))
    BY <2>1, <2>2, <2>3 DEF Sound, Living, Careful, LetsGo
  <2> QED BY <1>2, <2>4 DEF TryComplete
<1>3. CASE ~(\A t \in Threads : ~running[t])
           /\ ~(c.stage = "StoppingWorker" /\ (c.workerStopped \/ ~running[WorkThread]))
  BY <1>3 DEF TryComplete
<1> QED BY <1>1, <1>2, <1>3

\* beginChannelShutdown() lets the thread go only over a Closed channel.
LEMMA ShutdownKeeps ==
  ASSUME NEW c, Sound(c), Living(c), ThreadsSound
  PROVE  /\ Sound(BeginChannelShutdown(c))
         /\ Careful(c) => Careful(BeginChannelShutdown(c))
<1> DEFINE d == [c EXCEPT !.shutdownStarted = TRUE]
<1>1. Sound(d) /\ Living(d) /\ (Careful(c) => Careful(d)) /\ d.channel = c.channel
  <2>1. d \in HandlerContext BY DEF Sound, HandlerContext
  <2>2. /\ d.workThread = c.workThread /\ d.channel = c.channel /\ d.quit = c.quit
        /\ d.stage = c.stage /\ d.pending = c.pending /\ d.completed = c.completed
        /\ d.destroyed = c.destroyed
    BY DEF Sound, HandlerContext
  <2> QED BY <2>1, <2>2 DEF Sound, Living, Careful, LetsGo
<1>2. CASE c.shutdownStarted
  BY <1>2 DEF BeginChannelShutdown
<1>3. CASE ~c.shutdownStarted /\ ~running["io"]
  <2> DEFINE e == [d EXCEPT !.channel = "Closed"]
  <2>1. e \in HandlerContext BY <1>1 DEF Sound, HandlerContext
  <2>2. /\ e.workThread = d.workThread /\ e.stage = d.stage /\ e.pending = d.pending
        /\ e.completed = d.completed /\ e.destroyed = d.destroyed
    BY <1>1 DEF Sound, HandlerContext
  <2>3. Sound(e) BY <1>1, <2>1, <2>2 DEF Sound, Living
  <2>4. "io" \in Threads BY DEF Threads
  <2>5. Careful(e) BY <1>3, <2>4 DEF Careful, ThreadsSound
  <2>6. BeginChannelShutdown(c) = TryComplete(e) BY <1>3 DEF BeginChannelShutdown
  <2> HIDE DEF e
  <2> QED BY <2>3, <2>5, <2>6, TryKeeps
<1>4. CASE ~c.shutdownStarted /\ running["io"] /\ d.channel = "Closed"
  <2> HIDE DEF d
  <2> DEFINE e == QuitThreads(d, {"io"})
  <2>1. Sound(e) BY <1>1, QuitKeeps
  <2>2. Careful(c) => Careful(e)
    <3> SUFFICES ASSUME Careful(d) PROVE Careful(e) BY <1>1
    <3>1. WorkThread = "io" \/ SocketIsGone BY <1>4 DEF Careful, LetsGo, ThreadsSound
    <3> QED BY <1>1, <3>1, QuitKeeps
  <2>3. BeginChannelShutdown(c) = TryComplete(e) BY <1>4 DEF BeginChannelShutdown, d
  <2> HIDE DEF e
  <2> QED BY <2>1, <2>2, <2>3, TryKeeps
<1>5. CASE ~c.shutdownStarted /\ running["io"] /\ d.channel # "Closed"
  <2> DEFINE e == [d EXCEPT !.watching = TRUE, !.close = TRUE, !.force = TRUE]
  <2>1. e \in HandlerContext BY <1>1 DEF Sound, HandlerContext
  <2>2. /\ e.workThread = d.workThread /\ e.channel = d.channel /\ e.quit = d.quit
        /\ e.stage = d.stage /\ e.pending = d.pending /\ e.completed = d.completed
        /\ e.destroyed = d.destroyed
    BY <1>1 DEF Sound, HandlerContext
  <2>3. Sound(e) /\ (Careful(d) => Careful(e))
    BY <1>1, <2>1, <2>2 DEF Sound, Living, Careful, LetsGo
  <2>4. BeginChannelShutdown(c) = e BY <1>5 DEF BeginChannelShutdown
  <2> QED BY <1>1, <2>3, <2>4
<1> QED BY <1>2, <1>3, <1>4, <1>5

\* advanceStage(ClosingChannel) never comes back from Finalized.
LEMMA CloseStageKeeps ==
  ASSUME NEW c, Sound(c), ThreadsSound
  PROVE  Sound(CloseStage(c)) /\ (Careful(c) => Careful(CloseStage(c)))
<1>1. CASE StageNo[c.stage] >= StageNo["ClosingChannel"]
  BY <1>1 DEF CloseStage
<1>2. CASE ~(StageNo[c.stage] >= StageNo["ClosingChannel"])
  <2> DEFINE d == [c EXCEPT !.stage = "ClosingChannel"]
  <2>1. c.stage # "Finalized" BY <1>2 DEF StageNo
  <2>2. Living(c) BY <2>1 DEF Sound, TakenDown
  <2>3. d \in HandlerContext BY DEF Sound, HandlerContext, StageNo
  <2>4. /\ d.workThread = c.workThread /\ d.channel = c.channel /\ d.quit = c.quit
        /\ d.stage = "ClosingChannel" /\ d.pending = c.pending /\ d.completed = c.completed
        /\ d.destroyed = c.destroyed
    BY DEF Sound, HandlerContext
  <2>5. Sound(d) /\ Living(d) /\ (Careful(c) => Careful(d))
    BY <2>2, <2>3, <2>4 DEF Sound, Living, Careful, LetsGo
  <2>6. CloseStage(c) = BeginChannelShutdown(d) BY <1>2 DEF CloseStage
  <2> HIDE DEF d
  <2> QED BY <2>5, <2>6, ShutdownKeeps
<1> QED BY <1>1, <1>2

\* So does advanceStage(TimedOut).
LEMMA TimeOutKeeps ==
  ASSUME NEW c, Sound(c), ThreadsSound
  PROVE  Sound(TimeOutStage(c)) /\ (Careful(c) => Careful(TimeOutStage(c)))
<1>1. CASE c.stage = "Finalized"
  BY <1>1 DEF TimeOutStage
<1>2. CASE c.stage # "Finalized"
  <2> DEFINE d == [c EXCEPT !.stage = "TimedOut", !.timedOut = TRUE]
             e == QuitThreads(d, {WorkThread})
  <2>1. Living(c) BY <1>2 DEF Sound, TakenDown
  <2>2. d \in HandlerContext BY DEF Sound, HandlerContext, StageNo
  <2>3. /\ d.workThread = c.workThread /\ d.channel = c.channel /\ d.quit = c.quit
        /\ d.stage = "TimedOut" /\ d.pending = c.pending /\ d.completed = c.completed
        /\ d.destroyed = c.destroyed
    BY DEF Sound, HandlerContext
  <2>4. Sound(d) /\ Living(d) /\ (Careful(c) => Careful(d))
    BY <2>1, <2>2, <2>3 DEF Sound, Living, Careful, LetsGo
  <2>5. TimeOutStage(c) = BeginChannelShutdown(e) BY <1>2 DEF TimeOutStage
  <2> HIDE DEF d
  <2>6. {WorkThread} \in SUBSET {"io", "work"} /\ ("io" \notin {WorkThread} \/ WorkThread = "io")
    BY DEF ThreadsSound
  <2>7. Sound(e) /\ Living(e) /\ (Careful(d) => Careful(e))
    BY <2>4, <2>6, QuitKeeps
  <2> HIDE DEF e
  <2> QED BY <2>4, <2>5, <2>7, ShutdownKeeps
<1> QED BY <1>1, <1>2

-----------------------------------------------------------------------------
(* What a step keeps *)

Notices == {"workerStopped", "workerThreadFinished", "channelThreadFinished", "closed"}
Calls   == {"workerStopped", "workerThreadFinished", "channelThreadFinished"}
ChannelStates == {"Closed", "Opening", "Open", "Closing", "Error"}

LEMMA CallsAreNotices ==
  ASSUME NEW more \in Seq(Calls)
  PROVE  more \in Seq(Notices)
<1>1. Len(more) \in Nat /\ DOMAIN more = 1..Len(more) /\ \A i \in 1..Len(more) : more[i] \in Calls
  OBVIOUS
<1>2. more = [i \in 1..Len(more) |-> more[i]] OBVIOUS
<1>3. \A i \in 1..Len(more) : more[i] \in Notices BY <1>1 DEF Calls, Notices
<1> QED BY <1>1, <1>2, <1>3

\* Calls put behind the queue bring no "closed" into it.
LEMMA OnlyFromBefore ==
  ASSUME NEW q \in Seq(Notices), NEW more \in Seq(Calls),
         NEW i \in 1..Len(q \o more), (q \o more)[i] = "closed"
  PROVE  i \in 1..Len(q) /\ q[i] = "closed"
<1>1. Len(q) \in Nat /\ Len(more) \in Nat /\ Len(q \o more) = Len(q) + Len(more) OBVIOUS
<1>2. CASE i <= Len(q)
  BY <1>1, <1>2
<1>3. CASE i > Len(q)
  <2>1. i - Len(q) \in 1..Len(more) BY <1>1, <1>3
  <2>2. (q \o more)[i] = more[i - Len(q)] BY <1>1, <1>3
  <2>3. more[i - Len(q)] \in Calls BY <2>1
  <2> QED BY <2>2, <2>3 DEF Calls
<1> QED BY <1>1, <1>2, <1>3

LEMMA InvTypes ==
  ASSUME RInv
  PROVE  /\ context \in ContextSet /\ context \in HandlerContext /\ ThreadsSound
         /\ context.channel \in ChannelStates /\ context.watching \in BOOLEAN
         /\ WorkThread \in Threads /\ "io" \in Threads
         /\ inbox \in Seq(Notices) /\ mailbox \in [Threads -> Seq(Events)]
         /\ delivering \in [Threads -> BOOLEAN] /\ running \in [Threads -> BOOLEAN]
         /\ live \in BOOLEAN /\ Careful(context)
         /\ \A t \in Threads : mailbox[t] \in Seq(Events)
<1>1. context \in ContextSet BY DEF RInv, TypeOK
<1>2. context \in HandlerContext BY <1>1 DEF ContextSet, HandlerContext
<1>3. WorkThread \in {"io", "work"}
  BY <1>1, WorkThreadsAssumption DEF WorkThread, ContextSet
<1>4. /\ inbox \in Seq(Notices) /\ mailbox \in [Threads -> Seq(Events)]
      /\ delivering \in [Threads -> BOOLEAN] /\ running \in [Threads -> BOOLEAN]
      /\ live \in BOOLEAN
  BY DEF RInv, TypeOK, Notices
<1>5. ThreadsSound BY <1>3, <1>4 DEF ThreadsSound, RInv, SocketFirst
<1>6. Careful(context) BY DEF Careful, RInv, SocketFirst
<1>7. context.channel \in ChannelStates /\ context.watching \in BOOLEAN
  BY <1>1 DEF ContextSet, ChannelStates
<1> QED BY <1>1, <1>2, <1>4, <1>5, <1>6, <1>7 DEF Threads

\* After the request the pending release is one a handler may be given.
LEMMA ContextIsSound ==
  ASSUME RInv, gui = "free"
  PROVE  Sound(context)
BY InvTypes DEF RInv, Life, Sound, WorkThread

\* A step of the GUI thread: the context has become what a handler left.
LEMMA HandlerKeeps ==
  ASSUME RInv, NEW c, Sound(c), Becomes(c), gui' = "free", UNCHANGED <<threads, live, linger>>,
         inbox' \in Seq(Notices), Announced' => Announced, forced' \in BOOLEAN, forced => forced',
         Careful(c) \/ forced' = TRUE
  PROVE  RInv'
<1>1. context' = [c EXCEPT !.close = FALSE] BY DEF Becomes
<1>2. context' \in ContextSet BY <1>1 DEF Sound, HandlerContext, ContextSet
<1>3. /\ context'.workThread = c.workThread /\ context'.channel = c.channel
      /\ context'.quit = c.quit /\ context'.stage = c.stage /\ context'.pending = c.pending
      /\ context'.completed = c.completed /\ context'.destroyed = c.destroyed
      /\ context'.watching = c.watching /\ context'.force = c.force
      /\ context'.deadline = c.deadline
  BY <1>1 DEF Sound, HandlerContext
<1>4. WorkThread' = WorkThread /\ Threads' = Threads
  BY <1>3 DEF Sound, WorkThread, Threads
<1>5. Life'
  <2>1. CASE Living(c) BY <2>1, <1>3 DEF Life, Living
  <2>2. CASE TakenDown(c) /\ Joined
    BY <2>2, <1>3, <1>4 DEF Life, TakenDown, Quiet, Joined, threads
  <2> QED BY <2>1, <2>2 DEF Sound
<1>6. SocketFirst'
  <2>1. CASE forced' = TRUE BY <2>1 DEF SocketFirst, SocketIsGone
  <2>2. CASE Careful(c)
    BY <2>2, <1>3, <1>4 DEF SocketFirst, SocketIsGone, Careful, LetsGo, RInv, threads
  <2> QED BY <2>1, <2>2
<1>7. mailbox' \in [Threads -> Seq(Events)]
  <2>1. mailbox["io"] \in Seq(Events) BY InvTypes
  <2>2. Append(mailbox["io"], "close") \in Seq(Events) BY <2>1 DEF Events
  <2> QED BY <2>2, InvTypes DEF Becomes
<1>8. dropIsError' \in BOOLEAN BY DEF Becomes
<1>9. /\ running' = running /\ delivering' = delivering /\ blocked' = blocked
      /\ worker' = worker /\ live' = live /\ linger' = linger
  BY DEF threads
<1> QED
  BY <1>2, <1>4, <1>5, <1>6, <1>7, <1>8, <1>9 DEF RInv, TypeOK, Notices

\* A step of a thread or a socket, to a channel in state s: the release and the
\* threads are as they were, and what calls the channel Closed has closed the
\* socket or comes after its thread.
LEMMA ChannelKeeps ==
  ASSUME RInv, NEW s \in ChannelStates, NEW more \in Seq(Calls), SetState(s, more),
         UNCHANGED <<gui, running, forced>>, live' \in BOOLEAN, live' => live,
         s = "Closed" => live' = FALSE \/ running["io"] = FALSE
  PROVE  /\ context' \in ContextSet /\ inbox' \in Seq(Notices)
         /\ WorkThread' = WorkThread /\ Threads' = Threads /\ Life' /\ SocketFirst'
<1>1. context \in ContextSet BY InvTypes
<1>2. context' = [context EXCEPT !.channel = s] BY DEF SetState
<1>3. context' \in ContextSet BY <1>1, <1>2 DEF ContextSet, ChannelStates
<1>4. /\ context'.workThread = context.workThread /\ context'.channel = s
      /\ context'.quit = context.quit /\ context'.stage = context.stage
      /\ context'.pending = context.pending /\ context'.completed = context.completed
      /\ context'.destroyed = context.destroyed /\ context'.watching = context.watching
      /\ context'.force = context.force /\ context'.deadline = context.deadline
  BY <1>1, <1>2 DEF ContextSet
<1>5. WorkThread' = WorkThread /\ Threads' = Threads BY <1>4 DEF WorkThread, Threads
<1>6. Life'
  BY <1>4, <1>5 DEF RInv, Life, Fresh, Living, TakenDown, Quiet, Joined
<1> DEFINE said == IF s = "Closed" /\ context.watching THEN <<"closed">> ELSE <<>>
<1>7. said \in Seq(Notices) /\ more \in Seq(Notices) /\ inbox \in Seq(Notices)
  <2>1. <<"closed">> \in Seq(Notices) /\ <<>> \in Seq(Notices) BY DEF Notices
  <2> QED BY <2>1, CallsAreNotices, InvTypes
<1>8. inbox' = inbox \o said \o more BY DEF SetState
<1>9. inbox' \in Seq(Notices) BY <1>7, <1>8
<1>10. Announced' => Announced \/ s = "Closed"
  <2> SUFFICES ASSUME s # "Closed", NEW i \in 1..Len(inbox'), inbox'[i] = "closed"
               PROVE  \E k \in 1..Len(inbox) : inbox[k] = "closed"
    BY DEF Announced
  <2>1. inbox' = inbox \o more BY <1>7, <1>8
  <2> QED BY <2>1, <1>7, OnlyFromBefore
<1>11. SocketFirst'
  <2> SUFFICES ASSUME WorkThread = "work", LetsGo(context') \/ running["io"] = FALSE \/ Announced'
               PROVE  live' = FALSE \/ forced = TRUE
    BY <1>5 DEF SocketFirst, SocketIsGone
  <2>1. CASE s = "Closed"
    BY <2>1, InvTypes DEF ThreadsSound, SocketIsGone
  <2>2. CASE s # "Closed"
    <3>1. LetsGo(context) \/ running["io"] = FALSE \/ Announced
      BY <2>2, <1>4, <1>10 DEF LetsGo
    <3>2. live = FALSE \/ forced = TRUE BY <3>1 DEF RInv, SocketFirst, SocketIsGone
    <3> QED BY <3>2
  <2> QED BY <2>1, <2>2
<1> QED BY <1>3, <1>5, <1>6, <1>9, <1>11

\* The same for a step that leaves the channel's state alone.
LEMMA StateKeeps ==
  ASSUME RInv, NEW more \in Seq(Calls), KeepState(more),
         UNCHANGED <<gui, running, forced>>, live' \in BOOLEAN, live' => live
  PROVE  /\ context' \in ContextSet /\ inbox' \in Seq(Notices)
         /\ WorkThread' = WorkThread /\ Threads' = Threads /\ Life' /\ SocketFirst'
<1>1. context' = context /\ inbox' = inbox \o more BY DEF KeepState
<1>2. more \in Seq(Notices) /\ inbox \in Seq(Notices) BY InvTypes, CallsAreNotices
<1>3. Announced' => Announced
  <2> SUFFICES ASSUME NEW i \in 1..Len(inbox'), inbox'[i] = "closed"
               PROVE  \E k \in 1..Len(inbox) : inbox[k] = "closed"
    BY DEF Announced
  <2> QED BY <1>1, <1>2, OnlyFromBefore
<1>4. WorkThread' = WorkThread /\ Threads' = Threads BY <1>1 DEF WorkThread, Threads
<1>5. Life' BY <1>1, <1>4 DEF RInv, Life, Joined
<1>6. SocketFirst' BY <1>1, <1>3, <1>4 DEF RInv, SocketFirst, SocketIsGone
<1> QED BY <1>1, <1>2, <1>4, <1>5, <1>6, InvTypes

\* What is left of the mail of a thread, and what is posted to the channel's.
LEMMA LeftKeeps ==
  ASSUME RInv, NEW t \in Threads, NEW m \in Seq(Events), Left(t, m)
  PROVE  mailbox' \in [Threads -> Seq(Events)] /\ delivering' \in [Threads -> BOOLEAN]
BY InvTypes DEF Left

LEMMA PostKeeps ==
  ASSUME RInv, NEW m \in Seq(Events), PostToIo(m)
  PROVE  mailbox' \in [Threads -> Seq(Events)]
<1>1. mailbox["io"] \o m \in Seq(Events) BY InvTypes
<1> QED BY <1>1, InvTypes DEF PostToIo

\* close() says Closed only of a socket it has closed, and opens none.
LEMMA CloseResultsAre ==
  ASSUME RInv, NEW r \in CloseResults
  PROVE  /\ r.to \in ChannelStates /\ r.live \in BOOLEAN /\ r.linger \in BOOLEAN
         /\ r.posted \in Seq(Events) /\ (r.live => live) /\ (r.to = "Closed" => r.live = FALSE)
<1>1. linger \in BOOLEAN BY DEF RInv, TypeOK
<1>2. <<"closing", "unconnected">> \in Seq(Events) /\ <<>> \in Seq(Events) BY DEF Events
<1>3. live \in BOOLEAN BY InvTypes
<1>4. CASE live
  <2>1. CASE r = [to |-> "Closed", live |-> FALSE, linger |-> linger, posted |-> <<"closing", "unconnected">>]
    BY <2>1, <1>1, <1>2 DEF ChannelStates
  <2>2. CASE r = [to |-> "Closing", live |-> TRUE, linger |-> TRUE, posted |-> <<>>]
    BY <2>2, <1>2, <1>4 DEF ChannelStates
  <2> QED BY <1>4, <2>1, <2>2 DEF CloseResults
<1>5. CASE ~live
  <2>1. r = [to |-> "Closed", live |-> FALSE, linger |-> linger, posted |-> <<>>]
    BY <1>5 DEF CloseResults
  <2> QED BY <2>1, <1>1, <1>2 DEF ChannelStates
<1> QED BY <1>4, <1>5

\* An event taken from the mail leaves mail.
LEMMA RestIsMail ==
  ASSUME RInv, NEW t \in Threads, NEW e, Delivers(t, e)
  PROVE  Tail(mailbox[t]) \in Seq(Events)
BY InvTypes DEF Delivers

-----------------------------------------------------------------------------
(* Every step keeps the invariant *)

\* TypeOK of the next state, conjunct by conjunct.
LEMMA Assemble ==
  ASSUME gui' \in {"idle", "stopping", "quitting", "free"}, context' \in ContextSet,
         inbox' \in Seq(Notices), running' \in [Threads' -> BOOLEAN],
         delivering' \in [Threads' -> BOOLEAN], mailbox' \in [Threads' -> Seq(Events)],
         blocked' \in BOOLEAN, worker' \in {"running", "stopping", "stopped"},
         live' \in BOOLEAN, linger' \in BOOLEAN, dropIsError' \in BOOLEAN, forced' \in BOOLEAN,
         Life', SocketFirst'
  PROVE  RInv'
BY DEF RInv, TypeOK, Notices

LEMMA OtherTypes ==
  ASSUME RInv
  PROVE  /\ gui \in {"idle", "stopping", "quitting", "free"} /\ blocked \in BOOLEAN
         /\ worker \in {"running", "stopping", "stopped"} /\ linger \in BOOLEAN
         /\ dropIsError \in BOOLEAN /\ forced \in BOOLEAN
BY DEF RInv, TypeOK

LEMMA StepRequestRelease ==
  ASSUME RInv, RequestRelease
  PROVE  RInv'
<1> USE DEF RequestRelease, socket
<1>1. context \in ContextSet BY InvTypes
<1>2. context' \in ContextSet BY <1>1 DEF ContextSet
<1>3. /\ context'.workThread = context.workThread /\ context'.channel = context.channel
      /\ context'.quit = context.quit /\ context'.stage = context.stage
      /\ context'.pending = TRUE /\ context'.completed = context.completed
      /\ context'.destroyed = context.destroyed
  BY <1>1 DEF ContextSet
<1>4. WorkThread' = WorkThread /\ Threads' = Threads BY <1>3 DEF WorkThread, Threads
<1>5. Fresh(context) BY DEF RInv, Life
<1>6. Life' BY <1>3, <1>5 DEF Life, Fresh, Living
<1>7. SocketFirst' BY <1>3, <1>4 DEF RInv, SocketFirst, SocketIsGone, LetsGo, Announced
<1>8. mailbox' \in [Threads -> Seq(Events)]
  <2>1. mailbox[WorkThread] \in Seq(Events) BY InvTypes
  <2>2. Append(mailbox[WorkThread], "stop") \in Seq(Events) BY <2>1 DEF Events
  <2> QED BY <2>2, InvTypes
<1>9. /\ inbox' = inbox /\ running' = running /\ delivering' = delivering /\ blocked' = blocked
      /\ live' = live /\ linger' = linger /\ dropIsError' = dropIsError /\ forced' = forced
      /\ gui' = "stopping" /\ worker' = "stopping"
  OBVIOUS
<1> HIDE DEF RequestRelease
<1> QED BY <1>2, <1>4, <1>6, <1>7, <1>8, <1>9, InvTypes, OtherTypes, Assemble

\* Between stop() and quit() the release is living, and only the worker's thread quits.
LEMMA StepQuitWorkerThread ==
  ASSUME RInv, QuitWorkerThread
  PROVE  RInv'
<1> USE DEF QuitWorkerThread, socket, threads
<1>1. context \in ContextSet BY InvTypes
<1>2. WorkThread \in {"io", "work"} BY InvTypes DEF ThreadsSound
<1>3. context' = [context EXCEPT !.quit = @ \cup {WorkThread}] BY DEF QuitThreads
<1>4. context' \in ContextSet
  <2> DEFINE q == context.quit \cup {WorkThread}
  <2>1. q \in SUBSET {"io", "work"} BY <1>1, <1>2 DEF ContextSet
  <2>2. context' = [context EXCEPT !.quit = q] BY <1>3
  <2> HIDE DEF q, QuitWorkerThread
  <2> QED BY <1>1, <2>1, <2>2 DEF ContextSet
<1>5. /\ context'.workThread = context.workThread /\ context'.channel = context.channel
      /\ context'.quit = context.quit \cup {WorkThread} /\ context'.stage = context.stage
      /\ context'.pending = context.pending /\ context'.completed = context.completed
      /\ context'.destroyed = context.destroyed
  BY <1>1, <1>3 DEF ContextSet
<1>6. WorkThread' = WorkThread /\ Threads' = Threads BY <1>5 DEF WorkThread, Threads
<1>7. Living(context) BY DEF RInv, Life
<1>8. Life' BY <1>5, <1>7 DEF Life, Living
<1>9. SocketFirst' BY <1>5, <1>6 DEF RInv, SocketFirst, SocketIsGone, LetsGo, Announced
<1>10. /\ inbox' = inbox /\ running' = running /\ delivering' = delivering /\ blocked' = blocked
       /\ live' = live /\ linger' = linger /\ dropIsError' = dropIsError /\ forced' = forced
       /\ gui' = "quitting" /\ worker' = worker /\ mailbox' = mailbox
  OBVIOUS
<1> HIDE DEF QuitWorkerThread
<1> QED BY <1>4, <1>6, <1>8, <1>9, <1>10, InvTypes, OtherTypes, Assemble

LEMMA StepEndOfRequest ==
  ASSUME RInv, EndOfRequestRelease
  PROVE  RInv'
<1> DEFINE d == [context EXCEPT !.stage = "StoppingWorker"]
<1>1. context \in HandlerContext BY InvTypes
<1>2. d \in HandlerContext BY <1>1 DEF HandlerContext, StageNo
<1>3. /\ d.workThread = context.workThread /\ d.channel = context.channel
      /\ d.quit = context.quit /\ d.stage = "StoppingWorker" /\ d.pending = context.pending
      /\ d.completed = context.completed /\ d.destroyed = context.destroyed
  BY <1>1 DEF HandlerContext
<1>4. Living(context) BY DEF RInv, Life, EndOfRequestRelease
<1>5. Sound(d) BY <1>2, <1>3, <1>4 DEF Sound, Living, WorkThread
<1>6. Careful(d) BY <1>3, InvTypes DEF Careful, LetsGo
<1>7. EndOfRequestRelease => /\ Becomes(TryComplete(d)) /\ gui' = "free"
                             /\ UNCHANGED <<inbox, threads, live, linger, forced>>
  BY DEF EndOfRequestRelease
<1> HIDE DEF d
<1>8. Sound(TryComplete(d)) /\ Careful(TryComplete(d)) BY <1>5, <1>6, InvTypes, TryKeeps
<1>9. inbox' \in Seq(Notices) /\ (Announced' => Announced) /\ forced' \in BOOLEAN /\ (forced => forced')
  BY <1>7, InvTypes, OtherTypes DEF Announced
<1> QED BY <1>7, <1>8, <1>9, HandlerKeeps

\* Taking the oldest notice announces nothing new.
LEMMA TakingAnnouncesNothing ==
  ASSUME RInv, inbox # <<>>, inbox' = Tail(inbox)
  PROVE  inbox' \in Seq(Notices) /\ (Announced' => Announced)
<1>1. inbox \in Seq(Notices) BY InvTypes
<1>2. Tail(inbox) \in Seq(Notices) BY <1>1
<1>3. ASSUME NEW i \in 1..Len(Tail(inbox)), Tail(inbox)[i] = "closed"
      PROVE  \E k \in 1..Len(inbox) : inbox[k] = "closed"
  <2>1. i + 1 \in 1..Len(inbox) /\ inbox[i + 1] = Tail(inbox)[i] BY <1>1
  <2> QED BY <2>1, <1>3
<1> QED BY <1>2, <1>3 DEF Announced

LEMMA NoticeKeeps ==
  ASSUME RInv, NEW e, NEW c, GuiHandles(e, c), Sound(c), Careful(c)
  PROVE  RInv'
<1>1. /\ gui' = "free" /\ Becomes(c) /\ UNCHANGED <<threads, live, linger>> /\ forced' = forced
      /\ inbox # <<>> /\ inbox' = Tail(inbox)
  BY DEF GuiHandles
<1> QED BY <1>1, TakingAnnouncesNothing, OtherTypes, HandlerKeeps

\* Every handler leaves a context it could be given; those that let the thread
\* go do so for a socket that is gone.
LEMMA StepHandling ==
  ASSUME RInv, Handling
  PROVE  RInv'
<1>1. gui = "free" /\ Sound(context) /\ Careful(context) /\ ThreadsSound
      /\ context \in HandlerContext /\ WorkThread \in {"io", "work"}
  BY InvTypes, ContextIsSound
    DEF Handling, HandleWorkerStopped, HandleWorkerThreadFinished, HandleChannelThreadFinished,
        HandleChannelClosed, GuiHandles, ThreadsSound
<1>2. CASE HandleWorkerStopped
  <2> DEFINE d == [context EXCEPT !.workerStopped = TRUE]
             f == QuitThreads(d, {WorkThread})
  <2>1. d \in HandlerContext BY <1>1 DEF HandlerContext
  <2>2. /\ d.workThread = context.workThread /\ d.channel = context.channel
        /\ d.quit = context.quit /\ d.stage = context.stage /\ d.pending = context.pending
        /\ d.completed = context.completed /\ d.destroyed = context.destroyed
        /\ d.watching = context.watching /\ d.force = context.force
        /\ d.deadline = context.deadline
    BY <1>1 DEF HandlerContext
  <2>3. Sound(d) /\ Careful(d)
    BY <1>1, <2>1, <2>2 DEF Sound, Careful, LetsGo, Living, TakenDown, Quiet
  <2>4. OnWorkerStopped(context) = TryComplete(CloseStage(f)) BY DEF OnWorkerStopped
  <2> HIDE DEF d
  <2>5. Sound(f) /\ Careful(f)
    <3>1. {WorkThread} \in SUBSET {"io", "work"} /\ ("io" \notin {WorkThread} \/ WorkThread = "io")
      BY <1>1
    <3> QED BY <2>3, <3>1, QuitKeeps
  <2> HIDE DEF f
  <2>6. Sound(CloseStage(f)) /\ Careful(CloseStage(f)) BY <1>1, <2>5, CloseStageKeeps
  <2>7. Sound(TryComplete(CloseStage(f))) /\ Careful(TryComplete(CloseStage(f)))
    BY <1>1, <2>6, TryKeeps
  <2> QED BY <1>2, <2>4, <2>7, NoticeKeeps DEF HandleWorkerStopped
<1>3. CASE HandleWorkerThreadFinished
  <2> DEFINE d == IF context.workerStopped THEN context ELSE CloseStage(context)
  <2>1. Sound(d) /\ Careful(d) BY <1>1, CloseStageKeeps
  <2>2. OnWorkerThreadFinished(context) = TryComplete(d) BY DEF OnWorkerThreadFinished
  <2> HIDE DEF d
  <2>3. Sound(TryComplete(d)) /\ Careful(TryComplete(d)) BY <1>1, <2>1, TryKeeps
  <2> QED BY <1>3, <2>2, <2>3, NoticeKeeps DEF HandleWorkerThreadFinished
<1>4. CASE HandleChannelThreadFinished
  <2>1. Sound(TryComplete(context)) /\ Careful(TryComplete(context)) BY <1>1, TryKeeps
  <2> QED BY <1>4, <2>1, NoticeKeeps DEF HandleChannelThreadFinished
<1>5. CASE HandleChannelClosed
  <2> DEFINE d == DetachChannelWatchers(context)
             f == QuitThreads(d, {"io"})
  <2>1. Announced
    <3>1. inbox \in Seq(Notices) /\ inbox # <<>> /\ Head(inbox) = "closed"
      BY <1>5, InvTypes DEF HandleChannelClosed, GuiHandles
    <3>2. 1 \in 1..Len(inbox) /\ inbox[1] = "closed" BY <3>1
    <3> QED BY <3>2 DEF Announced
  <2>2. WorkThread = "io" \/ SocketIsGone BY <1>1, <2>1 DEF RInv, SocketFirst
  <2>3. d \in HandlerContext BY <1>1 DEF HandlerContext, DetachChannelWatchers
  <2>4. /\ d.workThread = context.workThread /\ d.channel = context.channel
        /\ d.quit = context.quit /\ d.stage = context.stage /\ d.pending = context.pending
        /\ d.completed = context.completed /\ d.destroyed = context.destroyed
        /\ d.watching = FALSE /\ d.force = FALSE /\ d.deadline = context.deadline
    BY <1>1 DEF HandlerContext, DetachChannelWatchers
  <2>5. Sound(d) /\ Careful(d)
    BY <1>1, <2>3, <2>4 DEF Sound, Careful, LetsGo, Living, TakenDown, Quiet
  <2>6. OnChannelClosed(context) = TryComplete(f) BY DEF OnChannelClosed
  <2> HIDE DEF d
  <2>7. Sound(f) /\ Careful(f)
    <3>1. {"io"} \in SUBSET {"io", "work"} OBVIOUS
    <3> QED BY <2>2, <2>5, <3>1, QuitKeeps
  <2> HIDE DEF f
  <2>8. Sound(TryComplete(f)) /\ Careful(TryComplete(f)) BY <1>1, <2>7, TryKeeps
  <2> QED BY <1>5, <2>6, <2>8, NoticeKeeps DEF HandleChannelClosed
<1> QED BY <1>2, <1>3, <1>4, <1>5 DEF Handling

\* The timers fire for a living release only; the force timer gives the socket up.
LEMMA StepTimers ==
  ASSUME RInv, Timers
  PROVE  RInv'
<1>1. gui = "free" /\ Sound(context) /\ Careful(context) /\ ThreadsSound
      /\ context \in HandlerContext /\ inbox \in Seq(Notices)
  BY InvTypes, ContextIsSound DEF Timers, DeadlineFires, ForceTimerFires
<1>2. CASE DeadlineFires
  <2> DEFINE d == [context EXCEPT !.deadline = FALSE]
  <2>1. d \in HandlerContext BY <1>1 DEF HandlerContext
  <2>2. /\ d.workThread = context.workThread /\ d.channel = context.channel
        /\ d.quit = context.quit /\ d.stage = context.stage /\ d.pending = context.pending
        /\ d.completed = context.completed /\ d.destroyed = context.destroyed
    BY <1>1 DEF HandlerContext
  <2>3. Living(context) BY <1>1, <1>2 DEF Sound, TakenDown, Quiet, DeadlineFires
  <2>4. Sound(d) /\ Careful(d)
    BY <1>1, <2>1, <2>2, <2>3 DEF Sound, Careful, LetsGo, Living
  <2>5. /\ Becomes(TimeOutStage(d)) /\ gui' = gui /\ UNCHANGED <<threads, live, linger>>
        /\ inbox' = inbox /\ forced' = forced
    BY <1>2 DEF DeadlineFires
  <2> HIDE DEF d
  <2>6. Sound(TimeOutStage(d)) /\ Careful(TimeOutStage(d)) BY <1>1, <2>4, TimeOutKeeps
  <2>7. Announced' => Announced BY <2>5 DEF Announced
  <2> QED BY <1>1, <2>5, <2>6, <2>7, OtherTypes, HandlerKeeps
<1>3. CASE ForceTimerFires
  <2> DEFINE k == TimeOutStage(context)
             d == DetachChannelWatchers(k)
             f == QuitThreads(d, Threads)
  <2>1. Sound(k) BY <1>1, TimeOutKeeps
  <2>2. Becomes(TryComplete(f)) /\ gui' = gui /\ UNCHANGED <<threads, live, linger>>
        /\ inbox' = inbox /\ forced' = TRUE
    BY <1>3 DEF ForceTimerFires, OnForceTimer
  <2> HIDE DEF k
  <2>3. d \in HandlerContext BY <2>1 DEF Sound, HandlerContext, DetachChannelWatchers
  <2>4. /\ d.workThread = k.workThread /\ d.channel = k.channel
        /\ d.quit = k.quit /\ d.stage = k.stage /\ d.pending = k.pending
        /\ d.completed = k.completed /\ d.destroyed = k.destroyed
        /\ d.watching = FALSE /\ d.force = FALSE /\ d.deadline = k.deadline
    BY <2>1 DEF Sound, HandlerContext, DetachChannelWatchers
  <2>5. Sound(d) BY <2>1, <2>3, <2>4 DEF Sound, Living, TakenDown, Quiet
  <2> HIDE DEF d
  <2>6. Threads \in SUBSET {"io", "work"} BY <1>1 DEF Threads, ThreadsSound
  <2>7. Sound(f) BY <2>5, <2>6, QuitKeeps
  <2> HIDE DEF f
  <2>8. Sound(TryComplete(f)) BY <1>1, <2>7, TryKeeps
  <2>9. Announced' => Announced BY <2>2 DEF Announced
  <2> QED BY <1>1, <2>2, <2>8, <2>9, HandlerKeeps
<1> QED BY <1>2, <1>3 DEF Timers

\* A step in the channel's thread or the worker's: what it posts and says is of
\* the right kind, and a socket it calls Closed it has closed.
LEMMA StepInThread ==
  ASSUME RInv, InThread
  PROVE  RInv'
<1>1. /\ WorkThread \in Threads /\ "io" \in Threads /\ live \in BOOLEAN
      /\ \A t \in Threads : mailbox[t] \in Seq(Events)
      /\ running \in [Threads -> BOOLEAN] /\ WorkThread \in {"io", "work"}
  BY InvTypes DEF ThreadsSound
<1>2. <<>> \in Seq(Calls) /\ <<"workerStopped">> \in Seq(Calls) BY DEF Calls
\* close() on the channel's thread
<1>3. ASSUME NEW r \in CloseResults, NEW more \in Seq(Calls), NEW m \in Seq(Events),
             Closes(r, more), Left("io", m \o r.posted), UNCHANGED <<gui, running, forced>>, blocked' \in BOOLEAN,
             worker' \in {"running", "stopping", "stopped"}
      PROVE  RInv'
  <2>1. /\ r.to \in ChannelStates /\ r.live \in BOOLEAN /\ r.linger \in BOOLEAN
        /\ r.posted \in Seq(Events) /\ (r.live => live) /\ (r.to = "Closed" => r.live = FALSE)
    BY CloseResultsAre
  <2>2. /\ SetState(r.to, more) /\ live' = r.live /\ linger' = r.linger /\ dropIsError' = FALSE
    BY <1>3 DEF Closes
  <2>3. m \o r.posted \in Seq(Events) BY <2>1
  <2>4. mailbox' \in [Threads -> Seq(Events)] /\ delivering' \in [Threads -> BOOLEAN]
    BY <1>1, <1>3, <2>3, LeftKeeps
  <2>5. /\ context' \in ContextSet /\ inbox' \in Seq(Notices)
        /\ WorkThread' = WorkThread /\ Threads' = Threads /\ Life' /\ SocketFirst'
    BY <1>3, <2>1, <2>2, ChannelKeeps
  <2> QED BY <1>1, <1>3, <2>1, <2>2, <2>4, <2>5, OtherTypes, Assemble
\* close() from the worker's own thread
<1>4. ASSUME WorkThread = "work", NEW more \in Seq(Calls), NEW w \in Seq(Events),
             ClosesFromWorker(more, w), UNCHANGED <<gui, running, forced>>, blocked' \in BOOLEAN,
             worker' \in {"running", "stopping", "stopped"}
      PROVE  RInv'
  <2>1. live' = live /\ linger' = linger /\ dropIsError' = FALSE BY <1>4 DEF ClosesFromWorker
  <2>2. mailbox["io"] \in Seq(Events) /\ Append(mailbox["io"], "close") \in Seq(Events)
    <3>1. mailbox["io"] \in Seq(Events) BY <1>1
    <3> QED BY <3>1 DEF Events
  <2>3. mailbox' \in [Threads -> Seq(Events)] BY <1>4, <2>2, InvTypes DEF ClosesFromWorker
  <2>4. delivering' \in [Threads -> BOOLEAN] BY <1>4, InvTypes DEF ClosesFromWorker
  <2>5. /\ context' \in ContextSet /\ inbox' \in Seq(Notices)
        /\ WorkThread' = WorkThread /\ Threads' = Threads /\ Life' /\ SocketFirst'
    <3>1. CASE running["io"]
      <4>1. KeepState(more) BY <1>4, <3>1 DEF ClosesFromWorker
      <4> QED BY <1>1, <1>4, <2>1, <4>1, StateKeeps
    <3>2. CASE ~running["io"]
      <4>1. SetState("Closed", more) BY <1>4, <3>2 DEF ClosesFromWorker
      <4>2. running["io"] = FALSE BY <1>1, <3>2
      <4>3. "Closed" \in ChannelStates BY DEF ChannelStates
      <4> QED BY <1>1, <1>4, <2>1, <4>1, <4>2, <4>3, ChannelKeeps
    <3> QED BY <3>1, <3>2
  <2> QED BY <1>1, <1>4, <2>1, <2>3, <2>4, <2>5, OtherTypes, Assemble
\* an event that leaves the socket's flags to say
<1>5. ASSUME NEW t \in Threads, NEW m \in Seq(Events), NEW more \in Seq(Calls),
             Left(t, m), UNCHANGED <<gui, running, forced>>,
             blocked' \in BOOLEAN, worker' \in {"running", "stopping", "stopped"},
             live' \in BOOLEAN, live' => live, linger' \in BOOLEAN, dropIsError' \in BOOLEAN,
             \/ KeepState(more)
             \/ \E s \in ChannelStates : SetState(s, more) /\ (s = "Closed" => live' = FALSE)
      PROVE  RInv'
  <2>1. mailbox' \in [Threads -> Seq(Events)] /\ delivering' \in [Threads -> BOOLEAN]
    BY <1>5, LeftKeeps
  <2>2. /\ context' \in ContextSet /\ inbox' \in Seq(Notices)
        /\ WorkThread' = WorkThread /\ Threads' = Threads /\ Life' /\ SocketFirst'
    <3>1. CASE KeepState(more) BY <1>5, <3>1, StateKeeps
    <3>2. ASSUME NEW s \in ChannelStates, SetState(s, more), s = "Closed" => live' = FALSE
          PROVE  /\ context' \in ContextSet /\ inbox' \in Seq(Notices)
                 /\ WorkThread' = WorkThread /\ Threads' = Threads /\ Life' /\ SocketFirst'
      BY <1>5, <3>2, ChannelKeeps
    <3> QED BY <1>5, <3>1, <3>2
  <2> QED BY <1>1, <1>5, <2>1, <2>2, OtherTypes, Assemble
<1>6. \A e : Delivers("io", e) => Tail(mailbox["io"]) \in Seq(Events)
  BY <1>1, RestIsMail
<1>7. CASE DeliverClose
  <2>1. PICK r \in CloseResults :
          Closes(r, <<>>) /\ Left("io", Tail(mailbox["io"]) \o r.posted)
    BY <1>7 DEF DeliverClose
  <2>2. /\ Tail(mailbox["io"]) \in Seq(Events) /\ UNCHANGED <<gui, running, forced, blocked>>
        /\ worker' = worker
    BY <1>6, <1>7 DEF DeliverClose
  <2> QED BY <1>2, <1>3, <2>1, <2>2, OtherTypes
<1>8. CASE DeliverStop
  <2>1. /\ Tail(mailbox[WorkThread]) \in Seq(Events) /\ worker' = "stopped"
        /\ UNCHANGED <<gui, running, forced, blocked>>
    BY <1>1, <1>8, RestIsMail DEF DeliverStop
  <2>2. CASE /\ channel # "Open" /\ KeepState(<<"workerStopped">>)
             /\ Left(WorkThread, Tail(mailbox[WorkThread])) /\ UNCHANGED socket
    <3>1. live' = live /\ linger' = linger /\ dropIsError' = dropIsError BY <2>2 DEF socket
    <3> QED BY <1>1, <1>2, <1>5, <2>1, <2>2, <3>1, OtherTypes
  <2>3. CASE /\ WorkThread = "io"
             /\ \E r \in CloseResults :
                  Closes(r, <<"workerStopped">>) /\ Left("io", Tail(mailbox["io"]) \o r.posted)
    <3>1. PICK r \in CloseResults :
            Closes(r, <<"workerStopped">>) /\ Left("io", Tail(mailbox["io"]) \o r.posted)
      BY <2>3
    <3>2. Tail(mailbox["io"]) \in Seq(Events) BY <2>1, <2>3
    <3>3. blocked' \in BOOLEAN /\ worker' \in {"running", "stopping", "stopped"}
      BY <2>1, OtherTypes
    <3> QED BY <1>2, <1>3, <2>1, <3>1, <3>2, <3>3
  <2>4. CASE WorkThread # "io" /\ ClosesFromWorker(<<"workerStopped">>, Tail(mailbox["work"]))
    <3>1. WorkThread = "work" BY <1>1, <2>4
    <3>2. Tail(mailbox["work"]) \in Seq(Events) BY <2>1, <3>1
    <3>3. blocked' \in BOOLEAN /\ worker' \in {"running", "stopping", "stopped"}
      BY <2>1, OtherTypes
    <3> QED BY <1>2, <1>4, <2>1, <2>4, <3>1, <3>2, <3>3
  <2> QED BY <1>8, <2>2, <2>3, <2>4 DEF DeliverStop
<1>9. CASE DeliverConnected
  <2>1. /\ Delivers("io", "connected") /\ Left("io", Tail(mailbox["io"])) /\ SetState("Open", <<>>)
        /\ dropIsError' = TRUE /\ UNCHANGED <<gui, running, blocked, worker, live, linger, forced>>
    BY <1>9 DEF DeliverConnected
  <2>2. "Open" \in ChannelStates /\ "Open" # "Closed" BY DEF ChannelStates
  <2> QED BY <1>1, <1>2, <1>5, <1>6, <2>1, <2>2, OtherTypes
<1>10. CASE DeliverClosing
  <2>1. /\ Delivers("io", "closing") /\ Left("io", Tail(mailbox["io"]))
        /\ KeepState(<<>>) \/ SetState("Closing", <<>>)
        /\ UNCHANGED <<gui, running, blocked, worker, live, linger, dropIsError, forced>>
    BY <1>10 DEF DeliverClosing, socket
  <2>2. "Closing" \in ChannelStates /\ "Closing" # "Closed" BY DEF ChannelStates
  <2> QED BY <1>1, <1>2, <1>5, <1>6, <2>1, <2>2, OtherTypes
<1>11. CASE DeliverUnconnected
  <2>1. /\ Delivers("io", "unconnected") /\ Left("io", Tail(mailbox["io"]))
        /\ UNCHANGED <<gui, running, blocked, worker, dropIsError, forced>>
        /\ \/ KeepState(<<>>) /\ UNCHANGED <<live, linger>>
           \/ live' = FALSE /\ linger' = FALSE /\ (KeepState(<<>>) \/ SetState("Closed", <<>>))
    BY <1>11 DEF DeliverUnconnected
  <2>2. "Closed" \in ChannelStates BY DEF ChannelStates
  <2>3. live' \in BOOLEAN /\ (live' => live) /\ linger' \in BOOLEAN
    <3>1. CASE UNCHANGED <<live, linger>> BY <3>1, <1>1, OtherTypes
    <3>2. CASE live' = FALSE /\ linger' = FALSE BY <3>2
    <3> QED BY <2>1, <3>1, <3>2
  <2>4. \/ KeepState(<<>>)
        \/ \E s \in ChannelStates : SetState(s, <<>>) /\ (s = "Closed" => live' = FALSE)
    <3>1. CASE KeepState(<<>>) BY <3>1
    <3>2. CASE live' = FALSE /\ SetState("Closed", <<>>)
      BY <2>2, <3>2
    <3> QED BY <2>1, <3>1, <3>2
  <2>5. blocked' \in BOOLEAN /\ worker' \in {"running", "stopping", "stopped"}
        /\ dropIsError' \in BOOLEAN
    BY <2>1, OtherTypes
  <2>6. Tail(mailbox["io"]) \in Seq(Events) BY <1>6, <2>1
  <2> QED BY <1>1, <1>2, <1>5, <2>1, <2>3, <2>4, <2>5, <2>6
<1>12. CASE DeliverError
  <2>1. /\ Delivers("io", "error") /\ Left("io", Tail(mailbox["io"]))
        /\ UNCHANGED <<gui, running, blocked, worker, live, linger, forced>>
        /\ \/ dropIsError' = FALSE /\ SetState("Error", <<>>)
           \/ KeepState(<<>>) /\ UNCHANGED dropIsError
    BY <1>12 DEF DeliverError
  <2>2. "Error" \in ChannelStates /\ "Error" # "Closed" BY DEF ChannelStates
  <2> QED BY <1>1, <1>2, <1>5, <1>6, <2>1, <2>2, OtherTypes
<1>13. CASE OpenReturns
  <2>1. blocked' = FALSE /\ worker' = worker /\ UNCHANGED <<gui, running, forced>>
    BY <1>13 DEF OpenReturns
  <2>2. CASE KeepState(<<>>) /\ Left(WorkThread, mailbox[WorkThread]) /\ UNCHANGED socket
    <3>1. live' = live /\ linger' = linger /\ dropIsError' = dropIsError BY <2>2 DEF socket
    <3> QED BY <1>1, <1>2, <1>5, <2>1, <2>2, <3>1, OtherTypes
  <2>3. CASE \E r \in CloseResults : Closes(r, <<>>) /\ Left("io", mailbox["io"] \o r.posted)
    BY <1>1, <1>2, <1>3, <2>1, <2>3, OtherTypes
  <2>4. CASE WorkThread # "io" /\ ClosesFromWorker(<<>>, mailbox["work"])
    <3>1. WorkThread = "work" BY <1>1, <2>4
    <3> QED BY <1>1, <1>2, <1>4, <2>1, <2>4, <3>1, OtherTypes
  <2> QED BY <1>13, <2>2, <2>3, <2>4 DEF OpenReturns
<1> QED BY <1>7, <1>8, <1>9, <1>10, <1>11, <1>12, <1>13 DEF InThread

\* Sockets and timers of the channel's thread.
LEMMA StepSockets ==
  ASSUME RInv, Sockets
  PROVE  RInv'
<1>1. /\ "io" \in Threads /\ live \in BOOLEAN /\ <<>> \in Seq(Calls)
      /\ running \in [Threads -> BOOLEAN] /\ delivering \in [Threads -> BOOLEAN]
  BY InvTypes DEF Calls
<1>2. /\ <<>> \in Seq(Events) /\ <<"unconnected">> \in Seq(Events) /\ <<"connected">> \in Seq(Events)
      /\ <<"unconnected", "error">> \in Seq(Events) /\ <<"error", "unconnected">> \in Seq(Events)
  BY DEF Events
<1>3. ASSUME NEW m \in Seq(Events), PostToIo(m), UNCHANGED <<gui, threads, forced>>,
             live' \in BOOLEAN, live' => live, linger' \in BOOLEAN, dropIsError' \in BOOLEAN,
             \/ KeepState(<<>>)
             \/ \E s \in ChannelStates : SetState(s, <<>>) /\ (s = "Closed" => live' = FALSE)
      PROVE  RInv'
  <2>1. mailbox' \in [Threads -> Seq(Events)] BY <1>3, PostKeeps
  <2>2. /\ running' = running /\ delivering' = delivering /\ blocked' = blocked
        /\ worker' = worker /\ gui' = gui /\ forced' = forced
    BY <1>3 DEF threads
  <2>3. /\ context' \in ContextSet /\ inbox' \in Seq(Notices)
        /\ WorkThread' = WorkThread /\ Threads' = Threads /\ Life' /\ SocketFirst'
    <3>1. CASE KeepState(<<>>) BY <1>1, <1>3, <2>2, <3>1, StateKeeps
    <3>2. ASSUME NEW s \in ChannelStates, SetState(s, <<>>), s = "Closed" => live' = FALSE
          PROVE  /\ context' \in ContextSet /\ inbox' \in Seq(Notices)
                 /\ WorkThread' = WorkThread /\ Threads' = Threads /\ Life' /\ SocketFirst'
      BY <1>1, <1>3, <2>2, <3>2, ChannelKeeps
    <3> QED BY <1>3, <3>1, <3>2
  <2> QED BY <1>1, <1>3, <2>1, <2>2, <2>3, OtherTypes, Assemble
<1>4. "Closed" \in ChannelStates /\ "Error" \in ChannelStates /\ "Error" # "Closed"
  BY DEF ChannelStates
<1>5. CASE LingerFires
  <2>1. /\ linger' = FALSE /\ live' = FALSE /\ dropIsError' = FALSE
        /\ KeepState(<<>>) \/ SetState("Closed", <<>>)
        /\ UNCHANGED <<gui, threads, forced>>
        /\ \E m \in {<<"unconnected">>, <<>>} : PostToIo(m)
    BY <1>5 DEF LingerFires
  <2> QED BY <1>2, <1>3, <1>4, <2>1, <1>5 DEF LingerFires
<1>6. CASE ConnectTimesOut
  <2>1. /\ live' = FALSE /\ linger' = linger /\ dropIsError' = FALSE /\ SetState("Error", <<>>)
        /\ UNCHANGED <<gui, threads, forced>> /\ PostToIo(<<"unconnected">>)
    BY <1>6 DEF ConnectTimesOut
  <2> QED BY <1>2, <1>3, <1>4, <2>1, OtherTypes
<1>7. CASE SocketConnects
  <2>1. /\ KeepState(<<>>) /\ live' = live /\ linger' = linger /\ dropIsError' = dropIsError
        /\ UNCHANGED <<gui, threads, forced>> /\ PostToIo(<<"connected">>)
    <3>1. inbox \o <<>> = inbox BY InvTypes
    <3> QED BY <1>7, <3>1 DEF SocketConnects, KeepState, socket
  <2> QED BY <1>1, <1>2, <1>3, <2>1, OtherTypes
<1>8. CASE SocketEnds
  <2>1. /\ KeepState(<<>>) /\ live' = FALSE /\ linger' = linger /\ dropIsError' = dropIsError
        /\ UNCHANGED <<gui, threads, forced>>
        /\ \E m \in Seq(Events) : PostToIo(m)
    <3>1. inbox \o <<>> = inbox BY InvTypes
    <3> QED BY <1>2, <1>8, <3>1 DEF SocketEnds, KeepState
  <2> QED BY <1>3, <2>1, OtherTypes
<1> QED BY <1>5, <1>6, <1>7, <1>8 DEF Sockets

\* A loop begins a batch, or ends: the channel's only once it has been let go.
LEMMA StepLoop ==
  ASSUME RInv, NEW t \in {"io", "work"}, Loop(t)
  PROVE  RInv'
<1>1. t \in Threads /\ WorkThread \in {"io", "work"} BY InvTypes DEF Loop, ThreadsSound
<1>2. CASE StartBatch(t)
  <2>1. /\ delivering' = [delivering EXCEPT ![t] = TRUE]
        /\ context' = context /\ inbox' = inbox /\ gui' = gui /\ running' = running
        /\ blocked' = blocked /\ worker' = worker /\ mailbox' = mailbox
        /\ live' = live /\ linger' = linger /\ dropIsError' = dropIsError /\ forced' = forced
    BY <1>2 DEF StartBatch, socket
  <2>2. delivering' \in [Threads -> BOOLEAN] BY <2>1, InvTypes
  <2>3. WorkThread' = WorkThread /\ Threads' = Threads BY <2>1 DEF WorkThread, Threads
  <2>4. Life' BY <2>1, <2>3 DEF RInv, Life, Joined
  <2>5. SocketFirst' BY <2>1, <2>3 DEF RInv, SocketFirst, SocketIsGone, Announced
  <2> QED BY <2>1, <2>2, <2>3, <2>4, <2>5, InvTypes, OtherTypes, Assemble
<1>3. CASE ThreadFinishes(t)
  <2>1. /\ t \in context.quit /\ running[t] /\ running' = [running EXCEPT ![t] = FALSE]
        /\ context' = context /\ gui' = gui /\ delivering' = delivering
        /\ blocked' = blocked /\ worker' = worker /\ mailbox' = mailbox
        /\ live' = live /\ linger' = linger /\ dropIsError' = dropIsError /\ forced' = forced
    BY <1>3 DEF ThreadFinishes, socket
  <2> DEFINE m == IF t = WorkThread THEN <<"workerThreadFinished">> ELSE <<>>
             n == IF t = "io" THEN <<"channelThreadFinished">> ELSE <<>>
  <2>2. m \in Seq(Calls) /\ n \in Seq(Calls)
    <3>1. /\ <<>> \in Seq(Calls) /\ <<"workerThreadFinished">> \in Seq(Calls)
          /\ <<"channelThreadFinished">> \in Seq(Calls)
      BY DEF Calls
    <3> QED BY <3>1
  <2>3. inbox' = inbox \o m \o n BY <1>3 DEF ThreadFinishes
  <2> HIDE DEF m, n
  <2>4. inbox \in Seq(Notices) /\ inbox \o m \in Seq(Notices) /\ inbox' \in Seq(Notices)
    BY <2>2, <2>3, InvTypes, CallsAreNotices
  <2>5. Announced' => Announced
    <3> SUFFICES ASSUME NEW i \in 1..Len(inbox'), inbox'[i] = "closed"
                 PROVE  \E k \in 1..Len(inbox) : inbox[k] = "closed"
      BY DEF Announced
    <3>1. i \in 1..Len(inbox \o m) /\ (inbox \o m)[i] = "closed"
      BY <2>2, <2>3, <2>4, OnlyFromBefore
    <3> QED BY <2>2, <2>4, <3>1, OnlyFromBefore
  <2>6. running' \in [Threads -> BOOLEAN] BY <2>1, InvTypes
  <2>7. WorkThread' = WorkThread /\ Threads' = Threads BY <2>1 DEF WorkThread, Threads
  <2>8. Life'
    <3>1. Joined => Joined' BY <1>1, <2>1, <2>7, InvTypes DEF Joined
    <3> QED BY <2>1, <2>7, <3>1 DEF RInv, Life
  <2>9. SocketFirst'
    <3>1. running'["io"] = FALSE => running["io"] = FALSE \/ LetsGo(context)
      BY <1>1, <2>1, InvTypes DEF LetsGo
    <3> QED BY <2>1, <2>5, <2>7, <3>1 DEF RInv, SocketFirst, SocketIsGone
  <2> QED BY <2>1, <2>4, <2>6, <2>7, <2>8, <2>9, InvTypes, OtherTypes, Assemble
<1> QED BY <1>2, <1>3 DEF Loop

LEMMA StutterKeeps ==
  ASSUME RInv, UNCHANGED vars
  PROVE  RInv'
<1>1. /\ gui' = gui /\ context' = context /\ inbox' = inbox /\ mailbox' = mailbox
      /\ running' = running /\ delivering' = delivering /\ blocked' = blocked
      /\ worker' = worker /\ live' = live /\ linger' = linger /\ dropIsError' = dropIsError
      /\ forced' = forced
  BY DEF vars, threads, socket
<1>2. WorkThread' = WorkThread /\ Threads' = Threads BY <1>1 DEF WorkThread, Threads
<1>3. Life' BY <1>1, <1>2 DEF RInv, Life, Joined
<1>4. SocketFirst' BY <1>1, <1>2 DEF RInv, SocketFirst, SocketIsGone, Announced
<1> QED BY <1>1, <1>2, <1>3, <1>4, InvTypes, OtherTypes, Assemble

-----------------------------------------------------------------------------
(* The theorem *)

\* A channel as a session leaves it has a socket, or is Closed without one.
LEMMA InitKeeps == Init => RInv
<1> SUFFICES ASSUME Init PROVE RInv OBVIOUS
<1>1. PICK s \in {"Closed", "Opening", "Open", "Closing", "Error"}, w \in WorkThreads :
       /\ context = [stage |-> "Initial", pending |-> FALSE, workerStopped |-> FALSE,
                     shutdownStarted |-> FALSE, watching |-> FALSE, force |-> FALSE,
                     deadline |-> FALSE, completed |-> 0, timedOut |-> FALSE,
                     destroyed |-> "no", quit |-> {}, close |-> FALSE, channel |-> s,
                     workThread |-> w]
       /\ live = (s \in {"Opening", "Open", "Closing"})
       /\ linger = (s = "Closing")
       /\ dropIsError = (s \in {"Opening", "Open"})
       /\ blocked = (s = "Opening")
  BY DEF Init
<1>2. context \in ContextSet
  <2>1. {} \in SUBSET {"io", "work"} /\ "Initial" \in DOMAIN StageNo BY DEF StageNo
  <2> QED BY <1>1, <2>1 DEF ContextSet
<1>3. /\ context.stage = "Initial" /\ context.pending = FALSE /\ context.completed = 0
      /\ context.destroyed = "no" /\ context.watching = FALSE /\ context.force = FALSE
      /\ context.deadline = FALSE /\ context.quit = {} /\ context.channel = s
  BY <1>1
<1>4. /\ gui = "idle" /\ inbox = <<>> /\ forced = FALSE /\ worker = "running"
      /\ running = [t \in Threads |-> TRUE] /\ mailbox = [t \in Threads |-> <<>>]
      /\ delivering = [t \in Threads |-> blocked /\ t = WorkThread]
  BY DEF Init
<1>5. Life BY <1>3, <1>4 DEF Life, Fresh, Quiet
<1>6. SocketFirst
  <2>1. "io" \in Threads BY DEF Threads
  <2>2. running["io"] = TRUE /\ ~Announced BY <1>4, <2>1 DEF Announced
  <2>3. s = "Closed" => live = FALSE
    <3> SUFFICES ASSUME s = "Closed" PROVE live = FALSE OBVIOUS
    <3>1. (s \in {"Opening", "Open", "Closing"}) = FALSE OBVIOUS
    <3> QED BY <1>1, <3>1, Zenon
  <2> QED BY <1>3, <2>2, <2>3 DEF SocketFirst, LetsGo, SocketIsGone
<1>7. live \in BOOLEAN /\ linger \in BOOLEAN /\ dropIsError \in BOOLEAN /\ blocked \in BOOLEAN
  BY <1>1
<1>8. /\ running \in [Threads -> BOOLEAN] /\ delivering \in [Threads -> BOOLEAN]
      /\ mailbox \in [Threads -> Seq(Events)]
  <2>1. <<>> \in Seq(Events) OBVIOUS
  <2> QED BY <1>4, <1>7, <2>1
<1>9. inbox \in Seq(Notices) BY <1>4
<1>10. TypeOK BY <1>2, <1>4, <1>7, <1>8, <1>9 DEF TypeOK, Notices
<1> QED BY <1>5, <1>6, <1>10 DEF RInv

LEMMA RInvIsSafe == RInv => ReleaseSafe
<1> SUFFICES ASSUME RInv PROVE ReleaseSafe OBVIOUS
<1>1. TypeOK BY DEF RInv
<1>2. CompletedOnce
  BY DEF RInv, Life, CompletedOnce, Fresh, Living, TakenDown
<1>3. JoinedBeforeDestroyed
  BY DEF RInv, Life, JoinedBeforeDestroyed, Fresh, Living, TakenDown, Quiet, Joined
<1>4. WorkThread = "work" => ThreadOutlivesSocket
  BY InvTypes DEF RInv, SocketFirst, ThreadOutlivesSocket, SocketIsGone
<1> QED BY <1>1, <1>2, <1>3, <1>4 DEF ReleaseSafe

\* A release is reported once and taken down only when every thread has been
\* joined and no timer or handler of it is left; with a thread of its own for the
\* worker, the channel's thread outlives the socket (requestRelease() to finalize()).
THEOREM ReleaseIsSafe == Spec => []ReleaseSafe
<1>1. RInv /\ [Next]_vars => RInv'
  <2> SUFFICES ASSUME RInv, [Next]_vars PROVE RInv' OBVIOUS
  <2>1. CASE Requesting
    BY <2>1, StepRequestRelease, StepQuitWorkerThread, StepEndOfRequest DEF Requesting
  <2>2. CASE Handling BY <2>2, StepHandling
  <2>3. CASE Timers BY <2>3, StepTimers
  <2>4. CASE InThread BY <2>4, StepInThread
  <2>5. CASE Sockets BY <2>5, StepSockets
  <2>6. CASE \E t \in {"io", "work"} : Loop(t) BY <2>6, StepLoop
  <2>7. CASE UNCHANGED vars BY <2>7, StutterKeeps
  <2> QED BY <2>1, <2>2, <2>3, <2>4, <2>5, <2>6, <2>7 DEF Next
<1> QED BY <1>1, InitKeeps, RInvIsSafe, PTL DEF Spec

=============================================================================
