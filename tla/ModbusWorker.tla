----------------------------- MODULE ModbusWorker -----------------------------
(***************************************************************************)
(* dispatch::ModbusWorker: the request queue on the worker thread, and the *)
(* GUI thread that submits, stops and destroys it.                         *)
(*                                                                         *)
(* The GUI posts events (Qt::QueuedConnection); the worker thread's loop   *)
(* delivers them in order.  A handler is cut where stopping_ is read again *)
(* and around the call into the client, which can block; stop() is cut     *)
(* where the worker can act between its statements.  Once quit() is called *)
(* the loop may end with events still posted: they are never delivered.    *)
(*                                                                         *)
(* The client behind the worker is RequestService, which ModbusSession     *)
(* implements: its calls carry the worker's completion callback.           *)
(***************************************************************************)
EXTENDS Integers, Sequences, FiniteSets

CONSTANTS
  MaxRequests,      \* bound: calls of submit()
  MaxDisconnects    \* bound: calls of requestDisconnect()

ASSUME BoundsAssumption == MaxRequests \in Nat /\ MaxDisconnects \in Nat

Requests == 1 .. MaxRequests

VARIABLES
  thread,        \* thread_: not started, isRunning() or finished
  quit,          \* QThread::quit() was called
  mailbox,       \* events posted to the worker, oldest first
  pc,            \* what the worker thread is in the middle of
  item,          \* the request processQueue() took from the queue
  gui,           \* what the GUI thread is in the middle of
  destroyed,     \* the worker object is gone
  stopping,      \* stopping_
  stopped,       \* stopped_
  isProcessing,  \* isProcessing_
  queued,        \* queuedRequests_
  open,          \* client_->isConnected()
  handed,        \* the request of each sendRequestAsync() call, in order
  current,       \* the call the client has taken and not answered
  clientAnswers, \* how often the client answered each call
  disconnects,   \* history: requestDisconnect() calls
  submitted,     \* history: submit() calls; a request is known by its number
  answers,       \* history: requestFinished emissions for each request
  stops          \* history: emissions of stopped

client == <<handed, current, clientAnswers>>
worker == <<stopping, stopped, isProcessing, queued>>
outer  == <<thread, quit, destroyed, disconnects, submitted>>
vars   == <<outer, worker, client, mailbox, pc, item, gui, open, answers, stops>>

Client == INSTANCE RequestService WITH
  MaxCalls <- MaxRequests, calls <- Len(handed), answers <- clientAnswers

Running == thread = "running"

None == 0

SubmitOf(r)  == [type |-> "submit", id |-> r]
Event(t)     == [type |-> t, id |-> None]
ProcessQueued == Event("process")

-----------------------------------------------------------------------------
(* Answers *)

\* requestFinished for every request in S.
AnswerAll(S) ==
  answers' = [r \in Requests |-> answers[r] + (IF r \in S THEN 1 ELSE 0)]

\* The callback posts processQueue() if there is something to process.
Reschedule(m) == IF queued # <<>> /\ ~stopping THEN Append(m, ProcessQueued) ELSE m

\* Mutant of AfterCompletion: the rest of the queue is not scheduled.
NothingScheduled(m) == isProcessing' = FALSE /\ mailbox' = m

\* The callback after its requestFinished, with m the events still posted.
AfterCompletion(m) == isProcessing' = FALSE /\ mailbox' = Reschedule(m)

\* The client answers its open call, which runs the callback.
Complete(m) ==
  /\ UNCHANGED handed /\ Client!AnswerCurrent
  /\ AnswerAll({handed[current]})
  /\ AfterCompletion(m)

Idle == current = Client!NoCall

QueuedSet == {queued[i] : i \in DOMAIN queued}

\* Mutant of AbortAndDrain: the queue is cleared without answers.
AbortAndDiscard ==
  /\ queued' = <<>>
  /\ IF Idle
     THEN UNCHANGED <<client, isProcessing, answers>>
     ELSE /\ UNCHANGED handed /\ Client!AnswerCurrent
          /\ AnswerAll({handed[current]})
          /\ isProcessing' = FALSE

\* client_->abort(), which answers an open call, and drainQueuedRequests().
AbortAndDrain ==
  /\ queued' = <<>>
  /\ IF Idle
     THEN /\ AnswerAll(QueuedSet)
          /\ UNCHANGED <<client, isProcessing>>
     ELSE /\ UNCHANGED handed /\ Client!AnswerCurrent
          /\ AnswerAll(QueuedSet \cup {handed[current]})
          /\ isProcessing' = FALSE

-----------------------------------------------------------------------------
(* The GUI thread *)

GuiFree == gui = "idle" /\ ~destroyed /\ thread # "new"

\* start() and the requestConnect() that activateStack() makes right after it.
Start ==
  /\ thread = "new"
  /\ thread' = "running"
  /\ stopped' = FALSE /\ stopping' = FALSE
  /\ mailbox' = Append(mailbox, Event("connect"))
  /\ UNCHANGED <<client, isProcessing, queued, quit, destroyed, disconnects,
                 submitted, pc, item, gui, open, answers, stops>>

Submit ==
  /\ GuiFree /\ submitted < MaxRequests
  /\ submitted' = submitted + 1
  /\ IF Running
     THEN /\ mailbox' = Append(mailbox, SubmitOf(submitted + 1))
          /\ UNCHANGED answers
     ELSE /\ AnswerAll({submitted + 1})
          /\ UNCHANGED mailbox
  /\ UNCHANGED <<client, worker, thread, quit, destroyed, disconnects, pc,
                 item, gui, open, stops>>

\* handleRequestDisconnectInThread(), with m the events still posted.  A call
\* it aborts reschedules the queue that is drained next.
HandleDisconnect(m) ==
  /\ AbortAndDrain
  /\ mailbox' = IF Idle THEN m ELSE Reschedule(m)
  /\ open' = FALSE

\* requestDisconnect(): posted, or run by the caller once the thread is gone.
RequestDisconnect ==
  /\ GuiFree /\ disconnects < MaxDisconnects
  /\ disconnects' = disconnects + 1
  /\ IF Running
     THEN /\ mailbox' = Append(mailbox, Event("disconnect"))
          /\ UNCHANGED <<client, isProcessing, queued, open, answers>>
     ELSE HandleDisconnect(mailbox)
  /\ UNCHANGED <<stopping, stopped, thread, quit, destroyed, submitted, pc,
                 item, gui, stops>>

\* Mutant of HandleStopInThread: the connection is left open.
StopKeepsConnection(m) ==
  /\ mailbox' = m
  /\ stopping' = FALSE
  /\ UNCHANGED open
  /\ IF stopped
     THEN UNCHANGED <<client, isProcessing, queued, stopped, answers, stops>>
     ELSE /\ stopped' = TRUE
          /\ AbortAndDrain
          /\ stops' = stops + 1

HandleStopInThread(m) ==
  /\ mailbox' = m
  /\ stopping' = FALSE
  /\ IF stopped
     THEN UNCHANGED <<client, isProcessing, queued, stopped, open, answers, stops>>
     ELSE /\ stopped' = TRUE
          /\ AbortAndDrain
          /\ open' = FALSE
          /\ stops' = stops + 1

\* stop() up to the exchange of stopping_; a second stop() returns here.
Stop ==
  /\ GuiFree /\ ~stopped /\ ~stopping
  /\ stopping' = TRUE
  /\ gui' = "aborting"
  /\ UNCHANGED <<client, outer, stopped, isProcessing, queued, mailbox, pc,
                 item, open, answers, stops>>

\* The abort() inside stop(), on the GUI thread.  While the worker is still
\* inside sendRequestAsync() the client may not have its callback yet.
StopAborts ==
  /\ gui = "aborting"
  /\ gui' = "posting"
  /\ \/ /\ ~Idle
        /\ Complete(mailbox)
     \/ /\ Idle \/ pc = "calling"
        /\ UNCHANGED <<client, isProcessing, mailbox, answers>>
  /\ UNCHANGED <<outer, stopping, stopped, queued, pc, item, open, stops>>

\* Mutant of StopPosts: handleStopInThread() is not posted.
StopPostsNothing ==
  /\ gui = "posting"
  /\ gui' = "idle"
  /\ UNCHANGED <<client, worker, mailbox, outer, pc, item, open, answers, stops>>

\* The rest of stop().
StopPosts ==
  /\ gui = "posting"
  /\ gui' = "idle"
  /\ IF Running
     THEN /\ mailbox' = Append(mailbox, Event("stop"))
          /\ UNCHANGED <<client, worker, open, answers, stops>>
     ELSE HandleStopInThread(mailbox)
  /\ UNCHANGED <<outer, pc, item>>

\* WorkerReleaseCoordinator quits the thread right after stop().
Quit ==
  /\ GuiFree /\ Running /\ ~quit /\ (stopping \/ stopped)
  /\ quit' = TRUE
  /\ UNCHANGED <<client, worker, thread, destroyed, disconnects, submitted,
                 mailbox, pc, item, gui, open, answers, stops>>

\* The destructor, after the thread has finished: it calls stop(), which
\* returns at once if an earlier stop() is still waiting for its event.
Destroy ==
  /\ GuiFree /\ thread = "finished"
  /\ destroyed' = TRUE
  /\ IF stopped \/ stopping
     THEN mailbox' = <<>> /\ UNCHANGED <<client, worker, open, answers, stops>>
     ELSE HandleStopInThread(<<>>)
  /\ UNCHANGED <<thread, quit, disconnects, submitted, pc, item, gui>>

-----------------------------------------------------------------------------
(* The worker thread *)

\* The loop takes the next event, which has to be of type t.
Delivers(t) ==
  /\ Running /\ pc = "loop" /\ mailbox # <<>>
  /\ Head(mailbox).type = t

\* The first half of the lambda that submit() posts.
DeliverSubmit ==
  /\ Delivers("submit")
  /\ mailbox' = Tail(mailbox)
  /\ IF stopped \/ stopping
     THEN /\ AnswerAll({Head(mailbox).id})
          /\ UNCHANGED <<queued, pc>>
     ELSE /\ queued' = Append(queued, Head(mailbox).id)
          /\ pc' = "process"
          /\ UNCHANGED answers
  /\ UNCHANGED <<client, outer, stopping, stopped, isProcessing, item, gui,
                 open, stops>>

DeliverProcess ==
  /\ Delivers("process")
  /\ mailbox' = Tail(mailbox)
  /\ pc' = "process"
  /\ UNCHANGED <<client, outer, worker, item, gui, open, answers, stops>>

\* Mutant of ProcessQueue: isProcessing_ is not looked at.
ProcessEagerly ==
  /\ pc = "process"
  /\ IF stopping \/ queued = <<>>
     THEN pc' = "loop" /\ UNCHANGED <<isProcessing, queued, item>>
     ELSE /\ isProcessing' = TRUE
          /\ item' = Head(queued) /\ queued' = Tail(queued)
          /\ pc' = "handing"
  /\ UNCHANGED <<client, outer, stopping, stopped, mailbox, gui, open, answers, stops>>

\* Mutant of ProcessQueue: the newest request goes first.
ProcessNewestFirst ==
  /\ pc = "process"
  /\ IF stopping \/ isProcessing \/ queued = <<>>
     THEN pc' = "loop" /\ UNCHANGED <<isProcessing, queued, item>>
     ELSE /\ isProcessing' = TRUE
          /\ item' = queued[Len(queued)]
          /\ queued' = SubSeq(queued, 1, Len(queued) - 1)
          /\ pc' = "handing"
  /\ UNCHANGED <<client, outer, stopping, stopped, mailbox, gui, open, answers, stops>>

ProcessQueue ==
  /\ pc = "process"
  /\ IF stopping \/ isProcessing \/ queued = <<>>
     THEN pc' = "loop" /\ UNCHANGED <<isProcessing, queued, item>>
     ELSE /\ isProcessing' = TRUE
          /\ item' = Head(queued) /\ queued' = Tail(queued)
          /\ pc' = "handing"
  /\ UNCHANGED <<client, outer, stopping, stopped, mailbox, gui, open, answers, stops>>

\* handleSubmit() when stop() came in between: isProcessing_ stays set.
RefuseItem ==
  /\ pc = "handing" /\ stopping
  /\ AnswerAll({item})
  /\ pc' = "loop" /\ item' = None
  /\ UNCHANGED <<client, outer, worker, mailbox, gui, open, stops>>

\* handleSubmit(): the client takes the call or turns it away at once.
HandleSubmit ==
  /\ pc = "handing" /\ ~stopping
  /\ handed' = Append(handed, item)
  /\ item' = None
  /\ \/ /\ Client!Take
        /\ pc' = "calling"
        /\ UNCHANGED <<isProcessing, mailbox, answers>>
     \/ /\ Client!TurnAway
        /\ AnswerAll({item})
        /\ AfterCompletion(mailbox)
        /\ pc' = "loop"
  /\ UNCHANGED <<outer, stopping, stopped, queued, gui, open, stops>>

\* sendRequestAsync() returns, its call answered or still open.
CallReturns ==
  /\ pc = "calling"
  /\ pc' = "loop"
  /\ UNCHANGED <<client, outer, worker, mailbox, item, gui, open, answers, stops>>

\* The client completes the call: inside sendRequestAsync(), or later in one
\* of its own handlers on this thread.
ClientCompletes ==
  /\ Running /\ pc \in {"loop", "calling"}
  /\ Complete(mailbox)
  /\ UNCHANGED <<outer, stopping, stopped, queued, pc, item, gui, open, stops>>

\* handleConnect() up to the blocking connect().
DeliverConnect ==
  /\ Delivers("connect")
  /\ mailbox' = Tail(mailbox)
  /\ pc' = IF stopping THEN "loop" ELSE "connecting"
  /\ UNCHANGED <<client, outer, worker, item, gui, open, answers, stops>>

\* The rest of handleConnect().
ConnectReturns ==
  /\ pc = "connecting"
  /\ pc' = "loop"
  /\ open' \in BOOLEAN
  /\ UNCHANGED <<client, outer, worker, mailbox, item, gui, answers, stops>>

\* A call finds the channel closed and opens it, or the channel is lost.
ChannelChanges ==
  /\ Running
  /\ open' = ~open
  /\ IF open THEN pc \in {"loop", "calling"} ELSE pc = "calling"
  /\ UNCHANGED <<client, outer, worker, mailbox, pc, item, gui, answers, stops>>

DeliverDisconnect ==
  /\ Delivers("disconnect")
  /\ HandleDisconnect(Tail(mailbox))
  /\ UNCHANGED <<outer, stopping, stopped, pc, item, gui, stops>>

DeliverStop ==
  /\ Delivers("stop")
  /\ HandleStopInThread(Tail(mailbox))
  /\ UNCHANGED <<outer, pc, item, gui>>

\* The event loop ends, whatever is still posted.
ThreadFinishes ==
  /\ Running /\ quit /\ pc = "loop"
  /\ thread' = "finished"
  /\ UNCHANGED <<client, worker, quit, destroyed, disconnects, submitted,
                 mailbox, pc, item, gui, open, answers, stops>>

\* The abort() of stop() and a completion on the worker thread both move the
\* callback out of activeCallback_: nothing orders them, and both run it.
RacedCompletion ==
  /\ gui = "aborting" /\ Running /\ pc \in {"loop", "calling"}
  /\ UNCHANGED handed /\ Client!AnswerCurrent
  /\ gui' = "posting"
  /\ answers' = [answers EXCEPT ![handed[current]] = @ + 2]
  /\ AfterCompletion(mailbox)
  /\ UNCHANGED <<outer, stopping, stopped, queued, pc, item, open, stops>>

-----------------------------------------------------------------------------

Init ==
  /\ thread = "new" /\ quit = FALSE /\ destroyed = FALSE
  /\ mailbox = <<>> /\ pc = "loop" /\ item = None /\ gui = "idle"
  /\ stopping = FALSE /\ stopped = FALSE
  /\ isProcessing = FALSE /\ queued = <<>>
  /\ open = FALSE
  /\ handed = <<>> /\ Client!Init
  /\ disconnects = 0 /\ submitted = 0 /\ stops = 0
  /\ answers = [r \in Requests |-> 0]

Gui == Start \/ Submit \/ RequestDisconnect \/ Stop \/ Quit \/ Destroy
InStop == StopAborts \/ StopPosts

Handler ==
  \/ DeliverSubmit \/ DeliverProcess \/ DeliverConnect \/ DeliverDisconnect \/ DeliverStop
  \/ ProcessQueue \/ RefuseItem \/ HandleSubmit \/ CallReturns \/ ConnectReturns

Next == Gui \/ InStop \/ Handler \/ ClientCompletes \/ ChannelChanges \/ ThreadFinishes

\* As the thread contract of ModbusClient has it: abort() is decoupled.
Spec == Init /\ [][Next]_vars

\* As the code has it.
RacySpec == Init /\ [][Next \/ RacedCompletion]_vars

\* The loop runs its handlers, a stop() that was begun is carried out, and
\* the client answers its call (EveryCallAnswered of ModbusSession).
FairSpec ==
  /\ Spec
  /\ WF_vars(Handler)
  /\ WF_vars(InStop)
  /\ WF_vars(ClientCompletes)

-----------------------------------------------------------------------------
(* Properties *)

EventSet == [type : {"submit", "process", "connect", "disconnect", "stop"},
             id : Requests \cup {None}]

\* Only a submit event carries a request.
Posted(m) ==
  /\ m \in Seq(EventSet)
  /\ \A i \in DOMAIN m : m[i].type = "submit" => m[i].id \in Requests

\* Types: what is posted to, queued in and handed on by the worker are
\* requests, and processQueue() has one in hand exactly while it hands it on.
TypeOK ==
  /\ thread \in {"new", "running", "finished"} /\ quit \in BOOLEAN
  /\ destroyed \in BOOLEAN
  /\ Posted(mailbox)
  /\ pc \in {"loop", "process", "handing", "calling", "connecting"}
  /\ item \in Requests \cup {None} /\ (pc = "handing" <=> item # None)
  /\ gui \in {"idle", "aborting", "posting"}
  /\ stopping \in BOOLEAN /\ stopped \in BOOLEAN /\ isProcessing \in BOOLEAN
  /\ queued \in Seq(Requests) /\ open \in BOOLEAN
  /\ handed \in Seq(Requests)
  /\ current \in 0 .. Len(handed)
  /\ clientAnswers \in [Requests -> Nat]
  /\ disconnects \in 0 .. MaxDisconnects /\ submitted \in 0 .. MaxRequests
  /\ answers \in [Requests -> Nat] /\ stops \in Nat

\* The request the client or processQueue() has in hand.
InService == IF pc = "handing" THEN item
             ELSE IF Idle THEN None ELSE handed[current]

\* The requests posted in m, and all that wait to be served.
PostedIn(m) == {m[i].id : i \in {j \in DOMAIN m : m[j].type = "submit"}}
Waiting == QueuedSet \cup PostedIn(mailbox)

\* Where request r can be found as long as it has no answer.
Places(r) ==
  LET posted == {i \in DOMAIN mailbox : mailbox[i] = SubmitOf(r)}
      waits  == {i \in DOMAIN queued : queued[i] = r}
  IN Cardinality(posted) + Cardinality(waits) + (IF InService = r THEN 1 ELSE 0)

\* A submitted request is answered, or it is in exactly one place from which
\* it can still be answered: posted, queued, in hand or open at the client.
\* It holds as long as the worker exists (submit(), handleSubmit(), drains).
Accounted ==
  ~destroyed => \A r \in 1 .. submitted : answers[r] + Places(r) = 1

\* processQueue() never calls a client that is still busy, so no request of
\* the worker is ever turned away as Busy.
OneAtATime == pc = "handing" => Idle

\* While the worker is neither stopped nor stopping, a queue is never left
\* behind: a request is in service or processQueue() is running or posted.
QueueIsScheduled ==
  ~stopping /\ ~stopped /\ queued # <<>> =>
    \/ InService # None
    \/ pc = "process"
    \/ \E i \in DOMAIN mailbox : mailbox[i] = ProcessQueued

\* Once stopped, the worker holds no request and no connection, whatever is
\* still posted to it, and it has said so exactly once (handleStopInThread()).
StoppedIsQuiet ==
  /\ stopped => queued = <<>> /\ InService = None /\ ~open
  /\ stops = IF stopped THEN 1 ELSE 0

\* No request is answered twice: the promise requestFinished makes, and what
\* "abort ... safely decoupled" means for the callback.
AnsweredAtMostOnce == \A r \in Requests : answers[r] <= 1

Service == INSTANCE WorkerService WITH
  waiting <- IF destroyed THEN {} ELSE Waiting,
  serving <- IF destroyed THEN None ELSE InService

\* The worker implements its service: first come first served, one at a time,
\* at most one answer each, refusals with an answer.
ServiceImplemented == Service!Spec

\* Every request is answered, unless the thread was told to quit.
EveryRequestAnswered ==
  \A r \in Requests : submitted >= r ~> answers[r] > 0 \/ quit

\* A stop() that went past its guards ends in stopped, unless the thread was
\* told to quit before it.
StopCompletes == stopping ~> stopped \/ quit
=============================================================================
