-------------------------- MODULE ModbusWorkerProofs --------------------------
(***************************************************************************)
(* Theorems about ModbusWorker, for any number of requests.                *)
(***************************************************************************)
EXTENDS ModbusWorker, FiniteSetTheorems, TLAPS

-----------------------------------------------------------------------------
(* Events and sequences *)

LEMMA TailFacts ==
  ASSUME NEW S, NEW m \in Seq(S), m # <<>>
  PROVE  /\ Head(m) \in S /\ Head(m) = m[1]
         /\ Tail(m) \in Seq(S) /\ Len(m) > 0 /\ Len(Tail(m)) = Len(m) - 1
         /\ \A i \in DOMAIN Tail(m) : i + 1 \in DOMAIN m /\ Tail(m)[i] = m[i + 1]
OBVIOUS

LEMMA AppendFacts ==
  ASSUME NEW S, NEW m \in Seq(S), NEW e \in S
  PROVE  /\ Append(m, e) \in Seq(S) /\ Len(Append(m, e)) = Len(m) + 1
         /\ \A i \in DOMAIN m : i \in DOMAIN Append(m, e) /\ Append(m, e)[i] = m[i]
         /\ Append(m, e)[Len(m) + 1] = e
         /\ Len(m) + 1 \in DOMAIN Append(m, e)
         /\ \A i \in DOMAIN Append(m, e) : i \in DOMAIN m \/ i = Len(m) + 1
OBVIOUS

LEMMA PostedTail ==
  ASSUME NEW m, Posted(m), m # <<>>
  PROVE  Posted(Tail(m)) /\ Head(m) = m[1] /\ Head(m) \in EventSet /\ 1 \in DOMAIN m
BY TailFacts DEF Posted

LEMMA PostedAppend ==
  ASSUME NEW m, Posted(m), NEW e \in EventSet, e.type = "submit" => e.id \in Requests
  PROVE  Posted(Append(m, e))
BY AppendFacts DEF Posted

LEMMA EventsTyped ==
  /\ \A t \in {"process", "connect", "disconnect", "stop"} :
       Event(t) \in EventSet /\ Event(t).type # "submit"
  /\ ProcessQueued \in EventSet /\ ProcessQueued.type # "submit"
  /\ \A r \in Requests : SubmitOf(r) \in EventSet /\ SubmitOf(r).id \in Requests
BY DEF Event, EventSet, ProcessQueued, SubmitOf, None

LEMMA PostedReschedule ==
  ASSUME NEW m, Posted(m)
  PROVE  Posted(Reschedule(m))
BY PostedAppend, EventsTyped DEF Reschedule

-----------------------------------------------------------------------------
(* Types *)

LEMMA AnswerAllType ==
  ASSUME NEW S, answers \in [Requests -> Nat], AnswerAll(S)
  PROVE  answers' \in [Requests -> Nat]
BY DEF AnswerAll

\* What the client leaves behind when it answers its open call.
LEMMA AnswerCurrentType ==
  ASSUME TypeOK, UNCHANGED handed, Client!AnswerCurrent
  PROVE  /\ ~Idle /\ handed[current] \in Requests
         /\ handed' \in Seq(Requests) /\ current' = 0 /\ current' \in 0 .. Len(handed')
         /\ clientAnswers' \in [Requests -> Nat]
<1>1. current # 0 /\ current' = 0 /\ handed' = handed
  BY DEF Client!AnswerCurrent, Client!NoCall
<1>2. handed \in Seq(Requests) /\ current \in 1 .. Len(handed)
  BY <1>1 DEF TypeOK
<1>3. handed[current] \in Requests
  BY <1>2
<1>4. clientAnswers' = [clientAnswers EXCEPT ![current] = @ + 1]
  BY DEF Client!AnswerCurrent
<1>5. clientAnswers' \in [Requests -> Nat]
  <2>1. CASE current \in Requests
    <3>1. clientAnswers \in [Requests -> Nat] /\ clientAnswers[current] + 1 \in Nat
      BY <2>1 DEF TypeOK
    <3> QED BY <1>4, <3>1
  <2>2. CASE current \notin Requests
    <3>1. clientAnswers \in [Requests -> Nat]
      BY DEF TypeOK
    <3>2. clientAnswers' = clientAnswers
      BY <1>4, <2>2, <3>1
    <3> QED BY <3>1, <3>2
  <2> QED BY <2>1, <2>2
<1> QED BY <1>1, <1>2, <1>3, <1>5 DEF Idle, Client!NoCall

LEMMA CompleteType ==
  ASSUME TypeOK, NEW m, Posted(m), Complete(m)
  PROVE  /\ handed' \in Seq(Requests) /\ current' = 0 /\ current' \in 0 .. Len(handed')
         /\ clientAnswers' \in [Requests -> Nat] /\ answers' \in [Requests -> Nat]
         /\ isProcessing' = FALSE /\ Posted(mailbox')
BY AnswerCurrentType, AnswerAllType, PostedReschedule
   DEF Complete, AfterCompletion, TypeOK

LEMMA AbortAndDrainType ==
  ASSUME TypeOK, AbortAndDrain
  PROVE  /\ handed' \in Seq(Requests) /\ current' = 0 /\ current' \in 0 .. Len(handed')
         /\ clientAnswers' \in [Requests -> Nat] /\ answers' \in [Requests -> Nat]
         /\ isProcessing' \in BOOLEAN /\ (Idle \/ isProcessing' = FALSE)
         /\ queued' = <<>> /\ queued' \in Seq(Requests)
<1>1. answers' \in [Requests -> Nat]
  <2>1. \E S : AnswerAll(S)
    BY DEF AbortAndDrain
  <2> QED BY <2>1, AnswerAllType DEF TypeOK
<1>2. queued' = <<>> /\ queued' \in Seq(Requests)
  BY DEF AbortAndDrain
<1>3. CASE Idle
  BY <1>1, <1>2, <1>3 DEF AbortAndDrain, TypeOK, Idle, client, Client!NoCall
<1>4. CASE ~Idle
  BY <1>1, <1>2, <1>4, AnswerCurrentType DEF AbortAndDrain
<1> QED BY <1>3, <1>4

LEMMA HandleStopType ==
  ASSUME TypeOK, NEW m, Posted(m), HandleStopInThread(m)
  PROVE  /\ handed' \in Seq(Requests) /\ current' \in 0 .. Len(handed')
         /\ clientAnswers' \in [Requests -> Nat] /\ answers' \in [Requests -> Nat]
         /\ isProcessing' \in BOOLEAN /\ queued' \in Seq(Requests)
         /\ stopped' = TRUE /\ stopping' = FALSE /\ open' \in BOOLEAN
         /\ stops' \in Nat /\ Posted(mailbox')
<1>1. CASE stopped
  BY <1>1 DEF HandleStopInThread, TypeOK, client
<1>2. CASE ~stopped
  <2>1. /\ AbortAndDrain /\ stopped' = TRUE /\ stopping' = FALSE /\ open' = FALSE
        /\ stops' = stops + 1 /\ mailbox' = m
    BY <1>2 DEF HandleStopInThread
  <2>2. stops' \in Nat
    BY <2>1 DEF TypeOK
  <2> QED BY <2>1, <2>2, AbortAndDrainType
<1> QED BY <1>1, <1>2

LEMMA HandleDisconnectType ==
  ASSUME TypeOK, NEW m, Posted(m), HandleDisconnect(m)
  PROVE  /\ handed' \in Seq(Requests) /\ current' \in 0 .. Len(handed')
         /\ clientAnswers' \in [Requests -> Nat] /\ answers' \in [Requests -> Nat]
         /\ isProcessing' \in BOOLEAN /\ queued' \in Seq(Requests)
         /\ open' \in BOOLEAN /\ Posted(mailbox')
BY AbortAndDrainType, PostedReschedule DEF HandleDisconnect

LEMMA TypeInit == Init => TypeOK
<1> SUFFICES ASSUME Init PROVE TypeOK
  OBVIOUS
<1>1. Posted(mailbox)
  BY DEF Init, Posted
<1>2. queued \in Seq(Requests) /\ handed \in Seq(Requests) /\ Len(handed) = 0
  BY DEF Init
<1>3. answers \in [Requests -> Nat] /\ clientAnswers \in [Requests -> Nat]
  BY DEF Init, Client!Init, Requests
<1>4. current \in 0 .. Len(handed)
  BY <1>2 DEF Init, Client!Init, Client!NoCall
<1>5. 0 \in 0 .. MaxDisconnects /\ 0 \in 0 .. MaxRequests
  BY BoundsAssumption
<1> QED BY <1>1, <1>2, <1>3, <1>4, <1>5 DEF Init, TypeOK, None

LEMMA TypeStep == TypeOK /\ [Next]_vars => TypeOK'
<1> SUFFICES ASSUME TypeOK, [Next]_vars PROVE TypeOK'
  OBVIOUS
<1> USE DEF outer, client, worker
<1>1. CASE Gui
  <2>1. CASE Start
    BY <2>1, PostedAppend, EventsTyped DEF Start, TypeOK
  <2>2. CASE Submit
    <3>1. submitted + 1 \in Requests /\ submitted + 1 \in 0 .. MaxRequests
      BY <2>2, BoundsAssumption DEF Submit, TypeOK, Requests
    <3>2. Posted(mailbox')
      BY <2>2, <3>1, PostedAppend, EventsTyped DEF Submit, TypeOK
    <3>3. answers' \in [Requests -> Nat]
      BY <2>2, AnswerAllType DEF Submit, TypeOK
    <3> QED BY <2>2, <3>1, <3>2, <3>3 DEF Submit, TypeOK
  <2>3. CASE RequestDisconnect
    <3>1. disconnects' \in 0 .. MaxDisconnects
      BY <2>3, BoundsAssumption DEF RequestDisconnect, TypeOK
    <3>2. CASE Running
      <4>1. Posted(mailbox')
        BY <2>3, <3>2, PostedAppend, EventsTyped DEF RequestDisconnect, TypeOK
      <4> QED BY <2>3, <3>1, <3>2, <4>1 DEF RequestDisconnect, TypeOK
    <3>3. CASE ~Running
      <4>1. HandleDisconnect(mailbox)
        BY <2>3, <3>3 DEF RequestDisconnect
      <4> QED BY <2>3, <3>1, <4>1, HandleDisconnectType DEF RequestDisconnect, TypeOK
    <3> QED BY <3>2, <3>3
  <2>4. CASE Stop
    BY <2>4 DEF Stop, TypeOK
  <2>5. CASE Quit
    BY <2>5 DEF Quit, TypeOK
  <2>6. CASE Destroy
    <3>1. Posted(<<>>)
      BY DEF Posted, EventSet
    <3>2. CASE stopped \/ stopping
      BY <2>6, <3>1, <3>2 DEF Destroy, TypeOK
    <3>3. CASE ~(stopped \/ stopping)
      <4>1. HandleStopInThread(<<>>)
        BY <2>6, <3>3 DEF Destroy
      <4> QED BY <2>6, <4>1, <3>1, HandleStopType DEF Destroy, TypeOK
    <3> QED BY <3>2, <3>3
  <2> QED BY <1>1, <2>1, <2>2, <2>3, <2>4, <2>5, <2>6 DEF Gui
<1>2. CASE InStop
  <2>1. CASE StopAborts
    <3>1. CASE Complete(mailbox)
      BY <2>1, <3>1, CompleteType DEF StopAborts, TypeOK
    <3>2. CASE UNCHANGED <<client, isProcessing, mailbox, answers>>
      BY <2>1, <3>2 DEF StopAborts, TypeOK
    <3> QED BY <2>1, <3>1, <3>2 DEF StopAborts
  <2>2. CASE StopPosts
    <3>1. CASE Running
      <4>1. Posted(mailbox')
        BY <2>2, <3>1, PostedAppend, EventsTyped DEF StopPosts, TypeOK
      <4> QED BY <2>2, <3>1, <4>1 DEF StopPosts, TypeOK
    <3>2. CASE ~Running
      <4>1. HandleStopInThread(mailbox)
        BY <2>2, <3>2 DEF StopPosts
      <4> QED BY <2>2, <4>1, HandleStopType DEF StopPosts, TypeOK
    <3> QED BY <3>1, <3>2
  <2> QED BY <1>2, <2>1, <2>2 DEF InStop
<1>3. CASE Handler
  <2>0. ASSUME NEW t, Delivers(t)
        PROVE  /\ Posted(Tail(mailbox)) /\ Head(mailbox) \in EventSet /\ pc = "loop"
               /\ t = "submit" => Head(mailbox).id \in Requests
    BY <2>0, PostedTail DEF Delivers, TypeOK, Posted
  <2>1. CASE DeliverSubmit
    <3>1. Head(mailbox).id \in Requests /\ Posted(mailbox') /\ pc = "loop"
      BY <2>0, <2>1 DEF DeliverSubmit
    <3>2. queued' \in Seq(Requests)
      <4>1. queued \in Seq(Requests) /\ Append(queued, Head(mailbox).id) \in Seq(Requests)
        BY <3>1, AppendFacts DEF TypeOK
      <4>2. queued' = queued \/ queued' = Append(queued, Head(mailbox).id)
        BY <2>1 DEF DeliverSubmit
      <4> QED BY <4>1, <4>2
    <3>3. answers' \in [Requests -> Nat]
      BY <2>1, AnswerAllType DEF DeliverSubmit, TypeOK
    <3>4. pc' \in {"loop", "process"} /\ item' = None
      BY <2>1, <3>1 DEF DeliverSubmit, TypeOK
    <3> QED BY <2>1, <3>1, <3>2, <3>3, <3>4 DEF DeliverSubmit, TypeOK
  <2>2. CASE DeliverProcess
    BY <2>0, <2>2 DEF DeliverProcess, TypeOK
  <2>3. CASE DeliverConnect
    <3>1. Posted(mailbox') /\ pc = "loop"
      BY <2>0, <2>3 DEF DeliverConnect
    <3> QED BY <2>3, <3>1 DEF DeliverConnect, TypeOK
  <2>4. CASE DeliverDisconnect
    <3>1. HandleDisconnect(Tail(mailbox)) /\ Posted(Tail(mailbox))
      BY <2>0, <2>4 DEF DeliverDisconnect
    <3> QED BY <2>4, <3>1, HandleDisconnectType DEF DeliverDisconnect, TypeOK
  <2>5. CASE DeliverStop
    <3>1. HandleStopInThread(Tail(mailbox)) /\ Posted(Tail(mailbox))
      BY <2>0, <2>5 DEF DeliverStop
    <3> QED BY <2>5, <3>1, HandleStopType DEF DeliverStop, TypeOK
  <2>6. CASE ProcessQueue
    <3>1. CASE stopping \/ isProcessing \/ queued = <<>>
      BY <2>6, <3>1 DEF ProcessQueue, TypeOK
    <3>2. CASE ~(stopping \/ isProcessing \/ queued = <<>>)
      <4>1. Head(queued) \in Requests /\ Tail(queued) \in Seq(Requests)
        BY <3>2, TailFacts DEF TypeOK
      <4>2. Head(queued) # None
        BY <4>1 DEF Requests, None
      <4> QED BY <2>6, <3>2, <4>1, <4>2 DEF ProcessQueue, TypeOK
    <3> QED BY <3>1, <3>2
  <2>7. CASE RefuseItem
    BY <2>7, AnswerAllType DEF RefuseItem, TypeOK
  <2>8. CASE HandleSubmit
    <3>1. item \in Requests /\ pc = "handing"
      BY <2>8 DEF HandleSubmit, TypeOK
    <3>2. /\ handed' = Append(handed, item) /\ handed' \in Seq(Requests)
          /\ Len(handed') = Len(handed) + 1
      BY <2>8, <3>1, AppendFacts DEF HandleSubmit, TypeOK
    <3>3. CASE Client!Take /\ pc' = "calling" /\ UNCHANGED <<isProcessing, mailbox, answers>>
      BY <2>8, <3>1, <3>2, <3>3 DEF HandleSubmit, TypeOK, Client!Take
    <3>4. CASE Client!TurnAway /\ AnswerAll({item}) /\ AfterCompletion(mailbox) /\ pc' = "loop"
      <4>1. answers' \in [Requests -> Nat]
        BY <3>4, AnswerAllType DEF TypeOK
      <4>2. Posted(mailbox') /\ isProcessing' = FALSE
        BY <3>4, PostedReschedule DEF TypeOK, AfterCompletion
      <4>3. clientAnswers' \in [Requests -> Nat]
        <5>1. /\ clientAnswers' = [clientAnswers EXCEPT ![Len(handed) + 1] = @ + 1]
              /\ Len(handed) < MaxRequests /\ Len(handed) \in Nat
              /\ clientAnswers \in [Requests -> Nat]
          BY <3>4 DEF TypeOK, Client!TurnAway
        <5>2. Len(handed) + 1 \in Requests
          BY <5>1, BoundsAssumption DEF Requests
        <5>3. clientAnswers[Len(handed) + 1] + 1 \in Nat
          BY <5>1, <5>2
        <5> QED BY <5>1, <5>3
      <4>4. current' \in 0 .. Len(handed')
        <5>1. current' = current /\ current \in 0 .. Len(handed) /\ Len(handed) \in Nat
          BY <3>4 DEF TypeOK, Client!TurnAway
        <5> QED BY <3>2, <5>1
      <4> QED BY <2>8, <3>1, <3>2, <3>4, <4>1, <4>2, <4>3, <4>4 DEF HandleSubmit, TypeOK
    <3> QED BY <2>8, <3>3, <3>4 DEF HandleSubmit
  <2>9. CASE CallReturns
    BY <2>9 DEF CallReturns, TypeOK
  <2>10. CASE ConnectReturns
    BY <2>10 DEF ConnectReturns, TypeOK
  <2> QED BY <1>3, <2>1, <2>2, <2>3, <2>4, <2>5, <2>6, <2>7, <2>8, <2>9, <2>10 DEF Handler
<1>4. CASE ClientCompletes
  BY <1>4, CompleteType DEF ClientCompletes, TypeOK
<1>5. CASE ChannelChanges
  BY <1>5 DEF ChannelChanges, TypeOK
<1>6. CASE ThreadFinishes
  BY <1>6 DEF ThreadFinishes, TypeOK
<1>7. CASE UNCHANGED vars
  BY <1>7 DEF vars, TypeOK
<1> QED BY <1>1, <1>2, <1>3, <1>4, <1>5, <1>6, <1>7 DEF Next

\* Every variable of the worker keeps its type: what is posted to it, queued
\* and handed to the client are requests, and nothing else is ever answered.
THEOREM TypeCorrect == Spec => []TypeOK
BY TypeInit, TypeStep, PTL DEF Spec

-----------------------------------------------------------------------------
(* The inductive invariant *)

\* Before start() there is nothing to stop, to serve or to deliver.
NotStarted ==
  thread = "new" =>
    mailbox = <<>> /\ gui = "idle" /\ queued = <<>> /\ ~stopped /\ ~isProcessing

\* Handlers run on the running thread only.
HandlersNeedTheThread == thread # "running" => pc = "loop"

\* isProcessing_ covers every request in service.  RefuseItem leaves it set
\* without one, but only for a worker that stops.
Marked ==
  /\ ~Idle => isProcessing
  /\ pc = "handing" => isProcessing /\ Idle
  /\ isProcessing /\ ~stopping /\ ~stopped => InService # None

NoConnect(m)        == \A i \in DOMAIN m : m[i].type # "connect"
ConnectOnlyFirst(m) == \A i \in DOMAIN m : m[i].type = "connect" => i = 1
Scheduled(m)        == \E i \in DOMAIN m : m[i] = ProcessQueued

\* A stopped worker does not connect and calls no client: the one connect
\* event is the first one posted, so no stop event overtakes it.
StoppedHandlers ==
  /\ stopped => pc \in {"loop", "process"}
  /\ Running => ConnectOnlyFirst(mailbox)
  /\ Running /\ stopped => NoConnect(mailbox)

WorkerInv ==
  /\ TypeOK /\ NotStarted /\ HandlersNeedTheThread /\ Marked /\ StoppedHandlers
  /\ StoppedIsQuiet /\ QueueIsScheduled

LEMMA TailEvents ==
  ASSUME NEW m, Posted(m), m # <<>>
  PROVE  /\ ConnectOnlyFirst(m) => NoConnect(Tail(m))
         /\ NoConnect(Tail(m)) => ConnectOnlyFirst(Tail(m))
         /\ NoConnect(m) => Head(m).type # "connect"
         /\ Scheduled(m) /\ Head(m).type # "process" => Scheduled(Tail(m))
<1>1. /\ Head(m) = m[1] /\ 1 \in DOMAIN m
      /\ m \in Seq(EventSet) /\ Len(Tail(m)) = Len(m) - 1 /\ Len(m) \in Nat
      /\ DOMAIN m = 1 .. Len(m) /\ DOMAIN Tail(m) = 1 .. Len(Tail(m))
      /\ \A i \in DOMAIN Tail(m) : i + 1 \in DOMAIN m /\ Tail(m)[i] = m[i + 1]
  BY PostedTail, TailFacts DEF Posted
<1>2. ConnectOnlyFirst(m) => NoConnect(Tail(m))
  <2> SUFFICES ASSUME ConnectOnlyFirst(m), NEW i \in DOMAIN Tail(m)
               PROVE  Tail(m)[i].type # "connect"
    BY DEF NoConnect
  <2>1. i \in Nat /\ i >= 1 /\ i + 1 # 1 /\ i + 1 \in DOMAIN m /\ Tail(m)[i] = m[i + 1]
    BY <1>1
  <2> QED BY <2>1 DEF ConnectOnlyFirst
<1>3. NoConnect(m) => Head(m).type # "connect"
  BY <1>1 DEF NoConnect
<1>4. Scheduled(m) /\ Head(m).type # "process" => Scheduled(Tail(m))
  <2> SUFFICES ASSUME Scheduled(m), Head(m).type # "process" PROVE Scheduled(Tail(m))
    OBVIOUS
  <2>1. PICK i \in DOMAIN m : m[i] = ProcessQueued
    BY DEF Scheduled
  <2>2. i # 1
    BY <1>1, <2>1 DEF ProcessQueued, Event
  <2>3. i - 1 \in DOMAIN Tail(m) /\ (i - 1) + 1 = i
    BY <1>1, <2>2
  <2>4. Tail(m)[i - 1] = m[i]
    BY <1>1, <2>3
  <2> QED BY <2>1, <2>3, <2>4 DEF Scheduled
<1> QED BY <1>2, <1>3, <1>4 DEF NoConnect, ConnectOnlyFirst

LEMMA AppendEvents ==
  ASSUME NEW m, Posted(m), NEW e \in EventSet
  PROVE  /\ NoConnect(m) /\ e.type # "connect" => NoConnect(Append(m, e))
         /\ ConnectOnlyFirst(m) /\ e.type # "connect" => ConnectOnlyFirst(Append(m, e))
         /\ Scheduled(m) => Scheduled(Append(m, e))
         /\ Scheduled(Append(m, ProcessQueued))
<1>1. /\ m \in Seq(EventSet)
      /\ \A i \in DOMAIN m : i \in DOMAIN Append(m, e) /\ Append(m, e)[i] = m[i]
      /\ Append(m, e)[Len(m) + 1] = e
      /\ \A i \in DOMAIN Append(m, e) : i \in DOMAIN m \/ i = Len(m) + 1
  BY AppendFacts DEF Posted
<1>2. Scheduled(Append(m, ProcessQueued))
  BY <1>1, EventsTyped, AppendFacts DEF Scheduled
<1>3. NoConnect(m) /\ e.type # "connect" => NoConnect(Append(m, e))
  BY <1>1 DEF NoConnect
<1>4. ConnectOnlyFirst(m) /\ e.type # "connect" => ConnectOnlyFirst(Append(m, e))
  BY <1>1 DEF ConnectOnlyFirst
<1>5. Scheduled(m) => Scheduled(Append(m, e))
  BY <1>1 DEF Scheduled
<1> QED BY <1>2, <1>3, <1>4, <1>5

-----------------------------------------------------------------------------
(* What the calls shared by several actions do to the invariant's variables *)

LEMMA RescheduleEffect ==
  ASSUME NEW m, Posted(m)
  PROVE  /\ NoConnect(m) => NoConnect(Reschedule(m))
         /\ ConnectOnlyFirst(m) => ConnectOnlyFirst(Reschedule(m))
         /\ queued # <<>> /\ ~stopping => Scheduled(Reschedule(m))
         /\ Reschedule(m) = m \/ (queued # <<>> /\ ~stopping)
BY AppendEvents, EventsTyped DEF Reschedule, ProcessQueued, Event

LEMMA CompleteEffect ==
  ASSUME TypeOK, NEW m, Complete(m)
  PROVE  /\ ~Idle /\ Idle' /\ current' = None /\ isProcessing' = FALSE
         /\ mailbox' = Reschedule(m)
BY DEF Complete, AfterCompletion, Client!AnswerCurrent, Client!NoCall, Idle, None

LEMMA AbortAndDrainEffect ==
  ASSUME TypeOK, AbortAndDrain
  PROVE  /\ queued' = <<>> /\ Idle'
         /\ isProcessing' => Idle /\ isProcessing
BY DEF AbortAndDrain, Client!AnswerCurrent, Client!NoCall, Idle, client

LEMMA HandleStopEffect ==
  ASSUME TypeOK, StoppedIsQuiet, NEW m, HandleStopInThread(m), pc = "loop", pc' = "loop"
  PROVE  /\ stopped' /\ ~stopping' /\ queued' = <<>> /\ Idle' /\ ~open'
         /\ stops' = 1 /\ mailbox' = m
         /\ isProcessing' => isProcessing
<1>1. CASE stopped
  <2>1. Idle
    <3>1. InService = None
      BY <1>1 DEF StoppedIsQuiet
    <3>2. ~Idle => handed[current] \in Requests
      BY DEF TypeOK, Idle, Client!NoCall
    <3> QED BY <3>1, <3>2 DEF InService, None, Requests
  <2> QED BY <1>1, <2>1 DEF HandleStopInThread, StoppedIsQuiet, client, Idle
<1>2. CASE ~stopped
  <2>1. AbortAndDrain
    BY <1>2 DEF HandleStopInThread
  <2>2. stops' = stops + 1 /\ stops = 0
    BY <1>2 DEF HandleStopInThread, StoppedIsQuiet
  <2> QED BY <1>2, <2>1, <2>2, AbortAndDrainEffect DEF HandleStopInThread
<1> QED BY <1>1, <1>2

\* A request in service is one, and without one nobody is served.
LEMMA ServiceFacts ==
  ASSUME TypeOK
  PROVE  /\ pc = "handing" => InService = item /\ item # None
         /\ pc # "handing" /\ ~Idle => InService # None
         /\ pc # "handing" => (InService = None <=> Idle)
<1>1. ~Idle => handed[current] \in Requests
  BY DEF TypeOK, Idle, Client!NoCall
<1>2. None \notin Requests
  BY DEF None, Requests
<1> QED BY <1>1, <1>2 DEF InService, TypeOK

LEMMA ServiceFactsPrimed ==
  ASSUME TypeOK'
  PROVE  /\ pc' # "handing" /\ ~Idle' => InService' # None
         /\ pc' # "handing" => (InService' = None <=> Idle')
         /\ pc' = "handing" => InService' # None
<1>1. ~Idle' => handed'[current'] \in Requests
  BY DEF TypeOK, Idle, Client!NoCall
<1>2. None \notin Requests
  BY DEF None, Requests
<1> QED BY <1>1, <1>2 DEF InService, TypeOK

\* An action that leaves the client and the handler alone serves the same.
LEMMA SameService ==
  ASSUME UNCHANGED <<client, pc, item>>
  PROVE  InService' = InService /\ Idle' = Idle
BY DEF InService, Idle, client, Client!NoCall

-----------------------------------------------------------------------------
(* The invariant is preserved *)

LEMMA NotStartedStep == WorkerInv /\ [Next]_vars => NotStarted' /\ HandlersNeedTheThread'
<1> SUFFICES ASSUME WorkerInv, [Next]_vars PROVE NotStarted' /\ HandlersNeedTheThread'
  OBVIOUS
<1> USE DEF WorkerInv, NotStarted, HandlersNeedTheThread, Running
<1>1. CASE Gui
  <2>1. CASE Start
    BY <2>1 DEF Start
  <2>2. CASE Submit \/ RequestDisconnect \/ Stop \/ Quit \/ Destroy
    <3>1. thread # "new" /\ thread' = thread /\ pc' = pc
      BY <2>2 DEF Submit, RequestDisconnect, Stop, Quit, Destroy, GuiFree, outer
    <3> QED BY <3>1
  <2> QED BY <1>1, <2>1, <2>2 DEF Gui
<1>2. CASE InStop
  <2>1. thread # "new" /\ thread' = thread /\ pc' = pc
    BY <1>2 DEF InStop, StopAborts, StopPosts, outer
  <2> QED BY <2>1
<1>3. CASE Handler
  <2>1. thread = "running" /\ thread' = thread
    BY <1>3 DEF Handler, DeliverSubmit, DeliverProcess, DeliverConnect, DeliverDisconnect,
                DeliverStop, Delivers, ProcessQueue, RefuseItem, HandleSubmit, CallReturns,
                ConnectReturns, outer
  <2> QED BY <2>1
<1>4. CASE ClientCompletes \/ ChannelChanges \/ ThreadFinishes
  <2>1. thread = "running" /\ pc' = pc /\ (thread' = thread \/ (thread' = "finished" /\ pc = "loop"))
    BY <1>4 DEF ClientCompletes, ChannelChanges, ThreadFinishes, outer
  <2> QED BY <2>1
<1>5. CASE UNCHANGED vars
  BY <1>5 DEF vars, outer, worker
<1> QED BY <1>1, <1>2, <1>3, <1>4, <1>5 DEF Next

LEMMA MarkedStep == WorkerInv /\ [Next]_vars => Marked'
<1> SUFFICES ASSUME WorkerInv, [Next]_vars PROVE Marked'
  OBVIOUS
<1>0. TypeOK /\ TypeOK' /\ Marked /\ StoppedIsQuiet
  BY TypeStep DEF WorkerInv
<1>1. CASE Gui
  <2>1. CASE Start
    <3>1. ~isProcessing /\ isProcessing' = isProcessing /\ pc' = "loop"
      BY <2>1 DEF Start, WorkerInv, NotStarted, HandlersNeedTheThread
    <3>2. UNCHANGED <<client, pc, item>>
      BY <2>1 DEF Start
    <3>3. Idle' = Idle
      BY <3>2, SameService
    <3> QED BY <1>0, <3>1, <3>3 DEF Marked
  <2>2. CASE Submit \/ Stop \/ Quit
    <3>1. /\ UNCHANGED <<client, pc, item>> /\ UNCHANGED <<isProcessing, stopped>>
          /\ stopping' = stopping \/ stopping'
      BY <2>2 DEF Submit, Stop, Quit, worker
    <3> QED BY <1>0, <3>1, SameService DEF Marked
  <2>3. CASE RequestDisconnect
    <3>1. CASE Running
      <4>1. UNCHANGED <<client, pc, item>> /\ UNCHANGED <<isProcessing, stopped, stopping>>
        BY <2>3, <3>1 DEF RequestDisconnect
      <4> QED BY <1>0, <4>1, SameService DEF Marked
    <3>2. CASE ~Running
      <4>1. AbortAndDrain /\ pc = "loop" /\ UNCHANGED <<stopping, stopped, pc, item>>
        BY <2>3, <3>2 DEF RequestDisconnect, HandleDisconnect, WorkerInv, HandlersNeedTheThread, Running
      <4>2. Idle' /\ (isProcessing' => Idle /\ isProcessing)
        BY <1>0, <4>1, AbortAndDrainEffect
      <4>3. InService = None <=> Idle
        BY <1>0, <4>1, ServiceFacts
      <4> QED BY <1>0, <4>1, <4>2, <4>3 DEF Marked
    <3> QED BY <3>1, <3>2
  <2>4. CASE Destroy
    <3>1. CASE stopped \/ stopping
      <4>1. UNCHANGED <<client, pc, item>> /\ UNCHANGED <<isProcessing, stopped, stopping>>
        BY <2>4, <3>1 DEF Destroy, worker
      <4> QED BY <1>0, <4>1, SameService DEF Marked
    <3>2. CASE ~(stopped \/ stopping)
      <4>1. HandleStopInThread(<<>>) /\ pc = "loop" /\ pc' = "loop"
        BY <2>4, <3>2 DEF Destroy, WorkerInv, HandlersNeedTheThread
      <4> QED BY <1>0, <4>1, HandleStopEffect DEF Marked
    <3> QED BY <3>1, <3>2
  <2> QED BY <1>1, <2>1, <2>2, <2>3, <2>4 DEF Gui
<1>2. CASE InStop
  <2>1. CASE StopAborts
    <3>1. CASE Complete(mailbox)
      <4>1. ~Idle /\ Idle' /\ ~isProcessing' /\ pc' = pc
        BY <1>0, <2>1, <3>1, CompleteEffect DEF StopAborts
      <4> QED BY <1>0, <4>1 DEF Marked
    <3>2. CASE UNCHANGED <<client, isProcessing, mailbox, answers>>
      <4>1. UNCHANGED <<client, pc, item>> /\ UNCHANGED <<isProcessing, stopped, stopping>>
        BY <2>1, <3>2 DEF StopAborts
      <4> QED BY <1>0, <4>1, SameService DEF Marked
    <3> QED BY <2>1, <3>1, <3>2 DEF StopAborts
  <2>2. CASE StopPosts
    <3>1. CASE Running
      <4>1. UNCHANGED <<client, pc, item>> /\ UNCHANGED <<isProcessing, stopped, stopping>>
        BY <2>2, <3>1 DEF StopPosts, worker
      <4> QED BY <1>0, <4>1, SameService DEF Marked
    <3>2. CASE ~Running
      <4>1. HandleStopInThread(mailbox) /\ pc = "loop" /\ pc' = "loop"
        BY <2>2, <3>2 DEF StopPosts, WorkerInv, HandlersNeedTheThread, Running
      <4> QED BY <1>0, <4>1, HandleStopEffect DEF Marked
    <3> QED BY <3>1, <3>2
  <2> QED BY <1>2, <2>1, <2>2 DEF InStop
<1>3. CASE Handler
  <2>1. CASE DeliverSubmit \/ DeliverProcess \/ DeliverConnect \/ ConnectReturns \/ CallReturns
    <3>1. /\ UNCHANGED <<client, item, isProcessing, stopped, stopping>>
          /\ pc # "handing" /\ pc' # "handing"
      BY <1>0, <2>1 DEF DeliverSubmit, DeliverProcess, DeliverConnect, ConnectReturns,
                  CallReturns, Delivers, worker
    <3>2. InService' = InService /\ Idle' = Idle
      BY <3>1 DEF InService, Idle, client, Client!NoCall
    <3> QED BY <1>0, <3>1, <3>2 DEF Marked
  <2>2. CASE DeliverDisconnect
    <3>1. AbortAndDrain /\ pc = "loop" /\ UNCHANGED <<stopping, stopped, pc, item>>
      BY <2>2 DEF DeliverDisconnect, HandleDisconnect, Delivers
    <3>2. Idle' /\ (isProcessing' => Idle /\ isProcessing)
      BY <1>0, <3>1, AbortAndDrainEffect
    <3>3. InService = None <=> Idle
      BY <1>0, <3>1, ServiceFacts
    <3> QED BY <1>0, <3>1, <3>2, <3>3 DEF Marked
  <2>3. CASE DeliverStop
    <3>1. HandleStopInThread(Tail(mailbox)) /\ pc = "loop" /\ pc' = "loop"
      BY <2>3 DEF DeliverStop, Delivers
    <3> QED BY <1>0, <3>1, HandleStopEffect DEF Marked
  <2>4. CASE ProcessQueue
    <3>1. CASE stopping \/ isProcessing \/ queued = <<>>
      <4>1. /\ UNCHANGED <<client, item, isProcessing, stopped, stopping>>
            /\ pc = "process" /\ pc' = "loop"
        BY <2>4, <3>1 DEF ProcessQueue
      <4>2. InService' = InService /\ Idle' = Idle
        BY <4>1 DEF InService, Idle, client, Client!NoCall
      <4> QED BY <1>0, <4>1, <4>2 DEF Marked
    <3>2. CASE ~(stopping \/ isProcessing \/ queued = <<>>)
      <4>1. ~isProcessing /\ isProcessing' /\ pc' = "handing" /\ Idle' = Idle
        BY <2>4, <3>2 DEF ProcessQueue, Idle, client, Client!NoCall
      <4> QED BY <1>0, <4>1, ServiceFactsPrimed DEF Marked
    <3> QED BY <3>1, <3>2
  <2>5. CASE RefuseItem
    <3>1. isProcessing /\ isProcessing' = isProcessing /\ stopping' /\ pc' = "loop"
      BY <1>0, <2>5 DEF RefuseItem, worker, Marked
    <3> QED BY <3>1 DEF Marked
  <2>6. CASE HandleSubmit
    <3>1. Idle /\ isProcessing /\ pc = "handing"
      BY <1>0, <2>6 DEF HandleSubmit, Marked
    <3>2. CASE Client!Take /\ pc' = "calling" /\ UNCHANGED <<isProcessing, mailbox, answers>>
      <4>1. ~Idle'
        BY <1>0, <3>2 DEF Client!Take, Client!NoCall, Idle, TypeOK
      <4> QED BY <1>0, <3>1, <3>2, <4>1, ServiceFactsPrimed DEF Marked
    <3>3. CASE Client!TurnAway /\ AnswerAll({item}) /\ AfterCompletion(mailbox) /\ pc' = "loop"
      BY <3>1, <3>3 DEF Client!TurnAway, AfterCompletion, Idle, Client!NoCall, Marked
    <3> QED BY <2>6, <3>2, <3>3 DEF HandleSubmit
  <2> QED BY <1>3, <2>1, <2>2, <2>3, <2>4, <2>5, <2>6 DEF Handler
<1>4. CASE ClientCompletes
  <2>1. ~Idle /\ Idle' /\ ~isProcessing' /\ pc' = pc
    BY <1>0, <1>4, CompleteEffect DEF ClientCompletes
  <2> QED BY <1>0, <2>1 DEF Marked
<1>5. CASE ChannelChanges \/ ThreadFinishes \/ UNCHANGED vars
  <2>1. UNCHANGED <<client, pc, item>> /\ UNCHANGED <<isProcessing, stopped, stopping>>
    BY <1>5 DEF ChannelChanges, ThreadFinishes, vars, worker
  <2> QED BY <1>0, <2>1, SameService DEF Marked
<1> QED BY <1>1, <1>2, <1>3, <1>4, <1>5 DEF Next

\* A stopped worker does not serve.
LEMMA StoppedIsIdle ==
  ASSUME WorkerInv, stopped
  PROVE  Idle /\ pc \in {"loop", "process"} /\ queued = <<>> /\ ~open
<1>1. pc \in {"loop", "process"} /\ InService = None /\ TypeOK
  BY DEF WorkerInv, StoppedHandlers, StoppedIsQuiet
<1> QED BY <1>1, ServiceFacts DEF WorkerInv, StoppedIsQuiet

LEMMA QuietStep == WorkerInv /\ [Next]_vars => StoppedIsQuiet'
<1> SUFFICES ASSUME WorkerInv, [Next]_vars PROVE StoppedIsQuiet'
  OBVIOUS
<1>0. TypeOK /\ TypeOK' /\ StoppedIsQuiet /\ HandlersNeedTheThread
  BY TypeStep DEF WorkerInv
<1>a. ASSUME UNCHANGED <<client, pc, item>>, UNCHANGED <<stopped, queued, open, stops>>
      PROVE  StoppedIsQuiet'
  BY <1>0, <1>a, SameService DEF StoppedIsQuiet
<1>b. ASSUME stopped' = stopped, stops' = stops, pc' # "handing",
             stopped => queued' = <<>> /\ Idle' /\ ~open'
      PROVE  StoppedIsQuiet'
  BY <1>0, <1>b, ServiceFactsPrimed DEF StoppedIsQuiet
<1>c. ASSUME NEW m, HandleStopInThread(m), pc = "loop", pc' = "loop"
      PROVE  StoppedIsQuiet'
  <2>1. stopped' /\ queued' = <<>> /\ Idle' /\ ~open' /\ stops' = 1
    BY <1>0, <1>c, HandleStopEffect
  <2> QED BY <1>0, <1>c, <2>1, ServiceFactsPrimed DEF StoppedIsQuiet
<1>d. ASSUME stopped' = stopped, stops' = stops, ~stopped
      PROVE  StoppedIsQuiet'
  BY <1>0, <1>d DEF StoppedIsQuiet
<1>1. CASE Gui
  <2>1. CASE Start
    <3>1. ~stopped /\ stopped' = FALSE /\ stops' = stops
      BY <2>1 DEF Start, WorkerInv, NotStarted
    <3> QED BY <1>0, <3>1 DEF StoppedIsQuiet
  <2>2. CASE Submit \/ Stop \/ Quit
    <3>1. UNCHANGED <<client, pc, item>> /\ UNCHANGED <<stopped, queued, open, stops>>
      BY <2>2 DEF Submit, Stop, Quit, worker
    <3> QED BY <1>a, <3>1
  <2>3. CASE RequestDisconnect
    <3>1. CASE Running
      <4>1. UNCHANGED <<client, pc, item>> /\ UNCHANGED <<stopped, queued, open, stops>>
        BY <2>3, <3>1 DEF RequestDisconnect
      <4> QED BY <1>a, <4>1
    <3>2. CASE ~Running
      <4>1. AbortAndDrain /\ pc' = "loop" /\ open' = FALSE /\ UNCHANGED <<stopped, stops>>
        BY <1>0, <2>3, <3>2 DEF RequestDisconnect, HandleDisconnect, HandlersNeedTheThread, Running
      <4> QED BY <1>0, <1>b, <4>1, AbortAndDrainEffect
    <3> QED BY <3>1, <3>2
  <2>4. CASE Destroy
    <3>1. CASE stopped \/ stopping
      <4>1. UNCHANGED <<client, pc, item>> /\ UNCHANGED <<stopped, queued, open, stops>>
        BY <2>4, <3>1 DEF Destroy, worker
      <4> QED BY <1>a, <4>1
    <3>2. CASE ~(stopped \/ stopping)
      <4>1. HandleStopInThread(<<>>) /\ pc = "loop" /\ pc' = "loop"
        BY <1>0, <2>4, <3>2 DEF Destroy, HandlersNeedTheThread
      <4> QED BY <1>c, <4>1
    <3> QED BY <3>1, <3>2
  <2> QED BY <1>1, <2>1, <2>2, <2>3, <2>4 DEF Gui
<1>2. CASE InStop
  <2>1. CASE StopAborts
    <3>1. CASE Complete(mailbox)
      <4>1. ~stopped
        BY <1>0, <3>1, CompleteEffect, StoppedIsIdle
      <4> QED BY <1>d, <2>1, <4>1 DEF StopAborts
    <3>2. CASE UNCHANGED <<client, isProcessing, mailbox, answers>>
      <4>1. UNCHANGED <<client, pc, item>> /\ UNCHANGED <<stopped, queued, open, stops>>
        BY <2>1, <3>2 DEF StopAborts
      <4> QED BY <1>a, <4>1
    <3> QED BY <2>1, <3>1, <3>2 DEF StopAborts
  <2>2. CASE StopPosts
    <3>1. CASE Running
      <4>1. UNCHANGED <<client, pc, item>> /\ UNCHANGED <<stopped, queued, open, stops>>
        BY <2>2, <3>1 DEF StopPosts, worker
      <4> QED BY <1>a, <4>1
    <3>2. CASE ~Running
      <4>1. HandleStopInThread(mailbox) /\ pc = "loop" /\ pc' = "loop"
        BY <1>0, <2>2, <3>2 DEF StopPosts, HandlersNeedTheThread, Running
      <4> QED BY <1>c, <4>1
    <3> QED BY <3>1, <3>2
  <2> QED BY <1>2, <2>1, <2>2 DEF InStop
<1>3. CASE Handler
  <2>1. CASE DeliverSubmit \/ DeliverProcess \/ DeliverConnect
    <3>1. /\ stopped' = stopped /\ stops' = stops /\ pc' # "handing"
          /\ UNCHANGED <<client, open>> /\ (stopped => queued' = queued)
      BY <2>1 DEF DeliverSubmit, DeliverProcess, DeliverConnect, Delivers, worker
    <3>2. Idle' = Idle
      BY <3>1 DEF Idle, client, Client!NoCall
    <3> QED BY <1>b, <3>1, <3>2, StoppedIsIdle
  <2>2. CASE DeliverDisconnect
    <3>1. AbortAndDrain /\ pc' = "loop" /\ open' = FALSE /\ UNCHANGED <<stopped, stops>>
      BY <2>2 DEF DeliverDisconnect, HandleDisconnect, Delivers
    <3> QED BY <1>0, <1>b, <3>1, AbortAndDrainEffect
  <2>3. CASE DeliverStop
    <3>1. HandleStopInThread(Tail(mailbox)) /\ pc = "loop" /\ pc' = "loop"
      BY <2>3 DEF DeliverStop, Delivers
    <3> QED BY <1>c, <3>1
  <2>4. CASE ProcessQueue
    <3>1. CASE stopped
      <4>1. /\ stopped' = stopped /\ stops' = stops /\ pc' # "handing"
            /\ UNCHANGED <<client, open, queued>>
        BY <2>4, <3>1, StoppedIsIdle DEF ProcessQueue
      <4>2. Idle' = Idle
        BY <4>1 DEF Idle, client, Client!NoCall
      <4> QED BY <1>b, <4>1, <4>2, StoppedIsIdle
    <3>2. CASE ~stopped
      BY <1>d, <2>4, <3>2 DEF ProcessQueue
    <3> QED BY <3>1, <3>2
  <2>5. CASE RefuseItem \/ HandleSubmit \/ CallReturns \/ ConnectReturns
    <3>1. ~stopped /\ stopped' = stopped /\ stops' = stops
      BY <2>5, StoppedIsIdle DEF RefuseItem, HandleSubmit, CallReturns, ConnectReturns, worker
    <3> QED BY <1>d, <3>1
  <2> QED BY <1>3, <2>1, <2>2, <2>3, <2>4, <2>5 DEF Handler
<1>4. CASE ClientCompletes
  <2>1. ~stopped
    BY <1>0, <1>4, CompleteEffect, StoppedIsIdle DEF ClientCompletes
  <2> QED BY <1>d, <1>4, <2>1 DEF ClientCompletes
<1>5. CASE ChannelChanges
  <2>1. CASE stopped
    <3>1. FALSE
      BY <1>5, <2>1, StoppedIsIdle DEF ChannelChanges
    <3> QED BY <3>1
  <2>2. CASE ~stopped
    BY <1>d, <1>5, <2>2 DEF ChannelChanges, worker
  <2> QED BY <2>1, <2>2
<1>6. CASE ThreadFinishes \/ UNCHANGED vars
  <2>1. UNCHANGED <<client, pc, item>> /\ UNCHANGED <<stopped, queued, open, stops>>
    BY <1>6 DEF ThreadFinishes, vars, worker
  <2> QED BY <1>a, <2>1
<1> QED BY <1>1, <1>2, <1>3, <1>4, <1>5, <1>6 DEF Next

LEMMA HandlersStep == WorkerInv /\ [Next]_vars => StoppedHandlers'
<1> SUFFICES ASSUME WorkerInv, [Next]_vars PROVE StoppedHandlers'
  OBVIOUS
<1>0. TypeOK /\ StoppedIsQuiet /\ HandlersNeedTheThread /\ StoppedHandlers /\ Posted(mailbox)
  BY DEF WorkerInv, TypeOK
<1>a. ASSUME stopped' = stopped, pc' = pc \/ (pc' \in {"loop", "process"}), thread' = thread,
             ConnectOnlyFirst(mailbox) => ConnectOnlyFirst(mailbox'),
             NoConnect(mailbox) => NoConnect(mailbox')
      PROVE  StoppedHandlers'
  BY <1>0, <1>a DEF StoppedHandlers, Running
<1>b. ASSUME stopped' => pc' \in {"loop", "process"}, ~Running'
      PROVE  StoppedHandlers'
  BY <1>b DEF StoppedHandlers
<1>c. ASSUME NEW t, Delivers(t)
      PROVE  /\ pc = "loop" /\ thread = "running" /\ Posted(Tail(mailbox))
             /\ Head(mailbox).type = t /\ NoConnect(Tail(mailbox))
             /\ ConnectOnlyFirst(Tail(mailbox)) /\ (stopped => t # "connect")
  BY <1>0, <1>c, TailEvents, PostedTail DEF Delivers, StoppedHandlers, Running
<1>d. ASSUME stopped' => pc' \in {"loop", "process"}, NoConnect(mailbox'),
             ConnectOnlyFirst(mailbox')
      PROVE  StoppedHandlers'
  BY <1>d DEF StoppedHandlers
<1>e. \A t \in {"submit", "disconnect", "stop"} : \A r \in Requests \cup {None} :
        LET e == [type |-> t, id |-> r]
        IN  /\ ConnectOnlyFirst(mailbox) => ConnectOnlyFirst(Append(mailbox, e))
            /\ NoConnect(mailbox) => NoConnect(Append(mailbox, e))
  <2> SUFFICES ASSUME NEW t \in {"submit", "disconnect", "stop"}, NEW r \in Requests \cup {None}
               PROVE  LET e == [type |-> t, id |-> r]
                      IN  /\ ConnectOnlyFirst(mailbox) => ConnectOnlyFirst(Append(mailbox, e))
                          /\ NoConnect(mailbox) => NoConnect(Append(mailbox, e))
    OBVIOUS
  <2> DEFINE e == [type |-> t, id |-> r]
  <2>1. e \in EventSet /\ e.type # "connect"
    BY DEF EventSet
  <2> QED BY <1>0, <2>1, AppendEvents
<1>1. CASE Gui
  <2>1. CASE Start
    <3>1. mailbox' = Append(<<>>, Event("connect")) /\ stopped' = FALSE
      BY <2>1 DEF Start, WorkerInv, NotStarted
    <3>2. ConnectOnlyFirst(mailbox')
      BY <3>1 DEF ConnectOnlyFirst
    <3> QED BY <3>1, <3>2 DEF StoppedHandlers
  <2>2. CASE Submit
    <3>1. submitted + 1 \in Requests
      BY <2>2, BoundsAssumption DEF Submit, WorkerInv, TypeOK, Requests
    <3>2. mailbox' = mailbox \/ mailbox' = Append(mailbox, SubmitOf(submitted + 1))
      BY <2>2 DEF Submit
    <3>3. stopped' = stopped /\ pc' = pc /\ thread' = thread
      BY <2>2 DEF Submit, worker
    <3> QED BY <1>a, <1>e, <3>1, <3>2, <3>3 DEF SubmitOf
  <2>3. CASE RequestDisconnect
    <3>1. stopped' = stopped /\ pc' = pc /\ thread' = thread
      BY <2>3 DEF RequestDisconnect
    <3>2. CASE Running
      <4>1. mailbox' = Append(mailbox, Event("disconnect"))
        BY <2>3, <3>2 DEF RequestDisconnect
      <4> QED BY <1>a, <1>e, <3>1, <4>1 DEF Event
    <3>3. CASE ~Running
      BY <1>0, <1>b, <3>1, <3>3 DEF Running, HandlersNeedTheThread
    <3> QED BY <3>2, <3>3
  <2>4. CASE Stop \/ Quit
    <3>1. stopped' = stopped /\ pc' = pc /\ thread' = thread /\ mailbox' = mailbox
      BY <2>4 DEF Stop, Quit, outer, worker
    <3> QED BY <1>a, <3>1
  <2>5. CASE Destroy
    <3>1. pc' = "loop" /\ thread' = "finished"
      BY <1>0, <2>5 DEF Destroy, HandlersNeedTheThread
    <3> QED BY <1>b, <3>1 DEF Running
  <2> QED BY <1>1, <2>1, <2>2, <2>3, <2>4, <2>5 DEF Gui
<1>2. CASE InStop
  <2>1. CASE StopAborts
    <3>1. stopped' = stopped /\ pc' = pc /\ thread' = thread
      BY <2>1 DEF StopAborts, outer
    <3>2. mailbox' = mailbox \/ mailbox' = Reschedule(mailbox)
      BY <2>1 DEF StopAborts, Complete, AfterCompletion
    <3> QED BY <1>0, <1>a, <3>1, <3>2, RescheduleEffect
  <2>2. CASE StopPosts
    <3>1. CASE Running
      <4>1. mailbox' = Append(mailbox, Event("stop")) /\ stopped' = stopped
        BY <2>2, <3>1 DEF StopPosts, worker
      <4>2. pc' = pc /\ thread' = thread
        BY <2>2 DEF StopPosts, outer
      <4> QED BY <1>a, <1>e, <4>1, <4>2 DEF Event
    <3>2. CASE ~Running
      <4>1. pc' = "loop" /\ thread' = thread
        BY <1>0, <2>2, <3>2 DEF StopPosts, outer, HandlersNeedTheThread, Running
      <4> QED BY <1>b, <3>2, <4>1 DEF Running
    <3> QED BY <3>1, <3>2
  <2> QED BY <1>2, <2>1, <2>2 DEF InStop
<1>3. CASE Handler
  <2>1. CASE DeliverSubmit
    <3>1. mailbox' = Tail(mailbox) /\ pc' \in {"loop", "process"}
      BY <1>c, <2>1 DEF DeliverSubmit
    <3> QED BY <1>c, <1>d, <2>1, <3>1 DEF DeliverSubmit
  <2>2. CASE DeliverProcess
    BY <1>c, <1>d, <2>2 DEF DeliverProcess
  <2>3. CASE DeliverConnect
    <3>1. mailbox' = Tail(mailbox) /\ stopped' = stopped /\ ~stopped
      BY <1>c, <2>3 DEF DeliverConnect, worker
    <3> QED BY <1>c, <1>d, <2>3, <3>1 DEF DeliverConnect
  <2>4. CASE DeliverDisconnect
    <3>1. pc' = "loop" /\ (mailbox' = Tail(mailbox) \/ mailbox' = Reschedule(Tail(mailbox)))
      BY <1>c, <2>4 DEF DeliverDisconnect, HandleDisconnect
    <3>2. NoConnect(Tail(mailbox)) /\ ConnectOnlyFirst(Tail(mailbox)) /\ Posted(Tail(mailbox))
      BY <1>c, <2>4 DEF DeliverDisconnect
    <3> QED BY <1>d, <3>1, <3>2, RescheduleEffect
  <2>5. CASE DeliverStop
    <3>1. pc' = "loop" /\ mailbox' = Tail(mailbox)
      BY <1>c, <2>5 DEF DeliverStop, HandleStopInThread
    <3> QED BY <1>c, <1>d, <2>5, <3>1 DEF DeliverStop
  <2>6. CASE ProcessQueue
    <3>1. stopped' = stopped /\ thread' = thread /\ mailbox' = mailbox
      BY <2>6 DEF ProcessQueue, outer
    <3>2. stopped => pc' = "loop"
      BY <2>6, StoppedIsIdle DEF ProcessQueue
    <3> QED BY <1>0, <3>1, <3>2 DEF StoppedHandlers, Running
  <2>7. CASE RefuseItem \/ CallReturns \/ ConnectReturns
    <3>1. stopped' = stopped /\ thread' = thread /\ mailbox' = mailbox /\ pc' = "loop"
      BY <2>7 DEF RefuseItem, CallReturns, ConnectReturns, outer, worker
    <3> QED BY <1>a, <3>1
  <2>8. CASE HandleSubmit
    <3>1. ~stopped /\ stopped' = stopped /\ thread' = thread
      BY <2>8, StoppedIsIdle DEF HandleSubmit, outer
    <3>2. mailbox' = mailbox \/ mailbox' = Reschedule(mailbox)
      BY <2>8 DEF HandleSubmit, AfterCompletion
    <3> QED BY <1>0, <3>1, <3>2, RescheduleEffect DEF StoppedHandlers, Running
  <2> QED BY <1>3, <2>1, <2>2, <2>3, <2>4, <2>5, <2>6, <2>7, <2>8 DEF Handler
<1>4. CASE ClientCompletes
  <2>1. stopped' = stopped /\ pc' = pc /\ thread' = thread /\ mailbox' = Reschedule(mailbox)
    BY <1>4 DEF ClientCompletes, Complete, AfterCompletion, outer
  <2> QED BY <1>0, <1>a, <2>1, RescheduleEffect
<1>5. CASE ChannelChanges \/ UNCHANGED vars
  <2>1. stopped' = stopped /\ pc' = pc /\ thread' = thread /\ mailbox' = mailbox
    BY <1>5 DEF ChannelChanges, vars, outer, worker
  <2> QED BY <1>a, <2>1
<1>6. CASE ThreadFinishes
  BY <1>b, <1>6 DEF ThreadFinishes, Running
<1> QED BY <1>1, <1>2, <1>3, <1>4, <1>5, <1>6 DEF Next

LEMMA ScheduleStep == WorkerInv /\ [Next]_vars => QueueIsScheduled'
<1> SUFFICES ASSUME WorkerInv, [Next]_vars PROVE QueueIsScheduled'
  OBVIOUS
<1>0. TypeOK /\ TypeOK' /\ QueueIsScheduled /\ HandlersNeedTheThread /\ Marked
      /\ Posted(mailbox) /\ StoppedIsQuiet
  BY TypeStep DEF WorkerInv, TypeOK
<1>a. ASSUME stopping' \/ stopped' \/ queued' = <<>> \/ pc' = "process" \/ Scheduled(mailbox')
      PROVE  QueueIsScheduled'
  BY <1>a DEF QueueIsScheduled, Scheduled, ProcessQueued, Event
<1>b. ASSUME UNCHANGED <<client, pc, item>>, UNCHANGED <<queued, stopped>>, stopping' = stopping,
             Scheduled(mailbox) => Scheduled(mailbox')
      PROVE  QueueIsScheduled'
  BY <1>0, <1>a, <1>b, SameService DEF QueueIsScheduled, Scheduled
<1>c. ASSUME queued' = queued, stopping' = stopping, Posted(mailbox), mailbox' = Reschedule(mailbox)
      PROVE  QueueIsScheduled'
  BY <1>a, <1>c, RescheduleEffect
<1>d. ASSUME NEW m, HandleStopInThread(m)
      PROVE  QueueIsScheduled'
  BY <1>a, <1>d DEF HandleStopInThread
<1>e. ASSUME NEW t, Delivers(t), t # "process"
      PROVE  Scheduled(mailbox) => Scheduled(Tail(mailbox))
  BY <1>0, <1>e, TailEvents DEF Delivers
<1>1. CASE Gui
  <2>1. CASE Start
    BY <1>a, <2>1 DEF Start, WorkerInv, NotStarted
  <2>2. CASE Submit
    <3>1. UNCHANGED <<client, pc, item>> /\ UNCHANGED <<queued, stopped>> /\ stopping' = stopping
      BY <2>2 DEF Submit, worker
    <3>2. SubmitOf(submitted + 1) \in EventSet
      BY <2>2, BoundsAssumption, EventsTyped DEF Submit, WorkerInv, TypeOK, Requests
    <3>3. mailbox' = mailbox \/ mailbox' = Append(mailbox, SubmitOf(submitted + 1))
      BY <2>2 DEF Submit
    <3> QED BY <1>0, <1>b, <3>1, <3>2, <3>3, AppendEvents
  <2>3. CASE RequestDisconnect
    <3>1. CASE Running
      <4>1. UNCHANGED <<client, pc, item>> /\ UNCHANGED <<queued, stopped>> /\ stopping' = stopping
        BY <2>3, <3>1 DEF RequestDisconnect
      <4>2. mailbox' = Append(mailbox, Event("disconnect"))
        BY <2>3, <3>1 DEF RequestDisconnect
      <4> QED BY <1>0, <1>b, <4>1, <4>2, AppendEvents, EventsTyped
    <3>2. CASE ~Running
      BY <1>a, <2>3, <3>2 DEF RequestDisconnect, HandleDisconnect, AbortAndDrain
    <3> QED BY <3>1, <3>2
  <2>4. CASE Stop
    BY <1>a, <2>4 DEF Stop
  <2>5. CASE Quit
    <3>1. UNCHANGED <<client, pc, item>> /\ UNCHANGED <<queued, stopped>> /\ stopping' = stopping
          /\ mailbox' = mailbox
      BY <2>5 DEF Quit, worker
    <3> QED BY <1>b, <3>1
  <2>6. CASE Destroy
    <3>1. CASE stopped \/ stopping
      <4>1. stopped' = stopped /\ stopping' = stopping
        BY <2>6, <3>1 DEF Destroy, worker
      <4> QED BY <1>a, <3>1, <4>1
    <3>2. CASE ~(stopped \/ stopping)
      BY <1>d, <2>6, <3>2 DEF Destroy
    <3> QED BY <3>1, <3>2
  <2> QED BY <1>1, <2>1, <2>2, <2>3, <2>4, <2>5, <2>6 DEF Gui
<1>2. CASE InStop
  <2>1. CASE StopAborts
    <3>1. CASE Complete(mailbox)
      BY <1>0, <1>c, <2>1, <3>1, CompleteEffect DEF StopAborts
    <3>2. CASE UNCHANGED <<client, isProcessing, mailbox, answers>>
      <4>1. UNCHANGED <<client, pc, item>> /\ UNCHANGED <<queued, stopped>>
            /\ stopping' = stopping /\ mailbox' = mailbox
        BY <2>1, <3>2 DEF StopAborts
      <4> QED BY <1>b, <4>1
    <3> QED BY <2>1, <3>1, <3>2 DEF StopAborts
  <2>2. CASE StopPosts
    <3>1. CASE Running
      <4>1. UNCHANGED <<client, pc, item>> /\ UNCHANGED <<queued, stopped>> /\ stopping' = stopping
        BY <2>2, <3>1 DEF StopPosts, worker
      <4>2. mailbox' = Append(mailbox, Event("stop"))
        BY <2>2, <3>1 DEF StopPosts
      <4> QED BY <1>0, <1>b, <4>1, <4>2, AppendEvents, EventsTyped
    <3>2. CASE ~Running
      BY <1>d, <2>2, <3>2 DEF StopPosts
    <3> QED BY <3>1, <3>2
  <2> QED BY <1>2, <2>1, <2>2 DEF InStop
<1>3. CASE Handler
  <2>1. CASE DeliverSubmit
    <3>1. CASE stopped \/ stopping
      BY <1>a, <2>1, <3>1 DEF DeliverSubmit
    <3>2. CASE ~(stopped \/ stopping)
      BY <1>a, <2>1, <3>2 DEF DeliverSubmit
    <3> QED BY <3>1, <3>2
  <2>2. CASE DeliverProcess
    BY <1>a, <2>2 DEF DeliverProcess
  <2>3. CASE DeliverConnect
    <3>1. /\ UNCHANGED <<client, item, queued, stopped, stopping>>
          /\ pc = "loop" /\ pc' \in {"loop", "connecting"} /\ mailbox' = Tail(mailbox)
      BY <2>3 DEF DeliverConnect, Delivers, worker
    <3>2. InService' = InService
      BY <3>1 DEF InService, Idle, client, Client!NoCall
    <3>3. Scheduled(mailbox) => Scheduled(mailbox')
      BY <1>e, <2>3, <3>1 DEF DeliverConnect
    <3> QED BY <1>0, <1>a, <3>1, <3>2, <3>3 DEF QueueIsScheduled, Scheduled
  <2>4. CASE DeliverDisconnect
    BY <1>a, <2>4 DEF DeliverDisconnect, HandleDisconnect, AbortAndDrain
  <2>5. CASE DeliverStop
    BY <1>d, <2>5 DEF DeliverStop
  <2>6. CASE ProcessQueue
    <3>1. CASE stopping
      BY <1>a, <2>6, <3>1 DEF ProcessQueue
    <3>2. CASE queued = <<>>
      BY <1>a, <2>6, <3>2 DEF ProcessQueue
    <3>3. CASE isProcessing /\ ~stopping
      <4>1. /\ UNCHANGED <<client, item, queued, stopped, stopping>>
            /\ pc = "process" /\ pc' = "loop"
        BY <2>6, <3>3 DEF ProcessQueue
      <4>2. InService' = InService
        BY <4>1 DEF InService, Idle, client, Client!NoCall
      <4>3. stopped \/ InService # None
        BY <1>0, <3>3 DEF Marked
      <4> QED BY <1>a, <4>1, <4>2, <4>3 DEF QueueIsScheduled
    <3>4. CASE ~stopping /\ ~isProcessing /\ queued # <<>>
      <4>1. pc' = "handing"
        BY <2>6, <3>4 DEF ProcessQueue
      <4> QED BY <1>0, <4>1, ServiceFactsPrimed DEF QueueIsScheduled
    <3> QED BY <3>1, <3>2, <3>3, <3>4
  <2>7. CASE RefuseItem
    <3>1. stopping'
      BY <2>7 DEF RefuseItem, worker
    <3> QED BY <1>a, <3>1
  <2>8. CASE HandleSubmit
    <3>1. CASE Client!Take /\ pc' = "calling" /\ UNCHANGED <<isProcessing, mailbox, answers>>
      <4>1. ~Idle'
        BY <1>0, <3>1 DEF Client!Take, Client!NoCall, Idle, TypeOK
      <4> QED BY <1>0, <3>1, <4>1, ServiceFactsPrimed DEF QueueIsScheduled
    <3>2. CASE Client!TurnAway /\ AnswerAll({item}) /\ AfterCompletion(mailbox) /\ pc' = "loop"
      BY <1>0, <1>c, <2>8, <3>2 DEF HandleSubmit, AfterCompletion
    <3> QED BY <2>8, <3>1, <3>2 DEF HandleSubmit
  <2>9. CASE CallReturns \/ ConnectReturns
    <3>1. /\ UNCHANGED <<client, item, queued, stopped, stopping, mailbox>>
          /\ pc \in {"calling", "connecting"} /\ pc' = "loop"
      BY <2>9 DEF CallReturns, ConnectReturns, worker
    <3>2. InService' = InService
      BY <3>1 DEF InService, Idle, client, Client!NoCall
    <3> QED BY <1>0, <3>1, <3>2 DEF QueueIsScheduled
  <2> QED BY <1>3, <2>1, <2>2, <2>3, <2>4, <2>5, <2>6, <2>7, <2>8, <2>9 DEF Handler
<1>4. CASE ClientCompletes
  BY <1>0, <1>c, <1>4, CompleteEffect DEF ClientCompletes
<1>5. CASE ChannelChanges \/ ThreadFinishes \/ UNCHANGED vars
  <2>1. UNCHANGED <<client, pc, item>> /\ UNCHANGED <<queued, stopped>> /\ stopping' = stopping
        /\ mailbox' = mailbox
    BY <1>5 DEF ChannelChanges, ThreadFinishes, vars, worker
  <2> QED BY <1>b, <2>1
<1> QED BY <1>1, <1>2, <1>3, <1>4, <1>5 DEF Next

-----------------------------------------------------------------------------
(* Theorems *)

LEMMA WorkerInit == Init => WorkerInv
<1> SUFFICES ASSUME Init PROVE WorkerInv
  OBVIOUS
<1>1. TypeOK
  BY TypeInit
<1>2. Idle /\ InService = None
  BY DEF Init, Client!Init, Client!NoCall, Idle, InService, None
<1>3. StoppedHandlers
  BY DEF Init, StoppedHandlers, ConnectOnlyFirst, Running
<1> QED BY <1>1, <1>2, <1>3 DEF Init, WorkerInv, NotStarted, HandlersNeedTheThread, Marked,
                                StoppedIsQuiet, QueueIsScheduled

LEMMA WorkerStep == WorkerInv /\ [Next]_vars => WorkerInv'
BY TypeStep, NotStartedStep, MarkedStep, HandlersStep, QuietStep, ScheduleStep DEF WorkerInv

LEMMA Inductive == Spec => []WorkerInv
BY WorkerInit, WorkerStep, PTL DEF Spec

\* However submits, completions, disconnects and stops interleave, a client
\* that still has a call open is never called again (processQueue()).
THEOREM OneRequestAtATime == Spec => []OneAtATime
<1>1. WorkerInv => OneAtATime
  BY DEF WorkerInv, Marked, OneAtATime
<1> QED BY <1>1, Inductive, PTL

\* As long as nobody stops the worker, a request in the queue is waited for by
\* a request in service or by a processQueue() that is running or posted.
THEOREM NothingStranded == Spec => []QueueIsScheduled
<1>1. WorkerInv => QueueIsScheduled
  BY DEF WorkerInv
<1> QED BY <1>1, Inductive, PTL

\* A stopped worker holds no request and no connection, whatever events reach
\* it afterwards, and has announced it once (handleStopInThread()).
THEOREM QuietOnceStopped == Spec => []StoppedIsQuiet
<1>1. WorkerInv => StoppedIsQuiet
  BY DEF WorkerInv
<1> QED BY <1>1, Inductive, PTL

-----------------------------------------------------------------------------
(* No request is lost, served twice or served out of turn: ModbusWorker     *)
(* implements WorkerService.  The requests are numbered as they are         *)
(* submitted, and they move from the mailbox to the queue to the client in  *)
(* that order (InTurn).  So the next one served is the first of those that  *)
(* wait, a request is in one place at a time, and every step is one of the  *)
(* service's.  Accounted follows.                                           *)

Increasing(s) == \A i, j \in DOMAIN s : i < j => s[i] < s[j]

\* The submit events of m are in the order of submission.
SubmitsIncrease(m) ==
  \A i, j \in DOMAIN m :
    i < j /\ m[i].type = "submit" /\ m[j].type = "submit" => m[i].id < m[j].id

ValuesOf(s) == {s[i] : i \in DOMAIN s}

\* With q queued, m posted, s in service and n submitted, the requests are in
\* the order of their submission: s, then those of q, then those of m.
Turns(q, m, s, n) ==
  /\ Increasing(q) /\ SubmitsIncrease(m)
  /\ \A a \in ValuesOf(q), b \in PostedIn(m) : a < b
  /\ \A a \in ValuesOf(q) \cup PostedIn(m) : s < a /\ a <= n
  /\ s <= n

InTurn == Turns(queued, mailbox, InService, submitted)

\* A worker goes away after its thread, which was quit after a stop().
GoesLast ==
  /\ quit => thread # "new" /\ (stopping \/ stopped)
  /\ thread = "finished" => quit
  /\ destroyed => thread = "finished" /\ gui = "idle"

\* A request is answered once it is neither waiting nor in service; a worker
\* that is gone may have left some without an answer.
Settled ==
  \A r \in Requests :
    /\ answers[r] <= 1
    /\ ~destroyed => answers[r] = IF r <= submitted /\ r \notin Waiting \cup {InService}
                                  THEN 1 ELSE 0

AccountsInv == WorkerInv /\ InTurn /\ GoesLast /\ Settled

-----------------------------------------------------------------------------
(* The order of submission, as events and requests are added and taken *)

LEMMA IncreasingTail ==
  ASSUME NEW q \in Seq(Requests), Increasing(q), q # <<>>
  PROVE  /\ Increasing(Tail(q))
         /\ Head(q) \in ValuesOf(q)
         /\ ValuesOf(Tail(q)) = ValuesOf(q) \ {Head(q)}
         /\ \A a \in ValuesOf(Tail(q)) : Head(q) < a
<1>1. /\ Head(q) = q[1] /\ 1 \in DOMAIN q
      /\ DOMAIN q = 1 .. Len(q) /\ DOMAIN Tail(q) = 1 .. (Len(q) - 1)
      /\ \A i \in DOMAIN Tail(q) : Tail(q)[i] = q[i + 1]
      /\ \A i \in DOMAIN q : q[i] \in Nat
  <2>1. \A i \in DOMAIN q : q[i] \in Requests
    OBVIOUS
  <2> QED BY <2>1, TailFacts DEF Requests
<1>2. Increasing(Tail(q))
  BY <1>1 DEF Increasing
<1>3. ASSUME NEW a \in ValuesOf(Tail(q)) PROVE a \in ValuesOf(q) /\ Head(q) < a
  <2>1. PICK i \in DOMAIN Tail(q) : a = Tail(q)[i]
    BY <1>3 DEF ValuesOf
  <2>2. i + 1 \in DOMAIN q /\ 1 < i + 1 /\ a = q[i + 1]
    BY <1>1, <2>1
  <2> QED BY <1>1, <2>2 DEF Increasing, ValuesOf
<1>4. ASSUME NEW a \in ValuesOf(q), a # Head(q) PROVE a \in ValuesOf(Tail(q))
  <2>1. PICK i \in DOMAIN q : a = q[i]
    BY <1>4 DEF ValuesOf
  <2>2. i - 1 \in DOMAIN Tail(q) /\ Tail(q)[i - 1] = q[i]
    BY <1>1, <1>4, <2>1
  <2> QED BY <2>1, <2>2 DEF ValuesOf
<1>5. \A a \in ValuesOf(Tail(q)) : a # Head(q)
  <2>1. Head(q) \in Nat
    BY <1>1
  <2> QED BY <1>3, <2>1
<1> QED BY <1>1, <1>2, <1>3, <1>4, <1>5 DEF ValuesOf

LEMMA IncreasingAppend ==
  ASSUME NEW q \in Seq(Requests), Increasing(q), NEW r \in Requests,
         \A a \in ValuesOf(q) : a < r
  PROVE  /\ Increasing(Append(q, r))
         /\ ValuesOf(Append(q, r)) = ValuesOf(q) \cup {r}
<1>1. /\ DOMAIN q = 1 .. Len(q) /\ DOMAIN Append(q, r) = 1 .. (Len(q) + 1)
      /\ \A i \in DOMAIN q : Append(q, r)[i] = q[i]
      /\ Append(q, r)[Len(q) + 1] = r
      /\ Len(q) \in Nat
  BY AppendFacts
<1>2. Increasing(Append(q, r))
  <2> SUFFICES ASSUME NEW i \in DOMAIN Append(q, r), NEW j \in DOMAIN Append(q, r), i < j
               PROVE  Append(q, r)[i] < Append(q, r)[j]
    BY DEF Increasing
  <2>1. i \in DOMAIN q /\ Append(q, r)[i] = q[i]
    BY <1>1
  <2>2. CASE j \in DOMAIN q
    BY <1>1, <2>1, <2>2 DEF Increasing
  <2>3. CASE j = Len(q) + 1
    BY <1>1, <2>1, <2>3 DEF ValuesOf
  <2> QED BY <1>1, <2>2, <2>3
<1>3. ValuesOf(Append(q, r)) = ValuesOf(q) \cup {r}
  BY <1>1 DEF ValuesOf
<1> QED BY <1>2, <1>3

\* Taking an event: a submit event takes the first of the posted requests out.
LEMMA SubmitsTail ==
  ASSUME NEW m, Posted(m), SubmitsIncrease(m), m # <<>>
  PROVE  /\ SubmitsIncrease(Tail(m))
         /\ Head(m).type # "submit" => PostedIn(Tail(m)) = PostedIn(m)
         /\ Head(m).type = "submit" =>
              /\ Head(m).id \in PostedIn(m)
              /\ PostedIn(Tail(m)) = PostedIn(m) \ {Head(m).id}
              /\ \A a \in PostedIn(Tail(m)) : Head(m).id < a
<1>1. /\ Head(m) = m[1] /\ 1 \in DOMAIN m
      /\ DOMAIN m = 1 .. Len(m) /\ DOMAIN Tail(m) = 1 .. (Len(m) - 1)
      /\ \A i \in DOMAIN Tail(m) : Tail(m)[i] = m[i + 1]
      /\ \A i \in DOMAIN m : m[i].type = "submit" => m[i].id \in Nat
  BY TailFacts DEF Posted, Requests
<1>2. SubmitsIncrease(Tail(m))
  BY <1>1 DEF SubmitsIncrease
<1>3. ASSUME NEW a \in PostedIn(Tail(m))
      PROVE  a \in PostedIn(m) /\ (Head(m).type = "submit" => Head(m).id < a)
  <2>1. PICK i \in DOMAIN Tail(m) : a = Tail(m)[i].id /\ Tail(m)[i].type = "submit"
    BY <1>3 DEF PostedIn
  <2>2. i + 1 \in DOMAIN m /\ 1 < i + 1 /\ a = m[i + 1].id /\ m[i + 1].type = "submit"
    BY <1>1, <2>1
  <2> QED BY <1>1, <2>2 DEF SubmitsIncrease, PostedIn
<1>4. ASSUME NEW a \in PostedIn(m), Head(m).type # "submit" \/ a # Head(m).id
      PROVE  a \in PostedIn(Tail(m))
  <2>1. PICK i \in DOMAIN m : a = m[i].id /\ m[i].type = "submit"
    BY <1>4 DEF PostedIn
  <2>2. i - 1 \in DOMAIN Tail(m) /\ Tail(m)[i - 1] = m[i]
    BY <1>1, <1>4, <2>1
  <2> QED BY <2>1, <2>2 DEF PostedIn
<1>5. Head(m).type = "submit" => Head(m).id \in PostedIn(m) /\ Head(m).id \in Nat
  BY <1>1 DEF PostedIn
<1>6. Head(m).type = "submit" => Head(m).id \notin PostedIn(Tail(m))
  BY <1>3, <1>5
<1> QED BY <1>2, <1>3, <1>4, <1>5, <1>6

LEMMA SubmitsAppend ==
  ASSUME NEW m, Posted(m), SubmitsIncrease(m), NEW e \in EventSet,
         e.type = "submit" => \A a \in PostedIn(m) : a < e.id
  PROVE  /\ SubmitsIncrease(Append(m, e))
         /\ PostedIn(Append(m, e)) =
              IF e.type = "submit" THEN PostedIn(m) \cup {e.id} ELSE PostedIn(m)
<1>1. /\ DOMAIN m = 1 .. Len(m) /\ DOMAIN Append(m, e) = 1 .. (Len(m) + 1)
      /\ \A i \in DOMAIN m : Append(m, e)[i] = m[i]
      /\ Append(m, e)[Len(m) + 1] = e
      /\ Len(m) \in Nat
  BY AppendFacts DEF Posted
<1>2. SubmitsIncrease(Append(m, e))
  <2> SUFFICES ASSUME NEW i \in DOMAIN Append(m, e), NEW j \in DOMAIN Append(m, e), i < j,
                      Append(m, e)[i].type = "submit", Append(m, e)[j].type = "submit"
               PROVE  Append(m, e)[i].id < Append(m, e)[j].id
    BY DEF SubmitsIncrease
  <2>1. i \in DOMAIN m /\ Append(m, e)[i] = m[i]
    BY <1>1
  <2>2. CASE j \in DOMAIN m
    BY <1>1, <2>1, <2>2 DEF SubmitsIncrease
  <2>3. CASE j = Len(m) + 1
    BY <1>1, <2>1, <2>3 DEF PostedIn
  <2> QED BY <1>1, <2>2, <2>3
<1>3. ASSUME NEW a
      PROVE  a \in PostedIn(Append(m, e)) <=>
               a \in PostedIn(m) \/ (e.type = "submit" /\ a = e.id)
  BY <1>1 DEF PostedIn
<1> QED BY <1>2, <1>3

LEMMA SubmitsReschedule ==
  ASSUME NEW m, Posted(m), SubmitsIncrease(m)
  PROVE  SubmitsIncrease(Reschedule(m)) /\ PostedIn(Reschedule(m)) = PostedIn(m)
BY SubmitsAppend, EventsTyped DEF Reschedule

LEMMA NothingPosted == PostedIn(<<>>) = {} /\ SubmitsIncrease(<<>>)
                       /\ ValuesOf(<<>>) = {} /\ Increasing(<<>>)
BY DEF PostedIn, SubmitsIncrease, ValuesOf, Increasing

-----------------------------------------------------------------------------
(* The state of the service *)

LEMMA ServiceTypes ==
  ASSUME TypeOK
  PROVE  /\ InService \in Requests \cup {None}
         /\ Waiting \subseteq Requests
         /\ ValuesOf(queued) = QueuedSet
         /\ Waiting \cup {InService} \subseteq Nat
         /\ submitted \in Nat
<1>1. ~Idle => handed[current] \in Requests
  BY DEF TypeOK, Idle, Client!NoCall
<1>2. InService \in Requests \cup {None}
  BY <1>1 DEF InService, TypeOK
<1>3. Waiting \subseteq Requests
  BY DEF Waiting, QueuedSet, PostedIn, TypeOK, Posted
<1>4. submitted \in Nat
  BY BoundsAssumption DEF TypeOK
<1> QED BY <1>2, <1>3, <1>4 DEF ValuesOf, QueuedSet, Requests, None

LEMMA ServiceTypesPrimed ==
  ASSUME TypeOK'
  PROVE  /\ InService' \in Requests \cup {None}
         /\ Waiting' \subseteq Requests
         /\ submitted' \in Nat
<1>1. ~Idle' => handed'[current'] \in Requests
  BY DEF TypeOK, Idle, Client!NoCall
<1>2. InService' \in Requests \cup {None}
  BY <1>1 DEF InService, TypeOK
<1>3. Waiting' \subseteq Requests
  BY DEF Waiting, QueuedSet, PostedIn, TypeOK, Posted
<1> QED BY <1>2, <1>3, BoundsAssumption DEF TypeOK

\* Whatever leaves keeps the rest in turn.
LEMMA TurnsShrink ==
  ASSUME TypeOK, TypeOK', InTurn, Increasing(queued'), SubmitsIncrease(mailbox'),
         ValuesOf(queued') \subseteq ValuesOf(queued),
         PostedIn(mailbox') \subseteq PostedIn(mailbox),
         InService' \in {InService, None}, UNCHANGED submitted
  PROVE  InTurn'
<1>1. /\ \A a \in ValuesOf(queued) \cup PostedIn(mailbox) : a \in Nat /\ None < a
      /\ submitted \in Nat /\ None <= submitted
  BY ServiceTypes DEF Waiting, Requests, None
<1> QED BY <1>1 DEF InTurn, Turns

\* What a step does to the service, while there is a worker.
NothingMoves == UNCHANGED <<submitted, Waiting, InService, answers>>

Answered(S) ==
  /\ S \subseteq (Waiting \cup {InService}) \ {None}
  /\ AnswerAll(S)
  /\ Waiting' = Waiting \ S
  /\ InService' = IF InService \in S THEN None ELSE InService
  /\ UNCHANGED submitted

Serves ==
  /\ InService = None
  /\ InService' \in Waiting
  /\ \A other \in Waiting : InService' <= other
  /\ Waiting' = Waiting \ {InService'}
  /\ UNCHANGED <<submitted, answers>>

TakesOne ==
  /\ submitted < MaxRequests
  /\ submitted' = submitted + 1
  /\ Waiting' = Waiting \cup {submitted + 1}
  /\ UNCHANGED <<InService, answers>>

RefusesOne ==
  /\ submitted < MaxRequests
  /\ submitted' = submitted + 1
  /\ AnswerAll({submitted + 1})
  /\ UNCHANGED <<Waiting, InService>>

ServiceMoves ==
  NothingMoves \/ (\E S : Answered(S)) \/ Serves \/ TakesOne \/ RefusesOne

LEMMA AnswerNone ==
  ASSUME TypeOK, AnswerAll({})
  PROVE  answers' = answers
<1>1. answers \in [Requests -> Nat]
  BY DEF TypeOK
<1>2. \A r \in Requests : answers[r] + 0 = answers[r]
  BY <1>1
<1> QED BY <1>1, <1>2 DEF AnswerAll

LEMMA MovesAreTheServices ==
  ASSUME TypeOK, ServiceMoves, ~destroyed, ~destroyed'
  PROVE  [Service!Next]_(Service!vars)
<1>1. CASE NothingMoves
  BY <1>1 DEF NothingMoves, Service!vars
<1>2. ASSUME NEW S, Answered(S) PROVE [Service!Next]_(Service!vars)
  <2>1. CASE S = {}
    <3>1. answers' = answers
      BY <1>2, <2>1, AnswerNone DEF Answered
    <3> QED BY <1>2, <2>1, <3>1 DEF Answered, Service!vars
  <2>2. CASE S # {}
    <3>1. S \in SUBSET ((Waiting \cup {InService}) \ {Service!Nobody})
      BY <1>2 DEF Answered, None, Service!Nobody
    <3>2. Service!AnswerAll(S)
      BY <1>2 DEF Answered, AnswerAll, Service!AnswerAll, Requests, Service!Requests
    <3>3. Service!AnswerSome
      BY <1>2, <2>2, <3>1, <3>2 DEF Answered, Service!AnswerSome, Service!Nobody, None
    <3> QED BY <3>3 DEF Service!Next
  <2> QED BY <2>1, <2>2
<1>3. CASE Serves
  <2>1. Service!Serve
    BY <1>3 DEF Serves, Service!Serve, Service!Nobody, None
  <2> QED BY <2>1 DEF Service!Next
<1>4. CASE TakesOne
  <2>1. Service!Submit
    BY <1>4 DEF TakesOne, Service!Submit
  <2> QED BY <2>1 DEF Service!Next
<1>5. CASE RefusesOne
  <2>1. Service!TurnAway
    BY <1>5 DEF RefusesOne, Service!TurnAway, AnswerAll, Service!AnswerAll,
                Requests, Service!Requests
  <2> QED BY <2>1 DEF Service!Next
<1> QED BY <1>1, <1>2, <1>3, <1>4, <1>5 DEF ServiceMoves

\* The accounts stay right, whichever step of the service it is.
LEMMA MovesKeepSettled ==
  ASSUME TypeOK, TypeOK', InTurn, Settled, ServiceMoves, ~destroyed, ~destroyed'
  PROVE  Settled'
<1>0. /\ Waiting \subseteq Requests /\ InService \in Requests \cup {None}
      /\ Waiting' \subseteq Requests /\ InService' \in Requests \cup {None}
      /\ submitted \in Nat
      /\ \A a \in Waiting \cup {InService} : a <= submitted
      /\ InService \notin Waiting
      /\ Requests \subseteq Nat /\ None = 0 /\ None \notin Requests
  <2>1. \A a \in Waiting : InService < a /\ a <= submitted
    BY DEF InTurn, Turns, Waiting, ValuesOf, QueuedSet
  <2>2. InService \in Nat
    BY ServiceTypes
  <2>3. InService <= submitted /\ InService \notin Waiting
    BY <2>1, <2>2 DEF InTurn, Turns
  <2> QED BY <2>1, <2>3, ServiceTypes, ServiceTypesPrimed DEF Requests, None
<1>1. \A r \in Requests : answers[r] = IF r <= submitted /\ r \notin Waiting \cup {InService}
                                       THEN 1 ELSE 0
  BY DEF Settled
<1> SUFFICES ASSUME NEW r \in Requests
             PROVE  answers'[r] = IF r <= submitted' /\ r \notin Waiting' \cup {InService'}
                                  THEN 1 ELSE 0
  BY DEF Settled
<1>2. CASE NothingMoves
  BY <1>1, <1>2 DEF NothingMoves
<1>3. ASSUME NEW S, AnswerAll(S) PROVE answers'[r] = answers[r] + (IF r \in S THEN 1 ELSE 0)
  BY <1>3 DEF AnswerAll
<1>4. CASE \E S : Answered(S)
  <2> PICK S : Answered(S)
    BY <1>4
  <2>1. answers'[r] = answers[r] + (IF r \in S THEN 1 ELSE 0)
    BY <1>3 DEF Answered
  <2>2. CASE r \in S
    <3>1. r \in Waiting \cup {InService} /\ answers[r] = 0 /\ r <= submitted
      BY <1>0, <1>1, <2>2 DEF Answered
    <3>2. r \notin Waiting' \cup {InService'}
      BY <1>0, <2>2 DEF Answered
    <3> QED BY <2>1, <2>2, <3>1, <3>2 DEF Answered
  <2>3. CASE r \notin S
    <3>1. answers'[r] = answers[r]
      BY <1>1, <2>1, <2>3
    <3>2. r \in Waiting' \cup {InService'} <=> r \in Waiting \cup {InService}
      BY <1>0, <2>3 DEF Answered
    <3> QED BY <1>1, <3>1, <3>2 DEF Answered
  <2> QED BY <2>2, <2>3
<1>5. CASE Serves
  BY <1>0, <1>1, <1>5 DEF Serves
<1>6. CASE TakesOne
  BY <1>0, <1>1, <1>6 DEF TakesOne
<1>7. CASE RefusesOne
  <2>1. answers'[r] = answers[r] + (IF r = submitted + 1 THEN 1 ELSE 0)
    BY <1>3, <1>7 DEF RefusesOne
  <2> QED BY <1>0, <1>1, <1>7, <2>1 DEF RefusesOne
<1> QED BY <1>2, <1>4, <1>5, <1>6, <1>7 DEF ServiceMoves

-----------------------------------------------------------------------------
(* The worker's actions are steps of the service *)

\* What the lemmas below assume of the state they start in.
Accounts == AccountsInv /\ TypeOK' /\ ~destroyed

LEMMA AccountsFacts ==
  ASSUME Accounts
  PROVE  /\ TypeOK /\ TypeOK' /\ ~destroyed /\ Marked /\ HandlersNeedTheThread /\ NotStarted
         /\ StoppedIsQuiet /\ InTurn /\ GoesLast /\ Settled
         /\ queued \in Seq(Requests) /\ Posted(mailbox)
         /\ Increasing(queued) /\ SubmitsIncrease(mailbox)
         /\ Waiting = ValuesOf(queued) \cup PostedIn(mailbox)
         /\ ValuesOf(queued) \cap PostedIn(mailbox) = {}
         /\ InService \notin Waiting
<1>1. /\ TypeOK /\ TypeOK' /\ ~destroyed /\ Marked /\ HandlersNeedTheThread /\ NotStarted
      /\ StoppedIsQuiet /\ InTurn /\ GoesLast /\ Settled
  BY DEF Accounts, AccountsInv, WorkerInv
<1>2. queued \in Seq(Requests) /\ Posted(mailbox)
  BY <1>1 DEF TypeOK
<1>3. Waiting = ValuesOf(queued) \cup PostedIn(mailbox)
  BY DEF Waiting, QueuedSet, ValuesOf
<1>4. /\ \A a \in ValuesOf(queued), b \in PostedIn(mailbox) : a < b
      /\ \A a \in Waiting : InService < a
      /\ Increasing(queued) /\ SubmitsIncrease(mailbox)
  BY <1>1, <1>3 DEF InTurn, Turns
<1>5. \A a \in Waiting \cup {InService} : a \in Nat
  BY <1>1, ServiceTypes
<1>6. ValuesOf(queued) \cap PostedIn(mailbox) = {}
  BY <1>3, <1>4, <1>5
<1>7. InService \notin Waiting
  BY <1>4, <1>5
<1> QED BY <1>1, <1>2, <1>3, <1>4, <1>6, <1>7

\* The same requests wait and the same one is served.
LEMMA SameTurns ==
  ASSUME Accounts, UNCHANGED <<queued, submitted, answers>>, InService' = InService,
         PostedIn(mailbox') = PostedIn(mailbox), SubmitsIncrease(mailbox')
  PROVE  ServiceMoves /\ InTurn'
<1>1. Waiting' = Waiting
  BY DEF Waiting, QueuedSet
<1>2. InTurn'
  BY AccountsFacts DEF InTurn, Turns
<1> QED BY <1>1, <1>2 DEF ServiceMoves, NothingMoves

\* An event is posted that carries no request.
LEMMA PostedAnother ==
  ASSUME Accounts, UNCHANGED <<queued, submitted, answers>>, UNCHANGED <<client, pc, item>>,
         NEW e \in EventSet, e.type # "submit", mailbox' = Append(mailbox, e)
  PROVE  ServiceMoves /\ InTurn'
<1>1. PostedIn(mailbox') = PostedIn(mailbox) /\ SubmitsIncrease(mailbox')
  BY AccountsFacts, SubmitsAppend
<1> QED BY <1>1, SameService, SameTurns

LEMMA CompleteMoves ==
  ASSUME Accounts, Complete(mailbox), pc # "handing", UNCHANGED <<queued, pc, submitted>>
  PROVE  ServiceMoves /\ InTurn'
<1>1. ~Idle /\ Idle' /\ InService = handed[current] /\ InService # None
  BY AccountsFacts, CompleteEffect, ServiceFacts DEF InService
<1>2. InService' = None
  BY <1>1 DEF InService
<1>3. PostedIn(mailbox') = PostedIn(mailbox) /\ SubmitsIncrease(mailbox')
  BY AccountsFacts, SubmitsReschedule DEF Complete, AfterCompletion
<1>4. Waiting' = Waiting
  BY <1>3 DEF Waiting, QueuedSet
<1>5. AnswerAll({InService})
  BY <1>1 DEF Complete
<1>6. Answered({InService})
  BY <1>1, <1>2, <1>4, <1>5, AccountsFacts DEF Answered
<1>7. InTurn'
  BY <1>2, <1>3, AccountsFacts, TurnsShrink DEF ValuesOf
<1> QED BY <1>6, <1>7 DEF ServiceMoves

LEMMA DrainMoves ==
  ASSUME Accounts, AbortAndDrain, pc = "loop", UNCHANGED <<pc, submitted>>,
         PostedIn(mailbox') = PostedIn(mailbox), SubmitsIncrease(mailbox')
  PROVE  ServiceMoves /\ InTurn'
<1> DEFINE S == (ValuesOf(queued) \cup {InService}) \ {None}
<1>1. queued' = <<>> /\ Idle' /\ InService' = None
  BY AccountsFacts, AbortAndDrainEffect DEF InService
<1>2. ValuesOf(queued') = {} /\ Increasing(queued')
  BY <1>1, NothingPosted
<1>3. Waiting' = PostedIn(mailbox)
  BY <1>1 DEF Waiting, QueuedSet
<1>4. Waiting' = Waiting \ S
  <2>1. None \notin Waiting
    BY AccountsFacts, ServiceTypes DEF None, Requests
  <2> QED BY <1>3, <2>1, AccountsFacts
<1>5. AnswerAll(S)
  <2>1. None \notin QueuedSet /\ QueuedSet = ValuesOf(queued)
    BY AccountsFacts, ServiceTypes DEF None, Requests
  <2>2. CASE Idle
    <3>1. S = QueuedSet
      BY <2>1, <2>2 DEF InService
    <3> QED BY <2>2, <3>1 DEF AbortAndDrain
  <2>3. CASE ~Idle
    <3>1. InService = handed[current] /\ InService # None
      BY <2>3, AccountsFacts, ServiceFacts DEF InService
    <3>2. S = QueuedSet \cup {handed[current]}
      BY <2>1, <3>1
    <3> QED BY <2>3, <3>2 DEF AbortAndDrain
  <2> QED BY <2>2, <2>3
<1>6. InService' = IF InService \in S THEN None ELSE InService
  BY <1>1
<1>7. Answered(S)
  BY <1>4, <1>5, <1>6, AccountsFacts DEF Answered
<1>8. InTurn'
  BY <1>1, <1>2, AccountsFacts, TurnsShrink
<1> QED BY <1>7, <1>8 DEF ServiceMoves

LEMMA StopInThreadMoves ==
  ASSUME Accounts, NEW m, HandleStopInThread(m), pc = "loop",
         UNCHANGED <<pc, item, submitted>>,
         PostedIn(m) = PostedIn(mailbox), SubmitsIncrease(m)
  PROVE  ServiceMoves /\ InTurn'
<1>1. mailbox' = m
  BY DEF HandleStopInThread
<1>2. CASE stopped
  <2>1. UNCHANGED <<client, queued, answers>> /\ UNCHANGED <<client, pc, item>>
    BY <1>2 DEF HandleStopInThread
  <2> QED BY <1>1, <2>1, SameService, SameTurns
<1>3. CASE ~stopped
  BY <1>1, <1>3, DrainMoves DEF HandleStopInThread
<1> QED BY <1>2, <1>3

LEMMA DisconnectMoves ==
  ASSUME Accounts, NEW m, HandleDisconnect(m), Posted(m), pc = "loop",
         UNCHANGED <<pc, submitted>>,
         PostedIn(m) = PostedIn(mailbox), SubmitsIncrease(m)
  PROVE  ServiceMoves /\ InTurn'
<1>1. PostedIn(mailbox') = PostedIn(mailbox) /\ SubmitsIncrease(mailbox')
  BY SubmitsReschedule DEF HandleDisconnect
<1> QED BY <1>1, DrainMoves DEF HandleDisconnect

\* An event is taken that carries no request.
LEMMA TakenAnother ==
  ASSUME Accounts, NEW t, Delivers(t), t # "submit"
  PROVE  /\ Posted(Tail(mailbox)) /\ pc = "loop"
         /\ PostedIn(Tail(mailbox)) = PostedIn(mailbox) /\ SubmitsIncrease(Tail(mailbox))
BY AccountsFacts, PostedTail, SubmitsTail DEF Delivers

LEMMA SubmitMoves ==
  ASSUME Accounts, Submit
  PROVE  ServiceMoves /\ InTurn'
<1> DEFINE r == submitted + 1
<1>1. /\ r \in Requests /\ submitted \in Nat /\ submitted < MaxRequests /\ submitted' = r
      /\ UNCHANGED <<client, pc, item>> /\ queued' = queued
  BY AccountsFacts, BoundsAssumption DEF Submit, TypeOK, Requests, worker
<1>2. InService' = InService
  BY <1>1, SameService
<1>3. /\ \A a \in ValuesOf(queued) \cup PostedIn(mailbox) : a \in Nat /\ a <= submitted
      /\ InService \in Nat /\ InService <= submitted
  BY AccountsFacts, ServiceTypes DEF InTurn, Turns, Waiting, Requests
<1>4. CASE Running
  <2>1. mailbox' = Append(mailbox, SubmitOf(r)) /\ UNCHANGED answers
    BY <1>4 DEF Submit
  <2>2. SubmitOf(r) \in EventSet /\ SubmitOf(r).type = "submit" /\ SubmitOf(r).id = r
    BY <1>1, EventsTyped DEF SubmitOf
  <2>3. \A a \in PostedIn(mailbox) : a < r
    BY <1>1, <1>3
  <2>4. PostedIn(mailbox') = PostedIn(mailbox) \cup {r} /\ SubmitsIncrease(mailbox')
    BY <2>1, <2>2, <2>3, AccountsFacts, SubmitsAppend
  <2>5. Waiting' = Waiting \cup {r}
    BY <1>1, <2>4 DEF Waiting, QueuedSet
  <2>6. InTurn'
    <3>1. \A a \in ValuesOf(queued), b \in PostedIn(mailbox) : a < b
      BY AccountsFacts DEF InTurn, Turns
    <3>2. \A a \in ValuesOf(queued) \cup PostedIn(mailbox) : InService < a
      BY AccountsFacts DEF InTurn, Turns
    <3>3. \A a \in ValuesOf(queued), b \in PostedIn(mailbox') : a < b
      BY <1>1, <1>3, <2>4, <3>1
    <3>4. \A a \in ValuesOf(queued) \cup PostedIn(mailbox') : InService < a /\ a <= r
      BY <1>1, <1>3, <2>4, <3>2
    <3>5. InService <= r
      BY <1>1, <1>3
    <3> QED BY <1>1, <1>2, <2>4, <3>3, <3>4, <3>5, AccountsFacts DEF InTurn, Turns
  <2> QED BY <1>1, <1>2, <2>1, <2>5, <2>6 DEF ServiceMoves, TakesOne
<1>5. CASE ~Running
  <2>1. mailbox' = mailbox /\ AnswerAll({r})
    BY <1>5 DEF Submit
  <2>2. Waiting' = Waiting
    BY <1>1, <2>1 DEF Waiting, QueuedSet
  <2>3. InTurn'
    <3>1. \A a \in ValuesOf(queued) \cup PostedIn(mailbox) : a <= r
      BY <1>1, <1>3
    <3>2. InService <= r
      BY <1>1, <1>3
    <3> QED BY <1>1, <1>2, <2>1, <3>1, <3>2, AccountsFacts DEF InTurn, Turns
  <2> QED BY <1>1, <1>2, <2>1, <2>2, <2>3 DEF ServiceMoves, RefusesOne
<1> QED BY <1>4, <1>5

LEMMA GuiMoves ==
  ASSUME Accounts, Start \/ Submit \/ RequestDisconnect \/ Stop \/ Quit
  PROVE  ServiceMoves /\ InTurn'
<1>1. CASE Start
  BY <1>1, PostedAnother, EventsTyped DEF Start
<1>2. CASE Submit
  BY <1>2, SubmitMoves
<1>3. CASE RequestDisconnect
  <2>1. CASE Running
    BY <1>3, <2>1, PostedAnother, EventsTyped DEF RequestDisconnect
  <2>2. CASE ~Running
    <3>1. HandleDisconnect(mailbox) /\ UNCHANGED <<pc, submitted>> /\ pc = "loop"
      BY <1>3, <2>2, AccountsFacts DEF RequestDisconnect, HandlersNeedTheThread, Running
    <3> QED BY <3>1, AccountsFacts, DisconnectMoves
  <2> QED BY <2>1, <2>2
<1>4. CASE Stop \/ Quit
  <2>1. UNCHANGED <<queued, submitted, answers, mailbox>> /\ UNCHANGED <<client, pc, item>>
    BY <1>4 DEF Stop, Quit, worker, outer
  <2> QED BY <2>1, AccountsFacts, SameService, SameTurns
<1> QED BY <1>1, <1>2, <1>3, <1>4

LEMMA InStopMoves ==
  ASSUME Accounts, InStop
  PROVE  ServiceMoves /\ InTurn'
<1>1. CASE StopAborts
  <2>1. CASE ~Idle /\ Complete(mailbox)
    <3>1. pc # "handing"
      BY <2>1, AccountsFacts DEF Marked
    <3> QED BY <1>1, <2>1, <3>1, CompleteMoves DEF StopAborts, outer
  <2>2. CASE UNCHANGED <<client, isProcessing, mailbox, answers>>
    <3>1. UNCHANGED <<queued, submitted, answers, mailbox>> /\ UNCHANGED <<client, pc, item>>
      BY <1>1, <2>2 DEF StopAborts, outer
    <3> QED BY <3>1, AccountsFacts, SameService, SameTurns
  <2> QED BY <1>1, <2>1, <2>2 DEF StopAborts
<1>2. CASE StopPosts
  <2>1. CASE Running
    BY <1>2, <2>1, PostedAnother, EventsTyped DEF StopPosts, worker, outer
  <2>2. CASE ~Running
    <3>1. HandleStopInThread(mailbox) /\ UNCHANGED <<pc, item, submitted>> /\ pc = "loop"
      BY <1>2, <2>2, AccountsFacts DEF StopPosts, HandlersNeedTheThread, Running, outer
    <3> QED BY <3>1, AccountsFacts, StopInThreadMoves
  <2> QED BY <2>1, <2>2
<1> QED BY <1>1, <1>2 DEF InStop

LEMMA DeliverSubmitMoves ==
  ASSUME Accounts, DeliverSubmit
  PROVE  ServiceMoves /\ InTurn'
<1> DEFINE r == Head(mailbox).id
<1>1. /\ pc = "loop" /\ UNCHANGED <<client, item>> /\ UNCHANGED submitted
      /\ mailbox' = Tail(mailbox) /\ mailbox # <<>> /\ Head(mailbox).type = "submit"
  BY DEF DeliverSubmit, Delivers, outer
<1>2. /\ SubmitsIncrease(mailbox') /\ r \in PostedIn(mailbox)
      /\ PostedIn(mailbox') = PostedIn(mailbox) \ {r}
      /\ \A a \in PostedIn(mailbox') : r < a
  BY <1>1, AccountsFacts, SubmitsTail
<1>3. r \in Requests /\ r \notin ValuesOf(queued) /\ r # InService
  BY <1>2, AccountsFacts, ServiceTypes
<1>4. pc' # "handing" /\ InService' = InService
  BY <1>1 DEF DeliverSubmit, InService, Idle, client, Client!NoCall
<1>5. CASE stopped \/ stopping
  <2>1. AnswerAll({r}) /\ queued' = queued
    BY <1>5 DEF DeliverSubmit
  <2>2. Waiting' = Waiting \ {r}
    <3>1. Waiting' = ValuesOf(queued) \cup PostedIn(mailbox')
      BY <2>1 DEF Waiting, QueuedSet, ValuesOf
    <3> QED BY <1>2, <1>3, <3>1, AccountsFacts
  <2>3. Answered({r})
    BY <1>1, <1>2, <1>3, <1>4, <2>1, <2>2, AccountsFacts DEF Answered, None, Requests
  <2>4. InTurn'
    BY <1>1, <1>2, <1>4, <2>1, AccountsFacts, TurnsShrink
  <2> QED BY <2>3, <2>4 DEF ServiceMoves
<1>6. CASE ~(stopped \/ stopping)
  <2>1. queued' = Append(queued, r) /\ UNCHANGED answers
    BY <1>6 DEF DeliverSubmit
  <2>2. \A a \in ValuesOf(queued), b \in PostedIn(mailbox) : a < b
    BY AccountsFacts DEF InTurn, Turns
  <2>3. Increasing(queued') /\ ValuesOf(queued') = ValuesOf(queued) \cup {r}
    BY <1>2, <1>3, <2>1, <2>2, AccountsFacts, IncreasingAppend
  <2>4. Waiting' = ValuesOf(queued') \cup PostedIn(mailbox')
    BY DEF Waiting, QueuedSet, ValuesOf
  <2>5. Waiting' = Waiting
    BY <1>2, <2>3, <2>4, AccountsFacts
  <2>6. InTurn'
    <3>1. \A a \in ValuesOf(queued'), b \in PostedIn(mailbox') : a < b
      BY <1>2, <2>2, <2>3
    <3>2. \A a \in ValuesOf(queued') \cup PostedIn(mailbox') : InService < a /\ a <= submitted
      BY <1>2, <2>3, AccountsFacts DEF InTurn, Turns
    <3>3. InService <= submitted
      BY AccountsFacts DEF InTurn, Turns
    <3> QED BY <1>1, <1>2, <1>4, <2>3, <3>1, <3>2, <3>3 DEF InTurn, Turns
  <2> QED BY <1>1, <1>4, <2>1, <2>5, <2>6 DEF ServiceMoves, NothingMoves
<1> QED BY <1>5, <1>6

LEMMA ProcessQueueMoves ==
  ASSUME Accounts, ProcessQueue
  PROVE  ServiceMoves /\ InTurn'
<1>1. pc = "process" /\ UNCHANGED <<client, submitted, mailbox, answers>>
  BY DEF ProcessQueue, outer
<1>2. CASE stopping \/ isProcessing \/ queued = <<>>
  <2>1. queued' = queued /\ pc' = "loop"
    BY <1>2 DEF ProcessQueue
  <2>2. InService' = InService
    BY <1>1, <2>1 DEF InService, Idle, client, Client!NoCall
  <2> QED BY <1>1, <2>1, <2>2, AccountsFacts, SameTurns
<1>3. CASE ~(stopping \/ isProcessing \/ queued = <<>>)
  <2> DEFINE r == Head(queued)
  <2>1. queued # <<>> /\ queued' = Tail(queued) /\ pc' = "handing" /\ item' = r
    BY <1>3 DEF ProcessQueue
  <2>2. InService = None /\ InService' = r
    BY <1>1, <1>3, <2>1, AccountsFacts DEF Marked, InService
  <2>3. /\ Increasing(queued') /\ r \in ValuesOf(queued)
        /\ ValuesOf(queued') = ValuesOf(queued) \ {r}
        /\ \A a \in ValuesOf(queued') : r < a
    BY <2>1, AccountsFacts, IncreasingTail
  <2>4. \A a \in PostedIn(mailbox) : r < a
    BY <2>3, AccountsFacts DEF InTurn, Turns
  <2>5. Waiting' = ValuesOf(queued') \cup PostedIn(mailbox)
    BY <1>1 DEF Waiting, QueuedSet, ValuesOf
  <2>6. Waiting' = Waiting \ {r} /\ r \in Waiting
    BY <2>3, <2>5, AccountsFacts
  <2>7. \A other \in Waiting : r <= other
    <3>1. \A other \in Waiting : other = r \/ r < other
      BY <2>3, <2>4, AccountsFacts
    <3>2. Waiting \subseteq Nat
      BY AccountsFacts, ServiceTypes
    <3>3. \A other \in Waiting : r \in Nat /\ other \in Nat
      BY <2>6, <3>2
    <3> HIDE DEF r
    <3> QED BY <3>1, <3>3
  <2>8. InTurn'
    <3>1. \A a \in ValuesOf(queued'), b \in PostedIn(mailbox') : a < b
      BY <1>1, <2>3, AccountsFacts DEF InTurn, Turns
    <3>2. \A a \in ValuesOf(queued') \cup PostedIn(mailbox') : r < a /\ a <= submitted
      BY <1>1, <2>3, <2>4, AccountsFacts DEF InTurn, Turns
    <3>3. r <= submitted
      BY <2>3, AccountsFacts DEF InTurn, Turns
    <3> QED BY <1>1, <2>2, <2>3, <3>1, <3>2, <3>3, AccountsFacts DEF InTurn, Turns
  <2> QED BY <1>1, <2>2, <2>6, <2>7, <2>8 DEF ServiceMoves, Serves
<1> QED BY <1>2, <1>3

\* The request in hand is answered without being handed on.
LEMMA ItemAnswered ==
  ASSUME Accounts, pc = "handing", pc' = "loop", AnswerAll({item}), Idle',
         UNCHANGED <<queued, submitted>>,
         mailbox' = mailbox \/ mailbox' = Reschedule(mailbox)
  PROVE  ServiceMoves /\ InTurn'
<1>1. InService = item /\ item # None /\ InService' = None
  BY AccountsFacts, ServiceFacts DEF InService
<1>2. PostedIn(mailbox') = PostedIn(mailbox) /\ SubmitsIncrease(mailbox')
  BY AccountsFacts, SubmitsReschedule
<1>3. Waiting' = Waiting
  BY <1>2 DEF Waiting, QueuedSet
<1>4. Answered({item})
  BY <1>1, <1>3, AccountsFacts DEF Answered
<1>5. InTurn'
  BY <1>1, <1>2, AccountsFacts, TurnsShrink DEF ValuesOf
<1> QED BY <1>4, <1>5 DEF ServiceMoves

LEMMA HandleSubmitMoves ==
  ASSUME Accounts, HandleSubmit
  PROVE  ServiceMoves /\ InTurn'
<1>1. /\ pc = "handing" /\ UNCHANGED <<queued, submitted>> /\ item \in Requests /\ Idle
      /\ handed' = Append(handed, item) /\ handed \in Seq(Requests)
  BY AccountsFacts DEF HandleSubmit, TypeOK, outer, Marked
<1>2. CASE Client!Take /\ pc' = "calling" /\ UNCHANGED <<isProcessing, mailbox, answers>>
  <2>1. current' = Len(handed) + 1 /\ ~Idle'
    BY <1>1, <1>2 DEF Client!Take, Idle, Client!NoCall
  <2>2. handed'[current'] = item
    BY <1>1, <2>1, AppendFacts
  <2>3. InService' = item /\ InService = item
    BY <1>1, <1>2, <2>1, <2>2 DEF InService
  <2> QED BY <1>1, <1>2, <2>3, AccountsFacts, SameTurns
<1>3. CASE Client!TurnAway /\ AnswerAll({item}) /\ AfterCompletion(mailbox) /\ pc' = "loop"
  <2>1. Idle' /\ mailbox' = Reschedule(mailbox)
    BY <1>1, <1>3 DEF Client!TurnAway, Idle, Client!NoCall, AfterCompletion
  <2> QED BY <1>1, <1>3, <2>1, ItemAnswered
<1> QED BY <1>2, <1>3 DEF HandleSubmit

LEMMA HandlerMoves ==
  ASSUME Accounts, Handler
  PROVE  ServiceMoves /\ InTurn'
<1>1. CASE DeliverProcess \/ DeliverConnect
  <2>1. /\ mailbox' = Tail(mailbox) /\ UNCHANGED <<client, queued, submitted, answers, item>>
        /\ pc = "loop" /\ pc' # "handing"
    BY <1>1 DEF DeliverProcess, DeliverConnect, Delivers, worker, outer
  <2>2. InService' = InService
    BY <2>1 DEF InService, Idle, client, Client!NoCall
  <2>3. PostedIn(mailbox') = PostedIn(mailbox) /\ SubmitsIncrease(mailbox')
    BY <1>1, <2>1, TakenAnother DEF DeliverProcess, DeliverConnect
  <2> QED BY <2>1, <2>2, <2>3, SameTurns
<1>2. CASE DeliverDisconnect
  <2>1. HandleDisconnect(Tail(mailbox)) /\ UNCHANGED <<pc, submitted>>
    BY <1>2 DEF DeliverDisconnect, outer
  <2> QED BY <1>2, <2>1, TakenAnother, DisconnectMoves DEF DeliverDisconnect
<1>3. CASE DeliverStop
  <2>1. HandleStopInThread(Tail(mailbox)) /\ UNCHANGED <<pc, item, submitted>>
    BY <1>3 DEF DeliverStop, outer
  <2> QED BY <1>3, <2>1, TakenAnother, StopInThreadMoves DEF DeliverStop
<1>4. CASE RefuseItem
  <2>1. Idle' /\ UNCHANGED <<queued, submitted, mailbox>>
    BY <1>4, AccountsFacts DEF RefuseItem, Marked, Idle, client, worker, outer, Client!NoCall
  <2> QED BY <1>4, <2>1, ItemAnswered DEF RefuseItem
<1>5. CASE CallReturns \/ ConnectReturns
  <2>1. /\ UNCHANGED <<client, queued, submitted, answers, item, mailbox>>
        /\ pc # "handing" /\ pc' # "handing"
    BY <1>5 DEF CallReturns, ConnectReturns, worker, outer
  <2>2. InService' = InService
    BY <2>1 DEF InService, Idle, client, Client!NoCall
  <2> QED BY <2>1, <2>2, AccountsFacts, SameTurns
<1> QED BY <1>1, <1>2, <1>3, <1>4, <1>5, DeliverSubmitMoves, ProcessQueueMoves,
           HandleSubmitMoves DEF Handler

LEMMA OtherMoves ==
  ASSUME Accounts, ClientCompletes \/ ChannelChanges \/ ThreadFinishes \/ UNCHANGED vars
  PROVE  ServiceMoves /\ InTurn'
<1>1. CASE ClientCompletes
  BY <1>1, CompleteMoves DEF ClientCompletes, outer
<1>2. CASE ChannelChanges \/ ThreadFinishes \/ UNCHANGED vars
  <2>1. UNCHANGED <<queued, submitted, answers, mailbox>> /\ UNCHANGED <<client, pc, item>>
    BY <1>2 DEF ChannelChanges, ThreadFinishes, vars, worker, outer
  <2> QED BY <2>1, AccountsFacts, SameService, SameTurns
<1> QED BY <1>1, <1>2

-----------------------------------------------------------------------------
(* The invariant is preserved *)

LEMMA AccountsInit == Init => AccountsInv
<1> SUFFICES ASSUME Init PROVE AccountsInv
  OBVIOUS
<1>1. WorkerInv
  BY WorkerInit
<1>2. /\ InService = None /\ ValuesOf(queued) = {} /\ PostedIn(mailbox) = {}
      /\ Increasing(queued) /\ SubmitsIncrease(mailbox) /\ submitted = 0
  BY NothingPosted DEF Init, InService, Idle, Client!Init, Client!NoCall
<1>3. InTurn
  BY <1>2 DEF InTurn, Turns, None
<1>4. GoesLast
  BY DEF Init, GoesLast
<1>5. Settled
  BY <1>2 DEF Init, Settled, Requests
<1> QED BY <1>1, <1>3, <1>4, <1>5 DEF AccountsInv

LEMMA GoesLastStep == AccountsInv /\ [Next]_vars => GoesLast'
<1> SUFFICES ASSUME AccountsInv, [Next]_vars PROVE GoesLast'
  OBVIOUS
<1>0. GoesLast /\ HandlersNeedTheThread /\ NotStarted
  BY DEF AccountsInv, WorkerInv
<1>a. ASSUME UNCHANGED <<quit, thread, destroyed>>, stopping \/ stopped => stopping' \/ stopped',
             gui' = gui \/ ~destroyed
      PROVE  GoesLast'
  BY <1>0, <1>a DEF GoesLast
<1>b. ASSUME NEW m, HandleStopInThread(m)
      PROVE  stopped'
  BY <1>b DEF HandleStopInThread
<1>1. CASE Gui
  <2>1. CASE Start
    BY <1>0, <2>1 DEF Start, GoesLast
  <2>2. CASE Submit \/ RequestDisconnect \/ Stop
    BY <1>a, <2>2 DEF Submit, RequestDisconnect, Stop, GuiFree, worker, outer
  <2>3. CASE Quit
    BY <1>0, <2>3 DEF Quit, GoesLast, GuiFree, Running, worker
  <2>4. CASE Destroy
    <3>1. stopping' \/ stopped'
      BY <1>b, <2>4 DEF Destroy, worker
    <3> QED BY <1>0, <2>4, <3>1 DEF Destroy, GoesLast, GuiFree
  <2> QED BY <1>1, <2>1, <2>2, <2>3, <2>4 DEF Gui
<1>2. CASE InStop
  <2>1. gui # "idle" /\ UNCHANGED outer
    BY <1>2 DEF InStop, StopAborts, StopPosts
  <2>2. ~destroyed
    BY <1>0, <2>1 DEF GoesLast
  <2>3. stopping \/ stopped => stopping' \/ stopped'
    BY <1>2, <1>b DEF InStop, StopAborts, StopPosts, worker
  <2> QED BY <1>a, <2>1, <2>2, <2>3 DEF outer
<1>3. CASE Handler
  <2>1. UNCHANGED outer /\ gui' = gui
    BY <1>3 DEF Handler, DeliverSubmit, DeliverProcess, DeliverConnect, DeliverDisconnect,
                DeliverStop, ProcessQueue, RefuseItem, HandleSubmit, CallReturns, ConnectReturns
  <2>2. CASE DeliverStop
    BY <1>a, <1>b, <2>1, <2>2 DEF DeliverStop, outer
  <2>3. CASE ~DeliverStop
    <3>1. UNCHANGED <<stopping, stopped>>
      BY <1>3, <2>3 DEF Handler, DeliverSubmit, DeliverProcess, DeliverConnect, DeliverDisconnect,
                  ProcessQueue, RefuseItem, HandleSubmit, CallReturns, ConnectReturns, worker
    <3> QED BY <1>a, <2>1, <3>1 DEF outer
  <2> QED BY <2>2, <2>3
<1>4. CASE ClientCompletes \/ ChannelChanges \/ UNCHANGED vars
  BY <1>a, <1>4 DEF ClientCompletes, ChannelChanges, vars, worker, outer
<1>5. CASE ThreadFinishes
  BY <1>0, <1>5 DEF ThreadFinishes, GoesLast, Running, worker
<1> QED BY <1>1, <1>2, <1>3, <1>4, <1>5 DEF Next

\* What the destructor leaves: the accounts of a worker that is gone.
LEMMA DestroyStep ==
  ASSUME AccountsInv, TypeOK', Destroy
  PROVE  /\ ~destroyed /\ destroyed' /\ UNCHANGED <<submitted, answers>>
         /\ InTurn' /\ Settled'
<1>1. /\ stopped \/ stopping
      /\ ~destroyed /\ destroyed' /\ UNCHANGED submitted
  BY DEF AccountsInv, GoesLast, Destroy, GuiFree
<1>2. mailbox' = <<>> /\ UNCHANGED <<client, pc, item>> /\ UNCHANGED <<queued, answers>>
  BY <1>1 DEF Destroy, worker
<1>3. InTurn'
  BY <1>1, <1>2, SameService, NothingPosted, TurnsShrink
     DEF AccountsInv, WorkerInv, InTurn, Turns, ValuesOf
<1>4. Settled'
  BY <1>1, <1>2 DEF AccountsInv, Settled
<1> QED BY <1>1, <1>2, <1>3, <1>4

\* Nothing happens to a worker that is gone.
LEMMA NothingAfterwards ==
  ASSUME AccountsInv, [Next]_vars, destroyed
  PROVE  UNCHANGED vars
<1>1. thread = "finished" /\ gui = "idle" /\ pc = "loop" /\ (isProcessing /\ ~stopping /\ ~stopped => InService # None)
  BY DEF AccountsInv, WorkerInv, GoesLast, HandlersNeedTheThread, Marked
<1> QED BY <1>1
   DEF Next, Gui, InStop, Handler, Start, Submit, RequestDisconnect, Stop, Quit, Destroy, GuiFree,
       StopAborts, StopPosts, Delivers, DeliverSubmit, DeliverProcess, DeliverConnect,
       DeliverDisconnect, DeliverStop, ProcessQueue, RefuseItem, HandleSubmit, CallReturns,
       ConnectReturns, ClientCompletes, ChannelChanges, ThreadFinishes, Running

\* Every step of the worker is a step of the service, or it is gone.
LEMMA WorkerMoves ==
  ASSUME AccountsInv, [Next]_vars
  PROVE  \/ destroyed /\ UNCHANGED vars
         \/ ~destroyed /\ ~destroyed' /\ ServiceMoves /\ InTurn'
         \/ Destroy
<1>1. TypeOK'
  BY TypeStep DEF AccountsInv, WorkerInv
<1>2. CASE destroyed
  BY <1>2, NothingAfterwards
<1>3. CASE ~destroyed /\ ~Destroy
  <2>1. Accounts
    BY <1>1, <1>3 DEF Accounts
  <2>2. ~destroyed'
    BY <1>3 DEF Next, Gui, InStop, Handler, Start, Submit, RequestDisconnect, Stop, Quit,
       StopAborts, StopPosts, DeliverSubmit, DeliverProcess, DeliverConnect,
       DeliverDisconnect, DeliverStop, ProcessQueue, RefuseItem, HandleSubmit, CallReturns,
       ConnectReturns, ClientCompletes, ChannelChanges, ThreadFinishes, outer, vars
  <2>3. ServiceMoves /\ InTurn'
    BY <1>3, <2>1, GuiMoves, InStopMoves, HandlerMoves, OtherMoves DEF Next, Gui
  <2> QED BY <1>3, <2>2, <2>3
<1> QED BY <1>2, <1>3

LEMMA AccountsStep == AccountsInv /\ [Next]_vars => AccountsInv'
<1> SUFFICES ASSUME AccountsInv, [Next]_vars PROVE AccountsInv'
  OBVIOUS
<1>1. WorkerInv' /\ GoesLast' /\ TypeOK /\ TypeOK' /\ InTurn /\ Settled
  BY WorkerStep, GoesLastStep, TypeStep DEF AccountsInv, WorkerInv
<1>2. CASE destroyed /\ UNCHANGED vars
  <2>1. UNCHANGED <<queued, mailbox, submitted, answers, destroyed>> /\ UNCHANGED <<client, pc, item>>
    BY <1>2 DEF vars, worker, outer
  <2>2. InTurn' /\ Settled'
    BY <1>1, <1>2, <2>1, SameService DEF InTurn, Settled
  <2> QED BY <1>1, <2>2 DEF AccountsInv
<1>3. CASE ~destroyed /\ ~destroyed' /\ ServiceMoves /\ InTurn'
  BY <1>1, <1>3, MovesKeepSettled DEF AccountsInv
<1>4. CASE Destroy
  BY <1>1, <1>4, DestroyStep DEF AccountsInv
<1> QED BY <1>2, <1>3, <1>4, WorkerMoves

LEMMA AccountsAlways == Spec => []AccountsInv
BY AccountsInit, AccountsStep, PTL DEF Spec

-----------------------------------------------------------------------------
(* Theorems *)

\* No request of the worker is answered twice, however a stop, a disconnect
\* and a completion interleave, as long as abort() is decoupled from the
\* completion as the thread contract of ModbusClient has it.
THEOREM AnswersAreSingle == Spec => []AnsweredAtMostOnce
<1>1. AccountsInv => AnsweredAtMostOnce
  BY DEF AccountsInv, Settled, AnsweredAtMostOnce
<1> QED BY <1>1, AccountsAlways, PTL

LEMMA AccountsHold == AccountsInv => Accounted
<1> SUFFICES ASSUME AccountsInv, ~destroyed, NEW r \in 1 .. submitted
             PROVE  answers[r] + Places(r) = 1
  BY DEF Accounted
<1> DEFINE posted == {i \in DOMAIN mailbox : mailbox[i] = SubmitOf(r)}
           waits  == {i \in DOMAIN queued : queued[i] = r}
<1>0. /\ TypeOK /\ InTurn /\ Settled /\ Posted(mailbox) /\ queued \in Seq(Requests)
      /\ Increasing(queued) /\ SubmitsIncrease(mailbox)
  BY DEF AccountsInv, WorkerInv, TypeOK, InTurn, Turns
<1>1. r \in Requests /\ r <= submitted
  BY <1>0, BoundsAssumption DEF TypeOK, Requests
<1>2. Cardinality(waits) = IF r \in ValuesOf(queued) THEN 1 ELSE 0
  <2>1. CASE r \in ValuesOf(queued)
    <3>1. PICK i \in DOMAIN queued : queued[i] = r
      BY <2>1 DEF ValuesOf
    <3>2. ASSUME NEW j \in DOMAIN queued, queued[j] = r PROVE j = i
      BY <1>0, <1>1, <3>1, <3>2 DEF Increasing, Requests
    <3>3. waits = {i}
      BY <3>1, <3>2
    <3> QED BY <2>1, <3>3, FS_Singleton
  <2>2. CASE r \notin ValuesOf(queued)
    <3>1. waits = {}
      BY <2>2 DEF ValuesOf
    <3> QED BY <2>2, <3>1, FS_EmptySet
  <2> QED BY <2>1, <2>2
<1>3. Cardinality(posted) = IF r \in PostedIn(mailbox) THEN 1 ELSE 0
  <2>0. \A i \in DOMAIN mailbox : mailbox[i] = SubmitOf(r) <=>
                                  mailbox[i].type = "submit" /\ mailbox[i].id = r
    <3>1. \A i \in DOMAIN mailbox : mailbox[i] \in EventSet
      BY <1>0 DEF Posted
    <3> QED BY <3>1 DEF EventSet, SubmitOf
  <2>1. CASE r \in PostedIn(mailbox)
    <3>1. PICK i \in DOMAIN mailbox : mailbox[i].type = "submit" /\ mailbox[i].id = r
      BY <2>1 DEF PostedIn
    <3>2. ASSUME NEW j \in DOMAIN mailbox, mailbox[j].type = "submit", mailbox[j].id = r
          PROVE  j = i
      <4>1. ~(i < j) /\ ~(j < i)
        BY <1>1, <3>1, <3>2, <1>0 DEF SubmitsIncrease, Requests
      <4> QED BY <1>0, <4>1 DEF Posted
    <3>3. posted = {i}
      BY <2>0, <3>1, <3>2
    <3> QED BY <2>1, <3>3, FS_Singleton
  <2>2. CASE r \notin PostedIn(mailbox)
    <3>1. posted = {}
      BY <2>0, <2>2 DEF PostedIn
    <3> QED BY <2>2, <3>1, FS_EmptySet
  <2> QED BY <2>1, <2>2
<1>4. /\ ~(r \in ValuesOf(queued) /\ r \in PostedIn(mailbox))
      /\ InService = r => r \notin ValuesOf(queued) /\ r \notin PostedIn(mailbox)
  BY <1>0, <1>1 DEF InTurn, Turns, Requests
<1>5. answers[r] = IF r \in ValuesOf(queued) \cup PostedIn(mailbox) \cup {InService} THEN 0 ELSE 1
  BY <1>0, <1>1 DEF Settled, Waiting, ValuesOf, QueuedSet
<1>6. Places(r) = Cardinality(posted) + Cardinality(waits) + (IF InService = r THEN 1 ELSE 0)
  BY DEF Places
<1> QED BY <1>2, <1>3, <1>4, <1>5, <1>6

\* A submitted request is answered, or in exactly one place from which it can
\* still be answered, as long as there is a worker.
THEOREM NothingLost == Spec => []Accounted
BY AccountsHold, AccountsAlways, PTL

\* The worker serves first come first served, one at a time, answers at most
\* once and refuses with an answer: each of its steps is one of WorkerService.
THEOREM ServesInTurn == Spec => ServiceImplemented
<1>1. Init => Service!Init
  <2> SUFFICES ASSUME Init PROVE Service!Init
    OBVIOUS
  <2>1. Waiting = {} /\ InService = None
    BY NothingPosted DEF Init, Waiting, QueuedSet, InService, Idle, Client!Init, Client!NoCall
  <2> QED BY <2>1 DEF Init, Service!Init, Service!Nobody, None, Requests, Service!Requests
<1>2. AccountsInv /\ [Next]_vars => [Service!Next]_(Service!vars)
  <2> SUFFICES ASSUME AccountsInv, [Next]_vars PROVE [Service!Next]_(Service!vars)
    OBVIOUS
  <2>1. CASE destroyed /\ UNCHANGED vars
    <3>1. UNCHANGED <<submitted, answers, destroyed>>
      BY <2>1 DEF vars, outer
    <3> QED BY <2>1, <3>1 DEF Service!vars
  <2>2. CASE ~destroyed /\ ~destroyed' /\ ServiceMoves /\ InTurn'
    BY <2>2, MovesAreTheServices DEF AccountsInv, WorkerInv
  <2>3. CASE Destroy
    <3>1. destroyed' /\ UNCHANGED <<submitted, answers>>
      BY <2>3, TypeStep, DestroyStep DEF AccountsInv, WorkerInv
    <3>2. Service!GiveUp
      BY <3>1 DEF Service!GiveUp, Service!Nobody, None
    <3> QED BY <3>2 DEF Service!Next
  <2> QED BY <2>1, <2>2, <2>3, WorkerMoves
<1> QED BY <1>1, <1>2, AccountsAlways, PTL DEF Spec, ServiceImplemented, Service!Spec

=============================================================================
