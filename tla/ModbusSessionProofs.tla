------------------------- MODULE ModbusSessionProofs -------------------------
(***************************************************************************)
(* Theorems about ModbusSession, for every mode, configuration and bound.  *)
(*                                                                         *)
(* Every operation of the executor ends in one of two ways for the call it *)
(* works for: it goes on, or its callback runs and the lock is given back. *)
(* Outcome(cb) states this; the lemmas of the first section prove it once  *)
(* for each operation, and the invariants are proved from it.              *)
(***************************************************************************)
EXTENDS ModbusSession, TLAPS

\* cb: whether activeCallback_ is set on entry.
Outcome(cb) ==
  \/ /\ locked' = FALSE
     /\ callback' = FALSE
     /\ answers' = IF cb THEN [answers EXCEPT ![active'.id] = @ + 1] ELSE answers
  \/ /\ callback' = cb
     /\ UNCHANGED <<locked, answers>>

LEMMA ReleaseOutcome ==
  ASSUME NEW result, NEW origin, NEW cb \in BOOLEAN, Release(result, origin, cb)
  PROVE  Outcome(cb)
BY DEF Release, Answer, Outcome

LEMMA WriteEndsInOutcome ==
  ASSUME NEW result, NEW to, NEW c, NEW rs, NEW cb \in BOOLEAN,
         WriteEndsIn(result, to, c, rs, cb)
  PROVE  Outcome(cb)
BY ReleaseOutcome DEF WriteEndsIn, CompleteTransaction

LEMMA PerformWriteOutcome ==
  ASSUME NEW adu, NEW c, NEW rs, NEW cb \in BOOLEAN, PerformWrite(adu, c, rs, cb)
  PROVE  Outcome(cb)
<1>1. ASSUME AwaitResponse(rs, cb) PROVE Outcome(cb)
  <2>1. CASE IsBroadcast(active')
    BY <1>1, <2>1, ReleaseOutcome DEF AwaitResponse, CompleteTransaction
  <2>2. CASE ~IsBroadcast(active')
    BY <1>1, <2>2 DEF AwaitResponse, Outcome
  <2> QED BY <2>1, <2>2
<1>2. ASSUME WriteErrorWithinWrite(c, rs, cb) PROVE Outcome(cb)
  BY <1>2, ReleaseOutcome DEF WriteErrorWithinWrite
<1> QED BY <1>1, <1>2, WriteEndsInOutcome DEF PerformWrite

LEMMA SendCurrentRequestOutcome ==
  ASSUME NEW c, NEW rs, NEW cb \in BOOLEAN, SendCurrentRequest(c, rs, cb)
  PROVE  Outcome(cb)
<1>1. ASSUME RefuseBroadcast(c, rs, cb) PROVE Outcome(cb)
  BY <1>1, WriteEndsInOutcome DEF RefuseBroadcast
<1>2. ASSUME BuildAndWrite(c, rs, cb) PROVE Outcome(cb)
  BY <1>2, PerformWriteOutcome DEF BuildAndWrite, Outcome
<1> QED BY <1>1, <1>2, WriteEndsInOutcome DEF SendCurrentRequest

LEMMA RetryOrFailOutcome ==
  ASSUME NEW result, NEW origin, NEW rs, callback \in BOOLEAN, UNCHANGED active,
         RetryOrFail(result, origin, rs)
  PROVE  Outcome(callback)
<1>1. CASE Release(result, origin, callback)
  BY <1>1, ReleaseOutcome
<1>2. CASE UNCHANGED <<locked, callback, answers, reply>>
  BY <1>2 DEF Outcome
<1> QED BY <1>1, <1>2 DEF RetryOrFail

LEMMA CheckDropLimitOutcome ==
  ASSUME NEW over, NEW ti, callback \in BOOLEAN, CheckDropLimit(over, ti)
  PROVE  Outcome(callback)
<1>1. CASE over
  BY <1>1, ReleaseOutcome DEF CheckDropLimit, CompleteTransaction
<1>2. CASE ~over
  BY <1>2 DEF CheckDropLimit, Outcome
<1> QED BY <1>1, <1>2

LEMMA CheckPendingResponseOutcome ==
  ASSUME NEW ex, NEW dr, NEW ti, callback \in BOOLEAN, UNCHANGED active,
         CheckPendingResponse(ex, dr, ti)
  PROVE  Outcome(callback)
<1>1. ASSUME NEW f, NEW over, HandleParsedFrame(f, over)
      PROVE  Outcome(callback)
  <2>1. CASE Verdict(f) = "Ignored"
    BY <1>1, <2>1, CheckDropLimitOutcome DEF HandleParsedFrame
  <2>2. CASE Verdict(f) = "Success"
    BY <1>1, <2>2, ReleaseOutcome DEF HandleParsedFrame, CompleteTransaction
  <2>3. CASE Verdict(f) \notin {"Ignored", "Success"}
    <3>1. RetryOrFail(Verdict(f), f.id, Req!TryTransition(reqState, "Failed"))
      BY <1>1, <2>3 DEF HandleParsedFrame
    <3> QED BY <3>1, RetryOrFailOutcome
  <2> QED BY <2>1, <2>2, <2>3
<1>2. ASSUME PopFrame(ex) PROVE Outcome(callback)
  BY <1>1, <1>2 DEF PopFrame
<1>3. CASE UNCHANGED <<locked, callback, answers>>
  BY <1>3 DEF Outcome
<1> QED BY <1>2, <1>3, CheckDropLimitOutcome DEF CheckPendingResponse

LEMMA ClearRuntimeStateOutcome ==
  ASSUME NEW rs, NEW cb \in BOOLEAN, NEW ab, cb = callback, ClearRuntimeState(rs, cb, ab)
  PROVE  Outcome(cb)
<1>1. CASE cb
  BY <1>1, ReleaseOutcome DEF ClearRuntimeState
<1>2. CASE ~cb
  BY <1>2 DEF ClearRuntimeState, Outcome
<1> QED BY <1>1, <1>2

-----------------------------------------------------------------------------
(* Types of what the operations assign *)

Requests == [id : Calls, fc : FunctionClasses, slave : Nat]
Replies  == [id : 0 .. MaxCalls, result : Delivered \cup Failures \cup {"none"},
             origin : 0 .. MaxCalls, attempts : Nat]

ConnOK(c) ==
  /\ c \in [state : ConnectionStates, open : BOOLEAN, timeouts : Nat]
  /\ c.timeouts > 0 => c.timeouts < UnresponsiveThreshold

\* What Release assigns, what ends a transaction, and what a write touches.
AnswerType == /\ locked \in BOOLEAN
              /\ callback \in BOOLEAN
              /\ answers \in [Calls -> Nat]
              /\ reply \in Replies
CtlType    == /\ AnswerType
              /\ reqState \in RequestStates
              /\ txTimer \in BOOLEAN
              /\ silence \in BOOLEAN
LineType   == /\ ConnOK(conn)
              /\ wire \subseteq Adus
              /\ unsent \in BOOLEAN
              /\ sent \in [Calls -> Nat]
BuildType  == /\ extractor \in [frames : Seq(Frames), partial : Frames, over : BOOLEAN]
              /\ expected \subseteq Adus
              /\ nextSeq \in Nat
              /\ drained \in BOOLEAN
              /\ writes \subseteq Adus

LEMMA ReqType ==
  ASSUME NEW rs \in RequestStates, NEW to \in RequestStates
  PROVE  Req!TryTransition(rs, to) \in RequestStates
BY DEF Req!TryTransition

LEMMA ConnStateType ==
  ASSUME NEW s \in ConnectionStates, NEW to \in ConnectionStates
  PROVE  Conn!TryTransition(s, to) \in ConnectionStates
BY DEF Conn!TryTransition

LEMMA SettledType ==
  ASSUME NEW rs \in RequestStates, NEW result, NEW ab
  PROVE  Settled(rs, result, ab) \in RequestStates
BY ReqType DEF Settled, RequestStates

LEMMA ReportedAttemptsType ==
  ASSUME NEW result, NEW n \in Nat
  PROVE  ReportedAttempts(result, n) \in Nat
BY DEF ReportedAttempts

LEMMA ReleaseType ==
  ASSUME AnswerType, NEW result \in Delivered \cup Failures,
         NEW origin \in 0 .. MaxCalls, NEW cb \in BOOLEAN,
         cb => active'.id \in Calls, attempts' \in Nat, Release(result, origin, cb)
  PROVE  AnswerType'
<1>1. CASE cb
  <2>1. ReportedAttempts(result, attempts') \in Nat
    BY ReportedAttemptsType
  <2>2. active'.id \in 0 .. MaxCalls
    BY <1>1 DEF Calls
  <2>3. reply' \in Replies
    BY <1>1, <2>1, <2>2 DEF Release, Answer, Replies
  <2>4. answers' \in [Calls -> Nat]
    BY <1>1 DEF Release, Answer, AnswerType
  <2> QED BY <2>3, <2>4 DEF Release, AnswerType
<1>2. CASE ~cb
  BY <1>2 DEF Release, AnswerType
<1> QED BY <1>1, <1>2

LEMMA WriteEndsInType ==
  ASSUME CtlType, LineType, NEW result \in Failures, NEW to \in RequestStates,
         NEW c, ConnOK(c), NEW rs \in RequestStates, NEW cb \in BOOLEAN,
         active' \in Requests, attempts' \in Nat,
         WriteEndsIn(result, to, c, rs, cb)
  PROVE  CtlType' /\ LineType'
<1>1. AnswerType'
  BY ReleaseType, BoundsAssumption
  DEF WriteEndsIn, CompleteTransaction, CtlType, Requests
<1>2. reqState' \in RequestStates
  BY SettledType, ReqType DEF WriteEndsIn
<1> QED BY <1>1, <1>2 DEF WriteEndsIn, CompleteTransaction, StopTimers, CtlType, LineType

LEMMA LoseChannelType ==
  ASSUME NEW c, ConnOK(c)
  PROVE  ConnOK(LoseChannel(c))
BY DEF ConnOK, LoseChannel, ConnectionStates

LEMMA PerformWriteType ==
  ASSUME CtlType, LineType, NEW adu \in Adus, NEW c, ConnOK(c),
         NEW rs \in RequestStates, NEW cb \in BOOLEAN, active' \in Requests,
         attempts' \in Nat, PerformWrite(adu, c, rs, cb)
  PROVE  CtlType' /\ LineType'
<1>1. ASSUME AwaitResponse(rs, cb) PROVE CtlType'
  <2>1. CASE IsBroadcast(active')
    <3>1. AnswerType'
      BY <1>1, <2>1, ReleaseType, BoundsAssumption
      DEF AwaitResponse, CompleteTransaction, CtlType, Delivered, Requests
    <3>2. reqState' \in RequestStates
      BY <1>1, <2>1, SettledType, ReqType DEF AwaitResponse, RequestStates
    <3> QED BY <1>1, <2>1, <3>1, <3>2
            DEF AwaitResponse, CompleteTransaction, StopTimers, CtlType
  <2>2. CASE ~IsBroadcast(active')
    <3>1. reqState' \in RequestStates
      BY <1>1, <2>2, ReqType DEF AwaitResponse, RequestStates
    <3> QED BY <1>1, <2>2, <3>1 DEF AwaitResponse, CtlType, AnswerType
  <2> QED BY <2>1, <2>2
<1>2. ASSUME WriteErrorWithinWrite(c, rs, cb) PROVE CtlType' /\ LineType'
  <2>1. AnswerType'
    BY <1>2, ReleaseType, BoundsAssumption
    DEF WriteErrorWithinWrite, CtlType, Failures, Requests
  <2>2. reqState' \in RequestStates
    <3> DEFINE failed  == IF cb THEN Settled(rs, "ConnectionFailed", aborted') ELSE rs
               sending == Req!TryTransition(failed, "Sending")
    <3>1. failed \in RequestStates
      BY SettledType
    <3>2. sending \in RequestStates
      BY <3>1, ReqType DEF RequestStates
    <3> HIDE DEF failed
    <3>3. /\ Req!TryTransition(sending, "Completed") \in RequestStates
          /\ Req!TryTransition(sending, "Waiting") \in RequestStates
      BY <3>2, ReqType DEF RequestStates
    <3> USE DEF failed
    <3> QED BY <1>2, <3>3 DEF WriteErrorWithinWrite
  <2>3. /\ silence' \in BOOLEAN
        /\ txTimer' \in BOOLEAN
    BY <1>2 DEF WriteErrorWithinWrite, CtlType
  <2>4. LineType'
    BY <1>2, LoseChannelType DEF WriteErrorWithinWrite, DropTraffic, LineType
  <2> QED BY <2>1, <2>2, <2>3, <2>4 DEF CtlType
<1>3. CASE /\ AwaitResponse(rs, cb)
           /\ wire' = wire \cup {adu}
           /\ unsent' = TRUE
           /\ sent' = [sent EXCEPT ![adu.id] = @ + 1]
           /\ conn' = c
  <2>1. sent' \in [Calls -> Nat]
    BY <1>3 DEF LineType, Adus
  <2> QED BY <1>1, <1>3, <2>1 DEF LineType
<1>4. CASE WriteEndsIn("Aborted", "Aborted", c, rs, cb)
  BY <1>4, WriteEndsInType DEF Failures, RequestStates
<1>5. CASE WriteEndsIn("WriteFailed", "Failed", c, rs, cb)
  BY <1>5, WriteEndsInType DEF Failures, RequestStates
<1> QED BY <1>2, <1>3, <1>4, <1>5 DEF PerformWrite

LEMMA EmptyExtractorType ==
  EmptyExtractor \in [frames : Seq(Frames), partial : Frames, over : BOOLEAN]
<1>1. NoFrame \in Frames
  BY BoundsAssumption DEF NoFrame, Frames, Statuses
<1>2. << >> \in Seq(Frames)
  OBVIOUS
<1> QED BY <1>1, <1>2 DEF EmptyExtractor

LEMMA SendCurrentRequestType ==
  ASSUME CtlType, LineType, BuildType, NEW c, ConnOK(c), NEW rs \in RequestStates,
         NEW cb \in BOOLEAN, active' \in Requests, attempts' \in Nat,
         SendCurrentRequest(c, rs, cb)
  PROVE  CtlType' /\ LineType' /\ BuildType'
<1>1. CASE /\ WriteEndsIn("Aborted", "Aborted", c, rs, cb)
           /\ UNCHANGED <<extractor, drained, expected, nextSeq, writes>>
  BY <1>1, WriteEndsInType DEF Failures, RequestStates, BuildType
<1>2. CASE /\ extractor' = EmptyExtractor
           /\ drained' = (drained /\ Mode # "RTU")
           /\ RefuseBroadcast(c, rs, cb)
  <2>1. CtlType' /\ LineType'
    BY <1>2, WriteEndsInType DEF RefuseBroadcast, Failures, RequestStates
  <2> QED BY <1>2, <2>1, EmptyExtractorType DEF RefuseBroadcast, BuildType
<1>3. CASE /\ extractor' = EmptyExtractor
           /\ drained' = (drained /\ Mode # "RTU")
           /\ BuildAndWrite(c, rs, cb)
  <2> DEFINE adu == [seq |-> nextSeq, slave |-> active'.slave, fc |-> active'.fc,
                     id |-> active'.id]
  <2>1. adu \in Adus
    BY DEF Adus, Requests, BuildType
  <2>2. /\ expected' = {adu}
        /\ nextSeq' = nextSeq + 1
        /\ \/ PerformWrite(adu, c, rs, cb) /\ UNCHANGED writes
           \/ /\ writes' = writes \cup {adu}
              /\ conn' = c /\ reqState' = rs /\ callback' = cb
              /\ UNCHANGED <<txTimer, silence, locked, answers, reply,
                             wire, unsent, sent>>
    BY <1>3 DEF BuildAndWrite
  <2> HIDE DEF adu
  <2>3. CtlType' /\ LineType'
    <3>1. CASE PerformWrite(adu, c, rs, cb)
      BY <2>1, <3>1, PerformWriteType
    <3>2. CASE /\ conn' = c /\ reqState' = rs /\ callback' = cb
               /\ UNCHANGED <<txTimer, silence, locked, answers, reply,
                              wire, unsent, sent>>
      BY <3>2 DEF CtlType, AnswerType, LineType
    <3> QED BY <2>2, <3>1, <3>2
  <2>4. BuildType'
    BY <1>3, <2>1, <2>2, EmptyExtractorType DEF BuildType
  <2> QED BY <2>3, <2>4
<1> QED BY <1>1, <1>2, <1>3 DEF SendCurrentRequest

LEMMA RetryOrFailType ==
  ASSUME CtlType, NEW result \in Failures, NEW origin \in 0 .. MaxCalls,
         NEW rs \in RequestStates, active \in Requests, UNCHANGED active,
         attempts \in Nat, resends \subseteq [id : Calls, attempt : Nat],
         RetryOrFail(result, origin, rs)
  PROVE  /\ AnswerType'
         /\ reqState' \in RequestStates
         /\ attempts' \in Nat
         /\ resends' \subseteq [id : Calls, attempt : Nat]
<1>1. attempts' \in Nat
  BY DEF RetryOrFail
<1>2. CASE /\ resends' = resends \cup {[id |-> active.id, attempt |-> attempts + 1]}
           /\ reqState' = Req!TryTransition(rs, "Failed")
           /\ UNCHANGED <<locked, callback, answers, reply>>
  <2>1. reqState' \in RequestStates
    BY <1>2, ReqType DEF RequestStates
  <2> QED BY <1>1, <1>2, <2>1 DEF CtlType, AnswerType, Requests
<1>3. CASE /\ Release(result, origin, callback)
           /\ reqState' = Settled(rs, result, aborted)
           /\ UNCHANGED resends
  <2>1. AnswerType'
    BY <1>1, <1>3, ReleaseType DEF CtlType, AnswerType, Requests
  <2>2. reqState' \in RequestStates
    BY <1>3, SettledType
  <2> QED BY <1>1, <1>3, <2>1, <2>2
<1> QED BY <1>2, <1>3 DEF RetryOrFail

LEMMA CheckDropLimitType ==
  ASSUME CtlType, NEW over, NEW ti \in BOOLEAN, UNCHANGED active,
         callback => active \in Requests, attempts \in Nat, CheckDropLimit(over, ti)
  PROVE  CtlType'
<1>1. CASE over
  <2>1. AnswerType'
    BY <1>1, ReleaseType, BoundsAssumption
    DEF CheckDropLimit, CompleteTransaction, CtlType, AnswerType, Failures, Requests
  <2>2. reqState' \in RequestStates
    BY <1>1, SettledType, ReqType DEF CheckDropLimit, CtlType, RequestStates
  <2> QED BY <1>1, <2>1, <2>2
          DEF CheckDropLimit, CompleteTransaction, StopTimers, CtlType
<1>2. CASE ~over
  BY <1>2 DEF CheckDropLimit, CtlType, AnswerType
<1> QED BY <1>1, <1>2

\* What receiving assigns beyond CtlType.
ReceiveType ==
  /\ ConnOK(conn)
  /\ attempts \in Nat
  /\ resends \subseteq [id : Calls, attempt : Nat]
  /\ extractor \in [frames : Seq(Frames), partial : Frames, over : BOOLEAN]
  /\ expected \subseteq Adus

LEMMA HandleParsedFrameType ==
  ASSUME CtlType, ReceiveType, UNCHANGED active, active \in Requests,
         NEW f \in Frames, NEW over, HandleParsedFrame(f, over),
         extractor' \in [frames : Seq(Frames), partial : Frames, over : BOOLEAN]
  PROVE  CtlType' /\ ReceiveType'
<1>1. expected' \subseteq Adus
  BY DEF HandleParsedFrame, ReceiveType
<1>2. f.id \in 0 .. MaxCalls
  BY DEF Frames
<1>3. CASE CheckDropLimit(over, FALSE)
  <2>1. CtlType'
    BY <1>3, CheckDropLimitType DEF ReceiveType
  <2> QED BY <1>1, <1>3, <2>1 DEF CheckDropLimit, ReceiveType
<1>4. CASE /\ conn' = [conn EXCEPT !.timeouts = 0]
           /\ UNCHANGED <<attempts, resends>>
           /\ CompleteTransaction("Success", f.id, callback)
           /\ reqState' = Settled(Req!TryTransition(reqState, "Completed"),
                                  "Success", aborted)
  <2>1. AnswerType'
    <3>1. Release("Success", f.id, callback) /\ attempts' \in Nat
      BY <1>4 DEF CompleteTransaction, ReceiveType
    <3>2. AnswerType /\ callback \in BOOLEAN /\ active'.id \in Calls
      BY DEF CtlType, AnswerType, Requests
    <3>3. "Success" \in Delivered \cup Failures
      BY DEF Delivered
    <3> QED BY <1>2, <3>1, <3>2, <3>3, ReleaseType
  <2>2. reqState' \in RequestStates
    BY <1>4, SettledType, ReqType DEF CtlType, RequestStates
  <2>3. ConnOK(conn')
    BY SMTT(20), <1>4 DEF ConnOK, ReceiveType
  <2> QED BY <1>1, <1>4, <2>1, <2>2, <2>3
          DEF CompleteTransaction, StopTimers, CtlType, ReceiveType
<1>5. CASE /\ Verdict(f) \notin {"Ignored", "Success"}
           /\ silence' = FALSE
           /\ RetryOrFail(Verdict(f), f.id, Req!TryTransition(reqState, "Failed"))
           /\ txTimer' = (txTimer /\ callback')
           /\ UNCHANGED conn
  <2>1. Verdict(f) \in Failures
    BY <1>5 DEF Verdict, Failures
  <2>2. Req!TryTransition(reqState, "Failed") \in RequestStates
    BY ReqType DEF CtlType, RequestStates
  <2>3. /\ AnswerType'
        /\ reqState' \in RequestStates
        /\ attempts' \in Nat
        /\ resends' \subseteq [id : Calls, attempt : Nat]
    BY <1>2, <1>5, <2>1, <2>2, RetryOrFailType DEF ReceiveType
  <2> QED BY <1>1, <1>5, <2>3 DEF CtlType, AnswerType, ReceiveType
<1> QED BY <1>3, <1>4, <1>5 DEF HandleParsedFrame

LEMMA CheckPendingResponseType ==
  ASSUME CtlType, ReceiveType, UNCHANGED active, callback => active \in Requests,
         NEW ex \in [frames : Seq(Frames), partial : Frames, over : BOOLEAN],
         NEW dr, NEW ti \in BOOLEAN, CheckPendingResponse(ex, dr, ti)
  PROVE  CtlType' /\ ReceiveType'
<1>1. CASE /\ extractor' = ex
           /\ silence' = ti
           /\ UNCHANGED <<reqState, locked, callback, txTimer, answers, reply,
                          conn, attempts, resends, expected>>
  BY <1>1 DEF CtlType, AnswerType, ReceiveType
<1>2. CASE callback /\ PopFrame(ex)
  <2>1. CASE /\ ex.frames # << >>
             /\ extractor' = [ex EXCEPT !.frames = Tail(@)]
             /\ HandleParsedFrame(Head(ex.frames), ex.over)
    <3>1. Head(ex.frames) \in Frames /\ Tail(ex.frames) \in Seq(Frames)
      BY <2>1
    <3>2. extractor' \in [frames : Seq(Frames), partial : Frames, over : BOOLEAN]
      BY <2>1, <3>1
    <3> QED BY <1>2, <2>1, <3>1, <3>2, HandleParsedFrameType
  <2>2. CASE /\ extractor' = [ex EXCEPT !.partial = NoFrame]
             /\ HandleParsedFrame(ex.partial, ex.over)
    <3>1. extractor' \in [frames : Seq(Frames), partial : Frames, over : BOOLEAN]
      BY <2>2, EmptyExtractorType DEF EmptyExtractor
    <3> QED BY <1>2, <2>2, <3>1, HandleParsedFrameType
  <2> QED BY <1>2, <2>1, <2>2 DEF PopFrame
<1>3. CASE /\ callback
           /\ extractor' = ex
           /\ CheckDropLimit(ex.over, ti \/ ex.partial # NoFrame)
           /\ UNCHANGED expected
  <2>1. CtlType'
    BY <1>3, CheckDropLimitType DEF ReceiveType
  <2> QED BY <1>3, <2>1 DEF CheckDropLimit, ReceiveType
<1> QED BY <1>1, <1>2, <1>3 DEF CheckPendingResponse

LEMMA ClearRuntimeStateType ==
  ASSUME CtlType, UNCHANGED active, callback => active \in Requests,
         attempts' \in Nat, NEW rs \in RequestStates, NEW ab,
         ClearRuntimeState(rs, callback, ab)
  PROVE  /\ CtlType'
         /\ extractor' \in [frames : Seq(Frames), partial : Frames, over : BOOLEAN]
         /\ expected' \subseteq Adus
         /\ drained' \in BOOLEAN
<1>1. reqState' \in RequestStates
  <2> DEFINE settled == Settled(Req!TryTransition(rs, "Failed"), "ConnectionFailed", ab)
  <2>1. "Failed" \in RequestStates /\ "Idle" \in RequestStates
    BY DEF RequestStates
  <2>2. settled \in RequestStates
    BY <2>1, SettledType, ReqType
  <2>3. reqState' \in {Req!TryTransition(settled, "Idle"), Req!TryTransition(rs, "Idle")}
    BY DEF ClearRuntimeState
  <2> HIDE DEF settled
  <2> QED BY <2>1, <2>2, <2>3, ReqType
<1>2. AnswerType'
  <2>1. CASE callback
    <3>1. Release("ConnectionFailed", 0, TRUE)
      BY <2>1 DEF ClearRuntimeState
    <3>2. AnswerType /\ active'.id \in Calls
      BY <2>1 DEF CtlType, Requests
    <3>3. /\ "ConnectionFailed" \in Delivered \cup Failures
          /\ 0 \in 0 .. MaxCalls
      BY BoundsAssumption DEF Failures
    <3> QED BY <3>1, <3>2, <3>3, ReleaseType
  <2>2. CASE ~callback
    BY <2>2 DEF ClearRuntimeState, CtlType, AnswerType
  <2> QED BY <2>1, <2>2
<1> QED BY <1>1, <1>2, EmptyExtractorType DEF ClearRuntimeState, StopTimers, CtlType

-----------------------------------------------------------------------------
(* The inductive invariant *)

\* Whatever can act for a request acts for a real one.
ActiveReal ==
  \/ active \in Requests
  \/ /\ active = NoRequest
     /\ ~callback /\ ~txTimer
     /\ resends = {} /\ writes = {}

\* The open call is one of those made, and there is at most one.
OpenCallOK ==
  /\ Starting => calls \in Calls /\ ~callback
  /\ callback => active.id <= calls

SessionInv ==
  /\ TypeOK
  /\ ActiveReal
  /\ OpenCallOK
  /\ LockMeansOpenCall
  /\ AnsweredExactlyOnce

CallType ==
  /\ aborted \in BOOLEAN
  /\ blocked \in {"no", "starting", "request", "connect"}
  /\ calling \in Kinds \cup {NoCall}
  /\ active \in Requests \cup {NoRequest}
  /\ maxRetries \in Int
  /\ calls \in 0 .. MaxCalls

LEMMA TypeParts ==
  /\ TypeOK <=> CtlType /\ LineType /\ BuildType /\ ReceiveType /\ CallType
  /\ TypeOK' <=> CtlType' /\ LineType' /\ BuildType' /\ ReceiveType' /\ CallType'
BY DEF TypeOK, CtlType, AnswerType, LineType, BuildType, ReceiveType, CallType,
       ConnOK, Requests, Replies

LEMMA TurnAwayType ==
  ASSUME AnswerType, NEW id \in Calls, NEW result \in Failures, NEW n \in Nat,
         TurnAway(id, result, n)
  PROVE  /\ answers' \in [Calls -> Nat]
         /\ reply' \in Replies
<1>1. reply' = [id |-> id, result |-> result, origin |-> 0, attempts |-> n]
  BY DEF TurnAway, Answer
<1>2. id \in 0 .. MaxCalls /\ 0 \in 0 .. MaxCalls
  BY BoundsAssumption DEF Calls
<1>3. answers' \in [Calls -> Nat]
  BY DEF TurnAway, Answer, AnswerType
<1> QED BY <1>1, <1>2, <1>3 DEF Replies

LEMMA DetermineMaxRetriesType ==
  ASSUME NEW fc
  PROVE  DetermineMaxRetries(fc) \in Int
BY ConfigAssumption DEF DetermineMaxRetries

LEMMA StartRequestType ==
  ASSUME CtlType, LineType, BuildType, ReceiveType, CallType, ActiveReal,
         calls \in Calls, NEW c, ConnOK(c), UNCHANGED resends, StartRequest(c)
  PROVE  /\ CtlType' /\ LineType' /\ BuildType' /\ ReceiveType' /\ ActiveReal'
         /\ active' \in Requests \cup {NoRequest}
         /\ maxRetries' \in Int
<1>1. CASE /\ TurnAway(calls, "InvalidPdu", 0)
           /\ locked' = FALSE
           /\ reqState' = Req!TryTransition(reqState, "Failed")
           /\ conn' = c
           /\ UNCHANGED <<req, io, writes, extractor, expected, drained>>
  <2>1. answers' \in [Calls -> Nat] /\ reply' \in Replies
    BY <1>1, TurnAwayType DEF CtlType, Failures
  <2>2. reqState' \in RequestStates
    BY <1>1, ReqType DEF CtlType, RequestStates
  <2>3. CtlType'
    BY <1>1, <2>1, <2>2 DEF TurnAway, CtlType, AnswerType
  <2>4. LineType' /\ BuildType' /\ ReceiveType' /\ ActiveReal'
    BY <1>1 DEF TurnAway, req, io, LineType, BuildType, ReceiveType, ActiveReal
  <2> QED BY <1>1, <2>3, <2>4 DEF req, CallType
<1>2. CASE /\ calling.valid
           /\ active' = [id |-> calls, fc |-> calling.fc, slave |-> calling.slave]
           /\ attempts' = 0
           /\ maxRetries' = DetermineMaxRetries(calling.fc)
           /\ SendCurrentRequest(c, Req!TryTransition(reqState, "Idle"), TRUE)
  <2>1. calling \in Kinds
    BY <1>2 DEF CallType, NoCall
  <2>2. active' \in Requests
    BY <1>2, <2>1, KindsAssumption DEF Requests
  <2>3. Req!TryTransition(reqState, "Idle") \in RequestStates
    BY ReqType DEF CtlType, RequestStates
  <2>4. CtlType' /\ LineType' /\ BuildType'
    BY <1>2, <2>2, <2>3, SendCurrentRequestType
  <2>5. ReceiveType'
    BY <1>2, <2>4 DEF ReceiveType, LineType, BuildType
  <2>6. maxRetries' \in Int
    BY <1>2, DetermineMaxRetriesType
  <2> QED BY <2>2, <2>4, <2>5, <2>6 DEF ActiveReal
<1> QED BY <1>1, <1>2 DEF StartRequest

LEMMA ConnectionTypes ==
  ASSUME NEW c, ConnOK(c)
  PROVE  /\ ConnOK([c EXCEPT !.state = FastPath(@)])
         /\ ConnOK([c EXCEPT !.state = EnterConnecting(@)])
         /\ ConnOK(Opened(c))
         /\ ConnOK(OpenFailed(c))
         /\ ConnOK(AfterTimeout(c))
         /\ ConnOK([c EXCEPT !.open = FALSE,
                       !.state = Conn!TryTransition(
                                   Conn!TryTransition(@, "Disconnecting"), "Disconnected")])
<1>1. FastPath(c.state) \in ConnectionStates
  BY DEF ConnOK, FastPath, ConnectionStates
<1>2. EnterConnecting(c.state) \in ConnectionStates
  <2>1. CASE c.state = "Disconnecting"
    BY <2>1, ConnStateType DEF EnterConnecting, ConnectionStates
  <2>2. CASE c.state \in {"Connecting", "Connected"}
    BY <2>2, ConnStateType DEF EnterConnecting, ConnectionStates
  <2>3. CASE c.state \in {"Disconnected", "Failed"}
    BY <2>3, ConnStateType DEF EnterConnecting, ConnectionStates
  <2> QED BY <2>1, <2>2, <2>3 DEF ConnOK, ConnectionStates
<1>3. \A to \in ConnectionStates : Conn!TryTransition(c.state, to) \in ConnectionStates
  BY ConnStateType DEF ConnOK
<1>4. {"Connected", "Failed", "Disconnecting", "Disconnected"} \subseteq ConnectionStates
  BY DEF ConnectionStates
<1>5. Conn!TryTransition(Conn!TryTransition(c.state, "Disconnecting"), "Disconnected")
        \in ConnectionStates
  BY <1>3, <1>4, ConnStateType
<1>6. ConnOK(AfterTimeout(c))
  BY <1>4, ConfigAssumption DEF ConnOK, AfterTimeout
<1>7. ConnOK(Opened(c))
  <2>1. Conn!TryTransition(c.state, "Connected") \in ConnectionStates
    BY <1>3, <1>4
  <2> QED BY <2>1 DEF ConnOK, Opened
<1>8. ConnOK(OpenFailed(c))
  <2>1. Conn!TryTransition(c.state, "Failed") \in ConnectionStates
    BY <1>3, <1>4
  <2> QED BY <2>1 DEF ConnOK, OpenFailed
<1> QED BY <1>1, <1>2, <1>5, <1>6, <1>7, <1>8 DEF ConnOK

LEMMA AbortedStateType ==
  ASSUME reqState \in RequestStates
  PROVE  AbortedState \in RequestStates
<1> DEFINE first == IF reqState \in {"Completed", "Failed"} THEN reqState
                    ELSE Req!TryTransition(reqState, "Aborted")
<1>1. first \in RequestStates
  BY ReqType DEF RequestStates
<1> HIDE DEF first
<1>2. Settled(first, "Aborted", TRUE) \in RequestStates
  BY <1>1, SettledType
<1> USE DEF first
<1> QED BY <1>1, <1>2 DEF AbortedState

LEMMA FeedType ==
  ASSUME BuildType, NEW f \in Frames, NEW ex \in Feed(f)
  PROVE  ex \in [frames : Seq(Frames), partial : Frames, over : BOOLEAN]
<1>1. Append(extractor.frames, f) \in Seq(Frames)
  BY DEF BuildType
<1>2. Append(extractor.frames, extractor.partial) \in Seq(Frames)
  BY DEF BuildType
<1>3. NoiseFrame \in Frames
  BY BoundsAssumption DEF NoiseFrame, NoFrame, Frames, Statuses
<1> QED BY <1>1, <1>2, <1>3 DEF Feed, BuildType

LEMMA ReceivedType ==
  ASSUME CtlType, LineType, BuildType, ReceiveType, CallType, ActiveReal,
         NEW ex \in [frames : Seq(Frames), partial : Frames, over : BOOLEAN],
         Received(ex)
  PROVE  /\ CtlType' /\ ReceiveType' /\ CallType' /\ ActiveReal'
         /\ UNCHANGED <<writes, drained, nextSeq, unsent, sent>>
<1>1. /\ UNCHANGED <<active, maxRetries, blocked, calling, calls, aborted, writes,
                     drained, nextSeq, unsent, sent>>
      /\ CheckPendingResponse(ex, drained, silence)
  BY DEF Received, call
<1>2. CtlType' /\ ReceiveType'
  BY <1>1, CheckPendingResponseType DEF ActiveReal, CtlType
<1>3. ActiveReal'
  <2>1. CASE active \in Requests
    BY <1>1, <2>1 DEF ActiveReal
  <2>2. CASE ~callback
    BY <1>1, <2>2 DEF CheckPendingResponse, ActiveReal
  <2> QED BY <2>1, <2>2 DEF ActiveReal
<1> QED BY <1>1, <1>2, <1>3 DEF CallType

LEMMA ReceiveActionsType ==
  ASSUME CtlType, LineType, BuildType, ReceiveType, CallType, ActiveReal
  PROVE  /\ \A adu \in wire, status \in Statuses :
              DeviceAnswers(adu, status) => TypeOK' /\ ActiveReal'
         /\ LineNoise => TypeOK' /\ ActiveReal'
         /\ WriteDrained => TypeOK' /\ ActiveReal'
         /\ SilenceExpires => TypeOK' /\ ActiveReal'
<1>1. ASSUME NEW adu \in wire, NEW status \in Statuses, DeviceAnswers(adu, status)
      PROVE  TypeOK' /\ ActiveReal'
  <2> DEFINE f == [seq |-> adu.seq, slave |-> adu.slave, fc |-> adu.fc,
                   status |-> status, id |-> adu.id]
  <2>1. f \in Frames
    BY BoundsAssumption DEF LineType, Adus, Frames, Calls
  <2>2. PICK ex \in Feed(f) : Received(ex)
    BY <1>1 DEF DeviceAnswers
  <2> HIDE DEF f
  <2>3. ex \in [frames : Seq(Frames), partial : Frames, over : BOOLEAN]
    BY <2>1, FeedType
  <2>4. /\ CtlType' /\ ReceiveType' /\ CallType' /\ ActiveReal'
        /\ UNCHANGED <<writes, drained, nextSeq, unsent, sent>>
    BY <2>2, <2>3, ReceivedType
  <2>5. wire' \subseteq wire
    BY <1>1 DEF DeviceAnswers
  <2> QED BY <2>4, <2>5, TypeParts DEF LineType, BuildType, ReceiveType
<1>2. ASSUME LineNoise PROVE TypeOK' /\ ActiveReal'
  <2>1. PICK ex \in IF Mode = "RTU" THEN Feed(NoiseFrame)
                    ELSE {[extractor EXCEPT !.over = TRUE]} : Received(ex)
    BY <1>2 DEF LineNoise
  <2>2. ex \in [frames : Seq(Frames), partial : Frames, over : BOOLEAN]
    <3>1. NoiseFrame \in Frames
      BY BoundsAssumption DEF NoiseFrame, NoFrame, Frames, Statuses
    <3>2. CASE Mode = "RTU"
      BY <2>1, <3>1, <3>2, FeedType
    <3>3. CASE Mode # "RTU"
      BY <2>1, <3>3 DEF BuildType
    <3> QED BY <3>2, <3>3
  <2>3. /\ CtlType' /\ ReceiveType' /\ CallType' /\ ActiveReal'
        /\ UNCHANGED <<writes, drained, nextSeq, unsent, sent>>
    BY <2>1, <2>2, ReceivedType
  <2>4. UNCHANGED wire
    BY <1>2 DEF LineNoise
  <2> QED BY <2>3, <2>4, TypeParts DEF LineType, BuildType, ReceiveType
<1>3. ASSUME NEW dr \in BOOLEAN, NEW ti \in BOOLEAN,
             CheckPendingResponse(extractor, dr, ti),
             UNCHANGED <<active, maxRetries, call, aborted, writes>>
      PROVE  CtlType' /\ ReceiveType' /\ CallType' /\ ActiveReal'
  <2>1. CtlType' /\ ReceiveType'
    <3>1. callback => active \in Requests
      BY DEF ActiveReal
    <3>2. extractor \in [frames : Seq(Frames), partial : Frames, over : BOOLEAN]
      BY DEF BuildType
    <3> QED BY <1>3, <3>1, <3>2, CheckPendingResponseType
  <2>2. CASE active \in Requests
    BY <1>3, <2>1, <2>2 DEF ActiveReal, CallType, call
  <2>3. CASE active \notin Requests
    <3>1. ~callback
      BY <2>3 DEF ActiveReal
    <3> QED BY <1>3, <2>1, <2>3, <3>1
            DEF CheckPendingResponse, ActiveReal, CallType, call
  <2> QED BY <2>2, <2>3
<1>4. ASSUME WriteDrained PROVE TypeOK' /\ ActiveReal'
  <2>1. CtlType' /\ ReceiveType' /\ CallType' /\ ActiveReal'
    BY <1>3, <1>4 DEF WriteDrained, CtlType
  <2> QED BY <1>4, <2>1, TypeParts DEF WriteDrained, LineType, BuildType, ReceiveType
<1>5. ASSUME SilenceExpires PROVE TypeOK' /\ ActiveReal'
  <2>1. CtlType' /\ ReceiveType' /\ CallType' /\ ActiveReal'
    BY <1>3, <1>5 DEF SilenceExpires, BuildType
  <2> QED BY <1>5, <2>1, TypeParts
          DEF SilenceExpires, io, LineType, BuildType, ReceiveType
<1> QED BY <1>1, <1>2, <1>4, <1>5

LEMMA CallActionsType ==
  ASSUME TypeOK, ActiveReal, OpenCallOK
  PROVE  /\ \A k \in Kinds : Execute(k) => TypeOK' /\ ActiveReal'
         /\ Proceed => TypeOK' /\ ActiveReal'
         /\ OpenedForRequest => TypeOK' /\ ActiveReal'
         /\ NotOpenedForRequest => TypeOK' /\ ActiveReal'
<1>0. CtlType /\ LineType /\ BuildType /\ ReceiveType /\ CallType
  BY TypeParts
<1>c. ConnOK(conn)
  BY <1>0 DEF LineType
<1>1. ASSUME NEW k \in Kinds, Execute(k) PROVE TypeOK' /\ ActiveReal'
  <2>1. /\ UNCHANGED <<req, io, conn, aborted, resends, writes, extractor,
                       expected, drained>>
        /\ calls' = calls + 1 /\ calls < MaxCalls
    BY <1>1 DEF Execute
  <2>2. LineType' /\ BuildType' /\ ReceiveType'
    BY <1>0, <2>1 DEF req, io, LineType, BuildType, ReceiveType
  <2>3. calls' \in 0 .. MaxCalls /\ calls + 1 \in Calls
    BY <1>0, <2>1, BoundsAssumption DEF CallType, Calls
  <2>4. CASE \E result \in {"Busy", "Aborted"}, n \in {0, attempts} :
               /\ TurnAway(calls + 1, result, n)
               /\ reqState' \in {reqState, Req!TryTransition(reqState, "Aborted")}
               /\ UNCHANGED <<locked, blocked, calling>>
    <3>1. answers' \in [Calls -> Nat] /\ reply' \in Replies
      BY <1>0, <2>3, <2>4, TurnAwayType DEF CtlType, ReceiveType, Failures
    <3>2. reqState' \in RequestStates
      BY <1>0, <2>4, ReqType DEF CtlType, RequestStates
    <3>3. CtlType'
      BY <1>0, <2>4, <3>1, <3>2 DEF CtlType, AnswerType, TurnAway
    <3>4. CallType' /\ ActiveReal'
      BY <1>0, <2>1, <2>3, <2>4 DEF CallType, ActiveReal, TurnAway, req
    <3> QED BY <2>2, <3>3, <3>4, TypeParts
  <2>5. CASE /\ locked' = TRUE
             /\ blocked' = "starting"
             /\ calling' = k
             /\ UNCHANGED <<reqState, callback, txTimer, silence, answers, reply>>
    <3>1. CtlType'
      BY <1>0, <2>5 DEF CtlType, AnswerType
    <3>2. CallType' /\ ActiveReal'
      BY <1>0, <2>1, <2>3, <2>5 DEF CallType, ActiveReal, req
    <3> QED BY <2>2, <3>1, <3>2, TypeParts
  <2> QED BY <1>1, <2>4, <2>5 DEF Execute
<1>2. ASSUME NEW c, ConnOK(c), StartRequest(c), Starting,
             blocked' = "no", calling' = NoCall, aborted' \in BOOLEAN,
             UNCHANGED <<calls, resends>>
      PROVE  TypeOK' /\ ActiveReal'
  <2>1. /\ CtlType' /\ LineType' /\ BuildType' /\ ReceiveType' /\ ActiveReal'
        /\ active' \in Requests \cup {NoRequest}
        /\ maxRetries' \in Int
    BY <1>0, <1>2, StartRequestType DEF OpenCallOK
  <2>2. CallType'
    BY <1>0, <1>2, <2>1 DEF CallType
  <2> QED BY <2>1, <2>2, TypeParts
<1>3. ASSUME Proceed PROVE TypeOK' /\ ActiveReal'
  <2>1. CASE conn.open
    <3>1. ConnOK([conn EXCEPT !.state = FastPath(@)])
      BY <1>c, ConnectionTypes
    <3> QED BY <1>2, <1>3, <2>1, <3>1 DEF Proceed, Starting
  <2>2. CASE ~conn.open
    <3>1. ConnOK(conn')
      BY <1>3, <1>c, <2>2, ConnectionTypes DEF Proceed
    <3>2. CtlType' /\ LineType' /\ BuildType' /\ ReceiveType' /\ ActiveReal'
      BY <1>0, <1>3, <2>2, <3>1
      DEF Proceed, ctl, req, io, CtlType, AnswerType, LineType, BuildType,
          ReceiveType, ActiveReal
    <3>3. CallType'
      BY <1>0, <1>3, <2>2 DEF Proceed, req, CallType
    <3> QED BY <3>2, <3>3, TypeParts
  <2> QED BY <2>1, <2>2
<1>4. ASSUME OpenedForRequest PROVE TypeOK' /\ ActiveReal'
  <2>1. ConnOK(Opened(conn))
    BY <1>c, ConnectionTypes
  <2>2. aborted' \in BOOLEAN
    BY <1>0, <1>4 DEF OpenedForRequest, CallType
  <2> QED BY <1>2, <1>4, <2>1, <2>2 DEF OpenedForRequest, Starting
<1>5. ASSUME NotOpenedForRequest PROVE TypeOK' /\ ActiveReal'
  <2>1. ConnOK(conn')
    BY <1>5, <1>c, ConnectionTypes DEF NotOpenedForRequest
  <2>2. calls \in Calls
    BY <1>5 DEF NotOpenedForRequest, OpenCallOK, Starting
  <2>3. answers' \in [Calls -> Nat] /\ reply' \in Replies
    BY <1>0, <1>5, <2>2, TurnAwayType DEF NotOpenedForRequest, CtlType, Failures
  <2>4. reqState' \in RequestStates
    BY <1>0, <1>5, ReqType DEF NotOpenedForRequest, CtlType, RequestStates
  <2>5. CtlType'
    BY <1>0, <1>5, <2>3, <2>4 DEF NotOpenedForRequest, TurnAway, CtlType, AnswerType
  <2>6. LineType' /\ BuildType' /\ ReceiveType' /\ CallType' /\ ActiveReal'
    BY <1>0, <1>5, <2>1
    DEF NotOpenedForRequest, TurnAway, req, io, LineType, BuildType, ReceiveType,
        CallType, ActiveReal
  <2> QED BY <2>5, <2>6, TypeParts
<1> QED BY <1>1, <1>3, <1>4, <1>5

LEMMA PostedActionsType ==
  ASSUME TypeOK, ActiveReal
  PROVE  /\ \A r \in resends : ResendFires(r) => TypeOK' /\ ActiveReal'
         /\ \A adu \in writes : WindowOpens(adu) => TypeOK' /\ ActiveReal'
         /\ TimeoutFires => TypeOK' /\ ActiveReal'
<1>0. CtlType /\ LineType /\ BuildType /\ ReceiveType /\ CallType
  BY TypeParts
<1>c. ConnOK(conn)
  BY <1>0 DEF LineType
<1>1. ASSUME NEW r \in resends, ResendFires(r) PROVE TypeOK' /\ ActiveReal'
  <2>1. active' \in Requests /\ attempts' \in Nat
    BY <1>0, <1>1 DEF ResendFires, req, ActiveReal, ReceiveType
  <2>2. CtlType' /\ LineType' /\ BuildType'
    <3>1. reqState \in RequestStates /\ callback \in BOOLEAN
      BY <1>0 DEF CtlType, AnswerType
    <3> QED BY <1>0, <1>1, <1>c, <2>1, <3>1, SendCurrentRequestType DEF ResendFires
  <2>3. ReceiveType'
    BY <1>0, <1>1, <2>1, <2>2 DEF ResendFires, ReceiveType, LineType, BuildType
  <2>4. CallType' /\ ActiveReal'
    BY <1>0, <1>1, <2>1 DEF ResendFires, req, call, CallType, ActiveReal
  <2> QED BY <2>2, <2>3, <2>4, TypeParts
<1>2. ASSUME NEW adu \in writes, WindowOpens(adu) PROVE TypeOK' /\ ActiveReal'
  <2>1. active' \in Requests /\ attempts' \in Nat /\ adu \in Adus
    BY <1>0, <1>2 DEF WindowOpens, req, ActiveReal, ReceiveType, BuildType
  <2>2. CtlType' /\ LineType'
    <3>1. reqState \in RequestStates /\ callback \in BOOLEAN
      BY <1>0 DEF CtlType, AnswerType
    <3> QED BY <1>0, <1>2, <1>c, <2>1, <3>1, PerformWriteType DEF WindowOpens
  <2>3. BuildType' /\ ReceiveType'
    BY <1>0, <1>2, <2>1, <2>2 DEF WindowOpens, req, BuildType, ReceiveType, LineType
  <2>4. CallType' /\ ActiveReal'
    BY <1>0, <1>2, <2>1 DEF WindowOpens, req, call, CallType, ActiveReal
  <2> QED BY <2>2, <2>3, <2>4, TypeParts
<1>3. ASSUME TimeoutFires PROVE TypeOK' /\ ActiveReal'
  <2>1. active \in Requests /\ UNCHANGED active
    BY <1>3 DEF TimeoutFires, ActiveReal
  <2>2. /\ AnswerType'
        /\ reqState' \in RequestStates
        /\ attempts' \in Nat
        /\ resends' \subseteq [id : Calls, attempt : Nat]
    <3>1. RetryOrFail("Timeout", 0, Req!TryTransition(reqState, "Failed"))
      BY <1>3 DEF TimeoutFires
    <3>2. Req!TryTransition(reqState, "Failed") \in RequestStates
      BY <1>0, ReqType DEF CtlType, RequestStates
    <3>3. "Timeout" \in Failures /\ 0 \in 0 .. MaxCalls
      BY BoundsAssumption DEF Failures
    <3> QED BY <1>0, <2>1, <3>1, <3>2, <3>3, RetryOrFailType DEF ReceiveType
  <2>3. silence' \in BOOLEAN /\ txTimer' \in BOOLEAN
    BY <1>0, <1>3 DEF TimeoutFires, CtlType
  <2>4. ConnOK(conn')
    BY <1>3, <1>c, ConnectionTypes DEF TimeoutFires
  <2>5. LineType' /\ BuildType' /\ ReceiveType' /\ CallType' /\ ActiveReal'
    BY <1>0, <1>3, <2>1, <2>2, <2>4
    DEF TimeoutFires, DropTraffic, call, LineType, BuildType, ReceiveType, CallType,
        ActiveReal
  <2> QED BY <2>2, <2>3, <2>5, TypeParts DEF CtlType
<1> QED BY <1>1, <1>2, <1>3

\* abort() and channel errors complete the open call, if there is one.
LEMMA CompletionType ==
  ASSUME CtlType, ReceiveType, ActiveReal, NEW result \in Failures, UNCHANGED req,
         IF callback THEN Release(result, 0, TRUE)
         ELSE UNCHANGED <<locked, callback, answers, reply>>
  PROVE  AnswerType'
<1>1. CASE callback
  <2>1. active'.id \in Calls /\ attempts' \in Nat /\ 0 \in 0 .. MaxCalls
    BY <1>1, BoundsAssumption DEF ActiveReal, Requests, req, ReceiveType
  <2> QED BY <1>1, <2>1, ReleaseType DEF CtlType
<1>2. CASE ~callback
  BY <1>2 DEF CtlType, AnswerType
<1> QED BY <1>1, <1>2

LEMMA ChannelActionsType ==
  ASSUME TypeOK, ActiveReal
  PROVE  /\ ChannelError => TypeOK' /\ ActiveReal'
         /\ ChannelLost => TypeOK' /\ ActiveReal'
         /\ SendRaw => TypeOK' /\ ActiveReal'
         /\ Abort => TypeOK' /\ ActiveReal'
         /\ RequestDisconnect => TypeOK' /\ ActiveReal'
<1>0. CtlType /\ LineType /\ BuildType /\ ReceiveType /\ CallType
  BY TypeParts
<1>c. ConnOK(conn)
  BY <1>0 DEF LineType
<1>1. ASSUME ChannelError PROVE TypeOK' /\ ActiveReal'
  <2>1. AnswerType'
    <3>1. Release("ConnectionFailed", 0, TRUE) /\ UNCHANGED req /\ callback
      BY <1>1 DEF ChannelError, CompleteTransaction
    <3> QED BY <1>0, <3>1, CompletionType DEF Failures
  <2>2. reqState' \in RequestStates
    BY <1>0, <1>1, SettledType DEF ChannelError, CtlType
  <2>3. CtlType'
    BY <1>1, <2>1, <2>2 DEF ChannelError, CompleteTransaction, StopTimers, CtlType
  <2>4. LineType' /\ BuildType' /\ ReceiveType' /\ CallType' /\ ActiveReal'
    BY <1>0, <1>1
    DEF ChannelError, req, call, io, LineType, BuildType, ReceiveType, CallType,
        ActiveReal
  <2> QED BY <2>3, <2>4, TypeParts
<1>2. ASSUME ChannelLost PROVE TypeOK' /\ ActiveReal'
  <2>1. ConnOK(conn')
    BY <1>2, <1>c, LoseChannelType DEF ChannelLost
  <2>2. /\ CtlType' /\ LineType' /\ BuildType' /\ ReceiveType' /\ CallType'
        /\ ActiveReal'
    BY <1>0, <1>2, <2>1
    DEF ChannelLost, DropTraffic, ctl, req, call, CtlType, AnswerType, LineType,
        BuildType, ReceiveType, CallType, ActiveReal
  <2> QED BY <2>2, TypeParts
<1>5. ASSUME SendRaw PROVE TypeOK' /\ ActiveReal'
  <2>1. ConnOK(conn')
    BY <1>5, <1>c, LoseChannelType DEF SendRaw
  <2>2. /\ CtlType' /\ LineType' /\ BuildType' /\ ReceiveType' /\ CallType'
        /\ ActiveReal'
    BY <1>0, <1>5, <2>1
    DEF SendRaw, DropTraffic, ctl, req, call, CtlType, AnswerType, LineType,
        BuildType, ReceiveType, CallType, ActiveReal
  <2> QED BY <2>2, TypeParts
<1>3. ASSUME Abort PROVE TypeOK' /\ ActiveReal'
  <2>1. AnswerType'
    BY <1>0, <1>3, CompletionType DEF Abort, Failures
  <2>2. reqState' \in RequestStates
    BY <1>0, <1>3, AbortedStateType DEF Abort, CtlType
  <2>3. CtlType'
    BY <1>3, <2>1, <2>2 DEF Abort, StopTimers, CtlType
  <2>4. ConnOK(conn')
    BY <1>3, <1>c DEF Abort, ConnOK, ConnectionStates
  <2>5. LineType' /\ BuildType' /\ ReceiveType' /\ CallType'
    BY <1>0, <1>3, <2>4
    DEF Abort, req, call, io, LineType, BuildType, ReceiveType, CallType
  <2>6. ActiveReal'
    BY <1>3 DEF Abort, StopTimers, Release, req, ActiveReal
  <2> QED BY <2>3, <2>5, <2>6, TypeParts
<1>4. ASSUME RequestDisconnect PROVE TypeOK' /\ ActiveReal'
  <2>1. UNCHANGED <<req, call, nextSeq, sent, resends, writes>>
    BY <1>4 DEF RequestDisconnect
  <2>2. AnswerType'
    <3>1. CASE callback
      <4>1. active.id \in Calls /\ active.id \in 0 .. MaxCalls /\ 0 \in 0 .. MaxCalls
        BY <3>1, BoundsAssumption DEF ActiveReal, Requests, Calls
      <4>2. ReportedAttempts("Aborted", attempts) \in Nat
        BY <1>0, ReportedAttemptsType DEF ReceiveType
      <4>3. reply' \in Replies
        BY <1>4, <3>1, <4>1, <4>2 DEF RequestDisconnect, Answer, Replies, Failures
      <4>4. answers' \in [Calls -> Nat]
        BY <1>0, <1>4, <3>1, <4>1 DEF RequestDisconnect, Answer, CtlType, AnswerType
      <4> QED BY <1>4, <4>3, <4>4 DEF RequestDisconnect, AnswerType
    <3>2. CASE ~callback
      BY <1>0, <1>4, <3>2 DEF RequestDisconnect, CtlType, AnswerType
    <3> QED BY <3>1, <3>2
  <2>3. reqState' \in RequestStates
    <3>1. AbortedState \in RequestStates /\ "Idle" \in RequestStates
      BY <1>0, AbortedStateType DEF CtlType, RequestStates
    <3> QED BY <1>4, <3>1, ReqType DEF RequestDisconnect
  <2>4. CtlType'
    BY <1>4, <2>2, <2>3 DEF RequestDisconnect, StopTimers, CtlType
  <2>5. ConnOK(conn')
    BY <1>4, <1>c DEF RequestDisconnect, ConnOK, ConnectionStates
  <2>6. LineType' /\ BuildType' /\ ReceiveType'
    <3>1. CASE conn.open
      BY <1>0, <1>4, <2>1, <2>5, <3>1, EmptyExtractorType
      DEF RequestDisconnect, DropTraffic, req, LineType, BuildType, ReceiveType
    <3>2. CASE ~conn.open
      BY <1>0, <1>4, <2>1, <2>5, <3>2
      DEF RequestDisconnect, req, LineType, BuildType, ReceiveType
    <3> QED BY <3>1, <3>2
  <2>7. CallType'
    BY <1>0, <1>4, <2>1 DEF RequestDisconnect, req, call, CallType
  <2>8. ActiveReal'
    BY <1>4, <2>1 DEF RequestDisconnect, StopTimers, req, ActiveReal
  <2> QED BY <2>4, <2>6, <2>7, <2>8, TypeParts
<1> QED BY <1>1, <1>2, <1>3, <1>4, <1>5

LEMMA ClientActionsType ==
  ASSUME TypeOK, ActiveReal
  PROVE  /\ Connect => TypeOK' /\ ActiveReal'
         /\ OpenedForConnect => TypeOK' /\ ActiveReal'
         /\ NotOpenedForConnect => TypeOK' /\ ActiveReal'
         /\ \A changed \in BOOLEAN : SetConfig(changed) => TypeOK' /\ ActiveReal'
<1>0. CtlType /\ LineType /\ BuildType /\ ReceiveType /\ CallType
  BY TypeParts
<1>c. ConnOK(conn)
  BY <1>0 DEF LineType
<1>1. ASSUME NEW ab, ClearRuntimeState(reqState, callback, ab), UNCHANGED <<active, attempts>>,
             ConnOK(conn'), wire' \subseteq wire, unsent' \in {FALSE, unsent},
             UNCHANGED <<nextSeq, sent, resends, writes>>
      PROVE  CtlType' /\ LineType' /\ BuildType' /\ ReceiveType' /\ ActiveReal'
  <2>1. /\ CtlType'
        /\ extractor' \in [frames : Seq(Frames), partial : Frames, over : BOOLEAN]
        /\ expected' \subseteq Adus
        /\ drained' \in BOOLEAN
    <3>1. /\ callback => active \in Requests
          /\ attempts' \in Nat
          /\ reqState \in RequestStates
      BY <1>0, <1>1 DEF ActiveReal, ReceiveType, CtlType
    <3> QED BY <1>0, <1>1, <3>1, ClearRuntimeStateType
  <2>2. LineType' /\ BuildType' /\ ReceiveType'
    BY <1>0, <1>1, <2>1 DEF LineType, BuildType, ReceiveType
  <2>3. ActiveReal'
    BY <1>1 DEF ClearRuntimeState, StopTimers, ActiveReal
  <2> QED BY <2>1, <2>2, <2>3
<1>2. ASSUME Connect PROVE TypeOK' /\ ActiveReal'
  <2>1. ConnOK(conn')
    BY <1>2, <1>c, ConnectionTypes DEF Connect
  <2>2. CallType'
    BY <1>0, <1>2 DEF Connect, req, CallType
  <2>3. CASE conn.open
    BY <1>1, <1>2, <2>1, <2>2, <2>3, TypeParts DEF Connect, req, io
  <2>4. CASE ~conn.open
    BY <1>0, <1>2, <2>1, <2>2, <2>4, TypeParts
    DEF Connect, ctl, req, io, CtlType, AnswerType, LineType, BuildType, ReceiveType,
        ActiveReal
  <2> QED BY <2>3, <2>4
<1>3. ASSUME OpenedForConnect PROVE TypeOK' /\ ActiveReal'
  <2>1. ConnOK(conn')
    BY <1>3, <1>c, ConnectionTypes DEF OpenedForConnect
  <2>2. CallType'
    BY <1>0, <1>3 DEF OpenedForConnect, req, CallType
  <2> QED BY <1>1, <1>3, <2>1, <2>2, TypeParts DEF OpenedForConnect, req, io
<1>4. ASSUME NotOpenedForConnect PROVE TypeOK' /\ ActiveReal'
  <2>1. ConnOK(conn')
    BY <1>4, <1>c, ConnectionTypes DEF NotOpenedForConnect
  <2>2. /\ CtlType' /\ LineType' /\ BuildType' /\ ReceiveType' /\ CallType'
        /\ ActiveReal'
    BY <1>0, <1>4, <2>1
    DEF NotOpenedForConnect, ctl, req, io, CtlType, AnswerType, LineType, BuildType,
        ReceiveType, CallType, ActiveReal
  <2> QED BY <2>2, TypeParts
<1>5. ASSUME NEW changed \in BOOLEAN, SetConfig(changed) PROVE TypeOK' /\ ActiveReal'
  <2>1. UNCHANGED <<active, attempts, call, nextSeq, sent, resends, writes>>
    BY <1>5 DEF SetConfig
  <2>2. CallType'
    <3>1. maxRetries' \in Int
      BY <1>5, ConfigAssumption DEF SetConfig
    <3>2. aborted' \in BOOLEAN
      BY <1>0, <1>5 DEF SetConfig, Disconnect, CallType
    <3> QED BY <1>0, <2>1, <3>1, <3>2 DEF call, CallType
  <2>3. CASE changed /\ conn.open
    <3>1. Disconnect(reqState, callback)
      BY <1>5, <2>3 DEF SetConfig
    <3>2. ConnOK(conn')
      BY <1>c, <3>1, ConnectionTypes DEF Disconnect
    <3> QED BY <1>1, <2>1, <2>2, <3>1, <3>2, TypeParts DEF Disconnect, DropTraffic
  <2>4. CASE ~(changed /\ conn.open)
    BY <1>0, <1>5, <2>2, <2>4, EmptyExtractorType, TypeParts
    DEF SetConfig, ctl, CtlType, AnswerType, LineType, BuildType, ReceiveType,
        ActiveReal
  <2> QED BY <2>3, <2>4
<1> QED BY <1>2, <1>3, <1>4, <1>5

-----------------------------------------------------------------------------
(* The open call, the lock and the answers.  Each lemma also says which     *)
(* step of RequestService the action takes.                                 *)

CallInv == OpenCallOK /\ LockMeansOpenCall /\ AnsweredExactlyOnce

ServiceStep == Service!Next \/ UNCHANGED Service!vars

\* A step of the open call, or no step of it.
LEMMA OutcomeStep ==
  ASSUME CtlType, ActiveReal, CallInv, calls \in 0 .. MaxCalls,
         UNCHANGED <<calls, active>>, Starting' <=> Starting,
         Starting => UNCHANGED <<locked, callback, answers>>,
         Outcome(callback)
  PROVE  CallInv' /\ ServiceStep
<1>1. CASE UNCHANGED <<locked, callback, answers>>
  <2>1. OpenCallOK'
    BY <1>1 DEF CallInv, OpenCallOK
  <2>2. LockMeansOpenCall'
    BY <1>1 DEF CallInv, LockMeansOpenCall
  <2>3. AnsweredExactlyOnce'
    BY <1>1 DEF CallInv, AnsweredExactlyOnce, Open
  <2>4. UNCHANGED Service!vars
    BY <1>1 DEF Service!vars
  <2> QED BY <2>1, <2>2, <2>3, <2>4 DEF CallInv, ServiceStep
<1>2. CASE /\ locked' = FALSE
           /\ callback' = FALSE
           /\ answers' = [answers EXCEPT ![active.id] = @ + 1]
           /\ callback /\ ~Starting
  <2>1. active.id \in Calls /\ active.id <= calls
    BY <1>2 DEF ActiveReal, Requests, CallInv, OpenCallOK
  <2>2. OpenCallOK' /\ LockMeansOpenCall'
    BY <1>2 DEF OpenCallOK, LockMeansOpenCall
  <2>3. AnsweredExactlyOnce'
    <3>1. ASSUME NEW i \in Calls
          PROVE  answers'[i] = IF i <= calls THEN 1 ELSE 0
      BY <1>2, <2>1 DEF CallInv, AnsweredExactlyOnce, Open, CtlType, AnswerType
    <3> QED BY <1>2, <3>1 DEF AnsweredExactlyOnce, Open
  <2>4. Service!AnswerCurrent
    BY <1>2, <2>1 DEF Service!AnswerCurrent, Service!NoCall, Calls
  <2> QED BY <2>2, <2>3, <2>4 DEF CallInv, ServiceStep, Service!Next
<1>3. CASE /\ locked' = FALSE /\ callback' = FALSE /\ answers' = answers
           /\ ~callback /\ ~Starting
  <2>1. OpenCallOK' /\ LockMeansOpenCall'
    BY <1>3 DEF OpenCallOK, LockMeansOpenCall
  <2>2. AnsweredExactlyOnce'
    BY <1>3 DEF CallInv, AnsweredExactlyOnce, Open
  <2>3. UNCHANGED Service!vars
    BY <1>3 DEF Service!vars
  <2> QED BY <2>1, <2>2, <2>3 DEF CallInv, ServiceStep
<1>4. callback \in BOOLEAN
  BY DEF CtlType, AnswerType
<1>5. CASE Starting
  BY <1>1, <1>5
<1>6. CASE ~Starting
  BY <1>1, <1>2, <1>3, <1>4, <1>6 DEF Outcome
<1> QED BY <1>5, <1>6

\* executeAsync() refuses a call, or opens one.
LEMMA ExecuteStep ==
  ASSUME SessionInv, NEW k \in Kinds, Execute(k)
  PROVE  CallInv' /\ ServiceStep
<1>0. /\ calls \in 0 .. MaxCalls
      /\ calls < MaxCalls
      /\ calls' = calls + 1
      /\ blocked = "no"
      /\ UNCHANGED active
      /\ calls + 1 \in Calls
      /\ answers \in [Calls -> Nat]
  BY BoundsAssumption DEF SessionInv, TypeOK, Execute, req, Calls
<1>1. ~Starting
  BY <1>0 DEF Starting
<1>2. CASE /\ answers' = [answers EXCEPT ![calls + 1] = @ + 1]
           /\ UNCHANGED <<callback, locked, blocked>>
  <2>1. ~Starting'
    BY <1>1, <1>2 DEF Starting
  <2>2. OpenCallOK'
    BY <1>0, <1>2, <2>1 DEF SessionInv, OpenCallOK, ActiveReal, Requests, Calls
  <2>3. LockMeansOpenCall'
    BY <1>1, <1>2, <2>1 DEF SessionInv, LockMeansOpenCall
  <2>4. AnsweredExactlyOnce'
    <3>1. ASSUME NEW i \in Calls
          PROVE  answers'[i] = IF i <= calls + 1 /\ ~(callback /\ i = active.id) THEN 1 ELSE 0
      <4>1. callback => active.id < calls + 1
        BY <1>0 DEF SessionInv, OpenCallOK, ActiveReal, Requests, Calls
      <4>2. answers[i] = IF i <= calls /\ ~(callback /\ i = active.id) THEN 1 ELSE 0
        BY <1>1 DEF SessionInv, AnsweredExactlyOnce, Open
      <4>3. CASE i = calls + 1
        BY <1>0, <1>2, <4>1, <4>2, <4>3 DEF Calls
      <4>4. CASE i # calls + 1
        BY <1>0, <1>2, <4>2, <4>4 DEF Calls
      <4> QED BY <4>3, <4>4
    <3> QED BY <1>0, <1>2, <2>1, <3>1 DEF AnsweredExactlyOnce, Open
  <2>5. Service!TurnAway
    BY <1>0, <1>1, <1>2, <2>1 DEF Service!TurnAway
  <2> QED BY <2>2, <2>3, <2>4, <2>5 DEF CallInv, ServiceStep, Service!Next
<1>3. CASE /\ ~locked
           /\ locked' = TRUE
           /\ blocked' = "starting"
           /\ UNCHANGED <<callback, answers>>
  <2>1. Starting' /\ ~callback
    BY <1>3 DEF Starting, SessionInv, LockMeansOpenCall
  <2>2. OpenCallOK'
    BY <1>0, <1>3, <2>1 DEF OpenCallOK
  <2>3. LockMeansOpenCall'
    BY <1>3, <2>1 DEF LockMeansOpenCall
  <2>4. AnsweredExactlyOnce'
    <3>1. ASSUME NEW i \in Calls
          PROVE  answers[i] = IF i <= calls THEN 1 ELSE 0
      BY <1>1, <2>1 DEF SessionInv, AnsweredExactlyOnce, Open
    <3>2. \A i \in Calls : i <= calls + 1 /\ i # calls + 1 <=> i <= calls
      BY <1>0 DEF Calls
    <3> QED BY <1>0, <1>3, <2>1, <3>1, <3>2 DEF AnsweredExactlyOnce, Open
  <2>5. Service!Take
    BY <1>0, <1>1, <1>3, <2>1 DEF Service!Take, Service!NoCall
  <2> QED BY <2>2, <2>3, <2>4, <2>5 DEF CallInv, ServiceStep, Service!Next
<1> QED BY <1>2, <1>3 DEF Execute, TurnAway, Answer

\* The call that executeAsync() opened becomes the active request or ends.
LEMMA StartStep ==
  ASSUME SessionInv, Starting, blocked' = "no", UNCHANGED calls,
         \/ /\ Outcome(TRUE)
            /\ active'.id = calls
         \/ /\ locked' = FALSE
            /\ UNCHANGED <<callback, active>>
            /\ answers' = [answers EXCEPT ![calls] = @ + 1]
  PROVE  CallInv' /\ ServiceStep
<1>0. /\ calls \in Calls
      /\ callback = FALSE
      /\ locked
      /\ answers \in [Calls -> Nat]
  BY DEF SessionInv, TypeOK, OpenCallOK, LockMeansOpenCall
<1>1. ~Starting'
  BY DEF Starting
<1>2. \A i \in Calls : answers[i] = IF i <= calls /\ i # calls THEN 1 ELSE 0
  BY <1>0 DEF SessionInv, AnsweredExactlyOnce, Open
<1>3. CASE /\ locked' = FALSE
           /\ callback' = FALSE
           /\ answers' = [answers EXCEPT ![calls] = @ + 1]
  <2>1. OpenCallOK' /\ LockMeansOpenCall'
    BY <1>1, <1>3 DEF OpenCallOK, LockMeansOpenCall
  <2>2. \A i \in Calls : answers'[i] = IF i <= calls THEN 1 ELSE 0
    BY <1>0, <1>2, <1>3 DEF Calls
  <2>3. AnsweredExactlyOnce'
    BY <1>1, <1>3, <2>2 DEF AnsweredExactlyOnce, Open
  <2>4. Service!AnswerCurrent
    BY <1>0, <1>1, <1>3 DEF Service!AnswerCurrent, Service!NoCall, Calls
  <2> QED BY <2>1, <2>3, <2>4 DEF CallInv, ServiceStep, Service!Next
<1>4. CASE /\ callback' = TRUE
           /\ UNCHANGED <<locked, answers>>
           /\ active'.id = calls
  <2>1. OpenCallOK'
    BY <1>0, <1>1, <1>4 DEF OpenCallOK, Calls
  <2>2. LockMeansOpenCall'
    BY <1>0, <1>4 DEF LockMeansOpenCall, SessionInv, TypeOK
  <2>3. AnsweredExactlyOnce'
    BY <1>1, <1>2, <1>4 DEF AnsweredExactlyOnce, Open
  <2>4. UNCHANGED Service!vars
    BY <1>0, <1>4 DEF Service!vars
  <2> QED BY <2>1, <2>2, <2>3, <2>4 DEF CallInv, ServiceStep
<1>5. CASE Outcome(TRUE) /\ active'.id = calls
  BY <1>3, <1>4, <1>5 DEF Outcome
<1>6. CASE /\ locked' = FALSE
           /\ UNCHANGED <<callback, active>>
           /\ answers' = [answers EXCEPT ![calls] = @ + 1]
  BY <1>0, <1>3, <1>6
<1> QED BY <1>5, <1>6

LEMMA StartRequestStep ==
  ASSUME SessionInv, Starting, blocked' = "no", UNCHANGED calls,
         NEW c, StartRequest(c)
  PROVE  CallInv' /\ ServiceStep
<1>1. CASE TurnAway(calls, "InvalidPdu", 0) /\ locked' = FALSE /\ UNCHANGED req
  BY <1>1, StartStep DEF TurnAway, Answer, req
<1>2. CASE /\ active' = [id |-> calls, fc |-> calling.fc, slave |-> calling.slave]
           /\ SendCurrentRequest(c, Req!TryTransition(reqState, "Idle"), TRUE)
  BY <1>2, StartStep, SendCurrentRequestOutcome
<1> QED BY <1>1, <1>2 DEF StartRequest

LEMMA CallActionsStep ==
  ASSUME SessionInv
  PROVE  /\ Proceed => CallInv' /\ ServiceStep
         /\ OpenedForRequest => CallInv' /\ ServiceStep
         /\ NotOpenedForRequest => CallInv' /\ ServiceStep
<1>1. ASSUME Proceed PROVE CallInv' /\ ServiceStep
  <2>1. CASE conn.open
    <3>1. Starting /\ blocked' = "no" /\ UNCHANGED calls
      BY <1>1, <2>1 DEF Proceed, Starting
    <3>2. StartRequest([conn EXCEPT !.state = FastPath(@)])
      BY <1>1, <2>1 DEF Proceed
    <3> QED BY <3>1, <3>2, StartRequestStep
  <2>2. CASE ~conn.open
    <3>1. /\ Starting /\ Starting'
          /\ UNCHANGED <<calls, active, locked, callback, answers>>
      BY <1>1, <2>2 DEF Proceed, Starting, ctl, req
    <3>2. Outcome(callback)
      BY <3>1 DEF Outcome
    <3> QED BY <3>1, <3>2, OutcomeStep, TypeParts DEF SessionInv, CallInv, CallType
  <2> QED BY <2>1, <2>2
<1>2. ASSUME OpenedForRequest PROVE CallInv' /\ ServiceStep
  <2>1. /\ Starting /\ blocked' = "no" /\ UNCHANGED calls
        /\ StartRequest(Opened(conn))
    BY <1>2 DEF OpenedForRequest, Starting
  <2> QED BY <2>1, StartRequestStep
<1>3. ASSUME NotOpenedForRequest PROVE CallInv' /\ ServiceStep
  BY <1>3, StartStep DEF NotOpenedForRequest, TurnAway, Answer, req, Starting
<1> QED BY <1>1, <1>2, <1>3

\* The steps of the event loop and of the client: the open call is completed
\* or left alone.
LEMMA HandlerStep ==
  ASSUME SessionInv,
         \/ \E r \in resends : ResendFires(r)
         \/ \E adu \in writes : WindowOpens(adu)
         \/ \E adu \in wire, status \in Statuses : DeviceAnswers(adu, status)
         \/ LineNoise \/ WriteDrained \/ SilenceExpires
         \/ TimeoutFires \/ ChannelError
         \/ RequestDisconnect \/ OpenedForConnect
         \/ \E changed \in BOOLEAN : SetConfig(changed)
  PROVE  CallInv' /\ ServiceStep
<1>0. CtlType /\ ActiveReal /\ CallInv /\ calls \in 0 .. MaxCalls /\ callback \in BOOLEAN
  BY TypeParts DEF SessionInv, CallInv, CallType, CtlType, AnswerType
<1>1. ASSUME UNCHANGED <<calls, active>>, ~Starting, ~Starting', Outcome(callback)
      PROVE  CallInv' /\ ServiceStep
  BY <1>0, <1>1, OutcomeStep
<1>2. ASSUME NEW r \in resends, ResendFires(r) PROVE CallInv' /\ ServiceStep
  <2>1. Outcome(callback)
    BY <1>0, <1>2, SendCurrentRequestOutcome DEF ResendFires
  <2> QED BY <1>1, <1>2, <2>1 DEF ResendFires, req, call, Starting
<1>3. ASSUME NEW adu \in writes, WindowOpens(adu) PROVE CallInv' /\ ServiceStep
  <2>1. Outcome(callback)
    BY <1>0, <1>3, PerformWriteOutcome DEF WindowOpens
  <2> QED BY <1>1, <1>3, <2>1 DEF WindowOpens, req, call, Starting
<1>4. ASSUME NEW ex, Received(ex), blocked = "no" PROVE CallInv' /\ ServiceStep
  <2>1. Outcome(callback)
    BY <1>0, <1>4, CheckPendingResponseOutcome DEF Received
  <2> QED BY <1>1, <1>4, <2>1 DEF Received, call, Starting
<1>5. ASSUME NEW adu \in wire, NEW status \in Statuses, DeviceAnswers(adu, status)
      PROVE  CallInv' /\ ServiceStep
  BY <1>4, <1>5 DEF DeviceAnswers
<1>6. ASSUME LineNoise PROVE CallInv' /\ ServiceStep
  BY <1>4, <1>6 DEF LineNoise
<1>7. ASSUME WriteDrained PROVE CallInv' /\ ServiceStep
  <2>1. Outcome(callback)
    <3>1. \E dr \in BOOLEAN : CheckPendingResponse(extractor, dr, silence)
      BY <1>7 DEF WriteDrained
    <3>2. UNCHANGED active
      BY <1>7 DEF WriteDrained
    <3> QED BY <1>0, <3>1, <3>2, CheckPendingResponseOutcome
  <2> QED BY <1>1, <1>7, <2>1 DEF WriteDrained, call, Starting
<1>8. ASSUME SilenceExpires PROVE CallInv' /\ ServiceStep
  <2>1. Outcome(callback)
    BY <1>0, <1>8, CheckPendingResponseOutcome DEF SilenceExpires
  <2> QED BY <1>1, <1>8, <2>1 DEF SilenceExpires, call, Starting
<1>9. ASSUME TimeoutFires PROVE CallInv' /\ ServiceStep
  <2>1. Outcome(callback)
    <3>1. RetryOrFail("Timeout", 0, Req!TryTransition(reqState, "Failed")) /\ UNCHANGED active
      BY <1>9 DEF TimeoutFires
    <3> QED BY <1>0, <3>1, RetryOrFailOutcome
  <2> QED BY <1>1, <1>9, <2>1 DEF TimeoutFires, call, Starting
<1>10. ASSUME ChannelError PROVE CallInv' /\ ServiceStep
  <2>1. Outcome(callback)
    <3>1. Release("ConnectionFailed", 0, TRUE) /\ callback = TRUE
      BY <1>0, <1>10 DEF ChannelError, CompleteTransaction
    <3> QED BY <3>1, ReleaseOutcome
  <2> QED BY <1>1, <1>10, <2>1 DEF ChannelError, req, call, Starting
<1>11. ASSUME RequestDisconnect PROVE CallInv' /\ ServiceStep
  <2>1. UNCHANGED <<calls, active, blocked>> /\ blocked = "no"
    BY <1>11 DEF RequestDisconnect, req, call
  <2>2. Outcome(callback)
    BY <1>11, <2>1 DEF RequestDisconnect, Answer, Outcome
  <2> QED BY <1>1, <2>1, <2>2 DEF Starting
<1>12. ASSUME OpenedForConnect PROVE CallInv' /\ ServiceStep
  <2>1. Outcome(callback)
    BY <1>0, <1>12, ClearRuntimeStateOutcome DEF OpenedForConnect
  <2> QED BY <1>1, <1>12, <2>1 DEF OpenedForConnect, req, Starting
<1>13. ASSUME NEW changed \in BOOLEAN, SetConfig(changed) PROVE CallInv' /\ ServiceStep
  <2>1. CASE changed /\ conn.open
    <3>1. ClearRuntimeState(reqState, callback, TRUE)
      BY <1>13, <2>1 DEF SetConfig, Disconnect
    <3>2. Outcome(callback)
      BY <1>0, <3>1, ClearRuntimeStateOutcome
    <3> QED BY <1>1, <1>13, <3>2 DEF SetConfig, call, Starting
  <2>2. CASE ~(changed /\ conn.open)
    <3>1. Outcome(callback)
      BY <1>13, <2>2 DEF SetConfig, ctl, Outcome
    <3> QED BY <1>1, <1>13, <3>1 DEF SetConfig, call, Starting
  <2> QED BY <2>1, <2>2
<1> QED BY <1>2, <1>3, <1>5, <1>6, <1>7, <1>8, <1>9, <1>10, <1>11, <1>12, <1>13

LEMMA OtherStep ==
  ASSUME SessionInv, ChannelLost \/ SendRaw \/ Connect \/ NotOpenedForConnect \/ Abort
  PROVE  CallInv' /\ ServiceStep
<1>0. CtlType /\ ActiveReal /\ CallInv /\ calls \in 0 .. MaxCalls /\ callback \in BOOLEAN
  BY TypeParts DEF SessionInv, CallInv, CallType, CtlType, AnswerType
<1>1. ASSUME UNCHANGED <<calls, active, locked, callback, answers>>, Starting' <=> Starting
      PROVE  CallInv' /\ ServiceStep
  BY <1>0, <1>1, OutcomeStep DEF Outcome
<1>2. ASSUME ChannelLost PROVE CallInv' /\ ServiceStep
  BY <1>1, <1>2 DEF ChannelLost, ctl, req, call, Starting
<1>6. ASSUME SendRaw PROVE CallInv' /\ ServiceStep
  BY <1>1, <1>6 DEF SendRaw, ctl, req, call, Starting
<1>3. ASSUME NotOpenedForConnect PROVE CallInv' /\ ServiceStep
  BY <1>1, <1>3 DEF NotOpenedForConnect, ctl, req, Starting
<1>4. ASSUME Connect PROVE CallInv' /\ ServiceStep
  <2>1. CASE conn.open
    <3>1. Outcome(callback)
      BY <1>0, <1>4, <2>1, ClearRuntimeStateOutcome DEF Connect
    <3> QED BY <1>0, <1>4, <2>1, <3>1, OutcomeStep DEF Connect, req, Starting
  <2>2. CASE ~conn.open
    BY <1>1, <1>4, <2>2 DEF Connect, ctl, req, Starting
  <2> QED BY <2>1, <2>2
<1>5. ASSUME Abort PROVE CallInv' /\ ServiceStep
  <2>1. UNCHANGED <<calls, active, blocked>>
    BY <1>5 DEF Abort, req, call
  <2>2. CASE callback
    <3>1. Release("Aborted", 0, TRUE) /\ ~Starting /\ callback = TRUE
      BY <1>0, <1>5, <2>2 DEF Abort, CallInv, OpenCallOK
    <3>2. Outcome(callback)
      BY <3>1, ReleaseOutcome
    <3> QED BY <1>0, <2>1, <3>1, <3>2, OutcomeStep DEF Starting
  <2>3. CASE ~callback
    BY <1>1, <1>5, <2>1, <2>3 DEF Abort, Starting
  <2> QED BY <2>2, <2>3
<1> QED BY <1>2, <1>3, <1>4, <1>5, <1>6

LEMMA SessionInvInit == Init => SessionInv
<1> SUFFICES ASSUME Init PROVE SessionInv
  OBVIOUS
<1>1. CtlType
  <2>1. 0 \in 0 .. MaxCalls
    BY BoundsAssumption
  <2>2. NoReply \in Replies
    BY <2>1 DEF NoReply, Replies
  <2> QED BY <2>2 DEF Init, CtlType, AnswerType, RequestStates
<1>6. ConnOK(conn)
  BY DEF Init, ConnOK, ConnectionStates
<1>7. LineType
  BY <1>6 DEF Init, LineType
<1>8. CallType
  <2>1. calls \in 0 .. MaxCalls /\ maxRetries \in Int
    BY BoundsAssumption DEF Init
  <2> QED BY <2>1 DEF Init, CallType
<1>2. BuildType /\ ReceiveType
  BY <1>6, EmptyExtractorType DEF Init, BuildType, ReceiveType
<1>3. ActiveReal
  BY DEF Init, ActiveReal
<1>4. OpenCallOK /\ LockMeansOpenCall
  BY DEF Init, OpenCallOK, LockMeansOpenCall, Starting
<1>5. AnsweredExactlyOnce
  BY BoundsAssumption DEF Init, AnsweredExactlyOnce, Calls
<1> QED BY <1>1, <1>2, <1>3, <1>4, <1>5, <1>7, <1>8, TypeParts DEF SessionInv

LEMMA SessionInvNext ==
  ASSUME SessionInv, [Next]_vars
  PROVE  SessionInv' /\ ServiceStep
<1>0. /\ TypeOK /\ ActiveReal /\ OpenCallOK
      /\ CtlType /\ LineType /\ BuildType /\ ReceiveType /\ CallType
  BY TypeParts DEF SessionInv
<1>1. ASSUME Next PROVE TypeOK' /\ ActiveReal'
  BY <1>0, <1>1, CallActionsType, ReceiveActionsType, PostedActionsType,
     ChannelActionsType, ClientActionsType DEF Next
<1>2. ASSUME Next PROVE CallInv' /\ ServiceStep
  BY <1>2, ExecuteStep, CallActionsStep, HandlerStep, OtherStep DEF Next
<1>3. ASSUME UNCHANGED vars PROVE SessionInv' /\ ServiceStep
  <2>1. CallInv' /\ ServiceStep
    <3>1. /\ UNCHANGED <<calls, active, locked, callback, answers>>
          /\ Starting' <=> Starting
          /\ Outcome(callback)
      BY <1>3 DEF vars, ctl, req, call, Starting, Outcome
    <3> QED BY <1>0, <3>1, OutcomeStep DEF SessionInv, CallInv, CallType
  <2>2. CtlType' /\ LineType' /\ BuildType' /\ ReceiveType' /\ CallType' /\ ActiveReal'
    BY <1>0, <1>3
    DEF vars, ctl, req, call, io, CtlType, AnswerType, LineType, BuildType,
        ReceiveType, CallType, ActiveReal
  <2> QED BY <2>1, <2>2, TypeParts DEF SessionInv, CallInv
<1> QED BY <1>1, <1>2, <1>3 DEF SessionInv, CallInv

\* Type correctness of a session, for every configuration and request.
THEOREM TypeCorrect == Spec => []TypeOK
<1>1. SessionInv /\ [Next]_vars => SessionInv'
  BY SessionInvNext
<1>2. SessionInv => TypeOK
  BY DEF SessionInv
<1> QED BY SessionInvInit, <1>1, <1>2, PTL DEF Spec

\* executeAsync() gives its lock back on every path.
THEOREM LockDiscipline == Spec => []LockMeansOpenCall
<1>1. SessionInv /\ [Next]_vars => SessionInv'
  BY SessionInvNext
<1>2. SessionInv => LockMeansOpenCall
  BY DEF SessionInv
<1> QED BY SessionInvInit, <1>1, <1>2, PTL DEF Spec

\* Each executeAsync() call is answered exactly once.
THEOREM ExactlyOnce == Spec => []AnsweredExactlyOnce
<1>1. SessionInv /\ [Next]_vars => SessionInv'
  BY SessionInvNext
<1>2. SessionInv => AnsweredExactlyOnce
  BY DEF SessionInv
<1> QED BY SessionInvInit, <1>1, <1>2, PTL DEF Spec

\* The safety part of ServiceImplemented: a session implements the service.
THEOREM ImplementsService == Spec => Service!Spec
<1>1. Init => Service!Init
  BY DEF Init, Service!Init, Service!NoCall, Starting, Calls
<1>2. SessionInv /\ [Next]_vars => SessionInv' /\ [Service!Next]_(Service!vars)
  BY SessionInvNext DEF ServiceStep
<1> QED BY SessionInvInit, <1>1, <1>2, PTL DEF Spec, Service!Spec

-----------------------------------------------------------------------------
(* Further safety, on top of the inductive invariant: an open request never *)
(* gets stuck, the connection machine never claims a channel that is        *)
(* closed, and nothing is in flight after an abort.                         *)

LEMMA SessionInvariance == Spec => []SessionInv
<1>1. SessionInv /\ [Next]_vars => SessionInv'
  BY SessionInvNext
<1> QED BY SessionInvInit, <1>1, PTL DEF Spec

-----------------------------------------------------------------------------
(* What a send does: it ends the call or arms the transaction timer, or on  *)
(* an RTU line posts the write; the channel stays as it was or is lost.     *)

LEMMA PerformWriteEffect ==
  ASSUME NEW adu, NEW c, NEW rs, NEW cb \in BOOLEAN, PerformWrite(adu, c, rs, cb)
  PROVE  /\ callback' => txTimer'
         /\ conn' \in {c, LoseChannel(c)}
<1>1. ASSUME NEW result, NEW to, WriteEndsIn(result, to, c, rs, cb)
      PROVE  ~callback' /\ conn' = c
  BY <1>1 DEF WriteEndsIn, CompleteTransaction, Release
<1>2. ASSUME AwaitResponse(rs, cb) PROVE callback' => txTimer'
  BY <1>2 DEF AwaitResponse, CompleteTransaction, Release
<1>3. ASSUME WriteErrorWithinWrite(c, rs, cb) PROVE ~callback' /\ conn' = LoseChannel(c)
  BY <1>3 DEF WriteErrorWithinWrite, Release
<1> QED BY <1>1, <1>2, <1>3 DEF PerformWrite

LEMMA SendEffect ==
  ASSUME NEW c, NEW rs, NEW cb \in BOOLEAN, SendCurrentRequest(c, rs, cb)
  PROVE  /\ callback' => txTimer' \/ writes' # {}
         /\ conn' \in {c, LoseChannel(c)}
<1>1. ASSUME NEW result, NEW to, WriteEndsIn(result, to, c, rs, cb)
      PROVE  ~callback' /\ conn' = c
  BY <1>1 DEF WriteEndsIn, CompleteTransaction, Release
<1>2. ASSUME BuildAndWrite(c, rs, cb)
      PROVE  /\ callback' => txTimer' \/ writes' # {}
             /\ conn' \in {c, LoseChannel(c)}
  BY <1>2, PerformWriteEffect DEF BuildAndWrite
<1> QED BY <1>1, <1>2 DEF SendCurrentRequest, RefuseBroadcast

LEMMA StartEffect ==
  ASSUME NEW c, ~callback, StartRequest(c)
  PROVE  /\ callback' => txTimer' \/ writes' # {}
         /\ conn' \in {c, LoseChannel(c)}
<1>1. CASE TurnAway(calls, "InvalidPdu", 0) /\ conn' = c
  BY <1>1 DEF TurnAway
<1>2. CASE SendCurrentRequest(c, Req!TryTransition(reqState, "Idle"), TRUE)
  <2>1. \E cb \in BOOLEAN : SendCurrentRequest(c, Req!TryTransition(reqState, "Idle"), cb)
    BY <1>2
  <2> QED BY <2>1, SendEffect
<1> QED BY <1>1, <1>2 DEF StartRequest

\* What a receiving step leaves behind: a call that goes on still has its
\* timer, or a retry was posted for it; the channel stays as it is.
StillWaiting ==
  /\ callback' => (callback /\ txTimer' = txTimer) \/ resends' # {}
  /\ resends \subseteq resends'
  /\ txTimer' => txTimer
  /\ conn'.state = conn.state
  /\ conn'.open = conn.open

LEMMA RetryEffect ==
  ASSUME NEW result, NEW origin, NEW rs, RetryOrFail(result, origin, rs)
  PROVE  /\ callback' => resends' # {}
         /\ resends \subseteq resends'
<1>1. CASE Release(result, origin, callback) /\ UNCHANGED resends
  BY <1>1 DEF Release
<1>2. CASE resends' = resends \cup {[id |-> active.id, attempt |-> attempts + 1]}
  BY <1>2
<1> QED BY <1>1, <1>2 DEF RetryOrFail

LEMMA CheckDropLimitEffect ==
  ASSUME NEW over, NEW ti, txTimer \in BOOLEAN, CheckDropLimit(over, ti)
  PROVE  StillWaiting
<1>1. CASE over
  BY <1>1 DEF CheckDropLimit, CompleteTransaction, StopTimers, Release, StillWaiting
<1>2. CASE ~over
  BY <1>2 DEF CheckDropLimit, StillWaiting
<1> QED BY <1>1, <1>2

LEMMA ReceiveEffect ==
  ASSUME NEW ex, NEW dr, NEW ti, ConnOK(conn), txTimer \in BOOLEAN,
         CheckPendingResponse(ex, dr, ti)
  PROVE  StillWaiting
<1>1. ASSUME NEW f, NEW over, HandleParsedFrame(f, over)
      PROVE  StillWaiting
  <2>1. CASE Verdict(f) = "Ignored"
    BY <1>1, <2>1, CheckDropLimitEffect DEF HandleParsedFrame
  <2>2. CASE Verdict(f) = "Success"
    <3>1. /\ conn' = [conn EXCEPT !.timeouts = 0]
          /\ UNCHANGED resends
          /\ CompleteTransaction("Success", f.id, callback)
      BY <1>1, <2>2 DEF HandleParsedFrame
    <3>2. conn'.state = conn.state /\ conn'.open = conn.open
      BY <3>1 DEF ConnOK
    <3> QED BY <3>1, <3>2 DEF CompleteTransaction, StopTimers, Release, StillWaiting
  <2>3. CASE Verdict(f) \notin {"Ignored", "Success"}
    <3>1. /\ RetryOrFail(Verdict(f), f.id, Req!TryTransition(reqState, "Failed"))
          /\ txTimer' = (txTimer /\ callback')
          /\ UNCHANGED conn
      BY <1>1, <2>3 DEF HandleParsedFrame
    <3> QED BY <3>1, RetryEffect DEF StillWaiting
  <2> QED BY <2>1, <2>2, <2>3
<1>2. CASE PopFrame(ex)
  BY <1>1, <1>2 DEF PopFrame
<1>3. CASE UNCHANGED <<callback, txTimer, conn, resends>>
  <2>1. CASE callback
    BY <1>3, <2>1 DEF StillWaiting
  <2>2. CASE ~callback
    BY <1>3, <2>2 DEF StillWaiting
  <2> QED BY <2>1, <2>2
<1> QED BY <1>2, <1>3, CheckDropLimitEffect DEF CheckPendingResponse

-----------------------------------------------------------------------------
(* An open request always has something left that will move it. *)

LEMMA NoStuckRequestNext ==
  ASSUME SessionInv, NoStuckRequest, [Next]_vars
  PROVE  NoStuckRequest'
<1>0. /\ callback \in BOOLEAN /\ txTimer \in BOOLEAN
      /\ ConnOK(conn)
      /\ Starting => ~callback
  BY TypeParts DEF SessionInv, CtlType, AnswerType, LineType, OpenCallOK
<1>1. ASSUME NEW k \in Kinds, Execute(k) PROVE NoStuckRequest'
  <2>1. UNCHANGED <<callback, txTimer, resends, writes>>
    BY <1>1 DEF Execute, TurnAway
  <2> QED BY <2>1 DEF NoStuckRequest
<1>2. ASSUME Proceed PROVE NoStuckRequest'
  <2>1. CASE conn.open
    BY <1>0, <1>2, <2>1, StartEffect DEF Proceed, Starting, NoStuckRequest
  <2>2. CASE ~conn.open
    BY <1>2, <2>2 DEF Proceed, ctl, NoStuckRequest
  <2> QED BY <2>1, <2>2
<1>3. ASSUME OpenedForRequest PROVE NoStuckRequest'
  BY <1>0, <1>3, StartEffect DEF OpenedForRequest, Starting, NoStuckRequest
<1>4. ASSUME NotOpenedForRequest PROVE NoStuckRequest'
  BY <1>4 DEF NotOpenedForRequest, TurnAway, NoStuckRequest
<1>5. ASSUME NEW r \in resends, ResendFires(r) PROVE NoStuckRequest'
  BY <1>0, <1>5, SendEffect DEF ResendFires, NoStuckRequest
<1>6. ASSUME NEW adu \in writes, WindowOpens(adu) PROVE NoStuckRequest'
  BY <1>0, <1>6, PerformWriteEffect DEF WindowOpens, NoStuckRequest
<1>7. ASSUME StillWaiting, UNCHANGED writes PROVE NoStuckRequest'
  BY <1>7 DEF StillWaiting, NoStuckRequest
<1>8. ASSUME NEW adu \in wire, NEW status \in Statuses, DeviceAnswers(adu, status)
      PROVE  NoStuckRequest'
  BY <1>0, <1>7, <1>8, ReceiveEffect DEF DeviceAnswers, Received
<1>9. ASSUME LineNoise PROVE NoStuckRequest'
  BY <1>0, <1>7, <1>9, ReceiveEffect DEF LineNoise, Received
<1>10. ASSUME WriteDrained PROVE NoStuckRequest'
  <2>1. \E dr \in BOOLEAN : CheckPendingResponse(extractor, dr, silence)
    BY <1>10 DEF WriteDrained
  <2>2. UNCHANGED writes
    BY <1>10 DEF WriteDrained
  <2> QED BY <1>0, <1>7, <2>1, <2>2, ReceiveEffect
<1>11. ASSUME SilenceExpires PROVE NoStuckRequest'
  <2>1. \E ti \in BOOLEAN : CheckPendingResponse(extractor, drained, ti)
    BY <1>11 DEF SilenceExpires
  <2>2. UNCHANGED writes
    BY <1>11 DEF SilenceExpires
  <2> QED BY <1>0, <1>7, <2>1, <2>2, ReceiveEffect
<1>12. ASSUME TimeoutFires PROVE NoStuckRequest'
  BY <1>12, RetryEffect DEF TimeoutFires, NoStuckRequest
<1>13. ASSUME ChannelError PROVE NoStuckRequest'
  BY <1>13 DEF ChannelError, CompleteTransaction, Release, NoStuckRequest
<1>14. ASSUME ChannelLost \/ SendRaw \/ NotOpenedForConnect PROVE NoStuckRequest'
  BY <1>14 DEF ChannelLost, SendRaw, NotOpenedForConnect, ctl, NoStuckRequest
<1>15. ASSUME NEW ab, ClearRuntimeState(reqState, callback, ab) PROVE NoStuckRequest'
  BY <1>15 DEF ClearRuntimeState, Release, NoStuckRequest
<1>16. ASSUME Connect PROVE NoStuckRequest'
  <2>1. CASE conn.open
    BY <1>15, <1>16, <2>1 DEF Connect
  <2>2. CASE ~conn.open
    BY <1>16, <2>2 DEF Connect, ctl, NoStuckRequest
  <2> QED BY <2>1, <2>2
<1>17. ASSUME OpenedForConnect PROVE NoStuckRequest'
  BY <1>15, <1>17 DEF OpenedForConnect
<1>18. ASSUME Abort \/ RequestDisconnect PROVE NoStuckRequest'
  BY <1>18 DEF Abort, RequestDisconnect, Release, NoStuckRequest
<1>19. ASSUME NEW changed \in BOOLEAN, SetConfig(changed) PROVE NoStuckRequest'
  <2>1. CASE changed /\ conn.open
    BY <1>15, <1>19, <2>1 DEF SetConfig, Disconnect
  <2>2. CASE ~(changed /\ conn.open)
    BY <1>19, <2>2 DEF SetConfig, ctl, NoStuckRequest
  <2> QED BY <2>1, <2>2
<1>20. CASE UNCHANGED vars
  BY <1>20 DEF vars, ctl, NoStuckRequest
<1> QED BY <1>1, <1>2, <1>3, <1>4, <1>5, <1>6, <1>8, <1>9, <1>10, <1>11, <1>12,
           <1>13, <1>14, <1>16, <1>17, <1>18, <1>19, <1>20 DEF Next

\* No interleaving of retries, timeouts, aborts and losses leaves a request
\* open with nothing posted or armed that would end it.
THEOREM NeverStuck == Spec => []NoStuckRequest
<1>1. Init => NoStuckRequest
  BY DEF Init, NoStuckRequest
<1>2. SessionInv /\ NoStuckRequest /\ [Next]_vars => NoStuckRequest'
  BY NoStuckRequestNext
<1> QED BY SessionInvariance, <1>1, <1>2, PTL DEF Spec

-----------------------------------------------------------------------------
(* The transition tables *)

AtRest(rs) == rs \in RequestStates \ {"Sending", "Waiting"}

LEMMA RequestTable ==
  ASSUME NEW rs \in RequestStates
  PROVE  /\ \A to \in {"Completed", "Failed", "Aborted"} :
              AtRest(Req!TryTransition(rs, to))
         /\ AtRest(rs) => AtRest(Req!TryTransition(rs, "Idle"))
         /\ \A result, ab : AtRest(Settled(rs, result, ab))
<1>1. ASSUME NEW to \in {"Completed", "Failed", "Aborted"}
      PROVE  AtRest(Req!TryTransition(rs, to))
  BY DEF AtRest, Req!TryTransition, Req!Allowed, RequestTransitions, RequestStates
<1>2. ASSUME AtRest(rs) PROVE AtRest(Req!TryTransition(rs, "Idle"))
  BY <1>2 DEF AtRest, Req!TryTransition, RequestStates
<1>3. ASSUME NEW result, NEW ab PROVE AtRest(Settled(rs, result, ab))
  BY <1>1 DEF Settled
<1> QED BY <1>1, <1>2, <1>3

LEMMA ConnectionTable ==
  ASSUME NEW s \in ConnectionStates
  PROVE  /\ EnterConnecting(s) # "Connected"
         /\ Conn!TryTransition(s, "Failed") # "Connected"
         /\ Conn!TryTransition(Conn!TryTransition(s, "Disconnecting"), "Disconnected")
              # "Connected"
<1>1. Conn!TryTransition(s, "Disconnecting") = "Disconnecting"
  BY DEF Conn!TryTransition, Conn!Allowed, ConnectionTransitions, ConnectionStates
<1>2. Conn!TryTransition("Disconnecting", "Disconnected") = "Disconnected"
  BY DEF Conn!TryTransition, Conn!Allowed, ConnectionTransitions
<1>3. Conn!TryTransition(s, "Failed") # "Connected"
  BY DEF Conn!TryTransition, Conn!Allowed, ConnectionTransitions, ConnectionStates
<1>4. EnterConnecting(s) # "Connected"
  BY DEF EnterConnecting, Conn!TryTransition, ConnectionStates
<1> QED BY <1>1, <1>2, <1>3, <1>4

-----------------------------------------------------------------------------
(* The connection machine says Connected only over an open channel. *)

ClaimOK(c) == c.state = "Connected" => c.open

LEMMA LoseChannelClaim ==
  ASSUME NEW c, ConnOK(c)
  PROVE  ClaimOK(LoseChannel(c))
BY DEF ClaimOK, ConnOK, LoseChannel, ConnectionStates

LEMMA ConnectedMeansOpenNext ==
  ASSUME SessionInv, ConnectedMeansOpen, [Next]_vars
  PROVE  ConnectedMeansOpen'
<1>0. /\ callback \in BOOLEAN /\ txTimer \in BOOLEAN
      /\ ConnOK(conn) /\ ClaimOK(conn)
      /\ conn.state \in ConnectionStates
      /\ Starting => ~callback
  BY TypeParts DEF SessionInv, CtlType, AnswerType, LineType, OpenCallOK, ClaimOK,
                   ConnOK, ConnectedMeansOpen
<1> SUFFICES ClaimOK(conn')
  BY DEF ClaimOK, ConnectedMeansOpen
<1>1. ASSUME NEW c, ConnOK(c), ClaimOK(c), conn' \in {c, LoseChannel(c)}
      PROVE  ClaimOK(conn')
  BY <1>1, LoseChannelClaim
<1>2. ASSUME Proceed PROVE ClaimOK(conn')
  <2>1. CASE conn.open
    <3> DEFINE c == [conn EXCEPT !.state = FastPath(@)]
    <3>1. ConnOK(c)
      BY <1>0, ConnectionTypes
    <3>2. ClaimOK(c)
      BY <1>0, <2>1 DEF ClaimOK, ConnOK
    <3>3. conn' \in {c, LoseChannel(c)}
      BY <1>0, <1>2, <2>1, StartEffect DEF Proceed, Starting
    <3> QED BY <1>1, <3>1, <3>2, <3>3
  <2>2. CASE ~conn.open
    BY <1>0, <1>2, <2>2, ConnectionTable DEF Proceed, ClaimOK, ConnOK
  <2> QED BY <2>1, <2>2
<1>3. ASSUME OpenedForRequest PROVE ClaimOK(conn')
  <2>1. ConnOK(Opened(conn))
    BY <1>0, ConnectionTypes
  <2>2. ClaimOK(Opened(conn))
    BY DEF Opened, ClaimOK
  <2>3. conn' \in {Opened(conn), LoseChannel(Opened(conn))}
    BY <1>0, <1>3, StartEffect DEF OpenedForRequest, Starting
  <2> QED BY <1>1, <2>1, <2>2, <2>3
<1>4. ASSUME conn' = OpenFailed(conn) PROVE ClaimOK(conn')
  BY <1>0, <1>4, ConnectionTable DEF OpenFailed, ClaimOK, ConnOK
<1>5. ASSUME NEW r \in resends, ResendFires(r) PROVE ClaimOK(conn')
  BY <1>0, <1>1, <1>5, SendEffect DEF ResendFires
<1>6. ASSUME NEW adu \in writes, WindowOpens(adu) PROVE ClaimOK(conn')
  BY <1>0, <1>1, <1>6, PerformWriteEffect DEF WindowOpens
<1>7. ASSUME StillWaiting PROVE ClaimOK(conn')
  BY <1>0, <1>7 DEF StillWaiting, ClaimOK
<1>8. ASSUME NEW adu \in wire, NEW status \in Statuses, DeviceAnswers(adu, status)
      PROVE  ClaimOK(conn')
  BY <1>0, <1>7, <1>8, ReceiveEffect DEF DeviceAnswers, Received
<1>9. ASSUME LineNoise PROVE ClaimOK(conn')
  BY <1>0, <1>7, <1>9, ReceiveEffect DEF LineNoise, Received
<1>10. ASSUME WriteDrained PROVE ClaimOK(conn')
  <2>1. \E dr \in BOOLEAN : CheckPendingResponse(extractor, dr, silence)
    BY <1>10 DEF WriteDrained
  <2> QED BY <1>0, <1>7, <2>1, ReceiveEffect
<1>11. ASSUME SilenceExpires PROVE ClaimOK(conn')
  <2>1. \E ti \in BOOLEAN : CheckPendingResponse(extractor, drained, ti)
    BY <1>11 DEF SilenceExpires
  <2> QED BY <1>0, <1>7, <2>1, ReceiveEffect
<1>12. ASSUME conn' = AfterTimeout(conn) PROVE ClaimOK(conn')
  BY <1>0, <1>12 DEF AfterTimeout, ClaimOK, ConnOK
<1>13. ASSUME ChannelLost \/ SendRaw PROVE ClaimOK(conn')
  BY <1>0, <1>1, <1>13 DEF ChannelLost, SendRaw
<1>14. ASSUME Connect PROVE ClaimOK(conn')
  BY <1>0, <1>14, ConnectionTable DEF Connect, ClaimOK, ConnOK
<1>15. ASSUME OpenedForConnect PROVE ClaimOK(conn')
  BY <1>15 DEF OpenedForConnect, Opened, ClaimOK
<1>16. ASSUME Abort \/ RequestDisconnect PROVE ClaimOK(conn')
  BY <1>0, <1>16 DEF Abort, RequestDisconnect, ClaimOK, ConnOK
<1>17. ASSUME NEW changed \in BOOLEAN, SetConfig(changed) PROVE ClaimOK(conn')
  BY <1>0, <1>17, ConnectionTable DEF SetConfig, Disconnect, ClaimOK, ConnOK
<1>18. ASSUME UNCHANGED conn PROVE ClaimOK(conn')
  BY <1>0, <1>18
<1>19. CASE \E k \in Kinds : Execute(k)
  BY <1>18, <1>19 DEF Execute
<1>20. CASE NotOpenedForRequest \/ NotOpenedForConnect
  BY <1>4, <1>20 DEF NotOpenedForRequest, NotOpenedForConnect
<1>21. CASE TimeoutFires
  BY <1>12, <1>21 DEF TimeoutFires
<1>22. CASE ChannelError
  BY <1>18, <1>22 DEF ChannelError
<1>23. CASE UNCHANGED vars
  BY <1>18, <1>23 DEF vars
<1> QED BY <1>2, <1>3, <1>5, <1>6, <1>8, <1>9, <1>10, <1>11, <1>13, <1>14, <1>15,
           <1>16, <1>17, <1>19, <1>20, <1>21, <1>22, <1>23 DEF Next

\* Passive loss, eviction, disconnect, failed opens and aborts all take the
\* connection machine out of Connected.
THEOREM ConnectedIsTrue == Spec => []ConnectedMeansOpen
<1>1. Init => ConnectedMeansOpen
  BY DEF Init, ConnectedMeansOpen
<1>2. SessionInv /\ ConnectedMeansOpen /\ [Next]_vars => ConnectedMeansOpen'
  BY ConnectedMeansOpenNext
<1> QED BY SessionInvariance, <1>1, <1>2, PTL DEF Spec

-----------------------------------------------------------------------------
(* Nothing is in flight after an abort. *)

LEMMA AbortedSend ==
  ASSUME CtlType, NEW c, NEW rs \in RequestStates, NEW cb, aborted',
         \/ SendCurrentRequest(c, rs, cb)
         \/ \E adu : PerformWrite(adu, c, rs, cb)
  PROVE  ~callback' /\ ~txTimer' /\ AtRest(reqState')
<1>1. WriteEndsIn("Aborted", "Aborted", c, rs, cb)
  BY DEF SendCurrentRequest, PerformWrite
<1>2. Req!TryTransition(rs, "Aborted") \in RequestStates
  BY ReqType DEF RequestStates
<1> QED BY <1>1, <1>2, RequestTable
        DEF WriteEndsIn, CompleteTransaction, StopTimers, Release

LEMMA AbortedStateAtRest ==
  ASSUME reqState \in RequestStates
  PROVE  AtRest(AbortedState)
<1> DEFINE first == IF reqState \in {"Completed", "Failed"} THEN reqState
                    ELSE Req!TryTransition(reqState, "Aborted")
<1>1. AtRest(first)
  BY RequestTable DEF AtRest
<1>2. first \in RequestStates
  BY <1>1 DEF AtRest
<1> HIDE DEF first
<1>3. AtRest(Settled(first, "Aborted", TRUE))
  BY <1>2, RequestTable
<1> USE DEF first
<1> QED BY <1>1, <1>3 DEF AbortedState

LEMMA AbortedIsQuietNext ==
  ASSUME SessionInv, AbortedIsQuiet, [Next]_vars
  PROVE  AbortedIsQuiet'
<1>0. CtlType /\ callback \in BOOLEAN /\ reqState \in RequestStates
  BY TypeParts DEF SessionInv, CtlType, AnswerType
<1> SUFFICES ASSUME aborted'
             PROVE  ~callback' /\ ~txTimer' /\ AtRest(reqState')
  BY DEF AbortedIsQuiet, AtRest
<1>q. ASSUME aborted PROVE ~callback /\ ~txTimer /\ AtRest(reqState)
  BY <1>0, <1>q DEF AbortedIsQuiet, AtRest
<1> DEFINE Quiet == ~callback' /\ ~txTimer' /\ AtRest(reqState')
<1>t. \A to \in {"Completed", "Failed", "Aborted"} : AtRest(Req!TryTransition(reqState, to))
  BY <1>0, RequestTable
<1>1. CASE \E k \in Kinds : Execute(k)
  <2>1. aborted
    BY <1>1 DEF Execute
  <2>2. /\ UNCHANGED <<callback, txTimer>>
        /\ reqState' \in {reqState, Req!TryTransition(reqState, "Aborted")}
    BY <1>1 DEF Execute, TurnAway
  <2> QED BY <1>q, <1>t, <2>1, <2>2
<1>2. CASE Proceed
  BY <1>2 DEF Proceed
<1>3. CASE OpenedForRequest
  <2>1. aborted /\ StartRequest(Opened(conn))
    BY <1>3 DEF OpenedForRequest
  <2>2. CASE /\ TurnAway(calls, "InvalidPdu", 0)
             /\ reqState' = Req!TryTransition(reqState, "Failed")
    BY <1>q, <1>t, <2>1, <2>2 DEF TurnAway
  <2>3. CASE SendCurrentRequest(Opened(conn), Req!TryTransition(reqState, "Idle"), TRUE)
    <3>1. Req!TryTransition(reqState, "Idle") \in RequestStates
      BY <1>0, ReqType DEF RequestStates
    <3> QED BY <1>0, <2>3, <3>1, AbortedSend
  <2> QED BY <2>1, <2>2, <2>3 DEF StartRequest
<1>4. CASE NotOpenedForRequest
  BY <1>q, <1>t, <1>4 DEF NotOpenedForRequest, TurnAway
<1>5. CASE \E r \in resends : ResendFires(r)
  BY <1>0, <1>5, AbortedSend DEF ResendFires
<1>6. CASE \E adu \in writes : WindowOpens(adu)
  BY <1>0, <1>6, AbortedSend DEF WindowOpens
<1>7. ASSUME NEW ex, NEW dr, NEW ti, CheckPendingResponse(ex, dr, ti), UNCHANGED aborted
      PROVE  Quiet
  BY <1>q, <1>7 DEF CheckPendingResponse
<1>8. CASE \E adu \in wire, status \in Statuses : DeviceAnswers(adu, status)
  BY <1>7, <1>8 DEF DeviceAnswers, Received
<1>9. CASE LineNoise
  BY <1>7, <1>9 DEF LineNoise, Received
<1>10. CASE WriteDrained
  BY <1>7, <1>10 DEF WriteDrained
<1>11. CASE SilenceExpires
  BY <1>7, <1>11 DEF SilenceExpires
<1>12. CASE TimeoutFires \/ ChannelError
  BY <1>q, <1>12 DEF TimeoutFires, ChannelError
<1>13. CASE ChannelLost \/ SendRaw \/ NotOpenedForConnect
  <2>1. UNCHANGED <<aborted, callback, txTimer, reqState>>
    BY <1>13 DEF ChannelLost, SendRaw, NotOpenedForConnect, ctl
  <2> QED BY <1>q, <2>1
<1>14. CASE Connect
  BY <1>14 DEF Connect
<1>15. CASE OpenedForConnect
  <2>1. aborted /\ ClearRuntimeState(reqState, callback, aborted)
    BY <1>15 DEF OpenedForConnect
  <2>2. ~callback /\ AtRest(Req!TryTransition(reqState, "Idle"))
    BY <1>0, <1>q, <2>1, RequestTable
  <2> QED BY <2>1, <2>2 DEF ClearRuntimeState, StopTimers
<1>16. CASE Abort
  BY <1>0, <1>16, AbortedStateAtRest DEF Abort, StopTimers, Release
<1>17. CASE RequestDisconnect
  BY <1>0, <1>17, AbortedStateAtRest DEF RequestDisconnect, StopTimers
<1>18. CASE \E changed \in BOOLEAN : SetConfig(changed)
  BY <1>q, <1>18 DEF SetConfig, Disconnect, ctl
<1>19. CASE UNCHANGED vars
  BY <1>q, <1>19 DEF vars, ctl
<1> QED BY <1>1, <1>2, <1>3, <1>4, <1>5, <1>6, <1>8, <1>9, <1>10, <1>11, <1>12,
           <1>13, <1>14, <1>15, <1>16, <1>17, <1>18, <1>19 DEF Next

\* What the destructor's std::abort() check relies on.
THEOREM QuietAfterAbort == Spec => []AbortedIsQuiet
<1>1. Init => AbortedIsQuiet
  BY DEF Init, AbortedIsQuiet
<1>2. SessionInv /\ AbortedIsQuiet /\ [Next]_vars => AbortedIsQuiet'
  BY AbortedIsQuietNext
<1> QED BY SessionInvariance, <1>1, <1>2, PTL DEF Spec

-----------------------------------------------------------------------------
(* What a caller is told is about its own request: on TCP the answer it gets is the answer to
   its own ADU, and on TCP and ASCII a success is about bytes the channel took for it.  Both
   follow the ADUs: from the builder to the transport's expectation, to the device, and back
   as frames in the extractor. *)

FramesIn(ex) == {ex.frames[i] : i \in DOMAIN ex.frames}

\* What carries the ids of the ADUs w the device holds, of the ADUs e the
\* transport expects and of the frames in ex: transaction ids below n, each of
\* one call only, and nothing unreadable.
TransactionIds(w, e, ex, n) ==
  /\ ex.partial = NoFrame
  /\ \A f \in FramesIn(ex) : f.status # "corrupt"
  /\ \A x \in w \cup e \cup FramesIn(ex) : x.seq < n
  /\ \A x, y \in w \cup e \cup FramesIn(ex) : x.seq = y.seq => x.id = y.id

\* The transport expects the answer to the open request and to no other.
AwaitsOwn == callback => \A e \in expected : e.id = active.id

\* The inductive invariant of OwnAnswer.
OwnInv ==
  Mode = "TCP" => /\ writes = {}
                  /\ TransactionIds(wire, expected, extractor, nextSeq)
                  /\ AwaitsOwn
                  /\ OwnAnswer

\* The inductive invariant of SuccessWasSent, where no write is ever posted
\* for later: an open request has been written at least once.
SentInv ==
  Mode # "RTU" =>
    /\ writes = {}
    /\ callback => sent[active.id] > 0
    /\ reply.result \in Delivered => reply.id \in Calls /\ sent[reply.id] > 0

-----------------------------------------------------------------------------
(* Steps that neither send nor receive *)

\* The reply handed out, if any, is a failure that no frame was the reason of.
NoAnswerTaken == reply' = reply \/ (reply'.origin = 0 /\ reply'.result \in Failures)

\* Nothing new is on its way, and no other request is opened.
NothingNew ==
  /\ wire' \subseteq wire
  /\ expected' \subseteq expected
  /\ extractor' \in {extractor, EmptyExtractor}
  /\ UNCHANGED <<nextSeq, writes, sent>>
  /\ callback' => callback /\ active' = active
  /\ NoAnswerTaken

LEMMA ReleaseTakesNone ==
  ASSUME NEW result \in Failures, NEW cb, Release(result, 0, cb)
  PROVE  NoAnswerTaken /\ ~callback'
BY DEF Release, Answer, NoAnswerTaken

LEMMA TurnAwayTakesNone ==
  ASSUME NEW result \in Failures, NEW id, NEW n, TurnAway(id, result, n)
  PROVE  NoAnswerTaken
BY DEF TurnAway, Answer, NoAnswerTaken

LEMMA ClearTakesNone ==
  ASSUME NEW rs, NEW ab, ClearRuntimeState(rs, callback, ab)
  PROVE  /\ NoAnswerTaken
         /\ callback' => callback
         /\ expected' = {}
         /\ extractor' = EmptyExtractor
<1>1. CASE callback
  BY <1>1, ReleaseTakesNone DEF ClearRuntimeState, Failures
<1>2. CASE ~callback
  BY <1>2 DEF ClearRuntimeState, NoAnswerTaken
<1> QED BY <1>1, <1>2 DEF ClearRuntimeState

LEMMA TransactionIdsShrink ==
  ASSUME NEW w, NEW e, NEW ex, NEW n, TransactionIds(w, e, ex, n),
         NEW v, v \subseteq w, NEW d, d \subseteq e,
         NEW ey, ey.partial = NoFrame, FramesIn(ey) \subseteq FramesIn(ex)
  PROVE  TransactionIds(v, d, ey, n)
BY DEF TransactionIds

LEMMA EmptyHasNoFrames ==
  EmptyExtractor.partial = NoFrame /\ FramesIn(EmptyExtractor) = {}
BY DEF EmptyExtractor, FramesIn

LEMMA NothingNewKeeps ==
  ASSUME OwnInv, SentInv, NothingNew
  PROVE  OwnInv' /\ SentInv'
<1>1. ASSUME Mode = "TCP" PROVE OwnInv'
  <2>1. TransactionIds(wire, expected, extractor, nextSeq) /\ AwaitsOwn /\ OwnAnswer
    BY <1>1 DEF OwnInv
  <2>2. extractor'.partial = NoFrame /\ FramesIn(extractor') \subseteq FramesIn(extractor)
    BY <2>1, EmptyHasNoFrames DEF NothingNew, TransactionIds
  <2>3. TransactionIds(wire', expected', extractor', nextSeq)
    BY <2>1, <2>2, TransactionIdsShrink DEF NothingNew
  <2>4. AwaitsOwn'
    BY <2>1 DEF AwaitsOwn, NothingNew
  <2>5. OwnAnswer'
    BY <2>1 DEF OwnAnswer, NothingNew, NoAnswerTaken
  <2> QED BY <1>1, <2>3, <2>4, <2>5 DEF OwnInv, NothingNew
<1>2. SentInv'
  BY DEF SentInv, NothingNew, NoAnswerTaken, Delivered, Failures
<1> QED BY <1>1, <1>2 DEF OwnInv

-----------------------------------------------------------------------------
(* Sending: the ADU gets the next transaction id and the id of its call *)

\* What the line and the channel do with an ADU that is written: the device
\* may get it, and the call goes on only if the bytes were taken.
LEMMA PerformWriteCarries ==
  ASSUME NEW adu, NEW c, NEW rs, NEW cb \in BOOLEAN, PerformWrite(adu, c, rs, cb),
         sent \in [Calls -> Nat], adu.id \in Calls
  PROVE  /\ wire' \subseteq wire \cup {adu}
         /\ callback' => cb /\ sent'[adu.id] > 0
         /\ reply' = reply \/ (reply'.origin = 0 /\ reply'.result \in Failures)
            \/ (reply'.origin = 0 /\ reply'.id = active'.id /\ sent'[adu.id] > 0)
         /\ sent' \in [Calls -> Nat]
         /\ \A i \in Calls : sent'[i] >= sent[i]
<1>1. ASSUME NEW result \in Failures, NEW to, WriteEndsIn(result, to, c, rs, cb)
      PROVE  /\ UNCHANGED <<wire, sent>>
             /\ NoAnswerTaken /\ ~callback'
  BY <1>1, ReleaseTakesNone DEF WriteEndsIn, CompleteTransaction
<1>2. ASSUME WriteErrorWithinWrite(c, rs, cb)
      PROVE  /\ wire' \subseteq wire
             /\ UNCHANGED sent
             /\ NoAnswerTaken /\ ~callback'
  BY <1>2, ReleaseTakesNone DEF WriteErrorWithinWrite, DropTraffic, Failures
<1>3. ASSUME AwaitResponse(rs, cb)
      PROVE  /\ callback' => cb
             /\ reply' = reply \/ (reply'.origin = 0 /\ reply'.id = active'.id)
  BY <1>3 DEF AwaitResponse, CompleteTransaction, Release, Answer
<1>4. CASE /\ AwaitResponse(rs, cb)
           /\ wire' = wire \cup {adu}
           /\ sent' = [sent EXCEPT ![adu.id] = @ + 1]
  <2>1. sent' \in [Calls -> Nat] /\ sent'[adu.id] > 0
        /\ \A i \in Calls : sent'[i] >= sent[i]
    BY <1>4
  <2> QED BY <1>3, <1>4, <2>1
<1>5. ASSUME UNCHANGED sent
      PROVE  /\ sent' \in [Calls -> Nat]
             /\ \A i \in Calls : sent'[i] >= sent[i]
  BY <1>5
<1>6. CASE \E result \in Failures : \E to : WriteEndsIn(result, to, c, rs, cb)
  BY <1>1, <1>5, <1>6 DEF NoAnswerTaken
<1>7. CASE WriteErrorWithinWrite(c, rs, cb)
  BY <1>2, <1>5, <1>7 DEF NoAnswerTaken
<1>8. "Aborted" \in Failures /\ "WriteFailed" \in Failures
  BY DEF Failures
<1> QED BY <1>4, <1>6, <1>7, <1>8 DEF PerformWrite

LEMMA TransactionIdsSend ==
  ASSUME NEW w, NEW e, NEW ex, NEW n \in Nat, TransactionIds(w, e, ex, n),
         \A x \in w : x.seq \in Nat,
         NEW adu, adu.seq = n, NEW v, v \subseteq w \cup {adu}
  PROVE  TransactionIds(v, {adu}, EmptyExtractor, n + 1)
<1>1. \A x \in v : x = adu \/ (x \in w /\ x.seq < n)
  BY DEF TransactionIds
<1>2. \A x \in v \cup {adu} : x.seq < n + 1
  BY <1>1
<1>3. ASSUME NEW x \in v \cup {adu}, NEW y \in v \cup {adu}, x.seq = y.seq
      PROVE  x.id = y.id
  <2>1. (x = adu /\ y = adu) \/ (x \in w /\ y \in w)
    BY <1>1, <1>3
  <2> QED BY <1>3, <2>1 DEF TransactionIds
<1> QED BY <1>2, <1>3, EmptyHasNoFrames DEF TransactionIds

\* SendCurrentRequest keeps both invariants, for the request that is already
\* open as for the one that StartRequest has just made active.
LEMMA SendKeeps ==
  ASSUME SessionInv, OwnInv, SentInv, NEW c, NEW rs, NEW cb \in BOOLEAN,
         SendCurrentRequest(c, rs, cb), active' \in Requests
  PROVE  OwnInv' /\ SentInv'
<1> DEFINE adu == [seq |-> nextSeq, slave |-> active'.slave, fc |-> active'.fc,
                   id |-> active'.id]
<1>0. /\ sent \in [Calls -> Nat] /\ nextSeq \in Nat /\ adu.id \in Calls
      /\ adu.seq = nextSeq /\ adu.id = active'.id
      /\ \A x \in wire : x.seq \in Nat
  BY TypeParts DEF SessionInv, LineType, BuildType, Requests, Adus
<1>1. ASSUME NEW result \in Failures, NEW to, WriteEndsIn(result, to, c, rs, cb),
             expected' \subseteq expected, extractor' \in {extractor, EmptyExtractor},
             UNCHANGED <<nextSeq, writes>>
      PROVE  OwnInv' /\ SentInv'
  <2>1. NoAnswerTaken /\ ~callback' /\ UNCHANGED <<wire, sent>>
    BY <1>1, ReleaseTakesNone DEF WriteEndsIn, CompleteTransaction
  <2>2. NothingNew
    BY <1>1, <2>1 DEF NothingNew
  <2> QED BY <2>2, NothingNewKeeps
<1>2. CASE extractor' = EmptyExtractor /\ RefuseBroadcast(c, rs, cb)
  BY <1>1, <1>2 DEF RefuseBroadcast, Failures
<1>3. CASE WriteEndsIn("Aborted", "Aborted", c, rs, cb)
           /\ UNCHANGED <<extractor, drained, expected, nextSeq, writes>>
  BY <1>1, <1>3 DEF Failures
<1>4. CASE extractor' = EmptyExtractor /\ BuildAndWrite(c, rs, cb)
  <2>1. /\ expected' = {adu} /\ nextSeq' = nextSeq + 1
        /\ Mode # "RTU" => PerformWrite(adu, c, rs, cb) /\ UNCHANGED writes
    BY <1>4 DEF BuildAndWrite
  <2> HIDE DEF adu
  <2>2. ASSUME Mode # "RTU"
        PROVE  /\ wire' \subseteq wire \cup {adu}
               /\ callback' => cb /\ sent'[adu.id] > 0
               /\ NoAnswerTaken
                  \/ (reply'.origin = 0 /\ reply'.id = active'.id /\ sent'[adu.id] > 0)
               /\ sent' \in [Calls -> Nat]
               /\ \A i \in Calls : sent'[i] >= sent[i]
    BY <1>0, <2>1, <2>2, PerformWriteCarries DEF NoAnswerTaken
  <2>3. ASSUME Mode = "TCP" PROVE OwnInv'
    <3>1. TransactionIds(wire', expected', extractor', nextSeq')
      BY <1>0, <1>4, <2>1, <2>2, <2>3, TransactionIdsSend DEF OwnInv
    <3>2. AwaitsOwn'
      BY <1>0, <2>1 DEF AwaitsOwn
    <3>3. OwnAnswer'
      BY <2>2, <2>3 DEF OwnInv, OwnAnswer, NoAnswerTaken
    <3> QED BY <2>1, <2>3, <3>1, <3>2, <3>3 DEF OwnInv
  <2>4. SentInv'
    <3> SUFFICES ASSUME Mode # "RTU" PROVE SentInv'
      BY DEF SentInv
    <3>1. reply'.result \in Delivered => reply'.id \in Calls /\ sent'[reply'.id] > 0
      BY <1>0, <2>2 DEF SentInv, NoAnswerTaken, Delivered, Failures, Requests
    <3> QED BY <1>0, <2>1, <2>2, <3>1 DEF SentInv
  <2> QED BY <2>3, <2>4 DEF OwnInv
<1> QED BY <1>2, <1>3, <1>4 DEF SendCurrentRequest

-----------------------------------------------------------------------------
(* Receiving: only the ADU of the open request is taken as its answer *)

LEMMA FramesAfterTail ==
  ASSUME NEW ex, ex.frames \in Seq(Frames), ex.frames # <<>>
  PROVE  /\ Head(ex.frames) \in FramesIn(ex)
         /\ FramesIn([ex EXCEPT !.frames = Tail(@)]) \subseteq FramesIn(ex)
<1> DEFINE s == ex.frames
           t == [ex EXCEPT !.frames = Tail(@)].frames
<1>1. 1 \in DOMAIN s /\ Head(s) = s[1]
  OBVIOUS
<1>2. \A i \in DOMAIN Tail(s) : i + 1 \in DOMAIN s /\ Tail(s)[i] = s[i + 1]
  OBVIOUS
<1> QED BY <1>1, <1>2 DEF FramesIn

\* On TCP the bytes of a frame make a frame of their own, and noise none.
LEMMA FeedAddsOne ==
  ASSUME BuildType, Mode # "RTU", NEW f \in Frames, NEW ex \in Feed(f)
  PROVE  /\ ex \in [frames : Seq(Frames), partial : Frames, over : BOOLEAN]
         /\ ex.partial = extractor.partial
         /\ FramesIn(ex) \subseteq FramesIn(extractor) \cup {f}
<1>1. ex = [extractor EXCEPT !.frames = Append(@, f), !.over = FALSE]
  BY DEF Feed
<1>2. extractor.frames \in Seq(Frames)
  BY DEF BuildType
<1>3. ex.frames = Append(extractor.frames, f)
  BY <1>1 DEF BuildType
<1>4. \A i \in DOMAIN ex.frames :
        ex.frames[i] = f \/ (i \in DOMAIN extractor.frames
                             /\ ex.frames[i] = extractor.frames[i])
  BY <1>2, <1>3
<1>5. FramesIn(ex) \subseteq FramesIn(extractor) \cup {f}
  BY <1>4 DEF FramesIn
<1> QED BY <1>1, <1>5, FeedType DEF BuildType

\* What a receiving step makes of the reply: none, one that ends the request
\* for a reason of the session's own, or one made of a frame f of ex.
TakenFrom(ex) ==
  \/ NoAnswerTaken
  \/ /\ reply'.id = active.id
     /\ callback
     /\ \E f \in FramesIn(ex) : /\ Matches(f)
                                /\ reply'.origin = f.id

LEMMA CheckDropLimitTakes ==
  ASSUME NEW over, NEW ti, CheckDropLimit(over, ti)
  PROVE  /\ NoAnswerTaken
         /\ callback' => callback
<1>1. CASE over
  BY <1>1, ReleaseTakesNone DEF CheckDropLimit, CompleteTransaction, Failures
<1>2. CASE ~over
  BY <1>2 DEF CheckDropLimit, NoAnswerTaken
<1> QED BY <1>1, <1>2

LEMMA HandleTakes ==
  ASSUME callback, UNCHANGED active, NEW ex, NEW f \in FramesIn(ex), NEW over,
         f.status # "corrupt", HandleParsedFrame(f, over)
  PROVE  /\ TakenFrom(ex)
         /\ expected' \subseteq expected
<1>1. CASE Verdict(f) = "Ignored"
  BY <1>1, CheckDropLimitTakes DEF HandleParsedFrame, TakenFrom
<1>2. ~Matches(f) => Verdict(f) = "Ignored"
  BY DEF Verdict
<1>3. ASSUME Verdict(f) = "Success" PROVE TakenFrom(ex)
  BY <1>2, <1>3 DEF HandleParsedFrame, CompleteTransaction, Release, Answer, TakenFrom
<1>4. ASSUME Verdict(f) \notin {"Ignored", "Success"} PROVE TakenFrom(ex)
  <2>1. RetryOrFail(Verdict(f), f.id, Req!TryTransition(reqState, "Failed"))
    BY <1>4 DEF HandleParsedFrame
  <2>2. CASE Release(Verdict(f), f.id, callback)
    <3>1. reply'.id = active.id /\ reply'.origin = f.id
      BY <2>2 DEF Release, Answer
    <3> QED BY <1>2, <1>4, <3>1 DEF TakenFrom, Matches
  <2>3. CASE reply' = reply
    BY <2>3 DEF TakenFrom, NoAnswerTaken
  <2> QED BY <2>1, <2>2, <2>3 DEF RetryOrFail
<1>5. expected' \subseteq expected
  BY DEF HandleParsedFrame
<1> QED BY <1>1, <1>3, <1>4, <1>5

\* checkPendingResponse() on an extractor whose frames all carry their ids.
LEMMA ReceiveTakes ==
  ASSUME callback \in BOOLEAN, UNCHANGED active, NEW ex, NEW dr, NEW ti,
         ex \in [frames : Seq(Frames), partial : Frames, over : BOOLEAN],
         ex.partial = NoFrame, \A f \in FramesIn(ex) : f.status # "corrupt",
         CheckPendingResponse(ex, dr, ti)
  PROVE  /\ TakenFrom(ex)
         /\ expected' \subseteq expected
         /\ extractor'.partial = NoFrame
         /\ FramesIn(extractor') \subseteq FramesIn(ex)
<1>1. CASE UNCHANGED <<reply, callback, expected>> /\ extractor' = ex
  BY <1>1 DEF TakenFrom, NoAnswerTaken
<1>2. ASSUME callback, PopFrame(ex)
      PROVE  /\ TakenFrom(ex)
             /\ expected' \subseteq expected
             /\ extractor'.partial = NoFrame
             /\ FramesIn(extractor') \subseteq FramesIn(ex)
  <2>1. /\ ex.frames # <<>>
        /\ extractor' = [ex EXCEPT !.frames = Tail(@)]
        /\ HandleParsedFrame(Head(ex.frames), ex.over)
    BY <1>2 DEF PopFrame
  <2>2. /\ Head(ex.frames) \in FramesIn(ex)
        /\ FramesIn(extractor') \subseteq FramesIn(ex)
    BY <2>1, FramesAfterTail
  <2> QED BY <1>2, <2>1, <2>2, HandleTakes
<1>3. CASE /\ extractor' = ex
           /\ CheckDropLimit(ex.over, ti \/ ex.partial # NoFrame)
           /\ UNCHANGED expected
  BY <1>3, CheckDropLimitTakes DEF TakenFrom
<1> QED BY <1>1, <1>2, <1>3 DEF CheckPendingResponse

LEMMA ReceiveKeepsOwn ==
  ASSUME SessionInv, Mode = "TCP", AwaitsOwn, OwnAnswer, writes = {},
         NEW ex, NEW dr, NEW ti, NEW w,
         ex \in [frames : Seq(Frames), partial : Frames, over : BOOLEAN],
         TransactionIds(w, expected, ex, nextSeq), wire' = w,
         CheckPendingResponse(ex, dr, ti),
         UNCHANGED <<active, nextSeq, writes>>
  PROVE  OwnInv'
<1>0. callback \in BOOLEAN
  BY TypeParts DEF SessionInv, CtlType, AnswerType
<1>1. /\ TakenFrom(ex)
      /\ expected' \subseteq expected
      /\ extractor'.partial = NoFrame
      /\ FramesIn(extractor') \subseteq FramesIn(ex)
  BY <1>0, ReceiveTakes DEF TransactionIds
<1>2. TransactionIds(wire', expected', extractor', nextSeq')
  BY <1>1, TransactionIdsShrink
<1>3. callback' => callback
  <2>1. Outcome(callback)
    BY <1>0, CheckPendingResponseOutcome
  <2> QED BY <2>1 DEF Outcome
<1>4. AwaitsOwn'
  BY <1>1, <1>3 DEF AwaitsOwn
<1>5. ASSUME callback, NEW f \in FramesIn(ex), Matches(f) PROVE f.id = active.id
  BY <1>5 DEF Matches, TransactionIds, AwaitsOwn
<1>6. OwnAnswer'
  BY <1>1, <1>5 DEF TakenFrom, NoAnswerTaken, OwnAnswer
<1> QED BY <1>2, <1>4, <1>6 DEF OwnInv

\* For SuccessWasSent it does not matter which frame is taken: the open
\* request was written before any answer was taken for it.
LEMMA ReceiveKeepsSent ==
  ASSUME SessionInv, SentInv, NEW ex, NEW dr, NEW ti,
         CheckPendingResponse(ex, dr, ti), UNCHANGED <<active, writes, sent>>
  PROVE  SentInv'
<1> SUFFICES ASSUME Mode # "RTU" PROVE SentInv'
  BY DEF SentInv
<1>0. callback \in BOOLEAN /\ (callback => active.id \in Calls)
  BY TypeParts DEF SessionInv, CtlType, AnswerType, ActiveReal, Requests
<1>1. callback' => callback
  <2>1. UNCHANGED active
    OBVIOUS
  <2>2. Outcome(callback)
    BY <1>0, <2>1, CheckPendingResponseOutcome
  <2> QED BY <2>2 DEF Outcome
<1>2. reply' = reply \/ (callback /\ reply'.id = active.id)
  <2>1. ASSUME NEW result, NEW origin, NEW cb, Release(result, origin, cb)
        PROVE  reply' = reply \/ (cb /\ reply'.id = active.id)
    BY <2>1 DEF Release, Answer
  <2>2. ASSUME NEW over, NEW t, CheckDropLimit(over, t)
        PROVE  reply' = reply \/ (callback /\ reply'.id = active.id)
    BY <2>1, <2>2 DEF CheckDropLimit, CompleteTransaction
  <2>3. ASSUME NEW f, NEW over, HandleParsedFrame(f, over)
        PROVE  reply' = reply \/ (callback /\ reply'.id = active.id)
    BY <2>1, <2>2, <2>3 DEF HandleParsedFrame, RetryOrFail, CompleteTransaction
  <2> QED BY <2>2, <2>3 DEF CheckPendingResponse, PopFrame
<1> QED BY <1>0, <1>1, <1>2 DEF SentInv

-----------------------------------------------------------------------------
(* The steps of the session *)

LEMMA DeviceAnswersKeepsOwn ==
  ASSUME SessionInv, OwnInv, Mode = "TCP", NEW adu \in wire, NEW status \in Statuses,
         DeviceAnswers(adu, status)
  PROVE  OwnInv'
<1> DEFINE f == [seq |-> adu.seq, slave |-> adu.slave, fc |-> adu.fc,
                 status |-> status, id |-> adu.id]
<1>1. PICK ex \in Feed(f) : Received(ex)
  BY DEF DeviceAnswers
<1>2. BuildType /\ adu \in Adus
  BY TypeParts DEF SessionInv, LineType
<1>3. f \in Frames
  BY <1>2, BoundsAssumption DEF Frames, Adus, Calls
<1>4. f.status # "corrupt" /\ f.seq = adu.seq /\ f.id = adu.id
  BY DEF DeviceAnswers
<1>5. wire' = wire \ {adu}
  BY DEF DeviceAnswers
<1> HIDE DEF f
<1>6. /\ ex \in [frames : Seq(Frames), partial : Frames, over : BOOLEAN]
      /\ ex.partial = extractor.partial
      /\ FramesIn(ex) \subseteq FramesIn(extractor) \cup {f}
  BY <1>2, <1>3, FeedAddsOne
<1>7. TransactionIds(wire, expected, extractor, nextSeq) /\ AwaitsOwn /\ OwnAnswer
      /\ writes = {}
  BY DEF OwnInv
<1>8. TransactionIds(wire', expected, ex, nextSeq)
  <2>1. ASSUME NEW x \in wire' \cup expected \cup FramesIn(ex)
        PROVE  \E y \in wire \cup expected \cup FramesIn(extractor) :
                 y.seq = x.seq /\ y.id = x.id
    BY <1>4, <1>5, <1>6, <2>1
  <2>2. \A x \in wire' \cup expected \cup FramesIn(ex) : x.seq < nextSeq
    BY <1>7, <2>1 DEF TransactionIds
  <2>3. \A x, y \in wire' \cup expected \cup FramesIn(ex) : x.seq = y.seq => x.id = y.id
    BY <1>7, <2>1 DEF TransactionIds
  <2> QED BY <1>4, <1>6, <1>7, <2>2, <2>3 DEF TransactionIds
<1>9. CheckPendingResponse(ex, drained, silence) /\ UNCHANGED <<active, nextSeq, writes>>
  BY <1>1 DEF Received
<1> QED BY <1>6, <1>7, <1>8, <1>9, ReceiveKeepsOwn

\* The steps that neither send nor receive.
QuietStep ==
  \/ \E k \in Kinds : Execute(k)
  \/ (Proceed /\ ~conn.open) \/ NotOpenedForRequest
  \/ TimeoutFires \/ ChannelError \/ ChannelLost \/ SendRaw
  \/ Connect \/ OpenedForConnect \/ NotOpenedForConnect
  \/ Abort \/ RequestDisconnect
  \/ \E changed \in BOOLEAN : SetConfig(changed)
  \/ UNCHANGED vars

LEMMA QuietStepBringsNothing ==
  ASSUME SessionInv, QuietStep
  PROVE  NothingNew
<1>f. {"Busy", "Aborted", "NotConnected", "Timeout", "ConnectionFailed"} \subseteq Failures
  BY DEF Failures
<1>1. CASE \E k \in Kinds : Execute(k)
  <2> PICK k \in Kinds : Execute(k)
    BY <1>1
  <2>1. NoAnswerTaken /\ callback' = callback
    BY <1>f, TurnAwayTakesNone DEF Execute, TurnAway, NoAnswerTaken
  <2> QED BY <2>1 DEF Execute, req, io, NothingNew
<1>2. CASE Proceed /\ ~conn.open
  BY <1>2 DEF Proceed, ctl, req, io, NothingNew, NoAnswerTaken
<1>3. CASE NotOpenedForRequest
  <2>1. NoAnswerTaken /\ callback' = callback
    BY <1>3, <1>f, TurnAwayTakesNone DEF NotOpenedForRequest, TurnAway
  <2> QED BY <1>3, <2>1 DEF NotOpenedForRequest, req, io, NothingNew
<1>4. CASE TimeoutFires
  <2>1. RetryOrFail("Timeout", 0, Req!TryTransition(reqState, "Failed"))
    BY <1>4 DEF TimeoutFires
  <2>2. NoAnswerTaken /\ (callback' => callback)
    BY <1>f, <2>1, ReleaseTakesNone DEF RetryOrFail, NoAnswerTaken
  <2> QED BY <1>4, <2>2 DEF TimeoutFires, DropTraffic, NothingNew
<1>5. CASE ChannelError
  <2>1. NoAnswerTaken /\ ~callback'
    BY <1>5, <1>f, ReleaseTakesNone DEF ChannelError, CompleteTransaction
  <2> QED BY <1>5, <2>1 DEF ChannelError, req, io, NothingNew
<1>6. CASE ChannelLost \/ SendRaw \/ NotOpenedForConnect
  BY <1>6 DEF ChannelLost, SendRaw, NotOpenedForConnect, DropTraffic, ctl, req, io,
              NothingNew, NoAnswerTaken
<1>7. ASSUME NEW rs, NEW ab, ClearRuntimeState(rs, callback, ab),
             wire' \subseteq wire, UNCHANGED <<nextSeq, writes, sent, active>>
      PROVE  NothingNew
  BY <1>7, ClearTakesNone DEF NothingNew
<1>8. CASE Connect
  <2>1. CASE conn.open
    <3>1. /\ ClearRuntimeState(reqState, callback, FALSE)
          /\ wire' = wire /\ UNCHANGED <<nextSeq, writes, sent, active>>
      BY <1>8, <2>1 DEF Connect, req, io
    <3> QED BY <1>7, <3>1
  <2>2. CASE ~conn.open
    <3>1. UNCHANGED <<ctl, req, io, resends, writes, extractor, expected>>
      BY <1>8, <2>2 DEF Connect
    <3> QED BY <3>1 DEF ctl, req, io, NothingNew, NoAnswerTaken
  <2> QED BY <2>1, <2>2
<1>9. CASE OpenedForConnect
  BY <1>7, <1>9 DEF OpenedForConnect, req, io
<1>10. CASE Abort
  <2>1. NoAnswerTaken /\ (callback' => callback)
    BY <1>10, <1>f, ReleaseTakesNone DEF Abort, NoAnswerTaken
  <2> QED BY <1>10, <2>1 DEF Abort, req, io, NothingNew
<1>11. CASE RequestDisconnect
  <2>1. NoAnswerTaken /\ ~callback'
    BY <1>11, <1>f DEF RequestDisconnect, Answer, NoAnswerTaken
  <2> QED BY <1>11, <2>1 DEF RequestDisconnect, DropTraffic, req, NothingNew
<1>12. CASE \E changed \in BOOLEAN : SetConfig(changed)
  <2> PICK changed \in BOOLEAN : SetConfig(changed)
    BY <1>12
  <2>1. CASE changed /\ conn.open
    BY <1>7, <2>1 DEF SetConfig, Disconnect, DropTraffic
  <2>2. CASE ~(changed /\ conn.open)
    BY <2>2 DEF SetConfig, ctl, NothingNew, NoAnswerTaken
  <2> QED BY <2>1, <2>2
<1>13. CASE UNCHANGED vars
  BY <1>13 DEF vars, ctl, req, io, NothingNew, NoAnswerTaken
<1> QED BY <1>1, <1>2, <1>3, <1>4, <1>5, <1>6, <1>8, <1>9, <1>10, <1>11, <1>12, <1>13
        DEF QuietStep

LEMMA AnswersNext ==
  ASSUME SessionInv, OwnInv, SentInv, [Next]_vars
  PROVE  OwnInv' /\ SentInv'
<1>0. SessionInv' /\ callback \in BOOLEAN /\ BuildType
  BY SessionInvNext, TypeParts DEF SessionInv, CtlType, AnswerType
<1>1. CASE QuietStep
  BY <1>1, QuietStepBringsNothing, NothingNewKeeps
<1>2. ASSUME NEW c, StartRequest(c), Starting PROVE OwnInv' /\ SentInv'
  <2>1. CASE ~calling.valid
    <3>1. NoAnswerTaken /\ callback' = callback
      BY <1>2, <2>1, TurnAwayTakesNone DEF StartRequest, TurnAway, Failures
    <3>2. NothingNew
      BY <1>2, <2>1, <3>1 DEF StartRequest, req, io, NothingNew
    <3> QED BY <3>2, NothingNewKeeps
  <2>2. CASE calling.valid
    <3>1. SendCurrentRequest(c, Req!TryTransition(reqState, "Idle"), TRUE)
      BY <1>2, <2>2 DEF StartRequest
    <3>2. calls \in Calls /\ calling.fc \in FunctionClasses /\ calling.slave \in Nat
      BY <1>2, <2>2, TypeParts, KindsAssumption DEF SessionInv, OpenCallOK, CallType, NoCall
    <3>3. active' \in Requests
      BY <1>2, <2>2, <3>2 DEF StartRequest, Requests
    <3>4. \E cb \in BOOLEAN : SendCurrentRequest(c, Req!TryTransition(reqState, "Idle"), cb)
      BY <3>1
    <3> QED BY <3>3, <3>4, SendKeeps
  <2> QED BY <2>1, <2>2
<1>3. CASE Proceed /\ conn.open
  BY <1>2, <1>3 DEF Proceed, Starting
<1>4. CASE OpenedForRequest
  BY <1>2, <1>4 DEF OpenedForRequest, Starting
<1>5. CASE \E r \in resends : ResendFires(r)
  <2>1. active \in Requests /\ UNCHANGED active
    BY <1>5 DEF SessionInv, ActiveReal, ResendFires, req
  <2> QED BY <1>0, <1>5, <2>1, SendKeeps DEF ResendFires
<1>6. CASE \E adu \in writes : WindowOpens(adu)
  <2>1. Mode = "RTU"
    BY <1>6, ModeAssumption DEF OwnInv, SentInv
  <2> QED BY <2>1 DEF OwnInv, SentInv
<1>7. ASSUME NEW ex, NEW dr, NEW ti, CheckPendingResponse(ex, dr, ti),
             UNCHANGED <<active, writes, sent>>
      PROVE  SentInv'
  BY <1>7, ReceiveKeepsSent
<1>8. CASE \E adu \in wire, status \in Statuses : DeviceAnswers(adu, status)
  <2>1. SentInv'
    BY <1>7, <1>8 DEF DeviceAnswers, Received
  <2> QED BY <1>8, <2>1, DeviceAnswersKeepsOwn DEF OwnInv
<1>9. ASSUME NEW ex, NEW dr, NEW ti, CheckPendingResponse(ex, dr, ti),
             BuildType, ex \in {extractor, [extractor EXCEPT !.over = TRUE]},
             UNCHANGED <<active, nextSeq, writes, wire>>
      PROVE  OwnInv'
  <2> SUFFICES ASSUME Mode = "TCP" PROVE OwnInv'
    BY DEF OwnInv
  <2>1. /\ ex \in [frames : Seq(Frames), partial : Frames, over : BOOLEAN]
        /\ ex.partial = extractor.partial /\ ex.frames = extractor.frames
    BY <1>9 DEF BuildType
  <2>2. TransactionIds(wire, expected, ex, nextSeq)
    BY <2>1 DEF OwnInv, TransactionIds, FramesIn
  <2> QED BY <1>9, <2>1, <2>2, ReceiveKeepsOwn DEF OwnInv
<1>10. CASE LineNoise
  <2>1. SentInv'
    BY <1>7, <1>10 DEF LineNoise, Received
  <2>2. CASE Mode = "TCP"
    <3>1. PICK ex \in {[extractor EXCEPT !.over = TRUE]} : Received(ex)
      BY <1>10, <2>2 DEF LineNoise
    <3>2. UNCHANGED <<active, nextSeq, writes, wire>>
      BY <1>10, <3>1 DEF LineNoise, Received
    <3> QED BY <1>0, <1>9, <2>1, <3>1, <3>2 DEF Received
  <2> QED BY <2>1, <2>2 DEF OwnInv
<1>11. CASE WriteDrained
  BY <1>0, <1>7, <1>9, <1>11 DEF WriteDrained
<1>12. CASE SilenceExpires
  <2>1. /\ CheckPendingResponse(extractor, drained, FALSE)
        /\ UNCHANGED <<active, writes, sent>>
        /\ UNCHANGED <<active, nextSeq, writes, wire>>
    BY <1>12 DEF SilenceExpires, io
  <2> QED BY <1>0, <1>7, <1>9, <2>1
<1> QED BY <1>1, <1>3, <1>4, <1>5, <1>6, <1>8, <1>10, <1>11, <1>12 DEF Next, QuietStep

LEMMA AnswersInvariance == Spec => [](SessionInv /\ OwnInv /\ SentInv)
<1>1. Init => OwnInv /\ SentInv
  BY EmptyHasNoFrames
     DEF Init, OwnInv, SentInv, TransactionIds, AwaitsOwn, OwnAnswer, NoReply, Delivered
<1>2. SessionInv /\ OwnInv /\ SentInv /\ [Next]_vars => (OwnInv /\ SentInv)'
  BY AnswersNext
<1> QED BY SessionInvariance, <1>1, <1>2, PTL DEF Spec

\* A late answer is never handed to another call: on TCP every transaction id
\* stands for one call, in the device, in the extractor and in the transport.
THEOREM AnswersAreOwn == Spec => []OwnAnswer
<1>1. OwnInv => OwnAnswer
  BY DEF OwnInv, OwnAnswer
<1> QED BY AnswersInvariance, <1>1, PTL

\* Where every write is made at once, a success is about bytes that the channel
\* took for that very call.  (On an RTU line a write posted for the quiet
\* interval outlives its call, and may end another one: the run stale_write.)
THEOREM SuccessesWereSent == Mode # "RTU" => (Spec => []SuccessWasSent)
<1> SUFFICES ASSUME Mode # "RTU" PROVE Spec => []SuccessWasSent
  OBVIOUS
<1>1. SentInv => SuccessWasSent
  BY DEF SentInv, SuccessWasSent
<1> QED BY AnswersInvariance, <1>1, PTL

=============================================================================
