------------------------------- MODULE Analyzer -------------------------------
(***************************************************************************)
(* The frame analyzer: the view and its state (FrameAnalyzerView.cpp), the *)
(* worker that parses on a thread of its own (FrameParseWorker.cpp), and   *)
(* the link that feeds it with live responses (AnalyzerLinkCoordinator.cpp,*)
(* whose page side is in ModbusPage).  A frame is a member of a small set; *)
(* what the parser makes of it is in FrameParser.                          *)
(***************************************************************************)
EXTENDS Integers, Sequences, SequencesExt

CONSTANTS
  GoodTexts, BadTexts,  \* inputs that parse, and that do not
  MaxParses,            \* bound: requests to the worker
  MaxLive,              \* bound: live responses
  MaxHistory            \* kFrameAnalyzerMaxHistoryItems

ASSUME HistoryHolds == MaxHistory \in Nat \ {0}

VARIABLES
  view,        \* FrameAnalyzerView: input and address, latestParseRequestId,
               \* parseInProgress, currentResult, what is shown, history, live flags
  toParser,    \* events posted to the parse thread
  parser,      \* FrameParseWorker: pendingRequest (or none), processing_
  toView,      \* parseFinished events posted to the GUI thread
  link,        \* AnalyzerLinkCoordinator: state_ and bufferedLiveData_
  asked,       \* the text of the latest request, none after a clear
  arrived      \* the newest live response the link was given and the view did not refuse

analyzerVars == <<view, toParser, parser, toView, link, asked, arrived>>

Blank == "blank"
Texts == GoodTexts \cup BadTexts \cup {Blank}
NoResult == [src |-> "none", id |-> 0, text |-> Blank, valid |-> FALSE]
LiveResult(n) == [src |-> "live", id |-> n, text |-> Blank, valid |-> TRUE]
Parsed(request) == [src |-> "parse", id |-> request.id, text |-> request.text,
                    valid |-> request.text \in GoodTexts]

-----------------------------------------------------------------------------
(* The view; v is its state *)

\* renderResult(): what is not valid clears the tables.
RenderResult(v, r) == [v EXCEPT !.shown = IF r.valid THEN r ELSE NoResult]

\* clearResult() leaves live mode; the last live result stays on show.
ClearResult(v) ==
  LET off == [v EXCEPT !.live = FALSE, !.paused = FALSE, !.shown = NoResult] IN
  IF v.live /\ v.lastLive.valid THEN RenderResult(off, v.lastLive) ELSE off

Acceptable(v) == v.input # Blank /\ v.addressOk

\* onParseClicked() up to the request.
StartParse(v) ==
  IF Acceptable(v) THEN [ClearResult(v) EXCEPT !.latest = @ + 1, !.parsing = TRUE]
  ELSE ClearResult(v)

\* onClearClicked()
Clear(v) ==
  [ClearResult([v EXCEPT !.input = Blank]) EXCEPT !.latest = v.latest + 1, !.parsing = FALSE]

\* processLivePdu(): a parse in progress is not disturbed.
ProcessLivePdu(v, n) ==
  LET live == [v EXCEPT !.live = TRUE]
      kept == [live EXCEPT !.lastLive = LiveResult(n)] IN
  IF v.parsing THEN live
  ELSE IF v.paused THEN kept ELSE RenderResult(kept, LiveResult(n))

Submit(v) ==
  /\ view' = StartParse(v)
  /\ toParser' = IF Acceptable(v)
                 THEN Append(toParser, [kind |-> "enqueue", id |-> v.latest + 1, text |-> v.input])
                 ELSE toParser
  /\ asked' = IF Acceptable(v) THEN v.input ELSE asked

CanParse == view.latest < MaxParses

-----------------------------------------------------------------------------
(* The user *)

Edit ==
  /\ \E text \in Texts, ok \in BOOLEAN : view' = [view EXCEPT !.input = text, !.addressOk = ok]
  /\ view' # view
  /\ UNCHANGED <<toParser, parser, toView, link, asked, arrived>>

\* The button, and Paste & Parse; both are disabled during a parse.
ClickParse ==
  /\ CanParse /\ ~view.parsing
  /\ \E text \in {view.input} \cup (Texts \ {Blank}) : Submit([view EXCEPT !.input = text])
  /\ UNCHANGED <<parser, toView, link, arrived>>

\* The builder's frame: loadAndParseHex().
LoadFrame ==
  /\ CanParse
  /\ \E text \in GoodTexts :
       Submit([ClearResult(view) EXCEPT !.input = text, !.addressOk = TRUE])
  /\ UNCHANGED <<parser, toView, link, arrived>>

\* The decode type or the byte order changes: the input is parsed again, without
\* the button, or the last parsed result is rendered anew.
ChangeDecode ==
  /\ CanParse
  /\ \/ ~view.live /\ view.input # Blank /\ Submit(view)
     \/ /\ view.live \/ view.input = Blank
        /\ view.current.valid
        /\ view' = RenderResult(view, [view.current EXCEPT !.src = "again"])
        /\ UNCHANGED <<toParser, asked>>
  /\ UNCHANGED <<parser, toView, link, arrived>>

\* onImportJsonClicked() of a good file: the address comes from it, and a decode
\* type that differs has parsed once already.
ImportConfig ==
  /\ view.latest + 1 < MaxParses
  /\ \E ok, differs \in BOOLEAN :
       LET v == [view EXCEPT !.addressOk = ok]
           first == IF differs /\ ~v.live /\ v.input # Blank THEN StartParse(v) ELSE v IN
       IF v.input = Blank
       THEN view' = ClearResult(v) /\ UNCHANGED <<toParser, asked>>
       ELSE /\ view' = StartParse(first)
            /\ LET Request(id) == [kind |-> "enqueue", id |-> id, text |-> v.input] IN
               toParser' = toParser \o
                 IF ~ok THEN <<>>
                 ELSE [i \in 1..(view'.latest - v.latest) |-> Request(v.latest + i)]
            /\ asked' = IF ok THEN v.input ELSE asked
  /\ UNCHANGED <<parser, toView, link, arrived>>

ClickClear ==
  /\ CanParse
  /\ view' = Clear(view) /\ asked' = Blank
  /\ UNCHANGED <<toParser, parser, toView, link, arrived>>

\* A row of the history is chosen.
ChooseHistory ==
  /\ \E i \in DOMAIN view.history :
       LET old == [view.history[i] EXCEPT !.src = "history"] IN
       view' = RenderResult([view EXCEPT !.current = old], old)
  /\ UNCHANGED <<toParser, parser, toView, link, asked, arrived>>

ClearHistory ==
  /\ view.history # <<>> /\ view' = [view EXCEPT !.history = <<>>]
  /\ UNCHANGED <<toParser, parser, toView, link, asked, arrived>>

-----------------------------------------------------------------------------
(* The parse thread *)

\* Mutant of Enqueue: a request that comes while one is pending is refused.
EnqueueFirst(e) ==
  /\ parser' = [pending |-> IF parser.pending.id = 0 THEN e ELSE parser.pending,
                processing |-> TRUE]
  /\ toParser' = Tail(toParser) \o (IF parser.processing THEN <<>> ELSE <<[kind |-> "process"]>>)

\* enqueueParse(): the newest request replaces the pending one.
Enqueue(e) ==
  /\ parser' = [pending |-> e, processing |-> TRUE]
  /\ toParser' = Tail(toParser) \o (IF parser.processing THEN <<>> ELSE <<[kind |-> "process"]>>)

NoRequest == [kind |-> "enqueue", id |-> 0, text |-> Blank]

RunParse ==
  /\ toParser # <<>>
  /\ \/ /\ Head(toParser).kind = "enqueue"
        /\ Enqueue(Head(toParser))
        /\ UNCHANGED toView
     \/ /\ Head(toParser).kind = "process"   \* processPending()
        /\ toView' = IF parser.pending.id # 0 THEN Append(toView, Parsed(parser.pending)) ELSE toView
        /\ parser' = [pending |-> NoRequest, processing |-> FALSE]
        /\ toParser' = Tail(toParser)
  /\ UNCHANGED <<view, link, asked, arrived>>

\* onParseFinished(): only the latest request counts.
ParseFinished ==
  /\ toView # <<>>
  /\ LET r == Head(toView)
         v == RenderResult([view EXCEPT !.parsing = FALSE, !.current = r], r) IN
     view' = IF r.id # view.latest THEN view
             ELSE IF r.valid
             THEN [v EXCEPT !.history = SubSeq(<<r>> \o @, 1,
                      IF Len(@) < MaxHistory THEN Len(@) + 1 ELSE MaxHistory)]
             ELSE v
  /\ toView' = Tail(toView)
  /\ UNCHANGED <<toParser, parser, link, asked, arrived>>

-----------------------------------------------------------------------------
(* The link: AnalyzerLinkCoordinator *)

SetPaused(v, paused) == [v EXCEPT !.paused = paused]

LinkOn ==
  /\ link.state = "Idle" /\ link' = [state |-> "Live", buffered |-> 0, count |-> link.count]
  /\ view' = SetPaused(view, FALSE) /\ arrived' = view.lastLive.id
  /\ UNCHANGED <<toParser, parser, toView, asked>>

\* The page, the analyzer's stop button or a disconnect ends it; a page that was
\* not linked may say so once more.
LinkOff ==
  /\ link' = [link EXCEPT !.state = "Idle", !.buffered = 0]
  /\ view' = ClearResult(view)
  /\ UNCHANGED <<toParser, parser, toView, asked, arrived>>

\* handleLiveData(): a pause keeps the newest.
LiveData ==
  /\ link.state # "Idle" /\ link.count < MaxLive
  /\ LET n == link.count + 1 IN
     IF link.state = "Paused"
     THEN link' = [link EXCEPT !.count = n, !.buffered = n] /\ UNCHANGED <<view, arrived>>
     ELSE /\ link' = [link EXCEPT !.count = n, !.buffered = 0]
          /\ view' = SetPaused(ProcessLivePdu(view, n), FALSE)
          /\ arrived' = IF view.parsing THEN arrived ELSE n
  /\ UNCHANGED <<toParser, parser, toView, asked>>

Pause ==
  /\ link.state = "Live" /\ view.live /\ link' = [link EXCEPT !.state = "Paused"]
  /\ view' = SetPaused(view, TRUE)
  /\ UNCHANGED <<toParser, parser, toView, asked, arrived>>

\* Mutant of Resume: what came during the pause is forgotten.
ResumeBare ==
  /\ link.state = "Paused" /\ view.live
  /\ link' = [link EXCEPT !.state = "Live", !.buffered = 0]
  /\ view' = SetPaused(view, FALSE)
  /\ arrived' = IF link.buffered # 0 /\ ~view.parsing THEN link.buffered ELSE arrived
  /\ UNCHANGED <<toParser, parser, toView, asked>>

\* requestPause(FALSE), replayBufferedLiveDataIfNeeded()
Resume ==
  /\ link.state = "Paused" /\ view.live
  /\ link' = [link EXCEPT !.state = "Live", !.buffered = 0]
  /\ LET v == SetPaused(view, FALSE) IN
     view' = IF link.buffered = 0 THEN v
             ELSE SetPaused(ProcessLivePdu(v, link.buffered), FALSE)
  /\ arrived' = IF link.buffered # 0 /\ ~view.parsing THEN link.buffered ELSE arrived
  /\ UNCHANGED <<toParser, parser, toView, asked>>

-----------------------------------------------------------------------------
AnalyzerInit ==
  /\ view = [input |-> Blank, addressOk |-> TRUE, latest |-> 0, parsing |-> FALSE,
             current |-> NoResult, shown |-> NoResult, lastLive |-> NoResult,
             live |-> FALSE, paused |-> FALSE, history |-> <<>>]
  /\ toParser = <<>> /\ toView = <<>> /\ parser = [pending |-> NoRequest, processing |-> FALSE]
  /\ link = [state |-> "Idle", buffered |-> 0, count |-> 0]
  /\ asked = Blank /\ arrived = 0

AnalyzerNext ==
  \/ Edit \/ ClickParse \/ LoadFrame \/ ChangeDecode \/ ImportConfig \/ ClickClear
  \/ ChooseHistory \/ ClearHistory \/ RunParse \/ ParseFinished
  \/ LinkOn \/ LinkOff \/ LiveData \/ Pause \/ Resume

\* Both threads run their event loops.
AnalyzerFairness == WF_analyzerVars(RunParse) /\ WF_analyzerVars(ParseFinished)

-----------------------------------------------------------------------------
(* Properties *)

\* A parsed frame on show, unless the user took it from the history or asked for
\* it to be rendered anew in live mode, is the frame of the latest request: not
\* one that was overtaken or cleared while the worker was busy with it.
ShownWasAsked ==
  view.shown.src = "parse" => view.shown.text = asked

\* The parse buttons come back: the latest request is answered, also when it
\* replaced one the worker had not begun.
ParseEnds == view.parsing ~> ~view.parsing

\* In live mode the view is paused exactly when the link is, and there is no live
\* mode without a link.
PauseAgrees == view.live => link.state # "Idle" /\ (view.paused <=> link.state = "Paused")

\* While the link is live the view has the newest response, the one that came
\* during a pause included, unless a parse was in progress when it was due.
LiveCatchesUp == link.state = "Live" => view.lastLive.id = arrived

\* What the analyzer shows is current: the latest frame asked for, or the newest live
\* one the link let through.
ShowsCurrent == ShownWasAsked /\ PauseAgrees /\ LiveCatchesUp

=============================================================================
