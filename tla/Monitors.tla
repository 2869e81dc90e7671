------------------------------ MODULE Monitors ------------------------------
(***************************************************************************)
(* The two logs on screen.  The traffic monitor of a Modbus page keeps the *)
(* events, shows those its filters let through, batches them and can be    *)
(* paused (TrafficMonitorWidget.cpp); polled frames reach it sampled       *)
(* (TrafficLogController.cpp).  The byte monitor of a debugger view gets   *)
(* its lines as queued signals (ByteMonitorWidget.cpp).  Both show rows of *)
(* a LogListModel.                                                         *)
(***************************************************************************)
EXTENDS Integers, SequencesExt, FiniteSetsExt

CONSTANTS
  MaxRows,        \* kTrafficMonitorMaxBlockCount, kByteMonitorMaxBlockCount
  SampleRate,     \* kRawFrameSampleRate
  ChunkRows,      \* kTrafficLogExportChunkRows
  MaxEvents,      \* events logged in one behaviour
  MaxTouches      \* times the user touches the toolbar

ASSUME MonitorBounds == {MaxRows, SampleRate, ChunkRows} \subseteq Nat \ {0}

VARIABLES
  log,        \* TrafficMonitorWidget; again is history: what the last rebuild showed that
              \* waited still, to be shown once more
  frames,     \* TrafficLogController: the sampling, and all polled frames since the start
  bytes       \* ByteMonitorWidget

trafficVars == <<log, frames>>

-----------------------------------------------------------------------------
(* LogListModel *)

Newest(n, s) == SubSeq(s, IF Len(s) > n THEN Len(s) - n + 1 ELSE 1, Len(s))

\* appendEntries(): the oldest rows make room.
AppendEntries(entries, added) == Newest(MaxRows, entries \o Newest(MaxRows, added))

-----------------------------------------------------------------------------
(* The traffic monitor *)

Kinds == {"frame", "error", "info", "connection"}

\* renderEvent(): frames are for the raw mode, the level for what is no frame.
PassesFilters(m, event) ==
  IF event.kind = "frame" THEN m.raw ELSE m.level = "all" \/ event.kind = "error"

\* The events of a list that the filters let through, in their order.
Passing(m, events) ==
  LET kept[n \in 0..Len(events)] ==
        IF n = 0 THEN <<>>
        ELSE IF PassesFilters(m, events[n]) THEN Append(kept[n - 1], events[n]) ELSE kept[n - 1] IN
  kept[Len(events)]

\* A row is the sequence of the events it stands for.
RowsFor(m, events) == [i \in DOMAIN events |-> <<events[i].id>>]
Visible(m) == Passing(m, m.history)

\* flushPendingEvents(): neighbouring errors with the same text become one row.
Collapse(m, events) ==
  LET list == Passing(m, events)
      rows[n \in 0..Len(list)] ==
        IF n = 0 THEN <<>>
        ELSE IF n > 1 /\ list[n].kind = "error" /\ list[n - 1].kind = "error"
        THEN [rows[n - 1] EXCEPT ![Len(rows[n - 1])] = Append(@, list[n].id)]
        ELSE Append(rows[n - 1], <<list[n].id>>) IN
  rows[Len(list)]

\* Mutant of Flushed: the batch is not emptied.
FlushedAgain(m) == [m EXCEPT !.rows = AppendEntries(@, Collapse(m, m.pending))]

Flushed(m) ==
  [m EXCEPT !.rows = AppendEntries(@, Collapse(m, m.pending)), !.pending = <<>>]

\* appendEvent(): into the history; to the screen at once only a connection's event.
AppendEvent(m, kind) ==
  LET event == [id |-> m.next, kind |-> kind]
      kept == [m EXCEPT !.next = @ + 1, !.history = Newest(MaxRows, Append(@, event))] IN
  IF m.paused THEN [kept EXCEPT !.pausedCount = @ + 1]
  ELSE IF ~PassesFilters(kept, event) THEN kept
  ELSE IF kind = "connection"
  THEN LET d == Flushed(kept) IN [d EXCEPT !.rows = AppendEntries(@, <<<<event.id>>>>)]
  ELSE [kept EXCEPT !.pending = Append(@, event)]

MayLog == log.next <= MaxEvents

\* logInfo(), logError(), logConnectionInfo() and their like.
LogEvent ==
  /\ MayLog
  /\ \E kind \in Kinds \ {"frame"} : log' = AppendEvent(log, kind)
  /\ UNCHANGED frames

\* logRawFrame() of a manual request.
LogManualFrame ==
  /\ MayLog /\ log' = AppendEvent(log, "frame")
  /\ UNCHANGED frames

\* logRawFrame() while a poll is out: only in the raw mode, and one of SampleRate.
LogPolledFrame ==
  /\ MayLog /\ log.raw
  /\ LET phase == (frames.phase + 1) % SampleRate IN
     /\ frames' = [frames EXCEPT !.phase = phase, !.polled = @ + 1,
                     !.dropped = IF phase # 0 THEN @ + 1 ELSE @,
                     !.shown = IF phase = 0 THEN @ + 1 ELSE @]
     /\ log' = IF phase = 0 THEN AppendEvent(log, "frame") ELSE [log EXCEPT !.next = @ + 1]

\* logPollSummary(): reports the frames shown and dropped, and counts anew.
Summarized == [frames EXCEPT !.shown = 0, !.dropped = 0,
                 !.told = @ + frames.shown + frames.dropped, !.toldShown = @ + frames.shown]

LogPollSummary ==
  /\ MayLog /\ frames' = Summarized
  /\ log' = AppendEvent(log, "info")

FlushTimer == log.pending # <<>> /\ log' = Flushed(log) /\ UNCHANGED frames

IdsIn(events) == {events[i].id : i \in DOMAIN events}

\* rebuildVisibleEntries(), one turn of the event loop after it was scheduled.  What waits to
\* be flushed stays where it is, and comes again after the rows made for it here.
Rebuild ==
  /\ log.rebuild
  /\ log' = [log EXCEPT !.rebuild = FALSE, !.rows = RowsFor(log, Visible(log)),
                        !.again = IdsIn(Visible(log)) \cap IdsIn(log.pending)]
  /\ UNCHANGED frames

MayTouch == log.touches < MaxTouches
Touched == [log EXCEPT !.touches = @ + 1]

\* The pause button: pausing shows what waits; going on rebuilds the view.
Unpaused(m) == [m EXCEPT !.paused = FALSE, !.rebuild = TRUE]

PauseToggled ==
  /\ MayTouch
  /\ log' = IF log.paused THEN Unpaused(Touched)
            ELSE [Flushed(Touched) EXCEPT !.paused = TRUE, !.pausedCount = 0]
  /\ UNCHANGED frames

\* A filter box: what waits is shown under the new filter, then all is rebuilt.
Refiltered(m) == [(IF m.paused THEN m ELSE Flushed(m)) EXCEPT !.rebuild = TRUE]

RawToggled == MayTouch /\ log' = Refiltered([Touched EXCEPT !.raw = ~@]) /\ UNCHANGED frames
LevelChanged ==
  /\ MayTouch
  /\ log' = Refiltered([Touched EXCEPT !.level = IF @ = "all" THEN "error" ELSE "all"])
  /\ UNCHANGED frames

\* A change of language rebuilds without a flush.
Retranslated == MayTouch /\ log' = [Touched EXCEPT !.rebuild = TRUE] /\ UNCHANGED frames

ClearLog ==
  /\ MayTouch
  /\ log' = [Touched EXCEPT !.pending = <<>>, !.history = <<>>, !.rows = <<>>, !.pausedCount = 0,
                             !.again = {}]
  /\ UNCHANGED frames

\* onSaveClicked(): the lines of now are written chunk by chunk on the pool; a failure
\* is logged.  A bound: one save at a time.
SaveLog ==
  /\ MayTouch /\ log.chunks = 0
  /\ LET d == IF log.paused THEN Touched ELSE Flushed(Touched) IN
     log' = [d EXCEPT !.chunks = (Len(Visible(d)) + ChunkRows - 1) \div ChunkRows]
  /\ UNCHANGED frames

ChunkSaved ==
  /\ log.chunks > 0
  /\ \/ log' = [log EXCEPT !.chunks = @ - 1]
     \/ log' = [AppendEvent(log, "error") EXCEPT !.chunks = 0]
  /\ UNCHANGED frames

TrafficInit ==
  /\ log = [history |-> <<>>, pending |-> <<>>, rows |-> <<>>, paused |-> FALSE, pausedCount |-> 0,
            raw |-> FALSE, level |-> "all", rebuild |-> TRUE, chunks |-> 0, next |-> 1, touches |-> 0,
            again |-> {}]
  /\ frames = [phase |-> 0, shown |-> 0, dropped |-> 0, polled |-> 0, told |-> 0, toldShown |-> 0]

TrafficNext ==
  \/ LogEvent \/ LogManualFrame \/ LogPolledFrame \/ LogPollSummary \/ FlushTimer \/ Rebuild
  \/ PauseToggled \/ RawToggled \/ LevelChanged \/ Retranslated \/ ClearLog \/ SaveLog \/ ChunkSaved

-----------------------------------------------------------------------------
(* The byte monitor *)

ByteKinds == {"tx", "rx", "message"}

BytesInit ==
  bytes = [queue |-> <<>>, pending |-> <<>>, rows |-> <<>>, showTx |-> TRUE, showRx |-> TRUE,
           stats |-> [tx |-> 0, rx |-> 0], stamp |-> "absolute", paused |-> FALSE,
           next |-> 1, touches |-> 0, taken |-> <<>>]

\* appendTx(), appendRx(), appendInfo() ..., from any thread: a queued signal.
Emit ==
  /\ bytes.next <= MaxEvents
  /\ \E kind \in ByteKinds :
       bytes' = [bytes EXCEPT !.next = @ + 1, !.queue = Append(@, [id |-> bytes.next, kind |-> kind])]

Hidden(line) == (line.kind = "tx" /\ ~bytes.showTx) \/ (line.kind = "rx" /\ ~bytes.showRx)

\* onTxData(), onRxData(), onInfoMessage() ...: a hidden direction is neither shown nor
\* counted; only an absolute stamp is taken now.
Take ==
  /\ bytes.queue # <<>>
  /\ LET line == Head(bytes.queue) IN
     bytes' = IF Hidden(line) THEN [bytes EXCEPT !.queue = Tail(@)]
              ELSE [bytes EXCEPT !.queue = Tail(@),
                      !.pending = Append(@, line.id), !.taken = Append(@, line),
                      !.stats.tx = IF line.kind = "tx" THEN @ + 1 ELSE @,
                      !.stats.rx = IF line.kind = "rx" THEN @ + 1 ELSE @]

FlushedBytes(b) ==
  [b EXCEPT !.rows = AppendEntries(@, b.pending), !.pending = <<>>]

FlushBytes == bytes.pending # <<>> /\ bytes' = FlushedBytes(bytes)

MayTouchBytes == bytes.touches < MaxTouches
TouchedBytes == [bytes EXCEPT !.touches = @ + 1]

\* onDisplayModeChanged(), onCopyClicked(): what waits is shown; the rows keep their text.
ModeChanged == MayTouchBytes /\ bytes' = FlushedBytes(TouchedBytes)
ShowTxToggled == MayTouchBytes /\ bytes' = [TouchedBytes EXCEPT !.showTx = ~@]
ShowRxToggled == MayTouchBytes /\ bytes' = [TouchedBytes EXCEPT !.showRx = ~@]

\* onSaveClicked(): a failure is one more queued message.
SaveBytes ==
  /\ MayTouchBytes
  /\ LET d == FlushedBytes(TouchedBytes) IN
     \/ bytes' = d
     \/ /\ bytes.next <= MaxEvents
        /\ bytes' = [d EXCEPT !.next = @ + 1, !.queue = Append(@, [id |-> bytes.next, kind |-> "message"])]

\* clear(): what is still in the queue comes after.
Cleared(b) == [FlushedBytes(b) EXCEPT !.rows = <<>>, !.taken = <<>>, !.stats = [tx |-> 0, rx |-> 0]]

ClearBytes == MayTouchBytes /\ bytes' = Cleared(TouchedBytes)

BytesNext ==
  \/ Emit \/ Take \/ FlushBytes \/ ModeChanged \/ ShowTxToggled \/ ShowRxToggled
  \/ SaveBytes \/ ClearBytes

-----------------------------------------------------------------------------
(* Properties *)

Shown == UNION {ToSet(log.rows[i]) : i \in DOMAIN log.rows}
AtRest == ~log.paused /\ ~log.rebuild /\ log.pending = <<>>

\* What came into the log after the i-th event it has, and passes the filters.
Later(i) == {j \in DOMAIN log.history : j > i /\ PassesFilters(log, log.history[j])}

\* Once nothing waits, every event the filters let through and the history still has is on
\* screen, be it as one of a collapsed row, but for the oldest, as many at most as lines came
\* again: with those and all that is later the screen is full.
NothingMissing ==
  AtRest => \A i \in DOMAIN log.history :
    PassesFilters(log, log.history[i]) =>
      log.history[i].id \in Shown \/ Cardinality(Later(i)) + Cardinality(log.again) >= MaxRows

\* No event is in two rows but those that waited during the last rebuild.
OnceEach ==
  \A i, j \in DOMAIN log.rows : i # j => ToSet(log.rows[i]) \cap ToSet(log.rows[j]) \subseteq log.again

\* One of every SampleRate polled frames is shown, across summaries, and the summaries
\* account for every one ("phase is kept so the 1/N rhythm stays stable").
SamplingAccounts ==
  /\ frames.toldShown + frames.shown = frames.polled \div SampleRate
  /\ frames.told + frames.shown + frames.dropped = frames.polled

\* The byte monitor shows the newest lines it took since the last clear, in their order,
\* each once.
LinesInOrder ==
  LET shown == bytes.rows \o bytes.pending
      taken == [i \in DOMAIN bytes.taken |-> bytes.taken[i].id] IN
  shown = Newest(Len(shown), taken) /\ (Len(taken) <= MaxRows => shown = taken)

\* The byte counts are those of the lines taken since the last clear.
StatsAgree ==
  \A dir \in {"tx", "rx"} : bytes.stats[dir] = Cardinality({i \in DOMAIN bytes.taken : bytes.taken[i].kind = dir})

\* The byte monitor loses and repeats nothing.  The traffic monitor repeats only what waited
\* during a rebuild, and loses no more lines than it so repeats.  Both count everything.
MonitorsComplete == NothingMissing /\ OnceEach /\ SamplingAccounts /\ LinesInOrder /\ StatsAgree

=============================================================================
