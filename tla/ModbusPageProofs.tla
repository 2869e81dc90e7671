--------------------------- MODULE ModbusPageProofs ---------------------------
(***************************************************************************)
(* Theorems about ModbusPage, for any number of clicks, losses, alerts,    *)
(* posted events and request ids.                                          *)
(*                                                                         *)
(* A step of the GUI thread is a chain of handlers on its state, so the    *)
(* inductive invariant is stated of such a state, a, and every handler is  *)
(* shown to keep it; Becomes then relates a to the stack that follows.     *)
(***************************************************************************)
EXTENDS ModbusPage, TLAPS

-----------------------------------------------------------------------------
(* Types *)

Shown == UiStates \ {"TransportConnected"}

Args == Modes \cup {"", "ok", "failed", "Opening", "Open", "Closing", "Closed", "Error"}
Sessional == {"channel", "connectFinished", "requestFinished"}

Events == [e : Sessional \cup {"teardown", "runDeferred"}, fresh : BOOLEAN,
           id : Ids \cup {0}, arg : Args]

PollSet == [state : {"Idle", "Polling", "Degraded", "Escalated"}, timer : BOOLEAN,
            valid : BOOLEAN, inFlight : BOOLEAN, connected : BOOLEAN, errors : 0 .. 2,
            fault : BOOLEAN, fatal : BOOLEAN]

AppSet ==
  [shown : Modes, mode : Modes, pending : Modes, watching : BOOLEAN,
   guards : {"Disconnected", "Connected"}, pollBox : BOOLEAN, linkBox : BOOLEAN,
   pageLinked : BOOLEAN, ui : UiStates, explicit : BOOLEAN,
   deferred : Modes \cup {NoMode}, linked : BOOLEAN, live : BOOLEAN, releases : Nat,
   poll : PollSet, polls : SUBSET Ids, reads : SUBSET Ids,
   link : {"Idle", "Live", "Paused"}, buffered : BOOLEAN,
   display : [{"tcp", "serial"} -> Shown],
   posted : Seq(Events), leaving : Seq(Events), alerts : 0 .. MaxAlerts,
   submit : Seq(Ids), started : Modes \cup {NoMode}]

StackSet ==
  [core : {"Disconnected", "Connecting", "Connected", "Failed"},
   channel : {"Closed", "Opening", "Open"}, attempt : {"none", "connect", "heal"},
   held : Seq(Ids)]

\* What a handler that only shows something, or stops a poll, leaves alone.
Kept(a, b) ==
  /\ b \in AppSet
  /\ b.live = a.live /\ b.deferred = a.deferred /\ b.releases = a.releases
  /\ b.link = a.link /\ b.linked = a.linked /\ b.pageLinked = a.pageLinked
  /\ b.linkBox = a.linkBox /\ b.mode = a.mode /\ b.watching = a.watching
  /\ b.posted = a.posted /\ b.leaving = a.leaving
  /\ b.submit = a.submit /\ b.started = a.started
  /\ b.polls = a.polls /\ b.reads = a.reads
  /\ b.poll.timer => a.poll.timer
  /\ b.poll.inFlight => a.poll.inFlight

Tame(a, b) == Kept(a, b) /\ b.ui = a.ui

\* From a to b nothing is taken from what is posted.
Longer(a, b) == Len(b.posted) >= Len(a.posted)

LEMMA SameLonger ==
  ASSUME NEW a \in AppSet, NEW b, b.posted = a.posted
  PROVE  Longer(a, b)
<1>1. a.posted \in Seq(Events)
  BY DEF AppSet
<1>2. Len(a.posted) \in Nat
  BY <1>1
<1> QED BY <1>2 DEF Longer

LEMMA LongerTransitive ==
  ASSUME NEW a \in AppSet, NEW b \in AppSet, NEW c \in AppSet, Longer(a, b), Longer(b, c)
  PROVE  Longer(a, c)
<1>1. a.posted \in Seq(Events) /\ b.posted \in Seq(Events) /\ c.posted \in Seq(Events)
  BY DEF AppSet
<1>2. Len(a.posted) \in Nat /\ Len(b.posted) \in Nat /\ Len(c.posted) \in Nat
  BY <1>1
<1> QED BY <1>2 DEF Longer

LEMMA TameTransitive ==
  ASSUME NEW a, NEW b, NEW c, Tame(a, b), Tame(b, c)
  PROVE  Tame(a, c)
BY DEF Tame, Kept

LEMMA TameDisplay ==
  ASSUME NEW a \in AppSet, NEW s \in UiStates
  PROVE  Tame(a, Display(a, s))
<1> DEFINE w == WidgetOf(a.mode)
           t == IF s = "TransportConnected" THEN "Connected" ELSE s
           d == [a.display EXCEPT ![w] = t]
<1>1. w \in {"tcp", "serial"} /\ t \in Shown
  BY DEF WidgetOf, UiStates, Shown
<1>2. a.display \in [{"tcp", "serial"} -> Shown]
  BY DEF AppSet
<1>3. d \in [{"tcp", "serial"} -> Shown]
  BY <1>1, <1>2
<1>4. Display(a, s) = [a EXCEPT !.display = d]
  BY DEF Display
<1> HIDE DEF d
<1> QED BY ZenonT(40), <1>3, <1>4 DEF Tame, Kept, AppSet

LEMMA TameGuards ==
  ASSUME NEW a \in AppSet, NEW s \in {"Disconnected", "Connected"}
  PROVE  Tame(a, SyncGuards(a, s))
<1> DEFINE box == a.pollBox /\ s = "Connected"
<1>1. box \in BOOLEAN
  OBVIOUS
<1>2. SyncGuards(a, s) = IF a.guards = s THEN a ELSE [a EXCEPT !.guards = s, !.pollBox = box]
  BY DEF SyncGuards
<1> HIDE DEF box
<1>3. Tame(a, a)
  BY DEF Tame, Kept
<1>4. Tame(a, [a EXCEPT !.guards = s, !.pollBox = box])
  BY <1>1 DEF Tame, Kept, AppSet
<1> QED BY <1>2, <1>3, <1>4

LEMMA TameLinkData ==
  ASSUME NEW a \in AppSet
  PROVE  Tame(a, LinkData(a))
<1> DEFINE buf == a.link = "Paused"
<1>1. buf \in BOOLEAN
  OBVIOUS
<1>2. LinkData(a) = IF a.link = "Idle" THEN a ELSE [a EXCEPT !.buffered = buf]
  BY DEF LinkData
<1> HIDE DEF buf
<1>3. Tame(a, a)
  BY DEF Tame, Kept
<1>4. Tame(a, [a EXCEPT !.buffered = buf])
  BY <1>1 DEF Tame, Kept, AppSet
<1> QED BY <1>2, <1>3, <1>4

LEMMA PollTypes ==
  /\ NoPoll \in PollSet /\ NoPoll.timer = FALSE /\ NoPoll.inFlight = FALSE
  /\ \A p \in PollSet :
       /\ p.state \in {"Idle", "Polling", "Degraded", "Escalated"} /\ p.timer \in BOOLEAN
       /\ p.valid \in BOOLEAN /\ p.inFlight \in BOOLEAN /\ p.connected \in BOOLEAN
       /\ p.errors \in 0 .. 2 /\ p.fault \in BOOLEAN /\ p.fatal \in BOOLEAN
BY DEF NoPoll, PollSet

LEMMA TameStopPoll ==
  ASSUME NEW a \in AppSet
  PROVE  Tame(a, StopPoll(a)) /\ ~StopPoll(a).poll.timer /\ ~StopPoll(a).poll.inFlight
<1> DEFINE c == a.poll.connected
           v == a.poll.valid
           p == [NoPoll EXCEPT !.connected = c, !.valid = v]
<1>0. c \in BOOLEAN /\ v \in BOOLEAN
  BY PollTypes DEF AppSet
<1>1. p \in PollSet /\ p.timer = FALSE /\ p.inFlight = FALSE
  <2> HIDE DEF c, v
  <2>1. ASSUME NEW q \in PollSet
        PROVE  LET r == [q EXCEPT !.connected = c, !.valid = v]
               IN  r \in PollSet /\ r.timer = q.timer /\ r.inFlight = q.inFlight
    BY <1>0 DEF PollSet
  <2> QED BY <2>1, PollTypes
<1>2. StopPoll(a) = [a EXCEPT !.poll = p, !.pollBox = FALSE]
  BY DEF StopPoll
<1> HIDE DEF p
<1>3. Tame(a, [a EXCEPT !.poll = p, !.pollBox = FALSE])
  BY <1>1 DEF Tame, Kept, AppSet
<1>4. StopPoll(a).poll = p
  BY <1>2 DEF AppSet
<1> QED BY <1>1, <1>2, <1>3, <1>4

LEMMA TameKeeps == ASSUME NEW a \in AppSet PROVE Tame(a, a)
BY DEF Tame, Kept

LEMMA TamePollSession ==
  ASSUME NEW a \in AppSet, NEW connected \in BOOLEAN, NEW stop \in BOOLEAN
  PROVE  Tame(a, PollSession(a, connected, stop))
<1> DEFINE f == ~connected
           x == a.poll.fatal /\ ~connected
           p == [a.poll EXCEPT !.connected = connected, !.fault = f, !.fatal = x]
           b == [a EXCEPT !.poll = p]
<1>1. f \in BOOLEAN /\ x \in BOOLEAN /\ a.poll \in PollSet
  BY DEF AppSet
<1>2. p \in PollSet /\ p.timer = a.poll.timer /\ p.inFlight = a.poll.inFlight
  <2> HIDE DEF f, x
  <2>1. ASSUME NEW q \in PollSet
        PROVE  LET r == [q EXCEPT !.connected = connected, !.fault = f, !.fatal = x]
               IN  r \in PollSet /\ r.timer = q.timer /\ r.inFlight = q.inFlight
    BY <1>1 DEF PollSet
  <2> QED BY <1>1, <2>1
<1>3. PollSession(a, connected, stop) = b \/ PollSession(a, connected, stop) = StopPoll(b)
  <2> DEFINE over == ~connected /\ stop /\ (a.poll.inFlight \/ a.poll.state # "Idle")
  <2>1. PollSession(a, connected, stop) = IF over THEN StopPoll(b) ELSE b
    BY DEF PollSession
  <2> HIDE DEF over, b
  <2> QED BY <2>1
<1> HIDE DEF p
<1>4. Tame(a, b) /\ b \in AppSet
  BY <1>2 DEF Tame, Kept, AppSet
<1> HIDE DEF b
<1> QED BY <1>3, <1>4, TameStopPoll, TameTransitive

LEMMA TameDisconnected ==
  ASSUME NEW a \in AppSet
  PROVE  Tame(a, SessionDisconnected(a))
<1>1. Tame(a, PollSession(a, FALSE, TRUE))
  BY TamePollSession
<1>2. PollSession(a, FALSE, TRUE) \in AppSet
  BY <1>1 DEF Tame, Kept
<1> QED BY <1>1, <1>2, TameGuards, TameTransitive DEF SessionDisconnected

LEMMA TameConnected ==
  ASSUME NEW a \in AppSet
  PROVE  Tame(a, SessionConnected(a))
<1>1. Tame(a, PollSession(a, TRUE, FALSE))
  BY TamePollSession
<1>2. PollSession(a, TRUE, FALSE) \in AppSet
  BY <1>1 DEF Tame, Kept
<1> QED BY <1>1, <1>2, TameGuards, TameTransitive DEF SessionConnected

LEMMA TameReportLoss ==
  ASSUME NEW a \in AppSet
  PROVE  Tame(a, ReportLoss(a))
<1>1. Tame(a, StopPoll(a)) /\ StopPoll(a) \in AppSet
  BY TameStopPoll DEF Tame, Kept
<1>2. Tame(a, SessionDisconnected(StopPoll(a)))
  BY <1>1, TameDisconnected, TameTransitive
<1>3. Tame(a, PollSession(a, FALSE, FALSE))
  BY TamePollSession
<1> QED BY <1>2, <1>3 DEF ReportLoss

\* Showing a state of the session.
LEMMA SetUiKeeps ==
  ASSUME NEW a \in AppSet, NEW s \in UiStates
  PROVE  Kept(a, SetUi(a, s)) /\ SetUi(a, s).ui = s /\ SetUi(a, s).alerts = a.alerts
<1> DEFINE x == CASE s \in {"Connecting", "Connected"} -> FALSE
                  [] s = "Disconnecting" -> TRUE
                  [] OTHER -> a.explicit
           b == [a EXCEPT !.ui = s, !.explicit = x]
<1>1. x \in BOOLEAN
  BY DEF AppSet
<1>2. SetUi(a, s) = Display(b, s)
  BY DEF SetUi
<1> HIDE DEF x
<1>3. Kept(a, b) /\ b.ui = s /\ b \in AppSet /\ b.alerts = a.alerts
  BY <1>1 DEF Kept, AppSet
<1> HIDE DEF b
<1>4. Display(b, s).alerts = b.alerts
  BY <1>3 DEF Display, AppSet
<1> QED BY <1>2, <1>3, <1>4, TameDisplay DEF Tame, Kept

LEMMA DeriveType ==
  ASSUME stack \in StackSet, NEW m
  PROVE  DeriveUi(m) \in UiStates
BY DEF DeriveUi, StackSet, UiStates

LEMMA SyncKeeps ==
  ASSUME NEW a \in AppSet, stack \in StackSet
  PROVE  /\ Kept(a, SyncFromCore(a)) /\ SyncFromCore(a).alerts = a.alerts
         /\ SyncFromCore(a).ui = IF a.live THEN DeriveUi(a.mode) ELSE a.ui
<1>1. CASE ~a.live \/ DeriveUi(a.mode) = a.ui
  BY <1>1, TameKeeps DEF SyncFromCore, Tame
<1>2. CASE ~(~a.live \/ DeriveUi(a.mode) = a.ui)
  BY <1>2, DeriveType, SetUiKeeps DEF SyncFromCore
<1> QED BY <1>1, <1>2

-----------------------------------------------------------------------------
(* Posted events *)

\* q is posted or about to be, for a page that is live or not, waits to connect
\* or not and is watched by a switch or not.  A deferred connect is posted once,
\* while nothing is live; so is a teardown, by a switch that watches no longer;
\* and only a live stack's events are fresh.
PostedSound(q, live, deferred, watching) ==
  /\ q \in Seq(Events)
  /\ \A i \in DOMAIN q : q[i].e = "runDeferred" =>
       /\ q[i].arg \in Modes /\ ~live /\ deferred = NoMode
       /\ \A j \in DOMAIN q : q[j].e = "runDeferred" => j = i
  /\ \A i \in DOMAIN q : q[i].e = "teardown" =>
       /\ ~watching
       /\ \A j \in DOMAIN q : q[j].e = "teardown" => j = i
  /\ \A i \in DOMAIN q : q[i].fresh /\ q[i].e \in Sessional => live

NoneOf(q, e) == \A i \in DOMAIN q : q[i].e # e

AllStale(q) == \A i \in DOMAIN q : ~(q[i].fresh /\ q[i].e \in Sessional)

LEMMA SeqFacts ==
  ASSUME NEW S, NEW q \in Seq(S)
  PROVE  /\ DOMAIN q = 1 .. Len(q) /\ Len(q) \in Nat
         /\ \A i \in DOMAIN q : q[i] \in S
         /\ \A v \in S : /\ Append(q, v) \in Seq(S) /\ Len(Append(q, v)) = Len(q) + 1
                         /\ DOMAIN Append(q, v) = 1 .. (Len(q) + 1)
                         /\ \A i \in DOMAIN q : Append(q, v)[i] = q[i]
                         /\ Append(q, v)[Len(q) + 1] = v
         /\ q # <<>> => /\ Head(q) = q[1] /\ 1 \in DOMAIN q /\ Tail(q) \in Seq(S)
                        /\ Len(Tail(q)) = Len(q) - 1 /\ DOMAIN Tail(q) = 1 .. (Len(q) - 1)
                        /\ \A i \in DOMAIN Tail(q) : Tail(q)[i] = q[i + 1] /\ i + 1 \in DOMAIN q
OBVIOUS

LEMMA ConcatFacts ==
  ASSUME NEW S, NEW q \in Seq(S), NEW r \in Seq(S)
  PROVE  /\ q \o r \in Seq(S) /\ Len(q \o r) = Len(q) + Len(r)
         /\ DOMAIN (q \o r) = 1 .. (Len(q) + Len(r))
         /\ \A i \in DOMAIN q : i \in DOMAIN (q \o r) /\ (q \o r)[i] = q[i]
         /\ \A i \in DOMAIN r : Len(q) + i \in DOMAIN (q \o r) /\ (q \o r)[Len(q) + i] = r[i]
         /\ \A i \in DOMAIN (q \o r) :
              i \in DOMAIN q \/ (i - Len(q) \in DOMAIN r /\ (q \o r)[i] = r[i - Len(q)])
OBVIOUS

LEMMA StaleFacts ==
  ASSUME NEW q \in Seq(Events)
  PROVE  /\ Stale(q) \in Seq(Events) /\ DOMAIN Stale(q) = DOMAIN q /\ Len(Stale(q)) = Len(q)
         /\ \A i \in DOMAIN q : Stale(q)[i].e = q[i].e /\ Stale(q)[i].arg = q[i].arg
         /\ AllStale(Stale(q))
<1>1. \A i \in DOMAIN q : q[i] \in Events
  BY SeqFacts
<1>2. ASSUME NEW v \in Events
      PROVE  [v EXCEPT !.fresh = FALSE] \in Events
             /\ [v EXCEPT !.fresh = FALSE].e = v.e /\ [v EXCEPT !.fresh = FALSE].arg = v.arg
             /\ [v EXCEPT !.fresh = FALSE].fresh = FALSE
  BY DEF Events
<1>3. \A i \in DOMAIN q : /\ Stale(q)[i] \in Events /\ Stale(q)[i].e = q[i].e
                          /\ Stale(q)[i].arg = q[i].arg
                          /\ q[i].e \in Sessional => Stale(q)[i].fresh = FALSE
  BY <1>1, <1>2 DEF Stale, Sessional
<1>4. DOMAIN q = 1 .. Len(q) /\ Len(q) \in Nat /\ DOMAIN Stale(q) = DOMAIN q
  BY SeqFacts DEF Stale
<1>5. Stale(q) \in Seq(Events) /\ Len(Stale(q)) = Len(q)
  <2>1. Stale(q) = [i \in 1 .. Len(q) |-> Stale(q)[i]]
    BY <1>4 DEF Stale
  <2> QED BY <1>3, <1>4, <2>1
<1> QED BY <1>3, <1>4, <1>5 DEF AllStale

LEMMA PostedStale ==
  ASSUME NEW q, NEW live, NEW d, NEW w, PostedSound(q, live, d, w), NEW d2,
         d2 = NoMode \/ NoneOf(q, "runDeferred")
  PROVE  PostedSound(Stale(q), FALSE, d2, w) /\ AllStale(Stale(q))
<1>1. q \in Seq(Events)
  BY DEF PostedSound
<1> QED BY <1>1, StaleFacts DEF PostedSound, NoneOf, AllStale

LEMMA PostedTail ==
  ASSUME NEW q, NEW live, NEW d, NEW w, PostedSound(q, live, d, w), q # <<>>
  PROVE  /\ PostedSound(Tail(q), live, d, w)
         /\ Head(q) \in Events
         /\ Head(q).e = "runDeferred" => /\ NoneOf(Tail(q), "runDeferred")
                                         /\ Head(q).arg \in Modes /\ ~live /\ d = NoMode
         /\ Head(q).e = "teardown" => NoneOf(Tail(q), "teardown") /\ ~w
         /\ AllStale(q) => AllStale(Tail(q))
         /\ \A e : NoneOf(q, e) => NoneOf(Tail(q), e)
<1>1. /\ q \in Seq(Events) /\ Head(q) = q[1] /\ 1 \in DOMAIN q /\ Tail(q) \in Seq(Events)
      /\ DOMAIN q = 1 .. Len(q) /\ Len(q) \in Nat /\ DOMAIN Tail(q) = 1 .. (Len(q) - 1)
      /\ \A i \in DOMAIN Tail(q) : Tail(q)[i] = q[i + 1] /\ i + 1 \in DOMAIN q /\ i + 1 # 1
      /\ \A i, j \in DOMAIN Tail(q) : i + 1 = j + 1 => i = j
      /\ q[1] \in Events
  BY SeqFacts DEF PostedSound
<1>2. PostedSound(Tail(q), live, d, w)
  BY <1>1 DEF PostedSound
<1>3. /\ Head(q).e = "runDeferred" => NoneOf(Tail(q), "runDeferred")
      /\ Head(q).e = "teardown" => NoneOf(Tail(q), "teardown")
      /\ \A e : NoneOf(q, e) => NoneOf(Tail(q), e)
  BY <1>1 DEF PostedSound, NoneOf
<1>4. AllStale(q) => AllStale(Tail(q))
  BY <1>1 DEF AllStale
<1> QED BY <1>1, <1>2, <1>3, <1>4 DEF PostedSound

LEMMA PostedAppend ==
  ASSUME NEW q, NEW live, NEW d, NEW w, PostedSound(q, live, d, w), NEW v \in Events,
         v.e = "runDeferred" => v.arg \in Modes /\ ~live /\ d = NoMode /\ NoneOf(q, "runDeferred"),
         v.e = "teardown" => ~w /\ NoneOf(q, "teardown"),
         v.fresh /\ v.e \in Sessional => live
  PROVE  /\ PostedSound(Append(q, v), live, d, w)
         /\ AllStale(q) /\ ~(v.fresh /\ v.e \in Sessional) => AllStale(Append(q, v))
         /\ \A e : NoneOf(q, e) /\ e # v.e => NoneOf(Append(q, v), e)
<1>1. /\ q \in Seq(Events) /\ Append(q, v) \in Seq(Events) /\ Len(q) \in Nat
      /\ DOMAIN q = 1 .. Len(q) /\ DOMAIN Append(q, v) = 1 .. (Len(q) + 1)
      /\ \A i \in DOMAIN q : Append(q, v)[i] = q[i]
      /\ Append(q, v)[Len(q) + 1] = v
  BY SeqFacts DEF PostedSound
<1>2. \A i \in DOMAIN Append(q, v) : i \in DOMAIN q \/ i = Len(q) + 1
  BY <1>1
<1>3. PostedSound(Append(q, v), live, d, w)
  <2> HIDE DEF NoneOf
  <2>1. ASSUME NEW i \in DOMAIN Append(q, v), Append(q, v)[i].e = "runDeferred"
        PROVE  /\ Append(q, v)[i].arg \in Modes /\ ~live /\ d = NoMode
               /\ \A j \in DOMAIN Append(q, v) : Append(q, v)[j].e = "runDeferred" => j = i
    BY <1>1, <1>2, <2>1 DEF PostedSound, NoneOf
  <2>2. ASSUME NEW i \in DOMAIN Append(q, v), Append(q, v)[i].e = "teardown"
        PROVE  ~w /\ \A j \in DOMAIN Append(q, v) : Append(q, v)[j].e = "teardown" => j = i
    BY <1>1, <1>2, <2>2 DEF PostedSound, NoneOf
  <2>3. ASSUME NEW i \in DOMAIN Append(q, v), Append(q, v)[i].fresh, Append(q, v)[i].e \in Sessional
        PROVE  live
    BY <1>1, <1>2, <2>3 DEF PostedSound
  <2> QED BY <1>1, <2>1, <2>2, <2>3 DEF PostedSound
<1>4. AllStale(q) /\ ~(v.fresh /\ v.e \in Sessional) => AllStale(Append(q, v))
  BY <1>1, <1>2 DEF AllStale
<1>5. \A e : NoneOf(q, e) /\ e # v.e => NoneOf(Append(q, v), e)
  BY <1>1, <1>2 DEF NoneOf
<1> QED BY <1>3, <1>4, <1>5

\* What the stack emits is sessional.
LEMMA PostedConcat ==
  ASSUME NEW q, NEW live, NEW d, NEW w, PostedSound(q, live, d, w), NEW r \in Seq(Events),
         \A i \in DOMAIN r : r[i].e \in Sessional /\ (r[i].fresh => live)
  PROVE  PostedSound(q \o r, live, d, w)
<1>1. /\ q \in Seq(Events) /\ q \o r \in Seq(Events) /\ Len(q) \in Nat
      /\ \A i \in DOMAIN q : (q \o r)[i] = q[i]
      /\ \A i \in DOMAIN (q \o r) :
           i \in DOMAIN q \/ (i - Len(q) \in DOMAIN r /\ (q \o r)[i] = r[i - Len(q)])
  BY ConcatFacts DEF PostedSound
<1>2. \A i \in DOMAIN (q \o r) : (q \o r)[i].e \in {"teardown", "runDeferred"} => i \in DOMAIN q
  BY <1>1 DEF Sessional
<1> QED BY <1>1, <1>2 DEF PostedSound

-----------------------------------------------------------------------------
(* The inductive invariant, of a state a of the GUI objects *)

LinkSound(a) ==
  /\ a.pageLinked <=> a.link # "Idle"
  /\ a.linked <=> a.pageLinked
  /\ a.linkBox => a.pageLinked

LeavingSound(q) ==
  /\ q \in Seq(Events)
  /\ \A i \in DOMAIN q : q[i].e \in Sessional /\ ~q[i].fresh

\* Without a stack nothing is asked for and no poll waits for its timer.
Quiet(a) == ~a.live => a.polls = {} /\ a.reads = {} /\ ~a.poll.timer /\ ~a.poll.inFlight

Sound(a) ==
  /\ a \in AppSet
  /\ LinkSound(a)
  /\ a.ui \in {"Connecting", "TransportConnected", "Connected"} => a.live
  /\ a.deferred # NoMode => a.releases > 0 /\ ~a.live
  /\ Quiet(a)
  /\ a.polls \cap a.reads = {}
  /\ PostedSound(a.posted, a.live, a.deferred, a.watching)
  /\ LeavingSound(a.leaving)

Holds(q, id)   == \E i \in DOMAIN q : q[i] = id
HasAnswer(q, id) == \E i \in DOMAIN q : q[i].e = "requestFinished" /\ q[i].id = id /\ q[i].fresh
FailureWaits(q) == \E i \in DOMAIN q : q[i].e = "connectFinished" /\ q[i].fresh /\ q[i].arg # "ok"

\* The session has not been used: nothing was handed to the stack, nothing will be.
Unused(a) ==
  stack.held = <<>> /\ a.submit = <<>> /\ ~a.poll.timer /\ ~Established(a.ui)

\* What the page expects of the live stack.  A first connect can only fail
\* before the channel is open, and until its failure is handled nothing can make
\* the core try again.  W are the requests whose answers are being handled.
Served(a, W) ==
  a.live =>
    /\ a.poll.inFlight =>
         \E id \in a.polls : \/ id \in W \/ HasAnswer(a.posted, id)
                            \/ Holds(stack.held, id) \/ Holds(a.submit, id)
    /\ stack.attempt = "connect" /\ stack.channel # "Open" => Unused(a)
    /\ FailureWaits(a.posted) => stack.core = "Failed" /\ stack.attempt = "none" /\ Unused(a)

StackSound ==
  /\ stack \in StackSet
  /\ stack.attempt = "connect" => stack.core \in {"Disconnected", "Connecting"}
  /\ stack.core = "Connecting" => stack.attempt # "none"
  /\ stack.attempt = "heal" => stack.core = "Connecting" /\ stack.held # <<>>
  /\ stack.core \in {"Disconnected", "Failed"} => stack.channel = "Closed"

\* A handler may go on from a, or it has started a stack for it.
ReadyFor(a, W) == Sound(a) /\ Served(a, W) /\ a.started = NoMode
Ready(a) == ReadyFor(a, {})

Launched(a) ==
  /\ Sound(a) /\ a.live /\ a.started # NoMode /\ a.ui = "Connecting"
  /\ ~a.poll.timer /\ ~a.poll.inFlight /\ AllStale(a.posted)

PageInv == Ready(app) /\ app.submit = <<>> /\ StackSound

-----------------------------------------------------------------------------
(* Handlers that keep the invariant *)

LEMMA KeptReady ==
  ASSUME NEW a, NEW b, NEW W, ReadyFor(a, W), Kept(a, b),
         b.ui \in {"Connecting", "TransportConnected", "Connected"} => a.live,
         a.live /\ Established(b.ui) =>
           /\ ~(stack.attempt = "connect" /\ stack.channel # "Open")
           /\ stack.core # "Failed"
         \/ Established(a.ui)
  PROVE  ReadyFor(b, W)
<1>1. Sound(b)
  BY DEF ReadyFor, Sound, Kept, LinkSound, Quiet
<1>2. Served(b, W)
  <2> SUFFICES ASSUME b.live PROVE Served(b, W)!2
    BY DEF Served
  <2>1. a.live /\ Served(a, W)
    BY DEF ReadyFor, Kept
  <2>2. /\ b.submit = a.submit /\ b.posted = a.posted /\ b.polls = a.polls
        /\ b.poll.timer => a.poll.timer
        /\ b.poll.inFlight => a.poll.inFlight
    BY DEF Kept
  <2> QED BY <2>1, <2>2 DEF Served, Unused
<1> QED BY <1>1, <1>2 DEF ReadyFor, Kept

LEMMA TameReady ==
  ASSUME NEW a, NEW b, Ready(a), Tame(a, b)
  PROVE  Ready(b)
<1>1. a.ui \in {"Connecting", "TransportConnected", "Connected"} => a.live
  BY DEF Ready, ReadyFor, Sound
<1> QED BY <1>1, KeptReady DEF Tame, Ready

LEMMA SyncReady ==
  ASSUME NEW a, NEW W, ReadyFor(a, W), StackSound
  PROVE  ReadyFor(SyncFromCore(a), W) /\ SyncFromCore(a) \in AppSet
<1> DEFINE b == SyncFromCore(a)
<1>1. a \in AppSet /\ stack \in StackSet
  BY DEF ReadyFor, Sound, StackSound
<1>2. Kept(a, b) /\ b.ui = IF a.live THEN DeriveUi(a.mode) ELSE a.ui
  BY <1>1, SyncKeeps
<1>3. a.ui \in {"Connecting", "TransportConnected", "Connected"} => a.live
  BY DEF ReadyFor, Sound
<1>4. Established(DeriveUi(a.mode)) =>
           /\ ~(stack.attempt = "connect" /\ stack.channel # "Open")
           /\ stack.core # "Failed"
  BY DEF StackSound, StackSet, DeriveUi, Established
<1>5. b.ui \in {"Connecting", "TransportConnected", "Connected"} => a.live
  BY <1>2, <1>3
<1>6. ReadyFor(b, W)
  BY <1>2, <1>3, <1>4, <1>5, KeptReady
<1> QED BY <1>2, <1>6 DEF Kept

LEMMA StackReleasedKeeps ==
  ASSUME NEW a \in AppSet, PostedSound(a.posted, a.live, a.deferred, a.watching)
  PROVE  LET b == StackReleased(a) IN
         /\ b \in AppSet /\ PostedSound(b.posted, b.live, b.deferred, b.watching)
         /\ b.live = a.live /\ b.deferred = a.deferred /\ b.releases = a.releases
         /\ b.link = a.link /\ b.linked = a.linked /\ b.pageLinked = a.pageLinked
         /\ b.linkBox = a.linkBox /\ b.ui = a.ui /\ b.leaving = a.leaving
         /\ b.submit = a.submit /\ b.started = a.started
         /\ b.poll = a.poll /\ b.polls = a.polls /\ b.reads = a.reads
         /\ NoneOf(a.posted, "runDeferred") => NoneOf(b.posted, "runDeferred")
         /\ AllStale(a.posted) => AllStale(b.posted)
         /\ FailureWaits(b.posted) => FailureWaits(a.posted)
         /\ \A id : HasAnswer(a.posted, id) => HasAnswer(b.posted, id)
         /\ Longer(a, b)
<1> DEFINE b == StackReleased(a)
           v == PageEvent("teardown", "")
           q == Append(a.posted, v)
<1>1. CASE ~a.watching
  BY <1>1, SameLonger DEF StackReleased
<1>2. CASE a.watching
  <2>1. v \in Events /\ v.e = "teardown" /\ v.e \notin Sessional
    BY DEF PageEvent, Events, Args, Sessional
  <2>2. PostedSound(a.posted, a.live, a.deferred, FALSE) /\ NoneOf(a.posted, "teardown")
    BY <1>2 DEF PostedSound, NoneOf
  <2> HIDE DEF v
  <2>3. /\ PostedSound(q, a.live, a.deferred, FALSE)
        /\ AllStale(a.posted) => AllStale(q)
        /\ NoneOf(a.posted, "runDeferred") => NoneOf(q, "runDeferred")
    BY <2>1, <2>2, PostedAppend
  <2>4. /\ FailureWaits(q) => FailureWaits(a.posted)
        /\ \A id : HasAnswer(a.posted, id) => HasAnswer(q, id)
    <3>1. /\ DOMAIN q = 1 .. (Len(a.posted) + 1) /\ DOMAIN a.posted = 1 .. Len(a.posted)
          /\ Len(a.posted) \in Nat
          /\ \A i \in DOMAIN a.posted : q[i] = a.posted[i]
          /\ q[Len(a.posted) + 1] = v
      BY <2>1, SeqFacts DEF PostedSound
    <3> HIDE DEF q
    <3> QED BY <2>1, <3>1 DEF FailureWaits, HasAnswer, Sessional
  <2>5. q \in Seq(Events)
    BY <2>3 DEF PostedSound
  <2>6. b = [[a EXCEPT !.watching = FALSE] EXCEPT !.posted = Append([a EXCEPT !.watching = FALSE].posted, v)]
    BY <1>2 DEF StackReleased, Post, v
  <2>7. [a EXCEPT !.watching = FALSE].posted = a.posted
    BY DEF AppSet
  <2>8. b = [[a EXCEPT !.watching = FALSE] EXCEPT !.posted = q]
    BY <2>6, <2>7
  <2> HIDE DEF q, b
  <2>9. /\ b \in AppSet /\ b.posted = q /\ b.watching = FALSE
        /\ b.live = a.live /\ b.deferred = a.deferred /\ b.releases = a.releases
        /\ b.link = a.link /\ b.linked = a.linked /\ b.pageLinked = a.pageLinked
        /\ b.linkBox = a.linkBox /\ b.ui = a.ui /\ b.leaving = a.leaving
        /\ b.submit = a.submit /\ b.started = a.started
        /\ b.poll = a.poll /\ b.polls = a.polls /\ b.reads = a.reads
    BY <2>5, <2>8 DEF AppSet
  <2>10. Longer(a, b)
    <3>1. a.posted \in Seq(Events)
      BY DEF PostedSound
    <3>2. Len(a.posted) \in Nat /\ Len(q) = Len(a.posted) + 1
      BY <2>1, <3>1, SeqFacts DEF q
    <3> QED BY <2>9, <3>2 DEF Longer
  <2> QED BY <2>3, <2>4, <2>9, <2>10 DEF b
<1> QED BY <1>1, <1>2

\* A page without a stack, as requestRelease() makes it and a completed release
\* finds it: a connect may wait, whatever the number of releases.
Released(a) ==
  /\ a \in AppSet /\ LinkSound(a) /\ ~a.live /\ a.started = NoMode
  /\ a.ui \notin {"Connecting", "TransportConnected", "Connected"}
  /\ a.polls = {} /\ a.reads = {} /\ ~a.poll.timer /\ ~a.poll.inFlight
  /\ PostedSound(a.posted, FALSE, NoMode, a.watching)
  /\ a.deferred # NoMode => NoneOf(a.posted, "runDeferred")
  /\ LeavingSound(a.leaving)

LEMMA ReleasedPosted ==
  ASSUME NEW q, NEW w, NEW d, NEW live, ~live, PostedSound(q, FALSE, NoMode, w),
         d # NoMode => NoneOf(q, "runDeferred")
  PROVE  PostedSound(q, live, d, w)
BY DEF PostedSound, NoneOf

LEMMA ReleasedReady ==
  ASSUME NEW a, Released(a), a.deferred # NoMode => a.releases > 0
  PROVE  Ready(a) /\ ~a.live
<1>1. PostedSound(a.posted, a.live, a.deferred, a.watching)
  BY ReleasedPosted DEF Released
<1>2. a.ui \notin {"Connecting", "TransportConnected", "Connected"}
  BY DEF Released
<1>3. Sound(a)
  BY <1>1, <1>2 DEF Released, Sound, Quiet
<1> QED BY <1>3 DEF Released, Ready, ReadyFor, Served

LEMMA MaybeRunReady ==
  ASSUME NEW a, Released(a)
  PROVE  LET b == MaybeRunDeferred(a) IN Ready(b) /\ ~b.live /\ b.link = a.link /\ Longer(a, b)
<1>1. CASE a.releases = 0 /\ a.deferred # NoMode
  <2> DEFINE v == PageEvent("runDeferred", a.deferred)
             q == Append(a.posted, v)
             b == [a EXCEPT !.deferred = NoMode]
             c == [b EXCEPT !.posted = q]
  <2>1. a.deferred \in Modes
    BY <1>1 DEF Released, AppSet
  <2>2. v \in Events /\ v.e = "runDeferred" /\ v.arg = a.deferred /\ v.e \notin Sessional
    BY <2>1 DEF PageEvent, Events, Args, Sessional
  <2> HIDE DEF v
  <2>3. PostedSound(q, FALSE, NoMode, a.watching)
    BY <1>1, <2>1, <2>2, PostedAppend DEF Released
  <2>4. q \in Seq(Events) /\ a \in AppSet
    BY <2>3 DEF PostedSound, Released
  <2>5. MaybeRunDeferred(a) = c
    <3>1. b.posted = a.posted
      BY <2>4 DEF AppSet
    <3> QED BY <1>1, <3>1 DEF MaybeRunDeferred, Post, v
  <2> HIDE DEF q
  <2>6. /\ c \in AppSet /\ c.posted = q /\ c.deferred = NoMode
        /\ c.live = a.live /\ c.ui = a.ui /\ c.started = a.started /\ c.watching = a.watching
        /\ c.link = a.link /\ c.linked = a.linked /\ c.pageLinked = a.pageLinked
        /\ c.linkBox = a.linkBox /\ c.leaving = a.leaving
        /\ c.poll = a.poll /\ c.polls = a.polls /\ c.reads = a.reads
    BY <2>4 DEF AppSet
  <2> HIDE DEF c
  <2>7. Released(c)
    BY <2>3, <2>6 DEF Released, LinkSound
  <2>8. Longer(a, c)
    <3>1. a.posted \in Seq(Events)
      BY <2>4 DEF AppSet
    <3>2. Len(a.posted) \in Nat /\ Len(q) = Len(a.posted) + 1
      BY <2>2, <3>1, SeqFacts DEF q
    <3> QED BY <2>6, <3>2 DEF Longer
  <2> QED BY <2>5, <2>6, <2>7, <2>8, ReleasedReady
<1>2. CASE ~(a.releases = 0 /\ a.deferred # NoMode)
  <2>1. a.releases \in Nat
    BY DEF Released, AppSet
  <2>2. Longer(a, a)
    BY SameLonger DEF Released
  <2> QED BY <1>2, <2>1, <2>2, ReleasedReady DEF MaybeRunDeferred
<1> QED BY <1>1, <1>2

LEMMA StackReleasedReleased ==
  ASSUME NEW a, Released(a)
  PROVE  Released(StackReleased(a)) /\ StackReleased(a).link = a.link
         /\ Longer(a, StackReleased(a))
<1>1. PostedSound(a.posted, a.live, a.deferred, a.watching)
  BY ReleasedPosted DEF Released
<1>2. a \in AppSet
  BY DEF Released
<1> DEFINE b == StackReleased(a)
<1>3. /\ b \in AppSet /\ PostedSound(b.posted, b.live, b.deferred, b.watching)
      /\ b.live = a.live /\ b.deferred = a.deferred
      /\ b.link = a.link /\ b.linked = a.linked /\ b.pageLinked = a.pageLinked
      /\ b.linkBox = a.linkBox /\ b.ui = a.ui /\ b.leaving = a.leaving
      /\ b.started = a.started
      /\ b.poll = a.poll /\ b.polls = a.polls /\ b.reads = a.reads
      /\ NoneOf(a.posted, "runDeferred") => NoneOf(b.posted, "runDeferred")
      /\ Longer(a, b)
  BY <1>1, <1>2, StackReleasedKeeps
<1> HIDE DEF b
<1>4. PostedSound(b.posted, FALSE, NoMode, b.watching)
  BY <1>3 DEF PostedSound, Released
<1> QED BY <1>3, <1>4 DEF Released, LinkSound, b

LEMMA RemainsFacts ==
  ASSUME stack \in StackSet
  PROVE  /\ Remains \in Seq(Events)
         /\ \A i \in DOMAIN Remains : Remains[i].e \in Sessional
<1> DEFINE x == IF stack.attempt = "connect" THEN <<ConnectFinished(FALSE)>> ELSE <<>>
           y == [i \in DOMAIN stack.held |-> RequestFinished(stack.held[i], FALSE)]
<1>1. ConnectFinished(FALSE) \in Events /\ ConnectFinished(FALSE).e \in Sessional
  BY DEF ConnectFinished, SessionEvent, Events, Args, Sessional
<1>2. \A id \in Ids : RequestFinished(id, FALSE) \in Events
                      /\ RequestFinished(id, FALSE).e \in Sessional
  BY DEF RequestFinished, SessionEvent, Events, Args, Sessional
<1>3. x \in Seq(Events) /\ \A i \in DOMAIN x : x[i].e \in Sessional
  <2> DEFINE v == ConnectFinished(FALSE)
  <2>1. ASSUME NEW u \in Events
        PROVE  <<u>> \in Seq(Events) /\ \A i \in DOMAIN <<u>> : <<u>>[i] = u
    OBVIOUS
  <2>2. <<>> \in Seq(Events) /\ DOMAIN <<>> = {}
    OBVIOUS
  <2> QED BY <1>1, <2>1, <2>2
<1>4. stack.held \in Seq(Ids)
  BY DEF StackSet
<1>5. DOMAIN y = 1 .. Len(stack.held) /\ Len(stack.held) \in Nat
      /\ \A i \in DOMAIN y : y[i] \in Events /\ y[i].e \in Sessional
  BY <1>2, <1>4, SeqFacts
<1>6. y \in Seq(Events)
  <2>1. y = [i \in 1 .. Len(stack.held) |-> y[i]]
    BY <1>5
  <2> HIDE DEF y
  <2> QED BY <1>5, <2>1
<1>7. Remains = x \o y
  BY DEF Remains
<1> HIDE DEF x, y
<1> QED BY <1>3, <1>5, <1>6, <1>7, ConcatFacts

LEMMA HandOverReady ==
  ASSUME NEW a, NEW b, b = [a EXCEPT !.live = FALSE], a \in AppSet, Released(b), stack \in StackSet
  PROVE  LET h == HandOver(a) IN Ready(h) /\ ~h.live /\ h.link = a.link /\ h.posted = a.posted
<1> DEFINE r == Stale(Remains)
           l == a.leaving \o r
           n == a.releases + 1
           d == Display(a, "Disconnecting")
           c == [d EXCEPT !.live = FALSE, !.releases = n, !.leaving = l]
<1>1. r \in Seq(Events) /\ \A i \in DOMAIN r : r[i].e \in Sessional /\ ~r[i].fresh
  BY RemainsFacts, StaleFacts DEF AllStale
<1>2. LeavingSound(a.leaving) /\ a.leaving \in Seq(Events)
  BY DEF Released, AppSet, LeavingSound
<1> HIDE DEF r
<1>3. LeavingSound(l)
  BY <1>1, <1>2, ConcatFacts DEF LeavingSound
<1>4. l \in Seq(Events) /\ n \in Nat /\ n > 0
  BY <1>3 DEF LeavingSound, AppSet
<1>5. Tame(a, d) /\ d \in AppSet
  BY TameDisplay DEF UiStates, Tame, Kept
<1>6. d.leaving = a.leaving /\ d.releases = a.releases
  BY <1>5 DEF Tame, Kept
<1>7. HandOver(a) = c
  BY <1>6 DEF HandOver, r
<1> HIDE DEF d, l, n
<1>8. /\ c \in AppSet /\ c.live = FALSE /\ c.releases = n /\ c.leaving = l
      /\ c.posted = d.posted /\ c.deferred = d.deferred /\ c.ui = d.ui /\ c.started = d.started
      /\ c.watching = d.watching /\ c.poll = d.poll /\ c.polls = d.polls /\ c.reads = d.reads
      /\ c.link = d.link /\ c.linked = d.linked /\ c.pageLinked = d.pageLinked
      /\ c.linkBox = d.linkBox
  BY <1>4, <1>5 DEF AppSet
<1>9. /\ b.posted = a.posted /\ b.deferred = a.deferred /\ b.ui = a.ui /\ b.started = a.started
      /\ b.watching = a.watching /\ b.poll = a.poll /\ b.polls = a.polls /\ b.reads = a.reads
      /\ b.link = a.link /\ b.linked = a.linked /\ b.pageLinked = a.pageLinked
      /\ b.linkBox = a.linkBox
  BY DEF AppSet
<1> HIDE DEF c
<1>10. Released(c)
  <2>1. /\ d.posted = a.posted /\ d.deferred = a.deferred /\ d.ui = a.ui /\ d.started = a.started
        /\ d.watching = a.watching /\ d.polls = a.polls /\ d.reads = a.reads
        /\ d.link = a.link /\ d.linked = a.linked /\ d.pageLinked = a.pageLinked
        /\ d.linkBox = a.linkBox
        /\ d.poll.timer => a.poll.timer
        /\ d.poll.inFlight => a.poll.inFlight
    BY <1>5 DEF Tame, Kept
  <2>2. LinkSound(c)
    BY <1>8, <1>9, <2>1 DEF Released, LinkSound
  <2>3. PostedSound(c.posted, FALSE, NoMode, c.watching)
    BY <1>8, <1>9, <2>1 DEF Released
  <2>4. ~c.poll.timer /\ ~c.poll.inFlight
    BY <1>8, <1>9, <2>1 DEF Released
  <2> QED BY <1>3, <1>8, <1>9, <2>1, <2>2, <2>3, <2>4 DEF Released
<1>11. c.link = a.link /\ c.posted = a.posted
  BY <1>5, <1>8 DEF Tame, Kept
<1> QED BY <1>4, <1>7, <1>8, <1>10, <1>11, ReleasedReady

LEMMA LinkKeeps ==
  ASSUME NEW a \in AppSet, NEW s \in {"Idle", "Live", "Paused"}
  PROVE  LET b == LinkTo(a, s) IN
         /\ b \in AppSet /\ LinkSound(b) /\ b.link = s
         /\ b.live = a.live /\ b.deferred = a.deferred /\ b.releases = a.releases
         /\ b.ui = a.ui /\ b.leaving = a.leaving /\ b.watching = a.watching
         /\ b.submit = a.submit /\ b.started = a.started /\ b.posted = a.posted
         /\ b.poll = a.poll /\ b.polls = a.polls /\ b.reads = a.reads /\ b.mode = a.mode
<1> DEFINE buf == a.buffered /\ s # "Idle"
           f == s # "Idle"
           b == LinkTo(a, s)
<1>1. b = [a EXCEPT !.link = s, !.buffered = buf, !.pageLinked = f, !.linked = f, !.linkBox = f]
  BY DEF LinkTo
<1>2. buf \in BOOLEAN /\ (f = TRUE \/ f = FALSE) /\ (f <=> s # "Idle")
  OBVIOUS
<1> HIDE DEF buf, f, b
<1>3. /\ b \in AppSet /\ b.link = s /\ LinkSound(b)
      /\ b.live = a.live /\ b.deferred = a.deferred /\ b.releases = a.releases
      /\ b.ui = a.ui /\ b.leaving = a.leaving /\ b.watching = a.watching
      /\ b.submit = a.submit /\ b.started = a.started /\ b.posted = a.posted
      /\ b.poll = a.poll /\ b.polls = a.polls /\ b.reads = a.reads /\ b.mode = a.mode
  <2>1. CASE f = TRUE
    <3>1. b = [a EXCEPT !.link = s, !.buffered = buf, !.pageLinked = TRUE, !.linked = TRUE,
                        !.linkBox = TRUE]
      BY <1>1, <2>1
    <3> QED BY <1>2, <2>1, <3>1 DEF AppSet, LinkSound
  <2>2. CASE f = FALSE
    <3>1. b = [a EXCEPT !.link = s, !.buffered = buf, !.pageLinked = FALSE, !.linked = FALSE,
                        !.linkBox = FALSE]
      BY <1>1, <2>2
    <3> QED BY ZenonT(40), <1>2, <2>2, <3>1 DEF AppSet, LinkSound
  <2> QED BY <1>2, <2>1, <2>2
<1> QED BY <1>3 DEF b

\* A page that can be released: whatever waits or is polled.
Releasable(a) ==
  /\ a \in AppSet /\ LinkSound(a) /\ a.started = NoMode
  /\ \E live, d : PostedSound(a.posted, live, d, a.watching)
  /\ a.deferred # NoMode => NoneOf(a.posted, "runDeferred")
  /\ LeavingSound(a.leaving)

LEMMA ReleaseReady ==
  ASSUME NEW a, Releasable(a), stack \in StackSet
  PROVE  LET b == RequestRelease(a) IN Ready(b) /\ ~b.live /\ b.link = "Idle" /\ Longer(a, b)
<1> DEFINE r == ResetPoll(a)
           q == Stale(r.posted)
           e == [r EXCEPT !.posted = q, !.explicit = TRUE]
           u == SetUi(e, "Disconnected")
           b == [u EXCEPT !.linked = FALSE, !.linkBox = FALSE]
           c == IF a.linked THEN LinkTo(b, "Idle") ELSE b
           o == [c EXCEPT !.live = FALSE]
<1>1. Tame(a, StopPoll(a)) /\ ~StopPoll(a).poll.timer /\ ~StopPoll(a).poll.inFlight
  BY TameStopPoll DEF Releasable
<1>2. /\ r \in AppSet /\ r.polls = {} /\ r.reads = {}
      /\ r.poll.timer = FALSE /\ r.poll.inFlight = FALSE
      /\ r.posted = a.posted /\ r.deferred = a.deferred /\ r.live = a.live
      /\ r.watching = a.watching /\ r.leaving = a.leaving /\ r.started = NoMode
      /\ r.link = a.link /\ r.pageLinked = a.pageLinked /\ r.linked = a.linked
  <2> DEFINE t == StopPoll(a)
  <2>1. t \in AppSet /\ t.poll.timer = FALSE /\ t.poll.inFlight = FALSE
    BY <1>1, PollTypes DEF Tame, Kept, AppSet
  <2>2. r = [t EXCEPT !.polls = {}, !.reads = {}]
    BY DEF ResetPoll
  <2> HIDE DEF t, r
  <2>3. /\ r \in AppSet /\ r.polls = {} /\ r.reads = {} /\ r.poll = t.poll
        /\ r.posted = t.posted /\ r.deferred = t.deferred /\ r.live = t.live
        /\ r.watching = t.watching /\ r.leaving = t.leaving /\ r.started = t.started
        /\ r.link = t.link /\ r.pageLinked = t.pageLinked /\ r.linked = t.linked
    BY <2>1, <2>2 DEF AppSet
  <2> QED BY <1>1, <2>1, <2>3 DEF Tame, Kept, Releasable, t
<1>3. /\ PostedSound(q, FALSE, NoMode, a.watching) /\ q \in Seq(Events)
      /\ Len(q) = Len(a.posted) /\ Len(a.posted) \in Nat
      /\ a.deferred # NoMode => NoneOf(q, "runDeferred")
  <2>1. PICK live, d : PostedSound(a.posted, live, d, a.watching)
    BY DEF Releasable
  <2>2. PostedSound(Stale(a.posted), FALSE, NoMode, a.watching)
    BY <2>1, PostedStale
  <2>3. NoneOf(a.posted, "runDeferred") => NoneOf(Stale(a.posted), "runDeferred")
    BY <2>1, StaleFacts DEF PostedSound, NoneOf
  <2>4. Len(Stale(a.posted)) = Len(a.posted) /\ Len(a.posted) \in Nat
    BY <2>1, StaleFacts, SeqFacts DEF PostedSound
  <2> QED BY <1>2, <2>2, <2>3, <2>4 DEF PostedSound, Releasable
<1> HIDE DEF r, q
<1>4. /\ e \in AppSet /\ e.posted = q
      /\ e.poll = r.poll /\ e.polls = r.polls /\ e.reads = r.reads
      /\ e.deferred = r.deferred /\ e.live = r.live
      /\ e.watching = r.watching /\ e.leaving = r.leaving /\ e.started = r.started
      /\ e.link = r.link /\ e.pageLinked = r.pageLinked /\ e.linked = r.linked
  BY ZenonT(40), <1>2, <1>3 DEF AppSet
<1> HIDE DEF e
<1>5. Kept(e, u) /\ u.ui = "Disconnected" /\ u \in AppSet
  BY <1>4, SetUiKeeps DEF UiStates, Kept
<1> HIDE DEF u
<1>6. /\ b \in AppSet /\ b.linked = FALSE /\ b.linkBox = FALSE /\ b.ui = u.ui
      /\ b.posted = u.posted /\ b.poll = u.poll /\ b.polls = u.polls /\ b.reads = u.reads
      /\ b.deferred = u.deferred /\ b.live = u.live
      /\ b.watching = u.watching /\ b.leaving = u.leaving /\ b.started = u.started
      /\ b.link = u.link /\ b.pageLinked = u.pageLinked
  BY <1>5 DEF AppSet
<1> HIDE DEF b
<1>7. /\ b.ui = "Disconnected" /\ b.posted = q /\ b.polls = {} /\ b.reads = {}
      /\ ~b.poll.timer /\ ~b.poll.inFlight /\ b.deferred = a.deferred /\ b.live = a.live
      /\ b.watching = a.watching /\ b.leaving = a.leaving /\ b.started = NoMode
      /\ b.link = a.link /\ b.pageLinked = a.pageLinked
  BY <1>2, <1>4, <1>5, <1>6 DEF Kept
<1>8. /\ c \in AppSet /\ LinkSound(c) /\ c.link = "Idle"
      /\ c.ui = "Disconnected" /\ c.posted = q /\ c.polls = {} /\ c.reads = {}
      /\ ~c.poll.timer /\ ~c.poll.inFlight /\ c.deferred = a.deferred /\ c.live = a.live
      /\ c.watching = a.watching /\ c.leaving = a.leaving /\ c.started = NoMode
  <2>1. CASE a.linked
    BY <1>6, <1>7, <2>1, LinkKeeps
  <2>2. CASE ~a.linked
    <3>1. LinkSound(b) /\ b.link = "Idle"
      BY <1>6, <1>7, <2>2 DEF LinkSound, Releasable
    <3> QED BY <1>6, <1>7, <2>2, <3>1
  <2> QED BY <2>1, <2>2
<1>9. RequestRelease(a) = IF ~a.live THEN MaybeRunDeferred(StackReleased(c)) ELSE HandOver(c)
  BY DEF RequestRelease, r, q, e, u, b
<1> HIDE DEF c
<1>10. CASE ~a.live
  <2>1. Released(c)
    BY <1>3, <1>8, <1>10 DEF Released, Releasable
  <2> DEFINE t == StackReleased(c)
  <2>2. Released(t) /\ t.link = "Idle" /\ Longer(c, t)
    BY <1>8, <2>1, StackReleasedReleased
  <2> HIDE DEF t
  <2> DEFINE x == MaybeRunDeferred(t)
  <2>3. Ready(x) /\ ~x.live /\ x.link = "Idle" /\ Longer(t, x)
    BY <2>2, MaybeRunReady
  <2> HIDE DEF x
  <2>4. a \in AppSet /\ Longer(a, c) /\ t \in AppSet /\ x \in AppSet
    BY <1>3, <1>8, <2>2, <2>3 DEF Longer, Releasable, Released, Ready, ReadyFor, Sound
  <2>5. Longer(a, x)
    BY <1>8, <2>2, <2>3, <2>4, LongerTransitive
  <2> QED BY <1>9, <1>10, <2>3, <2>5 DEF t, x
<1>11. CASE a.live
  <2>1. /\ o \in AppSet /\ o.live = FALSE /\ o.link = c.link /\ o.linked = c.linked
        /\ o.pageLinked = c.pageLinked /\ o.linkBox = c.linkBox
        /\ o.ui = c.ui /\ o.posted = c.posted /\ o.polls = c.polls /\ o.reads = c.reads
        /\ o.poll = c.poll /\ o.deferred = c.deferred
        /\ o.watching = c.watching /\ o.leaving = c.leaving /\ o.started = c.started
    BY ZenonT(40), <1>8 DEF AppSet
  <2> HIDE DEF o
  <2>2. LinkSound(o)
    BY <1>8, <2>1 DEF LinkSound
  <2>3. Released(o)
    BY <1>3, <1>8, <2>1, <2>2 DEF Released, Releasable
  <2>4. LET h == HandOver(c) IN Ready(h) /\ ~h.live /\ h.link = "Idle" /\ h.posted = q
    BY <1>8, <2>3, HandOverReady DEF o
  <2> QED BY <1>3, <1>9, <1>11, <2>4 DEF Longer
<1> QED BY <1>10, <1>11

LEMMA SoundReleasable ==
  ASSUME NEW a, Sound(a), a.started = NoMode
  PROVE  Releasable(a)
BY DEF Sound, Releasable, PostedSound, NoneOf

\* A deferred connect or none, for a page that is Sound: what requestConnect(),
\* releaseStack() and requestDisconnect() hand to requestRelease().
LEMMA DeferReleasable ==
  ASSUME NEW a, Sound(a), a.started = NoMode, NEW m \in Modes \cup {NoMode},
         m # NoMode => NoneOf(a.posted, "runDeferred")
  PROVE  Releasable([a EXCEPT !.deferred = m]) /\ [a EXCEPT !.deferred = m].posted = a.posted
<1> DEFINE b == [a EXCEPT !.deferred = m]
<1>1. /\ b \in AppSet /\ b.deferred = m /\ b.started = a.started /\ b.posted = a.posted
      /\ b.watching = a.watching /\ b.leaving = a.leaving
      /\ b.link = a.link /\ b.linked = a.linked /\ b.pageLinked = a.pageLinked
      /\ b.linkBox = a.linkBox
  BY DEF Sound, AppSet
<1> HIDE DEF b
<1>2. LinkSound(b)
  BY <1>1 DEF Sound, LinkSound
<1>3. PostedSound(b.posted, a.live, a.deferred, b.watching) /\ LeavingSound(b.leaving)
  BY <1>1 DEF Sound
<1>4. Releasable(b)
  BY <1>1, <1>2, <1>3 DEF Releasable
<1> QED BY <1>1, <1>4 DEF b

LEMMA ReleaseStackReady ==
  ASSUME NEW a, Sound(a), a.started = NoMode, stack \in StackSet
  PROVE  Ready(ReleaseStack(a)) /\ ~ReleaseStack(a).live /\ Longer(a, ReleaseStack(a))
BY DeferReleasable, ReleaseReady DEF ReleaseStack, Longer

LEMMA DisconnectReady ==
  ASSUME NEW a, Sound(a), a.started = NoMode, stack \in StackSet
  PROVE  Ready(RequestDisconnect(a)) /\ ~RequestDisconnect(a).live /\ Longer(a, RequestDisconnect(a))
<1> DEFINE b == [a EXCEPT !.deferred = NoMode]
           c == SetUi(b, "Disconnecting")
<1>1. Releasable(b) /\ b.posted = a.posted
  BY DeferReleasable
<1>2. Kept(b, c) /\ c \in AppSet
  BY <1>1, SetUiKeeps DEF UiStates, Releasable, Kept
<1> HIDE DEF b, c
<1>3. Releasable(c) /\ c.posted = a.posted
  BY <1>1, <1>2 DEF Releasable, Kept, LinkSound
<1>4. Ready(RequestRelease(c)) /\ ~RequestRelease(c).live /\ Longer(a, RequestRelease(c))
  BY <1>3, ReleaseReady DEF Longer
<1> QED BY <1>4 DEF RequestDisconnect, b, c

LEMMA ReportLossReady ==
  ASSUME NEW a, Ready(a)
  PROVE  Ready(ReportLoss(a))
<1>1. a \in AppSet
  BY DEF Ready, ReadyFor, Sound
<1> QED BY <1>1, TameReportLoss, TameReady

LEMMA DisplayReady ==
  ASSUME NEW a, Ready(a), NEW s \in UiStates
  PROVE  Ready(Display(a, s))
<1>1. a \in AppSet
  BY DEF Ready, ReadyFor, Sound
<1> QED BY <1>1, TameDisplay, TameReady

LEMMA ChannelStateReady ==
  ASSUME NEW a, Ready(a), StackSound, NEW s, a.alerts < MaxAlerts
  PROVE  Ready(HandleChannelState(a, s))
<1> DEFINE b == SyncFromCore(a)
           lost == a.mode = "Tcp" /\ a.ui = "Connected" /\ ~b.explicit
           c == [b EXCEPT !.alerts = b.alerts + 1]
<1>1. Ready(b) /\ b \in AppSet /\ b.alerts = a.alerts
  BY SyncReady, SyncKeeps DEF StackSound, Ready, ReadyFor, Sound
<1>2. Ready(Display(b, "Connecting")) /\ Ready(Display(b, "Disconnecting")) /\ Ready(ReportLoss(b))
  BY <1>1, DisplayReady, ReportLossReady DEF UiStates
<1>3. Ready(c)
  <2>1. b.alerts + 1 \in 0 .. MaxAlerts
    BY <1>1, BoundsAssumption DEF AppSet
  <2> HIDE DEF b
  <2>2. Tame(b, c)
    BY <1>1, <2>1 DEF Tame, Kept, AppSet
  <2> QED BY <1>1, <2>2, TameReady
<1>4. \/ HandleChannelState(a, s) = b \/ HandleChannelState(a, s) = Display(b, "Connecting")
      \/ HandleChannelState(a, s) = Display(b, "Disconnecting")
      \/ HandleChannelState(a, s) = ReportLoss(b) \/ HandleChannelState(a, s) = c
  BY DEF HandleChannelState
<1> QED BY <1>1, <1>2, <1>3, <1>4

LEMMA ConnectFinishedReady ==
  ASSUME NEW a, Ready(a), StackSound, NEW ok \in BOOLEAN
  PROVE  Ready(HandleConnectFinished(a, ok))
<1> DEFINE b == SyncFromCore(a)
           c == StopPoll(b)
           d == SessionDisconnected(c)
<1>1. Ready(b) /\ b \in AppSet /\ stack \in StackSet
  BY SyncReady DEF StackSound, Ready
<1>2. Ready(SessionConnected(b))
  BY <1>1, TameConnected, TameReady
<1>3. Ready(c) /\ c \in AppSet
  BY <1>1, TameStopPoll, TameReady DEF Ready, ReadyFor, Sound
<1>4. Ready(d)
  BY <1>3, TameDisconnected, TameReady
<1>5. Ready(ReleaseStack(d))
  BY <1>1, <1>4, ReleaseStackReady DEF Ready, ReadyFor
<1> QED BY <1>2, <1>5 DEF HandleConnectFinished

\* A connect that succeeded does not give the session up.
LEMMA ConnectedStays ==
  ASSUME NEW a, Ready(a), StackSound
  PROVE  HandleConnectFinished(a, TRUE).live = a.live
<1> DEFINE b == SyncFromCore(a)
<1>1. Kept(a, b) /\ b \in AppSet
  BY SyncKeeps DEF StackSound, Ready, ReadyFor, Sound, Kept
<1>2. Kept(b, SessionConnected(b))
  BY <1>1, TameConnected DEF Tame
<1>3. HandleConnectFinished(a, TRUE) = SessionConnected(b)
  BY DEF HandleConnectFinished
<1> QED BY <1>1, <1>2, <1>3 DEF Kept

\* A poll has been answered.
LEMMA PollSettled ==
  ASSUME NEW p \in PollSet, NEW escalates \in BOOLEAN
  PROVE  \A q \in {PollSucceeded(p), PollFailed(p, escalates)} :
           q \in PollSet /\ q.inFlight = FALSE /\ q.timer = p.timer
<1> DEFINE s == IF p.state \in {"Degraded", "Escalated"} THEN "Polling" ELSE p.state
           up == ~p.connected \/ (escalates /\ p.errors > 0)
           t == IF up THEN "Escalated" ELSE IF p.state = "Polling" THEN "Degraded" ELSE p.state
           n == IF p.errors < 2 THEN p.errors + 1 ELSE p.errors
<1>1. /\ s \in {"Idle", "Polling", "Degraded", "Escalated"}
      /\ t \in {"Idle", "Polling", "Degraded", "Escalated"}
      /\ n \in 0 .. 2
  BY PollTypes
<1>2. PollSucceeded(p) = [p EXCEPT !.inFlight = FALSE, !.errors = 0, !.fault = FALSE,
                                   !.fatal = FALSE, !.state = s]
  BY DEF PollSucceeded
<1>3. PollFailed(p, escalates) = [p EXCEPT !.inFlight = FALSE, !.errors = n, !.state = t]
  BY DEF PollFailed
<1> HIDE DEF s, up, t, n
<1>4. LET q == [p EXCEPT !.inFlight = FALSE, !.errors = 0, !.fault = FALSE, !.fatal = FALSE,
                         !.state = s]
      IN  q \in PollSet /\ q.inFlight = FALSE /\ q.timer = p.timer
  <2>1. ASSUME NEW no \in BOOLEAN, NEW zero \in 0 .. 2
        PROVE  LET q == [p EXCEPT !.inFlight = no, !.errors = zero, !.fault = no, !.fatal = no,
                                  !.state = s]
               IN  q \in PollSet /\ q.inFlight = no /\ q.timer = p.timer
    BY <1>1 DEF PollSet
  <2>2. FALSE \in BOOLEAN /\ 0 \in 0 .. 2
    OBVIOUS
  <2> QED BY <2>1, <2>2
<1>5. LET q == [p EXCEPT !.inFlight = FALSE, !.errors = n, !.state = t]
      IN  q \in PollSet /\ q.inFlight = FALSE /\ q.timer = p.timer
  BY <1>1 DEF PollSet
<1> QED BY <1>2, <1>3, <1>4, <1>5

LEMMA SettleReady ==
  ASSUME NEW a, NEW id, ReadyFor(a, {id}), NEW p \in PollSet, p.timer => a.poll.timer,
         p.inFlight => a.poll.inFlight /\ id \notin a.polls
  PROVE  Ready([[a EXCEPT !.polls = a.polls \ {id}, !.reads = a.reads \ {id}] EXCEPT !.poll = p])
<1> DEFINE P == a.polls \ {id}
           R == a.reads \ {id}
           b == [[a EXCEPT !.polls = P, !.reads = R] EXCEPT !.poll = p]
<1>1. a \in AppSet /\ Sound(a) /\ Served(a, {id}) /\ a.started = NoMode
  BY DEF ReadyFor, Sound
<1>2. P \in SUBSET Ids /\ R \in SUBSET Ids /\ P \cap R = {}
      /\ (a.polls = {} => P = {}) /\ (a.reads = {} => R = {})
      /\ (id \notin a.polls => P = a.polls)
  BY <1>1 DEF Sound, AppSet
<1> HIDE DEF P, R
<1>3. /\ b \in AppSet /\ b.polls = P /\ b.reads = R /\ b.poll = p
      /\ b.live = a.live /\ b.deferred = a.deferred /\ b.releases = a.releases
      /\ b.link = a.link /\ b.linked = a.linked /\ b.pageLinked = a.pageLinked
      /\ b.linkBox = a.linkBox /\ b.ui = a.ui /\ b.leaving = a.leaving /\ b.posted = a.posted
      /\ b.watching = a.watching /\ b.submit = a.submit /\ b.started = a.started
  BY ZenonT(40), <1>1, <1>2 DEF AppSet
<1> HIDE DEF b
<1>4. Sound(b)
  BY <1>1, <1>2, <1>3 DEF Sound, LinkSound, Quiet
<1>5. Served(b, {})
  <2> SUFFICES ASSUME b.live PROVE Served(b, {})!2
    BY DEF Served
  <2>1. a.live
    BY <1>3
  <2>2. ASSUME b.poll.inFlight
        PROVE  \E i \in b.polls : HasAnswer(b.posted, i) \/ Holds(stack.held, i) \/ Holds(b.submit, i)
    <3>1. a.poll.inFlight /\ P = a.polls /\ id \notin a.polls
      BY <1>2, <1>3, <2>2
    <3> QED BY <1>1, <1>3, <2>1, <3>1 DEF Served
  <2>3. Unused(a) => Unused(b)
    BY <1>3 DEF Unused
  <2> QED BY <1>1, <1>3, <2>1, <2>2, <2>3 DEF Served
<1> QED BY <1>1, <1>3, <1>4, <1>5 DEF Ready, ReadyFor, b, P, R

LEMMA RequestFinishedReady ==
  ASSUME NEW a, NEW id, ReadyFor(a, {id}), StackSound,
         NEW ok \in BOOLEAN, NEW escalates \in BOOLEAN, NEW late \in BOOLEAN
  PROVE  Ready(HandleRequestFinished(a, id, ok, escalates, late))
<1> DEFINE s == SyncFromCore(a)
           b == [s EXCEPT !.polls = s.polls \ {id}, !.reads = s.reads \ {id}]
           p == PollFailed(b.poll, escalates)
           f == [p EXCEPT !.fatal = TRUE]
           r == PollSucceeded(b.poll)
           linkage(c) == IF c.pageLinked THEN LinkData(c) ELSE c
           h == HandleRequestFinished(a, id, ok, escalates, late)
<1>1. ReadyFor(s, {id}) /\ s \in AppSet /\ stack \in StackSet
  BY SyncReady DEF StackSound
<1>2. s.poll \in PollSet /\ b.poll = s.poll /\ Kept(a, s)
  BY <1>1, SyncKeeps DEF AppSet, ReadyFor, Sound
<1>3. /\ p \in PollSet /\ p.inFlight = FALSE /\ p.timer = s.poll.timer
      /\ r \in PollSet /\ r.inFlight = FALSE /\ r.timer = s.poll.timer
  BY <1>2, PollSettled
<1>4. f \in PollSet /\ f.inFlight = FALSE /\ f.timer = s.poll.timer
  <2> HIDE DEF p
  <2> QED BY <1>3 DEF PollSet
<1>5. ASSUME NEW c, Ready(c) PROVE Ready(linkage(c))
  <2>1. c \in AppSet
    BY <1>5 DEF Ready, ReadyFor, Sound
  <2> QED BY <1>5, <2>1, TameLinkData, TameReady
<1>6. CASE id \notin s.polls
  <2>1. b = [b EXCEPT !.poll = s.poll]
    BY <1>1 DEF AppSet
  <2>2. Ready(b)
    BY <1>1, <1>2, <1>6, <2>1, SettleReady
  <2>3. h = b \/ h = linkage(b)
    <3>1. id \notin a.polls
      BY <1>2, <1>6 DEF Kept
    <3> HIDE DEF linkage, b
    <3>2. CASE id \in a.reads
      BY <3>1, <3>2 DEF HandleRequestFinished, linkage, b
    <3>3. CASE id \notin a.reads
      BY <3>1, <3>3 DEF HandleRequestFinished, b
    <3> QED BY <3>2, <3>3
  <2> HIDE DEF h, linkage, b
  <2>4. Ready(h)
    BY <1>5, <2>2, <2>3
  <2> QED BY <2>4 DEF h
<1>7. CASE id \in s.polls
  <2>1. id \in a.polls \ a.reads /\ id \in a.polls \cup a.reads /\ id \notin a.reads
    BY <1>2, <1>7 DEF Kept, ReadyFor, Sound
  <2> HIDE DEF s
  <2>2. Ready([b EXCEPT !.poll = r]) /\ Ready([b EXCEPT !.poll = p]) /\ Ready([b EXCEPT !.poll = f])
    <3> HIDE DEF p, r, f
    <3> QED BY <1>1, <1>3, <1>4, SettleReady
  <2>3. Ready(RequestDisconnect([b EXCEPT !.poll = f]))
    BY <1>1, <2>2, DisconnectReady DEF Ready, ReadyFor
  <2>4. \/ h = linkage([b EXCEPT !.poll = r])
        \/ h = RequestDisconnect([b EXCEPT !.poll = f])
        \/ h = [b EXCEPT !.poll = p]
    <3> HIDE DEF linkage, p, r, f, b
    <3>1. CASE ok
      <4>1. h = linkage([b EXCEPT !.poll = PollSucceeded(b.poll)])
        BY <2>1, <3>1 DEF HandleRequestFinished, linkage, b, s
      <4> QED BY <4>1 DEF r
    <3>2. CASE ~ok
      <4>1. h = IF PollIsFatal(p, late) THEN RequestDisconnect([b EXCEPT !.poll = f])
                ELSE [b EXCEPT !.poll = p]
        BY <2>1, <3>2 DEF HandleRequestFinished, b, s, p, f
      <4> QED BY <4>1
    <3> QED BY <3>1, <3>2
  <2>5. Ready(linkage([b EXCEPT !.poll = r]))
    BY <1>5, <2>2
  <2> HIDE DEF h, linkage, p, r, f, b
  <2>6. Ready(h)
    BY <2>2, <2>3, <2>4, <2>5
  <2> QED BY <2>6 DEF h
<1> QED BY <1>6, <1>7

LEMMA LinkReady ==
  ASSUME NEW a, Ready(a), NEW s \in {"Idle", "Live", "Paused"}
  PROVE  Ready(LinkTo(a, s)) /\ LinkTo(a, s).posted = a.posted
<1> DEFINE b == LinkTo(a, s)
<1>1. /\ b \in AppSet /\ LinkSound(b)
      /\ b.live = a.live /\ b.deferred = a.deferred /\ b.releases = a.releases
      /\ b.ui = a.ui /\ b.leaving = a.leaving /\ b.watching = a.watching
      /\ b.submit = a.submit /\ b.started = a.started /\ b.posted = a.posted
      /\ b.poll = a.poll /\ b.polls = a.polls /\ b.reads = a.reads
  BY LinkKeeps DEF Ready, ReadyFor, Sound
<1> HIDE DEF b
<1>2. Sound(b)
  BY <1>1 DEF Ready, ReadyFor, Sound, Quiet
<1>3. Served(b, {})
  BY <1>1 DEF Ready, ReadyFor, Served, Unused
<1> QED BY <1>1, <1>2, <1>3 DEF Ready, ReadyFor, b

LEMMA ResumeReady ==
  ASSUME NEW a, Ready(a)
  PROVE  LET b == [LinkTo(a, "Live") EXCEPT !.buffered = FALSE] IN Ready(b) /\ b.posted = a.posted
<1> DEFINE b == LinkTo(a, "Live")
           c == [b EXCEPT !.buffered = FALSE]
<1>1. Ready(b) /\ b \in AppSet /\ b.posted = a.posted
  BY LinkReady DEF Ready, ReadyFor, Sound
<1> HIDE DEF b
<1>2. Tame(b, c)
  BY <1>1 DEF Tame, Kept, AppSet
<1>3. Ready(c) /\ c.posted = a.posted
  BY <1>1, <1>2, TameReady DEF Tame, Kept
<1> QED BY <1>3 DEF b, c

LEMMA StartReady ==
  ASSUME NEW a, Sound(a), ~a.live, a.started = NoMode, a.deferred = NoMode,
         NoneOf(a.posted, "runDeferred"), NEW m \in Modes
  PROVE  Launched(StartConnect(a, m)) /\ StartConnect(a, m).posted = a.posted
<1> DEFINE u == SetUi(a, "Connecting")
           b == [u EXCEPT !.live = TRUE, !.started = m, !.leaving = u.leaving]
<1>1. Kept(a, u) /\ u.ui = "Connecting" /\ a \in AppSet
  BY SetUiKeeps DEF UiStates, Sound
<1>2. StartConnect(a, m) = b
  BY DEF StartConnect
<1> HIDE DEF u
<1>3. /\ b \in AppSet /\ b.live = TRUE /\ b.started = m /\ b.leaving = u.leaving
      /\ b.ui = u.ui /\ b.link = u.link /\ b.linked = u.linked /\ b.pageLinked = u.pageLinked
      /\ b.linkBox = u.linkBox /\ b.deferred = u.deferred /\ b.posted = u.posted
      /\ b.watching = u.watching /\ b.poll = u.poll /\ b.polls = u.polls /\ b.reads = u.reads
  BY <1>1 DEF Kept, AppSet
<1> HIDE DEF b
<1>4. /\ b.posted = a.posted /\ b.deferred = NoMode /\ b.watching = a.watching
      /\ b.leaving = a.leaving /\ b.polls = {} /\ b.reads = {}
      /\ ~b.poll.timer /\ ~b.poll.inFlight
  BY <1>1, <1>3 DEF Kept, Sound, Quiet
<1>5. PostedSound(b.posted, b.live, b.deferred, b.watching) /\ AllStale(b.posted)
  BY <1>3, <1>4 DEF Sound, PostedSound, NoneOf, AllStale
<1>6. LinkSound(b)
  BY <1>1, <1>3 DEF Sound, LinkSound, Kept
<1>7. Sound(b)
  BY <1>1, <1>3, <1>4, <1>5, <1>6 DEF Sound, Quiet
<1> QED BY <1>1, <1>2, <1>3, <1>4, <1>5, <1>7, ModesAssumption DEF Launched

LEMMA ConnectReady ==
  ASSUME NEW a, Ready(a), stack \in StackSet, NoneOf(a.posted, "runDeferred"), NEW m \in Modes
  PROVE  LET b == RequestConnect(a, m) IN (Ready(b) \/ Launched(b)) /\ Longer(a, b)
<1>0. a \in AppSet /\ Longer(a, a)
  BY SameLonger DEF Ready, ReadyFor, Sound
<1>1. CASE a.ui = "Connecting"
  BY <1>0, <1>1 DEF RequestConnect
<1>2. CASE a.ui # "Connecting" /\ (a.live \/ a.releases > 0)
  <2> DEFINE b == [a EXCEPT !.deferred = m]
  <2>1. Releasable(b) /\ b.posted = a.posted
    BY DeferReleasable DEF Ready, ReadyFor
  <2> HIDE DEF b
  <2>3. Ready(RequestRelease(b)) /\ Longer(a, RequestRelease(b))
    BY <2>1, ReleaseReady DEF Longer
  <2>2. LET r == RequestRelease([a EXCEPT !.deferred = m]) IN Ready(r) /\ Longer(a, r)
    BY <2>3 DEF b
  <2> QED BY <1>2, <2>2 DEF RequestConnect
<1>3. CASE a.ui # "Connecting" /\ ~(a.live \/ a.releases > 0)
  <2>1. a.deferred = NoMode
    BY <1>3 DEF Ready, ReadyFor, Sound
  <2>2. Launched(StartConnect(a, m)) /\ Longer(a, StartConnect(a, m))
    BY <1>0, <1>3, <2>1, StartReady, SameLonger DEF Ready, ReadyFor
  <2> QED BY <1>3, <2>2 DEF RequestConnect
<1> QED BY <1>1, <1>2, <1>3

LEMMA SwitchReady ==
  ASSUME NEW a, Ready(a), stack \in StackSet, NoneOf(a.posted, "teardown"), NEW m \in Modes
  PROVE  Ready(SwitchMode(a, m)) /\ Longer(a, SwitchMode(a, m))
<1> DEFINE b == [a EXCEPT !.pending = m, !.watching = TRUE]
<1>1. a \in AppSet
  BY DEF Ready, ReadyFor, Sound
<1>2. /\ b \in AppSet /\ b.watching = TRUE
      /\ b.live = a.live /\ b.deferred = a.deferred /\ b.releases = a.releases
      /\ b.link = a.link /\ b.linked = a.linked /\ b.pageLinked = a.pageLinked
      /\ b.linkBox = a.linkBox /\ b.ui = a.ui /\ b.leaving = a.leaving
      /\ b.started = a.started /\ b.posted = a.posted
      /\ b.poll = a.poll /\ b.polls = a.polls /\ b.reads = a.reads
  BY <1>1 DEF AppSet
<1> HIDE DEF b
<1>3. PostedSound(b.posted, b.live, b.deferred, b.watching)
  BY <1>2 DEF Ready, ReadyFor, Sound, PostedSound, NoneOf
<1>4. Sound(b) /\ b.started = NoMode
  BY <1>2, <1>3 DEF Ready, ReadyFor, Sound, LinkSound, Quiet
<1>5. /\ Ready(RequestDisconnect(b)) /\ Longer(a, RequestDisconnect(b))
      /\ Ready(ReleaseStack(b)) /\ Longer(a, ReleaseStack(b))
  BY <1>2, <1>4, DisconnectReady, ReleaseStackReady DEF Longer
<1>6. Longer(a, a)
  BY <1>1, SameLonger
<1> QED BY <1>5, <1>6 DEF SwitchMode, b

LEMMA TeardownReady ==
  ASSUME NEW a, Ready(a), stack \in StackSet
  PROVE  Ready(Teardown(a))
<1> DEFINE m == a.pending
           r == RequestRelease(a)
           x == [r EXCEPT !.mode = m, !.ui = "Disconnected"]
           d == Display(x, "Disconnected")
           p == [NoPoll EXCEPT !.fault = TRUE]
           f == [d EXCEPT
                   !.explicit = FALSE, !.deferred = NoMode, !.linked = FALSE, !.live = FALSE,
                   !.releases = 0, !.watching = FALSE, !.polls = {}, !.reads = {}, !.poll = p,
                   !.pageLinked = FALSE, !.linkBox = FALSE, !.guards = "Disconnected",
                   !.pollBox = FALSE]
           g == [f EXCEPT !.posted = <<>>, !.leaving = <<>>]
<1>1. Ready(r) /\ r.link = "Idle" /\ r \in AppSet /\ m \in Modes
  BY SMTT(20), SoundReleasable, ReleaseReady DEF Ready, ReadyFor, Sound, AppSet
<1>2. Teardown(a) = g
  BY DEF Teardown, FreshServices
<1>3. p \in PollSet /\ p.timer = FALSE /\ p.inFlight = FALSE
  <2>1. ASSUME NEW q \in PollSet, NEW yes \in BOOLEAN
        PROVE  LET s == [q EXCEPT !.fault = yes]
               IN  s \in PollSet /\ s.timer = q.timer /\ s.inFlight = q.inFlight
    BY DEF PollSet
  <2> QED BY <2>1, PollTypes
<1> HIDE DEF r, m, p
<1>4. x \in AppSet /\ x.link = "Idle" /\ x.ui = "Disconnected" /\ x.started = NoMode
  BY <1>1 DEF AppSet, UiStates, Ready, ReadyFor
<1> HIDE DEF x
<1>5. d \in AppSet /\ d.link = "Idle" /\ d.ui = "Disconnected" /\ d.started = NoMode
  BY <1>4, TameDisplay DEF Tame, Kept, UiStates
<1> HIDE DEF d
<1>6. /\ f \in AppSet /\ f.link = "Idle" /\ f.ui = "Disconnected" /\ f.started = NoMode
      /\ f.deferred = NoMode /\ f.linked = FALSE /\ f.live = FALSE /\ f.watching = FALSE
      /\ f.polls = {} /\ f.reads = {} /\ f.poll = p
      /\ f.pageLinked = FALSE /\ f.linkBox = FALSE
  <2> DEFINE d1 == [d EXCEPT !.explicit = FALSE, !.deferred = NoMode, !.linked = FALSE]
             d2 == [d1 EXCEPT !.live = FALSE, !.releases = 0, !.watching = FALSE]
             d3 == [d2 EXCEPT !.polls = {}, !.reads = {}, !.poll = p]
             d4 == [d3 EXCEPT !.pageLinked = FALSE, !.linkBox = FALSE]
             d5 == [d4 EXCEPT !.guards = "Disconnected", !.pollBox = FALSE]
  <2>0. f = d5
    OBVIOUS
  <2> HIDE DEF f
  <2>1. /\ d1 \in AppSet /\ d1.link = "Idle" /\ d1.ui = "Disconnected" /\ d1.started = NoMode
        /\ d1.deferred = NoMode /\ d1.linked = FALSE
    <3> DEFINE h == [d EXCEPT !.explicit = FALSE]
               k == [h EXCEPT !.deferred = NoMode]
    <3>1. h \in AppSet /\ h.link = d.link /\ h.ui = d.ui /\ h.started = d.started
      BY ZenonT(40), <1>5 DEF AppSet
    <3>2. d1 = [k EXCEPT !.linked = FALSE]
      OBVIOUS
    <3> HIDE DEF h, d1
    <3>3. /\ k \in AppSet /\ k.link = h.link /\ k.ui = h.ui /\ k.started = h.started
          /\ k.deferred = NoMode
      BY <3>1 DEF AppSet
    <3> HIDE DEF k
    <3> QED BY <1>5, <3>1, <3>2, <3>3 DEF AppSet
  <2> HIDE DEF d1
  <2>2. /\ d2 \in AppSet /\ d2.link = "Idle" /\ d2.ui = "Disconnected" /\ d2.started = NoMode
        /\ d2.deferred = NoMode /\ d2.linked = FALSE /\ d2.live = FALSE /\ d2.watching = FALSE
    BY <2>1 DEF AppSet
  <2> HIDE DEF d2
  <2>3. /\ d3 \in AppSet /\ d3.link = "Idle" /\ d3.ui = "Disconnected" /\ d3.started = NoMode
        /\ d3.deferred = NoMode /\ d3.linked = FALSE /\ d3.live = FALSE /\ d3.watching = FALSE
        /\ d3.polls = {} /\ d3.reads = {} /\ d3.poll = p
    BY <1>3, <2>2 DEF AppSet
  <2> HIDE DEF d3
  <2>4. /\ d4 \in AppSet /\ d4.link = "Idle" /\ d4.ui = "Disconnected" /\ d4.started = NoMode
        /\ d4.deferred = NoMode /\ d4.linked = FALSE /\ d4.live = FALSE /\ d4.watching = FALSE
        /\ d4.polls = {} /\ d4.reads = {} /\ d4.poll = p
        /\ d4.pageLinked = FALSE /\ d4.linkBox = FALSE
    BY <2>3 DEF AppSet
  <2> HIDE DEF d4
  <2> QED BY <2>0, <2>4 DEF AppSet
<1> HIDE DEF f
<1>7. /\ g \in AppSet /\ g.posted = <<>> /\ g.leaving = <<>>
      /\ g.link = "Idle" /\ g.ui = "Disconnected" /\ g.started = NoMode
      /\ g.deferred = NoMode /\ g.linked = FALSE /\ g.live = FALSE /\ g.watching = FALSE
      /\ g.polls = {} /\ g.reads = {} /\ g.poll = p
      /\ g.pageLinked = FALSE /\ g.linkBox = FALSE
  <2>1. ASSUME NEW none \in Seq(Events)
        PROVE  LET h == [f EXCEPT !.posted = none, !.leaving = none]
               IN  /\ h \in AppSet /\ h.posted = none /\ h.leaving = none
                   /\ h.link = f.link /\ h.ui = f.ui /\ h.started = f.started
                   /\ h.deferred = f.deferred /\ h.linked = f.linked /\ h.live = f.live
                   /\ h.watching = f.watching /\ h.polls = f.polls /\ h.reads = f.reads
                   /\ h.poll = f.poll /\ h.pageLinked = f.pageLinked /\ h.linkBox = f.linkBox
    BY <1>6 DEF AppSet
  <2>2. <<>> \in Seq(Events)
    OBVIOUS
  <2> QED BY <1>6, <2>1, <2>2
<1> HIDE DEF g
<1>8. PostedSound(g.posted, FALSE, NoMode, g.watching) /\ LeavingSound(g.leaving)
  BY <1>7 DEF PostedSound, LeavingSound
<1>9. Released(g)
  BY <1>3, <1>7, <1>8 DEF Released, LinkSound
<1> QED BY <1>2, <1>7, <1>9, ReleasedReady

\* A poll is submitted to a live stack that is in use.
LEMMA SubmitReady ==
  ASSUME NEW a, Ready(a), a.live, ~Unused(a), NEW id \in Ids, id \notin a.reads
  PROVE  Ready(BuildAndSubmit(a, id)) /\ BuildAndSubmit(a, id).posted = a.posted
<1> DEFINE s == IF a.poll.state = "Idle" THEN "Polling" ELSE a.poll.state
           p == [a.poll EXCEPT !.inFlight = TRUE, !.state = s]
           P == a.polls \cup {id}
           one == <<id>>
           b == [a EXCEPT !.poll = p, !.polls = P, !.submit = one]
<1>1. BuildAndSubmit(a, id) = IF ~a.poll.valid THEN a ELSE b
  BY DEF BuildAndSubmit
<1>2. a \in AppSet /\ a.poll \in PollSet
  BY DEF Ready, ReadyFor, Sound, AppSet
<1>3. s \in {"Idle", "Polling", "Degraded", "Escalated"}
  BY <1>2, PollTypes
<1>4. p \in PollSet /\ p.inFlight = TRUE
  <2> HIDE DEF s
  <2> QED BY <1>2, <1>3 DEF PollSet
<1>5. /\ P \in SUBSET Ids /\ P \cap a.reads = {} /\ id \in P
      /\ one \in Seq(Ids) /\ Holds(one, id)
  BY <1>2 DEF AppSet, Ready, ReadyFor, Sound, Holds
<1> HIDE DEF s, p, P, one
<1>6. /\ b \in AppSet /\ b.poll = p /\ b.polls = P /\ b.submit = one
      /\ b.live = a.live /\ b.deferred = a.deferred /\ b.releases = a.releases
      /\ b.link = a.link /\ b.linked = a.linked /\ b.pageLinked = a.pageLinked
      /\ b.linkBox = a.linkBox /\ b.ui = a.ui /\ b.leaving = a.leaving /\ b.posted = a.posted
      /\ b.watching = a.watching /\ b.started = a.started /\ b.reads = a.reads
  BY <1>2, <1>4, <1>5 DEF AppSet
<1> HIDE DEF b
<1>7. Sound(b)
  BY <1>5, <1>6 DEF Sound, LinkSound, Quiet, Ready, ReadyFor
<1>8. Served(b, {})
  BY <1>5, <1>6 DEF Served, Ready, ReadyFor
<1>9. Ready(b)
  BY <1>6, <1>7, <1>8 DEF Ready, ReadyFor
<1> QED BY <1>1, <1>6, <1>9

LEMMA StartPollingReady ==
  ASSUME NEW a, Ready(a), Established(a.ui), NEW valid \in BOOLEAN, NEW id \in Ids, id \notin a.reads
  PROVE  Ready(StartPolling(a, valid, id)) /\ StartPolling(a, valid, id).posted = a.posted
<1> DEFINE p == [a.poll EXCEPT !.valid = valid, !.timer = TRUE]
           b == [a EXCEPT !.poll = p]
<1>1. a \in AppSet /\ a.live /\ a.poll \in PollSet /\ ~Unused(a)
  BY DEF Ready, ReadyFor, Sound, Established, AppSet, Unused
<1>2. p \in PollSet /\ p.inFlight = a.poll.inFlight
  <2>1. ASSUME NEW yes \in BOOLEAN
        PROVE  LET q == [a.poll EXCEPT !.valid = valid, !.timer = yes]
               IN  q \in PollSet /\ q.inFlight = a.poll.inFlight
    BY <1>1 DEF PollSet
  <2> QED BY <2>1
<1> HIDE DEF p
<1>3. /\ b \in AppSet /\ b.poll = p /\ b.polls = a.polls /\ b.submit = a.submit
      /\ b.live = a.live /\ b.deferred = a.deferred /\ b.releases = a.releases
      /\ b.link = a.link /\ b.linked = a.linked /\ b.pageLinked = a.pageLinked
      /\ b.linkBox = a.linkBox /\ b.ui = a.ui /\ b.leaving = a.leaving /\ b.posted = a.posted
      /\ b.watching = a.watching /\ b.started = a.started /\ b.reads = a.reads
  BY <1>1, <1>2 DEF AppSet
<1>4. StartPolling(a, valid, id) = b \/ StartPolling(a, valid, id) = BuildAndSubmit(b, id)
  BY DEF StartPolling, p
<1> HIDE DEF b
<1>5. Sound(b)
  BY <1>1, <1>3 DEF Sound, LinkSound, Quiet, Ready, ReadyFor
<1>6. Served(b, {}) /\ ~Unused(b)
  BY <1>1, <1>2, <1>3 DEF Served, Ready, ReadyFor, Unused
<1>7. Ready(b)
  BY <1>3, <1>5, <1>6 DEF Ready, ReadyFor
<1> QED BY ZenonT(40), <1>1, <1>3, <1>4, <1>6, <1>7, SubmitReady

LEMMA RequestReady ==
  ASSUME NEW a, Ready(a), a.submit = <<>>, Established(a.ui), NEW id \in Ids, id \notin a.polls
  PROVE  LET b == [a EXCEPT !.reads = a.reads \cup {id}, !.submit = <<id>>]
         IN  Ready(b) /\ b.posted = a.posted
<1> DEFINE R == a.reads \cup {id}
           one == <<id>>
           b == [a EXCEPT !.reads = R, !.submit = one]
<1>1. a \in AppSet /\ a.live /\ ~Unused(a)
  BY DEF Ready, ReadyFor, Sound, Established, Unused
<1>2. R \in SUBSET Ids /\ a.polls \cap R = {} /\ one \in Seq(Ids)
  BY <1>1 DEF AppSet, Ready, ReadyFor, Sound
<1>3. \A i : ~Holds(a.submit, i)
  BY DEF Holds
<1> HIDE DEF R, one
<1>4. /\ b \in AppSet /\ b.poll = a.poll /\ b.polls = a.polls /\ b.reads = R
      /\ b.live = a.live /\ b.deferred = a.deferred /\ b.releases = a.releases
      /\ b.link = a.link /\ b.linked = a.linked /\ b.pageLinked = a.pageLinked
      /\ b.linkBox = a.linkBox /\ b.ui = a.ui /\ b.leaving = a.leaving /\ b.posted = a.posted
      /\ b.watching = a.watching /\ b.started = a.started
  BY <1>1, <1>2 DEF AppSet
<1> HIDE DEF b
<1>5. Sound(b)
  BY <1>1, <1>2, <1>4 DEF Sound, LinkSound, Quiet, Ready, ReadyFor
<1>6. Served(b, {})
  BY <1>1, <1>3, <1>4 DEF Served, Ready, ReadyFor
<1> QED BY <1>4, <1>5, <1>6 DEF Ready, ReadyFor, b, R, one

-----------------------------------------------------------------------------
(* Steps *)

\* The invariant, said of a state and of the stack that goes with it.
LEMMA PageInvNext ==
  ASSUME Sound(app'), app'.started = NoMode, app'.submit = <<>>, StackSound',
         app'.live => /\ app'.poll.inFlight =>
                           \E id \in app'.polls : HasAnswer(app'.posted, id) \/ Holds(stack'.held, id)
                      /\ stack'.attempt = "connect" /\ stack'.channel # "Open" =>
                           stack'.held = <<>> /\ ~app'.poll.timer /\ ~Established(app'.ui)
                      /\ FailureWaits(app'.posted) =>
                           /\ stack'.core = "Failed" /\ stack'.attempt = "none"
                           /\ stack'.held = <<>> /\ ~app'.poll.timer /\ ~Established(app'.ui)
  PROVE  PageInv'
<1>1. Served(app, {})'
  BY DEF Served, Unused
<1>2. Sound(app)'
  BY DEF Sound, LinkSound, Quiet
<1> QED BY <1>1, <1>2 DEF PageInv, Ready, ReadyFor

LEMMA StackTypes ==
  /\ NoStack \in StackSet
  /\ \A s \in StackSet :
            /\ s.core \in {"Disconnected", "Connecting", "Connected", "Failed"}
            /\ s.channel \in {"Closed", "Opening", "Open"}
            /\ s.attempt \in {"none", "connect", "heal"} /\ s.held \in Seq(Ids)
BY DEF NoStack, StackSet

LEMMA BecomesInv ==
  ASSUME NEW a, Ready(a) \/ Launched(a), StackSound, Becomes(a)
  PROVE  PageInv' /\ app'.live = a.live /\ app'.posted = a.posted
<1> DEFINE b == [a EXCEPT !.submit = <<>>, !.started = NoMode]
<1>1. Sound(a) /\ a \in AppSet
  BY DEF Ready, ReadyFor, Launched, Sound
<1>2. app' = b
  BY DEF Becomes
<1>3. /\ b \in AppSet /\ b.submit = <<>> /\ b.started = NoMode
      /\ b.live = a.live /\ b.deferred = a.deferred /\ b.releases = a.releases
      /\ b.link = a.link /\ b.linked = a.linked /\ b.pageLinked = a.pageLinked
      /\ b.linkBox = a.linkBox /\ b.ui = a.ui /\ b.leaving = a.leaving /\ b.posted = a.posted
      /\ b.watching = a.watching /\ b.poll = a.poll /\ b.polls = a.polls /\ b.reads = a.reads
  <2> DEFINE none == <<>>
             x == [a EXCEPT !.submit = none]
  <2>1. none \in Seq(Ids)
    OBVIOUS
  <2> HIDE DEF none
  <2>2. /\ x \in AppSet /\ x.submit = none
        /\ x.live = a.live /\ x.deferred = a.deferred /\ x.releases = a.releases
        /\ x.link = a.link /\ x.linked = a.linked /\ x.pageLinked = a.pageLinked
        /\ x.linkBox = a.linkBox /\ x.ui = a.ui /\ x.leaving = a.leaving /\ x.posted = a.posted
        /\ x.watching = a.watching /\ x.poll = a.poll /\ x.polls = a.polls /\ x.reads = a.reads
    BY <1>1, <2>1 DEF AppSet
  <2>3. b = [x EXCEPT !.started = NoMode]
    BY DEF none
  <2> HIDE DEF x, b
  <2>4. /\ b \in AppSet /\ b.submit = x.submit /\ b.started = NoMode
        /\ b.live = x.live /\ b.deferred = x.deferred /\ b.releases = x.releases
        /\ b.link = x.link /\ b.linked = x.linked /\ b.pageLinked = x.pageLinked
        /\ b.linkBox = x.linkBox /\ b.ui = x.ui /\ b.leaving = x.leaving /\ b.posted = x.posted
        /\ b.watching = x.watching /\ b.poll = x.poll /\ b.polls = x.polls /\ b.reads = x.reads
    BY <2>2, <2>3 DEF AppSet
  <2> QED BY <2>2, <2>4 DEF none
<1> HIDE DEF b
<1>4. Sound(b)
  BY <1>1, <1>3 DEF Sound, LinkSound, Quiet
<1>5. CASE Launched(a)
  <2> DEFINE k == [NoStack EXCEPT !.attempt = "connect"]
  <2>1. stack' = k
    BY <1>5 DEF Becomes, Launched
  <2>2. /\ k \in StackSet /\ k.core = "Disconnected" /\ k.channel = "Closed"
        /\ k.attempt = "connect" /\ k.held = <<>>
    <3>1. /\ NoStack \in StackSet /\ NoStack.core = "Disconnected" /\ NoStack.channel = "Closed"
          /\ NoStack.held = <<>>
      BY DEF NoStack, StackSet
    <3>2. ASSUME NEW q \in StackSet
          PROVE  LET r == [q EXCEPT !.attempt = "connect"]
                 IN  /\ r \in StackSet /\ r.core = q.core /\ r.channel = q.channel
                     /\ r.attempt = "connect" /\ r.held = q.held
      BY DEF StackSet
    <3> QED BY <3>1, <3>2
  <2> HIDE DEF k
  <2>3. StackSound'
    BY <2>1, <2>2 DEF StackSound
  <2>4. ~FailureWaits(b.posted)
    BY <1>3, <1>5 DEF Launched, AllStale, FailureWaits, Sessional
  <2>5. ~Established(b.ui) /\ ~b.poll.timer /\ ~b.poll.inFlight
    BY <1>3, <1>5 DEF Launched, Established
  <2> QED BY <1>2, <1>3, <1>4, <2>1, <2>2, <2>3, <2>4, <2>5, PageInvNext
<1>6. CASE Ready(a) /\ ~a.live
  <2>1. stack' = NoStack
    BY <1>6 DEF Becomes, Ready, ReadyFor
  <2>2. StackSound'
    BY <2>1 DEF StackSound, NoStack, StackSet
  <2> QED BY <1>2, <1>3, <1>4, <1>6, <2>2, PageInvNext
<1>7. CASE Ready(a) /\ a.live
  <2> DEFINE h == stack.held \o a.submit
             k == [stack EXCEPT !.held = h]
  <2>1. stack' = k
    BY <1>7 DEF Becomes, Ready, ReadyFor
  <2>2. /\ stack.held \in Seq(Ids) /\ a.submit \in Seq(Ids) /\ stack \in StackSet
    BY <1>1 DEF StackSound, StackSet, AppSet
  <2>3. /\ h \in Seq(Ids)
        /\ stack.held = <<>> /\ a.submit = <<>> => h = <<>>
        /\ stack.held # <<>> => h # <<>>
        /\ \A id : Holds(stack.held, id) \/ Holds(a.submit, id) => Holds(h, id)
    <3>1. /\ stack.held = <<>> /\ a.submit = <<>> => h = <<>>
          /\ stack.held # <<>> => h # <<>>
      BY <2>2
    <3>2. \A id : Holds(stack.held, id) \/ Holds(a.submit, id) => Holds(h, id)
      <4>1. /\ \A i \in DOMAIN stack.held : i \in DOMAIN h /\ h[i] = stack.held[i]
            /\ \A i \in DOMAIN a.submit : Len(stack.held) + i \in DOMAIN h
                                           /\ h[Len(stack.held) + i] = a.submit[i]
        <5> DEFINE q == stack.held
                   r == a.submit
        <5>1. q \in Seq(Ids) /\ r \in Seq(Ids) /\ h = q \o r
          BY <2>2
        <5> HIDE DEF q, r, h
        <5>2. /\ \A i \in DOMAIN q : i \in DOMAIN h /\ h[i] = q[i]
              /\ \A i \in DOMAIN r : Len(q) + i \in DOMAIN h /\ h[Len(q) + i] = r[i]
          BY <5>1, ConcatFacts
        <5> QED BY <5>2 DEF q, r
      <4> HIDE DEF h
      <4> QED BY <4>1 DEF Holds
    <3> QED BY <2>2, <3>1, <3>2
  <2> HIDE DEF h
  <2>4. /\ k \in StackSet /\ k.core = stack.core /\ k.channel = stack.channel
        /\ k.attempt = stack.attempt /\ k.held = h
    BY <2>2, <2>3 DEF StackSet
  <2> HIDE DEF k
  <2>5. StackSound'
    BY <2>1, <2>3, <2>4 DEF StackSound
  <2>6. Served(a, {}) /\ a.live
    BY <1>7 DEF Ready, ReadyFor
  <2>7. b.poll.inFlight => \E id \in b.polls : HasAnswer(b.posted, id) \/ Holds(h, id)
    BY <1>3, <2>3, <2>6 DEF Served
  <2>8. Unused(a) => h = <<>> /\ ~b.poll.timer /\ ~Established(b.ui)
    BY <1>3, <2>3 DEF Unused
  <2>9. /\ k.attempt = "connect" /\ k.channel # "Open" => Unused(a)
        /\ FailureWaits(b.posted) => k.core = "Failed" /\ k.attempt = "none" /\ Unused(a)
    BY <1>3, <2>4, <2>6 DEF Served
  <2> QED BY <1>2, <1>3, <1>4, <2>1, <2>4, <2>5, <2>7, <2>8, <2>9, PageInvNext
<1> QED BY <1>5, <1>6, <1>7

\* The user's acts: nothing the page has posted to itself is pending.
LEMMA UserFacts ==
  ASSUME PageInv
  PROVE  /\ Ready(app) /\ app \in AppSet /\ app.submit = <<>> /\ StackSound /\ stack \in StackSet
         /\ User => NoneOf(app.posted, "runDeferred") /\ NoneOf(app.posted, "teardown")
BY DEF PageInv, Ready, ReadyFor, Sound, StackSound, User, NoneOf

LEMMA NewIdFacts ==
  ASSUME NEW id \in Ids, NewId(id)
  PROVE  id \notin app.polls /\ id \notin app.reads
BY DEF NewId, InUse

LEMMA UserActsInv ==
  ASSUME PageInv, UserActs
  PROVE  PageInv' /\ Longer(app, app')
<1>0. ASSUME NEW a, Ready(a) \/ Launched(a), Becomes(a), Longer(app, a) \/ a.posted = app.posted
      PROVE  PageInv' /\ Longer(app, app')
  BY <1>0, UserFacts, BecomesInv, SameLonger DEF Longer
<1>1. CASE ClickConnect
  <2>1. app.shown \in Modes
    BY UserFacts DEF AppSet
  <2>2. LET b == RequestConnect(app, app.shown) IN (Ready(b) \/ Launched(b)) /\ Longer(app, b)
    BY <1>1, <2>1, UserFacts, ConnectReady DEF ClickConnect
  <2> QED BY <1>0, <1>1, <2>2 DEF ClickConnect
<1>2. CASE ClickDisconnect
  <2>1. Ready(RequestDisconnect(app)) /\ Longer(app, RequestDisconnect(app))
    BY UserFacts, DisconnectReady DEF Ready, ReadyFor
  <2> QED BY <1>0, <1>2, <2>1 DEF ClickDisconnect
<1>3. CASE SwitchToProtocol
  <2>1. PICK m \in Modes :
          Becomes(SwitchMode([app EXCEPT !.shown = m, !.pollBox = FALSE, !.linkBox = FALSE], m))
    BY <1>3 DEF SwitchToProtocol
  <2> DEFINE a == [app EXCEPT !.shown = m, !.pollBox = FALSE, !.linkBox = FALSE]
  <2>2. /\ a \in AppSet /\ a.linkBox = FALSE
        /\ a.live = app.live /\ a.deferred = app.deferred /\ a.releases = app.releases
        /\ a.link = app.link /\ a.linked = app.linked /\ a.pageLinked = app.pageLinked
        /\ a.ui = app.ui /\ a.leaving = app.leaving /\ a.posted = app.posted
        /\ a.watching = app.watching /\ a.submit = app.submit /\ a.started = app.started
        /\ a.poll = app.poll /\ a.polls = app.polls /\ a.reads = app.reads
    BY UserFacts DEF AppSet
  <2> HIDE DEF a
  <2>3. Sound(a)
    BY <2>2, UserFacts DEF Ready, ReadyFor, Sound, LinkSound, Quiet
  <2>4. Served(a, {})
    BY <2>2, UserFacts DEF Ready, ReadyFor, Served, Unused
  <2>5. Ready(a)
    BY <2>2, <2>3, <2>4, UserFacts DEF Ready, ReadyFor
  <2>6. NoneOf(a.posted, "teardown")
    BY <1>3, <2>2, UserFacts DEF SwitchToProtocol
  <2>7. Ready(SwitchMode(a, m)) /\ Longer(app, SwitchMode(a, m))
    BY <2>2, <2>5, <2>6, UserFacts, SwitchReady DEF Longer
  <2> QED BY <1>0, <2>1, <2>7 DEF a
<1>4. CASE ClickRequest
  <2>1. PICK id \in Ids : NewId(id) /\ Becomes([app EXCEPT !.reads = app.reads \cup {id}, !.submit = <<id>>])
    BY <1>4 DEF ClickRequest
  <2>2. Established(app.ui)
    BY <1>4 DEF ClickRequest, SessionIsConnected
  <2>3. LET b == [app EXCEPT !.reads = app.reads \cup {id}, !.submit = <<id>>]
        IN  Ready(b) /\ b.posted = app.posted
    BY <2>1, <2>2, UserFacts, NewIdFacts, RequestReady
  <2> QED BY <1>0, <2>1, <2>3
<1>5. CASE StartPoll
  <2>1. ASSUME NEW box \in BOOLEAN
        PROVE  LET b == [app EXCEPT !.pollBox = box]
               IN  Ready(b) /\ b.posted = app.posted /\ b.ui = app.ui /\ b.reads = app.reads
    <3>1. Tame(app, [app EXCEPT !.pollBox = box])
      BY UserFacts DEF Tame, Kept, AppSet
    <3> QED BY <3>1, UserFacts, TameReady DEF Tame, Kept
  <2>2. CASE Becomes([app EXCEPT !.pollBox = FALSE])
    BY <1>0, <2>1, <2>2
  <2>3. ASSUME SessionIsConnected(app), NEW id \in Ids, NEW valid \in BOOLEAN, NewId(id),
               Becomes(StartPolling([app EXCEPT !.pollBox = TRUE], valid, id))
        PROVE  PageInv' /\ Longer(app, app')
    <3> DEFINE a == [app EXCEPT !.pollBox = TRUE]
    <3>1. Ready(a) /\ a.posted = app.posted /\ a.ui = app.ui /\ a.reads = app.reads
      BY <2>1
    <3> HIDE DEF a
    <3>2. Ready(StartPolling(a, valid, id)) /\ StartPolling(a, valid, id).posted = app.posted
      BY <2>3, <3>1, NewIdFacts, StartPollingReady DEF SessionIsConnected
    <3> QED BY <1>0, <2>3, <3>2 DEF a
  <2> QED BY <1>5, <2>2, <2>3 DEF StartPoll
<1>6. CASE ClickPollOff
  <2>1. Ready(StopPoll(app)) /\ StopPoll(app).posted = app.posted
    BY UserFacts, TameStopPoll, TameReady DEF Tame, Kept
  <2> QED BY <1>0, <1>6, <2>1 DEF ClickPollOff
<1>7. CASE ToggleLink \/ PauseLink \/ StopLink
  <2>1. \A s \in {"Idle", "Live", "Paused"} :
          Ready(LinkTo(app, s)) /\ LinkTo(app, s).posted = app.posted
    BY UserFacts, LinkReady
  <2>2. PICK s \in {"Idle", "Live", "Paused"} : Becomes(LinkTo(app, s))
    BY <1>7 DEF ToggleLink, PauseLink, StopLink
  <2> QED BY <1>0, <2>1, <2>2
<1>8. CASE ResumeLink
  BY <1>0, <1>8, UserFacts, ResumeReady DEF ResumeLink
<1> QED BY <1>1, <1>2, <1>3, <1>4, <1>5, <1>6, <1>7, <1>8 DEF UserActs

LEMMA PollTickInv ==
  ASSUME PageInv, PollTick
  PROVE  PageInv' /\ Longer(app, app')
<1>1. PICK id \in Ids : NewId(id) /\ Becomes(BuildAndSubmit(app, id))
  BY DEF PollTick
<1>2. app.live /\ ~Unused(app)
  BY UserFacts DEF PollTick, Ready, ReadyFor, Sound, Quiet, Unused
<1>3. Ready(BuildAndSubmit(app, id)) /\ BuildAndSubmit(app, id).posted = app.posted
  BY <1>1, <1>2, UserFacts, NewIdFacts, SubmitReady
<1> QED BY <1>1, <1>3, UserFacts, BecomesInv, SameLonger

LEMMA CloseAlertInv ==
  ASSUME PageInv, CloseAlert
  PROVE  PageInv' /\ Longer(app, app')
<1> DEFINE n == app.alerts - 1
           a == [app EXCEPT !.alerts = n]
<1>1. n \in 0 .. MaxAlerts
  BY UserFacts, BoundsAssumption DEF CloseAlert, AppSet
<1>2. Becomes(ReportLoss(a))
  BY DEF CloseAlert
<1> HIDE DEF n
<1>3. Tame(app, a)
  BY <1>1, UserFacts DEF Tame, Kept, AppSet
<1> HIDE DEF a
<1>4. Ready(ReportLoss(a)) /\ a \in AppSet /\ a.posted = app.posted
  BY <1>3, UserFacts, TameReady, ReportLossReady DEF Tame, Kept
<1>5. ReportLoss(a).posted = app.posted
  BY <1>4, TameReportLoss DEF Tame, Kept
<1> QED BY <1>2, <1>4, <1>5, UserFacts, BecomesInv, SameLonger

\* A release completes; the last one lets a connect that waits start.
LEMMA ReleaseCompletesInv ==
  ASSUME PageInv, ReleaseCompletes
  PROVE  PageInv' /\ Longer(app, app')
<1> DEFINE n == app.releases - 1
           l == IF app.releases = 1 THEN <<>> ELSE app.leaving
           a == [app EXCEPT !.releases = n, !.leaving = l]
           b == IF ~a.live /\ a.ui # "Connecting" THEN Display(a, "Disconnected") ELSE a
           c == StackReleased(b)
           d == MaybeRunDeferred(c)
<1>1. Becomes(d)
  BY DEF ReleaseCompletes
<1>2. n \in Nat /\ LeavingSound(l) /\ l \in Seq(Events)
  <2>1. app.releases \in Nat /\ app.releases > 0 /\ LeavingSound(app.leaving)
    BY UserFacts DEF ReleaseCompletes, AppSet, Ready, ReadyFor, Sound
  <2>2. LeavingSound(<<>>)
    BY DEF LeavingSound
  <2> QED BY <2>1, <2>2 DEF LeavingSound
<1> HIDE DEF n, l
<1>3. /\ a \in AppSet /\ a.leaving = l /\ a.releases = n
      /\ a.live = app.live /\ a.deferred = app.deferred
      /\ a.link = app.link /\ a.linked = app.linked /\ a.pageLinked = app.pageLinked
      /\ a.linkBox = app.linkBox /\ a.ui = app.ui /\ a.posted = app.posted
      /\ a.watching = app.watching /\ a.submit = app.submit /\ a.started = app.started
      /\ a.poll = app.poll /\ a.polls = app.polls /\ a.reads = app.reads
  BY <1>2, UserFacts DEF AppSet
<1> HIDE DEF a
<1>4. Tame(a, b) /\ b \in AppSet
  BY <1>3, TameDisplay, TameKeeps DEF UiStates, Tame, Kept
<1> HIDE DEF b
<1>5. /\ LinkSound(b) /\ LeavingSound(b.leaving) /\ b.live = app.live /\ b.started = NoMode
      /\ PostedSound(b.posted, app.live, app.deferred, b.watching)
      /\ b.posted = app.posted /\ b.deferred = app.deferred
  BY <1>2, <1>3, <1>4, UserFacts DEF Tame, Kept, Ready, ReadyFor, Sound, LinkSound
<1>6. CASE app.live
  <2>1. /\ c \in AppSet /\ PostedSound(c.posted, c.live, c.deferred, c.watching)
        /\ c.live = b.live /\ c.deferred = b.deferred
        /\ c.link = b.link /\ c.linked = b.linked /\ c.pageLinked = b.pageLinked
        /\ c.linkBox = b.linkBox /\ c.ui = b.ui /\ c.leaving = b.leaving
        /\ c.submit = b.submit /\ c.started = b.started
        /\ c.poll = b.poll /\ c.polls = b.polls /\ c.reads = b.reads
        /\ FailureWaits(c.posted) => FailureWaits(b.posted)
        /\ \A id : HasAnswer(b.posted, id) => HasAnswer(c.posted, id)
        /\ Longer(b, c)
    BY <1>4, <1>5, StackReleasedKeeps
  <2> HIDE DEF c
  <2>2. c.deferred = NoMode
    BY <1>5, <1>6, <2>1, UserFacts DEF Ready, ReadyFor, Sound
  <2>3. /\ b.poll.timer => app.poll.timer
        /\ b.poll.inFlight => app.poll.inFlight
        /\ b.polls = app.polls /\ b.reads = app.reads /\ b.ui = app.ui /\ b.submit = app.submit
    BY <1>3, <1>4 DEF Tame, Kept
  <2>4. Sound(c)
    BY <1>5, <1>6, <2>1, <2>2, <2>3, UserFacts DEF Ready, ReadyFor, Sound, LinkSound, Quiet
  <2>5. Served(c, {})
    <3>1. Served(app, {})!2
      BY <1>6, UserFacts DEF Ready, ReadyFor, Served
    <3> QED BY <1>5, <2>1, <2>3, <3>1 DEF Served, Unused
  <2>6. Ready(c)
    BY <1>5, <2>1, <2>4, <2>5 DEF Ready, ReadyFor
  <2>7. d = c
    BY <2>2 DEF MaybeRunDeferred
  <2> HIDE DEF d
  <2> QED BY <1>1, <1>5, <2>1, <2>6, <2>7, UserFacts, BecomesInv DEF Longer
<1>7. CASE ~app.live
  <2>1. /\ b.polls = {} /\ b.reads = {} /\ ~b.poll.timer /\ ~b.poll.inFlight
        /\ b.ui \notin {"Connecting", "TransportConnected", "Connected"}
    BY <1>3, <1>4, <1>7, UserFacts DEF Tame, Kept, Ready, ReadyFor, Sound, Quiet
  <2>2. /\ PostedSound(b.posted, FALSE, NoMode, b.watching)
        /\ b.deferred # NoMode => NoneOf(b.posted, "runDeferred")
    BY <1>5, <1>7 DEF PostedSound, NoneOf
  <2>3. Released(b)
    BY <1>4, <1>5, <1>7, <2>1, <2>2 DEF Released
  <2>4. Released(c) /\ Longer(b, c)
    BY <2>3, StackReleasedReleased
  <2> HIDE DEF c
  <2>5. Ready(d) /\ Longer(c, d)
    BY <2>4, MaybeRunReady
  <2> HIDE DEF d
  <2>6. Longer(b, d)
    BY <1>4, <2>4, <2>5, LongerTransitive DEF Released, Ready, ReadyFor, Sound
  <2> QED BY <1>1, <1>5, <2>5, <2>6, UserFacts, BecomesInv DEF Longer
<1> QED BY <1>6, <1>7

\* The first of what is posted is taken: what it answers is being handled.
LEMMA RestReady ==
  ASSUME PageInv, app.posted # <<>>
  PROVE  LET v == Head(app.posted) IN
         /\ ReadyFor(Rest, {v.id})
         /\ ~(v.e = "requestFinished" /\ v.fresh) => Ready(Rest)
         /\ Rest.live = app.live /\ Rest.deferred = app.deferred /\ Rest.alerts = app.alerts
         /\ v \in Events
         /\ v.e = "runDeferred" => /\ NoneOf(Rest.posted, "runDeferred")
                                   /\ v.arg \in Modes /\ ~app.live /\ app.deferred = NoMode
         /\ v.e = "connectFinished" /\ v.fresh /\ v.arg # "ok" => FailureWaits(app.posted)
<1> DEFINE v == Head(app.posted)
           t == Tail(app.posted)
<1>1. PostedSound(app.posted, app.live, app.deferred, app.watching) /\ app \in AppSet
  BY UserFacts DEF Ready, ReadyFor, Sound
<1>2. /\ PostedSound(t, app.live, app.deferred, app.watching) /\ v \in Events /\ t \in Seq(Events)
      /\ v.e = "runDeferred" => /\ NoneOf(t, "runDeferred")
                                /\ v.arg \in Modes /\ ~app.live /\ app.deferred = NoMode
  <2>1. /\ PostedSound(t, app.live, app.deferred, app.watching) /\ v \in Events
        /\ v.e = "runDeferred" => /\ NoneOf(t, "runDeferred")
                                  /\ v.arg \in Modes /\ ~app.live /\ app.deferred = NoMode
    BY <1>1, PostedTail
  <2> QED BY <2>1 DEF PostedSound
<1>3. /\ v = app.posted[1] /\ 1 \in DOMAIN app.posted /\ Len(app.posted) \in Nat
      /\ DOMAIN app.posted = 1 .. Len(app.posted)
      /\ DOMAIN t = 1 .. (Len(app.posted) - 1)
      /\ \A i \in DOMAIN t : t[i] = app.posted[i + 1] /\ i + 1 \in DOMAIN app.posted
  BY <1>1, SeqFacts DEF PostedSound
<1> HIDE DEF v, t
<1>4. \A i \in DOMAIN app.posted : app.posted[i] = v \/ (i - 1 \in DOMAIN t /\ t[i - 1] = app.posted[i])
  <2>1. ASSUME NEW i \in DOMAIN app.posted, i # 1
        PROVE  i - 1 \in DOMAIN t /\ t[i - 1] = app.posted[i]
    <3>1. i - 1 \in DOMAIN t /\ (i - 1) + 1 = i
      BY <1>3, <2>1
    <3> QED BY <1>3, <3>1
  <2> QED BY <1>3, <2>1
<1>5. \A id : HasAnswer(app.posted, id) =>
                \/ HasAnswer(t, id)
                \/ v.e = "requestFinished" /\ v.fresh /\ v.id = id
  BY <1>4 DEF HasAnswer
<1>6. FailureWaits(t) => FailureWaits(app.posted)
  BY <1>3 DEF FailureWaits
<1>7. v.e = "connectFinished" /\ v.fresh /\ v.arg # "ok" => FailureWaits(app.posted)
  BY <1>3 DEF FailureWaits
<1> DEFINE a == Rest
<1>8. /\ a \in AppSet /\ a.posted = t /\ a.alerts = app.alerts /\ a.releases = app.releases
      /\ a.live = app.live /\ a.deferred = app.deferred /\ a.leaving = app.leaving
      /\ a.link = app.link /\ a.linked = app.linked /\ a.pageLinked = app.pageLinked
      /\ a.linkBox = app.linkBox /\ a.ui = app.ui
      /\ a.watching = app.watching /\ a.submit = app.submit /\ a.started = app.started
      /\ a.poll = app.poll /\ a.polls = app.polls /\ a.reads = app.reads
  <2>1. a = [app EXCEPT !.posted = t]
    BY DEF Rest, t
  <2> HIDE DEF a
  <2> QED BY <1>1, <1>2, <2>1 DEF AppSet
<1> HIDE DEF a
<1>9. Sound(a)
  BY <1>2, <1>8, UserFacts DEF Ready, ReadyFor, Sound, LinkSound, Quiet
<1>10. ASSUME NEW W, W = {v.id} \/ (W = {} /\ ~(v.e = "requestFinished" /\ v.fresh))
       PROVE  Served(a, W)
  <2> SUFFICES ASSUME a.live PROVE Served(a, W)!2
    BY DEF Served
  <2>1. Served(app, {})!2
    BY <1>8, UserFacts DEF Ready, ReadyFor, Served
  <2>2. ASSUME a.poll.inFlight
        PROVE  \E id \in a.polls : id \in W \/ HasAnswer(a.posted, id) \/ Holds(stack.held, id)
    <3>1. PICK id \in app.polls : HasAnswer(app.posted, id) \/ Holds(stack.held, id)
      BY <1>8, <2>1, <2>2, UserFacts DEF Holds
    <3> QED BY <1>5, <1>8, <1>10, <3>1
  <2>3. Unused(app) => Unused(a)
    BY <1>8 DEF Unused
  <2> QED BY <1>6, <1>8, <2>1, <2>2, <2>3 DEF Served
<1>11. a.started = NoMode
  BY <1>8, UserFacts DEF Ready, ReadyFor
<1>12. ReadyFor(a, {v.id}) /\ (~(v.e = "requestFinished" /\ v.fresh) => Ready(a))
  BY <1>9, <1>10, <1>11 DEF Ready, ReadyFor
<1> QED BY <1>2, <1>7, <1>8, <1>12 DEF v, a

LEMMA DeliverInv ==
  ASSUME PageInv, Deliver
  PROVE  PageInv'
<1> DEFINE v == Head(app.posted)
<1>1. app.posted # <<>>
  BY DEF Deliver, DeliverChannel, DeliverConnectFinished, DeliverRequestFinished,
         DeliverRunDeferred, DeliverTeardown
<1>2. /\ ReadyFor(Rest, {v.id})
      /\ ~(v.e = "requestFinished" /\ v.fresh) => Ready(Rest)
      /\ Rest.live = app.live /\ Rest.deferred = app.deferred /\ Rest.alerts = app.alerts
      /\ v.e = "runDeferred" => /\ NoneOf(Rest.posted, "runDeferred")
                                /\ v.arg \in Modes /\ ~app.live /\ app.deferred = NoMode
  BY <1>1, RestReady
<1>3. ASSUME NEW e, NEW h, Handle(e, h), v.e = e /\ v.fresh => Ready(h) \/ Launched(h)
      PROVE  PageInv'
  <2>1. CASE v.fresh
    BY <1>3, <2>1, UserFacts, BecomesInv DEF Handle
  <2>2. CASE ~v.fresh
    <3>1. Ready(Rest) /\ Becomes(Rest)
      BY <1>2, <1>3, <2>2 DEF Handle, Rest
    <3> QED BY <3>1, UserFacts, BecomesInv
  <2> QED BY <2>1, <2>2
<1>4. CASE DeliverChannel
  <2>1. v.e = "channel" => Ready(HandleChannelState(Rest, v.arg))
    BY <1>2, <1>4, UserFacts, ChannelStateReady DEF DeliverChannel
  <2> QED BY <1>3, <1>4, <2>1 DEF DeliverChannel
<1>5. CASE DeliverConnectFinished
  <2>1. v.e = "connectFinished" => Ready(HandleConnectFinished(Rest, v.arg = "ok"))
    BY <1>2, UserFacts, ConnectFinishedReady
  <2> QED BY <1>3, <1>5, <2>1 DEF DeliverConnectFinished
<1>6. CASE DeliverRequestFinished
  <2>1. PICK escalates \in BOOLEAN, late \in BOOLEAN :
          Handle("requestFinished", HandleRequestFinished(Rest, v.id, v.arg = "ok", escalates, late))
    BY <1>6 DEF DeliverRequestFinished
  <2>2. Ready(HandleRequestFinished(Rest, v.id, v.arg = "ok", escalates, late))
    BY <1>2, UserFacts, RequestFinishedReady
  <2> QED BY <1>3, <2>1, <2>2
<1>7. CASE DeliverRunDeferred
  <2>1. v.e = "runDeferred" => Launched(StartConnect(Rest, v.arg))
    BY <1>2, StartReady DEF ReadyFor
  <2> QED BY <1>3, <1>7, <2>1 DEF DeliverRunDeferred
<1>8. CASE DeliverTeardown
  <2>1. v.e = "teardown" => Ready(Teardown(Rest))
    BY <1>2, UserFacts, TeardownReady
  <2> QED BY <1>3, <1>8, <2>1 DEF DeliverTeardown
<1> QED BY <1>4, <1>5, <1>6, <1>7, <1>8 DEF Deliver

\* What a live stack may emit: events of the session, each of the present one.
Emitted(r) == r \in Seq(Events) /\ \A i \in DOMAIN r : r[i].e \in Sessional /\ r[i].fresh

\* A step of the live stack: nothing that is awaited is lost, and a failed
\* connect is told of a stack that nothing was asked of.
LEMMA StackStep ==
  ASSUME PageInv, app.live, ~FailureWaits(app.posted), NEW r, Emitted(r), Emit(r), StackSound',
         \A id : Holds(stack.held, id) => Holds(stack'.held, id) \/ HasAnswer(r, id),
         stack'.attempt = "connect" /\ stack'.channel # "Open" =>
           stack.attempt = "connect" /\ stack.channel # "Open" /\ stack'.held = stack.held,
         FailureWaits(r) => /\ stack'.core = "Failed" /\ stack'.attempt = "none"
                            /\ stack'.held = <<>> /\ Unused(app)
  PROVE  PageInv' /\ Longer(app, app')
<1> DEFINE q == app.posted \o r
           b == [app EXCEPT !.posted = q]
<1>1. app' = b
  BY DEF Emit
<1>2. PostedSound(app.posted, app.live, app.deferred, app.watching) /\ app \in AppSet
  BY UserFacts DEF Ready, ReadyFor, Sound
<1>3. PostedSound(q, app.live, app.deferred, app.watching)
  BY <1>2, PostedConcat DEF Emitted
<1>4. q \in Seq(Events)
  BY <1>3 DEF PostedSound
<1>5. /\ FailureWaits(q) => FailureWaits(r)
      /\ \A id : HasAnswer(app.posted, id) \/ HasAnswer(r, id) => HasAnswer(q, id)
  <2> DEFINE p == app.posted
  <2>1. p \in Seq(Events) /\ r \in Seq(Events) /\ q = p \o r
    BY <1>2 DEF PostedSound, Emitted
  <2> HIDE DEF p, q
  <2>2. /\ \A i \in DOMAIN p : i \in DOMAIN q /\ q[i] = p[i]
        /\ \A i \in DOMAIN r : Len(p) + i \in DOMAIN q /\ q[Len(p) + i] = r[i]
        /\ \A i \in DOMAIN q :
             i \in DOMAIN p \/ (i - Len(p) \in DOMAIN r /\ q[i] = r[i - Len(p)])
    BY <2>1, ConcatFacts
  <2>3. FailureWaits(q) => FailureWaits(p) \/ FailureWaits(r)
    BY <2>2 DEF FailureWaits
  <2>4. \A id : HasAnswer(p, id) \/ HasAnswer(r, id) => HasAnswer(q, id)
    BY <2>2 DEF HasAnswer
  <2> QED BY <2>3, <2>4 DEF p
<1>12. Len(q) >= Len(app.posted)
  <2>1. app.posted \in Seq(Events) /\ r \in Seq(Events)
    BY <1>2 DEF PostedSound, Emitted
  <2>2. Len(q) = Len(app.posted) + Len(r) /\ Len(app.posted) \in Nat /\ Len(r) \in Nat
    BY <2>1
  <2> QED BY <2>2
<1> HIDE DEF q
<1>6. /\ b \in AppSet /\ b.posted = q
      /\ b.live = app.live /\ b.deferred = app.deferred /\ b.releases = app.releases
      /\ b.link = app.link /\ b.linked = app.linked /\ b.pageLinked = app.pageLinked
      /\ b.linkBox = app.linkBox /\ b.ui = app.ui /\ b.leaving = app.leaving
      /\ b.watching = app.watching /\ b.submit = <<>> /\ b.started = NoMode
      /\ b.poll = app.poll /\ b.polls = app.polls /\ b.reads = app.reads
  BY <1>2, <1>4, UserFacts DEF AppSet, Ready, ReadyFor
<1> HIDE DEF b
<1>7. Sound(b)
  BY <1>3, <1>6, UserFacts DEF Ready, ReadyFor, Sound, LinkSound, Quiet
<1>8. Served(app, {})!2
  BY UserFacts DEF Ready, ReadyFor, Served
<1>9. b.poll.inFlight => \E id \in b.polls : HasAnswer(b.posted, id) \/ Holds(stack'.held, id)
  <2>1. \A id : ~Holds(app.submit, id)
    BY UserFacts DEF Holds
  <2> QED BY <1>5, <1>6, <1>8, <2>1
<1>10. stack'.attempt = "connect" /\ stack'.channel # "Open" =>
         stack'.held = <<>> /\ ~b.poll.timer /\ ~Established(b.ui)
  BY <1>6, <1>8 DEF Unused
<1>11. FailureWaits(b.posted) =>
         /\ stack'.core = "Failed" /\ stack'.attempt = "none" /\ stack'.held = <<>>
         /\ ~b.poll.timer /\ ~Established(b.ui)
  BY <1>5, <1>6 DEF Unused
<1> QED BY <1>1, <1>6, <1>7, <1>9, <1>10, <1>11, <1>12, PageInvNext DEF Longer

LEMMA EmittedFacts ==
  /\ Emitted(<<>>) /\ ~FailureWaits(<<>>)
  /\ \A q, r : Emitted(q) /\ Emitted(r) =>
       /\ Emitted(q \o r)
       /\ \A id : HasAnswer(r, id) => HasAnswer(q \o r, id)
       /\ FailureWaits(q \o r) => FailureWaits(q) \/ FailureWaits(r)
<1>1. Emitted(<<>>) /\ ~FailureWaits(<<>>)
  BY DEF Emitted, FailureWaits
<1>2. ASSUME NEW q, NEW r, Emitted(q), Emitted(r)
      PROVE  /\ Emitted(q \o r)
             /\ \A id : HasAnswer(r, id) => HasAnswer(q \o r, id)
             /\ FailureWaits(q \o r) => FailureWaits(q) \/ FailureWaits(r)
  <2> DEFINE s == q \o r
  <2>1. q \in Seq(Events) /\ r \in Seq(Events)
    BY <1>2 DEF Emitted
  <2>2. /\ s \in Seq(Events)
        /\ \A i \in DOMAIN q : i \in DOMAIN s /\ s[i] = q[i]
        /\ \A i \in DOMAIN r : Len(q) + i \in DOMAIN s /\ s[Len(q) + i] = r[i]
        /\ \A i \in DOMAIN s :
             i \in DOMAIN q \/ (i - Len(q) \in DOMAIN r /\ s[i] = r[i - Len(q)])
    BY <2>1, ConcatFacts
  <2> HIDE DEF s
  <2>3. Emitted(s)
    BY <1>2, <2>2 DEF Emitted
  <2>4. /\ \A id : HasAnswer(r, id) => HasAnswer(s, id)
        /\ FailureWaits(s) => FailureWaits(q) \/ FailureWaits(r)
    BY <2>2 DEF HasAnswer, FailureWaits
  <2> QED BY <2>3, <2>4 DEF s
<1> QED BY <1>1, <1>2

LEMMA SingleFacts ==
  ASSUME NEW v \in Events, v.e \in Sessional, v.fresh
  PROVE  /\ Emitted(<<v>>)
         /\ v.e = "requestFinished" => HasAnswer(<<v>>, v.id)
         /\ FailureWaits(<<v>>) => v.e = "connectFinished" /\ v.arg # "ok"
<1>1. /\ <<v>> \in Seq(Events) /\ 1 \in DOMAIN <<v>> /\ <<v>>[1] = v
      /\ \A i \in DOMAIN <<v>> : <<v>>[i] = v
  OBVIOUS
<1> DEFINE q == <<v>>
<1> HIDE DEF q
<1>2. q \in Seq(Events) /\ 1 \in DOMAIN q /\ q[1] = v /\ \A i \in DOMAIN q : q[i] = v
  BY <1>1 DEF q
<1>3. /\ Emitted(q)
      /\ v.e = "requestFinished" => HasAnswer(q, v.id)
      /\ FailureWaits(q) => v.e = "connectFinished" /\ v.arg # "ok"
  BY <1>2 DEF Emitted, HasAnswer, FailureWaits
<1> QED BY <1>3 DEF q

LEMMA EmissionFacts ==
  /\ \A s \in Seq({"Opening", "Open", "Closing", "Closed", "Error"}) :
       Emitted(ChannelEvents(s)) /\ ~FailureWaits(ChannelEvents(s))
  /\ \A ok \in BOOLEAN : /\ Emitted(<<ConnectFinished(ok)>>)
                         /\ ok => ~FailureWaits(<<ConnectFinished(ok)>>)
  /\ \A id \in Ids, ok \in BOOLEAN :
       /\ Emitted(<<RequestFinished(id, ok)>>) /\ HasAnswer(<<RequestFinished(id, ok)>>, id)
       /\ ~FailureWaits(<<RequestFinished(id, ok)>>)
<1>1. ASSUME NEW s \in Seq({"Opening", "Open", "Closing", "Closed", "Error"})
      PROVE  Emitted(ChannelEvents(s)) /\ ~FailureWaits(ChannelEvents(s))
  <2> DEFINE q == ChannelEvents(s)
  <2>1. \A i \in DOMAIN s : s[i] \in {"Opening", "Open", "Closing", "Closed", "Error"}
    BY SeqFacts
  <2>2. \A x \in {"Opening", "Open", "Closing", "Closed", "Error"} :
          LET v == SessionEvent("channel", 0, x)
          IN  v \in Events /\ v.e = "channel" /\ v.fresh
    BY DEF SessionEvent, Events, Args, Sessional
  <2>3. DOMAIN q = DOMAIN s /\ \A i \in DOMAIN q : q[i] \in Events /\ q[i].e = "channel" /\ q[i].fresh
    BY <2>1, <2>2 DEF ChannelEvents
  <2>4. DOMAIN s = 1 .. Len(s) /\ Len(s) \in Nat
    BY SeqFacts
  <2>5. q = [i \in 1 .. Len(s) |-> q[i]]
    BY <2>4 DEF ChannelEvents
  <2> HIDE DEF q
  <2>6. q \in Seq(Events)
    BY <2>3, <2>4, <2>5
  <2>7. Emitted(q) /\ ~FailureWaits(q)
    BY <2>3, <2>6 DEF Emitted, FailureWaits, Sessional
  <2> QED BY <2>7 DEF q
<1>2. ASSUME NEW ok \in BOOLEAN
      PROVE  /\ Emitted(<<ConnectFinished(ok)>>)
             /\ ok => ~FailureWaits(<<ConnectFinished(ok)>>)
  <2> DEFINE v == ConnectFinished(ok)
  <2>1. v \in Events /\ v.e = "connectFinished" /\ v.fresh /\ (ok => v.arg = "ok") /\ v.e \in Sessional
    BY DEF ConnectFinished, SessionEvent, Events, Args, Sessional
  <2> HIDE DEF v
  <2>2. Emitted(<<v>>) /\ (ok => ~FailureWaits(<<v>>))
    BY <2>1, SingleFacts
  <2> QED BY <2>2 DEF v
<1>3. ASSUME NEW id \in Ids, NEW ok \in BOOLEAN
      PROVE  /\ Emitted(<<RequestFinished(id, ok)>>) /\ HasAnswer(<<RequestFinished(id, ok)>>, id)
             /\ ~FailureWaits(<<RequestFinished(id, ok)>>)
  <2> DEFINE v == RequestFinished(id, ok)
  <2>1. v \in Events /\ v.e = "requestFinished" /\ v.fresh /\ v.id = id /\ v.e \in Sessional
    BY DEF RequestFinished, SessionEvent, Events, Args, Sessional
  <2> HIDE DEF v
  <2>2. Emitted(<<v>>) /\ HasAnswer(<<v>>, id) /\ ~FailureWaits(<<v>>)
    BY <2>1, SingleFacts
  <2> QED BY <2>2 DEF v
<1> QED BY <1>1, <1>2, <1>3

LEMMA ChannelStates ==
  LET states == {<<"Opening">>, <<"Open">>, <<"Closed">>, <<"Error", "Closed">>,
                 <<"Closing", "Closed">>}
  IN  \A s \in states : Emitted(ChannelEvents(s)) /\ ~FailureWaits(ChannelEvents(s))
<1> DEFINE S == {"Opening", "Open", "Closing", "Closed", "Error"}
<1>1. \A x, y \in S : <<x>> \in Seq(S) /\ <<x, y>> \in Seq(S)
  <2> HIDE DEF S
  <2> QED OBVIOUS
<1>2. /\ <<"Opening">> \in Seq(S) /\ <<"Open">> \in Seq(S) /\ <<"Closed">> \in Seq(S)
      /\ <<"Error", "Closed">> \in Seq(S) /\ <<"Closing", "Closed">> \in Seq(S)
  <2>1. {"Opening", "Open", "Closing", "Closed", "Error"} \subseteq S
    OBVIOUS
  <2> HIDE DEF S
  <2> QED BY <1>1, <2>1
<1>3. \A s \in Seq(S) : Emitted(ChannelEvents(s)) /\ ~FailureWaits(ChannelEvents(s))
  BY EmissionFacts
<1> HIDE DEF S
<1> QED BY <1>2, <1>3

LEMMA HeldFacts ==
  ASSUME stack \in StackSet, stack.held # <<>>
  PROVE  /\ Head(stack.held) \in Ids /\ Tail(stack.held) \in Seq(Ids)
         /\ \A id : Holds(stack.held, id) => id = Head(stack.held) \/ Holds(Tail(stack.held), id)
<1> DEFINE q == stack.held
           t == Tail(q)
<1>1. q \in Seq(Ids) /\ q # <<>>
  BY StackTypes
<1> HIDE DEF q
<1>2. Head(q) \in Ids /\ t \in Seq(Ids)
  BY <1>1
<1>3. \A i \in DOMAIN q : q[i] = Head(q) \/ (i - 1 \in DOMAIN t /\ t[i - 1] = q[i])
  <2>1. /\ Head(q) = q[1] /\ Len(q) \in Nat /\ DOMAIN q = 1 .. Len(q)
        /\ DOMAIN t = 1 .. (Len(q) - 1)
        /\ \A i \in DOMAIN t : t[i] = q[i + 1]
    BY <1>1, SeqFacts
  <2> HIDE DEF t
  <2>2. ASSUME NEW i \in DOMAIN q, i # 1 PROVE i - 1 \in DOMAIN t /\ t[i - 1] = q[i]
    <3>1. i - 1 \in DOMAIN t /\ (i - 1) + 1 = i
      BY <2>1, <2>2
    <3> QED BY <2>1, <3>1
  <2> QED BY <2>1, <2>2
<1> HIDE DEF t
<1>4. \A id : Holds(q, id) => id = Head(q) \/ Holds(t, id)
  BY <1>3 DEF Holds
<1> QED BY <1>2, <1>4 DEF q, t

\* A failure that waits to be handled has stopped the core for good.
LEMMA CoreRuns ==
  ASSUME PageInv, app.live, FailureWaits(app.posted)
  PROVE  /\ stack.core = "Failed" /\ stack.attempt = "none" /\ stack.held = <<>>
         /\ stack.channel = "Closed"
BY UserFacts DEF Ready, ReadyFor, Served, Unused, StackSound

LEMMA StackInv ==
  ASSUME PageInv, Connecting \/ ChannelLost \/ RequestAnswered
  PROVE  PageInv' /\ Longer(app, app')
<1>1. /\ stack \in StackSet /\ StackSound
      /\ stack.core \in {"Disconnected", "Connecting", "Connected", "Failed"}
      /\ stack.channel \in {"Closed", "Opening", "Open"}
      /\ stack.attempt \in {"none", "connect", "heal"} /\ stack.held \in Seq(Ids)
  BY UserFacts, StackTypes
<1>2. CASE AttemptStarts
  <2> DEFINE x == IF stack.attempt = "none" THEN "heal" ELSE stack.attempt
             s == [stack EXCEPT !.core = "Connecting", !.channel = "Opening", !.attempt = x]
             r == ChannelEvents(<<"Opening">>)
  <2>1. /\ app.live /\ stack.core \in {"Disconnected", "Failed"}
        /\ stack.attempt = "connect" \/ (stack.attempt = "none" /\ stack.held # <<>>)
        /\ stack' = s /\ Emit(r)
    BY <1>2 DEF AttemptStarts
  <2>2. x \in {"connect", "heal"} /\ (x = "connect" => stack.attempt = "connect")
        /\ (x = "heal" => stack.held # <<>>)
    BY <2>1
  <2> HIDE DEF x
  <2>3. s \in StackSet /\ s.core = "Connecting" /\ s.channel = "Opening" /\ s.attempt = x
        /\ s.held = stack.held
    BY <1>1, <2>2 DEF StackSet
  <2> HIDE DEF s
  <2>4. StackSound'
    BY <2>1, <2>2, <2>3 DEF StackSound
  <2>5. Emitted(r) /\ ~FailureWaits(r)
    BY ChannelStates
  <2> HIDE DEF r
  <2>6. ~FailureWaits(app.posted)
    BY <2>1, CoreRuns
  <2>7. stack.channel = "Closed"
    BY <1>1, <2>1 DEF StackSound
  <2> QED BY <2>1, <2>2, <2>3, <2>4, <2>5, <2>6, <2>7, StackStep
<1>3. CASE ChannelOpens
  <2> DEFINE s == [stack EXCEPT !.channel = "Open"]
             r == ChannelEvents(<<"Open">>)
  <2>1. app.live /\ stack.channel = "Opening" /\ stack' = s /\ Emit(r)
    BY <1>3 DEF ChannelOpens
  <2>2. /\ s \in StackSet /\ s.core = stack.core /\ s.channel = "Open"
        /\ s.attempt = stack.attempt /\ s.held = stack.held
    BY <1>1 DEF StackSet
  <2> HIDE DEF s
  <2>3. StackSound'
    BY <1>1, <2>1, <2>2 DEF StackSound
  <2>4. Emitted(r) /\ ~FailureWaits(r)
    BY ChannelStates
  <2> HIDE DEF r
  <2>5. ~FailureWaits(app.posted)
    BY <2>1, CoreRuns
  <2> QED BY <2>1, <2>2, <2>3, <2>4, <2>5, StackStep
<1>4. CASE AttemptSucceeds
  <2> DEFINE s == [stack EXCEPT !.core = "Connected", !.attempt = "none"]
             r == IF stack.attempt = "connect" THEN <<ConnectFinished(TRUE)>> ELSE <<>>
  <2>1. app.live /\ stack.core = "Connecting" /\ stack' = s /\ Emit(r)
    BY <1>4 DEF AttemptSucceeds
  <2>2. /\ s \in StackSet /\ s.core = "Connected" /\ s.channel = stack.channel
        /\ s.attempt = "none" /\ s.held = stack.held
    BY <1>1 DEF StackSet
  <2> HIDE DEF s
  <2>3. StackSound'
    BY <1>1, <2>1, <2>2 DEF StackSound
  <2>4. Emitted(r) /\ ~FailureWaits(r)
    BY EmissionFacts, EmittedFacts
  <2> HIDE DEF r
  <2>5. ~FailureWaits(app.posted)
    BY <2>1, CoreRuns
  <2> QED BY <2>1, <2>2, <2>3, <2>4, <2>5, StackStep
<1>5. CASE AttemptFails
  <2>1. PICK states \in {<<"Error", "Closed">>, <<"Closed">>} :
          Emit(ChannelEvents(states)
                 \o IF stack.attempt = "heal" THEN <<RequestFinished(Head(stack.held), FALSE)>>
                    ELSE <<ConnectFinished(FALSE)>>)
    BY <1>5 DEF AttemptFails
  <2> DEFINE h == IF stack.attempt = "heal" THEN Tail(stack.held) ELSE stack.held
             s == [stack EXCEPT !.core = "Failed", !.channel = "Closed", !.attempt = "none",
                                !.held = h]
             c == ChannelEvents(states)
  <2>2. /\ app.live /\ stack.core = "Connecting" /\ stack.channel = "Opening" /\ stack' = s
    BY <1>5 DEF AttemptFails
  <2>3. stack.attempt = "heal" \/ stack.attempt = "connect"
    BY <1>1, <2>2 DEF StackSound
  <2>4. h \in Seq(Ids)
    BY <1>1, HeldFacts DEF StackSound
  <2> HIDE DEF h
  <2>5. /\ s \in StackSet /\ s.core = "Failed" /\ s.channel = "Closed"
        /\ s.attempt = "none" /\ s.held = h
    BY <1>1, <2>4 DEF StackSet
  <2> HIDE DEF s
  <2>6. StackSound'
    BY <2>2, <2>5 DEF StackSound
  <2>7. Emitted(c) /\ ~FailureWaits(c)
    BY ChannelStates
  <2> HIDE DEF c
  <2>8. ~FailureWaits(app.posted)
    BY <2>2, CoreRuns
  <2>9. CASE stack.attempt = "heal"
    <3> DEFINE y == <<RequestFinished(Head(stack.held), FALSE)>>
               r == c \o y
    <3>1. stack.held # <<>>
      BY <1>1, <2>9 DEF StackSound
    <3>2. Emitted(y) /\ HasAnswer(y, Head(stack.held)) /\ ~FailureWaits(y)
      BY <1>1, <3>1, HeldFacts, EmissionFacts
    <3>3. Emit(r)
      BY <2>1, <2>9 DEF c
    <3> HIDE DEF y
    <3>4. Emitted(r) /\ HasAnswer(r, Head(stack.held)) /\ ~FailureWaits(r)
      BY <2>7, <3>2, EmittedFacts
    <3>5. \A id : Holds(stack.held, id) => Holds(h, id) \/ HasAnswer(r, id)
      BY <1>1, <2>9, <3>1, <3>4, HeldFacts DEF h
    <3> HIDE DEF r
    <3> QED BY <2>2, <2>5, <2>6, <2>8, <3>3, <3>4, <3>5, StackStep
  <2>10. CASE stack.attempt = "connect"
    <3> DEFINE y == <<ConnectFinished(FALSE)>>
               r == c \o y
    <3>1. Unused(app)
      BY <2>2, <2>10, UserFacts DEF Ready, ReadyFor, Served
    <3>2. Emitted(y)
      BY EmissionFacts
    <3>3. Emit(r)
      BY <2>1, <2>10 DEF c
    <3> HIDE DEF y
    <3>4. Emitted(r)
      BY <2>7, <3>2, EmittedFacts
    <3>5. h = stack.held /\ stack.held = <<>>
      BY <2>10, <3>1 DEF h, Unused
    <3> HIDE DEF r
    <3> QED BY <2>2, <2>5, <2>6, <2>8, <3>1, <3>3, <3>4, <3>5, StackStep
  <2> QED BY <2>3, <2>9, <2>10
<1>6. CASE ChannelLost
  <2>1. PICK states \in {<<"Error", "Closed">>, <<"Closed">>, <<"Closing", "Closed">>} :
          Emit(ChannelEvents(states))
    BY <1>6 DEF ChannelLost
  <2> DEFINE s == [stack EXCEPT !.core = "Failed", !.channel = "Closed"]
             r == ChannelEvents(states)
  <2>2. app.live /\ stack.core = "Connected" /\ stack' = s
    BY <1>6 DEF ChannelLost
  <2>3. /\ s \in StackSet /\ s.core = "Failed" /\ s.channel = "Closed"
        /\ s.attempt = stack.attempt /\ s.held = stack.held
    BY <1>1 DEF StackSet
  <2> HIDE DEF s
  <2>4. stack.attempt = "none"
    BY <1>1, <2>2 DEF StackSound
  <2>5. StackSound'
    BY <2>2, <2>3, <2>4 DEF StackSound
  <2>6. Emitted(r) /\ ~FailureWaits(r)
    BY ChannelStates
  <2>7. ~FailureWaits(app.posted)
    BY <2>2, CoreRuns
  <2>8. Emit(r)
    BY <2>1
  <2> HIDE DEF r
  <2> QED BY <2>2, <2>3, <2>4, <2>5, <2>6, <2>7, <2>8, StackStep
<1>7. CASE RequestAnswered
  <2>1. PICK ok \in BOOLEAN : Emit(<<RequestFinished(Head(stack.held), ok)>>)
    BY <1>7 DEF RequestAnswered
  <2> DEFINE h == Tail(stack.held)
             s == [stack EXCEPT !.held = h]
             r == <<RequestFinished(Head(stack.held), ok)>>
  <2>2. app.live /\ stack.core = "Connected" /\ stack' = s /\ stack.held # <<>>
    BY <1>7 DEF RequestAnswered
  <2>3. /\ h \in Seq(Ids) /\ Head(stack.held) \in Ids
        /\ \A id : Holds(stack.held, id) => id = Head(stack.held) \/ Holds(h, id)
    BY <1>1, <2>2, HeldFacts
  <2> HIDE DEF h
  <2>4. /\ s \in StackSet /\ s.core = stack.core /\ s.channel = stack.channel
        /\ s.attempt = stack.attempt /\ s.held = h
    BY <1>1, <2>3 DEF StackSet
  <2> HIDE DEF s
  <2>5. stack.attempt = "none"
    BY <1>1, <2>2 DEF StackSound
  <2>6. StackSound'
    BY <1>1, <2>2, <2>4, <2>5 DEF StackSound
  <2>7. Emitted(r) /\ HasAnswer(r, Head(stack.held)) /\ ~FailureWaits(r)
    BY <2>3, EmissionFacts
  <2>8. ~FailureWaits(app.posted)
    BY <2>2, CoreRuns
  <2>9. Emit(r)
    BY <2>1
  <2> HIDE DEF r
  <2> QED BY <2>2, <2>3, <2>4, <2>5, <2>6, <2>7, <2>8, <2>9, StackStep
<1> QED BY <1>2, <1>3, <1>4, <1>5, <1>6, <1>7 DEF Connecting

\* A stack that is being released emits what is already of an older generation.
LEMMA LeavingInv ==
  ASSUME PageInv, LeavingEmits
  PROVE  PageInv' /\ Longer(app, app')
<1> DEFINE v == Head(app.leaving)
           t == Tail(app.leaving)
           q == Append(app.posted, v)
           b == [app EXCEPT !.posted = q, !.leaving = t]
<1>1. app' = b /\ stack' = stack /\ app.leaving # <<>>
  BY DEF LeavingEmits
<1>2. /\ PostedSound(app.posted, app.live, app.deferred, app.watching) /\ app \in AppSet
      /\ LeavingSound(app.leaving)
  BY UserFacts DEF Ready, ReadyFor, Sound
<1>3. v \in Events /\ v.e \in Sessional /\ ~v.fresh /\ LeavingSound(t) /\ t \in Seq(Events)
  <2> DEFINE l == app.leaving
  <2>1. l \in Seq(Events) /\ l # <<>> /\ \A i \in DOMAIN l : l[i].e \in Sessional /\ ~l[i].fresh
    BY <1>1, <1>2 DEF LeavingSound
  <2> HIDE DEF l
  <2>2. /\ Head(l) = l[1] /\ 1 \in DOMAIN l /\ Tail(l) \in Seq(Events) /\ l[1] \in Events
        /\ \A i \in DOMAIN Tail(l) : Tail(l)[i] = l[i + 1] /\ i + 1 \in DOMAIN l
    BY <2>1, SeqFacts
  <2>3. LeavingSound(Tail(l))
    BY <2>1, <2>2 DEF LeavingSound
  <2> QED BY <2>1, <2>2, <2>3 DEF l
<1> HIDE DEF v, t
<1>4. PostedSound(q, app.live, app.deferred, app.watching)
  BY <1>2, <1>3, PostedAppend DEF Sessional
<1>5. /\ q \in Seq(Events) /\ Len(q) = Len(app.posted) + 1 /\ Len(app.posted) \in Nat
      /\ FailureWaits(q) => FailureWaits(app.posted)
      /\ \A id : HasAnswer(app.posted, id) => HasAnswer(q, id)
  <2>1. /\ q \in Seq(Events) /\ Len(q) = Len(app.posted) + 1 /\ Len(app.posted) \in Nat
        /\ DOMAIN q = 1 .. (Len(app.posted) + 1) /\ DOMAIN app.posted = 1 .. Len(app.posted)
        /\ \A i \in DOMAIN app.posted : q[i] = app.posted[i]
        /\ q[Len(app.posted) + 1] = v
    BY <1>2, <1>3, SeqFacts DEF PostedSound
  <2> HIDE DEF q
  <2>2. \A i \in DOMAIN q : i \in DOMAIN app.posted \/ q[i] = v
    BY <2>1
  <2>3. FailureWaits(q) => FailureWaits(app.posted)
    BY <1>3, <2>1, <2>2 DEF FailureWaits
  <2>4. \A id : HasAnswer(app.posted, id) => HasAnswer(q, id)
    BY <2>1 DEF HasAnswer
  <2> QED BY <2>1, <2>3, <2>4
<1> HIDE DEF q
<1>6. /\ b \in AppSet /\ b.posted = q /\ b.leaving = t
      /\ b.live = app.live /\ b.deferred = app.deferred /\ b.releases = app.releases
      /\ b.link = app.link /\ b.linked = app.linked /\ b.pageLinked = app.pageLinked
      /\ b.linkBox = app.linkBox /\ b.ui = app.ui
      /\ b.watching = app.watching /\ b.submit = <<>> /\ b.started = NoMode
      /\ b.poll = app.poll /\ b.polls = app.polls /\ b.reads = app.reads
  BY <1>2, <1>3, <1>5, UserFacts DEF AppSet, Ready, ReadyFor
<1> HIDE DEF b
<1>7. Sound(b)
  BY <1>3, <1>4, <1>6, UserFacts DEF Ready, ReadyFor, Sound, LinkSound, Quiet
<1>8. StackSound'
  BY <1>1, UserFacts DEF StackSound
<1>9. app.live => Served(app, {})!2
  BY UserFacts DEF Ready, ReadyFor, Served
<1>10. \A id : ~Holds(app.submit, id)
  BY UserFacts DEF Holds
<1> QED BY <1>1, <1>5, <1>6, <1>7, <1>8, <1>9, <1>10, PageInvNext DEF Unused, Longer

LEMMA InitInv == Init => PageInv
<1> SUFFICES ASSUME Init PROVE PageInv
  OBVIOUS
<1> DEFINE p == [NoPoll EXCEPT !.fault = TRUE]
           d == [tcp |-> "Disconnected", serial |-> "Disconnected"]
<1>1. p \in PollSet /\ p.timer = FALSE /\ p.inFlight = FALSE
  <2>1. ASSUME NEW q \in PollSet, NEW yes \in BOOLEAN
        PROVE  LET s == [q EXCEPT !.fault = yes]
               IN  s \in PollSet /\ s.timer = q.timer /\ s.inFlight = q.inFlight
    BY DEF PollSet
  <2> QED BY <2>1, PollTypes
<1>2. d \in [{"tcp", "serial"} -> Shown]
  BY DEF Shown, UiStates
<1>3. app = [shown |-> "Tcp", mode |-> "Tcp", pending |-> "Tcp", watching |-> FALSE,
             guards |-> "Disconnected", pollBox |-> FALSE, linkBox |-> FALSE,
             pageLinked |-> FALSE, ui |-> "Disconnected", explicit |-> FALSE,
             deferred |-> NoMode, linked |-> FALSE, live |-> FALSE, releases |-> 0,
             poll |-> p, polls |-> {}, reads |-> {}, link |-> "Idle", buffered |-> FALSE,
             display |-> d, posted |-> <<>>, leaving |-> <<>>, alerts |-> 0,
             submit |-> <<>>, started |-> NoMode]
  BY DEF Init
<1> HIDE DEF p, d
<1>4. /\ app \in AppSet /\ app.submit = <<>> /\ app.posted = <<>> /\ app.leaving = <<>>
      /\ app.started = NoMode /\ app.deferred = NoMode /\ app.live = FALSE
      /\ app.linked = FALSE /\ app.pageLinked = FALSE /\ app.linkBox = FALSE /\ app.link = "Idle"
      /\ app.ui = "Disconnected" /\ app.polls = {} /\ app.reads = {} /\ app.poll = p
  <2>1. <<>> \in Seq(Events) /\ <<>> \in Seq(Ids) /\ 0 \in 0 .. MaxAlerts
    BY BoundsAssumption
  <2>2. "Tcp" \in Modes /\ "Disconnected" \in UiStates
    BY ModesAssumption DEF UiStates
  <2> QED BY <1>1, <1>2, <1>3, <2>1, <2>2 DEF AppSet
<1>5. PostedSound(app.posted, FALSE, NoMode, app.watching) /\ LeavingSound(app.leaving)
  BY <1>4 DEF PostedSound, LeavingSound
<1>6. Released(app)
  BY <1>1, <1>4, <1>5 DEF Released, LinkSound
<1>7. StackSound
  BY DEF Init, StackSound, NoStack, StackSet
<1> QED BY <1>4, <1>6, <1>7, ReleasedReady DEF PageInv

LEMMA NextInv ==
  ASSUME PageInv, [Next]_vars
  PROVE  PageInv'
<1>1. CASE Next
  BY <1>1, UserActsInv, PollTickInv, CloseAlertInv, ReleaseCompletesInv, DeliverInv, StackInv,
     LeavingInv DEF Next
<1>2. CASE UNCHANGED vars
  BY <1>2, UserFacts, PageInvNext DEF vars, PageInv, Ready, ReadyFor, Sound, Served, Unused,
     LinkSound, Quiet, StackSound, Holds
<1> QED BY <1>1, <1>2

\* The invariant of the page holds of every behaviour.
THEOREM PageSound == Spec => []PageInv
BY InitInv, NextInv, PTL DEF Spec

\* What ModbusPage and its presenters show is what there is, however the user's
\* acts, the queued switch of the protocol, deferred connects, alerts and the
\* events of stacks that are leaving are interleaved: a session shown has a stack
\* (ModbusSessionPresenter), a link is seen alike by the coordinator, the page and
\* the session, and a connect that waits has a release to wait for.
THEOREM Truthful == Spec => []PageTruthful
<1>1. PageInv => PageTruthful
  <2> SUFFICES ASSUME PageInv PROVE PageTruthful
    OBVIOUS
  <2>1. Sound(app) /\ app \in AppSet /\ stack \in StackSet
    BY UserFacts DEF Ready, ReadyFor, Sound
  <2>2. app.poll.state \in {"Idle", "Polling", "Degraded", "Escalated"} /\ app.poll.errors \in 0 .. 2
    BY <2>1, PollTypes DEF AppSet
  <2>3. TypeOK
    <3>1. /\ app.ui \in UiStates /\ app.guards \in {"Disconnected", "Connected"}
          /\ app.shown \in Modes /\ app.mode \in Modes /\ app.pending \in Modes
          /\ app.deferred \in Modes \cup {NoMode}
          /\ app.link \in {"Idle", "Live", "Paused"} /\ app.releases \in Nat
          /\ app.display \in [{"tcp", "serial"} -> Shown]
          /\ app.polls \in SUBSET Ids /\ app.reads \in SUBSET Ids /\ app.alerts \in 0 .. MaxAlerts
      BY <2>1 DEF AppSet
    <3>2. /\ stack.core \in {"Disconnected", "Connecting", "Connected", "Failed"}
          /\ stack.channel \in {"Closed", "Opening", "Open"}
          /\ stack.attempt \in {"none", "connect", "heal"}
      BY <2>1, StackTypes
    <3> QED BY <2>2, <3>1, <3>2 DEF TypeOK, Shown
  <2>4. ShownSessionHasStack /\ LinkAgrees /\ DeferredIsAwaited
    BY <2>1 DEF Sound, LinkSound, ShownSessionHasStack, LinkAgrees, DeferredIsAwaited
  <2> QED BY <2>3, <2>4 DEF PageTruthful
<1> QED BY <1>1, PageSound, PTL

\* PollingController waits only for an answer that is still to come: the request is
\* with the live stack or its answer is posted and of the present generation, across
\* releases, switches and events of older stacks that are dropped.
THEOREM PollIsAnswered == Spec => []AwaitedAnswerComes
<1>1. PageInv => AwaitedAnswerComes
  <2> SUFFICES ASSUME PageInv, app.poll.inFlight
               PROVE  \E id \in app.polls : AnswerPosted(id)
    BY DEF AwaitedAnswerComes
  <2>1. app.live
    BY UserFacts DEF Ready, ReadyFor, Sound, Quiet
  <2>2. \A id : ~Holds(app.submit, id)
    BY UserFacts DEF Holds
  <2>3. PICK id \in app.polls : HasAnswer(app.posted, id) \/ Holds(stack.held, id)
    BY <2>1, <2>2, UserFacts DEF Ready, ReadyFor, Served
  <2> QED BY <2>3 DEF HasAnswer, Holds, AnswerPosted
<1> QED BY <1>1, PageSound, PTL

\* handleConnectFinished() gives a session up only while its own core has failed:
\* no step of the page takes the result of an earlier attempt for that of a later one.
THEOREM FailureIsItsOwn == Spec => GivenUpOnlyWhenFailed
<1> DEFINE GivesUp == /\ app.live /\ ~app'.live /\ Len(app'.posted) < Len(app.posted)
                      /\ Head(app.posted).e = "connectFinished"
<1>1. ASSUME PageInv, [Next]_vars, GivesUp
      PROVE  stack.core = "Failed"
  <2>1. ~Longer(app, app')
    <3>1. app.posted \in Seq(Events) /\ app'.posted \in Seq(Events)
      BY <1>1, NextInv, UserFacts DEF AppSet, PageInv, Ready, ReadyFor, Sound
    <3>2. Len(app.posted) \in Nat /\ Len(app'.posted) \in Nat
      BY <3>1
    <3> QED BY <1>1, <3>2 DEF Longer
  <2>2. Deliver
    <3>1. ~UNCHANGED vars
      BY <1>1 DEF vars
    <3> QED BY <1>1, <2>1, <3>1, UserActsInv, PollTickInv, CloseAlertInv, ReleaseCompletesInv,
               StackInv, LeavingInv DEF Next
  <2>3. DeliverConnectFinished
    BY <1>1, <2>2 DEF Deliver, DeliverChannel, DeliverRequestFinished, DeliverRunDeferred,
                      DeliverTeardown, Handle
  <2> DEFINE v == Head(app.posted)
             h == HandleConnectFinished(Rest, v.arg = "ok")
  <2>4. app.posted # <<>> /\ v.e = "connectFinished" /\ Becomes(IF v.fresh THEN h ELSE Rest)
    BY <2>3 DEF DeliverConnectFinished, Handle, Rest
  <2>5. /\ Ready(Rest) /\ Rest.live = app.live
        /\ v.fresh /\ v.arg # "ok" => FailureWaits(app.posted)
    BY <1>1, <2>4, RestReady
  <2>6. CASE ~v.fresh
    <3>1. app'.live = Rest.live
      BY <1>1, <2>4, <2>5, <2>6, UserFacts, BecomesInv
    <3> QED BY <1>1, <2>5, <3>1
  <2>7. CASE v.fresh /\ v.arg = "ok"
    <3>1. HandleConnectFinished(Rest, TRUE).live = app.live
      BY <1>1, <2>5, UserFacts, ConnectedStays
    <3>2. Ready(HandleConnectFinished(Rest, TRUE))
      BY <1>1, <2>5, UserFacts, ConnectFinishedReady
    <3>3. Becomes(HandleConnectFinished(Rest, TRUE))
      BY <2>4, <2>7
    <3> QED BY <1>1, <3>1, <3>2, <3>3, UserFacts, BecomesInv
  <2>8. CASE v.fresh /\ v.arg # "ok"
    BY <1>1, <2>5, <2>8, CoreRuns
  <2> QED BY <2>6, <2>7, <2>8
<1>2. PageInv /\ [Next]_vars => [GivesUp => stack.core = "Failed"]_vars
  BY <1>1
<1> QED BY <1>2, PageSound, PTL DEF Spec, GivenUpOnlyWhenFailed
=============================================================================
