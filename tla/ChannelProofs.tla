----------------------------- MODULE ChannelProofs -----------------------------
(***************************************************************************)
(* What the channels promise for any number of calls, writes and losses,   *)
(* whatever waits in the queue of the device's thread.                     *)
(*                                                                         *)
(* The argument.  The device queues a stateChanged with every change, so   *)
(* the last one in the queue, if there is one, says what the device is;    *)
(* when none is left the last one handled did, and the state agrees with   *)
(* it (Base).  A "connected" that is still queued is true, or a            *)
(* stateChanged behind it takes it back.  A frame is counted when all of   *)
(* its chunks have left the device's buffer, and only the buffer of a      *)
(* connection that has ended is ever dropped (OnWire).                     *)
(***************************************************************************)
EXTENDS IoChannels, TLAPS

-----------------------------------------------------------------------------
(* Types *)

Socks  == {"Unconnected", "Connecting", "Connected", "Closing"}
States == {"Closed", "Opening", "Open", "Closing", "Error"}
Plain  == {"open", "close", "write", "bytesWritten", "writeTimeout", "error"}

EventSet ==
  [kind : Plain \cup {"connected"}, sock : {"-"}] \cup [kind : {"stateChanged"}, sock : Socks]

ChannelSet ==
  [kind : {"tcp", "serial", "udp"}, valid : BOOLEAN, state : States, closing : BOOLEAN,
   drop : BOOLEAN, pending : Seq(Nat), offset : 0..FrameSize, connectOn : BOOLEAN,
   lingerOn : BOOLEAN, writeOn : BOOLEAN, tx : SUBSET Nat, sock : Socks,
   buf : Seq(Nat \X Nat), pendingClose : BOOLEAN, queue : Seq(EventSet),
   wire : SUBSET (Nat \X Nat), calls : Nat, writes : Nat, drops : Nat]

-----------------------------------------------------------------------------
(* The queue q of a device that is s *)

SaysState(q, i) == q[i].kind = "stateChanged"
SaysConnected(q, i) == q[i].kind = "connected"

HasState(q) == \E i \in 1..Len(q) : SaysState(q, i)
HasConnected(q) == \E i \in 1..Len(q) : SaysConnected(q, i)

\* The last stateChanged says what the device is.
LastIs(q, s) ==
  \A i \in 1..Len(q) :
    SaysState(q, i) /\ (\A j \in 1..Len(q) : j > i => ~SaysState(q, j)) => q[i].sock = s

\* A connected is true, or taken back behind it.
ConnectedIsTrue(q, s) ==
  \A i \in 1..Len(q) :
    SaysConnected(q, i) => s = "Connected" \/ \E j \in 1..Len(q) : j > i /\ SaysState(q, j)

Faithful(q, s) == LastIs(q, s) /\ ConnectedIsTrue(q, s)

\* A change of the device is said behind everything else.
LEMMA SayState ==
  ASSUME NEW q \in Seq(EventSet), NEW s \in Socks, NEW r, r = q \o <<SC(s)>>
  PROVE  /\ r \in Seq(EventSet) /\ HasState(r) /\ Faithful(r, s)
         /\ HasConnected(r) <=> HasConnected(q)
<1>1. SC(s) \in EventSet /\ SC(s).kind = "stateChanged" /\ SC(s).sock = s
  BY DEF SC, EventSet
<1> DEFINE n == Len(q)
<1>2. n \in Nat /\ r \in Seq(EventSet) /\ Len(r) = n + 1 /\ r[n + 1] = SC(s)
      /\ \A i \in 1..n : r[i] = q[i]
  BY <1>1
<1>3. SaysState(r, n + 1) /\ ~SaysConnected(r, n + 1) BY <1>1, <1>2 DEF SaysState, SaysConnected
<1>4. HasState(r) BY <1>2, <1>3 DEF HasState
<1>5. LastIs(r, s)
  <2> SUFFICES ASSUME NEW i \in 1..Len(r), \A j \in 1..Len(r) : j > i => ~SaysState(r, j)
               PROVE  r[i].sock = s
    BY DEF LastIs
  <2>1. i = n + 1 BY <1>2, <1>3
  <2> QED BY <1>1, <1>2, <2>1
<1>6. ConnectedIsTrue(r, s)
  <2> SUFFICES ASSUME NEW i \in 1..Len(r), SaysConnected(r, i)
               PROVE  \E j \in 1..Len(r) : j > i /\ SaysState(r, j)
    BY DEF ConnectedIsTrue
  <2>1. i # n + 1 BY <1>3
  <2>2. n + 1 \in 1..Len(r) /\ n + 1 > i BY <1>2, <2>1
  <2> QED BY <1>3, <2>2
<1>7. HasConnected(r) <=> HasConnected(q)
  <2>1. \A i \in 1..n : i \in 1..Len(r) /\ (SaysConnected(r, i) <=> SaysConnected(q, i))
    BY <1>2 DEF SaysConnected
  <2>2. \A i \in 1..Len(r) : SaysConnected(r, i) => i \in 1..n BY <1>2, <1>3
  <2> QED BY <2>1, <2>2 DEF HasConnected
<1> QED BY <1>2, <1>4, <1>5, <1>6, <1>7 DEF Faithful

\* What is no stateChanged changes nothing of that; a connected has to be true.
LEMMA PostSignal ==
  ASSUME NEW q \in Seq(EventSet), NEW s, NEW k \in Plain \cup {"connected"},
         NEW r, r = q \o <<Signal(k)>>
  PROVE  /\ r \in Seq(EventSet) /\ (HasState(r) <=> HasState(q))
         /\ Faithful(q, s) /\ (k = "connected" => s = "Connected") => Faithful(r, s)
         /\ HasConnected(r) <=> HasConnected(q) \/ k = "connected"
<1>1. Signal(k) \in EventSet /\ Signal(k).kind = k BY DEF Signal, EventSet
<1> DEFINE n == Len(q)
<1>2. n \in Nat /\ r \in Seq(EventSet) /\ Len(r) = n + 1 /\ r[n + 1] = Signal(k)
      /\ \A i \in 1..n : r[i] = q[i]
  BY <1>1
<1>3. ~SaysState(r, n + 1) /\ (SaysConnected(r, n + 1) <=> k = "connected")
  BY <1>1, <1>2 DEF SaysState, SaysConnected, Plain
<1>4. \A i \in 1..n : /\ i \in 1..Len(r) /\ r[i] = q[i]
                      /\ SaysState(r, i) <=> SaysState(q, i)
                      /\ SaysConnected(r, i) <=> SaysConnected(q, i)
  BY <1>2 DEF SaysState, SaysConnected
<1>5. \A i \in 1..Len(r) : i \in 1..n \/ i = n + 1 BY <1>2
<1>6. HasState(r) <=> HasState(q) BY <1>3, <1>4, <1>5 DEF HasState
<1>7. HasConnected(r) <=> HasConnected(q) \/ k = "connected"
  <2>1. n + 1 \in 1..Len(r) BY <1>2
  <2> QED BY <2>1, <1>3, <1>4, <1>5 DEF HasConnected
<1>8. ASSUME LastIs(q, s) PROVE LastIs(r, s)
  <2> SUFFICES ASSUME NEW i \in 1..Len(r), SaysState(r, i),
                      \A j \in 1..Len(r) : j > i => ~SaysState(r, j)
               PROVE  r[i].sock = s
    BY DEF LastIs
  <2>1. i \in 1..n BY <1>3, <1>5
  <2>2. SaysState(q, i) /\ \A j \in 1..n : j > i => ~SaysState(q, j) BY <1>4, <2>1
  <2> QED BY <1>4, <1>8, <2>1, <2>2 DEF LastIs
<1>9. ASSUME ConnectedIsTrue(q, s), k = "connected" => s = "Connected"
      PROVE  ConnectedIsTrue(r, s)
  <2> SUFFICES ASSUME NEW i \in 1..Len(r), SaysConnected(r, i), s # "Connected"
               PROVE  \E j \in 1..Len(r) : j > i /\ SaysState(r, j)
    BY DEF ConnectedIsTrue
  <2>1. i \in 1..n BY <1>3, <1>5, <1>9
  <2>2. PICK j \in 1..n : j > i /\ SaysState(q, j) BY <1>4, <1>9, <2>1 DEF ConnectedIsTrue
  <2> QED BY <1>4, <2>2
<1> QED BY <1>2, <1>6, <1>7, <1>8, <1>9 DEF Faithful

LEMMA PostPlain ==
  ASSUME NEW q \in Seq(EventSet), NEW s, Faithful(q, s), NEW k \in Plain,
         NEW r, r = q \o <<Signal(k)>>
  PROVE  /\ r \in Seq(EventSet) /\ (HasState(r) <=> HasState(q)) /\ Faithful(r, s)
         /\ HasConnected(r) <=> HasConnected(q)
<1>1. k \in Plain \cup {"connected"} OBVIOUS
<1>2. k # "connected" BY DEF Plain
<1>3. /\ r \in Seq(EventSet) /\ (HasState(r) <=> HasState(q))
      /\ Faithful(q, s) /\ (k = "connected" => s = "Connected") => Faithful(r, s)
      /\ HasConnected(r) <=> HasConnected(q) \/ k = "connected"
  BY <1>1, PostSignal
<1> QED BY <1>2, <1>3

LEMMA PostConnected ==
  ASSUME NEW q \in Seq(EventSet), Faithful(q, "Connected"),
         NEW r, r = q \o <<Signal("connected")>>
  PROVE  /\ r \in Seq(EventSet) /\ (HasState(r) <=> HasState(q)) /\ Faithful(r, "Connected")
         /\ HasConnected(r)
<1> DEFINE k == "connected"
           s == "Connected"
<1>1. k \in Plain \cup {"connected"} /\ r = q \o <<Signal(k)>> OBVIOUS
<1>2. k = "connected" /\ s = "Connected" OBVIOUS
<1> HIDE DEF k, s
<1>3. /\ r \in Seq(EventSet) /\ (HasState(r) <=> HasState(q))
      /\ Faithful(q, s) /\ (k = "connected" => s = "Connected") => Faithful(r, s)
      /\ HasConnected(r) <=> HasConnected(q) \/ k = "connected"
  BY <1>1, PostSignal
<1> QED BY <1>2, <1>3

LEMMA TwoAreAppended ==
  ASSUME NEW q \in Seq(EventSet), NEW a \in EventSet, NEW b \in EventSet
  PROVE  q \o <<a, b>> = (q \o <<a>>) \o <<b>>
<1> DEFINE n == Len(q)
           x == q \o <<a, b>>
           y == q \o <<a>>
           z == y \o <<b>>
<1>1. n \in Nat /\ <<a, b>> \in Seq(EventSet) /\ <<a>> \in Seq(EventSet) /\ <<b>> \in Seq(EventSet)
  OBVIOUS
<1>2. x \in Seq(EventSet) /\ Len(x) = n + 2 BY <1>1
<1>3. y \in Seq(EventSet) /\ Len(y) = n + 1 BY <1>1
<1>4. z \in Seq(EventSet) /\ Len(z) = n + 2 BY <1>1, <1>3
<1>5. \A i \in 1..n : x[i] = q[i] /\ y[i] = q[i] BY <1>1
<1>6. \A i \in 1..(n + 1) : z[i] = y[i] BY <1>1, <1>3
<1>7. x[n + 1] = a /\ x[n + 2] = b /\ y[n + 1] = a BY <1>1
<1>8. z[n + 2] = b BY <1>1, <1>3
<1> HIDE DEF x, y, z
<1>9. ASSUME NEW i \in 1..(n + 2) PROVE x[i] = z[i]
  <2>1. CASE i \in 1..n
    <3>1. i \in 1..(n + 1) BY <1>1, <2>1
    <3> QED BY <1>5, <1>6, <2>1, <3>1
  <2>2. CASE i = n + 1
    <3>1. i \in 1..(n + 1) BY <1>1, <2>2
    <3> QED BY <1>6, <1>7, <2>2, <3>1
  <2>3. CASE i = n + 2 BY <1>7, <1>8, <2>3
  <2> QED BY <1>1, <2>1, <2>2, <2>3
<1>10. x = z
  <2>1. DOMAIN x = 1..Len(x) /\ DOMAIN z = 1..Len(z) BY <1>2, <1>4
  <2>2. x = [i \in 1..(n + 2) |-> x[i]] /\ z = [i \in 1..(n + 2) |-> z[i]]
    BY <1>2, <1>4, <2>1
  <2> QED BY <1>9, <2>2
<1> QED BY <1>10 DEF x, y, z

\* Taking the oldest event.
LEMMA TakeEvent ==
  ASSUME NEW q \in Seq(EventSet), q # <<>>, NEW s, Faithful(q, s)
  PROVE  /\ Tail(q) \in Seq(EventSet) /\ Head(q) \in EventSet /\ Faithful(Tail(q), s)
         /\ HasState(Tail(q)) => HasState(q)
         /\ HasConnected(Tail(q)) => HasConnected(q)
         /\ Head(q).kind # "stateChanged" /\ HasState(q) => HasState(Tail(q))
         /\ Head(q).kind = "stateChanged" => HasState(Tail(q)) \/ Head(q).sock = s
         /\ Head(q).kind # "connected" /\ HasConnected(q) => HasConnected(Tail(q))
         /\ Head(q).kind = "connected" => HasState(Tail(q)) \/ s = "Connected"
<1> DEFINE r == Tail(q)
           n == Len(r)
<1>1. r \in Seq(EventSet) /\ Head(q) \in EventSet /\ Head(q) = q[1] OBVIOUS
<1>2. n \in Nat /\ Len(q) = n + 1 /\ \A i \in 1..n : r[i] = q[i + 1] OBVIOUS
<1> HIDE DEF r, n
<1>3. n = Len(r) BY DEF n
<1>4. \A i \in 1..n : /\ i + 1 \in 1..Len(q) /\ r[i] = q[i + 1]
                      /\ SaysState(r, i) <=> SaysState(q, i + 1)
                      /\ SaysConnected(r, i) <=> SaysConnected(q, i + 1)
  BY <1>2 DEF SaysState, SaysConnected
<1>5. \A i \in 1..Len(q) : i = 1 \/ (i - 1 \in 1..n /\ (i - 1) + 1 = i) BY <1>2
<1>6. 1 \in 1..Len(q) BY <1>2
<1>7. (SaysState(q, 1) <=> Head(q).kind = "stateChanged")
      /\ (SaysConnected(q, 1) <=> Head(q).kind = "connected")
  BY <1>1 DEF SaysState, SaysConnected
<1>8. /\ HasState(r) => HasState(q)
      /\ HasConnected(r) => HasConnected(q)
  BY <1>3, <1>4 DEF HasState, HasConnected
<1>9. /\ Head(q).kind # "stateChanged" /\ HasState(q) => HasState(r)
      /\ Head(q).kind # "connected" /\ HasConnected(q) => HasConnected(r)
  <2>1. ASSUME NEW i \in 1..Len(q), i # 1
        PROVE  /\ i - 1 \in 1..n /\ (SaysState(q, i) <=> SaysState(r, i - 1))
               /\ (SaysConnected(q, i) <=> SaysConnected(r, i - 1))
    <3>1. i - 1 \in 1..n /\ (i - 1) + 1 = i BY <1>5, <2>1
    <3> QED BY <1>4, <3>1
  <2>2. ASSUME Head(q).kind # "stateChanged", HasState(q) PROVE HasState(r)
    <3>1. PICK i \in 1..Len(q) : SaysState(q, i) BY <2>2 DEF HasState
    <3>2. i # 1 BY <1>7, <2>2, <3>1
    <3> QED BY <1>3, <2>1, <3>1, <3>2 DEF HasState
  <2>3. ASSUME Head(q).kind # "connected", HasConnected(q) PROVE HasConnected(r)
    <3>1. PICK i \in 1..Len(q) : SaysConnected(q, i) BY <2>3 DEF HasConnected
    <3>2. i # 1 BY <1>7, <2>3, <3>1
    <3> QED BY <1>3, <2>1, <3>1, <3>2 DEF HasConnected
  <2> QED BY <2>2, <2>3
<1>10. LastIs(r, s)
  <2> SUFFICES ASSUME NEW i \in 1..n, SaysState(r, i), \A j \in 1..n : j > i => ~SaysState(r, j)
               PROVE  r[i].sock = s
    BY <1>3 DEF LastIs
  <2>1. SaysState(q, i + 1) /\ i + 1 \in 1..Len(q) /\ r[i] = q[i + 1] BY <1>4
  <2>2. ASSUME NEW j \in 1..Len(q), j > i + 1 PROVE ~SaysState(q, j)
    <3>1. j - 1 \in 1..n /\ (j - 1) + 1 = j /\ j - 1 > i BY <1>2, <2>2
    <3> QED BY <1>4, <3>1
  <2> QED BY <2>1, <2>2 DEF Faithful, LastIs
<1>11. ConnectedIsTrue(r, s)
  <2> SUFFICES ASSUME NEW i \in 1..n, SaysConnected(r, i), s # "Connected"
               PROVE  \E j \in 1..n : j > i /\ SaysState(r, j)
    BY <1>3 DEF ConnectedIsTrue
  <2>0. i + 1 \in 1..Len(q) /\ SaysConnected(q, i + 1) BY <1>4
  <2>1. PICK j \in 1..Len(q) : j > i + 1 /\ SaysState(q, j)
    BY <2>0 DEF Faithful, ConnectedIsTrue
  <2>2. j - 1 \in 1..n /\ (j - 1) + 1 = j /\ j - 1 > i BY <1>2, <2>1
  <2> QED BY <1>4, <2>1, <2>2
<1>12. ASSUME Head(q).kind = "stateChanged", ~HasState(r) PROVE Head(q).sock = s
  <2>1. SaysState(q, 1) BY <1>7, <1>12
  <2>2. \A j \in 1..Len(q) : j > 1 => ~SaysState(q, j)
    <3> SUFFICES ASSUME NEW j \in 1..Len(q), j > 1 PROVE ~SaysState(q, j) OBVIOUS
    <3>1. j - 1 \in 1..n /\ (j - 1) + 1 = j BY <1>5
    <3> QED BY <1>3, <1>4, <1>12, <3>1 DEF HasState
  <2> QED BY <1>1, <1>6, <2>1, <2>2 DEF Faithful, LastIs
<1>13. ASSUME Head(q).kind = "connected", s # "Connected" PROVE HasState(r)
  <2>1. PICK j \in 1..Len(q) : j > 1 /\ SaysState(q, j)
    BY <1>6, <1>7, <1>13 DEF Faithful, ConnectedIsTrue
  <2>2. j - 1 \in 1..n /\ (j - 1) + 1 = j BY <1>5, <2>1
  <2> QED BY <1>3, <1>4, <2>1, <2>2 DEF HasState
<1> QED BY <1>1, <1>8, <1>9, <1>10, <1>11, <1>12, <1>13 DEF Faithful, r

-----------------------------------------------------------------------------
(* The invariant of a channel d *)

\* A serial port is silent about its state; only TCP connects and lingers.
Device(d) ==
  /\ Faithful(d.queue, d.sock)
  /\ d.kind = "serial" => /\ ~HasState(d.queue) /\ ~HasConnected(d.queue)
                          /\ d.sock \in {"Unconnected", "Connected"}
                          /\ d.connectOn = FALSE /\ d.lingerOn = FALSE
  /\ d.kind = "udp" => d.sock \in {"Unconnected", "Connected"}
  /\ d.kind # "tcp" => d.closing = FALSE

\* With no stateChanged left to handle the state agrees with the device.
Base(d) ==
  \/ HasState(d.queue)
  \/ /\ d.state = "Open" => d.sock = "Connected"
     /\ d.sock = "Connected" => d.state \in {"Open", "Error"}
     /\ d.sock = "Unconnected" /\ d.kind # "udp" => d.state \in {"Closed", "Error"}

\* A connection that came up under a close() has its "connected" still to come.
ClosingIsMet(d) == d.closing /\ d.sock = "Connected" => HasConnected(d.queue)

\* Of the frame being written, what the device took is sent or in its buffer.
OnWire(d) ==
  /\ d.pending = <<>> => d.offset = 0
  /\ d.kind = "udp" \/ d.sock = "Connecting" => d.pending = <<>>
  /\ d.sock = "Connected" /\ d.pending # <<>> =>
       \A i \in 1..d.offset : Chunk(d.pending[1], i) \in d.wire \cup ToSet(d.buf)

Held(d) == d \in ChannelSet /\ Device(d) /\ OnWire(d)
Good(d) == Held(d) /\ Base(d) /\ ClosingIsMet(d)

-----------------------------------------------------------------------------
(* What the helpers leave alone *)

\* The device and what is written stay; the writes may be given up.
Tuned(d, e) ==
  /\ e \in ChannelSet /\ e.kind = d.kind /\ e.sock = d.sock /\ e.queue = d.queue
  /\ e.wire = d.wire /\ e.tx = d.tx
  /\ \/ e.pending = d.pending /\ e.offset = d.offset /\ e.buf = d.buf
     \/ e.pending = <<>> /\ e.offset = 0

LEMMA TunedKeeps ==
  ASSUME NEW d, NEW e, Held(d), Tuned(d, e),
         d.kind = "serial" => e.connectOn = FALSE /\ e.lingerOn = FALSE,
         d.kind # "tcp" => e.closing = FALSE
  PROVE  Held(e)
<1>1. Device(e) BY DEF Held, Device, Tuned
<1>2. OnWire(e)
  <2>1. CASE e.pending = <<>> /\ e.offset = 0 BY <2>1 DEF OnWire
  <2>2. CASE e.pending = d.pending /\ e.offset = d.offset /\ e.buf = d.buf
    BY <2>2 DEF OnWire, Held, Tuned
  <2> QED BY <2>1, <2>2 DEF Tuned
<1> QED BY <1>1, <1>2 DEF Held, Tuned

\* A write may fail and nothing else.
Calm(d, e) ==
  /\ e \in ChannelSet /\ e.kind = d.kind /\ e.sock = d.sock /\ e.queue = d.queue
  /\ e.closing = d.closing /\ e.connectOn = d.connectOn /\ e.lingerOn = d.lingerOn
  /\ e.state = d.state \/ e.state = "Error"

LEMMA CalmKeeps ==
  ASSUME NEW d, NEW e, Held(d), Calm(d, e), OnWire(e)
  PROVE  Held(e) /\ (Base(d) => Base(e)) /\ (ClosingIsMet(d) => ClosingIsMet(e))
<1>1. Held(e) BY DEF Held, Device, Calm
<1>2. Base(d) => Base(e) BY DEF Base, Calm
<1>3. ClosingIsMet(d) => ClosingIsMet(e) BY DEF ClosingIsMet, Calm
<1> QED BY <1>1, <1>2, <1>3

\* The device goes on to another state and says so.
Moved(d, e) ==
  /\ e \in ChannelSet /\ e.kind = d.kind /\ e.closing = d.closing /\ e.state = d.state
  /\ e.pending = d.pending /\ e.offset = d.offset /\ e.connectOn = d.connectOn
  /\ e.lingerOn = d.lingerOn /\ e.tx = d.tx /\ e.wire = d.wire
  /\ Faithful(e.queue, e.sock) /\ (HasConnected(e.queue) <=> HasConnected(d.queue))
  /\ HasState(d.queue) => HasState(e.queue)
  /\ e.sock = d.sock \/ HasState(e.queue)

LEMMA BecomeMoves ==
  ASSUME NEW d \in ChannelSet, NEW s \in Socks
  PROVE  /\ Moved(d, Become(d, s)) /\ Become(d, s).sock = s /\ HasState(Become(d, s).queue)
         /\ Become(d, s).buf = d.buf
<1> DEFINE q == d.queue \o <<SC(s)>>
<1>1. d.queue \in Seq(EventSet) BY DEF ChannelSet
<1>2. /\ q \in Seq(EventSet) /\ HasState(q) /\ Faithful(q, s)
      /\ HasConnected(q) <=> HasConnected(d.queue)
  BY <1>1, SayState
<1>3. Become(d, s) = [d EXCEPT !.sock = s, !.queue = q] BY DEF Become, Post, ChannelSet
<1> HIDE DEF q
<1>4. Become(d, s) \in ChannelSet BY <1>2, <1>3 DEF ChannelSet
<1>5. Become(d, s).queue = q /\ Become(d, s).sock = s BY <1>3 DEF ChannelSet
<1> QED BY <1>2, <1>3, <1>4, <1>5 DEF Moved, ChannelSet

LEMMA MovesCompose ==
  ASSUME NEW d, NEW e, NEW f, Moved(d, e), Moved(e, f)
  PROVE  Moved(d, f)
BY DEF Moved

LEMMA NothingIsSeq == <<>> \in Seq(Nat) /\ <<>> \in Seq(Nat \X Nat)
OBVIOUS

\* abort() leaves the device unconnected.
LEMMA AbortMoves ==
  ASSUME NEW d \in ChannelSet, Faithful(d.queue, d.sock)
  PROVE  /\ Moved(d, Abort(d)) /\ Abort(d).sock = "Unconnected"
         /\ d.sock # "Unconnected" => HasState(Abort(d).queue)
<1> DEFINE e == [d EXCEPT !.buf = <<>>, !.pendingClose = FALSE]
<1>1. e \in ChannelSet BY NothingIsSeq DEF ChannelSet
<1>2. Moved(d, e) /\ e.sock = d.sock BY <1>1 DEF Moved, ChannelSet
<1>3. Abort(d) = CASE d.sock = "Unconnected" -> e
                   [] d.sock = "Closing"     -> Become(e, "Unconnected")
                   [] OTHER                  -> Become(Become(e, "Closing"), "Unconnected")
  BY DEF Abort
<1> HIDE DEF e
<1>4. "Unconnected" \in Socks /\ "Closing" \in Socks BY DEF Socks
<1>5. CASE d.sock = "Unconnected" BY <1>2, <1>3, <1>5
<1>6. CASE d.sock = "Closing"
  <2>1. Abort(d) = Become(e, "Unconnected") BY <1>3, <1>6
  <2> QED BY <1>1, <1>2, <1>4, <2>1, BecomeMoves, MovesCompose
<1>7. CASE d.sock # "Unconnected" /\ d.sock # "Closing"
  <2> DEFINE f == Become(e, "Closing")
  <2>1. Abort(d) = Become(f, "Unconnected") BY <1>3, <1>7
  <2>2. Moved(e, f) BY <1>1, <1>4, BecomeMoves
  <2>3. f \in ChannelSet BY <2>2 DEF Moved
  <2> HIDE DEF f
  <2> QED BY <1>2, <1>4, <2>1, <2>2, <2>3, BecomeMoves, MovesCompose
<1> QED BY <1>5, <1>6, <1>7

\* disconnectFromHost() leaves no connection, now or when what is left is sent.
LEMMA DisconnectMoves ==
  ASSUME NEW d \in ChannelSet, Faithful(d.queue, d.sock)
  PROVE  /\ Moved(d, DisconnectFromHost(d)) /\ DisconnectFromHost(d).sock # "Connected"
         /\ DisconnectFromHost(d).sock = "Connecting" => d.sock = "Connecting"
<1> DEFINE e == DisconnectFromHost(d)
<1>1. "Unconnected" \in Socks /\ "Closing" \in Socks BY DEF Socks
<1>2. CASE d.sock = "Connecting"
  <2>1. e = [d EXCEPT !.pendingClose = TRUE] BY <1>2 DEF DisconnectFromHost
  <2>2. e \in ChannelSet BY <2>1 DEF ChannelSet
  <2> QED BY <1>2, <2>1, <2>2 DEF Moved, ChannelSet
<1>3. CASE d.sock = "Connected"
  <2> DEFINE g == Become(d, "Closing")
  <2>1. e = IF d.buf # <<>> THEN g ELSE Become(g, "Unconnected")
    BY <1>3 DEF DisconnectFromHost
  <2>2. Moved(d, g) /\ g.sock = "Closing" BY <1>1, BecomeMoves
  <2>3. g \in ChannelSet BY <2>2 DEF Moved
  <2> HIDE DEF g, e
  <2>4. Moved(g, Become(g, "Unconnected")) /\ Become(g, "Unconnected").sock = "Unconnected"
    BY <1>1, <2>3, BecomeMoves
  <2>5. Moved(d, Become(g, "Unconnected")) BY <2>2, <2>4, MovesCompose
  <2> QED BY <2>1, <2>2, <2>4, <2>5 DEF e
<1>4. CASE d.sock # "Connecting" /\ d.sock # "Connected"
  <2>1. e = d BY <1>4 DEF DisconnectFromHost
  <2> QED BY <1>4, <2>1 DEF Moved
<1> QED BY <1>2, <1>3, <1>4

LEMMA MovedKeeps ==
  ASSUME NEW d, NEW e, Held(d), Moved(d, e), e.sock # "Connected",
         e.sock = "Connecting" => d.sock = "Connecting", d.kind # "serial",
         d.kind = "udp" => e.sock = "Unconnected"
  PROVE  Held(e) /\ (Base(d) => Base(e)) /\ ClosingIsMet(e)
<1>1. Device(e) BY DEF Held, Device, Moved
<1>2. OnWire(e) BY DEF Held, OnWire, Moved
<1>3. Base(d) => Base(e) BY DEF Base, Moved
<1> QED BY <1>1, <1>2, <1>3 DEF Held, Moved, ClosingIsMet

-----------------------------------------------------------------------------
(* Writing *)

Takes == -1..FrameSize

\* What is taken from the frame goes to the buffer, at the offset.
LEMMA FlushKeeps ==
  ASSUME NEW d \in ChannelSet, OnWire(d), NEW k \in Takes
  PROVE  /\ Calm(d, FlushPendingWrites(d, k)) /\ OnWire(FlushPendingWrites(d, k))
         /\ FlushPendingWrites(d, k).tx = d.tx /\ FlushPendingWrites(d, k).wire = d.wire
<1> DEFINE f == FlushPendingWrites(d, k)
           left == FrameSize - d.offset
           n == IF k < left THEN k ELSE left
           more == [i \in 1..n |-> Chunk(Head(d.pending), d.offset + i)]
<1>1. left \in 0..FrameSize /\ d.offset \in 0..FrameSize /\ d.pending \in Seq(Nat)
      /\ d.buf \in Seq(Nat \X Nat)
  BY DEF ChannelSet, FrameSize
<1>2. CASE d.pending = <<>> \/ ~Writable(d)
  <2> DEFINE b == d.writeOn /\ ~AllSent(d)
  <2>1. f = [d EXCEPT !.writeOn = b] BY <1>2 DEF FlushPendingWrites, ChannelSet
  <2>2. b \in BOOLEAN OBVIOUS
  <2> HIDE DEF b
  <2>3. f \in ChannelSet BY <2>1, <2>2 DEF ChannelSet
  <2>4. /\ f.kind = d.kind /\ f.sock = d.sock /\ f.queue = d.queue /\ f.closing = d.closing
        /\ f.connectOn = d.connectOn /\ f.lingerOn = d.lingerOn /\ f.state = d.state
        /\ f.tx = d.tx /\ f.wire = d.wire /\ f.buf = d.buf /\ f.pending = d.pending
        /\ f.offset = d.offset
    BY <2>1 DEF ChannelSet
  <2> HIDE DEF f
  <2> QED BY <2>3, <2>4 DEF Calm, OnWire, f
<1>3. CASE d.pending # <<>> /\ Writable(d) /\ left = 0
  <2>1. f = d BY <1>3 DEF FlushPendingWrites
  <2> QED BY <2>1 DEF Calm
<1>4. CASE d.pending # <<>> /\ Writable(d) /\ left # 0 /\ k < 0
  <2>1. f = FailWith(d) BY <1>4 DEF FlushPendingWrites
  <2>2. f = [d EXCEPT !.pending = <<>>, !.offset = 0, !.writeOn = FALSE, !.state = "Error"]
    BY <2>1 DEF FailWith, SetState, ResetWriteState
  <2> DEFINE g == [d EXCEPT !.pending = <<>>, !.offset = 0]
  <2>3. g \in ChannelSet
    <3>1. 0 \in 0..FrameSize BY DEF FrameSize
    <3> QED BY <3>1, NothingIsSeq DEF ChannelSet
  <2>4. f = [g EXCEPT !.writeOn = FALSE, !.state = "Error"] BY <2>2
  <2> HIDE DEF g
  <2>5. f \in ChannelSet BY ZenonT(40), <2>3, <2>4 DEF ChannelSet, States
  <2>6. /\ f.kind = d.kind /\ f.sock = d.sock /\ f.queue = d.queue /\ f.closing = d.closing
        /\ f.connectOn = d.connectOn /\ f.lingerOn = d.lingerOn /\ f.state = "Error"
        /\ f.tx = d.tx /\ f.pending = <<>> /\ f.offset = 0 /\ f.wire = d.wire
    BY <2>2 DEF ChannelSet
  <2> HIDE DEF f
  <2> QED BY <2>5, <2>6 DEF Calm, OnWire, f
<1>5. CASE d.pending # <<>> /\ Writable(d) /\ left # 0 /\ ~(k < 0)
  <2>1. n \in 0..left /\ d.offset + n \in 0..FrameSize BY <1>1, <1>5 DEF Takes, FrameSize
  <2>2. Head(d.pending) = d.pending[1] /\ d.pending[1] \in Nat BY <1>1, <1>5
  <2>3. \A i \in 1..n : Chunk(Head(d.pending), d.offset + i) \in Nat \X Nat
    BY <1>1, <2>1, <2>2 DEF Chunk, FrameSize
  <2> DEFINE w == d.writeOn \/ n > 0
             all == d.buf \o more
             at == d.offset + n
  <2>4. f = [d EXCEPT !.offset = at, !.writeOn = w, !.buf = all]
    BY <1>5 DEF FlushPendingWrites, ChannelSet
  <2>5. more \in Seq(Nat \X Nat) /\ Len(more) = n BY SMTT(20), <1>1, <2>1, <2>3
  <2>6. ToSet(all) = ToSet(d.buf) \cup {Chunk(d.pending[1], d.offset + i) : i \in 1..n}
    <3>1. \A i \in 1..n : more[i] = Chunk(d.pending[1], d.offset + i) BY <2>2
    <3> HIDE DEF more, n
    <3>2. n \in Nat BY <1>1, <2>1
    <3>3. /\ DOMAIN all = 1..(Len(d.buf) + n) /\ DOMAIN d.buf = 1..Len(d.buf) /\ Len(d.buf) \in Nat
          /\ \A i \in 1..Len(d.buf) : all[i] = d.buf[i]
          /\ \A i \in 1..n : all[Len(d.buf) + i] = more[i]
      <4> DEFINE buf == d.buf
      <4>1. buf \in Seq(Nat \X Nat) BY <1>1
      <4> HIDE DEF buf
      <4>2. /\ Len(buf \o more) = Len(buf) + n /\ Len(buf) \in Nat
            /\ DOMAIN (buf \o more) = 1..Len(buf \o more) /\ DOMAIN buf = 1..Len(buf)
        <5> DEFINE z == buf \o more
        <5>1. z \in Seq(Nat \X Nat) BY <2>5, <4>1
        <5>2. Len(z) = Len(buf) + n /\ Len(buf) \in Nat
          <6>1. Len(buf) \in Nat BY <4>1
          <6>2. more \in Seq(Nat \X Nat) BY <2>5
          <6>3. Len(buf \o more) = Len(buf) + Len(more) BY <4>1, <6>2
          <6>4. Len(more) = n BY <2>5
          <6> QED BY <6>1, <6>3, <6>4
        <5>3. DOMAIN buf = 1..Len(buf) BY <4>1
        <5> HIDE DEF z
        <5>4. DOMAIN z = 1..Len(z) BY <5>1
        <5> QED BY <5>2, <5>3, <5>4 DEF z
      <4>3. \A i \in 1..Len(buf) : (buf \o more)[i] = buf[i] BY <2>5, <3>2, <4>1
      <4>4. \A i \in 1..n : (buf \o more)[Len(buf) + i] = more[i] BY <2>5, <3>2, <4>1, <4>2
      <4> QED BY <4>2, <4>3, <4>4 DEF buf
    <3> HIDE DEF all
    <3>4. ASSUME NEW x \in ToSet(all)
          PROVE  x \in ToSet(d.buf) \cup {Chunk(d.pending[1], d.offset + i) : i \in 1..n}
      <4>1. PICK i \in 1..(Len(d.buf) + n) : x = all[i] BY <3>3 DEF ToSet
      <4>2. CASE i <= Len(d.buf)
        BY <3>2, <3>3, <4>1, <4>2 DEF ToSet
      <4>3. CASE i > Len(d.buf)
        <5>1. i - Len(d.buf) \in 1..n /\ Len(d.buf) + (i - Len(d.buf)) = i BY <3>2, <3>3, <4>1, <4>3
        <5>2. x = more[i - Len(d.buf)] BY <3>3, <4>1, <5>1
        <5> QED BY <3>1, <5>1, <5>2
      <4> QED BY <3>3, <4>2, <4>3
    <3>5. ASSUME NEW x \in ToSet(d.buf) PROVE x \in ToSet(all)
      <4>1. PICK i \in 1..Len(d.buf) : x = d.buf[i] BY <3>3 DEF ToSet
      <4>2. i \in DOMAIN all /\ all[i] = x BY <3>2, <3>3, <4>1
      <4> QED BY <4>2 DEF ToSet
    <3>6. ASSUME NEW i \in 1..n PROVE Chunk(d.pending[1], d.offset + i) \in ToSet(all)
      <4>1. Len(d.buf) + i \in DOMAIN all BY <3>2, <3>3
      <4> QED BY <3>1, <3>3, <4>1 DEF ToSet
    <3> QED BY <3>4, <3>5, <3>6
  <2>7. all \in Seq(Nat \X Nat) BY <1>1, <2>5
  <2>8. w \in BOOLEAN OBVIOUS
  <2>9. at \in 0..FrameSize BY <2>1
  <2> HIDE DEF w, all, at, n
  <2>10. f \in ChannelSet BY ZenonT(40), <2>4, <2>7, <2>8, <2>9 DEF ChannelSet
  <2>11. /\ f.kind = d.kind /\ f.sock = d.sock /\ f.queue = d.queue /\ f.closing = d.closing
         /\ f.connectOn = d.connectOn /\ f.lingerOn = d.lingerOn /\ f.state = d.state
         /\ f.tx = d.tx /\ f.wire = d.wire /\ f.pending = d.pending /\ f.buf = all /\ f.offset = at
    BY <2>4 DEF ChannelSet
  <2> HIDE DEF f
  <2>12. OnWire(f)
    <3>1. \A i \in 1..d.offset : Chunk(d.pending[1], i) \in d.wire \cup ToSet(d.buf)
      BY <1>5 DEF OnWire, Writable
    <3>2. ASSUME NEW i \in 1..at PROVE Chunk(d.pending[1], i) \in d.wire \cup ToSet(all)
      <4>1. CASE i <= d.offset
        <5>1. i \in 1..d.offset BY <1>1, <2>9, <4>1 DEF FrameSize
        <5> QED BY <2>6, <3>1, <5>1
      <4>2. CASE i > d.offset
        <5>1. i - d.offset \in 1..n /\ d.offset + (i - d.offset) = i
          BY <1>1, <2>1, <4>2 DEF FrameSize, at
        <5> QED BY <2>6, <5>1
      <4> QED BY <1>1, <2>9, <4>1, <4>2 DEF FrameSize
    <3> QED BY <1>5, <2>11, <3>2 DEF OnWire
  <2> QED BY <2>10, <2>11, <2>12 DEF Calm, f
<1> QED BY <1>2, <1>3, <1>4, <1>5

-----------------------------------------------------------------------------
(* Counting *)

\* What SentIsOnWire says of a step from d to e.
Sent(d, e) ==
  e.sock = "Connected" =>
    \A frame \in e.tx \ d.tx : \A i \in 1..FrameSize : Chunk(frame, i) \in e.wire

LEMMA NothingCounted ==
  ASSUME NEW d, NEW e, e.tx = d.tx
  PROVE  Sent(d, e)
BY DEF Sent

\* The state and the timers are as before.
Alike(d, e) ==
  e.state = d.state /\ e.closing = d.closing /\ e.connectOn = d.connectOn /\ e.lingerOn = d.lingerOn

LEMMA AlikeKeeps ==
  ASSUME NEW d, NEW e, Good(d), Tuned(d, e), Alike(d, e)
  PROVE  Good(e)
<1>1. Held(e) BY TunedKeeps DEF Good, Held, Device, Alike
<1>2. Base(e) /\ ClosingIsMet(e) BY DEF Good, Base, ClosingIsMet, Tuned, Alike
<1> QED BY <1>1, <1>2 DEF Good

\* A write that fails or not.
LEMMA FlushIsGood ==
  ASSUME NEW d, Good(d), NEW k \in Takes
  PROVE  Good(FlushPendingWrites(d, k)) /\ Sent(d, FlushPendingWrites(d, k))
<1>1. d \in ChannelSet /\ OnWire(d) /\ Held(d) BY DEF Good, Held
<1> DEFINE f == FlushPendingWrites(d, k)
<1>2. Calm(d, f) /\ OnWire(f) /\ f.tx = d.tx BY <1>1, FlushKeeps
<1> HIDE DEF f
<1>3. Good(f) BY <1>1, <1>2, CalmKeeps DEF Good
<1>4. Sent(d, f) BY <1>2, NothingCounted
<1> QED BY <1>3, <1>4 DEF f

\* failWith() and the state it leaves agree with any device.
LEMMA FailIsGood ==
  ASSUME NEW d, Held(d), ClosingIsMet(d)
  PROVE  Good(FailWith(d)) /\ Sent(d, FailWith(d))
<1> DEFINE f == FailWith(d)
           g == [d EXCEPT !.pending = <<>>, !.offset = 0]
<1>1. d \in ChannelSet BY DEF Held
<1>2. g \in ChannelSet
  <2>1. 0 \in 0..FrameSize BY DEF FrameSize
  <2> QED BY <1>1, <2>1, NothingIsSeq DEF ChannelSet
<1>3. f = [g EXCEPT !.writeOn = FALSE, !.state = "Error"]
  BY DEF FailWith, SetState, ResetWriteState
<1>4. /\ g.kind = d.kind /\ g.sock = d.sock /\ g.queue = d.queue /\ g.wire = d.wire /\ g.tx = d.tx
      /\ g.pending = <<>> /\ g.offset = 0 /\ g.closing = d.closing /\ g.connectOn = d.connectOn
      /\ g.lingerOn = d.lingerOn
  BY <1>1 DEF ChannelSet
<1> HIDE DEF g
<1>5. f \in ChannelSet BY <1>2, <1>3 DEF ChannelSet, States
<1>6. /\ f.kind = g.kind /\ f.sock = g.sock /\ f.queue = g.queue /\ f.wire = g.wire /\ f.tx = g.tx
      /\ f.pending = g.pending /\ f.offset = g.offset /\ f.closing = g.closing
      /\ f.connectOn = g.connectOn /\ f.lingerOn = g.lingerOn /\ f.state = "Error"
  BY <1>2, <1>3 DEF ChannelSet
<1> HIDE DEF f
<1>7. Tuned(d, f) BY <1>4, <1>5, <1>6 DEF Tuned
<1>8. Held(f) BY <1>4, <1>6, <1>7, TunedKeeps DEF Held, Device
<1>9. Base(f) BY <1>6 DEF Base
<1>10. ClosingIsMet(f) BY <1>4, <1>6 DEF ClosingIsMet
<1>11. Sent(d, f) BY <1>4, <1>6, NothingCounted
<1> QED BY <1>8, <1>9, <1>10, <1>11 DEF Good, f

\* write(): what UDP counts has left with the call; the others queue the frame.
LEMMA WriteIsGood ==
  ASSUME NEW d, Good(d), NEW frame \in Nat, NEW k \in Takes
  PROVE  Good(Write(d, frame, k)) /\ Sent(d, Write(d, frame, k))
<1>1. d \in ChannelSet /\ OnWire(d) /\ Held(d) BY DEF Good, Held
<1>2. CASE ~Writable(d) \/ (d.kind = "udp" /\ k < 0)
  <2>1. Write(d, frame, k) = d BY <1>2 DEF Write
  <2> QED BY <2>1, NothingCounted
<1>3. CASE Writable(d) /\ d.kind = "udp" /\ ~(k < 0)
  <2> DEFINE told == d.tx \cup {frame}
             sent == d.wire \cup {Chunk(frame, i) : i \in 1..FrameSize}
             e == [d EXCEPT !.tx = told, !.wire = sent]
  <2>1. Write(d, frame, k) = e BY <1>1, <1>3 DEF Write, ChannelSet
  <2>2. told \in SUBSET Nat BY <1>1 DEF ChannelSet
  <2>3. sent \in SUBSET (Nat \X Nat) BY <1>1 DEF ChannelSet, Chunk, FrameSize
  <2>4. \A i \in 1..FrameSize : Chunk(frame, i) \in sent OBVIOUS
  <2>5. \A x \in told \ d.tx : x = frame OBVIOUS
  <2> HIDE DEF told, sent
  <2>6. e \in ChannelSet BY <1>1, <2>2, <2>3 DEF ChannelSet
  <2>7. /\ e.kind = d.kind /\ e.sock = d.sock /\ e.queue = d.queue /\ e.pending = d.pending
        /\ e.offset = d.offset /\ e.buf = d.buf /\ e.tx = told /\ e.wire = sent
        /\ e.state = d.state /\ e.closing = d.closing /\ e.connectOn = d.connectOn
        /\ e.lingerOn = d.lingerOn
    BY <1>1 DEF ChannelSet
  <2> HIDE DEF e
  <2>8. OnWire(e) BY <1>1, <1>3, <2>7 DEF OnWire
  <2>9. Calm(d, e) BY <2>6, <2>7 DEF Calm
  <2>10. Good(e) BY <1>1, <2>8, <2>9, CalmKeeps DEF Good
  <2>11. Sent(d, e) BY <2>4, <2>5, <2>7 DEF Sent
  <2> QED BY <2>1, <2>10, <2>11
<1>4. CASE Writable(d) /\ d.kind # "udp"
  <2> DEFINE all == Append(d.pending, frame)
             e == [d EXCEPT !.pending = all, !.writeOn = TRUE]
  <2>1. Write(d, frame, k) = FlushPendingWrites(e, k) BY <1>1, <1>4 DEF Write, ChannelSet
  <2>2. d.pending \in Seq(Nat) /\ all \in Seq(Nat) /\ all # <<>>
    <3>1. d.pending \in Seq(Nat) BY <1>1 DEF ChannelSet
    <3>2. all \in Seq(Nat) /\ Len(all) = Len(d.pending) + 1 /\ Len(d.pending) \in Nat BY <3>1
    <3> HIDE DEF all
    <3>3. all # <<>> BY <3>2
    <3> QED BY <3>1, <3>2, <3>3
  <2>3. d.pending # <<>> => all[1] = d.pending[1] BY <2>2
  <2> HIDE DEF all
  <2>4. e \in ChannelSet BY <1>1, <2>2 DEF ChannelSet
  <2>5. /\ e.kind = d.kind /\ e.sock = d.sock /\ e.queue = d.queue /\ e.pending = all
        /\ e.offset = d.offset /\ e.buf = d.buf /\ e.tx = d.tx /\ e.wire = d.wire
        /\ e.state = d.state /\ e.closing = d.closing /\ e.connectOn = d.connectOn
        /\ e.lingerOn = d.lingerOn
    BY <1>1 DEF ChannelSet
  <2> HIDE DEF e
  <2>6. OnWire(e)
    <3>1. CASE d.pending = <<>>
      <4>1. e.offset = 0 BY <1>1, <2>5, <3>1 DEF OnWire
      <4> QED BY <1>4, <2>2, <2>5, <4>1 DEF OnWire, Writable
    <3>2. CASE d.pending # <<>>
      BY <1>1, <1>4, <2>2, <2>3, <2>5, <3>2 DEF OnWire, Writable
    <3> QED BY <3>1, <3>2
  <2>7. Calm(d, e) BY <2>4, <2>5 DEF Calm
  <2>8. Good(e) BY <1>1, <2>6, <2>7, CalmKeeps DEF Good
  <2>9. FlushPendingWrites(e, k).tx = d.tx BY <2>4, <2>5, <2>6, FlushKeeps
  <2> QED BY <2>1, <2>8, <2>9, FlushIsGood, NothingCounted
<1> QED BY <1>2, <1>3, <1>4

\* onBytesWritten(): the frame counted has been taken whole and the buffer is empty.
LEMMA BytesWrittenIsGood ==
  ASSUME NEW d, Good(d), NEW k \in Takes
  PROVE  Good(OnBytesWritten(d, k)) /\ Sent(d, OnBytesWritten(d, k))
<1> DEFINE whole == d.pending # <<>> /\ d.offset >= FrameSize /\ d.buf = <<>>
           told == d.tx \cup {Head(d.pending)}
           t == [d EXCEPT !.tx = told, !.pending = Tail(@), !.offset = 0]
           e == IF whole THEN t ELSE d
           on == ~(whole /\ e.pending = <<>>) /\ (e.writeOn \/ ~AllSent(e))
           g == [e EXCEPT !.writeOn = on]
<1>1. d \in ChannelSet /\ OnWire(d) /\ Held(d) BY DEF Good, Held
<1>2. e \in ChannelSet /\ Calm(d, e) /\ OnWire(e) /\ e.wire = d.wire /\ (~whole => e.tx = d.tx)
      /\ (whole => e.tx = told)
  <2>1. CASE ~whole BY <1>1, <2>1 DEF Calm
  <2>2. CASE whole
    <3>1. d.pending \in Seq(Nat) /\ d.tx \in SUBSET Nat BY <1>1 DEF ChannelSet
    <3>2. Tail(d.pending) \in Seq(Nat) /\ told \in SUBSET Nat BY <2>2, <3>1
    <3>3. 0 \in 0..FrameSize BY DEF FrameSize
    <3> HIDE DEF told
    <3>4. t \in ChannelSet BY <1>1, <3>2, <3>3 DEF ChannelSet
    <3>5. /\ t.kind = d.kind /\ t.sock = d.sock /\ t.queue = d.queue /\ t.offset = 0
          /\ t.tx = told /\ t.wire = d.wire /\ t.state = d.state /\ t.closing = d.closing
          /\ t.connectOn = d.connectOn /\ t.lingerOn = d.lingerOn
      BY <1>1 DEF ChannelSet
    <3> HIDE DEF t
    <3>6. ~(d.kind = "udp" \/ d.sock = "Connecting") BY <1>1, <2>2 DEF OnWire
    <3>7. OnWire(t) BY <3>5, <3>6 DEF OnWire
    <3> QED BY <2>2, <3>4, <3>5, <3>7 DEF Calm
  <2> QED BY <2>1, <2>2
<1>3. OnBytesWritten(d, k) = FlushPendingWrites(g, k) BY DEF OnBytesWritten
<1>4. on \in BOOLEAN OBVIOUS
<1>5. Good(e) BY <1>1, <1>2, CalmKeeps DEF Good
<1>6. whole => \A i \in 1..FrameSize : d.sock = "Connected" => Chunk(Head(d.pending), i) \in d.wire
  <2> SUFFICES ASSUME whole, NEW i \in 1..FrameSize, d.sock = "Connected"
               PROVE  Chunk(Head(d.pending), i) \in d.wire
    OBVIOUS
  <2>1. i \in 1..d.offset /\ Head(d.pending) = d.pending[1]
    BY <1>1 DEF ChannelSet, FrameSize
  <2>2. ToSet(d.buf) = {} BY DEF ToSet
  <2> QED BY <1>1, <2>1, <2>2 DEF OnWire
<1>7. e.sock = d.sock BY <1>2 DEF Calm
<1>8. whole => \A x \in told \ d.tx : x = Head(d.pending) OBVIOUS
<1> HIDE DEF whole, told, e, on
<1>9. g \in ChannelSet BY <1>2, <1>4 DEF ChannelSet
<1>10. /\ g.kind = e.kind /\ g.sock = e.sock /\ g.queue = e.queue /\ g.wire = e.wire /\ g.tx = e.tx
       /\ g.pending = e.pending /\ g.offset = e.offset /\ g.buf = e.buf /\ g.state = e.state
       /\ g.closing = e.closing /\ g.connectOn = e.connectOn /\ g.lingerOn = e.lingerOn
  BY <1>2 DEF ChannelSet
<1> HIDE DEF g
<1>11. Good(g) BY <1>5, <1>9, <1>10, AlikeKeeps DEF Tuned, Alike
<1> DEFINE f == FlushPendingWrites(g, k)
<1>12. Good(f) BY <1>11, FlushIsGood
<1>13. f.tx = g.tx /\ f.wire = g.wire /\ f.sock = g.sock
  BY <1>11, FlushKeeps DEF Good, Held, Calm
<1> HIDE DEF f
<1>14. Sent(d, f)
  <2>1. CASE whole BY <2>1, <1>2, <1>6, <1>7, <1>8, <1>10, <1>13 DEF Sent
  <2>2. CASE ~whole BY <2>2, <1>2, <1>10, <1>13, NothingCounted
  <2> QED BY <2>1, <2>2
<1> QED BY <1>3, <1>12, <1>14 DEF f

LEMMA WriteTimeoutIsGood ==
  ASSUME NEW d, Good(d)
  PROVE  Good(OnWriteTimeout(d)) /\ Sent(d, OnWriteTimeout(d))
<1>1. d \in ChannelSet BY DEF Good, Held
<1>2. CASE d.closing \/ ~Writable(d) \/ AllSent(d)
  <2> DEFINE e == [d EXCEPT !.writeOn = FALSE]
  <2>1. OnWriteTimeout(d) = e BY <1>2 DEF OnWriteTimeout
  <2>2. Tuned(d, e) /\ Alike(d, e) BY <1>1 DEF Tuned, Alike, ChannelSet
  <2>3. e.tx = d.tx BY <1>1 DEF ChannelSet
  <2> HIDE DEF e
  <2> QED BY <2>1, <2>2, <2>3, AlikeKeeps, NothingCounted
<1>3. CASE ~(d.closing \/ ~Writable(d) \/ AllSent(d))
  <2>1. OnWriteTimeout(d) = FailWith(d) BY <1>3 DEF OnWriteTimeout
  <2> QED BY <2>1, FailIsGood DEF Good
<1> QED BY <1>2, <1>3

-----------------------------------------------------------------------------
(* open() *)

LEMMA StateIsSet ==
  ASSUME NEW d \in ChannelSet, NEW s \in States
  PROVE  /\ Tuned(d, SetState(d, s)) /\ SetState(d, s) \in ChannelSet
         /\ SetState(d, s).state = s /\ SetState(d, s).closing = d.closing
         /\ SetState(d, s).connectOn = d.connectOn /\ SetState(d, s).lingerOn = d.lingerOn
         /\ SetState(d, s).pending = d.pending /\ SetState(d, s).offset = d.offset
         /\ SetState(d, s).buf = d.buf /\ SetState(d, s).valid = d.valid
         /\ SetState(d, s).drop = d.drop
<1> DEFINE e == SetState(d, s)
<1>1. e = [d EXCEPT !.state = s] BY DEF SetState
<1>2. e \in ChannelSet BY <1>1 DEF ChannelSet
<1>3. /\ e.kind = d.kind /\ e.sock = d.sock /\ e.queue = d.queue /\ e.wire = d.wire
      /\ e.tx = d.tx /\ e.pending = d.pending /\ e.offset = d.offset /\ e.buf = d.buf
      /\ e.closing = d.closing /\ e.connectOn = d.connectOn /\ e.lingerOn = d.lingerOn
      /\ e.valid = d.valid /\ e.drop = d.drop /\ e.state = s
  BY <1>1 DEF ChannelSet
<1> HIDE DEF e
<1> QED BY <1>2, <1>3 DEF Tuned, e

LEMMA WritesAreReset ==
  ASSUME NEW d \in ChannelSet
  PROVE  /\ Tuned(d, ResetWriteState(d)) /\ ResetWriteState(d) \in ChannelSet
         /\ ResetWriteState(d).pending = <<>> /\ ResetWriteState(d).offset = 0
         /\ ResetWriteState(d).state = d.state /\ ResetWriteState(d).closing = d.closing
         /\ ResetWriteState(d).connectOn = d.connectOn /\ ResetWriteState(d).lingerOn = d.lingerOn
         /\ ResetWriteState(d).valid = d.valid /\ ResetWriteState(d).drop = d.drop
<1> DEFINE e == ResetWriteState(d)
<1>1. e = [d EXCEPT !.pending = <<>>, !.offset = 0] BY DEF ResetWriteState
<1>2. 0 \in 0..FrameSize BY DEF FrameSize
<1>3. e \in ChannelSet BY <1>1, <1>2, NothingIsSeq DEF ChannelSet
<1>4. /\ e.kind = d.kind /\ e.sock = d.sock /\ e.queue = d.queue /\ e.wire = d.wire
      /\ e.tx = d.tx /\ e.pending = <<>> /\ e.offset = 0
      /\ e.closing = d.closing /\ e.connectOn = d.connectOn /\ e.lingerOn = d.lingerOn
      /\ e.valid = d.valid /\ e.drop = d.drop /\ e.state = d.state
  BY <1>1 DEF ChannelSet
<1> HIDE DEF e
<1> QED BY <1>3, <1>4 DEF Tuned, e

LEMMA TunesCompose ==
  ASSUME NEW d, NEW e, NEW f, Tuned(d, e), Tuned(e, f)
  PROVE  Tuned(d, f)
BY DEF Tuned

\* What tunes a channel is good when its state agrees again.
LEMMA TunedIsGood ==
  ASSUME NEW d, NEW e, Held(d), Tuned(d, e), Base(e), ClosingIsMet(e),
         d.kind = "serial" => e.connectOn = FALSE /\ e.lingerOn = FALSE,
         d.kind # "tcp" => e.closing = FALSE
  PROVE  Good(e) /\ Sent(d, e)
<1>1. Held(e) BY TunedKeeps
<1>2. Sent(d, e) BY NothingCounted DEF Tuned
<1> QED BY <1>1, <1>2 DEF Good

\* ... and when it then flushes what it writes.
LEMMA TunedFlushIsGood ==
  ASSUME NEW d, NEW e, Held(d), Tuned(d, e), Base(e), ClosingIsMet(e),
         d.kind = "serial" => e.connectOn = FALSE /\ e.lingerOn = FALSE,
         d.kind # "tcp" => e.closing = FALSE, NEW k \in Takes
  PROVE  Good(FlushPendingWrites(e, k)) /\ Sent(d, FlushPendingWrites(e, k))
<1> DEFINE f == FlushPendingWrites(e, k)
<1>1. Good(e) BY TunedIsGood
<1>2. Good(f) BY <1>1, FlushIsGood
<1>3. f.tx = e.tx /\ e.tx = d.tx BY <1>1, FlushKeeps DEF Good, Held, Tuned
<1> HIDE DEF f
<1>4. Sent(d, f) BY <1>3, NothingCounted
<1> QED BY <1>2, <1>4 DEF f

\* TcpChannel::open() of a new connection: what is left is the device's new attempt.
LEMMA OpenTcpIsGood ==
  ASSUME NEW d, Good(d), d.kind = "tcp", NEW k \in Takes
  PROVE  Good(OpenTcp(d, k)) /\ Sent(d, OpenTcp(d, k))
<1> DEFINE e == [d EXCEPT !.connectOn = FALSE, !.lingerOn = FALSE]
           u == [e EXCEPT !.drop = TRUE]
           v == [e EXCEPT !.closing = FALSE]
<1>1. d \in ChannelSet /\ Held(d) /\ Base(d) /\ ClosingIsMet(d) /\ Device(d)
  BY DEF Good, Held
<1>2. e \in ChannelSet /\ Tuned(d, e) /\ e.state = d.state /\ e.closing = d.closing
      /\ e.valid = d.valid
  BY <1>1 DEF Tuned, ChannelSet
<1> HIDE DEF e
<1>3. u \in ChannelSet /\ Tuned(e, u) /\ u.state = e.state /\ u.closing = e.closing
  BY <1>2 DEF Tuned, ChannelSet
<1>4. v \in ChannelSet /\ Tuned(e, v) /\ v.state = e.state /\ v.closing = FALSE /\ v.valid = e.valid
  BY <1>2 DEF Tuned, ChannelSet
<1>5. Tuned(d, u) /\ Tuned(d, v) BY <1>2, <1>3, <1>4, TunesCompose
<1> HIDE DEF u, v
<1>6. CASE d.sock = "Connected"
  <2> DEFINE g == SetState(u, "Open")
  <2>1. OpenTcp(d, k) = FlushPendingWrites(g, k) BY <1>6 DEF OpenTcp, e, u
  <2>2. Tuned(d, g) /\ g.state = "Open" /\ g.closing = d.closing
    BY <1>2, <1>3, <1>5, StateIsSet, TunesCompose DEF States
  <2> HIDE DEF g
  <2>3. Base(g) BY <1>6, <2>2 DEF Base, Tuned
  <2>4. ClosingIsMet(g) BY <1>1, <2>2 DEF ClosingIsMet, Tuned
  <2> QED BY <1>1, <2>1, <2>2, <2>3, <2>4, TunedFlushIsGood
<1>7. CASE d.sock = "Connecting"
  <2> DEFINE g == SetState(u, "Opening")
  <2>1. OpenTcp(d, k) = g BY <1>7 DEF OpenTcp, e, u
  <2>2. Tuned(d, g) /\ g.state = "Opening" /\ g.closing = d.closing
    BY <1>2, <1>3, <1>5, StateIsSet, TunesCompose DEF States
  <2> HIDE DEF g
  <2>3. Base(g) BY <1>7, <2>2 DEF Base, Tuned
  <2>4. ClosingIsMet(g) BY <1>1, <2>2 DEF ClosingIsMet, Tuned
  <2> QED BY <1>1, <2>1, <2>2, <2>3, <2>4, TunedIsGood
<1>8. CASE d.sock # "Connected" /\ d.sock # "Connecting"
  <2> DEFINE f == ResetWriteState(v)
             g == SetState(f, "Opening")
             h == [g EXCEPT !.drop = TRUE, !.connectOn = TRUE]
             a == Abort(h)
             b == Become(a, "Connecting")
  <2>1. OpenTcp(d, k) = IF ~d.valid THEN SetState(f, "Error") ELSE b
    BY <1>8 DEF OpenTcp, e, v
  <2>2. f \in ChannelSet /\ Tuned(d, f) /\ f.pending = <<>> /\ f.offset = 0 /\ f.closing = FALSE
    BY <1>4, <1>5, WritesAreReset, TunesCompose
  <2> HIDE DEF f
  <2>3. CASE ~d.valid
    <3> DEFINE z == SetState(f, "Error")
    <3>1. Tuned(d, z) /\ z.state = "Error" /\ z.closing = FALSE
      BY <2>2, StateIsSet, TunesCompose DEF States
    <3>2. OpenTcp(d, k) = z BY <2>1, <2>3
    <3> HIDE DEF z
    <3>3. Base(z) BY <3>1 DEF Base
    <3>4. ClosingIsMet(z) BY <3>1 DEF ClosingIsMet
    <3> QED BY <1>1, <3>1, <3>2, <3>3, <3>4, TunedIsGood
  <2>4. CASE d.valid
    <3>1. g \in ChannelSet /\ Tuned(d, g) /\ g.pending = <<>> /\ g.offset = 0 /\ g.closing = FALSE
      BY <2>2, StateIsSet, TunesCompose DEF States
    <3> HIDE DEF g
    <3>2. /\ h \in ChannelSet /\ h.pending = <<>> /\ h.offset = 0 /\ h.closing = FALSE
          /\ h.kind = g.kind /\ h.sock = g.sock /\ h.queue = g.queue /\ h.tx = g.tx
      BY <3>1 DEF ChannelSet
    <3>3. h.kind = "tcp" /\ h.sock = d.sock /\ h.queue = d.queue /\ h.tx = d.tx
      BY <3>1, <3>2 DEF Tuned
    <3> HIDE DEF h
    <3>4. Moved(h, a) BY <1>1, <3>2, <3>3, AbortMoves DEF Device
    <3>5. a \in ChannelSet BY <3>4 DEF Moved
    <3> HIDE DEF a
    <3>6. Moved(a, b) /\ b.sock = "Connecting" /\ HasState(b.queue)
      BY <3>5, BecomeMoves DEF Socks
    <3> HIDE DEF b
    <3>7. Moved(h, b) BY <3>4, <3>6, MovesCompose
    <3>8. b.pending = <<>> /\ b.offset = 0 /\ b.closing = FALSE /\ b.kind = "tcp" /\ b.tx = d.tx
      BY <3>2, <3>3, <3>7 DEF Moved
    <3>9. OnWire(b) BY <3>8 DEF OnWire
    <3>10. Device(b) BY <3>7, <3>8 DEF Device, Moved
    <3>11. Good(b) BY <3>6, <3>7, <3>8, <3>9, <3>10 DEF Good, Held, Base, ClosingIsMet, Moved
    <3>12. Sent(d, b) BY <3>8, NothingCounted
    <3> QED BY <2>1, <2>4, <3>11, <3>12
  <2> QED BY <1>1, <2>3, <2>4 DEF ChannelSet
<1> QED BY <1>6, <1>7, <1>8

LEMMA SilentIsFaithful ==
  ASSUME NEW q, NEW s, ~HasState(q), ~HasConnected(q)
  PROVE  Faithful(q, s)
BY DEF Faithful, LastIs, ConnectedIsTrue, HasState, HasConnected

\* A serial port is open or not, and nothing queued says so.
LEMMA OpenSerialIsGood ==
  ASSUME NEW d, Good(d), d.kind = "serial", NEW ok \in BOOLEAN, NEW k \in Takes
  PROVE  Good(OpenSerial(d, ok, k)) /\ Sent(d, OpenSerial(d, ok, k))
<1>1. /\ d \in ChannelSet /\ Held(d) /\ Device(d) /\ d.closing = FALSE
      /\ d.connectOn = FALSE /\ d.lingerOn = FALSE
  BY DEF Good, Held, Device
<1>2. CASE d.sock = "Connected"
  <2> DEFINE g == SetState(d, "Open")
  <2>1. OpenSerial(d, ok, k) = FlushPendingWrites(g, k) BY <1>2 DEF OpenSerial
  <2>2. /\ Tuned(d, g) /\ g.state = "Open" /\ g.closing = FALSE /\ g.connectOn = FALSE
        /\ g.lingerOn = FALSE
    BY <1>1, StateIsSet DEF States
  <2> HIDE DEF g
  <2>3. Base(g) BY <1>2, <2>2 DEF Base, Tuned
  <2>4. ClosingIsMet(g) BY <2>2 DEF ClosingIsMet
  <2> QED BY <1>1, <2>1, <2>2, <2>3, <2>4, TunedFlushIsGood
<1>3. CASE d.sock # "Connected"
  <2> DEFINE v == [d EXCEPT !.closing = FALSE]
             e == ResetWriteState(v)
             o == [e EXCEPT !.sock = "Connected"]
             g == SetState(o, "Open")
             z == SetState(e, "Error")
  <2>1. OpenSerial(d, ok, k) = IF ok THEN g ELSE z BY <1>3 DEF OpenSerial
  <2>2. /\ v \in ChannelSet /\ Tuned(d, v) /\ v.closing = FALSE /\ v.connectOn = FALSE
        /\ v.lingerOn = FALSE
    BY <1>1 DEF Tuned, ChannelSet
  <2> HIDE DEF v
  <2>3. /\ e \in ChannelSet /\ Tuned(d, e) /\ e.closing = FALSE /\ e.connectOn = FALSE
        /\ e.lingerOn = FALSE /\ e.pending = <<>> /\ e.offset = 0
    BY <2>2, WritesAreReset, TunesCompose
  <2> HIDE DEF e
  <2>4. CASE ~ok
    <3>1. /\ Tuned(d, z) /\ z.state = "Error" /\ z.closing = FALSE /\ z.connectOn = FALSE
          /\ z.lingerOn = FALSE
      BY <2>3, StateIsSet, TunesCompose DEF States
    <3> HIDE DEF z
    <3>2. Base(z) /\ ClosingIsMet(z) BY <3>1 DEF Base, ClosingIsMet
    <3> QED BY <1>1, <2>1, <2>4, <3>1, <3>2, TunedIsGood
  <2>5. CASE ok
    <3>1. /\ o \in ChannelSet /\ o.sock = "Connected" /\ o.kind = e.kind /\ o.queue = e.queue
          /\ o.closing = FALSE /\ o.connectOn = FALSE /\ o.lingerOn = FALSE
          /\ o.pending = <<>> /\ o.offset = 0 /\ o.tx = e.tx
      BY <2>3 DEF ChannelSet, Socks
    <3> HIDE DEF o
    <3>2. /\ g \in ChannelSet /\ g.sock = "Connected" /\ g.kind = "serial" /\ g.queue = d.queue
          /\ g.closing = FALSE /\ g.connectOn = FALSE /\ g.lingerOn = FALSE
          /\ g.pending = <<>> /\ g.offset = 0 /\ g.tx = d.tx /\ g.state = "Open"
      BY <2>3, <3>1, StateIsSet DEF States, Tuned
    <3> HIDE DEF g
    <3>3. Faithful(g.queue, "Connected") BY <1>1, <3>2, SilentIsFaithful DEF Device
    <3>4. Device(g) BY <1>1, <3>2, <3>3 DEF Device
    <3>5. OnWire(g) BY <3>2 DEF OnWire
    <3>6. Base(g) /\ ClosingIsMet(g) BY <3>2 DEF Base, ClosingIsMet
    <3>7. Sent(d, g) BY <3>2, NothingCounted
    <3> QED BY <2>1, <2>5, <3>2, <3>4, <3>5, <3>6, <3>7 DEF Good, Held
  <2> QED BY <2>4, <2>5
<1> QED BY <1>2, <1>3

LEMMA OpenUdpIsGood ==
  ASSUME NEW d, Good(d), d.kind = "udp", NEW ok \in BOOLEAN
  PROVE  Good(OpenUdp(d, ok)) /\ Sent(d, OpenUdp(d, ok))
<1>1. /\ d \in ChannelSet /\ Held(d) /\ Device(d) /\ d.closing = FALSE /\ OnWire(d)
      /\ d.sock \in {"Unconnected", "Connected"}
  BY DEF Good, Held, Device
<1>2. CASE d.sock = "Connected"
  <2> DEFINE g == SetState(d, "Open")
  <2>1. OpenUdp(d, ok) = g BY <1>2 DEF OpenUdp
  <2>2. Tuned(d, g) /\ g.state = "Open" /\ g.closing = FALSE BY <1>1, StateIsSet DEF States
  <2> HIDE DEF g
  <2>3. Base(g) BY <1>2, <2>2 DEF Base, Tuned
  <2>4. ClosingIsMet(g) BY <2>2 DEF ClosingIsMet
  <2> QED BY <1>1, <2>1, <2>2, <2>3, <2>4, TunedIsGood
<1>3. CASE d.sock # "Connected" /\ ~ok
  <2> DEFINE g == SetState(d, "Opening")
  <2>1. OpenUdp(d, ok) = g BY <1>3 DEF OpenUdp
  <2>2. Tuned(d, g) /\ g.state = "Opening" /\ g.closing = FALSE BY <1>1, StateIsSet DEF States
  <2> HIDE DEF g
  <2>3. Base(g) BY <1>3, <2>2 DEF Base, Tuned
  <2>4. ClosingIsMet(g) BY <2>2 DEF ClosingIsMet
  <2> QED BY <1>1, <2>1, <2>2, <2>3, <2>4, TunedIsGood
<1>4. CASE d.sock # "Connected" /\ ok
  <2> DEFINE e == Become(d, "Connected")
             g == SetState(e, "Open")
  <2>1. OpenUdp(d, ok) = g BY <1>4 DEF OpenUdp
  <2>2. Moved(d, e) /\ e.sock = "Connected" /\ HasState(e.queue) BY <1>1, BecomeMoves DEF Socks
  <2> HIDE DEF e
  <2>3. /\ e \in ChannelSet /\ e.kind = "udp" /\ e.pending = <<>> /\ e.offset = 0
        /\ e.closing = FALSE /\ e.tx = d.tx /\ Faithful(e.queue, e.sock)
    BY <1>1, <2>2 DEF Moved, OnWire
  <2>4. Held(e) BY <2>2, <2>3 DEF Held, Device, OnWire
  <2>5. Tuned(e, g) /\ g.closing = FALSE BY <2>3, StateIsSet DEF States
  <2> HIDE DEF g
  <2>6. Base(g) /\ ClosingIsMet(g) BY <2>2, <2>5 DEF Base, ClosingIsMet, Tuned
  <2>7. Good(g) BY <2>3, <2>4, <2>5, <2>6, TunedIsGood
  <2>8. Sent(d, g) BY <2>3, <2>5, NothingCounted DEF Tuned
  <2> QED BY <2>1, <2>7, <2>8
<1> QED BY <1>2, <1>3, <1>4

-----------------------------------------------------------------------------
(* close() *)

LEMMA ClosedIsSet ==
  ASSUME NEW d \in ChannelSet
  PROVE  /\ Tuned(d, Closed(d)) /\ Closed(d).state = "Closed" /\ Closed(d).closing = FALSE
         /\ Closed(d).connectOn = d.connectOn /\ Closed(d).lingerOn = d.lingerOn
<1> DEFINE e == [d EXCEPT !.closing = FALSE]
<1>1. /\ e \in ChannelSet /\ Tuned(d, e) /\ e.closing = FALSE /\ e.connectOn = d.connectOn
      /\ e.lingerOn = d.lingerOn
  BY DEF Tuned, ChannelSet
<1>2. Closed(d) = SetState(e, "Closed") BY DEF Closed
<1> HIDE DEF e
<1> QED BY <1>1, <1>2, StateIsSet, TunesCompose DEF States

\* A device that is off is closed, whatever it was.
LEMMA ClosedIsGood ==
  ASSUME NEW d, Held(d), d.sock = "Unconnected"
  PROVE  Good(Closed(d)) /\ Sent(d, Closed(d))
<1> DEFINE e == Closed(d)
<1>1. d \in ChannelSet /\ Device(d) BY DEF Held
<1>2. /\ Tuned(d, e) /\ e.state = "Closed" /\ e.closing = FALSE /\ e.connectOn = d.connectOn
      /\ e.lingerOn = d.lingerOn
  BY <1>1, ClosedIsSet
<1> HIDE DEF e
<1>3. Base(e) /\ ClosingIsMet(e) BY <1>2 DEF Base, ClosingIsMet, Tuned
<1>4. d.kind = "serial" => e.connectOn = FALSE /\ e.lingerOn = FALSE
  BY <1>1, <1>2 DEF Device
<1>5. Good(e) /\ Sent(d, e) BY <1>2, <1>3, <1>4, TunedIsGood
<1> QED BY <1>5 DEF e

\* TcpChannel::close(): no connection is left, or the socket is about to end it.
LEMMA CloseTcpIsGood ==
  ASSUME NEW d, Good(d), d.kind = "tcp"
  PROVE  Good(CloseTcp(d)) /\ Sent(d, CloseTcp(d))
<1> DEFINE r == ResetWriteState(d)
           t == SetState(r, "Closing")
           u == [t EXCEPT !.writeOn = FALSE, !.connectOn = FALSE]
           e == [u EXCEPT !.drop = FALSE, !.closing = TRUE]
           f == IF d.sock \in {"Connected", "Connecting"} THEN DisconnectFromHost(e) ELSE e
           g == [f EXCEPT !.lingerOn = TRUE]
<1>1. d \in ChannelSet /\ Held(d) /\ Device(d) BY DEF Good, Held
<1>2. CloseTcp(d) = IF f.sock = "Unconnected" THEN Closed(f) ELSE g
  BY <1>1, WritesAreReset, StateIsSet DEF CloseTcp, States
<1>3. r \in ChannelSet /\ Tuned(d, r) /\ r.pending = <<>> /\ r.offset = 0
  BY <1>1, WritesAreReset
<1> HIDE DEF r
<1>4. /\ t \in ChannelSet /\ Tuned(d, t) /\ t.pending = <<>> /\ t.offset = 0
      /\ t.state = "Closing"
  BY <1>3, StateIsSet, TunesCompose DEF States
<1> HIDE DEF t
<1>5. u \in ChannelSet /\ Tuned(t, u) /\ u.pending = <<>> /\ u.offset = 0 /\ u.state = "Closing"
  BY <1>4 DEF Tuned, ChannelSet
<1> HIDE DEF u
<1>6. e \in ChannelSet /\ Tuned(u, e) /\ e.pending = <<>> /\ e.offset = 0 /\ e.state = "Closing"
  BY <1>5 DEF Tuned, ChannelSet
<1> HIDE DEF e
<1>7. Tuned(d, e) BY <1>4, <1>5, <1>6, TunesCompose
<1>8. Held(e) BY <1>1, <1>7, TunedKeeps
<1>9. Held(f) /\ f.sock # "Connected" /\ f.state = "Closing" /\ f.kind = "tcp" /\ f.tx = d.tx
  <2>1. e.kind = "tcp" /\ e.sock = d.sock /\ e.tx = d.tx BY <1>7 DEF Tuned
  <2>2. CASE d.sock \in {"Connected", "Connecting"}
    <3> DEFINE h == DisconnectFromHost(e)
    <3>1. Moved(e, h) /\ h.sock # "Connected" /\ (h.sock = "Connecting" => e.sock = "Connecting")
      BY <1>6, <1>8, DisconnectMoves DEF Held, Device
    <3>2. f = h BY <2>2
    <3> HIDE DEF h, f
    <3>3. Held(h) BY <1>8, <2>1, <3>1, MovedKeeps
    <3> QED BY <1>6, <2>1, <3>1, <3>2, <3>3 DEF Moved
  <2>3. CASE d.sock \notin {"Connected", "Connecting"}
    BY <1>6, <1>8, <2>1, <2>3
  <2> QED BY <2>2, <2>3
<1> HIDE DEF f
<1>10. CASE f.sock = "Unconnected"
  <2>1. Good(Closed(f)) BY <1>9, <1>10, ClosedIsGood
  <2>2. Closed(f).tx = f.tx BY <1>9, ClosedIsSet DEF Held, Tuned
  <2>3. Sent(d, Closed(f)) BY <1>9, <2>2, NothingCounted
  <2> QED BY <1>2, <1>10, <2>1, <2>3
<1>11. CASE f.sock # "Unconnected"
  <2>1. Tuned(f, g) /\ g.state = "Closing" BY <1>9 DEF Held, Tuned, ChannelSet
  <2> HIDE DEF g
  <2>2. Base(g) BY <1>9, <1>11, <2>1 DEF Base, Tuned
  <2>3. ClosingIsMet(g) BY <1>9, <2>1 DEF ClosingIsMet, Tuned
  <2>4. Good(g) BY <1>9, <2>1, <2>2, <2>3, TunedIsGood
  <2>5. Sent(d, g) BY <1>9, <2>1, NothingCounted DEF Tuned
  <2> QED BY <1>2, <1>11, <2>4, <2>5
<1> QED BY <1>10, <1>11

LEMMA CloseSerialIsGood ==
  ASSUME NEW d, Good(d), d.kind = "serial"
  PROVE  Good(CloseSerial(d)) /\ Sent(d, CloseSerial(d))
<1> DEFINE r == ResetWriteState(d)
           e == [r EXCEPT !.writeOn = FALSE, !.sock = "Unconnected", !.buf = <<>>]
<1>1. d \in ChannelSet /\ Held(d) /\ Device(d) BY DEF Good, Held
<1>2. CloseSerial(d) = Closed(e) BY DEF CloseSerial
<1>3. /\ r \in ChannelSet /\ Tuned(d, r) /\ r.pending = <<>> /\ r.offset = 0
      /\ r.closing = d.closing /\ r.connectOn = d.connectOn /\ r.lingerOn = d.lingerOn
  BY <1>1, WritesAreReset
<1> HIDE DEF r
<1>4. e \in ChannelSet
  <2>1. [r EXCEPT !.writeOn = FALSE, !.sock = "Unconnected"] \in ChannelSet
    BY <1>3 DEF ChannelSet, Socks
  <2> QED BY ZenonT(40), <1>3, <2>1, NothingIsSeq DEF ChannelSet
<1>5. /\ e.kind = r.kind /\ e.queue = r.queue /\ e.sock = "Unconnected" /\ e.tx = r.tx
      /\ e.pending = <<>> /\ e.offset = 0 /\ e.closing = r.closing
      /\ e.connectOn = r.connectOn /\ e.lingerOn = r.lingerOn
  BY <1>3 DEF ChannelSet
<1> HIDE DEF e
<1>6. e.kind = "serial" /\ e.queue = d.queue /\ e.tx = d.tx BY <1>3, <1>5 DEF Tuned
<1>7. Faithful(e.queue, e.sock) BY <1>1, <1>6, SilentIsFaithful DEF Device
<1>8. Device(e) BY <1>1, <1>3, <1>5, <1>6, <1>7 DEF Device
<1>9. Held(e) BY <1>4, <1>5, <1>8 DEF Held, OnWire
<1>10. Good(Closed(e)) BY <1>5, <1>9, ClosedIsGood
<1>11. Closed(e).tx = e.tx BY <1>4, ClosedIsSet DEF Tuned
<1>12. Sent(d, Closed(e)) BY <1>6, <1>11, NothingCounted
<1> QED BY <1>2, <1>10, <1>12

LEMMA CloseUdpIsGood ==
  ASSUME NEW d, Good(d), d.kind = "udp"
  PROVE  Good(CloseUdp(d)) /\ Sent(d, CloseUdp(d))
<1>1. d \in ChannelSet /\ Held(d) BY DEF Good, Held
<1>2. CASE d.sock = "Unconnected"
  <2>1. CloseUdp(d) = Closed(d) BY <1>2 DEF CloseUdp
  <2> QED BY <1>1, <1>2, <2>1, ClosedIsGood
<1>3. CASE d.sock # "Unconnected"
  <2> DEFINE e == Become(d, "Closing")
             f == Become(e, "Unconnected")
  <2>1. CloseUdp(d) = Closed(f) BY <1>3 DEF CloseUdp
  <2>2. Moved(d, e) BY <1>1, BecomeMoves DEF Socks
  <2>3. e \in ChannelSet BY <2>2 DEF Moved
  <2> HIDE DEF e
  <2>4. Moved(e, f) /\ f.sock = "Unconnected" BY <2>3, BecomeMoves DEF Socks
  <2> HIDE DEF f
  <2>5. Moved(d, f) BY <2>2, <2>4, MovesCompose
  <2>6. Held(f) /\ f.tx = d.tx BY <1>1, <2>4, <2>5, MovedKeeps DEF Moved
  <2>7. Good(Closed(f)) BY <2>4, <2>6, ClosedIsGood
  <2>8. Closed(f).tx = f.tx BY <2>6, ClosedIsSet DEF Held, Tuned
  <2>9. Sent(d, Closed(f)) BY <2>6, <2>8, NothingCounted
  <2> QED BY <2>1, <2>7, <2>9
<1> QED BY <1>2, <1>3

-----------------------------------------------------------------------------
(* The slots; no stateChanged may be left behind the one that is handled, so it is the device *)

LEMMA ConnectedIsGood ==
  ASSUME NEW d, Held(d), Base(d), HasState(d.queue) \/ d.sock = "Connected", NEW k \in Takes
  PROVE  Good(OnConnected(d, k)) /\ Sent(d, OnConnected(d, k))
<1> DEFINE e == [d EXCEPT !.connectOn = FALSE, !.closing = FALSE, !.drop = TRUE]
           g == SetState(e, "Open")
<1>1. d \in ChannelSet /\ Device(d) BY DEF Held
<1>2. OnConnected(d, k) = FlushPendingWrites(g, k) BY DEF OnConnected
<1>3. /\ e \in ChannelSet /\ Tuned(d, e) /\ e.closing = FALSE /\ e.connectOn = FALSE
      /\ e.lingerOn = d.lingerOn
  BY <1>1 DEF Tuned, ChannelSet
<1> HIDE DEF e
<1>4. /\ Tuned(d, g) /\ g.state = "Open" /\ g.closing = FALSE /\ g.connectOn = FALSE
      /\ g.lingerOn = d.lingerOn
  BY <1>3, StateIsSet, TunesCompose DEF States
<1> HIDE DEF g
<1>5. Base(g) BY <1>4 DEF Base, Tuned
<1>6. ClosingIsMet(g) BY <1>4 DEF ClosingIsMet
<1>7. d.kind = "serial" => g.connectOn = FALSE /\ g.lingerOn = FALSE BY <1>1, <1>4 DEF Device
<1> QED BY <1>2, <1>4, <1>5, <1>6, <1>7, TunedFlushIsGood

LEMMA SocketErrorIsGood ==
  ASSUME NEW d, Good(d), d.kind = "tcp"
  PROVE  Good(OnSocketError(d)) /\ Sent(d, OnSocketError(d))
<1> DEFINE e == [d EXCEPT !.connectOn = FALSE]
           h == [e EXCEPT !.drop = FALSE]
<1>1. d \in ChannelSet /\ Held(d) /\ Base(d) /\ ClosingIsMet(d) BY DEF Good, Held
<1>2. OnSocketError(d) \in {e, FailWith(h)} BY DEF OnSocketError
<1>3. e \in ChannelSet /\ Tuned(d, e) /\ e.state = d.state /\ e.closing = d.closing
  BY <1>1 DEF Tuned, ChannelSet
<1> HIDE DEF e
<1>4. h \in ChannelSet /\ Tuned(e, h) /\ h.state = e.state /\ h.closing = e.closing
  BY <1>3 DEF Tuned, ChannelSet
<1> HIDE DEF h
<1>5. Tuned(d, h) /\ h.closing = d.closing BY <1>3, <1>4, TunesCompose
<1>6. Base(e) /\ ClosingIsMet(e) BY <1>1, <1>3 DEF Base, ClosingIsMet, Tuned
<1>7. Good(e) /\ Sent(d, e) BY <1>1, <1>3, <1>6, TunedIsGood
<1>8. Held(h) BY <1>1, <1>5, TunedKeeps
<1>9. ClosingIsMet(h) BY <1>1, <1>5 DEF ClosingIsMet, Tuned
<1>10. Good(FailWith(h)) /\ Sent(h, FailWith(h)) BY <1>8, <1>9, FailIsGood
<1>11. Sent(d, FailWith(h)) BY <1>5, <1>10 DEF Sent, Tuned
<1> QED BY <1>2, <1>7, <1>10, <1>11

LEMMA SerialErrorIsGood ==
  ASSUME NEW d, Good(d)
  PROVE  Good(OnSerialError(d)) /\ Sent(d, OnSerialError(d))
<1>1. CASE d.closing
  <2>1. OnSerialError(d) = d BY <1>1 DEF OnSerialError
  <2> QED BY <2>1, NothingCounted
<1>2. CASE ~d.closing
  <2>1. OnSerialError(d) = FailWith(d) BY <1>2 DEF OnSerialError
  <2> QED BY <2>1, FailIsGood DEF Good
<1> QED BY <1>1, <1>2

\* The state that a handled stateChanged sets agrees with the device it is about.
LEMMA SetAgrees ==
  ASSUME NEW d, Held(d), ClosingIsMet(d), NEW s \in States,
         \/ HasState(d.queue)
         \/ /\ s = "Open" => d.sock = "Connected"
            /\ d.sock = "Connected" => s = "Open"
            /\ d.sock = "Unconnected" /\ d.kind # "udp" => s = "Closed"
  PROVE  Good(SetState(d, s)) /\ Sent(d, SetState(d, s))
<1> DEFINE g == SetState(d, s)
<1>1. d \in ChannelSet /\ Device(d) BY DEF Held
<1>2. /\ Tuned(d, g) /\ g.state = s /\ g.closing = d.closing /\ g.connectOn = d.connectOn
      /\ g.lingerOn = d.lingerOn
  BY <1>1, StateIsSet
<1> HIDE DEF g
<1>3. Base(g) BY <1>2 DEF Base, Tuned
<1>4. ClosingIsMet(g) BY <1>2 DEF ClosingIsMet, Tuned
<1>5. Good(g) /\ Sent(d, g) BY <1>1, <1>2, <1>3, <1>4, TunedIsGood DEF Device
<1> QED BY <1>5 DEF g

LEMMA StateChangedIsGood ==
  ASSUME NEW d, Held(d), ClosingIsMet(d), d.kind = "tcp", NEW s \in Socks,
         HasState(d.queue) \/ s = d.sock, NEW k \in Takes
  PROVE  Good(OnStateChanged(d, s, k)) /\ Sent(d, OnStateChanged(d, s, k))
<1>1. d \in ChannelSet /\ Device(d) BY DEF Held
<1>2. CASE d.state = "Error"
  <2>1. OnStateChanged(d, s, k) = d BY <1>2 DEF OnStateChanged
  <2>2. Base(d) BY <1>2 DEF Base
  <2> QED BY <2>1, <2>2, NothingCounted DEF Good
<1>3. CASE d.state # "Error" /\ s = "Connected"
  <2> DEFINE g == SetState(d, "Open")
  <2>1. OnStateChanged(d, s, k) = FlushPendingWrites(g, k) BY <1>3 DEF OnStateChanged
  <2>2. Good(g) BY <1>3, SetAgrees DEF States
  <2>3. g.tx = d.tx BY <1>1, StateIsSet DEF States, Tuned
  <2> HIDE DEF g
  <2>4. Good(FlushPendingWrites(g, k)) /\ Sent(g, FlushPendingWrites(g, k)) BY <2>2, FlushIsGood
  <2>5. Sent(d, FlushPendingWrites(g, k)) BY <2>3, <2>4 DEF Sent
  <2> QED BY <2>1, <2>4, <2>5
<1>4. CASE d.state # "Error" /\ s = "Unconnected"
  <2> DEFINE r == ResetWriteState(d)
             e == [r EXCEPT !.writeOn = FALSE, !.lingerOn = FALSE]
             f == Abort(e)
  <2>1. OnStateChanged(d, s, k) = Closed(f) BY <1>4 DEF OnStateChanged
  <2>2. r \in ChannelSet /\ Tuned(d, r) /\ r.pending = <<>> /\ r.offset = 0
    BY <1>1, WritesAreReset
  <2> HIDE DEF r
  <2>3. e \in ChannelSet /\ Tuned(r, e) BY <2>2 DEF Tuned, ChannelSet
  <2> HIDE DEF e
  <2>4. Tuned(d, e) BY <2>2, <2>3, TunesCompose
  <2>5. Held(e) /\ e.kind = "tcp" /\ e.tx = d.tx BY <2>4, TunedKeeps DEF Tuned
  <2>6. Moved(e, f) /\ f.sock = "Unconnected" BY <2>3, <2>5, AbortMoves DEF Held, Device
  <2> HIDE DEF f
  <2>7. Held(f) /\ f.tx = d.tx BY <2>5, <2>6, MovedKeeps DEF Moved
  <2>8. Good(Closed(f)) BY <2>6, <2>7, ClosedIsGood
  <2>9. Closed(f).tx = f.tx BY <2>7, ClosedIsSet DEF Held, Tuned
  <2>10. Sent(d, Closed(f)) BY <2>7, <2>9, NothingCounted
  <2> QED BY <2>1, <2>8, <2>10
<1>5. CASE d.state # "Error" /\ s = "Connecting"
  <2>1. OnStateChanged(d, s, k) = SetState(d, "Opening") BY <1>5 DEF OnStateChanged
  <2> QED BY <1>5, <2>1, SetAgrees DEF States
<1>6. CASE d.state # "Error" /\ s = "Closing"
  <2>1. OnStateChanged(d, s, k) = SetState(d, "Closing") BY <1>6 DEF OnStateChanged
  <2> QED BY <1>6, <2>1, SetAgrees DEF States
<1> QED BY <1>2, <1>3, <1>4, <1>5, <1>6 DEF Socks

LEMMA UdpStateChangedIsGood ==
  ASSUME NEW d, Held(d), ClosingIsMet(d), d.kind # "tcp", NEW s \in Socks,
         HasState(d.queue) \/ s = d.sock
  PROVE  Good(OnUdpStateChanged(d, s)) /\ Sent(d, OnUdpStateChanged(d, s))
<1>1. d.closing = FALSE /\ d.kind \in {"udp", "serial"} /\ d.sock \in {"Unconnected", "Connected"}
  BY DEF Held, Device, ChannelSet
<1>2. CASE s = "Unconnected"
  <2>1. OnUdpStateChanged(d, s) = SetState(d, "Closed") BY <1>1, <1>2 DEF OnUdpStateChanged
  <2> QED BY <1>2, <2>1, SetAgrees DEF States
<1>3. CASE s = "Connected"
  <2>1. OnUdpStateChanged(d, s) = SetState(d, "Open") BY <1>1, <1>3 DEF OnUdpStateChanged
  <2> QED BY <1>3, <2>1, SetAgrees DEF States
<1>4. CASE s # "Unconnected" /\ s # "Connected"
  <2>1. OnUdpStateChanged(d, s) = d BY <1>1, <1>4 DEF OnUdpStateChanged
  <2>2. Base(d) BY <1>1, <1>4 DEF Base
  <2> QED BY <2>1, <2>2, NothingCounted DEF Good
<1> QED BY <1>2, <1>3, <1>4

-----------------------------------------------------------------------------
(* The thread *)

\* Whatever was queued, its handler finds the channel good but for what the event said.
LEMMA EventIsHandled ==
  ASSUME NEW d, Good(d), d.queue # <<>>, NEW ok \in BOOLEAN, NEW k \in Takes, NEW e,
         e = Handle([d EXCEPT !.queue = Tail(@)], Head(d.queue), ok, k)
  PROVE  Good(e) /\ Sent(d, e)
<1> DEFINE q == d.queue
           h == Head(q)
           t == [d EXCEPT !.queue = Tail(@)]
<1>1. d \in ChannelSet /\ Device(d) /\ OnWire(d) /\ Base(d) /\ ClosingIsMet(d)
  BY DEF Good, Held
<1>2. q \in Seq(EventSet) /\ Faithful(q, d.sock) BY <1>1 DEF ChannelSet, Device
<1>3. /\ Tail(q) \in Seq(EventSet) /\ h \in EventSet /\ Faithful(Tail(q), d.sock)
      /\ HasState(Tail(q)) => HasState(q)
      /\ HasConnected(Tail(q)) => HasConnected(q)
      /\ h.kind # "stateChanged" /\ HasState(q) => HasState(Tail(q))
      /\ h.kind = "stateChanged" => HasState(Tail(q)) \/ h.sock = d.sock
      /\ h.kind # "connected" /\ HasConnected(q) => HasConnected(Tail(q))
      /\ h.kind = "connected" => HasState(Tail(q)) \/ d.sock = "Connected"
  BY <1>2, TakeEvent
<1>4. t \in ChannelSet BY <1>1, <1>3 DEF ChannelSet
<1>5. /\ t.kind = d.kind /\ t.state = d.state /\ t.closing = d.closing /\ t.pending = d.pending
      /\ t.offset = d.offset /\ t.connectOn = d.connectOn /\ t.lingerOn = d.lingerOn
      /\ t.tx = d.tx /\ t.sock = d.sock /\ t.buf = d.buf /\ t.wire = d.wire
      /\ t.writes = d.writes /\ t.queue = Tail(q)
  BY <1>1 DEF ChannelSet
<1>6. e = Handle(t, h, ok, k) OBVIOUS
<1>7. d.kind \in {"tcp", "serial", "udp"} BY <1>1 DEF ChannelSet
<1> HIDE DEF t, h, q
<1>8. Held(t)
  <2>1. Device(t) BY <1>1, <1>3, <1>5 DEF Device, q
  <2>2. OnWire(t) BY <1>1, <1>5 DEF OnWire
  <2> QED BY <1>4, <2>1, <2>2 DEF Held
<1>9. h.kind # "stateChanged" => Base(t) BY <1>1, <1>3, <1>5 DEF Base, q
<1>10. h.kind # "connected" => ClosingIsMet(t) BY <1>1, <1>3, <1>5 DEF ClosingIsMet, q
<1>11. Good(e) /\ Sent(t, e)
  <2>1. CASE h.kind = "stateChanged"
    <3>1. h.sock \in Socks BY <1>3, <2>1 DEF EventSet, Plain
    <3>2. ClosingIsMet(t) /\ (HasState(t.queue) \/ h.sock = t.sock)
      BY <1>3, <1>5, <1>10, <2>1
    <3>3. CASE t.kind = "tcp"
      <4>1. e = OnStateChanged(t, h.sock, k) BY <1>6, <2>1, <3>3 DEF Handle
      <4> QED BY <1>8, <3>1, <3>2, <3>3, <4>1, StateChangedIsGood
    <3>4. CASE t.kind # "tcp"
      <4>1. e = OnUdpStateChanged(t, h.sock) BY <1>6, <2>1, <3>4 DEF Handle
      <4> QED BY <1>8, <3>1, <3>2, <3>4, <4>1, UdpStateChangedIsGood
    <3> QED BY <3>3, <3>4
  <2>2. CASE h.kind = "connected"
    <3>1. Base(t) /\ (HasState(t.queue) \/ t.sock = "Connected") BY <1>3, <1>5, <1>9, <2>2
    <3>2. e = OnConnected(t, k) BY <1>6, <2>2 DEF Handle
    <3> QED BY <1>8, <3>1, <3>2, ConnectedIsGood
  <2>3. CASE h.kind \in Plain
    <3>1. Good(t) BY <1>8, <1>9, <1>10, <2>3 DEF Good, Plain
    <3>2. CASE h.kind = "open"
      <4>1. e = IF t.kind = "tcp" THEN OpenTcp(t, k)
                ELSE IF t.kind = "serial" THEN OpenSerial(t, ok, k) ELSE OpenUdp(t, ok)
        BY <1>6, <3>2 DEF Handle
      <4> QED BY <1>5, <1>7, <3>1, <4>1, OpenTcpIsGood, OpenSerialIsGood, OpenUdpIsGood
    <3>3. CASE h.kind = "close"
      <4>1. e = IF t.kind = "tcp" THEN CloseTcp(t)
                ELSE IF t.kind = "serial" THEN CloseSerial(t) ELSE CloseUdp(t)
        BY <1>6, <3>3 DEF Handle
      <4> QED BY <1>5, <1>7, <3>1, <4>1, CloseTcpIsGood, CloseSerialIsGood, CloseUdpIsGood
    <3>4. CASE h.kind = "write"
      <4> DEFINE w == [t EXCEPT !.writes = @ + 1]
      <4>1. e = Write(w, t.writes + 1, k) BY <1>6, <3>4 DEF Handle
      <4>2. Tuned(t, w) /\ Alike(t, w) /\ w.tx = t.tx /\ t.writes + 1 \in Nat
        <5>1. t.writes + 1 \in Nat BY <1>4 DEF ChannelSet
        <5>2. w \in ChannelSet BY <1>4, <5>1 DEF ChannelSet
        <5>3. /\ w.kind = t.kind /\ w.sock = t.sock /\ w.queue = t.queue /\ w.wire = t.wire
              /\ w.tx = t.tx /\ w.pending = t.pending /\ w.offset = t.offset /\ w.buf = t.buf
              /\ w.state = t.state /\ w.closing = t.closing /\ w.connectOn = t.connectOn
              /\ w.lingerOn = t.lingerOn
          BY <1>4 DEF ChannelSet
        <5> HIDE DEF w
        <5> QED BY <5>1, <5>2, <5>3 DEF Tuned, Alike
      <4> HIDE DEF w
      <4>3. Good(w) BY <3>1, <4>2, AlikeKeeps
      <4>4. Good(e) /\ Sent(w, e) BY <4>1, <4>2, <4>3, WriteIsGood
      <4> QED BY <4>2, <4>4 DEF Sent
    <3>5. CASE h.kind = "bytesWritten"
      <4>1. e = OnBytesWritten(t, k) BY <1>6, <3>5 DEF Handle
      <4> QED BY <3>1, <4>1, BytesWrittenIsGood
    <3>6. CASE h.kind = "writeTimeout"
      <4>1. e = OnWriteTimeout(t) BY <1>6, <3>6 DEF Handle
      <4> QED BY <3>1, <4>1, WriteTimeoutIsGood
    <3>7. CASE h.kind = "error"
      <4>1. e = IF t.kind = "tcp" THEN OnSocketError(t)
                ELSE IF t.kind = "serial" THEN OnSerialError(t) ELSE t
        BY <1>6, <3>7 DEF Handle
      <4> QED BY <3>1, <4>1, SocketErrorIsGood, SerialErrorIsGood, NothingCounted
    <3> QED BY <2>3, <3>2, <3>3, <3>4, <3>5, <3>6, <3>7 DEF Plain
  <2> QED BY <1>3, <2>1, <2>2, <2>3 DEF EventSet
<1>12. Sent(d, e) BY <1>5, <1>11 DEF Sent
<1> QED BY <1>11, <1>12

-----------------------------------------------------------------------------
(* Calls, timers and the network *)

\* An event that says nothing of the state joins the queue.
LEMMA SignalIsGood ==
  ASSUME NEW d, Good(d), NEW s \in Plain, NEW e, e = Post(d, <<Signal(s)>>)
  PROVE  Good(e) /\ e.tx = d.tx /\ e.sock = d.sock
<1> DEFINE q == d.queue \o <<Signal(s)>>
<1>1. d \in ChannelSet /\ Device(d) /\ OnWire(d) /\ Base(d) /\ ClosingIsMet(d)
  BY DEF Good, Held
<1>2. d.queue \in Seq(EventSet) /\ Faithful(d.queue, d.sock)
  BY <1>1 DEF ChannelSet, Device
<1>3. /\ q \in Seq(EventSet) /\ (HasState(q) <=> HasState(d.queue)) /\ Faithful(q, d.sock)
      /\ HasConnected(q) <=> HasConnected(d.queue)
  BY <1>2, PostPlain
<1>4. e = [d EXCEPT !.queue = q] BY DEF Post
<1> HIDE DEF q
<1>5. e \in ChannelSet BY <1>1, <1>3, <1>4 DEF ChannelSet
<1>6. /\ e.kind = d.kind /\ e.sock = d.sock /\ e.queue = q /\ e.wire = d.wire
      /\ e.tx = d.tx /\ e.pending = d.pending /\ e.offset = d.offset /\ e.buf = d.buf
      /\ e.state = d.state /\ e.closing = d.closing /\ e.connectOn = d.connectOn
      /\ e.lingerOn = d.lingerOn
  BY <1>1, <1>4 DEF ChannelSet
<1>7. Device(e) BY <1>1, <1>3, <1>6 DEF Device
<1>8. OnWire(e) BY <1>1, <1>6 DEF OnWire
<1>9. Base(e) /\ ClosingIsMet(e) BY <1>1, <1>3, <1>6 DEF Base, ClosingIsMet
<1> QED BY <1>5, <1>6, <1>7, <1>8, <1>9 DEF Good, Held

\* Fields no part of the invariant is about.
LEMMA AsideIsGood ==
  ASSUME NEW d, Good(d), NEW e \in ChannelSet,
         /\ e.kind = d.kind /\ e.sock = d.sock /\ e.queue = d.queue /\ e.wire = d.wire
         /\ e.tx = d.tx /\ e.pending = d.pending /\ e.offset = d.offset /\ e.buf = d.buf
         /\ e.state = d.state /\ e.closing = d.closing /\ e.connectOn = d.connectOn
         /\ e.lingerOn = d.lingerOn
  PROVE  Good(e)
BY AlikeKeeps DEF Tuned, Alike

LEMMA CallIsGood ==
  ASSUME Good(c), CallOpen \/ CallClose \/ CallWrite \/ WriteTimer
  PROVE  Good(c') /\ Sent(c, c')
<1>1. c \in ChannelSet BY DEF Good, Held
<1>2. CASE CallOpen
  <2> DEFINE d == [c EXCEPT !.calls = @ + 1]
  <2>1. c' = Post(d, <<Signal("open")>>) BY <1>2 DEF CallOpen
  <2>2. c.calls + 1 \in Nat BY <1>1 DEF ChannelSet
  <2>3. d \in ChannelSet BY <1>1, <2>2 DEF ChannelSet
  <2>4. Good(d) /\ d.tx = c.tx BY <1>1, <2>3, AsideIsGood DEF ChannelSet
  <2> HIDE DEF d
  <2> QED BY <2>1, <2>4, SignalIsGood, NothingCounted DEF Plain
<1>3. CASE CallClose
  <2> DEFINE d == [c EXCEPT !.calls = @ + 1, !.drop = FALSE]
  <2>1. c' = Post(d, <<Signal("close")>>) BY <1>3 DEF CallClose
  <2>2. c.calls + 1 \in Nat BY <1>1 DEF ChannelSet
  <2>3. d \in ChannelSet BY <1>1, <2>2 DEF ChannelSet
  <2>4. Good(d) /\ d.tx = c.tx BY ZenonT(40), <1>1, <2>3, AsideIsGood DEF ChannelSet
  <2> HIDE DEF d
  <2> QED BY <2>1, <2>4, SignalIsGood, NothingCounted DEF Plain
<1>4. CASE CallWrite
  <2>1. c' = Post(c, <<Signal("write")>>) BY <1>4 DEF CallWrite
  <2> QED BY <2>1, SignalIsGood, NothingCounted DEF Plain
<1>5. CASE WriteTimer
  <2> DEFINE d == [c EXCEPT !.writeOn = FALSE]
  <2>1. c' = Post(d, <<Signal("writeTimeout")>>) BY <1>5 DEF WriteTimer
  <2>2. d \in ChannelSet BY <1>1 DEF ChannelSet
  <2>3. Good(d) /\ d.tx = c.tx BY <1>1, <2>2, AsideIsGood DEF ChannelSet
  <2> HIDE DEF d
  <2> QED BY <2>1, <2>3, SignalIsGood, NothingCounted DEF Plain
<1> QED BY <1>2, <1>3, <1>4, <1>5

\* The connect and the linger timer abort, so what the state says is the device.
LEMMA TimerIsGood ==
  ASSUME Good(c), ConnectTimeout \/ LingerTimeout
  PROVE  Good(c') /\ Sent(c, c')
<1>1. c \in ChannelSet /\ Held(c) /\ Device(c) BY DEF Good, Held
<1>2. c.kind # "serial" BY <1>1 DEF Device, ConnectTimeout, LingerTimeout
<1>3. ASSUME NEW d \in ChannelSet, Tuned(c, d), d.closing = c.closing,
             d.connectOn = TRUE => c.connectOn = TRUE, d.lingerOn = TRUE => c.lingerOn = TRUE
      PROVE  LET f == Abort(d) IN
             /\ Held(f) /\ f.sock = "Unconnected" /\ f.tx = c.tx /\ f.kind # "serial"
             /\ ClosingIsMet(f)
  <2> DEFINE f == Abort(d)
  <2>1. Held(d) /\ d.kind # "serial" BY <1>1, <1>2, <1>3, TunedKeeps DEF Device, Tuned
  <2>2. Moved(d, f) /\ f.sock = "Unconnected" BY <1>3, <2>1, AbortMoves DEF Held, Device
  <2> HIDE DEF f
  <2>3. Held(f) /\ ClosingIsMet(f) BY <2>1, <2>2, MovedKeeps
  <2>4. f.tx = c.tx /\ f.kind # "serial" BY <1>3, <2>1, <2>2 DEF Moved, Tuned
  <2> QED BY <2>2, <2>3, <2>4 DEF f
<1>4. CASE ConnectTimeout
  <2> DEFINE d == [c EXCEPT !.connectOn = FALSE, !.drop = FALSE]
             f == Abort(d)
             g == SetState(f, "Error")
  <2>1. c' = g BY <1>4 DEF ConnectTimeout
  <2>2. /\ d \in ChannelSet /\ Tuned(c, d) /\ d.closing = c.closing /\ d.connectOn = FALSE
        /\ d.lingerOn = c.lingerOn
    BY <1>1 DEF Tuned, ChannelSet
  <2> HIDE DEF d
  <2>3. Held(f) /\ f.tx = c.tx /\ f.kind # "serial" /\ ClosingIsMet(f) BY <1>3, <2>2
  <2> HIDE DEF f
  <2>4. Tuned(f, g) /\ g.state = "Error" /\ g.closing = f.closing
    BY <2>3, StateIsSet DEF Held, States
  <2> HIDE DEF g
  <2>5. Base(g) BY <2>4 DEF Base
  <2>6. ClosingIsMet(g) BY <2>3, <2>4 DEF ClosingIsMet, Tuned
  <2>7. Good(g) BY <2>3, <2>4, <2>5, <2>6, TunedIsGood DEF Held, Device
  <2>8. Sent(c, g) BY <2>3, <2>4, NothingCounted DEF Tuned
  <2> QED BY <2>1, <2>7, <2>8
<1>5. CASE LingerTimeout
  <2> DEFINE d == [c EXCEPT !.lingerOn = FALSE, !.drop = FALSE]
             f == Abort(d)
  <2>1. c' = Closed(f) BY <1>5 DEF LingerTimeout
  <2>2. /\ d \in ChannelSet /\ Tuned(c, d) /\ d.closing = c.closing
        /\ d.connectOn = c.connectOn /\ d.lingerOn = FALSE
    BY <1>1 DEF Tuned, ChannelSet
  <2> HIDE DEF d
  <2>3. Held(f) /\ f.tx = c.tx /\ f.sock = "Unconnected" BY <1>3, <2>2
  <2> HIDE DEF f
  <2>4. Good(Closed(f)) BY <2>3, ClosedIsGood
  <2>5. Closed(f).tx = f.tx BY <2>3, ClosedIsSet DEF Held, Tuned
  <2>6. Sent(c, Closed(f)) BY <2>3, <2>5, NothingCounted
  <2> QED BY <2>1, <2>4, <2>6
<1> QED BY <1>4, <1>5

\* A connection that comes up says so, and connected() behind it; under a
\* disconnectFromHost() that waited for it, it then goes down again.
LEMMA EstablishedIsGood ==
  ASSUME Good(c), Established
  PROVE  Good(c') /\ Sent(c, c')
<1> DEFINE b == Become(c, "Connected")
           d == Post(b, <<Signal("connected")>>)
           p == [d EXCEPT !.pendingClose = FALSE]
           q == b.queue \o <<Signal("connected")>>
<1>1. c \in ChannelSet /\ Device(c) /\ OnWire(c) /\ c.sock = "Connecting"
  BY DEF Good, Held, Established
<1>2. c' = IF c.pendingClose THEN DisconnectFromHost(p) ELSE d BY DEF Established
<1>3. Moved(c, b) /\ b.sock = "Connected" /\ HasState(b.queue) BY <1>1, BecomeMoves DEF Socks
<1>4. b \in ChannelSet BY <1>3 DEF Moved
<1>5. b.queue \in Seq(EventSet) BY <1>4 DEF ChannelSet
<1>6. c.kind = "tcp" BY <1>1 DEF Device, ChannelSet
<1>7. b.pending = <<>> /\ b.offset = 0 /\ b.kind = "tcp" /\ b.tx = c.tx /\ Faithful(b.queue, b.sock)
  BY <1>1, <1>3, <1>6 DEF Moved, OnWire
<1>8. d = [b EXCEPT !.queue = q] BY DEF Post
<1> HIDE DEF b
<1>9. q \in Seq(EventSet) /\ HasState(q) /\ HasConnected(q) /\ Faithful(q, "Connected")
  BY <1>3, <1>5, <1>7, PostConnected
<1> HIDE DEF q
<1>10. d \in ChannelSet BY <1>4, <1>8, <1>9 DEF ChannelSet
<1>11. /\ d.kind = "tcp" /\ d.sock = "Connected" /\ d.pending = <<>> /\ d.offset = 0
       /\ d.tx = c.tx /\ d.queue = q
  BY <1>3, <1>4, <1>7, <1>8 DEF ChannelSet
<1> HIDE DEF d
<1>12. Held(d) BY <1>9, <1>10, <1>11 DEF Held, Device, OnWire
<1>13. Base(d) /\ ClosingIsMet(d) BY <1>9, <1>11 DEF Base, ClosingIsMet
<1>14. Good(d) BY <1>12, <1>13 DEF Good
<1>15. p \in ChannelSet BY <1>10 DEF ChannelSet
<1>16. Good(p) /\ p.kind = "tcp" /\ p.tx = c.tx BY <1>10, <1>11, <1>14, <1>15, AsideIsGood DEF ChannelSet
<1> HIDE DEF p
<1>17. CASE ~c.pendingClose BY <1>1, <1>2, <1>11, <1>14, <1>17, NothingCounted DEF ChannelSet
<1>18. CASE c.pendingClose
  <2> DEFINE f == DisconnectFromHost(p)
  <2>1. /\ Moved(p, f) /\ f.sock # "Connected" /\ (f.sock = "Connecting" => p.sock = "Connecting")
    BY <1>15, <1>16, DisconnectMoves DEF Good, Held, Device
  <2>2. c' = f BY <1>2, <1>18
  <2> HIDE DEF f
  <2>3. Good(f) BY <1>16, <2>1, MovedKeeps DEF Good
  <2>4. Sent(c, f) BY <2>1 DEF Sent
  <2> QED BY <2>2, <2>3, <2>4
<1> QED BY <1>1, <1>17, <1>18 DEF ChannelSet

\* The attempt fails; error and stateChanged come in either order.
LEMMA RefusedIsGood ==
  ASSUME Good(c), Refused
  PROVE  Good(c') /\ Sent(c, c')
<1> DEFINE q == c.queue
           q1 == q \o <<SC("Unconnected")>>
           q2 == q1 \o <<Signal("error")>>
           r1 == q \o <<Signal("error")>>
           r2 == r1 \o <<SC("Unconnected")>>
           d == [c EXCEPT !.sock = "Unconnected", !.pendingClose = FALSE]
<1>1. c \in ChannelSet /\ Device(c) /\ OnWire(c) /\ c.sock = "Connecting"
  BY DEF Good, Held, Refused
<1>2. q \in Seq(EventSet) /\ Faithful(q, "Connecting") /\ c.kind = "tcp"
  BY <1>1 DEF Device, ChannelSet
<1>3. "Unconnected" \in Socks /\ "error" \in Plain /\ "error" # "connected"
  BY DEF Socks, Plain
<1>4. /\ c' = [d EXCEPT !.queue = q2] \/ c' = [d EXCEPT !.queue = r2]
  <2>1. SC("Unconnected") \in EventSet /\ Signal("error") \in EventSet
    BY <1>3 DEF SC, Signal, EventSet
  <2>2. d.queue = q BY <1>1 DEF ChannelSet
  <2>3. q \o <<SC("Unconnected"), Signal("error")>> = q2 BY <1>2, <2>1, TwoAreAppended
  <2>4. q \o <<Signal("error"), SC("Unconnected")>> = r2 BY <1>2, <2>1, TwoAreAppended
  <2>5. \/ c' = Post(d, <<SC("Unconnected"), Signal("error")>>)
        \/ c' = Post(d, <<Signal("error"), SC("Unconnected")>>)
    BY DEF Refused
  <2> HIDE DEF d, q, q1, q2, r1, r2
  <2> QED BY <2>2, <2>3, <2>4, <2>5 DEF Post
<1>5. q1 \in Seq(EventSet) /\ HasState(q1) /\ Faithful(q1, "Unconnected")
  BY <1>2, <1>3, SayState
<1>6. r1 \in Seq(EventSet) BY <1>2, <1>3, PostPlain
<1> HIDE DEF q1, r1, q
<1>7. q2 \in Seq(EventSet) /\ HasState(q2) /\ Faithful(q2, "Unconnected")
  BY <1>3, <1>5, PostPlain
<1>8. r2 \in Seq(EventSet) /\ HasState(r2) /\ Faithful(r2, "Unconnected")
  BY <1>3, <1>6, SayState
<1>9. d \in ChannelSet /\ d.kind = "tcp" /\ d.sock = "Unconnected" /\ d.pending = <<>> /\ d.offset = 0
      /\ d.tx = c.tx
  BY <1>1, <1>2, <1>3 DEF ChannelSet, OnWire
<1> HIDE DEF d, q2, r2
<1>10. ASSUME NEW z \in Seq(EventSet), HasState(z), Faithful(z, "Unconnected"),
              c' = [d EXCEPT !.queue = z]
       PROVE  Good(c') /\ Sent(c, c')
  <2>1. c' \in ChannelSet BY <1>9, <1>10 DEF ChannelSet
  <2>2. /\ c'.kind = "tcp" /\ c'.sock = "Unconnected" /\ c'.pending = <<>> /\ c'.offset = 0
        /\ c'.queue = z /\ c'.tx = c.tx
    BY <1>9, <1>10 DEF ChannelSet
  <2>3. Device(c') /\ OnWire(c') BY <1>10, <2>2 DEF Device, OnWire
  <2>4. Base(c') /\ ClosingIsMet(c') BY <1>10, <2>2 DEF Base, ClosingIsMet
  <2>5. Sent(c, c') BY <2>2, NothingCounted
  <2> QED BY <2>1, <2>3, <2>4, <2>5 DEF Good, Held
<1> QED BY <1>4, <1>7, <1>8, <1>10

\* What the device took has left it: the buffer goes to the wire.
LEMMA TransmitIsGood ==
  ASSUME Good(c), Transmit
  PROVE  Good(c') /\ Sent(c, c')
<1> DEFINE sent == c.wire \cup ToSet(c.buf)
           e == [c EXCEPT !.buf = <<>>, !.wire = sent]
           d == Post(e, <<Signal("bytesWritten")>>)
           f == Become(d, "Unconnected")
<1>1. c \in ChannelSet /\ Held(c) /\ Device(c) /\ OnWire(c) /\ Base(c) /\ ClosingIsMet(c)
  BY DEF Good, Held
<1>2. c' = IF c.sock = "Closing" THEN f ELSE d BY DEF Transmit
<1>3. sent \in SUBSET (Nat \X Nat)
  <2>1. c.buf \in Seq(Nat \X Nat) /\ c.wire \in SUBSET (Nat \X Nat) BY <1>1 DEF ChannelSet
  <2>2. \A i \in DOMAIN c.buf : c.buf[i] \in Nat \X Nat BY <2>1
  <2>3. ToSet(c.buf) \subseteq Nat \X Nat BY <2>2 DEF ToSet
  <2> QED BY <2>1, <2>3
<1> HIDE DEF sent
<1>4. e \in ChannelSet BY <1>1, <1>3, NothingIsSeq DEF ChannelSet
<1>5. /\ e.kind = c.kind /\ e.sock = c.sock /\ e.queue = c.queue /\ e.wire = sent
      /\ e.tx = c.tx /\ e.pending = c.pending /\ e.offset = c.offset
      /\ e.state = c.state /\ e.closing = c.closing /\ e.connectOn = c.connectOn
      /\ e.lingerOn = c.lingerOn
  BY <1>1 DEF ChannelSet
<1> HIDE DEF e
<1>6. Device(e) /\ Base(e) /\ ClosingIsMet(e) BY <1>1, <1>5 DEF Device, Base, ClosingIsMet
<1>7. OnWire(e) BY <1>1, <1>5 DEF OnWire, sent
<1>8. Good(e) BY <1>4, <1>6, <1>7 DEF Good, Held
<1>9. Good(d) /\ d.tx = e.tx /\ d.sock = e.sock BY <1>8, SignalIsGood DEF Plain
<1> HIDE DEF d
<1>10. CASE c.sock # "Closing" BY <1>2, <1>5, <1>9, <1>10, NothingCounted
<1>11. CASE c.sock = "Closing"
  <2>1. Moved(d, f) /\ f.sock = "Unconnected" BY <1>9, BecomeMoves DEF Good, Held, Socks
  <2>2. d.kind = "tcp" BY <1>5, <1>9, <1>11 DEF Good, Held, Device, ChannelSet
  <2> HIDE DEF f
  <2>3. Good(f) BY <1>9, <2>1, <2>2, MovedKeeps DEF Good
  <2>4. Sent(c, f) BY <2>1 DEF Sent
  <2> QED BY <1>2, <1>11, <2>3, <2>4
<1> QED BY <1>10, <1>11

\* The connection is lost; only a serial device stays open with its error.
LEMMA DropIsGood ==
  ASSUME Good(c), Drop
  PROVE  Good(c') /\ Sent(c, c')
<1> DEFINE d == [c EXCEPT !.drops = @ + 1]
           p == Post(d, <<Signal("error")>>)
           a == Abort(d)
<1>1. c \in ChannelSet BY DEF Good, Held
<1>2. \/ c.kind = "serial" /\ c' = p
      \/ c.kind = "tcp" /\ c' = Abort(p)
      \/ c.kind = "tcp" /\ c' = Post(a, <<Signal("error")>>)
  BY <1>1 DEF Drop, ChannelSet
<1>3. c.drops + 1 \in Nat BY <1>1 DEF ChannelSet
<1>4. d \in ChannelSet BY <1>1, <1>3 DEF ChannelSet
<1>5. Good(d) /\ d.kind = c.kind /\ d.tx = c.tx
  BY <1>1, <1>4, AsideIsGood DEF ChannelSet
<1> HIDE DEF d
<1>6. Good(p) /\ p.tx = c.tx BY <1>5, SignalIsGood DEF Plain
<1>7. p.kind = c.kind BY <1>4, <1>5 DEF Post, ChannelSet
<1> HIDE DEF p
<1>8. ASSUME NEW x, Good(x), x.kind = "tcp"
      PROVE  Good(Abort(x)) /\ Abort(x).sock = "Unconnected"
  <2> DEFINE y == Abort(x)
  <2>1. Moved(x, y) /\ y.sock = "Unconnected" BY <1>8, AbortMoves DEF Good, Held, Device
  <2> HIDE DEF y
  <2>2. Good(y) BY <1>8, <2>1, MovedKeeps DEF Good
  <2> QED BY <2>1, <2>2 DEF y
<1>9. CASE c.kind = "serial" /\ c' = p BY <1>6, <1>9, NothingCounted
<1>10. CASE c.kind = "tcp" /\ c' = Abort(p)
  <2>1. Good(c') /\ c'.sock = "Unconnected" BY <1>6, <1>7, <1>8, <1>10
  <2> QED BY <2>1 DEF Sent
<1>11. CASE c.kind = "tcp" /\ c' = Post(a, <<Signal("error")>>)
  <2>1. Good(a) /\ a.sock = "Unconnected" BY <1>5, <1>8, <1>11
  <2> HIDE DEF a
  <2>2. Good(c') /\ c'.sock = "Unconnected" BY <1>11, <2>1, SignalIsGood DEF Plain
  <2> QED BY <2>2 DEF Sent
<1> QED BY <1>2, <1>9, <1>10, <1>11

-----------------------------------------------------------------------------
(* The theorems *)

LEMMA StartsGood == IoInit => Good(c)
<1> SUFFICES ASSUME NEW kind \in ChannelKinds, NEW valid \in BOOLEAN,
      c = [kind |-> kind, valid |-> valid \/ kind # "tcp", state |-> "Closed", closing |-> FALSE, drop |-> FALSE,
           pending |-> <<>>, offset |-> 0, connectOn |-> FALSE, lingerOn |-> FALSE,
           writeOn |-> FALSE, tx |-> {}, sock |-> "Unconnected", buf |-> <<>>,
           pendingClose |-> FALSE, queue |-> <<>>, wire |-> {}, calls |-> 0, writes |-> 0, drops |-> 0]
             PROVE  Good(c)
  BY DEF IoInit
<1> DEFINE v == valid \/ kind # "tcp"
<1>1. v \in BOOLEAN /\ kind \in {"tcp", "serial", "udp"} BY ChannelKindsAssumption
<1>2. <<>> \in Seq(EventSet) /\ 0 \in 0..FrameSize BY DEF FrameSize
<1>3. c \in ChannelSet BY <1>1, <1>2, NothingIsSeq DEF ChannelSet, States, Socks
<1>4. Len(c.queue) = 0 OBVIOUS
<1>5. ~HasState(c.queue) /\ ~HasConnected(c.queue) BY <1>4 DEF HasState, HasConnected
<1>6. Faithful(c.queue, c.sock) BY <1>5, SilentIsFaithful
<1>7. Device(c) BY <1>5, <1>6 DEF Device
<1>8. OnWire(c) BY DEF OnWire
<1>9. Base(c) /\ ClosingIsMet(c) BY DEF Base, ClosingIsMet
<1> QED BY <1>3, <1>7, <1>8, <1>9 DEF Good, Held

LEMMA StepIsGood ==
  ASSUME Good(c), IoNext
  PROVE  Good(c') /\ Sent(c, c')
<1>1. CASE RunEvent
  <2>1. PICK ok \in BOOLEAN, k \in -1..FrameSize :
          c' = Handle([c EXCEPT !.queue = Tail(@)], Head(c.queue), ok, k)
    BY <1>1 DEF RunEvent
  <2>2. k \in Takes /\ c.queue # <<>> BY <1>1 DEF Takes, RunEvent
  <2> QED BY <2>1, <2>2, EventIsHandled
<1>2. CASE CallOpen \/ CallClose \/ CallWrite \/ WriteTimer BY <1>2, CallIsGood
<1>3. CASE ConnectTimeout \/ LingerTimeout BY <1>3, TimerIsGood
<1>4. CASE Established BY <1>4, EstablishedIsGood
<1>5. CASE Refused BY <1>5, RefusedIsGood
<1>6. CASE Transmit BY <1>6, TransmitIsGood
<1>7. CASE Drop BY <1>7, DropIsGood
<1> QED BY <1>1, <1>2, <1>3, <1>4, <1>5, <1>6, <1>7 DEF IoNext

LEMMA GoodAgrees == Good(c) => QuietAgrees
<1> SUFFICES ASSUME Good(c), Quiet
             PROVE  /\ c.state = "Open" => c.sock = "Connected" /\ ~c.closing
                    /\ c.sock = "Connected" => c.state \in {"Open", "Error"}
                    /\ c.sock = "Unconnected" /\ c.kind # "udp" => c.state \in {"Closed", "Error"}
  BY DEF QuietAgrees
<1>1. Len(c.queue) = 0 BY DEF Quiet
<1>2. ~HasState(c.queue) /\ ~HasConnected(c.queue) BY <1>1 DEF HasState, HasConnected
<1> QED BY <1>2 DEF Good, Base, ClosingIsMet

LEMMA GoodForever == IoInit /\ [][IoNext]_ioVars => []Good(c)
<1>1. Good(c) /\ [IoNext]_ioVars => Good(c)'
  <2>1. CASE IoNext BY <2>1, StepIsGood
  <2>2. CASE UNCHANGED ioVars
    <3>1. c' = c BY <2>2 DEF ioVars
    <3> QED BY <3>1
  <2> QED BY <2>1, <2>2
<1> QED BY <1>1, StartsGood, PTL

\* When every late signal has been handled, a channel's state agrees with its device,
\* whatever opens, closes, timeouts and losses overtook each other: for any number of
\* calls, writes and losses, and any length of the queue of the device's thread.
THEOREM ChannelAgrees == IoInit /\ [][IoNext]_ioVars => []QuietAgrees
BY GoodForever, GoodAgrees, PTL

\* A frame that is counted as sent while the connection stands has left the device
\* whole, however many chunks each write() took and whenever they went.
THEOREM CountedIsSent == IoInit /\ [][IoNext]_ioVars => SentIsOnWire
<1>1. Good(c) /\ [IoNext]_ioVars =>
        [c'.sock = "Connected" =>
           \A frame \in c'.tx \ c.tx : \A i \in 1..FrameSize : Chunk(frame, i) \in c'.wire]_ioVars
  <2>1. ASSUME Good(c), IoNext PROVE Sent(c, c') BY <2>1, StepIsGood
  <2> QED BY <2>1 DEF Sent
<1> QED BY <1>1, GoodForever, PTL DEF SentIsOnWire

=============================================================================
