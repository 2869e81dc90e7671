----------------------------- MODULE FrameStream ------------------------------
(***************************************************************************)
(* FrameExtractor.cpp on a line: the ADUs of the peer, and noise between   *)
(* them, reach feed() in chunks of any size.  On an RTU line the silence   *)
(* between two chunks matters: it may be longer than what may pass between *)
(* two characters of a frame, or long enough to end the frame.             *)
(***************************************************************************)
EXTENDS ModbusFrames

CONSTANTS
  LineModes,            \* the modes a line may have
  MaxAduSize,           \* kMaxAduSize
  MaxTcpBufferedBytes,  \* kMaxTcpBufferedBytes
  MaxDroppedBytes,      \* kMaxDroppedInvalidBytes
  MaxSent,              \* bound: ADUs sent
  MaxNoiseBytes,        \* bound: bytes of noise between two ADUs
  MaxSilences           \* bound: silences on an RTU line

ASSUME LimitsFit == /\ MaxAduSize \in Nat /\ MaxAduSize >= 260
                    /\ MaxTcpBufferedBytes \in Nat /\ MaxTcpBufferedBytes >= MaxAduSize
                    /\ LineModes \subseteq {"TCP", "RTU", "ASCII"} /\ MaxSent \in Octets

VARIABLES
  mode,       \* mode_
  buffer,     \* buffer_
  completed,  \* completedFrames_
  dropped,    \* droppedInvalidBytes_
  silence,    \* since lastByteReceivedAt_: "none", "character" or "frame"
  handed,     \* the frames popped so far
  sent,       \* the ADUs the peer sent
  wire,       \* bytes sent and not yet fed
  unbroken,   \* RTU: the ADU on the wire began a frame and had no silence inside
  whole,      \* RTU: the ADUs that arrived so
  noise,      \* bytes of noise since the last ADU
  silences

streamVars == <<mode, buffer, completed, dropped, silence, handed, sent, wire, unbroken, whole,
                noise, silences>>

\* What the peer sends: answers to a read, told apart by their values.
Answer(i) == [fc |-> 3, data |-> <<2, 0, i>>]
Adu(i) == BuildAdu(mode, 1, Answer(i), i)

NoiseBytes == IF mode = "ASCII" THEN {Colon, 48} ELSE {0, 1}

-----------------------------------------------------------------------------
(* processTcpBuffer(), processAsciiBuffer(); x is the extractor *)

GiveOut(x, n) ==
  [x EXCEPT !.completed = Append(@, First(n, x.buffer)), !.buffer = DropFirst(n, @),
            !.dropped = 0]

\* The first byte is dropped, and with too many of them the rest.
DropByte(x) ==
  [x EXCEPT !.dropped = @ + 1,
            !.buffer = IF x.dropped + 1 > MaxDroppedBytes THEN <<>> ELSE Tail(@)]

TcpStep(x) ==
  LET n == InspectTcpAdu(x.buffer) IN
  CASE n > MaxAduSize -> [x EXCEPT !.buffer = DropFirst(n, @), !.dropped = @ + 1]
    [] n \in 1..MaxAduSize -> GiveOut(x, n)
    [] n = -1 -> DropByte(x)
    [] OTHER -> x

FromColon(x) ==
  LET colons == {i \in DOMAIN x.buffer : x.buffer[i] = Colon}
      skip == IF colons = {} THEN Len(x.buffer)
              ELSE (CHOOSE i \in colons : \A j \in colons : i <= j) - 1 IN
  [x EXCEPT !.buffer = DropFirst(skip, @), !.dropped = @ + skip]

\* Mutant of AsciiStep: a frame that is not valid goes with its terminator.
AsciiStepByFrame(x) ==
  LET y == FromColon(x)
      n == CrLfIndex(y.buffer) + 2 IN
  IF CrLfIndex(y.buffer) < 0 THEN y
  ELSE IF InspectAsciiAdu(First(n, y.buffer)) > 0 THEN GiveOut(y, n)
  ELSE [y EXCEPT !.buffer = DropFirst(n, @), !.dropped = @ + 1]

AsciiStep(x) ==
  LET y == FromColon(x)
      n == CrLfIndex(y.buffer) + 2 IN
  IF CrLfIndex(y.buffer) < 0 THEN y
  ELSE IF InspectAsciiAdu(First(n, y.buffer)) > 0 THEN GiveOut(y, n)
  ELSE DropByte(y)

\* The loops end with the first step that changes nothing; each one before it takes
\* bytes from the buffer.
Extractors == [buffer : Seq(Octets), completed : Seq(Seq(Octets)), dropped : Nat]
Process(x) ==
  LET Step(y) == IF mode = "TCP" THEN TcpStep(y) ELSE AsciiStep(y)
      after[n \in 0..Len(x.buffer)] ==
        [y \in Extractors |-> IF n = 0 \/ Step(y) = y THEN y ELSE after[n - 1][Step(y)]] IN
  after[Len(x.buffer)][x]

-----------------------------------------------------------------------------
(* feed() *)

KeepLast(n, s) == IF Len(s) > n THEN DropFirst(Len(s) - n, s) ELSE s

\* A silence before the chunk ends the frame in the buffer or spoils it.
FeedRtu(x, data) ==
  LET y == IF x.buffer = <<>> \/ silence = "none" THEN x
           ELSE [x EXCEPT !.completed = IF silence = "frame" THEN Append(@, x.buffer) ELSE @,
                          !.buffer = <<>>] IN
  [y EXCEPT !.buffer = IF Len(@ \o data) > MaxAduSize THEN <<>> ELSE @ \o data]

Feed(x, data) ==
  CASE mode = "RTU" -> FeedRtu(x, data)
    [] mode = "ASCII" -> Process([x EXCEPT !.buffer = KeepLast(2 * MaxAduSize, @ \o data)])
    [] mode = "TCP" -> Process([x EXCEPT !.buffer = KeepLast(MaxTcpBufferedBytes, @ \o data)])

Extractor == [buffer |-> buffer, completed |-> completed, dropped |-> dropped]
Becomes(x) == buffer' = x.buffer /\ completed' = x.completed /\ dropped' = x.dropped

\* A chunk arrives.
Deliver ==
  /\ \E n \in 1..Len(wire) :
       /\ Becomes(Feed(Extractor, First(n, wire)))
       /\ wire' = DropFirst(n, wire)
       /\ LET begins == sent # <<>> /\ wire = Last(sent)
              intact == (IF begins THEN buffer = <<>> \/ silence = "frame"
                         ELSE unbroken /\ silence = "none") IN
          /\ unbroken' = intact
          /\ whole' = IF intact /\ n = Len(wire) THEN whole \cup {Last(sent)} ELSE whole
  /\ silence' = "none"
  /\ UNCHANGED <<mode, handed, sent, noise, silences>>

-----------------------------------------------------------------------------
(* popFrame(), tryPopRtuResponseFrame(), reset() *)

\* Mutant of Ready: a frame is taken before the silence that ends it.
ReadyEarly == mode = "RTU" /\ completed = <<>> /\ buffer # <<>>

\* isRtuFrameReadyToParse(), processRtuBuffer()
Ready == mode = "RTU" /\ completed = <<>> /\ buffer # <<>> /\ silence = "frame"

Pop ==
  \/ /\ completed # <<>>
     /\ handed' = Append(handed, Head(completed)) /\ completed' = Tail(completed)
     /\ UNCHANGED buffer
     /\ UNCHANGED <<mode, dropped, silence, sent, wire, unbroken, whole, noise, silences>>
  \/ /\ Ready
     /\ handed' = Append(handed, buffer) /\ buffer' = <<>>
     /\ UNCHANGED completed
     /\ UNCHANGED <<mode, dropped, silence, sent, wire, unbroken, whole, noise, silences>>

-----------------------------------------------------------------------------
(* The line *)

\* The peer sends an ADU, on an RTU line after a silence of its own.
Send ==
  /\ Len(sent) < MaxSent
  /\ mode = "RTU" => wire = <<>> /\ (buffer = <<>> \/ silence = "frame")
  /\ sent' = Append(sent, Adu(Len(sent) + 1))
  /\ wire' = wire \o Adu(Len(sent) + 1)
  /\ noise' = 0
  /\ UNCHANGED <<mode, buffer, completed, dropped, silence, handed, unbroken, whole, silences>>

Noise ==
  /\ mode # "RTU" /\ noise < MaxNoiseBytes
  /\ \E byte \in NoiseBytes : wire' = Append(wire, byte)
  /\ noise' = noise + 1
  /\ UNCHANGED <<mode, buffer, completed, dropped, silence, handed, sent, unbroken, whole, silences>>

\* Time passes on an RTU line.
Silence ==
  /\ mode = "RTU" /\ silence # "frame"
  /\ wire = <<>> \/ silences < MaxSilences
  /\ silence' \in {"character", "frame"} \ {silence}
  /\ silences' = IF wire = <<>> THEN silences ELSE silences + 1
  /\ UNCHANGED <<mode, buffer, completed, dropped, handed, sent, wire, unbroken, whole, noise>>

StreamInit ==
  /\ mode \in LineModes
  /\ buffer = <<>> /\ completed = <<>> /\ dropped = 0 /\ silence = "none"
  /\ handed = <<>> /\ sent = <<>> /\ wire = <<>> /\ unbroken = FALSE /\ whole = {}
  /\ noise = 0 /\ silences = 0

StreamNext == Deliver \/ Pop \/ Send \/ Noise \/ Silence

-----------------------------------------------------------------------------
(* Properties *)

\* On TCP and ASCII the frames handed out are the frames sent, in order, however
\* the bytes are cut into chunks and whatever noise up to the limit stands
\* between them; when all bytes are there, so are all frames.
StreamKept ==
  mode # "RTU" =>
    /\ IsPrefix(handed \o completed, sent)
    /\ wire = <<>> => handed \o completed = sent

\* On RTU an ADU that arrives in one piece is handed out as one frame, whatever
\* broken frame came before it and however long it waits in the buffer.
WholeFramesKept ==
  \A adu \in whole :
    \/ adu = buffer
    \/ \E i \in DOMAIN (handed \o completed) : (handed \o completed)[i] = adu

=============================================================================
