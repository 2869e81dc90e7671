------------------------------ MODULE FrameCodec ------------------------------
(***************************************************************************)
(* What the byte level promises, on samples: requests at the limits of     *)
(* what the program accepts, with their answers; tables of numbers; pairs  *)
(* of registers; addresses.  A step takes a sample or puts it away.  The   *)
(* frame extractor of FrameStream has its line beside them.                *)
(***************************************************************************)
EXTENDS FrameStream, FrameParser

CONSTANTS
  Starts, Quantities,   \* of the requests
  Words,                \* values of registers
  MaxItems,             \* bound: items of a table
  Addresses

ASSUME SamplesReal == /\ Starts \subseteq Nat /\ Quantities \subseteq Nat /\ Words \subseteq 0..MaxAddress
                      /\ MaxItems \in Nat /\ MaxItems <= MaxAddress + 1 /\ Addresses \subseteq 0..MaxAddress

VARIABLE sample

vars == <<streamVars, sample>>

None == [kind |-> "none"]

RequestSamples == [kind : {"request"}, fc : FunctionCodes, start : Starts, quantity : Quantities]
TableSamples   == UNION {[kind : {"table"}, words : [1..n -> {1, 2, 4}]] : n \in 1..MaxItems}
PairSamples    == [kind : {"pair"}, first : Words, second : Words, order : Orders]
AddressSamples == [kind : {"address"}, address : Addresses, base : {"0Based", "1Based"},
                   hex : BOOLEAN]
Samples == RequestSamples \cup TableSamples \cup PairSamples \cup AddressSamples

-----------------------------------------------------------------------------
(* The values of a request or an answer, and their bytes by the protocol *)

Bit(i)  == IF i % 3 = 0 \/ i % 5 = 0 THEN 1 ELSE 0
Word(i) == (i * 4099 + 7) % 65536

PackedBits(n) ==
  LET At(i) == IF i < n THEN Bit(i) ELSE 0
      Byte(i) == At(i) + 2 * At(i + 1) + 4 * At(i + 2) + 8 * At(i + 3) + 16 * At(i + 4)
                   + 32 * At(i + 5) + 64 * At(i + 6) + 128 * At(i + 7) IN
  [k \in 1..((n + 7) \div 8) |-> Byte(8 * k - 8)]
PackedWords(n) ==
  [k \in 1..2 * n |-> IF k % 2 = 1 THEN Word(k \div 2) \div 256 ELSE Word(k \div 2 - 1) % 256]
BytesOf(words) == [k \in 1..2 * Len(words) |-> ToBigEndian(words[(k + 1) \div 2])[2 - (k % 2)]]

IsOfBits(fc) == fc \in ReadBits \cup {5, 15}
Packed(fc, n) == IF IsOfBits(fc) THEN PackedBits(n) ELSE PackedWords(n)
ValueAt(fc, i) == IF IsOfBits(fc) THEN Bit(i) ELSE Word(i)

\* The data a write is asked for; one value for a single write.
Raw(s) ==
  CASE s.fc = 5 -> IF s.quantity % 2 = 1 THEN <<255, 0>> ELSE <<0, 0>>
    [] s.fc = 6 -> ToBigEndian(Word(s.quantity))
    [] OTHER -> Packed(s.fc, s.quantity)

\* What the program sends for the request, if it accepts it.
Accepted(s) ==
  {pdu \in IF s.fc \in Reads THEN BuildReadRequest(s.fc, s.start, s.quantity)
           ELSE BuildWriteRequest(s.fc, s.start, s.quantity, Raw(s)) :
     ValidateRequest(pdu, 1, mode)}

\* What a device answers.
AnswerOf(s, pdu, n) ==
  [fc |-> s.fc,
   data |-> CASE s.fc \in Reads -> <<Len(Packed(s.fc, n))>> \o Packed(s.fc, n)
              [] s.fc \in WriteSingle -> pdu.data
              [] s.fc \in WriteMultiple -> ToBigEndian(s.start) \o ToBigEndian(n)]

IsRequest == sample.kind = "request"

-----------------------------------------------------------------------------
(* Steps *)

\* The line has not been used.
Idle == buffer = <<>> /\ sent = <<>> /\ wire = <<>> /\ silence = "none"

Take == sample = None /\ Idle /\ sample' \in Samples /\ UNCHANGED streamVars
PutAway == sample # None /\ sample' = None /\ UNCHANGED streamVars

Init == StreamInit /\ sample = None
Next == (sample = None /\ StreamNext /\ UNCHANGED sample) \/ Take \/ PutAway

Spec == Init /\ [][Next]_vars

-----------------------------------------------------------------------------
(* Properties *)

\* A request the program sends stays inside the address space and the sizes the
\* protocol allows, and so does its answer, in every mode.
RequestFits ==
  IsRequest => \A pdu \in Accepted(sample) :
    /\ sample.fc \notin WriteSingle => sample.start + sample.quantity <= 65536
    /\ 1 + Len(pdu.data) <= 253
    /\ 1 + Len(AnswerOf(sample, pdu, sample.quantity).data) <= 253

\* The extractor hands out a request and its answer whole, the largest ones too,
\* when they arrive in two chunks.
FrameExtracted ==
  IsRequest => \A pdu \in Accepted(sample) :
    \A frame \in {BuildAdu(mode, 1, pdu, 7),
                  BuildAdu(mode, 1, AnswerOf(sample, pdu, sample.quantity), 7)} :
      LET x == Feed(Feed(Extractor, First(5, frame)), DropFirst(5, frame)) IN
      IF mode = "RTU" THEN x.buffer = frame /\ InspectRtuAdu(frame) = Len(frame)
      ELSE x.completed = <<frame>> /\ x.buffer = <<>>

\* The session accepts the right answer to each request it sends, and an exception
\* to it; it refuses one with a byte of values too many.
AnswerAccepted ==
  IsRequest => \A pdu \in Accepted(sample) :
    LET answer == AnswerOf(sample, pdu, sample.quantity) IN
    /\ ValidateResponse(pdu, answer)
    /\ ValidateResponse(pdu, [fc |-> sample.fc + 128, data |-> <<2>>])
    /\ sample.fc \in Reads =>
         ~ValidateResponse(pdu, AnswerOf(sample, pdu, sample.quantity + 8))

\* The analyzer shows a request the program sent as that request: its address, and
\* the values it writes.
RequestRead ==
  IsRequest => \A pdu \in Accepted(sample) :
    LET r == Parse(BuildAdu(mode, 1, pdu, 7), mode, 0, 0, FALSE, "ABCD") IN
    /\ r.valid /\ r.slave = 1 /\ r.fc = sample.fc /\ r.items[1].address = sample.start
    /\ sample.fc \in Reads => r.type = "Request" /\ r.quantity = sample.quantity
    /\ sample.fc \in WriteSingle => r.items[1].value = ReadBigEndian(pdu.data, 2)
    /\ sample.fc \in WriteMultiple =>
         /\ r.type = "Request" /\ Len(r.items) = sample.quantity
         /\ \A i \in 1..sample.quantity :
              r.items[i] = [address |-> sample.start + i - 1, value |-> ValueAt(sample.fc, i - 1)]

\* It shows the values of an answer at their addresses, when it is told the start
\* and the quantity.  Three bytes of bits are as long as a request and shown as one.
AnswerRead ==
  IsRequest /\ sample.fc \in Reads => \A pdu \in Accepted(sample) :
    LET answer == AnswerOf(sample, pdu, sample.quantity)
        r == Parse(BuildAdu(mode, 1, answer, 7), mode, sample.start, sample.quantity,
                   FALSE, "ABCD") IN
    IF IsOfBits(sample.fc) /\ sample.quantity \in 17..24 THEN r.type = "Request"
    ELSE /\ r.valid /\ r.type = "Response" /\ Len(r.items) = sample.quantity
         /\ \A i \in 1..sample.quantity :
              r.items[i] = [address |-> sample.start + i - 1, value |-> ValueAt(sample.fc, i - 1)]

\* In the table each word belongs to exactly one number: a number is followed by
\* its other words, all of them, and no word is a number and part of another.
RowsCover ==
  sample.kind = "table" =>
    LET items == [i \in DOMAIN sample.words |-> Item(65534 + i, 0)]
        rows == RenderData(items, sample.words)
        Others(i) == {j \in DOMAIN rows :
                        rows[j].kind = "subordinate" /\ rows[j].parent = rows[i].address} IN
    /\ Len(rows) = Len(items)
    /\ \A i \in DOMAIN rows :
         CASE rows[i].kind = "value" -> Others(i) = i + 1..i + sample.words[i] - 1
           [] rows[i].kind = "incomplete" ->
                Others(i) = {} /\ i + sample.words[i] - 1 > Len(rows)
           [] OTHER -> \E j \in 1..i - 1 : rows[j].kind = "value" /\ i \in Others(j)

\* The two implementations of the register order agree on a number of one or two
\* registers: the parser's, on values, and the decoder's, on bytes.
OrdersAgree ==
  sample.kind = "pair" =>
    LET Shown(words) ==
          LET frame == [fc |-> 3, items |-> [i \in DOMAIN words |-> Item(i, words[i])]]
              after == ApplyRegisterOrder(frame, sample.order).items IN
          BytesOf([i \in DOMAIN words |-> after[i].value])
        Decoded(words, type) == DecodeRegister(BytesOf(words), type, sample.order).bytes
        two == <<sample.first, sample.second>> IN
    /\ Shown(two) = Decoded(two, "UInt32")
    /\ Shown(<<sample.first>>) = Decoded(<<sample.first>>, "UInt16")

\* An address as the table shows it can be typed into a request and means the same
\* register, but for a decimal one that reads as five-digit Modicon notation.
AddressReadsBack ==
  sample.kind = "address" =>
    LET shown == ToDisplayAddress(sample.address, sample.base, sample.hex) IN
    \/ ToPduAddress(shown, sample.base) = {sample.address}
    \/ /\ sample.base = "1Based" /\ ~sample.hex
       /\ \E m \in ModiconBases(5) : shown.value \in m[1]..m[2]

\* An RTU request of the program is recognised as RTU when the protocol is to be
\* detected: a frame that could be a TCP frame by its header has its TCP PDU
\* validated first (ModbusFrameParser.cpp:342-344).
RtuDetected ==
  IsRequest /\ mode = "RTU" => \A pdu \in Accepted(sample) :
    Parse(BuildAdu("RTU", 1, pdu, 0), "Unknown", 0, 0, FALSE, "ABCD").protocol = "RTU"

\* The frames that were sent come out of the stream whole, in their order and once.
FramesKept == StreamKept /\ WholeFramesKept

\* A request the program sends, its answer and an exception to it get through: they fit
\* the protocol, the extractor hands them out and the session accepts them.
ExchangeFits == RequestFits /\ FrameExtracted /\ AnswerAccepted

\* The analyzer shows both halves of an exchange as what they are.
ExchangeRead == RequestRead /\ AnswerRead

\* What the program converts in two places, or there and back, it converts alike: rows
\* of numbers, the order of registers, addresses.
ConversionsAgree == RowsCover /\ OrdersAgree /\ AddressReadsBack

=============================================================================
