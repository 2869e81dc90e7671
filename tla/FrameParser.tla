----------------------------- MODULE FrameParser ------------------------------
(***************************************************************************)
(* The analyzer's view of a frame: ModbusFrameParser.cpp, the register     *)
(* decoder, the rows of FrameDecodedTableView and ModbusAddressMapping.cpp.*)
(* A parse result keeps what a reader of the table sees; an item without a *)
(* value has value NoValue.                                                *)
(***************************************************************************)
EXTENDS ModbusFrames

NoValue == -1

Rejected(protocol) ==
  [valid |-> FALSE, protocol |-> protocol, slave |-> 0, fc |-> 0, type |-> "Unknown",
   items |-> <<>>, quantity |-> 0]

-----------------------------------------------------------------------------
(* parsePdu() *)

Power2(k) == <<1, 2, 4, 8, 16, 32, 64, 128>>[k + 1]

Item(address, value) == [address |-> address % 65536, value |-> value]

RegisterItems(start, bytes) ==
  [i \in 1..(Len(bytes) \div 2) |-> Item(start + i - 1, ReadBigEndian(bytes, 2 * i - 2))]

\* Mutant of BitItems: the most significant bit comes first.
BitItemsFromTop(start, bytes, count) ==
  [i \in 1..count |->
     Item(start + i - 1, (bytes[(i - 1) \div 8 + 1] \div Power2(7 - ((i - 1) % 8))) % 2)]

BitItems(start, bytes, count) ==
  [i \in 1..count |->
     Item(start + i - 1, (bytes[(i - 1) \div 8 + 1] \div Power2((i - 1) % 8)) % 2)]

\* A read, told from its response by its size; r is the result so far.
ParseRead(r, pdu, start, expected) ==
  LET data  == DropFirst(2, pdu)
      bits  == 8 * pdu[2] IN
  IF Len(pdu) = 5
  THEN [r EXCEPT !.type = "Request", !.quantity = ReadBigEndian(pdu, 3),
                 !.items = <<Item(ReadBigEndian(pdu, 1), NoValue)>>]
  ELSE IF Len(pdu) < 2 \/ pdu[2] # Len(data) THEN [r EXCEPT !.valid = FALSE]
  ELSE IF r.fc \in ReadRegisters
  THEN IF (expected # 0 /\ pdu[2] # 2 * expected) \/ pdu[2] % 2 # 0
       THEN [r EXCEPT !.valid = FALSE]
       ELSE [r EXCEPT !.type = "Response", !.items = RegisterItems(start, data)]
  ELSE IF expected # 0 /\ (expected > bits \/ expected <= bits - 8)
       THEN [r EXCEPT !.valid = FALSE]
       ELSE [r EXCEPT !.type = "Response",
                      !.items = BitItems(start, data, IF expected = 0 THEN bits ELSE expected)]

ParseWriteSingle(r, pdu) ==
  IF Len(pdu) # 5 THEN [r EXCEPT !.valid = FALSE]
  ELSE [r EXCEPT !.items = <<Item(ReadBigEndian(pdu, 1), ReadBigEndian(pdu, 3))>>]

ParseWriteMultiple(r, pdu) ==
  LET start    == ReadBigEndian(pdu, 1)
      quantity == ReadBigEndian(pdu, 3)
      data     == DropFirst(6, pdu) IN
  IF Len(pdu) = 5
  THEN [r EXCEPT !.type = "Response", !.items = <<Item(start, NoValue)>>, !.quantity = quantity]
  ELSE IF Len(pdu) < 6 \/ pdu[6] # Len(data) \/ pdu[6] # ByteCount(r.fc, quantity)
  THEN [r EXCEPT !.valid = FALSE]
  ELSE [r EXCEPT !.type = "Request",
                 !.items = IF r.fc = 16 THEN RegisterItems(start, data)
                           ELSE BitItems(start, data, quantity)]

\* Mutant of Unsupported: it takes the rejection the error text speaks of.
RejectUnsupported(r) == [r EXCEPT !.valid = FALSE]

\* A function code the parser does not know: an error text, but still valid.
Unsupported(r) == r

ParsePdu(header, pdu, start, expected) ==
  LET r == [header EXCEPT !.valid = TRUE, !.fc = pdu[1], !.quantity = expected] IN
  IF pdu = <<>> THEN header
  ELSE IF pdu[1] >= 128
  THEN [r EXCEPT !.fc = @ - 128, !.type = "Exception", !.valid = Len(pdu) >= 2]
  ELSE CASE pdu[1] \in Reads -> ParseRead(r, pdu, start, expected)
         [] pdu[1] \in WriteSingle -> ParseWriteSingle(r, pdu)
         [] pdu[1] \in WriteMultiple -> ParseWriteMultiple(r, pdu)
         [] OTHER -> Unsupported(r)

-----------------------------------------------------------------------------
(* parse() of a whole frame; what is forced is parsed although it is broken *)

ParseTcp(frame, start, expected, force) ==
  LET integrity == InspectTcpAdu(frame)
      header == [Rejected("TCP") EXCEPT !.slave = IF integrity > 0 THEN frame[7] ELSE 0] IN
  IF IF force THEN Len(frame) <= 7 ELSE integrity # Len(frame) THEN Rejected("TCP")
  ELSE ParsePdu(header, DropFirst(7, frame), start, expected)

ParseRtu(frame, start, expected, force) ==
  LET header == [Rejected("RTU") EXCEPT !.slave = IF Len(frame) >= 5 THEN frame[1] ELSE 0] IN
  IF IF force THEN Len(frame) < 3 ELSE InspectRtuAdu(frame) # Len(frame) THEN Rejected("RTU")
  ELSE ParsePdu(header, SubSeq(frame, 2, Len(frame) - 2), start, expected)

\* The fields are there when the characters decode, whatever the LRC says.
AsciiDecodes(frame) ==
  /\ frame # <<>> /\ frame[1] = Colon /\ CrLfIndex(frame) >= 0
  /\ LET payload == AsciiPayload(frame) IN
     /\ Len(payload) >= 6 /\ Len(payload) % 2 = 0
     /\ \A i \in DOMAIN payload : Nibble(payload[i]) >= 0

ParseAscii(frame, start, expected, force) ==
  LET binary == IF AsciiDecodes(frame) THEN DecodeAscii(AsciiPayload(frame)) ELSE <<0, 0>>
      header == [Rejected("ASCII") EXCEPT !.slave = binary[1]] IN
  IF ~force /\ InspectAsciiAdu(frame) # Len(frame) THEN Rejected("ASCII")
  ELSE ParsePdu(header, SubSeq(binary, 2, Len(binary) - 1), start, expected)

Swapped(value) == (value % 256) * 256 + value \div 256

\* applyRegisterOrder() on an item, as swapRegisterBytes() does it: a missing
\* value reads as zero.
SwapItem(item) == [item EXCEPT !.value = IF @ = NoValue THEN 0 ELSE Swapped(@)]

\* The words of each pair are exchanged, the bytes of each word, or both; a last
\* word without a partner has only bytes.
ApplyRegisterOrder(r, order) ==
  LET WordsAt(i) == LET j == IF i % 2 = 0 THEN i - 1 ELSE i + 1 IN
                  IF order \in {"CDAB", "DCBA"} /\ j \in DOMAIN r.items
                  THEN [r.items[i] EXCEPT !.value = r.items[j].value] ELSE r.items[i] IN
  IF order = "ABCD" \/ r.fc \notin ReadRegisters \cup {6, 16} THEN r
  ELSE [r EXCEPT !.items =
          [i \in DOMAIN @ |-> IF order = "CDAB" THEN WordsAt(i) ELSE SwapItem(WordsAt(i))]]

ParseAs(protocol, frame, start, expected, force) ==
  CASE protocol = "TCP" -> ParseTcp(frame, start, expected, force)
    [] protocol = "RTU" -> ParseRtu(frame, start, expected, force)
    [] protocol = "ASCII" -> ParseAscii(frame, start, expected, force)

\* parse() with ProtocolType::Unknown: the protocol is told from the frame.
Detect(frame, start, expected, force) ==
  LET tcp == ParseTcp(frame, start, expected, force) IN
  CASE InspectTcpAdu(frame) = Len(frame) ->
         IF tcp.valid \/ InspectRtuAdu(frame) # Len(frame) THEN "TCP" ELSE "RTU"
    [] InspectTcpAdu(frame) # Len(frame) /\ InspectAsciiAdu(frame) = Len(frame) -> "ASCII"
    [] InspectTcpAdu(frame) # Len(frame) /\ InspectAsciiAdu(frame) # Len(frame)
         /\ InspectRtuAdu(frame) = Len(frame) -> "RTU"
    [] OTHER -> "Unknown"

Parse(frame, type, start, expected, force, order) ==
  LET protocol == IF type # "Unknown" \/ frame = <<>> THEN type
                  ELSE Detect(frame, start, expected, force)
      r == ParseAs(protocol, frame, start, expected, force) IN
  IF frame = <<>> \/ protocol = "Unknown" THEN Rejected("Unknown")
  ELSE IF r.valid THEN ApplyRegisterOrder(r, order) ELSE r

-----------------------------------------------------------------------------
(* Registers as numbers: ModbusByteOrder.h, RegisterValueDecoder.cpp *)

SwapBytes(bytes) == [i \in DOMAIN bytes |-> bytes[IF i % 2 = 1 THEN i + 1 ELSE i - 1]]

\* rearrangeBytes16(), 32() and 64()
Rearrange(bytes, order) ==
  CASE order = "ABCD" -> bytes
    [] order = "BADC" -> SwapBytes(bytes)
    [] order = "CDAB" -> SwapBytes(Reverse(bytes))
    [] order = "DCBA" -> Reverse(bytes)

Types == {"UInt16", "Int16", "UInt32", "Int32", "Float32", "Float64"}
WordsOf(type) ==
  CASE type \in {"UInt16", "Int16"} -> 1 [] type = "Float64" -> 4 [] OTHER -> 2

\* The class of an IEEE 754 number from its most significant bytes.
IsSpecial(b) ==
  IF Len(b) = 4 THEN b[1] % 128 = 127 /\ b[2] >= 128 ELSE b[1] % 128 = 127 /\ b[2] >= 240
Mantissa(b) == <<IF Len(b) = 4 THEN b[2] % 128 ELSE b[2] % 16>> \o DropFirst(2, b)

\* decodeRegister(): the text stands for the number with these bytes.
DecodeRegister(raw, type, order) ==
  LET size == 2 * WordsOf(type)
      b == Rearrange(First(size, raw), order) IN
  IF Len(raw) < size THEN [valid |-> FALSE, text |-> "<Incomplete>", bytes |-> <<>>]
  ELSE IF type \in {"Float32", "Float64"} /\ IsSpecial(b)
  THEN [valid |-> FALSE, bytes |-> b,
        text |-> CASE \E i \in DOMAIN Mantissa(b) : Mantissa(b)[i] # 0 -> "NaN"
                   [] b[1] >= 128 /\ \A i \in DOMAIN Mantissa(b) : Mantissa(b)[i] = 0 -> "-Inf"
                   [] OTHER -> "+Inf"]
  ELSE [valid |-> TRUE, text |-> "number", bytes |-> b]

-----------------------------------------------------------------------------
(* The rows of the table: renderData() *)

\* words[i] is the number of registers of the type chosen for item i, one for a
\* bit.
RowOf(item, kind, parent) == [address |-> item.address, kind |-> kind, parent |-> parent]

\* Mutant of NextRow: a number whose words are not all there claims those it has.
NextRowGreedy(items, words, rows) ==
  LET i == Len(rows) + 1
      above == {j \in DOMAIN rows : rows[j].kind = "value" /\ i - j < words[j]} IN
  IF above # {}
  THEN Append(rows, RowOf(items[i], "subordinate", rows[CHOOSE j \in above : TRUE].address))
  ELSE Append(rows, RowOf(items[i], "value", items[i].address))

\* The row of the next item: a word of the number above, a number, or one whose
\* words are not all there.
NextRow(items, words, rows) ==
  LET i == Len(rows) + 1
      above == {j \in DOMAIN rows : rows[j].kind = "value" /\ i - j < words[j]} IN
  IF above # {}
  THEN Append(rows, RowOf(items[i], "subordinate", rows[CHOOSE j \in above : TRUE].address))
  ELSE IF i + words[i] - 1 > Len(items)
  THEN Append(rows, RowOf(items[i], "incomplete", items[i].address))
  ELSE Append(rows, RowOf(items[i], "value", items[i].address))

RenderData(items, words) ==
  LET shown[n \in 0..Len(items)] == IF n = 0 THEN <<>> ELSE NextRow(items, words, shown[n - 1]) IN
  shown[Len(items)]

-----------------------------------------------------------------------------
(* Addresses: ModbusAddressMapping.cpp, on what parseRawNumber() tells of the *)
(* text: its value, whether it is hexadecimal, and its digits.                *)

Digits(n) == CHOOSE d \in 1..6 : n < 10 ^ d /\ (d = 1 \/ n >= 10 ^ (d - 1))
Decimal(n) == [value |-> n, hex |-> FALSE, digits |-> Digits(n)]
Hex(n) == [value |-> n, hex |-> TRUE, digits |-> 0]

ModiconBases(digits) ==
  CASE digits = 6 -> {<<400001, 465536>>, <<300001, 365536>>, <<100001, 165536>>}
    [] digits = 5 -> {<<40001, 49999>>, <<30001, 39999>>, <<10001, 19999>>}
    [] OTHER -> {}

\* toPduAddress(): the address, or none.
ToPduAddress(in, base) ==
  LET modicon == {m \in ModiconBases(in.digits) : in.value \in m[1]..m[2]} IN
  IF base = "0Based" THEN IF in.value \in 0..MaxAddress THEN {in.value} ELSE {}
  ELSE IF ~in.hex /\ modicon # {} THEN {in.value - m[1] : m \in modicon}
  ELSE IF in.value \in 1..MaxAddress + 1 THEN {in.value - 1} ELSE {}

\* toDisplayAddress()
ToDisplayAddress(address, base, asHex) ==
  LET shown == IF base = "0Based" THEN address ELSE address + 1 IN
  IF asHex THEN Hex(shown) ELSE Decimal(shown)

=============================================================================
