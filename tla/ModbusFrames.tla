----------------------------- MODULE ModbusFrames -----------------------------
(***************************************************************************)
(* The byte level of Modbus: checksums, PDU and ADU builders, the checks   *)
(* of frames, requests and responses (src/core/modbus/base,                *)
(* session/RequestValidator.cpp).  Bytes and words keep their width.  A    *)
(* builder that may refuse returns a set with at most one element.  Error  *)
(* texts are left out.                                                     *)
(***************************************************************************)
EXTENDS Integers, SequencesExt

ReadBits      == {1, 2}
ReadRegisters == {3, 4}
WriteSingle   == {5, 6}
WriteMultiple == {15, 16}
Reads         == ReadBits \cup ReadRegisters
FunctionCodes == Reads \cup WriteSingle \cup WriteMultiple

MaxAddress == 65535
Orders == {"ABCD", "BADC", "CDAB", "DCBA"}

-----------------------------------------------------------------------------
(* Words and checksums *)

Octets == 0..255

ToBigEndian(n) == <<n \div 256, n % 256>>

\* readBigEndian() at a zero-based offset the caller has checked.
ReadBigEndian(data, offset) == data[offset + 1] * 256 + data[offset + 2]

First(n, s) == SubSeq(s, 1, n)
DropFirst(n, s) == SubSeq(s, n + 1, Len(s))

Xor[a \in 0..65535, b \in 0..65535] ==
  IF a = 0 THEN b ELSE IF b = 0 THEN a ELSE 2 * Xor[a \div 2, b \div 2] + ((a + b) % 2)

CrcShift(crc) == IF crc % 2 = 1 THEN Xor[crc \div 2, 40961] ELSE crc \div 2

\* The eight shifts of a byte see the low byte of crc; the rest only moves down.
ByteShifts ==
  [low \in 0..255 |-> FoldLeft(LAMBDA crc, i : CrcShift(crc), low, [i \in 1..8 |-> i])]
CrcOfByte(crc, byte) ==
  LET x == Xor[crc, byte] IN Xor[x \div 256, ByteShifts[x % 256]]

\* The loop over the bytes is by halves: the depth stays small.
CrcOver[crc \in 0..65535, data \in Seq(Octets)] ==
  LET half == Len(data) \div 2 IN
  IF Len(data) = 1 THEN CrcOfByte(crc, data[1])
  ELSE CrcOver[CrcOver[crc, First(half, data)], DropFirst(half, data)]

\* calculateModbusRtuCrc()
Crc(data) == CrcOver[65535, data]

AppendCrc(data) == LET crc == Crc(data) IN data \o <<crc % 256, crc \div 256>>

\* calculateModbusAsciiLrc(), four bytes at a time
Lrc(data) ==
  LET At(i) == IF i \in DOMAIN data THEN data[i] ELSE 0
      Four(n) == At(4 * n - 3) + At(4 * n - 2) + At(4 * n - 1) + At(4 * n)
      sum[n \in 0..(Len(data) + 3) \div 4] == IF n = 0 THEN 0 ELSE (sum[n - 1] + Four(n)) % 256 IN
  (256 - sum[(Len(data) + 3) \div 4]) % 256

-----------------------------------------------------------------------------
(* PDUs: ModbusPduBuilder.cpp *)

Bytes(pdu) == <<pdu.fc>> \o pdu.data
BytesFor(bits) == (bits + 7) \div 8

BuildReadRequest(fc, start, quantity) ==
  IF start \in 0..MaxAddress /\ quantity \in 1..2000
  THEN {[fc |-> fc, data |-> ToBigEndian(start) \o ToBigEndian(quantity)]} ELSE {}

BuildWriteSingle(fc, start, value) ==
  IF start \in 0..MaxAddress
  THEN {[fc |-> fc, data |-> ToBigEndian(start) \o ToBigEndian(value)]} ELSE {}

BuildWriteMultiple(fc, start, quantity, limit, expectedBytes, raw) ==
  IF start \in 0..MaxAddress /\ quantity \in 1..limit /\ Len(raw) = expectedBytes
  THEN {[fc |-> fc, data |-> ToBigEndian(start) \o ToBigEndian(quantity)
                               \o <<expectedBytes>> \o raw]} ELSE {}

\* buildWriteRequest(): what a single write takes from its raw bytes.
CoilValue(raw) ==
  IF Len(raw) >= 2 THEN IF ReadBigEndian(raw, 0) = 65280 THEN 65280 ELSE 0
  ELSE IF Len(raw) = 1 /\ raw[1] # 0 THEN 65280 ELSE 0
RegisterValue(raw) ==
  IF Len(raw) >= 2 THEN ReadBigEndian(raw, 0) ELSE IF Len(raw) = 1 THEN raw[1] ELSE 0

BuildWriteRequest(fc, start, quantity, raw) ==
  CASE fc = 5 -> BuildWriteSingle(fc, start, CoilValue(raw))
    [] fc = 6 -> BuildWriteSingle(fc, start, RegisterValue(raw))
    [] fc = 15 -> BuildWriteMultiple(fc, start, quantity, 1968, BytesFor(quantity), raw)
    [] fc = 16 -> BuildWriteMultiple(fc, start, quantity, 123, 2 * quantity, raw)
    [] OTHER -> {}

-----------------------------------------------------------------------------
(* ADUs: ModbusAduBuilder.cpp, inspect...Adu() of ModbusProtocolChecks.cpp.   *)
(* An inspection is the length of the ADU, 0 for incomplete, -1 for invalid.  *)

BuildRtuAdu(slave, pdu) == AppendCrc(<<slave>> \o Bytes(pdu))

BuildTcpAdu(unit, pdu, transaction) ==
  ToBigEndian(transaction) \o <<0, 0>> \o ToBigEndian(1 + Len(Bytes(pdu)))
    \o <<unit>> \o Bytes(pdu)

Colon == 58
CrLf  == <<13, 10>>
HexDigit(n) == IF n < 10 THEN 48 + n ELSE 55 + n
Nibble(char) ==
  CASE char \in 48..57 -> char - 48 [] char \in 65..70 -> char - 55
    [] char \in 97..102 -> char - 87 [] OTHER -> -1

BuildAsciiAdu(slave, pdu) ==
  LET body == <<slave>> \o Bytes(pdu)
      raw  == Append(body, Lrc(body))
      Char(i) == HexDigit(IF i % 2 = 1 THEN raw[i \div 2 + 1] \div 16 ELSE raw[i \div 2] % 16) IN
  <<Colon>> \o [i \in 1..2 * Len(raw) |-> Char(i)] \o CrLf

BuildAdu(mode, slave, pdu, transaction) ==
  CASE mode = "TCP" -> BuildTcpAdu(slave, pdu, transaction)
    [] mode = "RTU" -> BuildRtuAdu(slave, pdu)
    [] mode = "ASCII" -> BuildAsciiAdu(slave, pdu)

\* The zero-based index of the first CRLF, -1 without one.
CrLfIndex(s) ==
  LET at == {i \in 1..Len(s) - 1 : s[i] = 13 /\ s[i + 1] = 10} IN
  IF at = {} THEN -1 ELSE (CHOOSE i \in at : \A j \in at : i <= j) - 1

InspectTcpAdu(adu) ==
  IF Len(adu) < 6 THEN 0
  ELSE LET length == ReadBigEndian(adu, 4) IN
       IF ReadBigEndian(adu, 2) # 0 \/ length \notin 2..254 THEN -1
       ELSE IF Len(adu) < 6 + length THEN 0 ELSE 6 + length

InspectRtuAdu(adu) ==
  IF Len(adu) < 5 THEN 0
  ELSE IF AppendCrc(First(Len(adu) - 2, adu)) = adu THEN Len(adu) ELSE -1

\* decodeAsciiHex() of the characters between the colon and the CRLF.
DecodeAscii(chars) ==
  [i \in 1..(Len(chars) \div 2) |-> 16 * Nibble(chars[2 * i - 1]) + Nibble(chars[2 * i])]

AsciiPayload(adu) == SubSeq(adu, 2, CrLfIndex(adu))

InspectAsciiAdu(adu) ==
  IF adu = <<>> THEN 0
  ELSE IF adu[1] # Colon THEN -1
  ELSE IF CrLfIndex(adu) < 0 THEN 0
  ELSE LET payload == AsciiPayload(adu)
           binary  == DecodeAscii(payload) IN
       IF /\ Len(payload) >= 6 /\ Len(payload) % 2 = 0
          /\ \A i \in DOMAIN payload : Nibble(payload[i]) >= 0
          /\ Lrc(Front(binary)) = Last(binary)
       THEN CrLfIndex(adu) + 2 ELSE -1

-----------------------------------------------------------------------------
(* RequestValidator.cpp, validateResponsePdu() *)

RangeFits(start, quantity) == start + quantity - 1 <= MaxAddress

MaxQuantity(fc) ==
  CASE fc \in ReadBits -> 2000 [] fc \in ReadRegisters -> 125
    [] fc = 15 -> 1968 [] fc = 16 -> 123

\* Mutant of ByteCount: a byte that is not full is not counted.
FullByteCount(fc, quantity) ==
  IF fc \in ReadBits \cup {15} THEN quantity \div 8 ELSE 2 * quantity

ByteCount(fc, quantity) ==
  IF fc \in ReadBits \cup {15} THEN BytesFor(quantity) ELSE 2 * quantity

ValidateRequest(pdu, slave, mode) ==
  LET d == pdu.data
      start == ReadBigEndian(d, 0)
      quantity == ReadBigEndian(d, 2) IN
  /\ mode = "RTU" => slave \in 0..247
  /\ Len(d) <= 252
  /\ \/ /\ pdu.fc \in Reads /\ Len(d) = 4
        /\ quantity \in 1..MaxQuantity(pdu.fc)
        /\ RangeFits(start, quantity)
     \/ /\ pdu.fc \in WriteSingle /\ Len(d) = 4
        /\ pdu.fc = 5 => quantity \in {0, 65280}
     \/ /\ pdu.fc \in WriteMultiple /\ Len(d) >= 5
        /\ quantity \in 1..MaxQuantity(pdu.fc)
        /\ RangeFits(start, quantity)
        /\ d[5] = Len(d) - 5
        /\ d[5] = ByteCount(pdu.fc, quantity)
  /\ 2 + Len(d) <= 254 /\ 4 + Len(d) <= 256

ValidateResponse(request, response) ==
  LET q == request.data
      d == response.data IN
  IF response.fc >= 128
  THEN response.fc - 128 = request.fc /\ Len(d) = 1
  ELSE /\ response.fc = request.fc
       /\ \/ /\ request.fc \in Reads
             /\ Len(q) >= 4 /\ Len(d) >= 1 /\ Len(d) = 1 + d[1]
             /\ d[1] = ByteCount(request.fc, ReadBigEndian(q, 2))
          \/ request.fc \in WriteSingle /\ d = q
          \/ request.fc \in WriteMultiple /\ Len(q) >= 4 /\ d = First(4, q)

=============================================================================
