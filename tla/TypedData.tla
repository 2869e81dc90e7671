------------------------------- MODULE TypedData -------------------------------
(***************************************************************************)
(* What the user types becomes the data of a write, by two entries: the    *)
(* page's (RequestSubmissionService.cpp, ModbusDataHelper.cpp), which      *)
(* skips what it does not understand, and the frame builder's              *)
(* (ModbusFrameBuilderWidget.cpp), which refuses it.  A text is the        *)
(* sequence of its tokens, a token the sequence of its characters: 0 to 15 *)
(* for hexadecimal digits, or X or another Letter.  What may be refused is *)
(* a set with at most one element.                                         *)
(***************************************************************************)
EXTENDS FrameParser

X      == 16
Letter == 17
Off    == <<Letter, 15, 15>>     \* "off" and "on", as the parsers see their letters
On     == <<Letter, Letter>>
Formats == {"Hex", "Decimal", "Binary"}

IsBelow(base, chars) == \A i \in DOMAIN chars : chars[i] < base
\* A number; past a word they are all alike.
Number(base, digits) == FoldLeft(LAMBDA n, d : Min({base * n + d, 65536}), 0, digits)
Padded(digits) == IF Len(digits) % 2 = 1 THEN <<0>> \o digits ELSE digits
FromHex(digits) ==
  [i \in 1..(Len(digits) \div 2) |-> 16 * digits[2 * i - 1] + digits[2 * i]]

\* parseDecimalList()
DecimalList(text) ==
  IF /\ text # <<>>
     /\ \A i \in DOMAIN text : IsBelow(10, text[i]) /\ Number(10, text[i]) <= 65535
  THEN {FlattenSeq([i \in DOMAIN text |-> ToBigEndian(Number(10, text[i]))])} ELSE {}

\* Mutant of PackBits: the first bit is the highest of its byte.
PackBitsFromTop(bits) ==
  [k \in 1..BytesFor(Len(bits)) |->
     Number(2, [j \in 1..8 |-> IF 8 * k - 8 + j \in DOMAIN bits THEN bits[8 * k - 8 + j] ELSE 0])]

\* parseBinary(): the first coil is the lowest bit of the first byte.
PackBits(bits) ==
  [k \in 1..BytesFor(Len(bits)) |->
     Number(2, [j \in 1..8 |-> IF 8 * k + 1 - j \in DOMAIN bits THEN bits[8 * k + 1 - j] ELSE 0])]

-----------------------------------------------------------------------------
(* The page *)

Only(base, text) == SelectSeq(FlattenSeq(text), LAMBDA char : char < base)

\* data_helper::parseHex()
LooseHex(text) == FromHex(Padded(Only(16, text)))

PageCoil(text, format) ==
  LET hex == LooseHex(text)
      bits == Only(2, text) IN
  CASE format = "Decimal" ->
         IF Len(text) = 1 /\ IsBelow(10, text[1]) /\ Number(10, text[1]) \in {0, 1}
         THEN {Number(10, text[1]) * 65280} ELSE {}
    [] format = "Binary" -> IF Len(bits) = 1 THEN {bits[1] * 65280} ELSE {}
    [] format = "Hex" /\ Len(hex) = 1 -> {b * 65280 : b \in {hex[1]} \cap {0, 1}}
    [] format = "Hex" /\ Len(hex) # 1 ->
         IF hex = <<>> THEN {} ELSE {ReadBigEndian(hex, 0)} \cap {0, 65280}

PageRegister(text, format) ==
  CASE format = "Decimal" -> IF Len(text) = 1 THEN DecimalList(text) ELSE {}
    [] format = "Binary" -> {}
    [] format = "Hex" -> IF Len(LooseHex(text)) \in {1, 2} THEN {LooseHex(text)} ELSE {}

PageCoils(text, format, quantity) ==
  CASE format = "Decimal" -> {}
    [] format = "Binary" ->
         IF Len(Only(2, text)) = quantity THEN {PackBits(Only(2, text))} ELSE {}
    [] format = "Hex" -> {LooseHex(text)}

\* Everything but Decimal is read as hexadecimal, Binary too.
PageRegisters(text, format) ==
  IF text = <<>> THEN {}
  ELSE IF format = "Decimal" THEN DecimalList(text)
  ELSE IF LooseHex(text) # <<>> /\ Len(LooseHex(text)) % 2 = 0 THEN {LooseHex(text)} ELSE {}

\* buildWriteRequest() of the service
PageWrite(fc, start, text, format, quantity) ==
  UNION {BuildWriteRequest(fc, start, quantity, raw) : raw \in
    CASE fc = 5 -> {ToBigEndian(value) : value \in PageCoil(text, format)}
      [] fc = 6 -> PageRegister(text, format)
      [] fc = 15 -> IF quantity > 0 THEN PageCoils(text, format, quantity) ELSE {}
      [] fc = 16 -> IF quantity > 0 THEN PageRegisters(text, format) ELSE {}}

-----------------------------------------------------------------------------
(* The frame builder *)

Unprefixed(token) == IF Len(token) >= 2 /\ token[1] = 0 /\ token[2] = X THEN DropFirst(2, token) ELSE token

\* parseBuilderHex()
BuilderHex(text) ==
  IF text # <<>> /\ \A i \in DOMAIN text : Unprefixed(text[i]) # <<>> /\ IsBelow(16, Unprefixed(text[i]))
  THEN {FromHex(FlattenSeq([i \in DOMAIN text |-> Padded(Unprefixed(text[i]))]))} ELSE {}

\* A number is written from its highest bit, a single one may leave out leading zeros.
Justified(bits, count) ==
  IF count = 1 /\ Len(bits) \in 1..16 THEN [i \in 1..16 - Len(bits) |-> 0] \o bits ELSE bits
WordsOfBits(bits) ==
  FlattenSeq([i \in 1..(Len(bits) \div 16) |-> ToBigEndian(Number(2, SubSeq(bits, 16 * i - 15, 16 * i)))])

\* parseBuilderRegisters()
BuilderRegisters(text, format, count) ==
  LET Single(bytes) == IF count = 1 /\ Len(bytes) = 1 THEN <<0>> \o bytes ELSE bytes
      bits == Justified(FlattenSeq(text), count) IN
  {bytes \in
     CASE format = "Hex" -> {Single(b) : b \in BuilderHex(text)}
       [] format = "Decimal" -> DecimalList(text)
       [] format = "Binary" ->
            IF text # <<>> /\ IsBelow(2, bits) /\ Len(bits) = 16 * count THEN {WordsOfBits(bits)} ELSE {}
     : Len(bytes) = 2 * count}

BuilderCoil(text, format) ==
  CASE text \in {<<On>>, <<<<1>>>>} -> {<<255, 0>>}
    [] text \in {<<Off>>, <<<<0>>>>} -> {<<0, 0>>}
    [] OTHER -> BuilderRegisters(text, format, 1) \cap {<<255, 0>>, <<0, 0>>}

\* The bits past the quantity are zero.
MaskLast(bytes, quantity) ==
  IF quantity % 8 = 0 THEN bytes ELSE [bytes EXCEPT ![Len(bytes)] = @ % 2 ^ (quantity % 8)]

\* In decimal there is one token, 0 or 1, for each coil.
BuilderCoils(text, format, quantity) ==
  LET bits == FlattenSeq(text)
      packed == CASE format = "Hex" -> {b \in BuilderHex(text) : Len(b) = BytesFor(quantity)}
                  [] format # "Hex" ->
                       IF /\ IsBelow(2, bits) /\ Len(bits) = quantity
                          /\ format = "Decimal" => \A i \in DOMAIN text : Len(text[i]) = 1
                       THEN {PackBits(bits)} ELSE {} IN
  {MaskLast(bytes, quantity) : bytes \in packed}

BuilderWrite(fc, start, text, format, quantity) ==
  UNION {BuildWriteRequest(fc, start, quantity, raw) : raw \in
    CASE fc = 5 -> BuilderCoil(text, format)
      [] fc = 6 -> BuilderRegisters(text, format, 1)
      [] fc = 15 -> BuilderCoils(text, format, quantity)
      [] fc = 16 -> BuilderRegisters(text, format, quantity)}

=============================================================================
