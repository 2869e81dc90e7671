----------------------------- MODULE FrameBuilder ------------------------------
(***************************************************************************)
(* The frame builder (ModbusFrameBuilderWidget.cpp): a form, the frame it  *)
(* stands for, and the timer that rebuilds the frame once after changes.   *)
(* NoId is a text that is no number; error texts and colours are left out. *)
(***************************************************************************)
EXTENDS TypedData

CONSTANTS
  SavedForms,        \* what an earlier run may have left in the settings
  TypedIds, TypedAddresses, TypedQuantities, TypedTexts,  \* what the user may type
  MaxEdits           \* bound: changes of the form

VARIABLES form, range, output, pending, saved, edits

builderVars == <<form, range, output, pending, saved, edits>>

FrameProtocols == {"RTU", "TCP", "ASCII"}
NoId == 0
NoFrame == [adu |-> <<>>, fields |-> <<>>]

FirstForm == [proto |-> "RTU", id |-> 1, fc |-> 3, base |-> "0Based", address |-> Hex(0), quantity |-> 2,
              text |-> <<<<0, 0, 0, 1>>, <<0, 0, 0, 2>>>>, format |-> "Hex"]

\* What the widgets of the form can hold: an address as it is typed, a text in its tokens.
Addressings == [value : Nat, hex : BOOLEAN, digits : Nat]
FormTexts == Seq(Seq(Nat))
Forms ==
  [proto : FrameProtocols, id : Nat, fc : FunctionCodes, base : {"0Based", "1Based"},
   address : Addressings, quantity : Nat, text : FormTexts, format : Formats]

ASSUME FormsCanBeTyped ==
  /\ SavedForms \subseteq Forms /\ TypedIds \subseteq Nat /\ TypedAddresses \subseteq Addressings
  /\ TypedQuantities \subseteq Nat /\ TypedTexts \subseteq FormTexts

-----------------------------------------------------------------------------
(* The frame of a form: rebuildFrame(), populateFieldTable() *)

Reach(f) == IF f.fc \in WriteSingle THEN 1 ELSE f.quantity

Frames(f) ==
  UNION {
    {BuildAdu(f.proto, f.id, pdu, 0) : pdu \in
       {p \in IF f.fc \in Reads THEN BuildReadRequest(f.fc, start, f.quantity)
              ELSE BuilderWrite(f.fc, start, f.text, f.format, f.quantity) : start + Reach(f) <= 65536}}
    : start \in IF f.id \in 1..(IF f.proto = "TCP" THEN 255 ELSE 247)
                THEN ToPduAddress(f.address, f.base) ELSE {}}

Field(name, at, n) == [name |-> name, at |-> at, size |-> n]

\* The rows of the request itself, which begins at offset at.
RequestFields(fc, at, size) ==
  <<Field("function", at, 1), Field("address", at + 1, 2)>> \o
  CASE fc \in WriteSingle -> <<Field("value", at + 3, 2)>>
    [] fc \in Reads -> <<Field("quantity", at + 3, 2)>>
    [] fc \in WriteMultiple -> <<Field("quantity", at + 3, 2), Field("byteCount", at + 5, 1),
                                 Field("payload", at + 6, size - at - 6)>>

FieldTable(f, adu) ==
  LET size == Len(adu) IN
  CASE f.proto = "RTU" ->
         <<Field("slave", 0, 1)>> \o RequestFields(f.fc, 1, size - 2) \o <<Field("crc", size - 2, 2)>>
    [] f.proto = "TCP" ->
         <<Field("transaction", 0, 2), Field("protocol", 2, 2), Field("length", 4, 2), Field("unit", 6, 1)>>
           \o RequestFields(f.fc, 7, size)
    [] f.proto = "ASCII" ->
         <<Field("colon", 0, 1), Field("slave", 1, 2), Field("function", 3, 2)>>
           \o (IF f.fc \in Reads THEN <<Field("address", 5, 4), Field("quantity", 9, 4)>>
               ELSE <<Field("payload", 5, size - 9)>>)
           \o <<Field("lrc", size - 4, 2), Field("crlf", size - 2, 2)>>

OutputOf(f) ==
  IF Frames(f) = {} THEN NoFrame
  ELSE LET adu == CHOOSE frame \in Frames(f) : TRUE IN [adu |-> adu, fields |-> FieldTable(f, adu)]

-----------------------------------------------------------------------------
(* The widget *)

\* updateFormVisibility(): the range of the quantity; a single write leaves it.
RangeFor(fc, before) == IF fc \in WriteSingle THEN before ELSE MaxQuantity(fc)

\* loadSettings(): the form starts as FirstForm does, and its signals are ignored.
Load(settings) ==
  /\ range' = RangeFor(settings.fc, 125)
  /\ form' = [settings EXCEPT !.quantity = Min({@, RangeFor(settings.fc, 125)})]
  /\ output' = OutputOf(form') /\ pending' = FALSE

\* Mutant of OnParameterChanged: the frame stays until the timer replaces it.
OnParameterChangedLazily(f) == form' = f /\ saved' = f /\ output' = output /\ pending' = TRUE

\* onParameterChanged(): the frame goes at once, so that nobody copies it.
OnParameterChanged(f) == form' = f /\ saved' = f /\ output' = NoFrame /\ pending' = TRUE

Change(f) == f # form /\ edits < MaxEdits /\ edits' = edits + 1 /\ OnParameterChanged(f)

OnFunctionCodeChanged ==
  \E fc \in FunctionCodes :
    /\ range' = RangeFor(fc, range)
    /\ Change([form EXCEPT !.fc = fc, !.quantity = Min({@, range'})])

OnProtocolChanged == \E proto \in FrameProtocols : Change([form EXCEPT !.proto = proto]) /\ UNCHANGED range

TypeParameter ==
  /\ \/ \E id \in TypedIds : Change([form EXCEPT !.id = id])
     \/ \E base \in {"0Based", "1Based"} : Change([form EXCEPT !.base = base])
     \/ \E address \in TypedAddresses : Change([form EXCEPT !.address = address])
     \/ \E n \in TypedQuantities : n <= range /\ Change([form EXCEPT !.quantity = n])
     \/ \E text \in TypedTexts : Change([form EXCEPT !.text = text])
     \/ \E format \in Formats : Change([form EXCEPT !.format = format])
  /\ UNCHANGED range

RebuildFrame ==
  /\ pending /\ pending' = FALSE /\ output' = OutputOf(form)
  /\ UNCHANGED <<form, range, saved, edits>>

\* retranslateUi(): a rebuild that is due is left to its timer.
LanguageChange ==
  /\ output' = IF pending THEN output ELSE OutputOf(form)
  /\ UNCHANGED <<form, range, pending, saved, edits>>

\* The program ends, with a rebuild due or not, and is started again.
BuilderRestart == Load(saved) /\ UNCHANGED <<saved, edits>>

BuilderInit ==
  /\ saved \in SavedForms \cup {FirstForm} /\ edits = 0
  /\ range = RangeFor(saved.fc, 125)
  /\ form = [saved EXCEPT !.quantity = Min({@, RangeFor(saved.fc, 125)})]
  /\ output = OutputOf(form) /\ pending = FALSE

BuilderNext ==
  OnFunctionCodeChanged \/ OnProtocolChanged \/ TypeParameter \/ RebuildFrame \/ LanguageChange \/ BuilderRestart

BuilderSpec == BuilderInit /\ [][BuilderNext]_builderVars

-----------------------------------------------------------------------------
(* Properties *)

HasFrame == output # NoFrame
Read  == Parse(output.adu, form.proto, 0, 0, FALSE, "ABCD")
Meant == [i \in DOMAIN form.text |->
            Number(CASE form.format = "Hex" -> 16 [] form.format = "Decimal" -> 10 [] OTHER -> 2, form.text[i])]
ValuesOf(r) == [i \in DOMAIN r.items |-> r.items[i].value]

\* A frame that can be copied or inspected is the frame of the form as it stands, and
\* there is one as soon as the form is settled ("copying must never expose the previous
\* frame").
OutputIsCurrent == output = IF pending THEN NoFrame ELSE OutputOf(form)

\* The frame is a request for what was typed: the values, one token each, and coils in
\* their order.
FrameSaysWhatWasTyped ==
  HasFrame =>
    /\ Read.valid /\ Read.slave = form.id /\ Read.fc = form.fc
    /\ {Read.items[1].address} = ToPduAddress(form.address, form.base)
    /\ form.fc \in Reads => Read.quantity = form.quantity
    /\ form.fc \in WriteMultiple => Len(Read.items) = form.quantity
    /\ form.fc \in {6, 16} /\ Len(form.text) = Reach(form)
         /\ (\A i \in DOMAIN form.text :
              /\ IsBelow(16, form.text[i])
              /\ Len(form.text[i]) <= CASE form.format = "Hex" -> 4 [] form.format = "Decimal" -> 5 [] OTHER -> 16)
         => ValuesOf(Read) = Meant
    /\ form.fc = 15 /\ form.format # "Hex" => ValuesOf(Read) = FlattenSeq(form.text)

\* The rows of the table are the frame, each byte in one row, and a row of the payload
\* is as long as the count says.
FieldsTile ==
  HasFrame =>
    LET Sizes(n) == FoldLeft(LAMBDA sum, field : sum + field.size, 0, First(n, output.fields)) IN
    /\ \A i \in DOMAIN output.fields : output.fields[i].at = Sizes(i - 1) /\ output.fields[i].size > 0
    /\ Sizes(Len(output.fields)) = Len(output.adu)
    /\ \A i \in DOMAIN output.fields : output.fields[i].name = "byteCount" =>
         output.adu[output.fields[i].at + 1] = output.fields[i + 1].size

\* Where a text is written in whole bytes, or not in hexadecimal, the page and the
\* builder do not mean different things by it; but that the page reads the bits of
\* registers as hexadecimal digits.
EntriesAgree ==
  /\ form.fc \in WriteSingle \cup WriteMultiple /\ ~(form.fc = 16 /\ form.format = "Binary")
  /\ form.format = "Hex" =>
       \A i \in DOMAIN form.text : IsBelow(16, form.text[i]) /\ Len(form.text[i]) % 2 = 0
  => \A pdu \in PageWrite(form.fc, 0, form.text, form.format, form.quantity),
        own \in BuilderWrite(form.fc, 0, form.text, form.format, form.quantity) :
       ValuesOf(Parse(BuildAdu("TCP", 1, pdu, 0), "TCP", 0, 0, FALSE, "ABCD"))
         = ValuesOf(Parse(BuildAdu("TCP", 1, own, 0), "TCP", 0, 0, FALSE, "ABCD"))

\* The settings bring back the frame, although the range of the quantity is not saved.
RestartKeepsFrame ==
  LET back == [saved EXCEPT !.quantity = Min({@, RangeFor(saved.fc, 125)})] IN
  OutputOf(back) = OutputOf(form)

\* The builder can be trusted.
BuildsTruthfully ==
  OutputIsCurrent /\ FrameSaysWhatWasTyped /\ FieldsTile /\ EntriesAgree /\ RestartKeepsFrame

=============================================================================
