------------------------------ MODULE FrameTable ------------------------------
(***************************************************************************)
(* The decoded-data table of the analyzer: the register types the user     *)
(* gives to rows, one by one or to a selection (FrameDecodedTableView.cpp, *)
(* the configuration file of AnalyzerExporter.cpp).  A type is the number  *)
(* of registers it takes; how the rows follow from the types is            *)
(* FrameParser's RenderData.                                               *)
(***************************************************************************)
EXTENDS FrameParser

CONSTANT Rows            \* the registers shown
ASSUME RowsPositive == Rows \in Nat \ {0}

VARIABLES
  customType,   \* metadataByAddress_: the type given to a register, or Default
  globalType,   \* globalDataType_
  rows          \* the table: what each row is

tableVars == <<customType, globalType, rows>>

Default == 0
TypeWords == {1, 2, 4}
RowNumbers == 1..Rows

\* renderData() with these types.
Rendered(types, global) ==
  LET WordsAt(i) == IF types[i] = Default THEN global ELSE types[i]
      shown == RenderData([i \in RowNumbers |-> Item(i, 0)], [i \in RowNumbers |-> WordsAt(i)]) IN
  [i \in RowNumbers |-> shown[i].kind]

IsWord(row) == rows[row] = "subordinate"

Retyped(types) ==
  customType' = types /\ rows' = Rendered(types, globalType) /\ UNCHANGED globalType

-----------------------------------------------------------------------------
\* onItemChanged(): only a row that is not part of a number above can be edited.
SetType ==
  \E row \in {r \in RowNumbers : ~IsWord(r)}, type \in TypeWords \cup {Default} :
    Retyped([customType EXCEPT ![row] = type])

ChangeGlobal ==
  /\ globalType' \in TypeWords
  /\ rows' = Rendered(customType, globalType') /\ UNCHANGED customType

\* Mutant of BatchTypes: the loop goes one row too far.
BatchTypesLong(selected, type) ==
  LET Step(state, row) ==
        IF row \notin selected \/ row < state.next THEN state
        ELSE LET run == {r \in row..row + type : \A q \in row..r : q \in selected} IN
             [types |-> [r \in RowNumbers |-> IF r = row THEN type
                           ELSE IF r \in run THEN Default ELSE state.types[r]],
              next |-> row + Cardinality(run)]
      after[n \in 0..Rows] ==
        IF n = 0 THEN [types |-> customType, next |-> 1] ELSE Step(after[n - 1], n) IN
  after[Rows].types

\* batchSetSelectedType(): each number takes the selected rows that follow it, as
\* many as it needs, and gives their own types up.
BatchTypes(selected, type) ==
  LET Step(state, row) ==
        IF row \notin selected \/ row < state.next THEN state
        ELSE LET run == {r \in row..row + type - 1 : \A q \in row..r : q \in selected} IN
             [types |-> [r \in RowNumbers |-> IF r = row THEN type
                           ELSE IF r \in run THEN Default ELSE state.types[r]],
              next |-> row + Cardinality(run)]
      after[n \in 0..Rows] ==
        IF n = 0 THEN [types |-> customType, next |-> 1] ELSE Step(after[n - 1], n) IN
  after[Rows].types

BatchSet(selected, type) ==
  selected # {} /\ Retyped(BatchTypes(selected, type))

\* resetSelectedToDefault(): a row that is part of a number resets the number too.
ResetSelected(selected) ==
  LET Above(row) == {r \in 1..row - 1 : ~IsWord(r) /\ \A q \in r + 1..row - 1 : IsWord(q)}
      reset == selected \cup UNION {Above(row) : row \in {r \in selected : IsWord(r)}} IN
  /\ selected # {}
  /\ Retyped([r \in RowNumbers |-> IF r \in reset THEN Default ELSE customType[r]])

ResetAll == Retyped([r \in RowNumbers |-> Default])

TableInit ==
  /\ customType = [r \in RowNumbers |-> Default] /\ globalType = 1
  /\ rows = Rendered(customType, globalType)

TableNext ==
  \/ SetType \/ ChangeGlobal \/ ResetAll
  \/ \E selected \in SUBSET RowNumbers :
       ResetSelected(selected) \/ \E type \in TypeWords : BatchSet(selected, type)

-----------------------------------------------------------------------------
(* Properties *)

\* A type set on a block of rows that begins with a number of its own and has room
\* for whole numbers shows exactly those numbers, one after the other, whatever
\* types the rows had before.
BlockCovered ==
  \A type \in TypeWords, first \in RowNumbers, n \in 1..Rows :
    LET last == first + n * type - 1 IN
    last <= Rows /\ ~IsWord(first) /\ customType' = BatchTypes(first..last, type)
      /\ globalType' = globalType =>
      \A row \in first..last : rows'[row] = "value" <=> (row - first) % type = 0

\* (Steps that leave the table alone come first: TLC need not look for blocks in them.)
BatchCovers == [][UNCHANGED tableVars \/ BlockCovered]_tableVars

=============================================================================
