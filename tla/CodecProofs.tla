------------------------------ MODULE CodecProofs -----------------------------
(***************************************************************************)
(* What is proved of the codec: a type given to a block of rows shows the  *)
(* numbers of that block; an order of registers and a way to write an      *)
(* address can be taken back; a frame that the program builds for a        *)
(* request or an answer is found on the line, accepted by its own checks   *)
(* and shown by its own analyzer as what was asked, in each of the three   *)
(* modes; on an RTU line a frame that arrives in one piece is kept.        *)
(* Recursive functions (the rows, the loop over a block, the loop of the   *)
(* extractor) are first proved to be what their equations say, by          *)
(* induction up to a bound.                                                *)
(***************************************************************************)
EXTENDS FrameCodec, FrameTable, FiniteSetTheorems, SequenceTheorems, WellFoundedInduction, TLAPS

-----------------------------------------------------------------------------
(* Induction *)

\* A set of numbers that is not empty has a least one.
LEMMA Least ==
  ASSUME NEW T \in SUBSET Nat, T # {}
  PROVE  \E m \in T : \A k \in T : m <= k
<1> DEFINE Less == {p \in Nat \X Nat : p[1] < p[2]}
<1>1. IsWellFoundedOn(Less, Nat)
  <2>1. OpToRel(<, Nat) = Less BY Zenon DEF OpToRel
  <2> QED BY <2>1, NatLessThanWellFounded
<1>2. PICK m \in T : \A k \in T : ~(<<k, m>> \in Less)
  <2> HIDE DEF Less
  <2> QED BY <1>1, WFMin
<1>3. ASSUME NEW k \in T PROVE m <= k
  <2>1. ~(<<k, m>> \in Less) BY <1>2
  <2> QED BY <2>1
<1> QED BY <1>3

\* Induction up to a bound: what holds of 0 and is handed on holds of all.
LEMMA Induction ==
  ASSUME NEW N \in Nat, NEW T, 0 \in T, \A n \in 0..N - 1 : n \in T => n + 1 \in T
  PROVE  0..N \subseteq T
<1> SUFFICES ASSUME (0..N) \ T # {} PROVE FALSE OBVIOUS
<1>0. (0..N) \ T \in SUBSET Nat OBVIOUS
<1>1. PICK m \in (0..N) \ T : \A k \in (0..N) \ T : m <= k BY <1>0, Least
<1>2. m # 0 /\ m - 1 \in 0..N - 1 BY <1>1
<1>3. m - 1 \in T BY <1>1, <1>2
<1> QED BY <1>1, <1>2, <1>3

\* The numbers whose words the row at i may be.
Above(list, words, i) == {j \in 1..i - 1 : list[j].kind = "value" /\ i - j < words[j]}

\* The row at i follows from the list before it.
RowFollows(items, words, list, i) ==
  list[i] = IF Above(list, words, i) # {}
            THEN RowOf(items[i], "subordinate",
                       list[CHOOSE j \in Above(list, words, i) : TRUE].address)
            ELSE IF i + words[i] - 1 > Len(items)
            THEN RowOf(items[i], "incomplete", items[i].address)
            ELSE RowOf(items[i], "value", items[i].address)

RowsFollow(items, words, list) == \A i \in 1..Len(list) : RowFollows(items, words, list, i)

\* A next row leaves those before it and follows from them.
LEMMA NextRowFollows ==
  ASSUME NEW items, NEW words, NEW T, NEW list \in Seq(T), RowsFollow(items, words, list)
  PROVE  LET next == NextRow(items, words, list) IN
         /\ next \in Seq(T \cup {next[Len(list) + 1]}) /\ Len(next) = Len(list) + 1
         /\ RowsFollow(items, words, next)
<1> DEFINE k == Len(list)
           above == {j \in DOMAIN list : list[j].kind = "value" /\ (k + 1) - j < words[j]}
           row == IF above # {}
                  THEN RowOf(items[k + 1], "subordinate", list[CHOOSE j \in above : TRUE].address)
                  ELSE IF k + 1 + words[k + 1] - 1 > Len(items)
                  THEN RowOf(items[k + 1], "incomplete", items[k + 1].address)
                  ELSE RowOf(items[k + 1], "value", items[k + 1].address)
           next == NextRow(items, words, list)
<1>1. next = Append(list, row) BY DEF NextRow
<1>2. k \in Nat /\ DOMAIN list = 1..k OBVIOUS
<1>3. above = {j \in 1..k : list[j].kind = "value" /\ (k + 1) - j < words[j]} BY <1>2
<1> HIDE DEF next, row
<1>4. /\ Len(next) = k + 1 /\ next[k + 1] = row /\ \A i \in 1..k : next[i] = list[i]
      /\ next \in Seq(T \cup {row})
  BY <1>1
<1> HIDE DEF k
<1>5. \A i \in 1..k + 1 : Above(next, words, i) = {j \in 1..i - 1 : list[j].kind = "value" /\ i - j < words[j]}
  <2> SUFFICES ASSUME NEW i \in 1..k + 1
               PROVE Above(next, words, i) = {j \in 1..i - 1 : list[j].kind = "value" /\ i - j < words[j]}
    OBVIOUS
  <2>1. \A j \in 1..i - 1 : next[j] = list[j] BY <1>2, <1>4
  <2> QED BY <2>1 DEF Above
<1>6. \A i \in 1..k : Above(next, words, i) = Above(list, words, i)
  BY <1>2, <1>5 DEF Above
<1>7. Above(next, words, k + 1) = above
  <2>1. k + 1 \in 1..k + 1 /\ (k + 1) - 1 = k BY <1>2
  <2> HIDE DEF above
  <2> QED BY <1>3, <1>5, <2>1
<1> HIDE DEF above
<1>8. ASSUME NEW i \in 1..k PROVE RowFollows(items, words, next, i)
  <2>1. RowFollows(items, words, list, i) BY DEF RowsFollow, k
  <2>2. next[i] = list[i] /\ Above(next, words, i) = Above(list, words, i) BY <1>4, <1>6
  <2>3. ASSUME Above(list, words, i) # {}
        PROVE next[CHOOSE j \in Above(list, words, i) : TRUE] = list[CHOOSE j \in Above(list, words, i) : TRUE]
    <3> DEFINE j == CHOOSE j \in Above(list, words, i) : TRUE
    <3>1. j \in Above(list, words, i) BY <2>3
    <3> HIDE DEF j
    <3>2. j \in 1..k BY <3>1, <1>2 DEF Above
    <3> QED BY <3>2, <1>4 DEF j
  <2> QED BY <2>1, <2>2, <2>3 DEF RowFollows
<1>9. RowFollows(items, words, next, k + 1)
  <2>1. ASSUME above # {}
        PROVE next[CHOOSE j \in above : TRUE] = list[CHOOSE j \in above : TRUE]
    <3> DEFINE j == CHOOSE j \in above : TRUE
    <3>1. j \in above BY <2>1
    <3> HIDE DEF j
    <3>2. j \in 1..k BY <3>1, <1>3
    <3> QED BY <3>2, <1>4 DEF j
  <2> QED BY <2>1, <1>4, <1>7 DEF RowFollows, row
<1>10. RowsFollow(items, words, next)
  <2> SUFFICES ASSUME NEW i \in 1..k + 1 PROVE RowFollows(items, words, next, i)
    BY <1>4 DEF RowsFollow
  <2>1. i \in 1..k \/ i = k + 1 BY <1>2
  <2> QED BY <1>8, <1>9, <2>1
<1> QED BY <1>4, <1>10 DEF next, k


\* The table is built row by row: there are as many rows as items, and each follows from
\* the rows before it.
LEMMA RenderedIs ==
  ASSUME NEW items, Len(items) \in Nat, NEW words
  PROVE  LET list == RenderData(items, words) IN
         Len(list) = Len(items) /\ RowsFollow(items, words, list) /\ DOMAIN list = 1..Len(items)
<1> DEFINE N == Len(items)
           Shows(f, k) == f = [n \in 0..k |-> IF n = 0 THEN <<>> ELSE NextRow(items, words, f[n - 1])]
           T == {k \in 0..N : \E f : Shows(f, k)}
           shown[n \in 0..N] == IF n = 0 THEN <<>> ELSE NextRow(items, words, shown[n - 1])
<1>0. N \in Nat OBVIOUS
<1>1. 0 \in T
  <2> DEFINE f == [n \in 0..0 |-> <<>>]
  <2>1. Shows(f, 0) OBVIOUS
  <2> HIDE DEF Shows, f
  <2> QED BY <1>0, <2>1
<1>2. ASSUME NEW k \in 0..N - 1, k \in T PROVE k + 1 \in T
  <2>1. PICK f : Shows(f, k) BY <1>2
  <2> DEFINE g == [n \in 0..k + 1 |-> IF n = k + 1 THEN NextRow(items, words, f[k]) ELSE f[n]]
  <2>2. ASSUME NEW n \in 0..k + 1
        PROVE g[n] = IF n = 0 THEN <<>> ELSE NextRow(items, words, g[n - 1])
    <3>1. CASE n = k + 1
      <4>1. g[n] = NextRow(items, words, f[k]) /\ g[n - 1] = f[k] /\ n # 0 BY <3>1
      <4> HIDE DEF g
      <4> QED BY <4>1
    <3>2. CASE n \in 1..k
      <4>1. g[n] = f[n] /\ g[n - 1] = f[n - 1] /\ n # 0 BY <3>2
      <4>2. f[n] = NextRow(items, words, f[n - 1]) BY <2>1, <3>2
      <4> HIDE DEF g
      <4> QED BY <4>1, <4>2
    <3>3. CASE n = 0
      <4>1. g[n] = f[n] BY <3>3
      <4>2. f[n] = <<>> BY <2>1, <3>3
      <4> HIDE DEF g
      <4> QED BY <4>1, <4>2, <3>3
    <3> QED BY <3>1, <3>2, <3>3
  <2>3. g = [n \in 0..k + 1 |-> g[n]] OBVIOUS
  <2> HIDE DEF g
  <2>4. Shows(g, k + 1) BY <2>2, <2>3
  <2> HIDE DEF Shows
  <2> QED BY <1>0, <2>4
<1>3. \E f : Shows(f, N)
  <2> HIDE DEF Shows, N
  <2>1. 0..N \subseteq T
    <3> HIDE DEF T
    <3> QED BY <1>0, <1>1, <1>2, Induction
  <2> QED BY <1>0, <2>1
<1>4. shown = [n \in 0..N |-> IF n = 0 THEN <<>> ELSE NextRow(items, words, shown[n - 1])]
  BY <1>3
<1>5. RenderData(items, words) = shown[N] BY DEF RenderData
<1> HIDE DEF shown
<1> DEFINE U == {n \in 0..N : /\ \E E : shown[n] \in Seq(E)
                              /\ Len(shown[n]) = n /\ RowsFollow(items, words, shown[n])}
<1>6. 0 \in U
  <2>1. shown[0] = <<>> BY <1>0, <1>4
  <2>2. <<>> \in Seq({}) /\ Len(<<>>) = 0 OBVIOUS
  <2>3. RowsFollow(items, words, <<>>) BY DEF RowsFollow
  <2>4. 0 \in 0..N BY <1>0
  <2>5. shown[0] \in Seq({}) /\ Len(shown[0]) = 0 /\ RowsFollow(items, words, shown[0])
    BY <2>1, <2>2, <2>3
  <2> HIDE DEF N
  <2> QED BY <2>4, <2>5
<1>7. ASSUME NEW n \in 0..N - 1, n \in U PROVE n + 1 \in U
  <2>1. PICK E : shown[n] \in Seq(E) BY <1>7
  <2>2. Len(shown[n]) = n /\ RowsFollow(items, words, shown[n]) BY <1>7
  <2>3. n + 1 \in 0..N /\ n + 1 # 0 /\ (n + 1) - 1 = n BY <1>0
  <2>4. shown[n + 1] = NextRow(items, words, shown[n]) BY <1>4, <2>3
  <2> DEFINE next == NextRow(items, words, shown[n])
  <2>5. /\ next \in Seq(E \cup {next[Len(shown[n]) + 1]}) /\ Len(next) = Len(shown[n]) + 1
        /\ RowsFollow(items, words, next)
    BY <2>1, <2>2, NextRowFollows
  <2> HIDE DEF next, N
  <2> QED BY <2>2, <2>3, <2>4, <2>5 DEF next
<1> HIDE DEF U
<1>8. 0..N \subseteq U
  <2> HIDE DEF N
  <2> QED BY <1>0, <1>6, <1>7, Induction
<1>9. N \in U BY <1>0, <1>8
<1> QED BY <1>5, <1>9 DEF U

\* What a row is, told from the numbers above it.
RowIs(items, words, list, i) ==
  LET above == Above(list, words, i) IN
  /\ list[i].address = items[i].address
  /\ list[i].kind = "subordinate" <=> above # {}
  /\ list[i].kind = "value" <=> above = {} /\ i + words[i] - 1 <= Len(items)
  /\ list[i].kind = "incomplete" <=> above = {} /\ i + words[i] - 1 > Len(items)
  /\ \A j \in above : above = {j} /\ list[i].parent = list[j].address

\* No two numbers have a word in common: the second would be a word of the first.
LEMMA RowsAre ==
  ASSUME NEW items, Len(items) \in Nat, NEW words \in [1..Len(items) -> Nat]
  PROVE  LET list == RenderData(items, words) IN
         /\ Len(list) = Len(items) /\ DOMAIN list = 1..Len(items)
         /\ \A i \in 1..Len(items) : RowIs(items, words, list, i)
<1> DEFINE N == Len(items)
           list == RenderData(items, words)
<1>1. Len(list) = N /\ DOMAIN list = 1..N /\ RowsFollow(items, words, list) BY RenderedIs
<1> HIDE DEF list
<1>2. ASSUME NEW i \in 1..N PROVE RowFollows(items, words, list, i) BY <1>1 DEF RowsFollow
<1>3. ASSUME NEW i \in 1..N
      PROVE /\ list[i].address = items[i].address
            /\ list[i].kind = "subordinate" <=> Above(list, words, i) # {}
            /\ list[i].kind = "value" <=> Above(list, words, i) = {} /\ i + words[i] - 1 <= N
            /\ list[i].kind = "incomplete" <=> Above(list, words, i) = {} /\ i + words[i] - 1 > N
  <2>1. i + words[i] - 1 \in Int /\ N \in Int OBVIOUS
  <2>2. i + words[i] - 1 <= N <=> ~(i + words[i] - 1 > N) BY <2>1
  <2> HIDE DEF N
  <2>3. CASE Above(list, words, i) # {}
    <3>1. list[i] = RowOf(items[i], "subordinate", list[CHOOSE j \in Above(list, words, i) : TRUE].address)
      BY <1>2, <2>3 DEF RowFollows
    <3> QED BY <2>3, <3>1 DEF RowOf
  <2>4. CASE Above(list, words, i) = {} /\ i + words[i] - 1 > N
    <3>1. list[i] = RowOf(items[i], "incomplete", items[i].address)
      BY <1>2, <2>4 DEF RowFollows, N
    <3> QED BY <2>2, <2>4, <3>1 DEF RowOf
  <2>5. CASE Above(list, words, i) = {} /\ i + words[i] - 1 <= N
    <3>1. list[i] = RowOf(items[i], "value", items[i].address)
      BY <1>2, <2>2, <2>5 DEF RowFollows, N
    <3> QED BY <2>2, <2>5, <3>1 DEF RowOf
  <2> QED BY <2>2, <2>3, <2>4, <2>5
<1>4. ASSUME NEW i \in 1..N, NEW a \in Above(list, words, i), NEW b \in Above(list, words, i), a < b
      PROVE FALSE
  <2>1. a \in 1..N /\ b \in 1..N /\ a < b /\ i - a < words[a] /\ list[a].kind = "value" /\ list[b].kind = "value"
    BY <1>4 DEF Above
  <2>2. b - a < words[a] BY <2>1, <1>4 DEF Above
  <2>3. a \in Above(list, words, b) BY <2>1, <2>2 DEF Above
  <2> QED BY <1>3, <2>1, <2>3
<1>5. ASSUME NEW i \in 1..N, NEW a \in Above(list, words, i)
      PROVE Above(list, words, i) = {a} /\ list[i].parent = list[a].address
  <2>1. \A b \in Above(list, words, i) : b = a
    <3> SUFFICES ASSUME NEW b \in Above(list, words, i) PROVE b = a OBVIOUS
    <3>1. a \in Int /\ b \in Int BY DEF Above
    <3>2. ~(a < b) /\ ~(b < a) BY <1>4
    <3> QED BY <3>1, <3>2
  <2>2. Above(list, words, i) = {a} BY <2>1
  <2>3. (CHOOSE j \in Above(list, words, i) : TRUE) = a BY <2>2
  <2>4. list[i] = RowOf(items[i], "subordinate", list[a].address)
    BY <1>2, <2>2, <2>3 DEF RowFollows
  <2> QED BY <2>2, <2>4 DEF RowOf
<1>6. ASSUME NEW i \in 1..N PROVE RowIs(items, words, list, i) BY <1>3, <1>5 DEF RowIs
<1> QED BY <1>1, <1>6 DEF list

-----------------------------------------------------------------------------
(* The numbers of a table *)

\* The address of an item of RowsCover.
RowAddress(i) == Item(65534 + i, 0).address

\* Addresses repeat after all of them.
LEMMA AddressesDiffer ==
  ASSUME NEW i \in Int, NEW j \in Int, 1 <= i, 1 <= j, i <= MaxAddress + 1, j <= MaxAddress + 1,
         RowAddress(i) = RowAddress(j)
  PROVE  i = j
BY DEF RowAddress, Item, MaxAddress

\* RowsCover holds of every table.
LEMMA TableCovered ==
  ASSUME sample \in Samples PROVE RowsCover
<1> SUFFICES ASSUME sample.kind = "table" PROVE RowsCover BY DEF RowsCover
<1> DEFINE words == sample.words
<1>1. \E n \in 1..MaxItems : words \in [1..n -> {1, 2, 4}]
  BY DEF Samples, RequestSamples, TableSamples, PairSamples, AddressSamples
<1>2. PICK n \in 1..MaxItems : words \in [1..n -> {1, 2, 4}] BY <1>1
<1> HIDE DEF words
<1>3. n \in Int /\ 1 <= n /\ n <= MaxAddress + 1
  <2>1. MaxItems \in Nat /\ MaxItems <= MaxAddress + 1 BY SamplesReal
  <2> QED BY <2>1 DEF MaxAddress
<1> DEFINE items == [i \in DOMAIN words |-> Item(65534 + i, 0)]
           list == RenderData(items, words)
           Others(i) == {j \in DOMAIN list : list[j].kind = "subordinate" /\ list[j].parent = list[i].address}
<1>4. DOMAIN words = 1..n /\ Len(items) = n BY <1>2, <1>3
<1>5. \A i \in 1..n : items[i].address = RowAddress(i) BY <1>4 DEF RowAddress
<1>6. words \in [1..Len(items) -> Nat] BY <1>2, <1>4
<1>7. /\ Len(list) = n /\ DOMAIN list = 1..n
      /\ \A i \in 1..n : RowIs(items, words, list, i)
  <2> HIDE DEF items
  <2> QED BY <1>3, <1>4, <1>6, RowsAre
<1> HIDE DEF list, items
<1>8. \A i, j \in 1..n : list[i].address = list[j].address => i = j
  <2> SUFFICES ASSUME NEW i \in 1..n, NEW j \in 1..n, list[i].address = list[j].address PROVE i = j
    OBVIOUS
  <2>1. list[i].address = items[i].address /\ list[j].address = items[j].address
    BY <1>7 DEF RowIs
  <2>2. RowAddress(i) = RowAddress(j) BY <1>5, <2>1
  <2>3. i \in Int /\ j \in Int /\ 1 <= i /\ 1 <= j /\ i <= MaxAddress + 1 /\ j <= MaxAddress + 1 BY <1>3 DEF MaxAddress
  <2> HIDE DEF Others
  <2> QED BY <2>2, <2>3, AddressesDiffer
<1>9. \A i \in 1..n : Others(i) = {j \in 1..n : i \in Above(list, words, j)}
  <2> SUFFICES ASSUME NEW i \in 1..n, NEW j \in 1..n
               PROVE (list[j].kind = "subordinate" /\ list[j].parent = list[i].address)
                       <=> i \in Above(list, words, j)
    BY <1>7
  <2>1. RowIs(items, words, list, j) BY <1>7
  <2>2. ASSUME list[j].kind = "subordinate", list[j].parent = list[i].address
        PROVE i \in Above(list, words, j)
    <3>1. PICK p \in Above(list, words, j) : TRUE BY <2>1, <2>2 DEF RowIs
    <3>2. list[j].parent = list[p].address BY <2>1 DEF RowIs
    <3>3. p \in 1..n BY DEF Above
    <3> QED BY <1>8, <2>2, <3>2, <3>3
  <2>3. ASSUME i \in Above(list, words, j)
        PROVE list[j].kind = "subordinate" /\ list[j].parent = list[i].address
    BY <2>1, <2>3 DEF RowIs
  <2> QED BY <2>2, <2>3
<1>10. ASSUME NEW i \in 1..n, list[i].kind = "value" PROVE Others(i) = i + 1..i + words[i] - 1
  <2>1. i + words[i] - 1 <= n /\ words[i] \in {1, 2, 4} BY <1>2, <1>4, <1>7, <1>10 DEF RowIs
  <2> SUFFICES {j \in 1..n : i \in Above(list, words, j)} = i + 1..i + words[i] - 1 BY <1>9
  <2>2. ASSUME NEW j \in 1..n
        PROVE i \in Above(list, words, j) <=> i < j /\ j - i < words[i]
    BY <1>3, <1>10 DEF Above
  <2>3. {j \in 1..n : i < j /\ j - i < words[i]} = i + 1..i + words[i] - 1
    BY <1>3, <2>1
  <2> QED BY <2>2, <2>3
<1>11. ASSUME NEW i \in 1..n, list[i].kind = "incomplete"
       PROVE Others(i) = {} /\ i + words[i] - 1 > Len(list)
  <2>1. Others(i) = {} BY <1>9, <1>11 DEF Above
  <2>2. i + words[i] - 1 > Len(list) BY <1>4, <1>7, <1>11 DEF RowIs
  <2> QED BY <2>1, <2>2
<1>12. ASSUME NEW i \in 1..n, list[i].kind # "value", list[i].kind # "incomplete"
       PROVE \E j \in 1..i - 1 : list[j].kind = "value" /\ i \in Others(j)
  <2>1. Above(list, words, i) # {}
    <3>1. i + words[i] - 1 <= n \/ i + words[i] - 1 > n BY <1>2, <1>3
    <3>2. RowIs(items, words, list, i) BY <1>7
    <3> QED BY <1>4, <1>12, <3>1, <3>2 DEF RowIs
  <2>2. PICK j \in Above(list, words, i) : TRUE BY <2>1
  <2>3. j \in 1..i - 1 /\ list[j].kind = "value" BY DEF Above
  <2>4. j \in 1..n BY <1>3, <2>3
  <2> HIDE DEF Others
  <2>5. i \in Others(j) BY <1>9, <2>2, <2>4
  <2> QED BY <2>3, <2>5
<1>13. \A i \in 1..n :
         CASE list[i].kind = "value" -> Others(i) = i + 1..i + words[i] - 1
           [] list[i].kind = "incomplete" -> Others(i) = {} /\ i + words[i] - 1 > Len(list)
           [] OTHER -> \E j \in 1..i - 1 : list[j].kind = "value" /\ i \in Others(j)
  <2> HIDE DEF Others
  <2> QED BY <1>10, <1>11, <1>12
<1>14. /\ Len(list) = Len(items)
       /\ \A i \in DOMAIN list :
            CASE list[i].kind = "value" -> Others(i) = i + 1..i + words[i] - 1
              [] list[i].kind = "incomplete" -> Others(i) = {} /\ i + words[i] - 1 > Len(list)
              [] OTHER -> \E j \in 1..i - 1 : list[j].kind = "value" /\ i \in Others(j)
  <2> HIDE DEF Others
  <2> QED BY <1>4, <1>7, <1>13
<1> QED BY <1>14 DEF RowsCover, words, list, items

-----------------------------------------------------------------------------
(* The order of registers *)

IsWordValue(v) == v \in Int /\ 0 <= v /\ v <= MaxAddress

\* The words of a pair, byte by byte.
LEMMA PairBytes ==
  ASSUME NEW words, Len(words) = 2
  PROVE  BytesOf(words) = <<words[1] \div 256, words[1] % 256, words[2] \div 256, words[2] % 256>>
<1>1. 2 * Len(words) = 4 OBVIOUS
<1>2. BytesOf(words) = [k \in 1..4 |-> ToBigEndian(words[(k + 1) \div 2])[2 - (k % 2)]]
  BY <1>1 DEF BytesOf
<1>3. /\ ToBigEndian(words[(1 + 1) \div 2])[2 - (1 % 2)] = words[1] \div 256
      /\ ToBigEndian(words[(2 + 1) \div 2])[2 - (2 % 2)] = words[1] % 256
      /\ ToBigEndian(words[(3 + 1) \div 2])[2 - (3 % 2)] = words[2] \div 256
      /\ ToBigEndian(words[(4 + 1) \div 2])[2 - (4 % 2)] = words[2] % 256
  BY DEF ToBigEndian
<1> QED BY <1>2, <1>3

LEMMA WordBytes ==
  ASSUME NEW words, Len(words) = 1
  PROVE  BytesOf(words) = <<words[1] \div 256, words[1] % 256>>
<1>1. 2 * Len(words) = 2 OBVIOUS
<1>2. BytesOf(words) = [k \in 1..2 |-> ToBigEndian(words[(k + 1) \div 2])[2 - (k % 2)]]
  BY <1>1 DEF BytesOf
<1>3. /\ ToBigEndian(words[(1 + 1) \div 2])[2 - (1 % 2)] = words[1] \div 256
      /\ ToBigEndian(words[(2 + 1) \div 2])[2 - (2 % 2)] = words[1] % 256
  BY DEF ToBigEndian
<1> QED BY <1>2, <1>3

\* The order of four bytes, and of two.
LEMMA FourRearranged ==
  ASSUME NEW a, NEW b, NEW c, NEW d
  PROVE  /\ Rearrange(<<a, b, c, d>>, "ABCD") = <<a, b, c, d>>
         /\ Rearrange(<<a, b, c, d>>, "BADC") = <<b, a, d, c>>
         /\ Rearrange(<<a, b, c, d>>, "CDAB") = <<c, d, a, b>>
         /\ Rearrange(<<a, b, c, d>>, "DCBA") = <<d, c, b, a>>
<1>1. Reverse(<<a, b, c, d>>) = <<d, c, b, a>>
  <2>1. Reverse(<<a, b, c, d>>) = [i \in 1..4 |-> <<a, b, c, d>>[(4 - i) + 1]] BY DEF Reverse
  <2> QED BY <2>1
<1>2. \A p, q, r, s : SwapBytes(<<p, q, r, s>>) = <<q, p, s, r>>
  <2> SUFFICES ASSUME NEW p, NEW q, NEW r, NEW s PROVE SwapBytes(<<p, q, r, s>>) = <<q, p, s, r>>
    OBVIOUS
  <2>1. SwapBytes(<<p, q, r, s>>) = [i \in 1..4 |-> <<p, q, r, s>>[IF i % 2 = 1 THEN i + 1 ELSE i - 1]]
    BY DEF SwapBytes
  <2>2. 1 % 2 = 1 /\ 2 % 2 = 0 /\ 3 % 2 = 1 /\ 4 % 2 = 0 OBVIOUS
  <2> QED BY <2>1, <2>2
<1> QED BY <1>1, <1>2 DEF Rearrange

LEMMA TwoRearranged ==
  ASSUME NEW a, NEW b
  PROVE  /\ Rearrange(<<a, b>>, "ABCD") = <<a, b>>
         /\ Rearrange(<<a, b>>, "BADC") = <<b, a>>
         /\ Rearrange(<<a, b>>, "CDAB") = <<a, b>>
         /\ Rearrange(<<a, b>>, "DCBA") = <<b, a>>
<1>1. Reverse(<<a, b>>) = <<b, a>>
  <2>1. Reverse(<<a, b>>) = [i \in 1..2 |-> <<a, b>>[(2 - i) + 1]] BY DEF Reverse
  <2> QED BY <2>1
<1>2. \A p, q : SwapBytes(<<p, q>>) = <<q, p>>
  <2> SUFFICES ASSUME NEW p, NEW q PROVE SwapBytes(<<p, q>>) = <<q, p>>
    OBVIOUS
  <2>1. SwapBytes(<<p, q>>) = [i \in 1..2 |-> <<p, q>>[IF i % 2 = 1 THEN i + 1 ELSE i - 1]]
    BY DEF SwapBytes
  <2>2. 1 % 2 = 1 /\ 2 % 2 = 0 OBVIOUS
  <2> QED BY <2>1, <2>2
<1> QED BY <1>1, <1>2 DEF Rearrange

\* A number of two bytes has them.
LEMMA TwoBytes ==
  ASSUME NEW q \in Nat, NEW p \in 0..255
  PROVE  (q * 256 + p) \div 256 = q /\ (q * 256 + p) % 256 = p
OBVIOUS

LEMMA SwappedBytes ==
  ASSUME NEW v, IsWordValue(v)
  PROVE  Swapped(v) \div 256 = v % 256 /\ Swapped(v) % 256 = v \div 256
<1>1. v \in Int /\ 0 <= v /\ v <= 65535 BY DEF IsWordValue, MaxAddress
<1>2. v % 256 \in 0..255 /\ v \div 256 \in 0..255 BY <1>1
<1> DEFINE q == v % 256
           p == v \div 256
<1>3. Swapped(v) = q * 256 + p BY DEF Swapped
<1>4. q \in Nat /\ p \in 0..255 BY <1>2
<1> HIDE DEF p, q
<1>5. (q * 256 + p) \div 256 = q /\ (q * 256 + p) % 256 = p BY <1>4, TwoBytes, ZenonT(30)
<1> QED BY <1>3, <1>5 DEF p, q

\* The parser's order of a pair, on values.
PairOf(order, a, b) ==
  CASE order = "ABCD" -> <<a, b>> [] order = "BADC" -> <<Swapped(a), Swapped(b)>>
    [] order = "CDAB" -> <<b, a>> [] order = "DCBA" -> <<Swapped(b), Swapped(a)>>
WordOf(order, a) == IF order \in {"BADC", "DCBA"} THEN Swapped(a) ELSE a

Values(words, order) ==
  LET frame == [fc |-> 3, items |-> [i \in DOMAIN words |-> Item(i, words[i])]]
      after == ApplyRegisterOrder(frame, order).items IN
  [i \in DOMAIN words |-> after[i].value]

LEMMA PairOrdered ==
  ASSUME NEW order \in Orders, NEW a, NEW b, IsWordValue(a), IsWordValue(b)
  PROVE  Values(<<a, b>>, order) = PairOf(order, a, b)
<1> DEFINE words == <<a, b>>
           items == [i \in 1..2 |-> Item(i, words[i])]
           frame == [fc |-> 3, items |-> items]
<1>1. DOMAIN words = 1..2 /\ words[1] = a /\ words[2] = b OBVIOUS
<1>2. a # NoValue /\ b # NoValue BY DEF IsWordValue, NoValue
<1>3. items[1].value = a /\ items[2].value = b /\ DOMAIN items = 1..2 BY DEF Item
<1>4. \A i \in 1..2 : items[i] = [address |-> items[i].address, value |-> items[i].value] BY DEF Item
<1>5. Values(words, order) = [i \in 1..2 |-> ApplyRegisterOrder(frame, order).items[i].value]
  BY <1>1 DEF Values
<1> HIDE DEF items
<1>6. frame.items = items /\ frame.fc = 3 OBVIOUS
<1>7. /\ 1 % 2 = 1 /\ 2 % 2 = 0 /\ 1 + 1 = 2 /\ 2 - 1 = 1 OBVIOUS
<1> DEFINE ordered(e) == [frame EXCEPT !.items = e]
<1>8. CASE order = "ABCD"
  <2>1. ApplyRegisterOrder(frame, order).items = items BY <1>6, <1>8 DEF ApplyRegisterOrder
  <2> QED BY <1>3, <1>5, <1>8, <2>1 DEF PairOf
<1>9. CASE order = "BADC"
  <2>1. ApplyRegisterOrder(frame, order).items = [i \in 1..2 |-> SwapItem(items[i])]
    BY <1>3, <1>6, <1>9 DEF ApplyRegisterOrder, ReadRegisters
  <2>2. SwapItem(items[1]).value = Swapped(a) /\ SwapItem(items[2]).value = Swapped(b)
    BY <1>2, <1>3, <1>4 DEF SwapItem
  <2> QED BY <1>5, <1>9, <2>1, <2>2 DEF PairOf
<1>10. CASE order = "CDAB"
  <2>1. ApplyRegisterOrder(frame, order).items =
          [i \in 1..2 |-> [items[i] EXCEPT !.value = items[IF i % 2 = 0 THEN i - 1 ELSE i + 1].value]]
    BY <1>3, <1>6, <1>7, <1>10 DEF ApplyRegisterOrder, ReadRegisters
  <2>2. ApplyRegisterOrder(frame, order).items[1].value = b /\ ApplyRegisterOrder(frame, order).items[2].value = a
    BY <1>3, <1>4, <1>7, <2>1
  <2> QED BY <1>5, <1>10, <2>2 DEF PairOf
<1>11. CASE order = "DCBA"
  <2> DEFINE w(i) == [items[i] EXCEPT !.value = items[IF i % 2 = 0 THEN i - 1 ELSE i + 1].value]
  <2>1. ApplyRegisterOrder(frame, order).items = [i \in 1..2 |-> SwapItem(w(i))]
    BY <1>3, <1>6, <1>7, <1>11 DEF ApplyRegisterOrder, ReadRegisters
  <2>2. w(1) = [address |-> items[1].address, value |-> b] /\ w(2) = [address |-> items[2].address, value |-> a]
    BY <1>3, <1>4, <1>7
  <2> HIDE DEF w
  <2>3. SwapItem(w(1)).value = Swapped(b) /\ SwapItem(w(2)).value = Swapped(a)
    BY <1>2, <2>2 DEF SwapItem
  <2> QED BY <1>5, <1>11, <2>1, <2>3 DEF PairOf
<1> QED BY <1>8, <1>9, <1>10, <1>11 DEF Orders

LEMMA WordOrdered ==
  ASSUME NEW order \in Orders, NEW a, IsWordValue(a)
  PROVE  Values(<<a>>, order) = <<WordOf(order, a)>>
<1> DEFINE words == <<a>>
           items == [i \in 1..1 |-> Item(i, words[i])]
           frame == [fc |-> 3, items |-> items]
<1>1. DOMAIN words = 1..1 /\ words[1] = a OBVIOUS
<1>2. a # NoValue BY DEF IsWordValue, NoValue
<1>3. items[1].value = a /\ DOMAIN items = 1..1 BY DEF Item
<1>4. items[1] = [address |-> items[1].address, value |-> items[1].value] BY DEF Item
<1>5. Values(words, order) = [i \in 1..1 |-> ApplyRegisterOrder(frame, order).items[i].value]
  BY <1>1 DEF Values
<1> HIDE DEF items
<1>6. frame.items = items /\ frame.fc = 3 OBVIOUS
<1>7. 1 % 2 = 1 /\ 1 + 1 = 2 /\ 2 \notin 1..1 /\ \A i \in 1..1 : i = 1 OBVIOUS
<1>8. CASE order \in {"ABCD", "CDAB"}
  <2>1. ApplyRegisterOrder(frame, order).items[1] = items[1]
    BY <1>3, <1>6, <1>7, <1>8 DEF ApplyRegisterOrder, ReadRegisters
  <2> QED BY <1>3, <1>5, <1>8, <2>1 DEF WordOf
<1>9. CASE order \in {"BADC", "DCBA"}
  <2>1. ApplyRegisterOrder(frame, order).items[1] = SwapItem(items[1])
    BY <1>3, <1>6, <1>7, <1>9 DEF ApplyRegisterOrder, ReadRegisters
  <2>2. SwapItem(items[1]).value = Swapped(a) BY <1>2, <1>3, <1>4 DEF SwapItem
  <2> QED BY <1>5, <1>9, <2>1, <2>2 DEF WordOf
<1> QED BY <1>8, <1>9 DEF Orders

LEMMA FirstAll ==
  ASSUME NEW S, NEW s \in Seq(S) PROVE First(Len(s), s) = s
<1>1. First(Len(s), s) = SubSeq(s, 1, Len(s)) BY DEF First
<1> QED BY <1>1

\* The decoder's order, on the bytes.
LEMMA PairDecoded ==
  ASSUME NEW a, NEW b, NEW c, NEW d, NEW order
  PROVE  DecodeRegister(<<a, b, c, d>>, "UInt32", order).bytes = Rearrange(<<a, b, c, d>>, order)
<1>1. WordsOf("UInt32") = 2 BY DEF WordsOf
<1>2. First(4, <<a, b, c, d>>) = <<a, b, c, d>>
  <2>1. <<a, b, c, d>> \in Seq({a, b, c, d}) /\ Len(<<a, b, c, d>>) = 4 OBVIOUS
  <2> QED BY <2>1, FirstAll
<1> QED BY <1>1, <1>2 DEF DecodeRegister

LEMMA WordDecoded ==
  ASSUME NEW a, NEW b, NEW order
  PROVE  DecodeRegister(<<a, b>>, "UInt16", order).bytes = Rearrange(<<a, b>>, order)
<1>1. WordsOf("UInt16") = 1 BY DEF WordsOf
<1>2. First(2, <<a, b>>) = <<a, b>>
  <2>1. <<a, b>> \in Seq({a, b}) /\ Len(<<a, b>>) = 2 OBVIOUS
  <2> QED BY <2>1, FirstAll
<1> QED BY <1>1, <1>2 DEF DecodeRegister

LEMMA OrdersAgreeOn ==
  ASSUME sample \in Samples PROVE OrdersAgree
<1> SUFFICES ASSUME sample.kind = "pair" PROVE OrdersAgree BY DEF OrdersAgree
<1> DEFINE a == sample.first
           b == sample.second
           o == sample.order
<1>1. a \in Words /\ b \in Words /\ o \in Orders
  BY DEF Samples, RequestSamples, TableSamples, PairSamples, AddressSamples
<1>2. Words \subseteq 0..MaxAddress BY SamplesReal
<1> HIDE DEF a, b, o
<1>3. IsWordValue(a) /\ IsWordValue(b)
  <2>1. MaxAddress \in Int BY DEF MaxAddress
  <2> QED BY <1>1, <1>2, <2>1 DEF IsWordValue
<1>4. BytesOf(Values(<<a, b>>, o)) = DecodeRegister(BytesOf(<<a, b>>), "UInt32", o).bytes
  <2>1. BytesOf(<<a, b>>) = <<a \div 256, a % 256, b \div 256, b % 256>> BY PairBytes
  <2>2. DecodeRegister(BytesOf(<<a, b>>), "UInt32", o).bytes
          = Rearrange(<<a \div 256, a % 256, b \div 256, b % 256>>, o)
    BY <2>1, PairDecoded
  <2>3. Values(<<a, b>>, o) = PairOf(o, a, b) BY <1>1, <1>3, PairOrdered
  <2>4. \A p, q : BytesOf(<<p, q>>) = <<p \div 256, p % 256, q \div 256, q % 256>> BY PairBytes
  <2>5. /\ Swapped(a) \div 256 = a % 256 /\ Swapped(a) % 256 = a \div 256
        /\ Swapped(b) \div 256 = b % 256 /\ Swapped(b) % 256 = b \div 256
    BY <1>3, SwappedBytes
  <2>6. CASE o = "ABCD"
    <3>1. Values(<<a, b>>, o) = <<a, b>> BY <2>3, <2>6 DEF PairOf
    <3> QED BY <2>2, <2>4, <2>6, <3>1, FourRearranged
  <2>7. CASE o = "BADC"
    <3>1. Values(<<a, b>>, o) = <<Swapped(a), Swapped(b)>> BY <2>3, <2>7 DEF PairOf
    <3> QED BY <2>2, <2>4, <2>5, <2>7, <3>1, FourRearranged
  <2>8. CASE o = "CDAB"
    <3>1. Values(<<a, b>>, o) = <<b, a>> BY <2>3, <2>8 DEF PairOf
    <3> QED BY <2>2, <2>4, <2>8, <3>1, FourRearranged
  <2>9. CASE o = "DCBA"
    <3>1. Values(<<a, b>>, o) = <<Swapped(b), Swapped(a)>> BY <2>3, <2>9 DEF PairOf
    <3> QED BY <2>2, <2>4, <2>5, <2>9, <3>1, FourRearranged
  <2> QED BY <1>1, <2>6, <2>7, <2>8, <2>9 DEF Orders
<1>5. BytesOf(Values(<<a>>, o)) = DecodeRegister(BytesOf(<<a>>), "UInt16", o).bytes
  <2>1. \A p : BytesOf(<<p>>) = <<p \div 256, p % 256>> BY WordBytes
  <2>2. DecodeRegister(BytesOf(<<a>>), "UInt16", o).bytes = Rearrange(<<a \div 256, a % 256>>, o)
    BY <2>1, WordDecoded
  <2>3. Values(<<a>>, o) = <<WordOf(o, a)>> BY <1>1, <1>3, WordOrdered
  <2>4. Swapped(a) \div 256 = a % 256 /\ Swapped(a) % 256 = a \div 256
    BY <1>3, SwappedBytes
  <2>5. CASE o \in {"ABCD", "CDAB"}
    <3>1. Values(<<a>>, o) = <<a>> BY <2>3, <2>5 DEF WordOf
    <3> QED BY <2>1, <2>2, <2>5, <3>1, TwoRearranged
  <2>6. CASE o \in {"BADC", "DCBA"}
    <3>1. Values(<<a>>, o) = <<Swapped(a)>> BY <2>3, <2>6 DEF WordOf
    <3> QED BY <2>1, <2>2, <2>4, <2>6, <3>1, TwoRearranged
  <2> QED BY <1>1, <2>5, <2>6 DEF Orders
<1> QED BY <1>4, <1>5 DEF OrdersAgree, Values, a, b, o

-----------------------------------------------------------------------------
(* Addresses as the table shows them *)

\* Six digits are not enough for a number below a hundred thousand and one.
LEMMA AddressReturns ==
  ASSUME sample \in Samples PROVE AddressReadsBack
<1> SUFFICES ASSUME sample.kind = "address" PROVE AddressReadsBack BY DEF AddressReadsBack
<1> DEFINE a == sample.address
           shown == ToDisplayAddress(a, sample.base, sample.hex)
<1>1. a \in Addresses /\ sample.base \in {"0Based", "1Based"} /\ sample.hex \in BOOLEAN
  BY DEF Samples, RequestSamples, TableSamples, PairSamples, AddressSamples
<1>2. Addresses \subseteq 0..MaxAddress BY SamplesReal
<1> HIDE DEF a
<1>3. MaxAddress \in Int /\ a \in 0..MaxAddress
  <2>1. MaxAddress \in Int BY DEF MaxAddress
  <2> QED BY <1>1, <1>2, <2>1
<1>4. CASE sample.base = "0Based"
  <2>1. shown.value = a BY <1>4 DEF ToDisplayAddress, Hex, Decimal
  <2>2. ToPduAddress(shown, sample.base) = {a} BY <1>3, <1>4, <2>1 DEF ToPduAddress
  <2> QED BY <2>2 DEF AddressReadsBack, a
<1>5. CASE sample.base = "1Based"
  <2>1. shown.value = a + 1 /\ shown.hex = sample.hex
    BY <1>1, <1>5 DEF ToDisplayAddress, Hex, Decimal
  <2> DEFINE modicon == {m \in ModiconBases(shown.digits) : shown.value \in m[1]..m[2]}
  <2> HIDE DEF shown
  <2>2. shown.value \in 1..MaxAddress + 1 /\ shown.value - 1 = a BY <1>3, <2>1
  <2>3. CASE sample.hex \/ modicon = {}
    <3>1. ToPduAddress(shown, sample.base) = {a} BY <1>5, <2>1, <2>2, <2>3 DEF ToPduAddress
    <3> QED BY <3>1 DEF AddressReadsBack, a, shown
  <2>4. CASE ~sample.hex /\ modicon # {}
    <3>1. PICK m \in ModiconBases(shown.digits) : shown.value \in m[1]..m[2] BY <2>4
    <3>2. shown.digits # 6
      <4> SUFFICES ASSUME shown.digits = 6 PROVE FALSE OBVIOUS
      <4>1. m[1] \in Int /\ m[2] \in Int /\ m[1] > 65536 BY <3>1 DEF ModiconBases
      <4>2. shown.value \in Int /\ shown.value <= MaxAddress + 1 BY <1>3, <2>1
      <4>3. shown.value >= m[1] BY <3>1, <4>1, <4>2
      <4> QED BY <4>1, <4>2, <4>3 DEF MaxAddress
    <3>3. m \in ModiconBases(5) BY <3>1, <3>2 DEF ModiconBases
    <3> QED BY <1>5, <2>4, <3>1, <3>3 DEF AddressReadsBack, a, shown
  <2> QED BY <1>1, <2>3, <2>4
<1> QED BY <1>1, <1>4, <1>5

-----------------------------------------------------------------------------
(* Types given to a block of rows *)

\* Multiples of the words of a type lie that many apart.
LEMMA Multiples ==
  ASSUME NEW type \in TypeWords, NEW a \in Int, a % type = 0
  PROVE  /\ (a + type) % type = 0
         /\ \A d \in 1..type - 1 : (a + d) % type # 0
         /\ \A b \in Int : a < b /\ b % type = 0 => a + type <= b
<1>1. CASE type = 1 BY <1>1
<1>2. CASE type = 2 BY <1>2
<1>3. CASE type = 4 BY <1>3
<1> QED BY <1>1, <1>2, <1>3 DEF TypeWords

LEMMA Multiplied ==
  ASSUME NEW type \in TypeWords, NEW m \in Nat
  PROVE  /\ (m * type) % type = 0 /\ m * type \in Nat
         /\ \A a \in Nat : a % type \in 0..type - 1 /\ a % type <= a /\ (a - (a % type)) % type = 0
<1>1. CASE type = 1 BY <1>1
<1>2. CASE type = 2 BY <1>2
<1>3. CASE type = 4 BY <1>3
<1> QED BY <1>1, <1>2, <1>3 DEF TypeWords

\* The types when the block is done up to k.
TypesTo(first, type, k) ==
  [r \in RowNumbers |->
     IF first <= r /\ r < k THEN IF (r - first) % type = 0 THEN type ELSE Default ELSE customType[r]]

\* Where the loop is after row n.
NextIs(first, last, type, n, k) ==
  /\ k \in Int
  /\ n < first => k = 1
  /\ n >= first => (k - first) % type = 0 /\ first < k /\ k <= last + 1
  /\ first <= n /\ n <= last => n < k
  /\ n > last => k = last + 1

StateIs(first, last, type, n, state) ==
  \E k \in Int : NextIs(first, last, type, n, k) /\ state = [types |-> TypesTo(first, type, k), next |-> k]

BatchStep(selected, type, state, row) ==
  IF row \notin selected \/ row < state.next THEN state
  ELSE LET run == {r \in row..row + type - 1 : \A q \in row..r : q \in selected} IN
       [types |-> [r \in RowNumbers |-> IF r = row THEN type
                     ELSE IF r \in run THEN Default ELSE state.types[r]],
        next |-> row + Cardinality(run)]

LEMMA BatchStepIs ==
  ASSUME NEW type \in TypeWords, NEW first \in RowNumbers, NEW m \in Nat \ {0}, NEW last \in Int,
         last = first + m * type - 1, NEW n \in Nat,
         NEW state, StateIs(first, last, type, n, state)
  PROVE  StateIs(first, last, type, n + 1, BatchStep(first..last, type, state, n + 1))
<1> DEFINE row == n + 1
           next == BatchStep(first..last, type, state, row)
<1> SUFFICES StateIs(first, last, type, row, next) OBVIOUS
<1>0. type \in Int /\ type >= 1 /\ first \in Int /\ first >= 1 BY RowsPositive DEF TypeWords, RowNumbers
<1>1. PICK k \in Int : NextIs(first, last, type, n, k) /\ state = [types |-> TypesTo(first, type, k), next |-> k]
  BY DEF StateIs
<1>2. state.next = k /\ state.types = TypesTo(first, type, k) BY <1>1
<1>3. (last + 1 - first) % type = 0 /\ last >= first
  <2>1. (m * type) % type = 0 /\ m * type \in Nat BY Multiplied
  <2>2. m * type >= 1 BY <1>0
  <2>3. last + 1 - first = m * type BY <1>0, <2>1
  <2> QED BY <1>0, <2>1, <2>2, <2>3
<1>4. CASE row \notin first..last \/ row < k
  <2>1. next = state BY <1>2, <1>4 DEF BatchStep
  <2>2. NextIs(first, last, type, row, k)
    <3> USE DEF NextIs
    <3>1. CASE row < first BY <1>0, <1>1, <1>3, <3>1
    <3>2. CASE row >= first /\ row <= last BY <1>0, <1>1, <1>3, <1>4, <3>2
    <3>3. CASE row > last
      <4>1. CASE n > last BY <1>0, <1>1, <1>3, <4>1
      <4>2. CASE n = last
        <5>1. n < k /\ k <= last + 1 /\ (k - first) % type = 0 /\ first < k BY <1>0, <1>1, <1>3, <4>2
        <5>2. k = last + 1 BY <4>2, <5>1
        <5> QED BY <1>0, <3>3, <5>1, <5>2
      <4> QED BY <3>3, <4>1, <4>2
    <3> QED BY <1>0, <3>1, <3>2, <3>3
  <2>3. state = [types |-> TypesTo(first, type, k), next |-> k] BY <1>1
  <2> HIDE DEF next
  <2> QED BY <2>1, <2>2, <2>3 DEF StateIs
<1>5. CASE row \in first..last /\ ~(row < k)
  <2>1. (row - first) % type = 0 /\ (k = row \/ (k = 1 /\ row = first))
    <3>1. CASE n < first
      <4>1. row = first /\ k = 1 BY <1>0, <1>1, <1>5, <3>1 DEF NextIs
      <4>2. row - first = 0 /\ 0 % type = 0 BY <1>0, <4>1
      <4> QED BY <4>1, <4>2
    <3>2. CASE n >= first
      <4>1. n < k /\ (k - first) % type = 0 BY <1>0, <1>1, <1>5, <3>2 DEF NextIs
      <4>2. k = row BY <1>5, <4>1
      <4> QED BY <4>1, <4>2
    <3> QED BY <1>0, <3>1, <3>2
  <2>2. row + type - 1 <= last
    <3>1. row - first \in Int /\ last + 1 - first \in Int /\ row - first < last + 1 - first BY <1>0, <1>5
    <3>2. (row - first) + type <= last + 1 - first BY <1>3, <2>1, <3>1, Multiples
    <3> QED BY <1>0, <3>2
  <2> DEFINE run == {r \in row..row + type - 1 : \A q \in row..r : q \in first..last}
             k1 == row + type
  <2>3. run = row..row + type - 1 BY <1>0, <1>5, <2>2
  <2>4. Cardinality(run) = type
    <3>1. row \in Int /\ row + type - 1 \in Int BY <1>0
    <3>2. Cardinality(row..row + type - 1) = IF row > row + type - 1 THEN 0 ELSE (row + type - 1) - row + 1
      BY <3>1, FS_Interval
    <3>3. (row + type - 1) - row + 1 = type /\ ~(row > row + type - 1) BY <1>0
    <3> HIDE DEF row, run
    <3> QED BY <2>3, <3>2, <3>3
  <2>5. next = [types |-> [r \in RowNumbers |-> IF r = row THEN type
                             ELSE IF r \in run THEN Default ELSE TypesTo(first, type, k)[r]],
                next |-> k1]
    <3>1. next = [types |-> [r \in RowNumbers |-> IF r = row THEN type
                               ELSE IF r \in run THEN Default ELSE state.types[r]],
                  next |-> row + Cardinality(run)]
      BY <1>2, <1>5 DEF BatchStep
    <3> HIDE DEF run
    <3> QED BY <1>2, <2>4, <3>1
  <2>6. ASSUME NEW r \in RowNumbers
        PROVE (IF r = row THEN type ELSE IF r \in run THEN Default ELSE TypesTo(first, type, k)[r])
                = TypesTo(first, type, k1)[r]
    <3>0. r \in Int /\ r >= 1 BY DEF RowNumbers
    <3>1. /\ TypesTo(first, type, k)[r]
               = IF first <= r /\ r < k THEN IF (r - first) % type = 0 THEN type ELSE Default ELSE customType[r]
          /\ TypesTo(first, type, k1)[r]
               = IF first <= r /\ r < k1 THEN IF (r - first) % type = 0 THEN type ELSE Default ELSE customType[r]
      BY DEF TypesTo
    <3>2. CASE r = row
      <4>1. first <= r /\ r < k1 BY <1>0, <1>5, <3>2
      <4> QED BY <2>1, <3>1, <3>2, <4>1
    <3>3. CASE r \in run /\ r # row
      <4>1. r \in row + 1..row + type - 1 BY <1>0, <2>3, <3>0, <3>3
      <4>2. r - row \in 1..type - 1 /\ r - first = (row - first) + (r - row) /\ row - first \in Int
        BY <1>0, <3>0, <4>1
      <4>3. (r - first) % type # 0 BY <2>1, <4>2, Multiples
      <4>4. first <= r /\ r < k1 BY <1>0, <1>5, <4>1
      <4> QED BY <3>1, <3>3, <4>3, <4>4
    <3>4. CASE r \notin run /\ r # row
      <4>1. r < row \/ r > row + type - 1
        <5> HIDE DEF run
        <5> QED BY <1>0, <2>3, <3>0, <3>4
      <4>2. (first <= r /\ r < k) <=> (first <= r /\ r < k1) BY <1>0, <1>5, <2>1, <3>0, <4>1
      <4> HIDE DEF run
      <4> QED BY <3>1, <3>4, <4>2
    <3> QED BY <3>2, <3>3, <3>4
  <2>7. TypesTo(first, type, k1) = [r \in RowNumbers |-> TypesTo(first, type, k1)[r]] BY DEF TypesTo
  <2>8. next = [types |-> TypesTo(first, type, k1), next |-> k1]
    <3> HIDE DEF run, k1, row
    <3> QED BY <2>5, <2>6, <2>7
  <2>9. NextIs(first, last, type, row, k1)
    <3>1. k1 - first = (row - first) + type /\ row - first \in Int BY <1>0
    <3>2. (k1 - first) % type = 0 BY <2>1, <3>1, Multiples
    <3>3. k1 \in Int /\ ~(row < first) /\ first < k1 /\ k1 <= last + 1 /\ row < k1 /\ ~(row > last)
      BY <1>0, <1>5, <2>2
    <3> HIDE DEF k1
    <3> QED BY <3>2, <3>3 DEF NextIs
  <2>10. k1 \in Int BY <1>0
  <2> HIDE DEF next, k1
  <2> QED BY <2>8, <2>9, <2>10 DEF StateIs
<1> QED BY <1>4, <1>5

\* The loop goes through the rows in order, from the types as they are.
LEMMA BatchSteps ==
  ASSUME NEW selected, NEW type
  PROVE  \E after : /\ after[0] = [types |-> customType, next |-> 1]
                    /\ \A n \in 1..Rows : after[n] = BatchStep(selected, type, after[n - 1], n)
                    /\ BatchTypes(selected, type) = after[Rows].types
<1> DEFINE base == [types |-> customType, next |-> 1]
           After(f, k) == f = [n \in 0..k |-> IF n = 0 THEN base ELSE BatchStep(selected, type, f[n - 1], n)]
           T == {k \in 0..Rows : \E f : After(f, k)}
           after[n \in 0..Rows] == IF n = 0 THEN base ELSE BatchStep(selected, type, after[n - 1], n)
<1>0. Rows \in Nat BY RowsPositive
<1> HIDE DEF base
<1>1. 0 \in T
  <2> DEFINE f == [n \in 0..0 |-> base]
  <2>1. After(f, 0) OBVIOUS
  <2> HIDE DEF After, f
  <2> QED BY <1>0, <2>1
<1>2. ASSUME NEW k \in 0..Rows - 1, k \in T PROVE k + 1 \in T
  <2>1. PICK f : After(f, k) BY <1>2
  <2> DEFINE g == [n \in 0..k + 1 |-> IF n = k + 1 THEN BatchStep(selected, type, f[k], k + 1) ELSE f[n]]
  <2>2. ASSUME NEW n \in 0..k + 1
        PROVE g[n] = IF n = 0 THEN base ELSE BatchStep(selected, type, g[n - 1], n)
    <3>1. CASE n = k + 1
      <4>1. g[n] = BatchStep(selected, type, f[k], n) /\ g[n - 1] = f[k] /\ n # 0 BY <3>1
      <4> HIDE DEF g
      <4> QED BY <4>1
    <3>2. CASE n \in 1..k
      <4>1. g[n] = f[n] /\ g[n - 1] = f[n - 1] /\ n # 0 BY <3>2
      <4>2. f[n] = BatchStep(selected, type, f[n - 1], n) BY <2>1, <3>2
      <4> HIDE DEF g
      <4> QED BY <4>1, <4>2
    <3>3. CASE n = 0
      <4>1. g[n] = f[n] BY <3>3
      <4>2. f[n] = base BY <2>1, <3>3
      <4> HIDE DEF g
      <4> QED BY <4>1, <4>2, <3>3
    <3> QED BY <3>1, <3>2, <3>3
  <2>3. g = [n \in 0..k + 1 |-> g[n]] OBVIOUS
  <2> HIDE DEF g
  <2>4. After(g, k + 1) BY <2>2, <2>3
  <2> HIDE DEF After
  <2> QED BY <1>0, <2>4
<1>3. \E f : After(f, Rows)
  <2> HIDE DEF After
  <2>1. 0..Rows \subseteq T
    <3> HIDE DEF T
    <3> QED BY <1>0, <1>1, <1>2, Induction
  <2> QED BY <1>0, <2>1
<1>4. after = [n \in 0..Rows |-> IF n = 0 THEN base ELSE BatchStep(selected, type, after[n - 1], n)]
  BY <1>3
<1>5. BatchTypes(selected, type) = after[Rows].types BY DEF BatchTypes, BatchStep, base
<1> HIDE DEF after
<1>6. after[0] = base BY <1>0, <1>4
<1>7. ASSUME NEW n \in 1..Rows PROVE after[n] = BatchStep(selected, type, after[n - 1], n)
  <2>1. n \in 0..Rows /\ n # 0 BY <1>0
  <2> QED BY <1>4, <2>1
<1> QED BY <1>5, <1>6, <1>7 DEF base

\* A block of whole numbers gets the type at every first word, and gives the types of the
\* other words up.
LEMMA BatchTypesAre ==
  ASSUME NEW type \in TypeWords, NEW first \in RowNumbers, NEW m \in Nat \ {0}, NEW last \in Int,
         last = first + m * type - 1, last <= Rows, customType \in [RowNumbers -> TypeWords \cup {Default}]
  PROVE  BatchTypes(first..last, type) = TypesTo(first, type, last + 1)
<1> DEFINE selected == first..last
<1>1. PICK after : /\ after[0] = [types |-> customType, next |-> 1]
                   /\ \A n \in 1..Rows : after[n] = BatchStep(selected, type, after[n - 1], n)
                   /\ BatchTypes(selected, type) = after[Rows].types
  BY BatchSteps
<1>2. Rows \in Nat /\ first \in Int /\ first >= 1 BY RowsPositive DEF RowNumbers
<1> HIDE DEF selected
<1> DEFINE T == {n \in 0..Rows : StateIs(first, last, type, n, after[n])}
<1>3. 0 \in T
  <2>1. customType = TypesTo(first, type, 1)
    <3>1. \A r \in RowNumbers : ~(first <= r /\ r < 1) BY <1>2 DEF RowNumbers
    <3> QED BY <3>1 DEF TypesTo
  <2>2. NextIs(first, last, type, 0, 1)
    <3>1. last >= first - 1
      <4>1. m * type \in Nat BY Multiplied
      <4> QED BY <1>2, <4>1
    <3> QED BY <1>2, <3>1 DEF NextIs
  <2>3. StateIs(first, last, type, 0, after[0]) BY <1>1, <2>1, <2>2 DEF StateIs
  <2> QED BY <1>2, <2>3
<1>4. ASSUME NEW n \in 0..Rows - 1, n \in T PROVE n + 1 \in T
  <2>1. n \in Nat /\ n + 1 \in 1..Rows /\ n + 1 \in 0..Rows /\ (n + 1) - 1 = n BY <1>2
  <2>2. after[n + 1] = BatchStep(selected, type, after[n], n + 1) BY <1>1, <2>1
  <2>3. StateIs(first, last, type, n, after[n]) BY <1>4
  <2>4. StateIs(first, last, type, n + 1, BatchStep(first..last, type, after[n], n + 1))
    BY <2>1, <2>3, BatchStepIs
  <2> QED BY <2>1, <2>2, <2>4 DEF selected
<1> HIDE DEF T
<1>5. 0..Rows \subseteq T BY <1>2, <1>3, <1>4, Induction
<1>6. StateIs(first, last, type, Rows, after[Rows]) BY <1>2, <1>5 DEF T
<1>7. PICK k \in Int : /\ NextIs(first, last, type, Rows, k)
                       /\ after[Rows] = [types |-> TypesTo(first, type, k), next |-> k]
  BY <1>6 DEF StateIs
<1>8. k = last + 1
  <2>1. last >= first
    <3>1. m * type \in Nat /\ m * type >= 1
      <4>1. CASE type = 1 BY <4>1
      <4>2. CASE type = 2 BY <4>2
      <4>3. CASE type = 4 BY <4>3
      <4> QED BY <4>1, <4>2, <4>3 DEF TypeWords
    <3> QED BY <1>2, <3>1
  <2> QED BY <1>2, <1>7, <2>1 DEF NextIs
<1> QED BY <1>1, <1>7, <1>8 DEF selected

-----------------------------------------------------------------------------
(* The rows of the table *)

WidthsOf(types, global) == [i \in RowNumbers |-> IF types[i] = Default THEN global ELSE types[i]]
TableItems == [i \in RowNumbers |-> Item(i, 0)]

\* The rows follow from the types, which are what they should be.
TableInv ==
  /\ customType \in [RowNumbers -> TypeWords \cup {Default}]
  /\ globalType \in TypeWords
  /\ rows = Rendered(customType, globalType)

LEMMA RenderedAre ==
  ASSUME NEW types \in [RowNumbers -> TypeWords \cup {Default}], NEW global \in TypeWords
  PROVE  LET list == RenderData(TableItems, WidthsOf(types, global)) IN
         /\ Rendered(types, global) = [i \in RowNumbers |-> list[i].kind]
         /\ \A i \in RowNumbers : RowIs(TableItems, WidthsOf(types, global), list, i)
         /\ Len(TableItems) = Rows
<1>1. Rows \in Nat /\ Len(TableItems) = Rows BY RowsPositive DEF TableItems, RowNumbers
<1>2. WidthsOf(types, global) \in [1..Len(TableItems) -> Nat]
  <2>1. \A i \in RowNumbers : (IF types[i] = Default THEN global ELSE types[i]) \in Nat
    BY DEF TypeWords, Default
  <2> QED BY <1>1, <2>1 DEF WidthsOf, RowNumbers
<1>3. \A i \in 1..Rows : RowIs(TableItems, WidthsOf(types, global), RenderData(TableItems, WidthsOf(types, global)), i)
  <2> DEFINE items == TableItems
             words == WidthsOf(types, global)
  <2> HIDE DEF items, words
  <2>1. Len(items) \in Nat /\ words \in [1..Len(items) -> Nat] BY <1>1, <1>2 DEF items, words
  <2>2. \A i \in 1..Len(items) : RowIs(items, words, RenderData(items, words), i) BY <2>1, RowsAre
  <2> QED BY <1>1, <2>2 DEF items, words
<1>4. Rendered(types, global) = [i \in RowNumbers |-> RenderData(TableItems, WidthsOf(types, global))[i].kind]
  BY DEF Rendered, TableItems, WidthsOf
<1> QED BY <1>1, <1>3, <1>4 DEF RowNumbers

\* Rows that come before any change of width stay what they are.
LEMMA RowsBefore ==
  ASSUME NEW items, NEW v, NEW w, NEW a, NEW b, NEW first \in Nat,
         \A i \in 1..first : i < first => /\ v[i] = w[i] /\ v[i] \in Nat
                                          /\ RowIs(items, v, a, i) /\ RowIs(items, w, b, i),
         Len(items) \in Nat
  PROVE  Above(a, v, first) = Above(b, w, first)
<1> DEFINE T == {k \in 0..first : \A i \in 1..k : i < first => (a[i].kind = "value" <=> b[i].kind = "value")}
<1>1. 0 \in T OBVIOUS
<1>2. ASSUME NEW k \in 0..first - 1, k \in T PROVE k + 1 \in T
  <2>1. ASSUME k + 1 < first PROVE a[k + 1].kind = "value" <=> b[k + 1].kind = "value"
    <3>1. \A j \in 1..k : v[j] = w[j] /\ (a[j].kind = "value" <=> b[j].kind = "value") BY <1>2
    <3>2. Above(a, v, k + 1) = Above(b, w, k + 1) BY <3>1 DEF Above
    <3>3. v[k + 1] = w[k + 1] /\ RowIs(items, v, a, k + 1) /\ RowIs(items, w, b, k + 1) BY <2>1
    <3> QED BY <3>2, <3>3 DEF RowIs
  <2>2. \A i \in 1..k + 1 : i \in 1..k \/ i = k + 1 OBVIOUS
  <2> QED BY <1>2, <2>1, <2>2
<1>3. 0..first \subseteq T
  <2> HIDE DEF T
  <2> QED BY <1>1, <1>2, Induction
<1>4. \A j \in 1..first - 1 : v[j] = w[j] /\ (a[j].kind = "value" <=> b[j].kind = "value")
  BY <1>3
<1> QED BY <1>4 DEF Above

\* A block whose first row begins a number, and whose rows have the type at every first
\* word, shows a number there and nowhere else.
IsBlock(items, w, b, type, first, last) ==
  /\ (last + 1 - first) % type = 0 /\ last <= Len(items) /\ Len(items) \in Nat
  /\ w \in [1..Len(items) -> Nat]
  /\ \A i \in 1..Len(items) : RowIs(items, w, b, i)
  /\ Above(b, w, first) = {}
  /\ \A i \in first..last : (i - first) % type = 0 => w[i] = type

LEMMA BlockShown ==
  ASSUME NEW items, NEW w, NEW b, NEW type \in TypeWords, NEW first \in Nat \ {0}, NEW last \in Nat,
         IsBlock(items, w, b, type, first, last)
  PROVE  \A i \in first..last : b[i].kind = "value" <=> (i - first) % type = 0
<1>0. type \in Nat /\ type >= 1 BY DEF TypeWords
<1> USE DEF IsBlock
<1>1. ASSUME NEW i \in first..last, NEW j \in Above(b, w, i) PROVE j >= first
  <2> SUFFICES ASSUME j < first PROVE FALSE BY DEF Above
  <2>1. j \in 1..first - 1 /\ b[j].kind = "value" /\ first - j < w[j] BY <1>1 DEF Above
  <2> QED BY <2>1 DEF Above
<1>2. ASSUME NEW i \in first..last,
             \A j \in first..i - 1 : b[j].kind = "value" <=> (j - first) % type = 0
      PROVE b[i].kind = "value" <=> (i - first) % type = 0
  <2>1. RowIs(items, w, b, i) /\ w[i] \in Nat OBVIOUS
  <2>2. CASE (i - first) % type = 0
    <3>1. Above(b, w, i) = {}
      <4> SUFFICES ASSUME NEW j \in Above(b, w, i) PROVE FALSE OBVIOUS
      <4>1. j \in first..i - 1 /\ b[j].kind = "value" /\ i - j < w[j]
        <5>1. j >= first BY <1>1
        <5> QED BY <5>1 DEF Above
      <4>2. (j - first) % type = 0 BY <1>2, <4>1
      <4>3. w[j] = type BY <4>1, <4>2
      <4>4. (j - first) + type <= i - first
        <5>1. j - first \in Int /\ i - first \in Int /\ j - first < i - first BY <4>1
        <5> QED BY <2>2, <4>2, <5>1, Multiples
      <4> QED BY <1>0, <4>1, <4>3, <4>4
    <3>2. w[i] = type BY <2>2
    <3>3. (i - first) + type <= last + 1 - first
      <4>1. i - first \in Int /\ last + 1 - first \in Int /\ i - first < last + 1 - first OBVIOUS
      <4> QED BY <2>2, <4>1, Multiples
    <3>4. i + w[i] - 1 <= Len(items) BY <1>0, <3>2, <3>3
    <3> QED BY <2>1, <2>2, <3>1, <3>4 DEF RowIs
  <2>3. CASE (i - first) % type # 0
    <3> DEFINE j == i - ((i - first) % type)
               d == (i - first) % type
    <3>1. i - first \in Nat OBVIOUS
    <3>2. d \in 0..type - 1 /\ d <= i - first /\ ((i - first) - d) % type = 0 /\ d # 0
      BY <2>3, <3>1, Multiplied
    <3> HIDE DEF d
    <3>3. j = i - d BY DEF d
    <3> HIDE DEF j
    <3>4. j \in first..i - 1 /\ i - j < type /\ j - first = (i - first) - d BY <1>0, <3>1, <3>2, <3>3
    <3>5. (j - first) % type = 0 BY <3>2, <3>4
    <3>6. b[j].kind = "value" /\ w[j] = type
      <4>1. j \in first..last BY <3>4
      <4> QED BY <1>2, <3>4, <3>5, <4>1
    <3>7. j \in Above(b, w, i) BY <3>4, <3>6 DEF Above
    <3>8. b[i].kind = "subordinate" BY <2>1, <3>7 DEF RowIs
    <3> QED BY <2>3, <3>8
  <2> QED BY <2>2, <2>3
<1> DEFINE N == last + 1 - first
           T == {k \in 0..N : \A i \in first..last : i < first + k =>
                                (b[i].kind = "value" <=> (i - first) % type = 0)}
<1>3. CASE N \in Nat
  <2>1. 0 \in T BY <1>3
  <2>2. ASSUME NEW k \in 0..N - 1, k \in T PROVE k + 1 \in T
    <3> DEFINE i == first + k
    <3>1. i \in first..last /\ \A j \in first..i - 1 : b[j].kind = "value" <=> (j - first) % type = 0
      BY <1>3, <2>2
    <3> HIDE DEF i
    <3>2. b[i].kind = "value" <=> (i - first) % type = 0 BY <1>2, <3>1
    <3>3. \A j \in first..last : j < first + (k + 1) => j < first + k \/ j = i BY DEF i
    <3>4. k + 1 \in 0..N BY <1>3
    <3> HIDE DEF N
    <3> QED BY <2>2, <3>2, <3>3, <3>4
  <2>3. 0..N \subseteq T
    <3> HIDE DEF N, T
    <3> QED BY <1>3, <2>1, <2>2, Induction
  <2>4. N \in T
    <3> HIDE DEF T
    <3> QED BY <1>3, <2>3
  <2> QED BY <2>4
<1>4. CASE N \notin Nat BY <1>4
<1> QED BY <1>3, <1>4

-----------------------------------------------------------------------------

LEMMA BatchTyped ==
  ASSUME TableInv, NEW selected, NEW type \in TypeWords
  PROVE  BatchTypes(selected, type) \in [RowNumbers -> TypeWords \cup {Default}]
<1> DEFINE S == [RowNumbers -> TypeWords \cup {Default}]
<1>1. PICK after : /\ after[0] = [types |-> customType, next |-> 1]
                   /\ \A n \in 1..Rows : after[n] = BatchStep(selected, type, after[n - 1], n)
                   /\ BatchTypes(selected, type) = after[Rows].types
  BY BatchSteps
<1>2. Rows \in Nat BY RowsPositive
<1> DEFINE T == {n \in 0..Rows : after[n].types \in S}
<1>3. 0 \in T BY <1>1, <1>2 DEF TableInv
<1>4. ASSUME NEW n \in 0..Rows - 1, n \in T PROVE n + 1 \in T
  <2>1. n + 1 \in 1..Rows /\ n + 1 \in 0..Rows /\ (n + 1) - 1 = n BY <1>2
  <2>2. after[n + 1] = BatchStep(selected, type, after[n], n + 1) BY <1>1, <2>1
  <2> DEFINE s == after[n]
  <2>3. s.types \in S BY <1>4
  <2> HIDE DEF s
  <2>4. BatchStep(selected, type, s, n + 1).types \in S
    <3>1. CASE n + 1 \notin selected \/ n + 1 < s.next BY <2>3, <3>1 DEF BatchStep
    <3>2. CASE ~(n + 1 \notin selected \/ n + 1 < s.next) BY <2>3, <3>2 DEF BatchStep
    <3> QED BY <3>1, <3>2
  <2> QED BY <2>1, <2>2, <2>4 DEF s
<1> HIDE DEF T
<1>5. 0..Rows \subseteq T BY <1>2, <1>3, <1>4, Induction
<1> QED BY <1>1, <1>2, <1>5 DEF T

LEMMA RetypedKept ==
  ASSUME TableInv, NEW types \in [RowNumbers -> TypeWords \cup {Default}], Retyped(types)
  PROVE  TableInv'
BY DEF TableInv, Retyped, Rendered, RowNumbers

LEMMA TableStarts == TableInit => TableInv
BY DEF TableInit, TableInv, TypeWords, Default

LEMMA TableSteps == TableInv /\ [TableNext]_tableVars => TableInv'
<1> SUFFICES ASSUME TableInv, [TableNext]_tableVars PROVE TableInv' OBVIOUS
<1>1. CASE SetType
  <2>1. PICK row \in RowNumbers, type \in TypeWords \cup {Default} : Retyped([customType EXCEPT ![row] = type])
    BY <1>1 DEF SetType
  <2>2. [customType EXCEPT ![row] = type] \in [RowNumbers -> TypeWords \cup {Default}] BY DEF TableInv
  <2> QED BY <2>1, <2>2, RetypedKept
<1>2. CASE ChangeGlobal BY <1>2 DEF ChangeGlobal, TableInv, Rendered, RowNumbers
<1>3. CASE ResetAll
  <2>1. [r \in RowNumbers |-> Default] \in [RowNumbers -> TypeWords \cup {Default}] OBVIOUS
  <2> QED BY <1>3, <2>1, RetypedKept DEF ResetAll
<1>4. ASSUME NEW selected \in SUBSET RowNumbers, ResetSelected(selected) PROVE TableInv'
  <2> DEFINE Cleared(reset) == [r \in RowNumbers |-> IF r \in reset THEN Default ELSE customType[r]]
  <2>1. \E reset : Retyped(Cleared(reset)) BY <1>4 DEF ResetSelected
  <2>2. PICK reset : Retyped(Cleared(reset)) BY <2>1
  <2>3. Cleared(reset) \in [RowNumbers -> TypeWords \cup {Default}] BY DEF TableInv
  <2> HIDE DEF Cleared
  <2> QED BY <2>2, <2>3, RetypedKept
<1>5. ASSUME NEW selected \in SUBSET RowNumbers, NEW type \in TypeWords, BatchSet(selected, type) PROVE TableInv'
  <2>1. Retyped(BatchTypes(selected, type)) BY <1>5 DEF BatchSet
  <2> QED BY <2>1, BatchTyped, RetypedKept
<1>6. CASE UNCHANGED tableVars BY <1>6 DEF tableVars, TableInv, Rendered, RowNumbers
<1> QED BY <1>1, <1>2, <1>3, <1>4, <1>5, <1>6 DEF TableNext

LEMMA BlockFollows ==
  ASSUME TableInv, TableInv', NEW type \in TypeWords, NEW first \in RowNumbers, NEW m \in 1..Rows,
         NEW last \in Int, last = first + m * type - 1, last <= Rows, ~IsWord(first),
         customType' = BatchTypes(first..last, type), globalType' = globalType
  PROVE  \A row \in first..last : rows'[row] = "value" <=> (row - first) % type = 0
<1> DEFINE items == TableItems
           v == WidthsOf(customType, globalType)
           w == WidthsOf(customType', globalType)
           a == RenderData(items, v)
           b == RenderData(items, w)
<1>0. Rows \in Nat /\ first \in Int /\ first >= 1 /\ first <= Rows BY RowsPositive DEF RowNumbers
<1>1. /\ customType \in [RowNumbers -> TypeWords \cup {Default}] /\ globalType \in TypeWords
      /\ customType' \in [RowNumbers -> TypeWords \cup {Default}]
      /\ rows = Rendered(customType, globalType)
  BY DEF TableInv
<1>2. rows' = Rendered(customType', globalType) BY DEF TableInv, Rendered, RowNumbers
<1>3. /\ \A i \in RowNumbers : rows[i] = a[i].kind /\ RowIs(items, v, a, i)
      /\ Len(items) = Rows
  BY <1>1, RenderedAre
<1>4. \A i \in RowNumbers : rows'[i] = b[i].kind /\ RowIs(items, w, b, i)
  BY <1>1, <1>2, RenderedAre
<1>5. customType' = TypesTo(first, type, last + 1)
  <2>1. m \in Nat \ {0} BY <1>0
  <2> QED BY <1>1, <2>1, BatchTypesAre
<1>6. \A i \in RowNumbers : v[i] \in Nat /\ w[i] \in Nat BY <1>1 DEF WidthsOf, TypeWords, Default
<1>7. \A i \in RowNumbers : i < first => v[i] = w[i]
  <2> SUFFICES ASSUME NEW i \in RowNumbers, i < first PROVE v[i] = w[i] OBVIOUS
  <2>1. customType'[i] = customType[i] BY <1>0, <1>5 DEF TypesTo, RowNumbers
  <2> QED BY <2>1 DEF WidthsOf
<1>8. \A i \in first..last : (i - first) % type = 0 => w[i] = type
  <2> SUFFICES ASSUME NEW i \in first..last, (i - first) % type = 0 PROVE w[i] = type OBVIOUS
  <2>1. i \in RowNumbers /\ first <= i /\ i < last + 1 BY <1>0 DEF RowNumbers
  <2>2. customType'[i] = type BY <1>5, <2>1 DEF TypesTo
  <2> QED BY <2>1, <2>2 DEF WidthsOf, TypeWords, Default
<1>9. DOMAIN w = RowNumbers BY DEF WidthsOf
<1>10. w \in [1..Len(items) -> Nat]
  <2>1. w = [i \in RowNumbers |-> w[i]] BY DEF WidthsOf
  <2> HIDE DEF w, items
  <2> QED BY <1>3, <1>6, <2>1 DEF RowNumbers
<1> HIDE DEF a, b, v, w, items
<1>11. Above(a, v, first) = Above(b, w, first)
  <2>1. \A i \in 1..first : i < first => /\ v[i] = w[i] /\ v[i] \in Nat
                                         /\ RowIs(items, v, a, i) /\ RowIs(items, w, b, i)
    BY <1>0, <1>3, <1>4, <1>6, <1>7 DEF RowNumbers
  <2>2. first \in Nat /\ Len(items) \in Nat BY <1>0, <1>3
  <2> QED BY <2>1, <2>2, RowsBefore
<1>12. Above(b, w, first) = {} BY <1>3, <1>11 DEF IsWord, RowIs
<1>13. (last + 1 - first) % type = 0
  <2>1. m \in Nat BY <1>0
  <2>2. (m * type) % type = 0 /\ m * type \in Nat BY <2>1, Multiplied
  <2>3. last + 1 - first = m * type BY <1>0, <2>2
  <2> QED BY <2>2, <2>3
<1>14. last \in Nat
  <2>1. m * type \in Nat BY <1>0, Multiplied
  <2> QED BY <1>0, <2>1
<1>15. \A i \in first..last : b[i].kind = "value" <=> (i - first) % type = 0
  <2>1. first \in Nat \ {0} /\ last <= Len(items) /\ Len(items) \in Nat BY <1>0, <1>3
  <2>2. \A i \in 1..Len(items) : RowIs(items, w, b, i) BY <1>3, <1>4 DEF RowNumbers
  <2>3. IsBlock(items, w, b, type, first, last) BY <1>8, <1>10, <1>12, <1>13, <2>1, <2>2 DEF IsBlock
  <2> QED BY <1>14, <2>1, <2>3, BlockShown
<1>16. \A i \in first..last : i \in RowNumbers BY <1>0 DEF RowNumbers
<1> QED BY <1>4, <1>15, <1>16

\* BatchCovers, for any number of rows: setting the type of a block shows exactly the
\* numbers of that block (batchSetSelectedType(), renderData()).
THEOREM BlocksAreCovered == TableInit /\ [][TableNext]_tableVars => BatchCovers
<1>1. TableInv /\ TableInv' => BlockCovered
  <2> SUFFICES ASSUME TableInv, TableInv', NEW type \in TypeWords, NEW first \in RowNumbers, NEW n \in 1..Rows,
                      first + n * type - 1 <= Rows, ~IsWord(first),
                      customType' = BatchTypes(first..(first + n * type - 1), type), globalType' = globalType
               PROVE  \A row \in first..(first + n * type - 1) : rows'[row] = "value" <=> (row - first) % type = 0
    BY DEF BlockCovered
  <2> DEFINE last == first + n * type - 1
  <2>1. last \in Int
    <3>1. n \in Nat /\ first \in Int BY RowsPositive DEF RowNumbers
    <3>2. n * type \in Nat BY <3>1, Multiplied
    <3> QED BY <3>1, <3>2
  <2> HIDE DEF last
  <2>2. last = first + n * type - 1 BY DEF last
  <2>3. last <= Rows /\ customType' = BatchTypes(first..last, type) BY DEF last
  <2>4. \A row \in first..last : rows'[row] = "value" <=> (row - first) % type = 0
    BY <2>1, <2>2, <2>3, BlockFollows
  <2> QED BY <2>4 DEF last
<1> QED BY <1>1, TableStarts, TableSteps, PTL DEF BatchCovers

\* A sample is one of the samples, or none is taken.
SampleOK == sample \in Samples \cup {None}

LEMMA SampleKept == Spec => []SampleOK
<1>1. Init => SampleOK BY DEF Init, SampleOK
<1>2. SampleOK /\ [Next]_vars => SampleOK'
  BY DEF SampleOK, Next, vars, Take, PutAway
<1> QED BY <1>1, <1>2, PTL DEF Spec

\* ConversionsAgree, for samples of any numbers, registers and addresses (renderData(),
\* applyRegisterOrder() with rearrangeBytes...(), toDisplayAddress() with toPduAddress()).
THEOREM ConversionsAgreeAlways == Spec => []ConversionsAgree
<1>1. SampleOK => ConversionsAgree
  <2>1. sample \in Samples => ConversionsAgree
    BY TableCovered, OrdersAgreeOn, AddressReturns DEF ConversionsAgree
  <2>2. sample = None => ConversionsAgree
    BY DEF None, ConversionsAgree, RowsCover, OrdersAgree, AddressReadsBack
  <2> QED BY <2>1, <2>2 DEF SampleOK
<1> QED BY <1>1, SampleKept, PTL

-----------------------------------------------------------------------------
(* Sequences in parts *)

\* What stands at m..n of a list.
LEMMA PartIs ==
  ASSUME NEW S, NEW all \in Seq(S), NEW s \in Seq(S), NEW m \in Nat \ {0}, NEW n \in Nat,
         n = m + Len(s) - 1, n <= Len(all), \A i \in 1..Len(s) : all[m - 1 + i] = s[i]
  PROVE  SubSeq(all, m, n) = s
<1> DEFINE part == SubSeq(all, m, n)
<1>0. Len(s) \in Nat /\ Len(all) \in Nat OBVIOUS
<1>1. m \in Int /\ n \in Int /\ \A i \in m..n : all[i] \in S BY <1>0
<1>2. part \in Seq(S) /\ Len(part) = (IF m <= n THEN n - m + 1 ELSE 0)
      /\ \A i \in 1..n - m + 1 : part[i] = all[m + i - 1]
  BY <1>1, SubSeqProperties
<1> HIDE DEF part
<1>3. Len(part) = Len(s) BY <1>0, <1>2
<1>4. \A i \in 1..Len(s) : part[i] = s[i]
  <2> SUFFICES ASSUME NEW i \in 1..Len(s) PROVE part[i] = s[i] OBVIOUS
  <2>1. i \in 1..n - m + 1 /\ m + i - 1 = m - 1 + i BY <1>0
  <2> QED BY <1>2, <2>1
<1>5. part = s BY <1>2, <1>3, <1>4, SeqEqual
<1> QED BY <1>5 DEF part

\* A list cut in two is there again when its parts are put together.
LEMMA CutInTwo ==
  ASSUME NEW S, NEW s \in Seq(S), NEW n \in 0..Len(s)
  PROVE  /\ First(n, s) \in Seq(S) /\ Len(First(n, s)) = n /\ \A i \in 1..n : First(n, s)[i] = s[i]
         /\ DropFirst(n, s) \in Seq(S) /\ Len(DropFirst(n, s)) = Len(s) - n
         /\ \A i \in 1..Len(s) - n : DropFirst(n, s)[i] = s[n + i]
         /\ First(n, s) \o DropFirst(n, s) = s
<1> DEFINE l == Len(s)
           a == First(n, s)
           b == DropFirst(n, s)
<1>0. l \in Nat /\ n \in Nat /\ n <= l OBVIOUS
<1>1. a \in Seq(S) /\ Len(a) = n /\ \A i \in 1..n : a[i] = s[i]
  <2>1. \A i \in 1..n : s[i] \in S BY <1>0
  <2>2. SubSeq(s, 1, n) \in Seq(S) /\ Len(SubSeq(s, 1, n)) = (IF 1 <= n THEN n - 1 + 1 ELSE 0)
        /\ \A i \in 1..n - 1 + 1 : SubSeq(s, 1, n)[i] = s[1 + i - 1]
    BY <1>0, <2>1, SubSeqProperties
  <2>3. n - 1 + 1 = n /\ \A i \in 1..n : 1 + i - 1 = i BY <1>0
  <2> QED BY <1>0, <2>2, <2>3 DEF First
<1>2. b \in Seq(S) /\ Len(b) = l - n /\ \A i \in 1..l - n : b[i] = s[n + i]
  <2>1. \A i \in n + 1..l : s[i] \in S BY <1>0
  <2>2. SubSeq(s, n + 1, l) \in Seq(S) /\ Len(SubSeq(s, n + 1, l)) = (IF n + 1 <= l THEN l - (n + 1) + 1 ELSE 0)
        /\ \A i \in 1..l - (n + 1) + 1 : SubSeq(s, n + 1, l)[i] = s[n + 1 + i - 1]
    BY <1>0, <2>1, SubSeqProperties
  <2>3. l - (n + 1) + 1 = l - n /\ \A i \in 1..l - n : n + 1 + i - 1 = n + i BY <1>0
  <2>4. b = SubSeq(s, n + 1, l) BY DEF DropFirst
  <2> HIDE DEF b, l
  <2>5. Len(b) = l - n BY <1>0, <2>2, <2>3, <2>4
  <2>6. \A i \in 1..l - n : b[i] = s[n + i]
    <3> SUFFICES ASSUME NEW i \in 1..l - n PROVE b[i] = s[n + i] OBVIOUS
    <3>1. i \in 1..l - (n + 1) + 1 /\ n + 1 + i - 1 = n + i BY <1>0
    <3> QED BY <2>2, <2>4, <3>1
  <2> QED BY <2>2, <2>4, <2>5, <2>6
<1> HIDE DEF a, b, l
<1>3. a \o b = s
  <2> DEFINE c == a \o b
  <2>1. /\ c \in Seq(S) /\ Len(c) = Len(a) + Len(b)
        /\ \A i \in 1..Len(a) + Len(b) : c[i] = IF i <= Len(a) THEN a[i] ELSE b[i - Len(a)]
    BY <1>1, <1>2, ConcatProperties
  <2> HIDE DEF c
  <2>2. Len(c) = l BY <1>0, <1>1, <1>2, <2>1
  <2>3. \A i \in 1..l : c[i] = s[i]
    <3> SUFFICES ASSUME NEW i \in 1..l PROVE c[i] = s[i] OBVIOUS
    <3>1. c[i] = IF i <= n THEN a[i] ELSE b[i - n] BY <1>0, <1>1, <1>2, <2>1
    <3>2. CASE i <= n BY <1>1, <3>1, <3>2
    <3>3. CASE i > n
      <4>1. i - n \in 1..l - n /\ n + (i - n) = i /\ ~(i <= n) BY <1>0, <3>3
      <4> QED BY <1>2, <3>1, <4>1
    <3> QED BY <1>0, <3>2, <3>3
  <2>4. c = s BY <2>1, <2>2, <2>3, SeqEqual DEF l
  <2> QED BY <2>4 DEF c
<1> QED BY <1>1, <1>2, <1>3 DEF a, b, l

\* A PDU in bytes.
IsPdu(p) == p \in Seq(Octets) /\ Len(p) \in Nat /\ Len(p) >= 2 /\ Len(p) <= 253

\* What stands where in two lists put together.
Joined(all, s, t) ==
  /\ Len(all) = Len(s) + Len(t)
  /\ \A i \in 1..Len(s) + Len(t) : all[i] = IF i <= Len(s) THEN s[i] ELSE t[i - Len(s)]

LEMMA JoinedIs ==
  ASSUME NEW S, NEW s \in Seq(S), NEW t \in Seq(S)
  PROVE  s \o t \in Seq(S) /\ Joined(s \o t, s, t)
BY ConcatProperties DEF Joined

\* The header of a TCP frame.
TcpHead(l) == ToBigEndian(7) \o <<0, 0>> \o ToBigEndian(l) \o <<1>>
TcpFrame(p) == TcpHead(1 + Len(p)) \o p

LEMMA TcpHeadIs ==
  ASSUME NEW l \in Nat, l <= 255
  PROVE  LET h == TcpHead(l) IN
         h \in Seq(Octets) /\ Len(h) = 7 /\ h[3] = 0 /\ h[4] = 0 /\ h[5] = 0 /\ h[6] = l /\ h[7] = 1
<1> DEFINE a == ToBigEndian(7)
           zeros == <<0, 0>>
           b == ToBigEndian(l)
           one == <<1>>
<1>1. a \in Seq(Octets) /\ Len(a) = 2
  <2>1. a = <<0, 7>> BY DEF ToBigEndian
  <2> HIDE DEF a
  <2> QED BY <2>1 DEF Octets
<1>2. b \in Seq(Octets) /\ Len(b) = 2 /\ b[1] = 0 /\ b[2] = l
  <2>1. b = <<0, l>> BY DEF ToBigEndian
  <2> HIDE DEF b
  <2> QED BY <2>1 DEF Octets
<1>3. zeros \in Seq(Octets) /\ Len(zeros) = 2 /\ zeros[1] = 0 /\ zeros[2] = 0 BY DEF Octets
<1>4. one \in Seq(Octets) /\ Len(one) = 1 /\ one[1] = 1 BY DEF Octets
<1> HIDE DEF a, b, zeros, one
<1> DEFINE az == a \o zeros
           azb == az \o b
           h == azb \o one
<1>5. az \in Seq(Octets) /\ Joined(az, a, zeros) BY <1>1, <1>3, JoinedIs
<1> HIDE DEF az
<1>6. Len(az) = 4 /\ az[3] = 0 /\ az[4] = 0 BY <1>1, <1>3, <1>5 DEF Joined
<1>7. azb \in Seq(Octets) /\ Joined(azb, az, b) BY <1>2, <1>5, JoinedIs
<1> HIDE DEF azb
<1>8. azb[3] = 0 /\ azb[4] = 0 /\ azb[5] = 0 /\ azb[6] = l BY <1>2, <1>6, <1>7 DEF Joined
<1>9. h \in Seq(Octets) /\ Joined(h, azb, one) BY <1>4, <1>7, JoinedIs
<1>10. h = TcpHead(l) BY DEF TcpHead, azb, az, a, b, zeros, one
<1> HIDE DEF h
<1>11. Len(azb) = 6 BY <1>2, <1>6, <1>7 DEF Joined
<1>12. h[3] = 0 /\ h[4] = 0 /\ h[5] = 0 /\ h[6] = l /\ h[7] = 1 /\ Len(h) = 7 BY <1>4, <1>8, <1>9, <1>11 DEF Joined
<1> QED BY <1>4, <1>9, <1>10, <1>11, <1>12

LEMMA TcpBuilt ==
  ASSUME NEW pdu PROVE BuildTcpAdu(1, pdu, 7) = TcpFrame(Bytes(pdu))
BY DEF BuildTcpAdu, TcpFrame, TcpHead

LEMMA LengthFits == ASSUME NEW n \in Nat, n >= 2, n <= 253 PROVE 1 + n \in 2..254
OBVIOUS

LEMMA TcpFrameIs ==
  ASSUME NEW p, IsPdu(p)
  PROVE  LET frame == TcpFrame(p) IN
         /\ frame \in Seq(Octets) /\ Len(frame) = 7 + Len(p)
         /\ frame[7] = 1 /\ InspectTcpAdu(frame) = Len(frame) /\ DropFirst(7, frame) = p
<1> DEFINE h == TcpHead(1 + Len(p))
           frame == h \o p
<1>1. Len(p) \in Nat /\ Len(p) >= 2 /\ Len(p) <= 253 /\ p \in Seq(Octets) BY DEF IsPdu
<1>2. h \in Seq(Octets) /\ Len(h) = 7 /\ h[3] = 0 /\ h[4] = 0 /\ h[5] = 0 /\ h[6] = 1 + Len(p) /\ h[7] = 1
  <2>1. 1 + Len(p) \in Nat /\ 1 + Len(p) <= 255 BY <1>1
  <2> QED BY <2>1, TcpHeadIs
<1> HIDE DEF h
<1>3. /\ frame \in Seq(Octets) /\ Len(frame) = 7 + Len(p)
      /\ \A i \in 1..7 + Len(p) : frame[i] = IF i <= 7 THEN h[i] ELSE p[i - 7]
  <2>1. /\ frame \in Seq(Octets) /\ Len(frame) = Len(h) + Len(p)
        /\ \A i \in 1..Len(h) + Len(p) : frame[i] = IF i <= Len(h) THEN h[i] ELSE p[i - Len(h)]
    <3>1. h \in Seq(Octets) /\ p \in Seq(Octets) BY <1>1, <1>2
    <3> QED BY <3>1, ConcatProperties
  <2> HIDE DEF frame
  <2> QED BY <1>2, <2>1
<1> HIDE DEF frame
<1>4. frame[3] = 0 /\ frame[4] = 0 /\ frame[5] = 0 /\ frame[6] = 1 + Len(p) /\ frame[7] = 1
  BY <1>1, <1>2, <1>3
<1>5. InspectTcpAdu(frame) = Len(frame)
  <2>1. ReadBigEndian(frame, 4) = 1 + Len(p) /\ ReadBigEndian(frame, 2) = 0
    <3>1. ReadBigEndian(frame, 4) = frame[5] * 256 + frame[6] BY DEF ReadBigEndian
    <3>2. ReadBigEndian(frame, 2) = frame[3] * 256 + frame[4] BY DEF ReadBigEndian
    <3> QED BY <1>1, <1>4, <3>1, <3>2
  <2>2. 1 + Len(p) \in 2..254 /\ ~(Len(frame) < 6) /\ ~(Len(frame) < 6 + (1 + Len(p))) /\ Len(frame) = 6 + (1 + Len(p))
    <3>1. 1 + Len(p) \in 2..254 BY <1>1, LengthFits
    <3>2. ~(Len(frame) < 6) /\ ~(Len(frame) < 6 + (1 + Len(p))) /\ Len(frame) = 6 + (1 + Len(p)) BY <1>1, <1>3
    <3> QED BY <3>1, <3>2
  <2> QED BY <2>1, <2>2 DEF InspectTcpAdu
<1>6. DropFirst(7, frame) = p
  <2>1. \A i \in 1..Len(p) : frame[8 - 1 + i] = p[i]
    <3> SUFFICES ASSUME NEW i \in 1..Len(p) PROVE frame[7 + i] = p[i] OBVIOUS
    <3>1. 7 + i \in 1..7 + Len(p) /\ ~(7 + i <= 7) /\ 7 + i - 7 = i BY <1>1
    <3> QED BY <1>3, <3>1
  <2>2. Len(frame) \in Nat /\ Len(frame) = 8 + Len(p) - 1 BY <1>1, <1>3
  <2>3. SubSeq(frame, 8, Len(frame)) = p BY <1>1, <1>3, <2>1, <2>2, PartIs
  <2> QED BY <2>3 DEF DropFirst
<1> QED BY <1>3, <1>4, <1>5, <1>6 DEF frame, h, TcpFrame

-----------------------------------------------------------------------------
(* RTU *)

\* Whatever the checksum is, a frame carries that of its own bytes.
LEMMA RtuFrameIs ==
  ASSUME NEW pdu, IsPdu(Bytes(pdu))
  PROVE  LET frame == BuildRtuAdu(1, pdu)
             p == Bytes(pdu) IN
         /\ \E S : frame \in Seq(S)
         /\ Len(frame) = 3 + Len(p)
         /\ frame[1] = 1 /\ InspectRtuAdu(frame) = Len(frame) /\ SubSeq(frame, 2, Len(frame) - 2) = p
<1> DEFINE p == Bytes(pdu)
           body == <<1>> \o p
           crc == Crc(body)
           tail == <<crc % 256, crc \div 256>>
           frame == body \o tail
           S == Octets \cup {crc % 256, crc \div 256}
<1>1. Len(p) \in Nat /\ Len(p) >= 2 /\ Len(p) <= 253 /\ p \in Seq(Octets) BY DEF IsPdu
<1>2. BuildRtuAdu(1, pdu) = frame BY DEF BuildRtuAdu, AppendCrc
<1>3. AppendCrc(body) = frame BY DEF AppendCrc
<1> HIDE DEF crc, p
<1>4. tail \in Seq(S) /\ Len(tail) = 2 OBVIOUS
<1>5. <<1>> \in Seq(S) /\ Len(<<1>>) = 1 /\ <<1>>[1] = 1 BY DEF Octets
<1>6. p \in Seq(S) BY <1>1, SeqMonotonic
<1> HIDE DEF S, tail
<1> DEFINE one == <<1>>
<1>7. body \in Seq(S) /\ Joined(body, one, p) BY <1>5, <1>6, JoinedIs
<1>8. one[1] = 1 /\ Len(one) = 1 OBVIOUS
<1> HIDE DEF body, one
<1>9. frame \in Seq(S) /\ Joined(frame, body, tail) BY <1>4, <1>7, JoinedIs
<1> HIDE DEF frame
<1>15. /\ Len(body) = 1 + Len(p) /\ Len(frame) = 1 + Len(p) + 2
       /\ \A i \in 1..Len(body) : frame[i] = body[i]
  <2>1. Len(body) = 1 + Len(p) BY <1>7, <1>8 DEF Joined
  <2>2. Len(frame) = 1 + Len(p) + 2 BY <1>4, <1>9, <2>1 DEF Joined
  <2>3. ASSUME NEW i \in 1..Len(body) PROVE frame[i] = body[i]
    <3>1. i \in 1..Len(body) + Len(tail) /\ i <= Len(body) BY <1>1, <1>4, <2>1
    <3> QED BY <1>9, <3>1 DEF Joined
  <2> QED BY <2>1, <2>2, <2>3
<1>16. frame[1] = 1 /\ \A i \in 1..Len(p) : frame[1 + i] = p[i]
  <2>1. body[1] = 1 /\ \A i \in 1..Len(p) : body[1 + i] = p[i]
    <3>1. body[1] = 1 BY <1>1, <1>7, <1>8 DEF Joined
    <3>2. ASSUME NEW i \in 1..Len(p) PROVE body[1 + i] = p[i]
      <4>1. 1 + i \in 1..1 + Len(p) /\ ~(1 + i <= 1) /\ 1 + i - 1 = i BY <1>1
      <4> QED BY <1>7, <1>8, <4>1 DEF Joined
    <3> QED BY <3>1, <3>2
  <2>2. ASSUME NEW i \in 1..Len(p) PROVE 1 + i \in 1..Len(body) BY <1>1, <1>15
  <2>3. 1 \in 1..Len(body) BY <1>1, <1>15
  <2> QED BY <1>15, <2>1, <2>2, <2>3
<1>10. First(Len(frame) - 2, frame) = body
  <2>1. Len(frame) - 2 = 1 + Len(body) - 1 /\ Len(frame) - 2 \in Nat /\ Len(frame) - 2 <= Len(frame)
    BY <1>1, <1>15
  <2>2. \A i \in 1..Len(body) : frame[1 - 1 + i] = body[i] BY <1>1, <1>15
  <2>3. SubSeq(frame, 1, Len(frame) - 2) = body BY <1>7, <1>9, <2>1, <2>2, PartIs
  <2> QED BY <2>3 DEF First
<1>11. InspectRtuAdu(frame) = Len(frame)
  <2>1. ~(Len(frame) < 5) BY <1>1, <1>15
  <2>2. AppendCrc(First(Len(frame) - 2, frame)) = frame BY <1>3, <1>10
  <2> QED BY <2>1, <2>2 DEF InspectRtuAdu
<1>12. SubSeq(frame, 2, Len(frame) - 2) = p
  <2>1. Len(frame) - 2 = 2 + Len(p) - 1 /\ Len(frame) - 2 \in Nat /\ Len(frame) - 2 <= Len(frame)
    BY <1>1, <1>15
  <2>2. \A i \in 1..Len(p) : frame[2 - 1 + i] = p[i] BY <1>16
  <2> QED BY <1>6, <1>9, <2>1, <2>2, PartIs
<1>13. Len(frame) = 3 + Len(p) BY <1>1, <1>15
<1>14. \E R : frame \in Seq(R) BY <1>9
<1>17. frame = BuildRtuAdu(1, pdu) BY <1>2 DEF frame, body, one
<1> QED BY <1>17, <1>16, <1>11, <1>12, <1>13, <1>14 DEF p

-----------------------------------------------------------------------------
(* ASCII *)

LEMMA DigitReads ==
  ASSUME NEW n \in 0..15
  PROVE  HexDigit(n) \in 48..70 /\ Nibble(HexDigit(n)) = n
<1>1. CASE n < 10
  <2>1. HexDigit(n) = 48 + n BY <1>1 DEF HexDigit
  <2>2. 48 + n \in 48..57 /\ 48 + n \in 48..70 /\ (48 + n) - 48 = n BY <1>1
  <2> QED BY <2>1, <2>2 DEF Nibble
<1>2. CASE n >= 10
  <2>1. HexDigit(n) = 55 + n BY <1>2 DEF HexDigit
  <2>2. 55 + n \notin 48..57 /\ 55 + n \in 65..70 /\ 55 + n \in 48..70 /\ (55 + n) - 55 = n BY <1>2
  <2> QED BY <2>1, <2>2 DEF Nibble
<1> QED BY <1>1, <1>2

\* The check of a list of bytes is a byte.
LEMMA LrcIsByte ==
  ASSUME NEW data \in Seq(Octets)
  PROVE  Lrc(data) \in Octets
<1> DEFINE N == (Len(data) + 3) \div 4
           At(i) == IF i \in DOMAIN data THEN data[i] ELSE 0
           Four(n) == At(4 * n - 3) + At(4 * n - 2) + At(4 * n - 1) + At(4 * n)
           Sums(f, k) == f = [n \in 0..k |-> IF n = 0 THEN 0 ELSE (f[n - 1] + Four(n)) % 256]
           T == {k \in 0..N : \E f : Sums(f, k)}
           sum[n \in 0..N] == IF n = 0 THEN 0 ELSE (sum[n - 1] + Four(n)) % 256
<1>0. N \in Nat
  <2>1. Len(data) \in Nat OBVIOUS
  <2> QED BY <2>1
<1>11. \A n \in Nat : Four(n) \in Int
  <2>1. \A i : At(i) \in Int
    <3>1. \A x \in Octets : x \in Int BY DEF Octets
    <3>2. \A i \in DOMAIN data : data[i] \in Octets BY ElementOfSeq
    <3> QED BY <3>1, <3>2
  <2> HIDE DEF At
  <2> SUFFICES ASSUME NEW n \in Nat PROVE Four(n) \in Int OBVIOUS
  <2> DEFINE a == At(4 * n - 3)
             b == At(4 * n - 2)
             c == At(4 * n - 1)
             d == At(4 * n)
  <2>2. a \in Int /\ b \in Int /\ c \in Int /\ d \in Int BY <2>1
  <2>3. Four(n) = a + b + c + d OBVIOUS
  <2> HIDE DEF a, b, c, d, Four
  <2>4. a + b + c + d \in Int BY <2>2
  <2> QED BY <2>3, <2>4
<1> HIDE DEF Four
<1>1. 0 \in T
  <2> DEFINE f == [n \in 0..0 |-> 0]
  <2>1. Sums(f, 0) OBVIOUS
  <2> HIDE DEF Sums, f
  <2> QED BY <1>0, <2>1
<1>2. ASSUME NEW k \in 0..N - 1, k \in T PROVE k + 1 \in T
  <2>1. PICK f : Sums(f, k) BY <1>2
  <2> DEFINE g == [n \in 0..k + 1 |-> IF n = k + 1 THEN (f[k] + Four(k + 1)) % 256 ELSE f[n]]
  <2>2. ASSUME NEW n \in 0..k + 1
        PROVE g[n] = IF n = 0 THEN 0 ELSE (g[n - 1] + Four(n)) % 256
    <3>1. CASE n = k + 1
      <4>1. g[n] = (f[k] + Four(n)) % 256 /\ g[n - 1] = f[k] /\ n # 0 BY <3>1
      <4> HIDE DEF g
      <4> QED BY <4>1
    <3>2. CASE n \in 1..k
      <4>1. g[n] = f[n] /\ g[n - 1] = f[n - 1] /\ n # 0 BY <3>2
      <4>2. f[n] = (f[n - 1] + Four(n)) % 256 BY <2>1, <3>2
      <4> HIDE DEF g
      <4> QED BY <4>1, <4>2
    <3>3. CASE n = 0
      <4>1. g[n] = f[n] BY <3>3
      <4>2. f[n] = 0 BY <2>1, <3>3
      <4> HIDE DEF g
      <4> QED BY <4>1, <4>2, <3>3
    <3> QED BY <3>1, <3>2, <3>3
  <2>3. g = [n \in 0..k + 1 |-> g[n]] OBVIOUS
  <2> HIDE DEF g
  <2>4. Sums(g, k + 1) BY <2>2, <2>3
  <2> HIDE DEF Sums
  <2> QED BY <1>0, <2>4
<1>3. \E f : Sums(f, N)
  <2> HIDE DEF Sums, N
  <2>1. 0..N \subseteq T
    <3> HIDE DEF T
    <3> QED BY <1>0, <1>1, <1>2, Induction
  <2> QED BY <1>0, <2>1
<1>4. sum = [n \in 0..N |-> IF n = 0 THEN 0 ELSE (sum[n - 1] + Four(n)) % 256] BY <1>3
<1>5. Lrc(data) = (256 - sum[N]) % 256 BY DEF Lrc, Four
<1> HIDE DEF sum
<1> DEFINE U == {n \in 0..N : sum[n] \in Int}
<1>6. 0 \in U BY <1>0, <1>4
<1>7. ASSUME NEW n \in 0..N - 1, n \in U PROVE n + 1 \in U
  <2>1. n + 1 \in 0..N /\ n + 1 # 0 /\ (n + 1) - 1 = n BY <1>0
  <2>2. sum[n + 1] = (sum[n] + Four(n + 1)) % 256 BY <1>4, <2>1
  <2>4. sum[n] + Four(n + 1) \in Int
    <3>1. Four(n + 1) \in Int BY <1>11
    <3>2. sum[n] \in Int BY <1>7
    <3> HIDE DEF U, N
    <3> QED BY <3>1, <3>2
  <2>5. \A x \in Int : x % 256 \in Int OBVIOUS
  <2> HIDE DEF N
  <2> QED BY <2>1, <2>2, <2>4, <2>5
<1> HIDE DEF U, N
<1>8. 0..N \subseteq U BY <1>0, <1>6, <1>7, Induction
<1>9. sum[N] \in Int BY <1>0, <1>8 DEF U
<1>10. \A x \in Int : (256 - x) % 256 \in 0..255 OBVIOUS
<1> QED BY <1>5, <1>9, <1>10 DEF Octets

\* The characters of a list of bytes, two for each.
CharsOf(raw) ==
  LET Char(i) == HexDigit(IF i % 2 = 1 THEN raw[i \div 2 + 1] \div 16 ELSE raw[i \div 2] % 16) IN
  [i \in 1..2 * Len(raw) |-> Char(i)]
RawOf(p) == Append(<<1>> \o p, Lrc(<<1>> \o p))
AsciiFrame(p) == <<Colon>> \o CharsOf(RawOf(p)) \o CrLf

LEMMA AsciiBuilt ==
  ASSUME NEW pdu PROVE BuildAsciiAdu(1, pdu) = AsciiFrame(Bytes(pdu))
BY DEF BuildAsciiAdu, AsciiFrame, CharsOf, RawOf

LEMMA RawIs ==
  ASSUME NEW p, IsPdu(p)
  PROVE  LET raw == RawOf(p) IN
         /\ raw \in Seq(Octets) /\ Len(raw) = Len(p) + 2 /\ raw[1] = 1
         /\ Front(raw) = <<1>> \o p /\ Last(raw) = Lrc(<<1>> \o p)
         /\ SubSeq(raw, 2, Len(raw) - 1) = p
<1> DEFINE one == <<1>>
           body == one \o p
           raw == Append(body, Lrc(body))
<1>1. Len(p) \in Nat /\ Len(p) >= 2 /\ p \in Seq(Octets) BY DEF IsPdu
<1>2. one \in Seq(Octets) /\ Len(one) = 1 /\ one[1] = 1 BY DEF Octets
<1> HIDE DEF one
<1>3. body \in Seq(Octets) /\ Joined(body, one, p) BY <1>1, <1>2, JoinedIs
<1> HIDE DEF body
<1>4. Lrc(body) \in Octets BY <1>3, LrcIsByte
<1>5. Len(body) = Len(p) + 1 BY <1>1, <1>2, <1>3 DEF Joined
<1>6. /\ raw \in Seq(Octets) /\ Len(raw) = Len(body) + 1 /\ raw[Len(body) + 1] = Lrc(body)
      /\ \A i \in 1..Len(body) : raw[i] = body[i]
  BY <1>3, <1>4
<1> HIDE DEF raw
<1>7. body[1] = 1 /\ \A i \in 1..Len(p) : body[1 + i] = p[i]
  <2>1. body[1] = 1 BY <1>1, <1>2, <1>3 DEF Joined
  <2>2. ASSUME NEW i \in 1..Len(p) PROVE body[1 + i] = p[i]
    <3>1. 1 + i \in 1..1 + Len(p) /\ ~(1 + i <= 1) /\ 1 + i - 1 = i BY <1>1
    <3> QED BY <1>2, <1>3, <3>1 DEF Joined
  <2> QED BY <2>1, <2>2
<1>8. Len(raw) = Len(p) + 2 BY <1>1, <1>5, <1>6
<1>9. raw[1] = 1 BY <1>1, <1>5, <1>6, <1>7
<1>10. Front(raw) = body
  <2>1. Len(raw) - 1 = 1 + Len(body) - 1 /\ Len(raw) - 1 \in Nat /\ Len(raw) - 1 <= Len(raw) BY <1>1, <1>5, <1>8
  <2>2. \A i \in 1..Len(body) : raw[1 - 1 + i] = body[i] BY <1>6
  <2>3. SubSeq(raw, 1, Len(raw) - 1) = body BY <1>3, <1>6, <2>1, <2>2, PartIs
  <2> QED BY <2>3 DEF Front
<1>11. Last(raw) = Lrc(body) BY <1>1, <1>5, <1>6 DEF Last
<1>12. SubSeq(raw, 2, Len(raw) - 1) = p
  <2>1. Len(raw) - 1 = 2 + Len(p) - 1 /\ Len(raw) - 1 \in Nat /\ Len(raw) - 1 <= Len(raw) BY <1>1, <1>8
  <2>2. \A i \in 1..Len(p) : raw[2 - 1 + i] = p[i]
    <3> SUFFICES ASSUME NEW i \in 1..Len(p) PROVE raw[1 + i] = p[i] OBVIOUS
    <3>1. 1 + i \in 1..Len(body) BY <1>1, <1>5
    <3> QED BY <1>6, <1>7, <3>1
  <2> QED BY <1>1, <1>6, <2>1, <2>2, PartIs
<1>13. raw = RawOf(p) /\ body = <<1>> \o p BY DEF raw, body, one, RawOf
<1> QED BY <1>6, <1>8, <1>9, <1>10, <1>11, <1>12, <1>13

LEMMA CharsAre ==
  ASSUME NEW raw \in Seq(Octets)
  PROVE  LET chars == CharsOf(raw) IN
         /\ chars \in Seq(Octets) /\ Len(chars) = 2 * Len(raw)
         /\ \A i \in 1..2 * Len(raw) : chars[i] \in 48..70 /\ Nibble(chars[i]) >= 0
         /\ DecodeAscii(chars) = raw
<1> DEFINE chars == CharsOf(raw)
           half(i) == IF i % 2 = 1 THEN raw[i \div 2 + 1] \div 16 ELSE raw[i \div 2] % 16
           N == Len(raw)
<1>0. N \in Nat OBVIOUS
<1>1. chars = [i \in 1..2 * N |-> HexDigit(half(i))] BY DEF CharsOf
<1>2. \A k \in 1..N : raw[k] \in 0..255 BY ElementOfSeq DEF Octets
<1>3. \A b \in 0..255 : b \div 16 \in 0..15 /\ b % 16 \in 0..15 /\ 16 * (b \div 16) + (b % 16) = b OBVIOUS
<1> HIDE DEF chars, N
<1>4. \A i \in 1..2 * N : half(i) \in 0..15
  <2> SUFFICES ASSUME NEW i \in 1..2 * N PROVE half(i) \in 0..15 OBVIOUS
  <2>1. CASE i % 2 = 1
    <3>1. i \div 2 + 1 \in 1..N BY <1>0, <2>1
    <3> QED BY <1>2, <1>3, <2>1, <3>1
  <2>2. CASE i % 2 # 1
    <3>1. i \div 2 \in 1..N BY <1>0, <2>2
    <3> QED BY <1>2, <1>3, <2>2, <3>1
  <2> QED BY <2>1, <2>2
<1> HIDE DEF half
<1>5. \A i \in 1..2 * N : chars[i] = HexDigit(half(i)) BY <1>1
<1>6. \A i \in 1..2 * N : chars[i] \in 48..70 /\ Nibble(chars[i]) = half(i) BY <1>4, <1>5, DigitReads
<1>7. \A i \in 1..2 * N : Nibble(chars[i]) >= 0 BY <1>4, <1>6
<1>8. chars \in Seq(Octets) /\ Len(chars) = 2 * N
  <2>1. \A i \in 1..2 * N : HexDigit(half(i)) \in Octets
    <3> SUFFICES ASSUME NEW i \in 1..2 * N PROVE HexDigit(half(i)) \in Octets OBVIOUS
    <3>1. HexDigit(half(i)) \in 48..70 BY <1>5, <1>6
    <3> DEFINE h == HexDigit(half(i))
    <3> HIDE DEF h
    <3>2. h \in Octets BY <3>1 DEF Octets, h
    <3> QED BY <3>2 DEF h
  <2>2. 2 * N \in Nat BY <1>0
  <2> QED BY <1>1, <2>1, <2>2
<1>9. DecodeAscii(chars) = raw
  <2>1. (2 * N) \div 2 = N BY <1>0
  <2>2. DecodeAscii(chars) = [k \in 1..N |-> 16 * Nibble(chars[2 * k - 1]) + Nibble(chars[2 * k])]
    BY <1>8, <2>1 DEF DecodeAscii
  <2>3. ASSUME NEW k \in 1..N PROVE 16 * Nibble(chars[2 * k - 1]) + Nibble(chars[2 * k]) = raw[k]
    <3>1. /\ 2 * k - 1 \in 1..2 * N /\ 2 * k \in 1..2 * N
          /\ (2 * k - 1) % 2 = 1 /\ (2 * k - 1) \div 2 + 1 = k /\ (2 * k) % 2 = 0 /\ (2 * k) \div 2 = k
      BY <1>0
    <3>2. half(2 * k - 1) = raw[k] \div 16 /\ half(2 * k) = raw[k] % 16 BY <3>1 DEF half
    <3>3. Nibble(chars[2 * k - 1]) = raw[k] \div 16 /\ Nibble(chars[2 * k]) = raw[k] % 16
      BY <1>6, <3>1, <3>2
    <3> QED BY <1>2, <1>3, <3>3
  <2>4. raw = [k \in 1..N |-> raw[k]] BY DEF N
  <2> QED BY <2>2, <2>3, <2>4
<1> QED BY <1>6, <1>7, <1>8, <1>9 DEF N, chars

LEMMA AsciiFrameIs ==
  ASSUME NEW p, IsPdu(p)
  PROVE  LET frame == AsciiFrame(p)
             raw == RawOf(p) IN
         /\ frame \in Seq(Octets) /\ Len(frame) = 2 * Len(p) + 7
         /\ frame[1] = Colon /\ \A i \in 2..Len(frame) - 2 : frame[i] \in 48..70
         /\ CrLfIndex(frame) = Len(frame) - 2
         /\ AsciiPayload(frame) = CharsOf(raw)
         /\ AsciiDecodes(frame) /\ InspectAsciiAdu(frame) = Len(frame)
<1> DEFINE raw == RawOf(p)
           chars == CharsOf(raw)
           colon == <<Colon>>
           first == colon \o chars
           frame == first \o CrLf
<1>1. Len(p) \in Nat /\ Len(p) >= 2 /\ p \in Seq(Octets) BY DEF IsPdu
<1>2. /\ raw \in Seq(Octets) /\ Len(raw) = Len(p) + 2 /\ Front(raw) = <<1>> \o p
      /\ Last(raw) = Lrc(<<1>> \o p)
  BY RawIs
<1> HIDE DEF raw
<1>3. /\ chars \in Seq(Octets) /\ Len(chars) = 2 * Len(raw)
      /\ \A i \in 1..2 * Len(raw) : chars[i] \in 48..70 /\ Nibble(chars[i]) >= 0
      /\ DecodeAscii(chars) = raw
  BY <1>2, CharsAre
<1> HIDE DEF chars
<1>4. colon \in Seq(Octets) /\ Len(colon) = 1 /\ colon[1] = Colon BY DEF Colon, Octets
<1>5. CrLf \in Seq(Octets) /\ Len(CrLf) = 2 /\ CrLf[1] = 13 /\ CrLf[2] = 10 BY DEF CrLf, Octets
<1> HIDE DEF colon
<1>6. first \in Seq(Octets) /\ Joined(first, colon, chars) BY <1>3, <1>4, JoinedIs
<1> HIDE DEF first
<1>7. frame \in Seq(Octets) /\ Joined(frame, first, CrLf) BY <1>5, <1>6, JoinedIs
<1>8. frame = AsciiFrame(p) BY DEF frame, first, colon, chars, raw, AsciiFrame
<1> HIDE DEF frame
<1> DEFINE n == 2 * Len(p) + 4
<1>9. n \in Nat /\ n >= 8 /\ Len(chars) = n BY <1>1, <1>2, <1>3
<1> HIDE DEF n
<1>10. Len(first) = 1 + n BY <1>4, <1>6, <1>9 DEF Joined
<1>11. Len(frame) = n + 3 BY <1>5, <1>7, <1>9, <1>10 DEF Joined
<1>12. frame[1] = Colon
  <2>1. first[1] = Colon BY <1>4, <1>6, <1>9 DEF Joined
  <2> QED BY <1>5, <1>7, <1>9, <1>10, <2>1 DEF Joined
<1>13. \A i \in 1..n : frame[1 + i] = chars[i]
  <2> SUFFICES ASSUME NEW i \in 1..n PROVE frame[1 + i] = chars[i] OBVIOUS
  <2>1. 1 + i \in 1..1 + n /\ ~(1 + i <= 1) /\ 1 + i - 1 = i BY <1>9
  <2>2. first[1 + i] = chars[i] BY <1>4, <1>6, <1>9, <2>1 DEF Joined
  <2>3. 1 + i \in 1..(1 + n) + 2 /\ 1 + i <= 1 + n BY <1>9
  <2> QED BY <1>5, <1>7, <1>10, <2>2, <2>3 DEF Joined
<1>14. frame[n + 2] = 13 /\ frame[n + 3] = 10
  <2>1. /\ n + 2 \in 1..(1 + n) + 2 /\ ~(n + 2 <= 1 + n) /\ (n + 2) - (1 + n) = 1
        /\ n + 3 \in 1..(1 + n) + 2 /\ ~(n + 3 <= 1 + n) /\ (n + 3) - (1 + n) = 2
    BY <1>9
  <2> QED BY <1>5, <1>7, <1>10, <2>1 DEF Joined
<1>15. \A i \in 2..n + 1 : frame[i] \in 48..70
  <2> SUFFICES ASSUME NEW i \in 2..n + 1 PROVE frame[i] \in 48..70 OBVIOUS
  <2>1. i - 1 \in 1..n /\ 1 + (i - 1) = i BY <1>9
  <2>2. chars[i - 1] \in 48..70 BY <1>3, <1>9, <2>1
  <2> QED BY <1>13, <2>1, <2>2
<1>16. CrLfIndex(frame) = n + 1
  <2> DEFINE at == {i \in 1..Len(frame) - 1 : frame[i] = 13 /\ frame[i + 1] = 10}
  <2>1. n + 2 \in at BY <1>9, <1>11, <1>14
  <2>2. ASSUME NEW i \in at PROVE i = n + 2
    <3>1. i \in 1..n + 2 /\ frame[i] = 13 BY <1>9, <1>11
    <3>2. i # 1 BY <1>12, <3>1 DEF Colon
    <3>3. i \notin 2..n + 1
      <4> SUFFICES ASSUME i \in 2..n + 1 PROVE FALSE OBVIOUS
      <4>1. frame[i] \in 48..70 BY <1>15
      <4> QED BY <3>1, <4>1
    <3> QED BY <1>9, <3>1, <3>2, <3>3
  <2> HIDE DEF at
  <2>3. at = {n + 2} BY <2>1, <2>2
  <2> DEFINE c == CHOOSE i \in at : \A j \in at : i <= j
  <2>4. c = n + 2 BY <1>9, <2>3
  <2>5. CrLfIndex(frame) = c - 1 BY <2>3 DEF CrLfIndex, at
  <2> HIDE DEF c
  <2> QED BY <1>9, <2>4, <2>5
<1>17. AsciiPayload(frame) = chars
  <2>1. n + 1 = 2 + Len(chars) - 1 /\ n + 1 \in Nat /\ n + 1 <= Len(frame) BY <1>9, <1>11
  <2>2. \A i \in 1..Len(chars) : frame[2 - 1 + i] = chars[i] BY <1>9, <1>13
  <2>3. SubSeq(frame, 2, n + 1) = chars BY <1>3, <1>7, <2>1, <2>2, PartIs
  <2> QED BY <1>16, <2>3 DEF AsciiPayload
<1>18. /\ frame # <<>> /\ CrLfIndex(frame) >= 0 /\ Len(chars) >= 6 /\ Len(chars) % 2 = 0
       /\ \A i \in DOMAIN chars : Nibble(chars[i]) >= 0
  <2>1. frame # <<>> BY <1>7, <1>9, <1>11
  <2>2. (2 * Len(raw)) % 2 = 0 BY <1>1, <1>2
  <2>3. DOMAIN chars = 1..2 * Len(raw) BY <1>3
  <2> QED BY <1>3, <1>9, <1>16, <2>1, <2>2, <2>3
<1>19. AsciiDecodes(frame) BY <1>12, <1>17, <1>18 DEF AsciiDecodes
<1>20. InspectAsciiAdu(frame) = n + 3
  <2>1. Lrc(Front(DecodeAscii(chars))) = Last(DecodeAscii(chars)) BY <1>2, <1>3
  <2>2. InspectAsciiAdu(frame) = CrLfIndex(frame) + 2
    <3>1. frame # <<>> /\ ~(frame[1] # Colon) /\ ~(CrLfIndex(frame) < 0) BY <1>9, <1>12, <1>16, <1>18
    <3> QED BY <1>17, <1>18, <2>1, <3>1 DEF InspectAsciiAdu
  <2> QED BY <1>9, <1>16, <2>2
<1>21. Len(frame) = 2 * Len(p) + 7 /\ Len(frame) - 2 = n + 1 BY <1>1, <1>11 DEF n
<1> QED BY <1>7, <1>8, <1>11, <1>12, <1>15, <1>16, <1>17, <1>19, <1>20, <1>21 DEF chars, raw

-----------------------------------------------------------------------------
(* The loops of the extractor *)

StepOf(y) == IF mode = "TCP" THEN TcpStep(y) ELSE AsciiStep(y)

\* f[n] takes up to n steps.
Loops(f, k) ==
  f = [n \in 0..k |-> [y \in Extractors |-> IF n = 0 \/ StepOf(y) = y THEN y ELSE f[n - 1][StepOf(y)]]]

LEMMA ProcessIs ==
  ASSUME NEW x, Len(x.buffer) \in Nat
  PROVE  \E f : Loops(f, Len(x.buffer)) /\ Process(x) = f[Len(x.buffer)][x]
<1> DEFINE N == Len(x.buffer)
           T == {k \in 0..N : \E f : Loops(f, k)}
           Row(f, n) == [y \in Extractors |-> IF n = 0 \/ StepOf(y) = y THEN y ELSE f[n - 1][StepOf(y)]]
           Step(y) == IF mode = "TCP" THEN TcpStep(y) ELSE AsciiStep(y)
           after[n \in 0..N] == [y \in Extractors |-> IF n = 0 \/ Step(y) = y THEN y ELSE after[n - 1][Step(y)]]
<1>0. N \in Nat OBVIOUS
<1>1. 0 \in T
  <2> DEFINE f == [n \in 0..0 |-> [y \in Extractors |-> y]]
  <2>1. f = [n \in 0..0 |-> Row(f, n)]
    <3>1. ASSUME NEW n \in 0..0 PROVE [y \in Extractors |-> y] = Row(f, n)
      <4>1. n = 0 OBVIOUS
      <4> QED BY <4>1, Zenon
    <3> HIDE DEF Row
    <3> QED BY <3>1
  <2>2. Loops(f, 0) BY <2>1 DEF Loops
  <2> HIDE DEF f
  <2> QED BY <1>0, <2>2
<1>2. ASSUME NEW k \in 0..N - 1, k \in T PROVE k + 1 \in T
  <2>1. PICK f : Loops(f, k) BY <1>2
  <2> DEFINE g == [n \in 0..k + 1 |-> IF n = k + 1
                                       THEN [y \in Extractors |-> IF StepOf(y) = y THEN y ELSE f[k][StepOf(y)]]
                                       ELSE f[n]]
  <2>2. ASSUME NEW n \in 0..k + 1
        PROVE g[n] = Row(g, n)
    <3>1. CASE n = k + 1
      <4>1. g[n] = [y \in Extractors |-> IF StepOf(y) = y THEN y ELSE f[k][StepOf(y)]] /\ g[n - 1] = f[k] /\ n # 0
        BY <3>1
      <4> HIDE DEF g
      <4> QED BY <4>1
    <3>2. CASE n \in 1..k
      <4>1. g[n] = f[n] /\ g[n - 1] = f[n - 1] /\ n # 0 BY <3>2
      <4>2. f[n] = Row(f, n)
        <5>1. f = [m \in 0..k |-> Row(f, m)] BY <2>1 DEF Loops
        <5> HIDE DEF Row
        <5> QED BY <3>2, <5>1
      <4> HIDE DEF g
      <4> QED BY <4>1, <4>2
    <3>3. CASE n = 0
      <4>1. g[n] = f[n] BY <3>3
      <4>2. f[n] = Row(f, n)
        <5>1. f = [m \in 0..k |-> Row(f, m)] BY <2>1 DEF Loops
        <5> HIDE DEF Row
        <5> QED BY <3>3, <5>1
      <4> HIDE DEF g
      <4> QED BY <4>1, <4>2, <3>3
    <3> QED BY <3>1, <3>2, <3>3
  <2>3. g = [n \in 0..k + 1 |-> g[n]] OBVIOUS
  <2> HIDE DEF g
  <2>4. g = [n \in 0..k + 1 |-> Row(g, n)]
    <3> HIDE DEF Row
    <3> QED BY <2>2, <2>3
  <2>5. Loops(g, k + 1) BY <2>4 DEF Loops
  <2> QED BY <1>0, <2>5
<1>3. \E f : Loops(f, N)
  <2> HIDE DEF N
  <2>1. 0..N \subseteq T
    <3> HIDE DEF T
    <3> QED BY <1>0, <1>1, <1>2, Induction
  <2> QED BY <1>0, <2>1
<1>4. Loops(after, N)
  <2>1. \E f : f = [n \in 0..N |-> [y \in Extractors |-> IF n = 0 \/ Step(y) = y THEN y ELSE f[n - 1][Step(y)]]]
    BY <1>3 DEF Loops, StepOf
  <2>2. after = [n \in 0..N |-> [y \in Extractors |-> IF n = 0 \/ Step(y) = y THEN y ELSE after[n - 1][Step(y)]]]
    <3> HIDE DEF Step, N
    <3> QED BY <2>1
  <2> HIDE DEF after
  <2> QED BY <2>2 DEF Loops, StepOf
<1>5. Process(x) = after[N][x] BY DEF Process
<1> HIDE DEF after
<1> QED BY <1>4, <1>5

LEMMA LoopIs ==
  ASSUME NEW f, NEW k \in Nat, Loops(f, k), NEW n \in 0..k, NEW y \in Extractors
  PROVE  f[n][y] = IF n = 0 \/ StepOf(y) = y THEN y ELSE f[n - 1][StepOf(y)]
<1> DEFINE Row(m) == [z \in Extractors |-> IF m = 0 \/ StepOf(z) = z THEN z ELSE f[m - 1][StepOf(z)]]
<1>1. f = [m \in 0..k |-> Row(m)] BY DEF Loops
<1>2. f[n] = Row(n)
  <2> HIDE DEF Row
  <2> QED BY <1>1
<1> HIDE DEF Loops
<1> QED BY <1>2

\* What no step changes stays.
LEMMA ProcessStays ==
  ASSUME NEW x \in Extractors, StepOf(x) = x
  PROVE  Process(x) = x
<1>1. Len(x.buffer) \in Nat BY DEF Extractors
<1>2. PICK f : Loops(f, Len(x.buffer)) /\ Process(x) = f[Len(x.buffer)][x] BY <1>1, ProcessIs
<1>3. Len(x.buffer) \in 0..Len(x.buffer) BY <1>1
<1> QED BY <1>1, <1>2, <1>3, LoopIs

\* One step, after which no step changes anything.
LEMMA ProcessOnce ==
  ASSUME NEW x \in Extractors, NEW y \in Extractors, StepOf(x) = y, x # y, StepOf(y) = y,
         Len(x.buffer) >= 1
  PROVE  Process(x) = y
<1> DEFINE N == Len(x.buffer)
<1>1. N \in Nat /\ N >= 1 BY DEF Extractors
<1>2. PICK f : Loops(f, N) /\ Process(x) = f[N][x] BY <1>1, ProcessIs
<1> HIDE DEF N
<1>3. N \in 0..N /\ N - 1 \in 0..N /\ N # 0 BY <1>1
<1>4. f[N][x] = f[N - 1][y] BY <1>1, <1>2, <1>3, LoopIs
<1>5. f[N - 1][y] = y BY <1>1, <1>2, <1>3, LoopIs
<1> QED BY <1>2, <1>4, <1>5

\* What every step keeps, all of them keep.
LEMMA ProcessKeeps ==
  ASSUME NEW E \in SUBSET Extractors, \A y \in E : StepOf(y) \in E, NEW x \in E
  PROVE  Process(x) \in E
<1> DEFINE N == Len(x.buffer)
<1>1. N \in Nat BY DEF Extractors
<1>2. PICK f : Loops(f, N) /\ Process(x) = f[N][x] BY <1>1, ProcessIs
<1> HIDE DEF N
<1> DEFINE T == {n \in 0..N : \A y \in E : f[n][y] \in E}
<1>3. 0 \in T
  <2> SUFFICES ASSUME NEW y \in E PROVE f[0][y] \in E BY <1>1
  <2>1. 0 \in 0..N BY <1>1
  <2> QED BY <1>1, <1>2, <2>1, LoopIs
<1>4. ASSUME NEW n \in 0..N - 1, n \in T PROVE n + 1 \in T
  <2>1. n + 1 \in 0..N /\ n + 1 # 0 /\ (n + 1) - 1 = n BY <1>1
  <2>2. ASSUME NEW y \in E PROVE f[n + 1][y] \in E
    <3>1. f[n + 1][y] = IF StepOf(y) = y THEN y ELSE f[n][StepOf(y)] BY <1>1, <1>2, <2>1, LoopIs
    <3>2. StepOf(y) \in E /\ f[n][StepOf(y)] \in E BY <1>4
    <3> QED BY <3>1, <3>2
  <2> QED BY <2>1, <2>2
<1> HIDE DEF T
<1>5. 0..N \subseteq T BY <1>1, <1>3, <1>4, Induction
<1>6. N \in T BY <1>1, <1>5
<1> QED BY <1>2, <1>6 DEF T

-----------------------------------------------------------------------------
(* Before the first ADU there is only noise on the line, and no frame in it *)

Quiet == {y \in Extractors : y.buffer \in Seq(NoiseBytes) /\ y.completed = <<>>}

LEMMA NoiseIsBytes == NoiseBytes \subseteq Octets
BY DEF NoiseBytes, Octets, Colon

\* A dropped byte leaves noise.
LEMMA DroppedIsQuiet ==
  ASSUME NEW y \in Quiet, Len(y.buffer) >= 1
  PROVE  DropByte(y) \in Quiet
<1> DEFINE rest == IF y.dropped + 1 > MaxDroppedBytes THEN <<>> ELSE Tail(y.buffer)
<1>1. y \in Extractors /\ y.buffer \in Seq(NoiseBytes) /\ y.completed = <<>> BY DEF Quiet
<1>2. rest \in Seq(NoiseBytes)
  <2>1. y.buffer # <<>> BY <1>1
  <2> QED BY <1>1, <2>1
<1>3. rest \in Seq(Octets) BY <1>2, NoiseIsBytes, SeqMonotonic
<1>4. DropByte(y) = [y EXCEPT !.dropped = @ + 1, !.buffer = rest] BY DEF DropByte
<1> HIDE DEF rest
<1>7. DropByte(y) = [buffer |-> rest, completed |-> y.completed, dropped |-> y.dropped + 1]
  BY <1>1, <1>4 DEF Extractors
<1>5. y.dropped + 1 \in Nat /\ y.completed \in Seq(Seq(Octets)) BY <1>1 DEF Extractors
<1> QED BY <1>1, <1>2, <1>3, <1>5, <1>7 DEF Quiet, Extractors

LEMMA TcpStepQuiet ==
  ASSUME NEW y \in Quiet, mode = "TCP", MaxAduSize \in Nat
  PROVE  TcpStep(y) \in Quiet
<1> DEFINE b == y.buffer
           n == InspectTcpAdu(b)
<1>1. b \in Seq({0, 1}) BY DEF Quiet, NoiseBytes
<1> HIDE DEF b
<1>2. n = 0 \/ (n = -1 /\ Len(b) >= 1)
  <2>1. CASE Len(b) < 6 BY <2>1 DEF InspectTcpAdu
  <2>2. CASE Len(b) >= 6
    <3>1. b[5] \in {0, 1} /\ b[6] \in {0, 1}
      <4>1. 5 \in 1..Len(b) /\ 6 \in 1..Len(b) BY <1>1, <2>2
      <4> QED BY <1>1, <4>1, ElementOfSeq
    <3>2. ReadBigEndian(b, 4) = b[5] * 256 + b[6] BY DEF ReadBigEndian
    <3>3. b[5] * 256 + b[6] \notin 2..254 BY <3>1
    <3> DEFINE l == ReadBigEndian(b, 4)
    <3>4. l \notin 2..254 BY <3>2, <3>3
    <3> HIDE DEF l
    <3>5. ~(Len(b) < 6) BY <1>1, <2>2
    <3>6. n = -1 BY <3>4, <3>5 DEF InspectTcpAdu, l
    <3> QED BY <1>1, <2>2, <3>6
  <2> QED BY <1>1, <2>1, <2>2
<1>3. CASE n = 0
  <2>1. ~(n > MaxAduSize) /\ n \notin 1..MaxAduSize /\ n # -1 BY <1>3
  <2>2. TcpStep(y) = y
    <3> HIDE DEF n
    <3>1. n = InspectTcpAdu(y.buffer) BY DEF n, b
    <3> QED BY <2>1, <3>1 DEF TcpStep
  <2> QED BY <2>2
<1>4. CASE n = -1 /\ Len(b) >= 1
  <2>1. ~(n > MaxAduSize) /\ n \notin 1..MaxAduSize BY <1>4
  <2>2. TcpStep(y) = DropByte(y)
    <3> HIDE DEF n
    <3>1. n = InspectTcpAdu(y.buffer) BY DEF n, b
    <3> QED BY <2>1, <1>4, <3>1 DEF TcpStep
  <2> QED BY <1>4, <2>2, DroppedIsQuiet DEF b
<1> QED BY <1>2, <1>3, <1>4

\* To the first colon some bytes are skipped, at most all; what is left begins with it.
LEMMA FromColonIs ==
  ASSUME NEW y \in Extractors
  PROVE  \E skip \in 0..Len(y.buffer) :
           FromColon(y) = [buffer |-> DropFirst(skip, y.buffer), completed |-> y.completed,
                           dropped |-> y.dropped + skip]
<1> DEFINE b == y.buffer
           colons == {i \in DOMAIN b : b[i] = Colon}
           least == CHOOSE i \in colons : \A j \in colons : i <= j
           skip == IF colons = {} THEN Len(b) ELSE least - 1
<1>1. b \in Seq(Octets) BY DEF Extractors
<1>2. skip \in 0..Len(b)
  <2>1. CASE colons = {} BY <1>1, <2>1
  <2>2. CASE colons # {}
    <3>1. colons \in SUBSET Nat /\ colons \subseteq 1..Len(b) BY <1>1
    <3> HIDE DEF colons
    <3>2. \E m \in colons : \A k \in colons : m <= k BY <2>2, <3>1, Least
    <3>3. least \in colons BY <3>2
    <3> HIDE DEF least
    <3>4. least - 1 \in 0..Len(b) BY <1>1, <3>1, <3>3
    <3> QED BY <2>2, <3>4
  <2> QED BY <2>1, <2>2
<1>3. FromColon(y) = [y EXCEPT !.buffer = DropFirst(skip, @), !.dropped = @ + skip]
  BY DEF FromColon
<1> HIDE DEF skip
<1>4. FromColon(y) = [buffer |-> DropFirst(skip, y.buffer), completed |-> y.completed, dropped |-> y.dropped + skip]
  BY <1>3 DEF Extractors
<1> QED BY <1>2, <1>4

LEMMA AsciiStepQuiet ==
  ASSUME NEW y \in Quiet, mode = "ASCII"
  PROVE  AsciiStep(y) \in Quiet
<1> DEFINE z == FromColon(y)
<1>1. y \in Extractors /\ y.buffer \in Seq(NoiseBytes) /\ y.completed = <<>> BY DEF Quiet
<1>2. PICK skip \in 0..Len(y.buffer) :
        z = [buffer |-> DropFirst(skip, y.buffer), completed |-> y.completed, dropped |-> y.dropped + skip]
  BY <1>1, FromColonIs
<1> HIDE DEF z
<1>3. z.buffer \in Seq(NoiseBytes) BY <1>1, <1>2, CutInTwo
<1>4. z.buffer \in Seq(Octets) BY <1>3, NoiseIsBytes, SeqMonotonic
<1>5. skip \in Nat /\ y.dropped \in Nat /\ y.completed \in Seq(Seq(Octets)) BY <1>1, <1>2 DEF Extractors
<1>6. z \in Quiet BY <1>1, <1>2, <1>3, <1>4, <1>5 DEF Quiet, Extractors
<1>7. CrLfIndex(z.buffer) = -1
  <2> DEFINE b == z.buffer
             at == {i \in 1..Len(b) - 1 : b[i] = 13 /\ b[i + 1] = 10}
  <2>1. b \in Seq({58, 48}) BY <1>3 DEF NoiseBytes, Colon
  <2> HIDE DEF b
  <2>2. at = {}
    <3> SUFFICES ASSUME NEW i \in 1..Len(b) - 1, b[i] = 13 PROVE FALSE OBVIOUS
    <3>1. i \in 1..Len(b) BY <2>1
    <3>2. b[i] \in {58, 48} BY <2>1, <3>1, ElementOfSeq
    <3> QED BY <3>2
  <2> QED BY <2>2 DEF CrLfIndex, b
<1>8. AsciiStep(y) = z BY <1>7 DEF AsciiStep, z
<1> QED BY <1>6, <1>8

LEMMA KeptLast ==
  ASSUME NEW S, NEW s \in Seq(S), NEW n \in Nat
  PROVE  KeepLast(n, s) \in Seq(S) /\ (Len(s) <= n => KeepLast(n, s) = s)
<1>1. CASE Len(s) > n
  <2>1. Len(s) - n \in 0..Len(s) BY <1>1
  <2> QED BY <1>1, <2>1, CutInTwo DEF KeepLast
<1>2. CASE ~(Len(s) > n) BY <1>2 DEF KeepLast
<1> QED BY <1>1, <1>2

\* A chunk of noise leaves noise in the buffer and no frame.
LEMMA NoiseFed ==
  ASSUME NEW x \in Quiet, NEW data \in Seq(NoiseBytes), mode \in {"TCP", "ASCII"}
  PROVE  Feed(x, data) \in Quiet
<1> DEFINE limit == IF mode = "TCP" THEN MaxTcpBufferedBytes ELSE 2 * MaxAduSize
           b == KeepLast(limit, x.buffer \o data)
           y == [x EXCEPT !.buffer = b]
<1>1. x \in Extractors /\ x.buffer \in Seq(NoiseBytes) /\ x.completed = <<>> BY DEF Quiet
<1>2. limit \in Nat /\ MaxAduSize \in Nat BY LimitsFit
<1> HIDE DEF limit
<1>3. b \in Seq(NoiseBytes)
  <2>1. x.buffer \o data \in Seq(NoiseBytes) BY <1>1, ConcatProperties
  <2> QED BY <1>2, <2>1, KeptLast
<1>4. b \in Seq(Octets) BY <1>3, NoiseIsBytes, SeqMonotonic
<1>5. Feed(x, data) = Process(y)
  <2>1. CASE mode = "TCP" BY <2>1 DEF Feed, limit
  <2>2. CASE mode = "ASCII" BY <2>2 DEF Feed, limit
  <2> QED BY <2>1, <2>2
<1> HIDE DEF b
<1>6. y \in Quiet BY <1>1, <1>3, <1>4 DEF Quiet, Extractors
<1> HIDE DEF y
<1>7. \A z \in Quiet : StepOf(z) \in Quiet
  <2>1. CASE mode = "TCP" BY <1>2, <2>1, TcpStepQuiet DEF StepOf
  <2>2. CASE mode = "ASCII"
    <3>1. mode # "TCP" BY <2>2
    <3> QED BY <2>2, <3>1, AsciiStepQuiet DEF StepOf
  <2> QED BY <2>1, <2>2
<1>8. Quiet \in SUBSET Extractors BY DEF Quiet
<1> QED BY <1>5, <1>6, <1>7, <1>8, ProcessKeeps

\* While nothing was sent there is noise on the line and no frame in it, none on an RTU
\* line; while a sample is taken the line has not been used.
LineInv ==
  /\ mode \in LineModes
  /\ sample \in Samples \cup {None}
  /\ \E S : sent \in Seq(S)
  /\ sent = <<>> =>
       /\ Extractor \in Quiet /\ wire \in Seq(NoiseBytes)
       /\ mode = "RTU" => buffer = <<>> /\ wire = <<>>
  /\ sample # None => Idle

LEMMA LineStarts == Init => LineInv
<1> SUFFICES ASSUME Init PROVE LineInv OBVIOUS
<1> DEFINE S == {}
<1>1. sent \in Seq(S) BY DEF Init, StreamInit
<1>2. Extractor \in Quiet
  <2>1. Extractor = [buffer |-> <<>>, completed |-> <<>>, dropped |-> 0] BY DEF Init, StreamInit, Extractor
  <2>2. Extractor \in Extractors BY <2>1 DEF Extractors
  <2>3. Extractor.buffer \in Seq(NoiseBytes) /\ Extractor.completed = <<>> BY <2>1
  <2> QED BY <2>2, <2>3 DEF Quiet
<1> QED BY <1>1, <1>2 DEF Init, StreamInit, LineInv

LEMMA DeliverKeeps ==
  ASSUME LineInv, sample = None, Deliver, UNCHANGED sample
  PROVE  LineInv'
<1>1. PICK n \in 1..Len(wire) : Becomes(Feed(Extractor, First(n, wire))) /\ wire' = DropFirst(n, wire)
  BY DEF Deliver
<1>2. mode' = mode /\ sent' = sent BY DEF Deliver
<1>3. ASSUME sent = <<>>
      PROVE  Extractor' \in Quiet /\ wire' \in Seq(NoiseBytes) /\ mode # "RTU"
  <2>1. Extractor \in Quiet /\ wire \in Seq(NoiseBytes) /\ (mode = "RTU" => wire = <<>>) BY <1>3 DEF LineInv
  <2>2. Len(wire) \in Nat /\ n \in 0..Len(wire) BY <2>1
  <2>3. wire # <<>> BY <2>2
  <2>4. mode \in {"TCP", "ASCII"} BY <2>1, <2>3, LimitsFit DEF LineInv
  <2>5. First(n, wire) \in Seq(NoiseBytes) /\ DropFirst(n, wire) \in Seq(NoiseBytes) BY <2>1, <2>2, CutInTwo
  <2>6. Feed(Extractor, First(n, wire)) \in Quiet BY <2>1, <2>4, <2>5, NoiseFed
  <2> DEFINE x == Feed(Extractor, First(n, wire))
  <2>7. x \in Quiet BY <2>6
  <2>8. buffer' = x.buffer /\ completed' = x.completed /\ dropped' = x.dropped BY <1>1 DEF Becomes
  <2> HIDE DEF x
  <2>9. x = [buffer |-> x.buffer, completed |-> x.completed, dropped |-> x.dropped]
    <3>1. x \in Extractors BY <2>7 DEF Quiet
    <3> QED BY <3>1 DEF Extractors
  <2>10. Extractor' = x BY <2>8, <2>9 DEF Extractor
  <2>11. mode # "RTU" BY <2>4
  <2> QED BY <1>1, <2>5, <2>7, <2>10, <2>11
<1>4. Quiet' = Quiet /\ NoiseBytes' = NoiseBytes BY <1>2 DEF Quiet, NoiseBytes, Extractors
<1> HIDE DEF Deliver
<1> QED BY <1>2, <1>3, <1>4 DEF LineInv

LEMMA PopKeeps ==
  ASSUME LineInv, sample = None, Pop, UNCHANGED sample
  PROVE  LineInv'
<1>1. mode' = mode /\ sent' = sent /\ wire' = wire /\ dropped' = dropped BY DEF Pop
<1>2. ASSUME sent = <<>> PROVE FALSE
  <2>1. completed = <<>> /\ (mode = "RTU" => buffer = <<>>) BY <1>2 DEF LineInv, Quiet, Extractor
  <2> QED BY <2>1 DEF Pop, Ready
<1> QED BY <1>1, <1>2 DEF LineInv

LEMMA SendKeeps ==
  ASSUME LineInv, sample = None, Send, UNCHANGED sample
  PROVE  LineInv'
<1>1. mode' = mode BY DEF Send
<1> DEFINE adu == Adu(Len(sent) + 1)
<1>2. sent' = Append(sent, adu) BY DEF Send
<1> HIDE DEF adu
<1>3. PICK S : sent \in Seq(S) BY DEF LineInv
<1>4. sent' \in Seq(S \cup {adu}) /\ sent' # <<>> BY <1>2, <1>3
<1>5. \E R : sent' \in Seq(R) BY <1>4
<1> QED BY <1>1, <1>4, <1>5 DEF LineInv

LEMMA NoiseKeeps ==
  ASSUME LineInv, sample = None, Noise, UNCHANGED sample
  PROVE  LineInv'
<1>1. /\ mode' = mode /\ sent' = sent /\ buffer' = buffer /\ completed' = completed /\ dropped' = dropped
      /\ mode # "RTU" /\ \E byte \in NoiseBytes : wire' = Append(wire, byte)
  BY DEF Noise
<1>2. Extractor' = Extractor /\ Quiet' = Quiet /\ NoiseBytes' = NoiseBytes
  BY <1>1 DEF Extractor, Quiet, NoiseBytes, Extractors
<1>3. wire \in Seq(NoiseBytes) => wire' \in Seq(NoiseBytes) BY <1>1
<1> QED BY <1>1, <1>2, <1>3 DEF LineInv

LEMMA LineKeeps ==
  ASSUME LineInv, [Next]_vars
  PROVE  LineInv'
<1>1. CASE sample = None /\ StreamNext /\ UNCHANGED sample
  <2>1. CASE Silence
    <3>1. /\ mode' = mode /\ sent' = sent /\ buffer' = buffer /\ completed' = completed /\ dropped' = dropped
          /\ wire' = wire
      BY <2>1 DEF Silence
    <3>2. Extractor' = Extractor /\ Quiet' = Quiet /\ NoiseBytes' = NoiseBytes
      BY <3>1 DEF Extractor, Quiet, NoiseBytes, Extractors
    <3> QED BY <1>1, <3>1, <3>2 DEF LineInv
  <2> QED BY <1>1, <2>1, DeliverKeeps, PopKeeps, SendKeeps, NoiseKeeps DEF StreamNext
<1>2. CASE Take \/ PutAway \/ UNCHANGED vars
  <2>1. UNCHANGED streamVars BY <1>2 DEF Take, PutAway, vars
  <2>2. /\ mode' = mode /\ sent' = sent /\ buffer' = buffer /\ completed' = completed /\ dropped' = dropped
        /\ wire' = wire /\ silence' = silence
    BY <2>1 DEF streamVars
  <2>3. Extractor' = Extractor /\ Quiet' = Quiet /\ NoiseBytes' = NoiseBytes /\ Idle' = Idle
    BY <2>2 DEF Extractor, Quiet, NoiseBytes, Extractors, Idle
  <2>4. sample' \in Samples \cup {None} /\ (sample' # None => Idle)
    BY <1>2 DEF Take, PutAway, LineInv, vars
  <2> QED BY <2>2, <2>3, <2>4 DEF LineInv
<1> QED BY <1>1, <1>2 DEF Next

LEMMA LineAlways == Spec => []LineInv
<1>1. LineInv /\ [Next]_vars => LineInv' BY LineKeeps
<1> QED BY <1>1, LineStarts, PTL DEF Spec

-----------------------------------------------------------------------------
(* The values of a request and their bytes *)

LEMMA WordInBytes ==
  ASSUME NEW v, IsWordValue(v)
  PROVE  v \div 256 \in Octets /\ v % 256 \in Octets /\ (v \div 256) * 256 + (v % 256) = v
<1>1. v \in Int /\ 0 <= v /\ v <= 65535 BY DEF IsWordValue, MaxAddress
<1>2. v \div 256 >= 0 /\ v \div 256 <= 255 /\ v \div 256 \in Int BY <1>1
<1>3. v % 256 >= 0 /\ v % 256 <= 255 /\ v % 256 \in Int BY <1>1
<1>4. (v \div 256) * 256 + (v % 256) = v BY <1>1
<1>5. ASSUME NEW k \in Int, k >= 0, k <= 255 PROVE k \in Octets BY <1>5 DEF Octets
<1> QED BY <1>2, <1>3, <1>4, <1>5

\* The address and the quantity, or the value, that a request begins with.
FourBytes(a, b) == ToBigEndian(a) \o ToBigEndian(b)

IsFour(d, a, b) ==
  /\ d \in Seq(Octets) /\ Len(d) = 4
  /\ ReadBigEndian(d, 0) = a /\ ReadBigEndian(d, 2) = b
  /\ ReadBigEndian(d, 0) = d[1] * 256 + d[2] /\ ReadBigEndian(d, 2) = d[3] * 256 + d[4]

LEMMA FourBytesAre ==
  ASSUME NEW a, NEW b, IsWordValue(a), IsWordValue(b)
  PROVE  IsFour(FourBytes(a, b), a, b)
<1> DEFINE p == ToBigEndian(a)
           q == ToBigEndian(b)
           d == p \o q
<1>1. p \in Seq(Octets) /\ Len(p) = 2 /\ p[1] = a \div 256 /\ p[2] = a % 256
  BY WordInBytes DEF ToBigEndian
<1>2. q \in Seq(Octets) /\ Len(q) = 2 /\ q[1] = b \div 256 /\ q[2] = b % 256
  BY WordInBytes DEF ToBigEndian
<1>3. d = FourBytes(a, b) BY DEF FourBytes
<1> HIDE DEF p, q
<1>4. d \in Seq(Octets) /\ Joined(d, p, q) BY <1>1, <1>2, JoinedIs
<1> HIDE DEF d
<1>5. Len(d) = 4 /\ d[1] = p[1] /\ d[2] = p[2] /\ d[3] = q[1] /\ d[4] = q[2]
  BY <1>1, <1>2, <1>4 DEF Joined
<1>6. ReadBigEndian(d, 0) = d[1] * 256 + d[2] /\ ReadBigEndian(d, 2) = d[3] * 256 + d[4]
  BY DEF ReadBigEndian
<1>7. ReadBigEndian(d, 0) = a /\ ReadBigEndian(d, 2) = b
  BY <1>1, <1>2, <1>5, <1>6, WordInBytes
<1> QED BY <1>3, <1>4, <1>5, <1>6, <1>7 DEF IsFour

Bits == {0, 1}

LEMMA BitIs == ASSUME NEW i PROVE Bit(i) \in Bits
BY DEF Bit, Bits

LEMMA WordIs ==
  ASSUME NEW i \in Int
  PROVE  IsWordValue(Word(i))
<1>1. i * 4099 + 7 \in Int OBVIOUS
<1>2. \A x \in Int : x % 65536 \in Int /\ x % 65536 >= 0 /\ x % 65536 <= 65535 OBVIOUS
<1> QED BY <1>1, <1>2 DEF Word, IsWordValue, MaxAddress

\* The byte of eight bits.
ByteOf(a, b, c, d, e, f, g, h) == a + 2 * b + 4 * c + 8 * d + 16 * e + 32 * f + 64 * g + 128 * h

HasBits(byte, a, b, c, d, e, f, g, h) ==
  /\ byte \in Octets
  /\ byte % 2 = a /\ (byte \div 2) % 2 = b /\ (byte \div 4) % 2 = c /\ (byte \div 8) % 2 = d
  /\ (byte \div 16) % 2 = e /\ (byte \div 32) % 2 = f /\ (byte \div 64) % 2 = g
  /\ (byte \div 128) % 2 = h

LEMMA ByteIs ==
  ASSUME NEW a \in Bits, NEW b \in Bits, NEW c \in Bits, NEW d \in Bits,
         NEW e \in Bits, NEW f \in Bits, NEW g \in Bits, NEW h \in Bits
  PROVE  HasBits(ByteOf(a, b, c, d, e, f, g, h), a, b, c, d, e, f, g, h)
<1> DEFINE byte == ByteOf(a, b, c, d, e, f, g, h)
<1>1. byte \in Octets BY DEF ByteOf, Octets, Bits
<1>2. byte % 2 = a /\ (byte \div 2) % 2 = b BY DEF ByteOf, Bits
<1>3. (byte \div 4) % 2 = c /\ (byte \div 8) % 2 = d BY DEF ByteOf, Bits
<1>4. (byte \div 16) % 2 = e /\ (byte \div 32) % 2 = f BY DEF ByteOf, Bits
<1>5. (byte \div 64) % 2 = g /\ (byte \div 128) % 2 = h BY DEF ByteOf, Bits
<1> QED BY <1>1, <1>2, <1>3, <1>4, <1>5 DEF HasBits

\* The bits of a request or an answer, eight to a byte and the last byte filled with zeros.
BitAt(n, i) == IF i < n THEN Bit(i) ELSE 0

LEMMA BitsArePacked ==
  ASSUME NEW n \in Nat
  PROVE  LET p == PackedBits(n) IN
         /\ p \in Seq(Octets) /\ Len(p) = (n + 7) \div 8
         /\ \A i \in 0..n - 1 : (p[i \div 8 + 1] \div Power2(i % 8)) % 2 = Bit(i)
<1> DEFINE p == PackedBits(n)
           N == (n + 7) \div 8
           Byte(i) == ByteOf(BitAt(n, i), BitAt(n, i + 1), BitAt(n, i + 2), BitAt(n, i + 3),
                             BitAt(n, i + 4), BitAt(n, i + 5), BitAt(n, i + 6), BitAt(n, i + 7))
<1>1. N \in Nat OBVIOUS
<1>2. p = [k \in 1..N |-> Byte(8 * k - 8)] BY DEF PackedBits, BitAt, ByteOf
<1>3. \A i : BitAt(n, i) \in Bits BY BitIs DEF BitAt, Bits
<1> HIDE DEF p
<1>4. ASSUME NEW k \in 1..N
      PROVE  /\ p[k] = Byte(8 * k - 8) /\ p[k] \in Octets
             /\ p[k] % 2 = BitAt(n, 8 * k - 8) /\ (p[k] \div 2) % 2 = BitAt(n, 8 * k - 8 + 1)
             /\ (p[k] \div 4) % 2 = BitAt(n, 8 * k - 8 + 2) /\ (p[k] \div 8) % 2 = BitAt(n, 8 * k - 8 + 3)
             /\ (p[k] \div 16) % 2 = BitAt(n, 8 * k - 8 + 4) /\ (p[k] \div 32) % 2 = BitAt(n, 8 * k - 8 + 5)
             /\ (p[k] \div 64) % 2 = BitAt(n, 8 * k - 8 + 6) /\ (p[k] \div 128) % 2 = BitAt(n, 8 * k - 8 + 7)
  <2>1. p[k] = Byte(8 * k - 8) BY <1>2
  <2> DEFINE At(j) == BitAt(n, 8 * k - 8 + j)
  <2>2. 8 * k - 8 + 0 = 8 * k - 8 OBVIOUS
  <2>3. /\ At(0) \in Bits /\ At(1) \in Bits /\ At(2) \in Bits /\ At(3) \in Bits
        /\ At(4) \in Bits /\ At(5) \in Bits /\ At(6) \in Bits /\ At(7) \in Bits
    BY <1>3
  <2>4. Byte(8 * k - 8) = ByteOf(At(0), At(1), At(2), At(3), At(4), At(5), At(6), At(7)) BY <2>2
  <2> HIDE DEF At
  <2>5. HasBits(ByteOf(At(0), At(1), At(2), At(3), At(4), At(5), At(6), At(7)),
                At(0), At(1), At(2), At(3), At(4), At(5), At(6), At(7))
    BY <2>3, ByteIs
  <2> HIDE DEF Byte
  <2>6. HasBits(p[k], At(0), At(1), At(2), At(3), At(4), At(5), At(6), At(7)) BY <2>1, <2>4, <2>5
  <2>7. At(0) = BitAt(n, 8 * k - 8) BY <2>2 DEF At
  <2> QED BY <2>1, <2>6, <2>7 DEF HasBits, At
<1> HIDE DEF N
<1>5. p \in Seq(Octets) /\ Len(p) = N
  <2>1. \A k \in 1..N : Byte(8 * k - 8) \in Octets BY <1>4
  <2> HIDE DEF Byte
  <2> QED BY <1>1, <1>2, <2>1
<1>6. ASSUME NEW i \in 0..n - 1 PROVE (p[i \div 8 + 1] \div Power2(i % 8)) % 2 = Bit(i)
  <2> DEFINE k == i \div 8 + 1
             j == i % 8
  <2>1. k \in 1..N /\ j \in 0..7 /\ 8 * k - 8 + j = i /\ k \in Int BY <1>1 DEF N
  <2>2. BitAt(n, i) = Bit(i) BY DEF BitAt
  <2> HIDE DEF k, j
  <2> DEFINE c == p[k]
  <2>3. /\ c \in Int
        /\ c % 2 = BitAt(n, 8 * k - 8) /\ (c \div 2) % 2 = BitAt(n, 8 * k - 8 + 1)
        /\ (c \div 4) % 2 = BitAt(n, 8 * k - 8 + 2) /\ (c \div 8) % 2 = BitAt(n, 8 * k - 8 + 3)
        /\ (c \div 16) % 2 = BitAt(n, 8 * k - 8 + 4) /\ (c \div 32) % 2 = BitAt(n, 8 * k - 8 + 5)
        /\ (c \div 64) % 2 = BitAt(n, 8 * k - 8 + 6) /\ (c \div 128) % 2 = BitAt(n, 8 * k - 8 + 7)
    <3>1. p[k] \in Octets BY <1>4, <2>1
    <3>2. p[k] \in Int BY <3>1 DEF Octets
    <3> QED BY <1>4, <2>1, <3>2
  <2> HIDE DEF c
  <2>4. c \div 1 = c BY <2>3
  <2>5. (c \div Power2(j)) % 2 = BitAt(n, i)
    <3>0. CASE j = 0
      <4>1. Power2(j) = 1 /\ 8 * k - 8 = i BY <2>1, <3>0 DEF Power2
      <4> QED BY <2>3, <2>4, <4>1
    <3>1. CASE j = 1
      <4>1. Power2(j) = 2 /\ 8 * k - 8 + 1 = i BY <2>1, <3>1 DEF Power2
      <4> QED BY <2>3, <4>1
    <3>2. CASE j = 2
      <4>1. Power2(j) = 4 /\ 8 * k - 8 + 2 = i BY <2>1, <3>2 DEF Power2
      <4> QED BY <2>3, <4>1
    <3>3. CASE j = 3
      <4>1. Power2(j) = 8 /\ 8 * k - 8 + 3 = i BY <2>1, <3>3 DEF Power2
      <4> QED BY <2>3, <4>1
    <3>4. CASE j = 4
      <4>1. Power2(j) = 16 /\ 8 * k - 8 + 4 = i BY <2>1, <3>4 DEF Power2
      <4> QED BY <2>3, <4>1
    <3>5. CASE j = 5
      <4>1. Power2(j) = 32 /\ 8 * k - 8 + 5 = i BY <2>1, <3>5 DEF Power2
      <4> QED BY <2>3, <4>1
    <3>6. CASE j = 6
      <4>1. Power2(j) = 64 /\ 8 * k - 8 + 6 = i BY <2>1, <3>6 DEF Power2
      <4> QED BY <2>3, <4>1
    <3>7. CASE j = 7
      <4>1. Power2(j) = 128 /\ 8 * k - 8 + 7 = i BY <2>1, <3>7 DEF Power2
      <4> QED BY <2>3, <4>1
    <3> QED BY <2>1, <3>0, <3>1, <3>2, <3>3, <3>4, <3>5, <3>6, <3>7
  <2> QED BY <2>2, <2>5 DEF c, k, j
<1> QED BY <1>5, <1>6 DEF p, N

LEMMA WordsArePacked ==
  ASSUME NEW n \in Nat
  PROVE  LET p == PackedWords(n) IN
         /\ p \in Seq(Octets) /\ Len(p) = 2 * n
         /\ \A i \in 1..n : p[2 * i - 1] * 256 + p[2 * i] = Word(i - 1)
<1> DEFINE p == PackedWords(n)
<1>1. p = [k \in 1..2 * n |-> IF k % 2 = 1 THEN Word(k \div 2) \div 256 ELSE Word(k \div 2 - 1) % 256]
  BY DEF PackedWords
<1>2. \A i \in Int : Word(i) \div 256 \in Octets /\ Word(i) % 256 \in Octets
                       /\ (Word(i) \div 256) * 256 + (Word(i) % 256) = Word(i)
  BY WordIs, WordInBytes
<1> HIDE DEF p
<1>3. \A k \in 1..2 * n : p[k] \in Octets
  <2> SUFFICES ASSUME NEW k \in 1..2 * n PROVE p[k] \in Octets OBVIOUS
  <2>1. k \div 2 \in Int /\ k \div 2 - 1 \in Int OBVIOUS
  <2> QED BY <1>1, <1>2, <2>1
<1>4. p \in Seq(Octets) /\ Len(p) = 2 * n
  <2>1. 2 * n \in Nat /\ DOMAIN p = 1..2 * n /\ p = [k \in 1..2 * n |-> p[k]] BY <1>1
  <2> QED BY <1>3, <2>1
<1>5. ASSUME NEW i \in 1..n PROVE p[2 * i - 1] * 256 + p[2 * i] = Word(i - 1)
  <2>1. /\ 2 * i - 1 \in 1..2 * n /\ 2 * i \in 1..2 * n
        /\ (2 * i - 1) % 2 = 1 /\ (2 * i - 1) \div 2 = i - 1 /\ (2 * i) % 2 = 0 /\ (2 * i) \div 2 = i
    OBVIOUS
  <2>2. p[2 * i - 1] = Word(i - 1) \div 256 /\ p[2 * i] = Word(i - 1) % 256 BY <1>1, <2>1
  <2>3. i - 1 \in Int OBVIOUS
  <2> QED BY <1>2, <2>2, <2>3
<1> QED BY <1>4, <1>5 DEF p

\* The values of n coils or registers are as many bytes as the protocol counts.
LEMMA PackedIs ==
  ASSUME NEW fc \in FunctionCodes, NEW n \in Nat
  PROVE  Packed(fc, n) \in Seq(Octets) /\ (fc \notin WriteSingle => Len(Packed(fc, n)) = ByteCount(fc, n))
<1>1. CASE IsOfBits(fc)
  <2>1. Packed(fc, n) = PackedBits(n) BY <1>1 DEF Packed
  <2>2. fc \notin WriteSingle => ByteCount(fc, n) = (n + 7) \div 8
    BY <1>1 DEF IsOfBits, ByteCount, BytesFor, WriteSingle
  <2> QED BY <2>1, <2>2, BitsArePacked
<1>2. CASE ~IsOfBits(fc)
  <2>1. Packed(fc, n) = PackedWords(n) BY <1>2 DEF Packed
  <2>2. fc \notin WriteSingle => ByteCount(fc, n) = 2 * n
    BY <1>2 DEF IsOfBits, ByteCount
  <2> QED BY <2>1, <2>2, WordsArePacked
<1> QED BY <1>1, <1>2

-----------------------------------------------------------------------------
(* Requests and answers *)

LEMMA CodesAre ==
  /\ Reads = {1, 2, 3, 4} /\ WriteSingle = {5, 6} /\ WriteMultiple = {15, 16}
  /\ FunctionCodes = {1, 2, 3, 4, 5, 6, 15, 16}
BY DEF Reads, ReadBits, ReadRegisters, WriteSingle, WriteMultiple, FunctionCodes

\* What no request or answer exceeds.
LEMMA CountFits ==
  ASSUME NEW fc \in Reads \cup WriteMultiple, NEW q \in Nat, 1 <= q, q <= MaxQuantity(fc)
  PROVE  ByteCount(fc, q) \in Nat /\ 1 <= ByteCount(fc, q) /\ ByteCount(fc, q) <= 250
         /\ (fc \in WriteMultiple => ByteCount(fc, q) <= 246)
<1>1. CASE fc \in {1, 2}
  <2>1. ByteCount(fc, q) = (q + 7) \div 8 /\ MaxQuantity(fc) = 2000
    BY <1>1 DEF ByteCount, BytesFor, MaxQuantity, ReadBits, ReadRegisters
  <2>2. fc \notin WriteMultiple BY <1>1, CodesAre
  <2> QED BY <2>1, <2>2
<1>2. CASE fc \in {3, 4}
  <2>1. ByteCount(fc, q) = 2 * q /\ MaxQuantity(fc) = 125
    BY <1>2 DEF ByteCount, BytesFor, MaxQuantity, ReadBits, ReadRegisters
  <2>2. fc \notin WriteMultiple BY <1>2, CodesAre
  <2> QED BY <2>1, <2>2
<1>3. CASE fc = 15
  <2>1. ByteCount(fc, q) = (q + 7) \div 8 /\ MaxQuantity(fc) = 1968
    BY <1>3 DEF ByteCount, BytesFor, MaxQuantity, ReadBits, ReadRegisters
  <2> QED BY <2>1
<1>4. CASE fc = 16
  <2>1. ByteCount(fc, q) = 2 * q /\ MaxQuantity(fc) = 123
    BY <1>4 DEF ByteCount, BytesFor, MaxQuantity, ReadBits, ReadRegisters
  <2> QED BY <2>1
<1> QED BY <1>1, <1>2, <1>3, <1>4, CodesAre

\* The data of a write of several values.
MultipleData(a, b, raw) == FourBytes(a, b) \o <<Len(raw)>> \o raw

IsMultiple(d, a, b, raw) ==
  /\ d \in Seq(Octets) /\ Len(d) = 5 + Len(raw) /\ d[5] = Len(raw)
  /\ ReadBigEndian(d, 0) = a /\ ReadBigEndian(d, 2) = b
  /\ First(4, d) = FourBytes(a, b) /\ DropFirst(5, d) = raw

LEMMA MultipleDataIs ==
  ASSUME NEW a, NEW b, IsWordValue(a), IsWordValue(b), NEW raw \in Seq(Octets), Len(raw) <= 255
  PROVE  IsMultiple(MultipleData(a, b, raw), a, b, raw)
<1> DEFINE four == FourBytes(a, b)
           count == <<Len(raw)>>
           head == four \o count
           d == head \o raw
           l == Len(raw)
<1>1. four \in Seq(Octets) /\ Len(four) = 4 /\ four[1] * 256 + four[2] = a /\ four[3] * 256 + four[4] = b
  BY FourBytesAre DEF IsFour
<1>2. count \in Seq(Octets) /\ Len(count) = 1 /\ count[1] = l
  <2>0. l \in Nat /\ l <= 255 OBVIOUS
  <2> HIDE DEF l
  <2>1. l \in Octets BY <2>0 DEF Octets
  <2>2. count = <<l>> BY DEF l
  <2> QED BY <2>1, <2>2
<1>3. d = MultipleData(a, b, raw) BY DEF MultipleData
<1>0. l \in Nat OBVIOUS
<1> HIDE DEF four, count
<1>4. head \in Seq(Octets) /\ Joined(head, four, count) BY <1>1, <1>2, JoinedIs
<1> HIDE DEF head
<1>5. d \in Seq(Octets) /\ Joined(d, head, raw) BY <1>4, JoinedIs
<1> HIDE DEF d
<1>6. Len(head) = 5 /\ head[5] = l /\ \A i \in 1..4 : head[i] = four[i] BY <1>1, <1>2, <1>4 DEF Joined
<1>7. Len(d) = 5 + l BY <1>5, <1>6 DEF Joined, l
<1>8. \A i \in 1..5 : d[i] = head[i]
  <2> SUFFICES ASSUME NEW i \in 1..5 PROVE d[i] = head[i] OBVIOUS
  <2>1. i \in 1..Len(head) + Len(raw) /\ i <= Len(head) BY <1>0, <1>6 DEF l
  <2> QED BY <1>5, <2>1 DEF Joined
<1>9. \A i \in 1..l : d[5 + i] = raw[i]
  <2> SUFFICES ASSUME NEW i \in 1..l PROVE d[5 + i] = raw[i] OBVIOUS
  <2>1. 5 + i \in 1..5 + l /\ ~(5 + i <= 5) /\ (5 + i) - 5 = i BY <1>0
  <2> QED BY <1>5, <1>6, <2>1 DEF Joined, l
<1>10. d[1] = four[1] /\ d[2] = four[2] /\ d[3] = four[3] /\ d[4] = four[4] /\ d[5] = l BY <1>6, <1>8
<1>11. ReadBigEndian(d, 0) = a /\ ReadBigEndian(d, 2) = b
  <2>1. ReadBigEndian(d, 0) = d[1] * 256 + d[2] /\ ReadBigEndian(d, 2) = d[3] * 256 + d[4]
    BY DEF ReadBigEndian
  <2> QED BY <1>1, <1>10, <2>1
<1>12. First(4, d) = four
  <2>1. 4 = 1 + Len(four) - 1 /\ 4 <= Len(d) BY <1>0, <1>1, <1>7
  <2>2. \A i \in 1..Len(four) : d[1 - 1 + i] = four[i] BY <1>1, <1>10
  <2>3. SubSeq(d, 1, 4) = four BY <1>1, <1>5, <2>1, <2>2, PartIs
  <2> QED BY <2>3 DEF First
<1>13. DropFirst(5, d) = raw
  <2>1. Len(d) = 6 + Len(raw) - 1 /\ Len(d) \in Nat BY <1>0, <1>7 DEF l
  <2>2. \A i \in 1..Len(raw) : d[6 - 1 + i] = raw[i] BY <1>9 DEF l
  <2>3. SubSeq(d, 6, Len(d)) = raw BY <1>5, <2>1, <2>2, PartIs
  <2> QED BY <2>3 DEF DropFirst
<1> QED BY <1>3, <1>5, <1>7, <1>10, <1>11, <1>12, <1>13 DEF l, four, IsMultiple

\* What is sent for a sample.
RequestIs(s, pdu) ==
  /\ pdu.fc = s.fc /\ s.fc \in FunctionCodes /\ s.start \in Nat /\ s.quantity \in Nat
  /\ IsWordValue(s.start)
  /\ pdu.data \in Seq(Octets) /\ ReadBigEndian(pdu.data, 0) = s.start
  /\ s.fc \in Reads \cup WriteMultiple =>
       /\ IsWordValue(s.quantity) /\ 1 <= s.quantity /\ s.quantity <= MaxQuantity(s.fc)
       /\ s.start + s.quantity <= MaxAddress + 1
       /\ ReadBigEndian(pdu.data, 2) = s.quantity
  /\ s.fc \in Reads \cup WriteSingle => Len(pdu.data) = 4
  /\ s.fc \in WriteMultiple =>
       pdu.data = MultipleData(s.start, s.quantity, Packed(s.fc, s.quantity))

LEMMA SmallIsWord ==
  ASSUME NEW n \in Nat, n <= 2000 PROVE IsWordValue(n)
<1>1. n \in Int /\ 0 <= n /\ n <= 65535 OBVIOUS
<1> QED BY <1>1 DEF IsWordValue, MaxAddress

LEMMA UpTo ==
  ASSUME NEW m \in Nat, NEW n \in 1..m PROVE n \in Nat /\ 1 <= n /\ n <= m
OBVIOUS

LEMMA LastIsInt == MaxAddress \in Int
BY DEF MaxAddress

LEMMA StartIsWord ==
  ASSUME NEW n \in 0..MaxAddress PROVE IsWordValue(n)
BY LastIsInt DEF IsWordValue

LEMMA RequestSampleIs ==
  ASSUME NEW s \in RequestSamples
  PROVE  s.fc \in FunctionCodes /\ s.start \in Nat /\ s.quantity \in Nat
BY SamplesReal DEF RequestSamples

LEMMA ReadAccepted ==
  ASSUME NEW s \in RequestSamples, s.fc \in Reads, NEW pdu \in Accepted(s)
  PROVE  RequestIs(s, pdu)
<1>0. s.fc \in FunctionCodes /\ s.start \in Nat /\ s.quantity \in Nat BY RequestSampleIs
<1>1. pdu \in BuildReadRequest(s.fc, s.start, s.quantity) /\ ValidateRequest(pdu, 1, mode)
  BY DEF Accepted
<1>2. s.start \in 0..MaxAddress /\ s.quantity \in 1..2000
      /\ pdu = [fc |-> s.fc, data |-> FourBytes(s.start, s.quantity)]
  BY <1>1, SMTT(40) DEF BuildReadRequest, FourBytes
<1>3. IsWordValue(s.start) /\ IsWordValue(s.quantity)
  <2>1. s.start \in 0..MaxAddress /\ s.quantity \in 1..2000 BY <1>2
  <2>2. s.quantity <= 2000
    <3> DEFINE most == 2000
    <3>1. most \in Nat OBVIOUS
    <3>2. s.quantity \in 1..most BY <2>1
    <3> HIDE DEF most
    <3>3. s.quantity <= most BY <3>1, <3>2, UpTo
    <3> QED BY <3>3 DEF most
  <2> QED BY <1>0, <2>1, <2>2, SmallIsWord, StartIsWord
<1>4. IsFour(pdu.data, s.start, s.quantity) BY <1>2, <1>3, FourBytesAre
<1>5. ReadBigEndian(pdu.data, 0) = s.start /\ ReadBigEndian(pdu.data, 2) = s.quantity
      /\ pdu.data \in Seq(Octets) /\ Len(pdu.data) = 4
  BY <1>4 DEF IsFour
<1>6. s.fc \notin WriteMultiple BY CodesAre
<1>7. s.quantity \in 1..MaxQuantity(s.fc) /\ RangeFits(s.start, s.quantity)
  <2>1. pdu.fc = s.fc /\ s.fc \notin WriteSingle BY <1>2, CodesAre
  <2> QED BY <1>1, <1>5, <1>6, <2>1 DEF ValidateRequest
<1>8. s.start + s.quantity <= MaxAddress + 1
  <2>1. MaxAddress \in Int BY DEF MaxAddress
  <2> QED BY <1>0, <1>7, <2>1 DEF RangeFits
<1>9. MaxQuantity(s.fc) \in Nat BY CodesAre DEF MaxQuantity, ReadBits, ReadRegisters
<1>10. 1 <= s.quantity /\ s.quantity <= MaxQuantity(s.fc) BY <1>0, <1>7, <1>9
<1>11. pdu.fc = s.fc BY <1>2
<1> QED BY <1>0, <1>3, <1>5, <1>6, <1>8, <1>10, <1>11 DEF RequestIs

LEMMA SingleAccepted ==
  ASSUME NEW s \in RequestSamples, s.fc \in WriteSingle, NEW pdu \in Accepted(s)
  PROVE  RequestIs(s, pdu)
<1>0. s.fc \in FunctionCodes /\ s.start \in Nat /\ s.quantity \in Nat BY RequestSampleIs
<1>1. pdu \in BuildWriteRequest(s.fc, s.start, s.quantity, Raw(s)) /\ s.fc \notin Reads
  BY CodesAre DEF Accepted
<1>2. \E v : IsWordValue(v) /\ pdu \in BuildWriteSingle(s.fc, s.start, v)
  <2>1. CASE s.fc = 5
    <3>1. pdu \in BuildWriteSingle(s.fc, s.start, CoilValue(Raw(s))) BY <1>1, <2>1 DEF BuildWriteRequest
    <3>2. CoilValue(Raw(s)) \in {0, 65280} BY DEF CoilValue
    <3>3. IsWordValue(0) /\ IsWordValue(65280) BY DEF IsWordValue, MaxAddress
    <3> QED BY <3>1, <3>2, <3>3
  <2>2. CASE s.fc = 6
    <3> DEFINE w == Word(s.quantity)
               raw == ToBigEndian(w)
    <3>1. pdu \in BuildWriteSingle(s.fc, s.start, RegisterValue(Raw(s))) BY <1>1, <2>2 DEF BuildWriteRequest
    <3>2. Raw(s) = raw BY <2>2 DEF Raw
    <3>3. IsWordValue(w) BY <1>0, WordIs
    <3> HIDE DEF w
    <3>4. Len(raw) = 2 /\ raw[1] = w \div 256 /\ raw[2] = w % 256 BY DEF ToBigEndian
    <3> HIDE DEF raw
    <3>5. RegisterValue(raw) = raw[1] * 256 + raw[2] BY <3>4 DEF RegisterValue, ReadBigEndian
    <3>6. RegisterValue(raw) = w BY <3>3, <3>4, <3>5, WordInBytes
    <3> QED BY <3>1, <3>2, <3>3, <3>6
  <2> QED BY <2>1, <2>2, CodesAre
<1>3. PICK v : IsWordValue(v) /\ pdu \in BuildWriteSingle(s.fc, s.start, v) BY <1>2
<1>4. s.start \in 0..MaxAddress /\ pdu = [fc |-> s.fc, data |-> FourBytes(s.start, v)]
  BY <1>3 DEF BuildWriteSingle, FourBytes
<1>5. IsWordValue(s.start) BY <1>4, StartIsWord
<1>6. IsFour(pdu.data, s.start, v) BY <1>3, <1>4, <1>5, FourBytesAre
<1>7. ReadBigEndian(pdu.data, 0) = s.start /\ pdu.data \in Seq(Octets) /\ Len(pdu.data) = 4
  BY <1>6 DEF IsFour
<1>8. s.fc \notin Reads \cup WriteMultiple /\ s.fc \notin WriteMultiple /\ pdu.fc = s.fc BY <1>4, CodesAre
<1> QED BY <1>0, <1>5, <1>7, <1>8 DEF RequestIs

LEMMA MultipleAccepted ==
  ASSUME NEW s \in RequestSamples, s.fc \in WriteMultiple, NEW pdu \in Accepted(s)
  PROVE  RequestIs(s, pdu)
<1> DEFINE raw == Packed(s.fc, s.quantity)
<1>0. s.fc \in FunctionCodes /\ s.start \in Nat /\ s.quantity \in Nat BY RequestSampleIs
<1>1. pdu \in BuildWriteRequest(s.fc, s.start, s.quantity, Raw(s)) /\ s.fc \notin Reads /\ s.fc \notin WriteSingle
      /\ ValidateRequest(pdu, 1, mode)
  BY CodesAre DEF Accepted
<1>2. Raw(s) = raw
  <2>1. s.fc # 5 /\ s.fc # 6 BY CodesAre
  <2> QED BY <2>1 DEF Raw
<1> HIDE DEF raw
<1>3. pdu \in BuildWriteMultiple(s.fc, s.start, s.quantity, MaxQuantity(s.fc), ByteCount(s.fc, s.quantity), raw)
  <2>1. CASE s.fc = 15
    <3>1. MaxQuantity(15) = 1968 /\ ByteCount(15, s.quantity) = BytesFor(s.quantity)
      BY DEF MaxQuantity, ByteCount, ReadBits, ReadRegisters
    <3>2. BuildWriteRequest(15, s.start, s.quantity, raw)
            = BuildWriteMultiple(15, s.start, s.quantity, 1968, BytesFor(s.quantity), raw)
      BY DEF BuildWriteRequest
    <3> QED BY <1>1, <1>2, <2>1, <3>1, <3>2
  <2>2. CASE s.fc = 16
    <3>1. MaxQuantity(16) = 123 /\ ByteCount(16, s.quantity) = 2 * s.quantity
      BY DEF MaxQuantity, ByteCount, ReadBits, ReadRegisters
    <3>2. BuildWriteRequest(16, s.start, s.quantity, raw)
            = BuildWriteMultiple(16, s.start, s.quantity, 123, 2 * s.quantity, raw)
      BY DEF BuildWriteRequest
    <3> QED BY <1>1, <1>2, <2>2, <3>1, <3>2
  <2> QED BY <2>1, <2>2, CodesAre
<1>4. /\ s.start \in 0..MaxAddress /\ s.quantity \in 1..MaxQuantity(s.fc)
      /\ Len(raw) = ByteCount(s.fc, s.quantity)
      /\ pdu = [fc |-> s.fc, data |-> MultipleData(s.start, s.quantity, raw)]
  BY <1>3 DEF BuildWriteMultiple, MultipleData, FourBytes
<1>5. MaxQuantity(s.fc) \in Nat /\ MaxQuantity(s.fc) <= 1968
  BY CodesAre DEF MaxQuantity, ReadBits, ReadRegisters
<1>6. 1 <= s.quantity /\ s.quantity <= MaxQuantity(s.fc) /\ s.quantity <= 2000 BY <1>0, <1>4, <1>5
<1>7. IsWordValue(s.start) /\ IsWordValue(s.quantity) BY <1>0, <1>4, <1>6, SmallIsWord, StartIsWord
<1>8. raw \in Seq(Octets) BY <1>0, PackedIs DEF raw
<1>9. Len(raw) <= 255
  <2>1. ByteCount(s.fc, s.quantity) \in Nat /\ ByteCount(s.fc, s.quantity) <= 250 BY <1>0, <1>6, CountFits
  <2> QED BY <1>4, <2>1
<1> DEFINE d == MultipleData(s.start, s.quantity, raw)
<1>10. /\ d \in Seq(Octets) /\ Len(d) = 5 + Len(raw)
       /\ ReadBigEndian(d, 0) = s.start /\ ReadBigEndian(d, 2) = s.quantity
  <2>1. IsMultiple(d, s.start, s.quantity, raw) BY <1>7, <1>8, <1>9, MultipleDataIs
  <2> QED BY <2>1 DEF IsMultiple
<1>11. pdu.data = d /\ pdu.fc = s.fc BY <1>4
<1> HIDE DEF d
<1>12. RangeFits(s.start, s.quantity)
  <2>1. pdu.fc \notin Reads /\ pdu.fc \notin WriteSingle BY <1>1, <1>11
  <2> QED BY <1>1, <1>10, <1>11, <2>1 DEF ValidateRequest
<1>13. s.start + s.quantity <= MaxAddress + 1
  <2>1. MaxAddress \in Int BY DEF MaxAddress
  <2> QED BY <1>0, <1>12, <2>1 DEF RangeFits
<1>14. s.fc \notin Reads \cup WriteSingle BY <1>1
<1> QED BY <1>0, <1>6, <1>7, <1>10, <1>11, <1>13, <1>14 DEF RequestIs, d, raw

LEMMA AcceptedIs ==
  ASSUME NEW s \in RequestSamples, NEW pdu \in Accepted(s)
  PROVE  RequestIs(s, pdu)
<1>1. s.fc \in Reads \cup WriteSingle \cup WriteMultiple BY RequestSampleIs DEF FunctionCodes
<1> QED BY <1>1, ReadAccepted, SingleAccepted, MultipleAccepted

\* The values of an answer after their number.
Counted(raw) == <<Len(raw)>> \o raw

IsCounted(d, raw) ==
  /\ Len(d) = 1 + Len(raw) /\ d[1] = Len(raw)
  /\ \A i \in 1..Len(raw) : d[1 + i] = raw[i]
  /\ Len(raw) <= 255 => d \in Seq(Octets)

LEMMA CountedIs ==
  ASSUME NEW raw \in Seq(Octets)
  PROVE  IsCounted(Counted(raw), raw)
<1> DEFINE l == Len(raw)
           count == <<l>>
           S == Octets \cup {l}
           d == count \o raw
<1>0. l \in Nat OBVIOUS
<1>1. raw \in Seq(S) BY SeqMonotonic
<1>2. d = Counted(raw) BY DEF Counted
<1> HIDE DEF l
<1>3. count \in Seq(S) /\ Len(count) = 1 /\ count[1] = l OBVIOUS
<1> HIDE DEF count
<1>4. d \in Seq(S) /\ Joined(d, count, raw) BY <1>1, <1>3, JoinedIs
<1> HIDE DEF d
<1>5. Len(raw) = l BY DEF l
<1>6. Len(d) = 1 + l BY <1>3, <1>4, <1>5 DEF Joined
<1>7. d[1] = l BY <1>0, <1>3, <1>4, <1>5 DEF Joined
<1>8. \A i \in 1..l : d[1 + i] = raw[i]
  <2> SUFFICES ASSUME NEW i \in 1..l PROVE d[1 + i] = raw[i] OBVIOUS
  <2>1. 1 + i \in 1..1 + l /\ ~(1 + i <= 1) /\ (1 + i) - 1 = i BY <1>0
  <2> QED BY <1>3, <1>4, <1>5, <2>1 DEF Joined
<1>9. l <= 255 => d \in Seq(Octets)
  <2> SUFFICES ASSUME l <= 255 PROVE d \in Seq(Octets) OBVIOUS
  <2>1. l \in Octets BY <1>0 DEF Octets
  <2>2. S = Octets BY <2>1
  <2> QED BY <1>4, <2>2
<1> QED BY <1>2, <1>5, <1>6, <1>7, <1>8, <1>9 DEF IsCounted

LEMMA AnswerIs ==
  ASSUME NEW s, NEW pdu, NEW n
  PROVE  LET answer == AnswerOf(s, pdu, n) IN
         /\ answer.fc = s.fc
         /\ s.fc \in Reads => answer.data = Counted(Packed(s.fc, n))
         /\ s.fc \in WriteSingle => answer.data = pdu.data
         /\ s.fc \in WriteMultiple => answer.data = FourBytes(s.start, n)
<1>1. AnswerOf(s, pdu, n).fc = s.fc BY DEF AnswerOf
<1>2. CASE s.fc \in Reads
  <2>1. s.fc \notin WriteSingle /\ s.fc \notin WriteMultiple BY <1>2, CodesAre
  <2> QED BY <1>1, <1>2, <2>1 DEF AnswerOf, Counted
<1>3. CASE s.fc \in WriteSingle
  <2>1. s.fc \notin Reads /\ s.fc \notin WriteMultiple BY <1>3, CodesAre
  <2> QED BY <1>1, <1>3, <2>1 DEF AnswerOf
<1>4. CASE s.fc \in WriteMultiple
  <2>1. s.fc \notin Reads /\ s.fc \notin WriteSingle BY <1>4, CodesAre
  <2> QED BY <1>1, <1>4, <2>1 DEF AnswerOf, FourBytes
<1> QED BY <1>1, <1>2, <1>3, <1>4

\* A request and its answer are PDUs.
LEMMA BytesArePdu ==
  ASSUME NEW pdu, pdu.fc \in FunctionCodes, pdu.data \in Seq(Octets), 1 <= Len(pdu.data), Len(pdu.data) <= 252
  PROVE  /\ IsPdu(Bytes(pdu)) /\ Len(Bytes(pdu)) = 1 + Len(pdu.data) /\ Bytes(pdu)[1] = pdu.fc
         /\ \A i \in 1..Len(pdu.data) : Bytes(pdu)[1 + i] = pdu.data[i]
<1> DEFINE d == pdu.data
           code == <<pdu.fc>>
           p == code \o d
           l == Len(d)
<1>0. l \in Nat /\ 1 <= l /\ l <= 252 OBVIOUS
<1>1. code \in Seq(Octets) /\ Len(code) = 1 /\ code[1] = pdu.fc
  <2>1. pdu.fc \in Octets BY CodesAre DEF Octets
  <2> QED BY <2>1
<1>2. p = Bytes(pdu) BY DEF Bytes
<1>3. d \in Seq(Octets) OBVIOUS
<1> HIDE DEF code, d
<1>4. p \in Seq(Octets) /\ Joined(p, code, d) BY <1>1, <1>3, JoinedIs
<1> HIDE DEF p
<1>5. Len(p) = 1 + l BY <1>1, <1>4 DEF Joined, l
<1>6. p[1] = pdu.fc BY <1>0, <1>1, <1>4 DEF Joined, l
<1>7. \A i \in 1..l : p[1 + i] = d[i]
  <2> SUFFICES ASSUME NEW i \in 1..l PROVE p[1 + i] = d[i] OBVIOUS
  <2>1. 1 + i \in 1..1 + l /\ ~(1 + i <= 1) /\ (1 + i) - 1 = i BY <1>0
  <2> QED BY <1>1, <1>4, <2>1 DEF Joined, l
<1> HIDE DEF l
<1>8. IsPdu(p) BY <1>0, <1>4, <1>5 DEF IsPdu
<1> QED BY <1>2, <1>5, <1>6, <1>7, <1>8 DEF l, d

LEMMA RequestIsPdu ==
  ASSUME NEW s, NEW pdu, RequestIs(s, pdu)
  PROVE  /\ pdu.fc \in FunctionCodes /\ pdu.data \in Seq(Octets)
         /\ 1 <= Len(pdu.data) /\ Len(pdu.data) <= 252 /\ 4 <= Len(pdu.data)
<1>1. pdu.fc = s.fc /\ s.fc \in FunctionCodes /\ pdu.data \in Seq(Octets) /\ s.quantity \in Nat
  BY DEF RequestIs
<1>2. 4 <= Len(pdu.data) /\ Len(pdu.data) <= 252
  <2>1. CASE s.fc \in Reads \cup WriteSingle
    <3>1. Len(pdu.data) = 4 BY <2>1 DEF RequestIs
    <3> QED BY <3>1
  <2>2. CASE s.fc \in WriteMultiple
    <3> DEFINE raw == Packed(s.fc, s.quantity)
    <3>1. /\ pdu.data = MultipleData(s.start, s.quantity, raw) /\ 1 <= s.quantity
          /\ s.quantity <= MaxQuantity(s.fc) /\ IsWordValue(s.start) /\ IsWordValue(s.quantity)
      BY <2>2 DEF RequestIs
    <3>2. s.fc \notin WriteSingle BY <2>2, CodesAre
    <3>3. raw \in Seq(Octets) /\ Len(raw) = ByteCount(s.fc, s.quantity) BY <1>1, <3>2, PackedIs
    <3>4. ByteCount(s.fc, s.quantity) \in Nat /\ ByteCount(s.fc, s.quantity) <= 246 BY <1>1, <2>2, <3>1, CountFits
    <3> HIDE DEF raw
    <3>5. Len(raw) \in Nat /\ Len(raw) <= 246 /\ Len(raw) <= 255 BY <3>3, <3>4
    <3>6. Len(pdu.data) = 5 + Len(raw)
      <4>1. IsMultiple(MultipleData(s.start, s.quantity, raw), s.start, s.quantity, raw)
        BY <3>1, <3>3, <3>5, MultipleDataIs
      <4> QED BY <3>1, <4>1 DEF IsMultiple
    <3> QED BY <3>5, <3>6
  <2> QED BY <1>1, <2>1, <2>2 DEF FunctionCodes
<1> QED BY <1>1, <1>2

LEMMA AnswerIsPdu ==
  ASSUME NEW s, NEW pdu, RequestIs(s, pdu)
  PROVE  LET answer == AnswerOf(s, pdu, s.quantity) IN
         /\ answer.fc \in FunctionCodes /\ answer.data \in Seq(Octets)
         /\ 1 <= Len(answer.data) /\ Len(answer.data) <= 252
<1> DEFINE answer == AnswerOf(s, pdu, s.quantity)
           raw == Packed(s.fc, s.quantity)
<1>1. s.fc \in FunctionCodes /\ s.quantity \in Nat BY DEF RequestIs
<1>2. answer.fc = s.fc BY AnswerIs
<1>3. CASE s.fc \in Reads
  <2>1. answer.data = Counted(raw) BY <1>3, AnswerIs
  <2>2. s.fc \notin WriteSingle /\ 1 <= s.quantity /\ s.quantity <= MaxQuantity(s.fc) BY <1>3, CodesAre DEF RequestIs
  <2>3. raw \in Seq(Octets) /\ Len(raw) = ByteCount(s.fc, s.quantity) BY <1>1, <2>2, PackedIs
  <2>4. ByteCount(s.fc, s.quantity) \in Nat /\ ByteCount(s.fc, s.quantity) <= 250 BY <1>1, <1>3, <2>2, CountFits
  <2> HIDE DEF answer, raw
  <2>5. Len(raw) \in Nat /\ Len(raw) <= 250 /\ Len(raw) <= 255 BY <2>3, <2>4
  <2>6. IsCounted(Counted(raw), raw) BY <2>3, CountedIs
  <2>7. answer.data \in Seq(Octets) /\ Len(answer.data) = 1 + Len(raw) BY <2>1, <2>5, <2>6 DEF IsCounted
  <2> QED BY <1>1, <1>2, <2>5, <2>7 DEF answer
<1>4. CASE s.fc \in WriteSingle
  <2>1. answer.data = pdu.data BY <1>4, AnswerIs
  <2> QED BY <1>1, <1>2, <2>1, RequestIsPdu
<1>5. CASE s.fc \in WriteMultiple
  <2>1. answer.data = FourBytes(s.start, s.quantity) BY <1>5, AnswerIs
  <2>2. IsWordValue(s.start) /\ IsWordValue(s.quantity) BY <1>5 DEF RequestIs
  <2> HIDE DEF answer
  <2>3. answer.data \in Seq(Octets) /\ Len(answer.data) = 4 BY <2>1, <2>2, FourBytesAre DEF IsFour
  <2> QED BY <1>1, <1>2, <2>3 DEF answer
<1> QED BY <1>1, <1>3, <1>4, <1>5 DEF FunctionCodes

LEMMA RequestsFit ==
  ASSUME sample \in Samples PROVE RequestFits
<1> SUFFICES ASSUME IsRequest, NEW pdu \in Accepted(sample)
             PROVE  /\ sample.fc \notin WriteSingle => sample.start + sample.quantity <= 65536
                    /\ 1 + Len(pdu.data) <= 253
                    /\ 1 + Len(AnswerOf(sample, pdu, sample.quantity).data) <= 253
  BY DEF RequestFits
<1>1. sample \in RequestSamples
  BY DEF Samples, IsRequest, RequestSamples, TableSamples, PairSamples, AddressSamples
<1>2. RequestIs(sample, pdu) BY <1>1, AcceptedIs
<1>3. ASSUME sample.fc \notin WriteSingle PROVE sample.start + sample.quantity <= 65536
  <2>1. sample.fc \in Reads \cup WriteMultiple BY <1>2, <1>3 DEF RequestIs, FunctionCodes
  <2>2. sample.start + sample.quantity <= MaxAddress + 1 BY <1>2, <2>1 DEF RequestIs
  <2>3. MaxAddress + 1 = 65536 BY DEF MaxAddress
  <2> QED BY <2>2, <2>3
<1>4. Len(pdu.data) \in Nat /\ Len(pdu.data) <= 252 BY <1>2, RequestIsPdu
<1> DEFINE a == AnswerOf(sample, pdu, sample.quantity).data
<1>5. a \in Seq(Octets) /\ Len(a) <= 252 BY <1>2, AnswerIsPdu
<1> HIDE DEF a
<1>6. 1 + Len(a) <= 253 BY <1>5
<1>7. 1 + Len(pdu.data) <= 253 BY <1>4
<1> QED BY <1>3, <1>6, <1>7 DEF a

LEMMA CountGrows ==
  ASSUME NEW fc, NEW n \in Nat PROVE ByteCount(fc, n + 8) # ByteCount(fc, n)
<1>1. (n + 8 + 7) \div 8 # (n + 7) \div 8 /\ 2 * (n + 8) # 2 * n OBVIOUS
<1> QED BY <1>1 DEF ByteCount, BytesFor

LEMMA AnswersAccepted ==
  ASSUME sample \in Samples PROVE AnswerAccepted
<1> DEFINE s == sample
           n == sample.quantity
<1> SUFFICES ASSUME IsRequest, NEW pdu \in Accepted(s)
             PROVE  /\ ValidateResponse(pdu, AnswerOf(s, pdu, n))
                    /\ ValidateResponse(pdu, [fc |-> s.fc + 128, data |-> <<2>>])
                    /\ s.fc \in Reads => ~ValidateResponse(pdu, AnswerOf(s, pdu, n + 8))
  BY DEF AnswerAccepted
<1>1. s \in RequestSamples
  BY DEF Samples, IsRequest, RequestSamples, TableSamples, PairSamples, AddressSamples
<1>2. RequestIs(s, pdu) BY <1>1, AcceptedIs
<1> HIDE DEF s, n
<1>3. pdu.fc = s.fc /\ s.fc \in FunctionCodes /\ pdu.data \in Seq(Octets) /\ Len(pdu.data) >= 4 /\ Len(pdu.data) \in Nat
      /\ n \in Nat /\ n = s.quantity
  BY <1>2, RequestIsPdu DEF RequestIs, n, s
<1>4. s.fc \in Int /\ s.fc < 128 /\ s.fc + 128 >= 128 /\ (s.fc + 128) - 128 = s.fc BY <1>3, CodesAre
<1>5. ValidateResponse(pdu, [fc |-> s.fc + 128, data |-> <<2>>])
  BY <1>3, <1>4 DEF ValidateResponse
<1>6. ASSUME s.fc \in Reads, NEW k \in Nat
      PROVE  ValidateResponse(pdu, AnswerOf(s, pdu, k)) <=> ByteCount(s.fc, k) = ByteCount(s.fc, n)
  <2> DEFINE answer == AnswerOf(s, pdu, k)
             raw == Packed(s.fc, k)
             d == answer.data
  <2>1. answer.fc = s.fc /\ d = Counted(raw) BY <1>6, AnswerIs
  <2>2. s.fc \notin WriteSingle /\ s.fc \notin WriteMultiple BY <1>6, CodesAre
  <2>3. raw \in Seq(Octets) /\ Len(raw) = ByteCount(s.fc, k) BY <1>3, <2>2, PackedIs
  <2> HIDE DEF raw
  <2>4. Len(d) = 1 + Len(raw) /\ d[1] = Len(raw) /\ Len(raw) \in Nat
    BY <2>1, <2>3, CountedIs DEF IsCounted
  <2>5. ReadBigEndian(pdu.data, 2) = n BY <1>2, <1>3, <1>6 DEF RequestIs
  <2> HIDE DEF answer, d
  <2>6. ~(answer.fc >= 128) BY <1>4, <2>1
  <2>7. answer.data = d BY DEF d
  <2>8. ValidateResponse(pdu, answer) <=>
          /\ Len(pdu.data) >= 4 /\ Len(d) >= 1 /\ Len(d) = 1 + d[1]
          /\ d[1] = ByteCount(pdu.fc, ReadBigEndian(pdu.data, 2))
    BY <1>3, <1>6, <2>1, <2>2, <2>6, <2>7 DEF ValidateResponse
  <2>9. Len(d) >= 1 BY <2>4
  <2>10. ValidateResponse(pdu, answer) <=> ByteCount(s.fc, k) = ByteCount(s.fc, n)
    BY <1>3, <2>3, <2>4, <2>5, <2>8, <2>9
  <2> QED BY <2>10 DEF answer
<1>7. CASE s.fc \in Reads
  <2>1. ValidateResponse(pdu, AnswerOf(s, pdu, n)) BY <1>3, <1>6, <1>7
  <2>2. n + 8 \in Nat /\ ByteCount(s.fc, n + 8) # ByteCount(s.fc, n) BY <1>3, CountGrows
  <2>3. ~ValidateResponse(pdu, AnswerOf(s, pdu, n + 8)) BY <1>6, <1>7, <2>2
  <2> QED BY <1>5, <2>1, <2>3
<1>8. CASE s.fc \in WriteSingle
  <2> DEFINE answer == AnswerOf(s, pdu, n)
  <2>1. answer.fc = s.fc /\ answer.data = pdu.data BY <1>8, AnswerIs
  <2>2. s.fc \notin Reads BY <1>8, CodesAre
  <2> HIDE DEF answer
  <2>3. ~(answer.fc >= 128) BY <1>4, <2>1
  <2>4. ValidateResponse(pdu, answer) BY <1>3, <1>8, <2>1, <2>3 DEF ValidateResponse
  <2> QED BY <1>5, <2>2, <2>4 DEF answer
<1>9. CASE s.fc \in WriteMultiple
  <2> DEFINE answer == AnswerOf(s, pdu, n)
  <2>1. answer.fc = s.fc /\ answer.data = FourBytes(s.start, n) BY <1>9, AnswerIs
  <2>2. s.fc \notin Reads /\ s.fc \notin WriteSingle BY <1>9, CodesAre
  <2> HIDE DEF answer
  <2>3. ~(answer.fc >= 128) BY <1>4, <2>1
  <2>4. First(4, pdu.data) = FourBytes(s.start, n)
    <3> DEFINE raw == Packed(s.fc, n)
    <3>1. /\ pdu.data = MultipleData(s.start, n, raw) /\ 1 <= n
          /\ n <= MaxQuantity(s.fc) /\ IsWordValue(s.start) /\ IsWordValue(n)
      BY <1>2, <1>3, <1>9 DEF RequestIs
    <3>2. raw \in Seq(Octets) /\ Len(raw) = ByteCount(s.fc, n) BY <1>3, <2>2, PackedIs
    <3>3. ByteCount(s.fc, n) \in Nat /\ ByteCount(s.fc, n) <= 250 BY <1>3, <1>9, <3>1, CountFits
    <3> HIDE DEF raw
    <3>4. Len(raw) <= 255 BY <3>2, <3>3
    <3>5. IsMultiple(MultipleData(s.start, n, raw), s.start, n, raw) BY <3>1, <3>2, <3>4, MultipleDataIs
    <3> QED BY <3>1, <3>5 DEF IsMultiple
  <2>5. ValidateResponse(pdu, answer) BY <1>3, <1>9, <2>1, <2>3, <2>4 DEF ValidateResponse
  <2> QED BY <1>5, <2>2, <2>5 DEF answer
<1> QED BY <1>3, <1>7, <1>8, <1>9 DEF FunctionCodes

-----------------------------------------------------------------------------
(* A frame in two chunks *)

\* The extractor before anything arrived, whatever it dropped.
IsEmpty(x) == x \in Extractors /\ x.buffer = <<>> /\ x.completed = <<>>

Holding(x, bytes) == [x EXCEPT !.buffer = bytes]

LEMMA HoldingIs ==
  ASSUME NEW x, IsEmpty(x), NEW bytes \in Seq(Octets)
  PROVE  LET y == Holding(x, bytes) IN
         y \in Extractors /\ y.buffer = bytes /\ y.completed = <<>> /\ y.dropped = x.dropped /\ x.dropped \in Nat
         /\ y = [buffer |-> bytes, completed |-> <<>>, dropped |-> x.dropped]
BY DEF Holding, IsEmpty, Extractors

LEMMA NothingBefore ==
  ASSUME NEW S, NEW s \in Seq(S) PROVE <<>> \o s = s /\ DropFirst(0, s) = s /\ DropFirst(Len(s), s) = <<>>
<1>1. <<>> \o s = s OBVIOUS
<1>2. SubSeq(s, 1, Len(s)) = s BY FirstAll DEF First
<1>3. 0 + 1 = 1 /\ Len(s) \in 0..Len(s) /\ Len(s) - Len(s) = 0 OBVIOUS
<1>4. DropFirst(0, s) = s BY <1>2, <1>3 DEF DropFirst
<1>5. DropFirst(Len(s), s) \in Seq(S) /\ Len(DropFirst(Len(s), s)) = 0 BY <1>3, CutInTwo
<1>6. DropFirst(Len(s), s) = <<>> BY <1>5
<1> QED BY <1>1, <1>4, <1>6

\* Of a chunk nothing happens to but that it is kept, and of the chunk that completes a frame.
LEMMA TwoChunks ==
  ASSUME NEW x, IsEmpty(x), NEW frame \in Seq(Octets), 5 <= Len(frame), mode \in {"TCP", "ASCII"},
         Len(frame) <= (IF mode = "TCP" THEN MaxTcpBufferedBytes ELSE 2 * MaxAduSize),
         Len(frame) <= 2 * MaxAduSize,
         StepOf(Holding(x, First(5, frame))) = Holding(x, First(5, frame)),
         StepOf(Holding(x, frame)) = [buffer |-> <<>>, completed |-> <<frame>>, dropped |-> 0],
         StepOf([buffer |-> <<>>, completed |-> <<frame>>, dropped |-> 0])
           = [buffer |-> <<>>, completed |-> <<frame>>, dropped |-> 0]
  PROVE  Feed(Feed(x, First(5, frame)), DropFirst(5, frame))
           = [buffer |-> <<>>, completed |-> <<frame>>, dropped |-> 0]
<1> DEFINE limit == IF mode = "TCP" THEN MaxTcpBufferedBytes ELSE 2 * MaxAduSize
           a == First(5, frame)
           b == DropFirst(5, frame)
           done == [buffer |-> <<>>, completed |-> <<frame>>, dropped |-> 0]
           x1 == Holding(x, a)
           x2 == Holding(x, frame)
<1>0. limit \in Nat /\ Len(frame) \in Nat /\ 5 \in 0..Len(frame) /\ Len(frame) <= limit BY LimitsFit
<1>1. a \in Seq(Octets) /\ Len(a) = 5 /\ b \in Seq(Octets) /\ a \o b = frame BY <1>0, CutInTwo
<1>2. ASSUME NEW y, NEW data
      PROVE  Feed(y, data) = Process([y EXCEPT !.buffer = KeepLast(limit, @ \o data)])
  <2>1. CASE mode = "TCP" BY <2>1 DEF Feed
  <2>2. CASE mode = "ASCII" BY <2>2 DEF Feed
  <2> QED BY <2>1, <2>2
<1> HIDE DEF limit, a, b
<1>3. Feed(x, a) = x1
  <2>1. x.buffer \o a = a BY <1>1, NothingBefore DEF IsEmpty
  <2>2. KeepLast(limit, a) = a BY <1>0, <1>1, KeptLast
  <2>3. Feed(x, a) = Process(x1) BY <1>2, <2>1, <2>2 DEF Holding
  <2>4. x1 \in Extractors BY <1>1, HoldingIs
  <2>5. StepOf(x1) = x1 BY DEF a
  <2> HIDE DEF x1
  <2> QED BY <2>3, <2>4, <2>5, ProcessStays
<1>4. Feed(x1, b) = Process(x2)
  <2>1. x1.buffer = a BY <1>1, HoldingIs
  <2>2. KeepLast(limit, frame) = frame BY <1>0, KeptLast
  <2>3. [x1 EXCEPT !.buffer = frame] = x2 BY <1>1 DEF IsEmpty, Extractors, Holding
  <2> HIDE DEF x1, x2
  <2> QED BY <1>1, <1>2, <2>1, <2>2, <2>3
<1>5. Process(x2) = done
  <2>1. x2 \in Extractors /\ x2.buffer = frame BY HoldingIs
  <2>2. done \in Extractors
    <3>1. <<frame>> \in Seq(Seq(Octets)) /\ <<>> \in Seq(Octets) /\ 0 \in Nat OBVIOUS
    <3> QED BY <3>1 DEF Extractors
  <2>3. x2.buffer # done.buffer
    <3>1. done.buffer = <<>> /\ frame # <<>> BY <1>0
    <3> QED BY <2>1, <3>1
  <2>4. StepOf(x2) = done /\ StepOf(done) = done OBVIOUS
  <2>5. Len(x2.buffer) >= 1 BY <1>0, <2>1
  <2> HIDE DEF x2, done
  <2>6. x2 # done BY <2>3
  <2> QED BY <2>1, <2>2, <2>4, <2>5, <2>6, ProcessOnce
<1> QED BY <1>3, <1>4, <1>5 DEF a, b

LEMMA GivenOut ==
  ASSUME NEW x, IsEmpty(x), NEW frame \in Seq(Octets)
  PROVE  GiveOut(Holding(x, frame), Len(frame)) = [buffer |-> <<>>, completed |-> <<frame>>, dropped |-> 0]
<1> DEFINE y == Holding(x, frame)
           n == Len(frame)
<1>1. y = [buffer |-> frame, completed |-> <<>>, dropped |-> x.dropped] BY HoldingIs
<1>2. First(n, frame) = frame /\ DropFirst(n, frame) = <<>> BY FirstAll, NothingBefore
<1> HIDE DEF y, n
<1>3. y.buffer = frame /\ y.completed = <<>> BY <1>1
<1>4. Append(<<>>, frame) = <<frame>> OBVIOUS
<1>5. GiveOut(y, n) = [y EXCEPT !.completed = <<frame>>, !.buffer = <<>>, !.dropped = 0]
  BY <1>2, <1>3, <1>4 DEF GiveOut
<1>6. GiveOut(y, n) = [buffer |-> <<>>, completed |-> <<frame>>, dropped |-> 0] BY <1>1, <1>5
<1> QED BY <1>6 DEF y, n

LEMMA TcpExtracted ==
  ASSUME mode = "TCP", NEW x, IsEmpty(x), NEW p, IsPdu(p)
  PROVE  Feed(Feed(x, First(5, TcpFrame(p))), DropFirst(5, TcpFrame(p)))
           = [buffer |-> <<>>, completed |-> <<TcpFrame(p)>>, dropped |-> 0]
<1> DEFINE frame == TcpFrame(p)
           done == [buffer |-> <<>>, completed |-> <<frame>>, dropped |-> 0]
<1>0. Len(p) \in Nat /\ Len(p) >= 2 /\ Len(p) <= 253 BY DEF IsPdu
<1>1. frame \in Seq(Octets) /\ Len(frame) = 7 + Len(p) /\ InspectTcpAdu(frame) = Len(frame) BY TcpFrameIs
<1> HIDE DEF frame
<1>2. 5 <= Len(frame) /\ Len(frame) <= 260 /\ Len(frame) <= MaxAduSize /\ Len(frame) <= MaxTcpBufferedBytes
      /\ Len(frame) <= 2 * MaxAduSize /\ Len(frame) \in Nat /\ 5 \in 0..Len(frame)
  BY <1>0, <1>1, LimitsFit
<1>3. \A y : StepOf(y) = TcpStep(y) BY DEF StepOf
<1>4. ASSUME NEW y, InspectTcpAdu(y.buffer) = 0 PROVE TcpStep(y) = y
  <2>1. ~(0 > MaxAduSize) /\ 0 \notin 1..MaxAduSize /\ 0 # -1 BY LimitsFit
  <2> QED BY <1>4, <2>1 DEF TcpStep
<1>5. StepOf(Holding(x, First(5, frame))) = Holding(x, First(5, frame))
  <2> DEFINE a == First(5, frame)
  <2>1. a \in Seq(Octets) /\ Len(a) = 5
    <3>1. frame \in Seq(Octets) /\ 5 \in 0..Len(frame) BY <1>1, <1>2
    <3> QED BY <3>1, CutInTwo
  <2> HIDE DEF a
  <2>2. InspectTcpAdu(a) = 0 BY <2>1 DEF InspectTcpAdu
  <2>3. Holding(x, a).buffer = a BY <2>1, HoldingIs
  <2>4. TcpStep(Holding(x, a)) = Holding(x, a) BY <1>4, <2>2, <2>3
  <2> QED BY <1>3, <2>4 DEF a
<1>6. StepOf(Holding(x, frame)) = done
  <2> DEFINE y == Holding(x, frame)
             n == Len(frame)
  <2>1. y.buffer = frame BY <1>1, HoldingIs
  <2>2. ~(n > MaxAduSize) /\ n \in 1..MaxAduSize BY <1>2, LimitsFit
  <2>3. InspectTcpAdu(frame) = n BY <1>1
  <2>5. GiveOut(y, n) = done BY <1>1, GivenOut
  <2> HIDE DEF n, y, done
  <2>4. TcpStep(y) = GiveOut(y, n) BY <2>1, <2>2, <2>3 DEF TcpStep
  <2> QED BY <1>3, <2>4, <2>5 DEF y
<1>7. StepOf(done) = done
  <2>1. InspectTcpAdu(<<>>) = 0 BY DEF InspectTcpAdu
  <2>2. done.buffer = <<>> OBVIOUS
  <2> HIDE DEF done
  <2> QED BY <1>3, <1>4, <2>1, <2>2
<1>8. Feed(Feed(x, First(5, frame)), DropFirst(5, frame)) = done
  <2>1. Len(frame) <= (IF mode = "TCP" THEN MaxTcpBufferedBytes ELSE 2 * MaxAduSize) BY <1>2
  <2> QED BY <1>1, <1>2, <1>5, <1>6, <1>7, <2>1, TwoChunks
<1> QED BY <1>8 DEF frame

LEMMA FromFirstColon ==
  ASSUME NEW y \in Extractors, y.buffer = <<>> \/ y.buffer[1] = Colon
  PROVE  FromColon(y) = y
<1> DEFINE b == y.buffer
           colons == {i \in DOMAIN b : b[i] = Colon}
           least == CHOOSE i \in colons : \A j \in colons : i <= j
           skip == IF colons = {} THEN Len(b) ELSE least - 1
<1>1. b \in Seq(Octets) BY DEF Extractors
<1>2. skip = 0
  <2>1. CASE b = <<>>
    <3>1. colons = {} /\ Len(b) = 0 BY <2>1
    <3> QED BY <3>1
  <2>2. CASE b # <<>>
    <3>1. Len(b) \in Nat /\ Len(b) >= 1 BY <1>1, <2>2
    <3>2. 1 \in colons BY <1>1, <2>2, <3>1
    <3>3. colons \subseteq 1..Len(b) BY <1>1
    <3> HIDE DEF colons
    <3>4. \A j \in colons : 1 <= j BY <3>1, <3>3
    <3>5. \E i \in colons : \A j \in colons : i <= j BY <3>2, <3>4
    <3>6. least \in colons /\ \A j \in colons : least <= j BY <3>5
    <3> HIDE DEF least
    <3>7. least = 1 BY <3>1, <3>2, <3>3, <3>4, <3>6
    <3> QED BY <3>2, <3>7
  <2> QED BY <2>1, <2>2
<1>3. FromColon(y) = [y EXCEPT !.buffer = DropFirst(skip, @), !.dropped = @ + skip] BY DEF FromColon
<1> HIDE DEF skip
<1>4. DropFirst(0, b) = b BY <1>1, NothingBefore
<1>5. y.dropped + 0 = y.dropped BY DEF Extractors
<1>6. FromColon(y) = [y EXCEPT !.buffer = b, !.dropped = y.dropped] BY <1>2, <1>3, <1>4, <1>5
<1> QED BY <1>6 DEF Extractors

LEMMA AsciiExtracted ==
  ASSUME mode = "ASCII", NEW x, IsEmpty(x), NEW p, IsPdu(p)
  PROVE  Feed(Feed(x, First(5, AsciiFrame(p))), DropFirst(5, AsciiFrame(p)))
           = [buffer |-> <<>>, completed |-> <<AsciiFrame(p)>>, dropped |-> 0]
<1> DEFINE frame == AsciiFrame(p)
           done == [buffer |-> <<>>, completed |-> <<frame>>, dropped |-> 0]
<1>0. Len(p) \in Nat /\ Len(p) >= 2 /\ Len(p) <= 253 BY DEF IsPdu
<1>1. /\ frame \in Seq(Octets) /\ Len(frame) = 2 * Len(p) + 7 /\ InspectAsciiAdu(frame) = Len(frame)
      /\ frame[1] = Colon /\ CrLfIndex(frame) = Len(frame) - 2
      /\ \A i \in 2..Len(frame) - 2 : frame[i] \in 48..70
  BY AsciiFrameIs
<1> HIDE DEF frame
<1>2. 11 <= Len(frame) /\ Len(frame) <= 520 /\ Len(frame) <= 2 * MaxAduSize /\ Len(frame) \in Nat
      /\ 5 \in 0..Len(frame) /\ 5 <= Len(frame)
  BY <1>0, <1>1, LimitsFit
<1>3. \A y : StepOf(y) = AsciiStep(y) BY DEF StepOf
<1>4. ASSUME NEW y, FromColon(y) = y, CrLfIndex(y.buffer) = -1 PROVE AsciiStep(y) = y
  BY <1>4 DEF AsciiStep
<1>5. StepOf(Holding(x, First(5, frame))) = Holding(x, First(5, frame))
  <2> DEFINE a == First(5, frame)
             at == {i \in 1..Len(a) - 1 : a[i] = 13 /\ a[i + 1] = 10}
             y == Holding(x, a)
  <2>1. a \in Seq(Octets) /\ Len(a) = 5 /\ \A i \in 1..5 : a[i] = frame[i]
    <3>1. frame \in Seq(Octets) /\ 5 \in 0..Len(frame) BY <1>1, <1>2
    <3> QED BY <3>1, CutInTwo
  <2> HIDE DEF a
  <2>2. at = {}
    <3> SUFFICES ASSUME NEW i \in 1..4, a[i] = 13 PROVE FALSE BY <2>1
    <3>1. frame[i] = 13 BY <2>1
    <3>2. i # 1 BY <1>1, <3>1 DEF Colon
    <3>3. i \in 2..Len(frame) - 2 BY <1>2, <3>2
    <3>4. frame[i] \in 48..70 BY <1>1, <3>3
    <3> QED BY <3>1, <3>4
  <2>3. CrLfIndex(a) = -1 BY <2>2 DEF CrLfIndex
  <2>4. y.buffer = a /\ y \in Extractors BY <2>1, HoldingIs
  <2>5. a[1] = Colon BY <1>1, <2>1
  <2> HIDE DEF y
  <2>6. FromColon(y) = y BY <2>4, <2>5, FromFirstColon
  <2>7. AsciiStep(y) = y BY <1>4, <2>3, <2>4, <2>6
  <2> QED BY <1>3, <2>7 DEF a, y
<1>6. StepOf(Holding(x, frame)) = done
  <2> DEFINE y == Holding(x, frame)
             n == Len(frame)
  <2>1. y.buffer = frame /\ y \in Extractors BY <1>1, HoldingIs
  <2>2. GiveOut(y, n) = done BY <1>1, GivenOut
  <2>3. CrLfIndex(frame) + 2 = n /\ ~(CrLfIndex(frame) < 0) /\ n > 0 BY <1>1, <1>2
  <2>4. First(n, frame) = frame BY <1>1, FirstAll
  <2>5. InspectAsciiAdu(frame) = n BY <1>1
  <2> HIDE DEF n, y, done
  <2>6. FromColon(y) = y BY <1>1, <2>1, FromFirstColon
  <2>7. AsciiStep(y) = GiveOut(y, n) BY <2>1, <2>3, <2>4, <2>5, <2>6 DEF AsciiStep
  <2> QED BY <1>3, <2>2, <2>7 DEF y
<1>7. StepOf(done) = done
  <2>1. CrLfIndex(<<>>) = -1 BY DEF CrLfIndex
  <2>2. done.buffer = <<>> OBVIOUS
  <2>3. done \in Extractors
    <3>1. <<frame>> \in Seq(Seq(Octets)) /\ <<>> \in Seq(Octets) /\ 0 \in Nat BY <1>1
    <3> QED BY <3>1 DEF Extractors
  <2> HIDE DEF done
  <2>4. FromColon(done) = done BY <2>2, <2>3, FromFirstColon
  <2> QED BY <1>3, <1>4, <2>1, <2>2, <2>4
<1>8. Feed(Feed(x, First(5, frame)), DropFirst(5, frame)) = done
  <2>1. Len(frame) <= (IF mode = "TCP" THEN MaxTcpBufferedBytes ELSE 2 * MaxAduSize) BY <1>2
  <2> QED BY <1>1, <1>2, <1>5, <1>6, <1>7, <2>1, TwoChunks
<1> QED BY <1>8 DEF frame

LEMMA RtuExtracted ==
  ASSUME mode = "RTU", silence = "none", NEW x, x.buffer = <<>>, IsEmpty(x), NEW S, NEW frame \in Seq(S),
         5 <= Len(frame), Len(frame) <= MaxAduSize
  PROVE  Feed(Feed(x, First(5, frame)), DropFirst(5, frame)).buffer = frame
<1> DEFINE a == First(5, frame)
           b == DropFirst(5, frame)
<1>0. Len(frame) \in Nat /\ 5 \in 0..Len(frame) /\ MaxAduSize \in Nat BY LimitsFit
<1>1. a \in Seq(S) /\ Len(a) = 5 /\ a \o b = frame BY <1>0, CutInTwo
<1>2. \A y, data : Feed(y, data) = [y EXCEPT !.buffer = IF Len(y.buffer \o data) > MaxAduSize THEN <<>> ELSE y.buffer \o data]
  BY DEF Feed, FeedRtu
<1> HIDE DEF a, b
<1>3. <<>> \o a = a BY <1>1, NothingBefore
<1>4. Feed(x, a) = [x EXCEPT !.buffer = a]
  <2>1. ~(Len(a) > MaxAduSize) BY <1>0, <1>1
  <2>2. x.buffer \o a = a BY <1>3
  <2> QED BY <1>2, <2>1, <2>2
<1> DEFINE y == [x EXCEPT !.buffer = a]
<1>5. y.buffer = a /\ "buffer" \in DOMAIN y
  <2>1. x \in [buffer : Seq(Octets), completed : Seq(Seq(Octets)), dropped : Nat] BY DEF IsEmpty, Extractors
  <2>2. DOMAIN x = {"buffer", "completed", "dropped"} BY <2>1
  <2> QED BY <2>2
<1> HIDE DEF y
<1>8. ~(Len(frame) > MaxAduSize) BY <1>0
<1>9. y.buffer \o b = frame BY <1>1, <1>5
<1>6. Feed(y, b) = [y EXCEPT !.buffer = frame] BY <1>2, <1>8, <1>9
<1>7. [y EXCEPT !.buffer = frame].buffer = frame BY <1>5
<1> QED BY <1>4, <1>6, <1>7 DEF a, b, y

\* A PDU in a frame of the line's mode is handed out whole.
IsExtracted(frame) ==
  LET x == Feed(Feed(Extractor, First(5, frame)), DropFirst(5, frame)) IN
  IF mode = "RTU" THEN x.buffer = frame /\ InspectRtuAdu(frame) = Len(frame)
  ELSE x.completed = <<frame>> /\ x.buffer = <<>>

LEMMA PduExtracted ==
  ASSUME LineInv, sample # None, NEW pdu, IsPdu(Bytes(pdu))
  PROVE  IsExtracted(BuildAdu(mode, 1, pdu, 7))
<1> DEFINE p == Bytes(pdu)
           frame == BuildAdu(mode, 1, pdu, 7)
<1>1. Idle BY DEF LineInv
<1>2. IsEmpty(Extractor)
  <2>1. Extractor \in Quiet /\ Extractor.buffer = <<>> BY <1>1 DEF Idle, LineInv, Extractor
  <2> QED BY <2>1 DEF Quiet, IsEmpty
<1>3. CASE mode = "TCP"
  <2>1. frame = TcpFrame(p) BY <1>3, TcpBuilt DEF BuildAdu
  <2> HIDE DEF frame, p
  <2>2. IsPdu(p) BY DEF p
  <2> DEFINE z == Feed(Feed(Extractor, First(5, frame)), DropFirst(5, frame))
  <2>3. z = [buffer |-> <<>>, completed |-> <<frame>>, dropped |-> 0]
    BY <1>2, <1>3, <2>1, <2>2, TcpExtracted
  <2> HIDE DEF z
  <2>4. z.completed = <<frame>> /\ z.buffer = <<>> BY <2>3
  <2>5. mode # "RTU" BY <1>3
  <2>6. IsExtracted(frame) BY <2>4, <2>5 DEF IsExtracted, z
  <2> QED BY <2>6 DEF frame
<1>4. CASE mode = "ASCII"
  <2>1. frame = AsciiFrame(p) BY <1>4, AsciiBuilt DEF BuildAdu
  <2> HIDE DEF frame, p
  <2>2. IsPdu(p) BY DEF p
  <2> DEFINE z == Feed(Feed(Extractor, First(5, frame)), DropFirst(5, frame))
  <2>3. z = [buffer |-> <<>>, completed |-> <<frame>>, dropped |-> 0]
    BY <1>2, <1>4, <2>1, <2>2, AsciiExtracted
  <2> HIDE DEF z
  <2>4. z.completed = <<frame>> /\ z.buffer = <<>> BY <2>3
  <2>5. mode # "RTU" BY <1>4
  <2>6. IsExtracted(frame) BY <2>4, <2>5 DEF IsExtracted, z
  <2> QED BY <2>6 DEF frame
<1>5. CASE mode = "RTU"
  <2>1. frame = BuildRtuAdu(1, pdu) BY <1>5 DEF BuildAdu
  <2>2. Len(p) \in Nat /\ Len(p) >= 2 /\ Len(p) <= 253 BY DEF IsPdu
  <2>3. (\E S : frame \in Seq(S)) /\ Len(frame) = 3 + Len(p) /\ InspectRtuAdu(frame) = Len(frame)
    BY <2>1, RtuFrameIs
  <2> HIDE DEF frame, p
  <2>4. PICK S : frame \in Seq(S) BY <2>3
  <2>5. 5 <= Len(frame) /\ Len(frame) <= MaxAduSize BY <2>2, <2>3, LimitsFit
  <2>6. silence = "none" /\ Extractor.buffer = <<>> BY <1>1, <1>2 DEF Idle, IsEmpty
  <2> DEFINE x == Extractor
  <2>7. Feed(Feed(x, First(5, frame)), DropFirst(5, frame)).buffer = frame
    <3>1. x.buffer = <<>> /\ IsEmpty(x) BY <1>2, <2>6
    <3> HIDE DEF x
    <3> QED BY <1>5, <2>4, <2>5, <2>6, <3>1, RtuExtracted
  <2>8. IsExtracted(frame) BY <1>5, <2>3, <2>7 DEF IsExtracted
  <2> QED BY <2>8 DEF frame
<1>6. mode \in {"TCP", "RTU", "ASCII"} BY LimitsFit DEF LineInv
<1> QED BY <1>3, <1>4, <1>5, <1>6

LEMMA FramesExtracted ==
  ASSUME LineInv, sample \in Samples PROVE FrameExtracted
<1> SUFFICES ASSUME IsRequest, NEW pdu \in Accepted(sample)
             PROVE  /\ IsExtracted(BuildAdu(mode, 1, pdu, 7))
                    /\ IsExtracted(BuildAdu(mode, 1, AnswerOf(sample, pdu, sample.quantity), 7))
  BY DEF FrameExtracted, IsExtracted
<1>1. sample \in RequestSamples
  BY DEF Samples, IsRequest, RequestSamples, TableSamples, PairSamples, AddressSamples
<1>2. sample # None BY DEF IsRequest, None
<1>3. RequestIs(sample, pdu) BY <1>1, AcceptedIs
<1>4. IsPdu(Bytes(pdu)) BY <1>3, RequestIsPdu, BytesArePdu
<1> DEFINE answer == AnswerOf(sample, pdu, sample.quantity)
<1>5. answer.fc \in FunctionCodes /\ answer.data \in Seq(Octets) /\ 1 <= Len(answer.data) /\ Len(answer.data) <= 252
  BY <1>3, AnswerIsPdu
<1> HIDE DEF answer
<1>6. IsPdu(Bytes(answer)) BY <1>5, BytesArePdu
<1>7. IsExtracted(BuildAdu(mode, 1, pdu, 7)) /\ IsExtracted(BuildAdu(mode, 1, answer, 7))
  BY <1>2, <1>4, <1>6, PduExtracted
<1> QED BY <1>7 DEF answer

\* ExchangeFits, for requests of any address, quantity and value: what the validator accepts,
\* and the answer to it, fit the protocol, are taken whole from the line in each of the three
\* modes when they come in two chunks, and the session accepts the answer (validate(),
\* buildRtuAdu(), buildTcpAdu(), buildAsciiAdu(), FrameExtractor::feed(), validateResponsePdu()).
THEOREM ExchangesFit == Spec => []ExchangeFits
<1>1. LineInv => ExchangeFits
  <2> SUFFICES ASSUME LineInv PROVE ExchangeFits OBVIOUS
  <2>1. CASE sample \in Samples
    BY <2>1, RequestsFit, FramesExtracted, AnswersAccepted DEF ExchangeFits
  <2>2. CASE sample = None
    BY <2>2 DEF None, ExchangeFits, RequestFits, FrameExtracted, AnswerAccepted, IsRequest
  <2> QED BY <2>1, <2>2 DEF LineInv
<1> QED BY <1>1, LineAlways, PTL

-----------------------------------------------------------------------------
(* What the analyzer makes of a frame of the program *)

\* The header of a frame that is whole, from unit 1.
Header == [Rejected(mode) EXCEPT !.slave = 1]

Result(valid, protocol, slave, fc, type, items, quantity) ==
  [valid |-> valid, protocol |-> protocol, slave |-> slave, fc |-> fc, type |-> type, items |-> items,
   quantity |-> quantity]

\* The fields after the function code was read.
Yes == TRUE
Started(fc, expected) == Result(Yes, mode, 1, fc, "Unknown", <<>>, expected)

LEMMA ResultIs ==
  ASSUME NEW v, NEW m, NEW s, NEW f, NEW t, NEW i, NEW q
  PROVE  LET r == Result(v, m, s, f, t, i, q) IN
         /\ r.valid = v /\ r.slave = s /\ r.fc = f /\ r.type = t /\ r.items = i /\ r.quantity = q
BY DEF Result

\* What a step of the parser sets.
SetAll(r, type, items, quantity) == [r EXCEPT !.type = type, !.quantity = quantity, !.items = items]
SetTyped(r, type, items) == [r EXCEPT !.type = type, !.items = items]
SetItems(r, items) == [r EXCEPT !.items = items]

LEMMA StartedSets ==
  ASSUME NEW f, NEW q, NEW type, NEW items, NEW quantity
  PROVE  /\ SetAll(Started(f, q), type, items, quantity) = Result(Yes, mode, 1, f, type, items, quantity)
         /\ SetTyped(Started(f, q), type, items) = Result(Yes, mode, 1, f, type, items, q)
         /\ SetItems(Started(f, q), items) = Result(Yes, mode, 1, f, "Unknown", items, q)
<1> DEFINE r == Started(f, q)
<1>1. [r EXCEPT !.type = type] = Result(Yes, mode, 1, f, type, <<>>, q) BY DEF Started, Result
<1>2. [Result(Yes, mode, 1, f, type, <<>>, q) EXCEPT !.items = items] = Result(Yes, mode, 1, f, type, items, q)
  BY DEF Result
<1>3. [Result(Yes, mode, 1, f, type, <<>>, q) EXCEPT !.quantity = quantity]
        = Result(Yes, mode, 1, f, type, <<>>, quantity)
  BY DEF Result
<1>4. [Result(Yes, mode, 1, f, type, <<>>, quantity) EXCEPT !.items = items]
        = Result(Yes, mode, 1, f, type, items, quantity)
  BY DEF Result
<1>5. [r EXCEPT !.items = items] = Result(Yes, mode, 1, f, "Unknown", items, q) BY DEF Started, Result
<1> HIDE DEF r
<1>6. [r EXCEPT !.type = type, !.items = items] = [[r EXCEPT !.type = type] EXCEPT !.items = items] OBVIOUS
<1>7. [r EXCEPT !.type = type, !.quantity = quantity, !.items = items]
        = [[[r EXCEPT !.type = type] EXCEPT !.quantity = quantity] EXCEPT !.items = items]
  OBVIOUS
<1>8. [r EXCEPT !.type = type, !.items = items] = Result(Yes, mode, 1, f, type, items, q)
  BY <1>1, <1>2, <1>6, Zenon
<1>9. [r EXCEPT !.type = type, !.quantity = quantity, !.items = items]
        = Result(Yes, mode, 1, f, type, items, quantity)
  BY <1>1, <1>3, <1>4, <1>7, Zenon
<1> QED BY <1>5, <1>8, <1>9, Zenon DEF r, SetAll, SetTyped, SetItems

LEMMA FrameParsed ==
  ASSUME mode \in {"TCP", "RTU", "ASCII"}, NEW pdu, IsPdu(Bytes(pdu)), NEW start, NEW expected
  PROVE  Parse(BuildAdu(mode, 1, pdu, 7), mode, start, expected, FALSE, "ABCD")
           = ParsePdu(Header, Bytes(pdu), start, expected)
<1> DEFINE p == Bytes(pdu)
           frame == BuildAdu(mode, 1, pdu, 7)
<1>0. Len(p) \in Nat /\ Len(p) >= 2 BY DEF IsPdu
<1>1. ASSUME frame # <<>>, ParseAs(mode, frame, start, expected, FALSE) = ParsePdu(Header, p, start, expected)
      PROVE  Parse(frame, mode, start, expected, FALSE, "ABCD") = ParsePdu(Header, p, start, expected)
  <2> HIDE DEF frame, p
  <2>1. \A r : ApplyRegisterOrder(r, "ABCD") = r BY DEF ApplyRegisterOrder
  <2>2. mode # "Unknown" OBVIOUS
  <2> QED BY <1>1, <2>1, <2>2 DEF Parse
<1>2. CASE mode = "TCP"
  <2>1. frame = TcpFrame(p) BY <1>2, TcpBuilt DEF BuildAdu
  <2> HIDE DEF frame, p
  <2>2. IsPdu(p) BY DEF p
  <2>3. /\ frame \in Seq(Octets) /\ Len(frame) = 7 + Len(p)
        /\ frame[7] = 1 /\ InspectTcpAdu(frame) = Len(frame) /\ DropFirst(7, frame) = p
    BY <2>1, <2>2, TcpFrameIs
  <2>4. frame # <<>> /\ Len(frame) > 0 BY <1>0, <2>3
  <2>5. ParseTcp(frame, start, expected, FALSE) = ParsePdu(Header, p, start, expected)
    BY <1>2, <2>3, <2>4 DEF ParseTcp, Header
  <2>6. ParseAs(mode, frame, start, expected, FALSE) = ParsePdu(Header, p, start, expected)
    BY <1>2, <2>5 DEF ParseAs
  <2>7. Parse(frame, mode, start, expected, FALSE, "ABCD") = ParsePdu(Header, p, start, expected)
    BY <1>1, <2>4, <2>6
  <2> QED BY <2>7 DEF frame, p
<1>3. CASE mode = "RTU"
  <2>1. frame = BuildRtuAdu(1, pdu) BY <1>3 DEF BuildAdu
  <2>2. /\ \E S : frame \in Seq(S)
        /\ Len(frame) = 3 + Len(p)
        /\ frame[1] = 1 /\ InspectRtuAdu(frame) = Len(frame) /\ SubSeq(frame, 2, Len(frame) - 2) = p
    BY <2>1, RtuFrameIs
  <2> HIDE DEF frame, p
  <2>3. PICK S : frame \in Seq(S) BY <2>2
  <2>4. frame # <<>> /\ Len(frame) >= 5 BY <1>0, <2>2, <2>3
  <2>5. ParseRtu(frame, start, expected, FALSE) = ParsePdu(Header, p, start, expected)
    BY <1>3, <2>2, <2>4 DEF ParseRtu, Header
  <2>6. ParseAs(mode, frame, start, expected, FALSE) = ParsePdu(Header, p, start, expected)
    BY <1>3, <2>5 DEF ParseAs
  <2>7. Parse(frame, mode, start, expected, FALSE, "ABCD") = ParsePdu(Header, p, start, expected)
    BY <1>1, <2>4, <2>6
  <2> QED BY <2>7 DEF frame, p
<1>4. CASE mode = "ASCII"
  <2>1. frame = AsciiFrame(p) BY <1>4, AsciiBuilt DEF BuildAdu
  <2> HIDE DEF frame, p
  <2>2. IsPdu(p) BY DEF p
  <2> DEFINE raw == RawOf(p)
  <2>3. /\ frame \in Seq(Octets) /\ Len(frame) = 2 * Len(p) + 7 /\ AsciiPayload(frame) = CharsOf(raw)
        /\ AsciiDecodes(frame) /\ InspectAsciiAdu(frame) = Len(frame)
    BY <2>1, <2>2, AsciiFrameIs
  <2>4. raw \in Seq(Octets) /\ raw[1] = 1 /\ SubSeq(raw, 2, Len(raw) - 1) = p BY <2>2, RawIs
  <2> HIDE DEF raw
  <2>5. DecodeAscii(AsciiPayload(frame)) = raw BY <2>3, <2>4, CharsAre
  <2>6. frame # <<>> BY <1>0, <2>3
  <2>7. ParseAscii(frame, start, expected, FALSE) = ParsePdu(Header, p, start, expected)
    BY <1>4, <2>3, <2>4, <2>5 DEF ParseAscii, Header
  <2>8. ParseAs(mode, frame, start, expected, FALSE) = ParsePdu(Header, p, start, expected)
    BY <1>4, <2>7 DEF ParseAs
  <2>9. Parse(frame, mode, start, expected, FALSE, "ABCD") = ParsePdu(Header, p, start, expected)
    BY <1>1, <2>6, <2>8
  <2> QED BY <2>9 DEF frame, p
<1> QED BY <1>2, <1>3, <1>4

\* By the function code the PDU is read as a read or as a write.
LEMMA PduParsed ==
  ASSUME NEW p, p # <<>>, p[1] \in FunctionCodes, NEW start, NEW expected
  PROVE  LET r == Started(p[1], expected) IN
         ParsePdu(Header, p, start, expected)
           = IF p[1] \in Reads THEN ParseRead(r, p, start, expected)
             ELSE IF p[1] \in WriteSingle THEN ParseWriteSingle(r, p)
             ELSE ParseWriteMultiple(r, p)
<1> DEFINE r == Started(p[1], expected)
           header == [Header EXCEPT !.valid = TRUE, !.fc = p[1], !.quantity = expected]
<1>1. header = r
  <2> DEFINE h == Header
             f == p[1]
             zero == FALSE
  <2>1. Rejected(mode) = Result(zero, mode, 0, 0, "Unknown", <<>>, 0) BY Zenon DEF Rejected, Result
  <2>2. h = [Rejected(mode) EXCEPT !.slave = 1] BY Zenon DEF Header
  <2> HIDE DEF h, f, zero
  <2>3. [Result(zero, mode, 0, 0, "Unknown", <<>>, 0) EXCEPT !.slave = 1]
          = Result(zero, mode, 1, 0, "Unknown", <<>>, 0)
    BY DEF Result
  <2>4. [Result(zero, mode, 1, 0, "Unknown", <<>>, 0) EXCEPT !.valid = Yes]
          = Result(Yes, mode, 1, 0, "Unknown", <<>>, 0)
    BY DEF Result
  <2>5. [Result(Yes, mode, 1, 0, "Unknown", <<>>, 0) EXCEPT !.fc = f]
          = Result(Yes, mode, 1, f, "Unknown", <<>>, 0)
    BY DEF Result
  <2>6. [Result(Yes, mode, 1, f, "Unknown", <<>>, 0) EXCEPT !.quantity = expected]
          = Result(Yes, mode, 1, f, "Unknown", <<>>, expected)
    BY DEF Result
  <2>7. h = Result(zero, mode, 1, 0, "Unknown", <<>>, 0) BY <2>1, <2>2, <2>3, Zenon
  <2>8. [h EXCEPT !.valid = Yes, !.fc = f, !.quantity = expected]
          = [[[h EXCEPT !.valid = Yes] EXCEPT !.fc = f] EXCEPT !.quantity = expected]
    OBVIOUS
  <2>9. [h EXCEPT !.valid = Yes, !.fc = f, !.quantity = expected]
          = Result(Yes, mode, 1, f, "Unknown", <<>>, expected)
    BY <2>4, <2>5, <2>6, <2>7, <2>8, Zenon
  <2>10. header = [h EXCEPT !.valid = Yes, !.fc = f, !.quantity = expected] BY Zenon DEF h, f, Yes
  <2>11. r = Result(Yes, mode, 1, f, "Unknown", <<>>, expected) BY Zenon DEF Started, f
  <2> QED BY <2>9, <2>10, <2>11, Zenon
<1>2. ~(p[1] >= 128) BY CodesAre
<1> HIDE DEF r
<1>3. CASE p[1] \in Reads
  <2>1. p[1] \notin WriteSingle /\ p[1] \notin WriteMultiple BY <1>3, CodesAre
  <2>2. ParsePdu(Header, p, start, expected) = ParseRead(header, p, start, expected)
    BY <1>2, <1>3, <2>1 DEF ParsePdu
  <2> HIDE DEF header
  <2> QED BY <1>1, <1>3, <2>2 DEF r
<1>4. CASE p[1] \in WriteSingle
  <2>1. p[1] \notin Reads /\ p[1] \notin WriteMultiple BY <1>4, CodesAre
  <2>2. ParsePdu(Header, p, start, expected) = ParseWriteSingle(header, p)
    BY <1>2, <1>4, <2>1 DEF ParsePdu
  <2> HIDE DEF header
  <2> QED BY <1>1, <1>4, <2>1, <2>2 DEF r
<1>5. CASE p[1] \in WriteMultiple
  <2>1. p[1] \notin WriteSingle /\ p[1] \notin Reads BY <1>5, CodesAre
  <2>2. ParsePdu(Header, p, start, expected) = ParseWriteMultiple(header, p)
    BY <1>2, <1>5, <2>1 DEF ParsePdu
  <2> HIDE DEF header
  <2> QED BY <1>1, <2>1, <2>2 DEF r
<1> QED BY <1>3, <1>4, <1>5 DEF FunctionCodes

\* The items show these values from this address on.
Shows(items, fc, start, n) ==
  /\ Len(items) = n
  /\ \A i \in 1..n : items[i] = [address |-> start + i - 1, value |-> ValueAt(fc, i - 1)]

LEMMA ItemIs ==
  ASSUME NEW start \in Nat, NEW n \in Nat, start + n <= MaxAddress + 1, NEW i \in 1..n, NEW value
  PROVE  Item(start + i - 1, value) = [address |-> start + i - 1, value |-> value]
<1>1. start + i - 1 \in Nat /\ start + i - 1 <= 65535 BY DEF MaxAddress
<1>2. ASSUME NEW k \in Nat, k <= 65535 PROVE k % 65536 = k BY <1>2
<1>3. (start + i - 1) % 65536 = start + i - 1 BY <1>1, <1>2
<1> QED BY <1>3 DEF Item

LEMMA RegistersShown ==
  ASSUME NEW fc, ~IsOfBits(fc), NEW start \in Nat, NEW n \in Nat, start + n <= MaxAddress + 1
  PROVE  Shows(RegisterItems(start, PackedWords(n)), fc, start, n)
<1> DEFINE raw == PackedWords(n)
           items == RegisterItems(start, raw)
<1>1. Len(raw) = 2 * n /\ \A i \in 1..n : raw[2 * i - 1] * 256 + raw[2 * i] = Word(i - 1) BY WordsArePacked
<1> HIDE DEF raw
<1>2. (2 * n) \div 2 = n OBVIOUS
<1>3. items = [i \in 1..n |-> Item(start + i - 1, ReadBigEndian(raw, 2 * i - 2))]
  BY <1>1, <1>2 DEF RegisterItems
<1> HIDE DEF items
<1>4. ASSUME NEW i \in 1..n PROVE items[i] = [address |-> start + i - 1, value |-> ValueAt(fc, i - 1)]
  <2>1. 2 * i - 2 + 1 = 2 * i - 1 /\ 2 * i - 2 + 2 = 2 * i OBVIOUS
  <2>2. ReadBigEndian(raw, 2 * i - 2) = Word(i - 1) BY <1>1, <2>1 DEF ReadBigEndian
  <2>3. ValueAt(fc, i - 1) = Word(i - 1) BY DEF ValueAt
  <2>4. items[i] = Item(start + i - 1, Word(i - 1)) BY <1>3, <2>2
  <2> DEFINE v == Word(i - 1)
  <2>5. items[i] = Item(start + i - 1, v) /\ ValueAt(fc, i - 1) = v BY <2>3, <2>4
  <2> HIDE DEF v
  <2>6. Item(start + i - 1, v) = [address |-> start + i - 1, value |-> v] BY ItemIs
  <2> QED BY <2>5, <2>6
<1>5. Len(items) = n BY <1>3
<1> QED BY <1>4, <1>5 DEF Shows, items, raw

LEMMA BitsShown ==
  ASSUME NEW fc, IsOfBits(fc), NEW start \in Nat, NEW n \in Nat, start + n <= MaxAddress + 1
  PROVE  Shows(BitItems(start, PackedBits(n), n), fc, start, n)
<1> DEFINE raw == PackedBits(n)
           items == BitItems(start, raw, n)
<1>1. \A i \in 0..n - 1 : (raw[i \div 8 + 1] \div Power2(i % 8)) % 2 = Bit(i) BY BitsArePacked
<1> HIDE DEF raw
<1>3. items = [i \in 1..n |-> Item(start + i - 1, (raw[(i - 1) \div 8 + 1] \div Power2((i - 1) % 8)) % 2)]
  BY DEF BitItems
<1> HIDE DEF items
<1>4. ASSUME NEW i \in 1..n PROVE items[i] = [address |-> start + i - 1, value |-> ValueAt(fc, i - 1)]
  <2>1. i - 1 \in 0..n - 1 OBVIOUS
  <2>2. (raw[(i - 1) \div 8 + 1] \div Power2((i - 1) % 8)) % 2 = Bit(i - 1) BY <1>1, <2>1
  <2>3. ValueAt(fc, i - 1) = Bit(i - 1) BY DEF ValueAt
  <2>4. items[i] = Item(start + i - 1, Bit(i - 1)) BY <1>3, <2>2
  <2> DEFINE v == Bit(i - 1)
  <2>5. items[i] = Item(start + i - 1, v) /\ ValueAt(fc, i - 1) = v BY <2>3, <2>4
  <2> HIDE DEF v
  <2>6. Item(start + i - 1, v) = [address |-> start + i - 1, value |-> v] BY ItemIs
  <2> QED BY <2>5, <2>6
<1>5. Len(items) = n BY <1>3
<1> QED BY <1>4, <1>5 DEF Shows, items, raw

\* What the analyzer shows of a PDU of the program.
Shown(pdu, start, expected) == Parse(BuildAdu(mode, 1, pdu, 7), mode, start, expected, FALSE, "ABCD")

\* A word of the data stands one byte further in the PDU.
LEMMA WordInPdu ==
  ASSUME NEW pdu, pdu.fc \in FunctionCodes, pdu.data \in Seq(Octets), 1 <= Len(pdu.data), Len(pdu.data) <= 252,
         NEW k \in Nat, k + 2 <= Len(pdu.data)
  PROVE  ReadBigEndian(Bytes(pdu), k + 1) = ReadBigEndian(pdu.data, k)
<1> DEFINE p == Bytes(pdu)
<1>1. \A i \in 1..Len(pdu.data) : p[1 + i] = pdu.data[i] BY BytesArePdu
<1>2. k + 1 \in 1..Len(pdu.data) /\ k + 2 \in 1..Len(pdu.data) BY <1>1
<1> HIDE DEF p
<1>3. p[k + 1 + 1] = pdu.data[k + 1] /\ p[k + 1 + 2] = pdu.data[k + 2]
  <2>1. 1 + (k + 1) = k + 1 + 1 /\ 1 + (k + 2) = k + 1 + 2 OBVIOUS
  <2> QED BY <1>1, <1>2, <2>1
<1>4. ReadBigEndian(p, k + 1) = ReadBigEndian(pdu.data, k) BY <1>3 DEF ReadBigEndian
<1> QED BY <1>4 DEF p

\* What stands in the PDU from the m-th byte of its data on.
LEMMA RestOfPdu ==
  ASSUME NEW pdu, pdu.fc \in FunctionCodes, pdu.data \in Seq(Octets), 1 <= Len(pdu.data), Len(pdu.data) <= 252,
         NEW m \in 0..Len(pdu.data), NEW raw \in Seq(Octets), Len(raw) = Len(pdu.data) - m,
         \A i \in 1..Len(raw) : pdu.data[m + i] = raw[i]
  PROVE  DropFirst(m + 1, Bytes(pdu)) = raw
<1> DEFINE p == Bytes(pdu)
           d == pdu.data
<1>0. Len(d) \in Nat /\ m \in Nat /\ m <= Len(d) OBVIOUS
<1>1. p \in Seq(Octets) /\ Len(p) = 1 + Len(d) /\ \A i \in 1..Len(d) : p[1 + i] = d[i]
  BY BytesArePdu DEF IsPdu
<1>5. Len(raw) = Len(d) - m OBVIOUS
<1>6. \A i \in 1..Len(raw) : d[m + i] = raw[i] OBVIOUS
<1> HIDE DEF p, d
<1>2. (m + 1) + 1 = m + 2 /\ Len(p) = (m + 2) + Len(raw) - 1 /\ Len(p) \in Nat
  <2> DEFINE k == Len(d)
             l == Len(raw)
  <2>1. k \in Nat /\ m \in Nat /\ l = k - m /\ Len(p) = 1 + k BY <1>0, <1>1, <1>5
  <2> HIDE DEF k, l
  <2>2. Len(p) = (m + 2) + l - 1 /\ Len(p) \in Nat /\ (m + 1) + 1 = m + 2 BY <2>1
  <2> QED BY <2>2 DEF l
<1>3. \A i \in 1..Len(raw) : p[(m + 2) - 1 + i] = raw[i]
  <2> SUFFICES ASSUME NEW i \in 1..Len(raw) PROVE p[(m + 2) - 1 + i] = raw[i] OBVIOUS
  <2>1. m + i \in 1..Len(d) /\ 1 + (m + i) = (m + 2) - 1 + i BY <1>0, <1>5
  <2> QED BY <1>1, <1>6, <2>1
<1>4. SubSeq(p, m + 2, Len(p)) = raw
  <2>1. m + 2 \in Nat \ {0} /\ Len(p) <= Len(p) BY <1>0, <1>2
  <2> DEFINE k == m + 2
             n == Len(p)
  <2>2. k \in Nat \ {0} /\ n \in Nat /\ n = k + Len(raw) - 1 /\ n <= Len(p) BY <1>2, <2>1
  <2>3. \A i \in 1..Len(raw) : p[k - 1 + i] = raw[i] BY <1>3
  <2>4. p \in Seq(Octets) BY <1>1
  <2> HIDE DEF k, n
  <2>5. SubSeq(p, k, n) = raw BY <2>2, <2>3, <2>4, PartIs
  <2> QED BY <2>5 DEF k, n
<1> QED BY <1>2, <1>4 DEF DropFirst, p

LEMMA StartShown ==
  ASSUME NEW start, IsWordValue(start), NEW value
  PROVE  Item(start, value) = [address |-> start, value |-> value]
<1>1. ASSUME NEW k \in Int, 0 <= k, k <= 65535 PROVE k % 65536 = k BY <1>1
<1>2. start % 65536 = start BY <1>1 DEF IsWordValue, MaxAddress
<1> QED BY <1>2 DEF Item

LEMMA ReadRequestShown ==
  ASSUME mode \in {"TCP", "RTU", "ASCII"}, NEW s, NEW pdu, RequestIs(s, pdu), s.fc \in Reads
  PROVE  Shown(pdu, 0, 0)
           = Result(Yes, mode, 1, s.fc, "Request", <<Item(s.start, NoValue)>>, s.quantity)
<1> DEFINE p == Bytes(pdu)
           r == Started(s.fc, 0)
<1>1. pdu.fc = s.fc /\ Len(pdu.data) = 4 /\ ReadBigEndian(pdu.data, 0) = s.start
      /\ ReadBigEndian(pdu.data, 2) = s.quantity /\ s.fc \in FunctionCodes
  BY DEF RequestIs
<1>2. pdu.fc \in FunctionCodes /\ pdu.data \in Seq(Octets) /\ 1 <= Len(pdu.data) /\ Len(pdu.data) <= 252
  BY RequestIsPdu
<1>3. IsPdu(p) /\ Len(p) = 1 + Len(pdu.data) /\ p[1] = s.fc BY <1>1, <1>2, BytesArePdu
<1>4. p # <<>> /\ Len(p) = 5
  <2>1. Len(p) = 5 BY <1>1, <1>3
  <2> HIDE DEF p
  <2> QED BY <2>1
<1>5. ReadBigEndian(p, 1) = s.start /\ ReadBigEndian(p, 3) = s.quantity
  <2>1. 0 + 1 = 1 /\ 2 + 1 = 3 /\ 0 + 2 <= Len(pdu.data) /\ 2 + 2 <= Len(pdu.data) BY <1>1
  <2> HIDE DEF p
  <2>2. ReadBigEndian(Bytes(pdu), 0 + 1) = s.start /\ ReadBigEndian(Bytes(pdu), 2 + 1) = s.quantity
    BY <1>1, <1>2, <2>1, WordInPdu
  <2> QED BY <2>1, <2>2 DEF p
<1>6. Shown(pdu, 0, 0) = ParsePdu(Header, p, 0, 0) BY <1>3, FrameParsed DEF Shown
<1> HIDE DEF p
<1>7. ParsePdu(Header, p, 0, 0) = ParseRead(r, p, 0, 0) BY <1>1, <1>3, <1>4, PduParsed
<1> DEFINE items == <<Item(s.start, NoValue)>>
<1>8. ParseRead(r, p, 0, 0) = SetAll(r, "Request", items, s.quantity)
  <2> HIDE DEF r
  <2> QED BY <1>4, <1>5 DEF ParseRead, SetAll
<1> HIDE DEF items
<1>9. SetAll(r, "Request", items, s.quantity) = Result(Yes, mode, 1, s.fc, "Request", items, s.quantity)
  BY StartedSets
<1> QED BY <1>6, <1>7, <1>8, <1>9 DEF items

LEMMA SingleRequestShown ==
  ASSUME mode \in {"TCP", "RTU", "ASCII"}, NEW s, NEW pdu, RequestIs(s, pdu), s.fc \in WriteSingle
  PROVE  Shown(pdu, 0, 0)
           = Result(Yes, mode, 1, s.fc, "Unknown", <<Item(s.start, ReadBigEndian(pdu.data, 2))>>, 0)
<1> DEFINE p == Bytes(pdu)
           r == Started(s.fc, 0)
           items == <<Item(s.start, ReadBigEndian(pdu.data, 2))>>
<1>1. pdu.fc = s.fc /\ Len(pdu.data) = 4 /\ ReadBigEndian(pdu.data, 0) = s.start /\ s.fc \in FunctionCodes
  BY DEF RequestIs
<1>2. pdu.fc \in FunctionCodes /\ pdu.data \in Seq(Octets) /\ 1 <= Len(pdu.data) /\ Len(pdu.data) <= 252
  BY RequestIsPdu
<1>3. IsPdu(p) /\ Len(p) = 1 + Len(pdu.data) /\ p[1] = s.fc BY <1>1, <1>2, BytesArePdu
<1>4. p # <<>> /\ Len(p) = 5
  <2>1. Len(p) = 5 BY <1>1, <1>3
  <2> HIDE DEF p
  <2> QED BY <2>1
<1>5. ReadBigEndian(p, 1) = s.start /\ ReadBigEndian(p, 3) = ReadBigEndian(pdu.data, 2)
  <2>1. 0 + 1 = 1 /\ 2 + 1 = 3 /\ 0 + 2 <= Len(pdu.data) /\ 2 + 2 <= Len(pdu.data) BY <1>1
  <2> HIDE DEF p
  <2>2. ReadBigEndian(Bytes(pdu), 0 + 1) = s.start
        /\ ReadBigEndian(Bytes(pdu), 2 + 1) = ReadBigEndian(pdu.data, 2)
    BY <1>1, <1>2, <2>1, WordInPdu
  <2> QED BY <2>1, <2>2 DEF p
<1>6. Shown(pdu, 0, 0) = ParsePdu(Header, p, 0, 0) BY <1>3, FrameParsed DEF Shown
<1> HIDE DEF p
<1>7. ParsePdu(Header, p, 0, 0) = ParseWriteSingle(r, p)
  <2>1. s.fc \notin Reads BY CodesAre
  <2> QED BY <1>1, <1>3, <1>4, <2>1, PduParsed
<1>8. ParseWriteSingle(r, p) = SetItems(r, items)
  <2> HIDE DEF r
  <2> QED BY <1>4, <1>5 DEF ParseWriteSingle, SetItems
<1> HIDE DEF items
<1>9. SetItems(r, items) = Result(Yes, mode, 1, s.fc, "Unknown", items, 0) BY StartedSets
<1> QED BY <1>6, <1>7, <1>8, <1>9 DEF items

\* The items of n values from an address on, read from their bytes.
ItemsOf(fc, start, n) ==
  IF IsOfBits(fc) THEN BitItems(start, Packed(fc, n), n) ELSE RegisterItems(start, Packed(fc, n))

LEMMA ItemsShown ==
  ASSUME NEW fc, NEW start \in Nat, NEW n \in Nat, start + n <= MaxAddress + 1
  PROVE  Shows(ItemsOf(fc, start, n), fc, start, n)
<1>1. CASE IsOfBits(fc)
  <2>1. ItemsOf(fc, start, n) = BitItems(start, PackedBits(n), n) BY <1>1 DEF ItemsOf, Packed
  <2> QED BY <1>1, <2>1, BitsShown
<1>2. CASE ~IsOfBits(fc)
  <2>1. ItemsOf(fc, start, n) = RegisterItems(start, PackedWords(n)) BY <1>2 DEF ItemsOf, Packed
  <2> QED BY <1>2, <2>1, RegistersShown
<1> QED BY <1>1, <1>2

LEMMA MultipleRequestShown ==
  ASSUME mode \in {"TCP", "RTU", "ASCII"}, NEW s, NEW pdu, RequestIs(s, pdu), s.fc \in WriteMultiple
  PROVE  Shown(pdu, 0, 0)
           = Result(Yes, mode, 1, s.fc, "Request", ItemsOf(s.fc, s.start, s.quantity), 0)
<1> DEFINE p == Bytes(pdu)
           r == Started(s.fc, 0)
           n == s.quantity
           raw == Packed(s.fc, n)
           items == ItemsOf(s.fc, s.start, n)
<1>1. /\ pdu.fc = s.fc /\ s.fc \in FunctionCodes /\ n \in Nat /\ IsWordValue(s.start) /\ IsWordValue(n)
      /\ pdu.data = MultipleData(s.start, n, raw) /\ 1 <= n /\ n <= MaxQuantity(s.fc)
  BY DEF RequestIs
<1>2. pdu.fc \in FunctionCodes /\ pdu.data \in Seq(Octets) /\ 1 <= Len(pdu.data) /\ Len(pdu.data) <= 252
  BY RequestIsPdu
<1>3. IsPdu(p) /\ Len(p) = 1 + Len(pdu.data) /\ p[1] = s.fc /\ \A i \in 1..Len(pdu.data) : p[1 + i] = pdu.data[i]
  BY <1>1, <1>2, BytesArePdu
<1>4. raw \in Seq(Octets) /\ Len(raw) = ByteCount(s.fc, n)
  <2>1. s.fc \notin WriteSingle BY CodesAre
  <2> QED BY <1>1, <2>1, PackedIs
<1>5. ByteCount(s.fc, n) \in Nat /\ 1 <= ByteCount(s.fc, n) /\ ByteCount(s.fc, n) <= 250
  BY <1>1, CountFits
<1>6. Shown(pdu, 0, 0) = ParsePdu(Header, p, 0, 0) BY <1>3, FrameParsed DEF Shown
<1> HIDE DEF p, raw, n
<1> DEFINE d == pdu.data
<1>7. IsMultiple(d, s.start, n, raw)
  <2>1. Len(raw) <= 255 BY <1>4, <1>5
  <2>2. IsMultiple(MultipleData(s.start, n, raw), s.start, n, raw) BY <1>1, <1>4, <2>1, MultipleDataIs
  <2> QED BY <1>1, <2>2
<1> DEFINE l == Len(raw)
<1>8. l \in Nat /\ 1 <= l /\ l = ByteCount(s.fc, n) BY <1>4, <1>5
<1>9. Len(d) = 5 + l /\ d[5] = l /\ DropFirst(5, d) = raw /\ d \in Seq(Octets)
      /\ ReadBigEndian(d, 0) = s.start /\ ReadBigEndian(d, 2) = n
  BY <1>7 DEF IsMultiple
<1> HIDE DEF l
<1>10. Len(p) = 6 + l /\ p[6] = l
  <2>1. 5 \in 1..Len(pdu.data) /\ 1 + 5 = 6 /\ 1 + (5 + l) = 6 + l BY <1>8, <1>9
  <2> QED BY <1>3, <1>9, <2>1
<1>11. ReadBigEndian(p, 1) = s.start /\ ReadBigEndian(p, 3) = n
  <2>1. 0 + 1 = 1 /\ 2 + 1 = 3 /\ 0 + 2 <= Len(pdu.data) /\ 2 + 2 <= Len(pdu.data) BY <1>8, <1>9
  <2>2. ReadBigEndian(Bytes(pdu), 0 + 1) = s.start /\ ReadBigEndian(Bytes(pdu), 2 + 1) = n
    BY <1>2, <1>9, <2>1, WordInPdu
  <2> QED BY <2>1, <2>2 DEF p
<1>12. DropFirst(6, p) = raw
  <2>1. 5 \in 0..Len(d) /\ Len(raw) = Len(d) - 5 BY <1>8, <1>9 DEF l
  <2>2. \A i \in 1..Len(raw) : d[5 + i] = raw[i]
    <3>1. \A i \in 1..Len(d) - 5 : DropFirst(5, d)[i] = d[5 + i] BY <1>9, <2>1, CutInTwo
    <3> HIDE DEF d
    <3> QED BY <1>9, <2>1, <3>1
  <2>3. 5 + 1 = 6 OBVIOUS
  <2>4. DropFirst(5 + 1, Bytes(pdu)) = raw BY <1>2, <1>4, <2>1, <2>2, RestOfPdu
  <2> QED BY <2>3, <2>4 DEF p
<1>13. ParsePdu(Header, p, 0, 0) = ParseWriteMultiple(r, p)
  <2>1. s.fc \notin Reads /\ s.fc \notin WriteSingle BY CodesAre
  <2>2. p # <<>> BY <1>8, <1>10
  <2> QED BY <1>1, <1>3, <2>1, <2>2, PduParsed
<1>14. r.fc = s.fc BY DEF Started, Result
<1>15. ParseWriteMultiple(r, p) = SetTyped(r, "Request", items)
  <2>1. items = IF s.fc = 16 THEN RegisterItems(s.start, raw) ELSE BitItems(s.start, raw, n)
    <3>1. IsOfBits(s.fc) <=> s.fc # 16 BY CodesAre DEF IsOfBits, ReadBits
    <3> QED BY <3>1 DEF ItemsOf, raw
  <2>2. Len(p) # 5 /\ ~(Len(p) < 6) /\ Len(raw) = l BY <1>8, <1>10 DEF l
  <2> HIDE DEF r, items
  <2> QED BY <1>8, <1>10, <1>11, <1>12, <1>14, <2>1, <2>2 DEF ParseWriteMultiple, SetTyped
<1> HIDE DEF items
<1>16. SetTyped(r, "Request", items) = Result(Yes, mode, 1, s.fc, "Request", items, 0) BY StartedSets
<1> QED BY <1>6, <1>13, <1>15, <1>16 DEF items, n

LEMMA AnswerShown ==
  ASSUME mode \in {"TCP", "RTU", "ASCII"}, NEW s, NEW pdu, RequestIs(s, pdu), s.fc \in Reads
  PROVE  LET shown == Shown(AnswerOf(s, pdu, s.quantity), s.start, s.quantity) IN
         IF IsOfBits(s.fc) /\ s.quantity \in 17..24 THEN shown.type = "Request"
         ELSE shown = Result(Yes, mode, 1, s.fc, "Response", ItemsOf(s.fc, s.start, s.quantity), s.quantity)
<1> DEFINE n == s.quantity
           answer == AnswerOf(s, pdu, n)
           raw == Packed(s.fc, n)
           p == Bytes(answer)
           r == Started(s.fc, n)
           items == ItemsOf(s.fc, s.start, n)
           l == Len(raw)
<1>1. /\ s.fc \in FunctionCodes /\ n \in Nat /\ 1 <= n /\ n <= MaxQuantity(s.fc) BY DEF RequestIs
<1>2. answer.fc = s.fc /\ answer.data = Counted(raw) BY AnswerIs
<1>3. /\ answer.fc \in FunctionCodes /\ answer.data \in Seq(Octets)
      /\ 1 <= Len(answer.data) /\ Len(answer.data) <= 252
  BY AnswerIsPdu
<1>4. raw \in Seq(Octets) /\ l = ByteCount(s.fc, n)
  <2>1. s.fc \notin WriteSingle BY CodesAre
  <2> QED BY <1>1, <2>1, PackedIs
<1>5. l \in Nat /\ 1 <= l /\ l <= 250 BY <1>1, <1>4, CountFits
<1> HIDE DEF answer
<1> DEFINE d == answer.data
<1>6. IsPdu(p) /\ Len(p) = 1 + Len(d) /\ p[1] = s.fc /\ \A i \in 1..Len(d) : p[1 + i] = d[i]
  BY <1>2, <1>3, BytesArePdu
<1> HIDE DEF raw
<1>7. Len(d) = 1 + l /\ d[1] = l /\ \A i \in 1..l : d[1 + i] = raw[i] BY <1>2, <1>4, CountedIs DEF IsCounted
<1>8. Shown(answer, s.start, n) = ParsePdu(Header, p, s.start, n)
  <2> HIDE DEF n, d, l, r, items
  <2>1. IsPdu(Bytes(answer)) BY <1>6
  <2>2. Shown(answer, s.start, n) = ParsePdu(Header, Bytes(answer), s.start, n) BY <2>1, FrameParsed DEF Shown
  <2> QED BY <2>2
<1> HIDE DEF p
<1>9. Len(p) = 2 + l /\ p[2] = l
  <2>1. 1 \in 1..Len(d) /\ 1 + 1 = 2 BY <1>5, <1>7
  <2> QED BY <1>5, <1>6, <1>7, <2>1
<1>10. DropFirst(2, p) = raw
  <2>1. 1 \in 0..Len(d) /\ Len(raw) = Len(d) - 1 BY <1>5, <1>7
  <2>2. \A i \in 1..Len(raw) : d[1 + i] = raw[i] BY <1>7
  <2>3. 1 + 1 = 2 OBVIOUS
  <2>4. DropFirst(1 + 1, Bytes(answer)) = raw BY <1>3, <1>4, <2>1, <2>2, RestOfPdu
  <2> QED BY <2>3, <2>4 DEF p
<1>11. ParsePdu(Header, p, s.start, n) = ParseRead(r, p, s.start, n)
  <2>1. p # <<>> BY <1>5, <1>9
  <2> QED BY <1>1, <1>6, <2>1, PduParsed
<1>12. r.fc = s.fc BY DEF Started, Result
<1>13. CASE IsOfBits(s.fc)
  <2>1. l = (n + 7) \div 8 /\ s.fc \notin ReadRegisters
    BY <1>4, <1>13, CodesAre DEF IsOfBits, ByteCount, BytesFor, ReadBits, ReadRegisters
  <2>2. CASE n \in 17..24
    <3>1. Len(p) = 5
      <4> HIDE DEF n, l
      <4>1. l = (n + 7) \div 8 BY <2>1
      <4>2. l = 3 BY <2>2, <4>1
      <4> QED BY <1>9, <4>2
    <3> DEFINE one == <<Item(ReadBigEndian(p, 1), NoValue)>>
               q == ReadBigEndian(p, 3)
    <3>2. ParseRead(r, p, s.start, n) = SetAll(r, "Request", one, q)
      <4> HIDE DEF r
      <4> QED BY <3>1 DEF ParseRead, SetAll
    <3> HIDE DEF one, q
    <3>3. SetAll(r, "Request", one, q) = Result(Yes, mode, 1, s.fc, "Request", one, q) BY StartedSets
    <3>4. Result(Yes, mode, 1, s.fc, "Request", one, q).type = "Request" BY ResultIs
    <3>5. Shown(answer, s.start, n).type = "Request" BY <1>8, <1>11, <3>2, <3>3, <3>4
    <3> QED BY <1>13, <2>2, <3>5 DEF answer
  <2>3. CASE n \notin 17..24
    <3>1. Len(p) # 5 /\ ~(Len(p) < 2)
      <4> HIDE DEF n, l, p
      <4>1. n \in Int /\ n > 0 /\ ~(n >= 17 /\ n <= 24) BY <1>1, <2>3
      <4>2. l = (n + 7) \div 8 BY <2>1
      <4>3. l # 3 /\ l \in Nat BY <4>1, <4>2
      <4> QED BY <1>9, <4>3
    <3>2. items = BitItems(s.start, raw, n) BY <1>13 DEF ItemsOf, raw
    <3>3. ~(n # 0 /\ (n > 8 * l \/ n <= 8 * l - 8)) /\ n # 0 BY <1>1, <2>1
    <3>4. p[2] = Len(DropFirst(2, p)) BY <1>9, <1>10
    <3>5. ParseRead(r, p, s.start, n) = SetTyped(r, "Response", items)
      <4> HIDE DEF r, items, l, n
      <4> QED BY <1>9, <1>10, <1>12, <2>1, <3>1, <3>2, <3>3, <3>4 DEF ParseRead, SetTyped
    <3> HIDE DEF items
    <3>6. SetTyped(r, "Response", items) = Result(Yes, mode, 1, s.fc, "Response", items, n) BY StartedSets
    <3>7. Shown(answer, s.start, n) = Result(Yes, mode, 1, s.fc, "Response", items, n)
      BY <1>8, <1>11, <3>5, <3>6
    <3> QED BY <1>13, <2>3, <3>7 DEF answer, items
  <2> QED BY <2>2, <2>3
<1>14. CASE ~IsOfBits(s.fc)
  <2>1. s.fc \in ReadRegisters /\ l = 2 * n
    BY <1>4, <1>14, CodesAre DEF IsOfBits, ByteCount, ReadBits, ReadRegisters
  <2>2. Len(p) # 5 /\ ~(Len(p) < 2)
    <3> HIDE DEF n, l, p
    <3>1. l # 3 /\ l \in Nat BY <1>1, <2>1
    <3> QED BY <1>9, <3>1
  <2>3. items = RegisterItems(s.start, raw) BY <1>14 DEF ItemsOf, raw
  <2>4. ~((n # 0 /\ l # 2 * n) \/ l % 2 # 0) BY <1>1, <2>1
  <2>5. p[2] = Len(DropFirst(2, p)) BY <1>9, <1>10
  <2>6. ParseRead(r, p, s.start, n) = SetTyped(r, "Response", items)
    <3> HIDE DEF r, items, l, n
    <3> QED BY <1>9, <1>10, <1>12, <2>1, <2>2, <2>3, <2>4, <2>5 DEF ParseRead, SetTyped
  <2> HIDE DEF items
  <2>7. SetTyped(r, "Response", items) = Result(Yes, mode, 1, s.fc, "Response", items, n) BY StartedSets
  <2>8. Shown(answer, s.start, n) = Result(Yes, mode, 1, s.fc, "Response", items, n)
    BY <1>8, <1>11, <2>6, <2>7
  <2> QED BY <1>14, <2>8 DEF answer, items
<1> QED BY <1>13, <1>14

LEMMA RequestsRead ==
  ASSUME mode \in {"TCP", "RTU", "ASCII"}, sample \in Samples PROVE RequestRead
<1> DEFINE s == sample
<1> SUFFICES ASSUME IsRequest, NEW pdu \in Accepted(s)
             PROVE  LET r == Shown(pdu, 0, 0) IN
                    /\ r.valid /\ r.slave = 1 /\ r.fc = s.fc /\ r.items[1].address = s.start
                    /\ s.fc \in Reads => r.type = "Request" /\ r.quantity = s.quantity
                    /\ s.fc \in WriteSingle => r.items[1].value = ReadBigEndian(pdu.data, 2)
                    /\ s.fc \in WriteMultiple =>
                         /\ r.type = "Request" /\ Len(r.items) = s.quantity
                         /\ \A i \in 1..s.quantity :
                              r.items[i] = [address |-> s.start + i - 1, value |-> ValueAt(s.fc, i - 1)]
  BY DEF RequestRead, Shown
<1>1. s \in RequestSamples
  BY DEF Samples, IsRequest, RequestSamples, TableSamples, PairSamples, AddressSamples
<1>2. RequestIs(s, pdu) BY <1>1, AcceptedIs
<1> HIDE DEF s
<1>3. s.fc \in FunctionCodes /\ s.start \in Nat /\ s.quantity \in Nat /\ IsWordValue(s.start) BY <1>2 DEF RequestIs
<1> DEFINE r == Shown(pdu, 0, 0)
<1> HIDE DEF r
<1>4. ASSUME NEW type, NEW items, NEW q, r = Result(Yes, mode, 1, s.fc, type, items, q)
      PROVE  r.valid /\ r.slave = 1 /\ r.fc = s.fc /\ r.type = type /\ r.items = items /\ r.quantity = q
  <2>1. r.valid = Yes /\ r.slave = 1 /\ r.fc = s.fc /\ r.type = type /\ r.items = items /\ r.quantity = q
    BY <1>4, ResultIs
  <2>2. r.valid = TRUE BY <2>1, Zenon DEF Yes
  <2> QED BY <2>1, <2>2
<1>5. CASE s.fc \in Reads
  <2> DEFINE items == <<Item(s.start, NoValue)>>
  <2>1. s.fc \notin WriteSingle /\ s.fc \notin WriteMultiple BY <1>5, CodesAre
  <2>2. r = Result(Yes, mode, 1, s.fc, "Request", items, s.quantity) BY <1>2, <1>5, ReadRequestShown DEF r
  <2>3. items[1].address = s.start
    <3>1. Item(s.start, NoValue) = [address |-> s.start, value |-> NoValue] BY <1>3, StartShown
    <3> QED BY <3>1
  <2> HIDE DEF items
  <2>4. r.valid /\ r.slave = 1 /\ r.fc = s.fc /\ r.type = "Request" /\ r.items = items /\ r.quantity = s.quantity
    BY <1>4, <2>2
  <2> QED BY <2>1, <2>3, <2>4 DEF r
<1>6. CASE s.fc \in WriteSingle
  <2> DEFINE v == ReadBigEndian(pdu.data, 2)
             items == <<Item(s.start, v)>>
  <2>1. s.fc \notin Reads /\ s.fc \notin WriteMultiple BY <1>6, CodesAre
  <2>2. r = Result(Yes, mode, 1, s.fc, "Unknown", items, 0) BY <1>2, <1>6, SingleRequestShown DEF r
  <2>3. items[1].address = s.start /\ items[1].value = v
    <3> HIDE DEF v
    <3>1. Item(s.start, v) = [address |-> s.start, value |-> v] BY <1>3, StartShown
    <3> QED BY <3>1
  <2> HIDE DEF items
  <2>4. r.valid /\ r.slave = 1 /\ r.fc = s.fc /\ r.items = items BY <1>4, <2>2
  <2> QED BY <2>1, <2>3, <2>4 DEF r
<1>7. CASE s.fc \in WriteMultiple
  <2> DEFINE items == ItemsOf(s.fc, s.start, s.quantity)
  <2>1. s.fc \notin Reads /\ s.fc \notin WriteSingle BY <1>7, CodesAre
  <2>2. r = Result(Yes, mode, 1, s.fc, "Request", items, 0) BY <1>2, <1>7, MultipleRequestShown DEF r
  <2>3. 1 <= s.quantity /\ s.start + s.quantity <= MaxAddress + 1 BY <1>2, <1>7 DEF RequestIs
  <2>4. Shows(items, s.fc, s.start, s.quantity) BY <1>3, <2>3, ItemsShown
  <2> HIDE DEF items
  <2>5. Len(items) = s.quantity
        /\ \A i \in 1..s.quantity : items[i] = [address |-> s.start + i - 1, value |-> ValueAt(s.fc, i - 1)]
    BY <2>4 DEF Shows
  <2>6. items[1].address = s.start
    <3>1. 1 \in 1..s.quantity /\ s.start + 1 - 1 = s.start BY <1>3, <2>3
    <3>2. items[1] = [address |-> s.start + 1 - 1, value |-> ValueAt(s.fc, 1 - 1)] BY <2>5, <3>1
    <3>3. items[1].address = s.start + 1 - 1 BY <3>2
    <3> QED BY <3>1, <3>3
  <2>7. r.valid /\ r.slave = 1 /\ r.fc = s.fc /\ r.type = "Request" /\ r.items = items BY <1>4, <2>2
  <2> QED BY <2>1, <2>5, <2>6, <2>7 DEF r
<1> QED BY <1>3, <1>5, <1>6, <1>7 DEF FunctionCodes

LEMMA AnswersRead ==
  ASSUME mode \in {"TCP", "RTU", "ASCII"}, sample \in Samples PROVE AnswerRead
<1> DEFINE s == sample
<1> SUFFICES ASSUME IsRequest, s.fc \in Reads, NEW pdu \in Accepted(s)
             PROVE  LET r == Shown(AnswerOf(s, pdu, s.quantity), s.start, s.quantity) IN
                    IF IsOfBits(s.fc) /\ s.quantity \in 17..24 THEN r.type = "Request"
                    ELSE /\ r.valid /\ r.type = "Response" /\ Len(r.items) = s.quantity
                         /\ \A i \in 1..s.quantity :
                              r.items[i] = [address |-> s.start + i - 1, value |-> ValueAt(s.fc, i - 1)]
  BY DEF AnswerRead, Shown
<1>1. s \in RequestSamples
  BY DEF Samples, IsRequest, RequestSamples, TableSamples, PairSamples, AddressSamples
<1>2. RequestIs(s, pdu) BY <1>1, AcceptedIs
<1> HIDE DEF s
<1>3. s.start \in Nat /\ s.quantity \in Nat /\ s.start + s.quantity <= MaxAddress + 1 BY <1>2 DEF RequestIs
<1> DEFINE r == Shown(AnswerOf(s, pdu, s.quantity), s.start, s.quantity)
           items == ItemsOf(s.fc, s.start, s.quantity)
<1>4. IF IsOfBits(s.fc) /\ s.quantity \in 17..24 THEN r.type = "Request"
      ELSE r = Result(Yes, mode, 1, s.fc, "Response", items, s.quantity)
  BY <1>2, AnswerShown
<1>5. Shows(items, s.fc, s.start, s.quantity) BY <1>3, ItemsShown
<1> HIDE DEF r, items
<1>6. CASE IsOfBits(s.fc) /\ s.quantity \in 17..24 BY <1>4, <1>6 DEF r
<1>7. CASE ~(IsOfBits(s.fc) /\ s.quantity \in 17..24)
  <2>1. r = Result(Yes, mode, 1, s.fc, "Response", items, s.quantity) BY <1>4, <1>7
  <2>2. r.valid = Yes /\ r.type = "Response" /\ r.items = items BY <2>1, ResultIs
  <2>3. r.valid = TRUE BY <2>2, Zenon DEF Yes
  <2>4. /\ Len(r.items) = s.quantity
        /\ \A i \in 1..s.quantity :
             r.items[i] = [address |-> s.start + i - 1, value |-> ValueAt(s.fc, i - 1)]
    BY <1>5, <2>2 DEF Shows
  <2> QED BY <1>7, <2>2, <2>3, <2>4 DEF r
<1> QED BY <1>6, <1>7

\* ExchangeRead, for such requests: the analyzer shows a request of the program and the
\* answer to it as what was asked, with its address, quantity and each of the values (parse(),
\* parsePdu()); but three bytes of bits are shown as a request.
THEOREM ExchangesAreRead == Spec => []ExchangeRead
<1>1. LineInv => ExchangeRead
  <2> SUFFICES ASSUME LineInv PROVE ExchangeRead OBVIOUS
  <2>1. CASE sample \in Samples
    <3>1. mode \in {"TCP", "RTU", "ASCII"} BY LimitsFit DEF LineInv
    <3> QED BY <2>1, <3>1, RequestsRead, AnswersRead DEF ExchangeRead
  <2>2. CASE sample = None
    BY <2>2 DEF None, ExchangeRead, RequestRead, AnswerRead, IsRequest
  <2> QED BY <2>1, <2>2 DEF LineInv
<1> QED BY <1>1, LineAlways, PTL

-----------------------------------------------------------------------------
(* On an RTU line a frame that arrives in one piece is never lost *)

RtuAdu(i) == BuildRtuAdu(1, Answer(i))
AduValues == Octets \cup UNION {{RtuAdu(i)[k] : k \in 1..7} : i \in 1..MaxSent}
Adus == {RtuAdu(i) : i \in 1..MaxSent}

LEMMA AdusAre ==
  /\ MaxSent \in Nat
  /\ \A adu \in Adus : adu \in Seq(AduValues) /\ Len(adu) = 7
<1>0. MaxSent \in Nat /\ MaxSent <= 255 BY LimitsFit DEF Octets
<1>1. ASSUME NEW i \in 1..MaxSent PROVE RtuAdu(i) \in Seq(AduValues) /\ Len(RtuAdu(i)) = 7
  <2> DEFINE pdu == Answer(i)
             adu == RtuAdu(i)
  <2>1. pdu.fc = 3 /\ pdu.data = <<2, 0, i>> BY DEF Answer
  <2>2. i \in Octets BY <1>0 DEF Octets
  <2>3. pdu.data \in Seq(Octets) /\ Len(pdu.data) = 3
    <3>1. 2 \in Octets /\ 0 \in Octets BY DEF Octets
    <3> QED BY <2>1, <2>2, <3>1
  <2>4. pdu.fc \in FunctionCodes BY <2>1 DEF FunctionCodes, Reads, ReadRegisters
  <2>5. adu = BuildRtuAdu(1, pdu) BY DEF RtuAdu
  <2>6. \A k \in 1..7 : adu[k] \in AduValues BY DEF AduValues
  <2> HIDE DEF pdu, adu
  <2>7. IsPdu(Bytes(pdu)) /\ Len(Bytes(pdu)) = 4
    <3>1. 1 <= Len(pdu.data) /\ Len(pdu.data) <= 252 /\ pdu.data \in Seq(Octets) BY <2>3
    <3>2. IsPdu(Bytes(pdu)) /\ Len(Bytes(pdu)) = 1 + Len(pdu.data) BY <2>4, <3>1, BytesArePdu
    <3> QED BY <2>3, <3>2
  <2>8. (\E S : BuildRtuAdu(1, pdu) \in Seq(S)) /\ Len(BuildRtuAdu(1, pdu)) = 3 + Len(Bytes(pdu))
    BY <2>7, RtuFrameIs
  <2>9. (\E S : adu \in Seq(S)) /\ Len(adu) = 7 BY <2>5, <2>7, <2>8
  <2>10. PICK S : adu \in Seq(S) BY <2>9
  <2>11. adu = [k \in 1..7 |-> adu[k]] BY <2>9, <2>10
  <2>12. adu \in Seq(AduValues) BY <2>6, <2>11
  <2> QED BY <2>9, <2>12 DEF adu
<1> QED BY <1>0, <1>1 DEF Adus

\* A frame cut in three.
LEMMA CutInThree ==
  ASSUME NEW S, NEW s \in Seq(S), NEW k \in Nat, NEW n \in Nat, k + n <= Len(s)
  PROVE  /\ Len(DropFirst(k, s)) = Len(s) - k
         /\ First(k, s) \o First(n, DropFirst(k, s)) = First(k + n, s)
         /\ DropFirst(n, DropFirst(k, s)) = DropFirst(k + n, s)
         /\ Len(First(k + n, s)) = k + n
<1> DEFINE a == First(k, s)
           r == DropFirst(k, s)
           b == First(n, r)
           c == DropFirst(n, r)
           l == Len(s)
           u == First(k + n, s)
           v == DropFirst(k + n, s)
<1>0. l \in Nat /\ k \in 0..l /\ k + n \in 0..l /\ n \in 0..l - k OBVIOUS
<1>1. /\ a \in Seq(S) /\ Len(a) = k /\ \A i \in 1..k : a[i] = s[i]
      /\ r \in Seq(S) /\ Len(r) = l - k /\ \A i \in 1..l - k : r[i] = s[k + i]
  BY <1>0, CutInTwo
<1>2. /\ u \in Seq(S) /\ Len(u) = k + n /\ \A i \in 1..k + n : u[i] = s[i]
      /\ v \in Seq(S) /\ Len(v) = l - (k + n) /\ \A i \in 1..l - (k + n) : v[i] = s[k + n + i]
  BY <1>0, CutInTwo
<1> HIDE DEF a, r, u, v
<1>3. n \in 0..Len(r) BY <1>0, <1>1
<1>4. /\ b \in Seq(S) /\ Len(b) = n /\ \A i \in 1..n : b[i] = r[i]
      /\ c \in Seq(S) /\ Len(c) = Len(r) - n /\ \A i \in 1..Len(r) - n : c[i] = r[n + i]
  BY <1>1, <1>3, CutInTwo
<1> HIDE DEF b, c, l
<1>5. a \o b = u
  <2> DEFINE ab == a \o b
  <2>1. /\ ab \in Seq(S) /\ Len(ab) = Len(a) + Len(b)
        /\ \A i \in 1..Len(a) + Len(b) : ab[i] = IF i <= Len(a) THEN a[i] ELSE b[i - Len(a)]
    <3>1. a \in Seq(S) /\ b \in Seq(S) BY <1>1, <1>4
    <3> QED BY <3>1, ConcatProperties
  <2> HIDE DEF ab
  <2>2. Len(ab) = k + n BY <1>1, <1>4, <2>1
  <2>3. ASSUME NEW i \in 1..k + n PROVE ab[i] = u[i]
    <3>1. ab[i] = IF i <= k THEN a[i] ELSE b[i - k] BY <1>1, <1>4, <2>1
    <3>2. CASE i <= k
      <4>1. i \in 1..k BY <3>2
      <4> QED BY <1>1, <1>2, <3>1, <3>2, <4>1
    <3>3. CASE i > k
      <4>1. i - k \in 1..n /\ i - k \in 1..l - k /\ k + (i - k) = i /\ ~(i <= k) BY <1>0, <3>3
      <4>2. ab[i] = b[i - k] BY <3>1, <4>1
      <4>3. b[i - k] = r[i - k] BY <1>4, <4>1
      <4>4. r[i - k] = s[i] BY <1>1, <4>1
      <4>5. u[i] = s[i] BY <1>2
      <4> QED BY <4>2, <4>3, <4>4, <4>5
    <3> QED BY <3>2, <3>3
  <2>4. ab = u BY <1>2, <2>1, <2>2, <2>3, SeqEqual
  <2> QED BY <2>4 DEF ab
<1>6. c = v
  <2>1. Len(c) = Len(v)
    <3>1. Len(c) = Len(r) - n BY <1>4
    <3>2. Len(r) = l - k BY <1>1
    <3>3. Len(v) = l - (k + n) BY <1>2
    <3>4. n \in Nat /\ k \in Nat /\ l \in Nat BY <1>0
    <3> HIDE DEF l
    <3> QED BY <3>1, <3>2, <3>3, <3>4
  <2>2. ASSUME NEW i \in 1..Len(v) PROVE c[i] = v[i]
    <3>1. i \in 1..Len(r) - n /\ i \in 1..l - (k + n) /\ n + i \in 1..l - k /\ k + (n + i) = k + n + i
      BY <1>0, <1>1, <1>2
    <3>2. c[i] = r[n + i] BY <1>4, <3>1
    <3>3. r[n + i] = s[k + (n + i)] BY <1>1, <3>1
    <3>4. v[i] = s[k + n + i] BY <1>2, <3>1
    <3> QED BY <3>1, <3>2, <3>3, <3>4
  <2> QED BY <1>2, <1>4, <2>1, <2>2, SeqEqual
<1> QED BY <1>1, <1>2, <1>5, <1>6 DEF a, r, b, c, u, v, l

-----------------------------------------------------------------------------
(* The invariant *)

Out == handed \o completed
IsOut(adu) == \E i \in DOMAIN Out : Out[i] = adu

\* What is on the line is the rest of the last frame; what came of it before, without a
\* silence, is in the buffer, and nothing else is.
LineHolds ==
  wire # <<>> =>
    /\ sent # <<>>
    /\ \E k \in 0..6 : /\ wire = DropFirst(k, Last(sent))
                       /\ k > 0 /\ unbroken /\ silence = "none" => buffer = First(k, Last(sent))

\* A whole frame was handed out, or is in the buffer, and safe there: the next chunk comes
\* after the silence that ends it.
WholeSafe ==
  \A adu \in whole : adu # <<>> /\ (IsOut(adu) \/ (adu = buffer /\ (wire = <<>> \/ silence = "frame")))

PieceTypes ==
  /\ buffer \in Seq(AduValues) /\ wire \in Seq(AduValues)
  /\ handed \in Seq(Seq(AduValues)) /\ completed \in Seq(Seq(AduValues)) /\ sent \in Seq(Adus)
  /\ Len(sent) <= MaxSent

PieceInv == mode = "RTU" => PieceTypes /\ LineHolds /\ WholeSafe

LEMMA PieceStarts == Init => PieceInv
BY LimitsFit DEF Init, StreamInit, PieceInv, PieceTypes, LineHolds, WholeSafe, Octets

\* What was handed out stays so, and more may come.
LEMMA OutGrows ==
  ASSUME NEW S, Out \in Seq(S), NEW g \in S, Out' = Append(Out, g)
  PROVE  (\A adu : IsOut(adu) => IsOut(adu)') /\ IsOut(g)'
<1>1. /\ Len(Out') = Len(Out) + 1 /\ DOMAIN Out' = 1..Len(Out) + 1 /\ Out'[Len(Out) + 1] = g
      /\ DOMAIN Out = 1..Len(Out) /\ Len(Out) \in Nat /\ \A i \in 1..Len(Out) : Out'[i] = Out[i]
  OBVIOUS
<1> HIDE DEF Out
<1>2. ASSUME NEW adu, IsOut(adu) PROVE IsOut(adu)'
  <2>1. PICK i \in DOMAIN Out : Out[i] = adu BY <1>2 DEF IsOut
  <2>2. i \in DOMAIN Out' /\ Out'[i] = adu BY <1>1, <2>1
  <2> QED BY <2>2 DEF IsOut
<1>3. IsOut(g)'
  <2>1. Len(Out) + 1 \in DOMAIN Out' BY <1>1
  <2> QED BY <1>1, <2>1 DEF IsOut
<1> QED BY <1>2, <1>3

\* Taking the first of what waits changes nothing of it all; a frame that ends is the last.
LEMMA OutAppends ==
  ASSUME NEW S, NEW h \in Seq(S), NEW c \in Seq(S), NEW g \in S
  PROVE  h \o c \in Seq(S) /\ h \o Append(c, g) = Append(h \o c, g)
<1> DEFINE cg == Append(c, g)
           hc == h \o c
           x == h \o cg
           y == Append(hc, g)
           m == Len(h)
           n == Len(c)
<1>0. m \in Nat /\ n \in Nat OBVIOUS
<1>1. cg \in Seq(S) /\ Len(cg) = n + 1 /\ cg[n + 1] = g /\ \A i \in 1..n : cg[i] = c[i] OBVIOUS
<1>2. hc \in Seq(S) /\ Len(hc) = m + n /\ \A i \in 1..m + n : hc[i] = IF i <= m THEN h[i] ELSE c[i - m]
  BY ConcatProperties
<1> HIDE DEF cg
<1>3. /\ x \in Seq(S) /\ Len(x) = m + (n + 1)
      /\ \A i \in 1..m + (n + 1) : x[i] = IF i <= m THEN h[i] ELSE cg[i - m]
  <2>1. cg \in Seq(S) BY <1>1
  <2>2. /\ x \in Seq(S) /\ Len(x) = Len(h) + Len(cg)
        /\ \A i \in 1..Len(h) + Len(cg) : x[i] = IF i <= Len(h) THEN h[i] ELSE cg[i - Len(h)]
    BY <2>1, ConcatProperties
  <2> QED BY <1>1, <2>2
<1> HIDE DEF hc
<1>4. y \in Seq(S) /\ Len(y) = m + n + 1 /\ y[m + n + 1] = g /\ \A i \in 1..m + n : y[i] = hc[i] BY <1>2
<1> HIDE DEF x, y, m, n
<1>5. ASSUME NEW i \in 1..Len(x) PROVE x[i] = y[i]
  <2>1. CASE i = m + n + 1
    <3>1. ~(i <= m) /\ i - m = n + 1 /\ i \in 1..m + (n + 1) BY <1>0, <2>1
    <3> QED BY <1>1, <1>3, <1>4, <2>1, <3>1
  <2>2. CASE i # m + n + 1
    <3>1. i \in 1..m + n /\ i \in 1..m + (n + 1) BY <1>0, <1>3, <2>2
    <3>2. x[i] = (IF i <= m THEN h[i] ELSE cg[i - m]) /\ y[i] = (IF i <= m THEN h[i] ELSE c[i - m])
      BY <1>2, <1>3, <1>4, <3>1
    <3>3. i > m => i - m \in 1..n BY <1>0, <3>1
    <3> QED BY <1>0, <1>1, <3>1, <3>2, <3>3
  <2> QED BY <2>1, <2>2
<1>6. x = y
  <2>1. Len(x) = Len(y) BY <1>0, <1>3, <1>4
  <2> QED BY <1>3, <1>4, <1>5, <2>1, SeqEqual
<1> QED BY <1>2, <1>6 DEF x, y, cg, hc

LEMMA OutMoves ==
  ASSUME NEW S, NEW h \in Seq(S), NEW c \in Seq(S), c # <<>>
  PROVE  Append(h, Head(c)) \o Tail(c) = h \o c
<1> DEFINE a == Append(h, Head(c))
           t == Tail(c)
           x == a \o t
           y == h \o c
           m == Len(h)
           n == Len(c)
<1>0. m \in Nat /\ n \in Nat /\ n >= 1 /\ Head(c) = c[1] OBVIOUS
<1>1. a \in Seq(S) /\ Len(a) = m + 1 /\ a[m + 1] = c[1] /\ \A i \in 1..m : a[i] = h[i] OBVIOUS
<1>2. t \in Seq(S) /\ Len(t) = n - 1 /\ \A i \in 1..n - 1 : t[i] = c[i + 1] OBVIOUS
<1>3. y \in Seq(S) /\ Len(y) = m + n /\ \A i \in 1..m + n : y[i] = IF i <= m THEN h[i] ELSE c[i - m]
  BY ConcatProperties
<1> HIDE DEF a, t
<1>4. /\ x \in Seq(S) /\ Len(x) = Len(a) + Len(t)
      /\ \A i \in 1..Len(a) + Len(t) : x[i] = IF i <= Len(a) THEN a[i] ELSE t[i - Len(a)]
  BY <1>1, <1>2, ConcatProperties
<1> HIDE DEF x, y, m, n
<1>5. Len(x) = Len(y) BY <1>0, <1>1, <1>2, <1>3, <1>4
<1>6. ASSUME NEW i \in 1..Len(x) PROVE x[i] = y[i]
  <2>0. i \in 1..Len(a) + Len(t) /\ i \in 1..m + n BY <1>3, <1>4, <1>5
  <2>1. /\ x[i] = IF i <= m + 1 THEN a[i] ELSE t[i - (m + 1)]
        /\ y[i] = IF i <= m THEN h[i] ELSE c[i - m]
    BY <1>1, <1>3, <1>4, <2>0
  <2>2. CASE i <= m
    <3>1. i \in 1..m /\ i <= m + 1 BY <1>0, <2>0, <2>2
    <3> QED BY <1>1, <2>1, <2>2, <3>1
  <2>3. CASE i = m + 1
    <3>1. i <= m + 1 /\ ~(i <= m) /\ i - m = 1 BY <1>0, <2>3
    <3> QED BY <1>1, <2>1, <2>3, <3>1
  <2>4. CASE i > m + 1
    <3>1. ~(i <= m + 1) /\ ~(i <= m) /\ i - (m + 1) \in 1..n - 1 /\ i - (m + 1) + 1 = i - m
      BY <1>0, <2>0, <2>4
    <3> QED BY <1>2, <2>1, <3>1
  <2> QED BY <1>0, <2>0, <2>2, <2>3, <2>4
<1>7. x = y BY <1>3, <1>4, <1>5, <1>6, SeqEqual
<1> QED BY <1>7 DEF x, y, a, t

\* A list of which nothing is dropped, or all.
LEMMA NoneOrAll ==
  ASSUME NEW S, NEW s \in Seq(S)
  PROVE  /\ DropFirst(0, s) = s
         /\ DropFirst(Len(s), s) = <<>> /\ First(Len(s), s) = s
<1> DEFINE l == Len(s)
           a == DropFirst(0, s)
           b == DropFirst(l, s)
           c == First(l, s)
<1>0. l \in Nat /\ 0 \in 0..l /\ l \in 0..l OBVIOUS
<1>1. a \in Seq(S) /\ Len(a) = l - 0 /\ \A i \in 1..l - 0 : a[i] = s[0 + i] BY <1>0, CutInTwo
<1>2. b \in Seq(S) /\ Len(b) = l - l BY <1>0, CutInTwo
<1>3. c \in Seq(S) /\ Len(c) = l /\ \A i \in 1..l : c[i] = s[i] BY <1>0, CutInTwo
<1> HIDE DEF a, b, c
<1>4. a = s
  <2>1. Len(a) = Len(s) /\ \A i \in 1..Len(a) : a[i] = s[i]
    <3>1. Len(a) = l BY <1>0, <1>1
    <3>2. ASSUME NEW i \in 1..l PROVE a[i] = s[i]
      <4>1. i \in 1..l - 0 /\ 0 + i = i BY <1>0
      <4> QED BY <1>1, <4>1
    <3> QED BY <3>1, <3>2
  <2> QED BY <1>1, <2>1, SeqEqual
<1>5. b = <<>>
  <2>1. Len(b) = 0 BY <1>0, <1>2
  <2> QED BY <1>2, <2>1
<1>6. c = s BY <1>3, SeqEqual
<1> QED BY <1>4, <1>5, <1>6 DEF a, b, c

LEMMA RtuFed ==
  ASSUME mode = "RTU", NEW d, NEW x, x = Feed(Extractor, d)
  PROVE  LET keep == IF buffer = <<>> \/ silence = "none" THEN buffer ELSE <<>> IN
         /\ x.buffer = IF Len(keep \o d) > MaxAduSize THEN <<>> ELSE keep \o d
         /\ x.completed = IF buffer # <<>> /\ silence = "frame" THEN Append(completed, buffer)
                          ELSE completed
<1> DEFINE e == Extractor
<1>1. x = FeedRtu(e, d) BY DEF Feed
<1>2. e.buffer = buffer /\ e.completed = completed BY DEF Extractor
<1>3. DOMAIN e = {"buffer", "completed", "dropped"} BY DEF Extractor
<1> HIDE DEF e
<1> DEFINE y == IF e.buffer = <<>> \/ silence = "none" THEN e
                ELSE [e EXCEPT !.completed = IF silence = "frame" THEN Append(@, e.buffer) ELSE @,
                               !.buffer = <<>>]
           keep == IF buffer = <<>> \/ silence = "none" THEN buffer ELSE <<>>
<1>4. x = [y EXCEPT !.buffer = IF Len(@ \o d) > MaxAduSize THEN <<>> ELSE @ \o d] BY <1>1 DEF FeedRtu
<1>5. /\ y.buffer = keep /\ DOMAIN y = {"buffer", "completed", "dropped"}
      /\ y.completed = IF buffer # <<>> /\ silence = "frame" THEN Append(completed, buffer) ELSE completed
  BY <1>2, <1>3
<1> HIDE DEF y, keep
<1>6. x.buffer = (IF Len(y.buffer \o d) > MaxAduSize THEN <<>> ELSE y.buffer \o d)
      /\ x.completed = y.completed
  BY <1>4, <1>5
<1> QED BY <1>5, <1>6 DEF keep

LEMMA OutStays ==
  ASSUME Out' = Out
  PROVE  \A adu : IsOut(adu) => IsOut(adu)'
BY DEF IsOut

LEMMA PieceArrives ==
  ASSUME mode = "RTU", PieceInv, Deliver
  PROVE  PieceInv'
<1>0. PieceTypes /\ LineHolds /\ WholeSafe BY DEF PieceInv
<1>1. PICK n \in 1..Len(wire) :
        /\ Becomes(Feed(Extractor, First(n, wire)))
        /\ wire' = DropFirst(n, wire)
        /\ LET begins == sent # <<>> /\ wire = Last(sent)
               intact == (IF begins THEN buffer = <<>> \/ silence = "frame"
                          ELSE unbroken /\ silence = "none") IN
           /\ unbroken' = intact
           /\ whole' = IF intact /\ n = Len(wire) THEN whole \cup {Last(sent)} ELSE whole
  BY DEF Deliver
<1>2. /\ silence' = "none" /\ mode' = mode /\ handed' = handed /\ sent' = sent
  BY DEF Deliver
<1> DEFINE last == Last(sent)
           d == First(n, wire)
           x == Feed(Extractor, d)
           keep == IF buffer = <<>> \/ silence = "none" THEN buffer ELSE <<>>
           intact == IF sent # <<>> /\ wire = last THEN buffer = <<>> \/ silence = "frame"
                     ELSE unbroken /\ silence = "none"
<1>3. /\ buffer \in Seq(AduValues) /\ wire \in Seq(AduValues)
      /\ handed \in Seq(Seq(AduValues)) /\ completed \in Seq(Seq(AduValues)) /\ sent \in Seq(Adus)
      /\ Len(sent) <= MaxSent
  BY <1>0 DEF PieceTypes
<1>4. wire # <<>> BY <1>1, <1>3
<1>5. sent # <<>> BY <1>0, <1>4 DEF LineHolds
<1>6. PICK k \in 0..6 : /\ wire = DropFirst(k, last)
                        /\ k > 0 /\ unbroken /\ silence = "none" => buffer = First(k, last)
  BY <1>0, <1>4 DEF LineHolds
<1>7. last \in Adus BY <1>3, <1>5 DEF Last
<1>8. last \in Seq(AduValues) /\ Len(last) = 7 BY <1>7, AdusAre
<1>9. buffer' = x.buffer /\ completed' = x.completed BY <1>1 DEF Becomes
<1>10. /\ x.buffer = IF Len(keep \o d) > MaxAduSize THEN <<>> ELSE keep \o d
       /\ x.completed = IF buffer # <<>> /\ silence = "frame" THEN Append(completed, buffer) ELSE completed
  BY RtuFed
<1>11. unbroken' <=> intact BY <1>1
<1>12. whole' = IF intact /\ n = Len(wire) THEN whole \cup {last} ELSE whole BY <1>1
<1> HIDE DEF x
<1> HIDE DEF last, intact
<1>13. Len(wire) = 7 - k /\ k \in Nat /\ n \in Nat /\ k + n <= 7
  <2>1. k \in 0..Len(last) BY <1>8
  <2>2. Len(DropFirst(k, last)) = Len(last) - k BY <1>8, <2>1, CutInTwo
  <2>3. Len(wire) = 7 - k BY <1>6, <1>8, <2>2
  <2> QED BY <2>3
<1>14. /\ First(k, last) \o d = First(k + n, last)
       /\ DropFirst(n, wire) = DropFirst(k + n, last)
       /\ Len(First(k + n, last)) = k + n
  BY <1>6, <1>8, <1>13, CutInThree
<1>15. d \in Seq(AduValues)
  <2>1. n \in 0..Len(wire) BY <1>13
  <2> QED BY <1>3, <2>1, CutInTwo
<1>16. wire' = DropFirst(k + n, last) BY <1>1, <1>14
<1> HIDE DEF d
<1>17. keep \in Seq(AduValues) BY <1>3
<1>18. MaxAduSize \in Nat /\ MaxAduSize >= 260 BY LimitsFit
<1>19. intact => buffer' = First(k + n, last)
  <2> SUFFICES ASSUME intact PROVE buffer' = First(k + n, last) OBVIOUS
  <2>1. keep \o d = First(k + n, last)
    <3>1. CASE wire = last
      <4>1. k = 0
        <5>1. Len(wire) = 7 BY <1>8, <3>1
        <5> QED BY <1>13, <5>1
      <4>2. buffer = <<>> \/ silence = "frame" BY <1>5, <3>1 DEF intact
      <4>3. keep = <<>> BY <4>2
      <4>4. keep \o d = d BY <1>15, <4>3, ConcatEmptySeq
      <4>5. k + n = n BY <1>13, <4>1
      <4> QED BY <3>1, <4>4, <4>5 DEF d
    <3>2. CASE wire # last
      <4>1. DropFirst(0, last) = last BY <1>8, NoneOrAll
      <4>2. k # 0 BY <1>6, <3>2, <4>1
      <4>3. k > 0 BY <1>13, <4>2
      <4>4. unbroken /\ silence = "none" BY <3>2 DEF intact
      <4>5. buffer = First(k, last) BY <1>6, <4>3, <4>4
      <4>6. keep = buffer BY <4>4
      <4> QED BY <1>14, <4>5, <4>6
    <3> QED BY <3>1, <3>2
  <2> HIDE DEF keep
  <2>2. Len(keep \o d) = k + n BY <1>14, <2>1
  <2>3. ~(Len(keep \o d) > MaxAduSize) BY <1>13, <1>18, <2>2
  <2> QED BY <1>9, <1>10, <2>1, <2>3
<1>20. buffer' \in Seq(AduValues) /\ completed' \in Seq(Seq(AduValues))
  <2> HIDE DEF keep
  <2>1. keep \o d \in Seq(AduValues) BY <1>15, <1>17, ConcatProperties
  <2>2. <<>> \in Seq(AduValues) OBVIOUS
  <2>3. buffer' \in Seq(AduValues) BY <1>9, <1>10, <2>1, <2>2
  <2>4. Append(completed, buffer) \in Seq(Seq(AduValues)) BY <1>3
  <2> QED BY <1>3, <1>9, <1>10, <2>3, <2>4
<1>21. PieceTypes'
  <2>1. wire' \in Seq(AduValues)
    <3>1. k + n \in 0..Len(last) BY <1>8, <1>13
    <3> QED BY <1>8, <1>16, <3>1, CutInTwo
  <2> QED BY <1>2, <1>3, <1>20, <2>1 DEF PieceTypes
<1>22. LineHolds'
  <2> SUFFICES ASSUME wire' # <<>>
               PROVE  \E j \in 0..6 : /\ wire' = DropFirst(j, last)
                                      /\ j > 0 /\ unbroken' /\ silence' = "none" => buffer' = First(j, last)
    BY <1>2, <1>5 DEF LineHolds, last
  <2>1. k + n # 7
    <3>1. DropFirst(7, last) = <<>> BY <1>8, NoneOrAll
    <3> QED BY <1>16, <3>1
  <2>2. k + n \in 0..6 BY <1>13, <2>1
  <2> QED BY <1>11, <1>16, <1>19, <2>2
<1>23. PICK old \in Seq(AduValues) : old = buffer BY <1>3
<1>24. ASSUME completed' = Append(completed, buffer)
       PROVE  (\A adu : IsOut(adu) => IsOut(adu)') /\ IsOut(old)'
  <2>1. handed \o completed \in Seq(Seq(AduValues))
        /\ handed \o Append(completed, old) = Append(handed \o completed, old)
    BY <1>3, OutAppends
  <2>2. Out \in Seq(Seq(AduValues)) /\ Out' = Append(Out, old) BY <1>2, <1>23, <1>24, <2>1 DEF Out
  <2> QED BY <2>2, OutGrows
<1>25. ASSUME completed' = completed PROVE \A adu : IsOut(adu) => IsOut(adu)'
  <2>1. Out' = Out BY <1>2, <1>25 DEF Out
  <2> QED BY <2>1, OutStays
<1>26. \A adu : IsOut(adu) => IsOut(adu)' BY <1>9, <1>10, <1>24, <1>25
<1>27. buffer # <<>> /\ silence = "frame" => IsOut(old)' BY <1>9, <1>10, <1>24
<1>28. WholeSafe'
  <2> SUFFICES ASSUME NEW adu \in whole'
               PROVE  adu # <<>> /\ (IsOut(adu)' \/ (adu = buffer' /\ (wire' = <<>> \/ silence' = "frame")))
    BY DEF WholeSafe
  <2>1. CASE adu \in whole
    <3>1. adu # <<>> /\ (IsOut(adu) \/ (adu = buffer /\ (wire = <<>> \/ silence = "frame")))
      BY <1>0, <2>1 DEF WholeSafe
    <3>2. CASE IsOut(adu) BY <1>26, <3>1, <3>2
    <3>3. CASE adu = buffer /\ silence = "frame" BY <1>23, <1>27, <3>1, <3>3
    <3> QED BY <1>4, <3>1, <3>2, <3>3
  <2>2. CASE adu \notin whole
    <3>1. intact /\ n = Len(wire) /\ adu = last BY <1>12, <2>2
    <3>2. k + n = 7 BY <1>13, <3>1
    <3>3. DropFirst(7, last) = <<>> /\ First(7, last) = last BY <1>8, NoneOrAll
    <3>4. buffer' = last /\ wire' = <<>> BY <1>16, <1>19, <3>1, <3>2, <3>3
    <3>5. last # <<>>
      <4>1. Len(last) # 0 BY <1>8
      <4> QED BY <4>1
    <3> QED BY <3>1, <3>4, <3>5
  <2> QED BY <2>1, <2>2
<1> QED BY <1>2, <1>21, <1>22, <1>28 DEF PieceInv

LEMMA PiecePopped ==
  ASSUME mode = "RTU", PieceInv, Pop
  PROVE  PieceInv'
<1>0. PieceTypes /\ LineHolds /\ WholeSafe BY DEF PieceInv
<1>1. /\ buffer \in Seq(AduValues) /\ wire \in Seq(AduValues)
      /\ handed \in Seq(Seq(AduValues)) /\ completed \in Seq(Seq(AduValues)) /\ sent \in Seq(Adus)
      /\ Len(sent) <= MaxSent
  BY <1>0 DEF PieceTypes
<1>2. /\ mode' = mode /\ silence' = silence /\ sent' = sent /\ wire' = wire /\ unbroken' = unbroken
      /\ whole' = whole
  BY DEF Pop
<1>3. CASE completed # <<>> /\ handed' = Append(handed, Head(completed)) /\ completed' = Tail(completed)
           /\ buffer' = buffer
  <2>1. handed' \in Seq(Seq(AduValues)) /\ completed' \in Seq(Seq(AduValues)) BY <1>1, <1>3
  <2>2. PieceTypes' BY <1>1, <1>2, <1>3, <2>1 DEF PieceTypes
  <2>3. LineHolds' BY <1>0, <1>2, <1>3 DEF LineHolds
  <2>4. Append(handed, Head(completed)) \o Tail(completed) = handed \o completed BY <1>1, <1>3, OutMoves
  <2>5. Out' = Out BY <1>3, <2>4 DEF Out
  <2>6. \A adu : IsOut(adu) => IsOut(adu)' BY <2>5, OutStays
  <2>7. WholeSafe' BY <1>0, <1>2, <1>3, <2>6 DEF WholeSafe
  <2> QED BY <1>2, <2>2, <2>3, <2>7 DEF PieceInv
<1>4. CASE Ready /\ handed' = Append(handed, buffer) /\ buffer' = <<>> /\ completed' = completed
  <2>0. completed = <<>> /\ silence = "frame" /\ buffer # <<>> BY <1>4 DEF Ready
  <2>1. handed' \in Seq(Seq(AduValues)) /\ buffer' \in Seq(AduValues) BY <1>1, <1>4
  <2>2. PieceTypes' BY <1>1, <1>2, <1>4, <2>1 DEF PieceTypes
  <2>3. LineHolds'
    <3>1. silence' # "none" BY <1>2, <2>0
    <3> QED BY <1>0, <1>2, <3>1 DEF LineHolds
  <2>4. PICK old \in Seq(AduValues) : old = buffer BY <1>1
  <2>5. Append(handed, old) \in Seq(Seq(AduValues)) BY <1>1
  <2>6. Append(handed, old) \o <<>> = Append(handed, old) /\ handed \o <<>> = handed
    BY <1>1, <2>5, ConcatEmptySeq
  <2>7. Out = handed /\ Out' = Append(Out, old) BY <1>4, <2>0, <2>4, <2>6 DEF Out
  <2>8. Out \in Seq(Seq(AduValues)) BY <1>1, <2>7
  <2>9. (\A adu : IsOut(adu) => IsOut(adu)') /\ IsOut(old)' BY <2>7, <2>8, OutGrows
  <2>10. WholeSafe'
    <3> SUFFICES ASSUME NEW adu \in whole
                 PROVE  adu # <<>> /\ IsOut(adu)'
      BY <1>2 DEF WholeSafe
    <3>1. adu # <<>> /\ (IsOut(adu) \/ adu = old) BY <1>0, <2>4 DEF WholeSafe
    <3> QED BY <2>9, <3>1
  <2> QED BY <1>2, <2>2, <2>3, <2>10 DEF PieceInv
<1> QED BY <1>3, <1>4 DEF Pop

LEMMA PieceSent ==
  ASSUME mode = "RTU", PieceInv, Send
  PROVE  PieceInv'
<1>0. PieceTypes /\ LineHolds /\ WholeSafe BY DEF PieceInv
<1>1. /\ buffer \in Seq(AduValues) /\ wire \in Seq(AduValues)
      /\ handed \in Seq(Seq(AduValues)) /\ completed \in Seq(Seq(AduValues)) /\ sent \in Seq(Adus)
      /\ Len(sent) <= MaxSent
  BY <1>0 DEF PieceTypes
<1> DEFINE m == Len(sent) + 1
<1>2. /\ Len(sent) < MaxSent /\ wire = <<>> /\ (buffer = <<>> \/ silence = "frame")
      /\ sent' = Append(sent, Adu(m)) /\ wire' = wire \o Adu(m)
      /\ mode' = mode /\ buffer' = buffer /\ completed' = completed /\ silence' = silence
      /\ handed' = handed /\ unbroken' = unbroken /\ whole' = whole
  BY DEF Send
<1>3. MaxSent \in Nat /\ Len(sent) \in Nat BY <1>1, AdusAre
<1>4. m \in 1..MaxSent BY <1>2, <1>3
<1> DEFINE last == Adu(m)
<1>5. last = RtuAdu(m) BY DEF Adu, BuildAdu, RtuAdu
<1>6. last \in Adus BY <1>4, <1>5 DEF Adus
<1> HIDE DEF last
<1>7. last \in Seq(AduValues) /\ Len(last) = 7 BY <1>6, AdusAre
<1>8. wire' = last BY <1>2, <1>7, ConcatEmptySeq DEF last
<1>9. sent' = Append(sent, last) BY <1>2 DEF last
<1>10. /\ sent' \in Seq(Adus) /\ sent' # <<>> /\ Last(sent') = last /\ Len(sent') = Len(sent) + 1
  <2>1. /\ Append(sent, last) \in Seq(Adus) /\ Len(Append(sent, last)) = Len(sent) + 1
        /\ Append(sent, last)[Len(sent) + 1] = last
    BY <1>1, <1>6
  <2>2. Append(sent, last) # <<>> BY <1>3, <2>1
  <2> QED BY <1>9, <2>1, <2>2 DEF Last
<1>11. PieceTypes' BY <1>1, <1>2, <1>3, <1>7, <1>8, <1>10 DEF PieceTypes
<1>12. LineHolds'
  <2>1. wire' = DropFirst(0, last) BY <1>7, <1>8, NoneOrAll
  <2>2. 0 \in 0..6 /\ ~(0 > 0) OBVIOUS
  <2> QED BY <1>10, <2>1, <2>2 DEF LineHolds
<1>13. \A adu : IsOut(adu) => IsOut(adu)'
  <2>1. Out' = Out BY <1>2 DEF Out
  <2> QED BY <2>1, OutStays
<1>14. WholeSafe' BY <1>0, <1>2, <1>13 DEF WholeSafe
<1> QED BY <1>2, <1>11, <1>12, <1>14 DEF PieceInv

LEMMA PieceWaits ==
  ASSUME mode = "RTU", PieceInv, Silence
  PROVE  PieceInv'
<1>0. PieceTypes /\ LineHolds /\ WholeSafe BY DEF PieceInv
<1>1. /\ silence # "frame" /\ silence' # "none"
      /\ mode' = mode /\ buffer' = buffer /\ completed' = completed /\ wire' = wire
      /\ handed' = handed /\ unbroken' = unbroken /\ whole' = whole /\ sent' = sent
  BY DEF Silence
<1>2. PieceTypes' BY <1>0, <1>1 DEF PieceTypes
<1>3. LineHolds' BY <1>0, <1>1 DEF LineHolds
<1>4. \A adu : IsOut(adu) => IsOut(adu)'
  <2>1. Out' = Out BY <1>1 DEF Out
  <2> QED BY <2>1, OutStays
<1>5. WholeSafe' BY <1>0, <1>1, <1>4 DEF WholeSafe
<1> QED BY <1>1, <1>2, <1>3, <1>5 DEF PieceInv

LEMMA PieceKeeps == PieceInv /\ [Next]_vars => PieceInv'
<1> SUFFICES ASSUME PieceInv, [Next]_vars PROVE PieceInv' OBVIOUS
<1>1. mode' = mode
  BY DEF Next, StreamNext, Deliver, Pop, Send, Noise, Silence, Take, PutAway, vars, streamVars
<1>2. CASE mode # "RTU" BY <1>1, <1>2 DEF PieceInv
<1>3. CASE mode = "RTU"
  <2>1. CASE UNCHANGED streamVars
    <3>1. UNCHANGED <<buffer, completed, silence, handed, sent, wire, unbroken, whole>>
      BY <2>1 DEF streamVars
    <3>2. PieceTypes /\ LineHolds /\ WholeSafe BY <1>3 DEF PieceInv
    <3>3. PieceTypes' /\ LineHolds' BY <3>1, <3>2 DEF PieceTypes, LineHolds
    <3>4. \A adu : IsOut(adu) => IsOut(adu)'
      <4>1. Out' = Out BY <3>1 DEF Out
      <4> QED BY <4>1, OutStays
    <3>5. WholeSafe' BY <3>1, <3>2, <3>4 DEF WholeSafe
    <3> QED BY <3>3, <3>5 DEF PieceInv
  <2>2. CASE StreamNext
    <3>1. ~Noise BY <1>3 DEF Noise
    <3> QED BY <1>3, <2>2, <3>1, PieceArrives, PiecePopped, PieceSent, PieceWaits DEF StreamNext
  <2>3. StreamNext \/ UNCHANGED streamVars BY DEF Next, Take, PutAway, vars
  <2> QED BY <2>1, <2>2, <2>3
<1> QED BY <1>2, <1>3

\* A part of FramesKept, for any sizes and numbers of chunks, silences and frames: on an RTU
\* line a frame that arrives in one piece is handed out as one, or waits to be, whatever came
\* before it (FrameExtractor::feed(), processRtuBuffer(), popFrame()).
THEOREM WholeFramesAreKept == Spec => [](mode = "RTU" => WholeFramesKept)
<1>1. PieceInv => (mode = "RTU" => WholeFramesKept)
  BY DEF PieceInv, WholeSafe, WholeFramesKept, IsOut, Out
<1> QED BY <1>1, PieceStarts, PieceKeeps, PTL DEF Spec

====
