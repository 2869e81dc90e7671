------------------------------ MODULE DataProofs ------------------------------
(***************************************************************************)
(* Theorems about the logs on screen and about the choice of a release,    *)
(* for lists of any length, any number of events, any bound on the rows    *)
(* and any tags.                                                           *)
(*                                                                         *)
(* The lists are made by recursive functions.  That such a function is     *)
(* what its equation says, and what holds of all its values, are proved    *)
(* by induction from the least element a set of numbers has.               *)
(***************************************************************************)
EXTENDS Monitors, ReleaseChoice, SequenceTheorems, FiniteSetTheorems, WellFoundedInduction, TLAPS

-----------------------------------------------------------------------------
(* Induction, and lists made by recursion *)

\* A set of numbers that is not empty has a least one.
LEMMA Least ==
  ASSUME NEW T \in SUBSET Nat, T # {}
  PROVE  \E m \in T : \A k \in T : m <= k
<1> DEFINE Less == {p \in Nat \X Nat : p[1] < p[2]}
<1>1. IsWellFoundedOn(Less, Nat)
  <2>1. OpToRel(<, Nat) = Less BY Zenon DEF OpToRel
  <2> QED BY <2>1, NatLessThanWellFounded
<1>2. PICK m \in T : \A k \in T : ~(<<k, m>> \in Less)
  <2> HIDE DEF Less
  <2> QED BY <1>1, WFMin
<1>3. ASSUME NEW k \in T PROVE m <= k
  <2>1. ~(<<k, m>> \in Less) BY <1>2
  <2> QED BY <2>1
<1> QED BY <1>3

\* Induction up to a bound: what holds of 0 and is handed on holds of all.
LEMMA Induction ==
  ASSUME NEW N \in Nat, NEW T, 0 \in T, \A n \in 0..N - 1 : n \in T => n + 1 \in T
  PROVE  0..N \subseteq T
<1> SUFFICES ASSUME (0..N) \ T # {} PROVE FALSE OBVIOUS
<1>0. (0..N) \ T \in SUBSET Nat OBVIOUS
<1>1. PICK m \in (0..N) \ T : \A k \in (0..N) \ T : m <= k BY <1>0, Least
<1>2. m # 0 /\ m - 1 \in 0..N - 1 BY <1>1
<1>3. m - 1 \in T BY <1>1, <1>2
<1> QED BY <1>1, <1>2, <1>3

\* There is a list of values that starts with base and goes on by step.
Recurses(N, S, base, step) ==
  \E f \in [0..N -> S] : f[0] = base /\ \A n \in 1..N : f[n] = step[<<f[n - 1], n>>]

\* Whatever the step is, there is one; a recursive function of the model is such a list.
LEMMA Recursion ==
  ASSUME NEW N \in Nat, NEW S, NEW base \in S, NEW step \in [S \X (1..N) -> S]
  PROVE  Recurses(N, S, base, step)
<1> DEFINE Is(f, k) == f[0] = base /\ \A n \in 1..k : f[n] = step[<<f[n - 1], n>>]
           T == {k \in 0..N : \E f \in [0..k -> S] : Is(f, k)}
<1>1. 0 \in T
  <2> DEFINE f == [n \in 0..0 |-> base]
  <2>1. f \in [0..0 -> S] /\ Is(f, 0)
    OBVIOUS
  <2> HIDE DEF Is, f
  <2> QED BY <2>1
<1>2. ASSUME NEW k \in 0..N - 1, k \in T PROVE k + 1 \in T
  <2>1. PICK f \in [0..k -> S] : Is(f, k)
    BY <1>2
  <2> DEFINE g == [n \in 0..k + 1 |-> IF n = k + 1 THEN step[<<f[k], k + 1>>] ELSE f[n]]
  <2>2. g \in [0..k + 1 -> S]
    OBVIOUS
  <2>3. ASSUME NEW n \in 1..k + 1
        PROVE g[n] = step[<<g[n - 1], n>>]
    <3>1. CASE n = k + 1
      <4>1. g[n] = step[<<f[k], k + 1>>] /\ g[n - 1] = f[k] BY <3>1
      <4> QED BY <3>1, <4>1
    <3>2. CASE n \in 1..k
      <4>1. g[n] = f[n] /\ g[n - 1] = f[n - 1] BY <3>2
      <4>2. f[n] = step[<<f[n - 1], n>>] BY <2>1, <3>2
      <4> HIDE DEF g
      <4> QED BY <4>1, <4>2
    <3> QED BY <3>1, <3>2
  <2>4. g[0] = base BY <2>1
  <2>5. Is(g, k + 1)
    <3> HIDE DEF g
    <3> QED BY <2>3, <2>4
  <2> HIDE DEF Is, g
  <2> QED BY <2>2, <2>5
<1> HIDE DEF T
<1>3. 0..N \subseteq T BY <1>1, <1>2, Induction
<1> QED BY <1>3 DEF T, Recurses

-----------------------------------------------------------------------------
(* The rows of a log *)

\* The filter goes through its list event by event.
LEMMA PassingSteps ==
  ASSUME NEW m, NEW E, NEW events \in Seq(E)
  PROVE  \E kept \in [0..Len(events) -> Seq(E)] :
           /\ kept[0] = <<>>
           /\ \A n \in 1..Len(events) :
                kept[n] = IF PassesFilters(m, events[n]) THEN Append(kept[n - 1], events[n]) ELSE kept[n - 1]
           /\ Passing(m, events) = kept[Len(events)]
<1> DEFINE N == Len(events)
           step == [x \in Seq(E) \X (1..N) |->
                      IF PassesFilters(m, events[x[2]]) THEN Append(x[1], events[x[2]]) ELSE x[1]]
           kept[n \in 0..N] ==
             IF n = 0 THEN <<>>
             ELSE IF PassesFilters(m, events[n]) THEN Append(kept[n - 1], events[n]) ELSE kept[n - 1]
<1>1. N \in Nat /\ <<>> \in Seq(E) OBVIOUS
<1>2. step \in [Seq(E) \X (1..N) -> Seq(E)] OBVIOUS
<1>3. PICK f \in [0..N -> Seq(E)] : f[0] = <<>> /\ \A n \in 1..N : f[n] = step[<<f[n - 1], n>>]
  <2> DEFINE base == <<>>
             S == Seq(E)
  <2>1. base \in S /\ step \in [S \X (1..N) -> S] /\ N \in Nat BY <1>1, <1>2
  <2> HIDE DEF step, N, kept, base, S
  <2>2. Recurses(N, S, base, step) BY <2>1, Recursion
  <2> QED BY <2>2 DEF Recurses, base, S
<1>4. \A n \in 1..N : f[n] = IF PassesFilters(m, events[n]) THEN Append(f[n - 1], events[n]) ELSE f[n - 1]
  <2> SUFFICES ASSUME NEW n \in 1..N 
               PROVE f[n] = IF PassesFilters(m, events[n]) THEN Append(f[n - 1], events[n]) ELSE f[n - 1]
    OBVIOUS
  <2>1. f[n - 1] \in Seq(E) OBVIOUS
  <2>2. step[<<f[n - 1], n>>] = IF PassesFilters(m, events[n]) THEN Append(f[n - 1], events[n]) ELSE f[n - 1]
    BY <2>1
  <2> QED BY <1>3, <2>2
<1> HIDE DEF step
<1>5. f = [n \in 0..N |-> IF n = 0 THEN <<>>
             ELSE IF PassesFilters(m, events[n]) THEN Append(f[n - 1], events[n]) ELSE f[n - 1]]
  <2>1. ASSUME NEW n \in 0..N, n # 0
        PROVE f[n] = IF PassesFilters(m, events[n]) THEN Append(f[n - 1], events[n]) ELSE f[n - 1]
    <3>1. n \in 1..N BY <1>1, <2>1
    <3> QED BY <1>4, <3>1
  <2> QED BY <1>3, <2>1
<1>6. kept = [n \in 0..N |-> IF n = 0 THEN <<>>
             ELSE IF PassesFilters(m, events[n]) THEN Append(kept[n - 1], events[n]) ELSE kept[n - 1]]
  BY <1>5
<1>7. kept[N] = Passing(m, events) BY DEF Passing
<1> HIDE DEF kept
<1>8. \A n \in 1..N : kept[n] = IF PassesFilters(m, events[n]) THEN Append(kept[n - 1], events[n]) ELSE kept[n - 1]
  <2>1. ASSUME NEW n \in 1..N
        PROVE kept[n] = IF PassesFilters(m, events[n]) THEN Append(kept[n - 1], events[n]) ELSE kept[n - 1]
    <3>1. n \in 0..N /\ n # 0 BY <1>1
    <3> QED BY <1>6, <3>1
  <2> QED BY <2>1
<1>9. kept[0] = <<>>
  BY <1>1, <1>6
<1>10. kept \in [0..N -> Seq(E)]
  <2> DEFINE T == {n \in 0..N : kept[n] = f[n]}
  <2>1. 0 \in T BY <1>3, <1>9
  <2>2. ASSUME NEW n \in 0..N - 1, n \in T PROVE n + 1 \in T
    <3>1. n + 1 \in 1..N /\ n + 1 - 1 = n BY <1>1
    <3> QED BY <2>2, <3>1, <1>8, <1>4
  <2> HIDE DEF T
  <2>3. 0..N \subseteq T BY <1>1, <2>1, <2>2, Induction
  <2>4. \A n \in 0..N : kept[n] = f[n] BY <2>3 DEF T
  <2>5. kept = [n \in 0..N |-> f[n]] BY <2>4, <1>6
  <2> QED BY <2>5
<1> QED BY <1>7, <1>8, <1>9, <1>10

\* Later events have higher ids.
Increasing(s) == \A i, j \in DOMAIN s : i < j => s[i].id < s[j].id
Events == [id : Nat, kind : Kinds]
Rows == Seq(Seq(Nat))

\* A list kept to at most n: the last ones, in their places counted from the end.
KeptOf(n, s, t) ==
  /\ Len(t) = IF Len(s) > n THEN n ELSE Len(s)
  /\ \A i \in 1..Len(t) : t[i] = s[i + (Len(s) - Len(t))]

\* Newest() keeps the end of a list.
LEMMA NewestIs ==
  ASSUME NEW n \in Nat, NEW E, NEW s \in Seq(E)
  PROVE  Newest(n, s) \in Seq(E) /\ KeptOf(n, s, Newest(n, s))
<1> DEFINE l == Len(s)
           k == IF l > n THEN l - n + 1 ELSE 1
           t == SubSeq(s, k, l)
<1>1. l \in Nat /\ \A i \in 1..l : s[i] \in E OBVIOUS
<1>2. Newest(n, s) = t BY DEF Newest
<1>3. k \in Int /\ k >= 1 /\ k <= l + 1 /\ l - k + 1 = IF l > n THEN n ELSE l
  <2> HIDE DEF l
  <2> QED BY <1>1
<1> HIDE DEF k, l
<1>4. \A i \in k..l : s[i] \in E BY <1>1, <1>3
<1>5. t \in Seq(E) /\ Len(t) = (IF k <= l THEN l - k + 1 ELSE 0)
      /\ \A i \in 1..l - k + 1 : t[i] = s[k + i - 1]
  BY <1>1, <1>3, <1>4, SubSeqProperties
<1> HIDE DEF t
<1>6. Len(t) = IF l > n THEN n ELSE l BY <1>1, <1>3, <1>5
<1>7. \A i \in 1..Len(t) : t[i] = s[i + (l - Len(t))]
  <2>1. ASSUME NEW i \in 1..Len(t) PROVE t[i] = s[i + (l - Len(t))]
    <3>1. k + i - 1 = i + (l - Len(t)) /\ i \in 1..l - k + 1 BY <1>1, <1>3, <1>5, <1>6
    <3> QED BY <1>5, <3>1
  <2> QED BY <2>1
<1> QED BY <1>2, <1>5, <1>6, <1>7 DEF l, KeptOf

\* appendEntries() keeps the end of the rows and what was added to them, though it trims twice.
LEMMA AppendedIs ==
  ASSUME NEW n \in Nat, MaxRows = n, NEW E, NEW a \in Seq(E), NEW b \in Seq(E)
  PROVE  AppendEntries(a, b) \in Seq(E) /\ KeptOf(n, a \o b, AppendEntries(a, b))
<1> DEFINE c == Newest(n, b)
           ac == a \o c
           ab == a \o b
           t == Newest(n, ac)
           la == Len(a)
           lb == Len(b)
           lc == Len(c)
           lt == Len(t)
<1>1. /\ c \in Seq(E) /\ lc = IF lb > n THEN n ELSE lb
      /\ \A i \in 1..lc : c[i] = b[i + (lb - lc)]
  BY NewestIs DEF KeptOf
<1>2. AppendEntries(a, b) = t BY DEF AppendEntries
<1> HIDE DEF c
<1>3. /\ ac \in Seq(E) /\ Len(ac) = la + lc
      /\ \A i \in 1..la + lc : (ac)[i] = IF i <= la THEN a[i] ELSE c[i - la]
  <2>1. c \in Seq(E) BY <1>1
  <2> QED BY <2>1, ConcatProperties
<1>4. /\ ab \in Seq(E) /\ Len(ab) = la + lb
      /\ \A i \in 1..la + lb : (ab)[i] = IF i <= la THEN a[i] ELSE b[i - la]
  BY ConcatProperties
<1>5. /\ t \in Seq(E) /\ lt = IF la + lc > n THEN n ELSE la + lc
      /\ \A i \in 1..lt : t[i] = (ac)[i + (la + lc - lt)]
  <2>1. t \in Seq(E) /\ KeptOf(n, ac, t) BY <1>3, NewestIs
  <2>2. la \in Nat /\ lc \in Nat /\ lt \in Nat BY <1>1, <2>1
  <2> HIDE DEF t, ac, la, lc
  <2>3. lt = Len(t) /\ Len(ac) = la + lc BY <1>3
  <2> HIDE DEF lt
  <2> QED BY <2>1, <2>2, <2>3 DEF KeptOf
<1> HIDE DEF ab, ac
<1>6. la \in Nat /\ lb \in Nat /\ lc \in Nat /\ lt \in Nat BY <1>1, <1>5
<1> HIDE DEF t, la, lb, lc, lt
<1>7. lt = IF la + lb > n THEN n ELSE la + lb BY <1>1, <1>5, <1>6
<1>8. ASSUME NEW i \in 1..lt PROVE t[i] = (ab)[i + (la + lb - lt)]
  <2> DEFINE j == i + (la + lc - lt)
             k == i + (la + lb - lt)
  <2>1. j \in 1..la + lc /\ k \in 1..la + lb BY <1>1, <1>5, <1>6, <1>7
  <2>2. t[i] = (ac)[j] BY <1>5
  <2>3. CASE j <= la
    <3>1. j = k \/ lc = 0 BY <1>1, <1>5, <1>6, <1>7, <2>1, <2>3
    <3>2. j = k BY <1>1, <1>5, <1>6, <1>7, <2>1, <2>3
    <3>3. (ac)[j] = a[j] BY <1>3, <2>1, <2>3
    <3>4. (ab)[k] = a[k] BY <1>4, <2>1, <2>3, <3>2
    <3> QED BY <2>2, <3>2, <3>3, <3>4
  <2>4. CASE j > la
    <3>1. j - la \in 1..lc /\ k > la /\ k - la = (j - la) + (lb - lc) BY <1>1, <1>6, <1>7, <2>1, <2>4
    <3>2. (ac)[j] = c[j - la]
      <4>1. ~(j <= la) BY <1>6, <2>1, <2>4
      <4> QED BY <1>3, <2>1, <4>1
    <3>3. (ab)[k] = b[k - la]
      <4>1. ~(k <= la) BY <1>6, <2>1, <3>1
      <4> QED BY <1>4, <2>1, <4>1
    <3>4. c[j - la] = b[k - la] BY <1>1, <3>1
    <3> QED BY <2>2, <3>2, <3>3, <3>4
  <2>5. j <= la \/ j > la BY <1>6, <2>1
  <2> QED BY <2>3, <2>4, <2>5
<1>9. KeptOf(n, ab, t)
  <2>1. Len(ab) = la + lb /\ Len(t) = lt BY <1>4 DEF lt
  <2> QED BY <1>6, <1>7, <1>8, <2>1 DEF KeptOf
<1> QED BY <1>2, <1>5, <1>9 DEF ab

-----------------------------------------------------------------------------
(* A view of the history *)

\* The ids the first d rows stand for.
Old(rows, d) == UNION {ToSet(rows[i]) : i \in 1..d}

\* The ids the rows after the first d stand for, and those of P, which wait.
Fresh(rows, P, d) == P \cup UNION {ToSet(rows[i]) : i \in d + 1..Len(rows)}

\* Among the first d rows, a later row stands for later events only.
Ascending(rows, d) ==
  \A i, j \in 1..d : i < j => \A x \in ToSet(rows[i]), y \in ToSet(rows[j]) : x < y

\* And so it is after the first d rows.
Apart(rows, d) ==
  \A i, j \in d + 1..Len(rows) : i < j => \A x \in ToSet(rows[i]), y \in ToSet(rows[j]) : x < y

\* What waits is later than what those rows stand for.
Before(rows, P, d) == \A i \in d + 1..Len(rows) : \A x \in ToSet(rows[i]), y \in P : x < y

\* The rows are two runs in the order of the log: the first d, which the last rebuild made, and
\* those flushed since, to which P will be added.  In both is only what comes again.
Laid(rows, P, d, again) ==
  /\ d \in 0..Len(rows)
  /\ \A i \in 1..Len(rows) : rows[i] # <<>>
  /\ Ascending(rows, d) /\ Apart(rows, d) /\ Before(rows, P, d)
  /\ Old(rows, d) \cap Fresh(rows, P, d) \subseteq again

\* What is in the first run and as late as something of the second is in the second.
Joined(rows, P, d) ==
  \A x \in Fresh(rows, P, d), y \in Old(rows, d) : y >= x => y \in Fresh(rows, P, d)

\* No id of F is missing from the history once the history reaches back to it, and the
\* filters let it through.
Known(m, F) ==
  \A x \in F, h \in DOMAIN m.history :
    x >= m.history[h].id =>
      \E g \in DOMAIN m.history : m.history[g].id = x /\ PassesFilters(m, m.history[g])

\* What the history has that is as late as an id of F, and passes the filters, is in F.
Above(m, F) ==
  \A x \in F, h \in DOMAIN m.history :
    PassesFilters(m, m.history[h]) /\ m.history[h].id >= x => m.history[h].id \in F

\* All the history has that passes the filters is in F.
Whole(m, F) == \A h \in DOMAIN m.history : PassesFilters(m, m.history[h]) => m.history[h].id \in F

\* The rows, with what waits, show what the history has, up to the last one dropped.
Complete(m, rows, P, d) ==
  /\ Joined(rows, P, d)
  /\ Known(m, Fresh(rows, P, 0)) /\ Above(m, Fresh(rows, P, 0))
  /\ Len(rows) < MaxRows => Whole(m, Fresh(rows, P, 0))

LEMMA FreshIs ==
  ASSUME NEW rows, NEW P, NEW d, NEW x
  PROVE  x \in Fresh(rows, P, d) <=> x \in P \/ \E i \in d + 1..Len(rows) : x \in ToSet(rows[i])
BY Zenon DEF Fresh

LEMMA OldIs ==
  ASSUME NEW rows, NEW d, NEW x
  PROVE  x \in Old(rows, d) <=> \E i \in 1..d : x \in ToSet(rows[i])
BY Zenon DEF Old

\* All the ids are those of the two runs.
LEMMA FreshAndOld ==
  ASSUME NEW rows \in Rows, NEW P, NEW d \in 0..Len(rows)
  PROVE  Fresh(rows, P, 0) = Old(rows, d) \cup Fresh(rows, P, d)
<1> DEFINE n == Len(rows)
<1>1. n \in Nat /\ d \in 0..n BY DEF Rows
<1> HIDE DEF n
<1>2. \A i \in 0 + 1..n : i \in 1..d \/ i \in d + 1..n BY <1>1
<1>3. (\A i \in 1..d : i \in 0 + 1..n) /\ (\A i \in d + 1..n : i \in 0 + 1..n) BY <1>1
<1>4. ASSUME NEW x \in Fresh(rows, P, 0) PROVE x \in Old(rows, d) \cup Fresh(rows, P, d)
  <2>1. CASE x \in P BY <2>1, FreshIs
  <2>2. CASE x \notin P
    <3>1. PICK i \in 0 + 1..n : x \in ToSet(rows[i]) BY <1>4, <2>2, FreshIs DEF n
    <3> QED BY <1>2, <3>1, FreshIs, OldIs DEF n
  <2> QED BY <2>1, <2>2
<1>5. ASSUME NEW x \in Old(rows, d) PROVE x \in Fresh(rows, P, 0)
  <2>1. PICK i \in 1..d : x \in ToSet(rows[i]) BY <1>5, OldIs
  <2> QED BY <1>3, <2>1, FreshIs DEF n
<1>6. ASSUME NEW x \in Fresh(rows, P, d) PROVE x \in Fresh(rows, P, 0)
  <2>1. CASE x \in P BY <2>1, FreshIs
  <2>2. CASE x \notin P
    <3>1. PICK i \in d + 1..n : x \in ToSet(rows[i]) BY <1>6, <2>2, FreshIs DEF n
    <3> QED BY <1>3, <3>1, FreshIs DEF n
  <2> QED BY <2>1, <2>2
<1> QED BY <1>4, <1>5, <1>6

LEMMA RowHasId ==
  ASSUME NEW row \in Seq(Nat), row # <<>>
  PROVE  row[1] \in ToSet(row) /\ row[1] \in Nat
BY DEF ToSet

LEMMA RowIds ==
  ASSUME NEW row \in Seq(Nat)
  PROVE  ToSet(row) \subseteq Nat
BY DEF ToSet

LEMMA FreshNumbers ==
  ASSUME NEW rows \in Rows, NEW P \in SUBSET Nat, NEW d \in Nat
  PROVE  Fresh(rows, P, d) \subseteq Nat
<1> SUFFICES ASSUME NEW x \in Fresh(rows, P, d) PROVE x \in Nat OBVIOUS
<1>1. CASE x \in P BY <1>1
<1>2. CASE x \notin P
  <2>1. PICK i \in d + 1..Len(rows) : x \in ToSet(rows[i]) BY <1>2, FreshIs
  <2>2. rows[i] \in Seq(Nat) BY <2>1 DEF Rows
  <2> QED BY <2>1, <2>2, RowIds
<1> QED BY <1>1, <1>2

\* Rows that stand for the events of P, in the order of their ids.
RowsOf(C, P) ==
  /\ \A i \in DOMAIN C : C[i] # <<>>
  /\ Apart(C, 0)
  /\ UNION {ToSet(C[i]) : i \in DOMAIN C} = P

\* Rows for what waited, put at the end, stand for what waited.
LEMMA FreshFlushed ==
  ASSUME NEW rows \in Rows, NEW C \in Rows, NEW P1, NEW P2, RowsOf(C, P1), NEW d \in 0..Len(rows)
  PROVE  Fresh(rows \o C, P2, d) = Fresh(rows, P1 \cup P2, d)
<1> DEFINE all == rows \o C
           F == Fresh(rows, P1 \cup P2, d)
           n == Len(rows)
           c == Len(C)
<1>1. /\ all \in Rows /\ Len(all) = n + c
      /\ \A i \in 1..n + c : all[i] = IF i <= n THEN rows[i] ELSE C[i - n]
  BY ConcatProperties DEF Rows
<1>2. n \in Nat /\ c \in Nat /\ d \in 0..n /\ DOMAIN C = 1..c BY DEF Rows
<1> HIDE DEF all, F, n, c
<1>3. ASSUME NEW i \in d + 1..n + c
      PROVE  \/ i \in d + 1..n /\ all[i] = rows[i]
             \/ i - n \in DOMAIN C /\ all[i] = C[i - n] /\ i > n
  BY <1>1, <1>2
<1>4. ASSUME NEW x \in F PROVE x \in Fresh(all, P2, d)
  <2>1. CASE x \in P2 BY <2>1 DEF Fresh
  <2>2. CASE x \in P1
    <3>1. PICK j \in DOMAIN C : x \in ToSet(C[j]) BY <2>2 DEF RowsOf
    <3>2. j + n \in d + 1..n + c /\ all[j + n] = C[j] BY <1>1, <1>2
    <3> QED BY <3>1, <3>2, <1>1, FreshIs
  <2>3. CASE x \notin P1 \cup P2
    <3>1. PICK i \in d + 1..n : x \in ToSet(rows[i]) BY <1>4, <2>3, FreshIs DEF F, n
    <3>2. i \in d + 1..n + c /\ all[i] = rows[i] BY <1>1, <1>2
    <3> QED BY <3>1, <3>2, <1>1, FreshIs
  <2> QED BY <2>1, <2>2, <2>3
<1>5. ASSUME NEW x \in Fresh(all, P2, d) PROVE x \in F
  <2>1. CASE x \in P2 BY <2>1 DEF F, Fresh
  <2>2. CASE x \notin P2
    <3>1. PICK i \in d + 1..n + c : x \in ToSet(all[i]) BY <1>5, <2>2, <1>1, FreshIs
    <3>2. CASE i \in d + 1..n /\ all[i] = rows[i]
      BY <3>1, <3>2, FreshIs DEF F, n
    <3>3. CASE i - n \in DOMAIN C /\ all[i] = C[i - n]
      <4>1. x \in P1 BY <3>1, <3>3 DEF RowsOf
      <4> QED BY <4>1 DEF F, Fresh
    <3> QED BY <1>3, <3>2, <3>3
  <2> QED BY <2>1, <2>2
<1> QED BY <1>4, <1>5 DEF all, F

LEMMA OldFlushed ==
  ASSUME NEW rows \in Rows, NEW C \in Rows, NEW d \in 0..Len(rows)
  PROVE  Old(rows \o C, d) = Old(rows, d) /\ \A i \in 1..d : (rows \o C)[i] = rows[i]
<1> DEFINE all == rows \o C
<1>1. \A i \in 1..d : all[i] = rows[i] BY ConcatProperties DEF Rows
<1> HIDE DEF all
<1>2. \A x : x \in Old(all, d) <=> x \in Old(rows, d) BY <1>1, OldIs
<1> QED BY <1>1, <1>2 DEF all

\* Rows for some of what waited, put at the end, lie as the others do.
LEMMA FlushedLaid ==
  ASSUME NEW rows \in Rows, NEW P1, NEW P2, NEW d, NEW again, NEW C \in Rows,
         Laid(rows, P1 \cup P2, d, again), NEW Q \in SUBSET P1, RowsOf(C, Q),
         \A x \in P1, y \in P2 : x < y
  PROVE  Laid(rows \o C, P2, d, again)
<1> DEFINE all == rows \o C
           n == Len(rows)
           c == Len(C)
<1>1. /\ all \in Rows /\ Len(all) = n + c
      /\ \A i \in 1..n + c : all[i] = IF i <= n THEN rows[i] ELSE C[i - n]
  BY ConcatProperties DEF Rows
<1>2. n \in Nat /\ c \in Nat /\ d \in 0..n /\ DOMAIN C = 1..c BY DEF Laid, Rows
<1>3. Fresh(all, P2, d) \subseteq Fresh(rows, P1 \cup P2, d)
  <2>1. Fresh(all, P2, d) = Fresh(rows, Q \cup P2, d) BY <1>2, FreshFlushed
  <2> QED BY <2>1 DEF Fresh
<1>4. Old(all, d) = Old(rows, d) /\ \A i \in 1..d : all[i] = rows[i] BY <1>2, OldFlushed
<1> HIDE DEF all, n, c
<1>5. ASSUME NEW i \in 1..n + c
      PROVE  \/ i \in 1..n /\ all[i] = rows[i]
             \/ i - n \in DOMAIN C /\ all[i] = C[i - n] /\ i > n
  BY <1>1, <1>2
<1>6. \A i \in d + 1..n + c : i \in 1..n + c /\ (i \in 1..n => i \in d + 1..n) BY <1>2
<1>7. ASSUME NEW i \in 1..n + c PROVE all[i] # <<>>
  BY <1>5 DEF Laid, RowsOf, n
<1>8. ASSUME NEW i \in d + 1..n + c, NEW j \in d + 1..n + c, i < j,
             NEW x \in ToSet(all[i]), NEW y \in ToSet(all[j])
      PROVE  x < y
  <2>1. CASE j \in d + 1..n /\ all[j] = rows[j]
    <3>1. i \in d + 1..n /\ all[i] = rows[i] BY <1>1, <1>2, <1>8, <2>1
    <3> QED BY <2>1, <3>1, <1>8 DEF Laid, Apart, n
  <2>2. CASE j - n \in DOMAIN C /\ all[j] = C[j - n]
    <3>1. y \in P1 BY <1>8, <2>2 DEF RowsOf
    <3>2. CASE i \in d + 1..n /\ all[i] = rows[i] BY <3>1, <3>2 DEF Laid, Before, n
    <3>3. CASE i - n \in DOMAIN C /\ all[i] = C[i - n]
      <4>1. i - n < j - n /\ i - n \in 0 + 1..c /\ j - n \in 0 + 1..c BY <1>2, <1>8, <2>2, <3>3
      <4> QED BY <4>1, <2>2, <3>3 DEF RowsOf, Apart, c
    <3> QED BY <1>5, <1>6, <3>2, <3>3
  <2> QED BY <1>5, <1>6, <2>1, <2>2
<1>9. ASSUME NEW i \in d + 1..n + c, NEW x \in ToSet(all[i]), NEW y \in P2
      PROVE  x < y
  <2>1. CASE i \in d + 1..n /\ all[i] = rows[i] BY <2>1 DEF Laid, Before, n
  <2>2. CASE i - n \in DOMAIN C /\ all[i] = C[i - n]
    <3>1. x \in P1 BY <2>2 DEF RowsOf
    <3> QED BY <3>1
  <2> QED BY <1>5, <1>6, <2>1, <2>2
<1>10. Ascending(all, d) BY <1>4 DEF Laid, Ascending
<1>11. d \in 0..n + c BY <1>2
<1>12. Apart(all, d) /\ Before(all, P2, d) BY <1>1, <1>8, <1>9 DEF Apart, Before
<1>13. Old(all, d) \cap Fresh(all, P2, d) \subseteq again BY <1>3, <1>4 DEF Laid
<1> QED BY <1>1, <1>7, <1>10, <1>11, <1>12, <1>13 DEF Laid, all

\* Rows for all that waited leave a complete view complete.
LEMMA FlushedComplete ==
  ASSUME NEW m, NEW rows \in Rows, NEW P1, NEW P2, NEW d \in 0..Len(rows), NEW C \in Rows,
         Complete(m, rows, P1 \cup P2, d), RowsOf(C, P1)
  PROVE  Complete(m, rows \o C, P2, d)
<1> DEFINE all == rows \o C
<1>1. Len(rows) \in Nat /\ Len(C) \in Nat /\ Len(all) = Len(rows) + Len(C) /\ MaxRows \in Nat
  BY MonitorBounds DEF Rows
<1>2. 0 \in 0..Len(rows) BY <1>1
<1>3. /\ Fresh(all, P2, d) = Fresh(rows, P1 \cup P2, d)
      /\ Fresh(all, P2, 0) = Fresh(rows, P1 \cup P2, 0)
  BY <1>2, FreshFlushed
<1>4. Old(all, d) = Old(rows, d) BY OldFlushed
<1> HIDE DEF all
<1>5. Len(all) < MaxRows => Len(rows) < MaxRows BY <1>1
<1> QED BY <1>3, <1>4, <1>5 DEF Complete, Joined, all

\* The oldest rows dropped leave a view of the rest.
LEMMA Trimmed ==
  ASSUME NEW m, NEW all \in Rows, NEW P \in SUBSET Nat, NEW d, NEW again, Laid(all, P, d, again),
         NEW rows \in Rows, KeptOf(MaxRows, all, rows)
  PROVE  \E e \in 0..Len(rows) :
           Laid(rows, P, e, again) /\ (Complete(m, all, P, d) => Complete(m, rows, P, e))
<1> DEFINE n == Len(all)
           l == Len(rows)
           k == n - l
           e == IF d > k THEN d - k ELSE 0
           F == Fresh(all, P, d)
           G == Fresh(rows, P, e)
           A == Old(all, d)
           B == Old(rows, e)
           W == Fresh(all, P, 0)
           V == Fresh(rows, P, 0)
<1>1. n \in Nat /\ l \in Nat /\ MaxRows \in Nat /\ d \in 0..n BY MonitorBounds DEF Laid, Rows
<1>2. l = (IF n > MaxRows THEN MaxRows ELSE n) /\ \A i \in 1..l : rows[i] = all[i + k]
  BY DEF KeptOf
<1> HIDE DEF n, l
<1>3. k \in Nat /\ e \in 0..l /\ l + k = n /\ (e > 0 => e + k = d) /\ (d > k \/ e = 0) BY <1>1, <1>2
<1>4. d > k => e = d - k BY <1>1
<1> HIDE DEF k, e
<1>5. W = A \cup F /\ V = B \cup G
  <2>1. d \in 0..Len(all) /\ e \in 0..Len(rows) BY <1>1, <1>3 DEF n, l
  <2> QED BY <2>1, FreshAndOld
<1>6. W \subseteq Nat BY FreshNumbers
<1> HIDE DEF F, G, A, B, W, V
<1>7. ASSUME NEW i \in e + 1..l PROVE i + k \in d + 1..n /\ rows[i] = all[i + k]
  <2>1. i \in 1..l BY <1>1, <1>3
  <2>2. i + k \in d + 1..n BY <1>1, <1>3, <1>4
  <2> QED BY <1>2, <2>1, <2>2
<1>8. ASSUME NEW i \in 1..e PROVE i + k \in 1..d /\ rows[i] = all[i + k]
  <2>1. i \in 1..l BY <1>1, <1>3
  <2>2. i + k \in 1..d BY <1>1, <1>3
  <2> QED BY <1>2, <2>1, <2>2
<1>9. G \subseteq F
  <2>1. ASSUME NEW x \in G PROVE x \in F
    <3>1. CASE x \in P BY <3>1 DEF F, Fresh
    <3>2. CASE x \notin P
      <4>1. PICK i \in e + 1..l : x \in ToSet(rows[i]) BY <2>1, <3>2, FreshIs DEF G, l
      <4> QED BY <4>1, <1>7, FreshIs DEF F, n
    <3> QED BY <3>1, <3>2
  <2> QED BY <2>1
<1>10. B \subseteq A
  <2>1. ASSUME NEW x \in B PROVE x \in A
    <3>1. PICK i \in 1..e : x \in ToSet(rows[i]) BY <2>1, OldIs DEF B
    <3> QED BY <3>1, <1>8, OldIs DEF A
  <2> QED BY <2>1
<1>11. ASSUME NEW y \in F, y \notin G
      PROVE  e = 0 /\ \E j \in d + 1..n : j <= k /\ y \in ToSet(all[j])
  <2>1. y \notin P BY <1>11 DEF G, Fresh
  <2>2. PICK j \in d + 1..n : y \in ToSet(all[j]) BY <1>11, <2>1, FreshIs DEF F, n
  <2>3. CASE j > k
    <3>1. j - k \in e + 1..l /\ (j - k) + k = j BY <1>1, <1>3, <1>4, <2>3
    <3>2. rows[j - k] = all[j] BY <1>7, <3>1
    <3>3. y \in G BY <2>2, <3>1, <3>2, FreshIs DEF G, l
    <3> QED BY <3>3, <1>11
  <2>4. CASE j <= k
    <3>1. e = 0 BY <1>1, <1>3, <2>4
    <3> QED BY <2>2, <2>4, <3>1
  <2> QED BY <2>3, <2>4, <1>1, <1>3
<1>12. ASSUME NEW y \in A, y \notin V
      PROVE  \E j \in 1..d : j <= k /\ y \in ToSet(all[j])
  <2>1. PICK j \in 1..d : y \in ToSet(all[j]) BY <1>12, OldIs DEF A
  <2>2. CASE j > k
    <3>1. j - k \in 1..e /\ (j - k) + k = j BY <1>1, <1>3, <1>4, <2>2
    <3>2. rows[j - k] = all[j] BY <1>8, <3>1
    <3>3. y \in B BY <2>1, <3>1, <3>2, OldIs DEF B
    <3> QED BY <1>5, <3>3, <1>12
  <2> QED BY <2>1, <2>2, <1>1, <1>3
<1>13. ASSUME NEW i \in 1..l PROVE rows[i] # <<>>
  <2>1. i + k \in 1..n BY <1>1, <1>3
  <2> QED BY <1>2, <2>1 DEF Laid, n
<1>14. Ascending(rows, e)
  <2> SUFFICES ASSUME NEW i \in 1..e, NEW j \in 1..e, i < j,
                      NEW x \in ToSet(rows[i]), NEW y \in ToSet(rows[j])
               PROVE  x < y
    BY DEF Ascending
  <2>1. i + k < j + k BY <1>1, <1>3
  <2> QED BY <2>1, <1>8 DEF Laid, Ascending
<1>15. Apart(rows, e)
  <2> SUFFICES ASSUME NEW i \in e + 1..l, NEW j \in e + 1..l, i < j,
                      NEW x \in ToSet(rows[i]), NEW y \in ToSet(rows[j])
               PROVE  x < y
    BY DEF Apart, l
  <2>1. i + k < j + k BY <1>1, <1>3
  <2> QED BY <2>1, <1>7 DEF Laid, Apart, n
<1>16. Before(rows, P, e)
  BY <1>7 DEF Laid, Before, n, l
<1>17. B \cap G \subseteq again BY <1>9, <1>10 DEF Laid, A, F
<1>18. Laid(rows, P, e, again)
  BY <1>3, <1>13, <1>14, <1>15, <1>16, <1>17 DEF Laid, B, G, l
<1>19. ASSUME Complete(m, all, P, d) PROVE Complete(m, rows, P, e)
  <2>1. Joined(rows, P, e)
    <3> SUFFICES ASSUME NEW x \in G, NEW y \in B, y >= x PROVE y \in G
      BY DEF Joined, G, B
    <3>1. y \in F BY <1>9, <1>10, <1>19 DEF Complete, Joined, F, A
    <3>2. e # 0
      <4>1. PICK i \in 1..e : y \in ToSet(rows[i]) BY OldIs DEF B
      <4> QED BY <1>1, <1>3
    <3> QED BY <1>11, <3>1, <3>2
  <2>2. V \subseteq W BY <1>9, <1>10, <1>5
  <2>3. Known(m, V) BY <1>19, <2>2 DEF Complete, Known, W
  <2>4. Above(m, V)
    <3> SUFFICES ASSUME NEW x \in V, NEW h \in DOMAIN m.history,
                        PassesFilters(m, m.history[h]), m.history[h].id >= x, m.history[h].id \notin V
                 PROVE  FALSE
      BY DEF Above
    <3> DEFINE y == m.history[h].id
    <3>1. y \in W BY <1>19, <2>2 DEF Complete, Above, W
    <3>2. y >= x /\ y \notin V OBVIOUS
    <3> HIDE DEF y
    <3>3. x \in Nat /\ y \in Nat BY <1>6, <2>2, <3>1
    <3>4. CASE y \in F
      <4>1. y \notin G BY <1>5, <3>2
      <4>2. PICK j \in d + 1..n : j <= k /\ y \in ToSet(all[j]) BY <1>11, <3>4, <4>1
      <4>3. x \in G
        <5>1. e = 0 BY <1>11, <3>4, <4>1
        <5>2. B = {} BY <5>1, OldIs DEF B
        <5> QED BY <1>5, <5>2
      <4>4. y < x
        <5>1. CASE x \in P BY <5>1, <4>2 DEF Laid, Before, n
        <5>2. CASE x \notin P
          <6>1. PICK i \in e + 1..l : x \in ToSet(rows[i]) BY <4>3, <5>2, FreshIs DEF G, l
          <6>2. i + k \in d + 1..n /\ x \in ToSet(all[i + k]) BY <1>7, <6>1
          <6>3. j < i + k BY <1>1, <1>3, <4>2
          <6> QED BY <4>2, <6>2, <6>3 DEF Laid, Apart, n
        <5> QED BY <5>1, <5>2
      <4> QED BY <3>2, <3>3, <4>4
    <3>5. CASE y \in A /\ y \notin F
      <4>1. x \notin G BY <1>9, <1>19, <3>2, <3>5 DEF Complete, Joined, F, A
      <4>2. PICK i \in 1..e : x \in ToSet(rows[i]) BY <1>5, <4>1, OldIs DEF B
      <4>3. i + k \in 1..d /\ x \in ToSet(all[i + k]) BY <1>8, <4>2
      <4>4. PICK j \in 1..d : j <= k /\ y \in ToSet(all[j]) BY <1>12, <3>2, <3>5
      <4>5. j < i + k BY <1>1, <1>3, <4>4
      <4>6. y < x BY <4>3, <4>4, <4>5 DEF Laid, Ascending
      <4> QED BY <3>2, <3>3, <4>6
    <3> QED BY <1>5, <3>1, <3>4, <3>5
  <2>5. l < MaxRows => Whole(m, V)
    <3> SUFFICES ASSUME l < MaxRows PROVE Whole(m, V) OBVIOUS
    <3>1. k = 0 /\ n = l BY <1>1, <1>2, <1>3
    <3>2. n < MaxRows BY <3>1
    <3>3. Whole(m, W) BY <1>19, <3>2 DEF Complete, W, n
    <3>4. ASSUME NEW y \in A, y \notin V PROVE FALSE BY <1>1, <1>12, <3>1, <3>4
    <3>5. ASSUME NEW y \in F, y \notin G PROVE FALSE BY <1>1, <1>11, <3>1, <3>5
    <3>6. W \subseteq V BY <1>5, <3>4, <3>5
    <3> QED BY <3>3, <3>6 DEF Whole
  <2> QED BY <2>1, <2>3, <2>4, <2>5 DEF Complete, V, l
<1> QED BY <1>3, <1>18, <1>19 DEF l

\* The history after one more event: the event is the last, and the others keep their order.
LEMMA HistoryIs ==
  ASSUME NEW s \in Seq(Events), NEW event \in Events, NEW t, KeptOf(MaxRows, Append(s, event), t)
  PROVE  LET k == Len(s) + 1 - Len(t) IN
         /\ k \in Nat /\ Len(t) \in 1..Len(s) + 1 /\ Len(t) <= MaxRows
         /\ t[Len(t)] = event
         /\ \A i \in 1..Len(t) - 1 : i + k \in DOMAIN s /\ t[i] = s[i + k]
         /\ \A j \in DOMAIN s : j > k => j - k \in 1..Len(t) - 1
<1> DEFINE u == Append(s, event)
           n == Len(s)
           l == Len(t)
           k == n + 1 - l
<1>1. /\ Len(u) = n + 1 /\ u[n + 1] = event /\ n \in Nat /\ DOMAIN s = 1..n
      /\ \A i \in 1..n : u[i] = s[i]
  OBVIOUS
<1> HIDE DEF u, n
<1>2. MaxRows \in Nat /\ MaxRows > 0 BY MonitorBounds
<1>3. l = (IF n + 1 > MaxRows THEN MaxRows ELSE n + 1) /\ \A i \in 1..l : t[i] = u[i + k]
  <2>1. KeptOf(MaxRows, u, t) BY DEF u
  <2>2. Len(t) = IF n + 1 > MaxRows THEN MaxRows ELSE n + 1 BY <1>1, <1>2, <2>1 DEF KeptOf
  <2>3. \A i \in 1..Len(t) : t[i] = u[i + (Len(u) - Len(t))] BY <2>1 DEF KeptOf
  <2>4. \A i \in 1..Len(t) : t[i] = u[i + (n + 1 - Len(t))]
    <3> HIDE DEF l, k
    <3> QED BY <1>1, <2>3
  <2> QED BY <2>2, <2>4
<1> HIDE DEF l
<1>4. l \in 1..n + 1 /\ k \in Nat /\ l + k = n + 1 /\ l <= MaxRows BY <1>1, <1>2, <1>3
<1> HIDE DEF k
<1>5. t[l] = event BY <1>1, <1>3, <1>4
<1>6. \A i \in 1..l - 1 : i + k \in DOMAIN s /\ t[i] = s[i + k]
  <2>1. ASSUME NEW i \in 1..l - 1 PROVE i + k \in DOMAIN s /\ t[i] = s[i + k]
    <3>1. i + k \in 1..n /\ i \in 1..l BY <1>1, <1>4
    <3> QED BY <1>1, <1>3, <3>1
  <2> QED BY <2>1
<1>7. \A j \in DOMAIN s : j > k => j - k \in 1..l - 1 BY <1>1, <1>4
<1> QED BY <1>4, <1>5, <1>6, <1>7 DEF k, n, l

\* One more event waits, later than all the rest.
LEMMA LoggedLaid ==
  ASSUME NEW rows \in Rows, NEW P \in SUBSET Nat, NEW d, NEW again, Laid(rows, P, d, again),
         NEW id \in Nat, \A x \in Fresh(rows, P, 0) : x < id, NEW Q, Q = P \cup {id} \/ Q = P
  PROVE  Laid(rows, Q, d, again)
<1> DEFINE A == Old(rows, d)
           F == Fresh(rows, P, d)
           G == Fresh(rows, Q, d)
<1>1. d \in 0..Len(rows) BY DEF Laid
<1>2. Fresh(rows, P, 0) = A \cup F BY <1>1, FreshAndOld
<1>3. A \cap F \subseteq again BY DEF Laid
<1>4. G \subseteq F \cup {id} BY DEF F, G, Fresh
<1>5. id \notin A
  <2>1. id \in A => id < id BY <1>2
  <2> QED BY <2>1
<1> HIDE DEF A, F, G
<1>6. A \cap G \subseteq again BY <1>3, <1>4, <1>5
<1>7. Before(rows, Q, d)
  <2> SUFFICES ASSUME NEW i \in d + 1..Len(rows), NEW x \in ToSet(rows[i]), NEW y \in Q
               PROVE  x < y
    BY DEF Before
  <2>1. CASE y \in P BY <2>1 DEF Laid, Before
  <2>2. CASE y = id
    <3>1. x \in F BY FreshIs DEF F
    <3> QED BY <1>2, <2>2, <3>1
  <2> QED BY <2>1, <2>2
<1> QED BY <1>6, <1>7 DEF Laid, A, G

\* One more event in the history, which waits to be shown when the filters let it through.
LEMMA LoggedComplete ==
  ASSUME NEW m, NEW o, NEW rows \in Rows, NEW P \in SUBSET Nat, NEW d \in 0..Len(rows),
         Complete(m, rows, P, d),
         NEW event \in Events, m.history \in Seq(Events), Increasing(m.history),
         o.history \in Seq(Events), KeptOf(MaxRows, Append(m.history, event), o.history),
         o.raw = m.raw, o.level = m.level,
         \A h \in DOMAIN m.history : m.history[h].id < event.id,
         \A x \in Fresh(rows, P, 0) : x < event.id,
         NEW Q, Q = IF PassesFilters(m, event) THEN P \cup {event.id} ELSE P
  PROVE  Complete(o, rows, Q, d)
<1> DEFINE s == m.history
           t == o.history
           l == Len(t)
           k == Len(s) + 1 - l
           F == Fresh(rows, P, 0)
           G == Fresh(rows, Q, 0)
<1>1. s \in Seq(Events) /\ t \in Seq(Events) /\ KeptOf(MaxRows, Append(s, event), t) OBVIOUS
<1>2. Increasing(s) /\ \A h \in DOMAIN s : s[h].id < event.id OBVIOUS
<1> HIDE DEF s, t
<1>3. /\ k \in Nat /\ l \in 1..Len(s) + 1 /\ t[l] = event
      /\ \A i \in 1..l - 1 : i + k \in DOMAIN s /\ t[i] = s[i + k]
      /\ \A j \in DOMAIN s : j > k => j - k \in 1..l - 1
  BY <1>1, HistoryIs
<1>4. /\ Len(s) \in Nat /\ event.id \in Nat /\ DOMAIN s = 1..Len(s) /\ DOMAIN t = 1..l
      /\ \A i \in DOMAIN s : s[i].id \in Nat
  <2>1. \A i \in DOMAIN s : s[i] \in Events BY <1>1
  <2> QED BY <1>1, <1>3, <2>1 DEF Events
<1> HIDE DEF l, k, F, G
<1>5. F \subseteq Nat /\ \A x \in F : x < event.id BY FreshNumbers DEF F
<1>6. F \subseteq G /\ G \subseteq F \cup {event.id} BY DEF F, G, Fresh
<1>7. event.id \in G => PassesFilters(m, event)
  <2> SUFFICES ASSUME event.id \in G, ~PassesFilters(m, event) PROVE FALSE OBVIOUS
  <2>1. G = F BY DEF F, G
  <2> QED BY <1>4, <1>5, <2>1
<1>8. \A e : PassesFilters(o, e) = PassesFilters(m, e) BY Zenon DEF PassesFilters
<1>9. ASSUME NEW h \in 1..l, t[h] # event
      PROVE  h + k \in DOMAIN s /\ t[h] = s[h + k]
  <2>1. h \in 1..l - 1 BY <1>3, <1>9
  <2> QED BY <1>3, <2>1
<1>10. Joined(rows, Q, d)
  <2> SUFFICES ASSUME NEW x \in Fresh(rows, Q, d), NEW y \in Old(rows, d), y >= x
               PROVE  y \in Fresh(rows, Q, d)
    BY DEF Joined
  <2>1. Fresh(rows, P, d) \subseteq Fresh(rows, Q, d)
        /\ Fresh(rows, Q, d) \subseteq Fresh(rows, P, d) \cup {event.id}
    BY DEF Fresh
  <2>2. y \in F BY FreshAndOld DEF F
  <2>3. y < event.id /\ y \in Nat BY <1>5, <2>2
  <2>4. x # event.id BY <1>4, <2>3
  <2>5. x \in Fresh(rows, P, d) BY <2>1, <2>4
  <2> QED BY <2>1, <2>5 DEF Complete, Joined
<1>11. Known(o, G)
  <2> SUFFICES ASSUME NEW x \in G, NEW h \in 1..l, x >= t[h].id
               PROVE  \E g \in 1..l : t[g].id = x /\ PassesFilters(m, t[g])
    BY <1>4, <1>8 DEF Known, t
  <2>1. CASE x = event.id
    <3>1. l \in 1..l BY <1>3, <1>4
    <3> QED BY <2>1, <1>3, <1>7, <3>1
  <2>2. CASE x # event.id
    <3>1. x \in F /\ x \in Nat /\ x < event.id BY <1>5, <1>6, <2>2
    <3>2. t[h] # event BY <1>4, <3>1
    <3>3. h + k \in DOMAIN s /\ t[h] = s[h + k] BY <1>9, <3>2
    <3>4. PICK g \in DOMAIN s : s[g].id = x /\ PassesFilters(m, s[g])
      BY <3>1, <3>3 DEF Complete, Known, F, s
    <3>5. g >= h + k
      <4>1. g < h + k => s[g].id < s[h + k].id BY <1>2, <3>3 DEF Increasing
      <4> QED BY SMTT(20), <1>3, <1>4, <3>1, <3>3, <3>4, <4>1
    <3>6. g - k \in 1..l - 1 /\ (g - k) + k = g BY SMTT(30), <1>3, <1>4, <3>5
    <3>7. t[g - k] = s[g] BY <1>3, <3>6
    <3>8. g - k \in 1..l BY <1>3, <3>6
    <3> QED BY <3>4, <3>7, <3>8
  <2> QED BY <2>1, <2>2
<1>12. PassesFilters(m, event) => event.id \in G BY DEF G, Fresh
<1>13. Above(o, G)
  <2> SUFFICES ASSUME NEW x \in G, NEW h \in 1..l, PassesFilters(m, t[h]), t[h].id >= x
               PROVE  t[h].id \in G
    BY <1>4, <1>8 DEF Above, t
  <2>1. CASE t[h] = event BY <2>1, <1>12
  <2>2. CASE t[h] # event
    <3>1. h + k \in DOMAIN s /\ t[h] = s[h + k] BY <1>9, <2>2
    <3>2. t[h].id < event.id /\ t[h].id \in Nat BY <1>2, <1>4, <3>1
    <3>3. x \in F BY <1>4, <1>5, <1>6, <3>2
    <3>4. t[h].id \in F BY <3>1, <3>3 DEF Complete, Above, F, s
    <3> QED BY <1>6, <3>4
  <2> QED BY <2>1, <2>2
<1>14. Len(rows) < MaxRows => Whole(o, G)
  <2> SUFFICES ASSUME Len(rows) < MaxRows, NEW h \in 1..l, PassesFilters(m, t[h])
               PROVE  t[h].id \in G
    BY <1>4, <1>8 DEF Whole, t
  <2>1. CASE t[h] = event BY <2>1, <1>12
  <2>2. CASE t[h] # event
    <3>1. h + k \in DOMAIN s /\ t[h] = s[h + k] BY <1>9, <2>2
    <3>2. t[h].id \in F BY <3>1 DEF Complete, Whole, F, s
    <3> QED BY <1>6, <3>2
  <2> QED BY <2>1, <2>2
<1> QED BY <1>10, <1>11, <1>13, <1>14 DEF Complete, G

-----------------------------------------------------------------------------
(* What the view gives once nothing waits *)

\* The ids of what any rows show.
ShownIn(rows) == UNION {ToSet(rows[i]) : i \in DOMAIN rows}

\* Each of the rows a..b is of a later event than the one before it, and of one of T.
InTurn(rows, a, b, s, T) ==
  /\ \A i \in a..b : rows[i][1] \in Nat
  /\ \A i, j \in a..b : i < j => rows[i][1] < rows[j][1]
  /\ \A i \in a..b : \E g \in T : s[g].id = rows[i][1]

\* Such rows are no more than the events of T.
LEMMA RowsCounted ==
  ASSUME NEW rows, NEW a \in Nat, NEW b \in Nat, a <= b + 1,
         NEW s, NEW T, IsFiniteSet(T), InTurn(rows, a, b, s, T)
  PROVE  b - a + 1 <= Cardinality(T)
<1> DEFINE f == [i \in a..b |-> CHOOSE g \in T : s[g].id = rows[i][1]]
<1>1. ASSUME NEW i \in a..b PROVE f[i] \in T /\ s[f[i]].id = rows[i][1]
  <2>1. \E g \in T : s[g].id = rows[i][1] BY DEF InTurn
  <2>2. f[i] = CHOOSE g \in T : s[g].id = rows[i][1] OBVIOUS
  <2> HIDE DEF f
  <2> QED BY <2>1, <2>2
<1>2. f \in [a..b -> T]
  <2>1. f = [i \in a..b |-> f[i]] OBVIOUS
  <2> HIDE DEF f
  <2> QED BY <1>1, <2>1
<1> HIDE DEF f
<1>3. ASSUME NEW i \in a..b, NEW j \in a..b, f[i] = f[j] PROVE i = j
  <2>1. rows[i][1] = rows[j][1] BY <1>1, <1>3
  <2>2. ~(i < j) /\ ~(j < i) BY <2>1 DEF InTurn
  <2> QED BY <2>2
<1>4. f \in Injection(a..b, T) BY <1>2, <1>3 DEF Injection, IsInjective
<1>5. IsFiniteSet(a..b) /\ Cardinality(a..b) = b - a + 1
  <2>1. a \in Int /\ b \in Int OBVIOUS
  <2>2. Cardinality(a..b) = IF a > b THEN 0 ELSE b - a + 1 BY <2>1, FS_Interval
  <2>3. IsFiniteSet(a..b) BY <2>1, FS_Interval
  <2>4. a > b => b - a + 1 = 0 OBVIOUS
  <2> QED BY <2>2, <2>3, <2>4
<1>6. Cardinality(a..b) <= Cardinality(T) BY <1>4, FS_Injection
<1> QED BY <1>5, <1>6

\* Such a view misses no event that passes the filters, unless as many rows as there may be
\* stand for later ones, or for what is in both runs.
LEMMA RestShown ==
  ASSUME NEW m, NEW rows \in Rows, NEW d, NEW again, IsFiniteSet(again),
         Laid(rows, {}, d, again), Complete(m, rows, {}, d), Len(rows) <= MaxRows,
         m.history \in Seq(Events), Increasing(m.history),
         NEW h \in DOMAIN m.history, PassesFilters(m, m.history[h]),
         m.history[h].id \notin ShownIn(rows),
         NEW T, T = {g \in DOMAIN m.history : g > h /\ PassesFilters(m, m.history[g])}
  PROVE  Cardinality(T) + Cardinality(again) >= MaxRows
<1> DEFINE s == m.history
           W == Fresh(rows, {}, 0)
           F == Fresh(rows, {}, d)
           A == Old(rows, d)
           n == Len(rows)
<1>1. s \in Seq(Events) /\ Increasing(s) /\ h \in DOMAIN s /\ PassesFilters(m, s[h]) OBVIOUS
<1> HIDE DEF s
<1>2. n \in Nat /\ DOMAIN rows = 1..n /\ d \in 0..n /\ MaxRows \in Nat /\ n <= MaxRows
  BY MonitorBounds DEF Laid, Rows
<1>3. DOMAIN s = 1..Len(s) /\ Len(s) \in Nat /\ \A i \in DOMAIN s : s[i].id \in Nat
  <2>1. \A i \in DOMAIN s : s[i] \in Events BY <1>1
  <2> QED BY <1>1, <2>1 DEF Events
<1>4. W = A \cup F BY <1>2, FreshAndOld
<1>5. W \subseteq Nat BY FreshNumbers
<1> HIDE DEF n, W, F, A
<1>6. s[h].id \notin W
  <2> SUFFICES ASSUME s[h].id \in W PROVE FALSE OBVIOUS
  <2>1. PICK i \in 0 + 1..n : s[h].id \in ToSet(rows[i]) BY FreshIs DEF W, n
  <2>2. i \in DOMAIN rows BY <1>2, <2>1
  <2> QED BY <2>1, <2>2 DEF ShownIn, s
<1>7. n = MaxRows
  <2>1. n < MaxRows => Whole(m, W) BY DEF Complete, W, n
  <2>2. Whole(m, W) => s[h].id \in W BY <1>1 DEF Whole, s
  <2> QED BY <1>2, <1>6, <2>1, <2>2
<1>8. T = {g \in DOMAIN s : g > h /\ PassesFilters(m, s[g])} BY DEF s
<1> DEFINE TA == {g \in T : s[g].id \in A}
           TF == {g \in T : s[g].id \in F}
<1>9. ASSUME NEW x \in W PROVE x \in Nat /\ \E g \in T : s[g].id = x
  <2>1. x \in Nat BY <1>5, <1>9
  <2>2. ~(s[h].id >= x) BY <1>1, <1>6, <1>9 DEF Complete, Above, W, s
  <2>3. x >= s[h].id BY <1>1, <1>3, <2>1, <2>2
  <2>4. PICK g \in DOMAIN s : s[g].id = x /\ PassesFilters(m, s[g])
    BY <1>1, <1>9, <2>3 DEF Complete, Known, W, s
  <2>5. g < h => s[g].id < s[h].id BY <1>1 DEF Increasing
  <2>6. g > h BY <1>1, <1>3, <2>1, <2>2, <2>4, <2>5
  <2> QED BY <1>8, <2>1, <2>4, <2>6
<1>10. ASSUME NEW i \in 1..n
       PROVE  rows[i][1] \in ToSet(rows[i]) /\ rows[i][1] \in Nat
  <2>1. rows[i] # <<>> /\ rows[i] \in Seq(Nat) BY <1>2 DEF Laid, Rows, n
  <2> QED BY <2>1, RowHasId
<1>11. IsFiniteSet(T)
  <2>1. 1 \in Int /\ Len(s) \in Int BY <1>3
  <2>2. IsFiniteSet(1..Len(s)) BY <2>1, FS_Interval
  <2>3. T \in SUBSET (1..Len(s)) BY <1>3, <1>8
  <2> QED BY <2>2, <2>3, FS_Subset
<1>12. IsFiniteSet(TA) /\ IsFiniteSet(TF) BY <1>11, FS_Subset
<1>13. d <= Cardinality(TA)
  <2>1. \A i \in 1..d : i \in 1..n BY <1>2
  <2>2. \A i \in 1..d : rows[i][1] \in A BY <1>10, <2>1, OldIs DEF A
  <2>3. \A i \in 1..d : \E g \in TA : s[g].id = rows[i][1] BY <1>4, <1>9, <2>2
  <2>4. \A i, j \in 1..d : i < j => rows[i][1] < rows[j][1] BY <1>10, <2>1 DEF Laid, Ascending
  <2>5. \A i \in 1..d : rows[i][1] \in Nat BY <1>10, <2>1
  <2>6. d \in Nat /\ 1 \in Nat /\ 1 <= d + 1 BY <1>2
  <2> DEFINE a == 1
  <2>7. /\ a \in Nat /\ a <= d + 1 /\ d - a + 1 = d
        /\ InTurn(rows, a, d, s, TA)
    BY <2>3, <2>4, <2>5, <2>6 DEF InTurn
  <2>8. IsFiniteSet(TA) BY <1>12
  <2> HIDE DEF TA, a
  <2>9. d - a + 1 <= Cardinality(TA) BY <2>6, <2>7, <2>8, RowsCounted
  <2> QED BY <2>7, <2>9
<1>14. n - d <= Cardinality(TF)
  <2>1. \A i \in d + 1..n : i \in 1..n BY <1>2
  <2>2. \A i \in d + 1..n : rows[i][1] \in F BY <1>10, <2>1, FreshIs DEF F, n
  <2>3. \A i \in d + 1..n : \E g \in TF : s[g].id = rows[i][1] BY <1>4, <1>9, <2>2
  <2>4. \A i, j \in d + 1..n : i < j => rows[i][1] < rows[j][1] BY <1>10, <2>1 DEF Laid, Apart, n
  <2>5. \A i \in d + 1..n : rows[i][1] \in Nat BY <1>10, <2>1
  <2>6. d + 1 \in Nat /\ n \in Nat /\ d + 1 <= n + 1 BY <1>2
  <2> DEFINE a == d + 1
  <2>7. a \in Nat /\ a <= n + 1 /\ n - a + 1 = n - d /\ InTurn(rows, a, n, s, TF)
    BY <1>2, <2>3, <2>4, <2>5, <2>6 DEF InTurn
  <2>8. IsFiniteSet(TF) BY <1>12
  <2> HIDE DEF TF, a
  <2>9. n - a + 1 <= Cardinality(TF) BY <2>6, <2>7, <2>8, RowsCounted
  <2> QED BY <2>7, <2>9
<1>15. Cardinality(TA \cap TF) <= Cardinality(again)
  <2> DEFINE U == TA \cap TF
             f == [g \in U |-> s[g].id]
  <2>1. A \cap F \subseteq again BY DEF Laid, A, F
  <2>2. f \in [U -> again] BY <2>1
  <2>3. ASSUME NEW g \in U, NEW k \in U, f[g] = f[k] PROVE g = k
    <3>1. g \in DOMAIN s /\ k \in DOMAIN s /\ s[g].id = s[k].id BY <1>8, <2>3
    <3>2. ~(g < k) /\ ~(k < g)
      <4>1. g < k => s[g].id < s[k].id BY <1>1, <3>1 DEF Increasing
      <4>2. k < g => s[k].id < s[g].id BY <1>1, <3>1 DEF Increasing
      <4> QED BY <1>3, <3>1, <4>1, <4>2
    <3> QED BY <1>3, <3>1, <3>2
  <2> HIDE DEF f, U
  <2>4. f \in Injection(U, again) BY <2>2, <2>3 DEF Injection, IsInjective
  <2>5. Cardinality(U) <= Cardinality(again) BY <2>4, FS_Injection
  <2> QED BY <2>5 DEF U
<1>16. Cardinality(TA \cup TF) <= Cardinality(T)
  <2>1. TA \cup TF \in SUBSET T OBVIOUS
  <2> QED BY <1>11, <2>1, FS_Subset
<1>17. Cardinality(TA \cup TF) = Cardinality(TA) + Cardinality(TF) - Cardinality(TA \cap TF)
  <2> HIDE DEF TA, TF
  <2> QED BY <1>12, FS_Union
<1>18. /\ Cardinality(TA) \in Nat /\ Cardinality(TF) \in Nat /\ Cardinality(TA \cap TF) \in Nat
       /\ Cardinality(TA \cup TF) \in Nat /\ Cardinality(T) \in Nat /\ Cardinality(again) \in Nat
  <2>1. IsFiniteSet(TA \cup TF) BY <1>11, FS_Subset
  <2>2. IsFiniteSet(TA \cap TF) BY <1>11, FS_Subset
  <2> QED BY <1>11, <1>12, <2>1, <2>2, FS_CardinalityType
<1> DEFINE ca == Cardinality(TA)
           cf == Cardinality(TF)
           ci == Cardinality(TA \cap TF)
           cu == Cardinality(TA \cup TF)
           ct == Cardinality(T)
           cg == Cardinality(again)
<1>19. /\ d <= ca /\ n - d <= cf /\ ci <= cg /\ cu <= ct /\ cu = ca + cf - ci
       /\ ca \in Nat /\ cf \in Nat /\ ci \in Nat /\ cu \in Nat /\ ct \in Nat /\ cg \in Nat
  BY <1>13, <1>14, <1>15, <1>16, <1>17, <1>18
<1> HIDE DEF ca, cf, ci, cu, ct, cg
<1>20. ct + cg >= MaxRows BY <1>2, <1>7, <1>19
<1> QED BY <1>20 DEF ct, cg

-----------------------------------------------------------------------------
(* Filtering and collapsing *)

IdsOf(list) == {list[k].id : k \in DOMAIN list}

\* The filter keeps what passes, all of it, in its order.
LEMMA PassingIs ==
  ASSUME NEW m, NEW events \in Seq(Events)
  PROVE  LET P == Passing(m, events) IN
         /\ P \in Seq(Events) /\ Len(P) <= Len(events)
         /\ \A k \in DOMAIN P : PassesFilters(m, P[k]) /\ \E i \in DOMAIN events : events[i] = P[k]
         /\ \A i \in DOMAIN events : PassesFilters(m, events[i]) => \E k \in DOMAIN P : P[k] = events[i]
         /\ Increasing(events) => Increasing(P)
<1> DEFINE N == Len(events)
           OK(p, n) ==
             /\ Len(p) <= n
             /\ \A k \in DOMAIN p : PassesFilters(m, p[k]) /\ \E i \in 1..n : events[i] = p[k]
             /\ \A i \in 1..n : PassesFilters(m, events[i]) => \E k \in DOMAIN p : p[k] = events[i]
             /\ Increasing(events) => Increasing(p)
<1>1. PICK kept \in [0..N -> Seq(Events)] :
        /\ kept[0] = <<>>
        /\ \A n \in 1..N :
             kept[n] = IF PassesFilters(m, events[n]) THEN Append(kept[n - 1], events[n]) ELSE kept[n - 1]
        /\ Passing(m, events) = kept[N]
  BY PassingSteps
<1>2. N \in Nat /\ DOMAIN events = 1..N /\ \A i \in 1..N : events[i] \in Events OBVIOUS
<1> DEFINE T == {n \in 0..N : OK(kept[n], n)}
<1>3. 0 \in T BY <1>1, <1>2 DEF Increasing
<1>4. ASSUME NEW n \in 0..N - 1, n \in T PROVE n + 1 \in T
  <2> DEFINE p == kept[n]
             q == kept[n + 1]
             e == events[n + 1]
  <2>1. OK(p, n) BY <1>4
  <2>2. n + 1 \in 1..N /\ n + 1 \in 0..N /\ n \in 0..N /\ n + 1 - 1 = n BY <1>2
  <2>3. p \in Seq(Events) /\ q \in Seq(Events) /\ e \in Events BY <1>2, <2>2
  <2>4. q = IF PassesFilters(m, e) THEN Append(p, e) ELSE p
    <3>1. kept[n + 1] = IF PassesFilters(m, events[n + 1]) THEN Append(kept[n + 1 - 1], events[n + 1])
                        ELSE kept[n + 1 - 1]
      BY <1>1, <2>2
    <3> QED BY <2>2, <3>1
  <2> HIDE DEF p, q, e
  <2>5. CASE ~PassesFilters(m, e)
    <3>1. q = p BY <2>4, <2>5
    <3>2. Len(q) <= n + 1 BY <2>1, <2>3, <3>1
    <3>3. \A k \in DOMAIN q : PassesFilters(m, q[k]) /\ \E i \in 1..n + 1 : events[i] = q[k]
      BY <2>1, <3>1
    <3>4. \A i \in 1..n + 1 : PassesFilters(m, events[i]) => \E k \in DOMAIN q : q[k] = events[i]
      <4>1. \A i \in 1..n + 1 : i \in 1..n \/ i = n + 1 OBVIOUS
      <4> QED BY <2>1, <2>5, <3>1, <4>1 DEF e
    <3>5. OK(q, n + 1) BY <2>1, <3>1, <3>2, <3>3, <3>4
    <3> QED BY <2>2, <3>5 DEF q
  <2>6. CASE PassesFilters(m, e)
    <3>1. /\ q = Append(p, e) /\ Len(q) = Len(p) + 1 /\ DOMAIN q = 1..Len(p) + 1 /\ DOMAIN p = 1..Len(p)
          /\ Len(p) \in Nat /\ q[Len(p) + 1] = e /\ \A k \in 1..Len(p) : q[k] = p[k]
      BY <2>3, <2>4, <2>6
    <3>2. Len(q) <= n + 1 BY <2>1, <3>1
    <3>3. \A k \in DOMAIN q : k \in 1..Len(p) \/ k = Len(p) + 1 BY <3>1
    <3>4. \A k \in DOMAIN q : PassesFilters(m, q[k]) /\ \E i \in 1..n + 1 : events[i] = q[k]
      <4>1. ASSUME NEW k \in 1..Len(p) PROVE PassesFilters(m, q[k]) /\ \E i \in 1..n + 1 : events[i] = q[k]
        BY <2>1, <3>1
      <4>2. n + 1 \in 1..n + 1 /\ events[n + 1] = e BY DEF e
      <4> QED BY <2>6, <3>1, <3>3, <4>1, <4>2
    <3>5. \A i \in 1..n + 1 : PassesFilters(m, events[i]) => \E k \in DOMAIN q : q[k] = events[i]
      <4>1. \A i \in 1..n + 1 : i \in 1..n \/ i = n + 1 OBVIOUS
      <4>2. ASSUME NEW i \in 1..n, PassesFilters(m, events[i]) PROVE \E k \in DOMAIN q : q[k] = events[i]
        <5>1. PICK k \in DOMAIN p : p[k] = events[i] BY <2>1, <4>2
        <5>2. k \in DOMAIN q /\ q[k] = events[i] BY <3>1, <5>1
        <5> QED BY <5>2
      <4>3. \E k \in DOMAIN q : q[k] = events[n + 1]
        <5>1. Len(p) + 1 \in DOMAIN q BY <3>1
        <5> QED BY <3>1, <5>1 DEF e
      <4> QED BY <4>1, <4>2, <4>3
    <3>6. Increasing(events) => Increasing(q)
      <4> SUFFICES ASSUME Increasing(events), NEW i \in DOMAIN q, NEW j \in DOMAIN q, i < j
                   PROVE  q[i].id < q[j].id
        BY DEF Increasing
      <4>1. i \in 1..Len(p) BY <3>1
      <4>2. CASE j \in 1..Len(p) BY <2>1, <3>1, <4>1, <4>2 DEF Increasing
      <4>3. CASE j = Len(p) + 1
        <5>1. PICK a \in 1..n : events[a] = p[i] BY <2>1, <3>1, <4>1
        <5>2. a \in 1..N /\ n + 1 \in 1..N /\ a < n + 1 BY <1>2, <2>2
        <5>3. events[a].id < events[n + 1].id BY <1>2, <5>2 DEF Increasing
        <5> QED BY <3>1, <4>1, <4>3, <5>1, <5>3 DEF e
      <4> QED BY <3>3, <4>2, <4>3
    <3>7. OK(q, n + 1) BY <3>2, <3>4, <3>5, <3>6
    <3> QED BY <2>2, <3>7 DEF q
  <2> QED BY <2>5, <2>6
<1>5. N \in T
  <2> HIDE DEF T
  <2>1. 0..N \subseteq T BY <1>2, <1>3, <1>4, Induction
  <2> QED BY <1>2, <2>1
<1>6. OK(kept[N], N) BY <1>5
<1>7. kept[N] \in Seq(Events) BY <1>2
<1> DEFINE P == kept[N]
<1>8. P = Passing(m, events) /\ OK(P, N) /\ P \in Seq(Events) BY <1>1, <1>6, <1>7
<1> HIDE DEF P
<1> QED BY <1>2, <1>8

\* The rows of a flush grow event by event.
LEMMA CollapseSteps ==
  ASSUME NEW m, NEW events \in Seq(Events)
  PROVE  LET list == Passing(m, events) IN
         \E r \in [0..Len(list) -> Rows] :
           /\ r[0] = <<>>
           /\ \A n \in 1..Len(list) :
                r[n] = IF n > 1 /\ list[n].kind = "error" /\ list[n - 1].kind = "error"
                       THEN [r[n - 1] EXCEPT ![Len(r[n - 1])] = Append(@, list[n].id)]
                       ELSE Append(r[n - 1], <<list[n].id>>)
           /\ Collapse(m, events) = r[Len(list)]
<1> DEFINE list == Passing(m, events)
           N == Len(list)
           Next1(x, n) == IF n > 1 /\ list[n].kind = "error" /\ list[n - 1].kind = "error"
                          THEN [x EXCEPT ![Len(x)] = Append(@, list[n].id)]
                          ELSE Append(x, <<list[n].id>>)
           step == [x \in Rows \X (1..N) |-> Next1(x[1], x[2])]
           rows[n \in 0..N] ==
             IF n = 0 THEN <<>>
             ELSE IF n > 1 /\ list[n].kind = "error" /\ list[n - 1].kind = "error"
             THEN [rows[n - 1] EXCEPT ![Len(rows[n - 1])] = Append(@, list[n].id)]
             ELSE Append(rows[n - 1], <<list[n].id>>)
<1>1. list \in Seq(Events) BY PassingIs
<1>7. rows[N] = Collapse(m, events) BY DEF Collapse
<1>6. (\E f : f = [n \in 0..N |-> IF n = 0 THEN <<>> ELSE Next1(f[n - 1], n)])
      => rows = [n \in 0..N |-> IF n = 0 THEN <<>> ELSE Next1(rows[n - 1], n)]
  OBVIOUS
<1> HIDE DEF list, rows
<1>2. N \in Nat /\ \A n \in 1..N : list[n].id \in Nat
  <2>1. \A n \in 1..N : list[n] \in Events BY <1>1
  <2> QED BY <1>1, <2>1 DEF Events
<1> HIDE DEF N
<1>3. ASSUME NEW x \in Rows, NEW n \in 1..N PROVE Next1(x, n) \in Rows
  <2>1. <<list[n].id>> \in Seq(Nat) BY <1>2
  <2>2. Append(x, <<list[n].id>>) \in Rows BY <2>1 DEF Rows
  <2>3. [x EXCEPT ![Len(x)] = Append(@, list[n].id)] \in Rows
    <3>1. CASE Len(x) > 0
      <4>1. Len(x) \in 1..Len(x) /\ x[Len(x)] \in Seq(Nat) BY <3>1 DEF Rows
      <4>2. Append(x[Len(x)], list[n].id) \in Seq(Nat) BY <1>2, <4>1
      <4> QED BY <4>1, <4>2, ExceptSeq DEF Rows
    <3>2. CASE Len(x) = 0
      <4>1. DOMAIN x = {} BY <3>2 DEF Rows
      <4>2. x = [i \in {} |-> x[i]] BY <4>1 DEF Rows
      <4>3. [x EXCEPT ![Len(x)] = Append(@, list[n].id)] = x BY <4>1, <4>2
      <4> QED BY <4>3
    <3> QED BY <3>1, <3>2 DEF Rows
  <2> QED BY <2>2, <2>3
<1> HIDE DEF Next1
<1>4. step \in [Rows \X (1..N) -> Rows] BY <1>3
<1>5. PICK f \in [0..N -> Rows] : f[0] = <<>> /\ \A n \in 1..N : f[n] = step[<<f[n - 1], n>>]
  <2> DEFINE base == <<>>
  <2>1. base \in Rows BY DEF Rows
  <2> HIDE DEF step, base
  <2>2. Recurses(N, Rows, base, step) BY <1>2, <1>4, <2>1, Recursion
  <2> QED BY <2>2 DEF Recurses, base
<1>8. \A n \in 1..N : f[n - 1] \in Rows /\ f[n] = Next1(f[n - 1], n)
  <2> SUFFICES ASSUME NEW n \in 1..N PROVE f[n - 1] \in Rows /\ f[n] = Next1(f[n - 1], n)
    OBVIOUS
  <2>1. f[n - 1] \in Rows BY <1>2
  <2>2. step[<<f[n - 1], n>>] = Next1(f[n - 1], n) BY <2>1
  <2> QED BY <1>5, <2>1, <2>2
<1> HIDE DEF step
<1>9. f = [n \in 0..N |-> IF n = 0 THEN <<>> ELSE Next1(f[n - 1], n)]
  <2>1. ASSUME NEW n \in 0..N, n # 0 PROVE f[n] = Next1(f[n - 1], n)
    <3>1. n \in 1..N BY <1>2, <2>1
    <3> QED BY <1>8, <3>1
  <2> QED BY <1>5, <2>1
<1>10. rows = [n \in 0..N |-> IF n = 0 THEN <<>> ELSE Next1(rows[n - 1], n)]
  BY <1>6, <1>9
<1>11. rows[0] = <<>> /\ \A n \in 1..N : rows[n] = Next1(rows[n - 1], n)
  <2>1. rows[0] = <<>> BY <1>2, <1>10
  <2>2. ASSUME NEW n \in 1..N PROVE rows[n] = Next1(rows[n - 1], n)
    <3>1. n \in 0..N /\ n # 0 BY <1>2
    <3> QED BY <1>10, <3>1
  <2> QED BY <2>1, <2>2
<1>12. rows \in [0..N -> Rows]
  <2> DEFINE T == {n \in 0..N : rows[n] = f[n]}
  <2>1. 0 \in T BY <1>2, <1>5, <1>11
  <2>2. ASSUME NEW n \in 0..N - 1, n \in T PROVE n + 1 \in T
    <3>1. n + 1 \in 1..N /\ n + 1 - 1 = n /\ n + 1 \in 0..N BY <1>2
    <3>2. rows[n + 1] = Next1(rows[n], n + 1) /\ f[n + 1] = Next1(f[n], n + 1) BY <1>8, <1>11, <3>1
    <3> QED BY <2>2, <3>1, <3>2
  <2> HIDE DEF T
  <2>3. 0..N \subseteq T BY <1>2, <2>1, <2>2, Induction
  <2>4. \A n \in 0..N : rows[n] = f[n] BY <2>3 DEF T
  <2>5. rows = [n \in 0..N |-> f[n]] BY <2>4, <1>10
  <2> QED BY <2>5
<1> QED BY <1>7, <1>11, <1>12 DEF Next1, N, list

LEMMA RowsOfIs ==
  ASSUME NEW r \in Rows, NEW P,
         \A i \in DOMAIN r : r[i] # <<>>, Apart(r, 0),
         \A i \in DOMAIN r : \A x \in ToSet(r[i]) : x \in P,
         \A x \in P : \E i \in DOMAIN r : x \in ToSet(r[i])
  PROVE  RowsOf(r, P)
<1>1. UNION {ToSet(r[i]) : i \in DOMAIN r} = P OBVIOUS
<1> QED BY <1>1 DEF RowsOf

\* A row for one more event.
LEMMA NewRow ==
  ASSUME NEW r \in Rows, NEW P, RowsOf(r, P), NEW id \in Nat, \A x \in P : x < id
  PROVE  Append(r, <<id>>) \in Rows /\ RowsOf(Append(r, <<id>>), P \cup {id})
<1> DEFINE q == Append(r, <<id>>)
           n == Len(r)
           row == <<id>>
<1>1. row \in Seq(Nat) /\ row # <<>> /\ ToSet(row) = {id} BY DEF ToSet
<1> HIDE DEF row
<1>2. q = Append(r, row) /\ q \in Rows BY <1>1 DEF Rows, row
<1>3. /\ n \in Nat /\ DOMAIN r = 1..n /\ DOMAIN q = 1..n + 1 /\ Len(q) = n + 1
      /\ q[n + 1] = row /\ \A i \in 1..n : q[i] = r[i]
  BY <1>2 DEF Rows
<1> HIDE DEF q, n
<1>4. \A i \in DOMAIN r : \A x \in ToSet(r[i]) : x \in P BY DEF RowsOf
<1>5. \A x \in P : \E i \in DOMAIN r : x \in ToSet(r[i]) BY DEF RowsOf
<1>6. \A i \in DOMAIN q : i \in 1..n \/ i = n + 1 BY <1>3
<1>7. \A i \in DOMAIN q : q[i] # <<>> BY <1>1, <1>3, <1>6 DEF RowsOf
<1>8. Apart(q, 0)
  <2> SUFFICES ASSUME NEW i \in DOMAIN q, NEW j \in DOMAIN q, i < j,
                      NEW x \in ToSet(q[i]), NEW y \in ToSet(q[j])
               PROVE  x < y
    BY <1>3 DEF Apart
  <2>1. i \in 1..n /\ q[i] = r[i] /\ x \in P BY <1>3, <1>4
  <2>2. CASE j \in 1..n
    <3>1. q[j] = r[j] /\ i \in 0 + 1..Len(r) /\ j \in 0 + 1..Len(r) BY <1>3, <2>1, <2>2 DEF n
    <3> QED BY <2>1, <3>1 DEF RowsOf, Apart
  <2>3. CASE j = n + 1 BY <1>1, <1>3, <2>1, <2>3
  <2> QED BY <1>6, <2>2, <2>3
<1>9. \A i \in DOMAIN q : \A x \in ToSet(q[i]) : x \in P \cup {id} BY <1>1, <1>3, <1>4, <1>6
<1>10. \A x \in P \cup {id} : \E i \in DOMAIN q : x \in ToSet(q[i])
  <2>1. ASSUME NEW x \in P PROVE \E i \in DOMAIN q : x \in ToSet(q[i])
    <3>1. PICK i \in 1..n : x \in ToSet(r[i]) BY <1>3, <1>5
    <3>2. i \in DOMAIN q /\ x \in ToSet(q[i]) BY <1>3, <3>1
    <3> QED BY <3>2
  <2>2. n + 1 \in DOMAIN q /\ id \in ToSet(q[n + 1]) BY <1>1, <1>3
  <2> QED BY <2>1, <2>2
<1>11. RowsOf(q, P \cup {id}) BY <1>2, <1>7, <1>8, <1>9, <1>10, RowsOfIs
<1> QED BY <1>2, <1>11 DEF q

\* One more event in the last row.
LEMMA LongerRow ==
  ASSUME NEW r \in Rows, r # <<>>, NEW P, RowsOf(r, P), NEW id \in Nat, \A x \in P : x < id
  PROVE  RowsOf([r EXCEPT ![Len(r)] = Append(@, id)], P \cup {id})
<1> DEFINE n == Len(r)
           row == Append(r[n], id)
           q == [r EXCEPT ![n] = Append(@, id)]
<1>1. n \in 1..n /\ n \in Nat /\ DOMAIN r = 1..n /\ r[n] \in Seq(Nat) BY DEF Rows
<1>2. /\ q \in Rows /\ Len(q) = n /\ DOMAIN q = 1..n
      /\ \A i \in 1..n : q[i] = IF i = n THEN row ELSE r[i]
  <2>1. row \in Seq(Nat) BY <1>1
  <2>2. n \in 1..Len(r) BY <1>1
  <2>3. q = [r EXCEPT ![n] = row] OBVIOUS
  <2> HIDE DEF q, n, row
  <2>4. q \in Seq(Seq(Nat)) /\ Len(q) = Len(r) /\ \A i \in 1..Len(r) : q[i] = IF i = n THEN row ELSE r[i]
    BY <2>1, <2>2, <2>3, ExceptSeq DEF Rows
  <2> QED BY <2>4 DEF Rows, n
<1>3. row # <<>> /\ ToSet(row) = ToSet(r[n]) \cup {id}
  <2> DEFINE o == r[n]
             l == Len(o)
  <2>1. /\ DOMAIN row = 1..l + 1 /\ DOMAIN o = 1..l /\ l \in Nat /\ row[l + 1] = id
        /\ \A i \in 1..l : row[i] = o[i]
    BY <1>1
  <2> HIDE DEF o, l, row
  <2>2. \A i \in DOMAIN row : i \in 1..l \/ i = l + 1 BY <2>1
  <2>3. \A x \in ToSet(row) : x \in ToSet(o) \cup {id} BY <2>1, <2>2 DEF ToSet
  <2>4. \A x \in ToSet(o) : x \in ToSet(row)
    <3>1. \A i \in 1..l : i \in DOMAIN row BY <2>1
    <3> QED BY <2>1, <3>1 DEF ToSet
  <2>5. l + 1 \in DOMAIN row BY <2>1
  <2>6. id \in ToSet(row) BY <2>1, <2>5 DEF ToSet
  <2>7. row # <<>> BY <2>5
  <2> QED BY <2>3, <2>4, <2>6, <2>7 DEF o
<1> HIDE DEF q, n, row
<1>4. \A i \in DOMAIN r : \A x \in ToSet(r[i]) : x \in P BY DEF RowsOf
<1>5. \A x \in P : \E i \in DOMAIN r : x \in ToSet(r[i]) BY DEF RowsOf
<1>6. \A i \in DOMAIN q : q[i] # <<>> BY <1>1, <1>2, <1>3 DEF RowsOf
<1>7. Apart(q, 0)
  <2> SUFFICES ASSUME NEW i \in 1..n, NEW j \in 1..n, i < j, NEW x \in ToSet(q[i]), NEW y \in ToSet(q[j])
               PROVE  x < y
    BY <1>2 DEF Apart
  <2>1. q[i] = r[i] /\ x \in P BY <1>1, <1>2, <1>4
  <2>2. CASE y \in ToSet(r[j])
    <3>1. i \in 0 + 1..Len(r) /\ j \in 0 + 1..Len(r) BY DEF n
    <3> QED BY <2>1, <2>2, <3>1 DEF RowsOf, Apart
  <2>3. CASE y = id BY <2>1, <2>3
  <2> QED BY <1>2, <1>3, <2>2, <2>3
<1>8. \A i \in DOMAIN q : \A x \in ToSet(q[i]) : x \in P \cup {id} BY <1>1, <1>2, <1>3, <1>4
<1>9. \A x \in P \cup {id} : \E i \in DOMAIN q : x \in ToSet(q[i])
  <2>1. ASSUME NEW x \in P PROVE \E i \in DOMAIN q : x \in ToSet(q[i])
    <3>1. PICK i \in 1..n : x \in ToSet(r[i]) BY <1>1, <1>5
    <3>2. i \in DOMAIN q /\ x \in ToSet(q[i]) BY <1>2, <1>3, <3>1
    <3> QED BY <3>2
  <2>2. n \in DOMAIN q /\ id \in ToSet(q[n]) BY <1>1, <1>2, <1>3
  <2> QED BY <2>1, <2>2
<1>10. RowsOf(q, P \cup {id}) BY <1>2, <1>6, <1>7, <1>8, <1>9, RowsOfIs
<1> QED BY <1>10 DEF q, n

\* The collapsed rows stand for the events that pass, each once, in their order.
LEMMA CollapseIs ==
  ASSUME NEW m, NEW events \in Seq(Events), Increasing(events)
  PROVE  Collapse(m, events) \in Rows /\ RowsOf(Collapse(m, events), IdsOf(Passing(m, events)))
<1> DEFINE list == Passing(m, events)
           N == Len(list)
           P(n) == {list[k].id : k \in 1..n}
<1>1. list \in Seq(Events) /\ Increasing(list) BY PassingIs
<1>2. PICK r \in [0..N -> Rows] :
           /\ r[0] = <<>>
           /\ \A n \in 1..N :
                r[n] = IF n > 1 /\ list[n].kind = "error" /\ list[n - 1].kind = "error"
                       THEN [r[n - 1] EXCEPT ![Len(r[n - 1])] = Append(@, list[n].id)]
                       ELSE Append(r[n - 1], <<list[n].id>>)
           /\ Collapse(m, events) = r[N]
  BY CollapseSteps
<1> HIDE DEF list
<1>3. N \in Nat /\ DOMAIN list = 1..N /\ \A n \in 1..N : list[n].id \in Nat
  <2>1. \A n \in 1..N : list[n] \in Events BY <1>1
  <2> QED BY <1>1, <2>1 DEF Events
<1> DEFINE T == {n \in 0..N : RowsOf(r[n], P(n)) /\ (n > 0 => r[n] # <<>>)}
<1>4. 0 \in T
  <2>1. P(0) = {} OBVIOUS
  <2>2. RowsOf(<<>>, {}) BY DEF RowsOf, Apart
  <2> HIDE DEF P
  <2>0. r[0] = <<>> BY <1>2
  <2>3. RowsOf(r[0], P(0)) BY <2>0, <2>1, <2>2
  <2>4. 0 \in 0..N BY <1>3
  <2> QED BY <2>3, <2>4
<1>5. ASSUME NEW n \in 0..N - 1, n \in T PROVE n + 1 \in T
  <2> DEFINE id == list[n + 1].id
             q == r[n]
  <2>1. n + 1 \in 1..N /\ n + 1 - 1 = n /\ n + 1 \in 0..N /\ n \in 0..N /\ n \in Nat BY <1>3
  <2>2. q \in Rows /\ RowsOf(q, P(n)) /\ (n > 0 => q # <<>>) BY <1>5, <2>1
  <2>3. id \in Nat BY <1>3, <2>1
  <2>4. \A x \in P(n) : x < id
    <3>1. ASSUME NEW k \in 1..n PROVE list[k].id < id
      <4>1. k \in 1..N /\ k < n + 1 BY <1>3
      <4> QED BY <1>1, <1>3, <2>1, <4>1 DEF Increasing
    <3> QED BY <3>1
  <2>5. P(n + 1) = P(n) \cup {id}
    <3>1. \A k \in 1..n + 1 : k \in 1..n \/ k = n + 1 BY <2>1
    <3>2. \A k \in 1..n : k \in 1..n + 1 BY <2>1
    <3>3. n + 1 \in 1..n + 1 BY <2>1
    <3> QED BY <3>1, <3>2, <3>3
  <2>6. \/ r[n + 1] = Append(q, <<id>>)
        \/ n > 0 /\ r[n + 1] = [q EXCEPT ![Len(q)] = Append(@, id)]
    <3>1. r[n + 1] = IF n + 1 > 1 /\ list[n + 1].kind = "error" /\ list[n + 1 - 1].kind = "error"
                     THEN [r[n + 1 - 1] EXCEPT ![Len(r[n + 1 - 1])] = Append(@, list[n + 1].id)]
                     ELSE Append(r[n + 1 - 1], <<list[n + 1].id>>)
      <4> DEFINE Is(k) == r[k] = IF k > 1 /\ list[k].kind = "error" /\ list[k - 1].kind = "error"
                                 THEN [r[k - 1] EXCEPT ![Len(r[k - 1])] = Append(@, list[k].id)]
                                 ELSE Append(r[k - 1], <<list[k].id>>)
      <4>1. \A k \in 1..N : Is(k) BY <1>2
      <4> HIDE DEF Is
      <4>2. Is(n + 1) BY <2>1, <4>1
      <4> QED BY <4>2 DEF Is
    <3>2. n + 1 > 1 => n > 0 BY <2>1
    <3> QED BY <2>1, <3>1, <3>2
  <2> HIDE DEF P, id, q
  <2>7. CASE r[n + 1] = Append(q, <<id>>)
    <3>1. RowsOf(r[n + 1], P(n + 1)) BY SMTT(20), <2>2, <2>3, <2>4, <2>5, <2>7, NewRow
    <3>2. r[n + 1] # <<>>
      <4> DEFINE row == <<id>>
      <4>1. row \in Seq(Nat) /\ q \in Seq(Seq(Nat)) BY <2>2, <2>3 DEF Rows
      <4> HIDE DEF row
      <4>2. Len(Append(q, row)) > 0 BY <4>1
      <4> QED BY <2>7, <4>2 DEF row
    <3> QED BY <2>1, <3>1, <3>2
  <2>8. CASE n > 0 /\ r[n + 1] = [q EXCEPT ![Len(q)] = Append(@, id)]
    <3>1. RowsOf(r[n + 1], P(n + 1))
      <4>1. q # <<>> BY <2>2, <2>8
      <4>2. RowsOf([q EXCEPT ![Len(q)] = Append(@, id)], P(n) \cup {id})
        BY <2>2, <2>3, <2>4, <4>1, LongerRow
      <4> QED BY <2>5, <2>8, <4>2
    <3>2. r[n + 1] # <<>>
      <4>1. DOMAIN r[n + 1] = DOMAIN q /\ q # <<>> /\ q \in Seq(Seq(Nat)) BY <2>2, <2>8 DEF Rows
      <4>2. 1 \in DOMAIN q BY <4>1
      <4> QED BY <4>1, <4>2
    <3> QED BY <2>1, <3>1, <3>2
  <2> QED BY <2>6, <2>7, <2>8
<1>6. N \in T
  <2> HIDE DEF T
  <2>1. 0..N \subseteq T BY <1>3, <1>4, <1>5, Induction
  <2> QED BY <1>3, <2>1
<1>7. P(N) = IdsOf(list) BY <1>3 DEF IdsOf
<1>8. r[N] \in Rows BY <1>3
<1> QED BY <1>2, <1>6, <1>7, <1>8 DEF list

-----------------------------------------------------------------------------
(* The traffic monitor *)

\* The types of the traffic monitor's state.
LogRecord ==
  [history : Seq(Events), pending : Seq(Events), rows : Rows, paused : BOOLEAN, pausedCount : Nat,
   raw : BOOLEAN, level : {"all", "error"}, rebuild : BOOLEAN, chunks : Nat, next : Nat, touches : Nat,
   again : SUBSET Nat]

\* The history: its events in the order they were logged.
HistoryKept(m) ==
  /\ Increasing(m.history) /\ Len(m.history) <= MaxRows
  /\ \A h \in DOMAIN m.history : m.history[h].id < m.next

PendingOrdered(m) == Increasing(m.pending) /\ \A k \in DOMAIN m.pending : m.pending[k].id < m.next

\* What waits: let through by the filters of now, and as late as the history's newest, if the
\* history still has it.
PendingKept(m) ==
  /\ PendingOrdered(m)
  /\ \A k \in DOMAIN m.pending : PassesFilters(m, m.pending[k])
  /\ m.paused => m.pending = <<>>
  /\ \A k \in DOMAIN m.pending, h \in DOMAIN m.history :
       m.pending[k].id >= m.history[h].id => \E g \in DOMAIN m.history : m.history[g] = m.pending[k]
  /\ \A k \in DOMAIN m.pending, h \in DOMAIN m.history :
       PassesFilters(m, m.history[h]) /\ m.history[h].id >= m.pending[k].id
         => m.history[h].id \in IdsOf(m.pending)

RowsKept(m) == Len(m.rows) <= MaxRows /\ \A i \in DOMAIN m.rows : \A x \in ToSet(m.rows[i]) : x < m.next

\* The rows are in their two runs, and unless the view is paused or about to be rebuilt it is
\* complete.
ViewKept(m) ==
  /\ IsFiniteSet(m.again)
  /\ \E d \in 0..Len(m.rows) :
       /\ Laid(m.rows, IdsOf(m.pending), d, m.again)
       /\ ~m.paused /\ ~m.rebuild => Complete(m, m.rows, IdsOf(m.pending), d)

\* The inductive invariant of NothingMissing and OnceEach.
LogInv(m) == m \in LogRecord /\ HistoryKept(m) /\ PendingKept(m) /\ RowsKept(m) /\ ViewKept(m)

LEMMA CompleteSame ==
  ASSUME NEW m, NEW o, o.history = m.history, o.raw = m.raw, o.level = m.level, NEW rows, NEW P, NEW d,
         Complete(m, rows, P, d)
  PROVE  Complete(o, rows, P, d)
<1>1. \A e : PassesFilters(o, e) = PassesFilters(m, e) BY Zenon DEF PassesFilters
<1> DEFINE F == Fresh(rows, P, 0)
<1>2. Above(m, F) => Above(o, F) BY Zenon, <1>1 DEF Above
<1> HIDE DEF F
<1>3. Whole(m, F) => Whole(o, F) BY Zenon, <1>1 DEF Whole
<1>4. ASSUME Known(m, F), NEW x \in F, NEW h \in DOMAIN m.history, x >= m.history[h].id
      PROVE  \E g \in DOMAIN m.history : m.history[g].id = x /\ PassesFilters(o, m.history[g])
  <2>1. PICK g \in DOMAIN m.history : m.history[g].id = x /\ PassesFilters(m, m.history[g])
    BY <1>4 DEF Known
  <2> QED BY <1>1, <2>1
<1>5. Joined(rows, P, d) /\ Known(m, F) /\ Above(m, F) /\ (Len(rows) < MaxRows => Whole(m, F))
  BY DEF Complete, F
<1>6. Known(o, F) BY <1>5, <1>4 DEF Known
<1>7. Above(o, F) /\ (Len(rows) < MaxRows => Whole(o, F)) BY <1>2, <1>3, <1>5
<1> QED BY <1>5, <1>6, <1>7 DEF Complete, F

\* What a step leaves of the view: it shows no less, or is about to be rebuilt.
LEMMA SameView ==
  ASSUME NEW m, NEW o, LogInv(m), o \in LogRecord,
         o.history = m.history, o.pending = m.pending, o.rows = m.rows, o.raw = m.raw, o.level = m.level,
         o.again = m.again, m.next <= o.next, o.paused => o.pending = <<>>,
         ~o.paused /\ ~o.rebuild => ~m.paused /\ ~m.rebuild
  PROVE  LogInv(o)
<1>1. \A e : PassesFilters(o, e) = PassesFilters(m, e) BY Zenon DEF PassesFilters
<1>2. m \in LogRecord /\ m.next \in Nat /\ o.next \in Nat BY DEF LogInv, LogRecord
<1>3. \A h \in DOMAIN m.history : m.history[h].id \in Nat
  <2>1. \A h \in DOMAIN m.history : m.history[h] \in Events BY <1>2 DEF LogRecord
  <2> QED BY <2>1 DEF Events
<1>4. \A h \in DOMAIN m.pending : m.pending[h].id \in Nat
  <2>1. \A h \in DOMAIN m.pending : m.pending[h] \in Events BY <1>2 DEF LogRecord
  <2> QED BY <2>1 DEF Events
<1>5. \A i \in DOMAIN m.rows : \A x \in ToSet(m.rows[i]) : x \in Nat
  <2>1. \A i \in DOMAIN m.rows : m.rows[i] \in Seq(Nat) BY <1>2 DEF LogRecord, Rows
  <2> QED BY <2>1, RowIds
<1>6. HistoryKept(o) BY <1>2, <1>3 DEF LogInv, HistoryKept
<1>7. PendingOrdered(o) BY <1>2, <1>4 DEF LogInv, PendingKept, PendingOrdered
<1>8. PendingKept(o)
  BY <1>1, <1>7 DEF LogInv, PendingKept
<1>9. RowsKept(o)
  <2>1. ASSUME NEW i \in DOMAIN m.rows, NEW x \in ToSet(m.rows[i]) PROVE x < o.next
    <3>1. x < m.next /\ x \in Nat BY <1>5 DEF LogInv, RowsKept
    <3> QED BY <1>2, <3>1
  <2> QED BY <2>1 DEF LogInv, RowsKept
<1>10. ViewKept(o)
  <2> DEFINE P == IdsOf(m.pending)
  <2>1. PICK d \in 0..Len(m.rows) :
          Laid(m.rows, P, d, m.again) /\ (~m.paused /\ ~m.rebuild => Complete(m, m.rows, P, d))
    BY DEF LogInv, ViewKept
  <2>2. IdsOf(o.pending) = P /\ IsFiniteSet(o.again) BY DEF LogInv, ViewKept
  <2> HIDE DEF P
  <2>3. ~o.paused /\ ~o.rebuild => Complete(o, m.rows, P, d) BY <2>1, CompleteSame
  <2> QED BY <2>1, <2>2, <2>3 DEF ViewKept
<1> QED BY <1>6, <1>8, <1>9, <1>10 DEF LogInv

\* Before a rebuild, and while paused, the view need not be complete.
LEMMA Reshown ==
  ASSUME NEW o \in LogRecord, HistoryKept(o), PendingKept(o), RowsKept(o), o.rebuild \/ o.paused,
         IsFiniteSet(o.again), NEW d, Laid(o.rows, IdsOf(o.pending), d, o.again)
  PROVE  LogInv(o)
<1>1. d \in 0..Len(o.rows) BY DEF Laid
<1> QED BY <1>1 DEF LogInv, ViewKept

\* A view with no rows.
LEMMA NoRows ==
  ASSUME NEW o, o.history = <<>>
  PROVE  Laid(<<>>, {}, 0, {}) /\ Complete(o, <<>>, {}, 0)
<1>1. Fresh(<<>>, {}, 0) = {} /\ Old(<<>>, 0) = {} BY DEF Fresh, Old
<1>2. Known(o, {}) /\ Above(o, {}) /\ Whole(o, {}) BY DEF Known, Above, Whole
<1>3. Len(<<>>) = 0 /\ 0 + 1..0 = {} /\ 0 \in 0..0 /\ 1..0 = {} OBVIOUS
<1>4. Ascending(<<>>, 0) /\ Apart(<<>>, 0) /\ Before(<<>>, {}, 0) BY <1>3 DEF Ascending, Apart, Before
<1>5. Joined(<<>>, {}, 0) BY <1>1 DEF Joined
<1>6. Laid(<<>>, {}, 0, {}) BY <1>1, <1>3, <1>4 DEF Laid
<1> QED BY <1>1, <1>2, <1>3, <1>5, <1>6 DEF Complete

LEMMA NothingPending ==
  ASSUME NEW o, o.pending = <<>>
  PROVE  PendingKept(o) /\ IdsOf(o.pending) = {}
BY DEF PendingKept, PendingOrdered, Increasing, IdsOf

\* A row added at the end is of known events, and at most MaxRows are kept.
LEMMA RowsAfter ==
  ASSUME NEW rows \in Rows, NEW C \in Rows, NEW n \in Nat,
         \A i \in DOMAIN rows : \A x \in ToSet(rows[i]) : x < n,
         \A i \in DOMAIN C : \A x \in ToSet(C[i]) : x < n
  PROVE  LET t == AppendEntries(rows, C) IN
         /\ t \in Rows /\ KeptOf(MaxRows, rows \o C, t) /\ rows \o C \in Rows
         /\ Len(t) <= MaxRows /\ \A i \in DOMAIN t : \A x \in ToSet(t[i]) : x < n
<1> DEFINE t == AppendEntries(rows, C)
           all == rows \o C
           a == Len(rows)
           c == Len(C)
<1>1. MaxRows \in Nat BY MonitorBounds
<1>2. t \in Rows /\ KeptOf(MaxRows, all, t) BY <1>1, AppendedIs DEF Rows
<1>3. /\ all \in Rows /\ Len(all) = a + c /\ a \in Nat /\ c \in Nat
      /\ \A i \in 1..a + c : all[i] = IF i <= a THEN rows[i] ELSE C[i - a]
  BY ConcatProperties DEF Rows
<1> HIDE DEF t, all
<1>4. Len(t) = (IF a + c > MaxRows THEN MaxRows ELSE a + c) /\ Len(t) \in Nat /\ DOMAIN t = 1..Len(t)
  BY <1>1, <1>2, <1>3 DEF KeptOf, Rows
<1>5. DOMAIN rows = 1..a /\ DOMAIN C = 1..c BY DEF Rows
<1> HIDE DEF a, c
<1>6. ASSUME NEW i \in DOMAIN t, NEW x \in ToSet(t[i]) PROVE x < n
  <2> DEFINE j == i + (a + c - Len(t))
  <2>1. t[i] = all[j] BY <1>2, <1>3, <1>4 DEF KeptOf
  <2>2. j \in 1..a + c BY <1>1, <1>3, <1>4
  <2>3. CASE j <= a
    <3>1. all[j] = rows[j] /\ j \in DOMAIN rows BY <1>3, <1>5, <2>2, <2>3
    <3> QED BY <1>6, <2>1, <3>1
  <2>4. CASE ~(j <= a)
    <3>1. all[j] = C[j - a] /\ j - a \in DOMAIN C BY <1>3, <1>5, <2>2, <2>4
    <3> QED BY <1>6, <2>1, <3>1
  <2> QED BY <2>3, <2>4
<1> QED BY <1>1, <1>2, <1>3, <1>4, <1>6 DEF t, all

LEMMA PassingAll ==
  ASSUME NEW m, NEW events \in Seq(Events)
  PROVE  /\ IdsOf(Passing(m, events)) \subseteq IdsOf(events)
         /\ (\A k \in DOMAIN events : PassesFilters(m, events[k])) => IdsOf(Passing(m, events)) = IdsOf(events)
<1> DEFINE P == Passing(m, events)
<1>1. /\ \A k \in DOMAIN P : \E i \in DOMAIN events : events[i] = P[k]
      /\ \A i \in DOMAIN events : PassesFilters(m, events[i]) => \E k \in DOMAIN P : P[k] = events[i]
  BY PassingIs
<1> HIDE DEF P
<1>2. IdsOf(P) \subseteq IdsOf(events)
  <2>1. ASSUME NEW k \in DOMAIN P PROVE P[k].id \in IdsOf(events) BY <1>1 DEF IdsOf
  <2> QED BY <2>1 DEF IdsOf
<1>3. ASSUME \A k \in DOMAIN events : PassesFilters(m, events[k]) PROVE IdsOf(events) \subseteq IdsOf(P)
  <2>1. ASSUME NEW k \in DOMAIN events PROVE events[k].id \in IdsOf(P) BY <1>1, <1>3 DEF IdsOf
  <2> QED BY <2>1 DEF IdsOf
<1> QED BY <1>2, <1>3 DEF P

\* A flush, whatever the filters have become since the events were let through.
LEMMA FlushedShape ==
  ASSUME NEW m \in LogRecord, HistoryKept(m), PendingOrdered(m), RowsKept(m)
  PROVE  /\ Flushed(m) \in LogRecord /\ HistoryKept(Flushed(m)) /\ PendingKept(Flushed(m))
         /\ RowsKept(Flushed(m)) /\ Flushed(m).pending = <<>> /\ Flushed(m).again = m.again
         /\ Collapse(m, m.pending) \in Rows /\ RowsOf(Collapse(m, m.pending), IdsOf(Passing(m, m.pending)))
         /\ KeptOf(MaxRows, m.rows \o Collapse(m, m.pending), Flushed(m).rows)
         /\ m.rows \o Collapse(m, m.pending) \in Rows
<1> DEFINE C == Collapse(m, m.pending)
           P == IdsOf(Passing(m, m.pending))
           o == Flushed(m)
           t == AppendEntries(m.rows, C)
<1>1. m.pending \in Seq(Events) /\ m.rows \in Rows /\ m.next \in Nat BY DEF LogRecord
<1>2. C \in Rows /\ RowsOf(C, P) BY <1>1, CollapseIs DEF PendingOrdered
<1>3. P \subseteq IdsOf(m.pending) BY <1>1, PassingAll
<1>4. \A i \in DOMAIN C : \A x \in ToSet(C[i]) : x < m.next
  <2>1. \A i \in DOMAIN C : \A x \in ToSet(C[i]) : x \in P BY <1>2 DEF RowsOf
  <2>2. \A x \in IdsOf(m.pending) : x < m.next BY DEF PendingOrdered, IdsOf
  <2> QED BY <1>3, <2>1, <2>2
<1>5. o = [m EXCEPT !.rows = t, !.pending = <<>>] BY DEF Flushed
<1> HIDE DEF C, P, o
<1>6. /\ t \in Rows /\ KeptOf(MaxRows, m.rows \o C, t) /\ m.rows \o C \in Rows
      /\ Len(t) <= MaxRows /\ \A i \in DOMAIN t : \A x \in ToSet(t[i]) : x < m.next
  BY <1>1, <1>2, <1>4, RowsAfter DEF RowsKept
<1> HIDE DEF t
<1>7. /\ o \in LogRecord /\ o.rows = t /\ o.pending = <<>> /\ o.next = m.next /\ o.history = m.history
      /\ o.paused = m.paused /\ o.again = m.again
  <2>1. <<>> \in Seq(Events) OBVIOUS
  <2>2. o \in LogRecord BY <1>5, <1>6, <2>1 DEF LogRecord
  <2>3. o.rows = t /\ o.pending = <<>> BY <1>5 DEF LogRecord
  <2>4. o.next = m.next /\ o.history = m.history /\ o.paused = m.paused /\ o.again = m.again
    BY <1>5 DEF LogRecord
  <2> QED BY <2>2, <2>3, <2>4
<1>8. HistoryKept(o) BY <1>7 DEF HistoryKept
<1>9. PendingKept(o) BY <1>7, NothingPending
<1>10. RowsKept(o) BY <1>6, <1>7 DEF RowsKept
<1> QED BY <1>2, <1>6, <1>7, <1>8, <1>9, <1>10 DEF C, P, o

\* A flush of all that waits, or of some of it, into the rows there are.
LEMMA FlushedView ==
  ASSUME NEW m, NEW rows \in Rows, NEW P1, NEW P2 \in SUBSET Nat, NEW d, NEW again,
         Laid(rows, P1 \cup P2, d, again), NEW C \in Rows, NEW Q \in SUBSET P1, RowsOf(C, Q),
         \A x \in P1, y \in P2 : x < y,
         rows \o C \in Rows, NEW t \in Rows, KeptOf(MaxRows, rows \o C, t)
  PROVE  \E e \in 0..Len(t) :
           /\ Laid(t, P2, e, again)
           /\ Q = P1 /\ Complete(m, rows, P1 \cup P2, d) => Complete(m, t, P2, e)
<1> DEFINE all == rows \o C
<1>1. Laid(all, P2, d, again) BY FlushedLaid
<1>2. d \in 0..Len(rows) BY DEF Laid
<1>3. Q = P1 /\ Complete(m, rows, P1 \cup P2, d) => Complete(m, all, P2, d)
  BY <1>2, FlushedComplete
<1>4. all \in Rows /\ KeptOf(MaxRows, all, t) OBVIOUS
<1> HIDE DEF all
<1>5. PICK e \in 0..Len(t) : Laid(t, P2, e, again) /\ (Complete(m, all, P2, d) => Complete(m, t, P2, e))
  BY <1>1, <1>4, Trimmed
<1> QED BY <1>3, <1>5

LEMMA FreshAll ==
  ASSUME NEW m \in LogRecord, PendingOrdered(m), RowsKept(m), NEW d, d \in Nat
  PROVE  \A x \in Fresh(m.rows, IdsOf(m.pending), d) : x < m.next
<1> DEFINE P == IdsOf(m.pending)
<1>1. \A x \in P : x < m.next BY DEF P, IdsOf, PendingOrdered
<1>2. \A i \in d + 1..Len(m.rows) : i \in DOMAIN m.rows BY DEF LogRecord, Rows
<1> HIDE DEF P
<1> SUFFICES ASSUME NEW x \in Fresh(m.rows, P, d) PROVE x < m.next BY DEF P
<1>3. CASE x \in P BY <1>1, <1>3
<1>4. CASE x \notin P
  <2>1. PICK i \in d + 1..Len(m.rows) : x \in ToSet(m.rows[i]) BY <1>4, FreshIs
  <2> QED BY <1>2, <2>1 DEF RowsKept
<1> QED BY <1>3, <1>4

\* Showing what waits keeps the view complete.
LEMMA FlushKept ==
  ASSUME NEW m, LogInv(m)
  PROVE  LogInv(Flushed(m))
<1> DEFINE C == Collapse(m, m.pending)
           P == IdsOf(m.pending)
           o == Flushed(m)
<1>1. m \in LogRecord /\ HistoryKept(m) /\ PendingKept(m) /\ PendingOrdered(m) /\ RowsKept(m) /\ ViewKept(m)
  BY DEF LogInv, PendingKept
<1>2. /\ o \in LogRecord /\ HistoryKept(o) /\ PendingKept(o) /\ RowsKept(o) /\ o.pending = <<>>
      /\ C \in Rows /\ RowsOf(C, IdsOf(Passing(m, m.pending))) /\ KeptOf(MaxRows, m.rows \o C, o.rows)
      /\ m.rows \o C \in Rows
  BY <1>1, FlushedShape
<1>3. o = [m EXCEPT !.rows = AppendEntries(@, C), !.pending = <<>>] BY DEF Flushed
<1> HIDE DEF C, o
<1>4. /\ o.history = m.history /\ o.raw = m.raw /\ o.level = m.level /\ o.paused = m.paused
      /\ o.rebuild = m.rebuild /\ o.again = m.again
  BY <1>1, <1>3 DEF LogRecord
<1>5. m.pending \in Seq(Events) /\ m.rows \in Rows BY <1>1 DEF LogRecord
<1>6. IdsOf(Passing(m, m.pending)) = P BY <1>1, <1>5, PassingAll DEF PendingKept
<1>7. ViewKept(o)
  <2>1. PICK d \in 0..Len(m.rows) :
          Laid(m.rows, P, d, m.again) /\ (~m.paused /\ ~m.rebuild => Complete(m, m.rows, P, d))
    BY <1>1 DEF ViewKept
  <2>2. IsFiniteSet(o.again) BY <1>1, <1>4 DEF ViewKept
  <2>3. o.rows \in Rows /\ RowsOf(C, P) BY <1>2, <1>6 DEF LogRecord
  <2> HIDE DEF P
  <2> DEFINE again == m.again
             none == {}
             rows == m.rows
             t == o.rows
  <2>4. Laid(rows, P \cup none, d, again) /\ P \cup none = P /\ none \in SUBSET Nat BY <2>1
  <2>5. rows \in Rows /\ C \in Rows /\ t \in Rows /\ rows \o C \in Rows /\ KeptOf(MaxRows, rows \o C, t)
    BY <1>2, <1>5, <2>3
  <2>6. \A x \in P, y \in none : x < y OBVIOUS
  <2> HIDE DEF again, none, rows, t
  <2>7. PICK e \in 0..Len(t) :
          Laid(t, none, e, again) /\ (Complete(m, rows, P \cup none, d) => Complete(m, t, none, e))
    BY <2>3, <2>4, <2>5, <2>6, FlushedView
  <2>8. Complete(m, t, none, e) => Complete(o, t, none, e) BY <1>4, CompleteSame
  <2>9. ~o.paused /\ ~o.rebuild => Complete(o, t, none, e) BY <1>4, <2>1, <2>4, <2>7, <2>8 DEF rows
  <2>10. IdsOf(o.pending) = none BY <1>2, NothingPending DEF none
  <2> QED BY <1>4, <2>2, <2>7, <2>9, <2>10 DEF ViewKept, t, again
<1>8. LogInv(o) BY <1>2, <1>7 DEF LogInv
<1> QED BY <1>8 DEF o

\* The history t that s becomes with one more event.
HistoryWith(s, event, t) ==
  /\ t \in Seq(Events) /\ KeptOf(MaxRows, Append(s, event), t)
  /\ Increasing(t) /\ Len(t) <= MaxRows
  /\ \A h \in DOMAIN t : t[h].id <= event.id
  /\ \A h \in DOMAIN t : t[h] = event \/ \E g \in DOMAIN s : t[h] = s[g]
  /\ \A h \in DOMAIN t, g \in DOMAIN s : s[g].id >= t[h].id => \E f \in DOMAIN t : t[f] = s[g]

\* The history after one more event.
LEMMA HistoryAfter ==
  ASSUME NEW m \in LogRecord, HistoryKept(m), NEW event \in Events, event.id = m.next
  PROVE  HistoryWith(m.history, event, Newest(MaxRows, Append(m.history, event)))
<1> DEFINE s == m.history
           t == Newest(MaxRows, Append(s, event))
           l == Len(t)
           k == Len(s) + 1 - l
<1>1. s \in Seq(Events) /\ Increasing(s) /\ \A h \in DOMAIN s : s[h].id < m.next
  BY DEF HistoryKept, LogRecord
<1>2. MaxRows \in Nat /\ m.next \in Nat BY MonitorBounds DEF LogRecord
<1> HIDE DEF s
<1>3. Append(s, event) \in Seq(Events) BY <1>1
<1>4. t \in Seq(Events) /\ KeptOf(MaxRows, Append(s, event), t)
  <2> QED BY <1>2, <1>3, NewestIs
<1> HIDE DEF t
<1>5. /\ k \in Nat /\ l \in 1..Len(s) + 1 /\ l <= MaxRows /\ t[l] = event
      /\ \A i \in 1..l - 1 : i + k \in DOMAIN s /\ t[i] = s[i + k]
      /\ \A j \in DOMAIN s : j > k => j - k \in 1..l - 1
  BY <1>1, <1>4, HistoryIs
<1>6. /\ DOMAIN t = 1..l /\ l \in Nat /\ DOMAIN s = 1..Len(s) /\ Len(s) \in Nat
      /\ \A i \in DOMAIN s : s[i].id \in Nat
  <2>1. \A i \in DOMAIN s : s[i] \in Events BY <1>1
  <2> QED BY <1>1, <1>4, <2>1 DEF Events
<1> HIDE DEF l, k
<1>7. \A i \in DOMAIN t : i = l \/ (i \in 1..l - 1 /\ i + k \in DOMAIN s /\ t[i] = s[i + k])
  BY <1>5, <1>6
<1>8. Increasing(t)
  <2> SUFFICES ASSUME NEW i \in 1..l, NEW j \in 1..l, i < j PROVE t[i].id < t[j].id
    BY <1>6 DEF Increasing
  <2>0. i \in 1..l - 1 BY <1>6
  <2>1. i \in 1..l - 1 /\ i + k \in DOMAIN s /\ t[i] = s[i + k] BY <1>5, <2>0
  <2>2. CASE j = l BY <1>1, <1>5, <2>1, <2>2
  <2>3. CASE j # l
    <3>1. j + k \in DOMAIN s /\ t[j] = s[j + k] /\ i + k < j + k BY <1>5, <1>6, <1>7, <2>3
    <3> QED BY <1>1, <2>1, <3>1 DEF Increasing
  <2> QED BY <2>2, <2>3
<1>9. \A h \in DOMAIN t : t[h].id <= event.id
  <2> SUFFICES ASSUME NEW h \in DOMAIN t PROVE t[h].id <= event.id OBVIOUS
  <2>1. CASE h = l BY <1>2, <1>5, <2>1
  <2>2. CASE h # l
    <3>1. t[h] = s[h + k] /\ h + k \in DOMAIN s BY <1>7, <2>2
    <3>2. s[h + k].id < m.next /\ s[h + k].id \in Nat BY <1>1, <1>6, <3>1
    <3> QED BY <1>2, <3>1, <3>2
  <2> QED BY <2>1, <2>2
<1>10. \A h \in DOMAIN t : t[h] = event \/ \E g \in DOMAIN s : t[h] = s[g]
  BY <1>5, <1>7
<1>11. ASSUME NEW h \in DOMAIN t, NEW g \in DOMAIN s, s[g].id >= t[h].id
       PROVE  \E f \in DOMAIN t : t[f] = s[g]
  <2>1. h # l BY <1>1, <1>2, <1>5, <1>6, <1>11
  <2>2. h \in 1..l - 1 /\ h + k \in DOMAIN s /\ t[h] = s[h + k] BY <1>7, <2>1
  <2>3. ~(g < h + k)
    <3>1. g < h + k => s[g].id < s[h + k].id BY <1>1, <2>2 DEF Increasing
    <3> QED BY <1>6, <1>11, <2>2, <3>1
  <2>4. g - k \in 1..l - 1 /\ (g - k) + k = g BY <1>5, <1>6, <2>2, <2>3
  <2>5. t[g - k] = s[g] /\ g - k \in DOMAIN t BY <1>5, <1>6, <2>4
  <2> QED BY <2>5
<1> QED BY <1>4, <1>5, <1>8, <1>9, <1>10, <1>11 DEF HistoryWith, s, t, l

\* One more event waits, or is hidden: the view is as complete as before.
LEMMA WaitKept ==
  ASSUME NEW m, LogInv(m), ~m.paused, NEW event \in Events, event.id = m.next,
         NEW o, o = [m EXCEPT !.next = @ + 1, !.history = Newest(MaxRows, Append(@, event)),
                       !.pending = IF PassesFilters(m, event) THEN Append(@, event) ELSE @]
  PROVE  LogInv(o)
<1> DEFINE s == m.history
           t == o.history
           p == m.pending
           q == o.pending
           n == m.next
<1>1. m \in LogRecord /\ HistoryKept(m) /\ PendingKept(m) /\ PendingOrdered(m) /\ RowsKept(m) /\ ViewKept(m)
  BY DEF LogInv, PendingKept
<1>2. /\ s \in Seq(Events) /\ p \in Seq(Events) /\ n \in Nat /\ event.id \in Nat
      /\ \A h \in DOMAIN s : s[h].id \in Nat /\ s[h].id < n
      /\ \A h \in DOMAIN p : p[h].id \in Nat /\ p[h].id < n
  <2>1. s \in Seq(Events) /\ p \in Seq(Events) BY <1>1 DEF LogRecord
  <2>2. \A h \in DOMAIN s : s[h] \in Events BY <2>1
  <2>3. \A h \in DOMAIN p : p[h] \in Events BY <2>1
  <2>4. n \in Nat BY <1>1 DEF LogRecord
  <2> QED BY <1>1, <2>1, <2>2, <2>3, <2>4 DEF Events, HistoryKept, PendingOrdered
<1>3. /\ o.next = n + 1 /\ t = Newest(MaxRows, Append(s, event))
      /\ q = IF PassesFilters(m, event) THEN Append(p, event) ELSE p
      /\ o.rows = m.rows /\ o.raw = m.raw /\ o.level = m.level /\ ~o.paused /\ o.rebuild = m.rebuild
      /\ o.again = m.again
  BY <1>1 DEF LogRecord
<1>4. /\ t \in Seq(Events) /\ KeptOf(MaxRows, Append(s, event), t)
      /\ Increasing(t) /\ Len(t) <= MaxRows
      /\ \A h \in DOMAIN t : t[h].id <= event.id
      /\ \A h \in DOMAIN t : t[h] = event \/ \E g \in DOMAIN s : t[h] = s[g]
      /\ \A h \in DOMAIN t, g \in DOMAIN s :
           s[g].id >= t[h].id => \E f \in DOMAIN t : t[f] = s[g]
  <2>1. HistoryWith(s, event, t) BY <1>1, <1>3, HistoryAfter
  <2> HIDE DEF s, t
  <2> QED BY <2>1 DEF HistoryWith
<1>5. event \in {t[h] : h \in DOMAIN t}
  <2>1. Len(t) \in DOMAIN t /\ t[Len(t)] = event
    <3>1. Len(t) \in 1..Len(s) + 1 /\ t[Len(t)] = event BY <1>2, <1>4, HistoryIs
    <3> QED BY <1>4, <3>1
  <2> QED BY <2>1
<1>6. q \in Seq(Events) BY <1>2, <1>3
<1>7. o \in LogRecord
  <2>1. o = [m EXCEPT !.next = n + 1, !.history = t, !.pending = q]
    <3>1. o = [m EXCEPT !.next = n + 1, !.history = Newest(MaxRows, Append(s, event)),
                        !.pending = IF PassesFilters(m, event) THEN Append(p, event) ELSE p]
      OBVIOUS
    <3> QED BY <1>3, <3>1
  <2>2. n + 1 \in Nat BY <1>2
  <2> HIDE DEF t, q, n, s, p
  <2> QED BY <1>1, <1>4, <1>6, <2>1, <2>2 DEF LogRecord
<1>8. \A e : PassesFilters(o, e) = PassesFilters(m, e) BY Zenon, <1>3 DEF PassesFilters
<1>9. ASSUME NEW k \in DOMAIN q
      PROVE  \/ k \in DOMAIN p /\ q[k] = p[k]
             \/ q[k] = event /\ PassesFilters(m, event) /\ k = Len(p) + 1 
  BY <1>2, <1>3
<1>10. \A k \in DOMAIN p : k \in DOMAIN q /\ q[k] = p[k] BY <1>2, <1>3
<1>11. PassesFilters(m, event) => event.id \in IdsOf(q)
  <2>1. PassesFilters(m, event) => Len(p) + 1 \in DOMAIN q /\ q[Len(p) + 1] = event BY <1>2, <1>3
  <2> QED BY <2>1 DEF IdsOf
<1>12. IdsOf(p) \subseteq IdsOf(q) BY <1>10 DEF IdsOf
<1>13. IdsOf(q) = IF PassesFilters(m, event) THEN IdsOf(p) \cup {event.id} ELSE IdsOf(p)
  <2>1. ASSUME NEW k \in DOMAIN q
        PROVE  q[k].id \in IF PassesFilters(m, event) THEN IdsOf(p) \cup {event.id} ELSE IdsOf(p)
    <3>1. k \in DOMAIN p /\ q[k] = p[k] => q[k].id \in IdsOf(p) BY DEF IdsOf
    <3> QED BY <1>9, <3>1
  <2>2. IdsOf(q) \subseteq IF PassesFilters(m, event) THEN IdsOf(p) \cup {event.id} ELSE IdsOf(p)
    BY <2>1 DEF IdsOf
  <2> QED BY <1>11, <1>12, <2>2
<1> HIDE DEF s, t, p, q, n
<1>14. HistoryKept(o)
  <2>1. \A h \in DOMAIN t : t[h].id < n + 1
    <3>1. \A h \in DOMAIN t : t[h] \in Events BY <1>4
    <3> QED BY <1>2, <1>4, <3>1 DEF Events, n
  <2> QED BY <1>3, <1>4, <2>1 DEF HistoryKept, t
<1>15. PendingOrdered(o)
  <2>1. Increasing(q)
    <3> SUFFICES ASSUME NEW i \in DOMAIN q, NEW j \in DOMAIN q, i < j PROVE q[i].id < q[j].id
      BY DEF Increasing
    <3>1. Increasing(p) BY <1>1 DEF PendingOrdered, p
    <3>2. DOMAIN p = 1..Len(p) /\ Len(p) \in Nat /\ DOMAIN q \subseteq 1..Len(p) + 1 BY <1>2, <1>3
    <3>3. i \in DOMAIN p /\ q[i] = p[i] BY <1>9, <3>2
    <3>4. CASE j \in DOMAIN p /\ q[j] = p[j] BY <3>1, <3>3, <3>4 DEF Increasing
    <3>5. CASE q[j] = event BY <1>2, <3>3, <3>5 DEF n
    <3> QED BY <1>9, <3>4, <3>5
  <2>2. \A k \in DOMAIN q : q[k].id < n + 1 BY <1>2, <1>9 DEF n
  <2> QED BY <1>3, <2>1, <2>2 DEF PendingOrdered, q
<1>16. \A k \in DOMAIN q : PassesFilters(o, q[k])
  BY <1>1, <1>8, <1>9 DEF PendingKept, p
<1>17. ASSUME NEW k \in DOMAIN q, NEW h \in DOMAIN t, q[k].id >= t[h].id
       PROVE  \E g \in DOMAIN t : t[g] = q[k]
  <2>1. CASE q[k] = event BY <1>5, <2>1
  <2>2. CASE q[k] # event
    <3>1. k \in DOMAIN p /\ q[k] = p[k] BY <1>9, <2>2
    <3>2. t[h] # event BY <1>2, <1>17, <3>1 DEF n
    <3>3. PICK g \in DOMAIN s : t[h] = s[g] BY <1>4, <3>2
    <3>4. PICK f \in DOMAIN s : s[f] = p[k] BY <1>1, <1>17, <3>1, <3>3 DEF PendingKept, p, s
    <3>5. \E e \in DOMAIN t : t[e] = s[f] BY <1>4, <1>17, <3>1, <3>4
    <3> QED BY <3>1, <3>4, <3>5
  <2> QED BY <2>1, <2>2
<1>18. ASSUME NEW k \in DOMAIN q, NEW h \in DOMAIN t, PassesFilters(o, t[h]), t[h].id >= q[k].id
       PROVE  t[h].id \in IdsOf(q)
  <2>1. CASE t[h] = event BY <1>8, <1>11, <1>18, <2>1
  <2>2. CASE t[h] # event
    <3>1. PICK g \in DOMAIN s : t[h] = s[g] BY <1>4, <2>2
    <3>2. q[k] # event BY <1>2, <1>18, <3>1 DEF n
    <3>3. k \in DOMAIN p /\ q[k] = p[k] BY <1>9, <3>2
    <3>4. s[g].id \in IdsOf(p) BY <1>1, <1>8, <1>18, <3>1, <3>3 DEF PendingKept, p, s
    <3> QED BY <1>12, <3>1, <3>4
  <2> QED BY <2>1, <2>2
<1>19. PendingKept(o) BY <1>3, <1>15, <1>16, <1>17, <1>18 DEF PendingKept, q, t
<1>20. RowsKept(o)
  <2>1. \A i \in DOMAIN m.rows : m.rows[i] \in Seq(Nat) BY <1>1 DEF LogRecord, Rows
  <2>2. ASSUME NEW i \in DOMAIN m.rows, NEW x \in ToSet(m.rows[i]) PROVE x < n + 1
    <3>1. x \in Nat /\ x < n BY <1>1, <2>1, RowIds DEF RowsKept, n
    <3> QED BY <1>2, <3>1
  <2> QED BY <1>1, <1>3, <2>2 DEF RowsKept
<1>21. ViewKept(o)
  <2> DEFINE rows == m.rows
             P == IdsOf(p)
             Q == IdsOf(q)
             again == m.again
  <2>1. PICK d \in 0..Len(rows) :
          Laid(rows, P, d, again) /\ (~m.rebuild => Complete(m, rows, P, d))
    BY <1>1 DEF ViewKept, p
  <2>2. rows \in Rows /\ 0 \in Nat /\ IsFiniteSet(again) BY <1>1 DEF LogRecord, ViewKept
  <2>3. \A x \in Fresh(rows, P, 0) : x < event.id BY <1>1, <2>2, FreshAll DEF p
  <2>4. P \in SUBSET Nat BY <1>2 DEF IdsOf
  <2>5. \A h \in DOMAIN s : s[h].id < event.id BY <1>2 DEF n
  <2>6. Increasing(s) BY <1>1 DEF HistoryKept, s
  <2>7. Q = IF PassesFilters(m, event) THEN P \cup {event.id} ELSE P BY <1>13
  <2>8. IdsOf(o.pending) = Q BY DEF q
  <2> HIDE DEF P, Q, rows, again
  <2>9. Q = P \cup {event.id} \/ Q = P BY <2>7
  <2>10. Laid(rows, Q, d, again) BY <1>2, <2>1, <2>2, <2>3, <2>4, <2>9, LoggedLaid
  <2>11. m.history \in Seq(Events) /\ Increasing(m.history) /\ o.history \in Seq(Events)
         /\ KeptOf(MaxRows, Append(m.history, event), o.history)
         /\ \A h \in DOMAIN m.history : m.history[h].id < event.id
    BY <1>2, <1>4, <2>5, <2>6 DEF s, t
  <2>12. ASSUME Complete(m, rows, P, d) PROVE Complete(o, rows, Q, d)
    BY <1>3, <2>1, <2>2, <2>3, <2>4, <2>7, <2>11, <2>12, LoggedComplete
  <2> QED BY <1>3, <2>1, <2>2, <2>8, <2>10, <2>12 DEF ViewKept, rows, again
<1> QED BY <1>7, <1>14, <1>19, <1>20, <1>21 DEF LogInv

\* A row of its own for one event.
LEMMA OneRow ==
  ASSUME NEW id \in Nat
  PROVE  <<<<id>>>> \in Rows /\ RowsOf(<<<<id>>>>, {id}) /\ ToSet(<<<<id>>>>[1]) = {id} /\ DOMAIN <<<<id>>>> = {1}
<1> DEFINE row == <<id>>
           C == <<row>>
<1>1. row \in Seq(Nat) /\ row # <<>> /\ ToSet(row) = {id} BY DEF ToSet
<1> HIDE DEF row
<1>2. C \in Rows /\ DOMAIN C = {1} /\ C[1] = row /\ Len(C) = 1 BY <1>1 DEF Rows
<1> HIDE DEF C
<1>3. Apart(C, 0) BY <1>2 DEF Apart
<1>4. RowsOf(C, {id}) BY <1>1, <1>2, <1>3 DEF RowsOf
<1> QED BY <1>1, <1>2, <1>4 DEF C, row

\* A connection's event: what waits is shown, and it after that.
LEMMA ShowKept ==
  ASSUME NEW m, LogInv(m), ~m.paused, NEW event \in Events, event.id = m.next, PassesFilters(m, event),
         NEW k, k = [m EXCEPT !.next = @ + 1, !.history = Newest(MaxRows, Append(@, event))],
         NEW r, r = [Flushed(k) EXCEPT !.rows = AppendEntries(@, <<<<event.id>>>>)]
  PROVE  LogInv(r)
<1> DEFINE o == [m EXCEPT !.next = @ + 1, !.history = Newest(MaxRows, Append(@, event)),
                   !.pending = IF PassesFilters(m, event) THEN Append(@, event) ELSE @]
           p == m.pending
           C == Collapse(k, p)
           f == Flushed(k)
           one == <<<<event.id>>>>
           P == IdsOf(p)
           all == m.rows \o C
           id == event.id
           n == k.next
<1>1. LogInv(o) BY WaitKept
<1>2. m \in LogRecord /\ PendingKept(m) /\ PendingOrdered(m) BY DEF LogInv, PendingKept
<1>3. /\ o \in LogRecord /\ o.pending = Append(p, event) /\ o.rows = m.rows /\ o.paused = m.paused
      /\ o.rebuild = m.rebuild /\ o.again = m.again
      /\ HistoryKept(o) /\ PendingOrdered(o) /\ RowsKept(o) /\ ViewKept(o)
  BY <1>1, <1>2 DEF LogInv, PendingKept, LogRecord
<1>4. k = [o EXCEPT !.pending = p] /\ p \in Seq(Events) BY <1>2 DEF LogRecord
<1> HIDE DEF o
<1>5. /\ k \in LogRecord /\ k.pending = p /\ k.rows = m.rows /\ k.paused = m.paused /\ k.rebuild = m.rebuild
      /\ k.history = o.history /\ k.raw = o.raw /\ k.level = o.level /\ k.next = o.next
      /\ k.raw = m.raw /\ k.level = m.level /\ k.again = o.again
  <2>1. k \in LogRecord BY <1>3, <1>4 DEF LogRecord
  <2>2. /\ k.pending = p /\ k.rows = m.rows /\ k.paused = m.paused /\ k.rebuild = m.rebuild
        /\ k.history = o.history /\ k.raw = o.raw /\ k.level = o.level /\ k.next = o.next
        /\ k.again = o.again
    BY <1>3, <1>4 DEF LogRecord
  <2>3. k.raw = m.raw /\ k.level = m.level BY <1>2 DEF LogRecord
  <2> QED BY <2>1, <2>2, <2>3
<1>6. /\ id \in Nat /\ n \in Nat /\ n = id + 1 /\ \A i \in DOMAIN p : p[i].id < id /\ p[i].id \in Nat
  <2>1. \A i \in DOMAIN p : p[i] \in Events BY <1>4
  <2>2. id \in Nat /\ \A i \in DOMAIN p : p[i].id \in Nat BY <2>1 DEF Events
  <2>3. \A i \in DOMAIN p : p[i].id < id BY <1>2 DEF PendingOrdered
  <2>4. n \in Nat /\ n = m.next + 1 BY <1>2, <1>5 DEF LogRecord
  <2> QED BY <2>2, <2>3, <2>4
<1>7. HistoryKept(k) /\ RowsKept(k) BY <1>3, <1>5 DEF HistoryKept, RowsKept
<1>8. PendingOrdered(k)
  <2>1. \A i \in DOMAIN p : p[i].id < n BY <1>6
  <2> QED BY <1>2, <1>5, <2>1 DEF PendingOrdered
<1>9. /\ f \in LogRecord /\ HistoryKept(f) /\ PendingKept(f) /\ RowsKept(f) /\ f.pending = <<>>
      /\ C \in Rows /\ RowsOf(C, IdsOf(Passing(k, p))) /\ KeptOf(MaxRows, all, f.rows) /\ all \in Rows
  BY <1>5, <1>7, <1>8, FlushedShape
<1>10. f = [k EXCEPT !.rows = AppendEntries(@, C), !.pending = <<>>] BY <1>5 DEF Flushed
<1>11. /\ f.history = k.history /\ f.raw = k.raw /\ f.level = k.level /\ f.paused = k.paused
       /\ f.rebuild = k.rebuild /\ f.next = n /\ f.again = k.again
  BY <1>5, <1>10 DEF LogRecord
<1>12. one \in Rows /\ RowsOf(one, {id}) /\ \A i \in DOMAIN one : \A x \in ToSet(one[i]) : x = id
  BY <1>6, OneRow
<1> HIDE DEF f, C, one, all, id, n
<1>13. /\ AppendEntries(f.rows, one) \in Rows /\ KeptOf(MaxRows, f.rows \o one, AppendEntries(f.rows, one))
       /\ f.rows \o one \in Rows /\ Len(AppendEntries(f.rows, one)) <= MaxRows
       /\ \A i \in DOMAIN AppendEntries(f.rows, one) : \A x \in ToSet(AppendEntries(f.rows, one)[i]) : x < n
  <2>1. f.rows \in Rows BY <1>9 DEF LogRecord
  <2>2. \A i \in DOMAIN f.rows : \A x \in ToSet(f.rows[i]) : x < n BY <1>9, <1>11 DEF RowsKept
  <2>3. \A i \in DOMAIN one : \A x \in ToSet(one[i]) : x < n BY <1>6, <1>12
  <2> QED BY <1>6, <1>12, <2>1, <2>2, <2>3, RowsAfter
<1> DEFINE t == AppendEntries(f.rows, one)
<1>14. r = [f EXCEPT !.rows = t] BY DEF f, one, id
<1> HIDE DEF t
<1>15. /\ r \in LogRecord /\ r.rows = t /\ r.pending = <<>> /\ r.history = f.history /\ r.raw = f.raw
       /\ r.level = f.level /\ r.paused = f.paused /\ r.rebuild = f.rebuild /\ r.next = f.next
       /\ r.again = f.again
  <2>1. r \in LogRecord BY <1>9, <1>13, <1>14 DEF LogRecord, t
  <2> QED BY <1>9, <1>14, <2>1 DEF LogRecord
<1>16. HistoryKept(r) BY <1>9, <1>15 DEF HistoryKept
<1>17. PendingKept(r) BY <1>15, NothingPending
<1>18. RowsKept(r) BY <1>11, <1>13, <1>15 DEF RowsKept, t
<1>19. ViewKept(r)
  <2>1. IdsOf(o.pending) = P \cup {id}
    <3>1. /\ DOMAIN Append(p, event) = 1..Len(p) + 1 /\ DOMAIN p = 1..Len(p) /\ Len(p) \in Nat
          /\ Append(p, event)[Len(p) + 1] = event /\ \A i \in 1..Len(p) : Append(p, event)[i] = p[i]
      BY <1>4
    <3> DEFINE u == Append(p, event)
    <3> HIDE DEF u, P, p
    <3>2. \A i \in DOMAIN u : i \in 1..Len(p) \/ i = Len(p) + 1 BY <3>1 DEF u
    <3>3. \A i \in 1..Len(p) : i \in DOMAIN u BY <3>1 DEF u
    <3>4. Len(p) + 1 \in DOMAIN u BY <3>1 DEF u
    <3>5. IdsOf(u) \subseteq IdsOf(p) \cup {id} BY <3>1, <3>2 DEF IdsOf, u, id
    <3>6. IdsOf(p) \cup {id} \subseteq IdsOf(u) BY <3>1, <3>3, <3>4 DEF IdsOf, u, id
    <3> QED BY <1>3, <3>5, <3>6 DEF u, P
  <2> DEFINE again == o.again
             rows == m.rows
             one1 == {id}
             none == {}
             mid == f.rows
  <2>2. PICK d \in 0..Len(rows) :
          Laid(rows, P \cup one1, d, again)
          /\ (~o.paused /\ ~o.rebuild => Complete(o, rows, P \cup one1, d))
    BY <1>3, <2>1 DEF ViewKept
  <2>3. IsFiniteSet(r.again) /\ r.again = again BY <1>3, <1>5, <1>11, <1>15 DEF ViewKept
  <2>4. IdsOf(Passing(k, p)) = P
    <3>1. \A e : PassesFilters(k, e) = PassesFilters(m, e) BY Zenon, <1>5 DEF PassesFilters
    <3>2. \A i \in DOMAIN p : PassesFilters(k, p[i]) BY <1>2, <3>1 DEF PendingKept
    <3> QED BY <1>4, <3>2, PassingAll
  <2>5. \A x \in P, y \in one1 : x < y BY <1>6 DEF IdsOf
  <2>6. /\ rows \in Rows /\ C \in Rows /\ RowsOf(C, P) /\ rows \o C \in Rows /\ mid \in Rows
        /\ KeptOf(MaxRows, rows \o C, mid)
    BY <1>2, <1>9, <2>4 DEF LogRecord, all
  <2>7. one1 \in SUBSET Nat /\ none \in SUBSET Nat /\ one1 \cup none = one1 BY <1>6
  <2>8. /\ one \in Rows /\ RowsOf(one, one1) /\ mid \o one \in Rows /\ t \in Rows
        /\ KeptOf(MaxRows, mid \o one, t)
    BY <1>12, <1>13 DEF t
  <2>9. \A x \in one1, y \in none : x < y OBVIOUS
  <2>10. IdsOf(r.pending) = none BY <1>15, NothingPending
  <2>11. k.history = o.history /\ k.raw = o.raw /\ k.level = o.level BY <1>5
  <2>12. r.history = k.history /\ r.raw = k.raw /\ r.level = k.level BY <1>11, <1>15
  <2>13. ~r.paused /\ ~r.rebuild => ~o.paused /\ ~o.rebuild BY <1>3, <1>5, <1>11, <1>15
  <2> HIDE DEF P, again, rows, one1, none, mid
  <2>14. Complete(o, rows, P \cup one1, d) => Complete(k, rows, P \cup one1, d)
    BY <2>11, CompleteSame
  <2>15. PICK e \in 0..Len(mid) :
           Laid(mid, one1, e, again) /\ (Complete(k, rows, P \cup one1, d) => Complete(k, mid, one1, e))
    BY <2>2, <2>5, <2>6, <2>7, FlushedView
  <2>16. Laid(mid, one1 \cup none, e, again) BY <2>7, <2>15
  <2>17. PICK g \in 0..Len(t) :
           Laid(t, none, g, again) /\ (Complete(k, mid, one1 \cup none, e) => Complete(k, t, none, g))
    BY <2>6, <2>7, <2>8, <2>9, <2>16, FlushedView
  <2>18. Complete(k, t, none, g) => Complete(r, t, none, g) BY ONLY <2>12, CompleteSame
  <2>19. ~r.paused /\ ~r.rebuild => Complete(r, t, none, g)
    BY <2>2, <2>7, <2>13, <2>14, <2>15, <2>17, <2>18
  <2> QED BY <1>15, <2>3, <2>10, <2>17, <2>19 DEF ViewKept
<1> QED BY <1>15, <1>16, <1>17, <1>18, <1>19 DEF LogInv

\* An event in the history while the view stands still.
LEMMA PausedKept ==
  ASSUME NEW m, LogInv(m), m.paused, NEW event \in Events, event.id = m.next,
         NEW o, o = [m EXCEPT !.next = @ + 1, !.history = Newest(MaxRows, Append(@, event)),
                       !.pausedCount = @ + 1]
  PROVE  LogInv(o)
<1> DEFINE t == Newest(MaxRows, Append(m.history, event))
<1>1. m \in LogRecord /\ HistoryKept(m) /\ RowsKept(m) /\ ViewKept(m) /\ m.pending = <<>>
  BY DEF LogInv, PendingKept
<1>2. HistoryWith(m.history, event, t) BY <1>1, HistoryAfter
<1> HIDE DEF t
<1>3. t \in Seq(Events) /\ Increasing(t) /\ Len(t) <= MaxRows /\ \A h \in DOMAIN t : t[h].id <= event.id
  BY <1>2 DEF HistoryWith
<1>4. m.next \in Nat /\ m.pausedCount \in Nat BY <1>1 DEF LogRecord
<1>5. o = [m EXCEPT !.next = @ + 1, !.history = t, !.pausedCount = @ + 1] BY DEF t
<1>6. o \in LogRecord
  <2>1. m.next + 1 \in Nat /\ m.pausedCount + 1 \in Nat BY <1>4
  <2> QED BY <1>1, <1>3, <1>5, <2>1 DEF LogRecord
<1>7. /\ o.next = m.next + 1 /\ o.history = t /\ o.pending = <<>> /\ o.rows = m.rows /\ o.paused
      /\ o.again = m.again
  BY <1>1, <1>5 DEF LogRecord
<1>8. HistoryKept(o)
  <2>1. \A h \in DOMAIN t : t[h] \in Events BY <1>3
  <2>2. \A h \in DOMAIN t : t[h].id < m.next + 1 BY <1>3, <1>4, <2>1 DEF Events
  <2> QED BY <1>3, <1>7, <2>2 DEF HistoryKept
<1>9. RowsKept(o)
  <2>1. \A i \in DOMAIN m.rows : m.rows[i] \in Seq(Nat) BY <1>1 DEF LogRecord, Rows
  <2>2. ASSUME NEW i \in DOMAIN m.rows, NEW x \in ToSet(m.rows[i]) PROVE x < m.next + 1
    <3>1. x \in Nat /\ x < m.next BY <1>1, <2>1, RowIds DEF RowsKept
    <3> QED BY <1>4, <3>1
  <2> QED BY <1>1, <1>7, <2>2 DEF RowsKept
<1>10. PICK d \in 0..Len(m.rows) : Laid(m.rows, IdsOf(m.pending), d, m.again) BY <1>1 DEF ViewKept
<1>11. Laid(o.rows, IdsOf(o.pending), d, o.again) /\ IsFiniteSet(o.again)
  BY <1>1, <1>7, <1>10 DEF ViewKept
<1>12. PendingKept(o) BY <1>7, NothingPending
<1> QED BY <1>6, <1>7, <1>8, <1>9, <1>11, <1>12, Reshown

\* appendEvent() keeps the invariant: paused, hidden, a connection's event, or waiting.
LEMMA AppendKept ==
  ASSUME NEW m, LogInv(m), NEW kind \in Kinds
  PROVE  LogInv(AppendEvent(m, kind))
<1> DEFINE event == [id |-> m.next, kind |-> kind]
           kept == [m EXCEPT !.next = @ + 1, !.history = Newest(MaxRows, Append(@, event))]
<1>1. m \in LogRecord BY DEF LogInv
<1>2. event \in Events /\ event.id = m.next /\ event.kind = kind BY <1>1 DEF LogRecord, Events
<1>3. AppendEvent(m, kind) =
        IF m.paused THEN [kept EXCEPT !.pausedCount = @ + 1]
        ELSE IF ~PassesFilters(kept, event) THEN kept
        ELSE IF kind = "connection"
        THEN [Flushed(kept) EXCEPT !.rows = AppendEntries(@, <<<<event.id>>>>)]
        ELSE [kept EXCEPT !.pending = Append(@, event)]
  BY DEF AppendEvent
<1>4. kept.raw = m.raw /\ kept.level = m.level BY <1>1 DEF LogRecord
<1>5. PassesFilters(kept, event) = PassesFilters(m, event) BY Zenon, <1>4 DEF PassesFilters
<1> HIDE DEF event
<1>6. CASE m.paused
  <2>1. [kept EXCEPT !.pausedCount = @ + 1] =
          [m EXCEPT !.next = @ + 1, !.history = Newest(MaxRows, Append(@, event)), !.pausedCount = @ + 1]
    BY <1>1 DEF LogRecord
  <2> HIDE DEF kept
  <2> QED BY <1>2, <1>3, <1>6, <2>1, PausedKept
<1>7. CASE ~m.paused /\ ~PassesFilters(m, event)
  <2>1. kept = [m EXCEPT !.next = @ + 1, !.history = Newest(MaxRows, Append(@, event)),
                  !.pending = IF PassesFilters(m, event) THEN Append(@, event) ELSE @]
    BY <1>1, <1>7 DEF LogRecord
  <2> HIDE DEF kept
  <2> QED BY <1>2, <1>3, <1>5, <1>7, <2>1, WaitKept
<1>8. CASE ~m.paused /\ PassesFilters(m, event) /\ kind = "connection"
  <2>1. LogInv([Flushed(kept) EXCEPT !.rows = AppendEntries(@, <<<<event.id>>>>)])
    BY <1>2, <1>8, ShowKept
  <2> HIDE DEF kept
  <2> QED BY <1>3, <1>5, <1>8, <2>1
<1>9. CASE ~m.paused /\ PassesFilters(m, event) /\ kind # "connection"
  <2>1. [kept EXCEPT !.pending = Append(@, event)] =
          [m EXCEPT !.next = @ + 1, !.history = Newest(MaxRows, Append(@, event)),
                  !.pending = IF PassesFilters(m, event) THEN Append(@, event) ELSE @]
    BY <1>1, <1>9 DEF LogRecord
  <2> HIDE DEF kept
  <2> QED BY <1>2, <1>3, <1>5, <1>9, <2>1, WaitKept
<1> QED BY <1>6, <1>7, <1>8, <1>9

\* The rows after a rebuild: one for each event of the history that the filters let
\* through.  Those that wait are shown with them, and again when they are flushed.
LEMMA RebuiltKept ==
  ASSUME NEW m, LogInv(m),
         NEW o, o = [m EXCEPT !.rebuild = FALSE, !.rows = RowsFor(m, Visible(m)),
                              !.again = IdsIn(Visible(m)) \cap IdsIn(m.pending)]
  PROVE  LogInv(o)
<1> DEFINE s == m.history
           v == Visible(m)
           t == RowsFor(m, v)
           P == IdsOf(m.pending)
           V == IdsOf(v)
           l == Len(v)
<1>1. m \in LogRecord /\ HistoryKept(m) /\ PendingKept(m) BY DEF LogInv
<1>2. s \in Seq(Events) /\ m.pending \in Seq(Events) /\ MaxRows \in Nat /\ m.next \in Nat
  BY <1>1, MonitorBounds DEF LogRecord
<1>3. /\ v \in Seq(Events) /\ l <= Len(s)
      /\ \A k \in DOMAIN v : PassesFilters(m, v[k]) /\ \E i \in DOMAIN s : s[i] = v[k]
      /\ \A i \in DOMAIN s : PassesFilters(m, s[i]) => \E k \in DOMAIN v : v[k] = s[i]
      /\ Increasing(v)
  BY <1>1, <1>2, PassingIs DEF Visible, HistoryKept
<1> HIDE DEF v
<1>4. l \in Nat /\ DOMAIN v = 1..l /\ \A k \in 1..l : v[k].id \in Nat
  <2>1. \A k \in 1..l : v[k] \in Events BY <1>3
  <2> QED BY <1>3, <2>1 DEF Events
<1>5. \A k \in 1..l : <<v[k].id>> \in Seq(Nat) /\ ToSet(<<v[k].id>>) = {v[k].id} /\ <<v[k].id>> # <<>>
  BY <1>4 DEF ToSet
<1>6. t \in Rows /\ Len(t) = l /\ DOMAIN t = 1..l /\ \A k \in 1..l : t[k] = <<v[k].id>>
  <2>1. t = [k \in 1..l |-> <<v[k].id>>] BY <1>4 DEF RowsFor
  <2>2. t \in [1..l -> Seq(Nat)] BY <1>5, <2>1
  <2> HIDE DEF t
  <2>3. t \in Rows BY <1>4, <2>2, SeqDef DEF Rows
  <2>4. DOMAIN t = 1..l BY <2>1
  <2>5. Len(t) = l BY <1>4, <2>3, <2>4 DEF Rows
  <2>6. \A k \in 1..l : t[k] = <<v[k].id>> BY <2>1
  <2> QED BY <2>3, <2>4, <2>5, <2>6
<1> HIDE DEF t, l
<1>7. \A k \in 1..l : t[k] # <<>> /\ ToSet(t[k]) = {v[k].id} BY <1>5, <1>6
<1>8. IdsIn(v) = V /\ IdsIn(m.pending) = P BY DEF IdsIn, IdsOf
<1>9. V \subseteq Nat BY <1>4 DEF IdsOf
<1>10. IsFiniteSet(V \cap P)
  <2>1. \A k \in DOMAIN m.pending : m.pending[k] \in Events BY <1>2
  <2>2. \A x \in P : x \in Nat /\ x < m.next BY <1>1, <2>1 DEF PendingKept, PendingOrdered, IdsOf, Events
  <2>3. 0 \in Int /\ m.next \in Int BY <1>2
  <2>4. IsFiniteSet(0..m.next) BY <2>3, FS_Interval
  <2>5. V \cap P \in SUBSET (0..m.next) BY <1>2, <2>2
  <2> QED BY <2>4, <2>5, FS_Subset
<1> HIDE DEF P, V
<1>11. o = [m EXCEPT !.rebuild = FALSE, !.rows = t, !.again = V \cap P] BY <1>8 DEF t, v
<1>12. /\ o \in LogRecord /\ o.rows = t /\ o.pending = m.pending /\ o.history = s /\ o.paused = m.paused
      /\ o.raw = m.raw /\ o.level = m.level /\ o.next = m.next /\ o.again = V \cap P
  <2>1. V \cap P \in SUBSET Nat BY <1>9
  <2>2. o \in LogRecord BY <1>1, <1>6, <1>11, <2>1 DEF LogRecord
  <2> QED BY <1>1, <1>11, <2>2 DEF LogRecord
<1>13. \A e : PassesFilters(o, e) = PassesFilters(m, e) BY Zenon, <1>12 DEF PassesFilters
<1>14. HistoryKept(o) BY <1>1, <1>12 DEF HistoryKept
<1>15. PendingKept(o)
  <2>1. PendingOrdered(o) BY <1>1, <1>12 DEF PendingKept, PendingOrdered
  <2> QED BY <1>1, <1>12, <1>13, <2>1 DEF PendingKept
<1>16. RowsKept(o)
  <2>1. l <= MaxRows
    <3>1. Len(s) \in Nat /\ Len(s) <= MaxRows BY <1>1, <1>2 DEF HistoryKept
    <3> QED BY <1>2, <1>3, <1>4, <3>1 DEF l
  <2>2. \A k \in 1..l : v[k].id < m.next BY <1>1, <1>3, <1>4 DEF HistoryKept
  <2> QED BY <1>6, <1>7, <1>12, <2>1, <2>2 DEF RowsKept
<1>17. Ascending(t, l)
  <2> SUFFICES ASSUME NEW i \in 1..l, NEW j \in 1..l, i < j, NEW x \in ToSet(t[i]), NEW y \in ToSet(t[j])
               PROVE  x < y
    BY DEF Ascending
  <2>1. x = v[i].id /\ y = v[j].id BY <1>7
  <2> QED BY <1>3, <1>4, <2>1 DEF Increasing
<1>18. Old(t, l) = V
  <2>1. ASSUME NEW x PROVE x \in Old(t, l) <=> \E k \in 1..l : x = v[k].id
    <3>1. x \in Old(t, l) <=> \E k \in 1..l : x \in ToSet(t[k]) BY OldIs
    <3>2. \A k \in 1..l : x \in ToSet(t[k]) <=> x = v[k].id BY <1>7
    <3> QED BY <3>1, <3>2
  <2>2. \A x : x \in V <=> \E k \in 1..l : x = v[k].id BY <1>4 DEF V, IdsOf
  <2> QED BY <2>1, <2>2
<1>19. l \in 0..Len(t) /\ \A i \in l + 1..Len(t) : FALSE BY <1>4, <1>6
<1>20. Fresh(t, P, l) = P
  <2>1. \A x : x \in Fresh(t, P, l) <=> x \in P BY <1>19, FreshIs
  <2> QED BY <2>1
<1>21. Fresh(t, P, 0) = V \cup P BY <1>6, <1>18, <1>19, <1>20, FreshAndOld
<1>22. Apart(t, l) /\ Before(t, P, l) BY <1>19 DEF Apart, Before
<1>23. Laid(t, P, l, V \cap P) BY <1>6, <1>7, <1>17, <1>18, <1>19, <1>20, <1>22 DEF Laid
<1>24. ASSUME NEW x \in V
       PROVE  \E g \in DOMAIN s : s[g].id = x /\ PassesFilters(m, s[g])
  <2>1. PICK k \in DOMAIN v : v[k].id = x BY <1>24 DEF V, IdsOf
  <2> QED BY <1>3, <2>1
<1>25. ASSUME NEW x \in P
       PROVE  \E k \in DOMAIN m.pending : m.pending[k].id = x
  BY <1>25 DEF P, IdsOf
<1>26. Joined(t, P, l)
  <2> SUFFICES ASSUME NEW x \in P, NEW y \in V, y >= x PROVE y \in P
    BY <1>18, <1>20 DEF Joined
  <2>1. PICK g \in DOMAIN s : s[g].id = y /\ PassesFilters(m, s[g]) BY <1>24
  <2>2. PICK k \in DOMAIN m.pending : m.pending[k].id = x BY <1>25
  <2> QED BY <1>1, <2>1, <2>2 DEF PendingKept, P
<1>27. Known(o, V \cup P)
  <2> SUFFICES ASSUME NEW x \in V \cup P, NEW h \in DOMAIN s, x >= s[h].id
               PROVE  \E g \in DOMAIN s : s[g].id = x /\ PassesFilters(m, s[g])
    BY <1>12, <1>13 DEF Known
  <2>1. CASE x \in V BY <1>24, <2>1
  <2>2. CASE x \in P
    <3>1. PICK k \in DOMAIN m.pending : m.pending[k].id = x BY <1>25, <2>2
    <3>2. PICK g \in DOMAIN s : s[g] = m.pending[k] BY <1>1, <3>1 DEF PendingKept
    <3> QED BY <1>1, <3>1, <3>2 DEF PendingKept
  <2> QED BY <2>1, <2>2
<1>28. Whole(o, V \cup P)
  <2> SUFFICES ASSUME NEW h \in DOMAIN s, PassesFilters(m, s[h]) PROVE s[h].id \in V
    BY <1>12, <1>13 DEF Whole
  <2>1. PICK k \in DOMAIN v : v[k] = s[h] BY <1>3
  <2> QED BY <2>1 DEF V, IdsOf
<1>29. Above(o, V \cup P) BY <1>28 DEF Above, Whole
<1>30. Complete(o, t, P, l) BY <1>21, <1>26, <1>27, <1>28, <1>29 DEF Complete
<1>31. ViewKept(o) BY <1>12, <1>19, <1>23, <1>30, <1>10 DEF ViewKept, P
<1> QED BY <1>12, <1>14, <1>15, <1>16, <1>31 DEF LogInv

LEMMA LogStarts == TrafficInit => LogInv(log)
<1> SUFFICES ASSUME TrafficInit PROVE LogInv(log) OBVIOUS
<1>1. <<>> \in Seq(Events) /\ <<>> \in Rows BY DEF Rows
<1>2. log \in LogRecord BY <1>1 DEF TrafficInit, LogRecord
<1>3. log.history = <<>> /\ log.pending = <<>> /\ log.rows = <<>> /\ log.rebuild /\ log.again = {}
  BY DEF TrafficInit
<1>4. MaxRows \in Nat BY MonitorBounds
<1>5. HistoryKept(log) BY <1>3, <1>4 DEF HistoryKept, Increasing
<1>6. RowsKept(log) BY <1>3, <1>4 DEF RowsKept
<1>7. PendingKept(log) /\ IdsOf(log.pending) = {} BY <1>3, NothingPending
<1>8. Laid(log.rows, IdsOf(log.pending), 0, log.again) BY <1>3, <1>7, NoRows
<1>9. IsFiniteSet(log.again) BY <1>3, FS_EmptySet
<1> QED BY <1>2, <1>3, <1>5, <1>6, <1>7, <1>8, <1>9, Reshown

LEMMA TouchKept ==
  ASSUME LogInv(log)
  PROVE  LogInv(Touched)
<1> DEFINE n == log.touches + 1
<1>1. log \in LogRecord BY DEF LogInv
<1>5. n \in Nat /\ Touched = [log EXCEPT !.touches = n] BY <1>1 DEF LogRecord, Touched
<1>2. Touched \in LogRecord
  <2> HIDE DEF n
  <2> QED BY <1>1, <1>5 DEF LogRecord
<1>3. /\ Touched.history = log.history /\ Touched.pending = log.pending /\ Touched.rows = log.rows
      /\ Touched.raw = log.raw /\ Touched.level = log.level /\ Touched.next = log.next
      /\ Touched.paused = log.paused /\ Touched.rebuild = log.rebuild /\ Touched.again = log.again
  BY <1>1 DEF LogRecord, Touched
<1>4. log.next <= Touched.next /\ (Touched.paused => Touched.pending = <<>>)
  BY <1>1, <1>3 DEF LogInv, LogRecord, PendingKept
<1> QED BY <1>2, <1>3, <1>4, SameView

\* Other filters: what waits is shown, and the whole is about to be rebuilt.
LEMMA RefilterKept ==
  ASSUME NEW m, LogInv(m), NEW raw \in BOOLEAN, NEW level \in {"all", "error"},
         NEW o, o = [m EXCEPT !.raw = raw, !.level = level]
  PROVE  LogInv(Refiltered(o))
<1> DEFINE f == IF o.paused THEN o ELSE Flushed(o)
           r == [f EXCEPT !.rebuild = TRUE]
<1>1. m \in LogRecord /\ HistoryKept(m) /\ PendingKept(m) /\ PendingOrdered(m) /\ RowsKept(m) /\ ViewKept(m)
  BY DEF LogInv, PendingKept
<1>2. o \in LogRecord BY <1>1 DEF LogRecord
<1>3. /\ o.history = m.history /\ o.pending = m.pending /\ o.rows = m.rows /\ o.next = m.next
      /\ o.paused = m.paused /\ o.again = m.again
  BY <1>1 DEF LogRecord
<1>4. HistoryKept(o) /\ PendingOrdered(o) /\ RowsKept(o)
  BY <1>1, <1>3 DEF HistoryKept, PendingOrdered, RowsKept
<1>5. f \in LogRecord /\ HistoryKept(f) /\ RowsKept(f) /\ f.pending = <<>>
  <2>1. CASE o.paused BY <1>1, <1>2, <1>3, <1>4, <2>1 DEF PendingKept
  <2>2. CASE ~o.paused BY <1>2, <1>4, <2>2, FlushedShape
  <2> QED BY <2>1, <2>2
<1>6. PICK d \in 0..Len(o.rows) : Laid(o.rows, IdsOf(o.pending), d, o.again) BY <1>1, <1>3 DEF ViewKept
<1>7. IsFiniteSet(o.again) BY <1>1, <1>3 DEF ViewKept
<1>8. f.again = o.again /\ \E e \in 0..Len(f.rows) : Laid(f.rows, {}, e, o.again)
  <2>1. CASE o.paused
    <3>1. IdsOf(o.pending) = {} BY <1>1, <1>3, <2>1, NothingPending DEF PendingKept
    <3> QED BY <1>6, <2>1, <3>1
  <2>2. CASE ~o.paused
    <3> DEFINE C == Collapse(o, o.pending)
               Q == IdsOf(Passing(o, o.pending))
               P == IdsOf(o.pending)
               none == {}
               rows == o.rows
               t == Flushed(o).rows
               again == o.again
    <3>1. /\ Flushed(o) \in LogRecord /\ Flushed(o).again = o.again /\ C \in Rows /\ RowsOf(C, Q)
          /\ KeptOf(MaxRows, rows \o C, t) /\ rows \o C \in Rows
      BY <1>2, <1>4, FlushedShape
    <3>2. t \in Rows /\ rows \in Rows /\ o.pending \in Seq(Events) BY <1>2, <3>1 DEF LogRecord
    <3>3. Q \in SUBSET P BY <3>2, PassingAll
    <3>4. Laid(rows, P \cup none, d, again) BY <1>6
    <3>5. none \in SUBSET Nat /\ \A x \in P, y \in none : x < y OBVIOUS
    <3> HIDE DEF C, Q, P, none, rows, t, again
    <3>6. \E e \in 0..Len(t) : Laid(t, none, e, again)
      BY <3>1, <3>2, <3>3, <3>4, <3>5, FlushedView
    <3> QED BY <2>2, <3>1, <3>6 DEF none, t, again
  <2> QED BY <2>1, <2>2
<1>9. Refiltered(o) = r BY DEF Refiltered
<1> HIDE DEF f
<1>10. r \in LogRecord BY <1>5 DEF LogRecord
<1>11. /\ r.history = f.history /\ r.pending = <<>> /\ r.rows = f.rows /\ r.next = f.next /\ r.rebuild
      /\ r.again = f.again
  BY <1>5 DEF LogRecord
<1>12. HistoryKept(r) /\ RowsKept(r) BY <1>5, <1>11 DEF HistoryKept, RowsKept
<1> HIDE DEF r
<1>13. PendingKept(r) /\ IdsOf(r.pending) = {} BY <1>11, NothingPending
<1>14. PICK e : Laid(f.rows, {}, e, o.again) BY <1>8
<1>15. Laid(r.rows, IdsOf(r.pending), e, r.again) /\ IsFiniteSet(r.again)
  BY <1>11, <1>13, <1>14, <1>7, <1>8
<1> QED BY <1>9, <1>10, <1>11, <1>12, <1>13, <1>15, Reshown

LEMMA ChunksKept ==
  ASSUME NEW d, LogInv(d), NEW n \in Nat
  PROVE  LogInv([d EXCEPT !.chunks = n])
<1> DEFINE o == [d EXCEPT !.chunks = n]
<1>1. d \in LogRecord BY DEF LogInv
<1>2. o \in LogRecord BY <1>1 DEF LogRecord
<1>3. /\ o.history = d.history /\ o.pending = d.pending /\ o.rows = d.rows /\ o.rebuild = d.rebuild
      /\ o.raw = d.raw /\ o.level = d.level /\ o.next = d.next /\ o.paused = d.paused
      /\ o.again = d.again
  BY <1>1 DEF LogRecord
<1>4. d.next <= o.next /\ (o.paused => o.pending = <<>>)
  BY <1>1, <1>3 DEF LogRecord, LogInv, PendingKept
<1> HIDE DEF o
<1>5. LogInv(o) BY <1>2, <1>3, <1>4, SameView
<1> QED BY <1>5 DEF o

\* Every step of the traffic monitor keeps the invariant.
LEMMA LogSteps == LogInv(log) /\ [TrafficNext]_trafficVars => LogInv(log')
<1> SUFFICES ASSUME LogInv(log), [TrafficNext]_trafficVars PROVE LogInv(log') OBVIOUS
<1>0. log \in LogRecord /\ LogInv(Touched) BY TouchKept DEF LogInv
<1>1. CASE LogEvent
  <2>1. PICK kind \in Kinds : log' = AppendEvent(log, kind) BY <1>1 DEF LogEvent
  <2> QED BY <2>1, AppendKept
<1>2. CASE LogManualFrame
  <2>1. log' = AppendEvent(log, "frame") /\ "frame" \in Kinds BY <1>2 DEF LogManualFrame, Kinds
  <2> QED BY <2>1, AppendKept
<1>3. CASE LogPolledFrame
  <2>1. log' = AppendEvent(log, "frame") \/ log' = [log EXCEPT !.next = @ + 1]
    BY <1>3 DEF LogPolledFrame
  <2>2. CASE log' = AppendEvent(log, "frame")
    <3>1. "frame" \in Kinds BY DEF Kinds
    <3> QED BY <2>2, <3>1, AppendKept
  <2>3. CASE log' = [log EXCEPT !.next = @ + 1]
    <3> DEFINE o == [log EXCEPT !.next = @ + 1]
               n == log.next + 1
    <3>0. n \in Nat /\ log.next <= n /\ o = [log EXCEPT !.next = n] BY <1>0 DEF LogRecord
    <3>1. o \in LogRecord /\ log.next <= o.next
      <4> HIDE DEF n, o
      <4> QED BY <1>0, <3>0 DEF LogRecord
    <3>2. /\ o.history = log.history /\ o.pending = log.pending /\ o.rows = log.rows /\ o.raw = log.raw
          /\ o.level = log.level /\ o.paused = log.paused /\ o.rebuild = log.rebuild
          /\ o.again = log.again
      BY <1>0 DEF LogRecord
    <3>3. o.paused => o.pending = <<>> BY <3>2 DEF LogInv, PendingKept
    <3> HIDE DEF o
    <3>4. LogInv(o) BY <3>1, <3>2, <3>3, SameView
    <3> QED BY <2>3, <3>4 DEF o
  <2> QED BY <2>1, <2>2, <2>3
<1>4. CASE LogPollSummary
  <2>1. log' = AppendEvent(log, "info") /\ "info" \in Kinds BY <1>4 DEF LogPollSummary, Kinds
  <2> QED BY <2>1, AppendKept
<1>5. CASE FlushTimer BY <1>5, FlushKept DEF FlushTimer
<1>6. CASE Rebuild BY <1>6, RebuiltKept DEF Rebuild
<1>7. CASE PauseToggled
  <2>1. CASE log.paused
    <3> DEFINE o == Unpaused(Touched)
    <3>1. log' = o BY <1>7, <2>1 DEF PauseToggled
    <3>2. Touched \in LogRecord /\ Touched.paused BY <1>0, <2>1 DEF LogInv, LogRecord, Touched
    <3>3. o \in LogRecord BY <3>2 DEF LogRecord, Unpaused
    <3>4. /\ o.history = Touched.history /\ o.pending = Touched.pending /\ o.rows = Touched.rows
          /\ o.raw = Touched.raw /\ o.level = Touched.level /\ o.next = Touched.next /\ ~o.paused /\ o.rebuild
          /\ o.again = Touched.again
      BY <3>2 DEF LogRecord, Unpaused
    <3>5. Touched.next <= o.next BY <3>2, <3>4 DEF LogRecord
    <3> HIDE DEF o
    <3>6. LogInv(o) BY <1>0, <3>3, <3>4, <3>5, SameView
    <3> QED BY <3>1, <3>6
  <2>2. CASE ~log.paused
    <3> DEFINE f == Flushed(Touched)
               o == [f EXCEPT !.paused = TRUE, !.pausedCount = 0]
    <3>1. log' = o BY <1>7, <2>2 DEF PauseToggled
    <3>2. LogInv(f) BY <1>0, FlushKept
    <3>3. f.pending = <<>>
      <4>1. Touched \in LogRecord BY <1>0 DEF LogInv
      <4> QED BY <4>1 DEF Flushed, LogRecord
    <3> HIDE DEF f
    <3>4. f \in LogRecord BY <3>2 DEF LogInv
    <3>5. o \in LogRecord BY <3>4 DEF LogRecord
    <3>6. /\ o.history = f.history /\ o.pending = f.pending /\ o.rows = f.rows
          /\ o.raw = f.raw /\ o.level = f.level /\ o.next = f.next /\ o.paused
          /\ o.again = f.again
      BY <3>4 DEF LogRecord
    <3>7. f.next <= o.next BY <3>4, <3>6 DEF LogRecord
    <3> HIDE DEF o
    <3>8. LogInv(o) BY <3>2, <3>3, <3>5, <3>6, <3>7, SameView
    <3> QED BY <3>1, <3>8
  <2> QED BY <2>1, <2>2
<1>8. CASE RawToggled
  <2> DEFINE t == Touched
  <2>1. log' = Refiltered([t EXCEPT !.raw = ~@]) BY <1>8 DEF RawToggled
  <2>2. LogInv(t) /\ t \in LogRecord BY <1>0 DEF LogInv
  <2> HIDE DEF t
  <2>3. (~t.raw) \in BOOLEAN /\ t.level \in {"all", "error"} BY <2>2 DEF LogRecord
  <2>4. [t EXCEPT !.raw = ~@] = [t EXCEPT !.raw = ~t.raw, !.level = t.level] BY <2>2 DEF LogRecord
  <2>5. LogInv(Refiltered([t EXCEPT !.raw = ~@])) BY <2>2, <2>3, <2>4, RefilterKept
  <2> QED BY <2>1, <2>5
<1>9. CASE LevelChanged
  <2> DEFINE t == Touched
             other == IF t.level = "all" THEN "error" ELSE "all"
  <2>1. log' = Refiltered([t EXCEPT !.level = other]) BY <1>9 DEF LevelChanged
  <2>2. LogInv(t) /\ t \in LogRecord BY <1>0 DEF LogInv
  <2>3. other \in {"all", "error"} OBVIOUS
  <2> HIDE DEF t, other
  <2>4. t.raw \in BOOLEAN BY <2>2 DEF LogRecord
  <2>5. [t EXCEPT !.level = other] = [t EXCEPT !.raw = t.raw, !.level = other] BY <2>2 DEF LogRecord
  <2>6. LogInv(Refiltered([t EXCEPT !.level = other])) BY <2>2, <2>3, <2>4, <2>5, RefilterKept
  <2> QED BY <2>1, <2>6
<1>10. CASE Retranslated
  <2> DEFINE t == Touched
             o == [t EXCEPT !.rebuild = TRUE]
  <2>1. log' = o
    <3>1. log' = [Touched EXCEPT !.rebuild = TRUE] BY <1>10 DEF Retranslated
    <3> QED BY <3>1
  <2>2. LogInv(t) /\ t \in LogRecord BY <1>0 DEF LogInv
  <2> HIDE DEF t
  <2>3. o \in LogRecord BY <2>2 DEF LogRecord
  <2>4. /\ o.history = t.history /\ o.pending = t.pending /\ o.rows = t.rows
        /\ o.raw = t.raw /\ o.level = t.level /\ o.next = t.next /\ o.rebuild /\ o.paused = t.paused
        /\ o.again = t.again
    BY <2>2 DEF LogRecord
  <2>5. t.next <= o.next /\ (o.paused => o.pending = <<>>) BY <2>2, <2>4 DEF LogRecord, LogInv, PendingKept
  <2> HIDE DEF o
  <2>6. LogInv(o) BY <2>2, <2>3, <2>4, <2>5, SameView
  <2> QED BY <2>1, <2>6
<1>11. CASE ClearLog
  <2> DEFINE t == Touched
             o == [t EXCEPT !.pending = <<>>, !.history = <<>>, !.rows = <<>>, !.pausedCount = 0,
                            !.again = {}]
  <2>1. log' = o
    <3>1. log' = [Touched EXCEPT !.pending = <<>>, !.history = <<>>, !.rows = <<>>, !.pausedCount = 0,
                                 !.again = {}]
      BY <1>11 DEF ClearLog
    <3> QED BY <3>1
  <2>2. t \in LogRecord BY <1>0 DEF LogInv
  <2> HIDE DEF t
  <2>3. <<>> \in Seq(Events) /\ <<>> \in Rows BY DEF Rows
  <2>4. o \in LogRecord BY <2>2, <2>3 DEF LogRecord
  <2>5. o.history = <<>> /\ o.pending = <<>> /\ o.rows = <<>> /\ o.again = {} BY <2>2 DEF LogRecord
  <2> HIDE DEF o
  <2>6. MaxRows \in Nat /\ MaxRows > 0 BY MonitorBounds
  <2>7. HistoryKept(o) BY <2>5, <2>6 DEF HistoryKept, Increasing
  <2>8. RowsKept(o) BY <2>5, <2>6 DEF RowsKept
  <2>9. PendingKept(o) /\ IdsOf(o.pending) = {} BY <2>5, NothingPending
  <2>10. ViewKept(o)
    <3>1. Laid(<<>>, {}, 0, {}) /\ Complete(o, <<>>, {}, 0) BY <2>5, NoRows
    <3>2. 0 \in 0..Len(o.rows) BY <2>5
    <3>3. IsFiniteSet(o.again) BY <2>5, FS_EmptySet
    <3> QED BY <2>5, <2>9, <3>1, <3>2, <3>3 DEF ViewKept
  <2> QED BY <2>1, <2>4, <2>7, <2>8, <2>9, <2>10 DEF LogInv
<1>12. CASE SaveLog
  <2> DEFINE d == IF log.paused THEN Touched ELSE Flushed(Touched)
             n == (Len(Visible(d)) + ChunkRows - 1) \div ChunkRows
             o == [d EXCEPT !.chunks = n]
  <2>1. log' = o BY <1>12 DEF SaveLog
  <2>2. LogInv(d) BY <1>0, FlushKept
  <2> HIDE DEF d
  <2>3. d \in LogRecord BY <2>2 DEF LogInv
  <2>4. n \in Nat
    <3>1. d.history \in Seq(Events) BY <2>3 DEF LogRecord
    <3>2. Visible(d) \in Seq(Events) BY <3>1, PassingIs DEF Visible
    <3>3. Len(Visible(d)) \in Nat BY <3>2
    <3>4. ChunkRows \in Nat /\ ChunkRows > 0 BY MonitorBounds
    <3> QED BY <3>3, <3>4
  <2> HIDE DEF n
  <2>5. o \in LogRecord BY <2>3, <2>4 DEF LogRecord
  <2>6. /\ o.history = d.history /\ o.pending = d.pending /\ o.rows = d.rows /\ o.rebuild = d.rebuild
        /\ o.raw = d.raw /\ o.level = d.level /\ o.next = d.next /\ o.paused = d.paused
        /\ o.again = d.again
    BY <2>3 DEF LogRecord
  <2>7. d.next <= o.next /\ (o.paused => o.pending = <<>>) BY <2>2, <2>3, <2>6 DEF LogRecord, LogInv, PendingKept
  <2> HIDE DEF o
  <2>8. LogInv(o) BY <2>2, <2>5, <2>6, <2>7, SameView
  <2> QED BY <2>1, <2>8
<1>13. CASE ChunkSaved
  <2>1. CASE log' = [log EXCEPT !.chunks = @ - 1]
    <3>1. log.chunks - 1 \in Nat BY <1>0, <1>13 DEF LogRecord, ChunkSaved
    <3>2. LogInv([log EXCEPT !.chunks = log.chunks - 1]) BY <3>1, ChunksKept
    <3>3. [log EXCEPT !.chunks = @ - 1] = [log EXCEPT !.chunks = log.chunks - 1] BY <1>0 DEF LogRecord
    <3> QED BY <2>1, <3>2, <3>3
  <2>2. CASE log' = [AppendEvent(log, "error") EXCEPT !.chunks = 0]
    <3> DEFINE a == AppendEvent(log, "error")
    <3>1. LogInv(a) BY AppendKept DEF Kinds
    <3> HIDE DEF a
    <3>2. LogInv([a EXCEPT !.chunks = 0]) BY <3>1, ChunksKept
    <3> QED BY <2>2, <3>2 DEF a
  <2> QED BY <1>13, <2>1, <2>2 DEF ChunkSaved
<1>14. CASE UNCHANGED trafficVars BY <1>14 DEF trafficVars
<1> QED
  BY <1>1, <1>2, <1>3, <1>4, <1>5, <1>6, <1>7, <1>8, <1>9, <1>10, <1>11, <1>12, <1>13, <1>14
     DEF TrafficNext

\* In two rows is only what comes again.
LEMMA RowsApart ==
  ASSUME NEW rows \in Rows, NEW P, NEW d, NEW again, Laid(rows, P, d, again),
         NEW i \in DOMAIN rows, NEW j \in DOMAIN rows, i < j, NEW x \in ToSet(rows[i]) \cap ToSet(rows[j])
  PROVE  x \in again
<1> DEFINE n == Len(rows)
<1>1. n \in Nat /\ d \in 0..n /\ DOMAIN rows = 1..n BY DEF Laid, Rows
<1>2. x \in Nat
  <2>1. rows[i] \in Seq(Nat) BY DEF Rows
  <2> QED BY <2>1, RowIds
<1> HIDE DEF n
<1>3. CASE j \in 1..d
  <2>1. i \in 1..d BY <1>1, <1>3
  <2>2. x < x BY <1>3, <2>1 DEF Laid, Ascending
  <2> QED BY <1>2, <2>2
<1>4. CASE i \in d + 1..n
  <2>1. j \in d + 1..n BY <1>1, <1>4
  <2>2. x < x BY <1>4, <2>1 DEF Laid, Apart, n
  <2> QED BY <1>2, <2>2
<1>5. CASE i \in 1..d /\ j \in d + 1..n
  <2>1. x \in Old(rows, d) BY <1>5, OldIs
  <2>2. x \in Fresh(rows, P, d) BY <1>5, FreshIs DEF n
  <2> QED BY <2>1, <2>2 DEF Laid
<1> QED BY <1>1, <1>3, <1>4, <1>5

\* A complete view misses nothing once nothing waits, and in two rows is only what comes again.
LEMMA LogComplete ==
  ASSUME LogInv(log)
  PROVE  NothingMissing /\ OnceEach
<1> DEFINE again == log.again
           rows == log.rows
           s == log.history
<1>1. log \in LogRecord /\ HistoryKept(log) /\ RowsKept(log) /\ ViewKept(log) BY DEF LogInv
<1>2. rows \in Rows /\ s \in Seq(Events) /\ IsFiniteSet(again) BY <1>1 DEF LogRecord, ViewKept
<1>3. PICK d \in 0..Len(rows) :
        /\ Laid(rows, IdsOf(log.pending), d, again)
        /\ ~log.paused /\ ~log.rebuild => Complete(log, rows, IdsOf(log.pending), d)
  BY <1>1 DEF ViewKept
<1>4. NothingMissing
  <2> SUFFICES ASSUME AtRest, NEW i \in DOMAIN s, PassesFilters(log, s[i]), s[i].id \notin Shown
               PROVE  Cardinality(Later(i)) + Cardinality(again) >= MaxRows
    BY DEF NothingMissing
  <2>1. Laid(rows, {}, d, again) /\ Complete(log, rows, {}, d) BY <1>3, NothingPending DEF AtRest
  <2>2. Increasing(s) /\ Len(rows) <= MaxRows BY <1>1 DEF HistoryKept, RowsKept
  <2>3. s[i].id \notin ShownIn(rows) BY DEF Shown, ShownIn
  <2>4. Later(i) = {g \in DOMAIN s : g > i /\ PassesFilters(log, s[g])} BY DEF Later
  <2> DEFINE T == Later(i)
  <2> HIDE DEF T, rows, again
  <2>5. Cardinality(T) + Cardinality(again) >= MaxRows
    BY <1>2, <2>1, <2>2, <2>3, <2>4, RestShown DEF T
  <2> QED BY <2>5 DEF T
<1>5. OnceEach
  <2> SUFFICES ASSUME NEW i \in DOMAIN rows, NEW j \in DOMAIN rows, i # j,
                      NEW x \in ToSet(rows[i]) \cap ToSet(rows[j])
               PROVE  x \in again
    BY DEF OnceEach
  <2>1. DOMAIN rows = 1..Len(rows) /\ Len(rows) \in Nat BY <1>2 DEF Rows
  <2>2. i < j \/ j < i BY <2>1
  <2> HIDE DEF rows, again
  <2>3. CASE i < j BY <1>2, <1>3, <2>3, RowsApart
  <2>4. CASE j < i
    <3>1. x \in ToSet(rows[j]) \cap ToSet(rows[i]) OBVIOUS
    <3> QED BY <1>2, <1>3, <2>4, <3>1, RowsApart
  <2> QED BY <2>2, <2>3, <2>4
<1> QED BY <1>4, <1>5

-----------------------------------------------------------------------------
(* The byte monitor *)

\* The types of the byte monitor's state.
Lines == [id : Nat, kind : ByteKinds]
LineLists == Seq(Lines)
IdLists == Seq(Nat)
Counts == [tx : Nat, rx : Nat]
BytesRecord ==
  [queue : LineLists, pending : IdLists, rows : IdLists, showTx : BOOLEAN, showRx : BOOLEAN,
   stats : Counts, stamp : {"absolute"}, paused : BOOLEAN, next : Nat, touches : Nat, taken : LineLists]

\* The ids of a list of lines.
ListOf(lines) == [i \in DOMAIN lines |-> lines[i].id]

\* s is the end of ids.
Ends(ids, s) ==
  /\ Len(s) <= Len(ids)
  /\ \A i \in 1..Len(s) : s[i] = ids[i + (Len(ids) - Len(s))]

\* The rows and what waits are the end of what was taken since the last clear, and all of it
\* until the rows are full.
LinesKept(rows, pending, ids) ==
  /\ Ends(ids, rows \o pending)
  /\ Len(rows) + Len(pending) < Len(ids) => Len(rows) = MaxRows

\* The lines of a direction, and the counts of both.
KindAt(lines, dir) == {i \in DOMAIN lines : lines[i].kind = dir}
Counted(b) ==
  \A dir \in {"tx", "rx"} :
    IsFiniteSet(KindAt(b.taken, dir)) /\ b.stats[dir] = Cardinality(KindAt(b.taken, dir))

\* The inductive invariant of the byte monitor.
BytesInv(b) ==
  /\ b \in BytesRecord
  /\ LinesKept(b.rows, b.pending, ListOf(b.taken))
  /\ Counted(b)

LEMMA ListIs ==
  ASSUME NEW lines \in Seq(Lines)
  PROVE  ListOf(lines) \in Seq(Nat) /\ Len(ListOf(lines)) = Len(lines)
<1>1. \A i \in 1..Len(lines) : lines[i].id \in Nat
  <2>1. \A i \in 1..Len(lines) : lines[i] \in Lines OBVIOUS
  <2> QED BY <2>1 DEF Lines
<1>2. DOMAIN lines = 1..Len(lines) /\ Len(lines) \in Nat OBVIOUS
<1>3. ListOf(lines) = [i \in 1..Len(lines) |-> lines[i].id] BY <1>2 DEF ListOf
<1> QED BY <1>1, <1>2, <1>3

LEMMA ListGrows ==
  ASSUME NEW lines \in Seq(Lines), NEW line \in Lines
  PROVE  ListOf(Append(lines, line)) = Append(ListOf(lines), line.id)
<1> DEFINE l == Len(lines)
           a == Append(lines, line)
           x == ListOf(lines)
           y == Append(x, line.id)
<1>1. a \in Seq(Lines) /\ Len(a) = l + 1 /\ l \in Nat
      /\ \A i \in 1..l + 1 : a[i] = IF i <= l THEN lines[i] ELSE line
  OBVIOUS
<1>2. x \in Seq(Nat) /\ Len(x) = l BY ListIs
<1>3. \A i \in 1..l : x[i] = lines[i].id BY DEF ListOf
<1> HIDE DEF x
<1>4. y = [i \in 1..l + 1 |-> IF i <= l THEN x[i] ELSE line.id]
  <2>1. line.id \in Nat BY DEF Lines
  <2>2. y \in Seq(Nat) /\ Len(y) = l + 1 BY <1>2, <2>1
  <2>3. \A i \in 1..l + 1 : y[i] = IF i <= l THEN x[i] ELSE line.id BY <1>1, <1>2, <2>1
  <2> HIDE DEF y, l
  <2>4. DOMAIN y = 1..l + 1 /\ y = [i \in DOMAIN y |-> y[i]] BY <2>2
  <2> QED BY <2>3, <2>4
<1> HIDE DEF y
<1>5. DOMAIN a = 1..l + 1 BY <1>1
<1>6. ListOf(a) = [i \in 1..l + 1 |-> a[i].id] BY <1>5 DEF ListOf
<1> HIDE DEF a, l
<1>7. \A i \in 1..l + 1 : (IF i <= l THEN x[i] ELSE line.id) = a[i].id
  <2> SUFFICES ASSUME NEW i \in 1..l + 1 PROVE (IF i <= l THEN x[i] ELSE line.id) = a[i].id OBVIOUS
  <2>1. CASE i <= l
    <3>1. i \in 1..l BY <1>1, <2>1
    <3> QED BY <1>1, <1>3, <2>1, <3>1
  <2>2. CASE ~(i <= l) BY <1>1, <2>2
  <2> QED BY <2>1, <2>2
<1>8. [i \in 1..l + 1 |-> IF i <= l THEN x[i] ELSE line.id] = [i \in 1..l + 1 |-> a[i].id] BY <1>7
<1> QED BY <1>4, <1>6, <1>8 DEF a, y, x

\* One more line taken is one more that waits.
LEMMA TakenKept ==
  ASSUME NEW rows \in Seq(Nat), NEW pending \in Seq(Nat), NEW ids \in Seq(Nat), NEW x \in Nat,
         LinesKept(rows, pending, ids)
  PROVE  LinesKept(rows, Append(pending, x), Append(ids, x))
<1> DEFINE s == rows \o pending
           t == rows \o Append(pending, x)
           u == Append(ids, x)
           n == Len(rows) + Len(pending)
           l == Len(ids)
<1>1. s \in Seq(Nat) /\ Len(s) = n /\ n \in Nat /\ l \in Nat OBVIOUS
<1>2. t \in Seq(Nat) /\ Len(t) = n + 1
      /\ \A i \in 1..n : t[i] = s[i]
  OBVIOUS
<1>3. t[n + 1] = x OBVIOUS
<1>4. u \in Seq(Nat) /\ Len(u) = l + 1 /\ u[l + 1] = x /\ \A i \in 1..l : u[i] = ids[i] OBVIOUS
<1>5. n <= l /\ \A i \in 1..n : s[i] = ids[i + (l - n)]
  <2>1. Ends(ids, s) BY DEF LinesKept
  <2> HIDE DEF s
  <2> QED BY <1>1, <2>1 DEF Ends
<1>6. n < l => Len(rows) = MaxRows BY DEF LinesKept
<1>7. Len(rows) + Len(Append(pending, x)) = n + 1 OBVIOUS
<1> HIDE DEF s, t, u, n, l
<1>8. \A i \in 1..n + 1 : t[i] = u[i + ((l + 1) - (n + 1))]
  <2> SUFFICES ASSUME NEW i \in 1..n + 1 PROVE t[i] = u[i + (l - n)] BY <1>1
  <2>1. CASE i = n + 1
    <3>1. i + (l - n) = l + 1 BY <1>1, <2>1
    <3> QED BY <1>3, <1>4, <2>1, <3>1
  <2>2. CASE i # n + 1
    <3>1. i \in 1..n /\ i + (l - n) \in 1..l BY <1>1, <1>5, <2>2
    <3> QED BY <1>2, <1>4, <1>5, <3>1
  <2> QED BY <2>1, <2>2
<1>9. Ends(u, t) BY <1>1, <1>2, <1>4, <1>5, <1>8 DEF Ends
<1>10. n + 1 < l + 1 => Len(rows) = MaxRows BY <1>1, <1>6
<1> QED BY <1>4, <1>7, <1>9, <1>10 DEF LinesKept, t, u

\* Showing what waits drops only the oldest.
LEMMA FlushedKept ==
  ASSUME NEW rows \in Seq(Nat), NEW pending \in Seq(Nat), NEW ids \in Seq(Nat),
         LinesKept(rows, pending, ids)
  PROVE  /\ AppendEntries(rows, pending) \in Seq(Nat)
         /\ LinesKept(AppendEntries(rows, pending), <<>>, ids)
<1> DEFINE s == rows \o pending
           t == AppendEntries(rows, pending)
           n == Len(rows) + Len(pending)
           l == Len(ids)
           k == Len(t)
<1>0. MaxRows \in Nat BY MonitorBounds
<1>1. s \in Seq(Nat) /\ Len(s) = n /\ n \in Nat /\ l \in Nat /\ Len(rows) <= n OBVIOUS
<1>2. t \in Seq(Nat) /\ KeptOf(MaxRows, s, t) BY <1>0, AppendedIs
<1> HIDE DEF t
<1>3. t \o <<>> = t /\ k \in Nat BY <1>2
<1>4. n <= l /\ \A i \in 1..n : s[i] = ids[i + (l - n)]
  <2>1. Ends(ids, s) BY DEF LinesKept
  <2> HIDE DEF s
  <2> QED BY <1>1, <2>1 DEF Ends
<1>5. n < l => Len(rows) = MaxRows BY DEF LinesKept
<1> HIDE DEF s, n, l
<1>6. k = (IF n > MaxRows THEN MaxRows ELSE n) /\ \A i \in 1..k : t[i] = s[i + (n - k)]
  BY <1>1, <1>2 DEF KeptOf
<1> HIDE DEF k
<1>7. \A i \in 1..k : t[i] = ids[i + (l - k)]
  <2> SUFFICES ASSUME NEW i \in 1..k PROVE t[i] = ids[i + (l - k)] OBVIOUS
  <2>1. i + (n - k) \in 1..n /\ (i + (n - k)) + (l - n) = i + (l - k) BY <1>0, <1>1, <1>3, <1>6
  <2> QED BY <1>4, <1>6, <2>1
<1>8. k <= l /\ (k < l => k = MaxRows) BY <1>0, <1>1, <1>4, <1>5, <1>6
<1>9. Ends(ids, t) BY <1>7, <1>8 DEF Ends, k, l
<1>10. k + Len(<<>>) = k BY <1>3
<1> QED BY <1>2, <1>3, <1>8, <1>9, <1>10 DEF LinesKept, k, l, t

\* One more line counts for its direction.
LEMMA CountsGrow ==
  ASSUME NEW lines \in Seq(Lines), NEW line \in Lines, NEW dir, IsFiniteSet(KindAt(lines, dir))
  PROVE  /\ IsFiniteSet(KindAt(Append(lines, line), dir))
         /\ Cardinality(KindAt(Append(lines, line), dir))
              = Cardinality(KindAt(lines, dir)) + IF line.kind = dir THEN 1 ELSE 0
<1> DEFINE l == Len(lines)
           a == Append(lines, line)
           K == KindAt(lines, dir)
           A == KindAt(a, dir)
<1>1. DOMAIN lines = 1..l /\ DOMAIN a = 1..l + 1 /\ l \in Nat /\ a[l + 1] = line
      /\ \A i \in 1..l : a[i] = lines[i]
  OBVIOUS
<1> HIDE DEF a, l
<1>2. A = K \cup IF line.kind = dir THEN {l + 1} ELSE {} BY <1>1 DEF KindAt
<1>3. l + 1 \notin K BY <1>1 DEF KindAt
<1>4. Cardinality(K) \in Nat BY FS_CardinalityType
<1> HIDE DEF K, A
<1>5. CASE line.kind = dir
  <2>1. A = K \cup {l + 1} BY <1>2, <1>5
  <2>2. IsFiniteSet(A) /\ Cardinality(A) = Cardinality(K) + 1 BY <1>3, <2>1, FS_AddElement DEF K
  <2> QED BY <1>5, <2>2 DEF A, K, a
<1>6. CASE line.kind # dir
  <2>1. A = K BY <1>2, <1>6
  <2> QED BY <1>4, <1>6, <2>1 DEF A, K, a
<1> QED BY <1>5, <1>6

LEMMA BytesFlushed ==
  ASSUME NEW b, BytesInv(b)
  PROVE  BytesInv(FlushedBytes(b))
<1> DEFINE t == AppendEntries(b.rows, b.pending)
           none == <<>>
           o == [b EXCEPT !.rows = t, !.pending = none]
<1>1. b \in BytesRecord BY DEF BytesInv
<1>2. /\ b.rows \in Seq(Nat) /\ b.pending \in Seq(Nat) /\ b.taken \in Seq(Lines)
      /\ LinesKept(b.rows, b.pending, ListOf(b.taken))
  BY DEF BytesInv, BytesRecord, IdLists, LineLists
<1>3. ListOf(b.taken) \in Seq(Nat) BY <1>2, ListIs
<1>4. t \in Seq(Nat) /\ LinesKept(t, <<>>, ListOf(b.taken)) BY <1>2, <1>3, FlushedKept
<1>9. t \in IdLists /\ none \in IdLists BY <1>4 DEF IdLists
<1>5. FlushedBytes(b) = o BY <1>1 DEF FlushedBytes, BytesRecord
<1> HIDE DEF t, none
<1>6. o \in BytesRecord /\ o.rows = t /\ o.pending = none /\ o.taken = b.taken /\ o.stats = b.stats
  BY <1>1, <1>9 DEF BytesRecord
<1> HIDE DEF o
<1>7. Counted(o) BY <1>6 DEF BytesInv, Counted
<1> QED BY <1>4, <1>5, <1>6, <1>7 DEF BytesInv, none

\* What else changes leaves the lines and the counts alone.
LEMMA SameLines ==
  ASSUME NEW b, BytesInv(b), NEW o \in BytesRecord,
         o.rows = b.rows, o.pending = b.pending, o.taken = b.taken, o.stats = b.stats
  PROVE  BytesInv(o)
BY DEF BytesInv, Counted

LEMMA BytesTouched == ASSUME BytesInv(bytes) PROVE BytesInv(TouchedBytes) /\ TouchedBytes \in BytesRecord
<1> DEFINE o == TouchedBytes
<1>1. bytes \in BytesRecord BY DEF BytesInv
<1>2. o \in BytesRecord /\ o.rows = bytes.rows /\ o.pending = bytes.pending /\ o.taken = bytes.taken
      /\ o.stats = bytes.stats
  BY <1>1 DEF BytesRecord, TouchedBytes
<1> HIDE DEF o
<1>3. BytesInv(o) BY <1>2, SameLines
<1> QED BY <1>2, <1>3 DEF o

\* Before the first line, and after a clear.
LEMMA NoLines ==
  ASSUME NEW o \in BytesRecord, o.rows = <<>>, o.pending = <<>>, o.taken = <<>>,
         o.stats = [tx |-> 0, rx |-> 0]
  PROVE  BytesInv(o)
<1>1. KindAt(<<>>, "tx") = {} /\ KindAt(<<>>, "rx") = {} BY DEF KindAt
<1>2. IsFiniteSet({}) /\ Cardinality({}) = 0 BY FS_EmptySet
<1>3. o.stats["tx"] = 0 /\ o.stats["rx"] = 0 OBVIOUS
<1>4. Counted(o) BY <1>1, <1>2, <1>3 DEF Counted
<1>5. ListOf(<<>>) = <<>> BY DEF ListOf
<1>6. <<>> \o <<>> = <<>> /\ Len(<<>>) = 0 OBVIOUS
<1>7. LinesKept(<<>>, <<>>, <<>>) BY <1>6 DEF LinesKept, Ends
<1> QED BY <1>4, <1>5, <1>7 DEF BytesInv

LEMMA BytesStart == BytesInit => BytesInv(bytes)
<1> SUFFICES ASSUME BytesInit PROVE BytesInv(bytes) OBVIOUS
<1>1. <<>> \in LineLists /\ <<>> \in IdLists BY DEF LineLists, IdLists
<1>2. bytes \in BytesRecord BY <1>1 DEF BytesInit, BytesRecord, Counts
<1>3. bytes.rows = <<>> /\ bytes.pending = <<>> /\ bytes.taken = <<>> /\ bytes.stats = [tx |-> 0, rx |-> 0]
  BY DEF BytesInit
<1> QED BY <1>2, <1>3, NoLines

\* A line taken from the queue is shown and counted, or hidden and not.
LEMMA TakeKept == ASSUME BytesInv(bytes), Take PROVE BytesInv(bytes')
<1> DEFINE line == Head(bytes.queue)
           tail == Tail(bytes.queue)
<1>1. bytes \in BytesRecord BY DEF BytesInv
<1>2. line \in Lines /\ tail \in LineLists
  <2>1. bytes.queue \in Seq(Lines) /\ bytes.queue # <<>> BY <1>1 DEF BytesRecord, LineLists, Take
  <2> QED BY <2>1 DEF LineLists
<1>3. bytes' = IF Hidden(line) THEN [bytes EXCEPT !.queue = tail]
              ELSE [bytes EXCEPT !.queue = tail,
                      !.pending = Append(@, line.id), !.taken = Append(@, line),
                      !.stats.tx = IF line.kind = "tx" THEN @ + 1 ELSE @,
                      !.stats.rx = IF line.kind = "rx" THEN @ + 1 ELSE @]
  BY <1>1 DEF Take, BytesRecord
<1> HIDE DEF line, tail
<1>4. CASE Hidden(line)
  <2> DEFINE o == [bytes EXCEPT !.queue = tail]
  <2>1. bytes' = o BY <1>3, <1>4
  <2>2. o \in BytesRecord /\ o.rows = bytes.rows /\ o.pending = bytes.pending /\ o.taken = bytes.taken
        /\ o.stats = bytes.stats
    BY <1>1, <1>2 DEF BytesRecord
  <2> HIDE DEF o
  <2>3. BytesInv(o) BY <2>2, SameLines
  <2> QED BY <2>1, <2>3
<1>5. CASE ~Hidden(line)
  <2> DEFINE p == Append(bytes.pending, line.id)
             t == Append(bytes.taken, line)
             tx == bytes.stats.tx + IF line.kind = "tx" THEN 1 ELSE 0
             rx == bytes.stats.rx + IF line.kind = "rx" THEN 1 ELSE 0
             counts == [[bytes.stats EXCEPT !.tx = tx] EXCEPT !.rx = rx]
             o == [bytes EXCEPT !.queue = tail, !.pending = p, !.taken = t, !.stats = counts]
  <2>1. /\ bytes.stats.tx \in Nat /\ bytes.stats.rx \in Nat /\ bytes.pending \in Seq(Nat)
        /\ bytes.taken \in Seq(Lines) /\ bytes.stats \in [tx : Nat, rx : Nat] /\ bytes.rows \in Seq(Nat)
    BY <1>1 DEF BytesRecord, LineLists, IdLists, Counts
  <2>2. line.id \in Nat BY <1>2 DEF Lines
  <2>3. tx \in Nat /\ rx \in Nat BY <2>1
  <2>4. p \in Seq(Nat) /\ t \in Seq(Lines) BY <1>2, <2>1, <2>2
  <2>5. bytes' = o
    <3>1. tx = (IF line.kind = "tx" THEN bytes.stats.tx + 1 ELSE bytes.stats.tx)
          /\ rx = (IF line.kind = "rx" THEN bytes.stats.rx + 1 ELSE bytes.stats.rx)
      BY <2>1
    <3> HIDE DEF tx, rx, p, t
    <3>2. bytes' = [bytes EXCEPT !.queue = tail, !.pending = p, !.taken = t, !.stats.tx = tx, !.stats.rx = rx]
      <4>1. bytes' = [bytes EXCEPT !.queue = tail,
                      !.pending = Append(@, line.id), !.taken = Append(@, line),
                      !.stats.tx = IF line.kind = "tx" THEN @ + 1 ELSE @,
                      !.stats.rx = IF line.kind = "rx" THEN @ + 1 ELSE @] BY <1>3, <1>5
      <4> QED BY <1>1, <3>1, <4>1 DEF BytesRecord, p, t
    <3> QED BY <1>1, <3>2 DEF BytesRecord
  <2> HIDE DEF tx, rx
  <2>11. counts \in Counts /\ counts.tx = tx /\ counts.rx = rx
    <3> DEFINE st == bytes.stats
    <3>1. st \in [tx : Nat, rx : Nat] BY <2>1
    <3> HIDE DEF st
    <3>2. [[st EXCEPT !.tx = tx] EXCEPT !.rx = rx] \in [tx : Nat, rx : Nat] BY <2>3, <3>1
    <3>3. /\ [[st EXCEPT !.tx = tx] EXCEPT !.rx = rx].tx = tx
          /\ [[st EXCEPT !.tx = tx] EXCEPT !.rx = rx].rx = rx
      BY <2>3, <3>1
    <3> QED BY <3>2, <3>3 DEF st, Counts
  <2> HIDE DEF p, t, counts
  <2>6. /\ o \in BytesRecord /\ o.rows = bytes.rows /\ o.pending = p /\ o.taken = t
        /\ o.stats["tx"] = tx /\ o.stats["rx"] = rx
    <3>1. p \in IdLists /\ t \in LineLists /\ counts \in Counts
      BY <2>4, <2>11 DEF IdLists, LineLists
    <3>2. o \in BytesRecord BY <1>1, <1>2, <3>1 DEF BytesRecord
    <3>3. o.rows = bytes.rows /\ o.pending = p /\ o.taken = t /\ o.stats = counts
      BY <1>1 DEF BytesRecord
    <3> HIDE DEF o
    <3> QED BY <2>11, <3>2, <3>3
  <2> HIDE DEF o
  <2>7. LinesKept(bytes.rows, p, ListOf(t))
    <3>1. ListOf(bytes.taken) \in Seq(Nat) BY <2>1, ListIs
    <3>2. ListOf(t) = Append(ListOf(bytes.taken), line.id) BY <1>2, <2>1, ListGrows DEF t
    <3>3. LinesKept(bytes.rows, bytes.pending, ListOf(bytes.taken)) BY DEF BytesInv
    <3> QED BY <2>1, <2>2, <3>1, <3>2, <3>3, TakenKept DEF p
  <2>8. \A dir \in {"tx", "rx"} : IsFiniteSet(KindAt(t, dir)) /\ Cardinality(KindAt(t, dir))
              = Cardinality(KindAt(bytes.taken, dir)) + IF line.kind = dir THEN 1 ELSE 0
    <3>1. \A dir \in {"tx", "rx"} : IsFiniteSet(KindAt(bytes.taken, dir)) BY DEF BytesInv, Counted
    <3> QED BY <1>2, <2>1, <3>1, CountsGrow DEF t
  <2>9. Counted(o)
    <3>1. \A dir \in {"tx", "rx"} : bytes.stats[dir] = Cardinality(KindAt(bytes.taken, dir))
      BY DEF BytesInv, Counted
    <3>2. o.stats["tx"] = bytes.stats["tx"] + IF line.kind = "tx" THEN 1 ELSE 0 BY <2>6 DEF tx
    <3>3. o.stats["rx"] = bytes.stats["rx"] + IF line.kind = "rx" THEN 1 ELSE 0 BY <2>6 DEF rx
    <3>4. o.stats["tx"] = Cardinality(KindAt(t, "tx")) BY <2>8, <3>1, <3>2
    <3>5. o.stats["rx"] = Cardinality(KindAt(t, "rx")) BY <2>8, <3>1, <3>3
    <3> QED BY <2>6, <2>8, <3>4, <3>5 DEF Counted
  <2>10. BytesInv(o) BY <2>6, <2>7, <2>9 DEF BytesInv
  <2> QED BY <2>5, <2>10
<1> QED BY <1>4, <1>5

\* Every step of the byte monitor keeps the invariant.
LEMMA BytesSteps == BytesInv(bytes) /\ [BytesNext]_bytes => BytesInv(bytes')
<1> SUFFICES ASSUME BytesInv(bytes), [BytesNext]_bytes PROVE BytesInv(bytes') OBVIOUS
<1>0. bytes \in BytesRecord /\ BytesInv(TouchedBytes) /\ TouchedBytes \in BytesRecord
  BY BytesTouched DEF BytesInv
<1>1. CASE Emit
  <2>1. PICK kind \in ByteKinds :
          bytes' = [bytes EXCEPT !.next = @ + 1, !.queue = Append(@, [id |-> bytes.next, kind |-> kind])]
    BY <1>1 DEF Emit
  <2> DEFINE q == Append(bytes.queue, [id |-> bytes.next, kind |-> kind])
             n == bytes.next + 1
             o == [bytes EXCEPT !.next = n, !.queue = q]
  <2>2. q \in LineLists BY <1>0 DEF BytesRecord, LineLists, Lines
  <2>3. bytes' = o BY <1>0, <2>1 DEF BytesRecord
  <2>8. n \in Nat BY <1>0 DEF BytesRecord
  <2> HIDE DEF q, n
  <2>6. o \in BytesRecord BY <1>0, <2>2, <2>8 DEF BytesRecord
  <2>7. o.rows = bytes.rows /\ o.pending = bytes.pending /\ o.taken = bytes.taken /\ o.stats = bytes.stats
    BY <1>0 DEF BytesRecord
  <2> HIDE DEF o
  <2>5. BytesInv(o) BY <2>6, <2>7, SameLines
  <2> QED BY <2>3, <2>5
<1>2. CASE Take BY <1>2, TakeKept
<1>3. CASE FlushBytes BY <1>3, BytesFlushed DEF FlushBytes
<1>4. CASE ModeChanged BY <1>0, <1>4, BytesFlushed DEF ModeChanged
<1>5. CASE ShowTxToggled
  <2> DEFINE t == TouchedBytes
             o == [t EXCEPT !.showTx = ~@]
  <2>1. bytes' = o BY <1>5 DEF ShowTxToggled
  <2>2. t \in BytesRecord /\ BytesInv(t) BY <1>0
  <2> HIDE DEF t
  <2>3. o \in BytesRecord /\ o.rows = t.rows /\ o.pending = t.pending /\ o.taken = t.taken /\ o.stats = t.stats
    BY <2>2 DEF BytesRecord
  <2> HIDE DEF o
  <2>4. BytesInv(o) BY <2>2, <2>3, SameLines
  <2> QED BY <2>1, <2>4
<1>6. CASE ShowRxToggled
  <2> DEFINE t == TouchedBytes
             o == [t EXCEPT !.showRx = ~@]
  <2>1. bytes' = o BY <1>6 DEF ShowRxToggled
  <2>2. t \in BytesRecord /\ BytesInv(t) BY <1>0
  <2> HIDE DEF t
  <2>3. o \in BytesRecord /\ o.rows = t.rows /\ o.pending = t.pending /\ o.taken = t.taken /\ o.stats = t.stats
    BY <2>2 DEF BytesRecord
  <2> HIDE DEF o
  <2>4. BytesInv(o) BY <2>2, <2>3, SameLines
  <2> QED BY <2>1, <2>4
<1>7. CASE SaveBytes
  <2> DEFINE d == FlushedBytes(TouchedBytes)
             q == Append(d.queue, [id |-> bytes.next, kind |-> "message"])
             n == d.next + 1
             o == [d EXCEPT !.next = n, !.queue = q]
  <2>1. bytes' = d \/ bytes' = [d EXCEPT !.next = @ + 1, !.queue = Append(@, [id |-> bytes.next, kind |-> "message"])]
    BY <1>7 DEF SaveBytes
  <2>2. BytesInv(d) BY <1>0, BytesFlushed
  <2> HIDE DEF d
  <2>3. d \in BytesRecord BY <2>2 DEF BytesInv
  <2>4. q \in LineLists
    <3>1. [id |-> bytes.next, kind |-> "message"] \in Lines BY <1>0 DEF BytesRecord, Lines, ByteKinds
    <3>2. d.queue \in Seq(Lines) BY <2>3 DEF BytesRecord, LineLists
    <3> QED BY <3>1, <3>2 DEF LineLists
  <2>5. bytes' = d \/ bytes' = o BY <2>1, <2>3 DEF BytesRecord
  <2>9. n \in Nat BY <2>3 DEF BytesRecord
  <2> HIDE DEF q, n
  <2>6. o \in BytesRecord BY <2>3, <2>4, <2>9 DEF BytesRecord
  <2>8. o.rows = d.rows /\ o.pending = d.pending /\ o.taken = d.taken /\ o.stats = d.stats
    BY <2>3 DEF BytesRecord
  <2> HIDE DEF o
  <2>7. BytesInv(o) BY <2>2, <2>6, <2>8, SameLines
  <2> QED BY <2>2, <2>5, <2>7
<1>8. CASE ClearBytes
  <2> DEFINE d == FlushedBytes(TouchedBytes)
             o == [d EXCEPT !.rows = <<>>, !.taken = <<>>, !.stats = [tx |-> 0, rx |-> 0]]
  <2>1. bytes' = o BY <1>8 DEF ClearBytes, Cleared
  <2>2. d \in BytesRecord /\ d.pending = <<>>
    <3>1. BytesInv(d) BY <1>0, BytesFlushed
    <3>2. d.pending = <<>> BY <1>0 DEF FlushedBytes, BytesRecord
    <3> QED BY <3>1, <3>2 DEF BytesInv
  <2> HIDE DEF d
  <2>3. <<>> \in LineLists /\ <<>> \in IdLists /\ [tx |-> 0, rx |-> 0] \in Counts
    BY DEF LineLists, IdLists, Counts
  <2>4. o \in BytesRecord /\ o.rows = <<>> /\ o.pending = <<>> /\ o.taken = <<>> /\ o.stats = [tx |-> 0, rx |-> 0]
    BY <2>2, <2>3 DEF BytesRecord
  <2> HIDE DEF o
  <2>5. BytesInv(o) BY <2>4, NoLines
  <2> QED BY <2>1, <2>5
<1>9. CASE UNCHANGED bytes BY <1>9
<1> QED BY <1>1, <1>2, <1>3, <1>4, <1>5, <1>6, <1>7, <1>8, <1>9 DEF BytesNext

\* The end of the list is what the monitor shows.
LEMMA LinesAre ==
  ASSUME NEW rows \in Seq(Nat), NEW pending \in Seq(Nat), NEW ids \in Seq(Nat),
         LinesKept(rows, pending, ids)
  PROVE  /\ rows \o pending = Newest(Len(rows \o pending), ids)
         /\ Len(ids) <= MaxRows => rows \o pending = ids
<1> DEFINE s == rows \o pending
           n == Len(s)
           l == Len(ids)
           t == Newest(n, ids)
<1>1. s \in Seq(Nat) /\ n = Len(rows) + Len(pending) /\ n \in Nat /\ l \in Nat
      /\ Len(rows) \in Nat /\ Len(pending) \in Nat /\ MaxRows \in Nat
  BY MonitorBounds
<1>3. Ends(ids, s) /\ (n < l => Len(rows) = MaxRows)
  <2> HIDE DEF n
  <2> QED BY <1>1 DEF LinesKept
<1> HIDE DEF s
<1>2. s = [i \in 1..n |-> s[i]] /\ ids = [i \in 1..l |-> ids[i]] BY <1>1
<1>4. t \in Seq(Nat) /\ KeptOf(n, ids, t) BY <1>1, NewestIs
<1> HIDE DEF t
<1>5. n <= l /\ \A i \in 1..n : s[i] = ids[i + (l - n)] BY <1>3 DEF Ends
<1>6. t = [i \in 1..Len(t) |-> t[i]] BY <1>4
<1>11. Len(t) = (IF l > n THEN n ELSE l)
       /\ \A i \in 1..Len(t) : t[i] = ids[i + (l - Len(t))]
  BY <1>4 DEF KeptOf
<1>12. n \in Nat /\ l \in Nat BY <1>1
<1> HIDE DEF n, l
<1>7. Len(t) = n BY <1>5, <1>11, <1>12
<1>8. \A i \in 1..n : t[i] = s[i] BY <1>5, <1>7, <1>11
<1>9. s = t BY <1>2, <1>6, <1>7, <1>8
<1>10. ASSUME l <= MaxRows PROVE s = ids
  <2>1. n = l BY <1>1, <1>3, <1>5, <1>10
  <2>2. \A i \in 1..n : s[i] = ids[i]
    <3>1. \A i \in 1..n : i + (l - n) = i BY <1>12, <2>1
    <3> QED BY <1>5, <3>1
  <2> QED BY <1>2, <2>1, <2>2
<1> QED BY <1>9, <1>10 DEF s, t, n, l

LEMMA BytesAgree == ASSUME BytesInv(bytes) PROVE LinesInOrder /\ StatsAgree
<1>1. bytes.rows \in Seq(Nat) /\ bytes.pending \in Seq(Nat) /\ bytes.taken \in Seq(Lines)
  BY DEF BytesInv, BytesRecord, IdLists, LineLists
<1>2. ListOf(bytes.taken) \in Seq(Nat) BY <1>1, ListIs
<1>3. LinesKept(bytes.rows, bytes.pending, ListOf(bytes.taken)) BY DEF BytesInv
<1>4. LinesInOrder BY <1>1, <1>2, <1>3, LinesAre DEF LinesInOrder, ListOf
<1>5. StatsAgree BY DEF BytesInv, Counted, StatsAgree, KindAt
<1> QED BY <1>4, <1>5

-----------------------------------------------------------------------------
(* The sampling.  Of the polled frames one in SampleRate is shown, and every polled frame is
   counted exactly once, as shown or as dropped, by the summaries or by what they are yet to
   tell. *)

FrameCounts ==
  [phase : 0..(SampleRate - 1), shown : Nat, dropped : Nat, polled : Nat, told : Nat, toldShown : Nat]

\* The phase is what is left over of the frames polled once every shown one has stood for
\* SampleRate of them, whatever the summaries have told in between.
SamplingInv ==
  /\ frames \in FrameCounts
  /\ frames.polled = SampleRate * (frames.toldShown + frames.shown) + frames.phase
  /\ frames.told + frames.shown + frames.dropped = frames.polled

\* Counting the phase on starts again at 0 after the last frame of a sample.
LEMMA Remainder ==
  ASSUME NEW n \in Nat \ {0}, NEW p \in 0..(n - 1)
  PROVE  (p + 1) % n = IF p + 1 = n THEN 0 ELSE p + 1
<1>1. CASE p + 1 = n
  <2>1. n % n = 0 OBVIOUS
  <2> QED BY <1>1, <2>1
<1>2. CASE p + 1 # n
  <2>1. p + 1 \in 0..(n - 1) BY <1>2
  <2>2. \A x \in 0..(n - 1) : x % n = x OBVIOUS
  <2> QED BY <1>2, <2>1, <2>2
<1> QED BY <1>1, <1>2

\* Division with remainder has one quotient.
LEMMA Quotient ==
  ASSUME NEW n \in Nat \ {0}, NEW q \in Nat, NEW p \in 0..(n - 1), NEW m, m = n * q + p
  PROVE  m \div n = q
OBVIOUS

\* One more sample is SampleRate more frames.
LEMMA SampledFrame ==
  ASSUME NEW n \in Nat \ {0}, NEW k \in Nat
  PROVE  n * (k + 1) = n * k + n
OBVIOUS

\* Every step of the log keeps the count: a polled frame, a summary, a clearing.
LEMMA SamplingStep ==
  ASSUME SamplingInv, TrafficNext
  PROVE  SamplingInv'
<1>0. SampleRate \in Nat \ {0} BY MonitorBounds
<1>1. frames \in FrameCounts BY DEF SamplingInv
<1>2. CASE LogPolledFrame
  <2> DEFINE phase == (frames.phase + 1) % SampleRate
             k == frames.toldShown + frames.shown
  <2>1. /\ frames.phase \in 0..(SampleRate - 1) /\ frames.shown \in Nat /\ frames.dropped \in Nat
        /\ frames.polled \in Nat /\ frames.told \in Nat /\ frames.toldShown \in Nat
    BY <1>1 DEF FrameCounts
  <2>2. phase = IF frames.phase + 1 = SampleRate THEN 0 ELSE frames.phase + 1
    BY <1>0, <2>1, Remainder
  <2>3. frames' = [frames EXCEPT !.phase = phase, !.polled = @ + 1,
                     !.dropped = IF phase # 0 THEN @ + 1 ELSE @,
                     !.shown = IF phase = 0 THEN @ + 1 ELSE @]
    BY <1>2 DEF LogPolledFrame
  <2> HIDE DEF phase
  <2>4. /\ frames'.phase = phase /\ frames'.polled = frames.polled + 1
        /\ frames'.dropped = IF phase # 0 THEN frames.dropped + 1 ELSE frames.dropped
        /\ frames'.shown = IF phase = 0 THEN frames.shown + 1 ELSE frames.shown
        /\ frames'.told = frames.told /\ frames'.toldShown = frames.toldShown
    BY <1>1, <2>3 DEF FrameCounts
  <2>5. phase \in 0..(SampleRate - 1) BY <1>0, <2>1, <2>2
  <2>6. frames' \in FrameCounts
    <3> DEFINE d == IF phase # 0 THEN frames.dropped + 1 ELSE frames.dropped
               s == IF phase = 0 THEN frames.shown + 1 ELSE frames.shown
               m == [frames EXCEPT !.phase = phase, !.polled = @ + 1]
    <3>1. d \in Nat /\ s \in Nat BY <2>1
    <3>2. m \in FrameCounts
      <4>1. frames.polled + 1 \in Nat BY <2>1
      <4> HIDE DEF phase
      <4> QED BY <1>1, <2>5, <4>1 DEF FrameCounts
    <3>3. frames' = [m EXCEPT !.dropped = d, !.shown = s] BY <1>1, <2>3 DEF FrameCounts
    <3> HIDE DEF d, s, m
    <3> QED BY <3>1, <3>2, <3>3 DEF FrameCounts
  <2>7. k \in Nat /\ frames.polled = SampleRate * k + frames.phase BY <2>1 DEF SamplingInv
  <2>8. frames'.told + frames'.shown + frames'.dropped = frames'.polled
    BY <2>1, <2>4 DEF SamplingInv
  <2>9. frames'.polled = SampleRate * (frames'.toldShown + frames'.shown) + frames'.phase
    <3>1. CASE frames.phase + 1 = SampleRate
      <4>1. phase = 0 /\ frames'.toldShown + frames'.shown = k + 1 BY <1>0, <2>1, <2>2, <2>4, <3>1
      <4>2. SampleRate * (k + 1) = SampleRate * k + SampleRate BY <1>0, <2>7, SampledFrame
      <4>3. SampleRate * k \in Int BY <1>0, <2>7
      <4> HIDE DEF k
      <4> QED BY <1>0, <2>1, <2>4, <2>7, <3>1, <4>1, <4>2, <4>3
    <3>2. CASE frames.phase + 1 # SampleRate
      <4>1. phase = frames.phase + 1 /\ phase # 0 /\ frames'.toldShown + frames'.shown = k
        BY <1>0, <2>1, <2>2, <2>4, <3>2
      <4>2. SampleRate * k \in Int BY <1>0, <2>7
      <4> HIDE DEF k
      <4> QED BY <1>0, <2>1, <2>4, <2>7, <4>1, <4>2
    <3> QED BY <3>1, <3>2
  <2> QED BY <2>6, <2>8, <2>9 DEF SamplingInv
<1>3. CASE LogPollSummary
  <2>1. frames' = [frames EXCEPT !.shown = 0, !.dropped = 0,
                     !.told = frames.told + frames.shown + frames.dropped,
                     !.toldShown = frames.toldShown + frames.shown]
    BY <1>1, <1>3 DEF LogPollSummary, Summarized, FrameCounts
  <2>2. /\ frames' \in FrameCounts /\ frames'.shown = 0 /\ frames'.dropped = 0
        /\ frames'.phase = frames.phase /\ frames'.polled = frames.polled
        /\ frames'.told = frames.told + frames.shown + frames.dropped
        /\ frames'.toldShown = frames.toldShown + frames.shown
    <3> DEFINE t == frames.told + frames.shown + frames.dropped
               s == frames.toldShown + frames.shown
               m == [frames EXCEPT !.shown = 0, !.dropped = 0]
    <3>1. t \in Nat /\ s \in Nat BY <1>1 DEF FrameCounts
    <3>2. /\ m \in FrameCounts /\ m.shown = 0 /\ m.dropped = 0
          /\ m.phase = frames.phase /\ m.polled = frames.polled
      BY <1>1 DEF FrameCounts
    <3>3. frames' = [m EXCEPT !.told = t, !.toldShown = s] BY <1>1, <2>1 DEF FrameCounts
    <3> HIDE DEF t, s, m
    <3>4. /\ frames' \in FrameCounts /\ frames'.shown = 0 /\ frames'.dropped = 0
          /\ frames'.phase = frames.phase /\ frames'.polled = frames.polled
          /\ frames'.told = t /\ frames'.toldShown = s
      BY <3>1, <3>2, <3>3 DEF FrameCounts
    <3> QED BY <3>4 DEF t, s
  <2>3. /\ frames'.toldShown + frames'.shown = frames.toldShown + frames.shown
        /\ frames'.told + frames'.shown + frames'.dropped = frames.told + frames.shown + frames.dropped
    BY <1>1, <2>2 DEF FrameCounts
  <2> QED BY <2>2, <2>3 DEF SamplingInv
<1>4. CASE UNCHANGED frames BY <1>4 DEF SamplingInv
<1> QED BY <1>2, <1>3, <1>4
       DEF TrafficNext, LogEvent, LogManualFrame, FlushTimer, Rebuild, PauseToggled, RawToggled,
           LevelChanged, Retranslated, ClearLog, SaveLog, ChunkSaved

\* Whatever is logged, paused, filtered or cleared in between, exactly one in SampleRate polled
\* frames is shown, and the poll summaries and what is left to summarize tell of all of them
\* (the sampling and the summary of TrafficLogController).
THEOREM PollsAreSampled == TrafficInit /\ [][TrafficNext]_trafficVars => []SamplingAccounts
<1>0. SampleRate \in Nat \ {0} BY MonitorBounds
<1>1. TrafficInit => SamplingInv
  <2> SUFFICES ASSUME TrafficInit PROVE SamplingInv OBVIOUS
  <2>1. SampleRate * 0 = 0 BY <1>0
  <2> QED BY <1>0, <2>1 DEF TrafficInit, SamplingInv, FrameCounts
<1>2. SamplingInv /\ [TrafficNext]_trafficVars => SamplingInv'
  BY SamplingStep DEF trafficVars, SamplingInv
<1>3. SamplingInv => SamplingAccounts
  <2> SUFFICES ASSUME SamplingInv PROVE SamplingAccounts OBVIOUS
  <2> DEFINE k == frames.toldShown + frames.shown
  <2>1. k \in Nat /\ frames.phase \in 0..(SampleRate - 1) BY DEF SamplingInv, FrameCounts
  <2>2. frames.polled = SampleRate * k + frames.phase BY DEF SamplingInv
  <2> HIDE DEF k
  <2>3. frames.polled \div SampleRate = k BY <1>0, <2>1, <2>2, Quotient
  <2> QED BY <2>3 DEF SamplingInv, SamplingAccounts, k
<1> QED BY <1>1, <1>2, <1>3, PTL

-----------------------------------------------------------------------------
(* Both logs.  They share no state: each goes on at its own steps. *)

\* In two rows of the traffic monitor is only what waited to be flushed during the last rebuild,
\* which shows it and leaves it waiting.  Once nothing waits, an event that the filters let
\* through and the history still has is on screen, unless as many rows as there may be stand for
\* later ones or for such a repetition: however often the log was paused, filtered, cleared,
\* saved, retranslated or rebuilt in between (appendEvent(), flushPendingEvents() and
\* rebuildVisibleEntries() of TrafficMonitorWidget).
THEOREM TrafficIsShown ==
  TrafficInit /\ [][TrafficNext]_trafficVars => [](NothingMissing /\ OnceEach)
<1>1. LogInv(log) /\ [TrafficNext]_trafficVars => LogInv(log)'
  <2>1. LogInv(log)' <=> LogInv(log') BY DEF LogInv, LogRecord, HistoryKept, PendingKept,
          PendingOrdered, RowsKept, ViewKept, Laid, Complete, Ascending, Apart, Before, Joined, Known,
          Above, Whole, Old, Fresh, IdsOf, PassesFilters, Increasing
  <2> QED BY <2>1, LogSteps
<1>2. LogInv(log) => NothingMissing /\ OnceEach BY LogComplete
<1> QED BY <1>1, <1>2, LogStarts, PTL

\* The byte monitor shows the newest lines it took since the last clear, in their order and each
\* once, and counts the bytes of just these (onTxData(), flushPendingEntries() and clear() of
\* ByteMonitorWidget).
THEOREM BytesAreShown == BytesInit /\ [][BytesNext]_bytes => [](LinesInOrder /\ StatsAgree)
<1>1. BytesInv(bytes) /\ [BytesNext]_bytes => BytesInv(bytes)'
  BY BytesSteps DEF BytesInv, BytesRecord, LinesKept, Ends, ListOf, Counted, KindAt
<1>2. BytesInv(bytes) => LinesInOrder /\ StatsAgree BY BytesAgree
<1> QED BY <1>1, <1>2, BytesStart, PTL

\* The byte monitor loses and repeats nothing.  The traffic monitor repeats only what waited
\* during a rebuild, and loses no more of its oldest lines than it so repeats.  Both count
\* everything.
THEOREM MonitorsAreComplete ==
  /\ TrafficInit /\ [][TrafficNext]_trafficVars
  /\ BytesInit /\ [][BytesNext]_bytes
  => []MonitorsComplete
<1>1. NothingMissing /\ OnceEach /\ SamplingAccounts /\ LinesInOrder /\ StatsAgree => MonitorsComplete
  BY DEF MonitorsComplete
<1> QED BY <1>1, TrafficIsShown, PollsAreSampled, BytesAreShown, PTL

-----------------------------------------------------------------------------
(* Which release is offered.  The functions that go through the releases. *)

\* A number of a tag is a number.
LEMMA ValueIs ==
  ASSUME NEW id \in Seq(Nat)
  PROVE  NumericValue(id) \in Nat
<1> DEFINE N == Len(id)
           step == [x \in Nat \X (1..N) |-> 10 * x[1] + id[x[2]]]
           value[n \in 0..N] == IF n = 0 THEN 0 ELSE 10 * value[n - 1] + id[n]
<1>1. N \in Nat /\ 0 \in Nat /\ \A i \in 1..N : id[i] \in Nat OBVIOUS
<1>2. step \in [Nat \X (1..N) -> Nat] BY <1>1
<1>3. PICK f \in [0..N -> Nat] : f[0] = 0 /\ \A n \in 1..N : f[n] = step[<<f[n - 1], n>>]
  <2> HIDE DEF step, N, value
  <2>1. Recurses(N, Nat, 0, step) BY <1>1, <1>2, Recursion
  <2> QED BY <2>1 DEF Recurses
<1>4. \A n \in 1..N : f[n] = 10 * f[n - 1] + id[n]
  <2> SUFFICES ASSUME NEW n \in 1..N PROVE f[n] = 10 * f[n - 1] + id[n] OBVIOUS
  <2>1. f[n - 1] \in Nat BY SMTT(30), <1>1
  <2>2. step[<<f[n - 1], n>>] = 10 * f[n - 1] + id[n] BY <2>1
  <2> QED BY <1>3, <2>2
<1> HIDE DEF step
<1>5. f = [n \in 0..N |-> IF n = 0 THEN 0 ELSE 10 * f[n - 1] + id[n]]
  <2>1. ASSUME NEW n \in 0..N, n # 0 PROVE f[n] = 10 * f[n - 1] + id[n]
    <3>1. n \in 1..N BY <1>1, <2>1
    <3> QED BY <1>4, <3>1
  <2> QED BY <1>3, <2>1
<1>6. value = [n \in 0..N |-> IF n = 0 THEN 0 ELSE 10 * value[n - 1] + id[n]] BY <1>5
<1>7. NumericValue(id) = IF N > 10 THEN 0 ELSE value[N] BY DEF NumericValue
<1> HIDE DEF value
<1>8. \A n \in 1..N : value[n] = 10 * value[n - 1] + id[n]
  <2>1. ASSUME NEW n \in 1..N PROVE value[n] = 10 * value[n - 1] + id[n]
    <3>1. n \in 0..N /\ n # 0 BY <1>1
    <3> QED BY <1>6, <3>1
  <2> QED BY <2>1
<1>9. value[N] \in Nat
  <2> DEFINE T == {n \in 0..N : value[n] = f[n]}
  <2>1. 0 \in T BY <1>1, <1>3, <1>6
  <2>2. ASSUME NEW n \in 0..N - 1, n \in T PROVE n + 1 \in T
    <3>1. n + 1 \in 1..N /\ n + 1 - 1 = n BY <1>1
    <3> QED BY <2>2, <3>1, <1>8, <1>4
  <2> HIDE DEF T
  <2>3. 0..N \subseteq T BY <1>1, <2>1, <2>2, Induction
  <2>4. value[N] = f[N] BY <1>1, <2>3 DEF T
  <2> QED BY <1>1, <2>4
<1> QED BY <1>7, <1>9

\* Going through the releases keeps the best of those seen.
BestOf(list, best) ==
  /\ best \in [0..Len(list) -> Releases] /\ best[0] = list[1]
  /\ \A n \in 1..Len(list) :
       best[n] = IF CompareVersions(best[n - 1].tag, list[n].tag) < 0 THEN list[n] ELSE best[n - 1]
  /\ LatestOf(list) = best[Len(list)]

\* What max_element() holds after each release is what its equation says.
LEMMA LatestSteps ==
  ASSUME NEW list \in Seq(Releases), list # <<>>
  PROVE  \E best : BestOf(list, best)
<1> DEFINE N == Len(list)
           S == Releases
           base == list[1]
           Better(x, n) == IF CompareVersions(x.tag, list[n].tag) < 0 THEN list[n] ELSE x
           step == [x \in S \X (1..N) |-> Better(x[1], x[2])]
           best[n \in 0..N] ==
             IF n = 0 THEN list[1]
             ELSE IF CompareVersions(best[n - 1].tag, list[n].tag) < 0 THEN list[n] ELSE best[n - 1]
<1>1. N \in Nat /\ base \in S /\ \A i \in 1..N : list[i] \in S OBVIOUS
<1> HIDE DEF S
<1>2. step \in [S \X (1..N) -> S] BY <1>1
<1>3. PICK f \in [0..N -> S] : f[0] = base /\ \A n \in 1..N : f[n] = step[<<f[n - 1], n>>]
  <2> HIDE DEF step, N, best, base
  <2>1. Recurses(N, S, base, step) BY <1>1, <1>2, Recursion
  <2> QED BY <2>1 DEF Recurses
<1>4. \A n \in 1..N : f[n] = Better(f[n - 1], n)
  <2> SUFFICES ASSUME NEW n \in 1..N PROVE f[n] = Better(f[n - 1], n) OBVIOUS
  <2> HIDE DEF Better
  <2>1. f[n - 1] \in S BY <1>1
  <2>2. step[<<f[n - 1], n>>] = Better(f[n - 1], n) BY <2>1
  <2> QED BY <1>3, <2>2
<1> HIDE DEF step
<1>5. f = [n \in 0..N |-> IF n = 0 THEN list[1]
             ELSE IF CompareVersions(f[n - 1].tag, list[n].tag) < 0 THEN list[n] ELSE f[n - 1]]
  <2>1. ASSUME NEW n \in 0..N, n # 0 PROVE f[n] = Better(f[n - 1], n)
    <3>1. n \in 1..N BY <1>1, <2>1
    <3> QED BY <1>4, <3>1
  <2>2. ASSUME NEW n \in 0..N PROVE f[n] = IF n = 0 THEN list[1] ELSE Better(f[n - 1], n)
    BY <1>3, <2>1
  <2> QED BY <2>2
<1>6. best = [n \in 0..N |-> IF n = 0 THEN list[1]
             ELSE IF CompareVersions(best[n - 1].tag, list[n].tag) < 0 THEN list[n] ELSE best[n - 1]]
  BY <1>5
<1>7. LatestOf(list) = best[N] BY DEF LatestOf
<1> HIDE DEF best
<1>8. best = [n \in 0..N |-> IF n = 0 THEN list[1] ELSE Better(best[n - 1], n)] BY <1>6
<1> HIDE DEF Better
<1>9. \A n \in 1..N : best[n] = Better(best[n - 1], n)
  <2>1. ASSUME NEW n \in 1..N PROVE best[n] = Better(best[n - 1], n)
    <3>1. n \in 0..N /\ n # 0 BY <1>1
    <3> QED BY <1>8, <3>1
  <2> QED BY <2>1
<1>10. best[0] = list[1] BY <1>1, <1>8
<1>11. best \in [0..N -> S]
  <2> DEFINE T == {n \in 0..N : best[n] = f[n]}
  <2>1. 0 \in T BY <1>1, <1>3, <1>10
  <2>2. ASSUME NEW n \in 0..N - 1, n \in T PROVE n + 1 \in T
    <3>1. n + 1 \in 1..N /\ n + 1 - 1 = n BY <1>1
    <3> QED BY <2>2, <3>1, <1>9, <1>4
  <2> HIDE DEF T
  <2>3. 0..N \subseteq T BY <1>1, <2>1, <2>2, Induction
  <2>4. \A n \in 0..N : best[n] = f[n] BY <2>3 DEF T
  <2>5. best = [n \in 0..N |-> f[n]] BY <2>4, <1>8
  <2> QED BY <2>5
<1>12. BestOf(list, best) BY <1>7, <1>9, <1>10, <1>11 DEF BestOf, Better, N, S
<1> QED BY <1>12

\* What is listed: all releases that may be offered, and no other.
KeptFrom(kept) ==
  /\ kept \in [0..Len(releases) -> Seq(Releases)] /\ kept[0] = <<>>
  /\ \A n \in 1..Len(releases) :
       kept[n] = IF Eligible(releases[n]) THEN Append(kept[n - 1], releases[n]) ELSE kept[n - 1]
  /\ Listed = kept[Len(releases)]

\* So is what parseReleases() has kept after each.
LEMMA ListedSteps ==
  ASSUME releases \in Seq(Releases)
  PROVE  \E kept : KeptFrom(kept)
<1> DEFINE N == Len(releases)
           S == Seq(Releases)
           base == <<>>
           With(x, n) == IF Eligible(releases[n]) THEN Append(x, releases[n]) ELSE x
           step == [x \in S \X (1..N) |-> With(x[1], x[2])]
           kept[n \in 0..N] ==
             IF n = 0 THEN <<>>
             ELSE IF Eligible(releases[n]) THEN Append(kept[n - 1], releases[n]) ELSE kept[n - 1]
<1>1. N \in Nat /\ base \in S /\ \A x \in S : \A i \in 1..N : With(x, i) \in S OBVIOUS
<1> HIDE DEF S
<1>2. step \in [S \X (1..N) -> S]
  <2> HIDE DEF With
  <2> QED BY <1>1
<1>3. PICK f \in [0..N -> S] : f[0] = base /\ \A n \in 1..N : f[n] = step[<<f[n - 1], n>>]
  <2> HIDE DEF step, N, kept, base
  <2>1. Recurses(N, S, base, step) BY <1>1, <1>2, Recursion
  <2> QED BY <2>1 DEF Recurses
<1>4. \A n \in 1..N : f[n] = With(f[n - 1], n)
  <2> SUFFICES ASSUME NEW n \in 1..N PROVE f[n] = With(f[n - 1], n) OBVIOUS
  <2> HIDE DEF With
  <2>1. f[n - 1] \in S BY <1>1
  <2>2. step[<<f[n - 1], n>>] = With(f[n - 1], n) BY <2>1
  <2> QED BY <1>3, <2>2
<1> HIDE DEF step
<1>5. f = [n \in 0..N |-> IF n = 0 THEN <<>>
             ELSE IF Eligible(releases[n]) THEN Append(f[n - 1], releases[n]) ELSE f[n - 1]]
  <2>1. ASSUME NEW n \in 0..N, n # 0 PROVE f[n] = With(f[n - 1], n)
    <3>1. n \in 1..N BY <1>1, <2>1
    <3> QED BY <1>4, <3>1
  <2>2. ASSUME NEW n \in 0..N PROVE f[n] = IF n = 0 THEN <<>> ELSE With(f[n - 1], n)
    BY <1>3, <2>1
  <2> QED BY <2>2
<1>6. kept = [n \in 0..N |-> IF n = 0 THEN <<>>
             ELSE IF Eligible(releases[n]) THEN Append(kept[n - 1], releases[n]) ELSE kept[n - 1]]
  BY <1>5
<1>7. Listed = kept[N] BY DEF Listed
<1> HIDE DEF kept
<1>8. kept = [n \in 0..N |-> IF n = 0 THEN <<>> ELSE With(kept[n - 1], n)] BY <1>6
<1> HIDE DEF With
<1>9. \A n \in 1..N : kept[n] = With(kept[n - 1], n)
  <2>1. ASSUME NEW n \in 1..N PROVE kept[n] = With(kept[n - 1], n)
    <3>1. n \in 0..N /\ n # 0 BY <1>1
    <3> QED BY <1>8, <3>1
  <2> QED BY <2>1
<1>10. kept[0] = <<>> BY <1>1, <1>8
<1>11. kept \in [0..N -> S]
  <2> DEFINE T == {n \in 0..N : kept[n] = f[n]}
  <2>1. 0 \in T BY <1>1, <1>3, <1>10
  <2>2. ASSUME NEW n \in 0..N - 1, n \in T PROVE n + 1 \in T
    <3>1. n + 1 \in 1..N /\ n + 1 - 1 = n BY <1>1
    <3> QED BY <2>2, <3>1, <1>9, <1>4
  <2> HIDE DEF T
  <2>3. 0..N \subseteq T BY <1>1, <2>1, <2>2, Induction
  <2>4. \A n \in 0..N : kept[n] = f[n] BY <2>3 DEF T
  <2>5. kept = [n \in 0..N |-> f[n]] BY <2>4, <1>8
  <2> QED BY <2>5
<1>12. KeptFrom(kept) BY <1>7, <1>9, <1>10, <1>11 DEF KeptFrom, With, N, S
<1> QED BY <1>12

\* A version whose identifiers are numbers, labels, or labels with a number after them.
PlainTag(v) ==
  /\ v \in [segments : Seq(Seq(Nat)), prerelease : Seq(Seq(Nat))]
  /\ \A i \in DOMAIN v.prerelease : PlainId(v.prerelease[i])

\* The least of a set of numbers.
LEMMA MinIs ==
  ASSUME NEW S \in SUBSET Nat, S # {}
  PROVE  Min(S) \in S /\ \A k \in S : Min(S) <= k
<1>1. \E m \in S : \A k \in S : m =< k BY Least
<1> QED BY <1>1 DEF Min

\* The greatest of one that has it.
LEMMA MaxOf ==
  ASSUME NEW S, NEW m \in S, S \subseteq Nat, \A k \in S : k <= m
  PROVE  Max(S) = m
<1>1. \E x \in S : \A y \in S : x >= y OBVIOUS
<1> DEFINE M == Max(S)
<1>2. M \in S /\ \A y \in S : M >= y BY <1>1 DEF Max
<1> HIDE DEF M
<1>3. M \in Nat /\ m \in Nat /\ M >= m /\ M <= m BY <1>2
<1>4. M = m BY <1>3
<1> QED BY <1>4 DEF M

\* The first sign that is not 0, or 0.
LEMMA FirstIs ==
  ASSUME NEW N \in Nat, NEW signs, DOMAIN signs = 1..N
  PROVE  \/ FirstNonZero(signs) = 0 /\ \A i \in 1..N : signs[i] = 0
         \/ \E i \in 1..N : /\ signs[i] # 0 /\ FirstNonZero(signs) = signs[i]
                            /\ \A j \in 1..i - 1 : signs[j] = 0
<1> DEFINE found == {i \in DOMAIN signs : signs[i] # 0}
<1>1. CASE found = {}
  <2>1. FirstNonZero(signs) = 0 BY <1>1 DEF FirstNonZero
  <2> QED BY <1>1, <2>1
<1>2. CASE found # {}
  <2> DEFINE m == Min(found)
  <2>1. m \in found /\ \A k \in found : m <= k BY <1>2, MinIs
  <2>2. FirstNonZero(signs) = signs[m] BY <1>2 DEF FirstNonZero
  <2> HIDE DEF m
  <2>3. \A j \in 1..m - 1 : signs[j] = 0
    <3>1. ASSUME NEW j \in 1..m - 1, signs[j] # 0 PROVE FALSE
      <4>1. m \in 1..N BY <2>1
      <4>2. j \in found BY <3>1, <4>1
      <4> QED BY <2>1, <4>1, <4>2
    <3> QED BY <3>1
  <2> QED BY <2>1, <2>2, <2>3
<1> QED BY <1>1, <1>2

\* A version goes on with zeros.
LEMMA SegmentIs ==
  ASSUME NEW v, PlainTag(v), NEW i \in Nat \ {0}
  PROVE  Segment(v, i) \in Nat /\ (i > Len(v.segments) => Segment(v, i) = 0)
<1>1. v.segments \in Seq(Seq(Nat)) BY DEF PlainTag
<1>2. CASE i <= Len(v.segments) /\ IsAllDigits(v.segments[i])
  <2>1. v.segments[i] \in Seq(Nat) BY <1>1, <1>2
  <2>2. NumericValue(v.segments[i]) \in Nat BY <2>1, ValueIs
  <2>3. Len(v.segments) \in Nat BY <1>1
  <2> QED BY <1>2, <2>2, <2>3 DEF Segment
<1>3. CASE ~(i <= Len(v.segments) /\ IsAllDigits(v.segments[i]))
  <2>1. Segment(v, i) = 0 BY <1>3 DEF Segment
  <2> QED BY <2>1
<1> QED BY <1>2, <1>3

-----------------------------------------------------------------------------

\* The ranks of LessWithin are triples.
Triples == Nat \X Nat \X Nat

\* The order of triples, written out.
LEMMA RankLessIs ==
  ASSUME NEW x \in Triples, NEW y \in Triples
  PROVE  RankLess(x, y) <=> \/ x[1] < y[1]
                            \/ x[1] = y[1] /\ x[2] < y[2]
                            \/ x[1] = y[1] /\ x[2] = y[2] /\ x[3] < y[3]
<1>1. 1..3 = {1, 2, 3} /\ 1..0 = {} /\ 1..1 = {1} /\ 1..2 = {1, 2} OBVIOUS
<1>2. RankLess(x, y) <=> \/ x[1] < y[1] /\ \A q \in 1..0 : x[q] = y[q]
                         \/ x[2] < y[2] /\ \A q \in 1..1 : x[q] = y[q]
                         \/ x[3] < y[3] /\ \A q \in 1..2 : x[q] = y[q]
  BY <1>1 DEF RankLess
<1> QED BY <1>1, <1>2

\* Ranks are in one order.
LEMMA RanksOrdered ==
  ASSUME NEW x \in Triples, NEW y \in Triples, NEW z \in Triples
  PROVE  /\ ~RankLess(x, x)
         /\ RankLess(x, y) => ~RankLess(y, x) /\ x # y
         /\ RankLess(x, y) \/ RankLess(y, x) \/ x = y
         /\ RankLess(x, y) /\ RankLess(y, z) => RankLess(x, z)
<1>1. /\ x[1] \in Nat /\ x[2] \in Nat /\ x[3] \in Nat /\ y[1] \in Nat /\ y[2] \in Nat /\ y[3] \in Nat
      /\ z[1] \in Nat /\ z[2] \in Nat /\ z[3] \in Nat
      /\ x = <<x[1], x[2], x[3]>> /\ y = <<y[1], y[2], y[3]>>
  BY DEF Triples
<1>2. ~RankLess(x, x) BY <1>1, RankLessIs
<1>3. RankLess(x, y) => ~RankLess(y, x) BY <1>1, RankLessIs
<1>4. RankLess(x, y) \/ RankLess(y, x) \/ x = y
  <2>1. x[1] = y[1] /\ x[2] = y[2] /\ x[3] = y[3] => x = y BY <1>1
  <2> QED BY <1>1, <2>1, RankLessIs
<1>5. RankLess(x, y) /\ RankLess(y, z) => RankLess(x, z) BY <1>1, RankLessIs
<1> QED BY <1>2, <1>3, <1>4, <1>5

\* The order of two ranks as a sign.
RankSign(x, y) == IF RankLess(x, y) THEN -1 ELSE IF x = y THEN 0 ELSE 1

-----------------------------------------------------------------------------
(* Identifiers *)

\* Of a plain identifier the first character says what it is, and where its label ends.
LEMMA PlainIdIs ==
  ASSUME NEW id, PlainId(id)
  PROVE  /\ id \in Seq(Nat) /\ Len(id) \in Nat \ {0} /\ id[1] \in Nat
         /\ IsAllDigits(id) <=> id[1] <= 9
         /\ IsHybrid(id) <=> id[1] > 9 /\ Len(id) > 1
         /\ IsHybrid(id) => Label(id) = <<id[1]>> /\ Tail10(id) = NumericValue(Tail(id))
         /\ IdRank(id) \in Triples /\ IdRank(id)[1] \in {1, 2}
<1> DEFINE n == Len(id)
           digits == {i \in DOMAIN id : IsDigit(id[i])}
<1>1. id \in Seq(Nat) /\ n \in Nat \ {0} /\ id[1] \in Nat /\ DOMAIN id = 1..n BY DEF PlainId
<1>2. \A i \in 2..n : IsDigit(id[i]) BY DEF PlainId, IsDigit
<1>3. IsAllDigits(id) <=> id[1] <= 9
  <2>1. IsAllDigits(id) <=> \A i \in 1..n : IsDigit(id[i]) BY <1>1 DEF IsAllDigits, PlainId
  <2>2. \A i \in 1..n : i = 1 \/ i \in 2..n BY <1>1
  <2>3. 1 \in 1..n BY <1>1
  <2> HIDE DEF n
  <2> QED BY <1>2, <2>1, <2>2, <2>3 DEF IsDigit
<1>4. CASE id[1] <= 9
  <2>1. 1 \in digits /\ digits \subseteq Nat /\ \A k \in digits : 1 <= k BY <1>1, <1>4 DEF IsDigit
  <2>2. Min(digits) = 1
    <3>1. Min(digits) \in digits /\ \A k \in digits : Min(digits) <= k BY <2>1, MinIs
    <3> QED BY <2>1, <3>1
  <2>3. LabelLength(id) = 0 BY <2>1, <2>2 DEF LabelLength
  <2>4. ~IsHybrid(id) BY <1>1, <2>3 DEF IsHybrid
  <2>5. IdRank(id) = <<1, NumericValue(id), 0>> BY <1>3, <1>4 DEF IdRank
  <2>6. NumericValue(id) \in Nat BY <1>1, ValueIs
  <2>7. ~(id[1] > 9) BY <1>1, <1>4
  <2> QED BY <1>1, <1>3, <2>4, <2>5, <2>6, <2>7 DEF Triples
<1>5. CASE id[1] > 9
  <2>0. ~(id[1] <= 9) BY <1>1, <1>5
  <2>1. digits = 2..n
    <3>1. \A i \in 1..n : i = 1 \/ i \in 2..n BY <1>1
    <3>2. \A i \in 2..n : i \in 1..n BY <1>1
    <3> HIDE DEF n
    <3> QED BY <1>1, <1>2, <2>0, <3>1, <3>2 DEF IsDigit
  <2>2. LabelLength(id) = 1
    <3>1. CASE n = 1
      <4>1. digits = {} BY <2>1, <3>1
      <4> QED BY <3>1, <4>1 DEF LabelLength
    <3>2. CASE n # 1
      <4>1. 2 \in digits /\ digits \subseteq Nat /\ \A k \in digits : 2 <= k BY <1>1, <2>1, <3>2
      <4>2. Min(digits) \in digits /\ \A k \in digits : Min(digits) <= k BY <4>1, MinIs
      <4>3. Min(digits) = 2 BY <4>1, <4>2
      <4> QED BY <4>1, <4>3 DEF LabelLength
    <3> QED BY <3>1, <3>2
  <2>3. IsHybrid(id) <=> n > 1
    <3>1. \A i \in 1 + 1..n : IsDigit(id[i]) BY <1>2
    <3> QED BY <1>1, <2>2, <3>1 DEF IsHybrid
  <2>4. Label(id) = <<id[1]>>
    <3> DEFINE s == SubSeq(id, 1, 1)
    <3>2. s \in Seq(Nat) /\ Len(s) = 1 /\ s[1] = id[1]
      <4>1. \A i \in 1..1 : id[i] \in Nat BY <1>1
      <4> QED BY <1>1, <4>1, SubSeqProperties
    <3> HIDE DEF s
    <3>3. s = <<s[1]>> BY <3>2
    <3>1. SubSeq(id, 1, 1) = <<id[1]>> BY <3>2, <3>3 DEF s
    <3> QED BY <2>2, <3>1 DEF Label
  <2>5. n > 1 => Tail10(id) = NumericValue(Tail(id))
    <3>1. SubSeq(id, 1 + 1, n) = Tail(id) BY <1>1
    <3> QED BY <2>2, <3>1 DEF Tail10
  <2>6. n > 1 => NumericValue(Tail(id)) \in Nat
    <3>1. n > 1 => Tail(id) \in Seq(Nat) BY <1>1
    <3> QED BY <3>1, ValueIs
  <2>7. IdRank(id) = <<2, id[1], IF n > 1 THEN 1 + NumericValue(Tail(id)) ELSE 0>>
    BY <1>3, <2>0 DEF IdRank
  <2>8. IdRank(id) \in Triples /\ IdRank(id)[1] = 2
    <3> DEFINE k == IF n > 1 THEN 1 + NumericValue(Tail(id)) ELSE 0
    <3>1. k \in Nat BY <2>6
    <3> HIDE DEF k
    <3>2. <<2, id[1], k>> \in Triples BY <1>1, <3>1 DEF Triples
    <3> QED BY <2>7, <3>2 DEF k
  <2> QED BY <1>1, <1>3, <1>5, <2>0, <2>3, <2>4, <2>5, <2>8
<1> QED BY <1>1, <1>4, <1>5

\* Of two texts that begin differently the first characters decide.
LEMMA FirstsDiffer ==
  ASSUME NEW a \in Seq(Nat), NEW b \in Seq(Nat), a # <<>>, b # <<>>, a[1] # b[1]
  PROVE  CompareText(a, b) = Sign(a[1], b[1])
<1> DEFINE N == IF Len(a) < Len(b) THEN Len(a) ELSE Len(b)
           signs == [i \in Both(a, b) |-> Sign(a[i], b[i])]
<1>1. N \in Nat \ {0} /\ Both(a, b) = 1..N BY DEF Both
<1>2. DOMAIN signs = 1..N /\ \A i \in 1..N : signs[i] = Sign(a[i], b[i]) BY <1>1
<1>3. CompareText(a, b) = CompareBy(signs, a, b) BY DEF CompareText
<1>4. a[1] \in Nat /\ b[1] \in Nat OBVIOUS
<1> HIDE DEF N, signs
<1>5. signs[1] = Sign(a[1], b[1]) /\ signs[1] # 0 BY <1>1, <1>2, <1>4 DEF Sign
<1>6. PICK i \in 1..N : signs[i] # 0 /\ FirstNonZero(signs) = signs[i] /\ \A j \in 1..i - 1 : signs[j] = 0
  <2>1. 1 \in 1..N BY <1>1
  <2> QED BY <1>1, <1>2, <1>5, <2>1, FirstIs
<1>7. i = 1
  <2>1. i # 1 => 1 \in 1..i - 1 BY <1>1
  <2> QED BY <1>5, <1>6, <2>1
<1> QED BY <1>3, <1>5, <1>6, <1>7 DEF CompareBy

\* Of two texts with one first character, one of them only this, the length decides.
LEMMA OneIsFirst ==
  ASSUME NEW a \in Seq(Nat), NEW b \in Seq(Nat), a # <<>>, b # <<>>, a[1] = b[1],
         Len(a) = 1 \/ Len(b) = 1
  PROVE  CompareText(a, b) = Sign(Len(a), Len(b))
<1> DEFINE signs == [i \in Both(a, b) |-> Sign(a[i], b[i])]
<1>1. Both(a, b) = 1..1 BY DEF Both
<1>2. DOMAIN signs = 1..1 /\ \A i \in 1..1 : signs[i] = Sign(a[i], b[i]) BY <1>1
<1>3. CompareText(a, b) = CompareBy(signs, a, b) BY DEF CompareText
<1> HIDE DEF signs
<1>4. \A i \in 1..1 : signs[i] = 0
  <2>1. \A i \in 1..1 : i = 1 OBVIOUS
  <2> QED BY <1>2, <2>1 DEF Sign
<1>5. FirstNonZero(signs) = 0 BY SMTT(30), <1>2, <1>4, FirstIs
<1> QED BY <1>3, <1>5 DEF CompareBy

\* The sign, written out.
LEMMA RankSignIs ==
  ASSUME NEW a \in Nat, NEW b \in Nat, NEW c \in Nat, NEW d \in Nat, NEW e \in Nat, NEW f \in Nat
  PROVE  RankSign(<<a, b, c>>, <<d, e, f>>)
           = IF a # d THEN Sign(a, d) ELSE IF b # e THEN Sign(b, e) ELSE Sign(c, f)
<1> DEFINE x == <<a, b, c>>
           y == <<d, e, f>>
<1>1. x \in Triples /\ y \in Triples BY DEF Triples
<1>2. x[1] = a /\ x[2] = b /\ x[3] = c /\ y[1] = d /\ y[2] = e /\ y[3] = f OBVIOUS
<1>3. x = y <=> a = d /\ b = e /\ c = f OBVIOUS
<1> HIDE DEF x, y
<1>4. RankLess(x, y) <=> a < d \/ (a = d /\ b < e) \/ (a = d /\ b = e /\ c < f)
  BY <1>1, <1>2, RankLessIs
<1> QED BY <1>3, <1>4 DEF RankSign, Sign, x, y

\* comparePrereleaseIdentifiers() orders plain identifiers by their ranks.
LEMMA IdsCompared ==
  ASSUME NEW l, PlainId(l), NEW r, PlainId(r)
  PROVE  CompareIdentifiers(l, r) = RankSign(IdRank(l), IdRank(r))
<1> DEFINE t(x) == IF Len(x) > 1 THEN 1 + NumericValue(Tail(x)) ELSE 0
<1>1. /\ l \in Seq(Nat) /\ Len(l) \in Nat \ {0} /\ l[1] \in Nat
      /\ r \in Seq(Nat) /\ Len(r) \in Nat \ {0} /\ r[1] \in Nat
      /\ IsAllDigits(l) <=> l[1] <= 9
      /\ IsAllDigits(r) <=> r[1] <= 9
      /\ IsHybrid(l) <=> l[1] > 9 /\ Len(l) > 1
      /\ IsHybrid(r) <=> r[1] > 9 /\ Len(r) > 1
      /\ IsHybrid(l) => Label(l) = <<l[1]>> /\ Tail10(l) = NumericValue(Tail(l))
      /\ IsHybrid(r) => Label(r) = <<r[1]>> /\ Tail10(r) = NumericValue(Tail(r))
  BY PlainIdIs
<1>2. NumericValue(l) \in Nat /\ NumericValue(r) \in Nat BY <1>1, ValueIs
<1>3. (Len(l) > 1 => NumericValue(Tail(l)) \in Nat) /\ (Len(r) > 1 => NumericValue(Tail(r)) \in Nat)
  <2>1. (Len(l) > 1 => Tail(l) \in Seq(Nat)) /\ (Len(r) > 1 => Tail(r) \in Seq(Nat)) BY <1>1
  <2> QED BY <2>1, ValueIs
<1>4. t(l) \in Nat /\ t(r) \in Nat BY <1>3
<1>5. /\ IdRank(l) = IF l[1] <= 9 THEN <<1, NumericValue(l), 0>> ELSE <<2, l[1], t(l)>>
      /\ IdRank(r) = IF r[1] <= 9 THEN <<1, NumericValue(r), 0>> ELSE <<2, r[1], t(r)>>
  BY <1>1 DEF IdRank
<1>6. l # <<>> /\ r # <<>> BY <1>1
<1>7. CASE l[1] <= 9 /\ r[1] <= 9
  <2>1. CompareIdentifiers(l, r) = Sign(NumericValue(l), NumericValue(r)) BY <1>1, <1>7 DEF CompareIdentifiers
  <2>2. RankSign(<<1, NumericValue(l), 0>>, <<1, NumericValue(r), 0>>)
          = IF NumericValue(l) # NumericValue(r) THEN Sign(NumericValue(l), NumericValue(r)) ELSE Sign(0, 0)
    BY <1>2, RankSignIs
  <2> QED BY <1>5, <1>7, <2>1, <2>2 DEF Sign
<1>8. CASE l[1] <= 9 /\ ~(r[1] <= 9)
  <2>1. CompareIdentifiers(l, r) = -1 BY <1>1, <1>8 DEF CompareIdentifiers
  <2>2. RankSign(<<1, NumericValue(l), 0>>, <<2, r[1], t(r)>>) = Sign(1, 2)
    <3> HIDE DEF t
    <3> QED BY <1>1, <1>2, <1>4, RankSignIs
  <2> QED BY <1>5, <1>8, <2>1, <2>2 DEF Sign
<1>9. CASE ~(l[1] <= 9) /\ r[1] <= 9
  <2>1. CompareIdentifiers(l, r) = 1 BY <1>1, <1>9 DEF CompareIdentifiers
  <2>2. RankSign(<<2, l[1], t(l)>>, <<1, NumericValue(r), 0>>) = Sign(2, 1)
    <3> DEFINE k == t(l)
               n == NumericValue(r)
    <3>1. k \in Nat /\ n \in Nat BY <1>2, <1>4
    <3> HIDE DEF k, n
    <3>2. RankSign(<<2, l[1], k>>, <<1, n, 0>>) = Sign(2, 1) BY SMTT(30), <1>1, <3>1, RankSignIs
    <3> QED BY <3>2 DEF k, n
  <2> QED BY <1>5, <1>9, <2>1, <2>2 DEF Sign
<1>10. CASE ~(l[1] <= 9) /\ ~(r[1] <= 9)
  <2>0. IsHybrid(l) /\ IsHybrid(r) <=> Len(l) > 1 /\ Len(r) > 1 BY <1>1, <1>10
  <2>4. (Len(l) = 1 \/ Len(l) > 1) /\ (Len(r) = 1 \/ Len(r) > 1)
    <3>1. \A n \in Nat \ {0} : n = 1 \/ n > 1 OBVIOUS
    <3> QED BY Zenon, <1>1, <3>1
  <2>1. RankSign(IdRank(l), IdRank(r)) = IF l[1] # r[1] THEN Sign(l[1], r[1]) ELSE Sign(t(l), t(r))
    <3> HIDE DEF t
    <3>1. RankSign(<<2, l[1], t(l)>>, <<2, r[1], t(r)>>)
            = IF l[1] # r[1] THEN Sign(l[1], r[1]) ELSE Sign(t(l), t(r))
      BY SMTT(30), <1>1, <1>4, RankSignIs
    <3> QED BY <1>5, <1>10, <3>1
  <2>2. CASE IsHybrid(l) /\ IsHybrid(r)
    <3>1. CompareIdentifiers(l, r)
            = IF <<l[1]>> # <<r[1]>> THEN CompareText(<<l[1]>>, <<r[1]>>)
              ELSE Sign(NumericValue(Tail(l)), NumericValue(Tail(r)))
      BY <1>1, <2>2 DEF CompareIdentifiers
    <3>2. CASE l[1] # r[1]
      <4> DEFINE a == <<l[1]>>
                 b == <<r[1]>>
      <4>1. a \in Seq(Nat) /\ b \in Seq(Nat) /\ a # <<>> /\ b # <<>> /\ a[1] = l[1] /\ b[1] = r[1] BY <1>1
      <4>2. CompareIdentifiers(l, r) = CompareText(a, b) BY <3>1, <3>2
      <4> HIDE DEF a, b
      <4>3. CompareText(a, b) = Sign(l[1], r[1]) BY <3>2, <4>1, FirstsDiffer
      <4> QED BY <2>1, <3>2, <4>2, <4>3
    <3>3. CASE l[1] = r[1]
      <4>1. CompareIdentifiers(l, r) = Sign(NumericValue(Tail(l)), NumericValue(Tail(r))) BY <3>1, <3>3
      <4>2. t(l) = 1 + NumericValue(Tail(l)) /\ t(r) = 1 + NumericValue(Tail(r)) BY <2>0, <2>2
      <4>3. Sign(t(l), t(r)) = Sign(NumericValue(Tail(l)), NumericValue(Tail(r)))
        BY <1>3, <2>0, <2>2, <4>2 DEF Sign
      <4> QED BY <2>1, <3>3, <4>1, <4>3
    <3> QED BY <3>2, <3>3
  <2>3. CASE ~(IsHybrid(l) /\ IsHybrid(r))
    <3>0. ~IsAllDigits(l) /\ ~IsAllDigits(r) BY <1>1, <1>10
    <3>4. IsAllDigits(l) = IsAllDigits(r) BY <3>0 DEF IsAllDigits
    <3>1. CompareIdentifiers(l, r) = CompareText(l, r) BY Zenon, <2>3, <3>0, <3>4 DEF CompareIdentifiers
    <3>2. CASE l[1] # r[1]
      <4>1. CompareText(l, r) = Sign(l[1], r[1]) BY <1>1, <1>6, <3>2, FirstsDiffer
      <4> QED BY <2>1, <3>1, <3>2, <4>1
    <3>3. CASE l[1] = r[1]
      <4>0. ~(Len(l) > 1) \/ ~(Len(r) > 1) BY <2>0, <2>3
      <4>1. Len(l) = 1 \/ Len(r) = 1 BY Zenon, <2>4, <4>0
      <4>2. CompareText(l, r) = Sign(Len(l), Len(r)) BY <1>1, <1>6, <3>3, <4>1, OneIsFirst
      <4>3. Sign(t(l), t(r)) = Sign(Len(l), Len(r))
        <5>1. CASE Len(l) = 1
          <6>1. t(l) = 0 BY <5>1
          <6>2. Len(r) = 1 => t(r) = 0 OBVIOUS
          <6>3. Len(r) > 1 => t(r) = 1 + NumericValue(Tail(r)) OBVIOUS
          <6> HIDE DEF t
          <6> QED BY <1>1, <1>4, <1>3, <2>4, <5>1, <6>1, <6>2, <6>3 DEF Sign
        <5>2. CASE Len(r) = 1
          <6>1. t(r) = 0 BY <5>2
          <6>2. Len(l) = 1 => t(l) = 0 OBVIOUS
          <6>3. Len(l) > 1 => t(l) = 1 + NumericValue(Tail(l)) OBVIOUS
          <6> HIDE DEF t
          <6> QED BY <1>1, <1>4, <1>3, <2>4, <5>2, <6>1, <6>2, <6>3 DEF Sign
        <5> QED BY <4>1, <5>1, <5>2
      <4> QED BY <2>1, <3>1, <3>3, <4>2, <4>3
    <3> QED BY <3>2, <3>3
  <2> QED BY <2>2, <2>3
<1> QED BY <1>7, <1>8, <1>9, <1>10

-----------------------------------------------------------------------------
(* Versions *)

\* The numbers compareVersions() compares.
Numbers(a, b) == IF Len(a.segments) > Len(b.segments) THEN Len(a.segments) ELSE Len(b.segments)

\* Every place of a version has a rank.
LEMMA RankIs ==
  ASSUME NEW v, PlainTag(v), NEW s \in Nat, NEW n \in Nat \ {0}
  PROVE  Rank(v, s, n) \in Triples
<1>1. v.prerelease \in Seq(Seq(Nat)) BY DEF PlainTag
<1>2. CASE n <= s
  <2>1. Segment(v, n) \in Nat BY SegmentIs
  <2>2. Rank(v, s, n) = <<Segment(v, n), 0, 0>> BY <1>2 DEF Rank
  <2> QED BY <2>1, <2>2 DEF Triples
<1>3. CASE ~(n <= s) /\ n - s <= Len(v.prerelease)
  <2>1. n - s \in DOMAIN v.prerelease BY <1>1, <1>3
  <2>2. IdRank(v.prerelease[n - s]) \in Triples BY <2>1, PlainIdIs DEF PlainTag
  <2> QED BY <1>3, <2>2 DEF Rank
<1>4. CASE ~(n <= s) /\ ~(n - s <= Len(v.prerelease))
  <2>1. Rank(v, s, n) = <<3, 0, 0>> \/ Rank(v, s, n) = <<0, 0, 0>> BY <1>4 DEF Rank
  <2> QED BY <2>1 DEF Triples
<1> QED BY <1>2, <1>3, <1>4

\* The order of two versions, with room for both and any more.
LEMMA LessOrdered ==
  ASSUME NEW a, PlainTag(a), NEW b, PlainTag(b), NEW c, PlainTag(c), NEW s \in Nat, NEW p \in Nat
  PROVE  /\ LessWithin(a, b, s, p) => ~LessWithin(b, a, s, p)
         /\ LessWithin(a, b, s, p) /\ LessWithin(b, c, s, p) => LessWithin(a, c, s, p)
<1>1. \A n \in 1..p : Rank(a, s, n) \in Triples /\ Rank(b, s, n) \in Triples /\ Rank(c, s, n) \in Triples
  BY RankIs
<1>2. ASSUME LessWithin(a, b, s, p), LessWithin(b, a, s, p) PROVE FALSE
  <2>1. PICK n \in 1..p : /\ RankLess(Rank(a, s, n), Rank(b, s, n))
                          /\ \A m \in 1..n - 1 : Rank(a, s, m) = Rank(b, s, m)
    BY <1>2 DEF LessWithin
  <2>2. PICK k \in 1..p : /\ RankLess(Rank(b, s, k), Rank(a, s, k))
                          /\ \A m \in 1..k - 1 : Rank(b, s, m) = Rank(a, s, m)
    BY <1>2 DEF LessWithin
  <2>3. CASE n = k BY <1>1, <2>1, <2>2, <2>3, RanksOrdered
  <2>4. CASE n < k
    <3>1. n \in 1..k - 1 BY <2>4
    <3> QED BY <1>1, <2>1, <2>2, <3>1, RanksOrdered
  <2>5. CASE k < n
    <3>1. k \in 1..n - 1 BY <2>5
    <3> QED BY <1>1, <2>1, <2>2, <3>1, RanksOrdered
  <2> QED BY <2>3, <2>4, <2>5
<1>3. ASSUME LessWithin(a, b, s, p), LessWithin(b, c, s, p) PROVE LessWithin(a, c, s, p)
  <2>1. PICK n \in 1..p : /\ RankLess(Rank(a, s, n), Rank(b, s, n))
                          /\ \A m \in 1..n - 1 : Rank(a, s, m) = Rank(b, s, m)
    BY <1>3 DEF LessWithin
  <2>2. PICK k \in 1..p : /\ RankLess(Rank(b, s, k), Rank(c, s, k))
                          /\ \A m \in 1..k - 1 : Rank(b, s, m) = Rank(c, s, m)
    BY <1>3 DEF LessWithin
  <2>3. CASE n = k
    <3>1. RankLess(Rank(a, s, n), Rank(c, s, n)) BY <1>1, <2>1, <2>2, <2>3, RanksOrdered
    <3>2. \A m \in 1..n - 1 : Rank(a, s, m) = Rank(c, s, m) BY <2>1, <2>2, <2>3
    <3> QED BY <3>1, <3>2 DEF LessWithin
  <2>4. CASE n < k
    <3>1. n \in 1..k - 1 /\ \A m \in 1..n - 1 : m \in 1..k - 1 BY <2>4
    <3>2. RankLess(Rank(a, s, n), Rank(c, s, n)) BY <2>1, <2>2, <3>1
    <3>3. \A m \in 1..n - 1 : Rank(a, s, m) = Rank(c, s, m) BY <2>1, <2>2, <3>1
    <3> QED BY <3>2, <3>3 DEF LessWithin
  <2>5. CASE k < n
    <3>1. k \in 1..n - 1 /\ \A m \in 1..k - 1 : m \in 1..n - 1 BY <2>5
    <3>2. RankLess(Rank(a, s, k), Rank(c, s, k)) BY <2>1, <2>2, <3>1
    <3>3. \A m \in 1..k - 1 : Rank(a, s, m) = Rank(c, s, m) BY <2>1, <2>2, <3>1
    <3> QED BY <3>2, <3>3 DEF LessWithin
  <2> QED BY <2>3, <2>4, <2>5
<1> QED BY <1>2, <1>3

\* What ends is above a prerelease's identifiers, and what has ended is below them.
LEMMA EndsSigned ==
  ASSUME NEW x \in Triples, x[1] \in {1, 2}
  PROVE  /\ RankSign(<<0, 0, 0>>, x) = -1 /\ RankSign(x, <<0, 0, 0>>) = 1
         /\ RankSign(<<3, 0, 0>>, x) = 1 /\ RankSign(x, <<3, 0, 0>>) = -1
         /\ x # <<0, 0, 0>> /\ x # <<3, 0, 0>>
<1>1. PICK a \in Nat, b \in Nat, c \in Nat : x = <<a, b, c>> BY DEF Triples
<1>2. a = 1 \/ a = 2 BY <1>1
<1>3. RankSign(<<0, 0, 0>>, <<a, b, c>>) = -1 BY <1>2, RankSignIs DEF Sign
<1>4. RankSign(<<a, b, c>>, <<0, 0, 0>>) = 1 BY <1>2, RankSignIs DEF Sign
<1>5. RankSign(<<3, 0, 0>>, <<a, b, c>>) = 1 BY <1>2, RankSignIs DEF Sign
<1>6. RankSign(<<a, b, c>>, <<3, 0, 0>>) = -1 BY <1>2, RankSignIs DEF Sign
<1>7. x # <<0, 0, 0>> /\ x # <<3, 0, 0>> BY <1>1, <1>2
<1> QED BY <1>1, <1>3, <1>4, <1>5, <1>6, <1>7

\* What the order of the ranks says of two versions, as a sign.
Verdict(a, b, s, p) == IF LessWithin(a, b, s, p) THEN -1 ELSE IF LessWithin(b, a, s, p) THEN 1 ELSE 0

\* The first place at which they differ gives the sign.
LEMMA FirstRankDecides ==
  ASSUME NEW a, PlainTag(a), NEW b, PlainTag(b), NEW s \in Nat, NEW p \in Nat, NEW n \in 1..p,
         Rank(a, s, n) # Rank(b, s, n), \A m \in 1..n - 1 : Rank(a, s, m) = Rank(b, s, m)
  PROVE  Verdict(a, b, s, p) = RankSign(Rank(a, s, n), Rank(b, s, n))
<1> DEFINE x == Rank(a, s, n)
           y == Rank(b, s, n)
<1>1. x \in Triples /\ y \in Triples BY RankIs
<1>2. x # y OBVIOUS
<1>3. CASE RankLess(x, y)
  <2>1. LessWithin(a, b, s, p) BY <1>3 DEF LessWithin
  <2>2. RankSign(x, y) = -1 BY <1>3 DEF RankSign
  <2> QED BY <2>1, <2>2 DEF Verdict
<1>4. CASE ~RankLess(x, y)
  <2>1. RankLess(y, x)
    <3> HIDE DEF x, y
    <3> QED BY <1>1, <1>2, <1>4, RanksOrdered
  <2>2. LessWithin(b, a, s, p) BY <2>1 DEF LessWithin
  <2>3. ~LessWithin(a, b, s, p) BY <2>2, LessOrdered
  <2>4. RankSign(x, y) = 1 BY <1>2, <1>4 DEF RankSign
  <2> QED BY <2>2, <2>3, <2>4 DEF Verdict
<1> QED BY <1>3, <1>4

\* Where they do not differ, it is 0.
LEMMA SameRanksTie ==
  ASSUME NEW a, PlainTag(a), NEW b, PlainTag(b), NEW s \in Nat, NEW p \in Nat,
         \A n \in 1..p : Rank(a, s, n) = Rank(b, s, n)
  PROVE  Verdict(a, b, s, p) = 0
<1>1. \A n \in 1..p : Rank(a, s, n) \in Triples BY RankIs
<1>2. \A n \in 1..p : ~RankLess(Rank(a, s, n), Rank(b, s, n)) /\ ~RankLess(Rank(b, s, n), Rank(a, s, n))
  BY <1>1, RanksOrdered
<1>3. ~LessWithin(a, b, s, p) /\ ~LessWithin(b, a, s, p) BY <1>2 DEF LessWithin
<1> QED BY <1>3 DEF Verdict

\* The numbers of a version fit into s places, its identifiers and its end into p.
Room(v, s, p) == Len(v.segments) <= s /\ s + 1 <= p /\ s + Len(v.prerelease) <= p

\* Of two versions with the same numbers the identifiers decide.
LEMMA IdentifiersDecide ==
  ASSUME NEW a, PlainTag(a), NEW b, PlainTag(b), NEW s \in Nat, NEW p \in Nat, Room(a, s, p), Room(b, s, p),
         \A n \in 1..s : Rank(a, s, n) = Rank(b, s, n)
  PROVE  ComparePrerelease(a.prerelease, b.prerelease) = Verdict(a, b, s, p)
<1> DEFINE l == a.prerelease
           r == b.prerelease
           ra(n) == Rank(a, s, n)
           rb(n) == Rank(b, s, n)
<1>1. /\ l \in Seq(Seq(Nat)) /\ Len(l) \in Nat /\ DOMAIN l = 1..Len(l)
      /\ r \in Seq(Seq(Nat)) /\ Len(r) \in Nat /\ DOMAIN r = 1..Len(r)
  BY DEF PlainTag
<1>2. s + 1 <= p /\ s + Len(l) <= p /\ s + Len(r) <= p BY DEF Room
<1>3. (\A i \in 1..Len(l) : PlainId(l[i])) /\ (\A i \in 1..Len(r) : PlainId(r[i])) BY <1>1 DEF PlainTag
<1>4. /\ \A i \in 1..Len(l) : ra(s + i) = IdRank(l[i])
      /\ \A i \in 1..Len(r) : rb(s + i) = IdRank(r[i])
  <2>1. ASSUME NEW v, NEW i \in Nat \ {0}, i <= Len(v.prerelease) PROVE Rank(v, s, s + i) = IdRank(v.prerelease[i])
    <3>1. ~(s + i <= s) /\ s + i - s = i OBVIOUS
    <3> QED BY <2>1, <3>1 DEF Rank
  <2>2. \A i \in 1..Len(l) : i \in Nat \ {0} /\ i <= Len(a.prerelease) BY <1>1
  <2>3. \A i \in 1..Len(r) : i \in Nat \ {0} /\ i <= Len(b.prerelease) BY <1>1
  <2> QED BY Zenon, <2>1, <2>2, <2>3
<1>5. ASSUME NEW v, NEW i \in Nat \ {0}, ~(i <= Len(v.prerelease))
      PROVE  Rank(v, s, s + i) = IF v.prerelease = <<>> /\ i = 1 THEN <<3, 0, 0>> ELSE <<0, 0, 0>>
  <2>1. ~(s + i <= s) /\ s + i - s = i /\ (s + i = s + 1 <=> i = 1) OBVIOUS
  <2> QED BY <1>5, <2>1 DEF Rank
<1>6. ASSUME NEW i \in Nat \ {0}, s + i <= p, \A j \in 1..i - 1 : ra(s + j) = rb(s + j), ra(s + i) # rb(s + i)
      PROVE  Verdict(a, b, s, p) = RankSign(ra(s + i), rb(s + i))
  <2>1. s + i \in 1..p BY <1>6
  <2>2. \A m \in 1..s + i - 1 : ra(m) = rb(m)
    <3>1. ASSUME NEW m \in 1..s + i - 1, ~(m \in 1..s) PROVE ra(m) = rb(m)
      <4>1. m - s \in 1..i - 1 /\ s + (m - s) = m BY <3>1
      <4> QED BY <1>6, <4>1
    <3> QED BY <3>1
  <2> QED BY <1>6, <2>1, <2>2, FirstRankDecides
<1>7. ASSUME \A i \in 1..p - s : ra(s + i) = rb(s + i) PROVE Verdict(a, b, s, p) = 0
  <2>1. \A m \in 1..p : ra(m) = rb(m)
    <3>1. ASSUME NEW m \in 1..p, ~(m \in 1..s) PROVE ra(m) = rb(m)
      <4>1. m - s \in 1..p - s /\ s + (m - s) = m BY <3>1
      <4> QED BY <1>7, <4>1
    <3> QED BY <3>1
  <2> QED BY <2>1, SameRanksTie
<1>8. /\ \A i \in 1..Len(l) : IdRank(l[i]) \in Triples /\ IdRank(l[i])[1] \in {1, 2}
      /\ \A i \in 1..Len(r) : IdRank(r[i]) \in Triples /\ IdRank(r[i])[1] \in {1, 2}
  BY <1>3, PlainIdIs
<1>9. /\ l # <<>> => Len(l) # 0 /\ 1 \in 1..Len(l)
      /\ r # <<>> => Len(r) # 0 /\ 1 \in 1..Len(r)
      /\ l = <<>> => Len(l) = 0
      /\ r = <<>> => Len(r) = 0
  BY <1>1
<1>10. CASE l = r
  <2>1. ASSUME NEW i \in 1..p - s PROVE ra(s + i) = rb(s + i)
    <3>1. ~(s + i <= s) OBVIOUS
    <3> QED BY <1>10, <3>1 DEF Rank
  <2>2. ComparePrerelease(l, r) = 0 BY <1>10 DEF ComparePrerelease
  <2> QED BY <1>7, <2>1, <2>2
<1>11. CASE l # r /\ l = <<>>
  <2>0. ~(1 <= Len(a.prerelease)) /\ 1 \in Nat \ {0} BY <1>9, <1>11
  <2>1. ra(s + 1) = <<3, 0, 0>> BY Zenon, <1>5, <1>11, <2>0
  <2>2. 1 \in 1..Len(r) BY <1>9, <1>11
  <2>3. rb(s + 1) = IdRank(r[1]) BY <1>4, <2>2
  <2>4. RankSign(<<3, 0, 0>>, IdRank(r[1])) = 1 /\ IdRank(r[1]) # <<3, 0, 0>> BY <1>8, <2>2, EndsSigned
  <2>5. Verdict(a, b, s, p) = RankSign(ra(s + 1), rb(s + 1))
    <3>1. \A j \in 1..1 - 1 : ra(s + j) = rb(s + j) OBVIOUS
    <3>2. ra(s + 1) # rb(s + 1) BY <2>1, <2>3, <2>4
    <3> HIDE DEF ra, rb
    <3> QED BY <1>2, <1>6, <3>1, <3>2
  <2>6. ComparePrerelease(l, r) = 1 BY <1>11 DEF ComparePrerelease
  <2> QED BY <2>1, <2>3, <2>4, <2>5, <2>6
<1>12. CASE l # r /\ r = <<>>
  <2>0. ~(1 <= Len(b.prerelease)) /\ 1 \in Nat \ {0} BY <1>9, <1>12
  <2>1. rb(s + 1) = <<3, 0, 0>> BY Zenon, <1>5, <1>12, <2>0
  <2>2. 1 \in 1..Len(l) BY <1>9, <1>12
  <2>3. ra(s + 1) = IdRank(l[1]) BY <1>4, <2>2
  <2>4. RankSign(IdRank(l[1]), <<3, 0, 0>>) = -1 /\ IdRank(l[1]) # <<3, 0, 0>> BY <1>8, <2>2, EndsSigned
  <2>5. Verdict(a, b, s, p) = RankSign(ra(s + 1), rb(s + 1))
    <3>1. \A j \in 1..1 - 1 : ra(s + j) = rb(s + j) OBVIOUS
    <3>2. ra(s + 1) # rb(s + 1) BY <2>1, <2>3, <2>4
    <3> HIDE DEF ra, rb
    <3> QED BY <1>2, <1>6, <3>1, <3>2
  <2>6. ComparePrerelease(l, r) = -1 BY <1>12 DEF ComparePrerelease
  <2> QED BY <2>1, <2>3, <2>4, <2>5, <2>6
<1>13. CASE l # r /\ l # <<>> /\ r # <<>>
  <2> DEFINE M == IF Len(l) < Len(r) THEN Len(l) ELSE Len(r)
             signs == [i \in Both(l, r) |-> CompareIdentifiers(l[i], r[i])]
  <2>1. M \in Nat \ {0} /\ Both(l, r) = 1..M /\ M <= Len(l) /\ M <= Len(r) /\ s + M <= p
    BY SMTT(30), <1>1, <1>2, <1>9, <1>13 DEF Both
  <2>2. ComparePrerelease(l, r) = CompareBy(signs, l, r) BY <1>13 DEF ComparePrerelease
  <2>3. DOMAIN signs = 1..M /\ \A i \in 1..M : signs[i] = RankSign(ra(s + i), rb(s + i))
    <3>1. DOMAIN signs = 1..M /\ \A i \in 1..M : signs[i] = CompareIdentifiers(l[i], r[i]) BY <2>1
    <3>2. ASSUME NEW i \in 1..M PROVE CompareIdentifiers(l[i], r[i]) = RankSign(ra(s + i), rb(s + i))
      <4>1. i \in 1..Len(l) /\ i \in 1..Len(r) BY <1>1, <2>1
      <4>2. CompareIdentifiers(l[i], r[i]) = RankSign(IdRank(l[i]), IdRank(r[i])) BY <1>3, <4>1, IdsCompared
      <4> QED BY <1>4, <4>1, <4>2
    <3> QED BY <3>1, <3>2
  <2>4. \A x, y : RankSign(x, y) = 0 => x = y
    <3> SUFFICES ASSUME NEW x, NEW y, RankSign(x, y) = 0 PROVE x = y OBVIOUS
    <3> QED BY DEF RankSign
  <2>5. \A x \in Triples : RankSign(x, x) = 0 BY RanksOrdered DEF RankSign
  <2> HIDE DEF signs
  <2>6. CASE FirstNonZero(signs) = 0 /\ \A i \in 1..M : signs[i] = 0
    <3>1. ComparePrerelease(l, r) = Sign(Len(l), Len(r)) BY <2>2, <2>6 DEF CompareBy
    <3>2. \A i \in 1..M : ra(s + i) = rb(s + i) BY <2>3, <2>4, <2>6
    <3>3. CASE Len(l) = Len(r)
      <4>1. ASSUME NEW i \in 1..p - s, ~(i \in 1..M) PROVE ra(s + i) = rb(s + i)
        <5>1. ~(i <= Len(l)) /\ i \in Nat \ {0} BY <1>1, <3>3, <4>1
        <5>2. ra(s + i) = <<0, 0, 0>> /\ rb(s + i) = <<0, 0, 0>> BY <1>1, <1>5, <1>13, <3>3, <5>1
        <5> QED BY <5>2
      <4>2. \A i \in 1..p - s : ra(s + i) = rb(s + i) BY <3>2, <4>1
      <4>3. Verdict(a, b, s, p) = 0 BY <1>7, <4>2
      <4> QED BY <3>1, <3>3, <4>3 DEF Sign
    <3>4. CASE Len(l) < Len(r)
      <4>1. M = Len(l) /\ ~(M + 1 <= Len(l)) /\ M + 1 \in 1..Len(r) BY <1>1, <3>4
      <4>0. ~(M + 1 <= Len(a.prerelease)) /\ M + 1 \in Nat \ {0} BY <2>1, <4>1
      <4>2. ra(s + (M + 1)) = <<0, 0, 0>>
        <5> DEFINE k == M + 1
        <5>1. ~(k <= Len(a.prerelease)) /\ k \in Nat \ {0} BY <4>0
        <5> HIDE DEF k
        <5>2. ra(s + k) = <<0, 0, 0>> BY Zenon, <1>5, <1>13, <5>1
        <5> QED BY <5>2 DEF k
      <4>3. rb(s + (M + 1)) = IdRank(r[M + 1]) BY <1>4, <4>1
      <4>4. RankSign(<<0, 0, 0>>, IdRank(r[M + 1])) = -1 /\ IdRank(r[M + 1]) # <<0, 0, 0>>
        BY <1>8, <4>1, EndsSigned
      <4>5. M + 1 \in Nat \ {0} /\ s + (M + 1) <= p /\ \A j \in 1..M + 1 - 1 : j \in 1..M BY <1>1, <1>2, <4>1
      <4>6. ra(s + (M + 1)) # rb(s + (M + 1)) BY <4>2, <4>3, <4>4
      <4>7. Verdict(a, b, s, p) = RankSign(ra(s + (M + 1)), rb(s + (M + 1)))
        <5> DEFINE k == M + 1
        <5>1. k \in Nat \ {0} /\ s + k <= p /\ \A j \in 1..k - 1 : j \in 1..M BY <4>5
        <5>2. ra(s + k) # rb(s + k) BY <4>6
        <5> HIDE DEF M, k, ra, rb
        <5>3. \A j \in 1..k - 1 : ra(s + j) = rb(s + j) BY <3>2, <5>1
        <5>4. Verdict(a, b, s, p) = RankSign(ra(s + k), rb(s + k)) BY Zenon, <1>6, <5>1, <5>2, <5>3
        <5> QED BY <5>4 DEF k
      <4>8. Sign(Len(l), Len(r)) = -1 BY <1>1, <3>4 DEF Sign
      <4> QED BY <3>1, <4>2, <4>3, <4>4, <4>7, <4>8
    <3>5. CASE Len(r) < Len(l)
      <4>1. M = Len(r) /\ ~(M + 1 <= Len(r)) /\ M + 1 \in 1..Len(l) BY <1>1, <3>5
      <4>0. ~(M + 1 <= Len(b.prerelease)) /\ M + 1 \in Nat \ {0} BY <2>1, <4>1
      <4>2. rb(s + (M + 1)) = <<0, 0, 0>>
        <5> DEFINE k == M + 1
        <5>1. ~(k <= Len(b.prerelease)) /\ k \in Nat \ {0} BY <4>0
        <5> HIDE DEF k
        <5>2. rb(s + k) = <<0, 0, 0>> BY Zenon, <1>5, <1>13, <5>1
        <5> QED BY <5>2 DEF k
      <4>3. ra(s + (M + 1)) = IdRank(l[M + 1]) BY <1>4, <4>1
      <4>4. RankSign(IdRank(l[M + 1]), <<0, 0, 0>>) = 1 /\ IdRank(l[M + 1]) # <<0, 0, 0>>
        BY <1>8, <4>1, EndsSigned
      <4>5. M + 1 \in Nat \ {0} /\ s + (M + 1) <= p /\ \A j \in 1..M + 1 - 1 : j \in 1..M BY <1>1, <1>2, <4>1
      <4>6. ra(s + (M + 1)) # rb(s + (M + 1)) BY <4>2, <4>3, <4>4
      <4>7. Verdict(a, b, s, p) = RankSign(ra(s + (M + 1)), rb(s + (M + 1)))
        <5> DEFINE k == M + 1
        <5>1. k \in Nat \ {0} /\ s + k <= p /\ \A j \in 1..k - 1 : j \in 1..M BY <4>5
        <5>2. ra(s + k) # rb(s + k) BY <4>6
        <5> HIDE DEF M, k, ra, rb
        <5>3. \A j \in 1..k - 1 : ra(s + j) = rb(s + j) BY <3>2, <5>1
        <5>4. Verdict(a, b, s, p) = RankSign(ra(s + k), rb(s + k)) BY Zenon, <1>6, <5>1, <5>2, <5>3
        <5> QED BY <5>4 DEF k
      <4>8. Sign(Len(l), Len(r)) = 1 BY <1>1, <3>5 DEF Sign
      <4> QED BY <3>1, <4>2, <4>3, <4>4, <4>7, <4>8
    <3> QED BY <1>1, <3>3, <3>4, <3>5
  <2>7. CASE \E i \in 1..M : /\ signs[i] # 0 /\ FirstNonZero(signs) = signs[i]
                             /\ \A j \in 1..i - 1 : signs[j] = 0
    <3>1. PICK i \in 1..M : /\ signs[i] # 0 /\ FirstNonZero(signs) = signs[i]
                            /\ \A j \in 1..i - 1 : signs[j] = 0
      BY <2>7
    <3>2. ComparePrerelease(l, r) = RankSign(ra(s + i), rb(s + i)) BY <2>2, <2>3, <3>1 DEF CompareBy
    <3>3. i \in Nat \ {0} /\ s + i <= p /\ \A j \in 1..i - 1 : j \in 1..M BY <2>1
    <3>4. \A j \in 1..i - 1 : ra(s + j) = rb(s + j) BY <2>3, <2>4, <3>1, <3>3
    <3>5. ra(s + i) # rb(s + i)
      <4>1. i \in 1..Len(l) BY <1>1, <2>1
      <4>2. ra(s + i) \in Triples BY <1>4, <1>8, <4>1
      <4> QED BY <2>3, <2>5, <3>1, <4>2
    <3> QED
      <4> HIDE DEF ra, rb, M
      <4> QED BY <1>6, <3>2, <3>3, <3>4, <3>5
  <2> QED
    <3> HIDE DEF M
    <3> QED BY SMTT(30), <2>1, <2>3, <2>6, <2>7, FirstIs
<1> QED BY <1>10, <1>11, <1>12, <1>13

\* compareVersions() is the order of the ranks, with room for both versions.
LEMMA OrderIs ==
  ASSUME NEW a, PlainTag(a), NEW b, PlainTag(b), NEW s \in Nat, NEW p \in Nat, Room(a, s, p), Room(b, s, p)
  PROVE  CompareVersions(a, b) = Verdict(a, b, s, p)
<1> DEFINE N == Numbers(a, b)
           signs == [i \in DOMAIN a.segments \cup DOMAIN b.segments |-> Sign(Segment(a, i), Segment(b, i))]
<1>1. /\ a.segments \in Seq(Seq(Nat)) /\ Len(a.segments) \in Nat /\ DOMAIN a.segments = 1..Len(a.segments)
      /\ b.segments \in Seq(Seq(Nat)) /\ Len(b.segments) \in Nat /\ DOMAIN b.segments = 1..Len(b.segments)
  BY DEF PlainTag
<1>2. N \in Nat /\ N <= s /\ s <= p /\ Len(a.segments) <= N /\ Len(b.segments) <= N BY <1>1 DEF Numbers, Room
<1>3. DOMAIN a.segments \cup DOMAIN b.segments = 1..N BY <1>1 DEF Numbers
<1>4. DOMAIN signs = 1..N /\ \A i \in 1..N : signs[i] = Sign(Segment(a, i), Segment(b, i)) BY <1>3
<1>5. CompareVersions(a, b) = IF FirstNonZero(signs) # 0 THEN FirstNonZero(signs)
                              ELSE ComparePrerelease(a.prerelease, b.prerelease)
  BY DEF CompareVersions
<1> HIDE DEF N, signs
<1>6. \A i \in Nat \ {0} : /\ Segment(a, i) \in Nat /\ (i > Len(a.segments) => Segment(a, i) = 0)
                           /\ Segment(b, i) \in Nat /\ (i > Len(b.segments) => Segment(b, i) = 0)
  BY SegmentIs
<1>7. \A i \in 1..s : Rank(a, s, i) = <<Segment(a, i), 0, 0>> /\ Rank(b, s, i) = <<Segment(b, i), 0, 0>>
  BY DEF Rank
<1>8. \A x, y : Sign(x, y) = 0 => x = y
  <2> SUFFICES ASSUME NEW x, NEW y, Sign(x, y) = 0 PROVE x = y OBVIOUS
  <2> QED BY DEF Sign
<1>9. CASE FirstNonZero(signs) = 0 /\ \A i \in 1..N : signs[i] = 0
  <2>1. \A i \in 1..s : Segment(a, i) = Segment(b, i)
    <3> SUFFICES ASSUME NEW i \in 1..s PROVE Segment(a, i) = Segment(b, i) OBVIOUS
    <3>1. CASE i \in 1..N BY <1>4, <1>8, <1>9, <3>1
    <3>2. CASE ~(i \in 1..N)
      <4>1. i \in Nat \ {0} /\ i > Len(a.segments) /\ i > Len(b.segments) BY <1>1, <1>2, <3>2
      <4> QED BY <1>6, <4>1
    <3> QED BY <3>1, <3>2
  <2>2. \A n \in 1..s : Rank(a, s, n) = Rank(b, s, n) BY <1>7, <2>1
  <2>3. ComparePrerelease(a.prerelease, b.prerelease) = Verdict(a, b, s, p) BY <2>2, IdentifiersDecide
  <2> QED BY <1>5, <1>9, <2>3
<1>10. CASE \E i \in 1..N : /\ signs[i] # 0 /\ FirstNonZero(signs) = signs[i]
                            /\ \A j \in 1..i - 1 : signs[j] = 0
  <2>1. PICK i \in 1..N : /\ signs[i] # 0 /\ FirstNonZero(signs) = signs[i]
                          /\ \A j \in 1..i - 1 : signs[j] = 0
    BY <1>10
  <2>2. i \in 1..s /\ i \in 1..p /\ i \in Nat \ {0} /\ \A j \in 1..i - 1 : j \in 1..N /\ j \in 1..s BY <1>2
  <2>3. CompareVersions(a, b) = Sign(Segment(a, i), Segment(b, i)) BY <1>4, <1>5, <2>1
  <2>4. Segment(a, i) # Segment(b, i) BY <1>4, <2>1 DEF Sign
  <2>5. \A j \in 1..i - 1 : Rank(a, s, j) = Rank(b, s, j) BY <1>4, <1>7, <1>8, <2>1, <2>2
  <2>6. RankSign(Rank(a, s, i), Rank(b, s, i)) = Sign(Segment(a, i), Segment(b, i))
    <3> DEFINE x == Segment(a, i)
               y == Segment(b, i)
    <3>1. x \in Nat /\ y \in Nat /\ x # y BY <1>6, <2>2, <2>4
    <3>2. Rank(a, s, i) = <<x, 0, 0>> /\ Rank(b, s, i) = <<y, 0, 0>> BY <1>7, <2>2
    <3> HIDE DEF x, y
    <3>3. RankSign(<<x, 0, 0>>, <<y, 0, 0>>) = Sign(x, y) BY <3>1, RankSignIs
    <3>4. RankSign(Rank(a, s, i), Rank(b, s, i)) = Sign(x, y) BY <3>2, <3>3
    <3> QED BY <3>4 DEF x, y
  <2>7. Rank(a, s, i) # Rank(b, s, i)
    <3>1. Rank(a, s, i)[1] = Segment(a, i) /\ Rank(b, s, i)[1] = Segment(b, i) BY <1>7, <2>2
    <3> QED BY <2>4, <3>1
  <2>8. Verdict(a, b, s, p) = RankSign(Rank(a, s, i), Rank(b, s, i)) BY <2>2, <2>5, <2>7, FirstRankDecides
  <2> QED BY <2>3, <2>6, <2>8
<1> QED BY <1>2, <1>4, <1>9, <1>10, FirstIs

\* The greater of two numbers.
MaxOfTwo(m, n) == IF m > n THEN m ELSE n

\* Older() is what compareVersions() finds.
LEMMA OlderIs ==
  ASSUME NEW a, PlainTag(a), NEW b, PlainTag(b)
  PROVE  CompareVersions(a, b) = IF Older(a, b) THEN -1 ELSE IF Older(b, a) THEN 1 ELSE 0
<1> DEFINE s == MaxOfTwo(Len(a.segments), Len(b.segments))
           q == MaxOfTwo(1, MaxOfTwo(Len(a.prerelease), Len(b.prerelease)))
           p == s + q
<1>1. /\ Len(a.segments) \in Nat /\ Len(b.segments) \in Nat
      /\ Len(a.prerelease) \in Nat /\ Len(b.prerelease) \in Nat
  BY DEF PlainTag
<1>2. s \in {Len(a.segments), Len(b.segments)} /\ s \in Nat /\ Len(a.segments) <= s /\ Len(b.segments) <= s
  BY <1>1 DEF MaxOfTwo
<1>3. q \in {1, Len(a.prerelease), Len(b.prerelease)} /\ q \in Nat /\ 1 <= q /\ Len(a.prerelease) <= q /\ Len(b.prerelease) <= q
  BY <1>1 DEF MaxOfTwo
<1> HIDE DEF s, q
<1>4. /\ Max({Len(a.segments), Len(b.segments)}) = s
      /\ Max({Len(b.segments), Len(a.segments)}) = s
  <2> DEFINE S == {Len(a.segments), Len(b.segments)}
  <2>1. S \subseteq Nat /\ s \in S /\ \A k \in S : k <= s BY <1>1, <1>2
  <2>2. {Len(b.segments), Len(a.segments)} = S OBVIOUS
  <2> HIDE DEF S
  <2>3. Max(S) = s BY <2>1, MaxOf
  <2> QED BY <2>2, <2>3 DEF S
<1>5. /\ Max({1, Len(a.prerelease), Len(b.prerelease)}) = q
      /\ Max({1, Len(b.prerelease), Len(a.prerelease)}) = q
  <2> DEFINE S == {1, Len(a.prerelease), Len(b.prerelease)}
  <2>1. S \subseteq Nat /\ q \in S /\ \A k \in S : k <= q BY <1>1, <1>3
  <2>2. {1, Len(b.prerelease), Len(a.prerelease)} = S OBVIOUS
  <2> HIDE DEF S
  <2>3. Max(S) = q BY <2>1, MaxOf
  <2> QED BY <2>2, <2>3 DEF S
<1>6. Older(a, b) = LessWithin(a, b, s, p) /\ Older(b, a) = LessWithin(b, a, s, p)
  BY Zenon, <1>4, <1>5 DEF Older
<1>7. p \in Nat /\ Room(a, s, p) /\ Room(b, s, p) BY <1>1, <1>2, <1>3 DEF Room
<1> HIDE DEF p
<1>8. CompareVersions(a, b) = Verdict(a, b, s, p) BY <1>2, <1>7, OrderIs
<1> QED BY Zenon, <1>6, <1>8 DEF Verdict

\* compareVersions() is an order of plain versions, so that the highest of a list is well
\* defined wherever it stands: two ways round it says the contrary, and if one version is not
\* above a second, and this not above a third, then the first is not above the third.
THEOREM VersionsOrdered ==
  ASSUME NEW a, PlainTag(a), NEW b, PlainTag(b), NEW c, PlainTag(c)
  PROVE  /\ CompareVersions(a, b) \in {-1, 0, 1} /\ CompareVersions(a, a) = 0
         /\ CompareVersions(a, b) = -CompareVersions(b, a)
         /\ CompareVersions(a, b) <= 0 /\ CompareVersions(b, c) <= 0 => CompareVersions(a, c) <= 0
         /\ CompareVersions(a, b) < 0 /\ CompareVersions(b, c) <= 0 => CompareVersions(a, c) < 0
         /\ CompareVersions(a, b) <= 0 /\ CompareVersions(b, c) < 0 => CompareVersions(a, c) < 0
<1> DEFINE s == Len(a.segments) + Len(b.segments) + Len(c.segments)
           p == s + 1 + Len(a.prerelease) + Len(b.prerelease) + Len(c.prerelease)
<1>1. s \in Nat /\ p \in Nat /\ Room(a, s, p) /\ Room(b, s, p) /\ Room(c, s, p) BY DEF PlainTag, Room
<1> HIDE DEF s, p
<1>2. /\ CompareVersions(a, b) = Verdict(a, b, s, p) /\ CompareVersions(b, a) = Verdict(b, a, s, p)
      /\ CompareVersions(b, c) = Verdict(b, c, s, p) /\ CompareVersions(c, b) = Verdict(c, b, s, p)
      /\ CompareVersions(a, c) = Verdict(a, c, s, p) /\ CompareVersions(c, a) = Verdict(c, a, s, p)
      /\ CompareVersions(a, a) = Verdict(a, a, s, p)
  BY <1>1, OrderIs
<1>3. /\ LessWithin(a, b, s, p) => ~LessWithin(b, a, s, p)
      /\ LessWithin(b, c, s, p) => ~LessWithin(c, b, s, p)
      /\ LessWithin(a, c, s, p) => ~LessWithin(c, a, s, p)
      /\ ~LessWithin(a, a, s, p)
  BY <1>1, LessOrdered
<1>4. ASSUME NEW x, PlainTag(x), NEW y, PlainTag(y), NEW z, PlainTag(z),
             LessWithin(x, z, s, p), ~LessWithin(x, y, s, p)
      PROVE  LessWithin(y, z, s, p)
  <2>1. PICK n \in 1..p : /\ RankLess(Rank(x, s, n), Rank(z, s, n))
                          /\ \A m \in 1..n - 1 : Rank(x, s, m) = Rank(z, s, m)
    BY <1>4 DEF LessWithin
  <2>2. \A m \in 1..p : Rank(x, s, m) \in Triples /\ Rank(y, s, m) \in Triples /\ Rank(z, s, m) \in Triples
    BY <1>1, <1>4, RankIs
  <2> DEFINE D == {m \in 1..n : Rank(x, s, m) # Rank(y, s, m)}
  <2>3. CASE D = {}
    <3>1. \A m \in 1..n : Rank(x, s, m) = Rank(y, s, m) BY <2>3
    <3>2. RankLess(Rank(y, s, n), Rank(z, s, n)) /\ \A m \in 1..n - 1 : Rank(y, s, m) = Rank(z, s, m)
      BY <2>1, <3>1
    <3> QED BY <3>2 DEF LessWithin
  <2>4. CASE D # {}
    <3>1. PICK k \in D : \A m \in D : k <= m
      <4>1. D \subseteq Nat OBVIOUS
      <4> HIDE DEF D
      <4> QED BY <2>4, <4>1, Least
    <3>2. k \in 1..n /\ k \in 1..p /\ Rank(x, s, k) # Rank(y, s, k) BY <1>1
    <3>3. \A m \in 1..k - 1 : Rank(x, s, m) = Rank(y, s, m)
      <4>1. ASSUME NEW m \in 1..k - 1, Rank(x, s, m) # Rank(y, s, m) PROVE FALSE
        <5>1. m \in D /\ ~(k <= m) BY <3>2, <4>1
        <5> QED BY <3>1, <5>1
      <4> QED BY <4>1
    <3>4. ~RankLess(Rank(x, s, k), Rank(y, s, k)) BY <1>4, <3>2, <3>3 DEF LessWithin
    <3>5. RankLess(Rank(y, s, k), Rank(x, s, k)) BY <2>2, <3>2, <3>4, RanksOrdered
    <3>6. \A m \in 1..k - 1 : m \in 1..n - 1 BY <3>2
    <3>7. \A m \in 1..k - 1 : Rank(y, s, m) = Rank(z, s, m) BY <2>1, <3>3, <3>6
    <3>8. RankLess(Rank(y, s, k), Rank(z, s, k))
      <4>1. CASE k = n BY <2>1, <2>2, <3>2, <3>5, <4>1, RanksOrdered
      <4>2. CASE k # n
        <5>1. k \in 1..n - 1 BY <3>2, <4>2
        <5> QED BY <2>1, <3>5, <5>1
      <4> QED BY <4>1, <4>2
    <3> QED BY <3>2, <3>7, <3>8 DEF LessWithin
  <2> QED BY <2>3, <2>4
<1>5. /\ LessWithin(c, a, s, p) => LessWithin(c, b, s, p) \/ LessWithin(b, a, s, p)
      /\ LessWithin(a, b, s, p) => LessWithin(a, c, s, p) \/ LessWithin(c, b, s, p)
      /\ LessWithin(b, c, s, p) => LessWithin(b, a, s, p) \/ LessWithin(a, c, s, p)
  BY <1>4
<1> QED BY <1>2, <1>3, <1>5 DEF Verdict

\* What is listed is what the server has and the user may have.
LEMMA ListedIs ==
  ASSUME releases \in Seq(Releases)
  PROVE  Listed \in Seq(Releases) /\ ToSet(Listed) = {r \in ToSet(releases) : Eligible(r)}
<1> DEFINE N == Len(releases)
           Upto(n) == {r \in Releases : Eligible(r) /\ \E i \in 1..n : releases[i] = r}
<1>1. N \in Nat /\ DOMAIN releases = 1..N /\ \A i \in 1..N : releases[i] \in Releases OBVIOUS
<1>2. PICK kept : KeptFrom(kept) BY ListedSteps
<1>3. /\ kept \in [0..N -> Seq(Releases)] /\ kept[0] = <<>> /\ Listed = kept[N]
      /\ \A n \in 1..N : kept[n] = IF Eligible(releases[n]) THEN Append(kept[n - 1], releases[n]) ELSE kept[n - 1]
  BY <1>2 DEF KeptFrom
<1> DEFINE T == {n \in 0..N : ToSet(kept[n]) = Upto(n)}
<1>4. 0 \in T
  <2>1. ToSet(<<>>) = {} BY DEF ToSet
  <2>2. Upto(0) = {} OBVIOUS
  <2> QED BY <1>1, <1>3, <2>1, <2>2
<1>5. ASSUME NEW n \in 0..N - 1, n \in T PROVE n + 1 \in T
  <2> DEFINE m == n + 1
             s == kept[n]
             e == releases[m]
  <2>1. m \in 1..N /\ m \in 0..N /\ m - 1 = n /\ n \in 0..N BY <1>1
  <2>2. kept[m] = IF Eligible(e) THEN Append(s, e) ELSE s BY <1>3, <2>1
  <2>3. s \in Seq(Releases) /\ e \in Releases BY <1>1, <1>3, <2>1
  <2>4. \A i : i \in 1..m <=> i \in 1..n \/ i = m BY <1>1, <2>1
  <2>5. ToSet(s) = Upto(n) BY <1>5
  <2> HIDE DEF m, s
  <2>6. CASE Eligible(e)
    <3>1. ToSet(Append(s, e)) = ToSet(s) \cup {e}
      <4>1. DOMAIN Append(s, e) = DOMAIN s \cup {Len(s) + 1} BY <2>3
      <4>2. \A i \in DOMAIN s : Append(s, e)[i] = s[i] BY <2>3
      <4>3. Append(s, e)[Len(s) + 1] = e BY <2>3
      <4> DEFINE t == Append(s, e)
                 k == Len(s) + 1
      <4>4. DOMAIN t = DOMAIN s \cup {k} /\ (\A i \in DOMAIN s : t[i] = s[i]) /\ t[k] = e BY <4>1, <4>2, <4>3
      <4> HIDE DEF t, k
      <4>5. {t[i] : i \in DOMAIN t} = {s[i] : i \in DOMAIN s} \cup {e} BY <4>4
      <4> QED BY <4>5 DEF ToSet, t
    <3>2. Upto(m) = Upto(n) \cup {e} BY <2>3, <2>4, <2>6
    <3> QED BY <2>1, <2>2, <2>5, <2>6, <3>1, <3>2 DEF m
  <2>7. CASE ~Eligible(e)
    <3>1. Upto(m) = Upto(n) BY <2>4, <2>7
    <3> QED BY <2>1, <2>2, <2>5, <2>7, <3>1 DEF m
  <2> QED BY <2>6, <2>7
<1> HIDE DEF T
<1>6. N \in T
  <2> HIDE DEF N
  <2>1. 0..N \subseteq T BY <1>1, <1>4, <1>5, Induction
  <2> QED BY <1>1, <2>1
<1>7. ToSet(Listed) = Upto(N) BY <1>3, <1>6 DEF T
<1>8. Upto(N) = {r \in ToSet(releases) : Eligible(r)} BY <1>1 DEF ToSet
<1> QED BY <1>1, <1>3, <1>7, <1>8

\* Every release has a tag whose identifiers are plain.
LEMMA ReleaseTags ==
  /\ \A tag \in Tags : PlainTag(tag)
  /\ \A r \in Releases : PlainTag(r.tag)
<1>1. \A tag \in Tags : PlainTag(tag) BY TagsArePlain DEF PlainTag
<1>2. PlainTag(NoTag)
  <2>1. <<>> \in Seq(Seq(Nat)) /\ DOMAIN <<>> = {} OBVIOUS
  <2> QED BY <2>1 DEF PlainTag, NoTag
<1> QED BY <1>1, <1>2 DEF Releases

\* The choice is one of the list, and no other is above it.
LEMMA LatestIs ==
  ASSUME NEW list \in Seq(Releases), list # <<>>
  PROVE  /\ LatestOf(list) \in ToSet(list)
         /\ \A r \in ToSet(list) : CompareVersions(r.tag, LatestOf(list).tag) <= 0
<1> DEFINE N == Len(list)
<1>1. N \in Nat /\ 1 \in 1..N /\ DOMAIN list = 1..N /\ \A i \in 1..N : list[i] \in Releases
  <2>1. N \in Nat /\ N # 0 OBVIOUS
  <2> QED BY <2>1
<1>2. PICK best : BestOf(list, best) BY LatestSteps
<1>3. /\ best \in [0..N -> Releases] /\ best[0] = list[1] /\ LatestOf(list) = best[N]
      /\ \A n \in 1..N :
           best[n] = IF CompareVersions(best[n - 1].tag, list[n].tag) < 0 THEN list[n] ELSE best[n - 1]
  BY <1>2 DEF BestOf
<1> DEFINE T == {n \in 0..N : /\ \E i \in 1..N : best[n] = list[i]
                              /\ \A i \in 1..n : CompareVersions(list[i].tag, best[n].tag) <= 0}
<1>4. 0 \in T BY <1>1, <1>3
<1>5. ASSUME NEW n \in 0..N - 1, n \in T PROVE n + 1 \in T
  <2> DEFINE m == n + 1
             x == best[n]
             y == list[m]
  <2>1. m \in 1..N /\ m \in 0..N /\ m - 1 = n /\ n \in 0..N BY <1>1
  <2>2. \A i \in 1..m : (i \in 1..n \/ i = m) /\ i \in 1..N BY <1>1, <2>1
  <2>3. best[m] = IF CompareVersions(x.tag, y.tag) < 0 THEN y ELSE x BY <1>3, <2>1
  <2>4. x \in Releases /\ y \in Releases /\ PlainTag(x.tag) /\ PlainTag(y.tag)
    BY <1>1, <1>3, <2>1, ReleaseTags
  <2>5. (\E i \in 1..N : x = list[i]) /\ \A i \in 1..n : CompareVersions(list[i].tag, x.tag) <= 0 BY <1>5
  <2>6. \A i \in 1..N : PlainTag(list[i].tag) BY <1>1, ReleaseTags
  <2> HIDE DEF m, x
  <2>7. CASE CompareVersions(x.tag, y.tag) < 0
    <3>1. best[m] = y BY <2>3, <2>7
    <3>2. ASSUME NEW i \in 1..m PROVE CompareVersions(list[i].tag, y.tag) <= 0
      <4>1. CASE i = m
        <5>1. CompareVersions(y.tag, y.tag) = 0 BY <2>4, VersionsOrdered
        <5> QED BY <4>1, <5>1
      <4>2. CASE i \in 1..n
        <5>1. CompareVersions(list[i].tag, x.tag) <= 0 /\ PlainTag(list[i].tag) BY <2>2, <2>5, <2>6, <4>2
        <5>2. CompareVersions(x.tag, y.tag) <= 0
          <6>1. CompareVersions(x.tag, y.tag) \in {-1, 0, 1} BY <2>4, VersionsOrdered
          <6> QED BY <2>7, <6>1
        <5> QED BY <2>4, <5>1, <5>2, VersionsOrdered
      <4> QED BY <2>2, <4>1, <4>2
    <3>3. best[m] = list[m] BY <3>1
    <3>4. \A i \in 1..m : CompareVersions(list[i].tag, best[m].tag) <= 0 BY <3>1, <3>2
    <3>5. m \in T BY <2>1, <3>3, <3>4
    <3> QED BY <3>5 DEF m
  <2>8. CASE ~(CompareVersions(x.tag, y.tag) < 0)
    <3>1. best[m] = x BY <2>3, <2>8
    <3>2. CompareVersions(y.tag, x.tag) <= 0
      <4>1. /\ CompareVersions(x.tag, y.tag) \in {-1, 0, 1}
            /\ CompareVersions(x.tag, y.tag) = -CompareVersions(y.tag, x.tag)
            /\ CompareVersions(y.tag, x.tag) \in {-1, 0, 1}
        BY <2>4, VersionsOrdered
      <4> QED BY <2>8, <4>1
    <3>3. \A i \in 1..m : CompareVersions(list[i].tag, x.tag) <= 0 BY <2>2, <2>5, <3>2
    <3>4. m \in T BY <2>1, <2>5, <3>1, <3>3
    <3> QED BY <3>4 DEF m
  <2> QED BY <2>7, <2>8
<1> HIDE DEF T
<1>6. N \in T
  <2> HIDE DEF N
  <2>1. 0..N \subseteq T BY <1>1, <1>4, <1>5, Induction
  <2> QED BY <1>1, <2>1
<1>7. (\E i \in 1..N : best[N] = list[i]) /\ \A i \in 1..N : CompareVersions(list[i].tag, best[N].tag) <= 0
  BY <1>6 DEF T
<1> QED BY <1>1, <1>3, <1>7 DEF ToSet

-----------------------------------------------------------------------------
(* The check *)

\* An offer is the highest release of the list, above the running one, and its files are of
\* one release.
OfferStands ==
  /\ Listed # <<>> /\ offered.release = LatestOf(Listed)
  /\ CompareVersions(offered.release.tag, current) > 0
  /\ \E assets \in AssetLists, family \in Families : offered.package = Package(assets, family)

\* The invariant of the choice.
ChoiceInv ==
  /\ releases \in Seq(Releases)
  /\ PlainTag(current)
  /\ offered # NothingOffered => OfferStands

\* It holds in the beginning.
LEMMA ChoiceStarts == ChoiceInit => ChoiceInv
<1> SUFFICES ASSUME ChoiceInit PROVE ChoiceInv OBVIOUS
<1>1. releases \in BoundedSeq(Releases, MaxReleases) /\ current \in Tags /\ offered = NothingOffered
  BY DEF ChoiceInit
<1>2. releases \in Seq(Releases)
  <2>1. PICK m \in 0..MaxReleases : releases \in [1..m -> Releases] BY <1>1 DEF BoundedSeq, SeqOf
  <2>2. m \in Nat BY ReleasesBounded
  <2> QED BY <2>1, <2>2
<1> QED BY <1>1, <1>2, ReleaseTags DEF ChoiceInv

\* A check and an installation keep it.
LEMMA ChoiceKept ==
  ASSUME ChoiceInv, [ChoiceNext]_choiceVars
  PROVE  ChoiceInv'
<1>1. ASSUME UNCHANGED <<releases, optIn>> PROVE Listed' = Listed BY <1>1 DEF Listed, Eligible
<1>2. CASE Check
  <2>1. PICK assets \in AssetLists, family \in Families :
          offered' = [release |-> Latest(Listed), package |-> Package(assets, family),
                      route |-> Route(Package(assets, family))]
    BY <1>2 DEF Check
  <2>2. offered'.release = Latest(Listed) /\ offered'.package = Package(assets, family) BY <2>1
  <2>3. /\ UNCHANGED <<releases, optIn, current>> /\ Listed # <<>>
        /\ CompareVersions(Latest(Listed).tag, current) > 0
    BY <1>2 DEF Check
  <2>4. Listed' = Listed BY <1>1, <2>3
  <2>5. LatestOf(Listed)' = LatestOf(Listed)
    <3>1. LatestOf(Listed)' = LatestOf(Listed') BY DEF LatestOf
    <3> QED BY <2>4, <3>1
  <2>6. (OfferStands)' BY <2>2, <2>3, <2>4, <2>5 DEF OfferStands, Latest
  <2>7. PlainTag(current)' BY <2>3 DEF ChoiceInv, PlainTag
  <2> QED BY <2>3, <2>6, <2>7 DEF ChoiceInv
<1>3. CASE Install
  <2>1. /\ current' = offered.release.tag /\ offered' = NothingOffered /\ UNCHANGED <<releases, optIn>>
        /\ OfferStands
    BY <1>3 DEF Install, ChoiceInv
  <2>2. offered.release \in ToSet(Listed) /\ Listed \in Seq(Releases)
    BY <2>1, ListedIs, LatestIs DEF OfferStands, ChoiceInv
  <2>3. PlainTag(offered.release.tag)
    <3>1. offered.release \in Releases BY <2>2 DEF ToSet
    <3> QED BY <3>1, ReleaseTags
  <2>4. PlainTag(current)' BY <2>1, <2>3 DEF PlainTag
  <2> QED BY <2>1, <2>4 DEF ChoiceInv
<1>4. CASE UNCHANGED choiceVars
  <2>1. UNCHANGED <<releases, optIn, current, offered>> BY <1>4 DEF choiceVars
  <2>2. Listed' = Listed BY <1>1, <2>1
  <2>3. LatestOf(Listed)' = LatestOf(Listed)
    <3>1. LatestOf(Listed)' = LatestOf(Listed') BY DEF LatestOf
    <3> QED BY <2>2, <3>1
  <2>4. OfferStands => (OfferStands)' BY <2>1, <2>2, <2>3 DEF OfferStands
  <2>5. PlainTag(current)' BY <2>1 DEF ChoiceInv, PlainTag
  <2> QED BY <2>1, <2>4, <2>5 DEF ChoiceInv
<1> QED BY <1>2, <1>3, <1>4 DEF ChoiceNext

\* It holds always.
LEMMA ChoiceHolds == ChoiceInit /\ [][ChoiceNext]_choiceVars => []ChoiceInv
BY ChoiceStarts, ChoiceKept, PTL

\* The release on offer is listed, and nothing listed is above it.
LEMMA OfferIs ==
  ASSUME ChoiceInv, offered # NothingOffered
  PROVE  /\ offered.release \in ToSet(releases) /\ offered.release \in Releases /\ Eligible(offered.release)
         /\ CompareVersions(offered.release.tag, current) > 0
         /\ \A r \in ToSet(releases) : Eligible(r) => CompareVersions(r.tag, offered.release.tag) <= 0
<1>1. releases \in Seq(Releases) /\ OfferStands BY DEF ChoiceInv
<1>2. Listed \in Seq(Releases) /\ ToSet(Listed) = {r \in ToSet(releases) : Eligible(r)} BY <1>1, ListedIs
<1>3. /\ LatestOf(Listed) \in ToSet(Listed)
      /\ \A r \in ToSet(Listed) : CompareVersions(r.tag, LatestOf(Listed).tag) <= 0
  BY <1>1, <1>2, LatestIs DEF OfferStands
<1>4. \A r \in ToSet(releases) : r \in Releases BY <1>1 DEF ToSet
<1> QED BY <1>1, <1>2, <1>3, <1>4 DEF OfferStands

\* It makes the offer right.
LEMMA InvIsRight == ChoiceInv => OfferIsRight
<1> SUFFICES ASSUME ChoiceInv PROVE OfferIsRight OBVIOUS
<1>1. releases \in Seq(Releases) /\ PlainTag(current) BY DEF ChoiceInv
<1>2. \A r \in ToSet(releases) : PlainTag(r.tag)
  <2>1. \A r \in ToSet(releases) : r \in Releases BY <1>1 DEF ToSet
  <2> QED BY <2>1, ReleaseTags
<1>3. OrderMatchesSemVer BY <1>1, <1>2, OlderIs DEF OrderMatchesSemVer
<1>4. OffersNewest
  <2> SUFFICES ASSUME offered # NothingOffered
               PROVE  LET release == offered.release IN
                      /\ release \in ToSet(releases) /\ release.kind # "draft" /\ (release.kind = "pre" => optIn)
                      /\ Older(current, release.tag)
                      /\ \A r \in ToSet(releases) : Eligible(r) => ~Older(release.tag, r.tag)
    BY DEF OffersNewest
  <2> DEFINE x == offered.release
  <2>1. /\ x \in ToSet(releases) /\ x \in Releases /\ Eligible(x)
        /\ CompareVersions(x.tag, current) > 0
        /\ \A r \in ToSet(releases) : Eligible(r) => CompareVersions(r.tag, x.tag) <= 0
    BY OfferIs
  <2> HIDE DEF x
  <2>2. x.kind # "draft" /\ (x.kind = "pre" => optIn) BY <2>1 DEF Eligible
  <2>3. PlainTag(x.tag) BY <1>2, <2>1
  <2>4. Older(current, x.tag)
    <3>1. CompareVersions(x.tag, current) = IF Older(x.tag, current) THEN -1 ELSE IF Older(current, x.tag) THEN 1 ELSE 0
      BY <1>1, <2>3, OlderIs
    <3> QED BY <2>1, <3>1
  <2>5. ASSUME NEW r \in ToSet(releases), Eligible(r), Older(x.tag, r.tag) PROVE FALSE
    <3>1. PlainTag(r.tag) BY <1>2
    <3>2. CompareVersions(x.tag, r.tag) = -1 BY <2>3, <2>5, <3>1, OlderIs
    <3>3. /\ CompareVersions(r.tag, x.tag) \in {-1, 0, 1}
          /\ CompareVersions(x.tag, r.tag) = -CompareVersions(r.tag, x.tag)
      BY <2>3, <3>1, VersionsOrdered
    <3>4. CompareVersions(r.tag, x.tag) <= 0 BY <2>1, <2>5
    <3> QED BY <3>2, <3>3, <3>4
  <2> QED BY <2>1, <2>2, <2>4, <2>5 DEF x
<1>5. DigestBelongs
  <2> SUFFICES ASSUME offered # NothingOffered
               PROVE  /\ offered.package.update # 0 => offered.package.updateSha \in {0, offered.package.update}
                      /\ offered.package.fullSha \in {0, offered.package.full}
    BY DEF DigestBelongs
  <2>1. PICK assets \in AssetLists, family \in Families : offered.package = Package(assets, family)
    BY DEF ChoiceInv, OfferStands
  <2> DEFINE i == LastNamed(assets, Layout(family).update)
             full == FullPackage(assets, Layout(family).full)
  <2>2. /\ offered.package.update = Where(i # 0 /\ assets[i].url, i)
        /\ offered.package.updateSha = Where(i # 0 /\ assets[i].digest, i)
        /\ offered.package.full = full
        /\ offered.package.fullSha = Where(full # 0 /\ assets[full].digest, full)
    BY <2>1 DEF Package, UpdateDigest
  <2> HIDE DEF i, full
  <2> QED BY <2>2 DEF Where
<1> QED BY <1>3, <1>4, <1>5 DEF OfferIsRight

\* The update check offers the right release: compareVersions() is the order of the ranks; the
\* release on offer is listed, may be offered and is newer than the program, with none newer
\* still; and the digests are those of the files (checkForUpdates(), parseReleases()).
THEOREM RightIsOffered == ChoiceInit /\ [][ChoiceNext]_choiceVars => []OfferIsRight
BY ChoiceHolds, InvIsRight, PTL

\* Once the offered release runs, nothing listed is above it.
LEMMA NothingAbove ==
  ASSUME ChoiceInv, [ChoiceNext]_choiceVars
  PROVE  [offered # NothingOffered /\ current' # current =>
            \A r \in ToSet(releases) : Eligible(r) => CompareVersions(r.tag, current') <= 0]_choiceVars
<1> SUFFICES ASSUME offered # NothingOffered, current' # current
             PROVE  \A r \in ToSet(releases) : Eligible(r) => CompareVersions(r.tag, current') <= 0
    OBVIOUS
<1>1. Install BY DEF ChoiceNext, Check, choiceVars
<1>2. current' = offered.release.tag BY <1>1 DEF Install
<1> QED BY <1>2, OfferIs

\* No phantom update: once the offered release runs, no release of the list that the user may
\* have is above it, so it is not offered again (checkForUpdates() of UpdateChecker.cpp, with
\* compareVersions()).
THEOREM OfferedOnce == ChoiceInit /\ [][ChoiceNext]_choiceVars => NeverOfferedAgain
<1>1. ChoiceInit /\ [][ChoiceNext]_choiceVars => []ChoiceInv BY ChoiceHolds
<1> QED BY <1>1, NothingAbove, PTL DEF NeverOfferedAgain

=============================================================================
