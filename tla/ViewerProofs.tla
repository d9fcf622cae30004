---------------------------- MODULE ViewerProofs ----------------------------
(***************************************************************************)
(* Whatever is written to the file, whenever it is polled, and whatever    *)
(* keys are pressed.                                                       *)
(***************************************************************************)
EXTENDS StreamsProofs, Viewer
LOCAL INSTANCE SequencesExt

Filtering == INSTANCE FoldProofs WITH op <- pushAccepted
FilterFolds == INSTANCE FoldProofs WITH op <- filterFile
KeepFolds   == INSTANCE FoldProofs WITH op <- keepAllowed

-----------------------------------------------------------------------------
(* The rows that are shown *)

\* What readEvent makes of an event.
Rec == [num : Number, src : Nat, writer : Nat, clock : {NoClock}]

Time(recs, i) == recs[i].num.time

\* Each row is a record, none is there twice, and those of one time are in order.
GoodRows(recs, s) ==
  /\ s \in Seq(Nat)
  /\ \A i \in DOMAIN s : s[i] \in DOMAIN recs
  /\ \A i, j \in DOMAIN s : s[i] = s[j] => i = j
  /\ \A i, j \in DOMAIN s : i < j /\ Time(recs, s[i]) = Time(recs, s[j]) => s[i] < s[j]

SortedBy(order, recs, s) ==
  \A i, j \in DOMAIN s : i < j =>
    CASE order = "none"       -> TRUE
      [] order = "ascending"  -> Time(recs, s[i]) <= Time(recs, s[j])
      [] order = "descending" -> Time(recs, s[j]) <= Time(recs, s[i])

LEMMA TimeNat ==
  ASSUME NEW recs \in Seq(Rec), NEW i \in DOMAIN recs
  PROVE  Time(recs, i) \in Nat /\ recs[i].num.time \in Nat
<1>1. recs[i] \in Rec
  OBVIOUS
<1> QED BY <1>1 DEF Rec, Number, Time

LEMMA SortingIs ==
  ASSUME NEW recs \in Seq(Rec), NEW order \in SortOrders, NEW s, GoodRows(recs, s)
  PROVE  LET t == applySorting(order, recs, s)
         IN  /\ GoodRows(recs, t) /\ SortedBy(order, recs, t)
             /\ Len(t) = Len(s) /\ ToSet(t) = ToSet(s)
<1>1. CASE order = "none"
  BY <1>1 DEF applySorting, SortedBy
<1>2. CASE order # "none"
  <2> DEFINE rows == [k \in DOMAIN s |-> [index |-> s[k], key |-> sortKey(order, recs[s[k]])]]
             u == sortRows(rows)
             t == [k \in DOMAIN u |-> u[k].index]
  <2>1. applySorting(order, recs, s) = t
    BY <1>2 DEF applySorting
  <2>2. s \in Seq(Nat) /\ DOMAIN s = 1..Len(s) /\ Len(s) \in Nat
    BY DEF GoodRows
  <2>3. ASSUME NEW k \in DOMAIN s
        PROVE  /\ rows[k] \in Row /\ rows[k].index = s[k]
               /\ Time(recs, s[k]) \in Nat
               /\ rows[k].key = IF order = "ascending" THEN Time(recs, s[k]) ELSE -Time(recs, s[k])
    <3>1. s[k] \in DOMAIN recs /\ s[k] \in Nat
      BY <2>2 DEF GoodRows
    <3>2. Time(recs, s[k]) \in Nat
      BY <3>1, TimeNat
    <3> QED BY <3>1, <3>2 DEF Row, sortKey, Time
  <2>4. rows \in Seq(Row) /\ Len(rows) = Len(s) /\ DOMAIN rows = DOMAIN s
    <3>1. DOMAIN rows = 1..Len(s) /\ \A k \in 1..Len(s) : rows[k] \in Row
      BY <2>2, <2>3
    <3> HIDE DEF rows
    <3>2. rows \in [1..Len(s) -> Row]
      <4>1. rows = [k \in 1..Len(s) |-> rows[k]]
        BY <3>1, <2>2 DEF rows
      <4> QED BY <4>1, <3>1
    <3> QED BY <3>1, <3>2, <2>2
  <2> HIDE DEF rows
  <2>5. NoIndexTwice(rows) /\ TiesByIndex(rows)
    <3>1. NoIndexTwice(rows)
      BY <2>3, <2>4 DEF NoIndexTwice, GoodRows
    <3>2. ASSUME NEW i \in DOMAIN s, NEW j \in DOMAIN s, i < j, rows[i].key = rows[j].key
          PROVE  rows[i].index < rows[j].index
      <4>1. Time(recs, s[i]) = Time(recs, s[j])
        BY <2>3, <3>2
      <4> QED BY <4>1, <3>2, <2>3 DEF GoodRows
    <3> QED BY <3>1, <3>2, <2>4 DEF TiesByIndex
  <2>6. HasRows(u, rows, Len(s)) /\ Ordered(u) /\ NoIndexTwice(u) /\ TiesByIndex(u)
    BY <2>4, <2>5, SortsRows
  <2> HIDE DEF u
  <2>7. u \in Seq(Row) /\ DOMAIN u = 1..Len(s) /\ DOMAIN t = 1..Len(s)
    BY <2>2, <2>6 DEF HasRows
  <2>8. ASSUME NEW i \in 1..Len(s)
        PROVE  \E p \in 1..Len(s) : /\ u[i] = rows[p] /\ t[i] = s[p] /\ u[i].index = s[p]
                                    /\ u[i].key = IF order = "ascending" THEN Time(recs, t[i])
                                                                         ELSE -Time(recs, t[i])
                                    /\ Time(recs, t[i]) \in Nat
    <3>1. PICK p \in 1..Len(s) : u[i] = rows[p]
      BY <2>6 DEF HasRows
    <3> QED BY <3>1, <2>2, <2>3, <2>7
  <2>9. t \in Seq(Nat) /\ Len(t) = Len(s)
    <3>1. \A i \in 1..Len(s) : t[i] \in Nat
      BY <2>2, <2>8
    <3> QED BY <3>1, <2>2, <2>7
  <2>10. ToSet(t) = ToSet(s)
    <3>1. ASSUME NEW p \in 1..Len(s)
          PROVE  \E i \in 1..Len(s) : t[i] = s[p]
      <4>1. PICK i \in 1..Len(s) : u[i] = rows[p]
        BY <2>6 DEF HasRows
      <4> QED BY <4>1, <2>2, <2>3, <2>7
    <3>2. \A i \in 1..Len(s) : \E p \in 1..Len(s) : t[i] = s[p]
      BY <2>8
    <3>3. ToSet(t) = {t[i] : i \in 1..Len(s)} /\ ToSet(s) = {s[p] : p \in 1..Len(s)}
      BY <2>2, <2>7 DEF ToSet
    <3> HIDE DEF t
    <3> QED BY <3>1, <3>2, <3>3
  <2>t. \A i \in 1..Len(s) : t[i] = u[i].index
    BY <2>7
  <2> HIDE DEF t
  <2>11. GoodRows(recs, t)
    <3>1. \A i \in DOMAIN t : t[i] \in DOMAIN recs
      BY <2>2, <2>7, <2>8 DEF GoodRows
    <3>2. \A i, j \in DOMAIN t : t[i] = t[j] => i = j
      BY <2>6, <2>7, <2>t DEF NoIndexTwice
    <3>3. ASSUME NEW i \in 1..Len(s), NEW j \in 1..Len(s), i < j, Time(recs, t[i]) = Time(recs, t[j])
          PROVE  t[i] < t[j]
      <4>i. u[i].key = IF order = "ascending" THEN Time(recs, t[i]) ELSE -Time(recs, t[i])
        BY <2>8
      <4>j. u[j].key = IF order = "ascending" THEN Time(recs, t[j]) ELSE -Time(recs, t[j])
        BY <2>8
      <4>1. u[i].key = u[j].key
        BY <4>i, <4>j, <3>3
      <4> QED BY <4>1, <3>3, <2>6, <2>7, <2>t DEF TiesByIndex
    <3> QED BY <3>1, <3>2, <3>3, <2>7, <2>9 DEF GoodRows
  <2>12. SortedBy(order, recs, t)
    <3>1. ASSUME NEW i \in 1..Len(s), NEW j \in 1..Len(s), i < j
          PROVE  /\ order = "ascending" => Time(recs, t[i]) <= Time(recs, t[j])
                 /\ order = "descending" => Time(recs, t[j]) <= Time(recs, t[i])
      <4>1. u[i].key <= u[j].key
        BY <3>1, <2>6, <2>7 DEF Ordered
      <4>2. /\ Time(recs, t[i]) \in Nat
            /\ u[i].key = IF order = "ascending" THEN Time(recs, t[i]) ELSE -Time(recs, t[i])
        BY <2>8
      <4>3. /\ Time(recs, t[j]) \in Nat
            /\ u[j].key = IF order = "ascending" THEN Time(recs, t[j]) ELSE -Time(recs, t[j])
        BY <2>8
      <4> QED BY <4>1, <4>2, <4>3
    <3> QED BY <3>1, <2>7, <1>2 DEF SortedBy, SortOrders
  <2> QED BY <2>1, <2>9, <2>10, <2>11, <2>12
<1> QED BY <1>1, <1>2

\* s has the accepted ones of the first k records, in their order.
AcceptedRows(recs, f, k, s) ==
  /\ s \in Seq(Nat)
  /\ \A i \in DOMAIN s : s[i] \in 1..k /\ Accepts(f, recs[s[i]])
  /\ \A i, j \in DOMAIN s : i < j => s[i] < s[j]
  /\ \A r \in 1..k : Accepts(f, recs[r]) => \E i \in DOMAIN s : s[i] = r

LEMMA PushKeeps ==
  ASSUME NEW recs, NEW f, NEW k \in Nat, NEW s, AcceptedRows(recs, f, k, s)
  PROVE  AcceptedRows(recs, f, k + 1,
           pushAccepted(s, [index |-> k + 1, accepted |-> Accepts(f, recs[k + 1])]))
<1> DEFINE a == Accepts(f, recs[k + 1])
<1>0. s \in Seq(Nat) /\ DOMAIN s = 1..Len(s) /\ Len(s) \in Nat /\ \A i \in 1..Len(s) : s[i] \in 1..k
  BY DEF AcceptedRows
<1>1. CASE a
  <2> DEFINE t == Append(s, k + 1)
  <2>1. pushAccepted(s, [index |-> k + 1, accepted |-> a]) = t
    BY <1>1 DEF pushAccepted
  <2>2. /\ t \in Seq(Nat) /\ DOMAIN t = 1..(Len(s) + 1) /\ t[Len(s) + 1] = k + 1
        /\ \A i \in 1..Len(s) : t[i] = s[i]
    BY <1>0
  <2> HIDE DEF t
  <2>3. ASSUME NEW i \in DOMAIN t
        PROVE  t[i] \in 1..(k + 1) /\ Accepts(f, recs[t[i]])
    <3>1. CASE i = Len(s) + 1
      BY <3>1, <2>2, <1>1
    <3>2. CASE i # Len(s) + 1
      <4>1. i \in 1..Len(s)
        BY <3>2, <2>2, <1>0
      <4> QED BY <4>1, <2>2, <1>0 DEF AcceptedRows
    <3> QED BY <3>1, <3>2
  <2>4. ASSUME NEW i \in DOMAIN t, NEW j \in DOMAIN t, i < j
        PROVE  t[i] < t[j]
    <3>1. i \in 1..Len(s)
      BY <2>2, <2>4, <1>0
    <3>2. CASE j = Len(s) + 1
      BY <3>1, <3>2, <2>2, <1>0
    <3>3. CASE j # Len(s) + 1
      <4>1. j \in 1..Len(s)
        BY <3>3, <2>2, <1>0
      <4> QED BY <4>1, <3>1, <2>2, <2>4, <1>0 DEF AcceptedRows
    <3> QED BY <3>2, <3>3
  <2>5. ASSUME NEW r \in 1..(k + 1), Accepts(f, recs[r])
        PROVE  \E i \in DOMAIN t : t[i] = r
    <3>1. CASE r = k + 1
      BY <3>1, <2>2, <1>0
    <3>2. CASE r # k + 1
      <4>1. r \in 1..k
        BY <3>2
      <4>2. PICK i \in DOMAIN s : s[i] = r
        BY <4>1, <2>5 DEF AcceptedRows
      <4> QED BY <4>2, <2>2, <1>0
    <3> QED BY <3>1, <3>2
  <2> QED BY <2>1, <2>2, <2>3, <2>4, <2>5 DEF AcceptedRows
<1>2. CASE ~a
  <2>1. pushAccepted(s, [index |-> k + 1, accepted |-> a]) = s
    BY <1>2 DEF pushAccepted
  <2>2. AcceptedRows(recs, f, k + 1, s)
    <3>1. \A i \in DOMAIN s : s[i] \in 1..(k + 1)
      BY <1>0
    <3>2. \A r \in 1..(k + 1) : Accepts(f, recs[r]) => r \in 1..k
      BY <1>2
    <3> QED BY <3>1, <3>2 DEF AcceptedRows
  <2> QED BY <2>1, <2>2
<1> QED BY <1>1, <1>2

\* BtuiModel::applyFilters, up to the sorting.
LEMMA FilterIs ==
  ASSUME NEW recs \in Seq(Rec), NEW f
  PROVE  LET s == filterRecords(recs, f)
         IN  GoodRows(recs, s) /\ ToSet(s) = {i \in DOMAIN recs : Accepts(f, recs[i])}
<1> DEFINE rows == [i \in DOMAIN recs |-> [index |-> i, accepted |-> Accepts(f, recs[i])]]
           s == FoldLeft(pushAccepted, <<>>, rows)
           S == {rows[i] : i \in DOMAIN recs}
<1>0. DOMAIN recs = 1..Len(recs) /\ Len(recs) \in Nat
  OBVIOUS
<1>1. filterRecords(recs, f) = s
  BY DEF filterRecords
<1>2. rows \in Seq(S) /\ Len(rows) = Len(recs)
      /\ \A k \in 1..Len(recs) : rows[k] = [index |-> k, accepted |-> Accepts(f, recs[k])]
  <2>1. \A k \in 1..Len(recs) : rows[k] = [index |-> k, accepted |-> Accepts(f, recs[k])] /\ rows[k] \in S
    BY <1>0
  <2>2. rows = [k \in 1..Len(recs) |-> rows[k]]
    BY <1>0
  <2> HIDE DEF rows, S
  <2>3. rows \in [1..Len(recs) -> S]
    BY <2>1, <2>2
  <2> QED BY <2>1, <2>3, <1>0
<1>3. s = Filtering!Fold(<<>>, rows)
  <2> HIDE DEF rows
  <2> QED BY DEF FoldLeft, MapThenFoldSet, Max,
         Filtering!Fold, Filtering!TheFold, Filtering!IsFold, Filtering!Max
<1> HIDE DEF rows, S, s
<1>4. PICK g : /\ g[0] = <<>>
               /\ \A k \in 1..Len(rows) : g[k] = pushAccepted(g[k - 1], rows[k])
               /\ Filtering!Fold(<<>>, rows) = g[Len(rows)]
  BY <1>2, Filtering!FoldSteps
<1> DEFINE T == {k \in Nat : k <= Len(recs) => AcceptedRows(recs, f, k, g[k])}
<1>5. 0 \in T
  <2>1. AcceptedRows(recs, f, 0, <<>>)
    BY DEF AcceptedRows
  <2> QED BY <2>1, <1>4
<1>6. ASSUME NEW k \in Nat, k \in T
      PROVE  k + 1 \in T
  <2> SUFFICES ASSUME k + 1 <= Len(recs) PROVE AcceptedRows(recs, f, k + 1, g[k + 1])
    OBVIOUS
  <2>1. AcceptedRows(recs, f, k, g[k]) /\ k + 1 \in 1..Len(recs) /\ (k + 1) - 1 = k
    BY <1>6, <1>0
  <2>2. g[k + 1] = pushAccepted(g[k], [index |-> k + 1, accepted |-> Accepts(f, recs[k + 1])])
    BY <2>1, <1>2, <1>4
  <2> QED BY <2>1, <2>2, PushKeeps
<1>7. \A k \in Nat : k \in T
  <2> HIDE DEF T
  <2> QED BY <1>5, <1>6, Filtering!NatInd
<1>8. AcceptedRows(recs, f, Len(recs), s)
  BY <1>0, <1>2, <1>3, <1>4, <1>7
<1>9. s \in Seq(Nat) /\ DOMAIN s = 1..Len(s) /\ Len(s) \in Nat /\ \A i \in 1..Len(s) : s[i] \in Nat
  BY <1>8 DEF AcceptedRows
<1>10. GoodRows(recs, s)
  <2>1. ASSUME NEW i \in DOMAIN s, NEW j \in DOMAIN s, s[i] = s[j]
        PROVE  i = j
    <3>1. ~(i < j) /\ ~(j < i)
      BY <2>1, <1>8, <1>9 DEF AcceptedRows
    <3> QED BY <3>1, <1>9
  <2> QED BY <2>1, <1>0, <1>8 DEF GoodRows, AcceptedRows
<1>11. ToSet(s) = {i \in DOMAIN recs : Accepts(f, recs[i])}
  <2>1. ToSet(s) = {s[i] : i \in DOMAIN s}
    BY DEF ToSet
  <2> QED BY <2>1, <1>0, <1>8 DEF AcceptedRows
<1> QED BY <1>1, <1>10, <1>11

\* The rows of an order, and the ones that the filter accepts.
LEMMA FiltersIs ==
  ASSUME NEW recs \in Seq(Rec), NEW order \in SortOrders, NEW f
  PROVE  LET t == applyFilters(order, recs, f)
         IN  /\ GoodRows(recs, t) /\ SortedBy(order, recs, t)
             /\ ToSet(t) = {i \in DOMAIN recs : Accepts(f, recs[i])}
<1> DEFINE s == filterRecords(recs, f)
<1>1. GoodRows(recs, s) /\ ToSet(s) = {i \in DOMAIN recs : Accepts(f, recs[i])}
  BY FilterIs
<1>2. applyFilters(order, recs, f) = applySorting(order, recs, s)
  BY DEF applyFilters
<1> HIDE DEF s
<1> QED BY <1>1, <1>2, SortingIs

-----------------------------------------------------------------------------
(* Reading one entry *)

Reader(r) ==
  /\ r = [sources |-> r.sources, writer |-> r.writer, clock |-> NoClock,
          events |-> r.events, status |-> r.status]
  /\ MapTo(r.sources, Nat)
  /\ r.writer \in Nat
  /\ r.events \in Seq(Rec)
  /\ r.status \in {"reading", "error"}

Fine(r) == Reader(r) /\ r.status = "reading"

LEMMA EntryKinds ==
  ASSUME NEW e \in FileEntry
  PROVE  /\ e.cut = FALSE
         /\ \/ e.kind = "source" /\ e.id \in Nat /\ e.src \in Nat
            \/ e.kind = "writer" /\ e.name \in Nat
            \/ e.kind = "event" /\ e.id \in Nat /\ e.num \in Number
BY DEF FileEntry

LEMMA NewReaderFine ==
  ASSUME NEW E \in Seq(Rec)
  PROVE  LET r == [NewReader EXCEPT !.events = E]
         IN  /\ Fine(r) /\ r.events = E /\ r.writer = NoName
             /\ \A id \in Nat : Lookup(r.sources, id) = None
<1>1. MapTo(EmptyMap, Nat) /\ \A id \in Nat : Lookup(EmptyMap, id) = None
  BY EmptyIsMap
<1>2. [NewReader EXCEPT !.events = E] =
        [sources |-> EmptyMap, writer |-> NoName, clock |-> NoClock, events |-> E, status |-> "reading"]
  BY DEF NewReader
<1>3. NoName \in Nat
  BY DEF NoName
<1> QED BY <1>1, <1>2, <1>3 DEF Fine, Reader

LEMMA ReadsNoMore ==
  ASSUME NEW r, r.status # "reading", NEW e
  PROVE  readEntry(r, e) = r
BY DEF readEntry

LEMMA ReadsSource ==
  ASSUME NEW r, Fine(r), NEW e \in FileEntry, e.kind = "source"
  PROVE  LET q == readEntry(r, e)
         IN  /\ Fine(q) /\ q.events = r.events /\ q.writer = r.writer
             /\ q.sources = emplace(r.sources, e.id, e.src)
             /\ \A k \in Nat : Lookup(q.sources, k) = IF k = e.id THEN Some(e.src) ELSE Lookup(r.sources, k)
<1> DEFINE m == emplace(r.sources, e.id, e.src)
<1>0. e.cut = FALSE /\ e.id \in Nat /\ e.src \in Nat
  BY EntryKinds
<1>1. readEntry(r, e) = [r EXCEPT !.sources = m]
  BY <1>0 DEF readEntry, readSpecial, Fine
<1>2. /\ MapTo(m, Nat)
      /\ \A k \in Nat : Lookup(m, k) = IF k = e.id THEN Some(e.src) ELSE Lookup(r.sources, k)
  BY <1>0, EmplaceIsMap DEF Fine, Reader
<1> HIDE DEF m
<1>3. [r EXCEPT !.sources = m] = [sources |-> m, writer |-> r.writer, clock |-> NoClock,
                                  events |-> r.events, status |-> r.status]
  BY DEF Fine, Reader
<1>4. readEntry(r, e) = [sources |-> m, writer |-> r.writer, clock |-> NoClock,
                         events |-> r.events, status |-> r.status]
  BY <1>1, <1>3
<1>5. Fine(readEntry(r, e))
  BY <1>2, <1>4 DEF Fine, Reader
<1> QED BY <1>2, <1>4, <1>5 DEF m

LEMMA ReadsWriter ==
  ASSUME NEW r, Fine(r), NEW e \in FileEntry, e.kind = "writer"
  PROVE  LET q == readEntry(r, e)
         IN  Fine(q) /\ q.events = r.events /\ q.sources = r.sources /\ q.writer = e.name
<1>0. e.cut = FALSE /\ e.name \in Nat
  BY EntryKinds
<1>1. readEntry(r, e) = [r EXCEPT !.writer = e.name]
  BY <1>0 DEF readEntry, readSpecial, Fine
<1>2. [r EXCEPT !.writer = e.name] = [sources |-> r.sources, writer |-> e.name, clock |-> NoClock,
                                      events |-> r.events, status |-> r.status]
  BY DEF Fine, Reader
<1>3. readEntry(r, e) = [sources |-> r.sources, writer |-> e.name, clock |-> NoClock,
                         events |-> r.events, status |-> r.status]
  BY <1>1, <1>2
<1>4. Fine(readEntry(r, e))
  BY <1>0, <1>3 DEF Fine, Reader
<1> QED BY <1>3, <1>4

\* The record of an event.
RecordOf(e, v, r) == [num |-> e.num, src |-> v, writer |-> r.writer, clock |-> r.clock]

LEMMA ReadsEvent ==
  ASSUME NEW r, Fine(r), NEW e \in FileEntry, e.kind = "event",
         NEW v \in Nat, Lookup(r.sources, e.id) = Some(v)
  PROVE  LET q == readEntry(r, e)
         IN  /\ Fine(q) /\ q.sources = r.sources /\ q.writer = r.writer
             /\ q.events = Append(r.events, RecordOf(e, v, r)) /\ RecordOf(e, v, r) \in Rec
<1> DEFINE x == RecordOf(e, v, r)
           l == Append(r.events, x)
<1>0. e.cut = FALSE /\ e.num \in Number
  BY EntryKinds
<1>1. has(r.sources, e.id) /\ find(r.sources, e.id) = v
  BY LookupFinds
<1>2. readEntry(r, e) = [r EXCEPT !.events = l]
  BY <1>0, <1>1 DEF readEntry, readEvent, Fine, RecordOf
<1>3. x \in Rec /\ r.events \in Seq(Rec)
  BY <1>0 DEF Rec, Fine, Reader, RecordOf
<1>4. l \in Seq(Rec)
  <2> HIDE DEF x
  <2> QED BY <1>3
<1> HIDE DEF x, l
<1>5. [r EXCEPT !.events = l] = [sources |-> r.sources, writer |-> r.writer, clock |-> NoClock,
                                 events |-> l, status |-> r.status]
  BY DEF Fine, Reader
<1>6. readEntry(r, e) = [sources |-> r.sources, writer |-> r.writer, clock |-> NoClock,
                         events |-> l, status |-> r.status]
  BY <1>2, <1>5
<1>7. Fine(readEntry(r, e))
  BY <1>4, <1>6 DEF Fine, Reader
<1> QED BY <1>3, <1>6, <1>7 DEF l, x

LEMMA ReadsUnknown ==
  ASSUME NEW r, Fine(r), NEW e \in FileEntry, e.kind = "event", Lookup(r.sources, e.id) = None
  PROVE  LET q == readEntry(r, e)
         IN  Reader(q) /\ q.events = r.events /\ q.status = "error"
<1>1. ~has(r.sources, e.id)
  BY DEF Lookup, Some, None
<1>2. readEntry(r, e) = [r EXCEPT !.status = "error"]
  BY <1>1 DEF readEntry, readEvent, Fine
<1>3. [r EXCEPT !.status = "error"] = [sources |-> r.sources, writer |-> r.writer, clock |-> NoClock,
                                       events |-> r.events, status |-> "error"]
  BY DEF Fine, Reader
<1>4. readEntry(r, e) = [sources |-> r.sources, writer |-> r.writer, clock |-> NoClock,
                         events |-> r.events, status |-> "error"]
  BY <1>2, <1>3
<1>5. Reader(readEntry(r, e))
  BY <1>4 DEF Fine, Reader
<1> QED BY <1>4, <1>5

\* What a map to numbers finds.
LEMMA LookupNat ==
  ASSUME NEW m, MapTo(m, Nat), NEW k \in Nat
  PROVE  Lookup(m, k) = None \/ \E v \in Nat : Lookup(m, k) = Some(v)
<1>1. PICK o \in Seq(Nat), g \in Seq(Seq(Nat)) : m = Map(o, g) /\ WellFormed(o, g)
  BY DEF MapTo
<1>2. PICK i \in 1..Len(o) : IsLast(o, k, i)
  BY <1>1 DEF WellFormed
<1>3. Lookup(m, k) = IF k - o[i] < Len(g[i]) THEN Some(g[i][k - o[i] + 1]) ELSE None
  BY <1>1, <1>2, LookupBySegment
<1>4. CASE k - o[i] < Len(g[i])
  <2>1. o[i] \in Nat /\ o[i] <= k
    BY <1>2 DEF IsLast
  <2>2. g[i] \in Seq(Nat)
    BY <1>1, <1>2, ElementOfSeq DEF WellFormed
  <2>3. k - o[i] + 1 \in 1..Len(g[i])
    BY <2>1, <2>2, <1>4
  <2>4. g[i][k - o[i] + 1] \in Nat
    BY <2>2, <2>3, ElementOfSeq
  <2> QED BY <2>4, <1>3, <1>4
<1> QED BY <1>3, <1>4

-----------------------------------------------------------------------------
(* Reading entries, by a reader that has the events E already *)

LastSource(es, j, id, k) == IsSource(es[j], id) /\ \A i \in (j + 1)..k : ~IsSource(es[i], id)
LastWriter(es, j, k) == IsWriter(es[j]) /\ \A i \in (j + 1)..k : ~IsWriter(es[i])

\* What is found is what was last among the first k entries.
SourcesKnown(r, es, k) ==
  \A id \in Nat : \A v \in Nat : Lookup(r.sources, id) = Some(v) =>
    \E j \in 1..k : LastSource(es, j, id, k) /\ es[j].src = v

Known(r, es, k) ==
  /\ SourcesKnown(r, es, k)
  /\ r.writer = NoName \/ \E j \in 1..k : LastWriter(es, j, k) /\ es[j].name = r.writer

Increasing(es) ==
  \A i, j \in DOMAIN es : i < j /\ IsEvent(es[i]) /\ IsEvent(es[j]) => es[i].num.num < es[j].num.num

OwnSource(x) == x.src = x.num.src /\ x.writer \in {x.num.writer, NoName}

\* The events behind the first n are those of the first m entries.
EventsOf(events, n, es, m) ==
  /\ \A i \in (n + 1)..Len(events) : OwnSource(events[i])
  /\ \A i \in (n + 1)..Len(events) : \E k \in 1..m : IsEvent(es[k]) /\ events[i].num = es[k].num
  /\ \A k \in 1..m : IsEvent(es[k]) => \E i \in (n + 1)..Len(events) : events[i].num = es[k].num
  /\ Increasing(es) =>
       \A i, j \in (n + 1)..Len(events) : i < j => events[i].num.num < events[j].num.num

\* The events have those of E first, and at most m more.
Extends(events, E, m) ==
  /\ events \in Seq(Rec) /\ Len(events) \in Len(E)..(Len(E) + m)
  /\ \A i \in 1..Len(E) : events[i] = E[i]

Upto(r, E, es, k) ==
  /\ Reader(r)
  /\ Extends(r.events, E, k)
  /\ \E m \in 0..k : (r.status = "reading" => m = k) /\ EventsOf(r.events, Len(E), es, m)
  /\ r.status = "reading" => Known(r, es, k)

\* One entry more of a file that an application wrote.
LEMMA KnownSource ==
  ASSUME NEW es \in Seq(FileEntry), NEW k \in Nat, k + 1 <= Len(es),
         NEW r, Known(r, es, k), es[k + 1].kind = "source", NEW q, q.writer = r.writer,
         \A id \in Nat : Lookup(q.sources, id) =
           IF id = es[k + 1].id THEN Some(es[k + 1].src) ELSE Lookup(r.sources, id)
  PROVE  Known(q, es, k + 1)
<1>1. ASSUME NEW id \in Nat, NEW v \in Nat, Lookup(q.sources, id) = Some(v)
      PROVE  \E j \in 1..(k + 1) : LastSource(es, j, id, k + 1) /\ es[j].src = v
  <2>1. CASE id = es[k + 1].id
    <3>1. es[k + 1].src = v
      BY <1>1, <2>1 DEF Some
    <3>2. LastSource(es, k + 1, id, k + 1)
      BY <2>1 DEF LastSource, IsSource
    <3> QED BY <3>1, <3>2
  <2>2. CASE id # es[k + 1].id
    <3>1. PICK j \in 1..k : LastSource(es, j, id, k) /\ es[j].src = v
      BY <1>1, <2>2 DEF Known, SourcesKnown
    <3>2. ~IsSource(es[k + 1], id)
      BY <2>2 DEF IsSource
    <3>3. \A i \in (j + 1)..(k + 1) : ~IsSource(es[i], id)
      <4>1. \A i \in (j + 1)..(k + 1) : i \in (j + 1)..k \/ i = k + 1
        OBVIOUS
      <4> QED BY <3>1, <3>2, <4>1 DEF LastSource
    <3> QED BY <3>1, <3>3 DEF LastSource
  <2> QED BY <2>1, <2>2
<1>2. ASSUME r.writer # NoName
      PROVE  \E j \in 1..(k + 1) : LastWriter(es, j, k + 1) /\ es[j].name = r.writer
  <2>1. PICK j \in 1..k : LastWriter(es, j, k) /\ es[j].name = r.writer
    BY <1>2 DEF Known
  <2>2. \A i \in (j + 1)..(k + 1) : i \in (j + 1)..k \/ i = k + 1
    OBVIOUS
  <2>3. LastWriter(es, j, k + 1)
    BY <2>1, <2>2 DEF LastWriter, IsWriter
  <2> QED BY <2>1, <2>3
<1> QED BY <1>1, <1>2 DEF Known, SourcesKnown

LEMMA KnownSameSources ==
  ASSUME NEW es, NEW k \in Nat, NEW r, Known(r, es, k), es[k + 1].kind # "source",
         NEW q, q.sources = r.sources
  PROVE  SourcesKnown(q, es, k + 1)
<1> SUFFICES ASSUME NEW id \in Nat, NEW v \in Nat, Lookup(q.sources, id) = Some(v)
             PROVE  \E j \in 1..(k + 1) : LastSource(es, j, id, k + 1) /\ es[j].src = v
  BY DEF SourcesKnown
<1>0. Lookup(r.sources, id) = Some(v)
  OBVIOUS
<1>1. PICK j \in 1..k : LastSource(es, j, id, k) /\ es[j].src = v
  BY <1>0 DEF Known, SourcesKnown
<1>2. \A i \in (j + 1)..(k + 1) : i \in (j + 1)..k \/ i = k + 1
  OBVIOUS
<1>3. LastSource(es, j, id, k + 1)
  BY <1>1, <1>2 DEF LastSource, IsSource
<1> QED BY <1>1, <1>3

LEMMA KnownWriter ==
  ASSUME NEW es, NEW k \in Nat, NEW r, Known(r, es, k), es[k + 1].kind = "writer",
         NEW q, q.sources = r.sources, q.writer = es[k + 1].name
  PROVE  Known(q, es, k + 1)
<1>1. es[k + 1].kind # "source" /\ q.sources = r.sources
  OBVIOUS
<1>2. SourcesKnown(q, es, k + 1)
  BY <1>1, KnownSameSources
<1>3. LastWriter(es, k + 1, k + 1)
  BY DEF LastWriter, IsWriter
<1> QED BY <1>2, <1>3 DEF Known, SourcesKnown

LEMMA KnownEvent ==
  ASSUME NEW es, NEW k \in Nat, NEW r, Known(r, es, k), es[k + 1].kind = "event",
         NEW q, q.sources = r.sources, q.writer = r.writer
  PROVE  Known(q, es, k + 1)
<1>1. es[k + 1].kind # "source" /\ q.sources = r.sources
  OBVIOUS
<1>2. SourcesKnown(q, es, k + 1)
  BY <1>1, KnownSameSources
<1>3. ASSUME r.writer # NoName
      PROVE  \E j \in 1..(k + 1) : LastWriter(es, j, k + 1) /\ es[j].name = r.writer
  <2>1. PICK j \in 1..k : LastWriter(es, j, k) /\ es[j].name = r.writer
    BY <1>3 DEF Known, SourcesKnown
  <2>2. \A i \in (j + 1)..(k + 1) : i \in (j + 1)..k \/ i = k + 1
    OBVIOUS
  <2>3. LastWriter(es, j, k + 1)
    BY <2>1, <2>2 DEF LastWriter, IsWriter
  <2> QED BY <2>1, <2>3
<1> QED BY <1>2, <1>3 DEF Known, SourcesKnown

\* The event that is read has the source and the writer it was logged with.
LEMMA OwnSourceRead ==
  ASSUME NEW es \in Seq(FileEntry), WrittenByApplications(es),
         NEW k \in Nat, k + 1 <= Len(es), NEW r, Fine(r), Known(r, es, k),
         IsEvent(es[k + 1]), NEW v \in Nat, Lookup(r.sources, es[k + 1].id) = Some(v)
  PROVE  OwnSource(RecordOf(es[k + 1], v, r))
<1> DEFINE e == es[k + 1]
<1>0. k + 1 \in DOMAIN es /\ (k + 1) - 1 = k
  OBVIOUS
<1>1. e \in FileEntry /\ e.kind = "event"
  BY <1>0 DEF IsEvent
<1>2. e.id \in Nat
  BY <1>1, EntryKinds
<1>3. \A j \in 1..k :
        /\ LastSource(es, j, e.id, k) => es[j].src = e.num.src
        /\ LastWriter(es, j, k) => es[j].name = e.num.writer
  BY <1>0, <1>1 DEF WrittenByApplications, IsEvent, LastSource, LastWriter
<1>6. Lookup(r.sources, e.id) = Some(v)
  OBVIOUS
<1> HIDE DEF e
<1>4. v = e.num.src
  <2>1. PICK j \in 1..k : LastSource(es, j, e.id, k) /\ es[j].src = v
    BY <1>2, <1>6 DEF Known, SourcesKnown
  <2> QED BY <2>1, <1>3
<1>5. r.writer \in {e.num.writer, NoName}
  BY <1>3 DEF Known, SourcesKnown
<1> QED BY <1>4, <1>5 DEF OwnSource, RecordOf, e

LEMMA ExtendsMore ==
  ASSUME NEW events, NEW E \in Seq(Rec), NEW m \in Nat, Extends(events, E, m)
  PROVE  Extends(events, E, m + 1)
BY DEF Extends

\* An entry that is not an event adds none.
LEMMA EventsOfOther ==
  ASSUME NEW events, NEW n, NEW es, NEW k \in Nat, EventsOf(events, n, es, k), ~IsEvent(es[k + 1])
  PROVE  EventsOf(events, n, es, k + 1)
<1>1. \A i \in 1..(k + 1) : IsEvent(es[i]) => i \in 1..k
  OBVIOUS
<1>2. \A i \in 1..k : i \in 1..(k + 1)
  OBVIOUS
<1> QED BY <1>1, <1>2 DEF EventsOf

LEMMA EventsOfEvent ==
  ASSUME NEW E \in Seq(Rec), NEW events, NEW es \in Seq(FileEntry),
         NEW k \in Nat, k + 1 <= Len(es), Extends(events, E, k),
         EventsOf(events, Len(E), es, k),
         NEW x \in Rec, OwnSource(x), IsEvent(es[k + 1]), x.num = es[k + 1].num
  PROVE  /\ Extends(Append(events, x), E, k + 1)
         /\ EventsOf(Append(events, x), Len(E), es, k + 1)
<1> DEFINE t == Append(events, x)
           n == Len(E)
           l == Len(events)
<1>0. l \in Nat /\ n \in Nat /\ n <= l /\ l <= n + k /\ events \in Seq(Rec)
  BY DEF Extends
<1>1. /\ t \in Seq(Rec) /\ Len(t) = l + 1 /\ t[l + 1] = x /\ \A i \in 1..l : t[i] = events[i]
  BY <1>0
<1>2. \A i \in 1..n : i \in 1..l /\ events[i] = E[i]
  BY <1>0 DEF Extends
<1> HIDE DEF t, l
<1>3. Extends(t, E, k + 1)
  BY <1>0, <1>1, <1>2 DEF Extends
<1>4. ASSUME NEW i \in (n + 1)..(l + 1)
      PROVE  /\ i = l + 1 \/ (i \in (n + 1)..l /\ i \in 1..l)
             /\ i = l + 1 => t[i] = x
             /\ i # l + 1 => t[i] = events[i]
  BY <1>0, <1>1
<1> HIDE DEF n
<1>5. ASSUME NEW i \in (n + 1)..(l + 1)
      PROVE  /\ OwnSource(t[i])
             /\ \E j \in 1..(k + 1) : IsEvent(es[j]) /\ t[i].num = es[j].num
  <2>1. CASE i = l + 1
    BY <2>1, <1>4
  <2>2. CASE i # l + 1
    <3>1. i \in (n + 1)..l /\ t[i] = events[i]
      BY <2>2, <1>4
    <3>2. PICK j \in 1..k : IsEvent(es[j]) /\ events[i].num = es[j].num
      BY <3>1 DEF EventsOf, l, n
    <3>3. OwnSource(events[i])
      BY <3>1 DEF EventsOf, l, n
    <3> QED BY <3>1, <3>2, <3>3
  <2> QED BY <2>1, <2>2
<1>6. ASSUME NEW j \in 1..(k + 1), IsEvent(es[j])
      PROVE  \E i \in (n + 1)..(l + 1) : t[i].num = es[j].num
  <2>1. CASE j = k + 1
    BY <2>1, <1>0, <1>1
  <2>2. CASE j # k + 1
    <3>1. j \in 1..k
      BY <2>2
    <3>2. PICK i \in (n + 1)..l : events[i].num = es[j].num
      BY <3>1, <1>6 DEF EventsOf, n, l
    <3> QED BY <3>2, <1>0, <1>1
  <2> QED BY <2>1, <2>2
<1>7. ASSUME Increasing(es), NEW i \in (n + 1)..(l + 1), NEW j \in (n + 1)..(l + 1), i < j
      PROVE  t[i].num.num < t[j].num.num
  <2>1. i \in (n + 1)..l /\ t[i] = events[i]
    BY <1>0, <1>4, <1>7
  <2>2. CASE j = l + 1
    <3>1. PICK h \in 1..k : IsEvent(es[h]) /\ events[i].num = es[h].num
      BY <2>1 DEF EventsOf, l, n
    <3>2. h \in DOMAIN es /\ k + 1 \in DOMAIN es /\ h < k + 1
      OBVIOUS
    <3>3. es[h].num.num < es[k + 1].num.num
      BY <3>1, <3>2, <1>7 DEF Increasing
    <3> QED BY <2>1, <2>2, <3>1, <3>3, <1>1
  <2>3. CASE j # l + 1
    <3>1. j \in (n + 1)..l /\ t[j] = events[j]
      BY <2>3, <1>4
    <3>2. events[i].num.num < events[j].num.num
      BY <2>1, <3>1, <1>7 DEF EventsOf, l, n
    <3> QED BY <2>1, <3>1, <3>2
  <2> QED BY <2>2, <2>3
<1>8. EventsOf(t, n, es, k + 1)
  BY <1>1, <1>5, <1>6, <1>7 DEF EventsOf
<1> QED BY <1>3, <1>8 DEF t, n

LEMMA UptoMore ==
  ASSUME NEW es \in Seq(FileEntry), WrittenByApplications(es), NEW E \in Seq(Rec),
         NEW k \in Nat, k + 1 <= Len(es), NEW r, Upto(r, E, es, k)
  PROVE  Upto(readEntry(r, es[k + 1]), E, es, k + 1)
<1> DEFINE e == es[k + 1]
           q == readEntry(r, e)
<1>0. e \in FileEntry /\ e = es[k + 1]
  OBVIOUS
<1>1. Reader(r) /\ Extends(r.events, E, k) /\ Extends(r.events, E, k + 1)
  BY ExtendsMore DEF Upto
<1> HIDE DEF e
<1>2. CASE r.status # "reading"
  <2>1. q = r
    BY <1>2, ReadsNoMore
  <2>2. PICK m \in 0..k : EventsOf(r.events, Len(E), es, m)
    BY DEF Upto
  <2> HIDE DEF q
  <2>3. m \in 0..(k + 1)
    OBVIOUS
  <2>4. Upto(r, E, es, k + 1)
    BY <2>2, <2>3, <1>1, <1>2 DEF Upto
  <2> QED BY <2>1, <2>4 DEF q, e
<1>3. CASE r.status = "reading"
  <2>1. Fine(r) /\ Known(r, es, k) /\ EventsOf(r.events, Len(E), es, k)
    BY <1>3 DEF Fine, Upto
  <2>2. CASE e.kind = "source"
    <3>1. /\ Fine(q) /\ q.events = r.events /\ q.writer = r.writer
          /\ \A id \in Nat : Lookup(q.sources, id) = IF id = e.id THEN Some(e.src) ELSE Lookup(r.sources, id)
      BY <1>0, <2>1, <2>2, ReadsSource
    <3> HIDE DEF q
    <3>2. Known(q, es, k + 1)
      BY <2>1, <2>2, <3>1, KnownSource DEF e
    <3>3. EventsOf(q.events, Len(E), es, k + 1)
      BY <2>1, <2>2, <3>1, EventsOfOther DEF e, IsEvent
    <3>4. k + 1 \in 0..(k + 1)
      OBVIOUS
    <3>5. Upto(q, E, es, k + 1)
      BY <1>1, <3>1, <3>2, <3>3, <3>4 DEF Upto, Fine
    <3> QED BY <3>5 DEF q, e
  <2>3. CASE e.kind = "writer"
    <3>1. Fine(q) /\ q.events = r.events /\ q.sources = r.sources /\ q.writer = e.name
      BY <1>0, <2>1, <2>3, ReadsWriter
    <3> HIDE DEF q
    <3>2. Known(q, es, k + 1)
      BY <2>1, <2>3, <3>1, KnownWriter DEF e
    <3>3. EventsOf(q.events, Len(E), es, k + 1)
      BY <2>1, <2>3, <3>1, EventsOfOther DEF e, IsEvent
    <3>4. k + 1 \in 0..(k + 1)
      OBVIOUS
    <3>5. Upto(q, E, es, k + 1)
      BY <1>1, <3>1, <3>2, <3>3, <3>4 DEF Upto, Fine
    <3> QED BY <3>5 DEF q, e
  <2>4. CASE e.kind = "event"
    <3>1. e.id \in Nat /\ MapTo(r.sources, Nat)
      BY <1>0, <2>4, <1>1, EntryKinds DEF Reader
    <3>2. CASE Lookup(r.sources, e.id) = None
      <4>1. Reader(q) /\ q.events = r.events /\ q.status = "error"
        BY <1>0, <2>1, <2>4, <3>2, ReadsUnknown
      <4> HIDE DEF q
      <4>2. k \in 0..(k + 1)
        OBVIOUS
      <4>3. Upto(q, E, es, k + 1)
        BY <4>1, <4>2, <1>1, <2>1 DEF Upto
      <4> QED BY <4>3 DEF q, e
    <3>3. ASSUME NEW v \in Nat, Lookup(r.sources, e.id) = Some(v)
          PROVE  Upto(q, E, es, k + 1)
      <4> DEFINE x == RecordOf(e, v, r)
      <4>1. /\ Fine(q) /\ q.sources = r.sources /\ q.writer = r.writer
            /\ q.events = Append(r.events, x) /\ x \in Rec
        BY <1>0, <2>1, <2>4, <3>3, ReadsEvent
      <4>2. OwnSource(x)
        BY <2>1, <2>4, <3>3, OwnSourceRead DEF e, IsEvent
      <4>3. x.num = es[k + 1].num /\ IsEvent(es[k + 1])
        BY <2>4 DEF RecordOf, e, IsEvent
      <4> HIDE DEF q, x
      <4>4. Extends(q.events, E, k + 1) /\ EventsOf(q.events, Len(E), es, k + 1)
        BY <1>1, <2>1, <4>1, <4>2, <4>3, EventsOfEvent
      <4>5. Known(q, es, k + 1)
        BY <2>1, <2>4, <4>1, KnownEvent DEF e
      <4>6. k + 1 \in 0..(k + 1)
        OBVIOUS
      <4> QED BY <4>1, <4>4, <4>5, <4>6 DEF Upto, Fine
    <3> QED BY <3>1, <3>2, <3>3, LookupNat DEF e
  <2> QED BY <1>0, <2>2, <2>3, <2>4, EntryKinds
<1> QED BY <1>2, <1>3

\* Reading what applications wrote.
LEMMA ReadsFile ==
  ASSUME NEW es \in Seq(FileEntry), WrittenByApplications(es), NEW E \in Seq(Rec)
  PROVE  Upto(readAll([NewReader EXCEPT !.events = E], es), E, es, Len(es))
<1> DEFINE r == [NewReader EXCEPT !.events = E]
<1>1. /\ Fine(r) /\ r.events = E /\ r.writer = NoName
      /\ \A id \in Nat : Lookup(r.sources, id) = None
  BY NewReaderFine
<1> HIDE DEF r
<1>2. PICK g : /\ g[0] = r
               /\ \A k \in 1..Len(es) : g[k] = readEntry(g[k - 1], es[k])
               /\ readAll(r, es) = g[Len(es)]
  BY ReadSteps
<1>3. Upto(r, E, es, 0)
  <2>1. Extends(r.events, E, 0)
    BY <1>1 DEF Extends
  <2>2. EventsOf(r.events, Len(E), es, 0)
    BY <1>1 DEF EventsOf
  <2>3. Known(r, es, 0)
    <3>1. \A v : Some(v) # None
      BY DEF Some, None
    <3> QED BY <3>1, <1>1 DEF Known, SourcesKnown
  <2>4. 0 \in 0..0
    OBVIOUS
  <2> QED BY <1>1, <2>1, <2>2, <2>3, <2>4 DEF Upto, Fine
<1> DEFINE T == {k \in Nat : k <= Len(es) => Upto(g[k], E, es, k)}
<1>4. 0 \in T
  BY <1>2, <1>3
<1>5. ASSUME NEW k \in Nat, k \in T
      PROVE  k + 1 \in T
  <2> SUFFICES ASSUME k + 1 <= Len(es) PROVE Upto(g[k + 1], E, es, k + 1)
    OBVIOUS
  <2>1. Upto(g[k], E, es, k) /\ k + 1 \in 1..Len(es) /\ (k + 1) - 1 = k
    BY <1>5
  <2>2. g[k + 1] = readEntry(g[k], es[k + 1])
    BY <2>1, <1>2
  <2> QED BY <2>1, <2>2, UptoMore
<1>6. \A k \in Nat : k \in T
  <2> HIDE DEF T
  <2> QED BY <1>4, <1>5, Reading!NatInd
<1>7. Upto(g[Len(es)], E, es, Len(es))
  BY <1>6
<1> QED BY <1>2, <1>7 DEF r

\* Each suffix of what applications wrote is such a sequence, too.
LEMMA SuffixWritten ==
  ASSUME NEW es \in Seq(FileEntry), WrittenByApplications(es), NEW p \in 0..Len(es)
  PROVE  LET t == SubSeq(es, p + 1, Len(es))
         IN  /\ t \in Seq(FileEntry) /\ Len(t) = Len(es) - p
             /\ \A i \in 1..(Len(es) - p) : t[i] = es[p + i]
             /\ WrittenByApplications(t)
             /\ Increasing(es) => Increasing(t)
<1> DEFINE t == SubSeq(es, p + 1, Len(es))
           n == Len(es) - p
<1>1. t \in Seq(FileEntry) /\ Len(t) = n /\ n \in Nat /\ DOMAIN t = 1..n
      /\ \A i \in 1..n : t[i] = es[p + i]
  OBVIOUS
<1>2. \A i \in 1..n : p + i \in DOMAIN es
  OBVIOUS
<1> HIDE DEF t
<1>3. WrittenByApplications(t)
  <2> SUFFICES ASSUME NEW k \in 1..n, IsEvent(t[k]), NEW j \in 1..(k - 1)
               PROVE  /\ /\ IsSource(t[j], t[k].id)
                         /\ \A i \in (j + 1)..(k - 1) : ~IsSource(t[i], t[k].id)
                         => t[j].src = t[k].num.src
                      /\ IsWriter(t[j]) /\ (\A i \in (j + 1)..(k - 1) : ~IsWriter(t[i]))
                         => t[j].name = t[k].num.writer
    BY <1>1 DEF WrittenByApplications
  <2>1. PICK K \in DOMAIN es, J \in Nat \ {0} :
          J < K /\ K = p + k /\ J = p + j /\ t[j] = es[J] /\ t[k] = es[K]
    <3>1. j \in 1..n /\ t[j] = es[p + j] /\ t[k] = es[p + k]
          /\ p + k \in DOMAIN es /\ p + j \in 1..(p + k - 1)
      BY <1>1, <1>2
    <3> QED BY <3>1
  <2>2. ASSUME NEW i \in (J + 1)..(K - 1)
        PROVE  \E h \in (j + 1)..(k - 1) : t[h] = es[i]
    <3>1. i - p \in (j + 1)..(k - 1) /\ i - p \in 1..n /\ p + (i - p) = i
      BY <2>1
    <3> QED BY <3>1, <1>1
  <2>3. /\ /\ IsSource(es[J], es[K].id)
           /\ \A i \in (J + 1)..(K - 1) : ~IsSource(es[i], es[K].id)
           => es[J].src = es[K].num.src
        /\ IsWriter(es[J]) /\ (\A i \in (J + 1)..(K - 1) : ~IsWriter(es[i]))
           => es[J].name = es[K].num.writer
    <3>1. IsEvent(es[K])
      BY <2>1
    <3>2. J \in 1..(K - 1)
      BY <2>1
    <3> QED BY <3>1, <3>2 DEF WrittenByApplications
  <2>4. t[j] = es[J] /\ t[k] = es[K]
    BY <2>1
  <2> QED BY <2>2, <2>3, <2>4
<1>4. ASSUME Increasing(es)
      PROVE  Increasing(t)
  <2> SUFFICES ASSUME NEW i \in 1..n, NEW j \in 1..n, i < j, IsEvent(t[i]), IsEvent(t[j])
               PROVE  t[i].num.num < t[j].num.num
    BY <1>1 DEF Increasing
  <2>1. PICK I \in DOMAIN es, J \in DOMAIN es : I < J /\ t[i] = es[I] /\ t[j] = es[J]
    <3>1. p + i \in DOMAIN es /\ p + j \in DOMAIN es /\ p + i < p + j
      BY <1>2
    <3> QED BY <3>1, <1>1
  <2>2. IsEvent(es[I]) /\ IsEvent(es[J])
    BY <2>1
  <2>3. es[I].num.num < es[J].num.num
    BY <2>1, <2>2, <1>4 DEF Increasing
  <2>4. t[i] = es[I] /\ t[j] = es[J]
    BY <2>1
  <2> QED BY <2>3, <2>4
<1> QED BY <1>1, <1>3, <1>4 DEF t

-----------------------------------------------------------------------------
(* The invariant *)

Types ==
  /\ file \in Seq(FileEntry)
  /\ half \in FileEntry \union {NoEntry}
  /\ app \in [sources : Seq(Nat), writer : Nat, restarts : Nat]
  /\ status \in {"starting", "running", "quit", "terminated", "undefined"}
  /\ records \in Seq(Rec)
  /\ filter \in [min : 0..(Severities - 1), writer : {NoName, 1}]
  /\ sort \in SortOrders
  /\ ui \in [pc : {"ready", "joining", "quitting"}, selected : Nat, scroll : Nat, typing : BOOLEAN]
  /\ keys \in 0..MaxKeys
  /\ tail \in [pc : {"off", "open", "loop", "sleep", "load", "left"}, running : BOOLEAN,
               pos : Nat, eof : BOOLEAN]
  /\ stale \in BOOLEAN

\* What the application has written, and is writing.
FileInv ==
  /\ WrittenByApplications(file) /\ Increasing(file)
  /\ \A k \in Events : file[k].num.num \in 1..Cardinality(Events)
  /\ \A id \in DOMAIN app.sources :
       \E j \in DOMAIN file : LastSource(file, j, id, Len(file)) /\ file[j].src = app.sources[id]
  /\ app.writer # NoName =>
       \E j \in DOMAIN file : LastWriter(file, j, Len(file)) /\ file[j].name = app.writer
  /\ half # NoEntry => half \in NextEntries /\ Len(file) < MaxEntries
  /\ Len(file) <= MaxEntries

\* A new reader reads all of the file.
ReadInv ==
  LET R == readAll(NewReader, file)
  IN  /\ R.status = "reading"
      /\ \A id \in DOMAIN app.sources : Lookup(R.sources, id) = Some(app.sources[id])

TailInv ==
  /\ tail.pos <= FileEnd
  /\ tail.pc \in {"off", "left"} => ~tail.running
  /\ tail.pc \in {"loop", "sleep", "load"} =>
       read \subseteq 1..(tail.pos \div 2) /\ Len(records) <= MaxOther + tail.pos \div 2
  /\ read \subseteq 1..Len(file) /\ Len(records) <= MaxOther + Len(file)

StartInv ==
  status = "starting" =>
    records = <<>> /\ shown = <<>> /\ read = {} /\ filter = NoFilter /\ tail.pc = "off"

RecordsInv == RecordsOwnSource /\ RecordsAreFile

Current == ~stale => ToSet(shown) = {i \in DOMAIN records : Accepts(filter, records[i])}
RowsInv == GoodRows(records, shown) /\ SortedBy(sort, records, shown) /\ Current

\* The selection can be as many pages below the last event as keys were pressed.
Below(n) == n <= MaxEntries + MaxOther + PageSize * keys
UiInv == Below(ui.selected) /\ Below(ui.scroll)

Inv == Types /\ FileInv /\ ReadInv /\ TailInv /\ StartInv /\ RecordsInv /\ RowsInv /\ UiInv

-----------------------------------------------------------------------------
(* What a step leaves alone *)

LEMMA FileFrame ==
  ASSUME FileInv, ReadInv, UNCHANGED fileVars
  PROVE  FileInv' /\ ReadInv'
<1>0. file' = file /\ half' = half /\ app' = app
  BY DEF fileVars
<1>1. Events' = Events /\ NextEntries' = NextEntries
  BY <1>0 DEF Events, NextEntries
<1>2. FileInv'
  BY <1>0, <1>1 DEF FileInv
<1>3. ReadInv'
  BY <1>0 DEF ReadInv
<1> QED BY <1>2, <1>3

LEMMA TailFrame ==
  ASSUME TailInv, UNCHANGED fileVars, UNCHANGED <<records, tail, read>>
  PROVE  TailInv'
BY DEF TailInv, FileEnd, fileVars

LEMMA RecordsFrame ==
  ASSUME RecordsInv, file' = file, records' = records, read' = read
  PROVE  RecordsInv'
BY DEF RecordsInv, RecordsOwnSource, RecordsAreFile, Events

LEMMA RowsFrame ==
  ASSUME RowsInv, UNCHANGED modelVars, stale' = stale
  PROVE  RowsInv'
BY DEF RowsInv, Current, modelVars

LEMMA UiFrame ==
  ASSUME UiInv, ui' = ui, keys' = keys
  PROVE  UiInv'
BY DEF UiInv, Below

-----------------------------------------------------------------------------
(* Rows, and files that are loaded *)

\* No more rows than records.
LEMMA RowsAtMost ==
  ASSUME NEW recs \in Seq(Rec), NEW s, GoodRows(recs, s)
  PROVE  Len(s) \in 0..Len(recs)
<1>1. /\ s \in Seq(Nat) /\ Len(s) \in Nat /\ DOMAIN s = 1..Len(s)
      /\ DOMAIN recs = 1..Len(recs) /\ Len(recs) \in Nat
  BY DEF GoodRows
<1>2. ASSUME Len(recs) < Len(s)
      PROVE  FALSE
  <2> DEFINE f == [i \in 1..Len(s) |-> s[i]]
  <2>1. f \in [1..Len(s) -> 1..Len(recs)] /\ \A i \in 1..Len(s) : f[i] = s[i]
    BY <1>1 DEF GoodRows
  <2> HIDE DEF f
  <2>2. /\ FS!IsFiniteSet(1..Len(s)) /\ FS!Cardinality(1..Len(s)) = Len(s)
        /\ FS!IsFiniteSet(1..Len(recs)) /\ FS!Cardinality(1..Len(recs)) = Len(recs)
    BY <1>1, CardInterval, SameFinite
  <2>3. \E x, y \in 1..Len(s) : x # y /\ f[x] = f[y]
    <3> DEFINE X == 1..Len(s)
               Y == 1..Len(recs)
    <3>1. /\ FS!IsFiniteSet(X) /\ FS!IsFiniteSet(Y) /\ FS!Cardinality(Y) < FS!Cardinality(X)
          /\ f \in [X -> Y]
      BY <1>2, <2>1, <2>2
    <3> HIDE DEF X, Y
    <3>2. \E x, y \in X : x # y /\ f[x] = f[y]
      BY <3>1, FS!FS_PigeonHole
    <3> QED BY <3>2 DEF X
  <2> QED BY <2>1, <2>3, <1>1 DEF GoodRows
<1> QED BY <1>1, <1>2

\* What is loaded is added to the records, in the order of the file.
LEMMA LoadIs ==
  ASSUME NEW E \in Seq(Rec), NEW r, r.events = E,
         NEW es \in Seq(FileEntry), WrittenByApplications(es), NEW partial \in BOOLEAN
  PROVE  LET L == load(r, es, partial)
             R == readAll([NewReader EXCEPT !.events = E], es)
         IN  /\ Extends(L.events, E, Len(es))
             /\ \E m \in 0..Len(es) : /\ L.status # "error" => m = Len(es)
                                      /\ R.status = "reading" => m = Len(es)
                                      /\ EventsOf(L.events, Len(E), es, m)
             /\ L.status = "error" <=> partial \/ R.status # "reading"
<1> DEFINE L == load(r, es, partial)
           R == readAll([NewReader EXCEPT !.events = E], es)
<1>1. Upto(R, E, es, Len(es))
  BY ReadsFile
<1>2. L = IF partial THEN [R EXCEPT !.status = "error"] ELSE R
  BY DEF load, readerFor
<1> HIDE DEF R, L
<1>3. /\ R = [sources |-> R.sources, writer |-> R.writer, clock |-> NoClock,
              events |-> R.events, status |-> R.status]
      /\ R.status \in {"reading", "error"}
  BY <1>1 DEF Upto, Reader
<1>4. L.events = R.events /\ L.status = IF partial THEN "error" ELSE R.status
  <2>1. CASE partial
    <3>1. L = [R EXCEPT !.status = "error"]
      BY <2>1, <1>2
    <3>2. L = [sources |-> R.sources, writer |-> R.writer, clock |-> NoClock,
               events |-> R.events, status |-> "error"]
      BY <3>1, <1>3
    <3> QED BY <2>1, <3>2
  <2>2. CASE ~partial
    BY <2>2, <1>2
  <2> QED BY <2>1, <2>2
<1>5. PICK m \in 0..Len(es) : (R.status = "reading" => m = Len(es)) /\ EventsOf(R.events, Len(E), es, m)
  BY <1>1 DEF Upto
<1>6. Extends(R.events, E, Len(es))
  BY <1>1 DEF Upto
<1>7. L.status = "error" <=> partial \/ R.status # "reading"
  BY <1>3, <1>4
<1>8. L.status # "error" => m = Len(es)
  BY <1>3, <1>5, <1>7
<1> QED BY <1>4, <1>5, <1>6, <1>7, <1>8 DEF L, R

LEMMA LoadedIs ==
  ASSUME NEW E \in Seq(Rec)
  PROVE  /\ Loaded(E).events = E
         /\ [NewReader EXCEPT !.events = <<>>] = NewReader
BY DEF Loaded, NewReader

-----------------------------------------------------------------------------
(* The application *)

LEMMA InitInv == Init => Inv
<1> SUFFICES ASSUME Init PROVE Inv
  OBVIOUS
<1> USE DEF Init
<1>0. NoName \in Nat /\ Severities \in Nat \ {0} /\ PageSize \in Nat /\ MaxKeys \in Nat
      /\ MaxEntries \in Nat /\ MaxOther \in Nat
  BY ViewerAssumption DEF NoName
<1>1. Types
  <2>1. file \in Seq(FileEntry) /\ records \in Seq(Rec)
    OBVIOUS
  <2>2. filter \in [min : 0..(Severities - 1), writer : {NoName, 1}]
    <3>1. 0 \in 0..(Severities - 1)
      BY <1>0
    <3> QED BY <3>1 DEF NoFilter
  <2>3. app \in [sources : Seq(Nat), writer : Nat, restarts : Nat]
    BY <1>0
  <2>5. /\ half \in FileEntry \union {NoEntry} /\ keys \in 0..MaxKeys
        /\ status \in {"starting", "running", "quit", "terminated", "undefined"}
        /\ sort \in SortOrders /\ stale \in BOOLEAN
    <3>1. half \in FileEntry \union {NoEntry}
      OBVIOUS
    <3>2. keys \in 0..MaxKeys
      BY <1>0
    <3>3. status \in {"starting", "running", "quit", "terminated", "undefined"}
      OBVIOUS
    <3>4. sort \in SortOrders
      BY DEF SortOrders
    <3>5. stale \in BOOLEAN
      BY Zenon
    <3> QED BY <3>1, <3>2, <3>3, <3>4, <3>5
  <2>4. /\ ui \in [pc : {"ready", "joining", "quitting"}, selected : Nat, scroll : Nat, typing : BOOLEAN]
        /\ tail \in [pc : {"off", "open", "loop", "sleep", "load", "left"}, running : BOOLEAN,
                     pos : Nat, eof : BOOLEAN]
    <3>1. ui = [pc |-> "ready", selected |-> 0, scroll |-> 0, typing |-> FALSE]
      OBVIOUS
    <3>2. tail = [pc |-> "off", running |-> FALSE, pos |-> 0, eof |-> FALSE]
      OBVIOUS
    <3> HIDE DEF Init
    <3>3. ui \in [pc : {"ready", "joining", "quitting"}, selected : Nat, scroll : Nat, typing : BOOLEAN]
      BY <3>1
    <3>4. tail \in [pc : {"off", "open", "loop", "sleep", "load", "left"}, running : BOOLEAN,
                   pos : Nat, eof : BOOLEAN]
      BY <3>2
    <3> QED BY <3>3, <3>4
  <2> HIDE DEF Init
  <2> QED BY <2>1, <2>2, <2>3, <2>4, <2>5 DEF Types
<1>2. FileInv
  <2>1. Events = {} /\ DOMAIN app.sources = {}
    BY DEF Events
  <2> QED BY <2>1, <1>0 DEF FileInv, WrittenByApplications, Increasing
<1>3. ReadInv
  BY ReadNothing DEF ReadInv, NewReader
<1>4. TailInv
  BY <1>0 DEF TailInv, FileEnd
<1>5. StartInv
  BY DEF StartInv
<1>6. RecordsInv
  BY DEF RecordsInv, RecordsOwnSource, RecordsAreFile, Events
<1>7. RowsInv
  <2>1. GoodRows(records, shown) /\ SortedBy(sort, records, shown)
    BY DEF GoodRows, SortedBy
  <2>2. ToSet(shown) = {}
    BY DEF ToSet
  <2> QED BY <2>1, <2>2 DEF RowsInv, Current
<1>8. UiInv
  BY <1>0 DEF UiInv, Below
<1> QED BY <1>1, <1>2, <1>3, <1>4, <1>5, <1>6, <1>7, <1>8 DEF Inv

\* What the application writes next is an entry.
LEMMA NextEntryTypes ==
  ASSUME Types, NEW e \in NextEntries
  PROVE  /\ e \in FileEntry /\ e # NoEntry
         /\ \/ /\ e.kind = "source" /\ e.id = Len(app.sources) + 1 /\ e.src \in Nat
            \/ /\ e.kind = "writer" /\ e.name = 1
            \/ /\ e.kind = "event" /\ e.id \in DOMAIN app.sources /\ e.num \in Number
               /\ app.writer # NoName
               /\ e.num.num = Cardinality(Events) + 1
               /\ e.num.src = app.sources[e.id] /\ e.num.writer = app.writer
<1>0. /\ app.sources \in Seq(Nat) /\ app.restarts \in Nat /\ app.writer \in Nat
      /\ Severities \in Nat \ {0} /\ Len(app.sources) \in Nat
      /\ DOMAIN app.sources = 1..Len(app.sources)
  BY ViewerAssumption DEF Types
<1>1. CASE e = SourceEntry(Len(app.sources) + 1, (Len(app.sources) + app.restarts) % Severities)
  <2>1. (Len(app.sources) + app.restarts) % Severities \in Nat
    BY <1>0
  <2>2. e.kind = "source" /\ e.id = Len(app.sources) + 1 /\ e.src \in Nat
    BY <1>1, <2>1 DEF SourceEntry
  <2>3. e \in FileEntry
    <3> DEFINE v == (Len(app.sources) + app.restarts) % Severities
    <3>1. v \in Nat /\ Len(app.sources) + 1 \in Nat /\ e = SourceEntry(Len(app.sources) + 1, v)
      BY <1>0, <1>1, <2>1
    <3> HIDE DEF v
    <3> QED BY <3>1 DEF SourceEntry, FileEntry
  <2>4. e # NoEntry
    BY <2>2 DEF NoEntry, EmptyEntry
  <2> QED BY <2>2, <2>3, <2>4
<1>2. CASE e = WriterEntry(1)
  <2>1. e.kind = "writer" /\ e.name = 1 /\ e \in FileEntry
    BY <1>2 DEF WriterEntry, FileEntry
  <2>2. e # NoEntry
    BY <2>1 DEF NoEntry, EmptyEntry
  <2> QED BY <2>1, <2>2
<1>3. ASSUME app.writer # NoName, NEW id \in DOMAIN app.sources,
             e = EventEntry(id, [num |-> Cardinality(Events) + 1, time |-> Cardinality(Events) % 2,
                                 src |-> app.sources[id], writer |-> app.writer])
      PROVE  /\ e \in FileEntry /\ e # NoEntry
             /\ e.kind = "event" /\ e.id \in DOMAIN app.sources /\ e.num \in Number
             /\ e.num.num = Cardinality(Events) + 1
             /\ e.num.src = app.sources[e.id] /\ e.num.writer = app.writer
  <2>1. Cardinality(Events) \in Nat
    <3>1. file \in Seq(FileEntry)
      BY DEF Types
    <3>2. Events \in SUBSET (1..Len(file)) /\ Len(file) \in Nat
      BY <3>1 DEF Events
    <3>3. FS!IsFiniteSet(1..Len(file))
      BY <3>2, CardInterval, SameFinite
    <3>4. FS!IsFiniteSet(Events)
      BY <3>2, <3>3, FS!FS_Subset
    <3>5. FS!Cardinality(Events) \in Nat
      BY <3>4, FS!FS_CardinalityType
    <3> QED BY <3>5, SameFinite
  <2> DEFINE c == Cardinality(Events)
             x == [num |-> c + 1, time |-> c % 2, src |-> app.sources[id], writer |-> app.writer]
  <2>2. c + 1 \in Nat /\ c % 2 \in Nat /\ app.sources[id] \in Nat
    BY <2>1, <1>0
  <2>3. x \in Number /\ x.num = c + 1 /\ x.src = app.sources[id] /\ x.writer = app.writer
    BY <2>2, <1>0 DEF Number
  <2>4. e = EventEntry(id, x)
    BY <1>3
  <2>5. id \in Nat
    BY <1>0
  <2> HIDE DEF x, c
  <2>6. e.kind = "event" /\ e.id = id /\ e.num = x
    BY <2>4 DEF EventEntry
  <2>7. e \in FileEntry
    BY <2>3, <2>4, <2>5 DEF EventEntry, FileEntry
  <2>8. e # NoEntry
    BY <2>6 DEF NoEntry, EmptyEntry
  <2> QED BY <2>3, <2>6, <2>7, <2>8 DEF c
<1> QED BY <1>1, <1>2, <1>3 DEF NextEntries

LEMMA WriteHalfKeeps ==
  ASSUME Inv, WriteHalf
  PROVE  Inv'
<1> USE DEF WriteHalf, modelVars
<1>0. /\ half' \in NextEntries /\ half = NoEntry /\ file' = file /\ app' = app
      /\ half' \in FileEntry /\ half' # NoEntry
  BY NextEntryTypes DEF Inv
<1>1. Types'
  BY <1>0 DEF Inv, Types
<1>2. Events' = Events /\ NextEntries' = NextEntries
  BY DEF Events, NextEntries
<1>3. FileInv'
  BY <1>0, <1>2 DEF Inv, FileInv
<1>4. ReadInv'
  BY DEF Inv, ReadInv
<1>5. TailInv'
  <2>1. FileEnd \in Nat /\ FileEnd' \in Nat /\ FileEnd <= FileEnd' /\ tail.pos \in Nat
    BY <1>0 DEF FileEnd, Inv, Types
  <2> QED BY <2>1 DEF Inv, TailInv
<1>6. StartInv'
  BY DEF Inv, StartInv
<1>7. RecordsInv' /\ RowsInv' /\ UiInv'
  BY RecordsFrame, RowsFrame, UiFrame DEF Inv
<1> QED BY <1>1, <1>3, <1>4, <1>5, <1>6, <1>7 DEF Inv

LEMMA RestartKeeps ==
  ASSUME Inv, Restart
  PROVE  Inv'
<1> USE DEF Restart, modelVars
<1>1. Types'
  BY DEF Inv, Types, NoName
<1>2. FileInv'
  <2>1. Events' = Events /\ DOMAIN app'.sources = {} /\ app'.writer = NoName /\ half' = NoEntry
    BY DEF Events
  <2> QED BY <2>1 DEF Inv, FileInv
<1>3. ReadInv'
  <2>1. DOMAIN app'.sources = {} /\ file' = file
    OBVIOUS
  <2> QED BY <2>1 DEF Inv, ReadInv
<1>4. TailInv'
  BY DEF Inv, TailInv, FileEnd
<1>5. StartInv'
  BY DEF Inv, StartInv
<1>6. RecordsInv' /\ RowsInv' /\ UiInv'
  BY RecordsFrame, RowsFrame, UiFrame DEF Inv
<1> QED BY <1>1, <1>2, <1>3, <1>4, <1>5, <1>6 DEF Inv

\* The last entry of a source stays the last when something else is written.
LEMMA StillLast ==
  ASSUME file \in Seq(FileEntry), half \in FileEntry, file' = Append(file, half)
  PROVE  LET n == Len(file)
         IN  /\ file' \in Seq(FileEntry) /\ Len(file') = n + 1 /\ DOMAIN file' = 1..(n + 1)
             /\ file'[n + 1] = half /\ \A i \in 1..n : file'[i] = file[i]
             /\ \A j \in 1..n : \A id :
                  LastSource(file, j, id, n) /\ ~IsSource(half, id) => LastSource(file', j, id, n + 1)
             /\ \A j \in 1..n :
                  LastWriter(file, j, n) /\ ~IsWriter(half) => LastWriter(file', j, n + 1)
             /\ \A id : IsSource(half, id) => LastSource(file', n + 1, id, n + 1)
             /\ IsWriter(half) => LastWriter(file', n + 1, n + 1)
<1> DEFINE n == Len(file)
           t == file'
<1>1. /\ n \in Nat /\ t \in Seq(FileEntry) /\ Len(t) = n + 1 /\ DOMAIN t = 1..(n + 1)
      /\ t[n + 1] = half /\ \A i \in 1..n : t[i] = file[i]
  OBVIOUS
<1> HIDE DEF n
<1>2. ASSUME NEW j \in 1..n
      PROVE  \A i \in (j + 1)..(n + 1) : i = n + 1 \/ (i \in (j + 1)..n /\ t[i] = file[i])
  BY <1>1
<1>3. ASSUME NEW j \in 1..n, NEW id, LastSource(file, j, id, n), ~IsSource(half, id)
      PROVE  LastSource(t, j, id, n + 1)
  <2>1. \A i \in (j + 1)..(n + 1) : ~IsSource(t[i], id)
    BY <1>1, <1>2, <1>3 DEF LastSource
  <2> QED BY <2>1, <1>1, <1>3 DEF LastSource
<1>4. ASSUME NEW j \in 1..n, LastWriter(file, j, n), ~IsWriter(half)
      PROVE  LastWriter(t, j, n + 1)
  <2>1. \A i \in (j + 1)..(n + 1) : ~IsWriter(t[i])
    BY <1>1, <1>2, <1>4 DEF LastWriter
  <2> QED BY <2>1, <1>1, <1>4 DEF LastWriter
<1>5. (n + 1 + 1)..(n + 1) = {}
  BY <1>1
<1>6. /\ \A id : IsSource(half, id) => LastSource(t, n + 1, id, n + 1)
      /\ IsWriter(half) => LastWriter(t, n + 1, n + 1)
  BY <1>1, <1>5 DEF LastSource, LastWriter
<1> QED BY <1>1, <1>3, <1>4, <1>6 DEF n

LEMMA EventsFinite ==
  ASSUME Types
  PROVE  /\ FS!IsFiniteSet(Events) /\ Cardinality(Events) \in Nat
         /\ Events \subseteq 1..Len(file) /\ Len(file) \in Nat
<1>1. file \in Seq(FileEntry)
  BY DEF Types
<1>2. Events \in SUBSET (1..Len(file)) /\ Len(file) \in Nat
  BY <1>1 DEF Events
<1>3. FS!IsFiniteSet(1..Len(file))
  BY <1>2, CardInterval, SameFinite
<1>4. FS!IsFiniteSet(Events)
  BY <1>2, <1>3, FS!FS_Subset
<1>5. FS!Cardinality(Events) \in Nat
  BY <1>4, FS!FS_CardinalityType
<1> QED BY <1>2, <1>4, <1>5, SameFinite

\* The position of the last source entry with an id, and of the last writer, is unique.
LEMMA LastIsUnique ==
  ASSUME NEW es, NEW n \in Nat, NEW i \in 1..n, NEW j \in 1..n
  PROVE  /\ \A id : LastSource(es, i, id, n) /\ LastSource(es, j, id, n) => i = j
         /\ LastWriter(es, i, n) /\ LastWriter(es, j, n) => i = j
<1>1. CASE i < j
  BY <1>1 DEF LastSource, LastWriter
<1>2. CASE j < i
  BY <1>2 DEF LastSource, LastWriter
<1> QED BY <1>1, <1>2

\* The entries of an event's own source and writer are the last ones before it.
LEMMA WrittenOneMore ==
  ASSUME NEW es \in Seq(FileEntry), WrittenByApplications(es), NEW e \in FileEntry,
         IsEvent(e) =>
           /\ \E j \in 1..Len(es) : LastSource(es, j, e.id, Len(es)) /\ es[j].src = e.num.src
           /\ \E j \in 1..Len(es) : LastWriter(es, j, Len(es)) /\ es[j].name = e.num.writer
  PROVE  WrittenByApplications(Append(es, e))
<1> DEFINE t == Append(es, e)
           n == Len(es)
<1>1. /\ n \in Nat /\ DOMAIN t = 1..(n + 1) /\ t[n + 1] = e /\ \A i \in 1..n : t[i] = es[i]
      /\ DOMAIN es = 1..n
  OBVIOUS
<1> HIDE DEF t
<1> SUFFICES ASSUME NEW k \in 1..(n + 1), IsEvent(t[k]), NEW j \in 1..(k - 1)
             PROVE  /\ /\ IsSource(t[j], t[k].id)
                       /\ \A i \in (j + 1)..(k - 1) : ~IsSource(t[i], t[k].id)
                       => t[j].src = t[k].num.src
                    /\ IsWriter(t[j]) /\ (\A i \in (j + 1)..(k - 1) : ~IsWriter(t[i]))
                       => t[j].name = t[k].num.writer
  BY <1>1 DEF WrittenByApplications, t
<1>2. j \in 1..n /\ t[j] = es[j] /\ \A i \in (j + 1)..(k - 1) : t[i] = es[i]
  BY <1>1
<1>3. CASE k = n + 1
  <2>1. t[k] = e /\ k - 1 = n /\ IsEvent(e)
    BY <1>1, <1>3
  <2>2. PICK a \in 1..n : LastSource(es, a, e.id, n) /\ es[a].src = e.num.src
    BY <2>1
  <2>3. PICK b \in 1..n : LastWriter(es, b, n) /\ es[b].name = e.num.writer
    BY <2>1
  <2>4. IsSource(t[j], e.id) /\ (\A i \in (j + 1)..n : ~IsSource(t[i], e.id)) => j = a
    BY <1>1, <1>2, <2>1, <2>2, LastIsUnique DEF LastSource
  <2>5. IsWriter(t[j]) /\ (\A i \in (j + 1)..n : ~IsWriter(t[i])) => j = b
    BY <1>1, <1>2, <2>1, <2>3, LastIsUnique DEF LastWriter
  <2> QED BY <1>2, <2>1, <2>2, <2>3, <2>4, <2>5
<1>4. CASE k # n + 1
  <2>1. k \in 1..n /\ t[k] = es[k] /\ IsEvent(es[k])
    BY <1>1, <1>4
  <2>2. /\ /\ IsSource(es[j], es[k].id)
           /\ \A i \in (j + 1)..(k - 1) : ~IsSource(es[i], es[k].id)
           => es[j].src = es[k].num.src
        /\ IsWriter(es[j]) /\ (\A i \in (j + 1)..(k - 1) : ~IsWriter(es[i]))
           => es[j].name = es[k].num.writer
    BY <1>1, <2>1 DEF WrittenByApplications
  <2> QED BY <1>2, <2>1, <2>2
<1> QED BY <1>3, <1>4

\* The number of events with one entry more.
LEMMA EventsOneMore ==
  ASSUME Types, FileInv, half \in FileEntry, file' = Append(file, half)
  PROVE  /\ Events' = IF IsEvent(half) THEN Events \union {Len(file) + 1} ELSE Events
         /\ Cardinality(Events') = Cardinality(Events) + IF IsEvent(half) THEN 1 ELSE 0
<1>1. /\ file \in Seq(FileEntry) /\ Len(file) \in Nat /\ DOMAIN file = 1..Len(file)
      /\ DOMAIN file' = 1..(Len(file) + 1) /\ file'[Len(file) + 1] = half
      /\ \A i \in 1..Len(file) : file'[i] = file[i]
  BY DEF Types
<1>2. Events' = IF IsEvent(half) THEN Events \union {Len(file) + 1} ELSE Events
  <2>1. Events' = {k \in 1..(Len(file) + 1) : IsEvent(file'[k])}
    BY <1>1 DEF Events
  <2>2. Events = {k \in 1..Len(file) : IsEvent(file[k])}
    BY <1>1 DEF Events
  <2> QED BY <1>1, <2>1, <2>2
<1>3. Cardinality(Events') = Cardinality(Events) + IF IsEvent(half) THEN 1 ELSE 0
  <2>1. FS!IsFiniteSet(Events) /\ Len(file) + 1 \notin Events /\ Cardinality(Events) \in Nat
    BY <1>1, EventsFinite
  <2>2. FS!Cardinality(Events \union {Len(file) + 1}) = FS!Cardinality(Events) + 1
    BY <2>1, FS!FS_AddElement
  <2>3. Cardinality(Events \union {Len(file) + 1}) = Cardinality(Events) + 1
    BY <2>2, SameFinite
  <2> QED BY <1>2, <2>1, <2>3
<1> QED BY <1>2, <1>3

LEMMA WriteRestFile ==
  ASSUME Inv, WriteRest
  PROVE  Types' /\ FileInv'
<1> DEFINE e == half
           n == Len(file)
<1>0. /\ e \in NextEntries /\ n < MaxEntries /\ file' = Append(file, e) /\ half' = NoEntry
      /\ Types /\ FileInv
      /\ app' = CASE half.kind = "source" -> [app EXCEPT !.sources = Append(@, half.src)]
                  [] half.kind = "writer" -> [app EXCEPT !.writer = half.name]
                  [] half.kind = "event"  -> app
  BY DEF WriteRest, Inv, FileInv
<1>1. /\ e \in FileEntry /\ e # NoEntry
      /\ \/ /\ e.kind = "source" /\ e.id = Len(app.sources) + 1 /\ e.src \in Nat
         \/ /\ e.kind = "writer" /\ e.name = 1
         \/ /\ e.kind = "event" /\ e.id \in DOMAIN app.sources /\ e.num \in Number
            /\ app.writer # NoName
            /\ e.num.num = Cardinality(Events) + 1
            /\ e.num.src = app.sources[e.id] /\ e.num.writer = app.writer
  BY <1>0, NextEntryTypes
<1>2. /\ file \in Seq(FileEntry) /\ n \in Nat /\ DOMAIN file = 1..n
      /\ app \in [sources : Seq(Nat), writer : Nat, restarts : Nat]
      /\ app.sources \in Seq(Nat) /\ app.writer \in Nat
  BY <1>0 DEF Types
<1>3. /\ file' \in Seq(FileEntry) /\ Len(file') = n + 1 /\ DOMAIN file' = 1..(n + 1)
      /\ file'[n + 1] = e /\ \A i \in 1..n : file'[i] = file[i]
      /\ \A j \in 1..n : \A id :
           LastSource(file, j, id, n) /\ ~IsSource(e, id) => LastSource(file', j, id, n + 1)
      /\ \A j \in 1..n :
           LastWriter(file, j, n) /\ ~IsWriter(e) => LastWriter(file', j, n + 1)
      /\ \A id : IsSource(e, id) => LastSource(file', n + 1, id, n + 1)
      /\ IsWriter(e) => LastWriter(file', n + 1, n + 1)
  BY <1>0, <1>1, <1>2, StillLast
\* The application's sources and its writer.
<1>4. /\ app' \in [sources : Seq(Nat), writer : Nat, restarts : Nat]
      /\ e.kind = "source" => app'.sources = Append(app.sources, e.src) /\ app'.writer = app.writer
      /\ e.kind = "writer" => app'.sources = app.sources /\ app'.writer = e.name
      /\ e.kind = "event" => app' = app
  <2>1. CASE e.kind = "source"
    <3>1. app' = [app EXCEPT !.sources = Append(@, e.src)] /\ e.src \in Nat
      BY <1>0, <1>1, <2>1
    <3>2. Append(app.sources, e.src) \in Seq(Nat)
      BY <1>2, <3>1
    <3> QED BY <1>2, <2>1, <3>1, <3>2
  <2>2. CASE e.kind = "writer"
    <3>1. app' = [app EXCEPT !.writer = e.name] /\ e.name \in Nat
      BY <1>0, <1>1, <2>2
    <3> QED BY <1>2, <2>2, <3>1
  <2>3. CASE e.kind = "event"
    BY <1>0, <1>2, <2>3
  <2> QED BY <1>1, <2>1, <2>2, <2>3
<1>5. Types'
  BY <1>0, <1>3, <1>4 DEF Types, WriteRest, modelVars
<1>6. /\ Events' = IF IsEvent(e) THEN Events \union {n + 1} ELSE Events
      /\ Cardinality(Events') = Cardinality(Events) + IF IsEvent(e) THEN 1 ELSE 0
      /\ Cardinality(Events) \in Nat /\ Events \subseteq 1..n
  BY <1>0, <1>1, EventsOneMore, EventsFinite
<1>7. /\ WrittenByApplications(file) /\ Increasing(file)
      /\ \A k \in Events : file[k].num.num \in 1..Cardinality(Events)
      /\ \A id \in DOMAIN app.sources :
           \E j \in 1..n : LastSource(file, j, id, n) /\ file[j].src = app.sources[id]
      /\ app.writer # NoName =>
           \E j \in 1..n : LastWriter(file, j, n) /\ file[j].name = app.writer
  BY <1>0, <1>2 DEF FileInv
<1> HIDE DEF e, n
<1>8. WrittenByApplications(file')
  <2>1. ASSUME IsEvent(e)
        PROVE  /\ \E j \in 1..n : LastSource(file, j, e.id, n) /\ file[j].src = e.num.src
               /\ \E j \in 1..n : LastWriter(file, j, n) /\ file[j].name = e.num.writer
    BY <1>1, <1>7, <2>1 DEF IsEvent
  <2> QED BY <1>0, <1>1, <1>2, <1>7, <2>1, WrittenOneMore DEF n
<1>9. /\ Increasing(file')
      /\ \A k \in Events' : file'[k].num.num \in 1..Cardinality(Events')
  <2>1. ASSUME NEW k \in 1..n, IsEvent(file[k])
        PROVE  file[k].num.num \in 1..Cardinality(Events)
    <3>1. k \in Events
      BY <2>1, <1>2 DEF Events
    <3> QED BY <3>1, <1>7
  <2>2. ASSUME NEW i \in 1..(n + 1), NEW j \in 1..(n + 1), i < j, IsEvent(file'[i]), IsEvent(file'[j])
        PROVE  file'[i].num.num < file'[j].num.num
    <3>1. i \in 1..n /\ file'[i] = file[i] /\ i \in DOMAIN file /\ IsEvent(file[i])
      BY <2>2, <1>2, <1>3
    <3>2. CASE j = n + 1
      <4>1. e.kind = "event" /\ file'[j] = e
        BY <2>2, <3>2, <1>3 DEF IsEvent
      <4>2. file'[j].num.num = Cardinality(Events) + 1
        BY <4>1, <1>1
      <4>3. file'[i].num.num \in 1..Cardinality(Events)
        BY <2>1, <3>1
      <4> QED BY <4>2, <4>3, <1>6
    <3>3. CASE j # n + 1
      <4>1. j \in 1..n /\ file'[j] = file[j] /\ j \in DOMAIN file
        BY <3>3, <1>2, <1>3
      <4>2. IsEvent(file[i]) /\ IsEvent(file[j])
        BY <2>2, <3>1, <4>1
      <4>3. file[i].num.num < file[j].num.num
        BY <2>2, <3>1, <4>1, <4>2, <1>7 DEF Increasing
      <4> QED BY <3>1, <4>1, <4>3
    <3> QED BY <3>2, <3>3
  <2>3. ASSUME NEW k \in Events'
        PROVE  file'[k].num.num \in 1..Cardinality(Events')
    <3>1. CASE k \in Events
      BY <3>1, <1>2, <1>3, <1>6, <1>7
    <3>2. CASE k \notin Events
      <4>1. k = n + 1 /\ IsEvent(e)
        BY <3>2, <2>3, <1>6
      <4>2. e.kind = "event" /\ file'[k] = e
        BY <4>1, <1>3 DEF IsEvent
      <4> QED BY <4>1, <4>2, <1>1, <1>6
    <3> QED BY <3>1, <3>2
  <2> QED BY <1>3, <2>2, <2>3 DEF Increasing
<1>10. ASSUME NEW id \in DOMAIN app'.sources
       PROVE  \E j \in 1..(n + 1) : LastSource(file', j, id, n + 1) /\ file'[j].src = app'.sources[id]
  <2>1. CASE e.kind = "source" /\ id = Len(app.sources) + 1
    <3>1. IsSource(e, id) /\ file'[n + 1].src = e.src /\ n + 1 \in 1..(n + 1)
      BY <2>1, <1>1, <1>2, <1>3 DEF IsSource
    <3>2. app'.sources[id] = e.src
      BY <2>1, <1>1, <1>2, <1>4
    <3> QED BY <3>1, <3>2, <1>3
  <2>2. CASE ~(e.kind = "source" /\ id = Len(app.sources) + 1)
    <3>1. id \in DOMAIN app.sources /\ app'.sources[id] = app.sources[id] /\ ~IsSource(e, id)
      <4>1. CASE e.kind = "source"
        <5>1. app'.sources = Append(app.sources, e.src) /\ id # Len(app.sources) + 1
          BY <4>1, <2>2, <1>4
        <5>2. id \in DOMAIN app.sources /\ app'.sources[id] = app.sources[id]
          BY <5>1, <1>2
        <5> QED BY <5>1, <5>2, <4>1, <1>1 DEF IsSource
      <4>2. CASE e.kind # "source"
        BY <4>2, <1>1, <1>4 DEF IsSource
      <4> QED BY <4>1, <4>2
    <3>2. PICK j \in 1..n : LastSource(file, j, id, n) /\ file[j].src = app.sources[id]
      BY <3>1, <1>7
    <3>3. LastSource(file', j, id, n + 1) /\ file'[j].src = app'.sources[id] /\ j \in 1..(n + 1)
      BY <3>1, <3>2, <1>2, <1>3
    <3> QED BY <3>3
  <2> QED BY <2>1, <2>2
<1>11. ASSUME app'.writer # NoName
       PROVE  \E j \in 1..(n + 1) : LastWriter(file', j, n + 1) /\ file'[j].name = app'.writer
  <2>1. CASE e.kind = "writer"
    <3>1. IsWriter(e) /\ file'[n + 1].name = app'.writer /\ n + 1 \in 1..(n + 1)
      BY <2>1, <1>2, <1>3, <1>4 DEF IsWriter
    <3> QED BY <3>1, <1>3
  <2>2. CASE e.kind # "writer"
    <3>1. ~IsWriter(e) /\ app'.writer = app.writer
      BY <2>2, <1>1, <1>4 DEF IsWriter
    <3>2. PICK j \in 1..n : LastWriter(file, j, n) /\ file[j].name = app.writer
      BY <3>1, <1>7, <1>11
    <3>3. LastWriter(file', j, n + 1) /\ file'[j].name = app'.writer /\ j \in 1..(n + 1)
      BY <3>1, <3>2, <1>2, <1>3
    <3> QED BY <3>3
  <2> QED BY <2>1, <2>2
<1>12. Len(file') <= MaxEntries
  BY <1>0, <1>2, <1>3, ViewerAssumption DEF n
<1>13. FileInv'
  BY <1>0, <1>3, <1>8, <1>9, <1>10, <1>11, <1>12 DEF FileInv
<1> QED BY <1>5, <1>13

LEMMA WriteRestRead ==
  ASSUME Inv, WriteRest
  PROVE  ReadInv'
<1> DEFINE e == half
           R == readAll(NewReader, file)
           Q == readAll(NewReader, file')
<1>0. /\ e \in NextEntries /\ file' = Append(file, e) /\ Types /\ FileInv /\ ReadInv
      /\ app' = CASE half.kind = "source" -> [app EXCEPT !.sources = Append(@, half.src)]
                  [] half.kind = "writer" -> [app EXCEPT !.writer = half.name]
                  [] half.kind = "event"  -> app
  BY DEF WriteRest, Inv, FileInv
<1>1. /\ e \in FileEntry
      /\ \/ e.kind = "source" /\ e.id = Len(app.sources) + 1 /\ e.src \in Nat
         \/ e.kind = "writer" /\ e.name = 1
         \/ e.kind = "event" /\ e.id \in DOMAIN app.sources
  BY <1>0, NextEntryTypes
<1>2. file \in Seq(FileEntry) /\ app.sources \in Seq(Nat)
      /\ app \in [sources : Seq(Nat), writer : Nat, restarts : Nat]
  BY <1>0 DEF Types
<1>3. Q = readEntry(R, e)
  BY <1>0, <1>1, <1>2, ReadOneMore
<1>4. R.status = "reading" /\ \A id \in DOMAIN app.sources : Lookup(R.sources, id) = Some(app.sources[id])
  BY <1>0 DEF ReadInv
<1>5. Fine(R)
  <2>1. WrittenByApplications(file) /\ <<>> \in Seq(Rec)
    BY <1>0 DEF FileInv
  <2>2. Upto(readAll([NewReader EXCEPT !.events = <<>>], file), <<>>, file, Len(file))
    BY <1>2, <2>1, ReadsFile
  <2>3. [NewReader EXCEPT !.events = <<>>] = NewReader
    BY DEF NewReader
  <2>4. Upto(R, <<>>, file, Len(file))
    BY <2>2, <2>3
  <2> HIDE DEF R
  <2>5. Reader(R)
    BY <2>4 DEF Upto
  <2> QED BY <2>5, <1>4 DEF Fine
<1> HIDE DEF e, R, Q
<1>6. CASE e.kind = "source"
  <2>1. Fine(Q) /\ \A k \in Nat : Lookup(Q.sources, k) = IF k = e.id THEN Some(e.src) ELSE Lookup(R.sources, k)
    BY <1>1, <1>3, <1>5, <1>6, ReadsSource
  <2>2. app'.sources = Append(app.sources, e.src)
    BY <1>0, <1>2, <1>6 DEF e
  <2>3. ASSUME NEW id \in DOMAIN app'.sources
        PROVE  Lookup(Q.sources, id) = Some(app'.sources[id])
    <3>1. id \in Nat
      BY <1>1, <1>2, <1>6, <2>2
    <3>2. CASE id = e.id
      BY <2>1, <2>2, <3>1, <3>2, <1>1, <1>2, <1>6
    <3>3. CASE id # e.id
      <4>1. id \in DOMAIN app.sources /\ app'.sources[id] = app.sources[id]
        BY <2>2, <3>3, <1>1, <1>2, <1>6
      <4> QED BY <4>1, <3>1, <3>3, <2>1, <1>4
    <3> QED BY <3>2, <3>3
  <2> QED BY <2>1, <2>3 DEF ReadInv, Q, Fine
<1>7. CASE e.kind = "writer"
  <2>1. Fine(Q) /\ Q.sources = R.sources
    BY <1>1, <1>3, <1>5, <1>7, ReadsWriter
  <2>2. app'.sources = app.sources
    BY <1>0, <1>2, <1>7 DEF e
  <2> QED BY <2>1, <2>2, <1>4 DEF ReadInv, Q, Fine
<1>8. CASE e.kind = "event"
  <2>1. /\ e.id \in DOMAIN app.sources /\ app.sources[e.id] \in Nat
        /\ Lookup(R.sources, e.id) = Some(app.sources[e.id])
    BY <1>1, <1>2, <1>4, <1>8
  <2>2. Fine(Q) /\ Q.sources = R.sources
    BY <2>1, <1>1, <1>3, <1>5, <1>8, ReadsEvent
  <2>3. app' = app
    BY <1>0, <1>8 DEF e
  <2> QED BY <2>2, <2>3, <1>4 DEF ReadInv, Q, Fine
<1> QED BY <1>1, <1>6, <1>7, <1>8

LEMMA WriteRestKeeps ==
  ASSUME Inv, WriteRest
  PROVE  Inv'
<1>0. /\ file' = Append(file, half) /\ half' = NoEntry /\ half # NoEntry
      /\ UNCHANGED <<status, modelVars, ui, keys, tail, read, stale>>
      /\ Types /\ half \in FileEntry
  BY DEF WriteRest, Inv, Types
<1>1. /\ file \in Seq(FileEntry) /\ Len(file) \in Nat /\ Len(file') = Len(file) + 1
      /\ DOMAIN file' = 1..(Len(file) + 1)
      /\ \A i \in 1..Len(file) : file'[i] = file[i]
      /\ tail.pos \in Nat
  BY <1>0 DEF Types
<1>2. TailInv /\ read \subseteq 1..Len(file)
  BY DEF Inv, TailInv
<1>3. TailInv'
  <2>1. FileEnd = 2 * Len(file) + 1 /\ FileEnd' = 2 * (Len(file) + 1)
    BY <1>0, <1>1 DEF FileEnd
  <2>2. tail.pos <= FileEnd'
    BY <2>1, <1>1, <1>2 DEF TailInv
  <2>3. read \subseteq 1..Len(file')
    BY <1>1, <1>2
  <2>4. Len(records) <= MaxOther + Len(file')
    <3>1. Len(records) \in Nat /\ MaxOther \in Nat /\ Len(records) <= MaxOther + Len(file)
      BY <1>0, <1>2, ViewerAssumption DEF Types, TailInv
    <3> QED BY <3>1, <1>1
  <2> QED BY <1>0, <1>2, <2>2, <2>3, <2>4 DEF TailInv, modelVars
<1>4. RecordsInv'
  <2>1. Events' \intersect read = Events \intersect read
    <3>1. ASSUME NEW k \in read
          PROVE  k \in Events' <=> k \in Events
      BY <1>1, <1>2, <3>1 DEF Events
    <3> QED BY <3>1
  <2>2. \A k \in Events \intersect read : file'[k] = file[k]
    BY <1>1, <1>2
  <2>3. {file'[k].num : k \in Events' \intersect read} = {file[k].num : k \in Events \intersect read}
    BY <2>1, <2>2
  <2> QED BY <2>3, <1>0 DEF Inv, RecordsInv, RecordsOwnSource, RecordsAreFile, modelVars
<1>5. StartInv'
  BY <1>0 DEF Inv, StartInv, modelVars
<1>6. RowsInv' /\ UiInv'
  BY <1>0, RowsFrame, UiFrame DEF Inv
<1> QED BY <1>3, <1>4, <1>5, <1>6, WriteRestFile, WriteRestRead DEF Inv

-----------------------------------------------------------------------------
(* The tail thread and the user interface *)

LEMMA Numbers ==
  /\ {MaxEntries, MaxOther, MaxKeys} \subseteq Nat /\ {PageSize, Rows, Severities, Word} \subseteq Nat \ {0}
  /\ MaxEntries + MaxOther + PageSize * MaxKeys + 1 < Word
BY ViewerAssumption

LEMMA RowsBound ==
  ASSUME Inv
  PROVE  Len(shown) \in 0..(MaxEntries + MaxOther) /\ Len(records) \in 0..(MaxEntries + MaxOther)
<1>1. Len(shown) \in 0..Len(records) /\ Len(records) \in Nat
  BY RowsAtMost DEF Inv, Types, RowsInv
<1>2. Len(records) <= MaxOther + Len(file) /\ Len(file) <= MaxEntries /\ Len(file) \in Nat
  BY DEF Inv, TailInv, FileInv, Types
<1> QED BY <1>1, <1>2, Numbers

\* A key moves the selection by a page at most.
LEMMA OneKeyMore ==
  ASSUME Types, NEW n \in Nat, Below(n), keys < MaxKeys, keys' = keys + 1
  PROVE  /\ keys' \in 0..MaxKeys
         /\ (n + PageSize <= MaxEntries + MaxOther + PageSize * keys')
         /\ MaxEntries + MaxOther <= MaxEntries + MaxOther + PageSize * keys'
<1>1. keys \in Nat /\ PageSize \in Nat /\ MaxEntries \in Nat /\ MaxOther \in Nat /\ MaxKeys \in Nat
  BY Numbers DEF Types
<1>2. PageSize * (keys + 1) = PageSize * keys + PageSize /\ PageSize * keys \in Nat
  BY <1>1
<1> DEFINE p == PageSize * keys
<1>3. p \in Nat /\ PageSize * keys' = p + PageSize /\ n <= MaxEntries + MaxOther + p
  BY <1>2 DEF Below
<1> HIDE DEF p
<1> QED BY <1>1, <1>3

LEMMA OpenKeeps ==
  ASSUME Inv, Open
  PROVE  Inv'
<1> USE DEF Open, modelVars, fileVars
<1>0. /\ tail \in [pc : {"off", "open", "loop", "sleep", "load", "left"}, running : BOOLEAN, pos : Nat, eof : BOOLEAN]
      /\ Len(file) \in Nat /\ read \subseteq 1..Len(file)
      /\ Len(records) <= MaxOther + Len(file) /\ status = "running"
  BY DEF Inv, Types, TailInv
<1>1. FileEnd \in Nat /\ FileEnd \div 2 = Len(file) /\ FileEnd' = FileEnd
  <2>1. FileEnd = 2 * Len(file) \/ FileEnd = 2 * Len(file) + 1
    BY <1>0 DEF FileEnd
  <2>2. (2 * Len(file)) \div 2 = Len(file) /\ (2 * Len(file) + 1) \div 2 = Len(file)
    BY <1>0
  <2>3. FileEnd' = FileEnd
    BY DEF FileEnd
  <2> QED BY <1>0, <2>1, <2>2, <2>3
<1>2. tail' = [pc |-> "loop", running |-> tail.running, pos |-> FileEnd, eof |-> FALSE]
  BY <1>0
<1>3. Types'
  <2>1. tail' \in [pc : {"off", "open", "loop", "sleep", "load", "left"}, running : BOOLEAN, pos : Nat, eof : BOOLEAN]
    BY <1>0, <1>1, <1>2
  <2> QED BY <2>1 DEF Inv, Types
<1>4. TailInv'
  BY <1>0, <1>1, <1>2 DEF TailInv
<1>5. StartInv'
  BY <1>0 DEF StartInv
<1>6. FileInv' /\ ReadInv' /\ RecordsInv' /\ RowsInv' /\ UiInv'
  BY FileFrame, RecordsFrame, RowsFrame, UiFrame DEF Inv
<1> QED BY <1>3, <1>4, <1>5, <1>6 DEF Inv

\* The thread goes on where it is in the file, or leaves and closes it.
LEMMA ThreadKeeps ==
  ASSUME Inv, Sleep \/ Poll \/ Leave
  PROVE  Inv'
<1> USE DEF Sleep, Poll, Leave, modelVars, fileVars
<1>0. /\ tail \in [pc : {"off", "open", "loop", "sleep", "load", "left"}, running : BOOLEAN, pos : Nat, eof : BOOLEAN]
      /\ tail.pc \in {"loop", "sleep"} /\ status = "running" /\ TailInv
      /\ UNCHANGED <<fileVars, status, modelVars, ui, keys, read, stale>>
  BY DEF Inv, Types
<1>1. /\ tail' \in [pc : {"off", "open", "loop", "sleep", "load", "left"}, running : BOOLEAN, pos : Nat, eof : BOOLEAN]
      /\ \/ tail'.pos = tail.pos /\ tail'.pc \in {"loop", "sleep", "load"}
         \/ tail'.pos = 0 /\ tail'.pc = "left" /\ ~tail'.running
  <2>1. CASE Poll
    <3>1. \E pc \in {"load", "loop"} :
            tail' = [pc |-> pc, running |-> tail.running, pos |-> tail.pos, eof |-> FALSE]
      BY <2>1, <1>0
    <3> QED BY <3>1, <1>0
  <2>2. CASE Leave
    <3>1. tail' = [pc |-> "left", running |-> tail.running, pos |-> 0, eof |-> FALSE]
          /\ ~tail.running
      BY <2>2, <1>0
    <3> QED BY <3>1, <1>0
  <2>3. CASE Sleep
    <3>1. tail' = [pc |-> "sleep", running |-> tail.running, pos |-> tail.pos, eof |-> tail.eof]
      BY <2>3, <1>0
    <3> QED BY <3>1, <1>0
  <2> QED BY <2>1, <2>2, <2>3
<1> HIDE DEF Sleep, Poll, Leave
<1>3. Types'
  BY <1>0, <1>1 DEF Inv, Types
<1>4. TailInv'
  <2>1. FileEnd' = FileEnd
    BY <1>0 DEF FileEnd
  <2>2. tail.pos \in Nat /\ FileEnd \in Nat /\ tail.pos <= FileEnd
    BY <1>0 DEF Inv, Types, FileEnd, TailInv
  <2>3. CASE tail'.pc = "left"
    BY <2>1, <2>2, <2>3, <1>0, <1>1 DEF TailInv
  <2>4. CASE tail'.pc # "left"
    BY <2>1, <2>2, <2>4, <1>0, <1>1 DEF TailInv
  <2> QED BY <2>3, <2>4
<1>5. StartInv'
  BY <1>0 DEF StartInv
<1>6. FileInv' /\ ReadInv' /\ RecordsInv' /\ RowsInv' /\ UiInv'
  BY <1>0, FileFrame, RecordsFrame, RowsFrame, UiFrame DEF Inv
<1> QED BY <1>3, <1>4, <1>5, <1>6 DEF Inv

LEMMA DataRaceKeeps ==
  ASSUME Inv, DataRace
  PROVE  Inv'
<1> USE DEF DataRace, modelVars, fileVars
<1>1. Types'
  BY DEF Inv, Types
<1>2. StartInv'
  BY DEF StartInv
<1>3. FileInv' /\ ReadInv' /\ TailInv' /\ RecordsInv' /\ RowsInv' /\ UiInv'
  BY FileFrame, TailFrame, RecordsFrame, RowsFrame, UiFrame DEF Inv
<1> QED BY <1>1, <1>2, <1>3 DEF Inv

\* What is drawn.
LEMMA RenderIs ==
  ASSUME Types, NEW n \in Nat, n = Len(shown), Render
  PROVE  /\ ui' \in [pc : {"ready", "joining", "quitting"}, selected : Nat, scroll : Nat, typing : BOOLEAN]
         /\ ui'.selected <= ui.selected
         /\ ui'.scroll <= ui'.selected /\ ui'.selected < ui'.scroll + Rows
         /\ n > 0 => ui'.selected < n
<1> DEFINE selected == clamp(ui.selected, n)
           above == IF selected < ui.scroll THEN selected ELSE ui.scroll
           scroll == IF selected >= above + Rows THEN selected - Rows + 1 ELSE above
<1>0. /\ ui \in [pc : {"ready", "joining", "quitting"}, selected : Nat, scroll : Nat, typing : BOOLEAN]
      /\ Rows \in Nat \ {0}
  BY Numbers DEF Types
<1>1. selected \in Nat /\ selected <= ui.selected /\ (n > 0 => selected < n)
  BY <1>0 DEF clamp
<1>2. ui' = [ui EXCEPT !.selected = selected, !.scroll = scroll]
  BY DEF Render
<1> HIDE DEF selected
<1>3. above \in Nat /\ above <= selected
  BY <1>0, <1>1
<1> HIDE DEF above
<1>4. scroll \in Nat /\ scroll <= selected /\ selected < scroll + Rows
  BY <1>0, <1>1, <1>3
<1> HIDE DEF scroll
<1>5. ui' = [pc |-> ui.pc, selected |-> selected, scroll |-> scroll, typing |-> ui.typing]
  BY <1>0, <1>2
<1> QED BY <1>0, <1>1, <1>4, <1>5

LEMMA RenderKeeps ==
  ASSUME Inv, Render
  PROVE  Inv'
<1>0. /\ UNCHANGED <<fileVars, status, modelVars, keys, tail, read, stale>>
      /\ status = "running" /\ Types /\ Len(shown) \in Nat
  BY RowsBound, Numbers DEF Render, Alone, Ready, Inv
<1>1. /\ ui' \in [pc : {"ready", "joining", "quitting"}, selected : Nat, scroll : Nat, typing : BOOLEAN]
      /\ ui'.selected <= ui.selected /\ ui'.scroll <= ui'.selected
  BY <1>0, RenderIs
<1>2. Types'
  BY <1>0, <1>1 DEF Types, modelVars, fileVars
<1>3. UiInv'
  <2>1. /\ ui.selected \in Nat /\ keys \in Nat /\ ui'.selected \in Nat /\ ui'.scroll \in Nat
        /\ {PageSize, MaxEntries, MaxOther} \subseteq Nat
    BY <1>0, <1>1, Numbers DEF Types
  <2> DEFINE p == PageSize * keys
  <2>2. p \in Nat /\ ui.selected <= MaxEntries + MaxOther + p
    BY <2>1 DEF Inv, UiInv, Below
  <2>3. PageSize * keys' = p
    BY <1>0
  <2> HIDE DEF p
  <2> QED BY <1>1, <2>1, <2>2, <2>3 DEF UiInv, Below
<1>4. StartInv'
  BY <1>0 DEF StartInv
<1>5. FileInv' /\ ReadInv' /\ TailInv' /\ RecordsInv' /\ RowsInv'
  BY <1>0, FileFrame, TailFrame, RecordsFrame, RowsFrame DEF Inv, modelVars, fileVars
<1> QED BY <1>2, <1>3, <1>4, <1>5 DEF Inv

UiType == [pc : {"ready", "joining", "quitting"}, selected : Nat, scroll : Nat, typing : BOOLEAN]
TailType == [pc : {"off", "open", "loop", "sleep", "load", "left"}, running : BOOLEAN, pos : Nat, eof : BOOLEAN]

\* A key changes the records never, the thread's position never, and the
\* selection by a page at most.
LEMMA KeyKeeps ==
  ASSUME Inv, Key,
         ui' \in UiType, ui'.scroll <= ui.scroll,
         ui'.selected <= ui.selected + PageSize \/ ui'.selected <= MaxEntries + MaxOther,
         records' = records,
         filter' \in [min : 0..(Severities - 1), writer : {NoName, 1}],
         sort' \in SortOrders, stale' \in BOOLEAN, RowsInv',
         tail' \in TailType, tail'.pos = tail.pos,
         tail'.pc = "open" \/ (tail'.pc = tail.pc /\ (tail'.running => tail.running))
  PROVE  Inv'
<1>0. /\ UNCHANGED <<fileVars, status, read>> /\ status = "running" /\ Types
      /\ keys < MaxKeys /\ keys' = keys + 1
  BY DEF Key, Alone, Ready, Inv
<1>1. ui.selected \in Nat /\ ui.scroll \in Nat /\ keys \in Nat /\ tail \in TailType
  BY <1>0 DEF Types, TailType
<1>2. Types'
  <2>1. keys' \in 0..MaxKeys
    BY <1>0, <1>1, Numbers
  <2> QED BY <1>0, <2>1 DEF Types, UiType, TailType, fileVars
<1>3. UiInv'
  <2>1. Below(ui.selected) /\ Below(ui.scroll)
    BY DEF Inv, UiInv
  <2> DEFINE b == MaxEntries + MaxOther + PageSize * keys'
  <2>2. ui.selected + PageSize <= b /\ ui.scroll + PageSize <= b /\ MaxEntries + MaxOther <= b
    BY <1>0, <1>1, <2>1, OneKeyMore
  <2>3. b \in Nat /\ PageSize \in Nat /\ MaxEntries \in Nat /\ MaxOther \in Nat
    BY <1>0, <1>1, Numbers
  <2>4. ui'.selected \in Nat /\ ui'.scroll \in Nat
    BY DEF UiType
  <2> HIDE DEF b
  <2>5. ui'.selected <= b /\ ui'.scroll <= b
    BY <1>1, <2>2, <2>3, <2>4
  <2> QED BY <2>5 DEF UiInv, Below, b
<1>4. TailInv'
  <2>1. FileEnd' = FileEnd /\ file' = file
    BY <1>0 DEF FileEnd, fileVars
  <2>2. tail'.pc \in {"off", "left"} => ~tail'.running
    BY DEF Inv, TailInv
  <2>3. tail'.pc \in {"loop", "sleep", "load"} => tail.pc \in {"loop", "sleep", "load"}
    OBVIOUS
  <2> QED BY <2>1, <2>2, <2>3, <1>0 DEF Inv, TailInv
<1>5. StartInv'
  BY <1>0 DEF StartInv
<1>6. FileInv' /\ ReadInv' /\ RecordsInv'
  BY <1>0, FileFrame, RecordsFrame DEF Inv, fileVars
<1> QED BY <1>2, <1>3, <1>4, <1>5, <1>6 DEF Inv

LEMMA NavigateKeeps ==
  ASSUME Inv, Navigate
  PROVE  Inv'
<1>0. /\ Key /\ UNCHANGED <<modelVars, tail, stale>> /\ Types
      /\ ui \in UiType /\ tail \in TailType /\ PageSize \in Nat \ {0}
      /\ {MaxEntries, MaxOther} \subseteq Nat
  BY Numbers DEF Inv, Types, UiType, TailType, Navigate
<1> DEFINE n == Len(shown)
           at == ui.selected
<1>1. n \in Nat /\ n <= MaxEntries + MaxOther /\ at \in Nat /\ ui.scroll \in Nat
  BY <1>0, RowsBound DEF UiType
<1>2. ASSUME NEW m \in Nat, ui' = [ui EXCEPT !.selected = m],
             m <= at + PageSize \/ m <= MaxEntries + MaxOther
      PROVE  /\ ui' \in UiType /\ ui'.scroll <= ui.scroll
             /\ ui'.selected <= ui.selected + PageSize \/ ui'.selected <= MaxEntries + MaxOther
  <2>1. ui' = [pc |-> ui.pc, selected |-> m, scroll |-> ui.scroll, typing |-> ui.typing]
    BY <1>0, <1>2 DEF UiType
  <2> QED BY <2>1, <1>0, <1>1, <1>2 DEF UiType
<1>3. ASSUME ui' = ToFirst
      PROVE  /\ ui' \in UiType /\ ui'.scroll <= ui.scroll
             /\ ui'.selected <= ui.selected + PageSize \/ ui'.selected <= MaxEntries + MaxOther
  <2>1. ui' = [pc |-> ui.pc, selected |-> 0, scroll |-> 0, typing |-> ui.typing]
    BY <1>0, <1>3 DEF UiType, ToFirst
  <2> QED BY <2>1, <1>0, <1>1 DEF UiType
<1>4. /\ ui' \in UiType /\ ui'.scroll <= ui.scroll
      /\ ui'.selected <= ui.selected + PageSize \/ ui'.selected <= MaxEntries + MaxOther
  <2> DEFINE p == PageSize
  <2>1. ui' = ToFirst \/ \E m \in {IF n > 0 /\ at < n - 1 THEN at + 1 ELSE at,
                                   IF at > 0 THEN at - 1 ELSE at,
                                   IF n > 0 THEN n - 1 ELSE at,
                                   IF at > PageSize THEN at - PageSize ELSE 0,
                                   IF n > 0 /\ at + PageSize >= n THEN n - 1 ELSE at + PageSize} :
                           ui' = [ui EXCEPT !.selected = m]
    BY DEF Navigate, Select
  <2>2. ASSUME NEW m, \/ m = IF n > 0 /\ at < n - 1 THEN at + 1 ELSE at
                      \/ m = IF at > 0 THEN at - 1 ELSE at
                      \/ m = IF n > 0 THEN n - 1 ELSE at
                      \/ m = IF at > PageSize THEN at - PageSize ELSE 0
                      \/ m = IF n > 0 /\ at + PageSize >= n THEN n - 1 ELSE at + PageSize
        PROVE  m \in Nat /\ (m <= at + PageSize \/ m <= MaxEntries + MaxOther)
    <3> HIDE DEF n, at
    <3> QED BY <2>2, <1>0, <1>1
  <2> QED BY <2>1, <2>2, <1>2, <1>3
<1>5. RowsInv'
  BY <1>0, RowsFrame DEF Inv
<1> QED BY <1>0, <1>4, <1>5, KeyKeeps DEF modelVars, Inv, Types

\* Typing, and the tail thread, which is told to stop, or started.
LEMMA OtherKeysKeep ==
  ASSUME Inv, BeginInput \/ CancelInput \/ ToggleTail \/ Quit
  PROVE  Inv'
<1>0. /\ Key /\ UNCHANGED <<modelVars, stale>> /\ Types
      /\ ui \in UiType /\ tail \in TailType /\ PageSize \in Nat /\ ui.selected \in Nat /\ ui.scroll \in Nat
  BY Numbers DEF Inv, Types, UiType, TailType, BeginInput, CancelInput, ToggleTail, Quit
<1>1. /\ ui' \in UiType /\ ui'.scroll = ui.scroll /\ ui'.selected = ui.selected
  <2>1. CASE BeginInput
    <3>1. ui' = [pc |-> ui.pc, selected |-> ui.selected, scroll |-> ui.scroll, typing |-> TRUE]
      BY <2>1, <1>0 DEF BeginInput, UiType
    <3> QED BY <3>1, <1>0 DEF UiType
  <2>2. CASE CancelInput
    <3>1. ui' = [pc |-> ui.pc, selected |-> ui.selected, scroll |-> ui.scroll, typing |-> FALSE]
      BY <2>2, <1>0 DEF CancelInput, UiType
    <3> QED BY <3>1, <1>0 DEF UiType
  <2>3. CASE ToggleTail
    <3>1. ui' = ui \/ ui' = [pc |-> "joining", selected |-> ui.selected, scroll |-> ui.scroll,
                            typing |-> ui.typing]
      BY <2>3, <1>0 DEF ToggleTail, UiType
    <3> QED BY <3>1, <1>0 DEF UiType
  <2>4. CASE Quit
    <3>1. ui' = [pc |-> "quitting", selected |-> ui.selected, scroll |-> ui.scroll, typing |-> ui.typing]
      BY <2>4, <1>0 DEF Quit, UiType
    <3> QED BY <3>1, <1>0 DEF UiType
  <2> QED BY <2>1, <2>2, <2>3, <2>4
<1>2. /\ tail' \in TailType /\ tail'.pos = tail.pos
      /\ tail'.pc = "open" \/ (tail'.pc = tail.pc /\ (tail'.running => tail.running))
  <2>1. CASE BeginInput \/ CancelInput
    BY <2>1, <1>0 DEF BeginInput, CancelInput
  <2>2. CASE tail' = stopTailThread(tail)
    <3>1. tail' = [pc |-> tail.pc, running |-> FALSE, pos |-> tail.pos, eof |-> tail.eof]
      BY <2>2, <1>0 DEF stopTailThread, TailType
    <3> QED BY <3>1, <1>0 DEF TailType
  <2>3. CASE tail' = [tail EXCEPT !.pc = "open", !.running = TRUE]
    <3>1. tail' = [pc |-> "open", running |-> TRUE, pos |-> tail.pos, eof |-> tail.eof]
      BY <2>3, <1>0 DEF TailType
    <3> QED BY <3>1, <1>0 DEF TailType
  <2> QED BY <2>1, <2>2, <2>3 DEF ToggleTail, Quit
<1>3. RowsInv'
  BY <1>0, RowsFrame DEF Inv
<1>4. ui'.scroll <= ui.scroll /\ ui'.selected <= ui.selected + PageSize
  BY <1>0, <1>1
<1> QED BY <1>0, <1>1, <1>2, <1>3, <1>4, KeyKeeps DEF modelVars, Inv, Types

\* New rows for a new filter.
LEMMA RefilterRows ==
  ASSUME Types, NEW f, Refilter(f)
  PROVE  RowsInv'
<1> DEFINE t == applyFilters(sort, records, f)
<1>1. records \in Seq(Rec) /\ sort \in SortOrders
  BY DEF Types
<1>2. GoodRows(records, t) /\ SortedBy(sort, records, t)
      /\ ToSet(t) = {i \in DOMAIN records : Accepts(f, records[i])}
  BY <1>1, FiltersIs
<1>3. shown' = t /\ records' = records /\ sort' = sort /\ filter' = f
  BY DEF Refilter
<1> HIDE DEF t
<1> QED BY <1>2, <1>3 DEF RowsInv, Current

LEMMA FilterKeysKeep ==
  ASSUME Inv, CommitInput \/ CycleSeverity \/ ResetFilters
  PROVE  Inv'
<1>0. /\ Key /\ Types /\ ui \in UiType /\ tail \in TailType /\ Severities \in Nat \ {0}
      /\ ui.selected \in Nat /\ ui.scroll \in Nat /\ MaxEntries \in Nat /\ MaxOther \in Nat
      /\ filter \in [min : 0..(Severities - 1), writer : {NoName, 1}]
  BY Numbers DEF Inv, Types, UiType, TailType, CommitInput, CycleSeverity, ResetFilters
<1>1. PICK f \in [min : 0..(Severities - 1), writer : {NoName, 1}] : Refilter(f)
  <2>1. CASE CommitInput
    <3>1. PICK name \in {NoName, 1} : Refilter([filter EXCEPT !.writer = name])
      BY <2>1 DEF CommitInput
    <3>2. [filter EXCEPT !.writer = name] = [min |-> filter.min, writer |-> name]
      BY <1>0
    <3>3. [min |-> filter.min, writer |-> name] \in [min : 0..(Severities - 1), writer : {NoName, 1}]
      BY <1>0
    <3> QED BY <3>1, <3>2, <3>3
  <2>2. CASE CycleSeverity
    <3> DEFINE m == (filter.min + 1) % Severities
    <3>1. m \in 0..(Severities - 1)
      <4>1. filter.min \in Nat
        BY <1>0
      <4> QED BY <4>1, <1>0
    <3>2. Refilter([filter EXCEPT !.min = m])
      BY <2>2 DEF CycleSeverity
    <3> HIDE DEF m
    <3>3. [filter EXCEPT !.min = m] = [min |-> m, writer |-> filter.writer]
      BY <1>0
    <3>4. [min |-> m, writer |-> filter.writer] \in [min : 0..(Severities - 1), writer : {NoName, 1}]
      BY <1>0, <3>1
    <3> QED BY <3>2, <3>3, <3>4
  <2>3. CASE ResetFilters
    <3>1. NoFilter \in [min : 0..(Severities - 1), writer : {NoName, 1}]
      BY <1>0 DEF NoFilter
    <3> QED BY <2>3, <3>1 DEF ResetFilters
  <2> QED BY <2>1, <2>2, <2>3
<1>2. /\ records' = records /\ filter' = f /\ sort' = sort /\ tail' = tail /\ stale' = FALSE
  BY <1>1 DEF Refilter
<1>3. RowsInv'
  BY <1>0, <1>1, RefilterRows
<1>4. ui' \in UiType /\ ui'.selected = 0 /\ ui'.scroll = 0
  <2>1. PICK b \in BOOLEAN : ui' = [pc |-> ui.pc, selected |-> 0, scroll |-> 0, typing |-> b]
    <3>1. CASE CommitInput
      <4>1. ui' = [pc |-> ui.pc, selected |-> 0, scroll |-> 0, typing |-> FALSE]
        BY <3>1, <1>0 DEF CommitInput, ToFirst, UiType
      <4> QED BY <4>1
    <3>2. CASE CycleSeverity \/ ResetFilters
      <4>1. ui' = [pc |-> ui.pc, selected |-> 0, scroll |-> 0, typing |-> ui.typing]
        BY <3>2, <1>0 DEF CycleSeverity, ResetFilters, ToFirst, UiType
      <4> QED BY <4>1, <1>0 DEF UiType
    <3> QED BY <3>1, <3>2
  <2> QED BY <2>1, <1>0 DEF UiType
<1>5. sort' \in SortOrders /\ stale' \in BOOLEAN
  BY <1>0, <1>2 DEF Types
<1>6. ui'.scroll <= ui.scroll /\ ui'.selected <= MaxEntries + MaxOther
  BY <1>0, <1>4
<1> QED BY <1>0, <1>1, <1>2, <1>3, <1>4, <1>5, <1>6, KeyKeeps

LEMMA CycleSortKeeps ==
  ASSUME Inv, CycleSort
  PROVE  Inv'
<1>0. /\ Key /\ Types /\ UNCHANGED <<records, filter, ui, tail, stale>>
      /\ ui \in UiType /\ tail \in TailType
      /\ records \in Seq(Rec) /\ PageSize \in Nat /\ ui.selected \in Nat /\ ui.scroll \in Nat
  BY Numbers DEF Inv, Types, UiType, TailType, CycleSort
<1>1. sort' \in SortOrders
  BY <1>0 DEF CycleSort, Types, SortOrders
<1>2. RowsInv'
  <2>1. GoodRows(records, shown) /\ Current
    BY DEF Inv, RowsInv
  <2> DEFINE t == applySorting(sort', records, shown)
  <2>2. GoodRows(records, t) /\ SortedBy(sort', records, t) /\ ToSet(t) = ToSet(shown)
    BY <1>0, <1>1, <2>1, SortingIs
  <2>3. shown' = t
    BY DEF CycleSort
  <2> HIDE DEF t
  <2> QED BY <1>0, <2>1, <2>2, <2>3 DEF RowsInv, Current
<1>3. ui'.scroll <= ui.scroll /\ ui'.selected <= ui.selected + PageSize
  BY <1>0
<1> QED BY <1>0, <1>1, <1>2, <1>3, KeyKeeps DEF Types

LEMMA JoinKeeps ==
  ASSUME Inv, Join
  PROVE  Inv'
<1>0. /\ Types /\ UNCHANGED <<fileVars, modelVars, keys, read, stale>>
      /\ ui \in UiType /\ tail \in TailType /\ tail.pc \in {"off", "left"} /\ ~tail.running
      /\ status' \in {"running", "quit"}
  BY DEF Inv, Types, UiType, TailType, TailInv, Join
<1>1. tail' = [pc |-> "off", running |-> tail.running, pos |-> tail.pos, eof |-> tail.eof]
  BY <1>0 DEF Join, TailType
<1>2. ui' = [pc |-> "ready", selected |-> ui.selected, scroll |-> ui.scroll, typing |-> ui.typing]
  BY <1>0 DEF Join, UiType
<1>3. Types'
  <2>1. ui' \in UiType /\ tail' \in TailType
    BY <1>0, <1>1, <1>2 DEF UiType, TailType
  <2> QED BY <1>0, <2>1 DEF Types, UiType, TailType, modelVars, fileVars
<1>4. TailInv'
  <2>1. FileEnd' = FileEnd /\ file' = file /\ records' = records /\ read' = read
    BY <1>0 DEF FileEnd, fileVars, modelVars
  <2> QED BY <2>1, <1>0, <1>1 DEF Inv, TailInv
<1>5. StartInv'
  BY <1>0 DEF StartInv
<1>6. UiInv'
  BY <1>0, <1>2 DEF Inv, UiInv, Below
<1>7. FileInv' /\ ReadInv' /\ RecordsInv' /\ RowsInv'
  BY <1>0, FileFrame, RecordsFrame, RowsFrame DEF Inv, modelVars, fileVars
<1> QED BY <1>3, <1>4, <1>5, <1>6, <1>7 DEF Inv

-----------------------------------------------------------------------------
(* Loading *)

\* The records and the entries of the live file that are read.
Match(recs, rd) ==
  /\ \A i \in DOMAIN recs : OwnSource(recs[i])
  /\ \A i \in DOMAIN recs : recs[i].num.num > 0 =>
       \E k \in Events \intersect rd : recs[i].num = file[k].num
  /\ \A k \in Events \intersect rd :
       \E i \in DOMAIN recs : recs[i].num.num > 0 /\ recs[i].num = file[k].num
  /\ \A i, j \in DOMAIN recs :
       recs[i].num.num > 0 /\ recs[j].num.num > 0 /\ i < j => recs[i].num.num < recs[j].num.num

LEMMA RecordsMatch == RecordsInv <=> Match(records, read)
<1> DEFINE live == {i \in DOMAIN records : records[i].num.num > 0}
<1>1. RecordsOwnSource <=> \A i \in DOMAIN records : OwnSource(records[i])
  BY DEF RecordsOwnSource, OwnSource
<1>2. {records[i].num : i \in live} = {file[k].num : k \in Events \intersect read} <=>
        /\ \A i \in DOMAIN records : records[i].num.num > 0 =>
             \E k \in Events \intersect read : records[i].num = file[k].num
        /\ \A k \in Events \intersect read :
             \E i \in DOMAIN records : records[i].num.num > 0 /\ records[i].num = file[k].num
  <2> DEFINE K == Events \intersect read
  <2>1. \A i : i \in live <=> i \in DOMAIN records /\ records[i].num.num > 0
    OBVIOUS
  <2> HIDE DEF live, K
  <2>2. {records[i].num : i \in live} = {file[k].num : k \in K} <=>
          /\ \A i \in live : \E k \in K : records[i].num = file[k].num
          /\ \A k \in K : \E i \in live : records[i].num = file[k].num
    <3> DEFINE A == {records[i].num : i \in live}
               B == {file[k].num : k \in K}
    <3>1. A \subseteq B <=> \A i \in live : \E k \in K : records[i].num = file[k].num
      <4>1. A \subseteq B <=> \A i \in live : records[i].num \in B
        BY Zenon
      <4>2. \A x : x \in B <=> \E k \in K : x = file[k].num
        BY Zenon
      <4> HIDE DEF A, B
      <4> QED BY <4>1, <4>2
    <3>2. B \subseteq A <=> \A k \in K : \E i \in live : records[i].num = file[k].num
      <4>1. B \subseteq A <=> \A k \in K : file[k].num \in A
        BY Zenon
      <4>2. \A x : x \in A <=> \E i \in live : records[i].num = x
        BY Zenon
      <4> HIDE DEF A, B
      <4> QED BY <4>1, <4>2
    <3>3. A = B <=> A \subseteq B /\ B \subseteq A
      <4> HIDE DEF A, B
      <4> QED OBVIOUS
    <3> QED BY <3>1, <3>2, <3>3
  <2> QED BY <2>1, <2>2 DEF K
<1>3. (\A i, j \in live : i < j => records[i].num.num < records[j].num.num) <=>
        \A i, j \in DOMAIN records :
          records[i].num.num > 0 /\ records[j].num.num > 0 /\ i < j =>
            records[i].num.num < records[j].num.num
  OBVIOUS
<1> QED BY <1>1, <1>2, <1>3 DEF RecordsInv, RecordsAreFile, Match

\* The rest of the live file, from entry p + 1 on, is loaded.
LEMMA MatchMore ==
  ASSUME Types, FileInv, NEW recs \in Seq(Rec), NEW rd, Match(recs, rd),
         NEW p \in 0..Len(file), rd \subseteq 1..p,
         NEW es, es = SubSeq(file, p + 1, Len(file)),
         NEW new, Extends(new, recs, Len(es)), EventsOf(new, Len(recs), es, Len(es))
  PROVE  Match(new, rd \union (p + 1)..Len(file))
<1> DEFINE n == Len(file)
           l == Len(recs)
           S == rd \union (p + 1)..n
<1>0. /\ file \in Seq(FileEntry) /\ n \in Nat /\ DOMAIN file = 1..n
      /\ WrittenByApplications(file) /\ Increasing(file)
      /\ \A k \in Events : file[k].num.num \in 1..Cardinality(Events)
      /\ Cardinality(Events) \in Nat
  BY EventsFinite DEF Types, FileInv
<1>1. /\ es \in Seq(FileEntry) /\ Len(es) = n - p /\ \A i \in 1..(n - p) : es[i] = file[p + i]
      /\ Increasing(es)
  BY <1>0, SuffixWritten
<1>2. /\ new \in Seq(Rec) /\ Len(new) \in Nat /\ l <= Len(new) /\ DOMAIN new = 1..Len(new)
      /\ l \in Nat /\ DOMAIN recs = 1..l /\ \A i \in 1..l : new[i] = recs[i]
  BY DEF Extends
<1>3. /\ \A i \in (l + 1)..Len(new) : OwnSource(new[i])
      /\ \A i \in (l + 1)..Len(new) : \E k \in 1..(n - p) : IsEvent(es[k]) /\ new[i].num = es[k].num
      /\ \A k \in 1..(n - p) : IsEvent(es[k]) => \E i \in (l + 1)..Len(new) : new[i].num = es[k].num
      /\ \A i, j \in (l + 1)..Len(new) : i < j => new[i].num.num < new[j].num.num
  BY <1>1 DEF EventsOf
<1>4. /\ \A i \in 1..l : OwnSource(recs[i])
      /\ \A i \in 1..l : recs[i].num.num > 0 => \E k \in Events \intersect rd : recs[i].num = file[k].num
      /\ \A k \in Events \intersect rd : \E i \in 1..l : recs[i].num.num > 0 /\ recs[i].num = file[k].num
      /\ \A i, j \in 1..l : recs[i].num.num > 0 /\ recs[j].num.num > 0 /\ i < j =>
                              recs[i].num.num < recs[j].num.num
  BY <1>2 DEF Match
<1> HIDE DEF l, n
<1>5. ASSUME NEW i \in 1..Len(new)
      PROVE  i \in 1..l \/ i \in (l + 1)..Len(new)
  BY <1>2
\* A new record is an event of the file, behind p.
<1>6. ASSUME NEW i \in (l + 1)..Len(new)
      PROVE  \E k \in (p + 1)..n : k \in Events /\ new[i].num = file[k].num
  <2>1. PICK k \in 1..(n - p) : IsEvent(es[k]) /\ new[i].num = es[k].num
    BY <1>3
  <2>2. p + k \in (p + 1)..n /\ es[k] = file[p + k] /\ p + k \in DOMAIN file
    BY <1>0, <1>1
  <2> QED BY <2>1, <2>2 DEF Events
<1>7. ASSUME NEW i \in 1..Len(new)
      PROVE  OwnSource(new[i])
  BY <1>2, <1>3, <1>4, <1>5
<1>8. ASSUME NEW i \in 1..Len(new), new[i].num.num > 0
      PROVE  \E k \in Events \intersect S : new[i].num = file[k].num
  <2>1. CASE i \in 1..l
    BY <2>1, <1>2, <1>4, <1>8
  <2>2. CASE i \in (l + 1)..Len(new)
    BY <2>2, <1>6
  <2> QED BY <2>1, <2>2, <1>5
<1>9. ASSUME NEW k \in Events \intersect S
      PROVE  \E i \in 1..Len(new) : new[i].num.num > 0 /\ new[i].num = file[k].num
  <2>1. CASE k \in rd
    <3>1. PICK i \in 1..l : recs[i].num.num > 0 /\ recs[i].num = file[k].num
      BY <2>1, <1>4
    <3>2. i \in 1..Len(new) /\ new[i] = recs[i]
      BY <1>2
    <3> QED BY <3>1, <3>2
  <2>2. CASE k \in (p + 1)..n
    <3>1. k - p \in 1..(n - p) /\ es[k - p] = file[k]
      BY <2>2, <1>0, <1>1
    <3>2. IsEvent(es[k - p])
      BY <3>1 DEF Events
    <3>3. PICK i \in (l + 1)..Len(new) : new[i].num = es[k - p].num
      BY <3>1, <3>2, <1>3
    <3>4. i \in 1..Len(new) /\ new[i].num = file[k].num
      BY <3>1, <3>3, <1>2
    <3>5. file[k].num.num > 0
      BY <1>0
    <3> QED BY <3>4, <3>5
  <2> QED BY <2>1, <2>2
<1>10. ASSUME NEW i \in 1..Len(new), NEW j \in 1..Len(new), new[i].num.num > 0, new[j].num.num > 0, i < j
       PROVE  new[i].num.num < new[j].num.num
  <2>1. CASE i \in 1..l /\ j \in 1..l
    BY <2>1, <1>2, <1>4, <1>10
  <2>2. CASE i \in 1..l /\ j \in (l + 1)..Len(new)
    <3>1. PICK a \in Events \intersect rd : new[i].num = file[a].num
      BY <2>2, <1>2, <1>4, <1>10
    <3>2. PICK b \in (p + 1)..n : b \in Events /\ new[j].num = file[b].num
      BY <2>2, <1>6
    <3>3. a \in DOMAIN file /\ b \in DOMAIN file /\ IsEvent(file[a]) /\ IsEvent(file[b]) /\ a < b
      BY <3>1, <3>2, <1>0 DEF Events
    <3>4. file[a].num.num < file[b].num.num
      BY <3>3, <1>0 DEF Increasing
    <3> QED BY <3>1, <3>2, <3>4
  <2>3. CASE i \in (l + 1)..Len(new) /\ j \in (l + 1)..Len(new)
    BY <2>3, <1>3, <1>10
  <2>4. CASE i \in (l + 1)..Len(new) /\ j \in 1..l
    BY <2>4, <1>2, <1>10
  <2> QED BY <2>1, <2>2, <2>3, <2>4, <1>5
<1>11. Match(new, S)
  BY <1>2, <1>7, <1>8, <1>9, <1>10 DEF Match
<1> QED BY <1>11 DEF n

\* Another file is loaded, or a part of it.
LEMMA MatchOther ==
  ASSUME NEW recs \in Seq(Rec), NEW rd, Match(recs, rd),
         NEW es \in Seq(FileEntry), \A k \in DOMAIN es : IsEvent(es[k]) => es[k].num.num = 0,
         NEW m \in 0..Len(es), NEW new, Extends(new, recs, Len(es)), EventsOf(new, Len(recs), es, m)
  PROVE  Match(new, rd)
<1> DEFINE l == Len(recs)
<1>2. /\ new \in Seq(Rec) /\ Len(new) \in Nat /\ l <= Len(new) /\ DOMAIN new = 1..Len(new)
      /\ l \in Nat /\ DOMAIN recs = 1..l /\ \A i \in 1..l : new[i] = recs[i]
  BY DEF Extends
<1>3. ASSUME NEW i \in (l + 1)..Len(new)
      PROVE  OwnSource(new[i]) /\ new[i].num.num = 0
  <2>1. OwnSource(new[i])
    BY DEF EventsOf
  <2>2. PICK k \in 1..m : IsEvent(es[k]) /\ new[i].num = es[k].num
    BY DEF EventsOf
  <2>3. k \in DOMAIN es
    OBVIOUS
  <2> QED BY <2>1, <2>2, <2>3
<1>4. /\ \A i \in 1..l : OwnSource(recs[i])
      /\ \A i \in 1..l : recs[i].num.num > 0 => \E k \in Events \intersect rd : recs[i].num = file[k].num
      /\ \A k \in Events \intersect rd : \E i \in 1..l : recs[i].num.num > 0 /\ recs[i].num = file[k].num
      /\ \A i, j \in 1..l : recs[i].num.num > 0 /\ recs[j].num.num > 0 /\ i < j =>
                              recs[i].num.num < recs[j].num.num
  BY <1>2 DEF Match
<1> HIDE DEF l
<1>5. ASSUME NEW i \in 1..Len(new)
      PROVE  (i \in 1..l /\ new[i] = recs[i]) \/ (OwnSource(new[i]) /\ ~(new[i].num.num > 0))
  <2>1. CASE i \in 1..l
    BY <2>1, <1>2
  <2>2. CASE i \notin 1..l
    <3>1. i \in (l + 1)..Len(new)
      BY <2>2, <1>2
    <3> QED BY <3>1, <1>3
  <2> QED BY <2>1, <2>2
<1>6. \A i \in 1..Len(new) : OwnSource(new[i])
  BY <1>4, <1>5
<1>7. \A i \in 1..Len(new) : new[i].num.num > 0 => \E k \in Events \intersect rd : new[i].num = file[k].num
  BY <1>4, <1>5
<1>8. ASSUME NEW k \in Events \intersect rd
      PROVE  \E i \in 1..Len(new) : new[i].num.num > 0 /\ new[i].num = file[k].num
  <2>1. PICK i \in 1..l : recs[i].num.num > 0 /\ recs[i].num = file[k].num
    BY <1>4
  <2>2. i \in 1..Len(new) /\ new[i] = recs[i]
    <3>1. Len(new) \in Nat /\ l \in Nat /\ l <= Len(new) /\ new[i] = recs[i]
      BY <1>2
    <3> QED BY <3>1
  <2> QED BY <2>1, <2>2
<1>9. \A i, j \in 1..Len(new) : new[i].num.num > 0 /\ new[j].num.num > 0 /\ i < j =>
        new[i].num.num < new[j].num.num
  BY <1>4, <1>5
<1> QED BY <1>2, <1>6, <1>7, <1>8, <1>9 DEF Match

\* Rows of fewer records are rows of more.
LEMMA GoodRowsMore ==
  ASSUME NEW recs \in Seq(Rec), NEW new, NEW m \in Nat, Extends(new, recs, m),
         NEW s, GoodRows(recs, s)
  PROVE  GoodRows(new, s)
<1>1. /\ new \in Seq(Rec) /\ Len(new) \in Nat /\ Len(recs) \in Nat /\ Len(recs) <= Len(new)
      /\ DOMAIN recs = 1..Len(recs) /\ DOMAIN new = 1..Len(new)
      /\ \A i \in 1..Len(recs) : new[i] = recs[i]
  BY DEF Extends
<1>2. \A i \in DOMAIN s : s[i] \in 1..Len(recs) /\ s[i] \in 1..Len(new) /\ new[s[i]] = recs[s[i]]
  BY <1>1 DEF GoodRows
<1> QED BY <1>1, <1>2 DEF GoodRows, Time

\* The tail thread's position at the end of the file.
LEMMA AtEnd ==
  ASSUME Types
  PROVE  /\ FileEnd \in Nat /\ FileEnd \div 2 = Len(file) /\ Len(file) \in Nat
         /\ \A p \in Nat : p <= FileEnd => p \div 2 \in 0..Len(file)
<1>0. Len(file) \in Nat
  BY DEF Types
<1>1. FileEnd = 2 * Len(file) \/ FileEnd = 2 * Len(file) + 1
  BY DEF FileEnd
<1>2. (2 * Len(file)) \div 2 = Len(file) /\ (2 * Len(file) + 1) \div 2 = Len(file)
  BY <1>0
<1>3. FileEnd \in Nat /\ FileEnd <= 2 * Len(file) + 1
  BY <1>0, <1>1
<1>4. ASSUME NEW p \in Nat, p <= FileEnd
      PROVE  p \div 2 \in 0..Len(file)
  <2> DEFINE q == p \div 2
  <2>1. q \in Nat /\ 2 * q <= p
    OBVIOUS
  <2> HIDE DEF q
  <2>2. 2 * q <= 2 * Len(file) + 1
    BY <1>0, <1>3, <1>4, <2>1
  <2>3. q <= Len(file)
    BY <1>0, <2>1, <2>2
  <2> QED BY <1>0, <2>1, <2>3 DEF q
<1> QED BY <1>0, <1>1, <1>2, <1>3, <1>4

Awake == [tail EXCEPT !.pc = "loop", !.pos = FileEnd, !.eof = TRUE]

LEMMA AwakeType ==
  ASSUME Types
  PROVE  Awake \in TailType /\ Awake.pos = FileEnd /\ Awake.pc = "loop" /\ Awake.running = tail.running
<1>0. tail \in TailType
  BY DEF Types, TailType
<1>1. PICK a : a = Awake
  OBVIOUS
<1>3. a = [pc |-> "loop", running |-> tail.running, pos |-> FileEnd, eof |-> TRUE]
  BY <1>0, <1>1 DEF Awake, TailType
<1>2. tail.running \in BOOLEAN /\ FileEnd \in Nat
  BY <1>0, AtEnd DEF TailType
<1> QED BY <1>1, <1>2, <1>3 DEF TailType

\* The load throws, and nothing catches it.
LEMMA LoadThrows ==
  ASSUME Inv, status' = "terminated", UNCHANGED <<fileVars, filter, sort, keys>>,
         UNCHANGED <<records, shown, ui, tail, read, stale>>
  PROVE  Inv'
<1>1. Types'
  BY DEF Inv, Types, fileVars
<1>2. StartInv'
  BY DEF StartInv
<1>3. FileInv' /\ ReadInv' /\ TailInv' /\ RecordsInv' /\ RowsInv' /\ UiInv'
  BY FileFrame, TailFrame, RecordsFrame, RowsFrame, UiFrame DEF Inv, modelVars, fileVars
<1> QED BY <1>1, <1>2, <1>3 DEF Inv

\* The load ends, and no record was added.
LEMMA LoadFindsNothing ==
  ASSUME Inv, status = "running", UNCHANGED <<fileVars, filter, sort, keys>>,
         shown' = applyFilters(sort, records, filter), tail' = Awake, stale' = FALSE,
         UNCHANGED <<status, records, ui, read>>
  PROVE  Inv'
<1>0. /\ Types /\ records \in Seq(Rec) /\ sort \in SortOrders
      /\ read \subseteq 1..Len(file) /\ Len(records) <= MaxOther + Len(file)
  BY DEF Inv, Types, TailInv
<1>1. Types'
  <2>1. tail' \in TailType
    BY <1>0, AwakeType
  <2> QED BY <1>0, <2>1 DEF Types, TailType, fileVars
<1>2. TailInv'
  <2>1. FileEnd' = FileEnd /\ Len(file') = Len(file)
    BY DEF FileEnd, fileVars
  <2>2. tail'.pos = FileEnd /\ tail'.pc = "loop" /\ FileEnd \div 2 = Len(file) /\ FileEnd \in Nat
    BY <1>0, AwakeType, AtEnd
  <2> QED BY <1>0, <2>1, <2>2 DEF TailInv
<1>3. RowsInv'
  <2> DEFINE t == applyFilters(sort, records, filter)
  <2>1. GoodRows(records, t) /\ SortedBy(sort, records, t)
        /\ ToSet(t) = {i \in DOMAIN records : Accepts(filter, records[i])}
    BY <1>0, FiltersIs
  <2>2. shown' = t
    OBVIOUS
  <2> HIDE DEF t
  <2> QED BY <2>1, <2>2 DEF RowsInv, Current
<1>4. StartInv'
  BY DEF StartInv
<1>5. FileInv' /\ ReadInv' /\ RecordsInv' /\ UiInv'
  BY FileFrame, RecordsFrame, UiFrame DEF Inv, fileVars
<1> QED BY <1>1, <1>2, <1>3, <1>4, <1>5 DEF Inv

\* What the tail thread loads, from an entry on to the end of the file.
LEMMA LoadResult ==
  ASSUME Inv, tail.pc \in {"loop", "sleep", "load"}
  PROVE  LET p == tail.pos \div 2
             es == SubSeq(file, p + 1, Len(file))
             L == load(Loaded(records), es, half # NoEntry)
         IN  /\ Extends(L.events, records, Len(es))
             /\ L.events \in Seq(Rec) /\ Len(records) \in Nat
             /\ Len(L.events) \in Len(records)..(MaxOther + Len(file))
             /\ L.status # "error" => Match(L.events, read \union (p + 1)..Len(file))
<1> DEFINE p == tail.pos \div 2
           es == SubSeq(file, p + 1, Len(file))
           L == load(Loaded(records), es, half # NoEntry)
<1>0. /\ Types /\ FileInv /\ records \in Seq(Rec) /\ tail.pos \in Nat /\ tail.pos <= FileEnd
      /\ file \in Seq(FileEntry) /\ WrittenByApplications(file)
      /\ read \subseteq 1..p /\ Len(records) <= MaxOther + p /\ Match(records, read)
  BY RecordsMatch DEF Inv, Types, TailInv, FileInv
<1>1. p \in 0..Len(file)
  BY <1>0, AtEnd
<1> HIDE DEF p
<1>2. es \in Seq(FileEntry) /\ Len(es) = Len(file) - p /\ WrittenByApplications(es)
  BY <1>0, <1>1, SuffixWritten
<1> HIDE DEF es
<1>3. Loaded(records).events = records /\ (half # NoEntry) \in BOOLEAN
  BY <1>0, LoadedIs
<1>4. /\ Extends(L.events, records, Len(es))
      /\ \E m \in 0..Len(es) : /\ L.status # "error" => m = Len(es)
                               /\ EventsOf(L.events, Len(records), es, m)
  BY <1>0, <1>2, <1>3, LoadIs
<1> HIDE DEF L
<1>5. ASSUME L.status # "error"
      PROVE  Match(L.events, read \union (p + 1)..Len(file))
  <2>1. EventsOf(L.events, Len(records), es, Len(es))
    BY <1>4, <1>5
  <2> QED BY <1>0, <1>1, <1>4, <2>1, MatchMore DEF es
<1>6. /\ L.events \in Seq(Rec) /\ Len(records) \in Nat
      /\ Len(L.events) \in Len(records)..(MaxOther + Len(file))
  <2>1. /\ L.events \in Seq(Rec) /\ Len(records) \in Nat
        /\ Len(L.events) \in Len(records)..(Len(records) + (Len(file) - p))
    BY <1>0, <1>2, <1>4 DEF Extends
  <2>2. MaxOther \in Nat /\ Len(file) \in Nat
    BY <1>0, Numbers
  <2> QED BY <2>1, <2>2, <1>0, <1>1
<1> QED BY <1>4, <1>5, <1>6 DEF L, es, p

\* New records, their rows, and the selection.
LEMMA LoadAdds ==
  ASSUME Inv, Load, tail.pos % 2 = 0, status' = status
  PROVE  Inv'
<1> DEFINE p == tail.pos \div 2
           es == SubSeq(file, p + 1, Len(file))
           L == load(Loaded(records), es, half # NoEntry)
           added == Len(L.events) - Len(records)
<1>0. /\ Types /\ records \in Seq(Rec) /\ sort \in SortOrders /\ tail.pc = "load"
      /\ status = "running" /\ read \subseteq 1..p
      /\ filter \in [min : 0..(Severities - 1), writer : {NoName, 1}]
      /\ UNCHANGED <<fileVars, filter, sort, keys>>
  BY DEF Inv, Types, Load, TailInv
<1>1. /\ L.status # "error" /\ records' = L.events
      /\ shown' = applyFilters(sort, records', filter)
      /\ read' = read \union (p + 1)..Len(file)
      /\ ui' = [ui EXCEPT !.selected = IF added = 0 THEN @ ELSE autoScroll(@, Len(shown'), added)]
      /\ tail' = Awake /\ stale' = FALSE
  BY <1>0 DEF Load, loadPosition, Awake
<1>2. /\ L.events \in Seq(Rec) /\ Len(records) \in Nat
      /\ Len(L.events) \in Len(records)..(MaxOther + Len(file))
      /\ L.status # "error" => Match(L.events, read \union (p + 1)..Len(file))
  BY <1>0, LoadResult
<1>3. p \in 0..Len(file) /\ Len(file) \in Nat
  BY <1>0, AtEnd DEF Inv, Types, TailInv
<1> HIDE DEF p, es, L
<1>4. /\ GoodRows(records', shown') /\ SortedBy(sort, records', shown')
      /\ ToSet(shown') = {i \in DOMAIN records' : Accepts(filter, records'[i])}
  <2> DEFINE t == applyFilters(sort, L.events, filter)
  <2>1. GoodRows(L.events, t) /\ SortedBy(sort, L.events, t)
        /\ ToSet(t) = {i \in DOMAIN L.events : Accepts(filter, L.events[i])}
    BY <1>0, <1>2, FiltersIs
  <2>2. shown' = t /\ records' = L.events
    BY <1>1
  <2> HIDE DEF t
  <2> QED BY <2>1, <2>2
<1>5. Len(shown') \in 0..Len(records') /\ Len(records') <= MaxOther + Len(file)
  <2>1. Len(shown') \in 0..Len(L.events)
    BY <1>1, <1>2, <1>4, RowsAtMost
  <2> QED BY <2>1, <1>1, <1>2
<1>6. ui' \in UiType /\ ui'.scroll = ui.scroll
      /\ (ui'.selected = ui.selected \/ ui'.selected <= MaxEntries + MaxOther)
  <2> DEFINE s == IF added = 0 THEN ui.selected ELSE autoScroll(ui.selected, Len(shown'), added)
  <2>1. ui \in UiType /\ ui.selected \in Nat
    BY <1>0 DEF Types, UiType
  <2>2. s = ui.selected \/ (Len(shown') > 0 /\ s = Len(shown') - 1)
    BY DEF autoScroll
  <2>3. ui' = [pc |-> ui.pc, selected |-> s, scroll |-> ui.scroll, typing |-> ui.typing]
    BY <1>1, <2>1 DEF UiType
  <2> HIDE DEF s
  <2>4. Len(file) <= MaxEntries /\ MaxEntries \in Nat /\ MaxOther \in Nat /\ Len(records') \in Nat
    BY <1>1, <1>2, Numbers DEF Inv, FileInv
  <2>5. s \in Nat /\ (s = ui.selected \/ s <= MaxEntries + MaxOther)
    BY <1>3, <1>5, <2>1, <2>2, <2>4
  <2> QED BY <2>1, <2>3, <2>5 DEF UiType
<1>7. Types'
  <2>1. tail' \in TailType
    BY <1>0, <1>1, AwakeType
  <2>2. stale' \in BOOLEAN /\ records' \in Seq(Rec)
    BY <1>1, <1>2
  <2> QED BY <1>0, <1>6, <2>1, <2>2 DEF Types, TailType, UiType, fileVars
<1>8. TailInv'
  <2>1. FileEnd' = FileEnd /\ Len(file') = Len(file)
    BY <1>0 DEF FileEnd, fileVars
  <2>2. tail'.pos = FileEnd /\ tail'.pc = "loop" /\ FileEnd \div 2 = Len(file) /\ FileEnd \in Nat
    BY <1>0, <1>1, AwakeType, AtEnd
  <2>3. read' \subseteq 1..Len(file)
    BY <1>0, <1>1, <1>3
  <2> QED BY <1>5, <2>1, <2>2, <2>3 DEF TailInv
<1>9. RowsInv'
  BY <1>0, <1>1, <1>4 DEF RowsInv, Current
<1>10. RecordsInv'
  <2>1. Match(records', read') /\ file' = file
    BY <1>0, <1>1, <1>2 DEF fileVars
  <2>2. Match(records, read)'
    BY <2>1 DEF Match, Events
  <2>3. RecordsInv' <=> Match(records, read)'
    BY RecordsMatch, PTL
  <2> QED BY <2>2, <2>3
<1>11. UiInv'
  <2>1. Below(ui.selected) /\ Below(ui.scroll) /\ keys' = keys /\ ui'.selected \in Nat
        /\ {MaxEntries, MaxOther, PageSize, keys} \subseteq Nat
    BY <1>0, <1>6, Numbers DEF Inv, UiInv, UiType, Types
  <2> DEFINE b == PageSize * keys
  <2>2. b \in Nat /\ PageSize * keys' = b /\ ui.selected <= MaxEntries + MaxOther + b
        /\ ui.scroll <= MaxEntries + MaxOther + b
    BY <2>1 DEF Below
  <2> HIDE DEF b
  <2> QED BY <2>1, <2>2, <1>6 DEF UiInv, Below
<1>12. StartInv'
  BY <1>0 DEF StartInv
<1>13. FileInv' /\ ReadInv'
  BY <1>0, FileFrame DEF Inv, fileVars
<1> QED BY <1>7, <1>8, <1>9, <1>10, <1>11, <1>12, <1>13 DEF Inv

LEMMA LoadKeeps ==
  ASSUME Inv, Load
  PROVE  Inv'
<1>0. /\ tail.pos \in Nat /\ status = "running"
      /\ UNCHANGED <<fileVars, filter, sort, keys>>
  BY DEF Inv, Types, Load
<1>1. CASE status' = "terminated"
  <2>1. UNCHANGED <<records, shown, ui, tail, read, stale>>
    BY <1>0, <1>1 DEF Load
  <2> QED BY <1>0, <1>1, <2>1, LoadThrows
<1>2. CASE status' # "terminated" /\ tail.pos % 2 = 1
  <2>1. /\ shown' = applyFilters(sort, records, filter)
        /\ tail' = Awake /\ stale' = FALSE
        /\ UNCHANGED <<status, records, ui, read>>
    BY <1>0, <1>2 DEF Load, Awake, loadPosition
  <2> QED BY <1>0, <2>1, LoadFindsNothing
<1>3. CASE status' # "terminated" /\ tail.pos % 2 # 1
  <2>1. tail.pos % 2 = 0
    BY <1>0, <1>3
  <2>2. status' = status
    BY <1>3 DEF Load
  <2> QED BY <2>1, <2>2, LoadAdds
<1> QED BY <1>1, <1>2, <1>3

\* main: the live file, and possibly another one.
LEMMA StartLoads ==
  ASSUME Inv, status = "starting", NEW line \in CommandLines
  PROVE  LET one == load(Loaded(<<>>), file, half # NoEntry)
             two == IF line.other = <<>> THEN one ELSE load(one, line.other, FALSE)
         IN  /\ one.events \in Seq(Rec) /\ two.events \in Seq(Rec)
             /\ Extends(two.events, one.events, MaxOther)
             /\ Len(two.events) <= MaxOther + Len(file)
             /\ Match(two.events, 1..Len(file))
<1> DEFINE one == load(Loaded(<<>>), file, half # NoEntry)
           two == IF line.other = <<>> THEN one ELSE load(one, line.other, FALSE)
           n == Len(file)
<1>0. /\ Types /\ FileInv /\ ReadInv /\ file \in Seq(FileEntry) /\ n \in Nat /\ DOMAIN file = 1..n
      /\ WrittenByApplications(file) /\ MaxOther \in Nat
  BY Numbers DEF Inv, Types, FileInv
<1>1. /\ <<>> \in Seq(Rec) /\ Len(<<>>) = 0 /\ Loaded(<<>>).events = <<>>
      /\ (half # NoEntry) \in BOOLEAN
  <2>1. <<>> \in Seq(Rec) /\ Len(<<>>) = 0
    OBVIOUS
  <2>2. Loaded(<<>>).events = <<>>
    BY <2>1, LoadedIs
  <2>3. (half # NoEntry) \in BOOLEAN
    OBVIOUS
  <2> QED BY <2>1, <2>2, <2>3
<1>2. readAll([NewReader EXCEPT !.events = <<>>], file).status = "reading"
  <2>1. [NewReader EXCEPT !.events = <<>>] = NewReader
    BY DEF NewReader
  <2> QED BY <2>1, <1>0 DEF ReadInv
<1>3. Extends(one.events, <<>>, n) /\ EventsOf(one.events, 0, file, n)
  <2> DEFINE R == readAll([NewReader EXCEPT !.events = <<>>], file)
             none == <<>>
  <2>1. R.status = "reading" /\ none \in Seq(Rec) /\ Len(none) = 0 /\ Loaded(none).events = none
    BY <1>1, <1>2
  <2> HIDE DEF none
  <2>2. LET L == load(Loaded(none), file, half # NoEntry)
            Q == readAll([NewReader EXCEPT !.events = none], file)
        IN  /\ Extends(L.events, none, Len(file))
            /\ \E m \in 0..Len(file) : /\ L.status # "error" => m = Len(file)
                                       /\ Q.status = "reading" => m = Len(file)
                                       /\ EventsOf(L.events, Len(none), file, m)
    BY <1>0, <1>1, <2>1, LoadIs
  <2> QED BY <2>1, <2>2 DEF none
<1> HIDE DEF one
<1>4. one.events \in Seq(Rec) /\ Len(one.events) \in 0..n
  BY <1>0, <1>1, <1>3 DEF Extends
<1>5. Match(one.events, 1..n)
  <2>1. Match(<<>>, {})
    BY DEF Match
  <2>2. file = SubSeq(file, 0 + 1, n) /\ 0 \in 0..n /\ {} \subseteq 1..0
    BY <1>0
  <2>3. Match(one.events, {} \union (0 + 1)..n)
    BY <1>0, <1>1, <1>3, <2>1, <2>2, MatchMore
  <2>4. {} \union (0 + 1)..n = 1..n
    BY <1>0
  <2> QED BY <2>3, <2>4
<1>6. CASE line.other = <<>>
  <2>1. two = one
    BY <1>6
  <2>2. Extends(one.events, one.events, MaxOther)
    BY <1>0, <1>4 DEF Extends
  <2>3. Len(one.events) <= MaxOther + n
    BY <1>0, <1>4
  <2> HIDE DEF two
  <2>4. /\ two.events \in Seq(Rec) /\ Extends(two.events, one.events, MaxOther)
        /\ Len(two.events) <= MaxOther + n /\ Match(two.events, 1..n)
    BY <1>4, <1>5, <2>1, <2>2, <2>3
  <2> QED BY <1>4, <2>4 DEF one, two
<1>7. CASE line.other # <<>>
  <2> DEFINE es == line.other
  <2>1. /\ es \in Seq(FileEntry) /\ Len(es) <= MaxOther /\ WrittenByApplications(es)
        /\ \A k \in DOMAIN es : IsEvent(es[k]) => es[k].num.num = 0
        /\ Len(es) \in Nat
    BY ViewerAssumption
  <2>2. two = load(one, es, FALSE)
    BY <1>7
  <2> HIDE DEF es, two
  <2>3. /\ Extends(two.events, one.events, Len(es))
        /\ \E m \in 0..Len(es) : EventsOf(two.events, Len(one.events), es, m)
    BY <1>4, <2>1, <2>2, LoadIs
  <2>4. Match(two.events, 1..n)
    BY <1>4, <1>5, <2>1, <2>3, MatchOther
  <2>5. /\ two.events \in Seq(Rec) /\ Extends(two.events, one.events, MaxOther)
        /\ Len(two.events) <= MaxOther + n
    BY <1>0, <1>4, <2>1, <2>3 DEF Extends
  <2> QED BY <1>4, <2>4, <2>5 DEF one, two, es
<1> QED BY <1>6, <1>7

LEMMA StartKeeps ==
  ASSUME Inv, NEW line \in CommandLines, Start(line)
  PROVE  Inv'
<1> DEFINE one == load(Loaded(<<>>), file, half # NoEntry)
           two == IF line.other = <<>> THEN one ELSE load(one, line.other, FALSE)
           order == IF line.sorted THEN "ascending" ELSE "none"
           filtered == CASE two.status # "error" -> applyFilters("none", two.events, NoFilter)
                         [] two.status = "error" /\ line.other # <<>> /\ one.status # "error" ->
                              applyFilters("none", one.events, NoFilter)
                         [] OTHER -> <<>>
<1>0. /\ status = "starting" /\ status' = "running" /\ records' = two.events /\ sort' = order
      /\ shown' = applySorting(order, two.events, filtered) /\ stale' = (two.status = "error")
      /\ read' = DOMAIN file /\ UNCHANGED <<fileVars, filter, ui, keys>>
      /\ tail' = IF line.tailing THEN [tail EXCEPT !.pc = "open", !.running = TRUE] ELSE tail
  BY DEF Start
<1>1. /\ Types /\ tail \in TailType /\ tail.pos <= FileEnd /\ tail.pc = "off" /\ ~tail.running
      /\ filter = NoFilter /\ DOMAIN file = 1..Len(file) /\ Len(file) \in Nat
  BY <1>0 DEF Inv, Types, TailType, StartInv, TailInv
<1>2. /\ one.events \in Seq(Rec) /\ two.events \in Seq(Rec)
      /\ Extends(two.events, one.events, MaxOther)
      /\ Len(two.events) <= MaxOther + Len(file)
      /\ Match(two.events, 1..Len(file))
  BY <1>0, StartLoads
<1> HIDE DEF one, two
<1>3. order \in SortOrders /\ "none" \in SortOrders
  BY DEF SortOrders
<1> HIDE DEF order
<1>4. /\ GoodRows(two.events, filtered)
      /\ two.status # "error" =>
           ToSet(filtered) = {i \in DOMAIN two.events : Accepts(NoFilter, two.events[i])}
  <2>1. CASE two.status # "error"
    <3>1. filtered = applyFilters("none", two.events, NoFilter)
      BY <2>1
    <3> HIDE DEF filtered
    <3> QED BY <3>1, <1>2, <1>3, FiltersIs
  <2>2. CASE two.status = "error" /\ line.other # <<>> /\ one.status # "error"
    <3>1. filtered = applyFilters("none", one.events, NoFilter)
      BY <2>2
    <3> DEFINE t == applyFilters("none", one.events, NoFilter)
    <3>2. GoodRows(one.events, t)
      BY <1>2, <1>3, FiltersIs
    <3> HIDE DEF t
    <3>3. GoodRows(two.events, t)
      BY <3>2, <1>2, Numbers, GoodRowsMore
    <3> QED BY <2>2, <3>1, <3>3 DEF t
  <2>3. CASE two.status = "error" /\ ~(line.other # <<>> /\ one.status # "error")
    <3>1. filtered = <<>>
      BY <2>3
    <3>2. GoodRows(two.events, <<>>)
      BY DEF GoodRows
    <3> QED BY <2>3, <3>1, <3>2
  <2> QED BY <2>1, <2>2, <2>3
<1> HIDE DEF filtered
<1>5. RowsInv'
  <2> DEFINE t == applySorting(order, two.events, filtered)
  <2>1. GoodRows(two.events, t) /\ SortedBy(order, two.events, t) /\ ToSet(t) = ToSet(filtered)
    BY <1>2, <1>3, <1>4, SortingIs
  <2>2. shown' = t /\ filter' = NoFilter
    BY <1>0, <1>1
  <2> HIDE DEF t
  <2> QED BY <2>1, <2>2, <1>0, <1>4 DEF RowsInv, Current
<1>6. tail' \in TailType /\ tail'.pos = tail.pos /\ (tail'.pc = "open" \/ (tail'.pc = "off" /\ ~tail'.running))
  <2>1. CASE line.tailing
    <3>1. tail' = [pc |-> "open", running |-> TRUE, pos |-> tail.pos, eof |-> tail.eof]
      BY <2>1, <1>0, <1>1 DEF TailType
    <3> QED BY <3>1, <1>1 DEF TailType
  <2>2. CASE ~line.tailing
    BY <2>2, <1>0, <1>1
  <2> QED BY <2>1, <2>2
<1>7. Types'
  <2>1. stale' \in BOOLEAN
    BY <1>0, Zenon
  <2> QED BY <2>1, <1>0, <1>1, <1>2, <1>3, <1>6 DEF Types, TailType, fileVars
<1>8. TailInv'
  <2>1. FileEnd' = FileEnd /\ Len(file') = Len(file)
    BY <1>0 DEF FileEnd, fileVars
  <2> QED BY <2>1, <1>0, <1>1, <1>2, <1>6 DEF TailInv
<1>9. RecordsInv'
  <2>1. Match(records', read') /\ file' = file
    BY <1>0, <1>1, <1>2 DEF fileVars
  <2>2. Match(records, read)'
    BY <2>1 DEF Match, Events
  <2>3. RecordsInv' <=> Match(records, read)'
    BY RecordsMatch, PTL
  <2> QED BY <2>2, <2>3
<1>10. StartInv'
  BY <1>0 DEF StartInv
<1>11. FileInv' /\ ReadInv' /\ UiInv'
  BY <1>0, FileFrame, UiFrame DEF Inv, fileVars
<1> QED BY <1>5, <1>7, <1>8, <1>9, <1>10, <1>11 DEF Inv

LEMMA NextKeeps == Inv /\ [Next]_vars => Inv'
<1> SUFFICES ASSUME Inv, [Next]_vars PROVE Inv'
  OBVIOUS
<1>1. CASE WriteHalf
  BY <1>1, WriteHalfKeeps
<1>2. CASE WriteRest
  BY <1>2, WriteRestKeeps
<1>3. CASE Restart
  BY <1>3, RestartKeeps
<1>4. ASSUME NEW line \in CommandLines, Start(line)
      PROVE  Inv'
  BY <1>4, StartKeeps
<1>5. CASE TailThread
  BY <1>5, OpenKeeps, ThreadKeeps, LoadKeeps DEF TailThread
<1>6. CASE DataRace
  BY <1>6, DataRaceKeeps
<1>7. CASE Render
  BY <1>7, RenderKeeps
<1>8. CASE KeyPressed
  BY <1>8, NavigateKeeps, OtherKeysKeep, FilterKeysKeep, CycleSortKeeps DEF KeyPressed
<1>9. CASE Join
  BY <1>9, JoinKeeps
<1>10. CASE UNCHANGED vars
  <2> USE DEF vars, modelVars, fileVars
  <2>1. Types' /\ StartInv'
    BY <1>10 DEF Inv, Types, StartInv
  <2>2. FileInv' /\ ReadInv' /\ TailInv' /\ RecordsInv' /\ RowsInv' /\ UiInv'
    BY <1>10, FileFrame, TailFrame, RecordsFrame, RowsFrame, UiFrame DEF Inv
  <2> QED BY <2>1, <2>2 DEF Inv
<1> QED BY <1>1, <1>2, <1>3, <1>4, <1>5, <1>6, <1>7, <1>8, <1>9, <1>10 DEF Next

LEMMA Invariant == Spec => []Inv
<1>1. Init => Inv
  BY InitInv
<1>2. Inv /\ [Next]_vars => Inv'
  BY NextKeeps
<1> QED BY <1>1, <1>2, PTL DEF Spec

-----------------------------------------------------------------------------
(* What the invariant says *)

LEMMA KeysBound ==
  ASSUME Inv
  PROVE  {ui.selected, ui.scroll} \subseteq 0..(MaxEntries + MaxOther + PageSize * MaxKeys)
<1>1. /\ {ui.selected, ui.scroll, PageSize, MaxEntries, MaxOther, keys, MaxKeys} \subseteq Nat
      /\ keys <= MaxKeys /\ Below(ui.selected) /\ Below(ui.scroll)
  BY Numbers DEF Inv, Types, UiInv
<1>2. PICK d \in Nat : MaxKeys = keys + d
  <2>1. MaxKeys - keys \in Nat /\ MaxKeys = keys + (MaxKeys - keys)
    BY <1>1
  <2> QED BY <2>1
<1>3. /\ PageSize * MaxKeys = PageSize * keys + PageSize * d
      /\ PageSize * keys \in Nat /\ PageSize * d \in Nat
  BY <1>1, <1>2
<1> DEFINE p == PageSize * keys
           q == PageSize * d
<1>4. p \in Nat /\ q \in Nat /\ PageSize * MaxKeys = p + q
      /\ ui.selected <= MaxEntries + MaxOther + p /\ ui.scroll <= MaxEntries + MaxOther + p
  BY <1>1, <1>3 DEF Below
<1> HIDE DEF p, q
<1> QED BY <1>1, <1>4

\* The viewer's state is of its types: each row is a record, the selection stays
\* within the records and the pages of the keys pressed, the thread's position
\* within the file, and a thread that is off or has left was told to stop.
THEOREM ViewerTypes == Spec => []TypeOK
<1>1. Inv => TypeOK
  <2> SUFFICES ASSUME Inv PROVE TypeOK
    OBVIOUS
  <2>1. Types /\ TailInv /\ GoodRows(records, shown)
    BY DEF Inv, RowsInv
  <2>2. half = NoEntry \/ half \in NextEntries
    BY DEF Inv, FileInv
  <2>3. ToSet(shown) \subseteq DOMAIN records
    BY <2>1 DEF GoodRows, ToSet
  <2>4. tail.pos \in 0..FileEnd
    BY <2>1, AtEnd DEF Types, TailInv
  <2>5. tail.pc \in {"off", "open", "loop", "sleep", "load", "left"} /\ ui.pc \in {"ready", "joining", "quitting"}
    BY <2>1 DEF Types
  <2>6. tail.pc \in {"off", "left"} => ~tail.running
    BY <2>1 DEF TailInv
  <2> QED BY <2>1, <2>2, <2>3, <2>4, <2>5, <2>6, KeysBound DEF Types, TypeOK
<1> QED BY <1>1, Invariant, PTL

\* However the file grows and is polled, and whatever is pressed, the records
\* of the live file are the events of the entries that were read, in order.
THEOREM ViewerRecordsAreFile == Spec => []RecordsAreFile
<1>1. Inv => RecordsAreFile
  BY DEF Inv, RecordsInv
<1> QED BY <1>1, Invariant, PTL

\* No restart of the application, and no other file, gives a record the source
\* or the writer of another event.
THEOREM ViewerRecordsOwnSource == Spec => []RecordsOwnSource
<1>1. Inv => RecordsOwnSource
  BY DEF Inv, RecordsInv
<1> QED BY <1>1, Invariant, PTL

\* The rows are those accepted by the filter, in the order chosen, whatever was
\* loaded, filtered and sorted before.
THEOREM ViewerRowsCurrent == Spec => []RowsCurrent
<1>1. Inv => RowsCurrent
  <2> SUFFICES ASSUME Inv, ~stale PROVE RowsCurrent
    BY DEF RowsCurrent
  <2>1. GoodRows(records, shown) /\ SortedBy(sort, records, shown) /\ Current
        /\ records \in Seq(Rec) /\ sort \in SortOrders
    BY DEF Inv, RowsInv, Types
  <2>2. /\ ToSet(shown) = {i \in DOMAIN records : Accepts(filter, records[i])}
        /\ \A i, j \in DOMAIN shown : i # j => shown[i] # shown[j]
    BY <2>1 DEF Current, GoodRows
  <2>3. ASSUME sort # "none", NEW i \in DOMAIN shown, NEW j \in DOMAIN shown, i < j
        PROVE  LET a == records[shown[i]].num.time
                   b == records[shown[j]].num.time
               IN  \/ IF sort = "ascending" THEN a < b ELSE a > b
                   \/ a = b /\ shown[i] < shown[j]
    <3> DEFINE a == records[shown[i]].num.time
               b == records[shown[j]].num.time
    <3>1. shown[i] \in DOMAIN records /\ shown[j] \in DOMAIN records
      BY <2>1 DEF GoodRows
    <3>2. a \in Nat /\ b \in Nat /\ Time(records, shown[i]) = a /\ Time(records, shown[j]) = b
      BY <2>1, <3>1, TimeNat DEF Time
    <3>3. a = b => shown[i] < shown[j]
      BY <2>1, <2>3, <3>2 DEF GoodRows
    <3>4. CASE sort = "ascending"
      <4>1. a <= b
        BY <2>1, <2>3, <3>2, <3>4 DEF SortedBy
      <4> HIDE DEF a, b
      <4>2. (IF sort = "ascending" THEN a < b ELSE a > b) \/ (a = b /\ shown[i] < shown[j])
        BY <4>1, <3>2, <3>3, <3>4
      <4> QED BY <4>2 DEF a, b
    <3>5. CASE sort = "descending"
      <4>1. b <= a
        BY <2>1, <2>3, <3>2, <3>5 DEF SortedBy
      <4> HIDE DEF a, b
      <4>2. (IF sort = "ascending" THEN a < b ELSE a > b) \/ (a = b /\ shown[i] < shown[j])
        BY <4>1, <3>2, <3>3, <3>5
      <4> QED BY <4>2 DEF a, b
    <3> QED BY <2>1, <2>3, <3>4, <3>5 DEF SortOrders
  <2> QED BY <2>2, <2>3 DEF RowsCurrent
<1> QED BY <1>1, Invariant, PTL

\* Whatever the rows were reduced to since the last drawing, what is drawn has
\* the selected row.
THEOREM ViewerSelectionDrawn == Spec => SelectionDrawn
<1>1. Inv /\ [Next]_vars =>
        [ Render /\ shown # <<>> =>
          /\ ui'.selected < Len(shown)
          /\ ui'.scroll <= ui'.selected /\ ui'.selected < ui'.scroll + Rows ]_vars
  <2> SUFFICES ASSUME Inv, Render, shown # <<>>
               PROVE  /\ ui'.selected < Len(shown)
                      /\ ui'.scroll <= ui'.selected /\ ui'.selected < ui'.scroll + Rows
    OBVIOUS
  <2>1. Types /\ Len(shown) \in Nat /\ Len(shown) > 0
    <3>1. shown \in Seq(Nat)
      BY DEF Inv, RowsInv, GoodRows
    <3> QED BY <3>1 DEF Inv
  <2> QED BY <2>1, RenderIs
<1> QED BY <1>1, Invariant, PTL DEF Spec, SelectionDrawn

LEMMA ModWord ==
  /\ \A x \in Nat : x < Word => x % Word = x
  /\ (-1) % Word = Word - 1
<1>1. Word \in Nat /\ Word > 0
  BY Numbers
<1>2. ASSUME NEW x \in Nat, x < Word
      PROVE  x % Word = x
  BY <1>1, <1>2
<1>3. \A w \in Nat : w > 0 => (-1) % w = w - 1
  OBVIOUS
<1> QED BY <1>1, <1>2, <1>3

\* The subtraction of std::size_t values wraps around when there was no event,
\* and the tail thread still moves no selection but the last event's.
THEOREM ViewerScrollsFromLast == Spec => ScrollsFromLast
<1> DEFINE A == Load /\ Len(shown) = Len(records) /\ Len(shown') = Len(records')
                  /\ Len(records') > Len(records) =>
                ui'.selected = IF Len(shown) > 0 /\ ui.selected >= Len(shown) - 1
                               THEN Len(shown') - 1 ELSE ui.selected
<1>1. Inv /\ [Next]_vars => [A]_vars
  <2> SUFFICES ASSUME Inv, Load, Len(shown) = Len(records), Len(shown') = Len(records'),
                      Len(records') > Len(records)
               PROVE  ui'.selected = IF Len(shown) > 0 /\ ui.selected >= Len(shown) - 1
                                     THEN Len(shown') - 1 ELSE ui.selected
    OBVIOUS
  <2> DEFINE L == load(Loaded(records), SubSeq(file, tail.pos \div 2 + 1, Len(file)), half # NoEntry)
             added == Len(L.events) - Len(records)
  <2>1. /\ Types /\ ui \in UiType /\ ui.selected \in Nat /\ Len(records) \in Nat
        /\ {MaxEntries, MaxOther, PageSize, MaxKeys, Word} \subseteq Nat
        /\ Len(records) \in 0..(MaxEntries + MaxOther)
    BY Numbers, RowsBound DEF Inv, Types, UiType
  <2>2. records' # records
    BY <2>1
  <2>3. /\ records' = L.events
        /\ ui' = [ui EXCEPT !.selected = IF added = 0 THEN @ ELSE autoScroll(@, Len(shown'), added)]
    BY <2>2 DEF Load, loadPosition
  <2>4. Len(records') \in Nat
    <3>1. tail.pc = "load"
      BY DEF Load
    <3>2. L.events \in Seq(Rec)
      BY <3>1, LoadResult
    <3> HIDE DEF L
    <3> QED BY <2>3, <3>2
  <2> DEFINE n == Len(records)
             m == Len(records')
             s == ui.selected
  <2> HIDE DEF L
  <2>5. ui'.selected = autoScroll(s, m, m - n)
    <3>1. added = m - n /\ added # 0
      BY <2>1, <2>3, <2>4
    <3> HIDE DEF added, n, m
    <3> QED BY <2>1, <2>3, <3>1 DEF UiType, m
  <2>6. n \in Nat /\ m \in Nat /\ m > n /\ s \in Nat
    BY <2>1, <2>4
  <2>7. m - (m - n) - 1 = n - 1
    BY <2>6
  <2>8. PageSize * MaxKeys \in Nat /\ s <= MaxEntries + MaxOther + PageSize * MaxKeys
        /\ n <= MaxEntries + MaxOther
    BY <2>1, KeysBound
  <2>9. s < Word - 1 /\ n < Word
    BY <2>1, <2>6, <2>8, Numbers
  <2>10. (n - 1) % Word = IF n = 0 THEN Word - 1 ELSE n - 1
    <3>1. CASE n = 0
      BY <3>1, ModWord
    <3>2. CASE n # 0
      <4>1. n - 1 \in Nat /\ n - 1 < Word
        BY <3>2, <2>1, <2>6, <2>9
      <4> QED BY <3>2, <4>1, ModWord
    <3> QED BY <3>1, <3>2
  <2>11. Len(shown) = n /\ Len(shown') = m
    OBVIOUS
  <2> HIDE DEF n, m, s
  <2>12. autoScroll(s, m, m - n) = IF n > 0 /\ s >= n - 1 THEN m - 1 ELSE s
    <3>1. CASE n = 0
      BY <3>1, <2>1, <2>6, <2>7, <2>9, <2>10 DEF autoScroll
    <3>2. CASE n # 0
      <4>1. m > 0 /\ n > 0 /\ (m - (m - n) - 1) % Word = n - 1
        BY <3>2, <2>6, <2>7, <2>10
      <4> QED BY <4>1 DEF autoScroll
    <3> QED BY <3>1, <3>2
  <2> QED BY <2>5, <2>11, <2>12 DEF s
<1> HIDE DEF A
<1>2. Spec => [][A]_vars
  BY <1>1, Invariant, PTL DEF Spec
<1> QED BY <1>2 DEF A, ScrollsFromLast

-----------------------------------------------------------------------------
(* The output of an EventFilter, when the file is its input *)

FilterOf(es) == FoldLeft(filterFile, NewFilter, es)
Kept(recs)   == FoldLeft(keepAllowed, <<>>, recs)

LEMMA FilterOneMore ==
  ASSUME NEW es \in Seq(FileEntry), NEW e \in FileEntry
  PROVE  FilterOf(Append(es, e)) = filterFile(FilterOf(es), e)
<1>1. \A s : FilterOf(s) = FilterFolds!Fold(NewFilter, s)
  BY DEF FilterOf, FoldLeft, MapThenFoldSet, Max,
         FilterFolds!Fold, FilterFolds!TheFold, FilterFolds!IsFold, FilterFolds!Max
<1>2. FilterFolds!Fold(NewFilter, Append(es, e)) = filterFile(FilterFolds!Fold(NewFilter, es), e)
  BY FilterFolds!FoldAppend
<1> QED BY <1>1, <1>2

LEMMA FilterNothing == FilterOf(<<>>) = NewFilter
<1>1. \A s : FilterOf(s) = FilterFolds!Fold(NewFilter, s)
  BY DEF FilterOf, FoldLeft, MapThenFoldSet, Max,
         FilterFolds!Fold, FilterFolds!TheFold, FilterFolds!IsFold, FilterFolds!Max
<1> QED BY <1>1, FilterFolds!FoldEmpty

LEMMA KeptOneMore ==
  ASSUME NEW recs \in Seq(Rec), NEW x \in Rec
  PROVE  Kept(Append(recs, x)) = IF x.src \in Allows THEN Append(Kept(recs), x) ELSE Kept(recs)
<1>1. \A s : Kept(s) = KeepFolds!Fold(<<>>, s)
  BY DEF Kept, FoldLeft, MapThenFoldSet, Max,
         KeepFolds!Fold, KeepFolds!TheFold, KeepFolds!IsFold, KeepFolds!Max
<1>2. KeepFolds!Fold(<<>>, Append(recs, x)) = keepAllowed(KeepFolds!Fold(<<>>, recs), x)
  BY KeepFolds!FoldAppend
<1> QED BY <1>1, <1>2 DEF keepAllowed

LEMMA KeptNothing == Kept(<<>>) = <<>>
<1>1. \A s : Kept(s) = KeepFolds!Fold(<<>>, s)
  BY DEF Kept, FoldLeft, MapThenFoldSet, Max,
         KeepFolds!Fold, KeepFolds!TheFold, KeepFolds!IsFold, KeepFolds!Max
<1> QED BY <1>1, KeepFolds!FoldEmpty

\* The streams that have read the output q and the input r are in the same state,
\* with the allowed events; the filter f allows the sources it is to allow.
Twins(f, q, r, srcs) ==
  /\ f = [allowed |-> f.allowed, out |-> f.out]
  /\ f.allowed = {id \in DOMAIN srcs : srcs[id] \in Allows}
  /\ f.out \in Seq(FileEntry)
  /\ Fine(q) /\ Fine(r) /\ q.sources = r.sources /\ q.writer = r.writer
  /\ \A id \in DOMAIN srcs : Lookup(r.sources, id) = Some(srcs[id])
  /\ q.events = Kept(r.events)

FilterInv ==
  app.restarts = 0 =>
    Twins(FilterOf(file), readAll(NewReader, FilterOf(file).out), readAll(NewReader, file), app.sources)

\* What the filter does to one entry.
LEMMA FilterEntryIs ==
  ASSUME NEW f, f = [allowed |-> f.allowed, out |-> f.out], NEW e \in FileEntry
  PROVE  LET F == filterFile(f, e)
         IN  /\ F = [allowed |-> F.allowed, out |-> F.out]
             /\ e.kind # "event" \/ e.id \in f.allowed => F.out = Append(f.out, e)
             /\ e.kind = "source" /\ e.src \in Allows => F.allowed = f.allowed \union {e.id}
             /\ ~(e.kind = "source" /\ e.src \in Allows) => F.allowed = f.allowed
             /\ e.kind = "event" /\ e.id \notin f.allowed => F = f
<1>1. PICK o : o = Append(f.out, e)
  OBVIOUS
<1>2. PICK a : a = f.allowed \union {e.id}
  OBVIOUS
<1>3. CASE e.kind = "source" /\ e.src \in Allows
  <2>1. filterFile(f, e) = [allowed |-> a, out |-> o]
    BY <1>1, <1>2, <1>3 DEF filterFile, filterEntry
  <2> QED BY <2>1, <1>1, <1>2, <1>3
<1>4. CASE ~(e.kind = "source" /\ e.src \in Allows) /\ (e.kind # "event" \/ e.id \in f.allowed)
  <2>1. filterFile(f, e) = [f EXCEPT !.out = o]
    BY <1>1, <1>4 DEF filterFile, filterEntry
  <2>2. [f EXCEPT !.out = o] = [allowed |-> f.allowed, out |-> o]
    OBVIOUS
  <2>3. filterFile(f, e) = [allowed |-> f.allowed, out |-> o]
    BY <2>1, <2>2
  <2> QED BY <2>3, <1>1, <1>4
<1>5. CASE e.kind = "event" /\ e.id \notin f.allowed
  <2>1. filterFile(f, e) = f
    BY <1>5 DEF filterFile, filterEntry
  <2> QED BY <2>1, <1>5
<1> QED BY <1>3, <1>4, <1>5

LEMMA TwinsSource ==
  ASSUME NEW srcs \in Seq(Nat), NEW f, NEW q, NEW r, Twins(f, q, r, srcs),
         NEW e \in FileEntry, e.kind = "source", e.id = Len(srcs) + 1
  PROVE  /\ filterFile(f, e).out = Append(f.out, e)
         /\ Twins(filterFile(f, e), readEntry(q, e), readEntry(r, e), Append(srcs, e.src))
<1> DEFINE F == filterFile(f, e)
           Q == readEntry(q, e)
           R == readEntry(r, e)
           S == Append(srcs, e.src)
           n == Len(srcs)
           o == Append(f.out, e)
           A(s) == {id \in DOMAIN s : s[id] \in Allows}
<1>0. e.id \in Nat /\ e.src \in Nat
  BY EntryKinds
<1>1. /\ n \in Nat /\ DOMAIN srcs = 1..n /\ DOMAIN S = 1..(n + 1) /\ S[n + 1] = e.src
      /\ \A i \in 1..n : S[i] = srcs[i]
  BY <1>0
<1>2. f = [allowed |-> f.allowed, out |-> f.out] /\ f.allowed = A(srcs) /\ o \in Seq(FileEntry)
  BY DEF Twins
<1>3. A(S) = A(srcs) \union {id \in {e.id} : e.src \in Allows}
  <2>1. A(S) = {id \in 1..(n + 1) : S[id] \in Allows} /\ A(srcs) = {id \in 1..n : srcs[id] \in Allows}
    BY <1>1
  <2> HIDE DEF S, A, n
  <2> QED BY <2>1, <1>1 DEF n
<1>4. F = [allowed |-> F.allowed, out |-> F.out] /\ F.out = o /\ F.allowed = A(S)
  <2>1. /\ F = [allowed |-> F.allowed, out |-> F.out] /\ F.out = o
        /\ F.allowed = IF e.src \in Allows THEN f.allowed \union {e.id} ELSE f.allowed
    BY <1>2, FilterEntryIs
  <2> HIDE DEF F, A
  <2> QED BY <2>1, <1>2, <1>3
<1>5. Fine(q) /\ Fine(r) /\ q.sources = r.sources /\ q.writer = r.writer
  BY DEF Twins
<1>6. Fine(Q) /\ Q.events = q.events /\ Q.writer = q.writer /\ Q.sources = emplace(q.sources, e.id, e.src)
  BY <1>5, ReadsSource
<1>7. /\ Fine(R) /\ R.events = r.events /\ R.writer = r.writer
      /\ R.sources = emplace(r.sources, e.id, e.src)
      /\ \A k \in Nat : Lookup(R.sources, k) = IF k = e.id THEN Some(e.src) ELSE Lookup(r.sources, k)
  BY <1>5, ReadsSource
<1> HIDE DEF F, Q, R, S, o, A
<1>8. \A id \in DOMAIN S : Lookup(R.sources, id) = Some(S[id])
  <2> SUFFICES ASSUME NEW id \in 1..(n + 1) PROVE Lookup(R.sources, id) = Some(S[id])
    BY <1>1
  <2>1. CASE id = n + 1
    BY <2>1, <1>0, <1>1, <1>7
  <2>2. CASE id # n + 1
    <3>1. id \in 1..n /\ id \in Nat /\ id # e.id
      BY <2>2, <1>1
    <3>2. Lookup(r.sources, id) = Some(srcs[id])
      BY <3>1, <1>1 DEF Twins
    <3> QED BY <3>1, <3>2, <1>1, <1>7
  <2> QED BY <2>1, <2>2
<1>9. Q.events = Kept(R.events)
  BY <1>6, <1>7 DEF Twins
<1>10. Twins(F, Q, R, S)
  BY <1>2, <1>5, <1>6, <1>7, <1>4, <1>8, <1>9 DEF Twins, A
<1> QED BY <1>4, <1>10 DEF F, Q, R, S, o

LEMMA TwinsWriter ==
  ASSUME NEW srcs, NEW f, NEW q, NEW r, Twins(f, q, r, srcs), NEW e \in FileEntry, e.kind = "writer"
  PROVE  /\ filterFile(f, e).out = Append(f.out, e)
         /\ Twins(filterFile(f, e), readEntry(q, e), readEntry(r, e), srcs)
<1> DEFINE F == filterFile(f, e)
           Q == readEntry(q, e)
           R == readEntry(r, e)
           o == Append(f.out, e)
           a == {id \in DOMAIN srcs : srcs[id] \in Allows}
<1>1. /\ f = [allowed |-> f.allowed, out |-> f.out] /\ f.allowed = a /\ o \in Seq(FileEntry)
      /\ Fine(q) /\ Fine(r) /\ q.sources = r.sources
  BY DEF Twins
<1>2. F = [allowed |-> F.allowed, out |-> F.out] /\ F.out = o /\ F.allowed = a
  BY <1>1, FilterEntryIs
<1>3. Fine(Q) /\ Q.events = q.events /\ Q.sources = q.sources /\ Q.writer = e.name
  BY <1>1, ReadsWriter
<1>4. Fine(R) /\ R.events = r.events /\ R.sources = r.sources /\ R.writer = e.name
  BY <1>1, ReadsWriter
<1> HIDE DEF F, Q, R, a
<1> HIDE DEF o
<1>5. Twins(F, Q, R, srcs)
  BY <1>1, <1>2, <1>3, <1>4 DEF Twins, a
<1> QED BY <1>2, <1>5 DEF F, Q, R, o
\* An event of a source that is read, when it is allowed, and when it is not.
LEMMA TwinsEvent ==
  ASSUME NEW srcs \in Seq(Nat), NEW f, NEW q, NEW r, Twins(f, q, r, srcs),
         NEW e \in FileEntry, e.kind = "event", e.id \in DOMAIN srcs
  PROVE  LET Q == IF srcs[e.id] \in Allows THEN readEntry(q, e) ELSE q
         IN  /\ filterFile(f, e).out = IF srcs[e.id] \in Allows THEN Append(f.out, e) ELSE f.out
             /\ Twins(filterFile(f, e), Q, readEntry(r, e), srcs)
<1> DEFINE F == filterFile(f, e)
           R == readEntry(r, e)
           v == srcs[e.id]
           x == RecordOf(e, v, r)
           a == {id \in DOMAIN srcs : srcs[id] \in Allows}
<1>0. e.id \in Nat /\ v \in Nat /\ (e.id \in a <=> v \in Allows)
  OBVIOUS
<1>1. /\ f = [allowed |-> f.allowed, out |-> f.out] /\ f.allowed = a /\ f.out \in Seq(FileEntry)
      /\ Fine(q) /\ Fine(r) /\ q.sources = r.sources /\ q.writer = r.writer
      /\ Lookup(r.sources, e.id) = Some(v) /\ q.events = Kept(r.events)
  BY DEF Twins
<1>2. /\ Fine(R) /\ R.sources = r.sources /\ R.writer = r.writer
      /\ R.events = Append(r.events, x) /\ x \in Rec
  BY <1>0, <1>1, ReadsEvent
<1>3. r.events \in Seq(Rec)
  BY <1>1 DEF Fine, Reader
<1>4. Kept(R.events) = IF v \in Allows THEN Append(q.events, x) ELSE q.events
  <2>1. x.src = v
    BY DEF RecordOf
  <2> HIDE DEF x, v, R
  <2> QED BY <2>1, <1>1, <1>2, <1>3, KeptOneMore
<1>5. CASE v \in Allows
  <2> DEFINE Q == readEntry(q, e)
             o == Append(f.out, e)
  <2>1. /\ Fine(Q) /\ Q.sources = q.sources /\ Q.writer = q.writer
        /\ Q.events = Append(q.events, RecordOf(e, v, q))
    BY <1>0, <1>1, ReadsEvent
  <2>2. RecordOf(e, v, q) = x
    <3>1. q.clock = NoClock /\ r.clock = NoClock
      BY <1>1 DEF Fine, Reader
    <3> QED BY <3>1, <1>1 DEF RecordOf
  <2>3. F = [allowed |-> F.allowed, out |-> F.out] /\ F.out = o /\ F.allowed = a
    BY <1>0, <1>1, <1>5, FilterEntryIs
  <2>4. o \in Seq(FileEntry)
    BY <1>1
  <2> HIDE DEF F, Q, R, a, v, x
  <2> HIDE DEF o
  <2>7. Q.events = Kept(R.events)
    BY <2>1, <2>2, <1>4, <1>5
  <2>8. \A id \in DOMAIN srcs : Lookup(R.sources, id) = Some(srcs[id])
    BY <1>2 DEF Twins
  <2>9. Twins(F, Q, R, srcs)
    BY <1>1, <1>2, <2>1, <2>3, <2>4, <2>7, <2>8 DEF Twins, a
  <2> QED BY <1>5, <2>3, <2>9 DEF F, Q, R, o, v
<1>6. CASE v \notin Allows
  <2>1. F = f
    BY <1>0, <1>1, <1>6, FilterEntryIs
  <2> HIDE DEF F, R, a, v, x
  <2>2. \A id \in DOMAIN srcs : Lookup(R.sources, id) = Some(srcs[id])
    BY <1>2 DEF Twins
  <2>3. q.events = Kept(R.events)
    BY <1>4, <1>6
  <2>4. Twins(f, q, R, srcs)
    BY <1>1, <1>2, <2>2, <2>3 DEF Twins, a
  <2> QED BY <1>6, <2>1, <2>4 DEF F, R, v
<1> QED BY <1>5, <1>6

\* Only these steps change the file, or what the application knows.
LEMMA FileLeft ==
  [Next]_vars => WriteRest \/ Restart \/ (file' = file /\ app' = app)
<1> USE DEF fileVars, vars
<1>1. WriteHalf => file' = file /\ app' = app
  BY DEF WriteHalf
<1>2. \A line \in CommandLines : Start(line) => file' = file /\ app' = app
  BY DEF Start
<1>3. TailThread => file' = file /\ app' = app
  BY DEF TailThread, Open, Sleep, Poll, Load, Leave
<1>4. DataRace \/ Render \/ Join => file' = file /\ app' = app
  BY DEF DataRace, Render, Join
<1>5. Key => file' = file /\ app' = app
  BY DEF Key
<1>6. KeyPressed => Key
  BY DEF KeyPressed, Navigate, BeginInput, CancelInput, CommitInput, CycleSeverity, ResetFilters,
         CycleSort, ToggleTail, Quit
<1> QED BY <1>1, <1>2, <1>3, <1>4, <1>5, <1>6 DEF Next

LEMMA FilterWritten ==
  ASSUME Inv, FilterInv, WriteRest, app'.restarts = 0
  PROVE  Twins(FilterOf(file'), readAll(NewReader, FilterOf(file').out),
               readAll(NewReader, file'), app'.sources)
<1> DEFINE e == half
           f == FilterOf(file)
           q == readAll(NewReader, f.out)
           r == readAll(NewReader, file)
           F == filterFile(f, e)
<1>0. /\ e \in NextEntries /\ file' = Append(file, e) /\ file \in Seq(FileEntry)
      /\ app \in [sources : Seq(Nat), writer : Nat, restarts : Nat]
      /\ app' = CASE e.kind = "source" -> [app EXCEPT !.sources = Append(@, e.src)]
                  [] e.kind = "writer" -> [app EXCEPT !.writer = e.name]
                  [] e.kind = "event"  -> app
  BY DEF WriteRest, Inv, FileInv, Types
<1>1. /\ e \in FileEntry
      /\ \/ e.kind = "source" /\ e.id = Len(app.sources) + 1
         \/ e.kind = "writer"
         \/ e.kind = "event" /\ e.id \in DOMAIN app.sources
  BY <1>0, NextEntryTypes DEF Inv
<1>2. app.restarts = 0 /\ app.sources \in Seq(Nat)
      /\ app'.sources = IF e.kind = "source" THEN Append(app.sources, e.src) ELSE app.sources
  BY <1>0, <1>1
<1>3. Twins(f, q, r, app.sources) /\ f.out \in Seq(FileEntry)
  BY <1>2 DEF FilterInv, Twins
<1>4. FilterOf(file') = F /\ readAll(NewReader, file') = readEntry(r, e)
  BY <1>0, <1>1, FilterOneMore, ReadOneMore
<1>5. readAll(NewReader, Append(f.out, e)) = readEntry(q, e)
  BY <1>1, <1>3, ReadOneMore
<1> HIDE DEF f, q, r, F, e
<1>6. CASE e.kind = "source"
  <2>1. F.out = Append(f.out, e) /\ Twins(F, readEntry(q, e), readEntry(r, e), app'.sources)
    BY <1>1, <1>2, <1>3, <1>6, TwinsSource DEF F
  <2> QED BY <2>1, <1>4, <1>5
<1>7. CASE e.kind = "writer"
  <2>1. F.out = Append(f.out, e) /\ Twins(F, readEntry(q, e), readEntry(r, e), app'.sources)
    BY <1>1, <1>2, <1>3, <1>7, TwinsWriter DEF F
  <2> QED BY <2>1, <1>4, <1>5
<1>8. CASE e.kind = "event"
  <2>1. e.id \in DOMAIN app.sources /\ app'.sources = app.sources
    BY <1>1, <1>2, <1>8
  <2>2. LET Q == IF app.sources[e.id] \in Allows THEN readEntry(q, e) ELSE q
        IN  /\ F.out = IF app.sources[e.id] \in Allows THEN Append(f.out, e) ELSE f.out
            /\ Twins(F, Q, readEntry(r, e), app.sources)
    BY <1>1, <1>2, <1>3, <1>8, <2>1, TwinsEvent DEF F
  <2>3. readAll(NewReader, F.out) = IF app.sources[e.id] \in Allows THEN readEntry(q, e) ELSE q
    BY <2>2, <1>5 DEF q
  <2> QED BY <2>1, <2>2, <2>3, <1>4
<1> QED BY <1>1, <1>6, <1>7, <1>8

LEMMA FilterKeeps == Inv /\ FilterInv /\ [Next]_vars => FilterInv'
<1> SUFFICES ASSUME Inv, FilterInv, [Next]_vars, app'.restarts = 0
             PROVE  Twins(FilterOf(file'), readAll(NewReader, FilterOf(file').out),
                          readAll(NewReader, file'), app'.sources)
  BY DEF FilterInv, FilterOf
<1>1. CASE WriteRest
  BY <1>1, FilterWritten
<1>2. CASE Restart
  <2>1. app.restarts \in Nat /\ app'.restarts = app.restarts + 1
    BY <1>2 DEF Restart, Inv, Types
  <2> QED BY <2>1
<1>3. CASE file' = file /\ app' = app
  BY <1>3 DEF FilterInv
<1> QED BY <1>1, <1>2, <1>3, FileLeft

LEMMA FilterInit == Init => FilterInv
<1> SUFFICES ASSUME Init PROVE FilterInv
  OBVIOUS
<1>1. file = <<>> /\ app.sources = <<>>
  BY DEF Init
<1>2. FilterOf(<<>>) = [allowed |-> {}, out |-> <<>>]
  BY FilterNothing DEF NewFilter
<1>3. readAll(NewReader, <<>>) = NewReader
  BY ReadNothing
<1>4. Fine(NewReader) /\ NewReader.events = <<>>
  <2>1. NewReader.events = <<>> /\ <<>> \in Seq(Rec)
    BY DEF NewReader
  <2>2. [NewReader EXCEPT !.events = <<>>] = NewReader
    BY DEF NewReader
  <2>3. Fine([NewReader EXCEPT !.events = <<>>])
    BY <2>1, NewReaderFine
  <2> QED BY <2>1, <2>2, <2>3
<1>5. Twins([allowed |-> {}, out |-> <<>>], NewReader, NewReader, <<>>)
  <2>1. {id \in DOMAIN <<>> : <<>>[id] \in Allows} = {} /\ \A id \in DOMAIN <<>> : FALSE
    OBVIOUS
  <2>2. <<>> \in Seq(FileEntry)
    OBVIOUS
  <2> QED BY <2>1, <2>2, <1>4, KeptNothing DEF Twins
<1>6. [allowed |-> {}, out |-> <<>>].out = <<>>
  OBVIOUS
<1> QED BY <1>1, <1>2, <1>3, <1>5, <1>6 DEF FilterInv

\* The output of an EventFilter has the events of the allowed sources, with the
\* properties they have in its input, whatever one run of the application wrote.
THEOREM ViewerFilteredStream == Spec => []FilteredStream
<1>1. FilterInv => FilteredStream
  BY DEF FilterInv, Twins, FilteredStream, Filtered, FilterOf, Kept
<1> QED BY <1>1, Invariant, FilterInit, FilterKeeps, PTL DEF Spec

=============================================================================
