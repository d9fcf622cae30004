----------------------------- MODULE StreamsProofs -----------------------------
(***************************************************************************)
(* SegmentedMap is a map; reading one sequence of entries behind another   *)
(* is reading the second with the stream that the first one left; and the  *)
(* stable sort is sorted, stable, and has what was to be sorted.           *)
(*                                                                         *)
(* The segments are sorted and disjoint, and for every key one of them is  *)
(* the last that does not begin after it; so the search of segmentIndex    *)
(* is defined, and finds the only segment that can hold the key.           *)
(***************************************************************************)
EXTENDS SequenceTheorems, Streams, StableSort, TLAPS
LOCAL INSTANCE SequencesExt

Reading == INSTANCE FoldProofs WITH op <- readEntry
Sorting == INSTANCE FoldProofs WITH op <- insertRow

-----------------------------------------------------------------------------
(* SegmentedMap *)

\* Segment i is the last one that does not begin after the key.
IsLast(o, key, i) == o[i] <= key /\ (i < Len(o) => key < o[i + 1])

\* Offsets o and segments g of a map.
WellFormed(o, g) ==
  /\ Len(o) = Len(g) /\ Len(o) >= 1
  /\ \A i, j \in 1..Len(o) : i < j => o[i] < o[j]
  /\ \A i, j \in 1..Len(o) : i < j => o[i] + Len(g[i]) <= o[j]
  /\ \A key \in Nat : \E i \in 1..Len(o) : IsLast(o, key, i)

Map(o, g) == [offsets |-> o, segments |-> g]

\* The result of a lookup.
Some(x) == <<x>>
None    == <<>>
Lookup(m, key) == IF has(m, key) THEN Some(find(m, key)) ELSE None

\* The map with offsets q and segments h is what emplace makes of m.
Emplaced(m, key, value, q, h) ==
  /\ emplace(m, key, value) = Map(q, h)
  /\ WellFormed(q, h)
  /\ \A k \in Nat : Lookup(Map(q, h), k) = IF k = key THEN Some(value) ELSE Lookup(m, k)

\* What InsertAt of the community modules gives.
LEMMA InsertAfter ==
  ASSUME NEW S, NEW s \in Seq(S), NEW p \in 0..Len(s), NEW x \in S
  PROVE  /\ InsertAt(s, p + 1, x) \in Seq(S)
         /\ Len(InsertAt(s, p + 1, x)) = Len(s) + 1
         /\ \A k \in 1..p : InsertAt(s, p + 1, x)[k] = s[k]
         /\ InsertAt(s, p + 1, x)[p + 1] = x
         /\ \A k \in (p + 1)..Len(s) : InsertAt(s, p + 1, x)[k + 1] = s[k]
<1> DEFINE i == p + 1
<1>i. i = p + 1
  OBVIOUS
<1>0. Len(s) \in Nat /\ i \in 1..(Len(s) + 1) /\ i - 1 = p
  OBVIOUS
<1> HIDE DEF i
<1> DEFINE a == SubSeq(s, 1, i - 1)
           b == SubSeq(s, i, Len(s))
<1>1. a \in Seq(S) /\ Len(a) = i - 1 /\ \A k \in 1..(i - 1) : a[k] = s[k]
  BY <1>0, SubSeqProperties
<1>2. b \in Seq(S) /\ Len(b) = Len(s) + 1 - i /\ \A k \in 1..(Len(s) + 1 - i) : b[k] = s[i + k - 1]
  BY <1>0, SubSeqProperties
<1>3. InsertAt(s, i, x) = a \o <<x>> \o b
  BY DEF InsertAt
<1> HIDE DEF a, b
<1>4. <<x>> \in Seq(S) /\ Len(<<x>>) = 1 /\ <<x>>[1] = x
  OBVIOUS
<1> DEFINE c == a \o <<x>>
<1>5. /\ c \in Seq(S) /\ Len(c) = i
      /\ \A k \in 1..(i - 1) : c[k] = s[k]
      /\ c[i] = x
  <2>1. c \in Seq(S)
    BY <1>1, <1>4, ConcatProperties
  <2>2. /\ Len(c) = Len(a) + Len(<<x>>)
        /\ \A k \in 1..(Len(a) + Len(<<x>>)) :
             c[k] = IF k <= Len(a) THEN a[k] ELSE <<x>>[k - Len(a)]
    BY <1>1, <1>4, ConcatProperties
  <2> HIDE DEF c
  <2>3. Len(c) = i
    BY <2>2, <1>0, <1>1, <1>4
  <2>4. ASSUME NEW k \in 1..(i - 1)
        PROVE  c[k] = s[k]
    BY <2>2, <1>0, <1>1, <1>4
  <2>5. c[i] = x
    <3>1. i \in 1..(Len(a) + Len(<<x>>)) /\ ~(i <= Len(a)) /\ i - Len(a) = 1
      BY <1>0, <1>1, <1>4
    <3> QED
      BY <3>1, <2>2, <1>4
  <2> QED
    BY <2>1, <2>3, <2>4, <2>5
<1> HIDE DEF c
<1>6. /\ c \o b \in Seq(S) /\ Len(c \o b) = Len(s) + 1
      /\ \A k \in 1..(Len(s) + 1) : (c \o b)[k] = IF k <= i THEN c[k] ELSE b[k - i]
  <2>1. c \o b \in Seq(S)
    BY <1>2, <1>5, ConcatProperties
  <2>2. /\ Len(c \o b) = Len(c) + Len(b)
        /\ \A k \in 1..(Len(c) + Len(b)) : (c \o b)[k] = IF k <= Len(c) THEN c[k] ELSE b[k - Len(c)]
    BY <1>2, <1>5, ConcatProperties
  <2>3. Len(c) + Len(b) = Len(s) + 1
    BY <1>0, <1>2, <1>5
  <2> QED
    BY <2>1, <2>2, <2>3, <1>5
<1>7. InsertAt(s, i, x) = c \o b
  BY <1>3 DEF c
<1>8. ASSUME NEW k \in i..Len(s)
      PROVE  (c \o b)[k + 1] = s[k]
  <2>1. /\ k + 1 \in 1..(Len(s) + 1) /\ ~(k + 1 <= i) /\ (k + 1) - i \in 1..(Len(s) + 1 - i)
        /\ i + ((k + 1) - i) - 1 = k
    BY <1>0
  <2> QED
    BY <2>1, <1>2, <1>6
<1>9. ASSUME NEW k \in 1..i
      PROVE  (c \o b)[k] = c[k]
  <2>1. k \in 1..(Len(s) + 1) /\ k <= i
    BY <1>0
  <2> QED
    BY <2>1, <1>6
<1>10. ASSUME NEW k \in 1..p
       PROVE  (c \o b)[k] = s[k]
  <2>1. k \in 1..i /\ k \in 1..(i - 1)
    BY <1>0
  <2> QED
    BY <2>1, <1>5, <1>9
<1>11. (c \o b)[i] = x
  <2>1. i \in 1..i
    BY <1>0
  <2> QED
    BY <2>1, <1>5, <1>9
<1> HIDE DEF c
<1> QED
  BY <1>i, <1>6, <1>7, <1>8, <1>10, <1>11

\* The same, one by one.
LEMMA InsertAfterType ==
  ASSUME NEW S, NEW s \in Seq(S), NEW p \in 0..Len(s), NEW x \in S
  PROVE  InsertAt(s, p + 1, x) \in Seq(S) /\ Len(InsertAt(s, p + 1, x)) = Len(s) + 1
BY InsertAfter

LEMMA InsertAfterBefore ==
  ASSUME NEW S, NEW s \in Seq(S), NEW p \in 0..Len(s), NEW x \in S, NEW k \in 1..p
  PROVE  InsertAt(s, p + 1, x)[k] = s[k]
BY InsertAfter

LEMMA InsertAfterItself ==
  ASSUME NEW S, NEW s \in Seq(S), NEW p \in 0..Len(s), NEW x \in S
  PROVE  InsertAt(s, p + 1, x)[p + 1] = x
BY InsertAfter

LEMMA InsertAfterBehind ==
  ASSUME NEW S, NEW s \in Seq(S), NEW p \in 0..Len(s), NEW x \in S, NEW k \in (p + 1)..Len(s)
  PROVE  InsertAt(s, p + 1, x)[k + 1] = s[k]
BY InsertAfter

\* The same for the element that a new segment and its offset become.
LEMMA NewOffset ==
  ASSUME NEW o \in Seq(Nat), NEW si \in 1..Len(o), NEW key \in Nat
  PROVE  InsertAt(o, si + 1, key)[si + 1] = key
<1>1. si \in 0..Len(o)
  OBVIOUS
<1> QED
  BY <1>1, InsertAfterItself

LEMMA NewSegment ==
  ASSUME NEW Sources, NEW g \in Seq(Seq(Sources)), NEW si \in 1..Len(g), NEW s \in Seq(Sources)
  PROVE  InsertAt(g, si + 1, s)[si + 1] = s
<1>1. si \in 0..Len(g)
  OBVIOUS
<1> QED
  BY <1>1, InsertAfterItself

LEMMA OffsetsAscend ==
  ASSUME NEW o \in Seq(Nat), NEW g, WellFormed(o, g),
         NEW a \in 1..Len(o), NEW b \in 1..Len(o), a <= b
  PROVE  o[a] <= o[b]
<1>1. o[a] \in Nat /\ o[b] \in Nat
  OBVIOUS
<1>2. CASE a = b
  BY <1>1, <1>2
<1>3. CASE a < b
  <2>1. o[a] < o[b]
    BY <1>3 DEF WellFormed
  <2> QED
    BY <1>1, <2>1
<1> QED
  BY <1>2, <1>3

\* The search of segmentIndex ends at the last segment that does not begin
\* after the key, and there is only one.
LEMMA SegmentIndexIsLast ==
  ASSUME NEW o \in Seq(Nat), NEW g, WellFormed(o, g), NEW key \in Nat
  PROVE  LET si == segmentIndex(Map(o, g), key)
         IN  si \in 1..Len(o) /\ IsLast(o, key, si)
<1> DEFINE Chosen(i) == /\ i \in 1..Len(o)
                        /\ \A j \in 2..i : o[j] <= key
                        /\ i + 1 \in 1..Len(o) => key < o[i + 1]
<1>0. Len(o) \in Nat /\ DOMAIN o = 1..Len(o) /\ \A i \in 1..Len(o) : o[i] \in Nat
  OBVIOUS
<1>1. PICK i \in 1..Len(o) : IsLast(o, key, i)
  BY DEF WellFormed
<1> USE DEF IsLast
<1>2. Chosen(i)
  <2>1. ASSUME NEW j \in 2..i
        PROVE  o[j] <= key
    <3>1. j \in 1..Len(o) /\ o[j] \in Nat /\ o[i] \in Nat /\ j <= i
      BY <1>0
    <3>2. o[j] <= o[i]
      BY <3>1, OffsetsAscend
    <3> QED
      BY <3>1, <3>2, <1>1
  <2>2. i + 1 \in 1..Len(o) => key < o[i + 1]
    BY <1>0, <1>1
  <2> QED
    BY <2>1, <2>2
<1>3. segmentIndex(Map(o, g), key) = CHOOSE x : Chosen(x)
  BY <1>0 DEF segmentIndex, Map
<1>4. Chosen(segmentIndex(Map(o, g), key))
  BY <1>2, <1>3
<1>5. ASSUME NEW x, Chosen(x)
      PROVE  IsLast(o, key, x)
  <2>1. x < Len(o) => key < o[x + 1]
    BY <1>0, <1>5
  <2>2. CASE x >= 2
    BY <2>1, <2>2, <1>0, <1>5
  <2>3. CASE x = 1
    <3>1. 1 \in 1..Len(o) /\ o[1] \in Nat /\ o[i] \in Nat /\ 1 <= i
      BY <1>0
    <3>2. o[1] <= o[i]
      BY <3>1, OffsetsAscend
    <3> QED
      BY <2>1, <2>3, <3>1, <3>2, <1>1
  <2> QED
    BY <2>2, <2>3, <1>0, <1>5
<1> HIDE DEF Chosen
<1> QED
  BY <1>4, <1>5 DEF Chosen

LEMMA LastIsSegmentIndex ==
  ASSUME NEW o \in Seq(Nat), NEW g, WellFormed(o, g), NEW key \in Nat,
         NEW i \in 1..Len(o), IsLast(o, key, i)
  PROVE  segmentIndex(Map(o, g), key) = i
<1> DEFINE si == segmentIndex(Map(o, g), key)
<1>0. Len(o) \in Nat /\ \A x \in 1..Len(o) : o[x] \in Nat
  OBVIOUS
<1>1. si \in 1..Len(o) /\ IsLast(o, key, si)
  BY SegmentIndexIsLast
<1> HIDE DEF si
<1>3. ~(si < i)
  <2> SUFFICES ASSUME si < i PROVE FALSE
    OBVIOUS
  <2>1. si + 1 \in 1..Len(o) /\ si + 1 <= i /\ o[si + 1] \in Nat /\ o[i] \in Nat
    BY <1>0, <1>1
  <2>2. o[si + 1] <= o[i]
    BY <2>1, OffsetsAscend
  <2> QED
    BY <2>1, <2>2, <1>0, <1>1 DEF IsLast
<1>4. ~(i < si)
  <2> SUFFICES ASSUME i < si PROVE FALSE
    OBVIOUS
  <2>1. i + 1 \in 1..Len(o) /\ i + 1 <= si /\ o[i + 1] \in Nat /\ o[si] \in Nat
    BY <1>0, <1>1
  <2>2. o[i + 1] <= o[si]
    BY <2>1, <1>1, OffsetsAscend
  <2> QED
    BY <2>1, <2>2, <1>0, <1>1 DEF IsLast
<1> QED
  BY <1>0, <1>1, <1>3, <1>4 DEF si

\* What a lookup gives, by the last segment that does not begin after the key.
LEMMA LookupBySegment ==
  ASSUME NEW Sources, NEW o \in Seq(Nat), NEW g \in Seq(Seq(Sources)), WellFormed(o, g), NEW key \in Nat,
         NEW i \in 1..Len(o), IsLast(o, key, i)
  PROVE  Lookup(Map(o, g), key) = IF key - o[i] < Len(g[i]) THEN Some(g[i][key - o[i] + 1])
                                                            ELSE None
<1>1. segmentIndex(Map(o, g), key) = i
  BY LastIsSegmentIndex
<1> QED
  BY <1>1 DEF Lookup, has, find, Map

\* A value put at position v + 1 of a sequence, or behind its end.
Put(s, v, value) == IF v = Len(s) THEN Append(s, value) ELSE [s EXCEPT ![v + 1] = value]

LEMMA PutElements ==
  ASSUME NEW S, NEW s \in Seq(S), NEW v \in Nat, v <= Len(s), NEW value \in S
  PROVE  /\ Put(s, v, value) \in Seq(S)
         /\ Len(Put(s, v, value)) = IF v = Len(s) THEN Len(s) + 1 ELSE Len(s)
         /\ Put(s, v, value)[v + 1] = value
         /\ \A j \in 1..Len(s) : j # v + 1 => Put(s, v, value)[j] = s[j]
<1>0. Len(s) \in Nat
  OBVIOUS
<1>1. CASE v = Len(s)
  <2>1. Put(s, v, value) = Append(s, value)
    BY <1>1 DEF Put
  <2>2. /\ Append(s, value) \in Seq(S) /\ Len(Append(s, value)) = Len(s) + 1
        /\ Append(s, value)[Len(s) + 1] = value
        /\ \A j \in 1..Len(s) : Append(s, value)[j] = s[j]
    BY AppendProperties
  <2> QED
    BY <1>1, <2>1, <2>2
<1>2. CASE v # Len(s)
  <2>1. Put(s, v, value) = [s EXCEPT ![v + 1] = value]
    BY <1>2 DEF Put
  <2>2. v + 1 \in 1..Len(s)
    BY <1>0, <1>2
  <2>3. /\ [s EXCEPT ![v + 1] = value] \in Seq(S)
        /\ Len([s EXCEPT ![v + 1] = value]) = Len(s)
    BY <2>2, ExceptSeq
  <2>4. \A j \in 1..Len(s) : [s EXCEPT ![v + 1] = value][j] = IF j = v + 1 THEN value ELSE s[j]
    OBVIOUS
  <2> QED
    BY <1>2, <2>1, <2>2, <2>3, <2>4
<1> QED
  BY <1>1, <1>2

\* Any two lookups agree if the last segment is at the same offset and holds
\* the same values up to the key.
LEMMA EmplaceInSegment ==
  ASSUME NEW Sources, NEW o \in Seq(Nat), NEW g \in Seq(Seq(Sources)), WellFormed(o, g),
         NEW key \in Nat, NEW value \in Sources,
         NEW si \in 1..Len(o), IsLast(o, key, si), key - o[si] <= Len(g[si])
  PROVE  \E h \in Seq(Seq(Sources)) : Emplaced(Map(o, g), key, value, o, h)
<1> DEFINE s == g[si]
           vi == key - o[si]
           t == Put(s, vi, value)
           h == [g EXCEPT ![si] = t]
<1>0. /\ Len(o) \in Nat /\ Len(o) = Len(g)
      /\ \A i \in 1..Len(o) : o[i] \in Nat /\ g[i] \in Seq(Sources) /\ Len(g[i]) \in Nat
  <2>1. Len(o) \in Nat /\ Len(o) = Len(g)
    BY DEF WellFormed
  <2>2. ASSUME NEW i \in 1..Len(o)
        PROVE  o[i] \in Nat /\ g[i] \in Seq(Sources) /\ Len(g[i]) \in Nat
    <3>1. g[i] \in Seq(Sources)
      BY <2>1, ElementOfSeq
    <3> QED
      BY <3>1, ElementOfSeq
  <2> QED
    BY <2>1, <2>2
<1>1. s \in Seq(Sources) /\ Len(s) \in Nat /\ vi \in Nat /\ vi <= Len(s)
  BY <1>0 DEF IsLast
<1>a. s = g[si] /\ vi = key - o[si] /\ o[si] \in Nat /\ o[si] + vi = key
  BY <1>0
<1> HIDE DEF s, vi
<1>2. /\ t \in Seq(Sources) /\ Len(t) \in Nat
      /\ vi < Len(t) /\ t[vi + 1] = value
      /\ Len(t) = IF vi = Len(s) THEN Len(s) + 1 ELSE Len(s)
      /\ \A j \in 1..Len(s) : j # vi + 1 => t[j] = s[j]
  <2>1. /\ t \in Seq(Sources)
        /\ Len(t) = IF vi = Len(s) THEN Len(s) + 1 ELSE Len(s)
        /\ t[vi + 1] = value
        /\ \A j \in 1..Len(s) : j # vi + 1 => t[j] = s[j]
    <3>1. \A r \in Seq(Sources), v \in Nat : v <= Len(r) =>
            /\ Put(r, v, value) \in Seq(Sources)
            /\ Len(Put(r, v, value)) = IF v = Len(r) THEN Len(r) + 1 ELSE Len(r)
            /\ Put(r, v, value)[v + 1] = value
            /\ \A j \in 1..Len(r) : j # v + 1 => Put(r, v, value)[j] = r[j]
      BY PutElements
    <3> QED BY <1>1, <3>1
  <2> HIDE DEF t
  <2>2. vi < Len(t) /\ Len(t) \in Nat
    BY <1>1, <2>1
  <2> QED
    BY <2>1, <2>2
<1>3. emplace(Map(o, g), key, value) = Map(o, h)
  <2>1. segmentIndex(Map(o, g), key) = si
    BY LastIsSegmentIndex
  <2>2. Map(o, g).offsets = o /\ Map(o, g).segments = g
    BY DEF Map
  <2>3. ASSUME NEW y
        PROVE  [Map(o, g) EXCEPT !.segments = y] = Map(o, y)
    BY DEF Map
  <2>4. CASE vi = Len(s)
    <3>1. emplace(Map(o, g), key, value) =
            [Map(o, g) EXCEPT !.segments = [g EXCEPT ![si] = Append(s, value)]]
      BY <2>1, <2>2, <2>4, <1>a DEF emplace
    <3> QED
      BY <3>1, <2>3, <2>4 DEF Put
  <2>5. CASE vi < Len(s)
    <3>1. vi # Len(s)
      BY <1>1, <2>5
    <3>2. emplace(Map(o, g), key, value) =
            [Map(o, g) EXCEPT !.segments = [g EXCEPT ![si] = [s EXCEPT ![vi + 1] = value]]]
      BY <2>1, <2>2, <2>5, <3>1, <1>a DEF emplace
    <3> QED
      BY <3>1, <3>2, <2>3 DEF Put
  <2> QED
    BY <1>1, <2>4, <2>5
<1>4. /\ h \in Seq(Seq(Sources)) /\ Len(h) = Len(g) /\ h[si] = t
      /\ \A i \in 1..Len(g) : i # si => h[i] = g[i]
  <2>1. si \in 1..Len(g) /\ t \in Seq(Sources)
    BY <1>0, <1>2
  <2> HIDE DEF t
  <2>2. h \in Seq(Seq(Sources)) /\ Len(h) = Len(g)
    BY <2>1, ExceptSeq
  <2> QED
    BY <2>1, <2>2
<1> HIDE DEF h, t
<1>5. WellFormed(o, h)
  <2>1. ASSUME NEW i \in 1..Len(o), NEW j \in 1..Len(o), i < j
        PROVE  o[i] + Len(h[i]) <= o[j]
    <3>1. o[i] + Len(g[i]) <= o[j]
      BY <2>1 DEF WellFormed
    <3>2. CASE i # si
      BY <3>1, <3>2, <1>0, <1>4
    <3>3. CASE i = si
      <4>1. si + 1 \in 1..Len(o) /\ si + 1 <= j /\ o[si + 1] \in Nat /\ o[j] \in Nat
        BY <2>1, <3>3, <1>0
      <4>2. key < o[si + 1] /\ o[si + 1] <= o[j]
        BY <4>1, <2>1, <3>3, OffsetsAscend DEF IsLast
      <4>3. key < o[j]
        BY <4>1, <4>2
      <4>4. CASE vi = Len(s)
        <5>1. Len(t) = vi + 1
          BY <4>4, <1>1, <1>2
        <5>2. PICK a \in Nat : a = o[si]
          BY <1>a
        <5>3. PICK b \in Nat : b = o[j]
          BY <4>1
        <5>4. a + vi = key /\ key < b
          BY <5>2, <5>3, <4>3, <1>a
        <5>5. a + Len(t) <= b
          BY <5>1, <5>4, <1>1
        <5> QED
          BY <5>2, <5>3, <5>5, <3>3, <1>4
      <4>5. CASE vi # Len(s)
        <5>1. Len(t) = Len(g[si])
          BY <4>5, <1>a, <1>2
        <5> QED
          BY <5>1, <3>1, <3>3, <1>4
      <4> QED
        BY <4>4, <4>5
    <3> QED
      BY <3>2, <3>3
  <2> QED
    BY <2>1, <1>0, <1>4 DEF WellFormed
<1>6. ASSUME NEW k \in Nat
      PROVE  Lookup(Map(o, h), k) = IF k = key THEN Some(value) ELSE Lookup(Map(o, g), k)
  <2>1. PICK i \in 1..Len(o) : IsLast(o, k, i)
    BY DEF WellFormed
  <2>2. Lookup(Map(o, h), k) = IF k - o[i] < Len(h[i]) THEN Some(h[i][k - o[i] + 1]) ELSE None
    BY <2>1, <1>4, <1>5, LookupBySegment
  <2>3. Lookup(Map(o, g), k) = IF k - o[i] < Len(g[i]) THEN Some(g[i][k - o[i] + 1]) ELSE None
    BY <2>1, LookupBySegment
  <2>4. o[i] \in Nat /\ k - o[i] \in Nat
    BY <2>1, <1>0 DEF IsLast
  <2> DEFINE d == k - o[i]
  <2>d. d = k - o[i]
    OBVIOUS
  <2>n. d \in Nat
    BY <2>4
  <2>e. /\ Lookup(Map(o, h), k) = IF d < Len(h[i]) THEN Some(h[i][d + 1]) ELSE None
        /\ Lookup(Map(o, g), k) = IF d < Len(g[i]) THEN Some(g[i][d + 1]) ELSE None
    BY <2>2, <2>3
  <2> HIDE DEF d
  <2>5. CASE k = key
    <3>1. i = si
      BY <2>1, <2>5, LastIsSegmentIndex
    <3> QED
      BY <2>d, <2>e, <2>5, <3>1, <1>a, <1>2, <1>4
  <2>6. CASE k # key /\ i # si
    <3>1. h[i] = g[i]
      BY <2>6, <1>0, <1>4
    <3> QED
      BY <2>e, <2>6, <3>1
  <2>7. CASE k # key /\ i = si
    <3>1. d # vi
      BY <2>4, <2>d, <2>7, <1>a
    <3>2. d < Len(t) <=> d < Len(s)
      <4>1. CASE vi = Len(s)
        <5>1. Len(t) = Len(s) + 1
          BY <4>1, <1>2
        <5> QED
          BY <4>1, <5>1, <2>n, <3>1, <1>1
      <4>2. CASE vi # Len(s)
        <5>1. Len(t) = Len(s)
          BY <4>2, <1>2
        <5> QED
          BY <5>1
      <4> QED
        BY <4>1, <4>2
    <3>3. d < Len(s) => t[d + 1] = s[d + 1]
      <4> SUFFICES ASSUME d < Len(s) PROVE t[d + 1] = s[d + 1]
        OBVIOUS
      <4>1. d + 1 \in 1..Len(s) /\ d + 1 # vi + 1
        BY <2>n, <3>1, <1>1
      <4> QED
        BY <4>1, <1>2
    <3> QED
      BY <2>e, <2>7, <3>2, <3>3, <1>a, <1>4
  <2> QED
    BY <2>5, <2>6, <2>7
<1>e. Emplaced(Map(o, g), key, value, o, h)
  BY <1>3, <1>4, <1>5, <1>6 DEF Emplaced
<1> QED
  BY <1>3, <1>4, <1>5, <1>6, <1>e

LEMMA EmplaceNewSegment ==
  ASSUME NEW Sources, NEW o \in Seq(Nat), NEW g \in Seq(Seq(Sources)), WellFormed(o, g),
         NEW key \in Nat, NEW value \in Sources,
         NEW si \in 1..Len(o), IsLast(o, key, si), key - o[si] > Len(g[si])
  PROVE  \E q \in Seq(Nat), h \in Seq(Seq(Sources)) : Emplaced(Map(o, g), key, value, q, h)
<1>q. InsertAt(o, si + 1, key)[si + 1] = key
  BY NewOffset
<1>h. InsertAt(g, si + 1, <<value>>)[si + 1] = <<value>>
  <2>1. si \in 1..Len(g) /\ <<value>> \in Seq(Sources)
    BY DEF WellFormed
  <2> QED
    BY <2>1, NewSegment
<1> DEFINE n == Len(o)
           q == InsertAt(o, si + 1, key)
           h == InsertAt(g, si + 1, <<value>>)
<1>0. /\ n \in Nat /\ si \in Int /\ n = Len(g)
      /\ \A i \in 1..n : o[i] \in Nat /\ Len(g[i]) \in Nat
  <2>1. n \in Nat /\ n = Len(g)
    BY DEF WellFormed
  <2>2. ASSUME NEW i \in 1..n
        PROVE  o[i] \in Nat /\ Len(g[i]) \in Nat
    <3>1. g[i] \in Seq(Sources)
      BY <2>1, ElementOfSeq
    <3> QED
      BY <3>1, ElementOfSeq
  <2> QED
    BY <2>1, <2>2
<1>n. n = Len(o) /\ si \in 1..n
  OBVIOUS
<1> HIDE DEF n
<1>b. n \in Nat /\ si \in Nat /\ 1 <= si /\ si <= n
  BY <1>0, <1>n
<1>1. /\ q \in Seq(Nat) /\ Len(q) = n + 1
      /\ \A k \in 1..si : q[k] = o[k]
      /\ q[si + 1] = key
      /\ \A k \in (si + 1)..n : q[k + 1] = o[k]
  <2>1. si \in 0..Len(o)
    BY <1>0, <1>n
  <2>2. q \in Seq(Nat) /\ Len(q) = Len(o) + 1
    BY <2>1, InsertAfterType
  <2>3. \A k \in 1..si : q[k] = o[k]
    BY <2>1, InsertAfterBefore
  <2>4. q[si + 1] = key
    BY <1>q
  <2>5. \A k \in (si + 1)..Len(o) : q[k + 1] = o[k]
    BY <2>1, InsertAfterBehind
  <2> HIDE DEF q
  <2> QED
    BY <2>2, <2>3, <2>4, <2>5, <1>n
<1>2. /\ h \in Seq(Seq(Sources)) /\ Len(h) = n + 1
      /\ \A k \in 1..si : h[k] = g[k]
      /\ h[si + 1] = <<value>>
      /\ \A k \in (si + 1)..n : h[k + 1] = g[k]
  <2>1. si \in 0..Len(g) /\ <<value>> \in Seq(Sources) /\ n = Len(g)
    BY <1>0, <1>n
  <2>2. h \in Seq(Seq(Sources)) /\ Len(h) = Len(g) + 1
    BY <2>1, InsertAfterType
  <2>3. \A k \in 1..si : h[k] = g[k]
    BY <2>1, InsertAfterBefore
  <2>4. h[si + 1] = <<value>>
    BY <1>h
  <2>5. \A k \in (si + 1)..Len(g) : h[k + 1] = g[k]
    BY <2>1, InsertAfterBehind
  <2> HIDE DEF h
  <2> QED
    BY <2>1, <2>2, <2>3, <2>4, <2>5
<1>3. emplace(Map(o, g), key, value) = Map(q, h)
  <2>1. segmentIndex(Map(o, g), key) = si
    BY LastIsSegmentIndex
  <2>2. Map(o, g).offsets = o /\ Map(o, g).segments = g
    BY DEF Map
  <2>3. ~(key - o[si] = Len(g[si])) /\ ~(key - o[si] < Len(g[si]))
    BY <1>0
  <2> QED
    BY <2>1, <2>2, <2>3 DEF emplace, Map
<1> HIDE DEF q, h
<1>4. o[si] < key /\ o[si] + Len(g[si]) < key /\ o[si] + Len(g[si]) <= key
  BY <1>0, <1>n
<1>5. ASSUME NEW k \in (si + 1)..n
      PROVE  key < o[k]
  <2>1. si + 1 \in 1..n /\ k \in 1..n /\ si + 1 <= k /\ o[si + 1] \in Nat /\ o[k] \in Nat
    BY <1>0, <1>n
  <2>2. o[si + 1] <= o[k]
    BY <2>1, <1>n, OffsetsAscend
  <2>3. key < o[si + 1]
    BY <2>1, <1>b, <1>n DEF IsLast
  <2> QED
    BY <2>1, <2>2, <2>3
<1>6. ASSUME NEW k \in 1..si
      PROVE  o[k] < key /\ o[k] + Len(g[k]) < key /\ o[k] + Len(g[k]) <= key
  <2>1. k \in 1..n /\ o[k] \in Nat /\ Len(g[k]) \in Nat /\ o[si] \in Nat
    BY <1>0, <1>n
  <2>2. CASE k = si
    BY <2>2, <1>4
  <2>3. CASE k < si
    <3>1. o[k] < o[si] /\ o[k] + Len(g[k]) <= o[si]
      BY <2>1, <2>3, <1>n DEF WellFormed
    <3>2. PICK a \in Nat, b \in Nat, c \in Nat, d \in Nat :
            a = o[k] /\ b = Len(g[k]) /\ c = o[si] /\ d = Len(g[si])
      BY <2>1, <1>0, <1>n
    <3>3. a < c /\ a + b <= c /\ c < key
      BY <3>1, <3>2, <1>4
    <3>4. a < key /\ a + b < key /\ a + b <= key
      BY <3>3
    <3> QED
      BY <3>2, <3>4
  <2> QED
    BY <2>2, <2>3, <1>0
\* Where an index of the new map comes from.
<1>7. ASSUME NEW i \in 1..(n + 1)
      PROVE  \/ i \in 1..si
             \/ i = si + 1
             \/ \E k \in (si + 1)..n : i = k + 1
  <2>1. CASE i > si + 1
    <3>1. i - 1 \in (si + 1)..n /\ i = (i - 1) + 1
      BY <2>1, <1>0
    <3> QED
      BY <3>1
  <2> QED
    BY <2>1, <1>0
<1>8. ASSUME NEW i \in 1..(n + 1), NEW j \in 1..(n + 1), i < j
      PROVE  q[i] < q[j] /\ q[i] + Len(h[i]) <= q[j]
  <2>1. CASE i \in 1..si /\ j \in 1..si
    <3>1. i \in 1..n /\ j \in 1..n
      BY <1>0, <1>n, <2>1
    <3>2. o[i] < o[j] /\ o[i] + Len(g[i]) <= o[j]
      BY <1>n, <3>1, <1>8 DEF WellFormed
    <3> QED
      BY <3>2, <2>1, <1>1, <1>2
  <2>2. CASE i \in 1..si /\ j = si + 1
    <3>1. o[i] < key /\ o[i] + Len(g[i]) <= key
      BY <2>2, <1>6
    <3> QED
      BY <3>1, <2>2, <1>1, <1>2
  <2>3. CASE i \in 1..si /\ \E k \in (si + 1)..n : j = k + 1
    <3>1. PICK k \in (si + 1)..n : j = k + 1
      BY <2>3
    <3>2. i \in 1..n /\ k \in 1..n /\ i < k
      BY <1>b, <2>3, <3>1
    <3>3. o[i] < o[k] /\ o[i] + Len(g[i]) <= o[k]
      BY <1>n, <3>2 DEF WellFormed
    <3> QED
      BY <3>1, <3>3, <2>3, <1>1, <1>2
  <2>4. CASE i = si + 1 /\ \E k \in (si + 1)..n : j = k + 1
    <3>1. PICK k \in (si + 1)..n : j = k + 1
      BY <2>4
    <3>2. key < o[k] /\ o[k] \in Nat
      BY <1>0, <1>n, <1>5
    <3>3. Len(<<value>>) = 1
      OBVIOUS
    <3>4. key + 1 <= o[k]
      BY <3>2
    <3> QED
      BY <3>1, <3>2, <3>3, <3>4, <2>4, <1>1, <1>2
  <2>5. CASE /\ \E k \in (si + 1)..n : i = k + 1
             /\ \E k \in (si + 1)..n : j = k + 1
    <3>1. PICK a \in (si + 1)..n : i = a + 1
      BY <2>5
    <3>2. PICK b \in (si + 1)..n : j = b + 1
      BY <2>5
    <3>3. a \in 1..n /\ b \in 1..n /\ a < b
      BY <3>1, <3>2, <1>0, <1>8
    <3>4. o[a] < o[b] /\ o[a] + Len(g[a]) <= o[b]
      BY <1>n, <3>3 DEF WellFormed
    <3> QED
      BY <3>1, <3>2, <3>4, <1>1, <1>2
  <2> QED
    BY <2>1, <2>2, <2>3, <2>4, <2>5, <1>0, <1>7, <1>8
\* The last segment for a key, before and after.
<1>9. ASSUME NEW k \in Nat, NEW i \in 1..n, IsLast(o, k, i)
      PROVE  /\ i < si => IsLast(q, k, i)
             /\ i = si /\ k < key => IsLast(q, k, si)
             /\ i = si /\ key <= k => IsLast(q, k, si + 1)
             /\ i > si => IsLast(q, k, i + 1)
  <2>1. o[i] <= k /\ (i < n => k < o[i + 1])
    BY <1>9, <1>n DEF IsLast
  <2>2. CASE i < si
    <3>1. i \in 1..si /\ i + 1 \in 1..si /\ i < n
      BY <1>b, <2>2
    <3>2. q[i] = o[i] /\ q[i + 1] = o[i + 1]
      BY <3>1, <1>1
    <3>3. IsLast(q, k, i)
      BY <3>1, <3>2, <2>1 DEF IsLast
    <3> QED
      BY <3>3, <2>2, <1>b
  <2>3. CASE i = si /\ k < key
    <3>1. q[si] = o[si]
      BY <1>b, <1>1
    <3>2. q[si] <= k /\ k < q[si + 1]
      BY <3>1, <2>1, <2>3, <1>1
    <3> QED
      BY <3>2, <2>3 DEF IsLast
  <2>4. CASE i = si /\ key <= k
    <3>1. si + 1 < n + 1 => si + 1 \in (si + 1)..n
      BY <1>b
    <3>2. si + 1 < n + 1 => k < q[(si + 1) + 1]
      <4> SUFFICES ASSUME si + 1 < n + 1 PROVE k < q[(si + 1) + 1]
        OBVIOUS
      <4>1. q[(si + 1) + 1] = o[si + 1]
        BY <3>1, <1>1
      <4> QED
        BY <4>1, <2>1, <2>4, <1>b
    <3> QED
      BY <3>2, <2>4, <1>b, <1>1 DEF IsLast
  <2>5. CASE i > si
    <3>1. i \in (si + 1)..n /\ (i + 1 < n + 1 => i + 1 \in (si + 1)..n /\ i < n)
      BY <1>b, <2>5
    <3>2. q[i + 1] = o[i] /\ (i + 1 < n + 1 => q[(i + 1) + 1] = o[i + 1])
      BY <3>1, <1>1
    <3>3. q[i + 1] <= k /\ (i + 1 < n + 1 => k < q[(i + 1) + 1])
      BY <3>1, <3>2, <2>1
    <3> QED
      BY <3>3, <2>5, <1>b, <1>1 DEF IsLast
  <2> QED
    BY <2>2, <2>3, <2>4, <2>5, <1>b
<1>10. WellFormed(q, h)
  <2>1. ASSUME NEW k \in Nat
        PROVE  \E i \in 1..(n + 1) : IsLast(q, k, i)
    <3>1. PICK i \in 1..n : IsLast(o, k, i)
      BY <1>n DEF WellFormed
    <3>2. i \in 1..(n + 1) /\ i + 1 \in 1..(n + 1) /\ si \in 1..(n + 1) /\ si + 1 \in 1..(n + 1)
      BY <1>b
    <3>3. i < si \/ (i = si /\ k < key) \/ (i = si /\ key <= k) \/ i > si
      BY <1>b
    <3> QED
      BY <3>1, <3>2, <3>3, <1>9
  <2>2. Len(q) = n + 1 /\ Len(h) = n + 1 /\ n + 1 >= 1
    BY <1>b, <1>1, <1>2
  <2>3. \A i, j \in 1..Len(q) : i < j => q[i] < q[j]
    BY <2>2, <1>8
  <2>4. \A i, j \in 1..Len(q) : i < j => q[i] + Len(h[i]) <= q[j]
    BY <2>2, <1>8
  <2>5. \A k \in Nat : \E i \in 1..Len(q) : IsLast(q, k, i)
    BY <2>1, <2>2
  <2> QED
    BY <2>2, <2>3, <2>4, <2>5 DEF WellFormed
<1>11. ASSUME NEW k \in Nat
       PROVE  Lookup(Map(q, h), k) = IF k = key THEN Some(value) ELSE Lookup(Map(o, g), k)
  <2>1. PICK i \in 1..n : IsLast(o, k, i)
    BY <1>n DEF WellFormed
  <2>2. Lookup(Map(o, g), k) = IF k - o[i] < Len(g[i]) THEN Some(g[i][k - o[i] + 1]) ELSE None
    BY <2>1, <1>n, LookupBySegment
  <2>3. ASSUME NEW j \in 1..(n + 1), IsLast(q, k, j)
        PROVE  Lookup(Map(q, h), k) = IF k - q[j] < Len(h[j]) THEN Some(h[j][k - q[j] + 1]) ELSE None
    BY <2>3, <1>1, <1>2, <1>10, LookupBySegment
  <2>4. i = si \/ k # key
    BY <2>1, <1>0, <1>n, LastIsSegmentIndex
  <2>5. CASE i < si \/ (i = si /\ k < key)
    <3>1. i \in 1..si /\ i \in 1..(n + 1) /\ IsLast(q, k, i)
      BY <2>1, <2>5, <1>0, <1>9
    <3>2. k # key
      BY <2>4, <2>5, <1>0
    <3>3. q[i] = o[i] /\ h[i] = g[i]
      BY <3>1, <1>1, <1>2
    <3> QED
      BY <3>1, <3>2, <3>3, <2>2, <2>3
  <2>6. CASE i = si /\ key <= k
    <3>1. si + 1 \in 1..(n + 1) /\ IsLast(q, k, si + 1)
      BY <2>1, <2>6, <1>0, <1>9
    <3>2. Lookup(Map(q, h), k) = IF k - key < 1 THEN Some(<<value>>[k - key + 1]) ELSE None
      <4>1. Len(<<value>>) = 1
        OBVIOUS
      <4> QED
        BY <4>1, <3>1, <2>3, <1>1, <1>2
    <3>3. CASE k = key
      <4>1. k - key = 0 /\ 0 < 1 /\ <<value>>[0 + 1] = value
        BY <3>3
      <4> QED
        BY <4>1, <3>2, <3>3
    <3>4. CASE k # key
      <4>1. ~(k - key < 1) /\ ~(k - o[si] < Len(g[si]))
        BY <3>4, <2>6, <1>0
      <4> QED
        BY <4>1, <3>2, <3>4, <2>2, <2>6
    <3> QED
      BY <3>3, <3>4
  <2>7. CASE i > si
    <3>1. i \in (si + 1)..n /\ i + 1 \in 1..(n + 1) /\ IsLast(q, k, i + 1)
      BY <2>1, <2>7, <1>0, <1>9
    <3>2. k # key
      BY <2>4, <2>7, <1>0
    <3>3. q[i + 1] = o[i] /\ h[i + 1] = g[i]
      BY <3>1, <1>1, <1>2
    <3> QED
      BY <3>1, <3>2, <3>3, <2>2, <2>3
  <2> QED
    BY <2>5, <2>6, <2>7, <1>0
<1>12. Emplaced(Map(o, g), key, value, q, h)
  BY <1>3, <1>10, <1>11 DEF Emplaced
<1> QED
  BY <1>1, <1>2, <1>12

\* A well-formed map to elements of S.
MapTo(m, S) == \E o \in Seq(Nat), g \in Seq(Seq(S)) : m = Map(o, g) /\ WellFormed(o, g)

\* The empty map is well formed, and has no key.
LEMMA EmptyIsMap ==
  ASSUME NEW S
  PROVE  MapTo(EmptyMap, S) /\ \A k \in Nat : Lookup(EmptyMap, k) = None
<1> DEFINE o == <<0>>
           g == << <<>> >>
<1>1. /\ o \in Seq(Nat) /\ g \in Seq(Seq(S)) /\ Len(o) = 1 /\ Len(g) = 1
      /\ o[1] = 0 /\ g[1] = <<>> /\ Len(g[1]) = 0
  OBVIOUS
<1>2. EmptyMap = Map(o, g)
  BY DEF EmptyMap, Map
<1> HIDE DEF o, g
<1>3. WellFormed(o, g)
  <2>1. \A key \in Nat : IsLast(o, key, 1)
    BY <1>1 DEF IsLast
  <2> QED
    BY <2>1, <1>1 DEF WellFormed
<1>4. ASSUME NEW k \in Nat
      PROVE  Lookup(EmptyMap, k) = None
  <2>1. 1 \in 1..Len(o) /\ IsLast(o, k, 1)
    BY <1>1 DEF IsLast
  <2>2. Lookup(Map(o, g), k) = IF k - o[1] < Len(g[1]) THEN Some(g[1][k - o[1] + 1]) ELSE None
    BY <2>1, <1>1, <1>3, LookupBySegment
  <2>3. ~(k - o[1] < Len(g[1]))
    BY <1>1
  <2> QED
    BY <2>2, <2>3, <1>2
<1> QED
  BY <1>1, <1>2, <1>3, <1>4 DEF MapTo

\* emplace keeps a map well formed, and changes what is found of its key only.
LEMMA EmplaceIsMap ==
  ASSUME NEW S, NEW m, MapTo(m, S), NEW key \in Nat, NEW value \in S
  PROVE  /\ MapTo(emplace(m, key, value), S)
         /\ \A k \in Nat : Lookup(emplace(m, key, value), k) =
                             IF k = key THEN Some(value) ELSE Lookup(m, k)
<1>1. PICK o \in Seq(Nat), g \in Seq(Seq(S)) : m = Map(o, g) /\ WellFormed(o, g)
  BY DEF MapTo
<1>2. PICK q \in Seq(Nat), h \in Seq(Seq(S)) : Emplaced(Map(o, g), key, value, q, h)
  <2>1. PICK si \in 1..Len(o) : IsLast(o, key, si)
    BY <1>1 DEF WellFormed
  <2>2. o[si] \in Nat /\ Len(g[si]) \in Nat
    <3>1. o[si] \in Nat
      BY ElementOfSeq
    <3>2. g[si] \in Seq(S)
      BY <1>1, ElementOfSeq DEF WellFormed
    <3> QED
      BY <3>1, <3>2
  <2>3. CASE key - o[si] <= Len(g[si])
    BY <2>1, <2>3, <1>1, EmplaceInSegment
  <2>4. CASE key - o[si] > Len(g[si])
    BY <2>1, <2>4, <1>1, EmplaceNewSegment
  <2> QED
    BY <2>2, <2>3, <2>4
<1> QED
  BY <1>1, <1>2 DEF Emplaced, MapTo

\* What is found, when something is.
LEMMA LookupFinds ==
  ASSUME NEW m, NEW k, NEW x, Lookup(m, k) = Some(x)
  PROVE  has(m, k) /\ find(m, k) = x
<1>1. has(m, k)
  BY DEF Lookup, Some, None
<1> QED
  BY <1>1 DEF Lookup, Some

-----------------------------------------------------------------------------
(* readAll *)

LEMMA ReadIsFold ==
  ASSUME NEW r, NEW s
  PROVE  readAll(r, s) = Reading!Fold(r, s)
BY DEF readAll, FoldLeft, MapThenFoldSet, Max,
       Reading!Fold, Reading!TheFold, Reading!IsFold, Reading!Max

LEMMA ReadNothing ==
  ASSUME NEW r
  PROVE  readAll(r, <<>>) = r
BY Reading!FoldEmpty, ReadIsFold

LEMMA ReadOneMore ==
  ASSUME NEW r, NEW S, NEW s \in Seq(S), NEW e \in S
  PROVE  readAll(r, Append(s, e)) = readEntry(readAll(r, s), e)
BY Reading!FoldAppend, ReadIsFold

LEMMA ReadConcat ==
  ASSUME NEW r, NEW S, NEW s \in Seq(S), NEW t \in Seq(S)
  PROVE  readAll(r, s \o t) = readAll(readAll(r, s), t)
<1>1. Reading!Fold(r, s \o t) = Reading!Fold(Reading!Fold(r, s), t)
  BY Reading!FoldConcat
<1> QED
  BY <1>1, ReadIsFold

LEMMA ReadSteps ==
  ASSUME NEW r, NEW S, NEW s \in Seq(S)
  PROVE  \E g : /\ g[0] = r
                /\ \A k \in 1..Len(s) : g[k] = readEntry(g[k - 1], s[k])
                /\ readAll(r, s) = g[Len(s)]
BY Reading!FoldSteps, ReadIsFold
-----------------------------------------------------------------------------
(* Finite sets.  Their theorems are cited through an instance, which has   *)
(* definitions of its own of what the system uses.                         *)

FS == INSTANCE FiniteSetTheorems

LEMMA SameFinite ==
  ASSUME NEW S
  PROVE  (IsFiniteSet(S) <=> FS!IsFiniteSet(S)) /\ Cardinality(S) = FS!Cardinality(S)
BY DEF IsFiniteSet, FS!IsFiniteSet, Cardinality, FS!Cardinality

LEMMA CardInterval ==
  ASSUME NEW n \in Nat
  PROVE  Cardinality(1..n) = n /\ IsFiniteSet(1..n)
<1>1. FS!IsFiniteSet(1..n) /\ FS!Cardinality(1..n) = IF 1 > n THEN 0 ELSE n - 1 + 1
  BY FS!FS_Interval
<1> QED BY <1>1, SameFinite

-----------------------------------------------------------------------------
(* Sorting *)

Row == [index : Nat, key : Int]

\* Rows of a lesser or the same key come first; of those, the lesser index.
Ordered(s) == \A i, j \in DOMAIN s : i < j => s[i].key <= s[j].key
TiesByIndex(s) == \A i, j \in DOMAIN s : i < j /\ s[i].key = s[j].key => s[i].index < s[j].index
NoIndexTwice(s) == \A i, j \in DOMAIN s : s[i].index = s[j].index => i = j

\* s has the first k of the rows.
HasRows(s, rows, k) ==
  /\ s \in Seq(Row) /\ Len(s) = k
  /\ \A i \in 1..k : \E p \in 1..k : s[i] = rows[p]
  /\ \A p \in 1..k : \E i \in 1..k : s[i] = rows[p]

\* The rows that a new one is not before are the first ones.
LEMMA BeforeNew ==
  ASSUME NEW s \in Seq(Row), Ordered(s), NEW x \in Row
  PROVE  LET n == Cardinality({i \in DOMAIN s : s[i].key <= x.key})
         IN  /\ n \in 0..Len(s)
             /\ \A i \in 1..Len(s) : s[i].key <= x.key <=> i <= n
<1> DEFINE D == {i \in 1..Len(s) : s[i].key <= x.key}
           Q == {n \in Nat : n <= Len(s) /\ \A i \in 1..n : s[i].key <= x.key}
<1>0. Len(s) \in Nat /\ DOMAIN s = 1..Len(s) /\ x.key \in Int /\ \A i \in 1..Len(s) : s[i].key \in Int
  <2>1. \A i \in 1..Len(s) : s[i] \in Row
    OBVIOUS
  <2> QED BY <2>1 DEF Row
<1>1. \E n \in 0..Len(s) : \A i \in 1..Len(s) : s[i].key <= x.key <=> i <= n
  <2>1. CASE \A n \in Nat : n \in Q
    <3>1. Len(s) + 1 \in Q
      BY <2>1, <1>0
    <3> QED BY <3>1, <1>0
  <2>2. CASE ~(\A n \in Nat : n \in Q)
    <3>1. 0 \in Q
      BY <1>0
    <3>2. ~(\A n \in Nat : n \in Q => n + 1 \in Q)
      <4> HIDE DEF Q
      <4> QED BY <2>2, <3>1, Sorting!NatInd
    <3>3. PICK n \in Nat : n \in Q /\ n + 1 \notin Q
      BY <3>2
    <3>4. n <= Len(s) /\ \A i \in 1..n : s[i].key <= x.key
      BY <3>3
    <3>5. ASSUME NEW i \in 1..Len(s), i > n
          PROVE  ~(s[i].key <= x.key)
      <4>1. n + 1 \in 1..Len(s) /\ ~(s[n + 1].key <= x.key)
        <5>1. n + 1 <= Len(s)
          BY <3>5, <1>0
        <5>2. \E j \in 1..(n + 1) : ~(s[j].key <= x.key)
          BY <3>3, <5>1
        <5> QED BY <5>1, <5>2, <3>4
      <4>2. i # n + 1 => s[n + 1].key <= s[i].key
        BY <4>1, <3>5, <1>0 DEF Ordered
      <4> QED BY <4>1, <4>2, <1>0
    <3>6. \A i \in 1..Len(s) : i <= n => s[i].key <= x.key
      BY <3>4
    <3> HIDE DEF Q
    <3>7. \A i \in 1..Len(s) : s[i].key <= x.key <=> i <= n
      BY <3>5, <3>6, <1>0
    <3> QED BY <3>4, <3>7, <1>0
  <2> QED BY <2>1, <2>2
<1>2. PICK n \in 0..Len(s) : \A i \in 1..Len(s) : s[i].key <= x.key <=> i <= n
  BY <1>1
<1>3. D = 1..n
  BY <1>0, <1>2
<1>4. Cardinality(1..n) = n
  BY <1>0, CardInterval
<1> QED BY <1>0, <1>2, <1>3, <1>4

LEMMA InsertRowIs ==
  ASSUME NEW s \in Seq(Row), Ordered(s), NEW x \in Row
  PROVE  LET t == insertRow(s, x)
         IN  /\ t \in Seq(Row) /\ Len(t) = Len(s) + 1
             /\ Ordered(t)
             /\ \E n \in 0..Len(s) :
                  /\ t[n + 1] = x
                  /\ \A i \in 1..Len(s) : /\ i <= n => t[i] = s[i]
                                          /\ i > n => t[i + 1] = s[i] /\ x.key < s[i].key
<1> DEFINE c == Cardinality({i \in DOMAIN s : s[i].key <= x.key})
<1>1. c \in 0..Len(s) /\ \A i \in 1..Len(s) : s[i].key <= x.key <=> i <= c
  BY BeforeNew
<1>2. insertRow(s, x) = InsertAt(s, c + 1, x)
  BY DEF insertRow
<1> HIDE DEF c
<1>3. PICK n \in 0..Len(s) : n = c
  BY <1>1
<1> DEFINE t == insertRow(s, x)
<1>0. Len(s) \in Nat /\ DOMAIN s = 1..Len(s) /\ x.key \in Int /\ \A i \in 1..Len(s) : s[i].key \in Int
  <2>1. \A i \in 1..Len(s) : s[i] \in Row
    OBVIOUS
  <2> QED BY <2>1 DEF Row
<1>4. t \in Seq(Row) /\ Len(t) = Len(s) + 1
  BY <1>2, <1>3, InsertAfterType
<1>5. t[n + 1] = x
  BY <1>2, <1>3, InsertAfterItself
<1>6. ASSUME NEW i \in 1..Len(s)
      PROVE  /\ i <= n => t[i] = s[i]
             /\ i > n => t[i + 1] = s[i] /\ x.key < s[i].key
  <2>1. CASE i <= n
    <3>1. i \in 1..n
      BY <2>1, <1>0
    <3> QED BY <3>1, <2>1, <1>0, <1>2, <1>3, InsertAfterBefore
  <2>2. CASE i > n
    <3>1. i \in (n + 1)..Len(s)
      BY <2>2, <1>0
    <3>2. t[i + 1] = s[i]
      BY <3>1, <1>2, <1>3, InsertAfterBehind
    <3> QED BY <3>2, <2>2, <1>0, <1>1, <1>3
  <2> QED BY <2>1, <2>2, <1>0
<1> HIDE DEF t
<1>7. ASSUME NEW i \in DOMAIN t, NEW j \in DOMAIN t, i < j
      PROVE  t[i].key <= t[j].key
  <2>0. i \in 1..(Len(s) + 1) /\ j \in 1..(Len(s) + 1)
    BY <1>4
  <2>1. CASE j <= n
    <3>1. i \in 1..Len(s) /\ j \in 1..Len(s) /\ i <= n
      BY <2>0, <2>1, <1>7, <1>0
    <3>2. t[i] = s[i] /\ t[j] = s[j]
      BY <3>1, <2>1, <1>6
    <3> QED BY <3>1, <3>2, <1>0, <1>7 DEF Ordered
  <2>2. CASE j = n + 1
    <3>1. i \in 1..Len(s) /\ i <= n
      BY <2>0, <2>2, <1>7, <1>0
    <3> QED BY <3>1, <2>2, <1>1, <1>3, <1>5, <1>6
  <2>3. CASE j > n + 1
    <3>1. j - 1 \in 1..Len(s) /\ j - 1 > n /\ (j - 1) + 1 = j
      BY <2>0, <2>3, <1>0
    <3>2. t[j] = s[j - 1] /\ x.key < s[j - 1].key
      BY <3>1, <1>6
    <3>3. CASE i <= n
      <4>1. i \in 1..Len(s) /\ t[i] = s[i]
        BY <3>3, <2>0, <1>0, <1>6
      <4> QED BY <4>1, <3>1, <3>2, <3>3, <1>0 DEF Ordered
    <3>4. CASE i = n + 1
      BY <3>1, <3>2, <3>4, <1>0, <1>5
    <3>5. CASE i > n + 1
      <4>1. i - 1 \in 1..Len(s) /\ i - 1 > n /\ (i - 1) + 1 = i /\ i - 1 < j - 1
        BY <3>5, <2>0, <1>0, <1>7
      <4>2. t[i] = s[i - 1]
        BY <4>1, <1>6
      <4> QED BY <4>1, <4>2, <3>1, <3>2, <1>0 DEF Ordered
    <3> QED BY <3>3, <3>4, <3>5, <2>0, <1>0
  <2> QED BY <2>1, <2>2, <2>3, <2>0, <1>0
<1>8. Ordered(t)
  BY <1>7 DEF Ordered
<1> QED BY <1>4, <1>5, <1>6, <1>8 DEF t

\* One row more.
LEMMA InsertRowKeeps ==
  ASSUME NEW rows \in Seq(Row), NoIndexTwice(rows), TiesByIndex(rows),
         NEW k \in Nat, k + 1 <= Len(rows), NEW s,
         HasRows(s, rows, k), Ordered(s), NoIndexTwice(s), TiesByIndex(s)
  PROVE  LET t == insertRow(s, rows[k + 1])
         IN  HasRows(t, rows, k + 1) /\ Ordered(t) /\ NoIndexTwice(t) /\ TiesByIndex(t)
<1>0. /\ k + 1 \in 1..Len(rows) /\ Len(rows) \in Nat /\ DOMAIN rows = 1..Len(rows)
      /\ rows[k + 1] \in Row
  OBVIOUS
<1>s. s \in Seq(Row) /\ Len(s) = k /\ DOMAIN s = 1..k
  BY DEF HasRows
<1>x. PICK x \in Row : x = rows[k + 1]
  BY <1>0
<1> DEFINE t == insertRow(s, x)
<1>1. /\ t \in Seq(Row) /\ Len(t) = k + 1 /\ DOMAIN t = 1..(k + 1) /\ Ordered(t)
      /\ \E n \in 0..k : /\ t[n + 1] = x
                         /\ \A i \in 1..k : /\ i <= n => t[i] = s[i]
                                            /\ i > n => t[i + 1] = s[i] /\ x.key < s[i].key
  <2>1. /\ t \in Seq(Row) /\ Len(t) = Len(s) + 1 /\ Ordered(t)
        /\ \E n \in 0..Len(s) :
             /\ t[n + 1] = x
             /\ \A i \in 1..Len(s) : /\ i <= n => t[i] = s[i]
                                     /\ i > n => t[i + 1] = s[i] /\ x.key < s[i].key
    BY <1>s, InsertRowIs
  <2> HIDE DEF t
  <2>2. DOMAIN t = 1..Len(t)
    BY <2>1
  <2> QED BY <2>1, <2>2, <1>s
<1> HIDE DEF t
<1>2. PICK n \in 0..k : /\ t[n + 1] = x
                        /\ \A i \in 1..k : /\ i <= n => t[i] = s[i]
                                           /\ i > n => t[i + 1] = s[i] /\ x.key < s[i].key
  BY <1>1
\* Each row of s has a place in t, and each place another row than x one in s.
<1>3. ASSUME NEW i \in 1..k
      PROVE  \E j \in 1..(k + 1) : t[j] = s[i]
  <2>1. CASE i <= n
    BY <2>1, <1>2
  <2>2. CASE i > n
    BY <2>2, <1>2
  <2> QED BY <2>1, <2>2
<1> DEFINE old(j) == IF j <= n THEN j ELSE j - 1
<1>4. ASSUME NEW j \in 1..(k + 1), j # n + 1
      PROVE  /\ old(j) \in 1..k /\ t[j] = s[old(j)]
             /\ j > n + 1 => x.key < s[old(j)].key
  <2>1. CASE j <= n
    BY <2>1, <1>2
  <2>2. CASE j > n + 1
    <3>1. j - 1 \in 1..k /\ j - 1 > n /\ (j - 1) + 1 = j
      BY <2>2
    <3> QED BY <3>1, <2>2, <1>2
  <2> QED BY <2>1, <2>2, <1>4
<1>5. HasRows(t, rows, k + 1)
  <2>1. ASSUME NEW j \in 1..(k + 1)
        PROVE  \E p \in 1..(k + 1) : t[j] = rows[p]
    <3>1. CASE j = n + 1
      BY <3>1, <1>2, <1>x
    <3>2. CASE j # n + 1
      <4>1. PICK i \in 1..k : t[j] = s[i]
        BY <3>2, <1>4
      <4>2. PICK p \in 1..k : s[i] = rows[p]
        BY DEF HasRows
      <4> QED BY <4>1, <4>2
    <3> QED BY <3>1, <3>2
  <2>2. ASSUME NEW p \in 1..(k + 1)
        PROVE  \E j \in 1..(k + 1) : t[j] = rows[p]
    <3>1. CASE p = k + 1
      BY <3>1, <1>2, <1>x
    <3>2. CASE p # k + 1
      <4>1. p \in 1..k
        BY <3>2
      <4>2. PICK i \in 1..k : s[i] = rows[p]
        BY <4>1 DEF HasRows
      <4> QED BY <4>2, <1>3
    <3> QED BY <3>1, <3>2
  <2> QED BY <2>1, <2>2, <1>1 DEF HasRows
\* The new row has another index than all of s, and a greater one than those of its key.
<1>6. ASSUME NEW i \in 1..k
      PROVE  s[i].index # x.index /\ (s[i].key = x.key => s[i].index < x.index)
  <2>1. PICK p \in 1..k : s[i] = rows[p]
    BY DEF HasRows
  <2>2. p \in DOMAIN rows /\ k + 1 \in DOMAIN rows /\ p < k + 1
    BY <1>0
  <2> QED BY <2>1, <2>2, <1>x DEF NoIndexTwice, TiesByIndex
<1>7. NoIndexTwice(t)
  <2>1. ASSUME NEW i \in 1..(k + 1), NEW j \in 1..(k + 1), t[i].index = t[j].index
        PROVE  i = j
    <3>1. CASE i = n + 1 /\ j # n + 1
      BY <3>1, <2>1, <1>2, <1>4, <1>6
    <3>2. CASE i # n + 1 /\ j = n + 1
      BY <3>2, <2>1, <1>2, <1>4, <1>6
    <3>3. CASE i # n + 1 /\ j # n + 1
      <4>1. old(i) \in 1..k /\ old(j) \in 1..k /\ t[i] = s[old(i)] /\ t[j] = s[old(j)]
        BY <3>3, <1>4
      <4>2. old(i) = old(j)
        <5> HIDE DEF old
        <5> QED BY <4>1, <2>1, <1>s DEF NoIndexTwice
      <4> QED BY <4>2, <3>3
    <3> QED BY <3>1, <3>2, <3>3
  <2> QED BY <2>1, <1>1 DEF NoIndexTwice
<1>8. TiesByIndex(t)
  <2>1. ASSUME NEW i \in 1..(k + 1), NEW j \in 1..(k + 1), i < j, t[i].key = t[j].key
        PROVE  t[i].index < t[j].index
    <3>1. CASE i = n + 1
      <4>1. j # n + 1 /\ j > n + 1 /\ x.key < s[old(j)].key /\ t[j] = s[old(j)] /\ old(j) \in 1..k
        BY <3>1, <2>1, <1>4
      <4>2. x.key \in Int
        BY <1>0 DEF Row
      <4> QED BY <4>1, <4>2, <3>1, <2>1, <1>2
    <3>2. CASE j = n + 1
      BY <3>2, <2>1, <1>2, <1>4, <1>6
    <3>3. CASE i # n + 1 /\ j # n + 1
      <4>1. old(i) \in 1..k /\ old(j) \in 1..k /\ t[i] = s[old(i)] /\ t[j] = s[old(j)]
        BY <3>3, <1>4
      <4>2. old(i) < old(j)
        BY <3>3, <2>1
      <4> HIDE DEF old
      <4> QED BY <4>1, <4>2, <2>1, <1>s DEF TiesByIndex
    <3> QED BY <3>1, <3>2, <3>3
  <2> QED BY <2>1, <1>1 DEF TiesByIndex
<1> QED BY <1>1, <1>5, <1>7, <1>8, <1>x DEF t

\* std::stable_sort.
LEMMA SortsRows ==
  ASSUME NEW rows \in Seq(Row), NoIndexTwice(rows), TiesByIndex(rows)
  PROVE  LET s == sortRows(rows)
         IN  HasRows(s, rows, Len(rows)) /\ Ordered(s) /\ NoIndexTwice(s) /\ TiesByIndex(s)
<1>1. sortRows(rows) = Sorting!Fold(<<>>, rows)
  BY DEF sortRows, FoldLeft, MapThenFoldSet, Max,
         Sorting!Fold, Sorting!TheFold, Sorting!IsFold, Sorting!Max
<1>2. PICK g : /\ g[0] = <<>>
               /\ \A k \in 1..Len(rows) : g[k] = insertRow(g[k - 1], rows[k])
               /\ Sorting!Fold(<<>>, rows) = g[Len(rows)]
  BY Sorting!FoldSteps
<1> DEFINE Good(k) == /\ HasRows(g[k], rows, k)
                      /\ Ordered(g[k]) /\ NoIndexTwice(g[k]) /\ TiesByIndex(g[k])
           S == {k \in Nat : k <= Len(rows) => Good(k)}
<1>3. 0 \in S
  <2>1. HasRows(<<>>, rows, 0) /\ Ordered(<<>>) /\ NoIndexTwice(<<>>) /\ TiesByIndex(<<>>)
    BY DEF HasRows, Ordered, NoIndexTwice, TiesByIndex
  <2> QED BY <2>1, <1>2
<1>4. ASSUME NEW k \in Nat, k \in S
      PROVE  k + 1 \in S
  <2> SUFFICES ASSUME k + 1 <= Len(rows) PROVE Good(k + 1)
    OBVIOUS
  <2>1. Good(k) /\ k + 1 \in 1..Len(rows) /\ (k + 1) - 1 = k
    BY <1>4
  <2>2. g[k + 1] = insertRow(g[k], rows[k + 1])
    BY <2>1, <1>2
  <2> QED BY <2>1, <2>2, InsertRowKeeps
<1>5. \A k \in Nat : k \in S
  <2> HIDE DEF S
  <2> QED BY <1>3, <1>4, Sorting!NatInd
<1>6. Len(rows) \in Nat /\ Good(Len(rows))
  BY <1>5
<1> QED BY <1>1, <1>2, <1>6
===============================================================================
