----------------------------- MODULE BreadProofs -----------------------------
(***************************************************************************)
(* The parts of bread that need no recursion: the map of its sources, for  *)
(* all ids and sources; its clock, for all ClockSyncs and clocks; and the  *)
(* buffer of its output, for all that can be written.                      *)
(***************************************************************************)
EXTENDS SourceTable, StreamsProofs, Clock, Printers
LOCAL INSTANCE SequencesExt

\* The segmented map is well formed, and gives what was stored.
TableInv ==
  /\ MapTo(table, Sources)
  /\ plain \in [Ids -> Sources \union {NoSource}]
  /\ \A id \in Ids : Lookup(table, id) = IF plain[id] = NoSource THEN None ELSE Some(plain[id])

LEMMA TableInit_Inv == TableInit => TableInv
BY EmptyIsMap, TableAssumption DEF TableInit, TableInv

LEMMA Store_Inv ==
  ASSUME TableInv, NEW id \in Ids, NEW source \in Sources, Store(id, source)
  PROVE  TableInv'
<1>1. id \in Nat /\ source # NoSource
  BY TableAssumption
<1>2. table' = emplace(table, id, source) /\ plain' = [plain EXCEPT ![id] = source]
  BY DEF Store
<1>3. /\ MapTo(table', Sources)
      /\ \A k \in Nat : Lookup(table', k) = IF k = id THEN Some(source) ELSE Lookup(table, k)
  BY <1>1, <1>2, EmplaceIsMap DEF TableInv
<1>4. ASSUME NEW k \in Ids
      PROVE  Lookup(table', k) = IF plain'[k] = NoSource THEN None ELSE Some(plain'[k])
  <2>1. k \in Nat
    BY TableAssumption
  <2>2. plain'[k] = IF k = id THEN source ELSE plain[k]
    BY <1>2 DEF TableInv
  <2> QED
    BY <2>1, <2>2, <1>1, <1>3 DEF TableInv
<1> QED
  BY <1>2, <1>3, <1>4 DEF TableInv

\* Whatever ids a stream defines and defines again, in whatever order, a lookup
\* gives the source that was stored last with the id, or none
\* (SegmentedMap::emplace and find, SegmentedMap.hpp:37-99).
THEOREM SegmentedMapIsMap == TableSpec => []TableIsPlain
<1>1. TableInit => TableInv
  BY TableInit_Inv
<1>2. TableInv /\ [TableNext]_tableVars => TableInv'
  <2> SUFFICES ASSUME TableInv, [TableNext]_tableVars PROVE TableInv'
    OBVIOUS
  <2>1. CASE TableNext
    BY <2>1, Store_Inv DEF TableNext
  <2>2. CASE UNCHANGED tableVars
    BY <2>2 DEF tableVars, TableInv
  <2> QED
    BY <2>1, <2>2
<1>3. TableInv => TableIsPlain
  <2> SUFFICES ASSUME TableInv, NEW id \in Ids PROVE Found(id) = plain[id]
    BY DEF TableIsPlain
  <2>1. CASE plain[id] = NoSource
    <3>1. Lookup(table, id) = None
      BY <2>1 DEF TableInv
    <3>2. ~has(table, id)
      BY <3>1 DEF Lookup, Some, None
    <3> QED
      BY <2>1, <3>2 DEF Found
  <2>2. CASE plain[id] # NoSource
    <3>1. Lookup(table, id) = Some(plain[id])
      BY <2>2 DEF TableInv
    <3> QED
      BY <3>1, LookupFinds DEF Found
  <2> QED
    BY <2>1, <2>2
<1> QED
  BY <1>1, <1>2, <1>3, PTL DEF TableSpec
-----------------------------------------------------------------------------
\* Division of natural numbers, by what it is.
LEMMA DivDef ==
  ASSUME NEW a \in Nat, NEW b \in Nat \ {0}
  PROVE  /\ a \div b \in Nat /\ a % b \in 0..(b - 1)
         /\ a = b * (a \div b) + (a % b)
OBVIOUS

LEMMA MulMono ==
  ASSUME NEW x \in Int, NEW y \in Int, NEW b \in Nat, x <= y
  PROVE  b * x <= b * y /\ x * b <= y * b
OBVIOUS

LEMMA DivUnique ==
  ASSUME NEW b \in Nat \ {0}, NEW q \in Nat, NEW r \in 0..(b - 1), NEW a \in Nat, a = b * q + r
  PROVE  a \div b = q
<1> DEFINE p == a \div b
<1>1. p \in Nat /\ a % b \in 0..(b-1) /\ a = b * p + (a % b)
  BY DivDef
<1> HIDE DEF p
<1>2. ASSUME p < q PROVE FALSE
  <2>1. b * (p + 1) <= b * q
    BY <1>1, <1>2, MulMono
  <2>2. b * (p + 1) = b * p + b
    BY <1>1
  <2> QED BY <1>1, <2>1, <2>2
<1>3. ASSUME q < p PROVE FALSE
  <2>1. b * (q + 1) <= b * p
    BY <1>1, <1>3, MulMono
  <2>2. b * (q + 1) = b * q + b
    BY <1>1
  <2> QED BY <1>1, <2>1, <2>2
<1> QED BY <1>1, <1>2, <1>3 DEF p

\* A number that fits a word is stored as it is.
LEMMA WordFacts ==
  /\ Half \in Nat \ {0} /\ Word = 2 * Half
  /\ \A n \in Int : int64(n) \in Int /\ fits(int64(n))
  /\ \A n \in Int : fits(n) => int64(n) = n
<1>1. Half \in Nat \ {0} /\ Word = 2 * Half
  BY TimeAssumption DEF Half
<1>2. ASSUME NEW n \in Int PROVE int64(n) \in Int /\ fits(int64(n))
  BY <1>1, TimeAssumption DEF int64, fits
<1>3. ASSUME NEW n \in Int, fits(n) PROVE int64(n) = n
  BY <1>1, <1>3, TimeAssumption DEF int64, fits
<1> QED BY <1>1, <1>2, <1>3

\* Division towards zero, of a number and of its opposite.
LEMMA QuotNonNegative ==
  ASSUME NEW a \in Nat, NEW f \in Nat \ {0}
  PROVE  /\ quot(a, f) \in Nat /\ rem(a, f) \in 0..(f - 1)
         /\ quot(-a, f) = -quot(a, f) /\ rem(-a, f) = -rem(a, f)
         /\ a = f * quot(a, f) + rem(a, f)
<1> DEFINE q == a \div f
<1>1. q \in Nat /\ a % f \in 0..(f - 1) /\ a = f * q + (a % f)
  BY DivDef
<1>2. quot(a, f) = q
  BY DEF quot
<1>3. quot(-a, f) = -q
  <2>1. CASE a = 0
    <3>1. q = 0
      <4>1. a = f * 0 + 0 /\ 0 \in 0..(f - 1)
        BY <2>1
      <4> QED BY <4>1, DivUnique
    <3> QED BY <2>1, <3>1 DEF quot
  <2>2. CASE a # 0
    <3>1. ~(-a >= 0) /\ -(-a) = a
      BY <2>2
    <3> QED BY <3>1 DEF quot
  <2> QED BY <2>1, <2>2
<1> HIDE DEF q
<1>4. f * (-q) = -(f * q) /\ f * q \in Int
  BY <1>1
<1>5. rem(a, f) = a - f * q /\ rem(-a, f) = -a - f * (-q)
  BY <1>2, <1>3 DEF rem
<1> QED BY <1>1, <1>2, <1>3, <1>4, <1>5

\* Multiplying after the division loses nothing, and stays between 0 and the result.
LEMMA QuotScaled ==
  ASSUME NEW a \in Nat, NEW f \in Nat \ {0}, NEW d \in Nat
  PROVE  /\ a * d \in Nat /\ rem(a, f) * d \in Nat /\ quot(a, f) * d \in Nat
         /\ quot(rem(a, f) * d, f) \in Nat
         /\ quot(a * d, f) = quot(a, f) * d + quot(rem(a, f) * d, f)
         /\ rem(a, f) * d <= f * d
<1> DEFINE q == quot(a, f)
           r == rem(a, f)
           p == quot(r * d, f)
           s == rem(r * d, f)
<1>1. q \in Nat /\ r \in 0..(f - 1) /\ a = f * q + r
  BY QuotNonNegative
<1>2. r * d \in Nat /\ q * d \in Nat /\ a * d \in Nat
  <2> HIDE DEF q, r
  <2> QED BY <1>1
<1>3. p \in Nat /\ s \in 0..(f - 1) /\ r * d = f * p + s
  BY <1>2, QuotNonNegative
<1> HIDE DEF q, r, p, s
<1>4. a * d = f * (q * d + p) + s
  <2>1. a * d = (f * q) * d + r * d
    BY <1>1
  <2>2. (f * q) * d = f * (q * d)
    BY <1>1
  <2>3. f * (q * d + p) = f * (q * d) + f * p
    BY <1>1, <1>2, <1>3
  <2> QED BY <2>1, <2>2, <2>3, <1>1, <1>2, <1>3
<1>5. (a * d) \div f = q * d + p
  <2>1. q * d + p \in Nat
    BY <1>2, <1>3
  <2> QED BY <1>2, <1>3, <1>4, <2>1, DivUnique
<1>6. quot(a * d, f) = q * d + p
  BY <1>5, <1>2 DEF quot
<1>7. r * d <= f * d
  BY <1>1, MulMono
<1> QED BY <1>2, <1>3, <1>6, <1>7 DEF q, r, p

\* The ticks become nanoseconds without a word being left, if the result fits.
LEMMA TicksExact ==
  ASSUME NEW t \in Int, NEW f \in Nat \ {0},
         fits(f * Den), fits(quot(t * Den, f))
  PROVE  ticksToNanoseconds(f, t) = quot(t * Den, f)
<1> DEFINE a == IF t >= 0 THEN t ELSE -t
           q == quot(a, f) * Den
           m == rem(a, f) * Den
           p == quot(m, f)
<1>1. a \in Nat /\ Den \in Nat
  BY TimeAssumption
<1>2. /\ q \in Nat /\ m \in Nat /\ p \in Nat /\ a * Den \in Nat
      /\ quot(a * Den, f) = q + p /\ m <= f * Den
  BY <1>1, QuotScaled
<1>3. /\ quot(-(a * Den), f) = -(q + p)
      /\ quot(-m, f) = -p
  <2>1. quot(-m, f) = -p
    <3> HIDE DEF m
    <3> QED BY <1>2, QuotNonNegative
  <2>2. quot(-(a * Den), f) = -quot(a * Den, f)
    <3> DEFINE b == a * Den
    <3>1. b \in Nat
      BY <1>2
    <3> HIDE DEF b
    <3>2. quot(-b, f) = -quot(b, f)
      BY <3>1, QuotNonNegative
    <3> QED BY <3>2 DEF b
  <2> QED BY <2>1, <2>2, <1>2
<1>4. /\ quot(-a, f) = -quot(a, f) /\ rem(-a, f) = -rem(a, f)
      /\ quot(a, f) \in Nat /\ rem(a, f) \in 0..(f - 1)
  <2> HIDE DEF a, q, m, p
  <2> QED BY <1>1, QuotNonNegative
<1>5. (-quot(a, f)) * Den = -q /\ (-rem(a, f)) * Den = -m
  BY <1>4, <1>1
<1>6. Half \in Nat \ {0} /\ f * Den \in Int
  BY WordFacts, <1>1
<1>7. CASE t >= 0
  <2>1. a = t
    BY <1>7
  <2>2. fits(q + p) /\ fits(f * Den)
    BY <2>1, <1>2
  <2>3. fits(q) /\ fits(m) /\ fits(q + p)
    <3> HIDE DEF q, m, p
    <3> QED BY <2>2, <1>2, <1>6 DEF fits
  <2>4. int64(q) = q /\ int64(m) = m /\ int64(q + p) = q + p
    <3> HIDE DEF q, m, p
    <3> QED BY <2>3, <1>2, WordFacts
  <2>5. ticksToNanoseconds(f, a) = int64(int64(q) + quot(int64(m), f))
    BY DEF ticksToNanoseconds
  <2> QED BY <2>1, <2>4, <2>5, <1>2
<1>8. CASE ~(t >= 0)
  <2>1. t = -a /\ t * Den = -(a * Den)
    BY <1>8, <1>1
  <2>2. fits(-(q + p)) /\ fits(f * Den)
    BY <2>1, <1>3
  <2>3. /\ fits(-q) /\ fits(-m) /\ fits(-(q + p))
        /\ -q \in Int /\ -m \in Int /\ -(q + p) = (-q) + (-p)
    <3> HIDE DEF q, m, p
    <3> QED BY <2>2, <1>2, <1>6 DEF fits
  <2>4. int64(-q) = -q /\ int64(-m) = -m /\ int64((-q) + (-p)) = -(q + p)
    <3> HIDE DEF q, m, p
    <3> QED BY <2>3, <1>2, WordFacts
  <2>5. ticksToNanoseconds(f, -a) = int64(int64(-q) + quot(int64(-m), f))
    BY <1>4, <1>5 DEF ticksToNanoseconds
  <2> QED BY <2>1, <2>4, <2>5, <1>3
<1> QED BY <1>7, <1>8

\* The seconds of a day and of the days before it are all of the seconds.
LEMMA BrokenDown ==
  ASSUME NEW s \in Nat
  PROVE  s = gmtime_r(s).sec + 60 * gmtime_r(s).min
             + 3600 * gmtime_r(s).hour + 86400 * gmtime_r(s).day
BY DEF gmtime_r

LEMMA SyncIsExact ==
  ASSUME NEW clock \in Clocks, NEW s \in Ticking
  PROVE  Exact(s, clock)
<1> DEFINE t  == int64(clock - s[1])
           f  == s[2]
           n  == quot(t * Den, f)
           ns == s[3] + n
<1>1. clock - s[1] \in Int /\ f \in Nat \ {0} /\ s[3] \in Int /\ Den \in Nat \ {0}
  BY TimeAssumption, ClockAssumption
<1>2. t \in Int
  BY <1>1, WordFacts
<1>3. t * Den \in Int /\ n \in Int
  <2> HIDE DEF t, f
  <2>1. t * Den \in Int
    BY <1>1, <1>2
  <2>2. \A b \in Int : quot(b, f) \in Int
    BY <1>1 DEF quot
  <2> QED BY <2>1, <2>2
<1> SUFFICES ASSUME fits(ns), fits(ns - s[3]), fits(f * Den)
    PROVE  /\ clockToNsSinceEpoch(s, clock) = ns
           /\ ns >= 0 =>
                /\ nsSinceEpochToBrokenDownTimeUTC(ns).nsec \in 0..(Den - 1)
                /\ ns = nsSinceEpochToBrokenDownTimeUTC(ns).nsec
                        + Den * (nsSinceEpochToBrokenDownTimeUTC(ns).time.sec
                                 + 60 * nsSinceEpochToBrokenDownTimeUTC(ns).time.min
                                 + 3600 * nsSinceEpochToBrokenDownTimeUTC(ns).time.hour
                                 + 86400 * nsSinceEpochToBrokenDownTimeUTC(ns).time.day)
  BY DEF Exact
<1>4. clockToNsSinceEpoch(s, clock) = ns
  <2>1. ns - s[3] = n
    <3> HIDE DEF n
    <3> QED BY <1>1, <1>3
  <2>2. ticksToNanoseconds(f, t) = n
    <3> HIDE DEF t, f
    <3> QED BY <1>1, <1>2, <2>1, TicksExact
  <2>3. int64(ns) = ns
    <3> HIDE DEF n
    <3> QED BY <1>1, <1>3, WordFacts
  <2> QED BY <2>2, <2>3 DEF clockToNsSinceEpoch
<1>5. ASSUME ns >= 0
      PROVE  /\ rem(ns, Den) \in 0..(Den - 1)
             /\ ns = rem(ns, Den) + Den * quot(ns, Den) /\ quot(ns, Den) \in Nat
  <2> HIDE DEF n
  <2>1. ns \in Nat
    BY <1>1, <1>3, <1>5
  <2> HIDE DEF ns
  <2>2. /\ quot(ns, Den) \in Nat /\ rem(ns, Den) \in 0..(Den - 1)
        /\ ns = Den * quot(ns, Den) + rem(ns, Den)
    BY <1>1, <2>1, QuotNonNegative
  <2>3. Den * quot(ns, Den) \in Nat
    BY <1>1, <2>2
  <2> QED BY <2>2, <2>3
<1>6. ASSUME ns >= 0
      PROVE  /\ nsSinceEpochToBrokenDownTimeUTC(ns).time = gmtime_r(quot(ns, Den))
             /\ nsSinceEpochToBrokenDownTimeUTC(ns).nsec = rem(ns, Den)
  BY DEF nsSinceEpochToBrokenDownTimeUTC
<1> QED
  <2> HIDE DEF ns
  <2> QED BY <1>4, <1>5, <1>6, BrokenDown

\* Whatever ClockSyncs are read, a clock value becomes exactly the truncated
\* number of nanoseconds, before the ClockSync and after it, whenever the result
\* and frequency * 10^9 fit in a word (Time.cpp:5-50).
THEOREM ClockIsExact == ClockSpec => []ClockExact
<1> DEFINE ClockInv == inForce \in Ticking \union {NoSync}
<1>1. ClockInit => ClockInv
  BY DEF ClockInit
<1>2. ClockInv /\ [ClockNext]_inForce => ClockInv'
  BY DEF ClockNext, readClockSync, NoSync
<1>3. ClockInv => ClockExact
  <2> SUFFICES ASSUME ClockInv, inForce[2] > 0, NEW clock \in Clocks
               PROVE  Exact(inForce, clock)
    BY DEF ClockExact
  <2>1. NoSync[2] = 0
    BY DEF NoSync
  <2>2. inForce \in Ticking
    BY <2>1
  <2> QED BY <2>2, SyncIsExact
<1> QED
  BY <1>1, <1>2, <1>3, PTL DEF ClockSpec

-----------------------------------------------------------------------------
(* The buffer of the output *)

Adding == INSTANCE FoldProofs WITH op <- addText

LEMMA AllTextIsFold == \A cs : allText(cs) = Adding!Fold(<<>>, cs)
BY DEF allText, FoldLeft, MapThenFoldSet, Max,
       Adding!Fold, Adding!TheFold, Adding!IsFold, Adding!Max

\* What was written before comes first.
LEMMA AddedBehind ==
  ASSUME NEW u \in Seq(STRING), NEW cs \in Seq(Calls)
  PROVE  /\ allText(cs) \in Seq(STRING)
         /\ Adding!Fold(u, cs) = u \o allText(cs)
<1> DEFINE n == Len(cs)
<1>1. PICK g : /\ g[0] = u /\ \A k \in 1..n : g[k] = addText(g[k - 1], cs[k])
               /\ Adding!Fold(u, cs) = g[n]
  BY Adding!FoldSteps
<1>2. PICK h : /\ h[0] = <<>> /\ \A k \in 1..n : h[k] = addText(h[k - 1], cs[k])
               /\ Adding!Fold(<<>>, cs) = h[n]
  BY Adding!FoldSteps
<1> DEFINE Good(k) == k <= n => h[k] \in Seq(STRING) /\ g[k] = u \o h[k]
           N == {k \in Nat : Good(k)}
<1>3. 0 \in N
  <2>1. h[0] \in Seq(STRING) /\ u \o h[0] = u
    BY <1>2
  <2> QED BY <2>1, <1>1
<1>4. ASSUME NEW k \in Nat, k \in N PROVE k + 1 \in N
  <2> SUFFICES ASSUME k + 1 <= n PROVE Good(k + 1)
    OBVIOUS
  <2>1. k + 1 \in 1..n /\ (k + 1) - 1 = k /\ Good(k) /\ k <= n
    BY <1>4
  <2>2. cs[k + 1].text \in Seq(STRING)
    BY <2>1 DEF Calls
  <2>3. h[k + 1] = h[k] \o cs[k + 1].text /\ g[k + 1] = g[k] \o cs[k + 1].text
    BY <2>1, <1>1, <1>2 DEF addText
  <2>4. h[k + 1] \in Seq(STRING)
    BY <2>1, <2>2, <2>3, ConcatProperties
  <2>5. \A x, y \in Seq(STRING) : (u \o x) \o y = u \o (x \o y)
    BY ConcatAssociative
  <2>6. g[k + 1] = u \o h[k + 1]
    BY <2>1, <2>2, <2>3, <2>5
  <2> QED BY <2>4, <2>6
<1>5. \A k \in Nat : k \in N
  <2> HIDE DEF N
  <2> QED BY <1>3, <1>4, Adding!NatInd
<1>6. Good(n)
  BY <1>5
<1>7. n <= n /\ allText(cs) = h[n] /\ Adding!Fold(u, cs) = g[n]
  BY <1>1, <1>2, AllTextIsFold
<1> QED
  <2>1. h[n] \in Seq(STRING) /\ g[n] = u \o h[n]
    BY <1>6, <1>7
  <2> HIDE DEF n
  <2> QED BY <1>7, <2>1

\* The text of the first call, and of the others.
LEMMA AllTextHead ==
  ASSUME NEW cs \in Seq(Calls), cs # <<>>
  PROVE  allText(cs) = Head(cs).text \o allText(Tail(cs))
<1>1. Head(cs) \in Calls /\ Tail(cs) \in Seq(Calls) /\ cs = <<Head(cs)>> \o Tail(cs)
  OBVIOUS
<1> DEFINE c == Head(cs)
<1>2. c.text \in Seq(STRING)
  BY <1>1 DEF Calls
<1>3. Adding!Fold(<<>>, <<c>>) = c.text
  <2>1. <<c>> = Append(<<>>, c) /\ <<>> \in Seq(Calls)
    OBVIOUS
  <2>2. \A t \in Seq(Calls), d \in Calls :
          Adding!Fold(<<>>, Append(t, d)) = addText(Adding!Fold(<<>>, t), d)
    BY Adding!FoldAppend
  <2>3. Adding!Fold(<<>>, <<>>) = <<>>
    BY Adding!FoldEmpty
  <2>4. Adding!Fold(<<>>, <<c>>) = addText(<<>>, c)
    <3> HIDE DEF c
    <3> QED BY <2>1, <2>2, <2>3, <1>1 DEF c
  <2>5. <<>> \o c.text = c.text
    BY <1>2
  <2> QED BY <2>4, <2>5 DEF addText
<1>4. Adding!Fold(<<>>, <<c>> \o Tail(cs)) = Adding!Fold(c.text, Tail(cs))
  <2>1. <<c>> \in Seq(Calls)
    BY <1>1
  <2> HIDE DEF c
  <2>2. \A s, t \in Seq(Calls) :
          Adding!Fold(<<>>, s \o t) = Adding!Fold(Adding!Fold(<<>>, s), t)
    BY Adding!FoldConcat
  <2> QED BY <1>1, <1>3, <2>1, <2>2
<1>5. Adding!Fold(c.text, Tail(cs)) = c.text \o allText(Tail(cs))
  BY <1>1, <1>2, AddedBehind
<1> QED BY <1>1, <1>4, <1>5, AllTextIsFold

\* Nothing of the calls is lost, and the buffer is not overrun.
OstreamInv ==
  /\ chunks \in Seq(Calls)
  /\ buf \in Seq(STRING) /\ stream \in Seq(STRING)
  /\ OutputComplete

\* A text of at most n bytes is put behind what was written.
LEMMA Append_Inv ==
  ASSUME OstreamInv, NEW n \in 0..BufSize, NEW text \in Seq(STRING), Len(text) <= n,
         append(n, text)
  PROVE  /\ buf' \in Seq(STRING) /\ stream' \in Seq(STRING) /\ Len(buf') <= BufSize
         /\ stream' \o buf' = (stream \o buf) \o text
         /\ calls' = calls
<1>0. /\ buf \in Seq(STRING) /\ stream \in Seq(STRING) /\ Len(buf) <= BufSize /\ BufSize \in Nat
  BY OstreamAssumption DEF OstreamInv, OutputComplete
<1>1. CASE Len(buf) + n > BufSize
  <2>1. stream' = stream \o buf /\ buf' = <<>> \o text /\ calls' = calls
    BY <1>1 DEF append, reserve
  <2>2. buf' = text
    BY <2>1
  <2> QED BY <1>0, <2>1, <2>2
<1>2. CASE ~(Len(buf) + n > BufSize)
  <2>1. stream' = stream /\ buf' = buf \o text /\ calls' = calls
    BY <1>2 DEF append, reserve
  <2>2. stream \o (buf \o text) = (stream \o buf) \o text
    BY <1>0, ConcatAssociative
  <2> QED BY <1>0, <1>2, <2>1, <2>2
<1> QED BY <1>1, <1>2

\* The next call, or a part of its text, goes into the buffer.
LEMMA Taken_Inv ==
  ASSUME OstreamInv, chunks # <<>>, NEW n \in 0..BufSize, NEW text \in Seq(STRING),
         Len(text) <= n, append(n, text),
         chunks' \in Seq(Calls), allText(chunks) = text \o allText(chunks')
  PROVE  OstreamInv'
<1>1. /\ buf' \in Seq(STRING) /\ stream' \in Seq(STRING) /\ Len(buf') <= BufSize
      /\ stream' \o buf' = (stream \o buf) \o text /\ calls' = calls
  BY Append_Inv
<1>2. stream \o buf \in Seq(STRING) /\ allText(chunks') \in Seq(STRING)
  BY AddedBehind DEF OstreamInv
<1>3. (stream' \o buf') \o allText(chunks') = (stream \o buf) \o allText(chunks)
  <2>1. \A a, r \in Seq(STRING) : (a \o text) \o r = a \o (text \o r)
    BY ConcatAssociative
  <2>2. allText(chunks) = text \o allText(chunks')
    OBVIOUS
  <2> DEFINE w == stream \o buf
             r == allText(chunks')
  <2>3. (w \o text) \o r = w \o (text \o r)
    <3> HIDE DEF w, r
    <3>1. w \in Seq(STRING) /\ r \in Seq(STRING)
      BY <1>2 DEF w, r
    <3> QED BY <2>1, <3>1
  <2>4. stream' \o buf' = w \o text
    BY <1>1
  <2> HIDE DEF w
  <2>5. (stream' \o buf') \o r = w \o allText(chunks)
    BY <2>2, <2>3, <2>4
  <2> QED BY <2>5 DEF w
<1> QED BY <1>1, <1>3 DEF OstreamInv, OutputComplete

LEMMA Write_Inv ==
  ASSUME OstreamInv, Write
  PROVE  OstreamInv'
<1> DEFINE c     == Head(chunks)
           text  == c.text
           wsize == IF Len(text) < BufSize THEN Len(text) ELSE BufSize
           first == SubSeq(text, 1, wsize)
           rest  == SubSeq(text, wsize + 1, Len(text))
<1>1. /\ chunks # <<>> /\ c.op = "write" /\ append(wsize, first)
      /\ chunks' = IF wsize = Len(text) THEN Tail(chunks) ELSE [chunks EXCEPT ![1].text = rest]
  BY DEF Write
<1>2. /\ chunks \in Seq(Calls) /\ c \in Calls /\ Tail(chunks) \in Seq(Calls) /\ c = chunks[1]
      /\ BufSize \in Nat \ {0}
  BY <1>1, OstreamAssumption DEF OstreamInv
<1>3. text \in Seq(STRING) /\ allText(Tail(chunks)) \in Seq(STRING)
  BY <1>2, AddedBehind DEF Calls
<1>4. wsize \in 0..BufSize /\ wsize \in 0..Len(text)
  BY <1>2, <1>3
<1> HIDE DEF text, wsize
<1>5. /\ first \in Seq(STRING) /\ rest \in Seq(STRING) /\ Len(first) = wsize
      /\ text = first \o rest
  <2>1. \A i \in 1..Len(text) : text[i] \in STRING
    BY <1>3
  <2>2. first \in Seq(STRING) /\ Len(first) = wsize
    BY <2>1, <1>3, <1>4, SubSeqProperties
  <2>3. rest \in Seq(STRING)
    BY <2>1, <1>3, <1>4, SubSeqProperties
  <2>4. first \o rest = SubSeq(text, 1, Len(text))
    <3>1. 1 \in 1..(Len(text) + 1) /\ wsize \in (1 - 1)..Len(text) /\ Len(text) \in wsize..Len(text)
      BY <1>3, <1>4
    <3> QED BY <3>1, <1>3, ConcatAdjacentSubSeq
  <2> QED BY <2>2, <2>3, <2>4, <1>3, SubSeqFull
<1>6. allText(chunks) = text \o allText(Tail(chunks))
  BY <1>1, <1>2, AllTextHead DEF text
<1>7. CASE wsize = Len(text)
  <2>1. first = text /\ chunks' = Tail(chunks)
    BY <1>1, <1>3, <1>7, SubSeqFull
  <2>2. /\ wsize \in 0..BufSize /\ first \in Seq(STRING) /\ Len(first) <= wsize
        /\ append(wsize, first) /\ chunks' \in Seq(Calls)
        /\ allText(chunks) = first \o allText(chunks')
    <3> HIDE DEF first
    <3> QED BY <2>1, <1>1, <1>2, <1>4, <1>5, <1>6
  <2> HIDE DEF first
  <2> QED BY <2>2, <1>1, Taken_Inv
<1>8. CASE wsize # Len(text)
  <2> DEFINE d == [op |-> "write", text |-> rest]
  <2>1. chunks' = [chunks EXCEPT ![1] = d]
    <3>1. chunks' = [chunks EXCEPT ![1] = [chunks[1] EXCEPT !.text = rest]]
      BY <1>1, <1>8
    <3>2. c = [op |-> "write", text |-> c.text]
      BY <1>1, <1>2 DEF Calls
    <3>3. [c EXCEPT !.text = rest] = d
      <4> HIDE DEF c, rest
      <4> QED BY <3>2
    <3> QED BY <3>1, <3>3, <1>2
  <2>2. d \in Calls /\ d.text = rest
    BY <1>5 DEF Calls
  <2>3. /\ chunks' \in Seq(Calls) /\ chunks' # <<>>
        /\ Head(chunks') = d /\ Tail(chunks') = Tail(chunks)
    <3> HIDE DEF d
    <3>1. chunks' \in Seq(Calls) /\ Len(chunks') = Len(chunks) /\ chunks'[1] = d
      BY <2>1, <2>2, <1>1, <1>2
    <3>2. \A i \in 2..Len(chunks) : chunks'[i] = chunks[i]
      BY <2>1, <1>2
    <3> QED BY <3>1, <3>2, <1>1, <1>2
  <2>4. allText(chunks') = rest \o allText(Tail(chunks))
    BY <2>2, <2>3, AllTextHead
  <2>5. allText(chunks) = first \o allText(chunks')
    <3>1. (first \o rest) \o allText(Tail(chunks)) = first \o (rest \o allText(Tail(chunks)))
      <4> HIDE DEF first, rest
      <4> QED BY <1>3, <1>5, ConcatAssociative
    <3> QED BY <2>4, <3>1, <1>5, <1>6
  <2>6. /\ wsize \in 0..BufSize /\ first \in Seq(STRING) /\ Len(first) <= wsize
        /\ append(wsize, first) /\ chunks' \in Seq(Calls)
    BY <2>3, <1>1, <1>4, <1>5
  <2> HIDE DEF first
  <2> QED BY <2>5, <2>6, <1>1, Taken_Inv
<1> QED BY <1>7, <1>8

LEMMA Ostream_Inv ==
  ASSUME OstreamInv, [OstreamNext]_ostreamVars
  PROVE  OstreamInv'
<1>0. /\ chunks \in Seq(Calls) /\ BufSize \in Nat \ {0} /\ NumRoom \in 1..BufSize
      /\ <<>> \in Seq(STRING) /\ <<>> \in Seq(Calls) /\ allText(<<>>) = <<>>
  BY OstreamAssumption, AllTextIsFold, Adding!FoldEmpty DEF OstreamInv
<1>1. ASSUME calls' \in Seq(Calls), Construct(calls') PROVE OstreamInv'
  <2>1. allText(calls') \in Seq(STRING)
    BY <1>0, <1>1, AddedBehind
  <2>2. buf' = <<>> /\ stream' = <<>> /\ chunks' = calls'
    BY <1>1 DEF Construct
  <2>3. (stream' \o buf') \o allText(chunks') = allText(calls')
    BY <2>1, <2>2
  <2> QED BY <1>0, <1>1, <2>2, <2>3 DEF OstreamInv, OutputComplete
<1>2. ASSUME chunks # <<>> PROVE
        /\ Head(chunks) \in Calls /\ Tail(chunks) \in Seq(Calls)
        /\ Head(chunks).text \in Seq(STRING)
        /\ allText(chunks) = Head(chunks).text \o allText(Tail(chunks))
  <2>1. Head(chunks) \in Calls /\ Tail(chunks) \in Seq(Calls)
    BY <1>0, <1>2
  <2> QED BY <2>1, <1>0, <1>2, AllTextHead DEF Calls
<1>3. CASE PutChar
  <2>0. chunks # <<>> /\ Head(chunks).op = "put"
    BY <1>3 DEF PutChar
  <2>1. Len(Head(chunks).text) <= 1
    <3>1. Len(Head(chunks).text) = 1
      BY <2>0, <1>2 DEF Calls
    <3>2. \A k : k = 1 => k <= 1
      OBVIOUS
    <3> QED BY <3>1, <3>2
  <2>2. /\ chunks # <<>> /\ append(1, Head(chunks).text) /\ chunks' = Tail(chunks)
        /\ 1 \in 0..BufSize
    BY <1>0, <1>3 DEF PutChar
  <2>3. /\ Head(chunks).text \in Seq(STRING) /\ chunks' \in Seq(Calls)
        /\ allText(chunks) = Head(chunks).text \o allText(chunks')
    BY <2>2, <1>2
  <2> QED BY <2>1, <2>2, <2>3, Taken_Inv
<1>4. CASE WriteNumber
  <2>0. chunks # <<>> /\ Head(chunks).op = "number"
    BY <1>4 DEF WriteNumber
  <2>1. Len(Head(chunks).text) <= NumRoom
    BY <2>0, <1>2 DEF Calls
  <2>2. /\ chunks # <<>> /\ append(NumRoom, Head(chunks).text) /\ chunks' = Tail(chunks)
        /\ NumRoom \in 0..BufSize
    BY <1>0, <1>4 DEF WriteNumber
  <2>3. /\ Head(chunks).text \in Seq(STRING) /\ chunks' \in Seq(Calls)
        /\ allText(chunks) = Head(chunks).text \o allText(chunks')
    BY <2>2, <1>2
  <2> QED BY <2>1, <2>2, <2>3, Taken_Inv
<1>5. CASE Write
  BY <1>5, Write_Inv
<1>6. CASE Destroy
  <2>1. buf' = <<>> /\ stream' = <<>> /\ chunks' = <<>> /\ calls' = <<>>
    BY <1>6 DEF Destroy
  <2> QED BY <1>0, <2>1 DEF OstreamInv, OutputComplete
<1>7. CASE UNCHANGED ostreamVars
  BY <1>7 DEF ostreamVars, OstreamInv, OutputComplete
<1> QED BY <1>1, <1>3, <1>4, <1>5, <1>6, <1>7 DEF OstreamNext

\* Whatever the calls and the sizes of their texts, and wherever the buffer is
\* flushed: it never overflows, and what was flushed, what it holds and what is
\* still to be written make up what was written into it (OstreamBuffer.cpp:20-89).
THEOREM OstreamOutputComplete == OstreamSpec => []OutputComplete
<1>1. OstreamInit => OstreamInv
  <2> SUFFICES ASSUME OstreamInit PROVE OstreamInv
    OBVIOUS
  <2>1. chunks = <<>> /\ buf = <<>> /\ stream = <<>> /\ calls = <<>>
    BY DEF OstreamInit
  <2>2. allText(<<>>) = <<>> /\ BufSize \in Nat
    BY OstreamAssumption, AllTextIsFold, Adding!FoldEmpty
  <2> QED BY <2>1, <2>2 DEF OstreamInv, OutputComplete
<1>2. OstreamInv /\ [OstreamNext]_ostreamVars => OstreamInv'
  BY Ostream_Inv
<1>3. OstreamInv => OutputComplete
  BY DEF OstreamInv
<1> QED
  BY <1>1, <1>2, <1>3, PTL DEF OstreamSpec

-----------------------------------------------------------------------------
(* The loops of bread *)

\* A sequence of events, each with its clock.
IsLog(events) == \E T : events \in Seq(T) /\ \A e \in T : e.num.clock \in Nat

LEMMA LogAppend ==
  ASSUME NEW events, IsLog(events), NEW x, x.num.clock \in Nat
  PROVE  IsLog(Append(events, x))
<1>1. PICK T : events \in Seq(T) /\ \A e \in T : e.num.clock \in Nat
  BY DEF IsLog
<1>2. Append(events, x) \in Seq(T \union {x})
  <2>1. events \in Seq(T \union {x}) /\ x \in T \union {x}
    BY <1>1
  <2> QED BY <2>1
<1> QED BY <1>1, <1>2 DEF IsLog

\* A reader, with any map, properties and events.
IsReader(r) == r = [sources |-> r.sources, writer |-> r.writer, clock |-> r.clock,
                    events |-> r.events, status |-> r.status]

IsEntry(e) == /\ e.kind \in {"source", "writer", "clock", "event", "unknown", "empty"}
              /\ e.kind = "event" => e.num.clock \in Nat

LEMMA LogOfEntry ==
  ASSUME NEW r, NEW e, IsReader(r), IsLog(r.events), IsEntry(e)
  PROVE  LET q == readEntry(r, e) IN IsReader(q) /\ IsLog(q.events)
<1> DEFINE q == readEntry(r, e)
           withStatus(s) == [r EXCEPT !.status = s]
           with(so, w, c, ev, st) == [sources |-> so, writer |-> w, clock |-> c, events |-> ev, status |-> st]
<1>0. /\ \A so, w, c, ev, st : LET p == with(so, w, c, ev, st) IN IsReader(p) /\ p.events = ev
      /\ r = with(r.sources, r.writer, r.clock, r.events, r.status)
  BY DEF IsReader
<1>1. CASE r.status # "reading"
  BY <1>1 DEF readEntry
<1>2. CASE r.status = "reading" /\ e.kind = "empty"
  <2>1. q = with(r.sources, r.writer, r.clock, r.events, "end")
    BY <1>0, <1>2 DEF readEntry
  <2> HIDE DEF q, with
  <2> QED BY <2>1, <1>0 DEF q
<1>e. ASSUME q = withStatus("error") PROVE IsReader(q) /\ IsLog(q.events)
  <2>1. q = with(r.sources, r.writer, r.clock, r.events, "error")
    BY <1>0, <1>e
  <2> HIDE DEF q, with
  <2> QED BY <2>1, <1>0
<1>3. CASE r.status = "reading" /\ e.kind = "event"
  <2>1. readEntry(r, e) = readEvent(r, e)
    BY <1>3 DEF readEntry
  <2>2. CASE e.cut \/ ~has(r.sources, e.id)
    BY <2>1, <2>2, <1>e DEF readEvent
  <2>3. CASE ~(e.cut \/ ~has(r.sources, e.id))
    <3> DEFINE x == [num |-> e.num, src |-> find(r.sources, e.id),
                     writer |-> r.writer, clock |-> r.clock]
    <3>1. q = with(r.sources, r.writer, r.clock, Append(r.events, x), r.status)
      BY <1>0, <2>1, <2>3 DEF readEvent
    <3>2. x.num.clock \in Nat
      BY <1>3 DEF IsEntry
    <3> HIDE DEF x, q, with
    <3>3. IsLog(Append(r.events, x))
      BY <3>2, LogAppend
    <3> QED BY <3>1, <3>3, <1>0 DEF q
  <2> QED BY <2>2, <2>3
<1>4. CASE r.status = "reading" /\ e.kind \notin {"empty", "event"}
  <2>1. readEntry(r, e) = readSpecial(r, e)
    BY <1>4 DEF readEntry
  <2>2. CASE e.cut
    BY <2>1, <2>2, <1>e DEF readSpecial
  <2>3. CASE ~e.cut
    <3> DEFINE sources == IF e.kind = "source" THEN emplace(r.sources, e.id, e.src) ELSE r.sources
               writer  == IF e.kind = "writer" THEN e.name ELSE r.writer
               clock   == IF e.kind = "clock" THEN e.version ELSE r.clock
    <3>1. q = with(sources, writer, clock, r.events, r.status)
      BY <1>0, <1>4, <2>1, <2>3 DEF readSpecial, IsEntry
    <3> HIDE DEF q, with, sources, writer, clock
    <3> QED BY <3>1, <1>0 DEF q
  <2> QED BY <2>2, <2>3
<1> QED BY <1>1, <1>2, <1>3, <1>4

LEMMA LogOfEntries ==
  ASSUME NEW entries, entries \in Seq(ToSet(entries)),
         \A e \in ToSet(entries) : IsEntry(e)
  PROVE  IsLog(readAll(NewReader, entries).events)
<1> DEFINE S == ToSet(entries)
<1>1. PICK g : /\ g[0] = NewReader
               /\ \A k \in 1..Len(entries) : g[k] = readEntry(g[k - 1], entries[k])
               /\ readAll(NewReader, entries) = g[Len(entries)]
  BY ReadSteps
<1>2. \A k \in 1..Len(entries) : IsEntry(entries[k])
  <2>1. \A k \in 1..Len(entries) : entries[k] \in ToSet(entries)
    BY DEF ToSet
  <2> QED BY <2>1
<1> DEFINE Good(k) == IsReader(g[k]) /\ IsLog(g[k].events)
           N == {k \in Nat : k <= Len(entries) => Good(k)}
<1>3. 0 \in N
  <2>0. NewReader.events = <<>> /\ IsReader(NewReader)
    BY DEF NewReader, IsReader
  <2>1. g[0] = NewReader
    BY <1>1
  <2>2. <<>> \in Seq({})
    OBVIOUS
  <2>3. IsLog(NewReader.events)
    BY <2>0, <2>2 DEF IsLog
  <2> QED BY <2>0, <2>1, <2>3
<1>4. ASSUME NEW k \in Nat, k \in N
      PROVE  k + 1 \in N
  <2> SUFFICES ASSUME k + 1 <= Len(entries) PROVE Good(k + 1)
    OBVIOUS
  <2>1. k + 1 \in 1..Len(entries) /\ (k + 1) - 1 = k /\ k <= Len(entries)
    OBVIOUS
  <2>2. Good(k)
    BY <1>4, <2>1
  <2>3. g[k + 1] = readEntry(g[k], entries[k + 1])
    BY <1>1, <2>1
  <2>4. IsEntry(entries[k + 1])
    BY <1>2, <2>1
  <2> QED BY <2>2, <2>3, <2>4, LogOfEntry
<1>5. \A k \in Nat : k \in N
  <2> HIDE DEF N
  <2> QED BY <1>3, <1>4, Adding!NatInd
<1>6. Len(entries) \in Nat /\ Good(Len(entries))
  BY <1>5
<1> QED BY <1>1, <1>6

\* The order of the output of bread -s.
ByClock(pairs) ==
  \A i, j \in DOMAIN pairs : i < j =>
    \/ pairs[i].clock < pairs[j].clock
    \/ pairs[i].clock = pairs[j].clock /\ pairs[i].num < pairs[j].num

\* pairs are the texts of the first Len(pairs) events.
Texts(pairs, events) ==
  /\ \E T : pairs \in Seq(T)
  /\ Len(pairs) <= Len(events)
  /\ \A k \in 1..Len(pairs) : pairs[k].num = k /\ pairs[k].clock = events[k].num.clock

LEMMA SortsPairs ==
  ASSUME NEW events, IsLog(events), NEW pairs, Texts(pairs, events)
  PROVE  LET s == stable_sort(pairs)
         IN  /\ ByClock(s) /\ Len(s) = Len(pairs)
             /\ DOMAIN s = DOMAIN pairs
             /\ \A n \in DOMAIN pairs : \E k \in DOMAIN s : s[k] = pairs[n]
<1> DEFINE rows == [k \in DOMAIN pairs |-> [index |-> k, key |-> pairs[k].clock]]
           sorted == sortRows(rows)
           s == stable_sort(pairs)
           n == Len(pairs)
<1>1. DOMAIN pairs = 1..n /\ n \in Nat /\ pairs = [k \in 1..n |-> pairs[k]]
  BY DEF Texts
<1>2. \A k \in 1..n : pairs[k].num = k /\ pairs[k].clock \in Int
  <2>1. PICK T : events \in Seq(T) /\ \A e \in T : e.num.clock \in Nat
    BY DEF IsLog
  <2>2. \A k \in 1..n : events[k] \in T
    BY <1>1, <2>1 DEF Texts
  <2> QED BY <2>1, <2>2 DEF Texts
<1>3. /\ rows \in Seq(Row) /\ Len(rows) = n
      /\ \A k \in 1..n : rows[k].index = k /\ rows[k].key = pairs[k].clock
  <2>1. \A k \in 1..n : [index |-> k, key |-> pairs[k].clock] \in Row
    BY <1>2 DEF Row
  <2> QED BY <1>1, <2>1
<1>4. NoIndexTwice(rows) /\ TiesByIndex(rows)
  <2> HIDE DEF rows
  <2>1. DOMAIN rows = 1..n
    BY <1>1, <1>3
  <2> QED BY <1>3, <2>1 DEF NoIndexTwice, TiesByIndex
<1>5. HasRows(sorted, rows, n) /\ Ordered(sorted) /\ NoIndexTwice(sorted) /\ TiesByIndex(sorted)
  <2> HIDE DEF rows
  <2> QED BY <1>3, <1>4, SortsRows
<1>6. s = [k \in DOMAIN sorted |-> pairs[sorted[k].index]]
  BY DEF stable_sort
<1> HIDE DEF rows, sorted, s
<1>7. /\ sorted \in Seq(Row) /\ Len(sorted) = n /\ DOMAIN sorted = 1..n
      /\ \A i \in 1..n : \E p \in 1..n : sorted[i] = rows[p]
      /\ \A p \in 1..n : \E i \in 1..n : sorted[i] = rows[p]
  BY <1>5 DEF HasRows
<1>8. DOMAIN s = 1..n /\ Len(s) = n
  BY <1>1, <1>6, <1>7
<1>9. ASSUME NEW i \in 1..n
      PROVE  /\ sorted[i].index \in 1..n
             /\ s[i] = pairs[sorted[i].index]
             /\ s[i].num = sorted[i].index
             /\ s[i].clock = sorted[i].key
             /\ sorted[i].index \in Nat /\ sorted[i].key \in Int
  <2>1. PICK p \in 1..n : sorted[i] = rows[p]
    BY <1>7
  <2>2. sorted[i].index = p /\ sorted[i].key = pairs[p].clock
    BY <2>1, <1>3
  <2>3. s[i] = pairs[p]
    BY <2>2, <1>6, <1>7
  <2> QED BY <2>2, <2>3, <1>2
<1>10. ByClock(s)
  <2>1. ASSUME NEW i \in 1..n, NEW j \in 1..n, i < j
        PROVE  \/ s[i].clock < s[j].clock
               \/ s[i].clock = s[j].clock /\ s[i].num < s[j].num
    <3>1. sorted[i].key <= sorted[j].key
      BY <1>5, <1>7, <2>1 DEF Ordered
    <3>2. sorted[i].key = sorted[j].key => sorted[i].index < sorted[j].index
      BY <1>5, <1>7, <2>1 DEF TiesByIndex
    <3> QED BY <3>1, <3>2, <1>9
  <2> QED BY <2>1, <1>8 DEF ByClock
<1>11. ASSUME NEW p \in 1..n
       PROVE  \E k \in 1..n : s[k] = pairs[p]
  <2>1. PICK k \in 1..n : sorted[k] = rows[p]
    BY <1>7
  <2>2. sorted[k].index = p
    BY <2>1, <1>3
  <2> QED BY <2>2, <1>9
<1> QED BY <1>1, <1>8, <1>10, <1>11 DEF s

\* The events from p + 1 on.
From(events, p) == SubSeq(events, p + 1, Len(events))

LEMMA FromFacts ==
  ASSUME NEW events, IsLog(events), NEW p \in 0..Len(events)
  PROVE  /\ Len(events) \in Nat
         /\ Len(From(events, p)) = Len(events) - p
         /\ (From(events, p) = <<>>) <=> (p = Len(events))
         /\ From(events, p) # <<>> =>
              /\ Head(From(events, p)) = events[p + 1]
              /\ Tail(From(events, p)) = From(events, p + 1)
<1>1. PICK T : events \in Seq(T)
  BY DEF IsLog
<1> DEFINE u == From(events, p)
<1>2. /\ Len(events) \in Nat /\ u \in Seq(T) /\ Len(u) = Len(events) - p
      /\ \A i \in 1..(Len(events) - p) : u[i] = events[p + i]
  BY <1>1 DEF From
<1>3. u = <<>> <=> p = Len(events)
  <2> HIDE DEF u
  <2> QED BY <1>2
<1>4. ASSUME u # <<>>
      PROVE  Head(u) = events[p + 1] /\ Tail(u) = From(events, p + 1)
  <2>1. p + 1 \in 0..Len(events) /\ 1 \in 1..(Len(events) - p)
    BY <1>2, <1>3, <1>4
  <2> DEFINE v == From(events, p + 1)
  <2>2. /\ v \in Seq(T) /\ Len(v) = Len(events) - (p + 1)
        /\ \A i \in 1..(Len(events) - (p + 1)) : v[i] = events[(p + 1) + i]
    BY <1>1, <2>1 DEF From
  <2> HIDE DEF u, v
  <2>3. Head(u) = u[1] /\ Tail(u) \in Seq(T) /\ Len(Tail(u)) = Len(u) - 1
    BY <1>2, <1>4
  <2>4. \A i \in 1..(Len(u) - 1) : Tail(u)[i] = u[i + 1]
    BY <1>2, <1>4
  <2>5. Len(Tail(u)) = Len(v)
    BY <1>2, <2>1, <2>2, <2>3
  <2>6. ASSUME NEW i \in 1..Len(v) PROVE Tail(u)[i] = v[i]
    <3>1. i \in 1..(Len(u) - 1) /\ i + 1 \in 1..(Len(events) - p) /\ p + (i + 1) = (p + 1) + i
      BY <1>2, <2>1, <2>2
    <3> QED BY <3>1, <1>2, <2>2, <2>4
  <2>7. Tail(u) = v
    BY <2>2, <2>3, <2>5, <2>6, SeqEqual
  <2> QED BY <2>1, <2>3, <2>7, <1>2 DEF v
<1> QED BY <1>2, <1>3, <1>4

\* What is read so far is in the buffer of bread -s, and nothing in its output.
PrintersInv ==
  /\ job \in Jobs
  /\ IsLog(log)
  /\ \E p \in 0..Len(log) : todo = From(log, p)
  /\ phase = "printing" => todo # <<>>
  /\ job.sorted =>
       /\ ~failed => Texts(buffer, log) /\ Len(buffer) = Len(log) - Len(todo)
       /\ phase # "done" => output = <<>>
  /\ SortedIsPermutation

LEMMA PrintersInit_Inv == Init => PrintersInv
<1> SUFFICES ASSUME Init PROVE PrintersInv
  OBVIOUS
<1>1. PICK j \in Jobs : /\ job = j
                        /\ log = readAll(NewReader, j.entries).events /\ todo = log
                        /\ phase = "next" /\ buffer = <<>> /\ output = <<>>
  BY DEF Init
<1>2. IsLog(log)
  <2>1. j.entries \in Seq(ToSet(j.entries)) /\ \A e \in ToSet(j.entries) : IsEntry(e)
    BY JobsAssumption DEF IsEntry
  <2> QED BY <1>1, <2>1, LogOfEntries
<1>3. 0 \in 0..Len(log) /\ todo = From(log, 0) /\ Len(log) \in Nat
  <2>1. PICK T : log \in Seq(T)
    BY <1>2 DEF IsLog
  <2>2. 0 + 1 = 1 /\ SubSeq(log, 1, Len(log)) = log
    BY <2>1, SubSeqFull
  <2> QED BY <1>1, <2>1, <2>2 DEF From
<1>4. Texts(buffer, log) /\ Len(buffer) = Len(log) - Len(todo)
  <2>1. <<>> \in Seq({}) /\ Len(<<>>) = 0 /\ 1..0 = {}
    OBVIOUS
  <2> QED BY <1>1, <1>3, <2>1 DEF Texts
<1> QED BY <1>1, <1>2, <1>3, <1>4 DEF PrintersInv, SortedIsPermutation

LEMMA End_Inv ==
  ASSUME PrintersInv, NEW threw \in BOOLEAN, End(threw)
  PROVE  PrintersInv'
<1> DEFINE text == [clock |-> Head(todo).num.clock, num |-> Len(log) - Len(todo) + 1,
                    text |-> Flushed]
<1>1. /\ phase = "printing" /\ phase' = "next" /\ job' = job /\ log' = log
      /\ todo # <<>> /\ IsLog(log) /\ job \in Jobs
      /\ job.sorted => /\ output' = output
                       /\ buffer' = IF threw THEN buffer ELSE Append(buffer, text)
      /\ failed' = (failed \/ threw)
      /\ todo' = IF threw THEN <<>> ELSE Tail(todo)
  BY DEF End, PrintersInv
<1>2. PICK p \in 0..Len(log) : todo = From(log, p)
  BY DEF PrintersInv
<1>3. /\ Len(log) \in Nat /\ Len(todo) = Len(log) - p /\ p < Len(log)
      /\ Head(todo) = log[p + 1] /\ Tail(todo) = From(log, p + 1)
  BY <1>1, <1>2, FromFacts
<1>4. \E q \in 0..Len(log) : todo' = From(log, q)
  <2>1. CASE threw
    <3>1. Len(log) \in 0..Len(log)
      BY <1>3
    <3>2. todo' = From(log, Len(log))
      BY <1>1, <2>1, <3>1, FromFacts
    <3> QED BY <3>1, <3>2
  <2>2. CASE ~threw
    <3>1. p + 1 \in 0..Len(log)
      BY <1>3
    <3> QED BY <3>1, <2>2, <1>1, <1>3
  <2> QED BY <2>1, <2>2
<1>5. ASSUME job.sorted, ~failed'
      PROVE  Texts(buffer', log) /\ Len(buffer') = Len(log) - Len(todo')
  <2>1. ~failed /\ ~threw /\ buffer' = Append(buffer, text) /\ todo' = From(log, p + 1)
    BY <1>1, <1>3, <1>5
  <2>2. Texts(buffer, log) /\ Len(buffer) = p
    BY <2>1, <1>3, <1>5 DEF PrintersInv
  <2>3. text.num = p + 1 /\ text.clock = log[p + 1].num.clock
    BY <1>3
  <2> HIDE DEF text
  <2>4. PICK T : buffer \in Seq(T)
    BY <2>2 DEF Texts
  <2>5. buffer \in Seq(T \union {text}) /\ text \in T \union {text}
    BY <2>4
  <2>6. /\ buffer' \in Seq(T \union {text}) /\ Len(buffer') = p + 1
        /\ buffer'[p + 1] = text /\ \A k \in 1..p : buffer'[k] = buffer[k]
    BY <2>1, <2>2, <2>5
  <2>7. ASSUME NEW k \in 1..(p + 1)
        PROVE  buffer'[k].num = k /\ buffer'[k].clock = log[k].num.clock
    <3>1. CASE k \in 1..p
      BY <3>1, <2>2, <2>6 DEF Texts
    <3>2. CASE k = p + 1
      BY <3>2, <2>3, <2>6
    <3> QED BY <3>1, <3>2
  <2>8. Texts(buffer', log)
    BY <2>6, <2>7, <1>3 DEF Texts
  <2>9. Len(todo') = Len(log) - (p + 1)
    <3>1. p + 1 \in 0..Len(log)
      BY <1>3
    <3> QED BY <3>1, <2>1, <1>1, FromFacts
  <2> QED BY <2>6, <2>8, <2>9
<1>6. job.sorted => output' = <<>>
  BY <1>1 DEF PrintersInv
<1> QED BY <1>1, <1>4, <1>5, <1>6 DEF PrintersInv, SortedIsPermutation

LEMMA Finish_Inv ==
  ASSUME PrintersInv, Finish
  PROVE  PrintersInv'
<1>1. /\ phase = "next" /\ todo = <<>> /\ phase' = "done"
      /\ output' = IF job.sorted /\ ~failed THEN stable_sort(buffer) ELSE output
      /\ UNCHANGED <<job, log, todo, failed, buffer>>
  BY DEF Finish
<1>2. PICK p \in 0..Len(log) : todo = From(log, p)
  BY DEF PrintersInv
<1>3. Len(todo) = 0 /\ Len(log) \in Nat /\ IsLog(log)
  <2>1. Len(<<>>) = 0
    OBVIOUS
  <2> QED BY <1>1, <1>2, <2>1, FromFacts DEF PrintersInv
<1>4. ASSUME job.sorted, failed
      PROVE  output' = <<>>
  BY <1>1, <1>4 DEF PrintersInv
<1>5. ASSUME job.sorted, ~failed
      PROVE  /\ ByClock(output') /\ Len(output') = Len(log)
             /\ \A n \in DOMAIN log : \E k \in DOMAIN output' :
                  /\ output'[k].num = n /\ output'[k].clock = log[n].num.clock
                  /\ output'[k] = buffer[n]
  <2>1. Texts(buffer, log) /\ Len(buffer) = Len(log) /\ output' = stable_sort(buffer)
    BY <1>1, <1>3, <1>5 DEF PrintersInv
  <2>2. /\ ByClock(output') /\ Len(output') = Len(log)
        /\ \A n \in DOMAIN buffer : \E k \in DOMAIN output' : output'[k] = buffer[n]
    BY <2>1, <1>3, SortsPairs
  <2>3. DOMAIN log = 1..Len(log) /\ DOMAIN buffer = 1..Len(buffer)
    BY <1>3, <2>1 DEF IsLog, Texts
  <2> QED BY <2>1, <2>2, <2>3 DEF Texts
<1>6. SortedIsPermutation'
  <2>1. CASE ~job.sorted
    BY <2>1, <1>1 DEF SortedIsPermutation
  <2>2. CASE job.sorted /\ failed
    <3>1. \A i, j \in DOMAIN <<>> : FALSE
      OBVIOUS
    <3> QED BY <2>2, <3>1, <1>1, <1>4 DEF SortedIsPermutation
  <2>3. CASE job.sorted /\ ~failed
    BY <2>3, <1>1, <1>5 DEF SortedIsPermutation, ByClock
  <2> QED BY <2>1, <2>2, <2>3
<1>7. job \in Jobs /\ \E q \in 0..Len(log) : todo = From(log, q)
  BY DEF PrintersInv
<1>8. job.sorted /\ ~failed => Texts(buffer, log) /\ Len(buffer) = Len(log) - Len(todo)
  BY DEF PrintersInv
<1> QED BY <1>1, <1>3, <1>6, <1>7, <1>8 DEF PrintersInv

\* bread -s prints each event once, by the clocks, and those of the same clock in
\* the order of the log; or none at all, if one cannot be read or printed: for
\* all logs, texts and exceptions (printers.cpp:28-53).
THEOREM SortedOutput == PrintersSpec => []SortedIsPermutation
<1>1. Init => PrintersInv
  BY PrintersInit_Inv
<1>2. PrintersInv /\ [PrintersNext]_vars => PrintersInv'
  <2> SUFFICES ASSUME PrintersInv, [PrintersNext]_vars PROVE PrintersInv'
    OBVIOUS
  <2>1. ASSUME Begin(calls') PROVE PrintersInv'
    <3>1. /\ phase = "next" /\ todo # <<>> /\ phase' = "printing"
          /\ UNCHANGED <<job, log, todo, failed, buffer, output>>
      BY <2>1 DEF Begin
    <3> QED BY <3>1 DEF PrintersInv, SortedIsPermutation
  <2>2. CASE Call
    BY <2>2 DEF Call, PrintersInv, SortedIsPermutation
  <2>3. ASSUME NEW threw \in BOOLEAN, End(threw) PROVE PrintersInv'
    BY <2>3, End_Inv
  <2>4. CASE Finish
    BY <2>4, Finish_Inv
  <2>5. CASE UNCHANGED vars
    BY <2>5 DEF vars, PrintersInv, SortedIsPermutation
  <2> QED BY <2>1, <2>2, <2>3, <2>4, <2>5 DEF PrintersNext
<1>3. PrintersInv => SortedIsPermutation
  BY DEF PrintersInv
<1> QED
  BY <1>1, <1>2, <1>3, PTL DEF PrintersSpec

\* The loops use the buffer as it is meant to be used: every event in a buffer of
\* its own, made when the last one is destroyed; so no text is lost or mixed with
\* that of another event (printers.cpp:22-25, 40-42, PrettyPrinter.cpp:92-115).
THEOREM PrintersUseBuffer == PrintersSpec => OstreamSpec /\ []OutputComplete
<1>1. Init => OstreamInit
  BY DEF Init
<1>2. [PrintersNext]_vars => [OstreamNext]_ostreamVars
  <2> SUFFICES ASSUME [PrintersNext]_vars PROVE [OstreamNext]_ostreamVars
    OBVIOUS
  <2>1. CASE calls' \in Seq(Calls) /\ Begin(calls')
    BY <2>1 DEF Begin, OstreamNext
  <2>2. CASE Call
    BY <2>2 DEF Call, OstreamNext
  <2>3. ASSUME NEW threw \in BOOLEAN, End(threw) PROVE [OstreamNext]_ostreamVars
    BY <2>3 DEF End, OstreamNext
  <2>4. CASE Finish
    BY <2>4 DEF Finish
  <2>5. CASE UNCHANGED vars
    BY <2>5 DEF vars
  <2> QED BY <2>1, <2>2, <2>3, <2>4, <2>5 DEF PrintersNext
<1> QED
  BY <1>1, <1>2, OstreamOutputComplete, PTL DEF PrintersSpec, OstreamSpec
=============================================================================
