------------------------- MODULE SerializationProofs -------------------------
(***************************************************************************)
(* Proofs about Serialization and Entry: what is written of a value has    *)
(* the size that was reserved for it, and is read back as the value.       *)
(*                                                                         *)
(* serialize, serialized_size and deserialize are folds over the levels of *)
(* nesting; what one level promises about the values of its types is made  *)
(* of what the level below promises about their parts.                     *)
(***************************************************************************)
EXTENDS SequenceTheorems, Entry, TLAPS
LOCAL INSTANCE SequencesExt

Splitting  == INSTANCE FoldProofs WITH op <- nextByte
Placing    == INSTANCE FoldProofs WITH op <- placeByte
Joining    == INSTANCE FoldProofs WITH op <- addBytes
Adding     == INSTANCE FoldProofs WITH op <- addSize
Reading    == INSTANCE FoldProofs WITH op <- readNext
WriteFolds == INSTANCE FoldProofs WITH op <- serializeDeeper
SizeFolds  == INSTANCE FoldProofs WITH op <- sizeDeeper
ReadFolds  == INSTANCE FoldProofs WITH op <- deserializeDeeper
TraitFolds == INSTANCE FoldProofs WITH op <- isDeserializableDeeper
ValueFolds == INSTANCE FoldProofs WITH op <- isValueDeeper

Bytes == Seq(Byte)

-----------------------------------------------------------------------------
(* Sequences of bytes *)

LEMMA ConcatBytes ==
  ASSUME NEW a \in Bytes, NEW b \in Bytes
  PROVE  a \o b \in Bytes /\ Len(a \o b) = Len(a) + Len(b)
BY DEF Bytes

LEMMA ConcatGroups ==
  ASSUME NEW a \in Bytes, NEW b \in Bytes, NEW c \in Bytes
  PROVE  (a \o b) \o c = a \o (b \o c)
BY ConcatAssociative DEF Bytes

LEMMA ConcatCancels ==
  ASSUME NEW a \in Bytes, NEW b \in Bytes, NEW c \in Bytes, a \o b = a \o c
  PROVE  b = c
<1>1. \A S : \A s, t, v \in Seq(S) : s \o t = s \o v => t = v
  BY ConcatSimplifications
<1> QED BY <1>1 DEF Bytes

LEMMA ConcatNothing ==
  \A a \in Bytes : a \o <<>> = a /\ <<>> \o a = a /\ <<>> \in Bytes
BY ConcatEmptySeq DEF Bytes

\* The first bytes, and the others.
LEMMA ConcatParts ==
  ASSUME NEW a \in Bytes, NEW b \in Bytes
  PROVE  /\ SubSeq(a \o b, 1, Len(a)) = a
         /\ SubSeq(a \o b, Len(a) + 1, Len(a \o b)) = b
<1> USE DEF Bytes
<1> DEFINE s == a \o b
<1>1. s \in Bytes /\ Len(s) = Len(a) + Len(b) /\ Len(a) \in Nat /\ Len(b) \in Nat
  BY ConcatProperties
<1>2. \A i \in 1..Len(s) : s[i] = IF i <= Len(a) THEN a[i] ELSE b[i - Len(a)]
  BY ConcatProperties
<1> HIDE DEF s
<1>3. SubSeq(s, 1, Len(a)) = a
  BY <1>1, <1>2
<1>4. SubSeq(s, Len(a) + 1, Len(s)) = b
  BY <1>1, <1>2
<1> QED BY <1>3, <1>4 DEF s

\* A sequence is its first bytes and the others.
LEMMA Split ==
  ASSUME NEW s \in Bytes, NEW n \in 0..Len(s)
  PROVE  /\ SubSeq(s, 1, n) \in Bytes /\ SubSeq(s, n + 1, Len(s)) \in Bytes
         /\ Len(SubSeq(s, 1, n)) = n /\ Len(SubSeq(s, n + 1, Len(s))) = Len(s) - n
         /\ s = SubSeq(s, 1, n) \o SubSeq(s, n + 1, Len(s))
<1> USE DEF Bytes
<1> DEFINE h == SubSeq(s, 1, n)
           r == SubSeq(s, n + 1, Len(s))
<1>1. h \in Bytes /\ Len(h) = n /\ \A i \in 1..n : h[i] = s[i]
  OBVIOUS
<1>2. r \in Bytes /\ Len(r) = Len(s) - n /\ \A i \in 1..(Len(s) - n) : r[i] = s[n + i]
  OBVIOUS
<1>0. n \in Nat /\ Len(s) \in Nat /\ n <= Len(s)
  OBVIOUS
<1> HIDE DEF h, r
<1>3. h \o r \in Bytes /\ Len(h \o r) = Len(s)
  <2>1. h \o r \in Bytes /\ Len(h \o r) = Len(h) + Len(r)
    BY <1>1, <1>2, ConcatBytes, Zenon
  <2> QED BY <2>1, <1>0, <1>1, <1>2
<1>6. \A i \in 1..(Len(h) + Len(r)) : (h \o r)[i] = IF i <= Len(h) THEN h[i] ELSE r[i - Len(h)]
  BY <1>1, <1>2, ConcatProperties
<1>4. \A i \in 1..Len(s) : (h \o r)[i] = s[i]
  BY <1>0, <1>1, <1>2, <1>6
<1>5. s = h \o r
  BY <1>3, <1>4, SeqEqual
<1> QED BY <1>1, <1>2, <1>5 DEF h, r

\* Of two ways to cut the same bytes, the one that cuts later.
CutLater(a, b, c, d) == a \o b = c \o d /\ Len(a) >= Len(c)
Between(a, b, c, d)  == \E r \in Bytes : a = c \o r /\ d = r \o b

LEMMA CutTwice ==
  \A a, b, c, d \in Bytes : CutLater(a, b, c, d) => Between(a, b, c, d)
<1> SUFFICES ASSUME NEW a \in Bytes, NEW b \in Bytes, NEW c \in Bytes, NEW d \in Bytes,
                    CutLater(a, b, c, d)
             PROVE  Between(a, b, c, d)
  OBVIOUS
<1>9. a \o b = c \o d /\ Len(a) >= Len(c)
  BY DEF CutLater
<1> DEFINE r == SubSeq(a, Len(c) + 1, Len(a))
           h == SubSeq(a, 1, Len(c))
<1>0. Len(a) \in Nat /\ Len(c) \in Nat /\ Len(c) \in 0..Len(a)
  BY <1>9 DEF Bytes
<1>1. h \in Bytes /\ r \in Bytes /\ Len(h) = Len(c) /\ a = h \o r
  BY <1>0, Split
<1> HIDE DEF h, r
<1>2. r \o b \in Bytes
  BY <1>1, ConcatBytes
<1>7. a \o b = h \o (r \o b)
  <2>0. h \in Bytes /\ r \in Bytes
    BY <1>1
  <2>1. (h \o r) \o b = h \o (r \o b)
    BY <2>0, ConcatGroups
  <2> QED BY <2>1, <1>1
<1>3. SubSeq(a \o b, 1, Len(c)) = h
  BY <1>1, <1>2, <1>7, ConcatParts
<1>4. SubSeq(c \o d, 1, Len(c)) = c
  BY ConcatParts
<1>5. h = c
  BY <1>3, <1>4, <1>9
<1>6. d = r \o b
  BY <1>2, <1>5, <1>7, <1>9, ConcatCancels
<1> QED BY <1>1, <1>5, <1>6 DEF Between

-----------------------------------------------------------------------------
(* Integers *)

LEMMA SplitIsFold ==
  ASSUME NEW n, NEW size
  PROVE  splitBytes(n, size) =
           Splitting!Fold([bytes |-> <<>>, rest |-> n], [i \in 1..size |-> i])
BY DEF splitBytes, FoldLeft, MapThenFoldSet, Max,
       Splitting!Fold, Splitting!TheFold, Splitting!IsFold, Splitting!Max

LEMMA SplitNone == \A n : splitBytes(n, 0) = [bytes |-> <<>>, rest |-> n]
<1> TAKE n
<1>1. [i \in 1..0 |-> i] = <<>>
  OBVIOUS
<1>2. Splitting!Fold([bytes |-> <<>>, rest |-> n], <<>>) = [bytes |-> <<>>, rest |-> n]
  BY Splitting!FoldEmpty
<1> QED BY <1>1, <1>2, SplitIsFold

\* The numbers from 1 on.
LEMMA OneMoreNumber ==
  ASSUME NEW k \in Nat
  PROVE  /\ [i \in 1..(k + 1) |-> i] = Append([i \in 1..k |-> i], k + 1)
         /\ [i \in 1..k |-> i] \in Seq(Nat)
OBVIOUS

LEMMA SplitNext ==
  ASSUME NEW n, NEW k \in Nat
  PROVE  splitBytes(n, k + 1) = nextByte(splitBytes(n, k), k + 1)
<1> DEFINE base == [bytes |-> <<>>, rest |-> n]
           s    == [i \in 1..k |-> i]
<1>1. s \in Seq(Nat) /\ [i \in 1..(k + 1) |-> i] = Append(s, k + 1) /\ k + 1 \in Nat
  BY OneMoreNumber
<1>2. splitBytes(n, k) = Splitting!Fold(base, s)
  BY SplitIsFold
<1>3. splitBytes(n, k + 1) = Splitting!Fold(base, Append(s, k + 1))
  BY SplitIsFold, <1>1
<1> HIDE DEF base, s
<1>4. Splitting!Fold(base, Append(s, k + 1)) = nextByte(Splitting!Fold(base, s), k + 1)
  BY <1>1, Splitting!FoldAppend
<1> QED BY <1>2, <1>3, <1>4

\* What is left of n after k bytes.
rest(n, k) == splitBytes(n, k).rest

LEMMA SplitState ==
  ASSUME NEW n \in Int
  PROVE  /\ rest(n, 0) = n
         /\ \A k \in Nat :
              /\ rest(n, k) \in Int /\ rest(n, k + 1) = rest(n, k) \div 256
              /\ bytesOf(n, k) \in Bytes /\ Len(bytesOf(n, k)) = k
              /\ \A i \in 1..k : bytesOf(n, k)[i] = rest(n, i - 1) % 256
<1> DEFINE Good(k) ==
             /\ rest(n, k) \in Int
             /\ bytesOf(n, k) \in Bytes /\ Len(bytesOf(n, k)) = k
             /\ \A i \in 1..k : bytesOf(n, k)[i] = rest(n, i - 1) % 256
           N == {k \in Nat : Good(k)}
<1>1. rest(n, 0) = n /\ bytesOf(n, 0) = <<>>
  <2>1. splitBytes(n, 0) = [bytes |-> <<>>, rest |-> n]
    BY SplitNone
  <2> QED BY <2>1 DEF rest, bytesOf
<1>2. ASSUME NEW k \in Nat
      PROVE  /\ rest(n, k + 1) = rest(n, k) \div 256
             /\ bytesOf(n, k + 1) = Append(bytesOf(n, k), rest(n, k) % 256)
  <2>1. splitBytes(n, k + 1) =
          [bytes |-> Append(splitBytes(n, k).bytes, splitBytes(n, k).rest % 256),
           rest |-> splitBytes(n, k).rest \div 256]
    BY SplitNext DEF nextByte
  <2> QED BY <2>1 DEF rest, bytesOf
<1>3. 0 \in N
  <2>1. <<>> \in Bytes /\ Len(<<>>) = 0
    BY DEF Bytes
  <2> QED BY <1>1, <2>1
<1>4. ASSUME NEW k \in Nat, k \in N PROVE k + 1 \in N
  <2> DEFINE m == rest(n, k)
  <2>0. m \in Int /\ rest(n, k + 1) = m \div 256
    BY <1>2, <1>4
  <2>1. m % 256 \in Byte /\ rest(n, k + 1) \in Int
    <3> HIDE DEF m
    <3> QED BY <2>0 DEF Byte
  <2> DEFINE b == bytesOf(n, k)
             x == rest(n, k) % 256
  <2>2. b \in Bytes /\ Len(b) = k /\ \A i \in 1..k : b[i] = rest(n, i - 1) % 256
    BY <1>4
  <2>3. bytesOf(n, k + 1) = Append(b, x) /\ x \in Byte
    BY <1>2, <2>1
  <2> HIDE DEF b
  <2>4. Append(b, x) \in Bytes /\ Len(Append(b, x)) = k + 1
    <3> HIDE DEF x
    <3> QED BY <2>2, <2>3 DEF Bytes
  <2>5. \A i \in 1..(k + 1) : Append(b, x)[i] = rest(n, i - 1) % 256
    <3>1. \A i \in 1..k : Append(b, x)[i] = b[i]
      <4> HIDE DEF x
      <4> QED BY <2>2, <2>3 DEF Bytes
    <3>2. Append(b, x)[k + 1] = x
      <4> HIDE DEF x
      <4> QED BY <2>2, <2>3 DEF Bytes
    <3> HIDE DEF x
    <3>3. x = rest(n, (k + 1) - 1) % 256
      BY DEF x
    <3> QED BY <2>2, <3>1, <3>2, <3>3
  <2> HIDE DEF x, m
  <2>6. Good(k + 1)
    <3>1. bytesOf(n, k + 1) \in Bytes /\ Len(bytesOf(n, k + 1)) = k + 1
      BY <2>3, <2>4
    <3>2. \A i \in 1..(k + 1) : bytesOf(n, k + 1)[i] = rest(n, i - 1) % 256
      BY <2>3, <2>5
    <3> QED BY <2>1, <3>1, <3>2
  <2> QED BY <2>6
<1>5. \A k \in Nat : k \in N
  <2> HIDE DEF N
  <2> QED BY <1>3, <1>4, Splitting!NatInd
<1> QED BY <1>1, <1>2, <1>5

LEMMA PlaceIsFold ==
  ASSUME NEW bytes, NEW signed
  PROVE  integerOf(bytes, signed) =
           Placing!Fold(IF signed /\ Last(bytes) >= 128 THEN -1 ELSE 0, Reverse(bytes))
BY DEF integerOf, FoldLeft, MapThenFoldSet, Max,
       Placing!Fold, Placing!TheFold, Placing!IsFold, Placing!Max

\* A number is put together again from its bytes, and the sign of the highest.
LEMMA IntegerBack ==
  ASSUME NEW n \in Int, NEW size \in Nat \ {0}, NEW signed \in BOOLEAN,
         rest(n, size - 1) \in IF signed THEN -128..127 ELSE Byte
  PROVE  integerOf(bytesOf(n, size), signed) = n
<1> DEFINE b     == bytesOf(n, size)
           s     == Reverse(b)
           start == IF signed /\ Last(b) >= 128 THEN -1 ELSE 0
<1>1. /\ b \in Bytes /\ Len(b) = size
      /\ \A i \in 1..size : b[i] = rest(n, i - 1) % 256
      /\ \A k \in Nat : rest(n, k) \in Int /\ rest(n, k + 1) = rest(n, k) \div 256
      /\ rest(n, 0) = n
  <2>1. size \in Nat
    OBVIOUS
  <2>2. bytesOf(n, size) \in Bytes /\ Len(bytesOf(n, size)) = size
    BY <2>1, SplitState
  <2>3. \A i \in 1..size : bytesOf(n, size)[i] = rest(n, i - 1) % 256
    BY <2>1, SplitState
  <2>4. \A k \in Nat : rest(n, k) \in Int /\ rest(n, k + 1) = rest(n, k) \div 256
    BY SplitState
  <2>5. rest(n, 0) = n
    BY SplitState
  <2> QED BY <2>2, <2>3, <2>4, <2>5
<1>2. integerOf(b, signed) = Placing!Fold(start, s)
  BY PlaceIsFold
<1>3. start = rest(n, size)
  <2> DEFINE m == rest(n, size - 1)
  <2>0. size - 1 \in Nat /\ (size - 1) + 1 = size /\ size \in 1..size
    OBVIOUS
  <2>1. m \in Int /\ rest(n, size) = m \div 256
    BY <1>1, <2>0
  <2>2. Last(b) = m % 256
    BY <1>1, <2>0 DEF Last
  <2>3. m \in IF signed THEN -128..127 ELSE Byte
    OBVIOUS
  <2> HIDE DEF m, b
  <2>4. CASE signed
    <3>1. m \in -128..127
      BY <2>3, <2>4
    <3>2. CASE m < 0
      <4>1. m % 256 >= 128 /\ m \div 256 = -1
        BY <3>1, <3>2
      <4> QED BY <4>1, <2>1, <2>2, <2>4
    <3>3. CASE m >= 0
      <4>1. ~(m % 256 >= 128) /\ m \div 256 = 0
        BY <3>1, <3>3
      <4> QED BY <4>1, <2>1, <2>2, <2>4
    <3> QED BY <3>1, <3>2, <3>3
  <2>5. CASE ~signed
    <3>1. m \div 256 = 0
      BY <2>3, <2>5 DEF Byte
    <3> QED BY <3>1, <2>1, <2>5
  <2> QED BY <2>4, <2>5
<1> HIDE DEF b
<1>4. /\ s \in Bytes /\ Len(s) = size
      /\ \A j \in 1..size : s[j] = rest(n, size - j) % 256
  <2>1. s = [i \in 1..size |-> b[(size - i) + 1]]
    BY <1>1 DEF Reverse
  <2>2. \A i \in 1..size : (size - i) + 1 \in 1..size /\ ((size - i) + 1) - 1 = size - i
    OBVIOUS
  <2>3. \A i \in 1..size : b[i] \in Byte
    BY <1>1 DEF Bytes
  <2>4. \A j \in 1..size : s[j] = b[(size - j) + 1]
    BY <2>1
  <2>5. s \in [1..size -> Byte]
    BY <2>1, <2>2, <2>3
  <2> HIDE DEF s
  <2>6. \A j \in 1..size : s[j] = rest(n, size - j) % 256
    BY <2>4, <2>2, <1>1
  <2> QED BY <2>5, <2>6 DEF Bytes
<1> HIDE DEF s, start
<1>5. PICK h : /\ h[0] = start
               /\ \A j \in 1..Len(s) : h[j] = placeByte(h[j - 1], s[j])
               /\ Placing!Fold(start, s) = h[Len(s)]
  BY <1>4, Placing!FoldSteps DEF Bytes
<1> DEFINE N == {j \in Nat : j <= size => h[j] = rest(n, size - j)}
<1>6. 0 \in N
  BY <1>3, <1>5
<1>7. ASSUME NEW j \in Nat, j \in N PROVE j + 1 \in N
  <2> SUFFICES ASSUME j + 1 <= size PROVE h[j + 1] = rest(n, size - (j + 1))
    OBVIOUS
  <2> DEFINE k == size - (j + 1)
             m == rest(n, k)
  <2>1. k \in Nat /\ size - j = k + 1 /\ j + 1 \in 1..Len(s) /\ (j + 1) - 1 = j /\ j <= size
    BY <1>4
  <2>2. h[j] = rest(n, k + 1)
    BY <1>7, <2>1
  <2>3. s[j + 1] = m % 256
    BY <1>4, <2>1
  <2>4. h[j + 1] = s[j + 1] + 256 * h[j]
    BY <1>5, <2>1 DEF placeByte
  <2>5. m \in Int /\ rest(n, k + 1) = m \div 256
    BY <1>1, <2>1
  <2> HIDE DEF m
  <2>6. (m % 256) + 256 * (m \div 256) = m
    BY <2>5
  <2> QED BY <2>2, <2>3, <2>4, <2>5, <2>6 DEF m
<1>8. \A j \in Nat : j \in N
  <2> HIDE DEF N
  <2> QED BY <1>6, <1>7, Placing!NatInd
<1>9. h[size] = rest(n, 0)
  BY <1>8
<1> QED BY <1>1, <1>2, <1>4, <1>5, <1>9 DEF b

Letters == DOMAIN sizeofArith

LEMMA Sizes ==
  /\ \A letter \in Letters : sizeofArith[letter] \in {1, 2, 4, 8}
  /\ "I" \in Letters /\ sizeofArith["I"] = 4 /\ "B" \in Letters /\ sizeofArith["B"] = 1
  /\ \A letter : isSigned(letter) \in BOOLEAN
  /\ ~isSigned("I") /\ ~isSigned("B")
BY DEF Letters, sizeofArith, isSigned

\* What is written of a number, and read again.
LEMMA NumberWritten ==
  ASSUME NEW letter \in Letters, NEW n \in Int, InRange(n, letter)
  PROVE  /\ serializeArith(letter, n) \in Bytes
         /\ Len(serializeArith(letter, n)) = sizeofArith[letter]
         /\ integerOf(serializeArith(letter, n), isSigned(letter)) = n
<1> DEFINE size == sizeofArith[letter]
           signed == isSigned(letter)
<1>1. size \in Nat \ {0} /\ signed \in BOOLEAN
  BY Sizes
<1>2. rest(n, size - 1) \in IF signed THEN -128..127 ELSE Byte
  BY DEF InRange, rest
<1>3. serializeArith(letter, n) = bytesOf(n, size)
  BY DEF serializeArith
<1> HIDE DEF size, signed
<1>4. size \in Nat
  BY <1>1
<1>5. bytesOf(n, size) \in Bytes /\ Len(bytesOf(n, size)) = size
  BY <1>4, SplitState
<1>6. integerOf(bytesOf(n, size), signed) = n
  BY <1>1, <1>2, IntegerBack
<1> QED BY <1>3, <1>5, <1>6 DEF size, signed

\* The input begins with the bytes of a number, or ends within them.
LEMMA NumberRead ==
  ASSUME NEW letter \in Letters, NEW n \in Int, InRange(n, letter)
  PROVE  /\ \A more \in Bytes : readArith(serializeArith(letter, n) \o more, letter) = took(n, more)
         /\ \A in \in Bytes : Len(in) < sizeofArith[letter] => ~readArith(in, letter).ok
<1> DEFINE size == sizeofArith[letter]
           b == serializeArith(letter, n)
           signed == isSigned(letter)
<1>1. size \in Nat /\ b \in Bytes /\ Len(b) = size /\ integerOf(b, signed) = n
  <2>1. size \in Nat
    BY Sizes
  <2> QED BY <2>1, NumberWritten
<1>2. ASSUME NEW more \in Bytes
      PROVE  readArith(b \o more, letter) = took(n, more)
  <2>1. /\ Len(b \o more) = size + Len(more) /\ Len(more) \in Nat
        /\ SubSeq(b \o more, 1, size) = b
        /\ SubSeq(b \o more, size + 1, Len(b \o more)) = more
    <3>1. b \in Bytes /\ Len(b) = size
      BY <1>1
    <3>2. Len(b \o more) = Len(b) + Len(more) /\ Len(more) \in Nat
      BY <3>1, ConcatBytes DEF Bytes
    <3>3. SubSeq(b \o more, 1, Len(b)) = b /\ SubSeq(b \o more, Len(b) + 1, Len(b \o more)) = more
      BY <3>1, ConcatParts
    <3> HIDE DEF b, size
    <3> QED BY <3>1, <3>2, <3>3
  <2> HIDE DEF b, size
  <2>2. view(b \o more, size) = took(b, more)
    <3>1. ~(size > Len(b \o more))
      BY <2>1, <1>1
    <3> QED BY <3>1, <2>1 DEF view
  <2>3. readArith(b \o more, letter) = [took(b, more) EXCEPT !.value = integerOf(b, signed)]
    BY <2>2 DEF readArith, took, size
  <2> HIDE DEF signed
  <2> QED BY <2>3, <1>1 DEF took
<1>3. ASSUME NEW in \in Bytes, Len(in) < size
      PROVE  ~readArith(in, letter).ok
  <2>1. size > Len(in)
    BY <1>1, <1>3 DEF Bytes
  <2>2. view(in, size) = threw(in)
    BY <2>1 DEF view
  <2>3. readArith(in, letter) = threw(in)
    BY <2>2 DEF readArith, threw
  <2> QED BY <2>3 DEF threw
<1> QED BY <1>2, <1>3

-----------------------------------------------------------------------------
(* Parts, one after the other *)

LEMMA JoinIsFold ==
  ASSUME NEW w, NEW ts, NEW vs
  PROVE  serializeEach(w, ts, vs) = Joining!Fold(<<>>, [i \in DOMAIN vs |-> w[ts[i]][vs[i]]])
BY DEF serializeEach, FoldLeft, MapThenFoldSet, Max,
       Joining!Fold, Joining!TheFold, Joining!IsFold, Joining!Max

LEMMA AddIsFold ==
  ASSUME NEW s, NEW ts, NEW vs
  PROVE  sizeOfEach(s, ts, vs) = Adding!Fold(0, [i \in DOMAIN vs |-> s[ts[i]][vs[i]]])
BY DEF sizeOfEach, FoldLeft, MapThenFoldSet, Max,
       Adding!Fold, Adding!TheFold, Adding!IsFold, Adding!Max

LEMMA ReadIsFold ==
  ASSUME NEW d, NEW ts, NEW in
  PROVE  deserializeEach(d, ts, in) = Reading!Fold(took(<<>>, in), [i \in DOMAIN ts |-> d[ts[i]]])
BY DEF deserializeEach, FoldLeft, MapThenFoldSet, Max,
       Reading!Fold, Reading!TheFold, Reading!IsFold, Reading!Max

\* g goes through the bytes of the parts.
Joins(g, bs) ==
  /\ g[0] = <<>>
  /\ \A k \in 1..Len(bs) : g[k] = g[k - 1] \o bs[k]
  /\ \A k \in 0..Len(bs) : g[k] \in Bytes
  /\ \A k \in 0..Len(bs) : \E m \in Bytes : g[Len(bs)] = g[k] \o m
  /\ g[Len(bs)] = Joining!Fold(<<>>, bs)

LEMMA JoinState ==
  ASSUME NEW bs \in Seq(Bytes)
  PROVE  \E g : Joins(g, bs)
<1> DEFINE n == Len(bs)
<1>0. n \in Nat /\ \A k \in 1..n : bs[k] \in Bytes
  OBVIOUS
<1>1. PICK g : /\ g[0] = <<>> /\ \A k \in 1..n : g[k] = g[k - 1] \o bs[k]
               /\ Joining!Fold(<<>>, bs) = g[n]
  <2>1. \E g : /\ g[0] = <<>> /\ \A k \in 1..Len(bs) : g[k] = addBytes(g[k - 1], bs[k])
               /\ Joining!Fold(<<>>, bs) = g[Len(bs)]
    BY Joining!FoldSteps
  <2> QED BY <2>1 DEF addBytes
<1> HIDE DEF n
<1> DEFINE N == {k \in Nat : k <= n => g[k] \in Bytes}
<1>2. 0 \in N
  <2>1. g[0] = <<>>
    BY <1>1
  <2>2. <<>> \in Bytes
    BY DEF Bytes
  <2> QED BY <2>1, <2>2
<1>3. ASSUME NEW k \in Nat, k \in N PROVE k + 1 \in N
  <2> SUFFICES ASSUME k + 1 <= n PROVE g[k + 1] \in Bytes
    OBVIOUS
  <2>1. k + 1 \in 1..n /\ (k + 1) - 1 = k /\ g[k] \in Bytes
    BY <1>0, <1>3
  <2>2. g[k + 1] = g[k] \o bs[k + 1] /\ bs[k + 1] \in Bytes
    BY <1>0, <1>1, <2>1
  <2> QED BY <2>1, <2>2, ConcatBytes
<1>4. \A k \in Nat : k \in N
  <2> HIDE DEF N
  <2> QED BY <1>2, <1>3, Joining!NatInd
<1>5. \A k \in 0..n : g[k] \in Bytes
  BY <1>0, <1>4
<1> HIDE DEF N
<1> DEFINE M == {j \in Nat : j <= n => \E m \in Bytes : g[n] = g[n - j] \o m}
<1>6. 0 \in M
  <2>1. g[n - 0] \o <<>> = g[n] /\ <<>> \in Bytes
    BY <1>0, <1>5, ConcatNothing
  <2> QED BY <2>1
<1>7. ASSUME NEW j \in Nat, j \in M PROVE j + 1 \in M
  <2> SUFFICES ASSUME j + 1 <= n PROVE \E m \in Bytes : g[n] = g[n - (j + 1)] \o m
    OBVIOUS
  <2> DEFINE k == n - j
  <2>1. k \in 1..n /\ n - (j + 1) = k - 1 /\ k - 1 \in 0..n /\ k \in 0..n
    BY <1>0
  <2>2. PICK m \in Bytes : g[n] = g[k] \o m
    <3>1. j <= n
      BY <1>0
    <3> QED BY <3>1, <1>7
  <2> HIDE DEF k
  <2>3. g[k] = g[k - 1] \o bs[k] /\ g[k - 1] \in Bytes /\ bs[k] \in Bytes
    BY <1>0, <1>1, <1>5, <2>1
  <2>4. (g[k - 1] \o bs[k]) \o m = g[k - 1] \o (bs[k] \o m)
    <3>1. g[k - 1] \in Bytes /\ bs[k] \in Bytes
      BY <2>3
    <3> QED BY <3>1, ConcatGroups
  <2>5. bs[k] \o m \in Bytes
    BY <2>3, ConcatBytes
  <2> QED BY <2>1, <2>2, <2>3, <2>4, <2>5
<1>8. \A j \in Nat : j \in M
  <2> HIDE DEF M
  <2> QED BY <1>6, <1>7, Joining!NatInd
<1>9. \A k \in 0..n : \E m \in Bytes : g[n] = g[k] \o m
  <2> TAKE k \in 0..n
  <2> DEFINE j == n - k
  <2>1. j \in Nat /\ j <= n /\ n - j = k
    BY <1>0
  <2> HIDE DEF j
  <2>2. j \in M
    BY <2>1, <1>8
  <2> QED BY <2>1, <2>2 DEF M
<1> QED BY <1>1, <1>5, <1>9 DEF Joins, n

LEMMA AddSteps ==
  \A S : \A s \in Seq(S) :
    \E h : /\ h[0] = 0 /\ \A k \in 1..Len(s) : h[k] = addSize(h[k - 1], s[k])
          /\ Adding!Fold(0, s) = h[Len(s)]
BY Adding!FoldSteps

\* The number of the bytes is the sum of the numbers.
LEMMA SizesAdd ==
  ASSUME NEW bs \in Seq(Bytes), NEW ss \in Seq(Nat), Len(ss) = Len(bs),
         \A k \in 1..Len(bs) : ss[k] = Len(bs[k])
  PROVE  /\ Joining!Fold(<<>>, bs) \in Bytes
         /\ Adding!Fold(0, ss) = Len(Joining!Fold(<<>>, bs))
<1> DEFINE n == Len(bs)
<1>0. n \in Nat
  OBVIOUS
<1>1. PICK g : Joins(g, bs)
  BY JoinState
<1>2. PICK h : /\ h[0] = 0 /\ \A k \in 1..Len(ss) : h[k] = addSize(h[k - 1], ss[k])
               /\ Adding!Fold(0, ss) = h[Len(ss)]
  BY AddSteps
<1> DEFINE N == {k \in Nat : k <= n => h[k] = Len(g[k])}
<1>3. 0 \in N
  BY <1>1, <1>2 DEF Joins
<1>4. ASSUME NEW k \in Nat, k \in N PROVE k + 1 \in N
  <2> SUFFICES ASSUME k + 1 <= n PROVE h[k + 1] = Len(g[k + 1])
    OBVIOUS
  <2>1. k + 1 \in 1..n /\ (k + 1) - 1 = k /\ k \in 0..n /\ h[k] = Len(g[k])
    BY <1>0, <1>4
  <2>2. g[k] \in Bytes /\ bs[k + 1] \in Bytes /\ g[k + 1] = g[k] \o bs[k + 1]
    <3>1. bs[k + 1] \in Bytes
      BY <2>1
    <3>2. g[k] \in Bytes
      BY <1>1, <2>1 DEF Joins
    <3>3. g[k + 1] = g[k] \o bs[k + 1]
      BY <1>1, <2>1 DEF Joins
    <3> QED BY <3>1, <3>2, <3>3
  <2>3. h[k + 1] = h[k] + Len(bs[k + 1])
    BY <1>2, <2>1 DEF addSize
  <2>4. Len(g[k] \o bs[k + 1]) = Len(g[k]) + Len(bs[k + 1])
    <3>1. g[k] \in Bytes /\ bs[k + 1] \in Bytes
      BY <2>2
    <3> QED BY <3>1, ConcatBytes
  <2> QED BY <2>1, <2>2, <2>3, <2>4
<1>5. \A k \in Nat : k \in N
  <2> HIDE DEF N
  <2> QED BY <1>3, <1>4, Joining!NatInd
<1>6. h[n] = Len(g[n])
  BY <1>0, <1>5
<1>7. g[n] \in Bytes /\ g[n] = Joining!Fold(<<>>, bs)
  BY <1>0, <1>1 DEF Joins
<1> QED BY <1>2, <1>6, <1>7

\* The reader takes the value from an input that begins with its bytes, and
\* fails if the input ends within them.
Reads(r, b, v) ==
  /\ \A more \in Bytes : r[b \o more] = took(v, more)
  /\ \A in, more \in Bytes : in \o more = b /\ more # <<>> => ~r[in].ok

LEMMA NextRead ==
  ASSUME NEW reader, NEW u, NEW z
  PROVE  /\ \A v, y : reader[z] = took(v, y) => readNext(took(u, z), reader) = took(Append(u, v), y)
         /\ ~reader[z].ok => ~readNext(took(u, z), reader).ok
         /\ \A r : ~r.ok => ~readNext(r, reader).ok
<1>1. took(u, z).ok /\ took(u, z).in = z /\ took(u, z).value = u
  BY DEF took
<1>2. readNext(took(u, z), reader) =
        [value |-> Append(u, reader[z].value), in |-> reader[z].in, ok |-> reader[z].ok]
  BY <1>1 DEF readNext
<1>3. ASSUME NEW v, NEW y, reader[z] = took(v, y)
      PROVE  readNext(took(u, z), reader) = took(Append(u, v), y)
  BY <1>2, <1>3 DEF took
<1>4. ASSUME ~reader[z].ok PROVE ~readNext(took(u, z), reader).ok
  BY <1>2, <1>4
<1>5. ASSUME NEW r, ~r.ok PROVE ~readNext(r, reader).ok
  BY <1>5 DEF readNext
<1> QED BY <1>3, <1>4, <1>5

\* The first k elements.
LEMMA TakeOneMore ==
  ASSUME NEW V, NEW v \in Seq(V), NEW k \in Nat, k + 1 <= Len(v)
  PROVE  Append(SubSeq(v, 1, k), v[k + 1]) = SubSeq(v, 1, k + 1)
OBVIOUS

\* Readers of the parts read what is written of them.
LEMMA ReadEach ==
  ASSUME NEW bs \in Seq(Bytes), NEW R, NEW rs \in Seq(R), NEW V, NEW v \in Seq(V),
         Len(rs) = Len(bs), Len(v) = Len(bs),
         \A i \in 1..Len(bs) : Reads(rs[i], bs[i], v[i])
  PROVE  LET J == Joining!Fold(<<>>, bs) IN
         /\ \A more \in Bytes : Reading!Fold(took(<<>>, J \o more), rs) = took(v, more)
         /\ \A in, more \in Bytes :
              in \o more = J /\ more # <<>> => ~Reading!Fold(took(<<>>, in), rs).ok
<1> DEFINE n == Len(bs)
           J == Joining!Fold(<<>>, bs)
<1>0. n \in Nat /\ \A k \in 1..n : bs[k] \in Bytes
  OBVIOUS
<1>1. PICK g : Joins(g, bs)
  BY JoinState
<1>2. /\ g[0] = <<>> /\ g[n] = J /\ J \in Bytes
      /\ \A k \in 1..n : g[k] = g[k - 1] \o bs[k]
      /\ \A k \in 0..n : g[k] \in Bytes
      /\ \A k \in 0..n : \E m \in Bytes : J = g[k] \o m
  <2> HIDE DEF J
  <2>1. g[Len(bs)] = J
    BY <1>1 DEF Joins, J
  <2>2. g[n] \in Bytes
    BY <1>0, <1>1 DEF Joins
  <2>3. /\ g[0] = <<>>
        /\ \A k \in 1..n : g[k] = g[k - 1] \o bs[k]
        /\ \A k \in 0..n : g[k] \in Bytes
        /\ \A k \in 0..n : \E m \in Bytes : g[n] = g[k] \o m
    BY <1>1 DEF Joins
  <2> QED BY <2>1, <2>2, <2>3
<1> HIDE DEF J
<1>3. ASSUME NEW in
      PROVE  \E h : /\ h[0] = took(<<>>, in)
                    /\ \A k \in 1..n : h[k] = readNext(h[k - 1], rs[k])
                    /\ Reading!Fold(took(<<>>, in), rs) = h[n]
  <2> HIDE DEF n
  <2>1. \A base, S : \A s \in Seq(S) :
          \E h : /\ h[0] = base /\ \A k \in 1..Len(s) : h[k] = readNext(h[k - 1], s[k])
                 /\ Reading!Fold(base, s) = h[Len(s)]
    BY Reading!FoldSteps
  <2> QED BY <2>1 DEF n
<1>4. ASSUME NEW more \in Bytes
      PROVE  Reading!Fold(took(<<>>, J \o more), rs) = took(v, more)
  <2>1. PICK h : /\ h[0] = took(<<>>, J \o more)
                 /\ \A k \in 1..n : h[k] = readNext(h[k - 1], rs[k])
                 /\ Reading!Fold(took(<<>>, J \o more), rs) = h[n]
    BY <1>3
  <2> DEFINE P(k) == \E z \in Bytes : h[k] = took(SubSeq(v, 1, k), z) /\ J \o more = g[k] \o z
             N == {k \in Nat : k <= n => P(k)}
  <2>2. 0 \in N
    <3>1. J \o more \in Bytes
      BY <1>2, ConcatBytes
    <3>2. SubSeq(v, 1, 0) = <<>> /\ g[0] \o (J \o more) = J \o more
      BY <1>2, <3>1, ConcatNothing
    <3> QED BY <2>1, <3>1, <3>2
  <2>3. ASSUME NEW k \in Nat, k \in N PROVE k + 1 \in N
    <3> SUFFICES ASSUME k + 1 <= n PROVE P(k + 1)
      <4> HIDE DEF P
      <4> QED OBVIOUS
    <3>1. k + 1 \in 1..n /\ (k + 1) - 1 = k /\ k <= n /\ k \in 0..n /\ k + 1 \in 0..n
      BY <1>0
    <3>2. P(k)
      BY <2>3, <3>1
    <3>3. PICK z \in Bytes : h[k] = took(SubSeq(v, 1, k), z) /\ J \o more = g[k] \o z
      BY <3>2
    <3>4. PICK m \in Bytes : J = g[k + 1] \o m
      BY <1>2, <3>1
    <3> DEFINE b == bs[k + 1]
               y == m \o more
    <3>5. g[k] \in Bytes /\ b \in Bytes /\ y \in Bytes
      BY <1>0, <1>2, <3>1, ConcatBytes
    <3>6. g[k + 1] = g[k] \o b /\ g[k + 1] \in Bytes
      BY <1>2, <3>1
    <3> HIDE DEF b
    <3>7. J \o more = g[k] \o (b \o y)
      <4>1. b \o y \in Bytes
        BY <3>5, ConcatBytes
      <4>2. (g[k + 1] \o m) \o more = g[k + 1] \o y
        <5>1. g[k + 1] \in Bytes
          BY <3>6
        <5> QED BY <5>1, ConcatGroups
      <4>3. (g[k] \o b) \o y = g[k] \o (b \o y)
        BY <3>5, ConcatGroups
      <4> HIDE DEF y
      <4> QED BY <3>4, <3>6, <4>2, <4>3
    <3> HIDE DEF y
    <3>8. z = b \o y
      <4>1. b \o y \in Bytes
        BY <3>5, ConcatBytes
      <4>2. g[k] \o z = g[k] \o (b \o y)
        BY <3>3, <3>7
      <4> QED BY <3>5, <4>1, <4>2, ConcatCancels
    <3>9. rs[k + 1][z] = took(v[k + 1], y)
      BY <3>1, <3>5, <3>8 DEF Reads, b
    <3>10. h[k + 1] = readNext(took(SubSeq(v, 1, k), z), rs[k + 1])
      BY <2>1, <3>1, <3>3
    <3>11. h[k + 1] = took(Append(SubSeq(v, 1, k), v[k + 1]), y)
      BY <3>9, <3>10, NextRead
    <3>12. h[k + 1] = took(SubSeq(v, 1, k + 1), y)
      BY <3>1, <3>11, TakeOneMore
    <3>13. J \o more = g[k + 1] \o y
      <4>1. (g[k] \o b) \o y = g[k] \o (b \o y)
        BY <3>5, ConcatGroups
      <4> QED BY <3>6, <3>7, <4>1
    <3> QED BY <3>5, <3>12, <3>13
  <2>4. \A k \in Nat : k \in N
    <3> HIDE DEF N
    <3> QED BY <2>2, <2>3, Reading!NatInd
  <2>5. P(n)
    <3> HIDE DEF P
    <3> QED BY <1>0, <2>4
  <2>6. PICK z \in Bytes : h[n] = took(SubSeq(v, 1, n), z) /\ J \o more = g[n] \o z
    BY <2>5
  <2>7. z = more
    <3>1. J \o more = J \o z /\ J \in Bytes
      BY <1>2, <2>6
    <3> QED BY <3>1, ConcatCancels
  <2>8. SubSeq(v, 1, n) = v
    BY SubSeqFull
  <2> QED BY <2>1, <2>6, <2>7, <2>8
<1>5. ASSUME NEW in \in Bytes, NEW more \in Bytes, in \o more = J, more # <<>>
      PROVE  ~Reading!Fold(took(<<>>, in), rs).ok
  <2>1. PICK h : /\ h[0] = took(<<>>, in)
                 /\ \A k \in 1..n : h[k] = readNext(h[k - 1], rs[k])
                 /\ Reading!Fold(took(<<>>, in), rs) = h[n]
    BY <1>3
  <2> DEFINE P(k) == h[k].ok => \E u : \E z \in Bytes : h[k] = took(u, z) /\ in = g[k] \o z
             N == {k \in Nat : k <= n => P(k)}
  <2>2. 0 \in N
    <3>1. g[0] \o in = in
      BY <1>2, ConcatNothing
    <3> QED BY <2>1, <3>1
  <2>3. ASSUME NEW k \in Nat, k \in N PROVE k + 1 \in N
    <3> SUFFICES ASSUME k + 1 <= n, h[k + 1].ok
                 PROVE  \E u : \E z \in Bytes : h[k + 1] = took(u, z) /\ in = g[k + 1] \o z
      OBVIOUS
    <3>1. k + 1 \in 1..n /\ (k + 1) - 1 = k /\ k <= n /\ k \in 0..n /\ k + 1 \in 0..n
      BY <1>0
    <3>2. h[k + 1] = readNext(h[k], rs[k + 1])
      BY <2>1, <3>1
    <3>3. h[k].ok
      BY <3>2, NextRead
    <3>4. PICK u, z : z \in Bytes /\ h[k] = took(u, z) /\ in = g[k] \o z
      BY <2>3, <3>1, <3>3
    <3>5. PICK m \in Bytes : J = g[k + 1] \o m
      BY <1>2, <3>1
    <3> DEFINE b == bs[k + 1]
    <3>6. g[k] \in Bytes /\ b \in Bytes /\ z \in Bytes
      BY <1>0, <1>2, <3>1, <3>4
    <3>7. g[k + 1] = g[k] \o b
      BY <1>2, <3>1
    <3> HIDE DEF b
    <3>8. z \o more = b \o m
      <4>1. z \o more \in Bytes /\ b \o m \in Bytes
        BY <3>6, ConcatBytes
      <4>2. (g[k] \o z) \o more = g[k] \o (z \o more)
        BY <3>6, ConcatGroups
      <4>3. (g[k] \o b) \o m = g[k] \o (b \o m)
        BY <3>6, ConcatGroups
      <4>4. g[k] \o (z \o more) = g[k] \o (b \o m)
        BY <1>5, <3>4, <3>5, <3>7, <4>2, <4>3
      <4> QED BY <3>6, <4>1, <4>4, ConcatCancels
    <3>9. CASE Len(z) >= Len(b)
      <4>0. \E r \in Bytes : z = b \o r /\ m = r \o more
        <5>1. z \in Bytes /\ more \in Bytes /\ b \in Bytes /\ m \in Bytes
          BY <3>6
        <5>2. CutLater(z, more, b, m)
          BY <3>8, <3>9 DEF CutLater
        <5>3. Between(z, more, b, m)
          BY <5>1, <5>2, CutTwice
        <5> QED BY <5>3 DEF Between
      <4>1. PICK y \in Bytes : z = b \o y
        BY <4>0
      <4>2. rs[k + 1][z] = took(v[k + 1], y)
        BY <3>1, <4>1 DEF Reads, b
      <4>3. h[k + 1] = took(Append(u, v[k + 1]), y)
        BY <3>2, <3>4, <4>2, NextRead
      <4>6. g[k] \in Bytes /\ b \in Bytes /\ y \in Bytes
        BY <3>6
      <4>4. (g[k] \o b) \o y = g[k] \o (b \o y)
        BY <4>6, ConcatGroups
      <4>5. in = g[k + 1] \o y
        BY <3>4, <3>7, <4>1, <4>4
      <4> QED BY <4>3, <4>5
    <3>10. CASE ~(Len(z) >= Len(b))
      <4>1. Len(b) >= Len(z) /\ Len(z) # Len(b)
        BY <3>6, <3>10 DEF Bytes
      <4>0. \E r \in Bytes : b = z \o r /\ more = r \o m
        <5>1. z \in Bytes /\ more \in Bytes /\ b \in Bytes /\ m \in Bytes
          BY <3>6
        <5>2. CutLater(b, m, z, more)
          BY <3>8, <4>1 DEF CutLater
        <5>3. Between(b, m, z, more)
          BY <5>1, <5>2, CutTwice
        <5> QED BY <5>3 DEF Between
      <4>2. PICK y \in Bytes : b = z \o y
        BY <4>0
      <4>3. y # <<>>
        <5>1. z \o <<>> = z
          BY <3>6, ConcatNothing
        <5> QED BY <4>1, <4>2, <5>1
      <4>4. ~rs[k + 1][z].ok
        BY <3>1, <3>6, <4>2, <4>3 DEF Reads, b
      <4>5. ~h[k + 1].ok
        BY <3>2, <3>4, <4>4, NextRead
      <4> QED BY <4>5
    <3> QED BY <3>9, <3>10
  <2>4. \A k \in Nat : k \in N
    <3> HIDE DEF N
    <3> QED BY <2>2, <2>3, Reading!NatInd
  <2>5. P(n)
    <3> HIDE DEF P
    <3> QED BY <1>0, <2>4
  <2>6. ASSUME h[n].ok PROVE FALSE
    <3>1. PICK z \in Bytes : in = J \o z
      BY <1>2, <2>5, <2>6
    <3>2. Len(J) = Len(in) + Len(more)
      BY <1>5, ConcatBytes
    <3>3. Len(in) = Len(J) + Len(z)
      BY <1>2, <3>1, ConcatBytes
    <3>4. Len(more) = 0
      BY <1>2, <3>2, <3>3 DEF Bytes
    <3> QED BY <1>5, <3>4 DEF Bytes
  <2> QED BY <2>1, <2>6
<1> QED BY <1>4, <1>5 DEF J

-----------------------------------------------------------------------------
(* One level of nesting *)

\* What a level promises of a value: w wrote it, s sized it, r reads it if d
\* says that its type can be read.
Promise(w, s, r, d, t, v) ==
  /\ w[t][v] \in Bytes /\ s[t][v] = Len(w[t][v])
  /\ t.kind = "arith" => s[t][v] = sizeofArith[t.letter]
  /\ d[t] => Reads(r[t], w[t][v], v)

Level(w, s, r, d, c) ==
  \A t \in Types : \A v \in Values[t] : c[t][v] => Promise(w, s, r, d, t, v)

ReadsFields(r, ts, b, v) ==
  /\ \A more \in Bytes : deserializeEach(r, ts, b \o more) = took(v, more)
  /\ \A in, more \in Bytes : in \o more = b /\ more # <<>> => ~deserializeEach(r, ts, in).ok

ReadsValue(r, t, b, v) ==
  /\ \A more \in Bytes : deserializeBy(r, t, b \o more) = took(v, more)
  /\ \A in, more \in Bytes : in \o more = b /\ more # <<>> => ~deserializeBy(r, t, in).ok

\* The fields of a tuple, a struct or an entry, or the elements of a sequence.
LEMMA FieldsPromise ==
  ASSUME NEW w, NEW s, NEW r, NEW d, NEW c, Level(w, s, r, d, c),
         NEW ts \in Seq(Types), NEW v, areValues(c, ts, v)
  PROVE  /\ serializeEach(w, ts, v) \in Bytes
         /\ sizeOfEach(s, ts, v) = Len(serializeEach(w, ts, v))
         /\ (\A i \in DOMAIN ts : d[ts[i]]) => ReadsFields(r, ts, serializeEach(w, ts, v), v)
<1> DEFINE n  == Len(ts)
           bs == [i \in 1..n |-> w[ts[i]][v[i]]]
           ss == [i \in 1..n |-> s[ts[i]][v[i]]]
           rs == [i \in 1..n |-> r[ts[i]]]
           J  == Joining!Fold(<<>>, bs)
<1>0. n \in Nat /\ DOMAIN ts = 1..n
  OBVIOUS
<1>1. v = [i \in 1..n |-> v[i]] /\ DOMAIN v = 1..n
  BY <1>0 DEF areValues
<1>2. \A i \in 1..n : Promise(w, s, r, d, ts[i], v[i])
  BY <1>0 DEF areValues, Level
<1>3. bs \in Seq(Bytes) /\ Len(bs) = n /\ \A i \in 1..n : bs[i] = w[ts[i]][v[i]]
  <2>1. \A i \in 1..n : w[ts[i]][v[i]] \in Bytes
    BY <1>2 DEF Promise
  <2> HIDE DEF n
  <2> QED BY <1>0, <2>1
<1>4. ss \in Seq(Nat) /\ Len(ss) = n /\ \A i \in 1..n : ss[i] = Len(bs[i])
  <2>1. \A i \in 1..n : s[ts[i]][v[i]] = Len(bs[i]) /\ Len(bs[i]) \in Nat
    BY <1>2, <1>3 DEF Promise, Bytes
  <2> HIDE DEF n, bs
  <2> QED BY <1>0, <2>1
<1>5. serializeEach(w, ts, v) = J
  BY <1>1, JoinIsFold
<1>6. sizeOfEach(s, ts, v) = Adding!Fold(0, ss)
  BY <1>1, AddIsFold
<1>7. \A in : deserializeEach(r, ts, in) = Reading!Fold(took(<<>>, in), rs)
  BY <1>0, ReadIsFold
<1> DEFINE V == {v[i] : i \in 1..n}
           R == {r[ts[i]] : i \in 1..n}
<1>8. v \in Seq(V) /\ Len(v) = n
  <2> DEFINE u == [i \in 1..n |-> v[i]]
  <2> HIDE DEF n
  <2>1. u \in Seq(V) /\ Len(u) = n
    BY <1>0
  <2> HIDE DEF V
  <2>2. u = v
    BY <1>1
  <2> HIDE DEF u
  <2> QED BY <2>1, <2>2
<1>9. rs \in Seq(R) /\ Len(rs) = n /\ \A i \in 1..n : rs[i] = r[ts[i]]
  <2> HIDE DEF n
  <2> QED BY <1>0
<1> HIDE DEF n, bs, ss, rs, V, R
<1>10. J \in Bytes /\ Adding!Fold(0, ss) = Len(J)
  BY <1>3, <1>4, SizesAdd
<1>11. ASSUME \A i \in DOMAIN ts : d[ts[i]]
       PROVE  ReadsFields(r, ts, J, v)
  <2>1. \A i \in 1..Len(bs) : Reads(rs[i], bs[i], v[i])
    BY <1>0, <1>2, <1>3, <1>9, <1>11 DEF Promise
  <2>2. /\ \A more \in Bytes : Reading!Fold(took(<<>>, J \o more), rs) = took(v, more)
        /\ \A in, more \in Bytes :
             in \o more = J /\ more # <<>> => ~Reading!Fold(took(<<>>, in), rs).ok
    BY <1>3, <1>8, <1>9, <2>1, ReadEach
  <2> HIDE DEF J
  <2> QED BY <1>7, <2>2 DEF ReadsFields
<1> QED BY <1>5, <1>6, <1>10, <1>11

-----------------------------------------------------------------------------
(* The kinds of types *)

\* A byte, as it is written.
LEMMA ByteWritten ==
  ASSUME NEW n \in Byte
  PROVE  n \in Int /\ InRange(n, "B") /\ serializeArith("B", n) = <<n>>
<1>1. n \in Int /\ n % 256 = n
  BY DEF Byte
<1>2. sizeofArith["B"] = 1 /\ ~isSigned("B")
  BY Sizes
<1>3. rest(n, 0) = n
  BY <1>1, SplitState
<1>4. InRange(n, "B")
  BY <1>2, <1>3 DEF InRange, rest
<1>5. bytesOf(n, 1) \in Bytes /\ Len(bytesOf(n, 1)) = 1 /\ bytesOf(n, 1)[1] = n
  <2> DEFINE k == 1
  <2>1. k \in Nat /\ n \in Int /\ k \in 1..k /\ k - 1 = 0
    BY <1>1
  <2> HIDE DEF k
  <2>2. bytesOf(n, k) \in Bytes /\ Len(bytesOf(n, k)) = k
    BY <2>1, SplitState
  <2>3. \A i \in 1..k : bytesOf(n, k)[i] = rest(n, i - 1) % 256
    BY <2>1, SplitState
  <2>4. bytesOf(n, k)[k] = rest(n, 0) % 256
    BY <2>1, <2>3
  <2> QED BY <1>1, <1>3, <2>2, <2>4 DEF k
<1>6. bytesOf(n, 1) = <<n>>
  BY <1>5 DEF Bytes
<1> QED BY <1>1, <1>2, <1>4, <1>6 DEF serializeArith

\* A number in front of other bytes, in an input that ends within them.
LEMMA NumberInFront ==
  ASSUME NEW letter \in Letters, NEW n \in Int, InRange(n, letter), NEW b \in Bytes
  PROVE  /\ \A more \in Bytes :
              readArith((serializeArith(letter, n) \o b) \o more, letter) = took(n, b \o more)
         /\ \A in, more \in Bytes :
              in \o more = serializeArith(letter, n) \o b =>
                \/ ~readArith(in, letter).ok
                \/ \E x \in Bytes : readArith(in, letter) = took(n, x) /\ x \o more = b
<1> DEFINE h == serializeArith(letter, n)
<1>1. h \in Bytes /\ Len(h) = sizeofArith[letter]
  BY NumberWritten
<1>2. /\ \A more \in Bytes : readArith(h \o more, letter) = took(n, more)
      /\ \A in \in Bytes : Len(in) < sizeofArith[letter] => ~readArith(in, letter).ok
  BY NumberRead
<1> HIDE DEF h
<1>3. ASSUME NEW more \in Bytes
      PROVE  readArith((h \o b) \o more, letter) = took(n, b \o more)
  <2>1. h \in Bytes
    BY <1>1
  <2>2. (h \o b) \o more = h \o (b \o more)
    BY <2>1, ConcatGroups
  <2>3. b \o more \in Bytes
    BY ConcatBytes
  <2> QED BY <1>2, <2>2, <2>3
<1>4. ASSUME NEW in \in Bytes, NEW more \in Bytes, in \o more = h \o b, readArith(in, letter).ok
      PROVE  \E x \in Bytes : readArith(in, letter) = took(n, x) /\ x \o more = b
  <2>1. ~(Len(in) < sizeofArith[letter])
    BY <1>2, <1>4
  <2>2. Len(in) >= Len(h)
    <3>1. Len(in) \in Nat /\ Len(h) \in Nat
      BY <1>1 DEF Bytes
    <3> QED BY <1>1, <2>1, <3>1
  <2>3. CutLater(in, more, h, b)
    BY <1>4, <2>2 DEF CutLater
  <2>4. Between(in, more, h, b)
    <3>1. h \in Bytes
      BY <1>1
    <3> QED BY <2>3, <3>1, CutTwice
  <2>5. PICK x \in Bytes : in = h \o x /\ b = x \o more
    BY <2>4 DEF Between
  <2>6. readArith(in, letter) = took(n, x)
    BY <1>2, <2>5
  <2> QED BY <2>5, <2>6
<1> QED BY <1>3, <1>4 DEF h

LEMMA Shorter ==
  ASSUME NEW in \in Bytes, NEW more \in Bytes, more # <<>>
  PROVE  Len(in) < Len(in \o more)
<1>1. Len(in \o more) = Len(in) + Len(more)
  BY ConcatBytes
<1>2. Len(more) \in Nat \ {0} /\ Len(in) \in Nat
  BY EmptySeq DEF Bytes
<1> QED BY <1>1, <1>2

LEMMA NumberPromise ==
  ASSUME NEW t, t.kind \in {"arith", "enum"}, letterOf(t) \in Letters,
         NEW v, NEW c, isValueBy(c, t, v)
  PROVE  LET b == serializeArith(letterOf(t), v) IN
         /\ b \in Bytes /\ sizeofArith[letterOf(t)] = Len(b)
         /\ \A d : ReadsValue(d, t, b, v)
<1> DEFINE letter == letterOf(t)
           b == serializeArith(letter, v)
<1>1. v \in Int /\ InRange(v, letter)
  BY DEF isValueBy
<1>2. b \in Bytes /\ Len(b) = sizeofArith[letter]
  BY <1>1, NumberWritten
<1>3. /\ \A more \in Bytes : readArith(b \o more, letter) = took(v, more)
      /\ \A in \in Bytes : Len(in) < sizeofArith[letter] => ~readArith(in, letter).ok
  BY <1>1, NumberRead
<1>4. \A d, in : deserializeBy(d, t, in) = readArith(in, letter)
  BY DEF deserializeBy
<1> HIDE DEF b, letter
<1>5. ASSUME NEW in \in Bytes, NEW more \in Bytes, in \o more = b, more # <<>>
      PROVE  ~readArith(in, letter).ok
  <2>1. Len(in) < Len(b)
    BY <1>5, Shorter
  <2> QED BY <1>2, <1>3, <2>1
<1> QED BY <1>2, <1>3, <1>4, <1>5 DEF ReadsValue, b, letter

LEMMA SameSum ==
  ASSUME NEW ss \in Seq(Nat), NEW x \in {1, 2, 4, 8}, \A k \in 1..Len(ss) : ss[k] = x
  PROVE  Adding!Fold(0, ss) = Len(ss) * x
<1> DEFINE n == Len(ss)
<1>1. PICK h : /\ h[0] = 0 /\ \A k \in 1..Len(ss) : h[k] = addSize(h[k - 1], ss[k])
               /\ Adding!Fold(0, ss) = h[Len(ss)]
  BY AddSteps
<1> DEFINE N == {k \in Nat : k <= n => h[k] = k * x}
<1>0. n \in Nat
  OBVIOUS
<1> HIDE DEF n
<1>2. 0 \in N
  BY <1>1
<1>3. ASSUME NEW k \in Nat, k \in N PROVE k + 1 \in N
  <2> SUFFICES ASSUME k + 1 <= n PROVE h[k + 1] = (k + 1) * x
    OBVIOUS
  <2>1. k + 1 \in 1..n /\ (k + 1) - 1 = k /\ h[k] = k * x
    BY <1>0, <1>3
  <2>2. h[k + 1] = h[k] + x
    BY <1>1, <2>1 DEF n, addSize
  <2>3. (k + 1) * x = k * x + x
    OBVIOUS
  <2> QED BY <2>1, <2>2, <2>3
<1>4. \A k \in Nat : k \in N
  <2> HIDE DEF N
  <2> QED BY <1>2, <1>3, Adding!NatInd
<1>5. h[n] = n * x
  BY <1>0, <1>4
<1> QED BY <1>1, <1>5 DEF n

LEMMA SequencePromise ==
  ASSUME NEW w, NEW s, NEW r, NEW d, NEW c, Level(w, s, r, d, c),
         NEW t, t.kind \in {"seq", "array"}, t.of \in Types,
         NEW v, isSequence(c, t, v), t.kind = "array" => Len(v) = t.size
  PROVE  LET b == serializeSequence(w, t, v) IN
         /\ b \in Bytes /\ sizeOfSequence(s, t, v) = Len(b)
         /\ d[t.of] => ReadsValue(r, t, b, v)
<1> DEFINE n  == Len(v)
           ts == [i \in DOMAIN v |-> t.of]
           h  == serializeArith("I", n)
           body == serializeEach(w, ts, v)
<1>0. v \in Seq(Values[t.of]) /\ InRange(n, "I") /\ \A i \in DOMAIN v : c[t.of][v[i]]
  BY DEF isSequence
<1>1. n \in Nat /\ DOMAIN v = 1..n /\ \A i \in 1..n : v[i] \in Values[t.of]
  BY <1>0
<1>2. ts \in Seq(Types) /\ DOMAIN ts = 1..n /\ \A i \in 1..n : ts[i] = t.of
  <2> HIDE DEF n
  <2> QED BY <1>1
<1>3. areValues(c, ts, v)
  <2>1. v = [i \in 1..n |-> v[i]]
    BY <1>0
  <2> HIDE DEF n, ts
  <2> QED BY <1>0, <1>1, <1>2, <2>1 DEF areValues
<1> HIDE DEF ts
<1>4. /\ body \in Bytes /\ sizeOfEach(s, ts, v) = Len(body)
      /\ (\A i \in DOMAIN ts : d[ts[i]]) => ReadsFields(r, ts, body, v)
  BY <1>2, <1>3, FieldsPromise
<1>5. "I" \in Letters /\ n \in Int /\ InRange(n, "I")
  BY <1>0, <1>1, Sizes
<1>6. h \in Bytes /\ Len(h) = 4
  <2> HIDE DEF n
  <2>1. sizeofArith["I"] = 4
    BY Sizes
  <2> QED BY <1>5, <2>1, NumberWritten
<1>7. serializeSequence(w, t, v) = h \o body
  BY DEF serializeSequence, ts
<1> HIDE DEF h, body
<1>8. h \o body \in Bytes /\ Len(h \o body) = 4 + Len(body)
  BY <1>4, <1>6, ConcatBytes
<1>9. sizeOfSequence(s, t, v) = 4 + Len(body)
  <2>1. CASE t.of.kind = "arith"
    <3> DEFINE x == sizeofArith[t.of.letter]
               ss == [i \in DOMAIN v |-> s[ts[i]][v[i]]]
    <3>1. x \in {1, 2, 4, 8}
      <4>1. IsType(t.of)
        BY SerializationAssumption
      <4>2. t.of.letter \in Letters
        BY <2>1, <4>1 DEF IsType, letterOf, Letters
      <4> QED BY <4>2, Sizes
    <3>2. \A i \in 1..n : s[ts[i]][v[i]] = x
      BY <1>0, <1>1, <1>2, <2>1 DEF Level, Promise
    <3> HIDE DEF x, n
    <3>3. ss \in Seq(Nat) /\ Len(ss) = n /\ \A i \in 1..Len(ss) : ss[i] = x
      BY <1>1, <3>1, <3>2
    <3>4. sizeOfEach(s, ts, v) = Adding!Fold(0, ss)
      BY AddIsFold
    <3> HIDE DEF ss
    <3>5. Adding!Fold(0, ss) = n * x
      BY <3>1, <3>3, SameSum
    <3>6. sizeOfSequence(s, t, v) = 4 + n * x
      BY <2>1 DEF sizeOfSequence, n, x
    <3> QED BY <1>4, <3>4, <3>5, <3>6
  <2>2. CASE t.of.kind # "arith"
    BY <1>4, <2>2 DEF sizeOfSequence, ts
  <2> QED BY <2>1, <2>2
<1>10. ASSUME NEW in
       PROVE  /\ ~readArith(in, "I").ok => ~deserializeBy(r, t, in).ok
              /\ \A x : readArith(in, "I") = took(n, x) =>
                   deserializeBy(r, t, in) = deserializeEach(r, ts, x)
  <2>1. deserializeBy(r, t, in) = deserializeSequence(r, t, in)
    BY DEF deserializeBy
  <2>2. ASSUME ~readArith(in, "I").ok PROVE ~deserializeSequence(r, t, in).ok
    BY <2>2 DEF deserializeSequence
  <2>3. ASSUME NEW x, readArith(in, "I") = took(n, x)
        PROVE  deserializeSequence(r, t, in) = deserializeEach(r, ts, x)
    <3> DEFINE m == readArith(in, "I")
    <3>1. m.ok /\ m.value = n /\ m.in = x
      BY <2>3 DEF took
    <3>2. [i \in 1..n |-> t.of] = ts
      BY <1>1 DEF ts
    <3>3. deserializeSequence(r, t, in) =
            CASE ~m.ok -> m
              [] m.ok /\ t.kind = "array" /\ m.value # t.size -> threw(m.in)
              [] OTHER -> deserializeEach(r, [i \in 1..m.value |-> t.of], m.in)
      BY DEF deserializeSequence
    <3> HIDE DEF m
    <3>4. ~(m.ok /\ t.kind = "array" /\ m.value # t.size)
      BY <3>1
    <3> HIDE DEF n
    <3> QED BY <3>1, <3>2, <3>3, <3>4
  <2> QED BY <2>1, <2>2, <2>3
<1> HIDE DEF n
<1>11. /\ \A more \in Bytes : readArith((h \o body) \o more, "I") = took(n, body \o more)
       /\ \A in, more \in Bytes :
            in \o more = h \o body =>
              \/ ~readArith(in, "I").ok
              \/ \E x \in Bytes : readArith(in, "I") = took(n, x) /\ x \o more = body
  BY <1>4, <1>5, NumberInFront DEF h
<1>12. ASSUME d[t.of] PROVE ReadsValue(r, t, h \o body, v)
  <2>1. ReadsFields(r, ts, body, v)
    BY <1>2, <1>4, <1>12
  <2>2. ASSUME NEW more \in Bytes
        PROVE  deserializeBy(r, t, (h \o body) \o more) = took(v, more)
    <3>1. readArith((h \o body) \o more, "I") = took(n, body \o more)
      BY <1>11
    <3>2. deserializeBy(r, t, (h \o body) \o more) = deserializeEach(r, ts, body \o more)
      BY <1>10, <3>1
    <3> QED BY <2>1, <3>2 DEF ReadsFields
  <2>3. ASSUME NEW in \in Bytes, NEW more \in Bytes, in \o more = h \o body, more # <<>>
        PROVE  ~deserializeBy(r, t, in).ok
    <3>1. CASE ~readArith(in, "I").ok
      BY <1>10, <3>1
    <3>2. ASSUME NEW x \in Bytes, readArith(in, "I") = took(n, x), x \o more = body
          PROVE  ~deserializeBy(r, t, in).ok
      <4>1. deserializeBy(r, t, in) = deserializeEach(r, ts, x)
        BY <1>10, <3>2
      <4>2. ~deserializeEach(r, ts, x).ok
        BY <2>1, <2>3, <3>2 DEF ReadsFields
      <4> QED BY <4>1, <4>2
    <3> QED BY <1>11, <2>3, <3>1, <3>2
  <2> QED BY <2>2, <2>3 DEF ReadsValue
<1> QED BY <1>7, <1>8, <1>9, <1>12

LEMMA ByteInFront ==
  ASSUME NEW n \in Byte, NEW b \in Bytes
  PROVE  /\ <<n>> \in Bytes /\ Len(<<n>>) = 1
         /\ \A more \in Bytes : readArith((<<n>> \o b) \o more, "B") = took(n, b \o more)
         /\ \A in, more \in Bytes :
              in \o more = <<n>> \o b =>
                \/ ~readArith(in, "B").ok
                \/ \E x \in Bytes : readArith(in, "B") = took(n, x) /\ x \o more = b
<1> DEFINE letter == "B"
           h == <<n>>
<1>1. letter \in Letters /\ n \in Int /\ InRange(n, letter) /\ serializeArith(letter, n) = h
  BY Sizes, ByteWritten
<1>2. h \in Bytes /\ Len(h) = 1
  BY DEF Bytes
<1> HIDE DEF letter, h
<1>3. /\ \A more \in Bytes :
           readArith((serializeArith(letter, n) \o b) \o more, letter) = took(n, b \o more)
      /\ \A in, more \in Bytes :
           in \o more = serializeArith(letter, n) \o b =>
             \/ ~readArith(in, letter).ok
             \/ \E x \in Bytes : readArith(in, letter) = took(n, x) /\ x \o more = b
  BY <1>1, NumberInFront
<1> QED BY <1>1, <1>2, <1>3 DEF letter, h

LEMMA OptionalPromise ==
  ASSUME NEW w, NEW s, NEW r, NEW d, NEW c, Level(w, s, r, d, c),
         NEW t, t.kind = "optional", t.of \in Types,
         NEW v, v = <<>> \/ \E x \in Values[t.of] : v = <<x>> /\ c[t.of][x]
  PROVE  LET b == serializeOptional(w, t, v) IN
         /\ b \in Bytes /\ sizeOfOptional(s, t, v) = Len(b)
         /\ d[t.of] => ReadsValue(r, t, b, v)
<1>1. \A in : deserializeBy(r, t, in) = deserializeOptional(r, t, in)
  BY DEF deserializeBy
<1>2. ASSUME NEW in, ~readArith(in, "B").ok
      PROVE  ~deserializeBy(r, t, in).ok
  BY <1>1, <1>2 DEF deserializeOptional
<1>3. ASSUME NEW in, NEW x, readArith(in, "B") = took(0, x)
      PROVE  deserializeBy(r, t, in) = took(<<>>, x)
  BY <1>1, <1>3 DEF deserializeOptional, took
<1>4. ASSUME NEW in, NEW x, readArith(in, "B") = took(1, x)
      PROVE  deserializeBy(r, t, in) =
               LET e == r[t.of][x] IN IF e.ok THEN took(<<e.value>>, e.in) ELSE e
  BY <1>1, <1>4 DEF deserializeOptional, took
<1>6. CASE v = <<>>
  <2> DEFINE b == <<0>>
             none == <<>>
  <2>0. 0 \in Byte
    BY DEF Byte
  <2>1. b \in Bytes /\ Len(b) = 1
    BY <2>0 DEF Bytes
  <2>2. serializeOptional(w, t, v) = b /\ sizeOfOptional(s, t, v) = 1
    BY <1>6 DEF serializeOptional, sizeOfOptional
  <2>3. none \in Bytes /\ b \o none = b /\ \A more \in Bytes : none \o more = more
    BY <2>1, ConcatNothing
  <2>4. /\ \A more \in Bytes : readArith((b \o none) \o more, "B") = took(0, none \o more)
        /\ \A in, more \in Bytes :
             in \o more = b \o none =>
               \/ ~readArith(in, "B").ok
               \/ \E x \in Bytes : readArith(in, "B") = took(0, x) /\ x \o more = none
    BY <2>0, <2>3, ByteInFront
  <2> HIDE DEF b
  <2>5. ASSUME NEW more \in Bytes
        PROVE  deserializeBy(r, t, b \o more) = took(v, more)
    <3> HIDE DEF none
    <3>1. readArith(b \o more, "B") = took(0, more)
      BY <2>3, <2>4
    <3> QED BY <1>3, <1>6, <3>1
  <2>6. ASSUME NEW in \in Bytes, NEW more \in Bytes, in \o more = b, more # <<>>
        PROVE  ~deserializeBy(r, t, in).ok
    <3>1. ASSUME NEW x \in Bytes, x \o more = none PROVE FALSE
      <4>1. Len(x) + Len(more) = 0 /\ Len(x) \in Nat /\ Len(more) \in Nat
        BY <3>1, ConcatBytes DEF Bytes
      <4>2. Len(more) # 0
        BY <2>6, EmptySeq DEF Bytes
      <4> QED BY <4>1, <4>2
    <3> HIDE DEF none
    <3>2. ~readArith(in, "B").ok
      BY <2>3, <2>4, <2>6, <3>1
    <3> QED BY <1>2, <3>2
  <2> QED BY <2>1, <2>2, <2>5, <2>6 DEF ReadsValue
<1>7. ASSUME NEW x \in Values[t.of], v = <<x>>, c[t.of][x]
      PROVE  LET b == serializeOptional(w, t, v) IN
             /\ b \in Bytes /\ sizeOfOptional(s, t, v) = Len(b)
             /\ d[t.of] => ReadsValue(r, t, b, v)
  <2> DEFINE h == <<1>>
             body == w[t.of][x]
  <2>0. 1 \in Byte
    BY DEF Byte
  <2>1. h \in Bytes /\ Len(h) = 1
    BY <2>0 DEF Bytes
  <2>2. body \in Bytes /\ s[t.of][x] = Len(body) /\ (d[t.of] => Reads(r[t.of], body, x))
    BY <1>7 DEF Level, Promise
  <2>3. serializeOptional(w, t, v) = h \o body
    BY <1>7 DEF serializeOptional
  <2>4. sizeOfOptional(s, t, v) = 1 + s[t.of][x]
    BY <1>7 DEF sizeOfOptional
  <2> HIDE DEF h, body
  <2>5. h \o body \in Bytes /\ Len(h \o body) = 1 + Len(body)
    <3>1. h \in Bytes /\ body \in Bytes
      BY <2>1, <2>2
    <3>2. h \o body \in Bytes /\ Len(h \o body) = Len(h) + Len(body)
      BY <3>1, ConcatBytes
    <3> QED BY <2>1, <3>2
  <2>6. /\ \A more \in Bytes : readArith((h \o body) \o more, "B") = took(1, body \o more)
        /\ \A in, more \in Bytes :
             in \o more = h \o body =>
               \/ ~readArith(in, "B").ok
               \/ \E z \in Bytes : readArith(in, "B") = took(1, z) /\ z \o more = body
    BY <2>0, <2>2, ByteInFront DEF h
  <2>7. ASSUME d[t.of] PROVE ReadsValue(r, t, h \o body, v)
    <3>1. Reads(r[t.of], body, x)
      BY <2>2, <2>7
    <3>2. ASSUME NEW more \in Bytes
          PROVE  deserializeBy(r, t, (h \o body) \o more) = took(v, more)
      <4>1. readArith((h \o body) \o more, "B") = took(1, body \o more)
        BY <2>6
      <4>2. r[t.of][body \o more] = took(x, more)
        BY <3>1 DEF Reads
      <4>3. LET e == r[t.of][body \o more]
            IN  (IF e.ok THEN took(<<e.value>>, e.in) ELSE e) = took(<<x>>, more)
        BY <4>2 DEF took
      <4> QED BY <1>4, <1>7, <4>1, <4>3
    <3>3. ASSUME NEW in \in Bytes, NEW more \in Bytes, in \o more = h \o body, more # <<>>
          PROVE  ~deserializeBy(r, t, in).ok
      <4>1. CASE ~readArith(in, "B").ok
        BY <1>2, <4>1
      <4>2. ASSUME NEW z \in Bytes, readArith(in, "B") = took(1, z), z \o more = body
            PROVE  ~deserializeBy(r, t, in).ok
        <5>1. ~r[t.of][z].ok
          BY <3>1, <3>3, <4>2 DEF Reads
        <5>2. deserializeBy(r, t, in) = r[t.of][z]
          BY <1>4, <4>2, <5>1
        <5> QED BY <5>1, <5>2
      <4> QED BY <2>6, <3>3, <4>1, <4>2
    <3> QED BY <3>2, <3>3 DEF ReadsValue
  <2> QED BY <2>2, <2>3, <2>4, <2>5, <2>7
<1> QED BY <1>6, <1>7

LEMMA VariantPromise ==
  ASSUME NEW w, NEW s, NEW r, NEW d, NEW c, Level(w, s, r, d, c),
         NEW t, alternatives(t) \in Seq(Types), NEW v, isVariant(c, alternatives(t), v)
  PROVE  LET b == serializeVariant(w, t, v) IN
         b \in Bytes /\ sizeOfVariant(s, t, v) = Len(b)
<1> DEFINE ts == alternatives(t)
<1>1. PICK n \in DOMAIN ts : /\ InRange(n - 1, "B")
                             /\ \E x \in Values[ts[n]] : v = <<n - 1, x>> /\ c[ts[n]][x]
  BY DEF isVariant
<1>2. PICK x \in Values[ts[n]] : v = <<n - 1, x>> /\ c[ts[n]][x]
  BY <1>1
<1>3. n \in Nat /\ n - 1 \in Int /\ ts[n] \in Types
  <2> HIDE DEF ts
  <2>1. ts \in Seq(Types)
    BY DEF ts
  <2> QED BY <2>1
<1>4. v[1] = n - 1 /\ v[2] = x /\ v[1] + 1 = n
  BY <1>2, <1>3
<1>5. Promise(w, s, r, d, ts[n], x)
  BY <1>2, <1>3 DEF Level
<1> DEFINE h == serializeArith("B", n - 1)
           body == w[ts[n]][x]
<1>6. h \in Bytes /\ Len(h) = 1
  <2> DEFINE m == n - 1
  <2>1. m \in Int /\ InRange(m, "B")
    BY <1>1, <1>3
  <2>2. "B" \in Letters /\ sizeofArith["B"] = 1
    BY Sizes
  <2> HIDE DEF m
  <2>3. serializeArith("B", m) \in Bytes /\ Len(serializeArith("B", m)) = sizeofArith["B"]
    BY <2>1, <2>2, NumberWritten
  <2> QED BY <2>2, <2>3 DEF m
<1>7. body \in Bytes /\ s[ts[n]][x] = Len(body)
  BY <1>5 DEF Promise
<1>8. serializeVariant(w, t, v) = h \o body
  BY <1>4 DEF serializeVariant
<1>9. sizeOfVariant(s, t, v) = 1 + s[ts[n]][x]
  BY <1>4 DEF sizeOfVariant
<1> HIDE DEF h, body, ts
<1>10. h \o body \in Bytes /\ Len(h \o body) = 1 + Len(body)
  BY <1>6, <1>7, ConcatBytes
<1> QED BY <1>7, <1>8, <1>9, <1>10

-----------------------------------------------------------------------------
(* All levels *)

\* A value is made of its parts as the type says.
LEMMA ValuePromise ==
  ASSUME NEW w, NEW s, NEW r, NEW d, NEW c, Level(w, s, r, d, c),
         NEW t \in Types, NEW v, isValueBy(c, t, v)
  PROVE  /\ serializeBy(w, t, v) \in Bytes
         /\ sizeBy(s, t, v) = Len(serializeBy(w, t, v))
         /\ t.kind = "arith" => sizeBy(s, t, v) = sizeofArith[t.letter]
         /\ isDeserializableBy(d, t) => ReadsValue(r, t, serializeBy(w, t, v), v)
<1>1. IsType(t)
  BY SerializationAssumption
<1>2. CASE t.kind \in {"arith", "enum"}
  <2>1. letterOf(t) \in Letters
    BY <1>1, <1>2 DEF IsType, Letters
  <2> DEFINE b == serializeArith(letterOf(t), v)
  <2>2. serializeBy(w, t, v) = b /\ sizeBy(s, t, v) = sizeofArith[letterOf(t)]
    BY <1>2 DEF serializeBy, sizeBy
  <2>3. b \in Bytes /\ sizeofArith[letterOf(t)] = Len(b) /\ \A e : ReadsValue(e, t, b, v)
    BY <1>2, <2>1, NumberPromise
  <2> HIDE DEF b
  <2>4. t.kind = "arith" => letterOf(t) = t.letter
    BY DEF letterOf
  <2> QED BY <2>2, <2>3, <2>4
<1>3. CASE t.kind \in {"seq", "array"}
  <2>1. t.of \in Types
    BY <1>1, <1>3 DEF IsType
  <2>2. isSequence(c, t, v) /\ (t.kind = "array" => Len(v) = t.size)
    BY <1>3 DEF isValueBy
  <2>3. /\ serializeBy(w, t, v) = serializeSequence(w, t, v)
        /\ sizeBy(s, t, v) = sizeOfSequence(s, t, v) /\ isDeserializableBy(d, t) = d[t.of]
    BY <1>3 DEF serializeBy, sizeBy, isDeserializableBy
  <2> DEFINE b == serializeSequence(w, t, v)
  <2>4. b \in Bytes /\ sizeOfSequence(s, t, v) = Len(b) /\ (d[t.of] => ReadsValue(r, t, b, v))
    BY <1>3, <2>1, <2>2, SequencePromise
  <2> HIDE DEF b
  <2> QED BY <1>3, <2>3, <2>4 DEF b
<1>4. CASE t.kind = "tuple"
  <2> DEFINE ts == t.elems
  <2>1. ts \in Seq(Types)
    BY <1>1, <1>4 DEF IsType
  <2>2. areValues(c, ts, v)
    BY <1>4 DEF isValueBy
  <2>3. serializeBy(w, t, v) = serializeEach(w, ts, v) /\ sizeBy(s, t, v) = sizeOfEach(s, ts, v)
    BY <1>4 DEF serializeBy, sizeBy
  <2>4. \A in : deserializeBy(r, t, in) = deserializeEach(r, ts, in)
    BY <1>4 DEF deserializeBy
  <2>5. isDeserializableBy(d, t) => \A i \in DOMAIN ts : d[ts[i]]
    BY <1>4 DEF isDeserializableBy
  <2> HIDE DEF ts
  <2>6. /\ serializeEach(w, ts, v) \in Bytes
        /\ sizeOfEach(s, ts, v) = Len(serializeEach(w, ts, v))
        /\ (\A i \in DOMAIN ts : d[ts[i]]) => ReadsFields(r, ts, serializeEach(w, ts, v), v)
    BY <2>1, <2>2, FieldsPromise
  <2>7. ReadsFields(r, ts, serializeEach(w, ts, v), v) => ReadsValue(r, t, serializeEach(w, ts, v), v)
    BY <2>4 DEF ReadsFields, ReadsValue
  <2> QED BY <1>4, <2>3, <2>5, <2>6, <2>7
<1>5. CASE t.kind = "struct"
  <2> DEFINE ts == fieldTypes(t.name)
  <2>1. ts \in Seq(Types)
    BY <1>1, <1>5 DEF IsType
  <2>2. areValues(c, ts, v)
    BY <1>5 DEF isValueBy
  <2>3. serializeBy(w, t, v) = serializeEach(w, ts, v) /\ sizeBy(s, t, v) = sizeOfEach(s, ts, v)
    BY <1>5 DEF serializeBy, sizeBy
  <2>4. \A in : deserializeBy(r, t, in) = deserializeEach(r, ts, in)
    BY <1>5 DEF deserializeBy
  <2>5. isDeserializableBy(d, t) => \A i \in DOMAIN ts : d[ts[i]]
    BY <1>5 DEF isDeserializableBy
  <2> HIDE DEF ts
  <2>6. /\ serializeEach(w, ts, v) \in Bytes
        /\ sizeOfEach(s, ts, v) = Len(serializeEach(w, ts, v))
        /\ (\A i \in DOMAIN ts : d[ts[i]]) => ReadsFields(r, ts, serializeEach(w, ts, v), v)
    BY <2>1, <2>2, FieldsPromise
  <2>7. ReadsFields(r, ts, serializeEach(w, ts, v), v) => ReadsValue(r, t, serializeEach(w, ts, v), v)
    BY <2>4 DEF ReadsFields, ReadsValue
  <2> QED BY <1>5, <2>3, <2>5, <2>6, <2>7
<1>6. CASE t.kind = "optional"
  <2>1. t.of \in Types
    BY <1>1, <1>6 DEF IsType
  <2>2. v = <<>> \/ \E x \in Values[t.of] : v = <<x>> /\ c[t.of][x]
    BY <1>6 DEF isValueBy
  <2>3. /\ serializeBy(w, t, v) = serializeOptional(w, t, v)
        /\ sizeBy(s, t, v) = sizeOfOptional(s, t, v) /\ isDeserializableBy(d, t) = d[t.of]
    BY <1>6 DEF serializeBy, sizeBy, isDeserializableBy
  <2> DEFINE b == serializeOptional(w, t, v)
  <2>4. b \in Bytes /\ sizeOfOptional(s, t, v) = Len(b) /\ (d[t.of] => ReadsValue(r, t, b, v))
    BY <1>6, <2>1, <2>2, OptionalPromise
  <2> HIDE DEF b
  <2> QED BY <1>6, <2>3, <2>4 DEF b
<1>7. CASE t.kind = "variant"
  <2>1. alternatives(t) \in Seq(Types)
    BY <1>1, <1>7 DEF IsType
  <2>2. isVariant(c, alternatives(t), v)
    BY <1>7 DEF isValueBy
  <2>3. /\ serializeBy(w, t, v) = serializeVariant(w, t, v)
        /\ sizeBy(s, t, v) = sizeOfVariant(s, t, v) /\ isDeserializableBy(d, t) = FALSE
    BY <1>7 DEF serializeBy, sizeBy, isDeserializableBy
  <2>4. serializeVariant(w, t, v) \in Bytes /\ sizeOfVariant(s, t, v) = Len(serializeVariant(w, t, v))
    BY <2>1, <2>2, VariantPromise
  <2> QED BY <1>7, <2>3, <2>4
<1>8. CASE t.kind = "monostate"
  <2>1. serializeBy(w, t, v) = <<>> /\ sizeBy(s, t, v) = 0 /\ isDeserializableBy(d, t) = FALSE
    BY <1>8 DEF serializeBy, sizeBy, isDeserializableBy
  <2>2. <<>> \in Bytes /\ Len(<<>>) = 0
    BY DEF Bytes
  <2> QED BY <1>8, <2>1, <2>2
<1> QED BY <1>1, <1>2, <1>3, <1>4, <1>5, <1>6, <1>7, <1>8 DEF IsType

\* What a level promises is made of what the level below promises.
LEMMA DeeperPromise ==
  ASSUME NEW w, NEW s, NEW r, NEW d, NEW c, Level(w, s, r, d, c), NEW l
  PROVE  Level(serializeDeeper(w, l), sizeDeeper(s, l), deserializeDeeper(r, l),
               isDeserializableDeeper(d, l), isValueDeeper(c, l))
<1> SUFFICES ASSUME NEW t \in Types, NEW v \in Values[t], isValueDeeper(c, l)[t][v]
             PROVE  Promise(serializeDeeper(w, l), sizeDeeper(s, l), deserializeDeeper(r, l),
                            isDeserializableDeeper(d, l), t, v)
  BY DEF Level
<1>1. isValueBy(c, t, v)
  BY DEF isValueDeeper
<1>2. /\ serializeDeeper(w, l)[t][v] = serializeBy(w, t, v)
      /\ sizeDeeper(s, l)[t][v] = sizeBy(s, t, v)
      /\ isDeserializableDeeper(d, l)[t] = isDeserializableBy(d, t)
  BY DEF serializeDeeper, sizeDeeper, isDeserializableDeeper
<1>3. \A in \in Bytes : deserializeDeeper(r, l)[t][in] = deserializeBy(r, t, in)
  BY DEF deserializeDeeper, Bytes
<1> DEFINE b == serializeBy(w, t, v)
<1>4. /\ b \in Bytes /\ sizeBy(s, t, v) = Len(b)
      /\ t.kind = "arith" => sizeBy(s, t, v) = sizeofArith[t.letter]
      /\ isDeserializableBy(d, t) => ReadsValue(r, t, b, v)
  BY <1>1, ValuePromise
<1> HIDE DEF b
<1>5. ASSUME ReadsValue(r, t, b, v) PROVE Reads(deserializeDeeper(r, l)[t], b, v)
  <2>1. \A more \in Bytes : b \o more \in Bytes
    BY <1>4, ConcatBytes
  <2> QED BY <1>3, <1>5, <2>1 DEF Reads, ReadsValue
<1> QED BY <1>2, <1>4, <1>5 DEF Promise, b

\* Down to a level.
numbers(n)  == [i \in 1..n |-> i]
writersTo(n) == WriteFolds!Fold([t \in Types |-> [v \in Values[t] |-> <<>>]], numbers(n))
sizesTo(n)   == SizeFolds!Fold([t \in Types |-> [v \in Values[t] |-> 0]], numbers(n))
readersTo(n) == ReadFolds!Fold([t \in Types |-> [in \in Seq(Byte) |-> threw(in)]], numbers(n))
traitsTo(n)  == TraitFolds!Fold([t \in Types |-> TRUE], numbers(n))
valuesTo(n)  == ValueFolds!Fold([t \in Types |-> [v \in Values[t] |-> FALSE]], numbers(n))

LEMMA LevelsAreFolds ==
  /\ serialize = writersTo(Depth) /\ serialized_size = sizesTo(Depth)
  /\ deserialize = readersTo(Depth) /\ is_deserializable = traitsTo(Depth)
  /\ isValue = valuesTo(Depth)
<1>1. serialize = writersTo(Depth)
  BY DEF serialize, writersTo, numbers, Levels, FoldLeft, MapThenFoldSet, Max,
         WriteFolds!Fold, WriteFolds!TheFold, WriteFolds!IsFold, WriteFolds!Max
<1>2. serialized_size = sizesTo(Depth)
  BY DEF serialized_size, sizesTo, numbers, Levels, FoldLeft, MapThenFoldSet, Max,
         SizeFolds!Fold, SizeFolds!TheFold, SizeFolds!IsFold, SizeFolds!Max
<1>3. deserialize = readersTo(Depth)
  BY DEF deserialize, readersTo, numbers, Levels, FoldLeft, MapThenFoldSet, Max,
         ReadFolds!Fold, ReadFolds!TheFold, ReadFolds!IsFold, ReadFolds!Max
<1>4. is_deserializable = traitsTo(Depth)
  BY DEF is_deserializable, traitsTo, numbers, Levels, FoldLeft, MapThenFoldSet, Max,
         TraitFolds!Fold, TraitFolds!TheFold, TraitFolds!IsFold, TraitFolds!Max
<1>5. isValue = valuesTo(Depth)
  BY DEF isValue, valuesTo, numbers, Levels, FoldLeft, MapThenFoldSet, Max,
         ValueFolds!Fold, ValueFolds!TheFold, ValueFolds!IsFold, ValueFolds!Max
<1> QED BY <1>1, <1>2, <1>3, <1>4, <1>5

LEMMA FirstLevel == \A t \in Types : \A v \in Values[t] : valuesTo(0)[t][v] = FALSE
<1>1. numbers(0) = <<>>
  BY DEF numbers
<1>2. \A base : ValueFolds!Fold(base, <<>>) = base
  BY ValueFolds!FoldEmpty
<1> QED BY <1>1, <1>2 DEF valuesTo

LEMMA NextLevel ==
  ASSUME NEW n \in Nat
  PROVE  /\ writersTo(n + 1) = serializeDeeper(writersTo(n), n + 1)
         /\ sizesTo(n + 1) = sizeDeeper(sizesTo(n), n + 1)
         /\ readersTo(n + 1) = deserializeDeeper(readersTo(n), n + 1)
         /\ traitsTo(n + 1) = isDeserializableDeeper(traitsTo(n), n + 1)
         /\ valuesTo(n + 1) = isValueDeeper(valuesTo(n), n + 1)
<1> DEFINE s == numbers(n)
           k == n + 1
<1>1. s \in Seq(Nat) /\ numbers(n + 1) = Append(s, k) /\ k \in Nat
  BY OneMoreNumber DEF numbers
<1> HIDE DEF s, k
<1>2. \A base : WriteFolds!Fold(base, Append(s, k)) = serializeDeeper(WriteFolds!Fold(base, s), k)
  BY <1>1, WriteFolds!FoldAppend
<1>3. \A base : SizeFolds!Fold(base, Append(s, k)) = sizeDeeper(SizeFolds!Fold(base, s), k)
  BY <1>1, SizeFolds!FoldAppend
<1>4. \A base : ReadFolds!Fold(base, Append(s, k)) = deserializeDeeper(ReadFolds!Fold(base, s), k)
  BY <1>1, ReadFolds!FoldAppend
<1>5. \A base : TraitFolds!Fold(base, Append(s, k)) = isDeserializableDeeper(TraitFolds!Fold(base, s), k)
  BY <1>1, TraitFolds!FoldAppend
<1>6. \A base : ValueFolds!Fold(base, Append(s, k)) = isValueDeeper(ValueFolds!Fold(base, s), k)
  BY <1>1, ValueFolds!FoldAppend
<1>7. writersTo(n + 1) = serializeDeeper(writersTo(n), k)
  BY <1>1, <1>2 DEF writersTo, s
<1>8. sizesTo(n + 1) = sizeDeeper(sizesTo(n), k)
  BY <1>1, <1>3 DEF sizesTo, s
<1>9. readersTo(n + 1) = deserializeDeeper(readersTo(n), k)
  BY <1>1, <1>4 DEF readersTo, s
<1>10. traitsTo(n + 1) = isDeserializableDeeper(traitsTo(n), k)
  BY <1>1, <1>5 DEF traitsTo, s
<1>11. valuesTo(n + 1) = isValueDeeper(valuesTo(n), k)
  BY <1>1, <1>6 DEF valuesTo, s
<1> QED BY <1>7, <1>8, <1>9, <1>10, <1>11 DEF k

LEMMA EveryLevel ==
  \A n \in Nat : Level(writersTo(n), sizesTo(n), readersTo(n), traitsTo(n), valuesTo(n))
<1> DEFINE Good(n) == Level(writersTo(n), sizesTo(n), readersTo(n), traitsTo(n), valuesTo(n))
           N == {n \in Nat : Good(n)}
<1>1. 0 \in N
  BY FirstLevel DEF Level
<1>2. ASSUME NEW n \in Nat, n \in N PROVE n + 1 \in N
  BY <1>2, NextLevel, DeeperPromise
<1>3. \A n \in Nat : n \in N
  <2> HIDE DEF N
  <2> QED BY <1>1, <1>2, Splitting!NatInd
<1> QED BY <1>3

\* What is written of every value has the size that serialized_size gives,
\* and is read back as the value, or not at all when some of it is missing.
LEMMA ValuesReturn ==
  ASSUME NEW t \in Types, NEW v \in Values[t]
  PROVE  Promise(serialize, serialized_size, deserialize, is_deserializable, t, v)
<1>1. Level(serialize, serialized_size, deserialize, is_deserializable, isValue)
  BY EveryLevel, LevelsAreFolds, SerializationAssumption
<1>2. isValue[t][v]
  BY SerializationAssumption
<1> QED BY <1>1, <1>2 DEF Level

-----------------------------------------------------------------------------
(* The bytes of an entry *)

header(e)  == serializeArith("I", sizeOf(e))
parts(e)   == [i \in 1..Len(e.types) |-> serialize[e.types[i]][e.values[i]]]
payload(e) == serializeEach(serialize, e.types, e.values)
whole(e)   == header(e) \o payload(e)
readable(e) == \A i \in DOMAIN e.types : is_deserializable[e.types[i]]

LEMMA EntryPromise ==
  ASSUME NEW e \in Entries
  PROVE  /\ e.types \in Seq(Types) /\ parts(e) \in Seq(Bytes) /\ Len(parts(e)) = Len(e.types)
         /\ payload(e) = Joining!Fold(<<>>, parts(e))
         /\ payload(e) \in Bytes /\ sizeOf(e) = Len(payload(e)) /\ sizeOf(e) \in Nat
         /\ InRange(sizeOf(e), "I") /\ header(e) \in Bytes /\ Len(header(e)) = 4
         /\ whole(e) \in Bytes /\ Len(whole(e)) = 4 + sizeOf(e)
         /\ readable(e) => ReadsFields(deserialize, e.types, payload(e), e.values)
<1> DEFINE n == Len(e.types)
<1>1. /\ e.types \in Seq(Types) /\ areValues(isValue, e.types, e.values)
      /\ InRange(sizeOf(e), "I")
  BY EntryAssumption DEF sizeOf
<1>2. Level(serialize, serialized_size, deserialize, is_deserializable, isValue)
  BY ValuesReturn DEF Level
<1>3. /\ payload(e) \in Bytes /\ sizeOf(e) = Len(payload(e))
      /\ readable(e) => ReadsFields(deserialize, e.types, payload(e), e.values)
  BY <1>1, <1>2, FieldsPromise DEF payload, sizeOf, readable
<1>4. sizeOf(e) \in Nat
  BY <1>3 DEF Bytes
<1>5. header(e) \in Bytes /\ Len(header(e)) = 4
  <2>1. "I" \in Letters /\ sizeofArith["I"] = 4
    BY Sizes
  <2>2. sizeOf(e) \in Int
    BY <1>4
  <2> QED BY <1>1, <2>1, <2>2, NumberWritten DEF header
<1>6. whole(e) \in Bytes /\ Len(whole(e)) = Len(header(e)) + Len(payload(e))
  BY <1>3, <1>5, ConcatBytes DEF whole
<1>7. n \in Nat /\ DOMAIN e.types = 1..n
  BY <1>1
<1>8. parts(e) \in Seq(Bytes) /\ Len(parts(e)) = n
  <2>1. \A i \in 1..n : serialize[e.types[i]][e.values[i]] \in Bytes
    <3> TAKE i \in 1..n
    <3>1. e.types[i] \in Types
      BY <1>1
    <3>2. i \in DOMAIN e.types
      BY <1>7
    <3>3. e.values[i] \in Values[e.types[i]]
      BY <1>1, <3>2 DEF areValues
    <3> QED BY <3>1, <3>3, ValuesReturn DEF Promise
  <2> HIDE DEF n
  <2> QED BY <1>7, <2>1 DEF parts, n
<1>9. payload(e) = Joining!Fold(<<>>, parts(e))
  <2>1. DOMAIN e.values = 1..n
    BY <1>1, <1>7 DEF areValues
  <2> QED BY <2>1, JoinIsFold DEF payload, parts
<1> QED BY <1>1, <1>3, <1>4, <1>5, <1>6, <1>8, <1>9

\* The size in front of the payload, in an input that has more than the entry,
\* or less.
LEMMA SizeRead ==
  ASSUME NEW e \in Entries
  PROVE  /\ \A more \in Bytes :
              readArith(whole(e) \o more, "I") = took(sizeOf(e), payload(e) \o more)
         /\ \A in, more \in Bytes :
              in \o more = whole(e) =>
                \/ ~readArith(in, "I").ok
                \/ \E x \in Bytes : readArith(in, "I") = took(sizeOf(e), x) /\ x \o more = payload(e)
<1> DEFINE n == sizeOf(e)
           b == payload(e)
<1>1. "I" \in Letters /\ n \in Int /\ InRange(n, "I") /\ b \in Bytes
  BY EntryPromise, Sizes
<1>2. whole(e) = serializeArith("I", n) \o b
  BY DEF whole, header
<1> HIDE DEF n, b
<1>3. /\ \A more \in Bytes :
           readArith((serializeArith("I", n) \o b) \o more, "I") = took(n, b \o more)
      /\ \A in, more \in Bytes :
           in \o more = serializeArith("I", n) \o b =>
             \/ ~readArith(in, "I").ok
             \/ \E x \in Bytes : readArith(in, "I") = took(n, x) /\ x \o more = b
  BY <1>1, NumberInFront
<1> QED BY <1>2, <1>3 DEF n, b

LEMMA ReadWhole ==
  ASSUME NEW e \in Entries, readable(e), NEW more \in Bytes
  PROVE  /\ readFramed(e.types, whole(e) \o more) = read(e.values, <<>>, more)
         /\ readDirectly(e.types, whole(e) \o more) = read(e.values, more, <<>>)
<1> DEFINE n  == sizeOf(e)
           b  == payload(e)
           in == whole(e) \o more
           x  == b \o more
<1>1. b \in Bytes /\ n = Len(b) /\ n \in Nat /\ ReadsFields(deserialize, e.types, b, e.values)
  BY EntryPromise
<1>2. readArith(in, "I") = took(n, x)
  BY SizeRead
<1> HIDE DEF n, b, in
<1>3. x \in Bytes /\ Len(x) = n + Len(more) /\ Len(more) \in Nat
  BY <1>1, ConcatBytes DEF Bytes
<1>4. SubSeq(x, 1, n) = b /\ SubSeq(x, n + 1, Len(x)) = more
  BY <1>1, ConcatParts
<1>5. deserializeEach(deserialize, e.types, x) = took(e.values, more)
  BY <1>1 DEF ReadsFields
<1>6. deserializeEach(deserialize, e.types, b) = took(e.values, <<>>)
  <2>1. <<>> \in Bytes /\ b \o <<>> = b
    BY <1>1, ConcatNothing
  <2>2. deserializeEach(deserialize, e.types, b \o <<>>) = took(e.values, <<>>)
    BY <1>1, <2>1 DEF ReadsFields
  <2> QED BY <2>1, <2>2
<1> HIDE DEF x
<1>7. view(x, n) = took(b, more)
  <2>1. ~(n > Len(x))
    BY <1>1, <1>3
  <2> QED BY <1>4, <2>1 DEF view
<1>8. \A y, l, z : deserializeEach(deserialize, e.types, y) = took(e.values, l) =>
                    readPayload(e.types, y, z) = read(e.values, l, z)
  BY DEF readPayload, took
<1>9. readFramed(e.types, in) = readPayload(e.types, b, more)
  <2>1. \A u, y : took(u, y).ok /\ took(u, y).value = u /\ took(u, y).in = y
    BY DEF took
  <2> QED BY <1>2, <1>7, <2>1 DEF readFramed
<1>10. readDirectly(e.types, in) = readPayload(e.types, x, <<>>)
  <2>1. \A u, y : took(u, y).ok /\ took(u, y).value = u /\ took(u, y).in = y
    BY DEF took
  <2> QED BY <1>2, <2>1 DEF readDirectly
<1> QED BY <1>5, <1>6, <1>8, <1>9, <1>10 DEF in

LEMMA ReadPart ==
  ASSUME NEW e \in Entries, readable(e), NEW in \in Bytes, NEW more \in Bytes,
         in \o more = whole(e), more # <<>>
  PROVE  ~readFramed(e.types, in).ok /\ ~readDirectly(e.types, in).ok
<1> DEFINE n == sizeOf(e)
           b == payload(e)
<1>1. b \in Bytes /\ n = Len(b) /\ n \in Nat /\ ReadsFields(deserialize, e.types, b, e.values)
  BY EntryPromise
<1>2. \/ ~readArith(in, "I").ok
      \/ \E x \in Bytes : readArith(in, "I") = took(n, x) /\ x \o more = b
  BY SizeRead
<1> HIDE DEF n, b
<1>3. ~failure.ok
  BY DEF failure
<1>4. CASE ~readArith(in, "I").ok
  BY <1>3, <1>4 DEF readFramed, readDirectly
<1>5. ASSUME NEW x \in Bytes, readArith(in, "I") = took(n, x), x \o more = b
      PROVE  ~readFramed(e.types, in).ok /\ ~readDirectly(e.types, in).ok
  <2>0. \A u, y : took(u, y).ok /\ took(u, y).value = u /\ took(u, y).in = y
    BY DEF took
  <2>1. Len(x) < n
    BY <1>1, <1>5, Shorter
  <2>2. ~view(x, n).ok
    <3>1. n > Len(x)
      BY <1>1, <2>1 DEF Bytes
    <3> QED BY <3>1 DEF view, threw
  <2>3. readFramed(e.types, in) = failure
    BY <1>5, <2>0, <2>2 DEF readFramed
  <2>4. ~deserializeEach(deserialize, e.types, x).ok
    BY <1>1, <1>5 DEF ReadsFields
  <2>5. readDirectly(e.types, in) = failure
    BY <1>5, <2>0, <2>4 DEF readDirectly, readPayload
  <2> QED BY <1>3, <2>3, <2>5
<1> QED BY <1>2, <1>4, <1>5

-----------------------------------------------------------------------------
(* The entry on its way *)

\* The fields are written one after the other; what arrives is the entry in
\* front of other bytes, or a part of it.
Arrived ==
  \/ \E more \in Bytes : input = whole(entry) \o more
  \/ input \in Bytes /\ \E more \in Bytes : more # <<>> /\ input \o more = whole(entry)

Returned ==
  IF Len(input) < Len(written) THEN ~result.ok
  ELSE result \in {read(entry.values, <<>>, Remaining), read(entry.values, Remaining, <<>>)}

EntryInv ==
  /\ stage \in {"start", "reserved", "committed", "arrived", "read"}
  /\ stage # "start" => entry \in Entries /\ room = 4 + sizeOf(entry)
  /\ stage = "reserved" =>
       /\ fields \in 0..Len(entry.types)
       /\ \E g : Joins(g, parts(entry)) /\ written = header(entry) \o g[fields]
  /\ stage \in {"committed", "arrived", "read"} => written = whole(entry)
  /\ stage \in {"arrived", "read"} => Arrived
  /\ stage = "read" => Returned

LEMMA EntryInvReserve ==
  ASSUME EntryInv, NEW e \in Entries, Reserve(e)
  PROVE  EntryInv'
<1> DEFINE h == header(e)
<1>0. stage' = "reserved" /\ entry' = e /\ fields' = 0 /\ room' = sizeofArith["I"] + sizeOf(e)
  BY DEF Reserve
<1>1. room' = 4 + sizeOf(e)
  BY <1>0, Sizes
<1>2. PICK g : Joins(g, parts(e))
  BY EntryPromise, JoinState
<1>3. h \in Bytes /\ 0 \in 0..Len(e.types)
  BY EntryPromise
<1>4. written' = h
  BY DEF Reserve, header
<1> HIDE DEF h
<1>5. h \o g[0] = h
  BY <1>2, <1>3, ConcatNothing DEF Joins
<1>6. \E f : Joins(f, parts(e)) /\ written' = h \o f[0]
  BY <1>2, <1>4, <1>5
<1> QED BY <1>0, <1>1, <1>3, <1>6 DEF EntryInv, h

LEMMA EntryInvWriteField ==
  ASSUME EntryInv, WriteField
  PROVE  EntryInv'
<1> DEFINE n == fields + 1
           e == entry
           h == header(e)
<1>1. /\ stage = "reserved" /\ n \in DOMAIN e.types /\ fields' = n
      /\ written' = written \o serialize[e.types[n]][e.values[n]]
      /\ stage' = stage /\ entry' = e /\ room' = room
  BY DEF WriteField
<1>2. e \in Entries /\ room = 4 + sizeOf(e) /\ fields \in 0..Len(e.types)
  BY <1>1 DEF EntryInv
<1>3. PICK g : Joins(g, parts(e)) /\ written = h \o g[fields]
  BY <1>1 DEF EntryInv
<1>4. /\ e.types \in Seq(Types) /\ parts(e) \in Seq(Bytes) /\ Len(parts(e)) = Len(e.types)
      /\ h \in Bytes
  BY <1>2, EntryPromise
<1>5. n \in 1..Len(parts(e)) /\ n \in 0..Len(e.types) /\ n - 1 = fields /\ fields \in 0..Len(parts(e))
  BY <1>1, <1>2, <1>4
<1>6. parts(e)[n] = serialize[e.types[n]][e.values[n]]
  BY <1>4, <1>5 DEF parts
<1> HIDE DEF n, e, h
<1>7. parts(e)[n] \in Bytes /\ g[fields] \in Bytes
  <2>1. parts(e)[n] \in Bytes
    BY <1>4, <1>5
  <2>2. g[fields] \in Bytes
    BY <1>3, <1>5 DEF Joins
  <2> QED BY <2>1, <2>2
<1>8. g[n] = g[fields] \o parts(e)[n]
  BY <1>3, <1>5 DEF Joins
<1>9. (h \o g[fields]) \o parts(e)[n] = h \o (g[fields] \o parts(e)[n])
  <2>1. h \in Bytes /\ g[fields] \in Bytes /\ parts(e)[n] \in Bytes
    BY <1>4, <1>7
  <2> QED BY <2>1, ConcatGroups
<1>10. written' = h \o g[n]
  BY <1>1, <1>3, <1>6, <1>8, <1>9
<1>11. \E f : Joins(f, parts(e)) /\ written' = h \o f[n]
  BY <1>3, <1>10
<1> QED BY <1>1, <1>2, <1>5, <1>11 DEF EntryInv, e, h

\* What is written when all fields are.
LEMMA AllFields ==
  ASSUME NEW e \in Entries, NEW g, Joins(g, parts(e))
  PROVE  g[Len(e.types)] = payload(e)
BY EntryPromise DEF Joins

LEMMA EntryInvCommit ==
  ASSUME EntryInv, Commit
  PROVE  EntryInv'
<1>1. /\ stage = "reserved" /\ fields = Len(entry.types) /\ stage' = "committed"
      /\ UNCHANGED <<entry, room, fields, written, input, result>>
  BY DEF Commit
<1>2. entry \in Entries /\ room = 4 + sizeOf(entry)
  BY <1>1 DEF EntryInv
<1>3. PICK g : Joins(g, parts(entry)) /\ written = header(entry) \o g[fields]
  BY <1>1 DEF EntryInv
<1>4. g[Len(entry.types)] = payload(entry)
  BY <1>2, <1>3, AllFields
<1>5. written = whole(entry)
  BY <1>1, <1>3, <1>4 DEF whole
<1> QED BY <1>1, <1>2, <1>5 DEF EntryInv

LEMMA EntryInvArrive ==
  ASSUME EntryInv, Arrive
  PROVE  EntryInv'
<1> DEFINE b == whole(entry)
<1>1. /\ stage = "committed" /\ stage' = "arrived"
      /\ UNCHANGED <<entry, room, fields, written, result>>
      /\ \/ \E more \in Following : input' = written \o more
         \/ \E n \in 0..(Len(written) - 1) : input' = SubSeq(written, 1, n)
  BY DEF Arrive
<1>2. entry \in Entries /\ room = 4 + sizeOf(entry) /\ written = b
  BY <1>1 DEF EntryInv
<1>3. b \in Bytes
  BY <1>2, EntryPromise
<1> HIDE DEF b
<1>4. \/ \E more \in Bytes : input' = b \o more
      \/ input' \in Bytes /\ \E more \in Bytes : more # <<>> /\ input' \o more = b
  <2>1. ASSUME NEW more \in Following, input' = written \o more
        PROVE  \E x \in Bytes : input' = b \o x
    BY <1>2, <2>1, EntryAssumption DEF Bytes
  <2>2. ASSUME NEW n \in 0..(Len(written) - 1), input' = SubSeq(written, 1, n)
        PROVE  input' \in Bytes /\ \E more \in Bytes : more # <<>> /\ input' \o more = b
    <3> DEFINE x == SubSeq(b, 1, n)
               y == SubSeq(b, n + 1, Len(b))
    <3>1. Len(b) \in Nat /\ n \in 0..Len(b) /\ n < Len(b)
      BY <1>2, <1>3 DEF Bytes
    <3>2. x \in Bytes /\ y \in Bytes /\ Len(y) = Len(b) - n /\ b = x \o y
      BY <1>3, <3>1, Split
    <3>3. y # <<>>
      <4> HIDE DEF y
      <4>1. Len(y) # 0
        BY <3>1, <3>2
      <4> QED BY <4>1
    <3>4. input' = x
      BY <1>2, <2>2
    <3> HIDE DEF x, y
    <3> QED BY <3>2, <3>3, <3>4
  <2> QED BY <1>1, <2>1, <2>2
<1>5. Arrived'
  BY <1>1, <1>4 DEF Arrived, b, whole, header, payload, sizeOf
<1> QED BY <1>1, <1>2, <1>5 DEF EntryInv, b, whole, header, payload, sizeOf

LEMMA EntryInvRead ==
  ASSUME EntryInv, Read
  PROVE  EntryInv'
<1> DEFINE e == entry
           b == whole(e)
<1>1. /\ stage = "arrived" /\ stage' = "read" /\ readable(e)
      /\ UNCHANGED <<entry, room, fields, written, input>>
      /\ result' = readFramed(e.types, input) \/ result' = readDirectly(e.types, input)
  BY DEF Read, readable
<1>2. e \in Entries /\ room = 4 + sizeOf(e) /\ written = b /\ Arrived
  BY <1>1 DEF EntryInv
<1>3. b \in Bytes
  BY <1>2, EntryPromise
<1>4. Returned'
  <2>1. ASSUME NEW more \in Bytes, input = b \o more
        PROVE  Returned'
    <3>1. /\ readFramed(e.types, input) = read(e.values, <<>>, more)
          /\ readDirectly(e.types, input) = read(e.values, more, <<>>)
      BY <1>1, <1>2, <2>1, ReadWhole
    <3> HIDE DEF b
    <3>2. Remaining = more
      BY <1>2, <1>3, <2>1, ConcatParts DEF Remaining
    <3>3. ~(Len(input) < Len(written))
      <4>1. Len(b \o more) = Len(b) + Len(more)
        BY <1>3, ConcatBytes
      <4>2. Len(b) \in Nat /\ Len(more) \in Nat
        BY <1>3 DEF Bytes
      <4> QED BY <1>2, <2>1, <4>1, <4>2
    <3>4. result' \in {read(e.values, <<>>, Remaining), read(e.values, Remaining, <<>>)}
      BY <1>1, <3>1, <3>2
    <3> QED BY <1>1, <3>3, <3>4 DEF Returned, Remaining
  <2>2. ASSUME NEW more \in Bytes, input \in Bytes, more # <<>>, input \o more = b
        PROVE  Returned'
    <3>1. ~readFramed(e.types, input).ok /\ ~readDirectly(e.types, input).ok
      BY <1>1, <1>2, <2>2, ReadPart
    <3> HIDE DEF b
    <3>2. Len(input) < Len(written)
      BY <1>2, <2>2, Shorter
    <3> QED BY <1>1, <3>1, <3>2 DEF Returned
  <2> QED BY <1>2, <2>1, <2>2 DEF Arrived
<1>5. Arrived'
  BY <1>1, <1>2 DEF Arrived, whole, header, payload, sizeOf
<1> QED BY <1>1, <1>2, <1>4, <1>5 DEF EntryInv, whole, header, payload, sizeOf

LEMMA EntryInvHolds == EntrySpec => []EntryInv
<1>1. EntryInit => EntryInv
  BY DEF EntryInit, EntryInv
<1>2. EntryInv /\ [EntryNext]_entryVars => EntryInv'
  <2> SUFFICES ASSUME EntryInv, [EntryNext]_entryVars PROVE EntryInv'
    OBVIOUS
  <2>1. ASSUME NEW e \in Entries, Reserve(e) PROVE EntryInv'
    BY <2>1, EntryInvReserve
  <2>2. CASE WriteField
    BY <2>2, EntryInvWriteField
  <2>3. CASE Commit
    BY <2>3, EntryInvCommit
  <2>4. CASE Arrive
    BY <2>4, EntryInvArrive
  <2>5. CASE Read
    BY <2>5, EntryInvRead
  <2>6. CASE UNCHANGED entryVars
    BY <2>6 DEF entryVars, EntryInv, Arrived, Returned, Remaining, whole, header, payload,
                parts, sizeOf
  <2> QED BY <2>1, <2>2, <2>3, <2>4, <2>5, <2>6 DEF EntryNext
<1> QED BY <1>1, <1>2, PTL DEF EntrySpec

LEMMA EntryInvImplies == EntryInv => RoundTrip
<1> SUFFICES ASSUME EntryInv PROVE RoundTrip
  OBVIOUS
<1>1. ASSUME stage = "reserved" PROVE Len(written) <= room
  <2> DEFINE e == entry
             h == header(e)
  <2>1. e \in Entries /\ room = 4 + sizeOf(e) /\ fields \in 0..Len(e.types)
    BY <1>1 DEF EntryInv
  <2>2. PICK g : Joins(g, parts(e)) /\ written = h \o g[fields]
    BY <1>1 DEF EntryInv
  <2>3. /\ Len(parts(e)) = Len(e.types) /\ h \in Bytes /\ Len(h) = 4
        /\ sizeOf(e) = Len(payload(e))
    BY <2>1, EntryPromise
  <2>4. g[Len(e.types)] = payload(e)
    BY <2>1, <2>2, AllFields
  <2> HIDE DEF e, h
  <2>5. g[fields] \in Bytes /\ \E m \in Bytes : payload(e) = g[fields] \o m
    <3>1. fields \in 0..Len(parts(e))
      BY <2>1, <2>3
    <3>2. \A k \in 0..Len(parts(e)) : g[k] \in Bytes /\ \E m \in Bytes : g[Len(parts(e))] = g[k] \o m
      BY <2>2 DEF Joins
    <3> QED BY <2>3, <2>4, <3>1, <3>2
  <2>6. PICK m \in Bytes : payload(e) = g[fields] \o m
    BY <2>5
  <2>7. Len(payload(e)) = Len(g[fields]) + Len(m)
    BY <2>5, <2>6, ConcatBytes
  <2>8. Len(written) = 4 + Len(g[fields])
    BY <2>2, <2>3, <2>5, ConcatBytes
  <2>9. Len(m) \in Nat /\ Len(g[fields]) \in Nat
    BY <2>5 DEF Bytes
  <2> QED BY <2>1, <2>3, <2>7, <2>8, <2>9
<1>2. ASSUME stage \in {"committed", "arrived", "read"} PROVE Len(written) = room
  BY <1>2, EntryPromise DEF EntryInv
<1> QED BY <1>1, <1>2 DEF RoundTrip, EntryInv, Returned

\* No field of an entry is ever written beyond the room that was reserved for
\* it by serialized_size, a committed entry fills the room, and its reader gets
\* the values back, or an exception if some of it is missing: for all types of
\* what is logged, nested to any depth (SessionWriter.hpp, mserialize
\* Serializer.hpp and Deserializer.hpp).
THEOREM EntryRoundTrip == EntrySpec => []RoundTrip
BY EntryInvHolds, EntryInvImplies, PTL
=============================================================================
