------------------------------ MODULE FoldProofs ------------------------------
(***************************************************************************)
(* Induction over the natural numbers, and folds over sequences.           *)
(*                                                                         *)
(* The theorem on induction is stated with a set instead of a predicate.   *)
(* FoldLeft is defined by recursion over the sets of positions, highest    *)
(* position last; here it is shown to be op applied element by element.    *)
(* The operator is a constant: a module with a fold instantiates this one. *)
(***************************************************************************)
EXTENDS Integers, Sequences, SequencesExt, SequenceTheorems, WellFoundedInduction, TLAPS

CONSTANT op(_, _)

\* Every nonempty set of natural numbers has a least element.
LEMMA NatMin ==
  ASSUME NEW T, T \subseteq Nat, T # {}
  PROVE  \E x \in T : \A y \in T : x <= y
<1>1. IsWellFoundedOn(OpToRel(<, Nat), Nat)
  BY NatLessThanWellFounded, Zenon
<1>2. PICK x \in T : \A y \in T : ~(<<y, x>> \in OpToRel(<, Nat))
  BY <1>1, WFMin, Zenon
<1>3. \A y \in T : ~(y < x)
  BY <1>2 DEF OpToRel
<1> QED BY <1>3

\* Induction: a set that has 0, and the successor of each number it has, has all.
LEMMA NatInd ==
  ASSUME NEW S, 0 \in S, \A n \in Nat : n \in S => n + 1 \in S
  PROVE  \A n \in Nat : n \in S
<1> DEFINE T == Nat \ S
<1> SUFFICES ASSUME T # {} PROVE FALSE
  OBVIOUS
<1>1. PICK x \in T : \A y \in T : x <= y
  BY NatMin
<1>2. x - 1 \in Nat /\ x - 1 \notin T
  BY <1>1
<1> QED BY <1>2

\* f is the fold of seq over the sets of the positions in D, highest last.
IsFold(f, base, seq, D) ==
  f = [s \in SUBSET D |-> IF s = {} THEN base ELSE op(f[s \ {Max(s)}], seq[Max(s)])]

\* What FoldLeft of the community modules is, expanded.
TheFold(base, seq, D) == CHOOSE f : IsFold(f, base, seq, D)

Fold(base, seq) == TheFold(base, seq, DOMAIN seq)[DOMAIN seq]

\* The highest position of a set that has k + 1.
LEMMA MaxTop ==
  ASSUME NEW k \in Nat, NEW s \in SUBSET (1..(k + 1)), k + 1 \in s
  PROVE  Max(s) = k + 1
<1> DEFINE P(x) == x \in s /\ \A y \in s : x >= y
<1>1. P(k + 1)
  OBVIOUS
<1>2. \A x : P(x) => x = k + 1
  OBVIOUS
<1>3. Max(s) = CHOOSE x : P(x)
  BY DEF Max
<1> QED BY <1>1, <1>2, <1>3

LEMMA SubsetsBelow ==
  ASSUME NEW k \in Nat, NEW s \in SUBSET (1..(k + 1)), k + 1 \notin s
  PROVE  s \in SUBSET (1..k)
OBVIOUS

\* The recursion has a solution.
LEMMA FoldExists ==
  ASSUME NEW base, NEW seq
  PROVE  \A k \in Nat : \E f : IsFold(f, base, seq, 1..k)
<1> DEFINE S == {k \in Nat : \E f : IsFold(f, base, seq, 1..k)}
<1>1. 0 \in S
  <2> DEFINE f == [s \in SUBSET (1..0) |-> base]
  <2>1. IsFold(f, base, seq, 1..0)
    <3>1. \A s \in SUBSET (1..0) : s = {}
      OBVIOUS
    <3> QED BY <3>1 DEF IsFold
  <2> QED BY <2>1
<1>2. ASSUME NEW k \in Nat, k \in S
      PROVE  k + 1 \in S
  <2>1. PICK g : IsFold(g, base, seq, 1..k)
    BY <1>2
  <2> DEFINE f == [s \in SUBSET (1..(k + 1)) |->
                     IF k + 1 \in s THEN op(g[s \ {k + 1}], seq[k + 1]) ELSE g[s]]
  <2>2. ASSUME NEW s \in SUBSET (1..(k + 1))
        PROVE  f[s] = IF s = {} THEN base ELSE op(f[s \ {Max(s)}], seq[Max(s)])
    <3>1. CASE k + 1 \in s
      <4>1. Max(s) = k + 1
        BY <3>1, MaxTop
      <4>2. s \ {k + 1} \in SUBSET (1..k)
        OBVIOUS
      <4>3. f[s \ {k + 1}] = g[s \ {k + 1}]
        BY <4>2
      <4> QED BY <3>1, <4>1, <4>3
    <3>2. CASE k + 1 \notin s
      <4>1. s \in SUBSET (1..k)
        BY <3>2, SubsetsBelow
      <4>2. g[s] = IF s = {} THEN base ELSE op(g[s \ {Max(s)}], seq[Max(s)])
        BY <4>1, <2>1 DEF IsFold
      <4>3. f[s \ {Max(s)}] = g[s \ {Max(s)}]
        BY <3>2
      <4>4. f[s] = g[s]
        BY <3>2
      <4> QED BY <4>2, <4>3, <4>4
    <3> QED BY <3>1, <3>2
  <2>3. IsFold(f, base, seq, 1..(k + 1))
    <3> HIDE DEF f
    <3>1. DOMAIN f = SUBSET (1..(k + 1)) /\ f = [s \in DOMAIN f |-> f[s]]
      BY DEF f
    <3> QED BY <2>2, <3>1 DEF IsFold
  <2> QED BY <2>3
<1>3. \A k \in Nat : k \in S
  <2> HIDE DEF S
  <2> QED BY <1>1, <1>2, NatInd
<1> QED BY <1>3

LEMMA FoldIsFold ==
  ASSUME NEW base, NEW seq, NEW k \in Nat
  PROVE  IsFold(TheFold(base, seq, 1..k), base, seq, 1..k)
BY FoldExists DEF TheFold

\* The first n elements are the same.
Agree(seq, seq2, n) == \A i \in 1..n : seq[i] = seq2[i]

\* Folds of sequences that agree so far agree.
LEMMA FoldAgree ==
  ASSUME NEW base, NEW seq, NEW seq2, NEW n \in Nat, NEW m \in Nat,
         NEW f, IsFold(f, base, seq, 1..n),
         NEW g, IsFold(g, base, seq2, 1..m),
         Agree(seq, seq2, n)
  PROVE  n <= m => f[1..n] = g[1..n]
<1> DEFINE S == {k \in Nat : k <= n /\ k <= m => f[1..k] = g[1..k]}
<1>0. /\ \A s \in SUBSET (1..n) : f[s] = IF s = {} THEN base ELSE op(f[s \ {Max(s)}], seq[Max(s)])
      /\ \A s \in SUBSET (1..m) : g[s] = IF s = {} THEN base ELSE op(g[s \ {Max(s)}], seq2[Max(s)])
  BY DEF IsFold
<1>1. 0 \in S
  <2>1. 1..0 = {} /\ 1..0 \in SUBSET (1..n) /\ 1..0 \in SUBSET (1..m)
    OBVIOUS
  <2> QED BY <2>1, <1>0
<1>2. ASSUME NEW k \in Nat, k \in S
      PROVE  k + 1 \in S
  <2> SUFFICES ASSUME k + 1 <= n, k + 1 <= m
               PROVE  f[1..(k + 1)] = g[1..(k + 1)]
    OBVIOUS
  <2>1. /\ 1..(k + 1) \in SUBSET (1..n) /\ 1..(k + 1) \in SUBSET (1..m) /\ 1..(k + 1) # {}
        /\ k + 1 \in 1..(k + 1)
        /\ 1..(k + 1) \in SUBSET (1..(k + 1))
        /\ (1..(k + 1)) \ {k + 1} = 1..k
        /\ f[1..k] = g[1..k] /\ seq[k + 1] = seq2[k + 1]
    BY <1>2 DEF Agree
  <2>2. Max(1..(k + 1)) = k + 1
    BY <2>1, MaxTop
  <2>3. f[1..(k + 1)] = op(f[1..k], seq[k + 1])
    BY <1>0, <2>1, <2>2
  <2>4. g[1..(k + 1)] = op(g[1..k], seq2[k + 1])
    BY <1>0, <2>1, <2>2
  <2> QED BY <2>1, <2>3, <2>4
<1>3. \A k \in Nat : k \in S
  <2> HIDE DEF S
  <2> QED BY <1>1, <1>2, NatInd
<1> QED BY <1>3

\* The fold of no elements, and of one more.
LEMMA FoldEmpty ==
  ASSUME NEW base
  PROVE  Fold(base, <<>>) = base
<1>1. DOMAIN <<>> = 1..0 /\ 1..0 = {}
  OBVIOUS
<1>2. IsFold(TheFold(base, <<>>, 1..0), base, <<>>, 1..0)
  BY FoldIsFold
<1>3. TheFold(base, <<>>, 1..0)[1..0] = base
  <2> DEFINE f == TheFold(base, <<>>, 1..0)
  <2> HIDE DEF f
  <2>1. f = [s \in SUBSET (1..0) |-> IF s = {} THEN base ELSE op(f[s \ {Max(s)}], <<>>[Max(s)])]
    BY <1>2 DEF IsFold, f
  <2>2. 1..0 \in SUBSET (1..0) /\ 1..0 = {}
    OBVIOUS
  <2>3. f[1..0] = base
    BY <2>1, <2>2
  <2> QED BY <2>3 DEF f
<1> QED BY <1>1, <1>3 DEF Fold

LEMMA FoldAppend ==
  ASSUME NEW base, NEW S, NEW s \in Seq(S), NEW x \in S
  PROVE  Fold(base, Append(s, x)) = op(Fold(base, s), x)
<1> DEFINE n == Len(s)
           t == Append(s, x)
           f == TheFold(base, s, 1..n)
           g == TheFold(base, t, 1..(n + 1))
<1>1. /\ n \in Nat /\ DOMAIN s = 1..n /\ DOMAIN t = 1..(n + 1)
      /\ t[n + 1] = x /\ \A i \in 1..n : s[i] = t[i]
  OBVIOUS
<1>2. Fold(base, s) = f[1..n] /\ Fold(base, t) = g[1..(n + 1)]
  BY <1>1 DEF Fold
<1>3. IsFold(f, base, s, 1..n) /\ IsFold(g, base, t, 1..(n + 1))
  BY <1>1, FoldIsFold
<1> HIDE DEF n, t, f, g
<1>4. f[1..n] = g[1..n]
  <2>1. n \in Nat /\ n + 1 \in Nat /\ n <= n + 1
    BY <1>1
  <2>2. Agree(s, t, n)
    BY <1>1 DEF Agree
  <2> QED BY <1>3, <2>1, <2>2, FoldAgree
<1>5. g[1..(n + 1)] = op(g[1..n], t[n + 1])
  <2>1. /\ 1..(n + 1) \in SUBSET (1..(n + 1)) /\ 1..(n + 1) # {} /\ n + 1 \in 1..(n + 1)
        /\ (1..(n + 1)) \ {n + 1} = 1..n
    <3>1. n \in Nat
      BY <1>1
    <3> QED BY <3>1
  <2>2. Max(1..(n + 1)) = n + 1
    BY <1>1, <2>1, MaxTop
  <2>3. \A r \in SUBSET (1..(n + 1)) : g[r] = IF r = {} THEN base ELSE op(g[r \ {Max(r)}], t[Max(r)])
    BY <1>3 DEF IsFold
  <2> QED BY <2>1, <2>2, <2>3
<1> QED BY <1>1, <1>2, <1>4, <1>5 DEF t
\* The fold of two sequences, one behind the other.
LEMMA FoldConcat ==
  ASSUME NEW base, NEW S, NEW s \in Seq(S)
  PROVE  \A t \in Seq(S) : Fold(base, s \o t) = Fold(Fold(base, s), t)
<1> DEFINE Good(t) == Fold(base, s \o t) = Fold(Fold(base, s), t)
           N == {n \in Nat : \A t \in Seq(S) : Len(t) = n => Good(t)}
<1>1. 0 \in N
  <2>1. ASSUME NEW t \in Seq(S), Len(t) = 0
        PROVE  Good(t)
    <3>1. t = <<>> /\ s \o t = s
      BY <2>1
    <3> QED BY <3>1, FoldEmpty
  <2> QED BY <2>1
<1>2. ASSUME NEW n \in Nat, n \in N
      PROVE  n + 1 \in N
  <2>1. ASSUME NEW t \in Seq(S), Len(t) = n + 1
        PROVE  Good(t)
    <3> DEFINE u == SubSeq(t, 1, n)
               x == t[n + 1]
    <3>1. u \in Seq(S) /\ Len(u) = n /\ x \in S
      BY <2>1
    <3>2. t = Append(u, x)
      BY <2>1
    <3> HIDE DEF u, x
    <3>3. s \o t = Append(s \o u, x) /\ s \o u \in Seq(S)
      BY <3>1, <3>2
    <3> DEFINE v == s \o u
    <3>4. v \in Seq(S) /\ s \o t = Append(v, x)
      BY <3>3
    <3> HIDE DEF v
    <3>5. Fold(base, Append(v, x)) = op(Fold(base, v), x)
      BY <3>1, <3>4, FoldAppend
    <3>6. Fold(base, s \o t) = op(Fold(base, s \o u), x)
      BY <3>4, <3>5 DEF v
    <3>7. Fold(Fold(base, s), t) = op(Fold(Fold(base, s), u), x)
      BY <3>1, <3>2, FoldAppend
    <3>8. Good(u)
      BY <1>2, <3>1
    <3> QED BY <3>6, <3>7, <3>8
  <2> QED BY <2>1
<1>3. \A n \in Nat : n \in N
  <2> HIDE DEF N
  <2> QED BY <1>1, <1>2, NatInd
<1>4. ASSUME NEW t \in Seq(S)
      PROVE  Good(t)
  <2>1. Len(t) \in N
    BY <1>3
  <2> QED BY <2>1
<1> QED BY <1>4

\* A fold goes through a state for each number of elements taken.
LEMMA FoldSteps ==
  ASSUME NEW base, NEW S, NEW s \in Seq(S)
  PROVE  \E g : /\ g[0] = base
                /\ \A k \in 1..Len(s) : g[k] = op(g[k - 1], s[k])
                /\ Fold(base, s) = g[Len(s)]
<1> DEFINE n == Len(s)
           f == TheFold(base, s, 1..n)
           g == [k \in 0..n |-> f[1..k]]
<1>1. n \in Nat /\ DOMAIN s = 1..n
  OBVIOUS
<1>2. IsFold(f, base, s, 1..n)
  BY <1>1, FoldIsFold
<1>3. Fold(base, s) = f[1..n]
  BY <1>1 DEF Fold
<1> HIDE DEF n, f
<1>4. \A r \in SUBSET (1..n) : f[r] = IF r = {} THEN base ELSE op(f[r \ {Max(r)}], s[Max(r)])
  BY <1>2 DEF IsFold
<1>5. g[0] = base
  <2>1. 1..0 = {} /\ 1..0 \in SUBSET (1..n) /\ 0 \in 0..n
    BY <1>1
  <2> QED BY <2>1, <1>4
<1>6. ASSUME NEW k \in 1..n
      PROVE  g[k] = op(g[k - 1], s[k])
  <2>1. /\ 1..k \in SUBSET (1..n) /\ 1..k # {} /\ (1..k) \ {k} = 1..(k - 1)
        /\ k \in 0..n /\ k - 1 \in 0..n
    <3>1. n \in Nat /\ k \in 1..n
      BY <1>1
    <3> HIDE DEF g
    <3>2. (1..k) \ {k} = 1..(k - 1)
      BY <3>1
    <3>3. 1..k \in SUBSET (1..n)
      BY <3>1
    <3>4. k \in 0..n /\ k - 1 \in 0..n /\ k \in 1..k
      BY <3>1
    <3> QED BY <3>2, <3>3, <3>4
  <2>2. Max(1..k) = k
    <3>1. k - 1 \in Nat /\ (k - 1) + 1 = k
      BY <1>1
    <3>2. 1..k \in SUBSET (1..((k - 1) + 1)) /\ (k - 1) + 1 \in 1..k
      BY <3>1
    <3> QED BY <3>1, <3>2, MaxTop
  <2> QED BY <2>1, <2>2, <1>4
<1>7. g[n] = f[1..n]
  BY <1>1
<1> QED BY <1>3, <1>5, <1>6, <1>7 DEF n
===============================================================================
