--------------------------- MODULE RecoveryProofs ---------------------------
(***************************************************************************)
(* Whatever crash, search and order of writing: no committed event is lost *)
(* or recovered twice; and if no metadata was being added at the crash,    *)
(* the recovered file is read without an error, each event with the source *)
(* and the last ClockSync of its own session.                              *)
(*                                                                         *)
(* Until the crash, an event not delivered is in a queue that is not gone, *)
(* and of those delivered only the ones just read are still in one.  From  *)
(* the crash on, the same is said of the blocks that are still to be       *)
(* written (Pending) and the file.  What the file is read as is told by    *)
(* what is pending: a session's events come when its metadata have been    *)
(* written, and before any other session's.                                *)
(***************************************************************************)
EXTENDS StreamsProofs, Recovery
LOCAL INSTANCE SequencesExt

-----------------------------------------------------------------------------
(* The invariant *)

Steps == {"idle", "insert", "mark", "size", "next"}
Event == [kind : {"event"}, id : Nat, num : Sessions \X Nat, cut : {FALSE}]

Types ==
  /\ meta \in [Sessions \X Kinds -> [magic : BOOLEAN, len : Nat, size : Nat]]
  /\ writing \in [Sessions -> [step : Steps, kind : Kinds, grows : BOOLEAN, before : Nat]]
  /\ queue \in [Queues -> Seq(Event)]
  /\ qstate \in [Queues -> {"open", "closed", "gone"}]
  /\ consume \in [Sessions -> [step : {"idle", "written"}, queue : Queues \union {<<0, 0>>},
                               closed : BOOLEAN, size : Nat]]
  /\ logged \in [Sessions -> Seq(Nat)]
  /\ clocks \in [Sessions -> Nat]
  /\ delivered \subseteq Sessions \X Nat
  /\ phase \in {"running", "crashed", "writing"}
  /\ quiet \in BOOLEAN

\* Buffer k of session s is not being written to.
Resting(s, k) == writing[s].step = "idle" \/ writing[s].kind # k

\* The size field is behind by the piece that is being written; the magic number
\* is cleared exactly while the vector grows.
MetaOK(s, k) ==
  LET m == meta[<<s, k>>]
      w == writing[s]
  IN  /\ Resting(s, k) => m.magic /\ m.size = m.len /\ m.len % Pieces = 0
      /\ ~Resting(s, k) =>
           /\ w.before <= m.len /\ m.size <= m.len
           /\ m.magic <=> w.step # "mark" /\ ~(w.step = "insert" /\ w.grows)
      /\ k = "clock" => m.len >= Pieces

MetaInv == \A s \in Sessions, k \in Kinds : MetaOK(s, k)

\* A freed buffer has no magic number.
FreedInv == \A f \in freed : ~f.copy.magic

ClocksInv ==
  Running => \A s \in Sessions : Resting(s, "clock") => clocks[s] = entries(s, "clock")

Buffers == MetaInv /\ FreedInv /\ ClocksInv

\* Session s has read the first events of queue q, and has not yet released them.
BeingRead(q, k) ==
  LET c == consume[q[1]]
  IN  c.step = "written" /\ c.queue = q /\ k <= c.size

ConsumeInv ==
  \A s \in Sessions : consume[s].step = "written" =>
    LET q == consume[s].queue
    IN  /\ q \in Queues /\ q[1] = s
        /\ consume[s].size <= Len(queue[q])
        /\ consume[s].closed => qstate[q] = "closed" /\ consume[s].size = Len(queue[q])

\* The event was logged by session s, with a source that it has added.
OwnEvent(e, s) ==
  /\ e.kind = "event" /\ e.cut = FALSE
  /\ e.num[1] = s /\ e.num[2] \in 1..Len(logged[s])
  /\ e.id = logged[s][e.num[2]]

\* Event k of queue q is the session's own, and delivered only while it is read.
QueuedOK(q, k) ==
  LET e == queue[q][k]
  IN  /\ OwnEvent(e, q[1])
      /\ e.id \in 1..entries(q[1], "source")
      /\ e.num \in delivered <=> BeingRead(q, k)

QueueInv ==
  /\ \A q \in Queues : \A k \in 1..Len(queue[q]) : QueuedOK(q, k)
  /\ \A q, p \in Queues : \A i \in 1..Len(queue[q]), j \in 1..Len(queue[p]) :
       queue[q][i].num = queue[p][j].num => q = p /\ i = j
  /\ \A d \in delivered : d[2] <= Len(logged[d[1]])

Queued(n) == \E q \in Queues :
               qstate[q] # "gone" /\ \E k \in 1..Len(queue[q]) : queue[q][k].num = n

\* Every event is delivered, or in a queue.
Covered == \A s \in Sessions : \A i \in 1..Len(logged[s]) : <<s, i>> \in delivered \/ Queued(<<s, i>>)

Channels == ConsumeInv /\ QueueInv /\ Covered

RunInv == Running => dump = {} /\ buffers = {} /\ file = <<>> /\ Channels

\* The blocks that are not yet written.
Pending == dump \union buffers

Entry == [kind : {"event"}, id : Nat, num : Sessions \X Nat, cut : {FALSE}]
         \union [kind : {"clock"}, version : Sessions \X Nat, cut : {FALSE}]
         \union [kind : {"source"}, id : Nat, src : Sessions \X Nat, cut : {FALSE}]

\* A data block has events of its session, a metadata block has none.
BlockOK(b) ==
  /\ b \in [type : {"metadata", "data"}, session : Sessions, whole : BOOLEAN, entries : Seq(Entry)]
  /\ b.type = "data" => b.whole /\ \A k \in DOMAIN b.entries : OwnEvent(b.entries[k], b.session)
  /\ b.type = "metadata" => \A k \in DOMAIN b.entries : b.entries[k].kind # "event"

\* The events of a block.
EventNums(b) == {b.entries[k].num : k \in {i \in DOMAIN b.entries : b.entries[i].kind = "event"}}

PendingNums == UNION {EventNums(b) : b \in Pending}

\* No event is twice in the blocks.
OnceIn(blocks) ==
  \A b, c \in blocks : \A i \in DOMAIN b.entries, j \in DOMAIN c.entries :
    /\ b.entries[i].kind = "event" /\ c.entries[j].kind = "event"
    /\ b.entries[i].num = c.entries[j].num
    => b = c /\ i = j

\* No event is twice in the pending blocks, or in the file, or in both.
Distinct ==
  /\ OnceIn(Pending)
  /\ \A i, j \in EventsAt : file[i].num = file[j].num => i = j
  /\ PendingNums \intersect RecoveredNums = {}

\* Every event is delivered, written or pending, and of those delivered only
\* the ones that were not released are.
NoneLost == \A s \in Sessions : \A i \in 1..Len(logged[s]) :
              <<s, i>> \in delivered \union RecoveredNums \union PendingNums
OnlyCopies == (RecoveredNums \union PendingNums) \intersect delivered \subseteq copying

Blocks ==
  /\ file \in Seq(Entry)
  /\ IsFiniteSet(Pending)
  /\ \A b \in Pending : BlockOK(b)
  /\ Distinct /\ NoneLost /\ OnlyCopies
  /\ phase = "crashed" => buffers = {} /\ file = <<>>
  /\ phase = "writing" => dump = {}

CrashInv == ~Running => Blocks

Inv == Types /\ Buffers /\ RunInv /\ CrashInv

\* The metadata of session s: n sources, or n ClockSyncs.
ClockBlock(s, n)  == MetadataBlock(s, "clock", [size |-> Pieces * n])
SourceBlock(s, n) == MetadataBlock(s, "source", [size |-> Pieces * n])

\* Nothing is pending of a session before s.
Reached(s) == \A b \in Pending : s <= b.session

\* What the events of session s need is pending, or has been read last.
ClockKnown(s) ==
  \/ ClockBlock(s, clocks[s]) \in Pending
  \/ Reached(s) /\ Read.clock = <<s, clocks[s]>>

SourcesKnown(s, n) ==
  \/ SourceBlock(s, n) \in Pending
  \/ Reached(s) /\ \A id \in 1..n : Lookup(Read.sources, id) = Some(<<s, id>>)

\* n[s] is the number of sources of session s.
QuietBlock(b, n) ==
  LET s == b.session
  IN  /\ b.entries # <<>>
      /\ b.type = "metadata" => b \in {ClockBlock(s, clocks[s]), SourceBlock(s, n[s])}
      /\ b.type = "data" =>
           /\ \A k \in DOMAIN b.entries : b.entries[k].id \in 1..n[s]
           /\ ClockKnown(s) /\ SourcesKnown(s, n[s])

Version == Sessions \X Nat
ReadEvent == [num : Version, src : Version, writer : {NoName}, clock : Version \union {NoClock}]

IsReader(r) ==
  /\ r = [sources |-> r.sources, writer |-> NoName, clock |-> r.clock,
          events |-> r.events, status |-> r.status]
  /\ MapTo(r.sources, Version)
  /\ r.clock \in Version \union {NoClock}
  /\ r.events \in Seq(ReadEvent)

\* A reader that had no error.
Fine(r) == IsReader(r) /\ r.status = "reading"

\* The events have the source of their own, and the last clock of their session.
GoodEvents(events) ==
  \A i \in DOMAIN events :
    LET e == events[i]
    IN  /\ e.src = <<e.num[1], logged[e.num[1]][e.num[2]]>>
        /\ e.clock = <<e.num[1], clocks[e.num[1]]>>

QuietInv ==
  ~Running /\ quiet =>
    /\ Fine(Read) /\ GoodEvents(Read.events)
    /\ \E n \in [Sessions -> Nat] : \A b \in Pending : QuietBlock(b, n)

-----------------------------------------------------------------------------
(* Finite sets.                                                            *)

\* The image of a finite set under a function.
LEMMA ImageFinite ==
  ASSUME NEW S, IsFiniteSet(S), NEW f, DOMAIN f = S
  PROVE  IsFiniteSet({f[x] : x \in S})
<1> DEFINE T == {f[x] : x \in S}
<1>1. [x \in S |-> f[x]] \in FS!Surjection(S, T)
  BY DEF FS!Surjection
<1>2. FS!IsFiniteSet(T)
  BY <1>1, SameFinite, FS!FS_Surjection
<1> QED BY <1>2, SameFinite

LEMMA UnionFinite ==
  ASSUME NEW S, IsFiniteSet(S), NEW T, IsFiniteSet(T)
  PROVE  IsFiniteSet(S \union T)
BY SameFinite, FS!FS_Union

LEMMA SubsetFinite ==
  ASSUME NEW S, IsFiniteSet(S), NEW T \in SUBSET S
  PROVE  IsFiniteSet(T)
BY SameFinite, FS!FS_Subset

\* SetToSeq has every element of a finite set once.
LEMMA SetToSeqEnumerates ==
  ASSUME NEW S, IsFiniteSet(S)
  PROVE  /\ SetToSeq(S) \in Seq(S)
         /\ \A x \in S : \E i \in 1..Len(SetToSeq(S)) : SetToSeq(S)[i] = x
<1> DEFINE n == Cardinality(S)
<1>0. FS!IsFiniteSet(S) /\ n = FS!Cardinality(S)
  BY SameFinite
<1>1. n \in Nat /\ FS!ExistsBijection(1..n, S)
  BY <1>0, FS!FS_CardinalityType
<1> HIDE DEF n
<1>2. FS!Cardinality(1..n) = n
  BY <1>1, FS!FS_Interval
<1> DEFINE Good(f) == f \in [1..n -> S] /\ IsInjective(f)
<1>3. \E f : Good(f)
  <2>1. PICK f : f \in FS!Bijection(1..n, S)
    BY <1>1 DEF FS!ExistsBijection
  <2> QED BY <2>1 DEF FS!Bijection, FS!Injection, FS!IsInjective, IsInjective
<1>4. Good(SetToSeq(S))
  <2>1. SetToSeq(S) = CHOOSE f : Good(f)
    BY DEF SetToSeq, n
  <2> QED BY <1>3, <2>1
<1> DEFINE f == SetToSeq(S)
<1>5. f \in FS!Injection(1..n, S)
  BY <1>4 DEF FS!Injection, FS!IsInjective, IsInjective
<1>6. f \in FS!Surjection(1..n, S)
  BY <1>0, <1>2, <1>5, FS!FS_Injection
<1>7. f \in Seq(S) /\ Len(f) = n
  BY <1>1, <1>4
<1> QED BY <1>6, <1>7 DEF FS!Surjection

-----------------------------------------------------------------------------
(* The search for magic numbers finds all whole blocks, wherever others are *)

\* The recursion of recovered.
Searches(f, blocks) ==
  f = [i \in 1..(Len(blocks) + 2) |->
         IF i > Len(blocks) THEN {}
         ELSE IF blocks[i].whole THEN {blocks[i]} \union f[i + 1]
         ELSE f[afterFailure(blocks, i)]]

WholeFrom(blocks, i) == {blocks[j] : j \in {k \in i..Len(blocks) : blocks[k].whole}}

LEMMA WholeFromNext ==
  ASSUME NEW S, NEW blocks \in Seq(S), NEW i \in 1..Len(blocks)
  PROVE  WholeFrom(blocks, i) = IF blocks[i].whole THEN {blocks[i]} \union WholeFrom(blocks, i + 1)
                                ELSE WholeFrom(blocks, i + 1)
<1>1. i..Len(blocks) = {i} \union ((i + 1)..Len(blocks))
  OBVIOUS
<1> QED BY <1>1 DEF WholeFrom

LEMMA RecoveredWhole ==
  ASSUME NEW S, NEW blocks \in Seq(S)
  PROVE  recovered(blocks) = {blocks[j] : j \in {k \in 1..Len(blocks) : blocks[k].whole}}
<1> DEFINE n == Len(blocks)
           w == [i \in 1..(n + 2) |-> WholeFrom(blocks, i)]
           f == CHOOSE g : Searches(g, blocks)
<1>0. n \in Nat
  OBVIOUS
<1>1. recovered(blocks) = f[1]
  BY DEF recovered, Searches
<1>2. Searches(w, blocks)
  <2>1. ASSUME NEW i \in 1..(n + 2)
        PROVE  w[i] = IF i > Len(blocks) THEN {}
                      ELSE IF blocks[i].whole THEN {blocks[i]} \union w[i + 1]
                      ELSE w[afterFailure(blocks, i)]
    <3>1. CASE i > n
      <4>1. i..n = {}
        BY <3>1
      <4> QED BY <3>1, <4>1 DEF WholeFrom
    <3>2. CASE i <= n
      <4>1. i \in 1..Len(blocks) /\ i + 1 \in 1..(n + 2)
        BY <3>2
      <4>2. w[i] = WholeFrom(blocks, i) /\ w[i + 1] = WholeFrom(blocks, i + 1)
        BY <4>1
      <4> QED BY <3>2, <4>1, <4>2, WholeFromNext DEF afterFailure
    <3> QED BY <3>1, <3>2
  <2> QED BY <2>1 DEF Searches
<1>3. Searches(f, blocks)
  BY <1>2
<1> HIDE DEF f
<1>4. \A i \in 1..(n + 2) : f[i] = IF i > n THEN {}
                                    ELSE IF blocks[i].whole THEN {blocks[i]} \union f[i + 1]
                                    ELSE f[i + 1]
  BY <1>3 DEF Searches, afterFailure
<1> DEFINE N == {k \in Nat : k <= n => f[n + 1 - k] = WholeFrom(blocks, n + 1 - k)}
<1>5. 0 \in N
  <2>1. n + 1 - 0 = n + 1 /\ n + 1 \in 1..(n + 2) /\ n + 1 > n /\ (n + 1)..n = {}
    BY <1>0
  <2>2. f[n + 1] = {}
    BY <2>1, <1>4
  <2>3. WholeFrom(blocks, n + 1) = {}
    BY <2>1 DEF WholeFrom
  <2> QED BY <2>1, <2>2, <2>3
<1>6. ASSUME NEW k \in Nat, k \in N
      PROVE  k + 1 \in N
  <2> SUFFICES ASSUME k + 1 <= n
               PROVE  f[n + 1 - (k + 1)] = WholeFrom(blocks, n + 1 - (k + 1))
    OBVIOUS
  <2> DEFINE i == n - k
  <2>1. i \in 1..n /\ i \in 1..(n + 2) /\ i + 1 = n + 1 - k /\ i = n + 1 - (k + 1) /\ ~(i > n)
    BY <1>0
  <2>2. f[n + 1 - k] = WholeFrom(blocks, n + 1 - k)
    BY <1>0, <1>6
  <2>3. f[i + 1] = WholeFrom(blocks, i + 1)
    BY <2>1, <2>2
  <2> HIDE DEF i
  <2>4. f[i] = WholeFrom(blocks, i)
    BY <2>1, <2>3, <1>4, WholeFromNext
  <2> QED BY <2>1, <2>4
<1>7. \A k \in Nat : k \in N
  <2> HIDE DEF N
  <2> QED BY <1>5, <1>6, Reading!NatInd
<1>8. f[1] = WholeFrom(blocks, 1)
  <2>1. n \in N /\ n + 1 - n = 1
    BY <1>0, <1>7
  <2> QED BY <2>1
<1> QED BY <1>1, <1>8 DEF WholeFrom

\* Bytes that look like a block hide none.
LEMMA ScanFindsWhole ==
  ASSUME NEW S, IsFiniteSet(S), NEW i \in 1..(Len(SetToSeq(S)) + 1)
  PROVE  recovered(InsertAt(SetToSeq(S), i, JunkBlock)) = {b \in S : b.whole}
<1> DEFINE s == SetToSeq(S)
           T == S \union {JunkBlock}
           p == i - 1
           t == InsertAt(s, i, JunkBlock)
<1>1. s \in Seq(S) /\ \A b \in S : \E k \in 1..Len(s) : s[k] = b
  BY SetToSeqEnumerates
<1>2. s \in Seq(T) /\ JunkBlock \in T /\ ~JunkBlock.whole /\ Len(s) \in Nat
  <2>1. S \subseteq T
    OBVIOUS
  <2> HIDE DEF s, T
  <2>2. s \in Seq(T)
    BY <1>1, <2>1
  <2> QED BY <2>2 DEF T, JunkBlock
<1>3. p \in 0..Len(s) /\ p + 1 = i
  OBVIOUS
<1>4. \A k \in 1..Len(s) : s[k] \in S
  BY <1>1
<1> HIDE DEF s, T, p
<1>5. t \in Seq(T) /\ Len(t) = Len(s) + 1
  BY <1>2, <1>3, InsertAfterType
<1>6. \A k \in 1..p : t[k] = s[k]
  BY <1>2, <1>3, InsertAfterBefore
<1>7. t[i] = JunkBlock
  BY <1>2, <1>3, InsertAfterItself
<1>8. \A k \in i..Len(s) : t[k + 1] = s[k]
  BY <1>2, <1>3, InsertAfterBehind
<1> HIDE DEF t
<1>9. recovered(t) = {t[j] : j \in {k \in 1..Len(t) : t[k].whole}}
  BY <1>5, RecoveredWhole
<1>10. ASSUME NEW b \in S, b.whole
       PROVE  b \in recovered(t)
  <2>1. PICK k \in 1..Len(s) : s[k] = b
    BY <1>1 DEF s
  <2>2. CASE k <= p
    <3>1. k \in 1..p /\ k \in 1..Len(t)
      BY <2>2, <1>3, <1>5, <1>2
    <3> QED BY <3>1, <2>1, <1>6, <1>9, <1>10
  <2>3. CASE k > p
    <3>1. k \in i..Len(s) /\ k + 1 \in 1..Len(t)
      BY <2>3, <1>3, <1>5, <1>2
    <3> QED BY <3>1, <2>1, <1>8, <1>9, <1>10
  <2> QED BY <2>2, <2>3, <1>3
<1>11. ASSUME NEW j \in 1..Len(t), t[j].whole
       PROVE  t[j] \in S
  <2>1. CASE j <= p
    <3>1. j \in 1..p /\ j \in 1..Len(s)
      BY <2>1, <1>3, <1>2
    <3> QED BY <3>1, <1>4, <1>6
  <2>2. CASE j = i
    BY <2>2, <1>2, <1>7, <1>11
  <2>3. CASE j > i
    <3>1. j - 1 \in i..Len(s) /\ j - 1 \in 1..Len(s) /\ (j - 1) + 1 = j
      BY <2>3, <1>3, <1>5, <1>2
    <3>2. t[(j - 1) + 1] = s[j - 1]
      BY <3>1, <1>8
    <3> QED BY <3>1, <3>2, <1>4
  <2> QED BY <2>1, <2>2, <2>3, <1>3
<1> QED BY <1>9, <1>10, <1>11 DEF t, s

-----------------------------------------------------------------------------
(* Types *)

LEMMA TypesInit == Init => Types
<1> SUFFICES ASSUME Init PROVE Types
  OBVIOUS
<1>1. meta \in [Sessions \X Kinds -> [magic : BOOLEAN, len : Nat, size : Nat]]
  BY DEF Init, NewMeta, Pieces
<1>2. writing \in [Sessions -> [step : Steps, kind : Kinds, grows : BOOLEAN, before : Nat]]
  BY DEF Init, NewWriting, Idle, Steps, Kinds
<1>3. queue \in [Queues -> Seq(Event)] /\ qstate \in [Queues -> {"open", "closed", "gone"}]
  BY DEF Init, NewQueue, NewQstate
<1>4. consume \in [Sessions -> [step : {"idle", "written"}, queue : Queues \union {<<0, 0>>},
                               closed : BOOLEAN, size : Nat]]
  BY DEF Init, NewConsume
<1>5. logged \in [Sessions -> Seq(Nat)] /\ clocks \in [Sessions -> Nat]
  BY DEF Init
<1> QED BY <1>1, <1>2, <1>3, <1>4, <1>5 DEF Types, Init

\* The program and its history when it starts again.
LEMMA NewProgramTypes ==
  /\ NewMeta \in [Sessions \X Kinds -> [magic : BOOLEAN, len : Nat, size : Nat]]
  /\ NewWriting \in [Sessions -> [step : Steps, kind : Kinds, grows : BOOLEAN, before : Nat]]
  /\ NewQueue \in [Queues -> Seq(Event)]
  /\ NewQstate \in [Queues -> {"open", "closed", "gone"}]
  /\ NewConsume \in [Sessions -> [step : {"idle", "written"}, queue : Queues \union {<<0, 0>>},
                                 closed : BOOLEAN, size : Nat]]
BY DEF NewMeta, NewWriting, NewQueue, NewQstate, NewConsume, Idle, Steps, Kinds, Pieces

LEMMA TypesBegin ==
  ASSUME Types, NEW s \in Sessions, NEW k \in Kinds, NEW n \in Nat, BeginPiece(s, k, n)
  PROVE  Types'
<1>1. PICK grows \in BOOLEAN :
        /\ writing' = [writing EXCEPT ![s] = [step |-> "insert", kind |-> k,
                                              grows |-> grows, before |-> n]]
        /\ meta' = IF grows THEN [meta EXCEPT ![<<s, k>>] = clearMagic(@)] ELSE meta
  BY DEF BeginPiece
<1>2. writing' \in [Sessions -> [step : Steps, kind : Kinds, grows : BOOLEAN, before : Nat]]
  BY <1>1 DEF Types, Steps
<1>3. meta' \in [Sessions \X Kinds -> [magic : BOOLEAN, len : Nat, size : Nat]]
  <2>1. clearMagic(meta[<<s, k>>]) \in [magic : BOOLEAN, len : Nat, size : Nat]
    <3>1. meta[<<s, k>>] \in [magic : BOOLEAN, len : Nat, size : Nat]
      BY DEF Types
    <3> QED BY <3>1 DEF clearMagic
  <2> QED BY <1>1, <2>1 DEF Types
<1> QED BY <1>2, <1>3 DEF Types, BeginPiece, recoveryVars

LEMMA TypesMetadata ==
  ASSUME Types, NEW s \in Sessions,
         \/ \E k \in Kinds : AddMetadata(s, k)
         \/ Insert(s) \/ SetMagic(s) \/ UpdateSize(s) \/ NextPiece(s)
  PROVE  Types'
<1>0. \A k \in Kinds : /\ <<s, k>> \in Sessions \X Kinds
                       /\ meta[<<s, k>>] \in [magic : BOOLEAN, len : Nat, size : Nat]
  BY DEF Types
<1>w. /\ writing[s] \in [step : Steps, kind : Kinds, grows : BOOLEAN, before : Nat]
      /\ writing[s].kind \in Kinds
  BY DEF Types
<1>1. ASSUME NEW k \in Kinds, AddMetadata(s, k)
      PROVE  Types'
  BY <1>0, <1>1, TypesBegin DEF AddMetadata
<1>2. ASSUME Insert(s)
      PROVE  Types'
  <2> DEFINE k == writing[s].kind
  <2>1. meta' = [meta EXCEPT ![<<s, k>>].len = @ + 1]
    BY <1>2 DEF Insert
  <2>2. writing' = [writing EXCEPT ![s].step = IF writing[s].grows THEN "mark" ELSE "size",
                                   ![s].grows = FALSE]
    BY <1>2 DEF Insert
  <2> HIDE DEF k
  <2>3. meta' \in [Sessions \X Kinds -> [magic : BOOLEAN, len : Nat, size : Nat]]
    <3>1. [meta[<<s, k>>] EXCEPT !.len = @ + 1] \in [magic : BOOLEAN, len : Nat, size : Nat]
      BY <1>0, <1>w DEF k
    <3> QED BY <2>1, <3>1 DEF Types
  <2>4. writing' \in [Sessions -> [step : Steps, kind : Kinds, grows : BOOLEAN, before : Nat]]
    <3>1. \A st \in Steps : [[writing[s] EXCEPT !.step = st] EXCEPT !.grows = FALSE] \in
            [step : Steps, kind : Kinds, grows : BOOLEAN, before : Nat]
      BY <1>w
    <3>2. writing' = [writing EXCEPT ![s] =
            [[@ EXCEPT !.step = IF writing[s].grows THEN "mark" ELSE "size"] EXCEPT !.grows = FALSE]]
      BY <2>2 DEF Types
    <3> QED BY <3>1, <3>2 DEF Types, Steps
  <2> QED BY <1>2, <2>3, <2>4 DEF Types, Insert, recoveryVars
<1>3. ASSUME SetMagic(s)
      PROVE  Types'
  <2>1. meta' \in [Sessions \X Kinds -> [magic : BOOLEAN, len : Nat, size : Nat]]
    <3>1. [meta[<<s, writing[s].kind>>] EXCEPT !.magic = TRUE] \in
            [magic : BOOLEAN, len : Nat, size : Nat]
      BY <1>0, <1>w
    <3>2. meta' = [meta EXCEPT ![<<s, writing[s].kind>>] = [@ EXCEPT !.magic = TRUE]]
      BY <1>3 DEF SetMagic
    <3> QED BY <3>1, <3>2 DEF Types
  <2>2. writing' \in [Sessions -> [step : Steps, kind : Kinds, grows : BOOLEAN, before : Nat]]
    <3>1. [writing[s] EXCEPT !.step = "size"] \in
            [step : Steps, kind : Kinds, grows : BOOLEAN, before : Nat]
      BY <1>w DEF Steps
    <3>2. writing' = [writing EXCEPT ![s] = [@ EXCEPT !.step = "size"]]
      BY <1>3 DEF SetMagic
    <3> QED BY <3>1, <3>2 DEF Types
  <2> QED BY <1>3, <2>1, <2>2 DEF Types, SetMagic, recoveryVars
<1>4. ASSUME UpdateSize(s)
      PROVE  Types'
  <2> DEFINE k == writing[s].kind
  <2>1. meta' = [meta EXCEPT ![<<s, k>>].size = sizeOf(meta[<<s, k>>])]
    BY <1>4 DEF UpdateSize
  <2>2. writing' = [writing EXCEPT ![s] = IF meta[<<s, k>>].len % Pieces = 0
                                          THEN Idle ELSE [@ EXCEPT !.step = "next"]]
    BY <1>4 DEF UpdateSize
  <2>3. sizeOf(meta[<<s, k>>]) \in Nat /\ entries(s, "clock") \in Nat
    BY <1>0, <1>w DEF sizeOf, entries, Pieces, Kinds
  <2> HIDE DEF k
  <2>4. meta' \in [Sessions \X Kinds -> [magic : BOOLEAN, len : Nat, size : Nat]]
    <3> DEFINE n == sizeOf(meta[<<s, k>>])
    <3>1. [meta[<<s, k>>] EXCEPT !.size = n] \in [magic : BOOLEAN, len : Nat, size : Nat]
      BY <1>0, <1>w, <2>3 DEF k
    <3> HIDE DEF n
    <3>2. meta' = [meta EXCEPT ![<<s, k>>] = [@ EXCEPT !.size = n]]
      BY <2>1 DEF n
    <3> QED BY <3>1, <3>2 DEF Types
  <2>5. writing' \in [Sessions -> [step : Steps, kind : Kinds, grows : BOOLEAN, before : Nat]]
    <3>1. Idle \in [step : Steps, kind : Kinds, grows : BOOLEAN, before : Nat]
      BY DEF Idle, Steps, Kinds
    <3>2. [writing[s] EXCEPT !.step = "next"] \in
            [step : Steps, kind : Kinds, grows : BOOLEAN, before : Nat]
      BY <1>w DEF Steps
    <3> QED BY <2>2, <3>1, <3>2 DEF Types
  <2>6. clocks' \in [Sessions -> Nat]
    BY <1>4, <2>3 DEF Types, UpdateSize
  <2> QED BY <1>4, <2>4, <2>5, <2>6 DEF Types, UpdateSize, recoveryVars
<1>5. ASSUME NextPiece(s)
      PROVE  Types'
  <2>1. writing[s].before \in Nat
    BY <1>w
  <2> QED BY <1>5, <1>w, <2>1, TypesBegin DEF NextPiece
<1> QED BY <1>1, <1>2, <1>3, <1>4, <1>5

\* What is known of a queue: its session, and the events in it.
LEMMA QueueTypes ==
  ASSUME Types, NEW q \in Queues
  PROVE  /\ q \in Sessions \X Nat /\ q[1] \in Sessions
         /\ queue[q] \in Seq(Event) /\ Len(queue[q]) \in Nat /\ DOMAIN queue[q] = 1..Len(queue[q])
         /\ \A k \in 1..Len(queue[q]) : queue[q][k] \in Event
<1>1. q \in Sessions \X Nat
  BY RecoveryAssumption DEF RecoveryAssumption
<1>2. queue[q] \in Seq(Event)
  BY DEF Types
<1> QED BY <1>1, <1>2

LEMMA KnownIdsNat ==
  ASSUME Types, NEW s \in Sessions
  PROVE  KnownIds(s) \subseteq Nat
BY DEF KnownIds

\* Behind gives the events behind the first n.
LEMMA BehindEvents ==
  ASSUME Types, NEW q \in Queues, NEW n \in Nat, n <= Len(queue[q])
  PROVE  /\ Behind(q, n) \in Seq(Event)
         /\ Len(Behind(q, n)) = Len(queue[q]) - n
         /\ \A k \in 1..(Len(queue[q]) - n) : Behind(q, n)[k] = queue[q][n + k]
<1> DEFINE s == queue[q]
<1>1. s \in Seq(Event) /\ Len(s) \in Nat
  BY QueueTypes
<1> HIDE DEF s
<1>2. /\ SubSeq(s, n + 1, Len(s)) \in Seq(Event)
      /\ Len(SubSeq(s, n + 1, Len(s))) = Len(s) - n
  BY <1>1 DEF s
<1>3. ASSUME NEW k \in 1..(Len(s) - n)
      PROVE  SubSeq(s, n + 1, Len(s))[k] = s[n + k]
  BY <1>1 DEF s
<1> QED BY <1>2, <1>3 DEF Behind, s

LEMMA TypesNext == Types /\ [Next]_vars => Types'
<1> SUFFICES ASSUME Types, [Next]_vars PROVE Types'
  OBVIOUS
<1>1. ASSUME NEW s \in Sessions,
             \/ \E k \in Kinds : AddMetadata(s, k)
             \/ Insert(s) \/ SetMagic(s) \/ UpdateSize(s) \/ NextPiece(s)
      PROVE  Types'
  BY <1>1, TypesMetadata
<1>2. ASSUME NEW s \in Sessions, ReleaseQueue(s)
      PROVE  Types'
  <2> DEFINE q == consume[s].queue
             n == consume[s].size
  <2>1. queue' = [queue EXCEPT ![q] = Behind(q, n)]
    BY <1>2 DEF ReleaseQueue
  <2>2. n \in Nat
    BY DEF Types
  <2>3. q \in Queues => Behind(q, n) \in Seq(Event)
    BY <2>2, QueueTypes DEF Behind
  <2>4. qstate' = IF consume[s].closed THEN [qstate EXCEPT ![q] = "gone"] ELSE qstate
    BY <1>2 DEF ReleaseQueue
  <2>5. consume' = [consume EXCEPT ![s] = NewConsume[s]]
    BY <1>2 DEF ReleaseQueue
  <2> HIDE DEF q, n
  <2>6. queue' \in [Queues -> Seq(Event)]
    BY <2>1, <2>3 DEF Types
  <2>7. qstate' \in [Queues -> {"open", "closed", "gone"}]
    BY <2>4 DEF Types
  <2>8. consume' \in [Sessions -> [step : {"idle", "written"}, queue : Queues \union {<<0, 0>>},
                                   closed : BOOLEAN, size : Nat]]
    BY <2>5, NewProgramTypes DEF Types
  <2> QED BY <1>2, <2>6, <2>7, <2>8 DEF Types, ReleaseQueue, recoveryVars
<1>3. ASSUME NEW q \in Queues, NEW id \in KnownIds(q[1]), Log(q, id)
      PROVE  Types'
  <2> DEFINE s == q[1]
             e == EventEntry(id, <<s, Len(logged[s]) + 1>>)
  <2>1. s \in Sessions /\ queue[q] \in Seq(Event) /\ id \in Nat
    BY QueueTypes, KnownIdsNat
  <2>2. logged[s] \in Seq(Nat) /\ Len(logged[s]) + 1 \in Nat
    BY <2>1 DEF Types
  <2>3. e \in Event
    BY <2>1, <2>2 DEF EventEntry, Event
  <2>4. queue' = [queue EXCEPT ![q] = Append(@, e)] /\ logged' = [logged EXCEPT ![s] = Append(@, id)]
    BY <1>3 DEF Log
  <2> HIDE DEF e, s
  <2>5. queue' \in [Queues -> Seq(Event)]
    BY <2>1, <2>3, <2>4 DEF Types
  <2>6. logged' \in [Sessions -> Seq(Nat)]
    BY <2>1, <2>2, <2>4 DEF Types
  <2> QED BY <1>3, <2>5, <2>6 DEF Types, Log, recoveryVars
<1>4. ASSUME NEW q \in Queues, CloseQueue(q)
      PROVE  Types'
  BY <1>4 DEF Types, CloseQueue, recoveryVars
<1>5. ASSUME NEW q \in Queues, ConsumeQueue(q)
      PROVE  Types'
  <2> DEFINE c == [step |-> "written", queue |-> q, closed |-> qstate[q] = "closed",
                   size |-> Len(queue[q])]
  <2>1. /\ q[1] \in Sessions /\ DOMAIN queue[q] = 1..Len(queue[q]) /\ Len(queue[q]) \in Nat
        /\ \A k \in 1..Len(queue[q]) : queue[q][k] \in Event
    BY QueueTypes
  <2>2. consume' = [consume EXCEPT ![q[1]] = c]
    BY <1>5 DEF ConsumeQueue
  <2>3. c \in [step : {"idle", "written"}, queue : Queues \union {<<0, 0>>},
               closed : BOOLEAN, size : Nat]
    BY <2>1
  <2> HIDE DEF c
  <2>4. consume' \in [Sessions -> [step : {"idle", "written"}, queue : Queues \union {<<0, 0>>},
                                   closed : BOOLEAN, size : Nat]]
    BY <2>1, <2>2, <2>3 DEF Types
  <2>5. delivered' \subseteq Sessions \X Nat
    <3>1. \A e \in Event : e.num \in Sessions \X Nat
      BY DEF Event
    <3>2. {queue[q][i].num : i \in DOMAIN queue[q]} \subseteq Sessions \X Nat
      BY <2>1, <3>1
    <3> QED BY <1>5, <3>2 DEF ConsumeQueue, Types
  <2> QED BY <1>5, <2>4, <2>5 DEF Types, ConsumeQueue, recoveryVars
<1>6. ASSUME Crash
      PROVE  Types'
  <2>1. quiet' \in BOOLEAN /\ phase' = "crashed"
    BY <1>6 DEF Crash
  <2>2. /\ meta' = NewMeta /\ writing' = NewWriting /\ queue' = NewQueue /\ qstate' = NewQstate
        /\ consume' = NewConsume /\ UNCHANGED <<logged, clocks, delivered>>
    BY <1>6 DEF Crash
  <2> QED BY <2>1, <2>2, NewProgramTypes DEF Types
<1>7. ASSUME Scan
      PROVE  Types'
  BY <1>7 DEF Types, Scan, programVars, historyVars
<1>8. ASSUME WriteBuffer
      PROVE  Types'
  BY <1>8 DEF Types, WriteBuffer, programVars, historyVars
<1>9. ASSUME UNCHANGED vars
      PROVE  Types'
  <2>1. UNCHANGED <<meta, writing, queue, qstate, consume>>
    BY <1>9 DEF vars, programVars
  <2>2. UNCHANGED <<logged, clocks, delivered, phase, quiet>>
    BY <1>9 DEF vars, recoveryVars
  <2> QED BY <2>1, <2>2 DEF Types
<1> QED BY <1>1, <1>2, <1>3, <1>4, <1>5, <1>6, <1>7, <1>8, <1>9 DEF Next

-----------------------------------------------------------------------------
(* The metadata buffers *)

LEMMA BuffersInit == Init => Buffers
<1> SUFFICES ASSUME Init PROVE Buffers
  OBVIOUS
<1>1. ASSUME NEW s \in Sessions, NEW k \in Kinds
      PROVE  MetaOK(s, k)
  <2>1. <<s, k>> \in Sessions \X Kinds /\ <<s, k>>[2] = k
    OBVIOUS
  <2>2. meta[<<s, k>>] = [magic |-> TRUE, len |-> IF k = "clock" THEN 2 ELSE 0,
                          size |-> IF k = "clock" THEN 2 ELSE 0]
    BY <2>1 DEF Init, NewMeta, Pieces
  <2>3. writing[s].step = "idle"
    BY DEF Init, NewWriting, Idle
  <2> QED BY <2>2, <2>3 DEF MetaOK, Resting, Pieces
<1>2. FreedInv
  BY DEF Init, FreedInv
<1>3. ASSUME NEW s \in Sessions
      PROVE  clocks[s] = entries(s, "clock")
  <2>1. <<s, "clock">> \in Sessions \X Kinds /\ <<s, "clock">>[2] = "clock"
    BY DEF Kinds
  <2>2. meta[<<s, "clock">>].len = 2
    BY <2>1 DEF Init, NewMeta, Pieces
  <2> QED BY <2>2 DEF Init, entries, Pieces
<1> QED BY <1>1, <1>2, <1>3 DEF Buffers, MetaInv, ClocksInv

\* Session s changes its buffer k only.
Writes(s, k) ==
  /\ Resting(s, k) => writing[s].step = "idle"
  /\ writing'[s].step = "idle" \/ writing'[s].kind = k
  /\ \A t \in Sessions : t # s => writing'[t] = writing[t]
  /\ \A m \in Sessions \X Kinds : m # <<s, k>> => meta'[m] = meta[m]

LEMMA OtherBuffers ==
  ASSUME Types, Buffers, NEW s \in Sessions, NEW k \in Kinds, Writes(s, k), MetaOK(s, k)',
         UNCHANGED phase,
         \A t \in Sessions : t # s \/ k = "source" => clocks'[t] = clocks[t],
         k = "clock" /\ Running /\ Resting(s, k)' => clocks'[s] = entries(s, k)'
  PROVE  MetaInv' /\ ClocksInv'
<1>1. ASSUME NEW t \in Sessions, NEW j \in Kinds, <<t, j>> # <<s, k>>
      PROVE  MetaOK(t, j)' /\ meta'[<<t, j>>] = meta[<<t, j>>] /\ (Resting(t, j)' => Resting(t, j))
  <2>1. MetaOK(t, j) /\ meta'[<<t, j>>] = meta[<<t, j>>]
    BY <1>1 DEF Writes, Buffers, MetaInv
  <2>2. CASE t # s
    <3>1. writing'[t] = writing[t]
      BY <2>2 DEF Writes
    <3> QED BY <2>1, <3>1 DEF MetaOK, Resting
  <2>3. CASE t = s /\ j # k
    <3>1. Resting(t, j) /\ Resting(t, j)'
      BY <2>3 DEF Writes, Resting
    <3> QED BY <2>1, <3>1 DEF MetaOK, Resting
  <2> QED BY <1>1, <2>2, <2>3
<1>2. MetaInv'
  BY <1>1 DEF MetaInv
<1>3. ASSUME NEW t \in Sessions, Running', Resting(t, "clock")'
      PROVE  clocks'[t] = entries(t, "clock")'
  <2>1. "clock" \in Kinds /\ "source" \in Kinds /\ Running
    BY <1>3 DEF Kinds, Running
  <2>2. CASE t = s /\ k = "clock"
    BY <2>1, <2>2, <1>3
  <2>3. CASE ~(t = s /\ k = "clock")
    <3>1. t # s \/ k = "source"
      BY <2>3 DEF Kinds
    <3>2. <<t, "clock">> # <<s, k>>
      BY <3>1
    <3>3. meta'[<<t, "clock">>] = meta[<<t, "clock">>] /\ Resting(t, "clock")
      BY <1>1, <1>3, <2>1, <3>2
    <3>4. clocks[t] = entries(t, "clock")
      BY <2>1, <3>3 DEF Buffers, ClocksInv
    <3> QED BY <3>1, <3>3, <3>4 DEF entries
  <2> QED BY <2>2, <2>3
<1>4. ClocksInv'
  BY <1>3 DEF ClocksInv
<1> QED BY <1>2, <1>4

LEMMA BuffersBegin ==
  ASSUME Types, Buffers, NEW s \in Sessions, NEW k \in Kinds, NEW n \in Nat, BeginPiece(s, k, n),
         Resting(s, k) => writing[s].step = "idle",
         meta[<<s, k>>].magic, n <= meta[<<s, k>>].len
  PROVE  Buffers'
<1>0. <<s, k>> \in Sessions \X Kinds /\ meta[<<s, k>>] \in [magic : BOOLEAN, len : Nat, size : Nat]
  BY DEF Types
<1>1. PICK grows \in BOOLEAN :
        /\ writing' = [writing EXCEPT ![s] = [step |-> "insert", kind |-> k,
                                              grows |-> grows, before |-> n]]
        /\ meta' = IF grows THEN [meta EXCEPT ![<<s, k>>] = clearMagic(@)] ELSE meta
  BY DEF BeginPiece
<1>2. /\ writing'[s] = [step |-> "insert", kind |-> k, grows |-> grows, before |-> n]
      /\ \A t \in Sessions : t # s => writing'[t] = writing[t]
  BY <1>1 DEF Types
<1>3. /\ meta'[<<s, k>>] = IF grows THEN [meta[<<s, k>>] EXCEPT !.magic = FALSE] ELSE meta[<<s, k>>]
      /\ \A m \in Sessions \X Kinds : m # <<s, k>> => meta'[m] = meta[m]
  BY <1>0, <1>1 DEF Types, clearMagic
<1>4. Writes(s, k)
  BY <1>2, <1>3 DEF Writes
<1>5. MetaOK(s, k) /\ ~Resting(s, k)'
  BY <1>2 DEF Buffers, MetaInv, Resting
<1>6. meta[<<s, k>>].size <= meta[<<s, k>>].len
  BY <1>0, <1>5 DEF MetaOK
<1>7. MetaOK(s, k)'
  <2>1. /\ meta'[<<s, k>>].len = meta[<<s, k>>].len /\ meta'[<<s, k>>].size = meta[<<s, k>>].size
        /\ meta'[<<s, k>>].magic <=> ~grows
    <3>1. CASE grows
      BY <3>1, <1>0, <1>3
    <3>2. CASE ~grows
      BY <3>2, <1>0, <1>3
    <3> QED BY <3>1, <3>2
  <2> QED BY <1>2, <1>5, <1>6, <2>1 DEF MetaOK
<1>8. UNCHANGED <<phase, clocks, freed>>
  BY DEF BeginPiece, recoveryVars
<1>9. MetaInv' /\ ClocksInv'
  BY <1>4, <1>5, <1>7, <1>8, OtherBuffers
<1> QED BY <1>8, <1>9 DEF Buffers, FreedInv

LEMMA BuffersMetadata ==
  ASSUME Types, Buffers, NEW s \in Sessions,
         \/ \E k \in Kinds : AddMetadata(s, k)
         \/ Insert(s) \/ SetMagic(s) \/ UpdateSize(s) \/ NextPiece(s)
  PROVE  Buffers'
<1> DEFINE w == writing[s]
<1>w. /\ w \in [step : Steps, kind : Kinds, grows : BOOLEAN, before : Nat]
      /\ w.kind \in Kinds /\ w.before \in Nat
  BY DEF Types
<1>m. \A k \in Kinds : /\ <<s, k>> \in Sessions \X Kinds
                       /\ meta[<<s, k>>] \in [magic : BOOLEAN, len : Nat, size : Nat]
                       /\ meta[<<s, k>>].len \in Nat /\ meta[<<s, k>>].size \in Nat
                       /\ MetaOK(s, k)
  BY DEF Types, Buffers, MetaInv
<1>1. ASSUME NEW k \in Kinds, AddMetadata(s, k)
      PROVE  Buffers'
  <2>1. w.step = "idle" /\ BeginPiece(s, k, meta[<<s, k>>].len)
    BY <1>1 DEF AddMetadata, MutexFree
  <2>2. meta[<<s, k>>].magic
    BY <2>1, <1>m DEF MetaOK, Resting
  <2> QED BY <2>1, <2>2, <1>m, BuffersBegin
<1>2. ASSUME Insert(s)
      PROVE  Buffers'
  <2>k. PICK k \in Kinds : k = w.kind
    BY <1>w
  <2> DEFINE m == meta[<<s, k>>]
             st == IF w.grows THEN "mark" ELSE "size"
  <2>1. w.step = "insert" /\ ~Resting(s, k)
    BY <1>2, <2>k DEF Insert, Resting
  <2>2. /\ meta' = [meta EXCEPT ![<<s, k>>].len = @ + 1]
        /\ freed' = IF w.grows THEN freed \union {[session |-> s, kind |-> k, copy |-> m]} ELSE freed
        /\ UNCHANGED <<phase, clocks>>
    BY <1>2, <2>k DEF Insert, recoveryVars
  <2>3. writing' = [writing EXCEPT ![s] = [[@ EXCEPT !.step = st] EXCEPT !.grows = FALSE]]
    BY <1>2 DEF Insert
  <2>4. /\ writing'[s] = [[w EXCEPT !.step = st] EXCEPT !.grows = FALSE]
        /\ \A t \in Sessions : t # s => writing'[t] = writing[t]
    BY <2>3 DEF Types
  <2>5. /\ meta'[<<s, k>>] = [m EXCEPT !.len = @ + 1]
        /\ \A x \in Sessions \X Kinds : x # <<s, k>> => meta'[x] = meta[x]
    BY <2>2, <1>w, <1>m DEF Types
  <2>6. /\ meta'[<<s, k>>].len = m.len + 1 /\ meta'[<<s, k>>].size = m.size
        /\ meta'[<<s, k>>].magic = m.magic
    BY <2>5, <1>w, <1>m
  <2>7. /\ writing'[s].step = st /\ writing'[s].kind = k /\ writing'[s].before = w.before
    BY <2>4, <2>k, <1>w
  <2>8. MetaOK(s, k) /\ m.len \in Nat /\ m.size \in Nat /\ k \in Kinds
    BY <1>w, <1>m
  <2> HIDE DEF w, m, st
  <2>9. w.before <= m.len /\ m.size <= m.len /\ (k = "clock" => m.len >= 2) /\ (m.magic <=> ~w.grows)
    BY <2>1, <2>8 DEF MetaOK, w, m, Pieces
  <2>10. ~Resting(s, k)'
    BY <2>7 DEF Resting, st
  <2>11. MetaOK(s, k)'
    <3>1. st = "mark" <=> w.grows
      BY DEF st
    <3>2. st # "insert"
      BY DEF st
    <3>3. w.before <= m.len + 1 /\ m.size <= m.len + 1 /\ (k = "clock" => m.len + 1 >= 2)
      BY <2>8, <2>9, <1>w DEF w
    <3> QED BY <2>6, <2>7, <2>9, <2>10, <3>1, <3>2, <3>3 DEF MetaOK, Pieces
  <2>12. Writes(s, k)
    BY <2>1, <2>4, <2>5, <2>7 DEF Writes
  <2>13. MetaInv' /\ ClocksInv'
    BY <2>2, <2>8, <2>10, <2>11, <2>12, OtherBuffers
  <2>14. FreedInv'
    BY <2>2, <2>9 DEF FreedInv, Buffers
  <2> QED BY <2>13, <2>14 DEF Buffers
<1>3. ASSUME SetMagic(s)
      PROVE  Buffers'
  <2>k. PICK k \in Kinds : k = w.kind
    BY <1>w
  <2> DEFINE m == meta[<<s, k>>]
  <2>1. w.step = "mark" /\ ~Resting(s, k)
    BY <1>3, <2>k DEF SetMagic, Resting
  <2>2. /\ meta'[<<s, k>>] = [m EXCEPT !.magic = TRUE]
        /\ \A x \in Sessions \X Kinds : x # <<s, k>> => meta'[x] = meta[x]
    BY <1>3, <1>w, <1>m, <2>k DEF Types, SetMagic
  <2>3. /\ writing'[s] = [w EXCEPT !.step = "size"]
        /\ \A t \in Sessions : t # s => writing'[t] = writing[t]
    BY <1>3 DEF SetMagic, Types
  <2>4. /\ meta'[<<s, k>>].len = m.len /\ meta'[<<s, k>>].size = m.size /\ meta'[<<s, k>>].magic
        /\ writing'[s].step = "size" /\ writing'[s].kind = k /\ writing'[s].before = w.before
    BY <2>2, <2>3, <2>k, <1>w, <1>m
  <2>5. MetaOK(s, k) /\ k \in Kinds
    BY <1>w, <1>m
  <2>6. UNCHANGED <<phase, clocks, freed>>
    BY <1>3 DEF SetMagic, recoveryVars
  <2> HIDE DEF w, m
  <2>7. ~Resting(s, k)'
    BY <2>4 DEF Resting
  <2>8. MetaOK(s, k)'
    BY <2>1, <2>4, <2>5, <2>7 DEF MetaOK, w, m
  <2>9. Writes(s, k)
    BY <2>1, <2>2, <2>3, <2>4 DEF Writes
  <2>10. MetaInv' /\ ClocksInv'
    BY <2>5, <2>6, <2>7, <2>8, <2>9, OtherBuffers
  <2> QED BY <2>6, <2>10 DEF Buffers, FreedInv
<1>4. ASSUME UpdateSize(s)
      PROVE  Buffers'
  <2>k. PICK k \in Kinds : k = w.kind
    BY <1>w
  <2> DEFINE m == meta[<<s, k>>]
  <2>1. w.step = "size" /\ ~Resting(s, k)
    BY <1>4, <2>k DEF UpdateSize, Resting
  <2>2. /\ meta'[<<s, k>>] = [m EXCEPT !.size = m.len]
        /\ \A x \in Sessions \X Kinds : x # <<s, k>> => meta'[x] = meta[x]
    BY <1>4, <1>w, <1>m, <2>k DEF Types, UpdateSize, sizeOf
  <2>3. /\ writing'[s] = IF m.len % Pieces = 0 THEN Idle ELSE [w EXCEPT !.step = "next"]
        /\ \A t \in Sessions : t # s => writing'[t] = writing[t]
    BY <1>4, <2>k DEF UpdateSize, Types
  <2>4. /\ clocks'[s] = entries(s, "clock")
        /\ \A t \in Sessions : t # s => clocks'[t] = clocks[t]
        /\ UNCHANGED <<phase, freed>>
    BY <1>4 DEF UpdateSize, Types, recoveryVars
  <2>5. /\ meta'[<<s, k>>].len = m.len /\ meta'[<<s, k>>].size = m.len
        /\ meta'[<<s, k>>].magic = m.magic
    BY <2>2, <1>w, <1>m
  <2>6. MetaOK(s, k) /\ k \in Kinds /\ "clock" \in Kinds /\ m.len \in Nat
    BY <1>w, <1>m DEF Kinds
  <2>7. m.magic /\ w.before <= m.len /\ (k = "clock" => m.len >= Pieces)
    BY <2>1, <2>6 DEF MetaOK
  <2>8. IF m.len % Pieces = 0 THEN writing'[s].step = "idle"
        ELSE writing'[s].step = "next" /\ writing'[s].kind = k /\ writing'[s].before = w.before
    BY <2>3, <2>k, <1>w DEF Idle
  <2> HIDE DEF w, m
  <2>9. MetaOK(s, k)'
    BY <2>5, <2>6, <2>7, <2>8 DEF MetaOK, Resting
  <2>10. Writes(s, k)
    BY <2>1, <2>2, <2>3, <2>8 DEF Writes
  <2>11. entries(s, "clock")' = entries(s, "clock")
    <3>1. meta'[<<s, "clock">>].len = meta[<<s, "clock">>].len
      BY <2>2, <2>5, <2>6, <1>m DEF m
    <3> QED BY <3>1 DEF entries
  <2>12. k = "source" => clocks'[s] = clocks[s]
    <3> SUFFICES ASSUME k = "source" PROVE clocks'[s] = clocks[s]
      OBVIOUS
    <3>1. Resting(s, "clock") /\ Running
      BY <1>4, <2>k DEF Resting, UpdateSize, w
    <3> QED BY <3>1, <2>4 DEF Buffers, ClocksInv
  <2>13. MetaInv' /\ ClocksInv'
    BY <2>4, <2>6, <2>9, <2>10, <2>11, <2>12, OtherBuffers
  <2> QED BY <2>4, <2>13 DEF Buffers, FreedInv
<1>5. ASSUME NextPiece(s)
      PROVE  Buffers'
  <2>k. PICK k \in Kinds : k = w.kind
    BY <1>w
  <2>1. w.step = "next" /\ ~Resting(s, k) /\ BeginPiece(s, k, w.before)
    BY <1>5, <2>k DEF NextPiece, Resting
  <2>2. meta[<<s, k>>].magic /\ w.before <= meta[<<s, k>>].len
    BY <2>1, <2>k, <1>w, <1>m DEF MetaOK
  <2> QED BY <2>1, <2>2, <2>k, <1>w, BuffersBegin
<1> QED BY <1>1, <1>2, <1>3, <1>4, <1>5

LEMMA BuffersNext == Types /\ Buffers /\ [Next]_vars => Buffers'
<1> SUFFICES ASSUME Types, Buffers, [Next]_vars PROVE Buffers'
  OBVIOUS
<1>1. ASSUME NEW s \in Sessions,
             \/ \E k \in Kinds : AddMetadata(s, k)
             \/ Insert(s) \/ SetMagic(s) \/ UpdateSize(s) \/ NextPiece(s)
      PROVE  Buffers'
  BY <1>1, BuffersMetadata
<1>2. ASSUME UNCHANGED <<meta, freed, writing, clocks, phase>>
      PROVE  Buffers'
  BY <1>2 DEF Buffers, MetaInv, MetaOK, Resting, FreedInv, ClocksInv, Running, entries
<1>3. ASSUME NEW s \in Sessions, ReleaseQueue(s)
      PROVE  Buffers'
  BY <1>2, <1>3 DEF ReleaseQueue, recoveryVars
<1>4. ASSUME NEW q \in Queues, \/ \E id \in KnownIds(q[1]) : Log(q, id)
                               \/ CloseQueue(q) \/ ConsumeQueue(q)
      PROVE  Buffers'
  BY <1>2, <1>4 DEF Log, CloseQueue, ConsumeQueue, recoveryVars
<1>5. ASSUME UNCHANGED <<meta, freed, writing>>, phase' # "running"
      PROVE  Buffers'
  BY <1>5 DEF Buffers, MetaInv, MetaOK, Resting, FreedInv, ClocksInv, Running, entries
<1>6. ASSUME Crash
      PROVE  Buffers'
  <2>1. meta' = NewMeta /\ writing' = NewWriting /\ freed' = {} /\ phase' = "crashed"
    BY <1>6 DEF Crash
  <2>2. ASSUME NEW s \in Sessions, NEW k \in Kinds
        PROVE  MetaOK(s, k)'
    <3>1. <<s, k>> \in Sessions \X Kinds /\ <<s, k>>[2] = k
      OBVIOUS
    <3>2. meta'[<<s, k>>] = [magic |-> TRUE, len |-> IF k = "clock" THEN 2 ELSE 0,
                             size |-> IF k = "clock" THEN 2 ELSE 0]
      BY <2>1, <3>1 DEF NewMeta, Pieces
    <3>3. writing'[s].step = "idle"
      BY <2>1 DEF NewWriting, Idle
    <3> QED BY <3>2, <3>3 DEF MetaOK, Resting, Pieces
  <2> QED BY <2>1, <2>2 DEF Buffers, MetaInv, FreedInv, ClocksInv, Running
<1>7. ASSUME Scan
      PROVE  Buffers'
  BY <1>5, <1>7 DEF Scan, programVars
<1>8. ASSUME WriteBuffer
      PROVE  Buffers'
  BY <1>5, <1>8 DEF WriteBuffer, programVars
<1>9. ASSUME UNCHANGED vars
      PROVE  Buffers'
  BY <1>2, <1>9 DEF vars, programVars, recoveryVars
<1> QED BY <1>1, <1>3, <1>4, <1>6, <1>7, <1>8, <1>9 DEF Next

-----------------------------------------------------------------------------
(* The queues until the crash *)

LEMMA ChannelsInit == Init => RunInv
<1> SUFFICES ASSUME Init PROVE RunInv
  OBVIOUS
<1>1. ConsumeInv
  BY DEF Init, NewConsume, ConsumeInv
<1>2. \A q \in Queues : queue[q] = <<>>
  BY DEF Init, NewQueue
<1>3. QueueInv
  <2>1. \A q \in Queues : 1..Len(queue[q]) = {}
    BY <1>2
  <2> QED BY <2>1 DEF QueueInv, Init
<1>4. Covered
  BY DEF Init, Covered
<1> QED BY <1>1, <1>3, <1>4 DEF RunInv, Channels, Init

LEMMA EntriesNat ==
  ASSUME Types, NEW s \in Sessions, NEW k \in Kinds
  PROVE  entries(s, k) \in Nat
<1>1. meta[<<s, k>>].len \in Nat
  BY DEF Types
<1> QED BY <1>1 DEF entries, Pieces

\* No source is ever forgotten.
LEMMA SourcesGrow ==
  ASSUME Types, NEW s \in Sessions,
         \/ \E k \in Kinds : AddMetadata(s, k)
         \/ Insert(s) \/ SetMagic(s) \/ UpdateSize(s) \/ NextPiece(s)
  PROVE  /\ \A t \in Sessions : entries(t, "source") <= entries(t, "source")'
         /\ UNCHANGED <<queue, qstate, consume, logged, delivered, recoveryVars>>
<1> DEFINE k == writing[s].kind
<1>0. "source" \in Kinds
  BY DEF Kinds
<1>1. UNCHANGED <<queue, qstate, consume, logged, delivered, recoveryVars>>
  BY DEF AddMetadata, Insert, SetMagic, UpdateSize, NextPiece, BeginPiece
<1>2. \/ UNCHANGED meta
      \/ \E j \in Kinds : meta' = [meta EXCEPT ![<<s, j>>] = clearMagic(@)]
      \/ meta' = [meta EXCEPT ![<<s, k>>].len = @ + 1]
      \/ meta' = [meta EXCEPT ![<<s, k>>].magic = TRUE]
      \/ meta' = [meta EXCEPT ![<<s, k>>].size = sizeOf(meta[<<s, k>>])]
  <2>1. k \in Kinds
    BY DEF Types
  <2> HIDE DEF k
  <2>2. ASSUME NEW j \in Kinds, NEW n, BeginPiece(s, j, n)
        PROVE  UNCHANGED meta \/ meta' = [meta EXCEPT ![<<s, j>>] = clearMagic(@)]
    BY <2>2 DEF BeginPiece
  <2> QED BY <2>1, <2>2 DEF AddMetadata, Insert, SetMagic, UpdateSize, NextPiece, k
<1>3. ASSUME NEW t \in Sessions
      PROVE  meta[<<t, "source">>].len <= meta'[<<t, "source">>].len /\ meta'[<<t, "source">>].len \in Nat
  <2>1. /\ meta[<<t, "source">>] \in [magic : BOOLEAN, len : Nat, size : Nat]
        /\ meta[<<t, "source">>].len \in Nat
    BY <1>0 DEF Types
  <2>2. <<t, "source">> \in DOMAIN meta
    BY <1>0 DEF Types
  <2> DEFINE a == <<t, "source">>
             Grew == meta[a].len <= meta'[a].len /\ meta'[a].len \in Nat
  <2> HIDE DEF k, a
  <2>3. ASSUME UNCHANGED meta
        PROVE  Grew
    BY <2>1, <2>3 DEF a
  <2>4. ASSUME NEW j \in Kinds, meta' = [meta EXCEPT ![<<s, j>>] = clearMagic(@)]
        PROVE  Grew
    <3>1. meta'[a] = meta[a] \/ meta'[a] = clearMagic(meta[a])
      BY <2>2, <2>4 DEF a
    <3> QED BY <2>1, <3>1 DEF clearMagic, a
  <2>5. ASSUME meta' = [meta EXCEPT ![<<s, k>>].len = @ + 1]
        PROVE  Grew
    <3>1. meta'[a] = meta[a] \/ meta'[a] = [meta[a] EXCEPT !.len = @ + 1]
      BY <2>2, <2>5 DEF a
    <3> QED BY <2>1, <3>1 DEF a
  <2>6. ASSUME meta' = [meta EXCEPT ![<<s, k>>].magic = TRUE]
        PROVE  Grew
    <3>1. meta'[a] = meta[a] \/ meta'[a] = [meta[a] EXCEPT !.magic = TRUE]
      BY <2>2, <2>6 DEF a
    <3> QED BY <2>1, <3>1 DEF a
  <2>7. ASSUME meta' = [meta EXCEPT ![<<s, k>>].size = sizeOf(meta[<<s, k>>])]
        PROVE  Grew
    <3>1. meta'[a] = meta[a] \/ meta'[a] = [meta[a] EXCEPT !.size = sizeOf(meta[<<s, k>>])]
      BY <2>2, <2>7 DEF a
    <3> QED BY <2>1, <3>1 DEF a
  <2>8. Grew
    <3> HIDE DEF Grew
    <3> QED BY <1>2, <2>3, <2>4, <2>5, <2>6, <2>7
  <2> QED BY <2>8 DEF a
<1>4. ASSUME NEW t \in Sessions
      PROVE  entries(t, "source") <= entries(t, "source")'
  <2>1. PICK a \in Nat : a = meta[<<t, "source">>].len
    BY <1>0 DEF Types
  <2>2. PICK b \in Nat : b = meta'[<<t, "source">>].len
    BY <1>3
  <2>3. a <= b
    BY <2>1, <2>2, <1>3
  <2>4. a \div 2 <= b \div 2
    BY <2>3
  <2> QED BY <2>1, <2>2, <2>4 DEF entries, Pieces
<1> QED BY <1>1, <1>4

\* Adding metadata leaves the queues alone.
LEMMA ChannelsMetadata ==
  ASSUME Types, Types', Channels, NEW s \in Sessions,
         \/ \E k \in Kinds : AddMetadata(s, k)
         \/ Insert(s) \/ SetMagic(s) \/ UpdateSize(s) \/ NextPiece(s)
  PROVE  Channels'
<1>1. /\ \A t \in Sessions : entries(t, "source") <= entries(t, "source")'
      /\ UNCHANGED <<queue, qstate, consume, logged, delivered>>
  BY SourcesGrow
<1>2. ConsumeInv' /\ Covered'
  <2>1. ConsumeInv'
    BY <1>1 DEF Channels, ConsumeInv
  <2>2. \A i : Queued(i) => Queued(i)'
    BY <1>1 DEF Queued
  <2>3. Covered'
    BY <1>1, <2>2 DEF Channels, Covered
  <2> QED BY <2>1, <2>3
<1>3. ASSUME NEW q \in Queues, NEW k \in 1..Len(queue[q])
      PROVE  QueuedOK(q, k)'
  <2>1. QueuedOK(q, k) /\ q[1] \in Sessions
    BY QueueTypes DEF Channels, QueueInv
  <2>2. "source" \in Kinds /\ entries(q[1], "source") \in Nat
    BY <2>1, EntriesNat DEF Kinds
  <2>3. entries(q[1], "source")' \in Nat
    <3>1. \A t \in Sessions : meta'[<<t, "source">>].len \in Nat
      BY <2>2 DEF Types
    <3>2. meta'[<<q[1], "source">>].len \in Nat
      BY <2>1, <3>1
    <3> QED BY <3>2 DEF entries, Pieces
  <2>4. entries(q[1], "source") <= entries(q[1], "source")'
    BY <1>1, <2>1
  <2>5. \A id \in 1..entries(q[1], "source") : id \in 1..(entries(q[1], "source")')
    BY <2>2, <2>3, <2>4
  <2> QED BY <1>1, <2>1, <2>5 DEF QueuedOK, OwnEvent, BeingRead
<1>4. QueueInv'
  BY <1>1, <1>3 DEF Channels, QueueInv
<1> QED BY <1>2, <1>4 DEF Channels

LEMMA ChannelsLog ==
  ASSUME Types, Channels, NEW q \in Queues, NEW id \in KnownIds(q[1]), Log(q, id),
         KnownIds(q[1]) \subseteq 1..entries(q[1], "source")
  PROVE  Channels'
<1>1. q[1] \in Sessions /\ queue[q] \in Seq(Event)
  BY QueueTypes
<1>s. PICK s \in Sessions : s = q[1]
  BY <1>1
<1>c. PICK c \in Nat : c = Len(queue[q])
  BY <1>1
<1>l. logged[s] \in Seq(Nat)
  BY DEF Types
<1>n. PICK n \in Nat : n = Len(logged[s])
  BY <1>l
<1>2. id \in Nat
  BY <1>1, KnownIdsNat
<1>3. PICK e \in Event : e = [kind |-> "event", id |-> id, num |-> <<s, n + 1>>, cut |-> FALSE]
  <2>1. [kind |-> "event", id |-> id, num |-> <<s, n + 1>>, cut |-> FALSE] \in Event
    BY <1>2 DEF Event
  <2> QED BY <2>1
<1>4. /\ qstate[q] = "open"
      /\ logged' = [logged EXCEPT ![s] = Append(@, id)]
      /\ queue' = [queue EXCEPT ![q] = Append(@, e)]
      /\ UNCHANGED <<meta, qstate, consume, delivered>>
  BY <1>s, <1>n, <1>3 DEF Log, EventEntry
<1>5. /\ logged'[s] = Append(logged[s], id)
      /\ \A t \in Sessions : t # s => logged'[t] = logged[t]
  BY <1>1, <1>4 DEF Types
<1>6. /\ Len(logged'[s]) = n + 1 /\ logged'[s][n + 1] = id
      /\ \A i \in 1..n : logged'[s][i] = logged[s][i]
  BY <1>2, <1>5, <1>l, <1>n
<1>7. queue'[q] = Append(queue[q], e) /\ \A p \in Queues : p # q => queue'[p] = queue[p]
  BY <1>4 DEF Types
<1>8. /\ Len(queue'[q]) = c + 1 /\ queue'[q][c + 1] = e
      /\ \A k \in 1..c : queue'[q][k] = queue[q][k]
  BY <1>1, <1>3, <1>7, <1>c
<1>9. ConsumeInv'
  <2>1. ASSUME NEW t \in Sessions, consume'[t].step = "written"
        PROVE  LET p == consume'[t].queue
               IN  /\ p \in Queues /\ p[1] = t
                   /\ consume'[t].size <= Len(queue'[p])
                   /\ consume'[t].closed => qstate'[p] = "closed" /\ consume'[t].size = Len(queue'[p])
    <3> DEFINE p == consume[t].queue
    <3>1. /\ p \in Queues /\ p[1] = t
          /\ consume[t].size <= Len(queue[p])
          /\ consume[t].closed => qstate[p] = "closed" /\ consume[t].size = Len(queue[p])
      BY <2>1, <1>4 DEF Channels, ConsumeInv
    <3>2. consume[t].size \in Nat
      BY DEF Types
    <3> HIDE DEF p
    <3>3. CASE p = q
      <4>1. consume[t].size <= c + 1 /\ ~consume[t].closed
        BY <3>1, <3>2, <3>3, <1>1, <1>4, <1>c
      <4> QED BY <3>1, <3>3, <4>1, <1>4, <1>8 DEF p
    <3>4. CASE p # q
      BY <3>1, <3>4, <1>4, <1>7 DEF p
    <3> QED BY <3>3, <3>4
  <2> QED BY <2>1 DEF ConsumeInv
<1>10. \A d \in delivered : d[2] <= Len(logged[d[1]]) /\ d[1] \in Sessions /\ d[2] \in Nat
  BY DEF Channels, QueueInv, Types
\* The events that were there have other numbers than the new one.
<1>11. ASSUME NEW p \in Queues, NEW k \in 1..Len(queue[p])
       PROVE  /\ queue'[p][k] = queue[p][k] /\ QueuedOK(p, k) /\ k \in 1..Len(queue'[p])
              /\ queue[p][k].num # <<s, n + 1>>
              /\ OwnEvent(queue[p][k], p[1])'
  <2>1. QueuedOK(p, k) /\ Len(queue[p]) \in Nat /\ p[1] \in Sessions
    BY QueueTypes DEF Channels, QueueInv
  <2>2. queue'[p][k] = queue[p][k] /\ k \in 1..Len(queue'[p])
    <3>1. CASE p = q
      BY <3>1, <1>1, <1>8, <1>c
    <3>2. CASE p # q
      BY <3>2, <1>7
    <3> QED BY <3>1, <3>2
  <2> DEFINE v == queue[p][k].num
             r == queue[p][k]
  <2>3. OwnEvent(r, p[1])
    BY <2>1 DEF QueuedOK
  <2> HIDE DEF r
  <2>4. r.num[1] = p[1] /\ r.num[2] \in 1..Len(logged[p[1]])
    BY <2>3 DEF OwnEvent
  <2>5. Len(logged[p[1]]) \in Nat
    BY <2>1 DEF Types
  <2>6. r.num # <<s, n + 1>>
    <3> SUFFICES ASSUME r.num = <<s, n + 1>> PROVE FALSE
      OBVIOUS
    <3>1. p[1] = s /\ n + 1 \in 1..n
      BY <2>4, <1>n
    <3> QED BY <3>1, <1>2
  <2>7. r.num[2] \in 1..Len(logged'[p[1]]) /\ logged'[p[1]][r.num[2]] = logged[p[1]][r.num[2]]
    <3>1. CASE p[1] = s
      BY <3>1, <2>4, <1>n, <1>6
    <3>2. CASE p[1] # s
      BY <3>2, <2>1, <2>4, <1>5
    <3> QED BY <3>1, <3>2
  <2>8. OwnEvent(queue[p][k], p[1])'
    <3>1. queue[p][k]' = r
      BY <2>2 DEF r
    <3> QED BY <3>1, <2>3, <2>7 DEF OwnEvent
  <2> QED BY <2>1, <2>2, <2>6, <2>8 DEF r
<1>12. ASSUME NEW p \in Queues, NEW k \in 1..Len(queue'[p]), ~(p = q /\ k = c + 1)
       PROVE  k \in 1..Len(queue[p])
  <2>1. CASE p = q
    BY <1>1, <1>8, <1>12, <2>1, <1>c
  <2>2. CASE p # q
    BY <1>7, <2>2
  <2> QED BY <2>1, <2>2
<1>13. ASSUME NEW p \in Queues, NEW k \in 1..Len(queue'[p])
       PROVE  QueuedOK(p, k)'
  <2>1. CASE p = q /\ k = c + 1
    <3>1. queue'[q][c + 1] = e /\ e.num = <<s, n + 1>> /\ e.num[1] = s /\ e.num[2] = n + 1 /\ e.id = id
          /\ e.kind = "event" /\ e.cut = FALSE
      BY <1>3, <1>8
    <3>2. OwnEvent(e, s)'
      BY <3>1, <1>6 DEF OwnEvent
    <3>3. e.id \in 1..entries(s, "source") /\ entries(s, "source")' = entries(s, "source")
      BY <3>1, <1>s, <1>4 DEF entries
    <3>4. e.num \notin delivered
      <4> SUFFICES ASSUME e.num \in delivered PROVE FALSE
        OBVIOUS
      <4>1. n + 1 <= n
        BY <3>1, <1>10, <1>n
      <4> QED BY <4>1
    <3>5. ~BeingRead(q, c + 1)
      <4> SUFFICES ASSUME BeingRead(q, c + 1) PROVE FALSE
        OBVIOUS
      <4>1. c + 1 <= consume[s].size /\ consume[s].size <= c /\ consume[s].size \in Nat
        BY <1>s, <1>c DEF BeingRead, Channels, ConsumeInv, Types
      <4> QED BY <4>1
    <3>6. /\ queue[p][k]' = e /\ p = q /\ k = c + 1
          /\ BeingRead(q, c + 1)' = BeingRead(q, c + 1)
      BY <2>1, <3>1, <1>4 DEF BeingRead
    <3>7. QueuedOK(q, c + 1)'
      BY <3>2, <3>3, <3>4, <3>5, <3>6, <1>4, <1>s DEF QueuedOK
    <3> QED BY <3>6, <3>7
  <2>2. CASE ~(p = q /\ k = c + 1)
    <3>1. k \in 1..Len(queue[p])
      BY <1>12, <2>2
    <3>2. /\ queue'[p][k] = queue[p][k] /\ QueuedOK(p, k) /\ OwnEvent(queue[p][k], p[1])'
      BY <3>1, <1>11
    <3>3. entries(p[1], "source")' = entries(p[1], "source")
      BY <1>4 DEF entries
    <3> QED BY <3>2, <3>3, <1>4 DEF QueuedOK, BeingRead
  <2> QED BY <2>1, <2>2
<1>14. ASSUME NEW p \in Queues, NEW r \in Queues,
              NEW i \in 1..Len(queue'[p]), NEW j \in 1..Len(queue'[r]),
              queue'[p][i].num = queue'[r][j].num
       PROVE  p = r /\ i = j
  <2>1. queue'[q][c + 1].num = <<s, n + 1>>
    BY <1>3, <1>8
  <2>2. CASE p = q /\ i = c + 1
    BY <2>1, <2>2, <1>11, <1>12, <1>14
  <2>3. CASE r = q /\ j = c + 1
    BY <2>1, <2>3, <1>11, <1>12, <1>14
  <2>4. CASE ~(p = q /\ i = c + 1) /\ ~(r = q /\ j = c + 1)
    <3>1. i \in 1..Len(queue[p]) /\ j \in 1..Len(queue[r])
      BY <2>4, <1>12
    <3>2. queue[p][i].num = queue[r][j].num
      BY <3>1, <1>11, <1>14
    <3> QED BY <3>1, <3>2 DEF Channels, QueueInv
  <2> QED BY <2>2, <2>3, <2>4
<1>15. ASSUME NEW d \in delivered'
       PROVE  d[2] <= Len(logged'[d[1]])
  <2>1. d[1] \in Sessions /\ d[2] \in Nat /\ d[2] <= Len(logged[d[1]])
    BY <1>4, <1>10
  <2>2. CASE d[1] = s
    BY <2>1, <2>2, <1>6, <1>n
  <2>3. CASE d[1] # s
    BY <2>1, <2>3, <1>5
  <2> QED BY <2>2, <2>3
<1>16. QueueInv'
  BY <1>13, <1>14, <1>15 DEF QueueInv
<1>17. ASSUME NEW t \in Sessions, NEW i \in 1..Len(logged'[t])
       PROVE  <<t, i>> \in delivered' \/ Queued(<<t, i>>)'
  <2>1. CASE t = s /\ i = n + 1
    <3>1. c + 1 \in 1..Len(queue'[q]) /\ queue'[q][c + 1].num = <<t, i>> /\ qstate'[q] # "gone"
      BY <2>1, <1>3, <1>4, <1>8
    <3> QED BY <3>1 DEF Queued
  <2>2. CASE ~(t = s /\ i = n + 1)
    <3>1. i \in 1..Len(logged[t])
      <4>1. CASE t = s
        BY <4>1, <2>2, <1>6, <1>n
      <4>2. CASE t # s
        BY <4>2, <1>5
      <4> QED BY <4>1, <4>2
    <3>2. <<t, i>> \in delivered \/ Queued(<<t, i>>)
      BY <3>1 DEF Channels, Covered
    <3>3. ASSUME Queued(<<t, i>>)
          PROVE  Queued(<<t, i>>)'
      <4>1. PICK p \in Queues : qstate[p] # "gone" /\ \E k \in 1..Len(queue[p]) : queue[p][k].num = <<t, i>>
        BY <3>3 DEF Queued
      <4>2. PICK k \in 1..Len(queue[p]) : queue[p][k].num = <<t, i>>
        BY <4>1
      <4>3. k \in 1..Len(queue'[p]) /\ queue'[p][k].num = <<t, i>>
        BY <4>2, <1>11
      <4> QED BY <4>1, <4>3, <1>4 DEF Queued
    <3> QED BY <3>2, <3>3, <1>4
  <2> QED BY <2>1, <2>2
<1>18. Covered'
  BY <1>17 DEF Covered
<1> QED BY <1>9, <1>16, <1>18 DEF Channels

LEMMA KnownIdsAdded ==
  ASSUME Types, Buffers, NEW s \in Sessions
  PROVE  KnownIds(s) \subseteq 1..entries(s, "source")
<1>0. "source" \in Kinds
  BY DEF Kinds
<1>1. CASE writing[s].step # "idle" /\ writing[s].kind = "source"
  <2>1. ~Resting(s, "source") /\ MetaOK(s, "source")
    BY <1>0, <1>1 DEF Resting, Buffers, MetaInv
  <2>2. PICK a \in Nat : a = writing[s].before
    BY DEF Types
  <2>3. PICK b \in Nat : b = meta[<<s, "source">>].len
    BY <1>0 DEF Types
  <2>4. a <= b
    BY <2>1, <2>2, <2>3 DEF MetaOK
  <2>5. a \div 2 <= b \div 2 /\ a \div 2 \in Nat /\ b \div 2 \in Nat
    BY <2>4
  <2>6. KnownIds(s) = 1..(a \div 2) /\ entries(s, "source") = b \div 2
    BY <1>1, <2>2, <2>3 DEF KnownIds, entries, Pieces
  <2> QED BY <2>5, <2>6
<1>2. CASE ~(writing[s].step # "idle" /\ writing[s].kind = "source")
  BY <1>2 DEF KnownIds
<1> QED BY <1>1, <1>2

LEMMA ChannelsClose ==
  ASSUME Types, Channels, NEW q \in Queues, CloseQueue(q)
  PROVE  Channels'
<1>1. /\ UNCHANGED <<meta, queue, consume, logged, delivered>>
      /\ qstate[q] = "open" /\ qstate' = [qstate EXCEPT ![q] = "closed"]
  BY DEF CloseQueue
<1>2. \A p \in Queues : /\ qstate[p] = "closed" => qstate'[p] = "closed"
                        /\ qstate[p] # "gone" => qstate'[p] # "gone"
  BY <1>1 DEF Types
<1>3. ConsumeInv'
  BY <1>1, <1>2 DEF Channels, ConsumeInv
<1>4. Covered'
  BY <1>1, <1>2 DEF Channels, Covered, Queued
<1>5. ASSUME NEW p \in Queues, NEW k \in 1..Len(queue[p])
      PROVE  QueuedOK(p, k)'
  <2>1. QueuedOK(p, k)
    BY DEF Channels, QueueInv
  <2> QED BY <1>1, <2>1 DEF QueuedOK, OwnEvent, BeingRead, entries
<1>6. QueueInv'
  BY <1>1, <1>5 DEF Channels, QueueInv
<1> QED BY <1>3, <1>4, <1>6 DEF Channels

\* A session that reads a queue delivers all of it, and no event of another queue.
LEMMA ChannelsConsume ==
  ASSUME Types, Channels, NEW q \in Queues, ConsumeQueue(q)
  PROVE  Channels'
<1>s. PICK s \in Sessions : s = q[1]
  BY QueueTypes
<1>1. /\ UNCHANGED <<meta, queue, qstate, logged>>
      /\ consume[s].step = "idle"
      /\ consume' = [consume EXCEPT ![s] = [step |-> "written", queue |-> q,
                                            closed |-> qstate[q] = "closed", size |-> Len(queue[q])]]
      /\ delivered' = delivered \union {queue[q][i].num : i \in DOMAIN queue[q]}
  BY <1>s DEF ConsumeQueue, MutexFree
<1>2. /\ consume'[s].step = "written" /\ consume'[s].queue = q
      /\ (consume'[s].closed <=> qstate[q] = "closed") /\ consume'[s].size = Len(queue[q])
      /\ \A t \in Sessions : t # s => consume'[t] = consume[t]
  BY <1>1 DEF Types
<1>3. DOMAIN queue[q] = 1..Len(queue[q]) /\ Len(queue[q]) \in Nat
  BY QueueTypes
<1>4. ConsumeInv'
  <2>1. ASSUME NEW t \in Sessions, consume'[t].step = "written"
        PROVE  LET p == consume'[t].queue
               IN  /\ p \in Queues /\ p[1] = t
                   /\ consume'[t].size <= Len(queue'[p])
                   /\ consume'[t].closed => qstate'[p] = "closed" /\ consume'[t].size = Len(queue'[p])
    <3>1. CASE t = s
      BY <3>1, <1>1, <1>2, <1>3, <1>s
    <3>2. CASE t # s
      BY <3>2, <2>1, <1>1, <1>2 DEF Channels, ConsumeInv
    <3> QED BY <3>1, <3>2
  <2> QED BY <2>1 DEF ConsumeInv
<1>5. Covered'
  BY <1>1 DEF Channels, Covered, Queued
<1>6. ASSUME NEW p \in Queues, NEW k \in 1..Len(queue[p])
      PROVE  QueuedOK(p, k)'
  <2>1. QueuedOK(p, k) /\ p[1] \in Sessions
    BY QueueTypes DEF Channels, QueueInv
  <2>2. queue[p][k].num \in delivered' <=> BeingRead(p, k)'
    <3>1. CASE p = q
      <4>1. queue[p][k].num \in delivered'
        BY <3>1, <1>1, <1>3
      <4>2. BeingRead(p, k)'
        BY <3>1, <1>2, <1>3, <1>s DEF BeingRead
      <4> QED BY <4>1, <4>2
    <3>2. CASE p # q
      <4>1. queue[p][k].num \notin {queue[q][i].num : i \in DOMAIN queue[q]}
        BY <3>2, <1>3 DEF Channels, QueueInv
      <4>2. queue[p][k].num \in delivered' <=> BeingRead(p, k)
        BY <4>1, <2>1, <1>1 DEF QueuedOK
      <4>3. BeingRead(p, k)' <=> BeingRead(p, k)
        BY <3>2, <2>1, <1>1, <1>2 DEF BeingRead
      <4> QED BY <4>2, <4>3
    <3> QED BY <3>1, <3>2
  <2> QED BY <1>1, <2>1, <2>2 DEF QueuedOK, OwnEvent, entries
<1>7. ASSUME NEW d \in delivered'
      PROVE  d[2] <= Len(logged[d[1]])
  <2>1. CASE d \in delivered
    BY <2>1 DEF Channels, QueueInv
  <2>2. CASE d \notin delivered
    <3>1. PICK i \in 1..Len(queue[q]) : d = queue[q][i].num
      BY <2>2, <1>1, <1>3
    <3>2. OwnEvent(queue[q][i], q[1])
      BY DEF Channels, QueueInv, QueuedOK
    <3>3. d[1] = s /\ d[2] \in 1..Len(logged[s])
      BY <3>1, <3>2, <1>s DEF OwnEvent
    <3>4. Len(logged[s]) \in Nat
      BY DEF Types
    <3> QED BY <3>3, <3>4
  <2> QED BY <2>1, <2>2
<1>8. QueueInv'
  <2>1. \A p \in Queues : \A k \in 1..Len(queue[p])' : QueuedOK(p, k)'
    BY <1>1, <1>6
  <2>2. \A d \in delivered' : d[2] <= Len(logged'[d[1]])
    BY <1>1, <1>7
  <2> QED BY <2>1, <2>2, <1>1 DEF Channels, QueueInv
<1> QED BY <1>4, <1>5, <1>8 DEF Channels

\* What is released was delivered.
LEMMA ChannelsRelease ==
  ASSUME Types, Channels, NEW s \in Sessions, ReleaseQueue(s)
  PROVE  Channels'
<1>0. consume[s].step = "written"
  BY DEF ReleaseQueue
<1>q. PICK q \in Queues : q = consume[s].queue /\ q[1] = s
  BY <1>0 DEF Channels, ConsumeInv
<1>n. PICK n \in Nat : n = consume[s].size
  BY DEF Types
<1>l. PICK len \in Nat : len = Len(queue[q])
  BY QueueTypes
<1>1. n <= len /\ (consume[s].closed => n = len)
  BY <1>0, <1>q, <1>n, <1>l DEF Channels, ConsumeInv
<1>2. /\ UNCHANGED <<meta, logged, delivered>>
      /\ queue' = [queue EXCEPT ![q] = Behind(q, n)]
      /\ qstate' = IF consume[s].closed THEN [qstate EXCEPT ![q] = "gone"] ELSE qstate
      /\ consume' = [consume EXCEPT ![s] = NewConsume[s]]
  BY <1>q, <1>n DEF ReleaseQueue
<1>3. /\ Len(queue'[q]) = len - n
      /\ \A k \in 1..(len - n) : queue'[q][k] = queue[q][n + k]
      /\ \A p \in Queues : p # q => queue'[p] = queue[p]
  <2>1. queue'[q] = Behind(q, n) /\ \A p \in Queues : p # q => queue'[p] = queue[p]
    BY <1>2 DEF Types
  <2>2. Len(Behind(q, n)) = len - n /\ \A k \in 1..(len - n) : Behind(q, n)[k] = queue[q][n + k]
    BY <1>1, <1>l, BehindEvents
  <2> QED BY <2>1, <2>2
<1>4. consume'[s].step = "idle" /\ \A t \in Sessions : t # s => consume'[t] = consume[t]
  BY <1>2 DEF Types, NewConsume
\* The new place of an event of a queue, and its old one.
<1>5. ASSUME NEW p \in Queues, NEW k \in 1..Len(queue'[p])
      PROVE  \E j \in 1..Len(queue[p]) :
               queue'[p][k] = queue[p][j] /\ j = IF p = q THEN n + k ELSE k
  <2>1. CASE p = q
    <3>1. k \in 1..(len - n) /\ n + k \in 1..len
      BY <2>1, <1>1, <1>3
    <3> QED BY <2>1, <3>1, <1>3, <1>l
  <2>2. CASE p # q
    BY <2>2, <1>3
  <2> QED BY <2>1, <2>2
<1>6. ConsumeInv'
  <2>1. ASSUME NEW t \in Sessions, consume'[t].step = "written"
        PROVE  LET p == consume'[t].queue
               IN  /\ p \in Queues /\ p[1] = t
                   /\ consume'[t].size <= Len(queue'[p])
                   /\ consume'[t].closed => qstate'[p] = "closed" /\ consume'[t].size = Len(queue'[p])
    <3>1. t # s /\ consume'[t] = consume[t]
      BY <2>1, <1>4
    <3> DEFINE p == consume[t].queue
    <3>2. /\ p \in Queues /\ p[1] = t
          /\ consume[t].size <= Len(queue[p])
          /\ consume[t].closed => qstate[p] = "closed" /\ consume[t].size = Len(queue[p])
      BY <2>1, <3>1 DEF Channels, ConsumeInv
    <3> HIDE DEF p
    <3>3. p # q
      BY <3>1, <3>2, <1>q
    <3>4. queue'[p] = queue[p] /\ qstate'[p] = qstate[p]
      BY <3>2, <3>3, <1>2, <1>3 DEF Types
    <3> QED BY <3>1, <3>2, <3>4 DEF p
  <2> QED BY <2>1 DEF ConsumeInv
<1>7. ASSUME NEW p \in Queues, NEW k \in 1..Len(queue'[p])
      PROVE  QueuedOK(p, k)'
  <2>1. PICK j \in 1..Len(queue[p]) : queue'[p][k] = queue[p][j] /\ j = IF p = q THEN n + k ELSE k
    BY <1>5
  <2>2. QueuedOK(p, j) /\ p[1] \in Sessions /\ Len(queue'[p]) \in Nat
    BY <1>1, <1>3, QueueTypes DEF Channels, QueueInv
  <2>3. BeingRead(p, j) <=> BeingRead(p, k)'
    <3>1. CASE p = q
      <4>1. ~BeingRead(p, k)'
        BY <3>1, <1>4, <1>q DEF BeingRead
      <4>2. ~BeingRead(p, j)
        <5>1. ~(n + k <= n)
          BY <3>1, <1>1, <1>3
        <5> QED BY <3>1, <2>1, <5>1, <1>n, <1>q DEF BeingRead
      <4> QED BY <4>1, <4>2
    <3>2. CASE p # q
      <4>1. CASE p[1] = s
        BY <3>2, <4>1, <1>4, <1>q DEF BeingRead
      <4>2. CASE p[1] # s
        BY <3>2, <4>2, <2>1, <2>2, <1>4 DEF BeingRead
      <4> QED BY <4>1, <4>2
    <3> QED BY <3>1, <3>2
  <2>4. PICK e : e = queue[p][j] /\ e = queue'[p][k]
    BY <2>1
  <2>5. OwnEvent(e, p[1]) /\ e.id \in 1..entries(p[1], "source") /\ (e.num \in delivered <=> BeingRead(p, j))
    BY <2>2, <2>4 DEF QueuedOK
  <2>6. OwnEvent(e, p[1])' /\ (e.id \in 1..entries(p[1], "source"))' /\ delivered' = delivered
    BY <2>5, <1>2 DEF OwnEvent, entries
  <2> QED BY <2>3, <2>4, <2>5, <2>6 DEF QueuedOK
<1>8. ASSUME NEW p \in Queues, NEW r \in Queues,
             NEW i \in 1..Len(queue'[p]), NEW j \in 1..Len(queue'[r]),
             queue'[p][i].num = queue'[r][j].num
      PROVE  p = r /\ i = j
  <2>1. PICK a \in 1..Len(queue[p]) : queue'[p][i] = queue[p][a] /\ a = IF p = q THEN n + i ELSE i
    BY <1>5
  <2>2. PICK b \in 1..Len(queue[r]) : queue'[r][j] = queue[r][b] /\ b = IF r = q THEN n + j ELSE j
    BY <1>5
  <2>3. p = r /\ a = b
    <3>1. queue[p][a].num = queue[r][b].num
      BY <2>1, <2>2, <1>8
    <3> QED BY <3>1 DEF Channels, QueueInv
  <2>4. i \in Int /\ j \in Int
    OBVIOUS
  <2> QED BY <2>1, <2>2, <2>3, <2>4
<1>9. QueueInv'
  <2>1. \A d \in delivered' : d[2] <= Len(logged'[d[1]])
    BY <1>2 DEF Channels, QueueInv
  <2> QED BY <2>1, <1>7, <1>8 DEF QueueInv
<1>10. ASSUME NEW t \in Sessions, NEW i \in 1..Len(logged[t]), Queued(<<t, i>>), <<t, i>> \notin delivered
       PROVE  Queued(<<t, i>>)'
  <2>1. PICK p \in Queues : qstate[p] # "gone" /\ \E k \in 1..Len(queue[p]) : queue[p][k].num = <<t, i>>
    BY <1>10 DEF Queued
  <2>2. PICK k \in 1..Len(queue[p]) : queue[p][k].num = <<t, i>>
    BY <2>1
  <2>3. CASE p = q
    <3>1. ~BeingRead(p, k)
      <4>1. QueuedOK(p, k)
        BY DEF Channels, QueueInv
      <4> QED BY <4>1, <2>2, <1>10 DEF QueuedOK
    <3>2. k > n
      BY <3>1, <2>3, <1>0, <1>n, <1>q DEF BeingRead
    <3>3. k \in 1..len /\ k - n \in 1..(len - n) /\ n + (k - n) = k
      BY <3>2, <2>3, <1>l
    <3>4. queue'[q][k - n] = queue[q][k]
      BY <3>3, <1>3
    <3>5. ~consume[s].closed
      BY <3>2, <3>3, <1>1
    <3>6. qstate'[q] # "gone" /\ queue'[q][k - n].num = <<t, i>> /\ k - n \in 1..Len(queue'[q])
      BY <3>3, <3>4, <3>5, <2>1, <2>2, <2>3, <1>2, <1>3
    <3> QED BY <3>6 DEF Queued
  <2>4. CASE p # q
    <3>1. qstate'[p] = qstate[p] /\ queue'[p] = queue[p]
      BY <2>4, <1>2, <1>3 DEF Types
    <3> QED BY <2>1, <2>2, <3>1 DEF Queued
  <2> QED BY <2>3, <2>4
<1>11. Covered'
  BY <1>2, <1>10 DEF Channels, Covered
<1> QED BY <1>6, <1>9, <1>11 DEF Channels

LEMMA RunNext == Types /\ Types' /\ Buffers /\ RunInv /\ [Next]_vars => RunInv'
<1> SUFFICES ASSUME Types, Types', Buffers, RunInv, [Next]_vars PROVE RunInv'
  OBVIOUS
<1>0. ASSUME Running => Channels', UNCHANGED recoveryVars
      PROVE  RunInv'
  BY <1>0 DEF RunInv, Running, recoveryVars
<1>1. ASSUME NEW s \in Sessions,
             \/ \E k \in Kinds : AddMetadata(s, k)
             \/ Insert(s) \/ SetMagic(s) \/ UpdateSize(s) \/ NextPiece(s)
      PROVE  RunInv'
  BY <1>0, <1>1, ChannelsMetadata, SourcesGrow DEF RunInv
<1>2. ASSUME NEW s \in Sessions, ReleaseQueue(s)
      PROVE  RunInv'
  <2>1. UNCHANGED recoveryVars
    BY <1>2 DEF ReleaseQueue
  <2> QED BY <1>0, <1>2, <2>1, ChannelsRelease DEF RunInv
<1>3. ASSUME NEW q \in Queues, NEW id \in KnownIds(q[1]), Log(q, id)
      PROVE  RunInv'
  <2>1. UNCHANGED recoveryVars /\ KnownIds(q[1]) \subseteq 1..entries(q[1], "source")
    BY <1>3, QueueTypes, KnownIdsAdded DEF Log
  <2> QED BY <1>0, <1>3, <2>1, ChannelsLog DEF RunInv
<1>4. ASSUME NEW q \in Queues, CloseQueue(q)
      PROVE  RunInv'
  <2>1. UNCHANGED recoveryVars
    BY <1>4 DEF CloseQueue
  <2> QED BY <1>0, <1>4, <2>1, ChannelsClose DEF RunInv
<1>5. ASSUME NEW q \in Queues, ConsumeQueue(q)
      PROVE  RunInv'
  <2>1. UNCHANGED recoveryVars
    BY <1>5 DEF ConsumeQueue
  <2> QED BY <1>0, <1>5, <2>1, ChannelsConsume DEF RunInv
<1>6. ASSUME Crash \/ Scan \/ WriteBuffer
      PROVE  RunInv'
  BY <1>6 DEF RunInv, Running, Crash, Scan, WriteBuffer
<1>7. ASSUME UNCHANGED vars
      PROVE  RunInv'
  <2>1. UNCHANGED <<meta, queue, qstate, consume, logged, delivered, recoveryVars>>
    BY <1>7 DEF vars, programVars
  <2>2. Channels => Channels'
    <3>1. ConsumeInv => ConsumeInv'
      BY <2>1 DEF ConsumeInv
    <3>2. Covered => Covered'
      BY <2>1 DEF Covered, Queued
    <3>3. \A q \in Queues, k \in Nat : QueuedOK(q, k) => QueuedOK(q, k)'
      BY <2>1 DEF QueuedOK, OwnEvent, BeingRead, entries
    <3>4. QueueInv => QueueInv'
      BY <2>1, <3>3, QueueTypes DEF QueueInv
    <3> QED BY <3>1, <3>2, <3>4 DEF Channels
  <2> QED BY <1>0, <2>1, <2>2 DEF RunInv
<1> QED BY <1>1, <1>2, <1>3, <1>4, <1>5, <1>6, <1>7 DEF Next

-----------------------------------------------------------------------------
(* What the crash leaves *)

DataBlock(q) == [type |-> "data", session |-> q[1], whole |-> TRUE, entries |-> queue[q]]

LEMMA MetadataBlocksAre ==
  ASSUME Types, FreedInv, NEW b \in MetadataBlocks
  PROVE  \E s \in Sessions, k \in Kinds :
           meta[<<s, k>>].magic /\ b = MetadataBlock(s, k, meta[<<s, k>>])
<1>1. {x \in freed : x.copy.magic} = {}
  BY DEF FreedInv
<1>2. PICK m \in DOMAIN meta : meta[m].magic /\ b = MetadataBlock(m[1], m[2], meta[m])
  BY <1>1 DEF MetadataBlocks
<1>3. DOMAIN meta = Sessions \X Kinds
  BY DEF Types
<1>4. m[1] \in Sessions /\ m[2] \in Kinds /\ m = <<m[1], m[2]>>
  BY <1>3
<1> QED BY <1>2, <1>4

LEMMA MetadataBlockIs ==
  ASSUME NEW s \in Sessions, NEW k \in Kinds, NEW m, m.size \in Nat
  PROVE  LET b == MetadataBlock(s, k, m)
             n == m.size \div Pieces
         IN  /\ b.whole \in BOOLEAN /\ (b.whole <=> m.size % Pieces = 0)
             /\ b = [type |-> "metadata", session |-> s, whole |-> b.whole, entries |-> b.entries]
             /\ n \in Nat /\ b.entries \in Seq(Entry) /\ Len(b.entries) = n
             /\ \A i \in 1..n : b.entries[i] = IF k = "clock" THEN ClockEntry(<<s, i>>)
                                                              ELSE SourceEntry(i, <<s, i>>)
             /\ \A i \in DOMAIN b.entries : b.entries[i].kind # "event"
<1>1. PICK n \in Nat : n = m.size \div Pieces
  BY DEF Pieces
<1> DEFINE e == [i \in 1..n |-> IF k = "clock" THEN ClockEntry(<<s, i>>) ELSE SourceEntry(i, <<s, i>>)]
<1>2. MetadataBlock(s, k, m) = [type |-> "metadata", session |-> s, whole |-> m.size % Pieces = 0,
                                entries |-> e]
  BY <1>1 DEF MetadataBlock
<1>3. ASSUME NEW i \in 1..n
      PROVE  e[i] \in Entry /\ e[i].kind # "event"
  <2>1. <<s, i>> \in Sessions \X Nat /\ i \in Nat
    OBVIOUS
  <2>2. ClockEntry(<<s, i>>) \in Entry /\ ClockEntry(<<s, i>>).kind = "clock"
    BY <2>1 DEF ClockEntry, Entry
  <2>3. SourceEntry(i, <<s, i>>) \in Entry /\ SourceEntry(i, <<s, i>>).kind = "source"
    BY <2>1 DEF SourceEntry, Entry
  <2>4. CASE k = "clock"
    BY <2>2, <2>4
  <2>5. CASE k # "clock"
    BY <2>3, <2>5
  <2> QED BY <2>4, <2>5
<1>4. e \in Seq(Entry) /\ Len(e) = n /\ DOMAIN e = 1..n
  BY <1>3
<1>5. \A i \in 1..n : e[i] = IF k = "clock" THEN ClockEntry(<<s, i>>) ELSE SourceEntry(i, <<s, i>>)
  OBVIOUS
<1>6. PICK w \in BOOLEAN : w = (m.size % Pieces = 0)
  OBVIOUS
<1>7. MetadataBlock(s, k, m) = [type |-> "metadata", session |-> s, whole |-> w, entries |-> e]
  BY <1>2, <1>6
<1>8. w <=> m.size % Pieces = 0
  BY <1>6
<1> HIDE DEF e
<1> QED BY <1>1, <1>3, <1>4, <1>5, <1>7, <1>8

\* The entries of a block are not empty, and the block is in the dump.
Found == {b \in MetadataBlocks \union DataBlocks : b.entries # <<>>}

LEMMA FoundIs ==
  ASSUME Types, FreedInv, NEW b \in Found
  PROVE  /\ b.entries # <<>>
         /\ \/ \E s \in Sessions, k \in Kinds :
                 meta[<<s, k>>].magic /\ b = MetadataBlock(s, k, meta[<<s, k>>])
            \/ \E q \in Queues : qstate[q] # "gone" /\ b = DataBlock(q)
<1>1. CASE b \in MetadataBlocks
  BY <1>1, MetadataBlocksAre DEF Found
<1>2. CASE b \in DataBlocks
  BY <1>2 DEF Found, DataBlocks, DataBlock
<1> QED BY <1>1, <1>2 DEF Found

\* The events of a queue in use are found.
LEMMA QueueFound ==
  ASSUME Types, NEW q \in Queues, qstate[q] # "gone", NEW k \in 1..Len(queue[q])
  PROVE  DataBlock(q) \in Found
<1>1. queue[q] # <<>>
  BY QueueTypes
<1>2. DataBlock(q) \in DataBlocks
  BY DEF DataBlock, DataBlocks
<1>3. DataBlock(q).entries = queue[q]
  BY DEF DataBlock
<1> QED BY <1>1, <1>2, <1>3 DEF Found

LEMMA FoundFinite ==
  ASSUME Types, FreedInv
  PROVE  IsFiniteSet(Found)
<1> DEFINE M == Sessions \X Kinds
           f == [m \in M |-> MetadataBlock(m[1], m[2], meta[m])]
           g == [q \in Queues |-> DataBlock(q)]
<1>1. IsFiniteSet(Sessions) /\ IsFiniteSet(Queues)
  BY RecoveryAssumption DEF RecoveryAssumption
<1>2. IsFiniteSet(Kinds)
  <2>1. FS!IsFiniteSet({"clock"}) /\ FS!IsFiniteSet({"source"})
    BY FS!FS_Singleton
  <2>2. FS!IsFiniteSet({"clock"} \union {"source"}) /\ Kinds = {"clock"} \union {"source"}
    BY <2>1, FS!FS_Union DEF Kinds
  <2> QED BY <2>2, SameFinite
<1>3. IsFiniteSet(M)
  BY <1>1, <1>2, SameFinite, FS!FS_Product
<1>4. IsFiniteSet({f[m] : m \in M})
  <2>1. DOMAIN f = M
    OBVIOUS
  <2> HIDE DEF f, M
  <2> QED BY <1>3, <2>1, ImageFinite
<1>5. IsFiniteSet({g[q] : q \in Queues})
  <2>1. DOMAIN g = Queues
    OBVIOUS
  <2> HIDE DEF g
  <2> QED BY <1>1, <2>1, ImageFinite
<1>6. Found \subseteq {f[m] : m \in M} \union {g[q] : q \in Queues}
  <2>1. ASSUME NEW b \in Found
        PROVE  b \in {f[m] : m \in M} \/ b \in {g[q] : q \in Queues}
    <3>1. ASSUME NEW s \in Sessions, NEW k \in Kinds, b = MetadataBlock(s, k, meta[<<s, k>>])
          PROVE  b \in {f[m] : m \in M}
      <4>1. <<s, k>> \in M /\ f[<<s, k>>] = b
        BY <3>1
      <4> HIDE DEF f, M
      <4> QED BY <4>1
    <3> QED BY <3>1, FoundIs
  <2> QED BY <2>1
<1>7. IsFiniteSet({f[m] : m \in M} \union {g[q] : q \in Queues})
  BY <1>4, <1>5, UnionFinite
<1> QED BY <1>6, <1>7, SubsetFinite

LEMMA FoundOK ==
  ASSUME Types, FreedInv, QueueInv, NEW b \in Found
  PROVE  BlockOK(b)
<1>1. ASSUME NEW s \in Sessions, NEW k \in Kinds, b = MetadataBlock(s, k, meta[<<s, k>>])
      PROVE  BlockOK(b)
  <2>1. meta[<<s, k>>].size \in Nat
    BY DEF Types
  <2>2. /\ b.entries \in Seq(Entry) /\ b.whole \in BOOLEAN
        /\ b = [type |-> "metadata", session |-> s, whole |-> b.whole, entries |-> b.entries]
        /\ \A i \in DOMAIN b.entries : b.entries[i].kind # "event"
    BY <1>1, <2>1, MetadataBlockIs
  <2>3. b.type = "metadata" /\ b.session = s
    BY <2>2
  <2> QED BY <2>2, <2>3 DEF BlockOK
<1>2. ASSUME NEW q \in Queues, b = DataBlock(q)
      PROVE  BlockOK(b)
  <2>1. q[1] \in Sessions /\ queue[q] \in Seq(Event) /\ DOMAIN queue[q] = 1..Len(queue[q])
    BY QueueTypes
  <2>2. queue[q] \in Seq(Entry)
    <3>1. Event \subseteq Entry
      BY DEF Event, Entry
    <3> QED BY <2>1, <3>1
  <2>3. /\ b.type = "data" /\ b.session = q[1] /\ b.whole /\ b.entries = queue[q]
        /\ b \in [type : {"metadata", "data"}, session : Sessions, whole : BOOLEAN, entries : Seq(Entry)]
    BY <1>2, <2>1, <2>2 DEF DataBlock
  <2>4. \A k \in DOMAIN b.entries : OwnEvent(b.entries[k], b.session)
    BY <2>1, <2>3 DEF QueueInv, QueuedOK
  <2> QED BY <2>3, <2>4 DEF BlockOK
<1> QED BY <1>1, <1>2, FoundIs

\* Only the blocks of queues have events.
LEMMA FoundEvent ==
  ASSUME Types, FreedInv, NEW b \in Found, NEW i \in DOMAIN b.entries, b.entries[i].kind = "event"
  PROVE  \E q \in Queues : /\ qstate[q] # "gone" /\ b = DataBlock(q) /\ b.entries = queue[q]
                           /\ i \in 1..Len(queue[q])
<1>1. ASSUME NEW s \in Sessions, NEW k \in Kinds, b = MetadataBlock(s, k, meta[<<s, k>>])
      PROVE  FALSE
  <2>1. meta[<<s, k>>].size \in Nat
    BY DEF Types
  <2>2. b.entries[i].kind # "event"
    BY <1>1, <2>1, MetadataBlockIs
  <2> QED BY <2>2
<1>2. PICK q \in Queues : qstate[q] # "gone" /\ b = DataBlock(q)
  BY <1>1, FoundIs
<1>3. b.entries = queue[q] /\ DOMAIN queue[q] = 1..Len(queue[q])
  BY <1>2, QueueTypes DEF DataBlock
<1> QED BY <1>2, <1>3

LEMMA FoundOnce ==
  ASSUME Types, FreedInv, QueueInv
  PROVE  OnceIn(Found)
<1> SUFFICES ASSUME NEW b \in Found, NEW c \in Found,
                    NEW i \in DOMAIN b.entries, NEW j \in DOMAIN c.entries,
                    b.entries[i].kind = "event", c.entries[j].kind = "event",
                    b.entries[i].num = c.entries[j].num
             PROVE  b = c /\ i = j
  BY DEF OnceIn
<1>1. PICK q \in Queues : b = DataBlock(q) /\ b.entries = queue[q] /\ i \in 1..Len(queue[q])
  BY FoundEvent
<1>2. PICK p \in Queues : c = DataBlock(p) /\ c.entries = queue[p] /\ j \in 1..Len(queue[p])
  BY FoundEvent
<1>3. queue[q][i].num = queue[p][j].num
  BY <1>1, <1>2
<1>4. q = p /\ i = j
  BY <1>3, <1>1, <1>2 DEF QueueInv
<1> QED BY <1>1, <1>2, <1>4

\* All events in queues are found; those that were delivered are being read.
LEMMA FoundNums ==
  ASSUME Types, FreedInv, QueueInv
  PROVE  /\ \A n : Queued(n) => n \in UNION {EventNums(b) : b \in Found}
         /\ \A n \in UNION {EventNums(b) : b \in Found} : n \in delivered =>
              \E q \in Queues : \E k \in 1..Len(queue[q]) : queue[q][k].num = n /\ BeingRead(q, k)
<1>1. ASSUME NEW n, Queued(n)
      PROVE  n \in UNION {EventNums(b) : b \in Found}
  <2>1. PICK q \in Queues : qstate[q] # "gone" /\ \E k \in 1..Len(queue[q]) : queue[q][k].num = n
    BY <1>1 DEF Queued
  <2>2. PICK k \in 1..Len(queue[q]) : queue[q][k].num = n
    BY <2>1
  <2>3. DataBlock(q) \in Found
    BY <2>1, QueueFound
  <2>4. DataBlock(q).entries = queue[q] /\ DOMAIN queue[q] = 1..Len(queue[q]) /\ queue[q][k].kind = "event"
    BY QueueTypes DEF DataBlock, QueueInv, QueuedOK, OwnEvent
  <2>5. n \in EventNums(DataBlock(q))
    BY <2>2, <2>4 DEF EventNums
  <2> QED BY <2>3, <2>5
<1>2. ASSUME NEW b \in Found, NEW n \in EventNums(b), n \in delivered
      PROVE  \E q \in Queues : \E k \in 1..Len(queue[q]) : queue[q][k].num = n /\ BeingRead(q, k)
  <2>1. PICK i \in DOMAIN b.entries : b.entries[i].kind = "event" /\ n = b.entries[i].num
    BY DEF EventNums
  <2>2. PICK q \in Queues : b.entries = queue[q] /\ i \in 1..Len(queue[q])
    BY <2>1, FoundEvent
  <2>3. QueuedOK(q, i)
    BY <2>2 DEF QueueInv
  <2>4. BeingRead(q, i)
    BY <1>2, <2>1, <2>2, <2>3 DEF QueuedOK
  <2> QED BY <2>1, <2>2, <2>4
<1> QED BY <1>1, <1>2

LEMMA CrashBlocks ==
  ASSUME Types, Buffers, RunInv, Crash
  PROVE  Blocks'
<1>1. Channels /\ QueueInv /\ FreedInv /\ ConsumeInv /\ Running /\ buffers = {} /\ file = <<>>
  BY DEF Crash, RunInv, Channels, Buffers
<1>2. /\ dump' = Found /\ buffers' = {} /\ file' = <<>> /\ phase' = "crashed"
      /\ UNCHANGED <<logged, delivered>>
      /\ copying' = delivered \intersect
                      {e.num : e \in UNION {ToSet(queue[consume[s].queue]) :
                                 s \in {x \in Sessions : consume[x].step = "written"}}}
  BY <1>1 DEF Crash, Found
<1>3. Pending' = Found
  BY <1>2 DEF Pending
<1>4. EventsAt' = {} /\ RecoveredNums' = {} /\ file' \in Seq(Entry)
  <2>1. DOMAIN file' = {} /\ file' \in Seq(Entry)
    BY <1>2
  <2> QED BY <2>1 DEF EventsAt, RecoveredNums
<1>5. IsFiniteSet(Pending)'
  BY <1>1, <1>3, FoundFinite
<1>6. \A b \in Pending' : BlockOK(b)'
  <2>1. ASSUME NEW b \in Found
        PROVE  BlockOK(b)'
    <3>1. BlockOK(b)
      BY <1>1, FoundOK
    <3> QED BY <3>1, <1>2 DEF BlockOK, OwnEvent
  <2> QED BY <2>1, <1>3
<1>7. Distinct'
  <2>1. OnceIn(Pending)'
    <3>1. OnceIn(Found)
      BY <1>1, FoundOnce
    <3> QED BY <3>1, <1>3 DEF OnceIn
  <2> QED BY <2>1, <1>4 DEF Distinct
<1>8. PendingNums' = UNION {EventNums(b) : b \in Found}
  BY <1>3 DEF PendingNums
<1>9. NoneLost'
  <2>1. ASSUME NEW s \in Sessions, NEW i \in 1..Len(logged[s])
        PROVE  <<s, i>> \in delivered \/ <<s, i>> \in PendingNums'
    <3>1. <<s, i>> \in delivered \/ Queued(<<s, i>>)
      BY <1>1 DEF Channels, Covered
    <3> QED BY <3>1, <1>1, <1>8, FoundNums
  <2> QED BY <2>1, <1>2 DEF NoneLost
<1>10. OnlyCopies'
  <2>1. ASSUME NEW n \in PendingNums', n \in delivered
        PROVE  n \in copying'
    <3>1. n \in UNION {EventNums(b) : b \in Found}
      BY <1>8
    <3>2. PICK q \in Queues : \E k \in 1..Len(queue[q]) : queue[q][k].num = n /\ BeingRead(q, k)
      BY <1>1, <2>1, <3>1, FoundNums
    <3>3. PICK k \in 1..Len(queue[q]) : queue[q][k].num = n /\ BeingRead(q, k)
      BY <3>2
    <3> DEFINE s == q[1]
    <3>4. s \in Sessions /\ consume[s].step = "written" /\ consume[s].queue = q
      BY <3>3, QueueTypes DEF BeingRead
    <3>5. queue[q][k] \in ToSet(queue[q])
      BY QueueTypes DEF ToSet
    <3>6. queue[q][k] \in UNION {ToSet(queue[consume[x].queue]) :
                                   x \in {y \in Sessions : consume[y].step = "written"}}
      BY <3>4, <3>5
    <3> QED BY <3>3, <3>6, <2>1, <1>2
  <2> QED BY <2>1, <1>2, <1>4 DEF OnlyCopies
<1> QED BY <1>2, <1>4, <1>5, <1>6, <1>7, <1>9, <1>10 DEF Blocks

-----------------------------------------------------------------------------
(* brecovery *)

LEMMA ScanBlocks ==
  ASSUME Blocks, Scan
  PROVE  /\ Blocks' /\ Pending' = {b \in Pending : b.whole}
         /\ UNCHANGED <<file, logged, delivered, clocks, quiet, copying>>
<1>1. /\ phase = "crashed" /\ phase' = "writing" /\ dump' = {}
      /\ UNCHANGED <<file, logged, delivered, clocks, quiet, copying>>
      /\ buffers = {} /\ Pending = dump /\ IsFiniteSet(dump)
  BY DEF Scan, historyVars, Blocks, Pending
<1>2. PICK n \in 1..(Len(SetToSeq(dump)) + 1) : buffers' = recovered(InsertAt(SetToSeq(dump), n, JunkBlock))
  BY DEF Scan
<1>3. buffers' = {b \in dump : b.whole}
  BY <1>1, <1>2, ScanFindsWhole
<1>4. Pending' = {b \in Pending : b.whole}
  BY <1>1, <1>3 DEF Pending
<1>5. Pending' \subseteq Pending
  BY <1>4
<1>6. IsFiniteSet(Pending)'
  BY <1>5, SubsetFinite DEF Blocks
<1>7. \A b \in Pending' : BlockOK(b)'
  BY <1>1, <1>5 DEF Blocks, BlockOK, OwnEvent
<1>8. RecoveredNums' = RecoveredNums /\ EventsAt' = EventsAt
  BY <1>1 DEF RecoveredNums, EventsAt
<1>9. PendingNums' = PendingNums
  <2>1. ASSUME NEW b \in Pending, b \notin Pending'
        PROVE  EventNums(b) = {}
    <3>1. BlockOK(b) /\ ~b.whole
      BY <2>1, <1>4 DEF Blocks
    <3>2. \A k \in DOMAIN b.entries : b.entries[k].kind # "event"
      BY <3>1 DEF BlockOK
    <3> QED BY <3>2 DEF EventNums
  <2> QED BY <2>1, <1>5 DEF PendingNums
<1>10. Distinct'
  <2>1. OnceIn(Pending)'
    BY <1>5 DEF Blocks, Distinct, OnceIn
  <2>2. \A i, j \in EventsAt' : file'[i].num = file'[j].num => i = j
    BY <1>1, <1>8 DEF Blocks, Distinct
  <2> QED BY <2>1, <2>2, <1>8, <1>9 DEF Blocks, Distinct
<1>11. NoneLost' /\ OnlyCopies'
  BY <1>1, <1>8, <1>9 DEF Blocks, NoneLost, OnlyCopies
<1>12. Blocks'
  BY <1>1, <1>6, <1>7, <1>10, <1>11 DEF Blocks
<1> QED BY <1>1, <1>4, <1>12

LEMMA WriteIs ==
  ASSUME Blocks, WriteBuffer
  PROVE  \E b \in Pending :
           /\ \A a \in Pending : ~cmp(a, b)
           /\ file' = file \o b.entries
           /\ Pending' = Pending \ {b}
           /\ dump' = {} /\ phase = "writing" /\ phase' = "writing"
           /\ UNCHANGED <<logged, delivered, clocks, quiet, copying>>
<1>1. phase = "writing" /\ phase' = "writing" /\ dump = {} /\ dump' = {} /\ Pending = buffers
      /\ UNCHANGED <<logged, delivered, clocks, quiet, copying>>
  BY DEF WriteBuffer, historyVars, Blocks, Pending
<1>2. PICK b \in buffers : /\ \A a \in buffers : ~cmp(a, b)
                           /\ file' = file \o b.entries
                           /\ buffers' = buffers \ {b}
  BY DEF WriteBuffer
<1>3. Pending' = Pending \ {b}
  BY <1>1, <1>2 DEF Pending
<1> QED BY <1>1, <1>2, <1>3

LEMMA WriteBlocks ==
  ASSUME Blocks, WriteBuffer
  PROVE  Blocks'
<1>1. PICK b \in Pending :
        /\ file' = file \o b.entries
        /\ Pending' = Pending \ {b}
        /\ dump' = {} /\ phase' = "writing"
        /\ UNCHANGED <<logged, delivered, clocks, quiet, copying>>
  BY WriteIs
<1>2. BlockOK(b) /\ b.entries \in Seq(Entry) /\ file \in Seq(Entry)
  BY DEF Blocks, BlockOK
<1>n. PICK n \in Nat : n = Len(file)
  BY <1>2
<1>m. PICK m \in Nat : m = Len(b.entries)
  BY <1>2
<1>3. /\ file' \in Seq(Entry) /\ Len(file') = n + m /\ DOMAIN file' = 1..(n + m)
      /\ DOMAIN file = 1..n /\ DOMAIN b.entries = 1..m
      /\ \A i \in 1..n : file'[i] = file[i]
      /\ \A j \in 1..m : file'[n + j] = b.entries[j]
  <2> DEFINE t == b.entries
  <2>1. t \in Seq(Entry) /\ file' = file \o t /\ m = Len(t)
    BY <1>1, <1>2, <1>m
  <2> HIDE DEF t
  <2>2. file \o t \in Seq(Entry) /\ Len(file \o t) = n + m
    BY <2>1, <1>2, <1>n
  <2>3. \A i \in 1..n : (file \o t)[i] = file[i]
    BY <2>1, <1>2, <1>n
  <2>4. \A j \in 1..m : (file \o t)[n + j] = t[j]
    BY <2>1, <1>2, <1>n
  <2>5. DOMAIN file = 1..n /\ DOMAIN t = 1..m /\ DOMAIN (file \o t) = 1..(n + m)
    BY <2>1, <2>2, <1>2, <1>n
  <2> QED BY <2>1, <2>2, <2>3, <2>4, <2>5 DEF t
\* An event of the new file is one of the old file or of the block.
<1>4. ASSUME NEW i \in EventsAt'
      PROVE  \/ i \in EventsAt /\ i \in 1..n /\ file'[i] = file[i]
             \/ i - n \in 1..m /\ file'[i] = b.entries[i - n] /\ b.entries[i - n].kind = "event"
  <2>1. i \in 1..(n + m) /\ file'[i].kind = "event"
    BY <1>3 DEF EventsAt
  <2>2. CASE i <= n
    BY <2>1, <2>2, <1>3 DEF EventsAt
  <2>3. CASE i > n
    <3>1. i - n \in 1..m /\ n + (i - n) = i
      BY <2>1, <2>3
    <3>2. file'[n + (i - n)] = b.entries[i - n]
      BY <3>1, <1>3
    <3> QED BY <2>1, <3>1, <3>2
  <2> QED BY <2>1, <2>2, <2>3
<1>5. RecoveredNums' = RecoveredNums \union EventNums(b)
  <2>1. ASSUME NEW i \in EventsAt
        PROVE  i \in EventsAt' /\ file'[i] = file[i]
    BY <1>3 DEF EventsAt
  <2>2. ASSUME NEW j \in 1..m, b.entries[j].kind = "event"
        PROVE  n + j \in EventsAt' /\ file'[n + j] = b.entries[j]
    <3>1. n + j \in 1..(n + m)
      OBVIOUS
    <3> QED BY <2>2, <3>1, <1>3 DEF EventsAt
  <2>3. RecoveredNums \union EventNums(b) \subseteq RecoveredNums'
    BY SMTT(30), <2>1, <2>2, <1>3 DEF RecoveredNums, EventNums
  <2>4. RecoveredNums' \subseteq RecoveredNums \union EventNums(b)
    <3>1. ASSUME NEW i \in EventsAt'
          PROVE  file'[i].num \in RecoveredNums \union EventNums(b)
      BY <1>3, <1>4 DEF RecoveredNums, EventNums
    <3> QED BY <3>1 DEF RecoveredNums
  <2> QED BY <2>3, <2>4
<1>6. PendingNums = PendingNums' \union EventNums(b)
  BY <1>1 DEF PendingNums
<1>o. OnceIn(Pending) /\ PendingNums \intersect RecoveredNums = {}
      /\ \A i, j \in EventsAt : file[i].num = file[j].num => i = j
  BY DEF Blocks, Distinct
<1>7. PendingNums' \intersect EventNums(b) = {}
  <2>1. ASSUME NEW c \in Pending, c # b, NEW x \in EventNums(b), x \in EventNums(c)
        PROVE  FALSE
    <3>1. PICK i \in DOMAIN b.entries : b.entries[i].kind = "event" /\ x = b.entries[i].num
      BY DEF EventNums
    <3>2. PICK j \in DOMAIN c.entries : c.entries[j].kind = "event" /\ x = c.entries[j].num
      BY <2>1 DEF EventNums
    <3> QED BY <3>1, <3>2, <2>1, <1>o DEF OnceIn
  <2> QED BY <2>1, <1>1 DEF PendingNums
<1>8. Distinct'
  <2>1. OnceIn(Pending)'
    BY <1>1, <1>o DEF OnceIn
  <2>2. PendingNums' \intersect RecoveredNums' = {}
    BY <1>5, <1>6, <1>7, <1>o
  <2>3. ASSUME NEW i \in EventsAt', NEW j \in EventsAt', file'[i].num = file'[j].num
        PROVE  i = j
    <3>1. ASSUME NEW x \in EventsAt, NEW y \in 1..m, b.entries[y].kind = "event"
          PROVE  file[x].num # b.entries[y].num
      <4>1. file[x].num \in RecoveredNums
        BY DEF RecoveredNums
      <4>2. b.entries[y].num \in PendingNums
        BY <3>1, <1>3, <1>6 DEF EventNums
      <4> QED BY <4>1, <4>2, <1>o
    <3>2. CASE i \in EventsAt /\ file'[i] = file[i] /\ j \in EventsAt /\ file'[j] = file[j]
      BY <3>2, <2>3, <1>o
    <3>3. CASE /\ i - n \in 1..m /\ file'[i] = b.entries[i - n] /\ b.entries[i - n].kind = "event"
               /\ j - n \in 1..m /\ file'[j] = b.entries[j - n] /\ b.entries[j - n].kind = "event"
      <4>1. i - n = j - n
        BY <3>3, <2>3, <1>3, <1>o DEF OnceIn
      <4>2. i \in Int /\ j \in Int
        BY <1>3 DEF EventsAt
      <4> QED BY <4>1, <4>2
    <3> QED BY <3>1, <3>2, <3>3, <2>3, <1>4
  <2> QED BY <2>1, <2>2, <2>3 DEF Distinct
<1>9. NoneLost' /\ OnlyCopies'
  <2>1. RecoveredNums' \union PendingNums' = RecoveredNums \union PendingNums
    BY <1>5, <1>6
  <2> QED BY <2>1, <1>1 DEF Blocks, NoneLost, OnlyCopies
<1>10. IsFiniteSet(Pending)'
  BY <1>1, SubsetFinite DEF Blocks
<1>11. \A c \in Pending' : BlockOK(c)'
  BY <1>1 DEF Blocks, BlockOK, OwnEvent
<1> QED BY <1>1, <1>3, <1>8, <1>9, <1>10, <1>11 DEF Blocks

LEMMA InvInit == Init => Inv
BY TypesInit, BuffersInit, ChannelsInit DEF Inv, CrashInv, Running, Init

LEMMA CrashNext ==
  ASSUME Inv, [Next]_vars
  PROVE  CrashInv'
<1>1. CASE Crash
  BY <1>1, CrashBlocks DEF Inv, CrashInv
<1>2. CASE Scan
  <2>1. ~Running
    BY <1>2 DEF Scan, Running
  <2> QED BY <1>2, <2>1, ScanBlocks DEF Inv, CrashInv
<1>3. CASE WriteBuffer
  <2>1. ~Running
    BY <1>3 DEF WriteBuffer, Running
  <2> QED BY <1>3, <2>1, WriteBlocks DEF Inv, CrashInv
<1>4. ASSUME Running, UNCHANGED phase
      PROVE  CrashInv'
  BY <1>4 DEF CrashInv, Running
<1>5. CASE \E s \in Sessions :
             \/ \E k \in Kinds : AddMetadata(s, k)
             \/ Insert(s) \/ SetMagic(s) \/ UpdateSize(s) \/ NextPiece(s)
             \/ ReleaseQueue(s)
  <2>1. Running /\ UNCHANGED phase
    BY <1>5 DEF AddMetadata, Insert, SetMagic, UpdateSize, NextPiece, ReleaseQueue, BeginPiece, recoveryVars
  <2> QED BY <2>1, <1>4
<1>6. CASE \E q \in Queues :
             \/ \E id \in KnownIds(q[1]) : Log(q, id)
             \/ CloseQueue(q) \/ ConsumeQueue(q)
  <2>1. Running /\ UNCHANGED phase
    BY <1>6 DEF Log, CloseQueue, ConsumeQueue, recoveryVars
  <2> QED BY <2>1, <1>4
<1>7. CASE UNCHANGED vars
  <2>1. UNCHANGED <<logged, delivered, phase, dump, buffers, file, copying>>
    BY <1>7 DEF vars, recoveryVars
  <2>2. Pending' = Pending /\ EventsAt' = EventsAt /\ RecoveredNums' = RecoveredNums
    BY <2>1 DEF Pending, EventsAt, RecoveredNums
  <2>3. PendingNums' = PendingNums
    BY <2>2 DEF PendingNums
  <2>4. Distinct => Distinct'
    BY <2>1, <2>2, <2>3 DEF Distinct, OnceIn
  <2>5. (NoneLost => NoneLost') /\ (OnlyCopies => OnlyCopies')
    BY <2>1, <2>2, <2>3 DEF NoneLost, OnlyCopies
  <2>6. \A b : BlockOK(b) => BlockOK(b)'
    BY <2>1 DEF BlockOK, OwnEvent
  <2>7. Blocks => Blocks'
    BY <2>1, <2>2, <2>4, <2>5, <2>6 DEF Blocks
  <2> QED BY <2>1, <2>7 DEF Inv, CrashInv, Running
<1> QED BY <1>1, <1>2, <1>3, <1>5, <1>6, <1>7 DEF Next

LEMMA InvNext == Inv /\ [Next]_vars => Inv'
BY TypesNext, BuffersNext, RunNext, CrashNext DEF Inv

LEMMA Invariant == Spec => []Inv
BY InvInit, InvNext, PTL DEF Spec

\* The state has its types, and the size field of a metadata buffer never
\* covers a byte that was not written yet, wherever the crash comes
\* (VectorOutputStream.hpp:78-114).
THEOREM RecoveryTypes == Spec => []TypeOK
<1>1. Inv => TypeOK
  <2> SUFFICES ASSUME Inv PROVE TypeOK
    OBVIOUS
  <2>1. ASSUME NEW m \in Sessions \X Kinds
        PROVE  /\ meta[m] \in [magic : BOOLEAN, len : Nat, size : Nat]
               /\ meta[m].size <= meta[m].len
    <3>1. m[1] \in Sessions /\ m[2] \in Kinds /\ m = <<m[1], m[2]>>
      OBVIOUS
    <3>2. meta[m] \in [magic : BOOLEAN, len : Nat, size : Nat]
      BY DEF Inv, Types
    <3>3. MetaOK(m[1], m[2])
      BY <3>1 DEF Inv, Buffers, MetaInv
    <3> QED BY <3>1, <3>2, <3>3 DEF MetaOK
  <2>2. \A s \in Sessions : writing[s].step \in {"idle", "insert", "mark", "size", "next"}
    BY DEF Inv, Types, Steps
  <2> QED BY <2>1, <2>2 DEF TypeOK, Inv, Types
<1> QED BY <1>1, Invariant, PTL

LEMMA DoneNothingPending ==
  ASSUME Inv, Done
  PROVE  Blocks /\ Pending = {} /\ PendingNums = {} /\ Types
BY DEF Done, Inv, CrashInv, Running, Blocks, Pending, PendingNums

\* Every event that was committed is in the output of consume or in the
\* recovered file (Session.hpp:235-245, 370-376, brecovery.cpp:281-313).
THEOREM RecoveryLosesNothing == Spec => []NothingLost
<1>1. Inv => NothingLost
  <2> SUFFICES ASSUME Inv, Done, NEW s \in Sessions, NEW i \in DOMAIN logged[s]
               PROVE  <<s, i>> \in delivered \union RecoveredNums
    BY DEF NothingLost
  <2>1. NoneLost /\ PendingNums = {} /\ Types
    BY DoneNothingPending DEF Blocks
  <2>2. i \in 1..Len(logged[s])
    BY <2>1 DEF Types
  <2> QED BY <2>1, <2>2 DEF NoneLost
<1> QED BY <1>1, Invariant, PTL

\* No event is recovered twice, and of those delivered only the ones that
\* consume had not released yet (Session.hpp:235-245, 376-381).
THEOREM RecoveryCopiesOnlyUnreleased == Spec => []OnlyCopiedTwice
<1>1. Inv => OnlyCopiedTwice
  <2> SUFFICES ASSUME Inv, Done PROVE OnlyCopiedTwice
    BY DEF OnlyCopiedTwice
  <2> QED BY DoneNothingPending DEF OnlyCopiedTwice, Blocks, Distinct, OnlyCopies
<1> QED BY <1>1, Invariant, PTL

-----------------------------------------------------------------------------
(* Reading a block *)

LEMMA NewReaderFine == Fine(NewReader)
<1>1. MapTo(EmptyMap, Version)
  BY EmptyIsMap
<1>2. NewReader.events \in Seq(ReadEvent)
  BY DEF NewReader
<1> QED BY <1>1, <1>2 DEF Fine, IsReader, NewReader

LEMMA ReadSource ==
  ASSUME NEW r, Fine(r), NEW id \in Nat, NEW v \in Version
  PROVE  LET q == readEntry(r, SourceEntry(id, v))
         IN  /\ Fine(q) /\ q.clock = r.clock /\ q.events = r.events
             /\ \A k \in Nat : Lookup(q.sources, k) = IF k = id THEN Some(v) ELSE Lookup(r.sources, k)
<1> DEFINE m == emplace(r.sources, id, v)
<1>1. readEntry(r, SourceEntry(id, v)) = [r EXCEPT !.sources = m]
  BY DEF readEntry, readSpecial, SourceEntry, Fine
<1>2. /\ MapTo(m, Version)
      /\ \A k \in Nat : Lookup(m, k) = IF k = id THEN Some(v) ELSE Lookup(r.sources, k)
  BY EmplaceIsMap DEF Fine, IsReader
<1> HIDE DEF m
<1>3. [r EXCEPT !.sources = m] = [sources |-> m, writer |-> NoName, clock |-> r.clock,
                                  events |-> r.events, status |-> r.status]
  BY DEF Fine, IsReader
<1> QED BY <1>1, <1>2, <1>3 DEF Fine, IsReader

LEMMA ReadClock ==
  ASSUME NEW r, Fine(r), NEW v \in Version
  PROVE  LET q == readEntry(r, ClockEntry(v))
         IN  Fine(q) /\ q.clock = v /\ q.events = r.events /\ q.sources = r.sources
<1>1. readEntry(r, ClockEntry(v)) = [r EXCEPT !.clock = v]
  BY DEF readEntry, readSpecial, ClockEntry, Fine
<1>2. [r EXCEPT !.clock = v] = [sources |-> r.sources, writer |-> NoName, clock |-> v,
                                events |-> r.events, status |-> r.status]
  BY DEF Fine, IsReader
<1> QED BY <1>1, <1>2 DEF Fine, IsReader

LEMMA ReadOneEvent ==
  ASSUME NEW r, Fine(r), NEW e, e.kind = "event", e.cut = FALSE, e.num \in Version,
         NEW v \in Version, Lookup(r.sources, e.id) = Some(v)
  PROVE  LET q == readEntry(r, e)
         IN  /\ Fine(q) /\ q.clock = r.clock /\ q.sources = r.sources
             /\ q.events = Append(r.events, [num |-> e.num, src |-> v,
                                             writer |-> NoName, clock |-> r.clock])
<1> DEFINE x == [num |-> e.num, src |-> v, writer |-> NoName, clock |-> r.clock]
<1>1. has(r.sources, e.id) /\ find(r.sources, e.id) = v
  BY LookupFinds
<1>2. r.writer = NoName
  BY DEF Fine, IsReader
<1>3. readEntry(r, e) = [r EXCEPT !.events = Append(@, x)]
  BY <1>1, <1>2 DEF readEntry, readEvent, Fine
<1>4. x \in ReadEvent /\ r.events \in Seq(ReadEvent)
  BY DEF ReadEvent, Fine, IsReader
<1> HIDE DEF x
<1>5. Append(r.events, x) \in Seq(ReadEvent)
  BY <1>4
<1>6. [r EXCEPT !.events = Append(@, x)] =
        [sources |-> r.sources, writer |-> NoName, clock |-> r.clock,
         events |-> Append(r.events, x), status |-> r.status]
  BY SMTT(30) DEF Fine, IsReader
<1>7. readEntry(r, e) = [sources |-> r.sources, writer |-> NoName, clock |-> r.clock,
                         events |-> Append(r.events, x), status |-> r.status]
  BY <1>3, <1>6
<1>8. Fine(readEntry(r, e))
  BY <1>5, <1>7 DEF Fine, IsReader
<1> QED BY <1>7, <1>8 DEF x

LEMMA ReadSources ==
  ASSUME NEW r, Fine(r), NEW s \in Sessions, NEW t \in Seq(Entry),
         \A i \in 1..Len(t) : t[i] = SourceEntry(i, <<s, i>>)
  PROVE  LET q == readAll(r, t)
         IN  /\ Fine(q) /\ q.clock = r.clock /\ q.events = r.events
             /\ \A k \in Nat : Lookup(q.sources, k) = IF k \in 1..Len(t) THEN Some(<<s, k>>)
                                                      ELSE Lookup(r.sources, k)
<1>n. PICK n \in Nat : n = Len(t)
  OBVIOUS
<1>1. PICK g : /\ g[0] = r
               /\ \A k \in 1..Len(t) : g[k] = readEntry(g[k - 1], t[k])
               /\ readAll(r, t) = g[Len(t)]
  BY ReadSteps
<1> DEFINE Good(q, m) ==
             /\ Fine(q) /\ q.clock = r.clock /\ q.events = r.events
             /\ \A k \in Nat : Lookup(q.sources, k) = IF k \in 1..m THEN Some(<<s, k>>)
                                                      ELSE Lookup(r.sources, k)
           N == {m \in Nat : m <= n => Good(g[m], m)}
<1>2. 0 \in N
  BY <1>1
<1>3. ASSUME NEW m \in Nat, m \in N
      PROVE  m + 1 \in N
  <2> SUFFICES ASSUME m + 1 <= n PROVE Good(g[m + 1], m + 1)
    OBVIOUS
  <2>1. Good(g[m], m) /\ m + 1 \in 1..Len(t) /\ (m + 1) - 1 = m /\ m + 1 \in Nat
    BY <1>3, <1>n
  <2>2. g[m + 1] = readEntry(g[m], SourceEntry(m + 1, <<s, m + 1>>))
    BY <1>1, <2>1
  <2>3. <<s, m + 1>> \in Version
    BY <2>1 DEF Version
  <2> DEFINE q == g[m + 1]
             p == g[m]
  <2>4. /\ Fine(q) /\ q.clock = p.clock /\ q.events = p.events
        /\ \A k \in Nat : Lookup(q.sources, k) = IF k = m + 1 THEN Some(<<s, m + 1>>)
                                                 ELSE Lookup(p.sources, k)
    <3> DEFINE z == readEntry(p, SourceEntry(m + 1, <<s, m + 1>>))
    <3>1. Fine(p) /\ m + 1 \in Nat /\ q = z
      BY <2>1, <2>2
    <3> HIDE DEF p, q
    <3>2. /\ Fine(z) /\ z.clock = p.clock /\ z.events = p.events
          /\ \A k \in Nat : Lookup(z.sources, k) = IF k = m + 1 THEN Some(<<s, m + 1>>)
                                                   ELSE Lookup(p.sources, k)
      BY <2>3, <3>1, ReadSource
    <3> QED BY <3>1, <3>2
  <2> HIDE DEF q, p
  <2>5. Fine(p) /\ p.clock = r.clock /\ p.events = r.events
    BY <2>1 DEF p
  <2>6. ASSUME NEW k \in Nat
        PROVE  Lookup(q.sources, k) = IF k \in 1..(m + 1) THEN Some(<<s, k>>) ELSE Lookup(r.sources, k)
    <3>1. Lookup(p.sources, k) = IF k \in 1..m THEN Some(<<s, k>>) ELSE Lookup(r.sources, k)
      BY <2>1 DEF p
    <3>2. CASE k = m + 1
      <4>1. k \in 1..(m + 1)
        BY <3>2
      <4> QED BY <3>2, <4>1, <2>4
    <3>3. CASE k # m + 1
      <4>1. k \in 1..(m + 1) <=> k \in 1..m
        BY <3>3
      <4> QED BY <3>1, <3>3, <4>1, <2>4
    <3> QED BY <3>2, <3>3
  <2> QED BY <2>4, <2>5, <2>6 DEF q
<1>4. \A m \in Nat : m \in N
  <2> HIDE DEF N
  <2> QED BY <1>2, <1>3, Reading!NatInd
<1>5. Good(g[n], n)
  BY <1>4
<1> QED BY <1>1, <1>5, <1>n

LEMMA ReadClocks ==
  ASSUME NEW r, Fine(r), NEW s \in Sessions, NEW t \in Seq(Entry), t # <<>>,
         \A i \in 1..Len(t) : t[i] = ClockEntry(<<s, i>>)
  PROVE  LET q == readAll(r, t)
         IN  Fine(q) /\ q.clock = <<s, Len(t)>> /\ q.events = r.events /\ q.sources = r.sources
<1>n. PICK n \in Nat : n = Len(t) /\ n > 0
  OBVIOUS
<1>1. PICK g : /\ g[0] = r
               /\ \A k \in 1..Len(t) : g[k] = readEntry(g[k - 1], t[k])
               /\ readAll(r, t) = g[Len(t)]
  BY ReadSteps
<1> DEFINE Good(q, m) == /\ Fine(q) /\ q.events = r.events /\ q.sources = r.sources
                         /\ m > 0 => q.clock = <<s, m>>
           N == {m \in Nat : m <= n => Good(g[m], m)}
<1>2. 0 \in N
  BY <1>1
<1>3. ASSUME NEW m \in Nat, m \in N
      PROVE  m + 1 \in N
  <2> SUFFICES ASSUME m + 1 <= n PROVE Good(g[m + 1], m + 1)
    OBVIOUS
  <2>1. Good(g[m], m) /\ m + 1 \in 1..Len(t) /\ (m + 1) - 1 = m /\ m + 1 \in Nat
    BY <1>3, <1>n
  <2>2. g[m + 1] = readEntry(g[m], ClockEntry(<<s, m + 1>>))
    BY <1>1, <2>1
  <2>3. <<s, m + 1>> \in Version
    BY <2>1 DEF Version
  <2> QED BY <2>1, <2>2, <2>3, ReadClock
<1>4. \A m \in Nat : m \in N
  <2> HIDE DEF N
  <2> QED BY <1>2, <1>3, Reading!NatInd
<1>5. Good(g[n], n)
  BY <1>4
<1> QED BY <1>1, <1>5, <1>n

\* Events whose sources and clock the reader has.
LEMMA ReadEvents ==
  ASSUME NEW r, Fine(r), GoodEvents(r.events), NEW s \in Sessions, NEW t \in Seq(Entry),
         r.clock = <<s, clocks[s]>>,
         \A k \in 1..Len(t) : OwnEvent(t[k], s) /\ t[k].id \in Nat /\ t[k].num \in Version
                              /\ Lookup(r.sources, t[k].id) = Some(<<s, t[k].id>>)
  PROVE  LET q == readAll(r, t)
         IN  Fine(q) /\ q.clock = r.clock /\ q.sources = r.sources /\ GoodEvents(q.events)
<1>n. PICK n \in Nat : n = Len(t)
  OBVIOUS
<1>1. PICK g : /\ g[0] = r
               /\ \A k \in 1..Len(t) : g[k] = readEntry(g[k - 1], t[k])
               /\ readAll(r, t) = g[Len(t)]
  BY ReadSteps
<1> DEFINE Good(q) == Fine(q) /\ q.clock = r.clock /\ q.sources = r.sources /\ GoodEvents(q.events)
           N == {m \in Nat : m <= n => Good(g[m])}
<1>2. 0 \in N
  BY <1>1
<1>3. ASSUME NEW m \in Nat, m \in N
      PROVE  m + 1 \in N
  <2> SUFFICES ASSUME m + 1 <= n PROVE Good(g[m + 1])
    OBVIOUS
  <2>1. Good(g[m]) /\ m + 1 \in 1..Len(t) /\ (m + 1) - 1 = m
    BY <1>3, <1>n
  <2> DEFINE e == t[m + 1]
             v == <<s, e.id>>
             p == g[m]
             x == [num |-> e.num, src |-> v, writer |-> NoName, clock |-> p.clock]
  <2>2. g[m + 1] = readEntry(p, e)
    BY <1>1, <2>1
  <2>3. /\ OwnEvent(e, s) /\ e.id \in Nat /\ e.num \in Version /\ Lookup(p.sources, e.id) = Some(v)
        /\ v \in Version
    BY <2>1 DEF Version
  <2> HIDE DEF e, v, p
  <2>4. Fine(p) /\ e.kind = "event" /\ e.cut = FALSE
    BY <2>1, <2>3 DEF OwnEvent, p
  <2>5. /\ Fine(g[m + 1]) /\ g[m + 1].clock = p.clock /\ g[m + 1].sources = p.sources
        /\ g[m + 1].events = Append(p.events, x)
    <3> DEFINE z == readEntry(p, e)
    <3>1. /\ Fine(z) /\ z.clock = p.clock /\ z.sources = p.sources
          /\ z.events = Append(p.events, [num |-> e.num, src |-> v,
                                          writer |-> NoName, clock |-> p.clock])
      BY <2>3, <2>4, ReadOneEvent
    <3> QED BY <2>2, <3>1
  <2>6. GoodEvents(Append(p.events, x))
    <3>1. /\ x.num[1] = s /\ x.src = <<s, logged[s][x.num[2]]>> /\ x.clock = <<s, clocks[s]>>
      BY <2>1, <2>3 DEF OwnEvent, v, p
    <3>2. p.events \in Seq(ReadEvent) /\ GoodEvents(p.events)
      BY <2>1 DEF Fine, IsReader, p
    <3> DEFINE w == p.events
    <3> HIDE DEF w, x
    <3>3. w \in Seq(ReadEvent) /\ GoodEvents(w)
      BY <3>2 DEF w
    <3>4. ASSUME NEW i \in DOMAIN Append(w, x)
          PROVE  (i \in DOMAIN w /\ Append(w, x)[i] = w[i]) \/ Append(w, x)[i] = x
      BY <3>3
    <3>5. GoodEvents(Append(w, x))
      BY <3>1, <3>3, <3>4 DEF GoodEvents
    <3> QED BY <3>5 DEF w
  <2> HIDE DEF x
  <2> QED BY <2>1, <2>5, <2>6 DEF p
<1>4. \A m \in Nat : m \in N
  <2> HIDE DEF N
  <2> QED BY <1>2, <1>3, Reading!NatInd
<1>5. Good(g[n])
  BY <1>4
<1> QED BY <1>1, <1>5, <1>n

-----------------------------------------------------------------------------
(* When no metadata was being added *)

LEMMA ClockBlockIs ==
  ASSUME NEW s \in Sessions, NEW n \in Nat
  PROVE  LET b == ClockBlock(s, n)
         IN  /\ b.type = "metadata" /\ b.session = s /\ b.whole
             /\ b.entries \in Seq(Entry) /\ Len(b.entries) = n
             /\ \A i \in 1..n : b.entries[i] = ClockEntry(<<s, i>>)
<1> DEFINE m == [size |-> Pieces * n]
<1>1. m.size \in Nat /\ m.size % Pieces = 0 /\ m.size \div Pieces = n /\ "clock" \in Kinds
  BY DEF Pieces, Kinds
<1> HIDE DEF m
<1>2. ClockBlock(s, n) = MetadataBlock(s, "clock", m)
  BY DEF ClockBlock, m
<1>3. MetadataBlock(s, "clock", m).type = "metadata" /\ MetadataBlock(s, "clock", m).session = s
  BY DEF MetadataBlock
<1> QED BY <1>1, <1>2, <1>3, MetadataBlockIs

LEMMA SourceBlockIs ==
  ASSUME NEW s \in Sessions, NEW n \in Nat
  PROVE  LET b == SourceBlock(s, n)
         IN  /\ b.type = "metadata" /\ b.session = s /\ b.whole
             /\ b.entries \in Seq(Entry) /\ Len(b.entries) = n
             /\ \A i \in 1..n : b.entries[i] = SourceEntry(i, <<s, i>>)
<1> DEFINE m == [size |-> Pieces * n]
<1>1. m.size \in Nat /\ m.size % Pieces = 0 /\ m.size \div Pieces = n /\ "source" \in Kinds
  BY DEF Pieces, Kinds
<1> HIDE DEF m
<1>2. SourceBlock(s, n) = MetadataBlock(s, "source", m)
  BY DEF SourceBlock, m
<1>3. MetadataBlock(s, "source", m).type = "metadata" /\ MetadataBlock(s, "source", m).session = s
  BY DEF MetadataBlock
<1> QED BY <1>1, <1>2, <1>3, MetadataBlockIs

\* A ClockSync is no source.
LEMMA BlocksDiffer ==
  ASSUME NEW s \in Sessions, NEW t \in Sessions, NEW n \in Nat, NEW m \in Nat, n > 0
  PROVE  ClockBlock(s, n) # SourceBlock(t, m)
<1> SUFFICES ASSUME ClockBlock(s, n) = SourceBlock(t, m) PROVE FALSE
  OBVIOUS
<1>1. Len(ClockBlock(s, n).entries) = n /\ ClockBlock(s, n).entries[1] = ClockEntry(<<s, 1>>)
  BY SMTT(30), ClockBlockIs
<1>2. Len(SourceBlock(t, m).entries) = m
  BY SourceBlockIs
<1>3. 1 \in 1..m
  BY <1>1, <1>2
<1>4. SourceBlock(t, m).entries[1] = SourceEntry(1, <<t, 1>>)
  BY <1>3, SourceBlockIs
<1>5. ClockEntry(<<s, 1>>).kind = SourceEntry(1, <<t, 1>>).kind
  BY <1>1, <1>4
<1> QED BY <1>5 DEF ClockEntry, SourceEntry

\* What the dump has of a buffer that is not being written to.
LEMMA RestingBlock ==
  ASSUME Types, MetaInv, NEW s \in Sessions, NEW k \in Kinds, Resting(s, k)
  PROVE  LET b == MetadataBlock(s, k, meta[<<s, k>>])
         IN  /\ b = IF k = "clock" THEN ClockBlock(s, entries(s, k)) ELSE SourceBlock(s, entries(s, k))
             /\ b \in MetadataBlocks
             /\ entries(s, k) \in Nat /\ (k = "clock" => entries(s, k) > 0)
             /\ b.entries # <<>> <=> entries(s, k) > 0
<1> DEFINE m == meta[<<s, k>>]
<1>1. MetaOK(s, k)
  BY DEF MetaInv
<1>2. m.magic /\ m.size = m.len /\ m.len % Pieces = 0 /\ (k = "clock" => m.len >= Pieces)
  BY <1>1 DEF MetaOK
<1>3. m.len \in Nat /\ <<s, k>> \in DOMAIN meta
  BY DEF Types
<1>4. PICK n \in Nat : n = entries(s, k)
  BY EntriesNat
<1>5. n = m.len \div Pieces
  BY <1>4 DEF entries
<1>6. m.size = Pieces * n /\ (k = "clock" => n > 0)
  BY <1>2, <1>3, <1>5 DEF Pieces
<1>7. MetadataBlock(s, k, m) = MetadataBlock(s, k, [size |-> Pieces * n])
  BY <1>6 DEF MetadataBlock
<1>8. MetadataBlock(s, k, m) \in MetadataBlocks
  <2>1. <<s, k>>[1] = s /\ <<s, k>>[2] = k /\ <<s, k>> \in {x \in DOMAIN meta : meta[x].magic}
    BY <1>2, <1>3
  <2> QED BY <2>1 DEF MetadataBlocks
<1> DEFINE b == MetadataBlock(s, k, m)
<1>9. b = IF k = "clock" THEN ClockBlock(s, n) ELSE SourceBlock(s, n)
  BY <1>7 DEF ClockBlock, SourceBlock, Kinds
<1> HIDE DEF b
<1>10. b.entries \in Seq(Entry) /\ Len(b.entries) = n
  BY <1>9, ClockBlockIs, SourceBlockIs
<1>11. b.entries # <<>> <=> n > 0
  BY <1>10
<1> QED BY <1>4, <1>6, <1>8, <1>9, <1>11 DEF b

LEMMA QuietCrash ==
  ASSUME Inv, Crash
  PROVE  QuietInv'
<1> SUFFICES ASSUME quiet'
             PROVE  /\ Fine(Read)' /\ GoodEvents(Read.events)'
                    /\ (\E n \in [Sessions -> Nat] : \A b \in Pending : QuietBlock(b, n))'
  BY DEF QuietInv
<1>1. /\ Types /\ MetaInv /\ FreedInv /\ ClocksInv /\ QueueInv /\ Running
      /\ buffers = {} /\ file = <<>>
  BY DEF Crash, Inv, Buffers, RunInv, Channels
<1>2. /\ dump' = Found /\ buffers' = {} /\ file' = <<>>
      /\ UNCHANGED <<logged, clocks>>
  BY <1>1 DEF Crash, Found
<1>3. Pending' = Found
  BY <1>2 DEF Pending
<1>4. Read' = NewReader
  BY <1>2, ReadNothing DEF Read
<1>5. Fine(Read)' /\ GoodEvents(Read.events)'
  <2>1. Fine(NewReader) /\ DOMAIN NewReader.events = {}
    BY NewReaderFine DEF NewReader
  <2> QED BY <2>1, <1>4 DEF GoodEvents, Fine, IsReader
<1>6. \A s \in Sessions, k \in Kinds : Resting(s, k)
  BY DEF Crash, Resting
<1>7. PICK n \in [Sessions -> Nat] : n = [s \in Sessions |-> entries(s, "source")]
  BY <1>1, EntriesNat DEF Kinds
<1>8. "clock" \in Kinds /\ "source" \in Kinds
  BY DEF Kinds
\* The metadata of a session, if they have entries, are found.
<1>9. ASSUME NEW s \in Sessions
      PROVE  /\ MetadataBlock(s, "clock", meta[<<s, "clock">>]) = ClockBlock(s, clocks[s])
             /\ MetadataBlock(s, "source", meta[<<s, "source">>]) = SourceBlock(s, n[s])
             /\ ClockBlock(s, clocks[s]) \in Found
             /\ n[s] > 0 => SourceBlock(s, n[s]) \in Found
  <2>1. clocks[s] = entries(s, "clock")
    BY <1>1, <1>6, <1>8 DEF ClocksInv
  <2>2. n[s] = entries(s, "source")
    BY <1>7
  <2>3. /\ MetadataBlock(s, "clock", meta[<<s, "clock">>]) = ClockBlock(s, clocks[s])
        /\ MetadataBlock(s, "clock", meta[<<s, "clock">>]) \in MetadataBlocks
        /\ MetadataBlock(s, "clock", meta[<<s, "clock">>]).entries # <<>>
    BY <1>1, <1>6, <1>8, <2>1, RestingBlock
  <2>4. /\ MetadataBlock(s, "source", meta[<<s, "source">>]) = SourceBlock(s, n[s])
        /\ MetadataBlock(s, "source", meta[<<s, "source">>]) \in MetadataBlocks
        /\ n[s] > 0 => MetadataBlock(s, "source", meta[<<s, "source">>]).entries # <<>>
    BY <1>1, <1>6, <1>8, <2>2, RestingBlock
  <2> QED BY <2>3, <2>4 DEF Found
<1>10. ASSUME NEW b \in Found
       PROVE  QuietBlock(b, n)'
  <2>1. b.entries # <<>>
    BY DEF Found
  <2>2. ASSUME NEW s \in Sessions, NEW k \in Kinds, b = MetadataBlock(s, k, meta[<<s, k>>])
        PROVE  QuietBlock(b, n)'
    <3>1. b.type = "metadata" /\ b.session = s
      BY <2>2 DEF MetadataBlock
    <3>2. b \in {ClockBlock(s, clocks[s]), SourceBlock(s, n[s])}
      BY <2>2, <1>9 DEF Kinds
    <3> QED BY <2>1, <3>1, <3>2, <1>2 DEF QuietBlock
  <2>3. ASSUME NEW q \in Queues, b = DataBlock(q)
        PROVE  QuietBlock(b, n)'
    <3>1. b.type = "data" /\ b.session = q[1] /\ b.entries = queue[q]
      BY <2>3 DEF DataBlock
    <3>2. q[1] \in Sessions /\ DOMAIN queue[q] = 1..Len(queue[q]) /\ Len(queue[q]) \in Nat
          /\ queue[q] \in Seq(Event)
      BY <1>1, QueueTypes
    <3>3. \A k \in 1..Len(queue[q]) : queue[q][k].id \in 1..n[q[1]]
      BY <1>1, <1>7, <3>2 DEF QueueInv, QueuedOK
    <3>4. n[q[1]] > 0
      <4>1. 1 \in 1..Len(queue[q])
        BY <2>1, <3>1, <3>2
      <4> QED BY <4>1, <3>2, <3>3
    <3>5. ClockKnown(q[1])' /\ SourcesKnown(q[1], n[q[1]])'
      BY <3>2, <3>4, <1>2, <1>3, <1>9 DEF ClockKnown, SourcesKnown
    <3> QED BY <2>1, <3>1, <3>2, <3>3, <3>5 DEF QuietBlock
  <2> QED BY <1>1, <2>2, <2>3, FoundIs
<1> QED BY <1>3, <1>5, <1>10

LEMMA QuietScan ==
  ASSUME Inv, QuietInv, Scan
  PROVE  QuietInv'
<1> SUFFICES ASSUME quiet'
             PROVE  /\ Fine(Read)' /\ GoodEvents(Read.events)'
                    /\ (\E n \in [Sessions -> Nat] : \A b \in Pending : QuietBlock(b, n))'
  BY DEF QuietInv
<1>1. ~Running /\ Blocks
  BY DEF Scan, Running, Inv, CrashInv
<1>2. Pending' = {b \in Pending : b.whole} /\ UNCHANGED <<file, logged, clocks, quiet>>
  BY <1>1, ScanBlocks
<1>3. Fine(Read) /\ GoodEvents(Read.events)
  BY <1>1, <1>2 DEF QuietInv
<1>4. PICK n \in [Sessions -> Nat] : \A b \in Pending : QuietBlock(b, n)
  BY <1>1, <1>2 DEF QuietInv
<1>5. Read' = Read
  BY <1>2 DEF Read
<1>6. Fine(Read)' /\ GoodEvents(Read.events)'
  BY <1>2, <1>3, <1>5 DEF Fine, IsReader, GoodEvents
<1>7. ASSUME NEW b \in Pending'
      PROVE  QuietBlock(b, n)'
  <2>1. QuietBlock(b, n) /\ b.session \in Sessions
    BY <1>1, <1>2, <1>4 DEF Blocks, BlockOK
  <2> DEFINE s == b.session
  <2>2. /\ ClockBlock(s, clocks[s]) \in Pending => ClockBlock(s, clocks[s]) \in Pending'
        /\ SourceBlock(s, n[s]) \in Pending => SourceBlock(s, n[s]) \in Pending'
    <3>1. clocks[s] \in Nat /\ n[s] \in Nat
      BY <2>1 DEF Inv, Types
    <3>2. ClockBlock(s, clocks[s]).whole /\ SourceBlock(s, n[s]).whole
      BY <2>1, <3>1, ClockBlockIs, SourceBlockIs
    <3> QED BY <3>2, <1>2
  <2>3. Reached(s) => Reached(s)'
    BY <1>2 DEF Reached
  <2> HIDE DEF s
  <2>4. ClockKnown(s) => ClockKnown(s)'
    BY <2>2, <2>3, <1>2, <1>5 DEF ClockKnown, s
  <2>5. SourcesKnown(s, n[s]) => SourcesKnown(s, n[s])'
    BY <2>2, <2>3, <1>2, <1>5 DEF SourcesKnown, s
  <2> QED BY <2>1, <2>4, <2>5, <1>2 DEF QuietBlock, s
<1> QED BY <1>6, <1>7

\* What the order of brecovery does: the metadata of a session come before its
\* events, and nothing of another session between them.
LEMMA QuietWrite ==
  ASSUME Inv, QuietInv, WriteBuffer
  PROVE  QuietInv'
<1> SUFFICES ASSUME quiet'
             PROVE  /\ Fine(Read)' /\ GoodEvents(Read.events)'
                    /\ (\E n \in [Sessions -> Nat] : \A b \in Pending : QuietBlock(b, n))'
  BY DEF QuietInv
<1>1. ~Running /\ Blocks /\ Types
  BY DEF WriteBuffer, Running, Inv, CrashInv
<1>2. PICK b \in Pending : /\ \A a \in Pending : ~cmp(a, b)
                           /\ file' = file \o b.entries
                           /\ Pending' = Pending \ {b}
                           /\ UNCHANGED <<logged, clocks, quiet>>
  BY <1>1, WriteIs
<1>3. Fine(Read) /\ GoodEvents(Read.events)
  BY <1>1, <1>2 DEF QuietInv
<1>4. PICK n \in [Sessions -> Nat] : \A d \in Pending : QuietBlock(d, n)
  BY <1>1, <1>2 DEF QuietInv
<1>s. PICK s \in Sessions : s = b.session
  BY <1>1 DEF Blocks, BlockOK
<1>t. PICK t \in Seq(Entry) : t = b.entries
  BY <1>1 DEF Blocks, BlockOK
<1>5. Read' = readAll(Read, t)
  <2>1. file \in Seq(Entry) /\ file' = file \o t
    BY <1>1, <1>2, <1>t DEF Blocks
  <2>2. readAll(NewReader, file \o t) = readAll(readAll(NewReader, file), t)
    BY <2>1, ReadConcat
  <2> QED BY <2>1, <2>2 DEF Read
<1>6. QuietBlock(b, n) /\ BlockOK(b) /\ t # <<>> /\ Len(t) \in Nat /\ DOMAIN t = 1..Len(t)
  BY <1>1, <1>4, <1>t DEF Blocks, QuietBlock
<1>c. \A u \in Sessions : clocks[u] \in Nat /\ n[u] \in Nat /\ u \in Nat
  BY <1>1, RecoveryAssumption DEF Types, RecoveryAssumption
\* Nothing is pending of a session before s.
<1>7. /\ \A a \in Pending : a.session \in Sessions /\ s <= a.session
      /\ \A u \in Sessions : (Reached(u) => Reached(u)') /\ (Reached(u) => u <= s)
  <2>1. ASSUME NEW a \in Pending
        PROVE  a.session \in Sessions /\ s <= a.session
    <3>1. a.session \in Sessions
      BY <1>1 DEF Blocks, BlockOK
    <3>2. ~(a.session < s)
      <4>1. ~cmp(a, b)
        BY <1>2
      <4> SUFFICES ASSUME a.session < s PROVE FALSE
        OBVIOUS
      <4>2. a.session # b.session /\ a.session < b.session
        BY <3>1, <1>c, <1>s
      <4> QED BY <4>1, <4>2 DEF cmp
    <3> QED BY <3>1, <3>2, <1>c
  <2>2. ASSUME NEW u \in Sessions, Reached(u)
        PROVE  Reached(u)' /\ u <= s
    BY <2>2, <1>2, <1>s DEF Reached
  <2> QED BY <2>1, <2>2
<1>8. Reached(s) /\ Reached(s)'
  <2>1. Reached(s)
    BY <1>7 DEF Reached
  <2> QED BY <2>1, <1>7
\* Another pending block of a session that was reached is of session s.
<1>9. ASSUME NEW d \in Pending, Reached(d.session)
      PROVE  d.session = s
  <2>1. d.session \in Sessions /\ s <= d.session /\ d.session <= s
    BY <1>7, <1>9
  <2> QED BY <2>1, <1>c
\* What the block changes for the others.
<1>10. ASSUME Fine(Read)', GoodEvents(Read.events)',
              \A d \in Pending' : d.type = "data" =>
                ClockKnown(d.session)' /\ SourcesKnown(d.session, n[d.session])'
       PROVE  /\ Fine(Read)' /\ GoodEvents(Read.events)'
              /\ (\E m \in [Sessions -> Nat] : \A d \in Pending : QuietBlock(d, m))'
  <2>1. ASSUME NEW d \in Pending'
        PROVE  QuietBlock(d, n)'
    <3>1. QuietBlock(d, n)
      BY <1>2, <1>4
    <3> QED BY <3>1, <1>2, <1>10 DEF QuietBlock
  <2> QED BY <2>1, <1>10
<1>11. CASE b.type = "metadata" /\ b = ClockBlock(s, clocks[s])
  <2>1. Len(t) = clocks[s] /\ \A i \in 1..Len(t) : t[i] = ClockEntry(<<s, i>>)
    <3>1. PICK c \in Nat : c = clocks[s]
      BY <1>c
    <3>2. Len(t) = c /\ \A i \in 1..c : t[i] = ClockEntry(<<s, i>>)
      BY <3>1, <1>11, <1>t, ClockBlockIs
    <3> QED BY <3>1, <3>2
  <2>2. /\ Fine(Read)' /\ Read'.clock = <<s, clocks[s]>> /\ Read'.events = Read.events
        /\ Read'.sources = Read.sources
    <3>1. LET q == readAll(Read, t)
          IN  Fine(q) /\ q.clock = <<s, Len(t)>> /\ q.events = Read.events /\ q.sources = Read.sources
      BY <2>1, <1>3, <1>6, ReadClocks
    <3>2. Fine(readAll(Read, t)) => Fine(Read)'
      BY <1>5 DEF Fine, IsReader
    <3> QED BY <3>1, <3>2, <2>1, <1>5
  <2>3. GoodEvents(Read.events)'
    BY <2>2, <1>2, <1>3 DEF GoodEvents
  <2>4. ASSUME NEW d \in Pending', d.type = "data"
        PROVE  ClockKnown(d.session)' /\ SourcesKnown(d.session, n[d.session])'
    <3> DEFINE u == d.session
    <3>1. d \in Pending /\ u \in Sessions /\ ClockKnown(u) /\ SourcesKnown(u, n[u])
      BY <2>4, <1>2, <1>4, <1>7 DEF QuietBlock
    <3>2. CASE u = s
      <4>1. ClockKnown(s)'
        BY <2>2, <1>2, <1>8 DEF ClockKnown
      <4> QED BY SMTT(30), <4>1, <3>2, <3>1, <2>2, <1>2, <1>7, <1>6, <1>11, <2>1, <1>c, BlocksDiffer DEF SourcesKnown
    <3>3. CASE u # s
      <4>1. ClockBlock(u, clocks[u]) \in Pending /\ ClockBlock(u, clocks[u]).session = u
        BY <3>1, <3>3, <1>9, <1>c, ClockBlockIs DEF ClockKnown
      <4>2. SourceBlock(u, n[u]) \in Pending /\ SourceBlock(u, n[u]).session = u
        BY <3>1, <3>3, <1>9, <1>c, SourceBlockIs DEF SourcesKnown
      <4> QED BY <4>1, <4>2, <3>3, <1>2, <1>s DEF ClockKnown, SourcesKnown
    <3> QED BY <3>2, <3>3
  <2> QED BY <2>2, <2>3, <2>4, <1>10
<1>12. CASE b.type = "metadata" /\ b = SourceBlock(s, n[s])
  <2>1. Len(t) = n[s] /\ \A i \in 1..Len(t) : t[i] = SourceEntry(i, <<s, i>>)
    BY <1>12, <1>c, <1>t, SourceBlockIs
  <2>2. /\ Fine(Read)' /\ Read'.clock = Read.clock /\ Read'.events = Read.events
        /\ \A id \in 1..n[s] : Lookup(Read'.sources, id) = Some(<<s, id>>)
    <3>1. LET q == readAll(Read, t)
          IN  /\ Fine(q) /\ q.clock = Read.clock /\ q.events = Read.events
              /\ \A k \in Nat : Lookup(q.sources, k) = IF k \in 1..Len(t) THEN Some(<<s, k>>)
                                                       ELSE Lookup(Read.sources, k)
      BY <2>1, <1>3, ReadSources
    <3>2. Fine(readAll(Read, t)) => Fine(Read)'
      BY <1>5 DEF Fine, IsReader
    <3>3. \A id \in 1..n[s] : id \in Nat
      BY <1>c
    <3> QED BY <3>1, <3>2, <3>3, <2>1, <1>5
  <2>3. GoodEvents(Read.events)'
    BY <2>2, <1>2, <1>3 DEF GoodEvents
  <2>4. ASSUME NEW d \in Pending', d.type = "data"
        PROVE  ClockKnown(d.session)' /\ SourcesKnown(d.session, n[d.session])'
    <3> DEFINE u == d.session
    <3>1. d \in Pending /\ u \in Sessions /\ ClockKnown(u) /\ SourcesKnown(u, n[u])
      BY <2>4, <1>2, <1>4, <1>7 DEF QuietBlock
    <3>2. CASE u = s
      <4>1. SourcesKnown(s, n[s])'
        BY <2>2, <1>8 DEF SourcesKnown
      <4>2. ASSUME ClockBlock(s, clocks[s]) \in Pending
            PROVE  ClockBlock(s, clocks[s]) # b
        <5>1. ClockBlock(s, clocks[s]).entries # <<>> /\ ClockBlock(s, clocks[s]).entries \in Seq(Entry)
              /\ Len(ClockBlock(s, clocks[s]).entries) = clocks[s]
          BY <4>2, <1>4, <1>c, ClockBlockIs DEF QuietBlock
        <5>2. clocks[s] > 0
          BY <5>1, <1>c
        <5> QED BY <5>2, <1>12, <1>c, BlocksDiffer
      <4>3. ClockKnown(s)'
        BY <4>2, <3>1, <3>2, <2>2, <1>2, <1>8 DEF ClockKnown
      <4> QED BY <4>1, <4>3, <3>2
    <3>3. CASE u # s
      <4>1. ClockBlock(u, clocks[u]) \in Pending /\ ClockBlock(u, clocks[u]).session = u
        BY <3>1, <3>3, <1>9, <1>c, ClockBlockIs DEF ClockKnown
      <4>2. SourceBlock(u, n[u]) \in Pending /\ SourceBlock(u, n[u]).session = u
        BY <3>1, <3>3, <1>9, <1>c, SourceBlockIs DEF SourcesKnown
      <4> QED BY <4>1, <4>2, <3>3, <1>2, <1>s DEF ClockKnown, SourcesKnown
    <3> QED BY <3>2, <3>3
  <2> QED BY <2>2, <2>3, <2>4, <1>10
<1>13. CASE b.type = "data"
  <2>1. ASSUME NEW a \in Pending, a.session = s
        PROVE  a.type # "metadata"
    BY <2>1, <1>2, <1>13, <1>s DEF cmp
  <2>2. ClockBlock(s, clocks[s]) \notin Pending /\ SourceBlock(s, n[s]) \notin Pending
    <3>1. /\ ClockBlock(s, clocks[s]).type = "metadata" /\ ClockBlock(s, clocks[s]).session = s
          /\ SourceBlock(s, n[s]).type = "metadata" /\ SourceBlock(s, n[s]).session = s
      BY <1>c, ClockBlockIs, SourceBlockIs
    <3> QED BY <3>1, <2>1
  <2>3. /\ Read.clock = <<s, clocks[s]>>
        /\ \A id \in 1..n[s] : Lookup(Read.sources, id) = Some(<<s, id>>)
    BY <2>2, <1>6, <1>13, <1>s DEF QuietBlock, ClockKnown, SourcesKnown
  <2>4. ASSUME NEW k \in 1..Len(t)
        PROVE  OwnEvent(t[k], s) /\ t[k].id \in Nat /\ t[k].num \in Version
               /\ Lookup(Read.sources, t[k].id) = Some(<<s, t[k].id>>)
    <3>1. OwnEvent(t[k], s) /\ t[k].id \in 1..n[s] /\ t[k] \in Entry
      BY <1>6, <1>13, <1>s, <1>t DEF BlockOK, QuietBlock
    <3>2. t[k].num \in Version
      BY <3>1 DEF OwnEvent, Entry, Version
    <3>3. t[k].id \in Nat
      BY <3>1, <1>c
    <3> QED BY <3>1, <3>2, <3>3, <2>3
  <2>5. /\ Fine(Read)' /\ Read'.clock = Read.clock /\ Read'.sources = Read.sources
        /\ GoodEvents(readAll(Read, t).events)
    <3>1. LET q == readAll(Read, t)
          IN  Fine(q) /\ q.clock = Read.clock /\ q.sources = Read.sources /\ GoodEvents(q.events)
      BY <2>3, <2>4, <1>3, ReadEvents
    <3>2. Fine(readAll(Read, t)) => Fine(Read)'
      BY <1>5 DEF Fine, IsReader
    <3> QED BY <3>1, <3>2, <1>5
  <2>6. GoodEvents(Read.events)'
    BY <2>5, <1>2, <1>5 DEF GoodEvents
  <2>7. ASSUME NEW d \in Pending', d.type = "data"
        PROVE  ClockKnown(d.session)' /\ SourcesKnown(d.session, n[d.session])'
    <3> DEFINE u == d.session
    <3>1. d \in Pending /\ u \in Sessions /\ ClockKnown(u) /\ SourcesKnown(u, n[u])
      BY <2>7, <1>2, <1>4, <1>7 DEF QuietBlock
    <3>2. ClockBlock(u, clocks[u]) # b /\ SourceBlock(u, n[u]) # b
      BY <3>1, <1>13, <1>c, ClockBlockIs, SourceBlockIs
    <3> HIDE DEF u
    <3>3. ClockKnown(u)'
      BY <3>1, <3>2, <2>5, <1>2, <1>7 DEF ClockKnown
    <3>4. SourcesKnown(u, n[u])'
      BY <3>1, <3>2, <2>5, <1>2, <1>7 DEF SourcesKnown
    <3> QED BY <3>3, <3>4 DEF u
  <2> QED BY <2>5, <2>6, <2>7, <1>10
<1>14. b.type = "metadata" => b \in {ClockBlock(s, clocks[s]), SourceBlock(s, n[s])}
  BY <1>6, <1>s DEF QuietBlock
<1>15. b.type \in {"metadata", "data"}
  BY <1>6 DEF BlockOK
<1> QED BY <1>11, <1>12, <1>13, <1>14, <1>15

LEMMA QuietNext ==
  ASSUME Inv, QuietInv, [Next]_vars
  PROVE  QuietInv'
<1>1. ASSUME Running, UNCHANGED phase
      PROVE  QuietInv'
  BY <1>1 DEF QuietInv, Running
<1>2. CASE Crash
  BY <1>2, QuietCrash
<1>3. CASE Scan
  BY <1>3, QuietScan
<1>4. CASE WriteBuffer
  BY <1>4, QuietWrite
<1>5. CASE \E s \in Sessions :
             \/ \E k \in Kinds : AddMetadata(s, k)
             \/ Insert(s) \/ SetMagic(s) \/ UpdateSize(s) \/ NextPiece(s)
             \/ ReleaseQueue(s)
  <2>1. Running /\ UNCHANGED phase
    BY <1>5 DEF AddMetadata, Insert, SetMagic, UpdateSize, NextPiece, ReleaseQueue, BeginPiece, recoveryVars
  <2> QED BY <2>1, <1>1
<1>6. CASE \E q \in Queues :
             \/ \E id \in KnownIds(q[1]) : Log(q, id)
             \/ CloseQueue(q) \/ ConsumeQueue(q)
  <2>1. Running /\ UNCHANGED phase
    BY <1>6 DEF Log, CloseQueue, ConsumeQueue, recoveryVars
  <2> QED BY <2>1, <1>1
<1>7. CASE UNCHANGED vars
  <2>1. UNCHANGED <<logged, clocks, phase, dump, buffers, file, quiet>>
    BY <1>7 DEF vars, recoveryVars
  <2>2. Pending' = Pending /\ Read' = Read
    BY <2>1 DEF Pending, Read
  <2>3. (Fine(Read) => Fine(Read)') /\ (GoodEvents(Read.events) => GoodEvents(Read.events)')
    BY <2>1, <2>2 DEF Fine, IsReader, GoodEvents
  <2>4. ASSUME NEW s \in Sessions, NEW m
        PROVE  (ClockKnown(s) => ClockKnown(s)') /\ (SourcesKnown(s, m) => SourcesKnown(s, m)')
    BY <2>1, <2>2 DEF ClockKnown, SourcesKnown, Reached
  <2>5. ASSUME ~Running, NEW n \in [Sessions -> Nat], NEW b \in Pending, QuietBlock(b, n)
        PROVE  QuietBlock(b, n)'
    <3>1. b.session \in Sessions
      BY <2>5 DEF Inv, CrashInv, Blocks, BlockOK
    <3> QED BY <3>1, <2>1, <2>4, <2>5 DEF QuietBlock
  <2>6. (\E n \in [Sessions -> Nat] : \A b \in Pending : QuietBlock(b, n)) /\ ~Running
          => (\E n \in [Sessions -> Nat] : \A b \in Pending : QuietBlock(b, n))'
    BY <2>2, <2>5
  <2> QED BY <2>1, <2>3, <2>6 DEF QuietInv, Running
<1> QED BY <1>2, <1>3, <1>4, <1>5, <1>6, <1>7 DEF Next

LEMMA QuietInvariant == Spec => [](Inv /\ QuietInv)
<1>1. Init => Inv /\ QuietInv
  BY InvInit DEF QuietInv, Running, Init
<1>2. Inv /\ QuietInv /\ [Next]_vars => (Inv /\ QuietInv)'
  BY InvNext, QuietNext
<1> QED BY <1>1, <1>2, PTL DEF Spec

\* If no metadata was being added at the crash, the recovered file is read
\* without an error, and every event with a source of its own session
\* (brecovery.cpp:326-331).
THEOREM RecoveryKeepsSources == Spec => []RecoveredEventsOwnSource
<1>1. Inv /\ QuietInv => RecoveredEventsOwnSource
  BY DEF QuietInv, RecoveredEventsOwnSource, Done, Running, Fine, GoodEvents
<1> QED BY <1>1, QuietInvariant, PTL

\* ... and with the last ClockSync of its session (VectorOutputStream.hpp:
\* 78-92, 121-127).
THEOREM RecoveryKeepsClocks == Spec => []RecoveredClocksLatest
<1>1. Inv /\ QuietInv => RecoveredClocksLatest
  BY DEF QuietInv, RecoveredClocksLatest, Done, Running, GoodEvents
<1> QED BY <1>1, QuietInvariant, PTL
=============================================================================
