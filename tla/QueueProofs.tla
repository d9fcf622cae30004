---------------------------- MODULE QueueProofs ----------------------------
(***************************************************************************)
(* Proofs about Queue for every capacity and every number of bytes.        *)
(*                                                                         *)
(* The inductive invariant describes the buffer from the writer's side:    *)
(* from the readIndex the writer knows (rView) to writeIndex runs a path,  *)
(* straight or over dataEnd and the beginning of the buffer, on which lie, *)
(* in this order, readIndex, the end of the reader's current view, the     *)
(* writeIndex the reader knows, and writeIndex.                            *)
(***************************************************************************)
EXTENDS Queue, SequenceTheorems, TLAPS

\* The path goes over the end of the data.
Wrapped == writeIndex < rView

\* The index i is on the path.
OnPath(i) ==
  IF Wrapped THEN i <= writeIndex \/ (rView <= i /\ i <= dataEnd)
             ELSE rView <= i /\ i <= writeIndex

\* Order along the path: the part at the beginning of the buffer comes last.
Place(i) == IF Wrapped /\ i <= writeIndex THEN Capacity + 1 + i ELSE i

\* How many bytes were committed when writeIndex was i.
Count(i) ==
  IF Wrapped /\ i <= writeIndex THEN rCount + dataEnd - rView + i
                                ELSE rCount + i - rView

\* Where the four indices of the two threads lie.
Indices ==
  /\ Wrapped => rView <= dataEnd
  /\ OnPath(readIndex) /\ OnPath(wView)
  /\ Place(readIndex) <= Place(wView)
  /\ Len(received) = Count(readIndex)
  /\ wCount = Count(wView)
  /\ committed = Count(writeIndex)

\* The bytes on the path are the committed ones.
Stored == \A i \in Slot : Unreleased(i) => buf[i] = Count(i) + 1

\* The writer's arena is off the path; what it holds is not committed yet.
Arena ==
  /\ writePos <= writeEnd
  /\ IF writeIndex <= writePos
     THEN /\ Wrapped => writeEnd < rView
          /\ pending = writePos - writeIndex
          /\ \A i \in Slot : writeIndex <= i /\ i < writePos
                               => buf[i] = committed + 1 + i - writeIndex
     ELSE /\ ~Wrapped /\ writeEnd < rView /\ dataEnd = writeIndex
          /\ pending = writePos
          /\ \A i \in Slot : i < writePos => buf[i] = committed + 1 + i

\* The view being read is still what beginRead would compute.
Viewed ==
  rpc # "idle" =>
    /\ OnPath(readEnd)
    /\ Place(readIndex) <= Place(readEnd)
    /\ Place(readEnd) <= Place(wView)
    /\ view = readResult(readEnd, readIndex, dataEnd)
    /\ view.size1 + view.size2 > 0

\* What the reader has copied out of its view so far.
Copied ==
  /\ rpc = "second" => view.size2 > 0 /\ Len(taken) = view.size1
  /\ rpc = "done" => Len(taken) = view.size1 + view.size2
  /\ rpc \in {"second", "done"} =>
       \A i \in 1..Len(taken) : taken[i] = Len(received) + i

IInv == TypeOK /\ Indices /\ Stored /\ Arena /\ Viewed /\ Copied

-----------------------------------------------------------------------------
(* What a reader finds *)

\* The three results of beginRead, field by field.
LEMMA ResultCases ==
  ASSUME NEW w \in Index, NEW r \in Index, NEW E \in Index,
         NEW v, v = readResult(w, r, E)
  PROVE  \/ r <= w /\ v.start = r /\ v.size1 = w - r /\ v.size2 = 0
         \/ w < r /\ r < E /\ v.start = r /\ v.size1 = E - r /\ v.size2 = w
         \/ w < r /\ E <= r /\ v.start = 0 /\ v.size1 = w /\ v.size2 = 0
<1>1. CASE r <= w
  BY <1>1, QueueAssumption DEF readResult, Index
<1>2. CASE ~(r <= w) /\ r < E
  BY <1>2, QueueAssumption DEF readResult, Index
<1>3. CASE ~(r <= w) /\ ~(r < E)
  BY <1>3, QueueAssumption DEF readResult, Index
<1> QED BY <1>1, <1>2, <1>3

\* Whatever indices a reader loads, its result stays inside the buffer.
LEMMA ResultInBuffer ==
  ASSUME NEW w \in Index, NEW r \in Index, NEW E \in Index
  PROVE  /\ readResult(w, r, E) \in Result
         /\ readResult(w, r, E).start + readResult(w, r, E).size1 <= Capacity
BY QueueAssumption DEF readResult, Result, Index

\* A reader that starts at readIndex and loads any writeIndex w further along
\* the path is given exactly the bytes committed between the two.
LEMMA ResultHoldsStream ==
  ASSUME TypeOK, Indices, Stored,
         NEW w \in Index, OnPath(w), Place(readIndex) <= Place(w),
         NEW v, v = readResult(w, readIndex, dataEnd)
  PROVE  /\ Len(received) + v.size1 + v.size2 = Count(w)
         /\ \A i \in 1..v.size1 : firstPart(v)[i] = Len(received) + i
         /\ \A i \in 1..v.size2 : secondPart(v)[i] = Len(received) + v.size1 + i
<1>1. /\ w \in 0..Capacity /\ readIndex \in 0..Capacity
      /\ dataEnd \in 0..Capacity /\ writeIndex \in 0..Capacity
      /\ rView \in 0..Capacity /\ rCount \in Nat
      /\ Capacity \in Nat
  BY QueueAssumption DEF TypeOK, Index
<1>2. \/ readIndex <= w /\ v.start = readIndex /\ v.size1 = w - readIndex
         /\ v.size2 = 0
      \/ w < readIndex /\ readIndex < dataEnd /\ v.start = readIndex
         /\ v.size1 = dataEnd - readIndex /\ v.size2 = w
      \/ w < readIndex /\ dataEnd <= readIndex /\ v.start = 0 /\ v.size1 = w
         /\ v.size2 = 0
  BY ResultCases DEF TypeOK
<1>3. /\ v.start \in Nat /\ v.size1 \in Nat /\ v.size2 \in Nat
      /\ v.start + v.size1 <= Capacity
      /\ Len(received) \in Nat
  <2>1. Len(received) \in Nat
    BY DEF TypeOK
  <2>2. CASE readIndex <= w
    BY <1>1, <1>2, <2>1, <2>2
  <2>3. CASE w < readIndex
    <3>1. \/ /\ readIndex < dataEnd /\ v.start = readIndex
             /\ v.size1 = dataEnd - readIndex /\ v.size2 = w
          \/ v.start = 0 /\ v.size1 = w /\ v.size2 = 0
      BY <1>1, <1>2, <2>3
    <3> QED BY <1>1, <2>1, <3>1
  <2> QED BY <1>1, <2>2, <2>3
\* readIndex is not after w: either on the same part of the path, or w has
\* gone over the end of the data and readIndex has not.
<1>4. \/ /\ readIndex <= w
         /\ Count(w) = Len(received) + w - readIndex
      \/ /\ Wrapped /\ w <= writeIndex /\ writeIndex < readIndex
         /\ rView <= readIndex /\ readIndex <= dataEnd
         /\ Count(w) = rCount + dataEnd - rView + w
         /\ Len(received) = rCount + readIndex - rView
  <2>1. CASE Wrapped
    <3>1. CASE w <= writeIndex /\ writeIndex < readIndex
      BY <1>1, <2>1, <3>1 DEF Indices, OnPath, Count
    <3>2. CASE w <= writeIndex /\ readIndex <= writeIndex
      BY <1>1, <2>1, <3>2 DEF Indices, Place, Count
    <3>3. CASE writeIndex < w
      BY <1>1, <2>1, <3>3 DEF Indices, Place, Count
    <3> QED BY <1>1, <3>1, <3>2, <3>3
  <2>2. CASE ~Wrapped
    BY <1>1, <2>2 DEF Indices, Place, Count
  <2> QED BY <2>1, <2>2
<1>5. Len(received) + v.size1 + v.size2 = Count(w)
  <2>1. PICK n \in Nat, s1 \in Nat, s2 \in Nat :
          n = Len(received) /\ s1 = v.size1 /\ s2 = v.size2
    BY <1>3
  <2>2. CASE readIndex <= w
    <3>1. s1 = w - readIndex /\ s2 = 0
      BY <1>1, <1>2, <2>1, <2>2
    <3>2. Count(w) = n + w - readIndex
      BY <1>1, <1>4, <2>1, <2>2
    <3> QED BY <1>1, <2>1, <3>1, <3>2
  <2>3. CASE w < readIndex
    <3>1. /\ readIndex <= dataEnd /\ rView <= readIndex
          /\ Count(w) = rCount + dataEnd - rView + w
          /\ n = rCount + readIndex - rView
      BY <1>1, <1>4, <2>1, <2>3
    <3>2. \/ readIndex < dataEnd /\ s1 = dataEnd - readIndex /\ s2 = w
          \/ dataEnd <= readIndex /\ s1 = w /\ s2 = 0
      BY <1>1, <1>2, <2>1, <2>3
    <3>3. n + s1 + s2 = Count(w)
      BY <1>1, <2>1, <3>1, <3>2
    <3> QED BY <2>1, <3>3
  <2> QED BY <1>1, <2>2, <2>3
<1>6. ASSUME NEW i \in 1..v.size1
      PROVE  firstPart(v)[i] = Len(received) + i
  <2>1. PICK a \in Nat, n \in Nat :
          a = v.start /\ n = v.size1 /\ a + n <= Capacity
    BY <1>3
  <2>2. i \in Int /\ 1 <= i /\ i <= n
    BY <2>1
  <2>3. PICK j \in Slot : j \in Int /\ j = a + i - 1
    BY <1>1, <2>1, <2>2 DEF Slot
  <2>4. Unreleased(j) /\ Count(j) + 1 = Len(received) + i
    <3>1. CASE readIndex <= w
      <4>1. a = readIndex /\ n = w - readIndex
        BY <1>1, <1>2, <2>1, <3>1
      <4>2. readIndex <= j /\ j < w /\ j + 1 = readIndex + i
        BY <1>1, <2>2, <2>3, <4>1
      <4>3. CASE Wrapped
        BY SMTT(30), <1>1, <1>3, <2>2, <2>3, <3>1, <4>2, <4>3
           DEF Indices, OnPath, Place, Count, Unreleased, Wrapped
      <4>4. CASE ~Wrapped
        BY SMTT(30), <1>1, <1>3, <2>2, <2>3, <3>1, <4>2, <4>4
           DEF Indices, OnPath, Place, Count, Unreleased, Wrapped
      <4> QED BY <4>3, <4>4
    <3>2. CASE w < readIndex
      <4>1. /\ writeIndex < rView /\ w <= writeIndex /\ writeIndex < readIndex
            /\ rView <= readIndex /\ readIndex <= dataEnd
            /\ Len(received) = rCount + readIndex - rView
        BY <1>1, <1>4, <3>2 DEF Wrapped
      <4>2. CASE readIndex < dataEnd
        <5>1. a = readIndex /\ n = dataEnd - readIndex
          BY <1>1, <1>2, <2>1, <3>2, <4>2
        <5>2. readIndex <= j /\ j < dataEnd /\ j + 1 = readIndex + i
          BY <1>1, <2>2, <2>3, <5>1
        <5> QED BY <1>1, <1>3, <2>2, <2>3, <4>1, <5>2 DEF Wrapped, Count, Unreleased
      <4>3. CASE dataEnd <= readIndex
        <5>1. a = 0 /\ n = w
          BY <1>1, <1>2, <2>1, <3>2, <4>3
        <5>2. 0 <= j /\ j < w /\ j + 1 = i
          BY <1>1, <2>2, <2>3, <5>1
        <5> QED BY <1>1, <1>3, <2>2, <2>3, <4>1, <4>3, <5>2 DEF Wrapped, Count, Unreleased
      <4> QED BY <1>1, <4>2, <4>3
    <3> QED BY <1>1, <3>1, <3>2
  <2>5. buf[j] = Count(j) + 1
    BY <2>3, <2>4 DEF Stored
  <2>6. firstPart(v)[i] = buf[j]
    BY <2>1, <2>2, <2>3 DEF firstPart
  <2> QED BY <2>4, <2>5, <2>6
<1>7. ASSUME NEW i \in 1..v.size2
      PROVE  secondPart(v)[i] = Len(received) + v.size1 + i
  <2>1. i - 1 \in Slot
    BY <1>1, <1>2, <1>3 DEF Slot
  <2>2. Unreleased(i - 1)
    BY <1>1, <1>2, <1>3, <1>4 DEF Indices, OnPath, Place, Wrapped, Unreleased
  <2>3. Count(i - 1) + 1 = Len(received) + v.size1 + i
    BY <1>1, <1>2, <1>3, <1>4 DEF Indices, OnPath, Place, Count, Wrapped
  <2>4. buf[i - 1] = Count(i - 1) + 1
    BY <2>1, <2>2 DEF Stored
  <2> QED BY <2>3, <2>4 DEF secondPart
<1> QED BY <1>5, <1>6, <1>7

-----------------------------------------------------------------------------
(* Race freedom follows from the geometry *)

\* Everything the invariant says of indices, as integers.
Bounds ==
  /\ Capacity \in Nat
  /\ writeIndex \in 0..Capacity /\ dataEnd \in 0..Capacity
  /\ readIndex \in 0..Capacity /\ rView \in 0..Capacity
  /\ wView \in 0..Capacity /\ readEnd \in 0..Capacity
  /\ writePos \in 0..Capacity /\ writeEnd \in 0..Capacity
  /\ rCount \in Nat /\ wCount \in Nat /\ pending \in Nat
  /\ committed \in Nat /\ Len(received) \in Nat /\ Len(taken) \in Nat

\* What the type invariant says in the arithmetic the provers need.
LEMMA TypeBounds == TypeOK => Bounds
BY QueueAssumption DEF TypeOK, Index, Bounds

\* A position of the buffer is an integer below the capacity.
LEMMA SlotBounds == \A i \in Slot : i \in Int /\ 0 <= i /\ i < Capacity
BY QueueAssumption DEF Slot

\* The writer's arena and the bytes the reader may be copying are disjoint.
LEMMA ArenaIsFree == TypeOK /\ Indices /\ Arena => NoRacyByte
<1> SUFFICES ASSUME TypeOK, Indices, Arena, NEW i \in Slot,
                    writePos <= i, i < writeEnd, Unreleased(i)
             PROVE  FALSE
  BY DEF NoRacyByte
<1>0. Bounds
  BY TypeBounds
<1>1. i \in Int
  BY SlotBounds
<1>2. CASE writeIndex <= writePos
  BY <1>1, <1>2, <1>0 DEF Bounds, Arena, Indices, Wrapped, Unreleased
<1>3. CASE ~(writeIndex <= writePos)
  BY <1>1, <1>3, <1>0 DEF Bounds, Arena, Indices, Wrapped, Unreleased
<1> QED BY <1>2, <1>3

\* Nothing on the path comes after writeIndex.
LEMMA WriteIndexIsLast ==
  ASSUME TypeOK, Indices
  PROVE  /\ OnPath(writeIndex)
         /\ \A i \in Index : OnPath(i) => Place(i) <= Place(writeIndex)
<1>0. Bounds
  BY TypeBounds
<1> QED BY <1>0 DEF Bounds, OnPath, Place, Wrapped, Index

-----------------------------------------------------------------------------
(* The invariant holds initially and every step keeps it *)

\* A constructed queue satisfies the invariant: the path is empty.
LEMMA InitInv == Init => IInv
<1> SUFFICES ASSUME Init PROVE IInv
  OBVIOUS
<1> USE QueueAssumption DEF Init
<1>1. TypeOK
  BY DEF TypeOK, Index, Slot, Result
<1>2. Indices
  BY DEF Indices, OnPath, Place, Count, Wrapped
<1>3. Stored /\ Arena
  BY DEF Stored, Unreleased, Arena, Wrapped, Slot
<1>4. Viewed /\ Copied
  BY DEF Viewed, Copied
<1> QED BY <1>1, <1>2, <1>3, <1>4 DEF IInv

\* maximizeWriteCapacity: dataEnd moves only while the path is straight.
LEMMA BeginWriteInv == ASSUME IInv, NEW size \in Nat, BeginWrite(size) PROVE IInv'
<1>0. Bounds
  BY TypeBounds DEF IInv
<1> USE DEF IInv
<1>1. /\ writePos' = arenaBegin(writeIndex, rView)
      /\ writeEnd' = arenaEnd(writeIndex, rView)
      /\ dataEnd' = IF wraps(writeIndex, rView) THEN writeIndex ELSE dataEnd
      /\ pending' = 0
  BY DEF BeginWrite, maximizeWriteCapacity
<1>2. UNCHANGED <<writeIndex, readIndex, buf, rView, rCount, committed, wView, wCount,
                  rpc, view, readEnd, taken, received>>
  BY DEF BeginWrite, readerVars
<1>3. Wrapped => dataEnd' = dataEnd
  BY <1>1, <1>0 DEF Bounds, wraps, Wrapped
<1>4. TypeOK'
  <2>1. writePos' \in Index /\ writeEnd' \in Index /\ dataEnd' \in Index
    <3>1. CASE wraps(writeIndex, rView)
      BY <1>1, <3>1, <1>0 DEF Bounds, arenaBegin, arenaEnd, wraps, rightSize, leftSize, Index
    <3>2. CASE ~wraps(writeIndex, rView)
      BY <1>1, <3>2, <1>0 DEF Bounds, arenaBegin, arenaEnd, Index
    <3> QED BY <3>1, <3>2
  <2>2. refused' \in Nat
    BY DEF BeginWrite
  <2> QED BY <1>1, <1>2, <2>1, <2>2 DEF TypeOK
<1>5. Indices'
  BY <1>2, <1>3 DEF Indices, OnPath, Place, Count, Wrapped
<1>6. Stored'
  BY <1>2, <1>3, <1>0 DEF Bounds, Stored, Unreleased, Count, Wrapped
<1>7. Arena'
  <2>1. CASE wraps(writeIndex, rView)
    <3>1. /\ writePos' = 0 /\ writeEnd' = rView - 1 /\ dataEnd' = writeIndex
          /\ pending' = 0
      BY <1>1, <2>1 DEF arenaBegin, arenaEnd, leftSize
    <3>2. rView <= writeIndex /\ 1 < rView
      BY <2>1, <1>0 DEF Bounds, wraps, rightSize, leftSize
    <3>3. /\ ~(writeIndex' <= writePos') /\ writePos' <= writeEnd'
          /\ ~Wrapped' /\ writeEnd' < rView' /\ dataEnd' = writeIndex'
          /\ pending' = writePos'
      BY <1>2, <3>1, <3>2, <1>0 DEF Bounds, Wrapped
    <3>4. \A i \in Slot : ~(i < writePos')
      BY <3>1, SlotBounds
    <3> QED BY <3>3, <3>4 DEF Arena
  <2>2. CASE ~wraps(writeIndex, rView)
    <3>1. /\ writePos' = writeIndex /\ pending' = 0
          /\ writeEnd' = IF writeIndex < rView THEN rView - 1 ELSE Capacity
      BY <1>1, <2>2 DEF arenaBegin, arenaEnd
    <3>2. /\ writeIndex' <= writePos' /\ writePos' <= writeEnd'
          /\ Wrapped' => writeEnd' < rView'
          /\ pending' = writePos' - writeIndex'
      BY <1>0, <1>2, <3>1 DEF Bounds, Wrapped
    <3>3. \A i \in Slot : ~(writeIndex' <= i /\ i < writePos')
      BY <1>0, <1>2, <3>1, SlotBounds DEF Bounds
    <3> QED BY <3>2, <3>3 DEF Arena
  <2> QED BY <2>1, <2>2
<1>8. Viewed'
  <2>1. CASE Wrapped
    BY <1>2, <1>3, <2>1 DEF Viewed, OnPath, Place, Wrapped
  <2>2. CASE ~Wrapped
    <3>1. rpc # "idle" => readIndex <= readEnd
      BY <2>2 DEF Viewed, Place
    <3> QED BY <1>2, <2>2, <3>1 DEF Viewed, OnPath, Place, Wrapped, readResult
  <2> QED BY <2>1, <2>2
<1>9. Copied'
  BY <1>2 DEF Copied
<1> QED BY <1>4, <1>5, <1>6, <1>7, <1>8, <1>9

\* writeBuffer only touches the arena, which is off the path.
LEMMA WriteBufferInv == ASSUME IInv, NEW n \in Nat, WriteBuffer(n) PROVE IInv'
<1>0. Bounds
  BY TypeBounds DEF IInv
<1> USE DEF IInv
<1>1. /\ buf' = [i \in Slot |-> IF writePos <= i /\ i < writePos + n
                               THEN committed + pending + 1 + i - writePos
                               ELSE buf[i]]
  BY DEF WriteBuffer
<1>7. /\ writePos' = writePos + n /\ pending' = pending + n
      /\ n <= writeEnd - writePos
  BY DEF WriteBuffer, writeCapacity
<1>8. writePos + n \in Nat /\ writePos + n <= writeEnd
  BY <1>7, <1>0 DEF Bounds
<1>2. UNCHANGED <<writeIndex, dataEnd, readIndex, rView, rCount, writeEnd, committed,
                  refused, wView, wCount, rpc, view, readEnd, taken, received>>
  BY DEF WriteBuffer, readerVars
<1>3. TypeOK'
  <2>1. writePos' \in Index /\ pending' \in Nat
    BY <1>7, <1>8, <1>0 DEF Bounds, Index
  <2>2. buf' \in [Slot -> Nat]
    <3>1. ASSUME NEW i \in Slot
          PROVE  (IF writePos <= i /\ i < writePos + n
                  THEN committed + pending + 1 + i - writePos ELSE buf[i]) \in Nat
      <4>1. i \in Int
        BY SlotBounds
      <4>2. writePos <= i => committed + pending + 1 + i - writePos \in Nat
        BY <1>0, <4>1 DEF Bounds
      <4>3. buf[i] \in Nat
        BY DEF TypeOK
      <4> QED BY <4>2, <4>3
    <3> QED BY <1>1, <3>1
  <2> QED BY <1>2, <2>1, <2>2 DEF TypeOK
<1>4. Indices' /\ Viewed' /\ Copied'
  BY <1>2 DEF Indices, Viewed, Copied, OnPath, Place, Count, Wrapped
<1>5. Stored'
  <2> SUFFICES ASSUME NEW i \in Slot, Unreleased(i)'
               PROVE  buf'[i] = Count(i)' + 1
    BY DEF Stored
  <2>1. Unreleased(i) /\ Count(i)' = Count(i)
    BY <1>2 DEF Unreleased, Count, Wrapped
  <2>2. ~(writePos <= i /\ i < writeEnd)
    BY <2>1, ArenaIsFree DEF NoRacyByte
  <2>3. i \in Int
    BY SlotBounds
  <2>4. ~(writePos <= i /\ i < writePos + n)
    <3>1. i < writePos + n => i < writeEnd
      BY <1>0, <1>8, <2>3 DEF Bounds
    <3> QED BY <2>2, <3>1
  <2> QED BY <1>1, <2>1, <2>4 DEF Stored
<1>6. Arena'
  <2>1. /\ writePos' <= writeEnd' /\ writeIndex' = writeIndex
        /\ Wrapped' = Wrapped /\ writePos <= writePos'
    BY <1>2, <1>7, <1>8, <1>0 DEF Bounds, Wrapped
  <2>2. ASSUME NEW i \in Slot
        PROVE  /\ writePos <= i /\ i < writePos + n
                    => buf'[i] = committed + pending + 1 + i - writePos
               /\ i < writePos => buf'[i] = buf[i]
    <3>1. i \in Int
      BY SlotBounds
    <3>2. i < writePos => ~(writePos <= i)
      BY <1>0, <3>1 DEF Bounds
    <3> QED BY <1>1, <3>2
  <2>3. CASE writeIndex <= writePos
    <3>1. /\ writeIndex' <= writePos'
          /\ Wrapped' => writeEnd' < rView'
      BY <1>2, <1>7, <2>1, <2>3, <1>0 DEF Bounds, Arena
    <3>3. pending' = writePos' - writeIndex'
      <4>1. pending = writePos - writeIndex
        BY <2>3 DEF Arena
      <4> QED BY <1>7, <2>1, <4>1, <1>0 DEF Bounds
    <3>2. ASSUME NEW i \in Slot, writeIndex <= i, i < writePos + n
          PROVE  buf'[i] = committed + 1 + i - writeIndex
      <4>1. CASE i < writePos
        BY <2>2, <2>3, <3>2, <4>1 DEF Arena
      <4>2. CASE writePos <= i
        <5>1. buf'[i] = committed + pending + 1 + i - writePos
          BY <2>2, <3>2, <4>2
        <5>2. pending = writePos - writeIndex
          BY <2>3 DEF Arena
        <5>3. i \in Int
          BY SlotBounds
        <5> QED BY <5>1, <5>2, <5>3, <1>0 DEF Bounds
      <4> QED BY <1>0, <4>1, <4>2, SlotBounds DEF Bounds
    <3> QED BY <1>2, <1>7, <2>1, <3>1, <3>2, <3>3 DEF Arena
  <2>4. CASE ~(writeIndex <= writePos)
    <3>1. /\ ~(writeIndex' <= writePos')
          /\ ~Wrapped' /\ writeEnd' < rView' /\ dataEnd' = writeIndex'
          /\ pending' = writePos'
      BY <1>2, <1>7, <2>1, <2>4, <1>0 DEF Bounds, Arena, Wrapped
    <3>2. ASSUME NEW i \in Slot, i < writePos + n
          PROVE  buf'[i] = committed + 1 + i
      <4>1. CASE i < writePos
        BY <2>2, <2>4, <3>2, <4>1 DEF Arena
      <4>2. CASE writePos <= i
        <5>1. buf'[i] = committed + pending + 1 + i - writePos
          BY <2>2, <3>2, <4>2
        <5>2. pending = writePos
          BY <2>4 DEF Arena
        <5>3. i \in Int
          BY SlotBounds
        <5> QED BY <5>1, <5>2, <5>3, <1>0 DEF Bounds
      <4> QED BY <1>0, <4>1, <4>2, SlotBounds DEF Bounds
    <3> QED BY <1>2, <1>7, <2>1, <3>1, <3>2 DEF Arena
  <2> QED BY <2>3, <2>4
<1> QED BY <1>3, <1>4, <1>5, <1>6

\* endWrite extends the path, over the end of the data when the arena is at
\* the beginning of the buffer; nothing on it moves.
LEMMA EndWriteInv == ASSUME IInv, EndWrite PROVE IInv'
<1>0. Bounds
  BY TypeBounds DEF IInv
<1> USE DEF IInv
<1>1. /\ writeIndex' = writePos /\ committed' = committed + pending
      /\ pending' = 0
  BY DEF EndWrite
<1>2. UNCHANGED <<dataEnd, readIndex, buf, rView, rCount, writePos, writeEnd, refused,
                  wView, wCount, rpc, view, readEnd, taken, received>>
  BY DEF EndWrite, readerVars
<1>3. TypeOK'
  <2>1. writeIndex' \in Index /\ committed' \in Nat /\ pending' \in Nat
    BY <1>0, <1>1 DEF Bounds, Index
  <2> QED BY <1>2, <2>1 DEF TypeOK
<1>4. ASSUME NEW i \in Int, OnPath(i)
      PROVE  OnPath(i)' /\ Place(i)' = Place(i) /\ Count(i)' = Count(i)
  <2>1. CASE writeIndex <= writePos /\ ~Wrapped
    BY <1>0, <1>1, <1>2, <1>4, <2>1 DEF Bounds, OnPath, Place, Count, Wrapped
  <2>2. CASE writeIndex <= writePos /\ Wrapped
    <3>1. writePos < rView
      BY <1>0, <2>2 DEF Arena, Bounds
    <3> QED BY <1>0, <1>1, <1>2, <1>4, <2>2, <3>1 DEF Bounds, OnPath, Place, Count, Wrapped
  <2>3. CASE ~(writeIndex <= writePos)
    <3>1. ~Wrapped /\ writePos < rView /\ dataEnd = writeIndex
      BY <1>0, <2>3 DEF Arena, Bounds
    <3> QED BY <1>0, <1>1, <1>2, <1>4, <2>3, <3>1 DEF Bounds, OnPath, Place, Count, Wrapped
  <2> QED BY <2>1, <2>2, <2>3
<1>5. /\ Wrapped' => rView' <= dataEnd'
      /\ committed' = Count(writeIndex)'
  <2>1. CASE writeIndex <= writePos
    <3>1. /\ Wrapped' => Wrapped
          /\ Wrapped => writePos < rView
          /\ pending = writePos - writeIndex
      BY <1>0, <1>1, <1>2, <2>1 DEF Arena, Bounds, Wrapped
    <3> QED BY <1>0, <1>1, <1>2, <2>1, <3>1 DEF Indices, Bounds, Count, Wrapped
  <2>2. CASE ~(writeIndex <= writePos)
    <3>1. /\ ~Wrapped /\ writePos < rView /\ dataEnd = writeIndex
          /\ pending = writePos
      BY <1>0, <2>2 DEF Arena, Bounds
    <3> QED BY <1>0, <1>1, <1>2, <2>2, <3>1 DEF Indices, Bounds, Count, Wrapped
  <2> QED BY <2>1, <2>2
<1>6. Indices'
  BY <1>0, <1>2, <1>4, <1>5 DEF Indices, Bounds
<1>7. Stored'
  <2> SUFFICES ASSUME NEW i \in Slot, Unreleased(i)'
               PROVE  buf[i] = Count(i)' + 1
    BY <1>2 DEF Stored
  <2>1. i \in Int /\ 0 <= i
    BY SlotBounds
  <2>2. CASE Unreleased(i)
    <3>1. OnPath(i)
      BY <1>0, <2>1, <2>2 DEF Unreleased, OnPath, Wrapped, Bounds
    <3> QED BY <1>4, <2>1, <2>2, <3>1 DEF Stored
  <2>3. CASE ~Unreleased(i) /\ writeIndex <= writePos
    <3>1. /\ writeIndex <= i /\ i < writePos
          /\ Wrapped' = Wrapped
      BY <1>0, <1>1, <1>2, <2>1, <2>3 DEF Unreleased, Arena, Wrapped, Bounds
    <3>2. buf[i] = committed + 1 + i - writeIndex
      BY <2>3, <3>1 DEF Arena
    <3>3. Count(i)' = committed + i - writeIndex
      BY <1>0, <1>1, <1>2, <2>1, <3>1 DEF Indices, Count, Wrapped, Bounds
    <3> QED BY <1>0, <2>1, <3>2, <3>3 DEF Bounds
  <2>4. CASE ~Unreleased(i) /\ ~(writeIndex <= writePos)
    <3>1. /\ ~Wrapped /\ Wrapped' /\ dataEnd = writeIndex
          /\ i < writePos
      BY <1>0, <1>1, <1>2, <2>1, <2>4 DEF Unreleased, Arena, Wrapped, Bounds
    <3>2. buf[i] = committed + 1 + i
      BY <2>4, <3>1 DEF Arena
    <3>3. Count(i)' = committed + i
      BY <1>0, <1>1, <1>2, <2>1, <3>1 DEF Indices, Count, Wrapped, Bounds
    <3> QED BY <1>0, <2>1, <3>2, <3>3 DEF Bounds
  <2> QED BY <2>2, <2>3, <2>4
<1>8. Arena'
  <2>1. /\ writeIndex' <= writePos' /\ writePos' <= writeEnd'
        /\ Wrapped' => writeEnd' < rView'
        /\ pending' = writePos' - writeIndex'
    <3>1. CASE writeIndex <= writePos
      BY <1>0, <1>1, <1>2, <3>1 DEF Arena, Bounds, Wrapped
    <3>2. CASE ~(writeIndex <= writePos)
      BY <1>0, <1>1, <1>2, <3>2 DEF Arena, Bounds, Wrapped
    <3> QED BY <3>1, <3>2
  <2>2. \A i \in Slot : ~(writeIndex' <= i /\ i < writePos')
    BY <1>0, <1>1, <1>2, SlotBounds DEF Bounds
  <2> QED BY <2>1, <2>2 DEF Arena
<1>9. Viewed'
  <2>1. readEnd \in Int /\ readIndex \in Int /\ wView \in Int
    BY <1>0 DEF Bounds
  <2> QED BY <1>2, <1>4, <2>1 DEF Viewed, Indices
<1>10. Copied'
  BY <1>2 DEF Copied
<1> QED BY <1>3, <1>6, <1>7, <1>8, <1>9, <1>10

\* A readIndex that arrives is on the path; the path now starts there.
LEMMA ReadIndexArrivesInv == ASSUME IInv, ReadIndexArrives PROVE IInv'
<1>0. Bounds
  BY TypeBounds DEF IInv
<1> USE DEF IInv
<1>1. rView' = readIndex /\ rCount' = Len(received)
  BY DEF ReadIndexArrives
<1>2. UNCHANGED <<writeIndex, dataEnd, readIndex, buf, writePos, writeEnd, pending,
                  committed, refused, wView, wCount, rpc, view, readEnd, taken, received>>
  BY DEF ReadIndexArrives, readerVars
<1>3. TypeOK'
  <2>1. rView' \in Index /\ rCount' \in Nat
    BY <1>0, <1>1 DEF Bounds, Index
  <2> QED BY <1>2, <2>1 DEF TypeOK
\* The three places where readIndex can be.
<1>4. \/ ~Wrapped /\ rView <= readIndex /\ readIndex <= writeIndex /\ ~Wrapped'
         /\ Len(received) = rCount + readIndex - rView
      \/ Wrapped /\ readIndex <= writeIndex /\ ~Wrapped'
         /\ Len(received) = rCount + dataEnd - rView + readIndex
      \/ Wrapped /\ writeIndex < readIndex /\ rView <= readIndex
         /\ readIndex <= dataEnd /\ Wrapped'
         /\ Len(received) = rCount + readIndex - rView
  BY <1>0, <1>1, <1>2 DEF Indices, OnPath, Count, Wrapped, Bounds
<1>5. ASSUME NEW i \in Int, i <= Capacity, OnPath(i), Place(readIndex) <= Place(i)
      PROVE  OnPath(i)' /\ Count(i)' = Count(i)
  BY <1>0, <1>1, <1>2, <1>4, <1>5 DEF OnPath, Place, Count, Wrapped, Bounds
<1>6. ASSUME NEW i \in Int, i <= Capacity, OnPath(i), Place(readIndex) <= Place(i),
             NEW k \in Int, k <= Capacity, OnPath(k), Place(i) <= Place(k)
      PROVE  Place(i)' <= Place(k)'
  BY <1>0, <1>1, <1>2, <1>4, <1>6 DEF OnPath, Place, Wrapped, Bounds
<1>7. /\ OnPath(writeIndex) /\ Place(readIndex) <= Place(writeIndex)
      /\ Wrapped' => rView' <= dataEnd'
  BY <1>0, <1>1, <1>2, <1>4 DEF Bounds, OnPath, Place, Wrapped
<1>8. Indices'
  <2>1. /\ readIndex \in Int /\ wView \in Int /\ writeIndex \in Int
        /\ readIndex <= Capacity /\ wView <= Capacity /\ writeIndex <= Capacity
        /\ Place(readIndex) <= Place(readIndex)
    BY <1>0 DEF Bounds, Place
  <2>2. OnPath(readIndex)' /\ Count(readIndex)' = Count(readIndex)
    BY <1>2, <1>5, <2>1 DEF Indices
  <2>3. OnPath(wView)' /\ Count(wView)' = Count(wView)
    BY <1>2, <1>5, <2>1 DEF Indices
  <2>4. Place(readIndex)' <= Place(wView)'
    BY <1>2, <1>6, <2>1 DEF Indices
  <2>5. Count(writeIndex)' = Count(writeIndex)
    BY <1>2, <1>5, <1>7, <2>1
  <2> QED BY <1>2, <1>7, <2>2, <2>3, <2>4, <2>5 DEF Indices
<1>9. Stored'
  <2> SUFFICES ASSUME NEW i \in Slot, Unreleased(i)'
               PROVE  buf[i] = Count(i)' + 1
    BY <1>2 DEF Stored
  <2>1. i \in Int /\ 0 <= i /\ i <= Capacity
    BY <1>0, SlotBounds DEF Bounds
  <2>2. Unreleased(i) /\ OnPath(i) /\ Place(readIndex) <= Place(i)
    BY <1>0, <1>1, <1>2, <1>4, <2>1 DEF Unreleased, OnPath, Place, Wrapped, Bounds
  <2> QED BY <1>2, <1>5, <2>1, <2>2 DEF Stored
<1>10. Arena'
  <2>1. Wrapped' => Wrapped /\ rView <= rView'
    BY <1>0, <1>1, <1>2, <1>4 DEF Bounds
  <2>2. ~Wrapped => ~Wrapped' /\ rView <= rView'
    BY <1>0, <1>1, <1>2, <1>4 DEF Bounds
  <2>3. rView' \in Int
    BY <1>0, <1>1 DEF Bounds
  <2> QED BY <1>0, <1>2, <2>1, <2>2, <2>3 DEF Arena, Bounds
<1>11. Viewed'
  <2>1. /\ readIndex \in Int /\ wView \in Int /\ readEnd \in Int
        /\ readIndex <= Capacity /\ wView <= Capacity /\ readEnd <= Capacity
        /\ Place(readIndex) <= Place(readIndex)
    BY <1>0 DEF Bounds, Place
  <2> SUFFICES ASSUME rpc # "idle" PROVE Viewed'
    BY <1>2 DEF Viewed
  <2>2. OnPath(readEnd)'
    BY <1>2, <1>5, <2>1 DEF Viewed
  <2>3. Place(readIndex)' <= Place(readEnd)'
    BY <1>2, <1>6, <2>1 DEF Viewed, Indices
  <2>4. Place(readEnd)' <= Place(wView)'
    BY <1>2, <1>6, <2>1 DEF Viewed, Indices
  <2> QED BY <1>2, <2>2, <2>3, <2>4 DEF Viewed
<1>12. Copied'
  BY <1>2 DEF Copied
<1> QED BY <1>3, <1>8, <1>9, <1>10, <1>11, <1>12

-----------------------------------------------------------------------------
(* The reader's steps keep the invariant *)

\* What a reader in the middle of a read holds, and may copy.
LEMMA HeldView ==
  ASSUME IInv, rpc # "idle"
  PROVE  /\ view.start \in Nat /\ view.size1 \in Nat /\ view.size2 \in Nat
         /\ view.start + view.size1 <= Capacity /\ view.size2 <= Capacity
         /\ Len(received) + view.size1 + view.size2 = Count(readEnd)
         /\ \A i \in 1..view.size1 : firstPart(view)[i] = Len(received) + i
         /\ \A i \in 1..view.size2 :
              secondPart(view)[i] = Len(received) + view.size1 + i
<1>1. /\ TypeOK /\ Indices /\ Stored /\ readEnd \in Index /\ readIndex \in Index
      /\ dataEnd \in Index
      /\ OnPath(readEnd) /\ Place(readIndex) <= Place(readEnd)
      /\ view = readResult(readEnd, readIndex, dataEnd)
  BY DEF IInv, Viewed, TypeOK
<1>2. view \in Result /\ view.start + view.size1 <= Capacity
  BY <1>1, ResultInBuffer
<1>3. /\ view.start \in Nat /\ view.size1 \in Nat /\ view.size2 \in Nat
      /\ view.size2 <= Capacity
  BY <1>2, QueueAssumption DEF Result, Index
<1> QED BY <1>1, <1>2, <1>3, ResultHoldsStream

\* The queue's buffer and both indices stay, and so does all but the reader.
LEMMA SameQueue ==
  ASSUME IInv,
         UNCHANGED <<writeIndex, dataEnd, readIndex, buf, writerVars, wView, wCount,
                     received>>
  PROVE  Indices' /\ Stored' /\ Arena'
BY DEF IInv, Indices, Stored, Arena, OnPath, Place, Count, Wrapped, Unreleased, writerVars

\* beginRead takes a view of the path from readIndex to the writeIndex loaded.
LEMMA BeginReadInv == ASSUME IInv, BeginRead PROVE IInv'
<1> USE DEF IInv
<1>1. /\ view' = readResult(wView, readIndex, dataEnd)
      /\ readEnd' = wView
      /\ rpc' = IF view'.size1 + view'.size2 = 0 THEN "idle" ELSE "first"
      /\ taken' = <<>>
      /\ UNCHANGED <<writeIndex, dataEnd, readIndex, buf, writerVars, wView, wCount,
                     received>>
  BY DEF BeginRead
<1>2. view' \in Result
  BY <1>1, ResultInBuffer DEF TypeOK
<1>3. TypeOK'
  BY <1>1, <1>2 DEF TypeOK, writerVars
<1>4. Indices' /\ Stored' /\ Arena'
  BY <1>1, SameQueue
<1>5. Viewed'
  <2> SUFFICES ASSUME rpc' # "idle" PROVE Viewed'
    BY DEF Viewed
  <2>1. view'.size1 + view'.size2 > 0
    BY <1>1, <1>2, QueueAssumption DEF Result, Index
  <2>2. /\ OnPath(readEnd)' /\ Place(readIndex)' <= Place(readEnd)'
        /\ Place(readEnd)' <= Place(wView)'
    <3>1. /\ OnPath(wView)' /\ Place(readIndex)' <= Place(wView)'
          /\ readEnd' = wView'
      BY <1>1, <1>4 DEF Indices
    <3>2. Place(wView)' \in Int
      BY <1>1, QueueAssumption DEF Place, TypeOK, Index
    <3> QED BY <3>1, <3>2 DEF OnPath, Place, Wrapped
  <2>3. view' = readResult(readEnd', readIndex', dataEnd')
    BY <1>1
  <2> QED BY <2>1, <2>2, <2>3 DEF Viewed
<1>6. Copied'
  BY <1>1 DEF Copied
<1> QED BY <1>3, <1>4, <1>5, <1>6

\* Copying buffer1 takes the first bytes of the view, in order.
LEMMA CopyFirstInv == ASSUME IInv, CopyFirst PROVE IInv'
<1> USE DEF IInv
<1>1. /\ taken' = firstPart(view)
      /\ rpc' = IF view.size2 > 0 THEN "second" ELSE "done"
      /\ rpc = "first"
      /\ UNCHANGED <<writeIndex, dataEnd, readIndex, buf, writerVars, wView, wCount,
                     view, readEnd, received>>
  BY DEF CopyFirst
<1>2. /\ view.start \in Nat /\ view.size1 \in Nat /\ view.size2 \in Nat
      /\ \A i \in 1..view.size1 : firstPart(view)[i] = Len(received) + i
  BY <1>1, HeldView
<1>3. taken' \in Seq(Nat) /\ Len(taken') = view.size1
  <2>1. Len(received) \in Nat
    BY DEF TypeOK
  <2>2. \A i \in 1..view.size1 : firstPart(view)[i] \in Nat
    BY <1>2, <2>1
  <2>3. firstPart(view) \in [1..view.size1 -> Nat]
    BY <2>2 DEF firstPart
  <2> QED BY <1>1, <1>2, <2>3
<1>4. TypeOK'
  BY <1>1, <1>3 DEF TypeOK, writerVars
<1>5. Indices' /\ Stored' /\ Arena'
  BY <1>1, SameQueue
<1>6. Viewed'
  BY <1>1 DEF Viewed, OnPath, Place, Wrapped, writerVars
<1>7. Copied'
  BY <1>1, <1>2, <1>3 DEF Copied
<1> QED BY <1>4, <1>5, <1>6, <1>7

\* Copying buffer2 continues with the bytes after those of buffer1.
LEMMA CopySecondInv == ASSUME IInv, CopySecond PROVE IInv'
<1> USE DEF IInv
<1>1. /\ taken' = taken \o secondPart(view)
      /\ rpc = "second" /\ rpc' = "done"
      /\ UNCHANGED <<writeIndex, dataEnd, readIndex, buf, writerVars, wView, wCount,
                     view, readEnd, received>>
  BY DEF CopySecond
<1>2. /\ view.size1 \in Nat /\ view.size2 \in Nat
      /\ \A i \in 1..view.size2 :
            secondPart(view)[i] = Len(received) + view.size1 + i
  BY <1>1, HeldView
<1>3. Len(received) \in Nat
  BY DEF TypeOK
<1>4. secondPart(view) \in Seq(Nat) /\ Len(secondPart(view)) = view.size2
  <2>1. \A i \in 1..view.size2 : secondPart(view)[i] \in Nat
    BY <1>2, <1>3
  <2>2. secondPart(view) \in [1..view.size2 -> Nat]
    BY <2>1 DEF secondPart
  <2> QED BY <1>2, <2>2
<1>5. /\ taken \in Seq(Nat) /\ Len(taken) = view.size1
      /\ \A i \in 1..Len(taken) : taken[i] = Len(received) + i
  BY <1>1 DEF TypeOK, Copied
<1>6. taken' \in Seq(Nat) /\ Len(taken') = view.size1 + view.size2
  BY <1>1, <1>4, <1>5
<1>7. ASSUME NEW i \in 1..Len(taken')
      PROVE  taken'[i] = Len(received) + i
  <2>1. CASE i <= view.size1
    BY <1>1, <1>2, <1>4, <1>5, <1>6, <2>1
  <2>2. CASE ~(i <= view.size1)
    <3>1. taken'[i] = secondPart(view)[i - view.size1]
      BY SMTT(30), <1>1, <1>2, <1>4, <1>5, <1>6, <2>2
    <3>2. i - view.size1 \in 1..view.size2
      BY <1>2, <1>6, <2>2
    <3>3. secondPart(view)[i - view.size1]
            = Len(received) + view.size1 + (i - view.size1)
      BY <1>2, <3>2
    <3> QED BY <1>2, <1>3, <3>1, <3>3
  <2> QED BY <2>1, <2>2
<1>8. TypeOK'
  BY <1>1, <1>6 DEF TypeOK, writerVars
<1>9. Indices' /\ Stored' /\ Arena'
  BY <1>1, SameQueue
<1>10. Viewed'
  BY <1>1 DEF Viewed, OnPath, Place, Wrapped, writerVars
<1>11. Copied'
  BY <1>1, <1>6, <1>7 DEF Copied
<1> QED BY <1>8, <1>9, <1>10, <1>11

\* A read that ends without endRead leaves the queue as it was.
LEMMA AbandonReadInv == ASSUME IInv, AbandonRead PROVE IInv'
<1> USE DEF IInv
<1>1. /\ rpc' = "idle" /\ taken' = <<>>
      /\ UNCHANGED <<writeIndex, dataEnd, readIndex, buf, writerVars, wView, wCount,
                     view, readEnd, received>>
  BY DEF AbandonRead
<1>2. TypeOK'
  BY <1>1 DEF TypeOK, writerVars
<1>3. Indices' /\ Stored' /\ Arena'
  BY <1>1, SameQueue
<1>4. Viewed' /\ Copied'
  BY <1>1 DEF Viewed, Copied
<1> QED BY <1>2, <1>3, <1>4

\* endRead moves readIndex along the path by what was copied.
LEMMA EndReadInv == ASSUME IInv, EndRead PROVE IInv'
<1> USE DEF IInv
<1>1. /\ rpc = "done" /\ rpc' = "idle" /\ readIndex' = readEnd
      /\ received' = received \o taken /\ taken' = <<>>
      /\ UNCHANGED <<writeIndex, dataEnd, buf, writerVars, wView, wCount, view, readEnd>>
  BY DEF EndRead
<1>2. TypeOK'
  BY <1>1 DEF TypeOK, writerVars
<1>3. Len(received') = Count(readEnd)
  <2>1. Len(taken) = view.size1 + view.size2 /\ taken \in Seq(Nat) /\ received \in Seq(Nat)
    BY <1>1 DEF Copied, TypeOK
  <2>2. /\ view.size1 \in Nat /\ view.size2 \in Nat
        /\ Len(received) + view.size1 + view.size2 = Count(readEnd)
    BY <1>1, HeldView
  <2>3. Len(received) \in Nat
    BY <2>1
  <2>4. Len(received \o taken) = Len(received) + Len(taken)
    BY <2>1, ConcatProperties
  <2> QED BY <1>1, <2>1, <2>2, <2>3, <2>4
<1>4. Indices'
  <2>1. OnPath(readEnd) /\ Place(readEnd) <= Place(wView)
    BY <1>1 DEF Viewed
  <2> QED BY <1>1, <1>3, <2>1
          DEF Indices, OnPath, Place, Count, Wrapped, writerVars
<1>5. Stored' /\ Arena'
  BY <1>1 DEF Stored, Arena, Unreleased, Count, Wrapped, writerVars
<1>6. Viewed' /\ Copied'
  BY <1>1 DEF Viewed, Copied
<1> QED BY <1>2, <1>4, <1>5, <1>6

\* A writeIndex that arrives is on the path; the reader's end of it moves there.
LEMMA WriteIndexArrivesInv == ASSUME IInv, WriteIndexArrives PROVE IInv'
<1> USE DEF IInv
<1>1. /\ wView' = writeIndex /\ wCount' = committed
      /\ UNCHANGED <<writeIndex, dataEnd, readIndex, buf, writerVars, rpc, view, readEnd,
                     taken, received>>
  BY DEF WriteIndexArrives
<1>2. TypeOK'
  BY <1>1 DEF TypeOK, writerVars
<1>3. /\ OnPath(writeIndex)
      /\ \A i \in Index : OnPath(i) => Place(i) <= Place(writeIndex)
  BY WriteIndexIsLast
<1>4. readIndex \in Index /\ readEnd \in Index
  BY DEF TypeOK
<1>5. Indices'
  <2>1. Place(readIndex) <= Place(writeIndex)
    BY <1>3, <1>4 DEF Indices
  <2>2. OnPath(wView)' /\ OnPath(readIndex)'
    BY <1>1, <1>3 DEF Indices, OnPath, Wrapped, writerVars
  <2>3. Place(readIndex)' <= Place(wView)'
    BY <1>1, <2>1 DEF Place, Wrapped, writerVars
  <2>4. /\ Len(received') = Count(readIndex)'
        /\ wCount' = Count(wView)' /\ committed' = Count(writeIndex)'
    BY <1>1 DEF Indices, Count, Wrapped, writerVars
  <2>5. Wrapped' => rView' <= dataEnd'
    BY <1>1 DEF Indices, Wrapped, writerVars
  <2> QED BY <2>2, <2>3, <2>4, <2>5 DEF Indices
<1>6. Stored' /\ Arena'
  BY <1>1 DEF Stored, Arena, Unreleased, Count, Wrapped, writerVars
<1>7. Viewed'
  <2>1. rpc # "idle" => OnPath(readEnd) /\ Place(readEnd) <= Place(writeIndex)
    BY <1>3, <1>4 DEF Viewed
  <2> QED BY <1>1, <2>1 DEF Viewed, OnPath, Place, Wrapped, writerVars
<1>8. Copied'
  BY <1>1 DEF Copied
<1> QED BY <1>2, <1>5, <1>6, <1>7, <1>8

-----------------------------------------------------------------------------
(* The theorems *)

\* Every step keeps the inductive invariant: one case per action.
LEMMA NextInv == IInv /\ [Next]_vars => IInv'
<1> SUFFICES ASSUME IInv, [Next]_vars PROVE IInv'
  OBVIOUS
<1>1. CASE \E size \in 1..(Capacity + 1) : BeginWrite(size)
  BY <1>1, BeginWriteInv, QueueAssumption
<1>2. CASE \E size \in 1..(Capacity + 1) : BeginWriteFits(size)
  BY <1>2 DEF BeginWriteFits, readerVars, IInv, TypeOK, Indices, Stored, Arena,
              Viewed, Copied, OnPath, Place, Count, Wrapped, Unreleased
<1>3. CASE \E n \in 1..Capacity : WriteBuffer(n)
  BY <1>3, WriteBufferInv, QueueAssumption
<1>4. CASE EndWrite
  BY <1>4, EndWriteInv
<1>5. CASE BeginRead
  BY <1>5, BeginReadInv
<1>6. CASE CopyFirst
  BY <1>6, CopyFirstInv
<1>7. CASE CopySecond
  BY <1>7, CopySecondInv
<1>8. CASE AbandonRead
  BY <1>8, AbandonReadInv
<1>9. CASE EndRead
  BY <1>9, EndReadInv
<1>10. CASE ReadIndexArrives
  BY <1>10, ReadIndexArrivesInv
<1>11. CASE WriteIndexArrives
  BY <1>11, WriteIndexArrivesInv
<1>12. CASE UNCHANGED vars
  BY <1>12 DEF vars, writerVars, readerVars, IInv, TypeOK, Indices, Stored, Arena,
               Viewed, Copied, OnPath, Place, Count, Wrapped, Unreleased
<1> QED BY <1>1, <1>2, <1>3, <1>4, <1>5, <1>6, <1>7, <1>8, <1>9, <1>10, <1>11, <1>12
        DEF Next, Writer, Reader, Memory

\* The inductive invariant holds in every reachable state.
THEOREM Invariance == Spec => []IInv
BY InitInv, NextInv, PTL DEF Spec

\* Type correctness of the queue, of both ends and of the history.
THEOREM TypeCorrect == Spec => []TypeOK
<1>1. IInv => TypeOK
  BY DEF IInv
<1> QED BY <1>1, Invariance, PTL

\* The bytes given to the reader by beginRead stay in place, and are the next
\* ones of the stream, until its endRead.
THEOREM ViewsStayIntact == Spec => []ViewIntact
<1>1. IInv => ViewIntact
  BY HeldView DEF ViewIntact
<1> QED BY <1>1, Invariance, PTL

\* beginWrite never hands out a byte the reader may be copying.
THEOREM BufferIsRaceFree == Spec => []NoRacyByte
<1>1. IInv => NoRacyByte
  BY ArenaIsFree DEF IInv
<1> QED BY <1>1, Invariance, PTL

\* beginWrite never assigns dataEnd while the reader may be loading it.
THEOREM DataEndIsRaceFree == Spec => []NoRacyDataEnd
<1>1. ASSUME IInv PROVE NoRacyDataEnd
  <2>0. Bounds
    BY <1>1, TypeBounds DEF IInv
  <2> SUFFICES ASSUME rView <= writeIndex
               PROVE  /\ readIndex <= wView
                      /\ rpc # "idle" => readIndex <= readEnd
    BY DEF NoRacyDataEnd
  <2>1. ~Wrapped
    BY <2>0 DEF Bounds, Wrapped
  <2> QED BY <1>1, <2>1 DEF IInv, Indices, Viewed, Place
<1> QED BY <1>1, Invariance, PTL

\* R = W is reached only when everything committed is consumed.
THEOREM EmptyQueueIsDrained == Spec => []EmptyMeansDrained
<1>1. IInv => EmptyMeansDrained
  BY DEF IInv, Indices, EmptyMeansDrained
<1> QED BY <1>1, Invariance, PTL

\* unreadWriteSize counts what is committed and not known to be consumed.
THEOREM UnreadSizeExact == Spec => []UnreadSizeIsExact
<1>1. ASSUME IInv PROVE UnreadSizeIsExact
  <2>0. Bounds
    BY <1>1, TypeBounds DEF IInv
  <2>1. CASE Wrapped
    BY <1>1, <2>0, <2>1
       DEF IInv, Indices, Bounds, Count, Wrapped, UnreadSizeIsExact, unreadWriteSize
  <2>2. CASE ~Wrapped
    BY <1>1, <2>0, <2>2
       DEF IInv, Indices, Bounds, Count, Wrapped, UnreadSizeIsExact, unreadWriteSize
  <2> QED BY <2>1, <2>2
<1> QED BY <1>1, Invariance, PTL

\* What brecovery reads from a dump taken at any step is what was committed
\* and not consumed.
THEOREM DumpsAreComplete == Spec => []DumpHoldsTheUnread
<1>1. ASSUME IInv PROVE DumpHoldsTheUnread
  <2>0. Bounds
    BY <1>1, TypeBounds DEF IInv
  <2>1. /\ TypeOK /\ Indices /\ Stored /\ writeIndex \in Index /\ readIndex \in Index
    BY <1>1 DEF IInv, TypeOK
  <2>2. OnPath(writeIndex) /\ Place(readIndex) <= Place(writeIndex)
    BY <2>1, WriteIndexIsLast DEF Indices
  <2>3. committed = Count(writeIndex)
    BY <2>1 DEF Indices
  <2>4. writeIndex <= Capacity /\ dataEnd <= Capacity /\ readIndex <= Capacity
    BY <2>0 DEF Bounds
  <2> QED BY <2>1, <2>2, <2>3, <2>4, ResultHoldsStream DEF DumpHoldsTheUnread
<1> QED BY <1>1, Invariance, PTL

\* A drained queue, wherever its indices are, has room for half its capacity:
\* the fact behind HalfIsEventuallyGranted and replaceChannel's factor of two.
THEOREM DrainedQueueGrantsHalf ==
  ASSUME NEW i \in Index
  PROVE  arenaEnd(i, i) - arenaBegin(i, i) >= Capacity \div 2
<1>1. i \in Nat /\ Capacity \in Nat /\ i <= Capacity
  BY QueueAssumption DEF Index
<1>2. CASE wraps(i, i)
  BY <1>1, <1>2 DEF arenaEnd, arenaBegin, wraps, rightSize, leftSize
<1>3. CASE ~wraps(i, i)
  BY <1>1, <1>3 DEF arenaEnd, arenaBegin, wraps, rightSize, leftSize
<1> QED BY <1>2, <1>3

-----------------------------------------------------------------------------
(* Refinement: the queue implements the abstract FIFO *)

\* Every step of the queue is a step of the FIFO or leaves it unchanged: only
\* endWrite sends, only endRead receives.
LEMMA StepsRefine == IInv /\ [Next]_vars => [Fifo!Next]_(Fifo!vars)
<1> SUFFICES ASSUME IInv, [Next]_vars
             PROVE  Fifo!Next \/ UNCHANGED <<committed, received>>
  BY DEF Fifo!vars
<1>1. CASE \E size \in 1..(Capacity + 1) : BeginWrite(size) \/ BeginWriteFits(size)
  BY <1>1 DEF BeginWrite, BeginWriteFits, readerVars
<1>2. CASE \E n \in 1..Capacity : WriteBuffer(n)
  BY <1>2 DEF WriteBuffer, readerVars
<1>3. CASE EndWrite
  <2>1. committed \in Nat /\ pending \in Nat
    BY DEF IInv, TypeOK
  <2>2. committed' = committed + pending /\ received' = received
    BY <1>3 DEF EndWrite, readerVars
  <2>3. committed' = committed \/ (committed' \in Nat /\ committed' > committed)
    BY <2>1, <2>2
  <2> QED BY <2>2, <2>3 DEF Fifo!Next, Fifo!Send
<1>4. CASE EndRead
  <2> DEFINE n == view.size1 + view.size2
  <2>1. /\ rpc = "done" /\ received' = received \o taken /\ committed' = committed
    BY <1>4 DEF EndRead, writerVars
  <2>2. /\ received \in Seq(Nat) /\ taken \in Seq(Nat) /\ committed \in Nat
        /\ Len(received) \in Nat /\ Len(taken) = n
        /\ \A i \in 1..Len(taken) : taken[i] = Len(received) + i
    BY <2>1 DEF IInv, TypeOK, Copied
  <2>3. view.size1 \in Nat /\ view.size2 \in Nat /\ n > 0
    BY <2>1, HeldView DEF IInv, Viewed
  <2>4. Len(received) + n <= committed
    <3>0. Bounds
      BY TypeBounds DEF IInv
    <3>1. Len(received) + n = Count(readEnd)
      BY <2>1, <2>2, <2>3, HeldView
    <3>2. OnPath(readEnd) /\ Place(readEnd) <= Place(writeIndex)
      BY <2>1, WriteIndexIsLast DEF IInv, Viewed, TypeOK
    <3>3. Count(readEnd) <= committed
      <4>1. CASE Wrapped
        BY <3>0, <3>2, <4>1 DEF IInv, Indices, OnPath, Count, Bounds, Wrapped
      <4>2. CASE ~Wrapped
        BY <3>0, <3>2, <4>2 DEF IInv, Indices, OnPath, Count, Bounds, Wrapped
      <4> QED BY <4>1, <4>2
    <3> QED BY <3>1, <3>3
  <2>5. taken = Fifo!Run(Len(received), n)
    BY <2>2, <2>3 DEF Fifo!Run
  <2>6. n \in 1..(committed - Len(received))
    BY <2>2, <2>3, <2>4
  <2> QED BY <2>1, <2>5, <2>6 DEF Fifo!Next, Fifo!Receive
<1>5. CASE BeginRead \/ CopyFirst \/ CopySecond \/ AbandonRead
  BY <1>5 DEF BeginRead, CopyFirst, CopySecond, AbandonRead, writerVars
<1>6. CASE ReadIndexArrives \/ WriteIndexArrives
  BY <1>6 DEF ReadIndexArrives, WriteIndexArrives, writerVars, readerVars
<1>7. CASE UNCHANGED vars
  BY <1>7 DEF vars, writerVars, readerVars
<1> QED BY <1>1, <1>2, <1>3, <1>4, <1>5, <1>6, <1>7 DEF Next, Writer, Reader, Memory

\* The queue delivers what was committed, in order, once, batch by batch.
THEOREM QueueImplementsFifo == Spec => ImplementsFifo
<1>1. Init => Fifo!Init
  BY DEF Init, Fifo!Init
<1> QED BY <1>1, StepsRefine, Invariance, PTL
        DEF Spec, ImplementsFifo, Fifo!Spec
=============================================================================
