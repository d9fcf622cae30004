------------------------------- MODULE Queue -------------------------------
(***************************************************************************)
(* The lock-free single producer, single consumer queue of bytes           *)
(*   include/binlog/detail/Queue.hpp, QueueWriter.hpp, QueueReader.hpp     *)
(* which carries every log event from a SessionWriter to Session::consume. *)
(*                                                                         *)
(* A byte is modelled by its number in the stream of committed bytes       *)
(* (1, 2, 3, ...), so that "the right byte at the right place" is          *)
(* arithmetic.  A byte written but not yet committed carries the number it *)
(* gets if the next endWrite commits it.                                   *)
(*                                                                         *)
(* The two atomics are release/acquire.  A load may therefore return an    *)
(* older value than the last one stored, but never goes back: each thread  *)
(* has a view of the index the other thread stores (rView, wView), which   *)
(* the memory system advances at any time and loads read.                  *)
(***************************************************************************)
EXTENDS Integers, Sequences

CONSTANTS
  Capacity,    \* Queue::capacity, bytes in the buffer
  MaxBytes     \* bound: bytes ever written (committed or not)

ASSUME QueueAssumption ==
  /\ Capacity \in Nat
  /\ MaxBytes \in Nat

VARIABLES
  \* shared memory
  writeIndex,  \* W, stored by the writer only
  dataEnd,     \* E, a plain (non-atomic) field written by the writer only
  readIndex,   \* R, stored by the reader only
  buf,         \* the buffer: index |-> number of the byte last copied there
  \* the writer's thread
  rView,       \* the readIndex it can load
  rCount,      \* history: bytes consumed when that was stored
  writePos,    \* QueueWriter::_writePos, as an index
  writeEnd,    \* QueueWriter::_writeEnd, as an index
  pending,     \* history: bytes copied in since the last endWrite or reset
  committed,   \* history: bytes committed
  refused,     \* size of the request the last beginWrite refused, 0 if none
  \* the reader's thread
  wView,       \* the writeIndex it can load
  wCount,      \* history: bytes committed when that was stored
  rpc,         \* what the reader does next: idle, first, second, done
  view,        \* ReadResult: buffer1 as index and size1, buffer2 is index 0 and size2
  readEnd,     \* QueueReader::_readEnd
  taken,       \* bytes copied out of the current view
  received     \* history: all bytes consumed (followed by an endRead), in order

writerVars == <<rView, rCount, writePos, writeEnd, pending, committed, refused>>
readerVars == <<wView, wCount, rpc, view, readEnd, taken, received>>
vars == <<writeIndex, dataEnd, readIndex, buf, writerVars, readerVars>>

Index  == 0..Capacity          \* values of W, R, E
Slot   == 0..(Capacity - 1)    \* positions in the buffer
Result == [start : Index, size1 : Index, size2 : Index]

\* The fields of the queue and of both of its ends after construction.  The
\* buffer is not initialized: 0 stands for whatever it holds.
Init ==
  /\ writeIndex = 0 /\ dataEnd = 0 /\ readIndex = 0
  /\ buf = [i \in Slot |-> 0]
  /\ rView = 0 /\ rCount = 0
  /\ writePos = 0 /\ writeEnd = 0
  /\ pending = 0 /\ committed = 0 /\ refused = 0
  /\ wView = 0 /\ wCount = 0
  /\ rpc = "idle"
  /\ view = [start |-> 0, size1 |-> 0, size2 |-> 0]
  /\ readEnd = 0
  /\ taken = <<>> /\ received = <<>>

-----------------------------------------------------------------------------
(* Slips: variants of definitions below, each with one mistake the code could *)
(* contain.  They show that the properties notice it.                         *)

\* unreadWriteSize takes the data to end where the buffer does.
unreadWriteSizeToCapacity(w, r) == IF r <= w THEN w - r ELSE Capacity - r + w

\* leftSize without the free byte that tells a full queue from an empty one.
leftSizeNoGap(r) == r

\* Only wraps when the right side is used up.
wrapsWhenFull(w, r) == r <= w /\ w = Capacity /\ r > 1

\* The right side is one byte longer than the buffer.
arenaEndOffByOne(w, r) ==
  IF w < r THEN r - 1
  ELSE IF r <= w /\ Capacity - w < r - 1 THEN r - 1 ELSE Capacity + 1

\* Forgets that the reader is to the right of the writer.
arenaEndIgnoresReader(w, r) ==
  IF r <= w /\ Capacity - w < r - 1 THEN r - 1 ELSE Capacity

\* Wraps without leaving dataEnd behind.
maximizeForgetsDataEnd ==
  LET w == writeIndex
      r == rView
      toLeft == r <= w /\ Capacity - w < r - 1
  IN  /\ writePos' = IF toLeft THEN 0 ELSE w
      /\ writeEnd' = IF w < r \/ toLeft THEN r - 1 ELSE Capacity
      /\ dataEnd' = dataEnd
      /\ pending' = 0

\* Leaves out the second buffer after a wrap.
readResultFirstOnly(w, r, E) ==
  IF r <= w THEN [start |-> r, size1 |-> w - r, size2 |-> 0]
  ELSE IF r < E THEN [start |-> r, size1 |-> E - r, size2 |-> 0]
  ELSE [start |-> 0, size1 |-> w, size2 |-> 0]

\* Releases the bytes when the read begins.
BeginReadReleasing ==
  /\ rpc = "idle"
  /\ view' = [start |-> readIndex, size2 |-> 0,
              size1 |-> IF readIndex <= wView THEN wView - readIndex ELSE 0]
  /\ readEnd' = wView
  /\ readIndex' = wView
  /\ rpc' = IF view'.size1 = 0 THEN "idle" ELSE "first"
  /\ taken' = <<>>
  /\ UNCHANGED <<writeIndex, dataEnd, buf, writerVars, wView, wCount, received>>

\* endRead loads writeIndex again instead of using _readEnd.
EndReadReloads ==
  /\ rpc = "done"
  /\ readIndex' = writeIndex
  /\ received' = received \o taken
  /\ rpc' = "idle"
  /\ taken' = <<>>
  /\ UNCHANGED <<writeIndex, dataEnd, buf, writerVars, wView, wCount, view, readEnd>>

-----------------------------------------------------------------------------
(* The writer *)

writeCapacity == writeEnd - writePos

\* r and w are what the writer loads from readIndex and writeIndex.
unreadWriteSize(w, r) == IF r <= w THEN w - r ELSE dataEnd - r + w

rightSize(w) == Capacity - w
leftSize(r)  == r - 1

\* The largest arena is at the beginning of the buffer, behind the reader.
wraps(w, r) == r <= w /\ rightSize(w) < leftSize(r)

arenaBegin(w, r) == IF wraps(w, r) THEN 0 ELSE w
arenaEnd(w, r)   == IF w < r THEN r - 1
                    ELSE IF wraps(w, r) THEN leftSize(r) ELSE Capacity

\* Selects the arena; what was copied in but not committed is lost.
maximizeWriteCapacity ==
  LET w == writeIndex
      r == rView
  IN  /\ writePos' = arenaBegin(w, r)
      /\ writeEnd' = arenaEnd(w, r)
      /\ dataEnd' = IF wraps(w, r) THEN w ELSE dataEnd
      /\ pending' = 0

\* beginWrite(size) that has to look for space, granted or refused.
BeginWrite(size) ==
  /\ size > writeCapacity
  /\ maximizeWriteCapacity
  /\ refused' = IF size <= writeEnd' - writePos' THEN 0 ELSE size
  /\ UNCHANGED <<writeIndex, readIndex, buf, rView, rCount, committed, readerVars>>

\* beginWrite(size) that fits the arena at hand.
BeginWriteFits(size) ==
  /\ size <= writeCapacity
  /\ refused' = 0
  /\ UNCHANGED <<writeIndex, dataEnd, readIndex, buf, rView, rCount, writePos,
                 writeEnd, pending, committed, readerVars>>

\* writeBuffer(src, n), also called write: copies n bytes into the arena.
WriteBuffer(n) ==
  /\ n <= writeCapacity
  /\ committed + pending + n <= MaxBytes
  /\ buf' = [i \in Slot |->
               IF writePos <= i /\ i < writePos + n
               THEN committed + pending + 1 + i - writePos
               ELSE buf[i]]
  /\ writePos' = writePos + n
  /\ pending' = pending + n
  /\ UNCHANGED <<writeIndex, dataEnd, readIndex, rView, rCount, writeEnd, committed,
                 refused, readerVars>>

EndWrite ==
  /\ writeIndex' = writePos
  /\ committed' = committed + pending
  /\ pending' = 0
  /\ UNCHANGED <<dataEnd, readIndex, buf, rView, rCount, writePos, writeEnd, refused,
                 readerVars>>

\* Memory: a readIndex stored by the reader reaches the writer's thread.
ReadIndexArrives ==
  /\ rView' = readIndex /\ rCount' = Len(received)
  /\ UNCHANGED <<writeIndex, dataEnd, readIndex, buf, writePos, writeEnd,
                 pending, committed, refused, readerVars>>

-----------------------------------------------------------------------------
(* The reader *)

\* What beginRead returns for the loaded w and r and the dataEnd E.
readResult(w, r, E) ==
  IF r <= w THEN [start |-> r, size1 |-> w - r, size2 |-> 0]
  ELSE IF r < E THEN [start |-> r, size1 |-> E - r, size2 |-> w]
  ELSE [start |-> 0, size1 |-> w, size2 |-> 0]

\* The bytes of a result, in the order consume writes them out.
firstPart(v)  == [i \in 1..v.size1 |-> buf[v.start + i - 1]]
secondPart(v) == [i \in 1..v.size2 |-> buf[i - 1]]

\* An empty result ends the read: consume only copies and calls endRead
\* when there is data.
BeginRead ==
  /\ rpc = "idle"
  /\ view' = readResult(wView, readIndex, dataEnd)
  /\ readEnd' = wView
  /\ rpc' = IF view'.size1 + view'.size2 = 0 THEN "idle" ELSE "first"
  /\ taken' = <<>>
  /\ UNCHANGED <<writeIndex, dataEnd, readIndex, buf, writerVars, wView, wCount,
                 received>>

\* consume writes out buffer1, then buffer2 if the result has one.
CopyFirst ==
  /\ rpc = "first"
  /\ taken' = firstPart(view)
  /\ rpc' = IF view.size2 > 0 THEN "second" ELSE "done"
  /\ UNCHANGED <<writeIndex, dataEnd, readIndex, buf, writerVars, wView, wCount,
                 view, readEnd, received>>

CopySecond ==
  /\ rpc = "second"
  /\ taken' = taken \o secondPart(view)
  /\ rpc' = "done"
  /\ UNCHANGED <<writeIndex, dataEnd, readIndex, buf, writerVars, wView, wCount,
                 view, readEnd, received>>

\* The output stream throws: the read ends without endRead.
AbandonRead ==
  /\ rpc \in {"first", "second"}
  /\ rpc' = "idle"
  /\ taken' = <<>>
  /\ UNCHANGED <<writeIndex, dataEnd, readIndex, buf, writerVars, wView, wCount,
                 view, readEnd, received>>

EndRead ==
  /\ rpc = "done"
  /\ readIndex' = readEnd
  /\ received' = received \o taken
  /\ rpc' = "idle"
  /\ taken' = <<>>
  /\ UNCHANGED <<writeIndex, dataEnd, buf, writerVars, wView, wCount, view, readEnd>>

\* Memory: a writeIndex stored by the writer reaches the reader's thread,
\* and with it everything the writer wrote before the store.
WriteIndexArrives ==
  /\ wView' = writeIndex /\ wCount' = committed
  /\ UNCHANGED <<writeIndex, dataEnd, readIndex, buf, writerVars, rpc, view,
                 readEnd, taken, received>>

-----------------------------------------------------------------------------

Writer ==
  \/ \E size \in 1..(Capacity + 1) : BeginWrite(size) \/ BeginWriteFits(size)
  \/ \E n \in 1..Capacity : WriteBuffer(n)
  \/ EndWrite

Reader == BeginRead \/ CopyFirst \/ CopySecond \/ AbandonRead \/ EndRead

Memory == ReadIndexArrives \/ WriteIndexArrives

Next == Writer \/ Reader \/ Memory

Spec == Init /\ [][Next]_vars

\* A writer that spins on a refused beginWrite, as the queue test does, a
\* reader that polls and whose output stream does not throw for ever, and
\* stores that become visible in finite time.
Fairness ==
  /\ \A size \in 1..Capacity : WF_vars(refused = size /\ BeginWrite(size))
  /\ WF_vars(BeginRead) /\ WF_vars(EndRead)
  /\ SF_vars(CopyFirst) /\ SF_vars(CopySecond)
  /\ WF_vars(ReadIndexArrives) /\ WF_vars(WriteIndexArrives)

LiveSpec == Spec /\ Fairness

-----------------------------------------------------------------------------
(* What makes the queue correct *)

\* Type invariant of the shared fields, of both ends and of the history.
TypeOK ==
  /\ writeIndex \in Index /\ dataEnd \in Index /\ readIndex \in Index
  /\ buf \in [Slot -> Nat]
  /\ rView \in Index /\ wView \in Index /\ rCount \in Nat /\ wCount \in Nat
  /\ writePos \in Index /\ writeEnd \in Index
  /\ pending \in Nat /\ committed \in Nat /\ refused \in Nat
  /\ rpc \in {"idle", "first", "second", "done"}
  /\ view \in Result
  /\ readEnd \in Index
  /\ taken \in Seq(Nat) /\ received \in Seq(Nat)

\* While the reader holds a view, between beginRead and endRead, the buffers
\* it was given hold exactly the next bytes of the stream: the writer, which
\* keeps writing, wrapping and moving dataEnd, never touches them
\* (QueueReader::beginRead and the "consistent read of batches" of Queue.hpp).
ViewIntact ==
  rpc # "idle" =>
    /\ \A i \in 1..view.size1 : firstPart(view)[i] = Len(received) + i
    /\ \A i \in 1..view.size2 :
         secondPart(view)[i] = Len(received) + view.size1 + i

\* The index i lies where the reader may be copying from, as far as the
\* writer's thread knows: committed, and not yet seen to be released.
Unreleased(i) ==
  IF rView <= writeIndex
  THEN rView <= i /\ i < writeIndex
  ELSE (rView <= i /\ i < dataEnd) \/ i < writeIndex

\* Race freedom of the buffer: the arena the writer may memcpy to holds no
\* byte the reader copies, or copied without the writer having acquired the
\* readIndex stored afterwards (QueueWriter::maximizeWriteCapacity).
NoRacyByte ==
  \A i \in Slot : writePos <= i /\ i < writeEnd => ~Unreleased(i)

\* Race freedom of the plain field dataEnd: in a state where beginWrite may
\* assign it, no writeIndex the reader can have loaded makes it look at it.
NoRacyDataEnd ==
  rView <= writeIndex =>
    /\ readIndex <= wView
    /\ rpc # "idle" => readIndex <= readEnd

\* R = W is how an empty queue looks, and no full queue ever looks like it
\* (Queue.hpp, "Queue is empty if R == W").
EmptyMeansDrained == readIndex = writeIndex => Len(received) = committed

\* unreadWriteSize, called by the writer at any time, is the number of bytes
\* committed and not consumed as of the readIndex it loads, also after a wrap
\* and after a refused beginWrite that moved dataEnd.
UnreadSizeIsExact ==
  unreadWriteSize(writeIndex, rView) = committed - rCount

\* A dump of the process taken at any moment holds what is not consumed yet:
\* the queue passes brecovery's checkQueueInvariants, and the reader that
\* brecovery's readData puts on it returns those bytes and no others.
DumpHoldsTheUnread ==
  LET v == readResult(writeIndex, readIndex, dataEnd)
  IN  /\ writeIndex <= Capacity /\ dataEnd <= Capacity /\ readIndex <= Capacity
      /\ Len(received) + v.size1 + v.size2 = committed
      /\ \A i \in 1..v.size1 : firstPart(v)[i] = Len(received) + i
      /\ \A i \in 1..v.size2 : secondPart(v)[i] = Len(received) + v.size1 + i

\* The queue delivers the committed bytes in order, each once, a batch at a
\* time: it implements the abstract byte FIFO.
Fifo == INSTANCE ByteFifo WITH sent <- committed, received <- received
ImplementsFifo == Fifo!Spec

\* A writer spinning on beginWrite gets any size up to half of the capacity:
\* however W and R lie when the reader catches up, one side is that large.
\* This is why replaceChannel doubles the size it was refused.
HalfIsEventuallyGranted ==
  \A size \in 1..(Capacity \div 2) : refused = size ~> refused # size
=============================================================================
