------------------------------ MODULE Recovery ------------------------------
(***************************************************************************)
(* A crash of a program that logs, and the recovery of its unconsumed      *)
(* events from the memory dump                                             *)
(*   include/binlog/detail/VectorOutputStream.hpp, Session.hpp,            *)
(*   bin/brecovery.cpp, bin/printers.cpp                                   *)
(*                                                                         *)
(* Sessions keep their metadata in two buffers, the ClockSyncs and the     *)
(* EventSources, each behind a magic number, and their events in queues,   *)
(* behind another.  An entry of metadata is serialized by several calls of *)
(* write (Pieces), each made of the steps a crash can come between.  The   *)
(* crash is possible in every state.  brecovery then finds the magic       *)
(* numbers in the dump, drops the buffers that are not valid, sorts the    *)
(* rest and writes them; bread reads the result.                           *)
(*                                                                         *)
(* Sessions are numbered by address, the order brecovery sorts by.         *)
(***************************************************************************)
EXTENDS Streams, FiniteSets
LOCAL INSTANCE SequencesExt

CONSTANTS
  Sessions,    \* sessions, by address
  Queues,      \* queues: <<session, number>>
  MaxSources,  \* bound: sources, in all sessions
  MaxClocks,   \* bound: calls of setClockSync, in all sessions
  MaxEvents,   \* bound: events, in all sessions
  MaxGrowths,  \* bound: reallocations of metadata buffers, in all sessions
  MaxClosed    \* bound: channels that are dropped by their writer

ASSUME RecoveryAssumption ==
  /\ Sessions \subseteq Nat /\ IsFiniteSet(Sessions)
  /\ Queues \subseteq Sessions \X Nat /\ IsFiniteSet(Queues)
  /\ {MaxSources, MaxClocks, MaxEvents, MaxGrowths, MaxClosed} \subseteq Nat

Kinds == {"clock", "source"}
Pieces == 2  \* calls of write for one entry (bound)

VARIABLES
  \* the program
  meta,      \* the metadata buffers: magic number, length and size field, in pieces
  freed,     \* metadata buffers that were freed when they grew
  writing,   \* the step of RecoverableVectorOutputStream::write, by session
  queue,     \* events of a queue that no endRead released
  qstate,    \* "open", "closed" by its writer, or "gone": ~Channel has run
  consume,   \* the step of Session::consume, by session
  \* brecovery
  phase,     \* "running", "crashed", "writing"
  dump,      \* the blocks of the memory dump that begin with a magic number
  buffers,   \* the RecoveredBuffers not yet written
  file,      \* the entries written to the output file
  \* history
  logged,    \* the source ids of the events of each session
  clocks,    \* ClockSyncs of each session
  delivered, \* the events consumed before the crash
  quiet,     \* no metadata was being added at the crash
  copying    \* events consumed, but not yet released, at the crash

programVars  == <<meta, freed, writing, queue, qstate, consume>>
historyVars  == <<logged, clocks, delivered, quiet, copying>>
recoveryVars == <<phase, dump, buffers, file, quiet, copying>>
vars         == <<programVars, logged, clocks, delivered, recoveryVars>>

Idle == [step |-> "idle", kind |-> "clock", grows |-> FALSE, before |-> 0]

\* A program that has just started: the constructor of Session has added the
\* system clock.
NewMeta    == [m \in Sessions \X Kinds |->
                 LET n == IF m[2] = "clock" THEN Pieces ELSE 0
                 IN  [magic |-> TRUE, len |-> n, size |-> n]]
NewWriting == [s \in Sessions |-> Idle]
NewQueue   == [q \in Queues |-> <<>>]
NewQstate  == [q \in Queues |-> "open"]
NewConsume == [s \in Sessions |->
                 [step |-> "idle", queue |-> <<0, 0>>, closed |-> FALSE, size |-> 0]]

Init ==
  /\ meta = NewMeta /\ freed = {} /\ writing = NewWriting
  /\ queue = NewQueue /\ qstate = NewQstate /\ consume = NewConsume
  /\ logged = [s \in Sessions |-> <<>>]
  /\ clocks = [s \in Sessions |-> 1]
  /\ delivered = {}
  /\ phase = "running" /\ dump = {} /\ buffers = {} /\ file = <<>>
  /\ quiet = FALSE /\ copying = {}

Running == phase = "running"

\* Whole entries in a metadata buffer.
entries(s, k) == meta[<<s, k>>].len \div Pieces

Total(k) == LET count[S \in SUBSET Sessions] ==
                  IF S = {} THEN 0
                  ELSE LET s == CHOOSE x \in S : TRUE
                       IN  entries(s, k) + count[S \ {s}]
            IN  count[Sessions]

\* The session's _mutex can be locked.
MutexFree(s) == writing[s].step = "idle" /\ consume[s].step = "idle"

-----------------------------------------------------------------------------
(* addEventSource and setClockSync, under the mutex: an entry is written   *)
(* piece by piece                                                          *)

\* Slip: the magic number of a buffer that is about to be freed stays.
clearMagicNever(m) == m

\* clearMagic.
clearMagic(m) == [m EXCEPT !.magic = FALSE]

\* write begins: when the vector has to grow, its magic number is cleared.
BeginPiece(s, k, before) ==
  \E grows \in BOOLEAN :
    /\ grows => Cardinality(freed) + Cardinality({x \in Sessions : writing[x].grows})
                  < MaxGrowths
    /\ writing' = [writing EXCEPT ![s] = [step |-> "insert", kind |-> k,
                                          grows |-> grows, before |-> before]]
    /\ meta' = IF grows THEN [meta EXCEPT ![<<s, k>>] = clearMagic(@)] ELSE meta
    /\ UNCHANGED <<freed, queue, qstate, consume, logged, clocks, delivered, recoveryVars>>

AddMetadata(s, k) ==
  /\ Running
  /\ MutexFree(s)
  /\ IF k = "source" THEN Total(k) < MaxSources
                     ELSE Total(k) < MaxClocks + Cardinality(Sessions)
  /\ BeginPiece(s, k, meta[<<s, k>>].len)

\* _vector.insert; if it grows, the old buffer is freed as it is.
Insert(s) ==
  LET w == writing[s]
      m == meta[<<s, w.kind>>]
  IN  /\ Running
      /\ w.step = "insert"
      /\ meta' = [meta EXCEPT ![<<s, w.kind>>].len = @ + 1]
      /\ freed' = IF w.grows THEN freed \union {[session |-> s, kind |-> w.kind, copy |-> m]}
                             ELSE freed
      /\ writing' = [writing EXCEPT ![s].step = IF w.grows THEN "mark" ELSE "size",
                                        ![s].grows = FALSE]
      /\ UNCHANGED <<queue, qstate, consume, logged, clocks, delivered, recoveryVars>>

\* setMagic.
SetMagic(s) ==
  /\ Running
  /\ writing[s].step = "mark"
  /\ meta' = [meta EXCEPT ![<<s, writing[s].kind>>].magic = TRUE]
  /\ writing' = [writing EXCEPT ![s].step = "size"]
  /\ UNCHANGED <<freed, queue, qstate, consume, logged, clocks, delivered, recoveryVars>>

\* Slip: the size field counts the piece that comes next.
sizeOfNext(m) == m.len + 1

\* size().
sizeOf(m) == m.len

\* updateSize; the next piece follows, or the mutex is unlocked.
UpdateSize(s) ==
  LET k == writing[s].kind
  IN  /\ Running
      /\ writing[s].step = "size"
      /\ meta' = [meta EXCEPT ![<<s, k>>].size = sizeOf(meta[<<s, k>>])]
      /\ writing' = [writing EXCEPT ![s] =
                       IF meta[<<s, k>>].len % Pieces = 0
                       THEN Idle ELSE [@ EXCEPT !.step = "next"]]
      /\ clocks' = [clocks EXCEPT ![s] = entries(s, "clock")]
      /\ UNCHANGED <<freed, queue, qstate, consume, logged, delivered, recoveryVars>>

NextPiece(s) ==
  /\ Running
  /\ writing[s].step = "next"
  /\ BeginPiece(s, writing[s].kind, writing[s].before)

-----------------------------------------------------------------------------
(* Events, and their consumption *)

EventCount == Cardinality(UNION {{s} \X DOMAIN logged[s] : s \in Sessions})

\* The ids that addEventSource has returned.
KnownIds(s) ==
  IF writing[s].step # "idle" /\ writing[s].kind = "source"
  THEN 1..(writing[s].before \div Pieces)
  ELSE 1..entries(s, "source")

\* addEvent: a source whose id was returned; the number is the event's own.
Log(q, id) ==
  LET s == q[1]
  IN  /\ Running
      /\ qstate[q] = "open"
      /\ EventCount < MaxEvents
      /\ logged' = [logged EXCEPT ![s] = Append(@, id)]
      /\ queue' = [queue EXCEPT ![q] =
                     Append(@, EventEntry(id, <<s, Len(logged[s]) + 1>>))]
      /\ UNCHANGED <<meta, freed, writing, qstate, consume, clocks, delivered, recoveryVars>>

\* The SessionWriter drops its channel.
CloseQueue(q) ==
  /\ Running
  /\ qstate[q] = "open"
  /\ Cardinality({x \in Queues : qstate[x] # "open"}) < MaxClosed
  /\ qstate' = [qstate EXCEPT ![q] = "closed"]
  /\ UNCHANGED <<meta, freed, writing, queue, consume, logged, clocks, delivered, recoveryVars>>

\* consume gets to a queue: use_count(), beginRead, out.write.
ConsumeQueue(q) ==
  LET s == q[1]
  IN  /\ Running
      /\ MutexFree(s)
      /\ qstate[q] # "gone"
      /\ queue[q] # <<>> \/ qstate[q] = "closed"
      /\ consume' = [consume EXCEPT ![s] = [step |-> "written", queue |-> q,
                                            closed |-> qstate[q] = "closed",
                                            size |-> Len(queue[q])]]
      /\ delivered' = delivered \union {queue[q][i].num : i \in DOMAIN queue[q]}
      /\ UNCHANGED <<meta, freed, writing, queue, qstate, logged, clocks, recoveryVars>>

\* The events of a queue behind the first n.
Behind(q, n) == SubSeq(queue[q], n + 1, Len(queue[q]))

\* Slip: ~Channel leaves the magic number, and what was in the queue.
ReleaseQueueUncleared(s) ==
  LET q == consume[s].queue
  IN  /\ Running
      /\ consume[s].step = "written"
      /\ queue' = [queue EXCEPT ![q] = IF consume[s].closed THEN @
                                       ELSE Behind(q, consume[s].size)]
      /\ consume' = [consume EXCEPT ![s] = NewConsume[s]]
      /\ UNCHANGED <<meta, freed, writing, qstate, logged, clocks, delivered, recoveryVars>>

\* endRead, and ~Channel for a queue that was closed before it was read.
ReleaseQueue(s) ==
  LET q == consume[s].queue
  IN  /\ Running
      /\ consume[s].step = "written"
      /\ queue' = [queue EXCEPT ![q] = Behind(q, consume[s].size)]
      /\ qstate' = IF consume[s].closed THEN [qstate EXCEPT ![q] = "gone"] ELSE qstate
      /\ consume' = [consume EXCEPT ![s] = NewConsume[s]]
      /\ UNCHANGED <<meta, freed, writing, logged, clocks, delivered, recoveryVars>>

-----------------------------------------------------------------------------
(* The crash, and brecovery *)

\* What the dump has of a buffer behind a magic number: is the memory covered
\* by its size field a sequence of entries, and which; nothing of a buffer whose
\* magic number is cleared.
MetadataBlock(s, k, m) ==
  [type |-> "metadata", session |-> s, whole |-> m.size % Pieces = 0,
   entries |-> [i \in 1..(m.size \div Pieces) |->
                  IF k = "clock" THEN ClockEntry(<<s, i>>) ELSE SourceEntry(i, <<s, i>>)]]

MetadataBlocks ==
  {MetadataBlock(m[1], m[2], meta[m]) : m \in {x \in DOMAIN meta : meta[x].magic}}
  \union {MetadataBlock(f.session, f.kind, f.copy) : f \in {x \in freed : x.copy.magic}}

\* The committed part of a queue is always a sequence of entries.
DataBlocks ==
  {[type |-> "data", session |-> q[1], whole |-> TRUE, entries |-> queue[q]] :
     q \in {x \in Queues : qstate[x] # "gone"}}

\* Bytes that look like a magic number, whose size field runs into the next block.
JunkBlock == [type |-> "metadata", session |-> 0, whole |-> FALSE, entries |-> <<>>]

\* The program dies, in any state; empty buffers add nothing to the file.
Crash ==
  /\ Running
  /\ phase' = "crashed"
  /\ dump' = {b \in MetadataBlocks \union DataBlocks : b.entries # <<>>}
  /\ quiet' = (\A s \in Sessions : writing[s].step = "idle")
  /\ copying' = delivered \intersect
                  {e.num : e \in UNION {ToSet(queue[consume[s].queue]) :
                             s \in {x \in Sessions : consume[x].step = "written"}}}
  /\ meta' = NewMeta /\ freed' = {} /\ writing' = NewWriting
  /\ queue' = NewQueue /\ qstate' = NewQstate /\ consume' = NewConsume
  /\ UNCHANGED <<logged, clocks, delivered, buffers, file>>

\* Slip: the search goes on where the failed read stopped.
afterFailureWithoutSeek(blocks, i) == IF blocks[i] = JunkBlock THEN i + 2 ELSE i + 1

\* The search goes on right after the magic number, so a block that the failed
\* read ran over is still found.
afterFailure(blocks, i) == i + 1

\* main's search for magic numbers: readMetadata and readData take the blocks
\* that checkEntryBuffer accepts.
recovered(blocks) ==
  LET from[i \in 1..(Len(blocks) + 2)] ==
        IF i > Len(blocks) THEN {}
        ELSE IF blocks[i].whole THEN {blocks[i]} \union from[i + 1]
        ELSE from[afterFailure(blocks, i)]
  IN  from[1]

Scan ==
  LET blocks == SetToSeq(dump)
  IN  /\ phase = "crashed"
      /\ \E i \in 1..(Len(blocks) + 1) : buffers' = recovered(InsertAt(blocks, i, JunkBlock))
      /\ phase' = "writing" /\ dump' = {}
      /\ UNCHANGED <<programVars, historyVars, file>>

\* Slip: the buffers are not grouped by session.
cmpByType(a, b) == a.type = "metadata" /\ b.type = "data"

\* The order of std::sort, which may put equal buffers in any order.
cmp(a, b) ==
  IF a.session = b.session THEN a.type = "metadata" /\ b.type = "data"
                           ELSE a.session < b.session

WriteBuffer ==
  /\ phase = "writing"
  /\ \E b \in buffers :
       /\ \A a \in buffers : ~cmp(a, b)
       /\ file' = file \o b.entries
       /\ buffers' = buffers \ {b}
  /\ UNCHANGED <<programVars, historyVars, phase, dump>>

Next ==
  \/ \E s \in Sessions :
       \/ \E k \in Kinds : AddMetadata(s, k)
       \/ Insert(s) \/ SetMagic(s) \/ UpdateSize(s) \/ NextPiece(s)
       \/ ReleaseQueue(s)
  \/ \E q \in Queues :
       \/ \E id \in KnownIds(q[1]) : Log(q, id)
       \/ CloseQueue(q) \/ ConsumeQueue(q)
  \/ Crash \/ Scan \/ WriteBuffer

Spec == Init /\ [][Next]_vars

-----------------------------------------------------------------------------
Done == phase = "writing" /\ buffers = {}

EventsAt == {i \in DOMAIN file : file[i].kind = "event"}
RecoveredNums == {file[i].num : i \in EventsAt}

\* What bread makes of the recovered file.
Read == readAll(NewReader, file)

\* Types; and the size field of a metadata buffer never covers a byte that was
\* not written yet (RecoverableVectorOutputStream::write and updateSize,
\* VectorOutputStream.hpp:78-114).
TypeOK ==
  /\ \A m \in Sessions \X Kinds :
       /\ meta[m] \in [magic : BOOLEAN, len : Nat, size : Nat]
       /\ meta[m].size <= meta[m].len
  /\ \A s \in Sessions : writing[s].step \in {"idle", "insert", "mark", "size", "next"}
  /\ qstate \in [Queues -> {"open", "closed", "gone"}]
  /\ phase \in {"running", "crashed", "writing"}

\* Wherever the crash comes, every event that was committed is in the output
\* of consume, or in the recovered file (~Channel, consume and brecovery's
\* search, Session.hpp:235-245, 370-376, brecovery.cpp:281-313).
NothingLost ==
  Done => \A s \in Sessions : \A i \in DOMAIN logged[s] :
            <<s, i>> \in delivered \union RecoveredNums

\* An event is in both only if the crash came between its being written and
\* the release of its bytes; no other is recovered twice (endRead and
\* ~Channel, Session.hpp:235-245, 376-381).
OnlyCopiedTwice ==
  Done => /\ delivered \intersect RecoveredNums \subseteq copying
          /\ \A i, j \in EventsAt : file[i].num = file[j].num => i = j

\* Unless the crash came while metadata was being added, the recovered file
\* reads without an error, and every event has the source of its own session,
\* although the sessions number their sources alike (brecovery.cpp:326-331).
RecoveredEventsOwnSource ==
  Done /\ quiet =>
    /\ Read.status = "reading"
    /\ \A i \in DOMAIN Read.events :
         LET e == Read.events[i]
         IN  e.src = <<e.num[1], logged[e.num[1]][e.num[2]]>>

\* ... and the last ClockSync of its session: no freed buffer, which may have
\* an old one, is taken for the one in use (write and clearMagic,
\* VectorOutputStream.hpp:78-92, 121-127).
RecoveredClocksLatest ==
  Done /\ quiet =>
    \A i \in DOMAIN Read.events :
      LET s == Read.events[i].num[1]
      IN  Read.events[i].clock = <<s, clocks[s]>>
=============================================================================
