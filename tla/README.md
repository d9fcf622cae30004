# binlog in TLA+

A verification project for binlog, a C++ library that writes structured logs
in binary form, and for its command line tools. Application threads serialize
log events into lock-free queues; one thread collects metadata and events from
all queues into a stream; readers print, filter, browse, or recover the stream
from a core file.

The modules are translated from the code in `src/include/binlog`,
`src/include/mserialize` and `src/bin`. TLC checks them on small instances;
TLAPS proves the theorems for every value of the constants.

## 1. Inventory

| Part | State | Operations | Talks to |
| --- | --- | --- | --- |
| Queue (`detail/Queue*.hpp`) | two atomic indices, `dataEnd`, the buffer; the writer's arena; the reader's `_readEnd` | beginWrite, writeBuffer, endWrite, unreadWriteSize; beginRead, endRead | one writer thread and one reader thread, through memory only |
| Session (`Session.hpp`, `default_session.hpp`) | channels, serialized sources and ClockSyncs, how much of them was consumed, the mutex | createChannel, setChannelWriterId/Name, addEventSource, setClockSync, setMinSeverity, consume, reconsumeMetadata | writers by calls (mutex), channels by shared ownership, the output by `write` |
| SessionWriter and macros (`SessionWriter.hpp`, `create_source_and_event*.hpp`, `*_log_macros.hpp`) | current channel, its QueueWriter; one cached source id per call site | construct, destroy, setId, setName, addEvent, replaceChannel, the macro | Session by calls, Queue |
| Recovery (`detail/VectorOutputStream.hpp`, `bin/brecovery.cpp`) | magic number, size and content of the metadata vectors; queues in a dump | write (grow, append, update size); scan, validate, sort, write | reads the memory of a dead process |
| Streams (`EntryStream`, `EventStream`, `EventFilter`, `SegmentedMap`, `TextOutputStream`) | position in the input; sources by id, last WriterProp and ClockSync; allowed ids | nextEntryPayload with rewind, nextEvent, writeAllowed | read what consume or brecovery wrote |
| btui (`btui.cpp`, `btui_model.cpp`, `btui_app.cpp`) | records, filtered indices, filter and sort order; selection; tail thread | load, filter, sort, cycle, key presses; the tail loop | tail thread and user interface share the model |
| bread (`bread.cpp`, `printers.cpp`) | a buffer of events to sort | print, sorted print | Streams |
| Printing and time (`PrettyPrinter`, `ToStringVisitor`, `Time`, `OstreamBuffer`) | format string; nesting depth; a fixed buffer | printEvent, visitor callbacks, put, write, flush | Streams, mserialize |
| mserialize (`Visit.hpp`, `tag_util.hpp`, `Serializer.hpp`, ...) | none at run time but the input | tag, serialize, deserialize, visit | everything above |

What is hard in each part, and the properties that make it correct:

* **Queue**: two threads without a lock. The writer must never touch a byte the
  reader may be copying, must not assign `dataEnd` while the reader may load
  it, must tell full from empty, and must hand out space after a wrap. The
  bytes arrive once and in order.
* **Session**: writers commit events and die without the mutex while consume
  holds it. Sources must precede the events that refer to them, in every
  output; no event may be lost when its channel is replaced or closed; a
  writer's events stay in order; the ClockSync in force is the one set last;
  an output that throws must not break the session.
* **Recovery**: a crash between any two steps; whatever is recovered must be
  readable, and nothing that could be recovered may be dropped.
* **Streams**: input that is still being written, ids defined again, unknown
  entries, half entries.
* **btui**: a tail thread against the user interface; indices into filtered
  records; errors in the middle of a load.

* **bread, printing, mserialize**: text is made from bytes, a tag and a little
  state of the visitor, through a buffer that may be full at any byte; a log
  may be cut anywhere; times before and after the ClockSync, near the ends of
  the integers.

`PROJECT.json` lists every such hazard with its line and the properties that
cover it.

## 2. Modules

| Module | Models |
| --- | --- |
| `ByteFifo` | abstract: the committed bytes arrive in order, in batches, once |
| `Queue` | `Queue`, `QueueWriter`, `QueueReader`, and how `consume` copies a read out |
| `Session`, `MCSession` | `Session`, `SessionWriter`, the logging macro: writers and the consumer |
| `SegmentedMap` | `SegmentedMap`, operators on a record of offsets and segments |
| `SourceTable` | abstract: a plain map from ids to sources, kept in step with a `SegmentedMap` |
| `Streams` | `EventStream`, `EventFilter` on the entries of a stream |
| `Recovery`, `MCRecovery` | `RecoverableVectorOutputStream`, a crash, `brecovery` |
| `Viewer`, `MCViewer` | `btui`: the file being written, the tail thread, the user interface |
| `StableSort` | `std::stable_sort`, as bread and btui use it |
| `Tags`, `TypeTags` | `tag_util.hpp`, `Singular.hpp`; the tag of a type |
| `Serialization` | bytes and sizes of values; adapters; `Range` |
| `Entry` | `addEvent` and `serializeSizePrefixedTagged` to `nextEntryPayload` and `deserialize`: the bytes of an entry |
| `Time` | `ticksToNanoseconds`, `clockToNsSinceEpoch`, broken down times |
| `Clock` | the ClockSync in force, and the times of events under it |
| `Printing`, `Visiting` | `ToStringVisitor`, `PrettyPrinter`, `Visit.hpp` |
| `OstreamBuffer` | `OstreamBuffer`: any calls, on a buffer of any size |
| `Printers` | the loops of `printers.cpp`, whatever is printed of an event |
| `Bread`, `MCBread` | `bread`: `Printers` with the text of the events; its properties |
| `QueueProofs`, `SessionProofs`, `BreadProofs`, `SerializationProofs`, `RecoveryProofs`, `ViewerProofs` | theorems about the specifications, section 4 |
| `FoldProofs`, `StreamsProofs` | lemmas: induction and folds; maps and the reading of entries |

`Recovery` and `Viewer` compose with `Streams`: what brecovery writes, and what
btui loads, is read by the same `readAll`. `Bread` composes `Streams`, `Printers`,
`TypeTags`, `Serialization`, `Visiting`, `Time` and `OstreamBuffer`: a job is a log of
typed values, whose tags and bytes are made by `TypeTags` and `Serialization` and turned
to text by `Visiting`.
The `Session` of threads and memory and the `Recovery` of buffers are two views
of one class: the first has the order of consume's steps and what threads see
of each other, the second the memory a crash leaves, with consume reduced to
one queue at a time.

### Queue

`writeIndex`, `dataEnd`, `readIndex` and `buf` are the shared fields. Pointers
into the buffer (`_writePos`, `_writeEnd`, `buffer1`) are indices. Each action
is one call: `BeginWrite(size)` (the call that looks for space),
`BeginWriteFits(size)`, `WriteBuffer(n)`, `EndWrite`, `BeginRead`, `EndRead`;
the copying of the two halves by `consume` is `CopyFirst` and `CopySecond`, and
a throwing output is `AbandonRead`. A byte is its number in the stream of
committed bytes, so that a byte in the wrong place, lost, repeated or
overwritten is visible as arithmetic.

The atomics are acquire/release, so a thread can load an old value. `rView` is
the `readIndex` the writer can load, `wView` the `writeIndex` the reader can
load; `ReadIndexArrives` and `WriteIndexArrives` advance them. Bytes and
`dataEnd` are plain memory: they are safe only if no two threads can touch them
at once, which `NoRacyByte` and `NoRacyDataEnd` state, so the plain variables
in the model are what the program has.

Properties: `ViewIntact` (what beginRead returned stays valid until endRead),
`NoRacyByte`, `NoRacyDataEnd`, `EmptyMeansDrained` (R = W only when all was
consumed; the other direction does not hold, since an endWrite without a write
after a wrap leaves an empty queue with R and W apart), `UnreadSizeIsExact`,
`DumpHoldsTheUnread` (beginRead on a dump gives exactly the unread bytes),
`ImplementsFifo` (refinement of `ByteFifo`), `HalfIsEventuallyGranted`
(liveness: a writer that keeps asking for at most half the capacity gets it).

### Session

Writers (`Writer(w)`): `OpenWriter`, `CloseWriter`, `SetName`; a log call is
`StartLog` (load of the cached id), `AddEventSource` and `StoreSid` at the
first use, then `Commit`, or `CopyProp`, `ReplaceChannel`, `ReleaseChannel` and
`Commit` when the queue is full; `ReplaceFails` and `DropEvent` when a channel
cannot be allocated. Everything under the mutex is one action, enabled when
consume is not running (`MutexFree`), except consume itself: `ConsumeStart`
(ClockSync and sources), then for each channel `PollClosed`, `PollRead` and
`PollWrite`, then `ConsumeEnd`. Between these steps writers commit, close and
load. `ConsumeStartThrows` and `PollWriteThrows` are calls of `out.write` that
throw; `Rotate` is a new output with `reconsumeMetadata`.

The queue of a channel is the sequence `unread`, as justified by `Queue`.
`visible[c]` is how much of it the consumer's thread can see: it grows by
itself (`EventArrives`) and is complete once the consumer locks the mutex after
the writer did (`PublishByMutex`). `closeSeen[c]` is the use count as the
consumer can load it. With `LoadsInOrder` (a machine that does not reorder two
loads) the drop of the shared pointer becomes visible after the events; without
it, it may come first, as the relaxed load allows.

An entry of the output is a record: a ClockSync with its version (one record
for the block of all ClockSyncs so far, of which a reader keeps the last), an
EventSource with id and call site, or a batch: a WriterProp and its events.
Names are numbers, a later setName having a larger one.

Properties: `SourcePrecedesEvent`, `NoEventLost`, `EventsInOrder`,
`CurrentClock`, `NewEventsCarryName`, `NoRemovedChannelPolledUnlessThrown`, and
under fairness `EventuallyConsumed` and `ClosedChannelsRemoved`.

### Streams, SegmentedMap, SourceTable

A reader is a record: sources by id (a `SegmentedMap`), the last WriterProp
and ClockSync, the events so far, and `status`: reading, at the end, or ended
by an exception. `readEntry` is one turn of `nextEvent`'s loop, `readAll` a fold.
An entry that is cut short throws without changing the stream. `filterEntry` is
one entry of `EventFilter::writeAllowed`.

`SourceTable` stores any ids in any order in a `SegmentedMap` and in a plain
function; `TableIsPlain` says a lookup cannot tell them apart.

### Recovery

`meta[<<s, k>>]` is a metadata buffer of session `s`: its magic number, length and
size field, in pieces; an entry is made of two calls of `write`. Each call is
`BeginPiece` (clearMagic if the vector must grow), `Insert` (the old buffer
stays in memory, freed), `SetMagic`, `UpdateSize`; then `NextPiece`, or the mutex
is unlocked. `Log`, `CloseQueue`, `ConsumeQueue` (up to the return of
`out.write`), `ReleaseQueue` (endRead, which leaves what was logged behind the
read, and the destructor of Channel). `Crash` may
come at every state, so between any two of these: the dump is the set of
blocks that begin with a magic number, freed ones too. `Scan` is the search,
with junk that looks like a magic number put anywhere among the blocks, and the
validation; `WriteBuffer` writes any buffer that `cmp` puts before none of the
others, as std::sort may order equal ones in any way.

Properties: `NothingLost` (an event is in the output of consume or in the
recovered file), `OnlyCopiedTwice` (in both only if the crash came between write
and release), `RecoveredEventsOwnSource` and `RecoveredClocksLatest` (what bread
makes of the recovered file, unless metadata was being added at the crash).

### Viewer

Positions in the file count half entries. The application appends an entry in two
steps (`WriteHalf`, `WriteRest`) and may be restarted, after which its source ids
begin anew (`Restart`). `Start` is `main`: one or two files are loaded, with the
options `-s` and `-t`. The tail thread is `Open` (which seeks to the end), then
`Sleep` (the flag is read, and the thread sleeps), `Poll` and `Load`, over and over,
and `Leave`; a stop that comes while it sleeps lets it poll and load once more. The
user interface is `Render` and one action for each kind of key; `Join` is the return
of `join`. Locks: only the tail thread takes the model's mutex, so a key or a drawing
while it loads is a data race: `DataRace` leads to the status "undefined", after
which nothing is stated. Every `Load` has its own `EventStream`, as in the code, and
an exception in it ends the program.

Properties: `RecordsAreFile`, `RecordsOwnSource`, `RowsCurrent`, `FilteredStream`
(`EventFilter` on the live file), the action properties `SelectionDrawn` and
`ScrollsFromLast`, and under fairness `TailCatchesUp` and `TailStops`.

### Tags, Serialization, Entry, Time, Clock, Printing, Visiting, OstreamBuffer, Bread

A tag is a sequence of characters, where a word no reader looks into counts as
one; a byte is a number. `serialize`, `serialized_size`, `deserialize`, `tagOf` follow
the templates, one case for each kind of type. The compiler makes a function for each
type that calls those of its parts; `Serialization` makes them level by level: `w` is
what writes all values whose nesting is less deep, `serializeBy(w, t, v)` calls it for
the parts of `v`, and `serialize` is the fold of that over `Depth` levels. So it is no
recursive operator, and theorems can be stated about it. `Types` and `Values` are the
types and values that are logged, with all their parts; `isValue` says that a value is
one of its type, each number within its range and each length within 32 bits, and
`is_deserializable` which types have a deserializer (variants have none).

`visit_impl` and what it calls is the interpreter of tags, with its recursion limit,
the abbreviation of empty elements and the lookup of recursive structs by name. The
visitor is a record: input left, state, depth, output chunks, thrown or not.

`Entry` has one entry on its way. `Reserve` adds up the sizes of the fields and writes
the size; `WriteField` serializes the next one; `Commit` is endWrite. It arrives
(`Arrive`) in front of what follows it in the log, or cut anywhere. `Read` takes the
payload out of the input first, as `nextEntryPayload` does, or not.

`OstreamBuffer` has the buffer (`buf`), what it flushed (`stream`), the calls still to
be made (`chunks`) and, as history, all of them (`calls`). `Construct` and `Destroy`
are its two ends, `PutChar`, `WriteNumber` and `Write` the calls, `Write` one turn of
its loop. `Printers` extends it by the events still to be read, with what each is
printed as: `Begin` constructs a buffer for the chunks of the next event, `End` destroys
it, and `Finish` is the end of `printEvents` or `printSortedEvents`. `Bread` gives the
chunks: what `PrettyPrinter` makes of the event. In the run, `OutputComplete` also says
that Bread uses the buffer as `OstreamSpec` allows: a put has one character, and a
number is no longer than the room for it (`Calls`).

`SourceTable`, `Clock` and `Entry` are small specifications of their own: in the run
they take their steps before one of the jobs begins, with ids, ClockSyncs and cuts that
no short log has, on the same operators that logging, reading and printing use.

Properties: `MessageText` (against `Render`, which makes the text from the value
with no tag, bytes or state), `RoundTrip` (no field is written beyond the reserved room,
a committed entry fills it, a reader gets the values back and what follows untouched, and
no values of a part of an entry), `OutputComplete`,
`SortedIsPermutation`, `ClockExact` (against exact integers), `TableIsPlain`.

Definitions commented as "Slip" are variants of a definition with one mistake
the code could contain. They are used by no specification: with one of them in
place of the original, TLC finds the property violated it was written for.

## 3. Runs

| Run | Bounds | Shows |
| --- | --- | --- |
| `queue` | 5 bytes, 12 bytes written | all safety properties, the refinement and the liveness of the queue. 5 is odd, so the two sides of a split differ; 12 bytes pass the end more than twice, so `dataEnd` is left over from an earlier wrap |
| `session` | 2 writers, 1 call site, 2 events each, 3 channels, queue of 2 events | the races at a shared call site, at closing and at replacing a channel |
| `session_faults` | 1 writer, 3 events, 2 channels, one each of: setName, setClockSync, new output, throwing write | the disturbances in every order, with the events before and after them |
| `recovery` | 2 sessions, 3 queues, 2 sources, 1 further ClockSync, 2 events, 1 growth, 1 closed channel | a crash in each of the 1.45 million states, and every order of brecovery's sort. Two sessions number their sources alike; two queues of one session can both hold events; one growth leaves one freed buffer |
| `viewer` | 4 entries, 2 severities, 1 restart, 2 keys, 1 visible row, pages of 2, 16 values of size_t | source, writer and two events, the shortest file in which a poll meets a known source and a half entry; a filter, then a sort or a toggle; a second file of up to 3 entries, cut before its sources or not |
| `bread` | 17 messages with every kind of type, 12 logs with long formats, cut ends and sorting; buffer of 7 bytes, 5 reserved for a number; sequences abbreviated over 3, recursion 8; 10 for 10^9, 15 bit words; 5 ids; values nested up to 14 levels, entries of all messages, each cut at every byte or before one of 2 continuations | every chunk meets a buffer that is empty, exactly full, or one short; every clock value at a boundary with every ClockSync; all orders in which two sources are stored with five ids |
| `viewer_tail` | as `viewer`, without keys and restart | *violated*: a complete event of a known source ends `btui -t` |
| `session_live` | 1 writer, 3 events, 3 channels | every event gets out, every abandoned channel goes |
| `session_weak` | 1 event, loads out of order | *violated*: an event is destroyed with its channel |
| `session_name` | 2 events, 2 renamings | *violated*: setName does not reach events in a replaced channel |
| `session_rename` | the same, setName by another thread | *violated*: a setName during replaceChannel is lost |
| `session_sink` | 1 event, 1 throwing write | *violated*: the next consume dereferences a channel that was reset |

The five marked *violated* each show a disagreement between the code and what
its comments or its usage promise; `PROJECT.json` quotes them under `findings`.
The steps:

* `session_weak`: `use_count()` is a relaxed load. Consume loads 1 after the
  writer committed an event and died, but its load of `writeIndex` returns the
  older value; the queue looks empty, and the channel is removed with the
  event. Needs a machine that completes the two loads out of order (not x86).
* `session_name`: log, the queue is full, the channel is replaced, setName: the
  old channel keeps the old name.
* `session_rename`: replaceChannel has copied the name; setName from another
  thread changes the old channel; the new channel is created with the copy.
* `session_sink`: consume resets a closed channel, then `out.write` throws for
  a later one; the null pointer is never erased.
* `viewer_tail`: source and writer are in the file when btui starts; an event of
  that source is appended; the poll's new stream has no source with its id and
  throws, and nothing in the thread catches it.

Deadlock is checked in `queue`, `session` and `session_live`. In `session_faults`
the program may stop for good after the crash that `session_sink` describes;
brecovery, bread and btui end when they are done, or terminate.

**Fairness.** Queue: the writer repeats a refused beginWrite (as the test
`TestQueue.cpp:54` does), the reader polls, a throwing output does not throw
for ever, stores become visible in the end. Session: somebody keeps calling
consume (the library leaves that to the application, `ConsumeLoop.cpp` is the
pattern) and stores become visible; nothing is asked of writers. Viewer: the
tail thread is scheduled (its sleep is finite) and a join that can return does;
nothing is asked of the application or of whoever presses keys.

## 4. Proofs

`QueueProofs`, for every capacity and number of bytes: `Spec => []TypeOK`, all
safety invariants of the `queue` run, and `Spec => ImplementsFifo`.

The invariant of the run is not inductive; `IInv` adds where the unread bytes
are. The *path* runs from the `readIndex` the writer knows to `writeIndex`,
straight or around the end over `dataEnd`; `OnPath(i)` are its positions,
`Count(i)` the number of bytes committed before one. Then: `Indices` (both
threads' indices are on the path, in order, with the counts the histories say),
`Stored` (each byte on the path is the one that belongs there), `Arena` (the
writer's region is off the path), `Viewed` and `Copied` (a read in progress has
a part of the path). beginRead is correct because any part of the path is read
back as the bytes between its ends (`ResultHoldsStream`). A `readIndex` that
arrives late only shortens the path, and a wrap only begins when the path is
straight, which is why `dataEnd` is never changed under the reader.

`DrainedQueueGrantsHalf` is the fact behind the liveness property and behind
replaceChannel's factor of two. Liveness itself is only model-checked.

`SessionProofs`, for any number of writers, call sites,
events, channels, outputs and throwing writes, proves `Spec => []` of `TypeOK`,
`SourcePrecedesEvent`, `CurrentClock` and `NoRemovedChannelPolledUnlessThrown`; of
`NoEventLost` and `EventsInOrder` if `LoadsInOrder`; of `NewEventsCarryName` if not
`RenameAnytime`. Each invariant is inductive given the first, `TInv`:

* `TInv` adds to the types where the threads can be (`Places`): a writer in use
  has a channel, consume is at a position that was not reset, and what it has
  read is still in the queue.
* `SourceInv`: an id held by a call site or by a thread, and so the id in a
  queued event, is that of a source of that call site (`IdsKnown`); the sources
  consumed are in the current output (`ConsumedWritten`); and as consume holds
  the mutex, while it runs no source is added to those it wrote at its start
  (`AllConsumed`). A throwing write consumes no source; a new output begins with
  all that were consumed.
* `LossInv`: a writer in use holds a listed channel of its own (`Holding`); once
  the consumer has seen that a channel is abandoned, all of it is visible, and
  nothing can be added (`ClosedVisible`); so the read that follows gets all of
  it (`BatchIsFront`) and removing the channel loses nothing. `CloseArrivesLoss`
  is the one step that needs `LoadsInOrder`; without it `session_weak` is the
  counterexample.
* `ClockInv`: whenever `consumeClockSync` is clear, the last ClockSync of the
  current output is the one that was set last, and consume clears it before it
  polls. `ResetBehind`: the channels that were reset are behind the iterator.
* `NameInv`: the WriterProp of a channel has the name of the writer that holds
  it, and so do the events in a queue or in a batch that were logged since.
  A rename by another thread breaks it (`session_rename`).
* `OrderInv`, given `LossInv`: a writer locks the mutex when it replaces a
  channel, so all of a replaced one is visible, and is read at once (`Emptied`);
  consume goes through the channels in the order they were created (`Sorted`), so
  when it writes one, the older ones of that writer are empty. The numbers in a
  queue are consecutive and after those of older queues (`Numbered`), and the
  event before the first unread one was written or is in an older queue
  (`NoGaps`). So each write continues what was written (`DeliverOrder`), also
  the part of one that throws.

`BreadProofs` has what can be proved of bread. For any ids and sources in any
order, the segmented map is a map (`TableSpec => []TableIsPlain`). `TableInv` says
that the segments are sorted and disjoint; for every key one segment is then the
last that does not begin after it, so the binary search has a result and it is the
only segment that can hold the key.

`ClockIsExact` is `ClockExact` for every `Den`, every even number of values of a word,
every clock value, and all ClockSyncs a stream may have (`ClockSpec => []ClockExact`).
`QuotScaled` is the reason for the code's detour:
`(ticks / frequency) * 10^9 + (ticks % frequency) * 10^9 / frequency` is the quotient
of the product that could overflow, and all that is computed on the way lies between
zero and that quotient, or zero and frequency * 10^9 (`TicksExact`); a time after
the epoch is the sum of its parts (`BrokenDown`).

`OstreamOutputComplete` is `OutputComplete` for every size of the buffer, every room
for numbers that is not larger, and all calls (`OstreamSpec => []OutputComplete`).
The property is inductive with the types of the other variables (`OstreamInv`): a
text of at most the reserved size goes behind what was written, flushed or not
(`Append_Inv`), and takes from the calls just that text (`Taken_Inv`).

`SortedOutput` and `PrintersUseBuffer` are about the loops of printers.cpp, for any log
and anything printed of its events (`PrintersSpec`). `LogOfEntries` says what the events
of a log are; the sort is that of btui, and permutes, orders and is stable (`SortsPairs`,
from `SortsRows` in `StreamsProofs`); `PrintersInv` says which events were printed and
what is left. The loops implement `OstreamSpec`, a new buffer being constructed for each
event, so `OutputComplete` holds of them too. That the calls of PrettyPrinter are in
`Calls` is checked by the run.

`SerializationProofs` proves `EntrySpec => []RoundTrip` for all structs, enums, types and
values, nested to any depth, all entries made of them and all that may follow an entry.

* A number of any size and sign is put together again from its bytes (`IntegerBack`):
  reading them from the highest on, with the sign of the highest, undoes each division
  by 256.
* If each of several parts has its size and is read back, and is not read from an input
  that ends within it, so it is with the parts in a row (`SizesAdd`, `ReadEach`). An input
  that ends within the row ends within one of its parts (`CutTwice`).
* `Promise` says this of a value: `serialized_size` is the number of bytes `serialize`
  writes, and `deserialize`, if there is one, reads them. There is a lemma for each kind of
  type (`SequencePromise`, `OptionalPromise`, ...), from the promises of the parts to that
  of the whole (`DeeperPromise`), and so it holds at every level (`EveryLevel`).
* `EntryInv`: what is written of an entry is its size and its first fields; what arrived
  is all of it in front of something, or a part.

The sizes are found by other templates than the bytes, with a shortcut for sequences of
numbers; that the two agree is what keeps addEvent within the room it reserved.

`FoldProofs` is what recovery, the viewer and the buffer need of a fold. The library's
induction takes a predicate as a parameter, which no installed prover can
instantiate; here it takes a set (`NatInd`: a set of numbers that has 0, and n + 1
with each n, has all of them), and follows from the well-foundedness of the
order. `FoldLeft` is defined by recursion over sets of positions; `FoldAppend`
says that it takes one element after the other, `FoldSteps` that it goes through
a state per element, `FoldConcat` that it can stop in between. `StreamsProofs`
uses them for `readAll`, and states what `emplace` does to any well-formed
`SegmentedMap` (`EmplaceIsMap`). No lemma is about a particular input.

`RecoveryProofs`, for any number of sessions, queues, sources, ClockSyncs,
events and growths, and a crash between any two steps, proves the five
invariants of the run. There are two inductive invariants:

* `Inv`. Until the crash, `Buffers`: the size field of a buffer never covers
  more than was written, its magic number is absent only while it grows and
  whatever is freed has none; and `Channels`: each logged event is delivered or
  in one queue, and both only while it is read (`Covered`, `QueuedOK`). After
  it, `Blocks`: what the search has still to find, has found, and has written,
  taken together, hold each event that is not delivered, and no event twice.
  `NothingLost` and `OnlyCopiedTwice` are read off when nothing is pending.
  The search itself is `recovered`, a recursive function; `Searches` is its
  recursion, from which it follows that junk that looks like a magic number
  hides no block behind it.
* `QuietInv`, for a crash when no metadata was being added. A reader of the
  file so far (`Read`) is in a good state; and for each session with a block
  pending, what its events need is pending before it or was read last, with no
  other session's block in between (`ClockKnown`, `SourcesKnown`, `Reached`).
  It holds because `cmp` puts sessions in order, and ClockSyncs, sources and
  data in that order within one; ties may be broken in any way. Two sessions
  that use the same ids are kept apart by that alone.

`ViewerProofs`, for files, ids, second files, keys and restarts of any number, any
screen and page size and any width of `size_t` beyond the bounds, proves all
invariants and both action properties of the run `viewer`. `Inv` has one part for
each piece of state:

* `FileInv`: what applications write. Each event has the source and the writer
  last written before it (`WrittenByApplications`), also across restarts that
  number sources anew, and the numbers of events increase. Every suffix of such a
  file is one (`SuffixWritten`), and a poll reads a suffix.
* `ReadInv`: a new reader reads the whole live file without an error.
* `TailInv`, `StartInv`: only entries below the thread's position were read, so
  the next load reads none again.
* `RecordsInv`: the two properties of records. A load is a fold that begins with
  the records there are: `Upto` says what the reader knows after k entries
  (`Known`: its sources and writer were last written among the k) and which
  events it added (`EventsOf`), also when it ends with an exception.
* `RowsInv`: the rows are distinct records, sorted, and unless `stale` the
  accepted ones. `std::stable_sort` is an insertion behind all that are not after
  the new row; `SortingIs` shows that it permutes, sorts and is stable,
  `FilterIs` that the filter loop keeps exactly the accepted.
* `UiInv`: the selection is at most as many pages behind the last event as keys
  were pressed. With the assumption that this fits into `size_t` it gives
  `ScrollsFromLast`, where `0 - 1` wraps around.

`SelectionDrawn` needs nothing but the types: the clamp is in the drawing.
`FilteredStream` has an invariant of its own, `FilterInv`: the readers of the input
and of the output agree on sources and writer (`Twins`), since EventFilter
copies every metadata entry, allowed or not. It breaks with a restart: an id that
was allowed stays so.

What is only model-checked: liveness (`HalfIsEventuallyGranted`,
`EventuallyConsumed`, `ClosedChannelsRemoved`, `TailCatchesUp`, `TailStops`), since
fairness and `ENABLED` are out of the prover's reach; and of `Bread`, `MessageText`, and
that its calls are in `Calls`. `Tags`, `TypeTags`, `Printing` and `Visiting` are recursive
over types and tags, and no theorem can be stated in a module that reaches a recursive
operator; the run `bread` checks them over bounded inputs.

The assumptions are those on the constants: `QueueAssumption`,
`SessionAssumption`, `TableAssumption`, `TimeAssumption`, `ClockAssumption` (times are
printed only if the frequency is not zero, PrettyPrinter.cpp:278),
`OstreamAssumption` (the room for a number fits in the buffer); `SerializationAssumption`
(types are built of types and values of values, within their ranges, no deeper than
`Depth`); `EntryAssumption` (the values of an entry are of the types of its fields, and
its size fits the size field, to which addEvent casts it unchecked,
SessionWriter.hpp:162); `JobsAssumption` (the entries of a log are of the kinds there are,
and each event has a clock value); `RecoveryAssumption` (sessions and queues
are finitely many, and sessions are numbered, as their addresses in the dump
are); `ViewerAssumption` (a second file is one that applications wrote, perhaps
cut at its beginning, and no number of keys overflows `size_t`). Beyond them:
`memcpy` and stores behave as in a race-free program, and the two indices are
acquire/release.

## 5. What is not modelled

In the parts that are:

* Session: the minimum severity (advisory), the byte counts of `ConsumeResult`,
  move assignment of a SessionWriter. setName from another thread is an atomic
  change of a string, though the code's unlocked copy in replaceChannel makes it
  a data race; `session_rename` shows that it goes wrong even so.
* Streams: bytes. The rewind of `IstreamEntryStream` is left out: no caller reads
  on after the exception. A zero size entry, which the library never writes, is
  taken for the end of the input (EventStream.cpp:12).
* Viewer: column layout, highlighting, the text filters other than the writer's.
* Printing and serialization: floating point numbers, locales, `gmtime_r` (a
  calendar is external), pointers and the traits that select a serializer.
* The option parser and the opening of files; the Windows `getopt` is vendored.
* Templates, macros and constexpr strings that have no run-time state, except for
  the tags they produce.

What was met on the way and no run shows:

* Recovery. A crash while the metadata vector grows, or between the pieces of
  what is added, loses that session's sources: the events that are recovered
  then cannot be decoded, or are read with a source of the same id of another
  session, where brecovery.cpp:57 says "The output is a valid binlog logfile".
  The order of the queues of one session is left open by the unstable
  `std::sort` (brecovery.cpp:331). At the plain end of the input brecovery logs
  a failure of reading.
* btui, threads. The user interface reads and writes the model without
  `model.mutex` ("Mutex for thread-safe access", btui_model.hpp:122) while the tail
  thread changes it; in `Viewer` this is the status *undefined*. The tail thread posts no
  event, so new records are drawn with the next key. If the file cannot be opened,
  `startTailThread` leaves `_tailRunning` true without a thread.
* btui, polls. "Seek to end (past already-loaded data)" (btui_app.cpp:577) skips
  what was appended between the load and the seek, or while the tail was off; a
  poll of a half-written entry, or after a seek into one, ends btui; records of
  a poll know no earlier WriterProp or ClockSync. If the first load throws, the
  records parsed before stay unshown (btui.cpp:144, 162).
* btui, keys. Turning the sort off leaves the rows sorted. The auto-scroll compares the
  number of rows with the number of all added records: with two rows of which the first
  is selected, one new record that the filter hides moves the selection to the second,
  where the comment says "if we were at the last event" (btui_app.cpp:603). PageDown with
  no rows moves `selectedIndex`.
* bread. An event that cannot be read makes `bread -s` print nothing, where
  plain bread prints all events before it and a part of that one; the recursion
  limit is also met after a part of the text.
* EventFilter keeps an id allowed when a later source that is not allowed reuses it
  (EventFilter.hpp:84), where line 39 says "Events are written to `out` only if produced
  by allowed EventSources". EventStream.hpp promises "*this remains unchanged" of a
  failing read, though `_event.source` has changed.
* Time. A time before the epoch gets a negative `tm_nsec` (Time.cpp:46-49);
  the remainder times 10^9 overflows for a frequency above 9.2 GHz.

## 6. What could come next

1. The abstract promise of recovery as a specification that `Recovery` implements.
2. The bytes of an entry: `IstreamEntryStream` on a file that grows within the
   size field, and bread on a pipe.
3. The visitor level by level, as `Serialization` is, so that `MessageText` can be proved
   for values of any depth.
