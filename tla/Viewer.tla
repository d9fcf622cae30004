-------------------------------- MODULE Viewer --------------------------------
(***************************************************************************)
(* btui: a viewer of a logfile that is still being written                 *)
(*   bin/btui.cpp, btui_app.*, btui_model.*, and the streams below them    *)
(*                                                                         *)
(* Three actors share the state: the logging application, which appends    *)
(* entries to the file and may be restarted; the tail thread, which polls  *)
(* the file and loads what is new into the model; and the user interface,  *)
(* which handles keys and draws.  Only the tail thread locks the model's   *)
(* mutex: a key or a drawing while the tail thread is loading is a data    *)
(* race, after which nothing is promised (status "undefined").             *)
(*                                                                         *)
(* Positions in the file count half entries: an odd one is in the middle   *)
(* of an entry.                                                            *)
(***************************************************************************)
EXTENDS Streams, StableSort
LOCAL INSTANCE SequencesExt

CONSTANTS
  Severities,   \* the number of severities; they are 0 .. Severities - 1
  Rows,         \* visibleRows
  PageSize,     \* kPageSize
  Word,         \* 2^w for the w bits of std::size_t
  CommandLines, \* the contents of a second file, and the options -s and -t
  MaxOther,     \* bound: entries of a second file
  MaxEntries,   \* bound: entries of the live file
  MaxRestarts,  \* bound: restarts of the application
  MaxKeys       \* bound: keys pressed

\* What an event is known by: its number in the live file (0 in another file),
\* its time, and the source and the writer it was logged with.
Number == [num : Nat, time : Nat, src : Nat, writer : Nat]

FileEntry == [kind : {"source"}, id : Nat, src : Nat, cut : {FALSE}]
             \union [kind : {"writer"}, name : Nat, cut : {FALSE}]
             \union [kind : {"event"}, id : Nat, num : Number, cut : {FALSE}]

IsEvent(e) == e.kind = "event"
IsSource(e, id) == e.kind = "source" /\ e.id = id
IsWriter(e) == e.kind = "writer"

\* Each event has the source and the writer that were last written before it,
\* unless the beginning of the file, where they were, is cut off.
WrittenByApplications(entries) ==
  \A k \in DOMAIN entries : IsEvent(entries[k]) =>
    \A j \in 1..(k - 1) :
      /\ /\ IsSource(entries[j], entries[k].id)
         /\ \A i \in (j + 1)..(k - 1) : ~IsSource(entries[i], entries[k].id)
         => entries[j].src = entries[k].num.src
      /\ IsWriter(entries[j]) /\ (\A i \in (j + 1)..(k - 1) : ~IsWriter(entries[i]))
         => entries[j].name = entries[k].num.writer

ASSUME ViewerAssumption ==
  /\ {Severities, Rows, PageSize, Word} \subseteq Nat \ {0}
  /\ {MaxOther, MaxEntries, MaxRestarts, MaxKeys} \subseteq Nat
  \* No file is so large, and no key is pressed so often, that std::size_t overflows.
  /\ MaxEntries + MaxOther + PageSize * MaxKeys + 1 < Word
  /\ \A line \in CommandLines :
       /\ line \in [other : Seq(FileEntry), sorted : BOOLEAN, tailing : BOOLEAN]
       /\ Len(line.other) <= MaxOther /\ WrittenByApplications(line.other)
       /\ \A k \in DOMAIN line.other :
            IsEvent(line.other[k]) => line.other[k].num.num = 0

VARIABLES
  file,     \* the complete entries of the live file
  half,     \* the entry of which only a part is on disk, if any
  app,      \* the application: its sources, its writer, its restarts
  status,   \* "starting", "running", "quit", "terminated", "undefined"
  records,  \* _allRecords
  shown,    \* _filteredIndices
  filter,   \* _filterState: severity and writer name
  sort,     \* _sortOrder
  ui,       \* _state, and where the user interface is
  keys,     \* keys pressed so far
  tail,     \* the tail thread, its stream and _tailRunning
  read,     \* history: the entries of the live file the viewer has read
  stale     \* history: the last load ended with an exception

fileVars  == <<file, half, app>>
modelVars == <<records, shown, filter, sort>>
vars == <<fileVars, status, modelVars, ui, keys, tail, read, stale>>

NoEntry == EmptyEntry
SortOrders == {"none", "ascending", "descending"}
NoFilter == [min |-> 0, writer |-> NoName]

Init ==
  /\ file = <<>> /\ half = NoEntry
  /\ app = [sources |-> <<>>, writer |-> NoName, restarts |-> 0]
  /\ status = "starting"
  /\ records = <<>> /\ shown = <<>> /\ filter = NoFilter /\ sort = "none"
  /\ ui = [pc |-> "ready", selected |-> 0, scroll |-> 0, typing |-> FALSE]
  /\ keys = 0
  /\ tail = [pc |-> "off", running |-> FALSE, pos |-> 0, eof |-> FALSE]
  /\ read = {} /\ stale = FALSE

-----------------------------------------------------------------------------
(* The application *)

Events == {k \in DOMAIN file : IsEvent(file[k])}

\* What consume writes next: a new source, the writer, or an event of a source
\* already written.  The event has its number, time, source and writer.
NextEntries ==
  {SourceEntry(Len(app.sources) + 1, (Len(app.sources) + app.restarts) % Severities) :
     x \in {app.sources} \ {s \in {app.sources} : Len(s) = 2}}
  \union {WriterEntry(1) : x \in {s \in {app.sources} : app.writer = NoName /\ s # <<>>}}
  \union {EventEntry(id, [num |-> Cardinality(Events) + 1, time |-> Cardinality(Events) % 2,
                          src |-> app.sources[id], writer |-> app.writer]) :
            id \in IF app.writer = NoName THEN {} ELSE DOMAIN app.sources}

\* The viewer is there, or will be.
Watched == status \in {"starting", "running"}

\* The write of an entry is on disk in part.
WriteHalf ==
  /\ Watched /\ half = NoEntry /\ Len(file) < MaxEntries
  /\ half' \in NextEntries
  /\ UNCHANGED <<file, app, status, modelVars, ui, keys, tail, read, stale>>

WriteRest ==
  /\ Watched /\ half # NoEntry
  /\ file' = Append(file, half) /\ half' = NoEntry
  /\ app' = CASE half.kind = "source" -> [app EXCEPT !.sources = Append(@, half.src)]
              [] half.kind = "writer" -> [app EXCEPT !.writer = half.name]
              [] half.kind = "event"  -> app
  /\ UNCHANGED <<status, modelVars, ui, keys, tail, read, stale>>

\* Another run of the application appends to the file; its source ids begin anew.
Restart ==
  /\ Watched /\ half = NoEntry /\ app.restarts < MaxRestarts
  /\ app' = [sources |-> <<>>, writer |-> NoName, restarts |-> app.restarts + 1]
  /\ UNCHANGED <<file, half, status, modelVars, ui, keys, tail, read, stale>>

\* The size of the file.
FileEnd == 2 * Len(file) + IF half = NoEntry THEN 0 ELSE 1

-----------------------------------------------------------------------------
(* BtuiModel *)

Accepts(f, r) == r.src >= f.min /\ (f.writer = NoName \/ r.writer = f.writer)

\* A smaller key is sorted first.
sortKey(order, r) == IF order = "ascending" THEN r.num.time ELSE -r.num.time

applySorting(order, recs, indices) ==
  LET rows == [k \in DOMAIN indices |->
                 [index |-> indices[k], key |-> sortKey(order, recs[indices[k]])]]
      sorted == sortRows(rows)
  IN  IF order = "none" THEN indices ELSE [k \in DOMAIN sorted |-> sorted[k].index]

\* The indices of the records that are accepted.
pushAccepted(indices, r) == IF r.accepted THEN Append(indices, r.index) ELSE indices

filterRecords(recs, f) ==
  FoldLeft(pushAccepted, <<>>,
    [i \in DOMAIN recs |-> [index |-> i, accepted |-> Accepts(f, recs[i])]])

\* Slip: a new filter, or a load, undoes the sorting.
applyFiltersUnsorted(order, recs, f) == filterRecords(recs, f)

applyFilters(order, recs, f) == applySorting(order, recs, filterRecords(recs, f))

\* Slip: one EventStream for all files.
readerForAll(r) == [r EXCEPT !.status = "reading"]

\* loadFromEntryStream begins with an EventStream of its own.
readerFor(r) == [NewReader EXCEPT !.events = r.events]

\* loadFromEntryStream: entries, then possibly a part of one.
load(r, entries, partial) ==
  LET end == readAll(readerFor(r), entries)
  IN  IF partial THEN [end EXCEPT !.status = "error"] ELSE end

Loaded(recs) == [NewReader EXCEPT !.events = recs]

\* main: the files are loaded one by one; a load that throws ends before
\* applyFilters, and what it has parsed stays.  -s sorts, -t starts the thread.
Start(line) ==
  LET one == load(Loaded(<<>>), file, half # NoEntry)
      two == IF line.other = <<>> THEN one ELSE load(one, line.other, FALSE)
      order == IF line.sorted THEN "ascending" ELSE "none"
      filtered == CASE two.status # "error" -> applyFilters("none", two.events, NoFilter)
                    [] two.status = "error" /\ line.other # <<>> /\ one.status # "error" ->
                         applyFilters("none", one.events, NoFilter)
                    [] OTHER -> <<>>
  IN  /\ status = "starting"
      /\ status' = "running"
      /\ records' = two.events
      /\ sort' = order
      /\ shown' = applySorting(order, two.events, filtered)
      /\ stale' = (two.status = "error")
      /\ read' = DOMAIN file
      /\ tail' = IF line.tailing THEN [tail EXCEPT !.pc = "open", !.running = TRUE] ELSE tail
      /\ UNCHANGED <<fileVars, filter, ui, keys>>

-----------------------------------------------------------------------------
(* The tail thread *)

\* The thread opens the file and goes to its end.
Open ==
  /\ status = "running" /\ tail.pc = "open"
  /\ tail' = [tail EXCEPT !.pc = "loop", !.pos = FileEnd, !.eof = FALSE]
  /\ UNCHANGED <<fileVars, status, modelVars, ui, keys, read, stale>>

\* The flag is read before the thread sleeps: a stop in the meantime is seen
\* only after the next poll.
Sleep ==
  /\ status = "running" /\ tail.pc = "loop" /\ tail.running
  /\ tail' = [tail EXCEPT !.pc = "sleep"]
  /\ UNCHANGED <<fileVars, status, modelVars, ui, keys, read, stale>>

\* Slip: the stream keeps its eof flag, tellg fails, and no data is seen.
PollUncleared ==
  /\ status = "running" /\ tail.pc = "sleep"
  /\ tail' = [tail EXCEPT !.pc = IF ~tail.eof /\ FileEnd > tail.pos THEN "load" ELSE "loop"]
  /\ UNCHANGED <<fileVars, status, modelVars, ui, keys, read, stale>>

\* Awake: if there is new data, the mutex is locked.
Poll ==
  /\ status = "running" /\ tail.pc = "sleep"
  /\ tail' = [tail EXCEPT !.pc = IF FileEnd > tail.pos THEN "load" ELSE "loop", !.eof = FALSE]
  /\ UNCHANGED <<fileVars, status, modelVars, ui, keys, read, stale>>

\* Slip: the position is not restored after the size of the file was read.
loadPositionAtEnd(pos, end) == end

loadPosition(pos, end) == pos

\* Slip: signed arithmetic.
autoScrollSigned(selected, count, added) ==
  IF count > 0 /\ selected >= count - added - 1 THEN count - 1 ELSE selected

\* The new selection, when `added` records were added and `count` are shown.
autoScroll(selected, count, added) ==
  IF count > 0 /\ selected >= (count - added - 1) % Word THEN count - 1 ELSE selected

\* The load, with a new EventStream, and the auto-scroll.  Nothing catches what
\* it throws: std::terminate.  A load that begins in the middle of an entry
\* takes payload for sizes and tags: it throws, or finds entries of unknown
\* kinds up to the end.
Load ==
  LET from    == loadPosition(tail.pos, FileEnd)
      entries == SubSeq(file, from \div 2 + 1, Len(file))
      result  == load(Loaded(records), entries, half # NoEntry)
      added   == Len(result.events) - Len(records)
      awake   == [tail EXCEPT !.pc = "loop", !.pos = FileEnd, !.eof = TRUE]
  IN  /\ status = "running" /\ tail.pc = "load"
      /\ UNCHANGED <<fileVars, filter, sort, keys>>
      /\ \/ /\ from % 2 = 1 \/ result.status = "error"
            /\ status' = "terminated"
            /\ UNCHANGED <<records, shown, ui, tail, read, stale>>
         \/ /\ from % 2 = 1
            /\ shown' = applyFilters(sort, records, filter)
            /\ tail' = awake /\ stale' = FALSE
            /\ UNCHANGED <<status, records, ui, read>>
         \/ /\ from % 2 = 0 /\ result.status # "error"
            /\ records' = result.events
            /\ shown' = applyFilters(sort, records', filter)
            /\ read' = read \union (tail.pos \div 2 + 1)..Len(file)
            /\ ui' = [ui EXCEPT !.selected = IF added = 0 THEN @
                                              ELSE autoScroll(@, Len(shown'), added)]
            /\ tail' = awake /\ stale' = FALSE
            /\ UNCHANGED status

\* The loop ends, and with it the thread's stream.
Leave ==
  /\ status = "running" /\ tail.pc = "loop" /\ ~tail.running
  /\ tail' = [tail EXCEPT !.pc = "left", !.pos = 0, !.eof = FALSE]
  /\ UNCHANGED <<fileVars, status, modelVars, ui, keys, read, stale>>

-----------------------------------------------------------------------------
(* The user interface *)

\* The interface may go on, and the tail thread is not in the model.
Ready == status = "running" /\ ui.pc = "ready"
Alone == Ready /\ tail.pc # "load"

\* A key or a drawing while the tail thread loads.
DataRace ==
  /\ Ready /\ tail.pc = "load"
  /\ status' = "undefined"
  /\ UNCHANGED <<fileVars, modelVars, ui, keys, tail, read, stale>>

\* Slip: the selection is not clamped.
clampNot(selected, count) == selected

\* Slip: there may be no row.
clampUnguarded(selected, count) ==
  IF selected >= count THEN (count - 1) % Word ELSE selected

clamp(selected, count) == IF count > 0 /\ selected >= count THEN count - 1 ELSE selected

\* The renderer: the selection is clamped, and scrolled to.
Render ==
  LET selected == clamp(ui.selected, Len(shown))
      above == IF selected < ui.scroll THEN selected ELSE ui.scroll
      scroll == IF selected >= above + Rows THEN selected - Rows + 1 ELSE above
  IN  /\ Alone
      /\ ui' = [ui EXCEPT !.selected = selected, !.scroll = scroll]
      /\ UNCHANGED <<fileVars, status, modelVars, keys, tail, read, stale>>

Key ==
  /\ Alone /\ keys < MaxKeys
  /\ keys' = keys + 1
  /\ UNCHANGED <<fileVars, status, read>>

Typing == ui.typing
Select(n) == ui' = [ui EXCEPT !.selected = n]
ToFirst   == [ui EXCEPT !.selected = 0, !.scroll = 0]

\* j, k, g, G, page up, page down
Navigate ==
  LET n == Len(shown)
      at == ui.selected
  IN  /\ Key /\ ~Typing
      /\ \/ Select(IF n > 0 /\ at < n - 1 THEN at + 1 ELSE at)
         \/ Select(IF at > 0 THEN at - 1 ELSE at)
         \/ ui' = ToFirst
         \/ Select(IF n > 0 THEN n - 1 ELSE at)
         \/ Select(IF at > PageSize THEN at - PageSize ELSE 0)
         \/ Select(IF n > 0 /\ at + PageSize >= n THEN n - 1 ELSE at + PageSize)
      /\ UNCHANGED <<modelVars, tail, stale>>

\* The filter is changed: applyFilters, and back to the first event.
Refilter(f) ==
  /\ filter' = f
  /\ shown' = applyFilters(sort, records, f)
  /\ stale' = FALSE
  /\ UNCHANGED <<records, sort, tail>>

\* /, c, w: the text of a filter is being typed.
BeginInput ==
  /\ Key /\ ~Typing
  /\ ui' = [ui EXCEPT !.typing = TRUE]
  /\ UNCHANGED <<modelVars, tail, stale>>

CancelInput ==
  /\ Key /\ Typing
  /\ ui' = [ui EXCEPT !.typing = FALSE]
  /\ UNCHANGED <<modelVars, tail, stale>>

\* The text is whatever was typed.
CommitInput ==
  /\ Key /\ Typing
  /\ \E name \in {NoName, 1} : Refilter([filter EXCEPT !.writer = name])
  /\ ui' = [ToFirst EXCEPT !.typing = FALSE]

\* s
CycleSeverity ==
  /\ Key /\ ~Typing
  /\ Refilter([filter EXCEPT !.min = (@ + 1) % Severities])
  /\ ui' = ToFirst

\* r
ResetFilters ==
  /\ Key /\ ~Typing
  /\ Refilter(NoFilter)
  /\ ui' = ToFirst

\* o: the order is cycled; without an order the indices stay as they are.
CycleSort ==
  /\ Key /\ ~Typing
  /\ sort' = CASE sort = "none" -> "ascending"
               [] sort = "ascending" -> "descending"
               [] sort = "descending" -> "none"
  /\ shown' = applySorting(sort', records, shown)
  /\ UNCHANGED <<records, filter, ui, tail, stale>>

\* Slip: the thread is joined without being told to stop.
stopTailThreadUntold(t) == t

\* stopTailThread, up to the join.
stopTailThread(t) == [t EXCEPT !.running = FALSE]

\* t
ToggleTail ==
  /\ Key /\ ~Typing
  /\ IF tail.running
     THEN /\ tail' = stopTailThread(tail)
          /\ ui' = [ui EXCEPT !.pc = "joining"]
     ELSE /\ tail' = [tail EXCEPT !.pc = "open", !.running = TRUE]
          /\ UNCHANGED ui
  /\ UNCHANGED <<modelVars, stale>>

\* q: the loop ends, and the tail thread is stopped.
Quit ==
  /\ Key /\ ~Typing
  /\ tail' = stopTailThread(tail)
  /\ ui' = [ui EXCEPT !.pc = "quitting"]
  /\ UNCHANGED <<modelVars, stale>>

\* join returns: there is no thread, or it has left its loop.
Join ==
  /\ status = "running" /\ ui.pc \in {"joining", "quitting"}
  /\ tail.pc \in {"off", "left"}
  /\ tail' = [tail EXCEPT !.pc = "off"]
  /\ ui' = [ui EXCEPT !.pc = "ready"]
  /\ status' = IF ui.pc = "quitting" THEN "quit" ELSE status
  /\ UNCHANGED <<fileVars, modelVars, keys, read, stale>>

TailThread == Open \/ Sleep \/ Poll \/ Load \/ Leave
KeyPressed == Navigate \/ BeginInput \/ CancelInput \/ CommitInput \/ CycleSeverity
              \/ ResetFilters \/ CycleSort \/ ToggleTail \/ Quit

Next ==
  \/ WriteHalf \/ WriteRest \/ Restart
  \/ \E line \in CommandLines : Start(line)
  \/ TailThread
  \/ DataRace \/ Render \/ KeyPressed \/ Join

\* The tail thread and a join that can return are scheduled.
Fairness == WF_vars(TailThread) /\ WF_vars(Join)

Spec == Init /\ [][Next]_vars /\ Fairness

-----------------------------------------------------------------------------
TypeOK ==
  /\ half = NoEntry \/ half \in NextEntries
  /\ status \in {"starting", "running", "quit", "terminated", "undefined"}
  /\ ToSet(shown) \subseteq DOMAIN records
  /\ filter \in [min : 0..(Severities - 1), writer : {NoName, 1}]
  /\ sort \in SortOrders
  /\ ui.pc \in {"ready", "joining", "quitting"}
  /\ {ui.selected, ui.scroll} \subseteq 0..(MaxEntries + MaxOther + PageSize * MaxKeys)
  /\ tail.pc \in {"off", "open", "loop", "sleep", "load", "left"}
  /\ tail.pos \in 0..FileEnd
  /\ (tail.pc \in {"off", "left"} => ~tail.running)

\* The records of the live file are the events of the entries that were read,
\* each once, in their order: polls, pauses of the tail thread and half entries
\* neither lose nor repeat one (startTailThread, btui_app.cpp:577-612).
RecordsAreFile ==
  LET live == {i \in DOMAIN records : records[i].num.num > 0}
  IN  /\ {records[i].num : i \in live} = {file[k].num : k \in Events \intersect read}
      /\ \A i, j \in live : i < j => records[i].num.num < records[j].num.num

\* A record has the source its event was logged with, although the runs of the
\* application, and the files, number their sources alike; its writer is the
\* event's, or unknown to the tail thread's new stream (loadFromEntryStream,
\* btui_model.cpp:72-99; EventStream::readEvent, EventStream.cpp:65-76).
RecordsOwnSource ==
  \A i \in DOMAIN records :
    LET r == records[i]
    IN  r.src = r.num.src /\ r.writer \in {r.num.writer, NoName}

\* Unless the last load threw, the rows are those the filter accepts, each
\* once, and in the order chosen, events of one time in file order (applyFilters
\* and applySorting, btui_model.cpp:129-185).
RowsCurrent ==
  ~stale =>
    /\ ToSet(shown) = {i \in DOMAIN records : Accepts(filter, records[i])}
    /\ \A i, j \in DOMAIN shown : i # j => shown[i] # shown[j]
    /\ sort # "none" =>
         \A i, j \in DOMAIN shown : i < j =>
           LET a == records[shown[i]].num.time
               b == records[shown[j]].num.time
           IN  \/ IF sort = "ascending" THEN a < b ELSE a > b
               \/ a = b /\ shown[i] < shown[j]

\* What is drawn has the selected row, and the detail panel a record
\* (btui_app.cpp:113-125, 185-189, 269).
SelectionDrawn ==
  [][ Render /\ shown # <<>> =>
      /\ ui'.selected < Len(shown)
      /\ ui'.scroll <= ui'.selected /\ ui'.selected < ui'.scroll + Rows ]_vars

\* With all events shown, the tail thread moves the selection if, and only if,
\* it was on the last event (btui_app.cpp:601-610).
ScrollsFromLast ==
  [][ Load /\ Len(shown) = Len(records) /\ Len(shown') = Len(records')
        /\ Len(records') > Len(records) =>
      ui'.selected = IF Len(shown) > 0 /\ ui.selected >= Len(shown) - 1
                     THEN Len(shown') - 1 ELSE ui.selected ]_vars

\* The sources an EventFilter allows, and its output, when the file is its input.
Allows == 1..(Severities - 1)
filterFile(f, e) == filterEntry(f, e, Allows)
Filtered == FoldLeft(filterFile, NewFilter, file)

keepAllowed(events, e) == IF e.src \in Allows THEN Append(events, e) ELSE events

\* An EventFilter on the output of one run of the application leaves exactly
\* the events of allowed sources, with all of their properties
\* (EventFilter::writeAllowed, EventFilter.hpp:61-104).
FilteredStream ==
  app.restarts = 0 =>
    readAll(NewReader, Filtered.out).events =
      FoldLeft(keepAllowed, <<>>, readAll(NewReader, file).events)

\* A tail thread that is not stopped, and whose loads do not throw, has read
\* the file to its end at last (btui_app.cpp:580-612).
TailCatchesUp ==
  <>[](status = "running" /\ tail.running => tail.pos = FileEnd)

\* The user interface is never kept waiting for the tail thread for good: either
\* the thread leaves its loop, or an exception in it ends the program
\* (stopTailThread, btui_app.cpp:616-623).
TailStops == []<>(ui.pc = "ready" \/ status = "terminated")

\* Live tail mode polls the file for new events (btui.cpp:50): entries that
\* were written completely do not end the program.
CompleteEntriesTailed ==
  status = "terminated" => half # NoEntry \/ tail.pos % 2 = 1
=============================================================================
