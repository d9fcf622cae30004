------------------------------- MODULE Streams -------------------------------
(***************************************************************************)
(* Reading and filtering a stream of entries                               *)
(*   include/binlog/Range.hpp, EntryStream.*, EventStream.*,               *)
(*   EventFilter.hpp, bin/printers.cpp                                     *)
(*                                                                         *)
(* An entry is a record: its kind, its fields, and `cut`, which is TRUE    *)
(* when its payload ends before its last field.  A reader is the           *)
(* EventStream and what its caller has made of the events so far; reading  *)
(* is a fold over the entries that stops at the end, or at an exception.   *)
(***************************************************************************)
EXTENDS Integers, Sequences, SegmentedMap
LOCAL INSTANCE SequencesExt

NoName == 0   \* a default constructed WriterProp
NoClock == <<0, 0>> \* a default constructed ClockSync

SourceEntry(id, src)  == [kind |-> "source", id |-> id, src |-> src, cut |-> FALSE]
WriterEntry(name)     == [kind |-> "writer", name |-> name, cut |-> FALSE]
ClockEntry(version)   == [kind |-> "clock", version |-> version, cut |-> FALSE]
EventEntry(id, n)     == [kind |-> "event", id |-> id, num |-> n, cut |-> FALSE]
\* A special entry of a later version of the library.
UnknownEntry          == [kind |-> "unknown", cut |-> FALSE]
\* An entry of size zero.
EmptyEntry            == [kind |-> "empty", cut |-> FALSE]

\* A new EventStream, and no event read yet.
NewReader == [sources |-> EmptyMap, writer |-> NoName, clock |-> NoClock,
              events |-> <<>>, status |-> "reading"]

\* readEventSource, readWriterProp, readClockSync: on an exception the stream
\* is as it was.
readSpecial(r, e) ==
  IF e.cut THEN [r EXCEPT !.status = "error"]
  ELSE CASE e.kind = "source"  -> [r EXCEPT !.sources = emplace(@, e.id, e.src)]
         [] e.kind = "writer"  -> [r EXCEPT !.writer = e.name]
         [] e.kind = "clock"   -> [r EXCEPT !.clock = e.version]
         [] e.kind = "unknown" -> r

\* readEvent; the caller sees the event with the properties of its writer and
\* the clock, as they are at that time.
readEvent(r, e) ==
  IF e.cut \/ ~has(r.sources, e.id) THEN [r EXCEPT !.status = "error"]
  ELSE [r EXCEPT !.events = Append(@, [num |-> e.num, src |-> find(r.sources, e.id),
                                       writer |-> r.writer, clock |-> r.clock])]

\* One entry of nextEvent's loop.  The caller stops when nextEvent returns
\* nullptr, which it does at the first empty payload, and when it throws.
readEntry(r, e) ==
  IF r.status # "reading" THEN r
  ELSE CASE e.kind = "empty" -> [r EXCEPT !.status = "end"]
         [] e.kind = "event" -> readEvent(r, e)
         [] OTHER            -> readSpecial(r, e)

\* The entries read one after the other (printEvents).
readAll(r, entries) == FoldLeft(readEntry, r, entries)

\* EventFilter::writeAllowed over entries that are all complete: `allowed` is
\* _allowedSourceIds, `allows` the sources that the predicate is true of.
NewFilter == [allowed |-> {}, out |-> <<>>]

\* Slip: only sources, and events of allowed ones, get to the output.
filterEntrySourcesOnly(f, e, allows) ==
  CASE e.kind = "source" /\ e.src \in allows ->
         [allowed |-> f.allowed \union {e.id}, out |-> Append(f.out, e)]
    [] e.kind \notin {"source", "event"} -> f
    [] e.kind = "event" /\ e.id \notin f.allowed -> f
    [] OTHER -> [f EXCEPT !.out = Append(@, e)]

filterEntry(f, e, allows) ==
  CASE e.kind = "source" /\ e.src \in allows ->
         [allowed |-> f.allowed \union {e.id}, out |-> Append(f.out, e)]
    [] e.kind = "event" /\ e.id \notin f.allowed -> f
    [] OTHER -> [f EXCEPT !.out = Append(@, e)]
=============================================================================
