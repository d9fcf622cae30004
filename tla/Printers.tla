------------------------------- MODULE Printers -------------------------------
(***************************************************************************)
(* The two loops of bread: events are printed as they are read, or kept    *)
(* and printed by their clock                                              *)
(*   bin/bread.cpp, bin/printers.cpp, include/binlog/TextOutputStream.cpp  *)
(*                                                                         *)
(* Every event is printed through an OstreamBuffer of its own, chunk by    *)
(* chunk; the buffer flushes when the next chunk may not fit, and when it  *)
(* is destroyed, by an exception, too.  What is printed of an event, and   *)
(* whether that throws, is up to the user of this module.                  *)
(***************************************************************************)
EXTENDS Streams, OstreamBuffer, StableSort
LOCAL INSTANCE SequencesExt

CONSTANTS
  Jobs      \* [entries, sorted, ...]: what is in the log, and whether -s was given

\* The entries are entries, and every event has a clock value.
ASSUME JobsAssumption ==
  \A j \in Jobs :
    /\ j.sorted \in BOOLEAN
    /\ j.entries \in Seq(ToSet(j.entries))
    /\ \A e \in ToSet(j.entries) :
         /\ e.kind \in {"source", "writer", "clock", "event", "unknown", "empty"}
         /\ e.kind = "event" => e.num.clock \in Nat

VARIABLES
  job,
  log,      \* history: the events that can be read
  todo,     \* those that are still to be read
  failed,   \* an exception ended the reading
  phase,    \* "next", "printing" or "done"
  buffer,   \* printSortedEvents: the clock and the text of the events
  output    \* the same of the events, and parts of events, in the output

vars == <<job, log, todo, failed, phase, buffer, output, ostreamVars>>

\* The reader meets its exception only after the events before it are printed.
Init ==
  \E j \in Jobs :
    LET r == readAll(NewReader, j.entries)
    IN  /\ job = j
        /\ log = r.events /\ todo = r.events
        /\ failed = (r.status = "error")
        /\ phase = "next" /\ buffer = <<>> /\ output = <<>>
        /\ OstreamInit

\* printEvent, with what it will write.
Begin(chunksOfEvent) ==
  /\ phase = "next" /\ todo # <<>>
  /\ Construct(chunksOfEvent)
  /\ phase' = "printing"
  /\ UNCHANGED <<job, log, todo, failed, buffer, output>>

\* The calls of the OstreamBuffer.
Call ==
  /\ PutChar \/ WriteNumber \/ Write
  /\ UNCHANGED <<job, log, todo, failed, phase, buffer, output>>

\* ~OstreamBuffer.  An exception ends the reading; the part of the event that
\* was printed before it is in the output, unless it was to be sorted first.
End(threw) ==
  /\ phase = "printing" /\ Destroy
  /\ LET text == [clock |-> Head(todo).num.clock, num |-> Len(log) - Len(todo) + 1,
                  text |-> Flushed]
     IN  /\ IF job.sorted
            THEN /\ output' = output
                 /\ buffer' = IF threw THEN buffer ELSE Append(buffer, text)
            ELSE /\ output' = Append(output, text)
                 /\ buffer' = buffer
         /\ failed' = (failed \/ threw)
         /\ todo' = IF threw THEN <<>> ELSE Tail(todo)
  /\ phase' = "next"
  /\ UNCHANGED <<job, log>>

\* By the clocks.
stable_sort(pairs) ==
  LET sorted == sortRows([k \in DOMAIN pairs |-> [index |-> k, key |-> pairs[k].clock]])
  IN  [k \in DOMAIN sorted |-> pairs[sorted[k].index]]

\* The sorted events are written when all were read, or not at all.
Finish ==
  /\ phase = "next" /\ todo = <<>>
  /\ output' = IF job.sorted /\ ~failed THEN stable_sort(buffer) ELSE output
  /\ phase' = "done"
  /\ UNCHANGED <<job, log, todo, failed, buffer, ostreamVars>>

\* Whatever is printed of an event, and wherever that throws.
PrintersNext ==
  \/ calls' \in Seq(Calls) /\ Begin(calls')
  \/ Call
  \/ \E threw \in BOOLEAN : End(threw)
  \/ Finish

PrintersSpec == Init /\ [][PrintersNext]_vars
-----------------------------------------------------------------------------
\* bread -s prints the events by their clock, those of the same clock in the
\* order of the log, and each of them once, with its text: unless one cannot be
\* read or printed, then none (printers.cpp:28-53).
SortedIsPermutation ==
  phase = "done" /\ job.sorted =>
    /\ \A i, j \in DOMAIN output : i < j =>
         \/ output[i].clock < output[j].clock
         \/ output[i].clock = output[j].clock /\ output[i].num < output[j].num
    /\ IF failed THEN output = <<>>
       ELSE /\ Len(output) = Len(log)
            /\ \A n \in DOMAIN log : \E k \in DOMAIN output :
                 /\ output[k].num = n /\ output[k].clock = log[n].num.clock
                 /\ output[k] = buffer[n]
=============================================================================
