-------------------------------- MODULE Entry --------------------------------
(***************************************************************************)
(* An entry on its way from the program to its reader                      *)
(*   include/binlog/SessionWriter.hpp (addEvent), Entries.hpp              *)
(*   (serializeSizePrefixedTagged), EntryStream.cpp, EventStream.cpp       *)
(*                                                                         *)
(* An entry is the size of what follows, and its fields: id, clock and     *)
(* arguments of an event; the tag and the struct of a special entry.  Room *)
(* is reserved by the sizes of the fields before they are written one by   *)
(* one, and each of the three - size, bytes and value - is computed by     *)
(* templates of its own.                                                   *)
(***************************************************************************)
EXTENDS Serialization
LOCAL INSTANCE SequencesExt

CONSTANTS
  Entries,   \* The fields of the entries: [types, values]
  Following  \* What may follow an entry in the log

ASSUME EntryAssumption ==
  /\ Following \subseteq Seq(Byte)
  /\ \A e \in Entries :
       /\ e.types \in Seq(Types)
       /\ areValues(isValue, e.types, e.values)
       /\ InRange(sizeOfEach(serialized_size, e.types, e.values), "I")

VARIABLES
  stage,    \* What was done last: "start", "reserved", "committed", "arrived" or "read"
  entry,    \* The entry that is on its way
  room,     \* The number of bytes reserved for it in the queue
  fields,   \* The number of its fields that are written
  written,  \* Its bytes so far
  input,    \* What arrives at the reader
  result    \* What the reader makes of it

entryVars == <<stage, entry, room, fields, written, input, result>>

\* The values of the fields, what is left of the payload and of the input, or
\* none: an exception, or the end of an empty input.
read(values, payload, in) == [values |-> values, left |-> payload, in |-> in, ok |-> TRUE]
failure == [values |-> <<>>, left |-> <<>>, in |-> <<>>, ok |-> FALSE]

EntryInit ==
  /\ stage = "start" /\ entry = [types |-> <<>>, values |-> <<>>]
  /\ room = 0 /\ fields = 0 /\ written = <<>> /\ input = <<>> /\ result = failure

sizeOf(e) == sizeOfEach(serialized_size, e.types, e.values)

\* addEvent reserves room for the size and the fields, and writes the size.
Reserve(e) ==
  /\ stage \in {"start", "arrived", "read"}
  /\ stage' = "reserved" /\ entry' = e /\ fields' = 0
  /\ room' = sizeofArith["I"] + sizeOf(e)
  /\ written' = serializeArith("I", sizeOf(e))
  /\ input' = <<>> /\ result' = failure

WriteField ==
  LET n == fields + 1
  IN  /\ stage = "reserved" /\ n \in DOMAIN entry.types
      /\ fields' = n
      /\ written' = written \o serialize[entry.types[n]][entry.values[n]]
      /\ UNCHANGED <<stage, entry, room, input, result>>

Commit ==
  /\ stage = "reserved" /\ fields = Len(entry.types)
  /\ stage' = "committed"
  /\ UNCHANGED <<entry, room, fields, written, input, result>>

\* It arrives, in front of what follows it, or a part of it.
Arrive ==
  /\ stage = "committed" /\ stage' = "arrived"
  /\ \/ \E more \in Following : input' = written \o more
     \/ \E n \in 0..(Len(written) - 1) : input' = SubSeq(written, 1, n)
  /\ UNCHANGED <<entry, room, fields, written, result>>

\* The fields, out of the range of the payload.
readPayload(ts, payload, in) ==
  LET r == deserializeEach(deserialize, ts, payload)
  IN  IF r.ok THEN read(r.value, r.in, in) ELSE failure

\* EntryStream::nextEntryPayload takes the payload from the input first.
readFramed(ts, in) ==
  LET size    == readArith(in, "I")
      payload == view(size.in, size.value)
  IN  IF size.ok /\ payload.ok THEN readPayload(ts, payload.value, payload.in) ELSE failure

\* mserialize::deserialize of the size and the fields takes them from the input.
readDirectly(ts, in) ==
  LET size == readArith(in, "I")
  IN  IF size.ok THEN readPayload(ts, size.in, <<>>) ELSE failure

\* Fields of a type that cannot be deserialized are only visited (Visiting).
Read ==
  /\ stage = "arrived" /\ stage' = "read"
  /\ \A i \in DOMAIN entry.types : is_deserializable[entry.types[i]]
  /\ \/ result' = readFramed(entry.types, input)
     \/ result' = readDirectly(entry.types, input)
  /\ UNCHANGED <<entry, room, fields, written, input>>

EntryNext == (\E e \in Entries : Reserve(e)) \/ WriteField \/ Commit \/ Arrive \/ Read

EntrySpec == EntryInit /\ [][EntryNext]_entryVars

(******************************** Properties *******************************)

\* What follows the entry in the input.
Remaining == SubSeq(input, Len(written) + 1, Len(input))

\* No field is ever written beyond the room that was reserved, and a committed
\* entry fills it: addEvent adds up serialized_size of the arguments before
\* serialize writes them (SessionWriter.hpp:130-169).  A reader gets the values
\* back with nothing left of them and what follows untouched, and of a part of
\* an entry no values at all (Deserializer.hpp, Range.hpp, EntryStream.cpp).
RoundTrip ==
  /\ stage = "reserved" => Len(written) <= room
  /\ stage \in {"committed", "arrived", "read"} => Len(written) = room
  /\ stage = "read" =>
       IF Len(input) < Len(written) THEN ~result.ok
       ELSE result \in {read(entry.values, <<>>, Remaining), read(entry.values, Remaining, <<>>)}
=============================================================================
