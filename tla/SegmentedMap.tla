---------------------------- MODULE SegmentedMap ----------------------------
(***************************************************************************)
(* detail::SegmentedMap, the map from source ids to sources of EventStream *)
(*   include/binlog/detail/SegmentedMap.hpp                                *)
(*                                                                         *)
(* The values of contiguous keys are kept in one segment; offsets[i] is    *)
(* the key of the first value of segments[i].  C++ positions i are i + 1   *)
(* here.                                                                   *)
(***************************************************************************)
EXTENDS Integers, Sequences
LOCAL INSTANCE SequencesExt

EmptyMap == [offsets |-> <<0>>, segments |-> << <<>> >>]

\* The last segment that does not begin after the key; the search goes up from
\* the second one and stops at the first that does.
segmentIndex(m, key) ==
  CHOOSE i \in DOMAIN m.offsets :
    /\ \A j \in 2..i : m.offsets[j] <= key
    /\ i + 1 \in DOMAIN m.offsets => key < m.offsets[i + 1]

\* Slip: a key that is not next to the segment is appended to it all the same.
emplaceNearby(m, key, value) ==
  LET si == segmentIndex(m, key)
      vi == key - m.offsets[si]
  IN  IF vi < Len(m.segments[si])
      THEN [m EXCEPT !.segments[si][vi + 1] = value]
      ELSE [m EXCEPT !.segments[si] = Append(@, value)]

\* A value next to the segment is appended to it, a value in it is replaced,
\* any other begins a segment of its own.
emplace(m, key, value) ==
  LET si == segmentIndex(m, key)
      vi == key - m.offsets[si]
      n  == Len(m.segments[si])
  IN  IF vi = n THEN [m EXCEPT !.segments[si] = Append(@, value)]
      ELSE IF vi < n THEN [m EXCEPT !.segments[si][vi + 1] = value]
      ELSE [offsets  |-> InsertAt(m.offsets, si + 1, key),
            segments |-> InsertAt(m.segments, si + 1, <<value>>)]

\* find(key) != end().
has(m, key) ==
  LET si == segmentIndex(m, key)
  IN  key - m.offsets[si] < Len(m.segments[si])

find(m, key) ==
  LET si == segmentIndex(m, key)
  IN  m.segments[si][key - m.offsets[si] + 1]
=============================================================================
