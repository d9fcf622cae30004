----------------------------- MODULE SourceTable -----------------------------
(***************************************************************************)
(* The abstract promise of SegmentedMap, and the map shown to keep it.     *)
(*                                                                         *)
(* A reader stores the sources of a stream by id, in whatever order the    *)
(* stream has them: a stream of several sessions, or one read from the     *)
(* middle, has ids that go back, repeat and leave gaps.  Whatever the      *)
(* order, a lookup must find the source stored last with that id, and      *)
(* none when there was none.                                               *)
(***************************************************************************)
EXTENDS SegmentedMap

CONSTANTS
  Ids,      \* source ids
  Sources,  \* sources
  NoSource  \* no source was stored with this id

ASSUME TableAssumption == Ids \subseteq Nat /\ NoSource \notin Sources

VARIABLES
  table,  \* EventStream::_eventSources
  plain   \* history: the source stored last, by id

tableVars == <<table, plain>>

TableInit == table = EmptyMap /\ plain = [id \in Ids |-> NoSource]

\* readEventSource.
Store(id, source) ==
  /\ table' = emplace(table, id, source)
  /\ plain' = [plain EXCEPT ![id] = source]

TableNext == \E id \in Ids, source \in Sources : Store(id, source)

TableSpec == TableInit /\ [][TableNext]_tableVars

\* What is found of an id.
Found(id) == IF has(table, id) THEN find(table, id) ELSE NoSource

\* A lookup in the segmented map gives what was stored last with that id,
\* whatever the order of the ids and however the segments were split
\* (SegmentedMap::emplace and find, SegmentedMap.hpp:39-92).
TableIsPlain == \A id \in Ids : Found(id) = plain[id]
=============================================================================
