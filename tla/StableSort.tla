------------------------------ MODULE StableSort ------------------------------
(***************************************************************************)
(* std::stable_sort, as bread and btui use it: a row is a key, by which it *)
(* is sorted, and the index of what it stands for.                         *)
(***************************************************************************)
EXTENDS Integers, Sequences, FiniteSets
LOCAL INSTANCE SequencesExt

\* Slip: before the rows with the same key; the sort is not stable.
insertRowFirst(rows, x) ==
  InsertAt(rows, Cardinality({i \in DOMAIN rows : rows[i].key < x.key}) + 1, x)

\* Each row is inserted behind those it is not before.
insertRow(rows, x) ==
  InsertAt(rows, Cardinality({i \in DOMAIN rows : rows[i].key <= x.key}) + 1, x)

sortRows(rows) == FoldLeft(insertRow, <<>>, rows)
=============================================================================
