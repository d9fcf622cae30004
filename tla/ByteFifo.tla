------------------------------ MODULE ByteFifo ------------------------------
(***************************************************************************)
(* What the single producer, single consumer byte queue of binlog promises *)
(* to its two users (include/binlog/detail/Queue.hpp, lines 10-57):        *)
(* committed bytes arrive at the reader in order, none lost, none twice,   *)
(* none before its commit.  Bytes are identified by their number in the    *)
(* stream of committed bytes: 1, 2, 3, ...                                 *)
(***************************************************************************)
EXTENDS Integers, Sequences

VARIABLES
  sent,        \* how many bytes the writer has committed
  received     \* the bytes the reader has consumed, in order

vars == <<sent, received>>

\* n consecutive bytes of the stream, the first of which is from + 1.
Run(from, n) == [i \in 1..n |-> from + i]

Init ==
  /\ sent = 0
  /\ received = <<>>

\* A batch becomes visible to the reader all at once.
Send ==
  /\ sent' \in Nat
  /\ sent' > sent
  /\ UNCHANGED received

\* The reader consumes the next n bytes.
Receive ==
  /\ \E n \in 1..(sent - Len(received)) :
        received' = received \o Run(Len(received), n)
  /\ UNCHANGED sent

Next == Send \/ Receive

Spec == Init /\ [][Next]_vars
=============================================================================
