---------------------------- MODULE OstreamBuffer ----------------------------
(***************************************************************************)
(* A buffer in front of an ostream                                         *)
(*   include/binlog/detail/OstreamBuffer.hpp, OstreamBuffer.cpp            *)
(*                                                                         *)
(* A program makes calls, each with a text, and the buffer flushes when    *)
(* the room that the next call reserves is not there.  A write of any size *)
(* is taken apart; any number has the room reserved for the longest.       *)
(***************************************************************************)
EXTENDS Integers, Sequences
LOCAL INSTANCE SequencesExt

CONSTANTS
  BufSize,  \* bytes of an OstreamBuffer: 1024
  NumRoom   \* bytes reserved for any number: 32

ASSUME OstreamAssumption == BufSize \in Nat \ {0} /\ NumRoom \in 1..BufSize

VARIABLES
  chunks,  \* the calls that are still to be made
  buf,     \* OstreamBuffer::_buf, up to _p
  stream,  \* what was flushed to its ostream
  calls    \* history: all calls of the buffer that is in use

ostreamVars == <<chunks, buf, stream, calls>>

\* put has one character, and no number is longer than the room for it.
Calls ==
  {c \in [op : {"put", "number", "write"}, text : Seq(STRING)] :
     /\ c.op = "put" => Len(c.text) = 1
     /\ c.op = "number" => Len(c.text) <= NumRoom}

addText(text, c) == text \o c.text
allText(cs) == FoldLeft(addText, <<>>, cs)

OstreamInit == chunks = <<>> /\ buf = <<>> /\ stream = <<>> /\ calls = <<>>

\* A buffer is made for these calls.
Construct(cs) ==
  /\ chunks = <<>> /\ buf = <<>> /\ stream = <<>>
  /\ chunks' = cs /\ calls' = cs
  /\ UNCHANGED <<buf, stream>>

\* Slip: exactly full is not full.
reserveOneMore(n) ==
  IF Len(buf) + n > BufSize + 1 THEN <<stream \o buf, <<>> >> ELSE <<stream, buf>>

\* What is in the stream and in the buffer after reserve.
reserve(n) == IF Len(buf) + n > BufSize THEN <<stream \o buf, <<>> >> ELSE <<stream, buf>>

\* n bytes are reserved, and the text copied.
append(n, text) ==
  /\ stream' = reserve(n)[1]
  /\ buf' = reserve(n)[2] \o text
  /\ UNCHANGED calls

PutChar ==
  /\ chunks # <<>> /\ Head(chunks).op = "put"
  /\ append(1, Head(chunks).text)
  /\ chunks' = Tail(chunks)

\* writeSigned, writeUnsigned.
WriteNumber ==
  /\ chunks # <<>> /\ Head(chunks).op = "number"
  /\ append(NumRoom, Head(chunks).text)
  /\ chunks' = Tail(chunks)

\* One turn of the loop of write; the last one takes the chunk.
Write ==
  /\ chunks # <<>> /\ Head(chunks).op = "write"
  /\ LET text  == Head(chunks).text
         wsize == IF Len(text) < BufSize THEN Len(text) ELSE BufSize
     IN  /\ append(wsize, SubSeq(text, 1, wsize))
         /\ chunks' = IF wsize = Len(text) THEN Tail(chunks)
                      ELSE [chunks EXCEPT ![1].text = SubSeq(text, wsize + 1, Len(text))]

\* ~OstreamBuffer: the rest is flushed.
Flushed == stream \o buf
Destroy ==
  /\ chunks = <<>>
  /\ buf' = <<>> /\ stream' = <<>> /\ calls' = <<>>
  /\ UNCHANGED chunks

OstreamNext ==
  \/ calls' \in Seq(Calls) /\ Construct(calls')
  \/ PutChar \/ WriteNumber \/ Write \/ Destroy

OstreamSpec == OstreamInit /\ [][OstreamNext]_ostreamVars
-----------------------------------------------------------------------------
\* If every text has the room that its call reserves, the buffer never overflows,
\* and no byte is lost, repeated or moved by it, wherever it was flushed; and a
\* user of the buffer makes no other calls (OstreamBuffer.cpp:20-89).
OutputComplete ==
  /\ calls \in Seq(Calls)
  /\ Len(buf) <= BufSize
  /\ stream \o buf \o allText(chunks) = allText(calls)
=============================================================================
