------------------------------- MODULE MCViewer -------------------------------
EXTENDS Viewer

\* The end of another file, cut off so that the source of its last event is
\* missing; its events have the numbers 0.
OtherFile ==
  << SourceEntry(2, 1), EventEntry(2, [num |-> 0, time |-> 1, src |-> 1, writer |-> NoName]),
     EventEntry(1, [num |-> 0, time |-> 0, src |-> Severities, writer |-> NoName]) >>

MCCommandLines ==
  {[other |-> <<>>, sorted |-> FALSE, tailing |-> TRUE],
   [other |-> OtherFile, sorted |-> TRUE, tailing |-> FALSE]}
=============================================================================
