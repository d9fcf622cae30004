------------------------------ MODULE Session ------------------------------
(***************************************************************************)
(* A logging session: threads that log through their SessionWriter, and a  *)
(* thread that calls Session::consume                                      *)
(*   include/binlog/Session.hpp, SessionWriter.hpp,                        *)
(*   create_source_and_event.hpp                                           *)
(*                                                                         *)
(* Everything under Session::_mutex other than consume is one action,      *)
(* possible when consume does not hold the mutex.  consume holds it over   *)
(* several actions, because writers commit events, and are destroyed,      *)
(* without the mutex.  A channel's queue is what module Queue shows it to  *)
(* be: events are committed one at a time, and a read returns all those    *)
(* the consumer's thread can see, in order.                                *)
(*                                                                         *)
(* An event is visible to the consumer some time after its commit (the     *)
(* consumer's load of writeIndex), at the latest when the consumer locks   *)
(* the mutex after the writer has unlocked it.  That a writer has given up *)
(* its channel becomes visible by a relaxed load of the use count.         *)
(***************************************************************************)
EXTENDS Integers, Sequences, FiniteSets

CONSTANTS
  Writers,       \* threads that own a SessionWriter
  Sites,         \* call sites of the logging macros
  NoWriter,      \* owner of a channel that does not exist yet
  MaxEvents,     \* bound: log calls per writer
  MaxChannels,   \* bound: channels ever created
  MaxRenames,    \* bound: calls of setName per writer
  MaxClocks,     \* bound: calls of setClockSync
  MaxRotations,  \* bound: changes of the output
  QueueEvents,   \* events that fit a queue
  LoadsInOrder,  \* the machine keeps use_count() before the load of writeIndex
  MaxFailures,   \* bound: calls of out.write that throw
  RenameAnytime  \* setName is called while its writer logs, by another thread

ASSUME SessionAssumption ==
  /\ NoWriter \notin Writers /\ Sites # {}
  /\ {MaxEvents, MaxChannels, MaxRenames, MaxClocks, MaxRotations, MaxFailures,
       QueueEvents} \subseteq Nat
  /\ QueueEvents > 0
  /\ {LoadsInOrder, RenameAnytime} \subseteq BOOLEAN

Chans == 1..MaxChannels

VARIABLES
  \* Session
  channels,         \* _channels: channel numbers; 0 is a shared_ptr that was reset
  sources,          \* _sources: the site of each source; the id is the position
  sourcesConsumed,  \* how many of them _sourcesConsumePos covers
  clocks,           \* how many ClockSyncs were added to the initial one
  consumeClockSync, \* _consumeClockSync
  \* Session::Channel, by channel number
  nchans,           \* channels created so far
  owner,            \* the writer it was created for
  name,             \* writerProp.name
  unread,           \* committed events of the queue that no endRead released
  visible,          \* how many of those the consumer's thread can see
  held,             \* the SessionWriter holds its shared_ptr
  closeSeen,        \* the consumer's thread can see that it does not
  \* the writers' threads
  wpc,              \* what the thread does next
  cur,              \* SessionWriter::_channel
  site,             \* the call site being executed
  sidv,             \* _binlog_sid_v
  propCopy,         \* the name copied by replaceChannel
  sid,              \* _binlog_sid of each call site
  \* the consumer's thread
  cpc,              \* what it does next; it holds the mutex unless idle
  pos,              \* position in _channels
  isClosed,         \* isClosed of the current iteration
  batch,            \* the ReadResult of the current iteration
  out,              \* the entries written to the current output
  \* history
  committed,        \* number of events each writer has committed
  delivered,        \* numbers of the events written out, by writer
  renames,          \* calls of setName, by writer: the name last set
  rotations,        \* changes of the output
  failures          \* calls of out.write that threw

sessionVars  == <<channels, sources, sourcesConsumed, clocks, consumeClockSync>>
channelVars  == <<nchans, owner, name, unread, visible, held, closeSeen>>
writerVars   == <<wpc, cur, site, sidv, propCopy, sid, committed, renames>>
consumerVars == <<cpc, pos, isClosed, batch, out, delivered, rotations,
                  failures>>
vars == <<sessionVars, channelVars, writerVars, consumerVars>>

Init ==
  /\ channels = <<>> /\ sources = <<>> /\ sourcesConsumed = 0
  /\ clocks = 0 /\ consumeClockSync = TRUE
  /\ nchans = 0
  /\ owner = [c \in Chans |-> NoWriter]
  /\ name = [c \in Chans |-> 0]
  /\ unread = [c \in Chans |-> <<>>]
  /\ visible = [c \in Chans |-> 0]
  /\ held = [c \in Chans |-> FALSE]
  /\ closeSeen = [c \in Chans |-> FALSE]
  /\ wpc = [w \in Writers |-> "new"]
  /\ cur = [w \in Writers |-> 0]
  /\ site = [w \in Writers |-> CHOOSE s \in Sites : TRUE]
  /\ sidv = [w \in Writers |-> 0]
  /\ propCopy = [w \in Writers |-> 0]
  /\ sid = [s \in Sites |-> 0]
  /\ cpc = "idle" /\ pos = 0 /\ isClosed = FALSE /\ batch = <<>> /\ out = <<>>
  /\ committed = [w \in Writers |-> 0]
  /\ delivered = [w \in Writers |-> <<>>]
  /\ renames = [w \in Writers |-> 0]
  /\ rotations = 0 /\ failures = 0

\* Session::_mutex can be locked by somebody other than consume.
MutexFree == cpc = "idle"

-----------------------------------------------------------------------------
(* Entries of the output *)

ClockSync(v)     == [kind |-> "clock", version |-> v]
EventSource(i)   == [kind |-> "source", id |-> i, site |-> sources[i]]
\* A WriterProp entry and the events it describes.  latest (history) is the
\* name last set by the writer when the batch was written.
Batch(c, events) == [kind |-> "batch", writer |-> owner[c], name |-> name[c],
                     latest |-> renames[owner[c]], events |-> events]

\* The sources after the first `from`, up to the first `to`.
SourceEntries(from, to) == [i \in 1..(to - from) |-> EventSource(from + i)]

-----------------------------------------------------------------------------
(* Channels *)

\* The writer's thread locks the mutex: the next consume sees what it committed.
PublishByMutex(w) ==
  visible' = [d \in Chans |-> IF d = cur[w] THEN Len(unread[d]) ELSE visible[d]]

\* Slip: the new channel is polled before the one it replaces.
PushChannelInFront(c) == <<c>> \o channels

PushChannel(c) == Append(channels, c)

\* createChannel, by the writer's thread, which keeps the shared_ptr.
CreateChannel(w, n) ==
  LET c == nchans + 1
  IN  /\ MutexFree
      /\ c \in Chans
      /\ nchans' = c
      /\ channels' = PushChannel(c)
      /\ owner' = [owner EXCEPT ![c] = w]
      /\ name' = [name EXCEPT ![c] = n]
      /\ held' = [held EXCEPT ![c] = TRUE]
      /\ PublishByMutex(w)
      /\ cur' = [cur EXCEPT ![w] = c]
      /\ UNCHANGED <<unread, closeSeen, sources, sourcesConsumed, clocks,
                     consumeClockSync>>

\* SessionWriter::SessionWriter.
OpenWriter(w) ==
  /\ wpc[w] = "new"
  /\ CreateChannel(w, 0)
  /\ wpc' = [wpc EXCEPT ![w] = "idle"]
  /\ UNCHANGED <<site, sidv, propCopy, sid, committed, renames, consumerVars>>

\* SessionWriter::~SessionWriter: drops the shared_ptr, without the mutex.
CloseWriter(w) ==
  /\ wpc[w] = "idle"
  /\ wpc' = [wpc EXCEPT ![w] = "closed"]
  /\ held' = [held EXCEPT ![cur[w]] = FALSE]
  /\ UNCHANGED <<sessionVars, nchans, owner, name, unread, visible, closeSeen,
                 cur, site, sidv, propCopy, sid, committed, renames, consumerVars>>

\* setName (setId is alike), and Session::setChannelWriterName.
SetName(w) ==
  /\ wpc[w] = "idle" \/ (RenameAnytime /\ wpc[w] \notin {"new", "closed"})
  /\ MutexFree
  /\ renames[w] < MaxRenames
  /\ renames' = [renames EXCEPT ![w] = @ + 1]
  /\ name' = [name EXCEPT ![cur[w]] = renames[w] + 1]
  /\ IF wpc[w] = "idle" THEN PublishByMutex(w) ELSE UNCHANGED visible
  /\ UNCHANGED <<sessionVars, nchans, owner, unread, held, closeSeen, wpc, cur,
                 site, sidv, propCopy, sid, committed, consumerVars>>

-----------------------------------------------------------------------------
(* Logging: BINLOG_CREATE_SOURCE_AND_EVENT *)

\* The load of _binlog_sid.  (A load that returns an old 0 is this action
\* taken earlier.)
StartLog(w, s) ==
  /\ wpc[w] = "idle"
  /\ committed[w] < MaxEvents
  /\ site' = [site EXCEPT ![w] = s]
  /\ sidv' = [sidv EXCEPT ![w] = sid[s]]
  /\ wpc' = [wpc EXCEPT ![w] = IF sid[s] = 0 THEN "source" ELSE "event"]
  /\ UNCHANGED <<sessionVars, channelVars, cur, propCopy, sid, committed,
                 renames, consumerVars>>

\* Slip: the id after the one to be assigned.
nextSourceIdSkipsOne == Len(sources) + 2

\* _nextSourceId: it was incremented once for each source.
nextSourceId == Len(sources) + 1

\* Slip: addEventSource without the mutex.
AddEventSourceUnlocked(w) ==
  /\ wpc[w] = "source"
  /\ sources' = Append(sources, site[w])
  /\ sidv' = [sidv EXCEPT ![w] = nextSourceId]
  /\ wpc' = [wpc EXCEPT ![w] = "store"]
  /\ UNCHANGED <<channels, sourcesConsumed, clocks, consumeClockSync, channelVars,
                 cur, site, propCopy, sid, committed, renames, consumerVars>>

\* Session::addEventSource.
AddEventSource(w) ==
  /\ wpc[w] = "source"
  /\ MutexFree
  /\ sources' = Append(sources, site[w])
  /\ sidv' = [sidv EXCEPT ![w] = nextSourceId]
  /\ PublishByMutex(w)
  /\ wpc' = [wpc EXCEPT ![w] = "store"]
  /\ UNCHANGED <<channels, sourcesConsumed, clocks, consumeClockSync, nchans,
                 owner, name, unread, held, closeSeen, cur, site, propCopy, sid,
                 committed, renames, consumerVars>>

StoreSid(w) ==
  /\ wpc[w] = "store"
  /\ sid' = [sid EXCEPT ![site[w]] = sidv[w]]
  /\ wpc' = [wpc EXCEPT ![w] = "event"]
  /\ UNCHANGED <<sessionVars, channelVars, cur, site, sidv, propCopy, committed,
                 renames, consumerVars>>

\* The end of the macro, and of its local variables.
EndLog(w) ==
  /\ wpc' = [wpc EXCEPT ![w] = "idle"]
  /\ sidv' = [sidv EXCEPT ![w] = 0]
  /\ propCopy' = [propCopy EXCEPT ![w] = 0]

\* addEvent when beginWrite finds space: endWrite commits the event.
Commit(w) ==
  LET c == cur[w]
  IN  /\ wpc[w] \in {"event", "fresh", "last"}
      /\ Len(unread[c]) < QueueEvents
      /\ unread' = [unread EXCEPT ![c] =
                      Append(@, [num |-> committed[w] + 1, source |-> sidv[w],
                                 site |-> site[w], named |-> renames[w]])]
      /\ committed' = [committed EXCEPT ![w] = @ + 1]
      /\ EndLog(w)
      /\ UNCHANGED <<sessionVars, nchans, owner, name, visible, held, closeSeen,
                     cur, site, sid, renames, consumerVars>>

\* addEvent when beginWrite finds no space: replaceChannel copies the
\* channel's properties, without the mutex.  (An event may be larger than the
\* queue, so any queue can be too small.)
CopyProp(w) ==
  /\ wpc[w] = "event"
  /\ propCopy' = [propCopy EXCEPT ![w] = name[cur[w]]]
  /\ wpc' = [wpc EXCEPT ![w] = "replace"]
  /\ UNCHANGED <<sessionVars, channelVars, cur, site, sidv, sid, committed,
                 renames, consumerVars>>

\* Slip: the new channel does not get the properties of the old one.
ReplaceChannelUnnamed(w) ==
  /\ wpc[w] = "replace"
  /\ CreateChannel(w, 0)
  /\ wpc' = [wpc EXCEPT ![w] = "replaced"]
  /\ UNCHANGED <<site, sidv, propCopy, sid, committed, renames, consumerVars>>

\* createChannel; the new queue has room for the event.
ReplaceChannel(w) ==
  /\ wpc[w] = "replace"
  /\ CreateChannel(w, propCopy[w])
  /\ wpc' = [wpc EXCEPT ![w] = "replaced"]
  /\ UNCHANGED <<site, sidv, propCopy, sid, committed, renames, consumerVars>>

\* Assigning _channel drops the shared_ptr of the old channel.
ReleaseChannel(w) ==
  /\ wpc[w] = "replaced"
  /\ held' = [c \in Chans |-> held[c] /\ (owner[c] = w => c = cur[w])]
  /\ wpc' = [wpc EXCEPT ![w] = "fresh"]
  /\ UNCHANGED <<sessionVars, nchans, owner, name, unread, visible, closeSeen,
                 cur, site, sidv, propCopy, sid, committed, renames, consumerVars>>

\* Allocating the channel throws: addEvent tries beginWrite once more, and
\* otherwise returns false, which the macro ignores.
ReplaceFails(w) ==
  /\ wpc[w] = "replace"
  /\ wpc' = [wpc EXCEPT ![w] = "last"]
  /\ UNCHANGED <<sessionVars, channelVars, cur, site, sidv, propCopy, sid,
                 committed, renames, consumerVars>>

DropEvent(w) ==
  /\ wpc[w] = "last"
  /\ EndLog(w)
  /\ UNCHANGED <<sessionVars, channelVars, cur, site, sid, committed, renames,
                 consumerVars>>

-----------------------------------------------------------------------------
(* What the consumer's thread can see of the writers' threads *)

EventArrives(c) ==
  /\ visible[c] < Len(unread[c])
  /\ visible' = [visible EXCEPT ![c] = @ + 1]
  /\ UNCHANGED <<sessionVars, nchans, owner, name, unread, held, closeSeen,
                 writerVars, consumerVars>>

\* use_count() is a relaxed load: only the machine's order of loads (or the
\* mutex) makes the events committed before the drop visible along with it.
CloseArrives(c) ==
  /\ c <= nchans /\ ~held[c] /\ ~closeSeen[c]
  /\ LoadsInOrder => visible[c] = Len(unread[c])
  /\ closeSeen' = [closeSeen EXCEPT ![c] = TRUE]
  /\ UNCHANGED <<sessionVars, nchans, owner, name, unread, visible, held,
                 writerVars, consumerVars>>

-----------------------------------------------------------------------------
(* The consumer's thread *)

\* Slip: setClockSync does not ask for the entry to be written.
SetClockSyncQuietly ==
  /\ MutexFree
  /\ clocks < MaxClocks
  /\ clocks' = clocks + 1
  /\ UNCHANGED <<channels, sources, sourcesConsumed, consumeClockSync,
                 channelVars, writerVars, consumerVars>>

SetClockSync ==
  /\ MutexFree
  /\ clocks < MaxClocks
  /\ clocks' = clocks + 1
  /\ consumeClockSync' = TRUE
  /\ UNCHANGED <<channels, sources, sourcesConsumed, channelVars, writerVars,
                 consumerVars>>

ClockEntries == IF consumeClockSync THEN <<ClockSync(clocks)>> ELSE <<>>

\* Slip: the loop misses the first channel.
ConsumeStartSkipsFirst ==
  /\ cpc = "idle"
  /\ out' = out \o ClockEntries \o SourceEntries(sourcesConsumed, Len(sources))
  /\ consumeClockSync' = FALSE
  /\ sourcesConsumed' = Len(sources)
  /\ pos' = 2
  /\ cpc' = "poll"
  /\ UNCHANGED <<channels, sources, clocks, channelVars, writerVars, isClosed,
                 batch, delivered, rotations, failures>>

\* consume, up to its loop: locks the mutex, writes the metadata.
ConsumeStart ==
  /\ cpc = "idle"
  /\ out' = out \o ClockEntries \o SourceEntries(sourcesConsumed, Len(sources))
  /\ consumeClockSync' = FALSE
  /\ sourcesConsumed' = Len(sources)
  /\ pos' = 1
  /\ cpc' = "poll"
  /\ UNCHANGED <<channels, sources, clocks, channelVars, writerVars, isClosed,
                 batch, delivered, rotations, failures>>

Polling == cpc = "poll" /\ pos \in DOMAIN channels

\* Slip: use_count() == 0.
abandonedMiscounted(c) == FALSE

\* use_count() == 1.
abandoned(c) == closeSeen[c]

\* Sets isClosed; the channel is dereferenced next.
PollClosed ==
  /\ Polling
  /\ channels[pos] # 0
  /\ isClosed' = abandoned(channels[pos])
  /\ cpc' = "read"
  /\ UNCHANGED <<sessionVars, channelVars, writerVars, pos, batch, out,
                 delivered, rotations, failures>>

\* Dereferencing a shared_ptr that was reset.
PollNull ==
  /\ Polling
  /\ channels[pos] = 0
  /\ cpc' = "crashed"
  /\ UNCHANGED <<sessionVars, channelVars, writerVars, pos, isClosed, batch, out,
                 delivered, rotations, failures>>

\* beginRead returns all committed events its load of writeIndex covers.
PollRead ==
  LET c == channels[pos]
  IN  /\ cpc = "read"
      /\ batch' = SubSeq(unread[c], 1, visible[c])
      /\ cpc' = "write"
      /\ UNCHANGED <<sessionVars, channelVars, writerVars, pos, isClosed, out,
                     delivered, rotations, failures>>

\* The numbers of `events` are written out for the writer of c.
Deliver(c, events) ==
  delivered' = [delivered EXCEPT ![owner[c]] =
                  @ \o [i \in 1..Len(events) |-> events[i].num]]

\* Slip: the use count is looked at after beginRead.
resetIfClosedLate(c) == [channels EXCEPT ![pos] = IF closeSeen[c] THEN 0 ELSE c]

\* The shared_ptr of a closed channel is reset.
resetIfClosed(c) == [channels EXCEPT ![pos] = IF isClosed THEN 0 ELSE c]

\* The rest of the iteration: WriterProp and events written, endRead,
\* a closed channel reset.
PollWrite ==
  LET c == channels[pos]
  IN  /\ cpc = "write"
      /\ out' = IF batch = <<>> THEN out ELSE Append(out, Batch(c, batch))
      /\ Deliver(c, batch)
      /\ unread' = [unread EXCEPT ![c] = SubSeq(@, Len(batch) + 1, Len(@))]
      /\ visible' = [visible EXCEPT ![c] = @ - Len(batch)]
      /\ channels' = resetIfClosed(c)
      /\ pos' = pos + 1
      /\ batch' = <<>> /\ isClosed' = FALSE
      /\ cpc' = "poll"
      /\ UNCHANGED <<sources, sourcesConsumed, clocks, consumeClockSync, nchans,
                     owner, name, held, closeSeen, writerVars, rotations, failures>>

\* Slip: remove_if without erase.
NothingErased == UNCHANGED channels

\* remove_if and erase: the rest stays in order.  at[i] is where the i-th
\* channel of the new vector was.
RemovedErased ==
  \E n \in 0..Len(channels) : \E at \in [1..n -> DOMAIN channels] :
    /\ \A i, j \in 1..n : i < j => at[i] < at[j]
    /\ \A p \in DOMAIN channels : channels[p] # 0 <=> \E i \in 1..n : at[i] = p
    /\ channels' = [i \in 1..n |-> channels[at[i]]]

\* Erases the channels that were reset, unlocks the mutex.
ConsumeEnd ==
  /\ cpc = "poll"
  /\ pos > Len(channels)
  /\ RemovedErased
  /\ cpc' = "idle" /\ pos' = 0
  /\ UNCHANGED <<sources, sourcesConsumed, clocks, consumeClockSync, channelVars,
                 writerVars, isClosed, batch, out, delivered, rotations, failures>>

\* A call of out.write throws: consume unlocks the mutex, nothing else is undone.
Throw ==
  /\ failures < MaxFailures
  /\ failures' = failures + 1
  /\ cpc' = "idle" /\ pos' = 0 /\ batch' = <<>> /\ isClosed' = FALSE

\* Of the ClockSync, or of the sources after the ClockSync was written.
ConsumeStartThrows ==
  /\ cpc = "idle"
  /\ Throw
  /\ \/ UNCHANGED <<out, consumeClockSync>>
     \/ out' = out \o ClockEntries /\ consumeClockSync' = FALSE
  /\ UNCHANGED <<channels, sources, sourcesConsumed, clocks, channelVars,
                 writerVars, delivered, rotations>>

\* Of the WriterProp, or of one of the two buffers: the events before the n-th
\* were written, and stay in the queue.
PollWriteThrows ==
  LET c == channels[pos]
  IN  /\ cpc = "write" /\ batch # <<>>
      /\ Throw
      /\ \/ UNCHANGED <<out, delivered>>
         \/ \E n \in 1..Len(batch) :
              LET written == SubSeq(batch, 1, n - 1)
              IN  /\ out' = Append(out, Batch(c, written))
                  /\ Deliver(c, written)
      /\ UNCHANGED <<sessionVars, channelVars, writerVars, rotations>>

\* The output is replaced: reconsumeMetadata writes the consumed metadata
\* to the new one.
Rotate ==
  /\ MutexFree
  /\ rotations < MaxRotations
  /\ rotations' = rotations + 1
  /\ out' = <<ClockSync(clocks)>> \o SourceEntries(0, sourcesConsumed)
  /\ UNCHANGED <<sessionVars, channelVars, writerVars, cpc, pos, isClosed, batch,
                 delivered, failures>>

-----------------------------------------------------------------------------
Writer(w) ==
  \/ OpenWriter(w) \/ CloseWriter(w) \/ SetName(w)
  \/ \E s \in Sites : StartLog(w, s)
  \/ AddEventSource(w) \/ StoreSid(w) \/ Commit(w) \/ CopyProp(w)
  \/ ReplaceChannel(w) \/ ReleaseChannel(w) \/ ReplaceFails(w) \/ DropEvent(w)

Poll == PollClosed \/ PollNull \/ PollRead \/ PollWrite

Memory == \E c \in Chans : EventArrives(c) \/ CloseArrives(c)

Next ==
  \/ \E w \in Writers : Writer(w)
  \/ Memory
  \/ SetClockSync \/ Rotate
  \/ ConsumeStart \/ Poll \/ ConsumeEnd
  \/ ConsumeStartThrows \/ PollWriteThrows

Spec == Init /\ [][Next]_vars

\* Somebody keeps calling consume, and what a thread stores is seen by another
\* one in the end.  Nothing is asked of the writers.
Fairness ==
  /\ WF_vars(ConsumeStart \/ Poll \/ ConsumeEnd)
  /\ \A c \in Chans : WF_vars(EventArrives(c)) /\ WF_vars(CloseArrives(c))

LiveSpec == Spec /\ Fairness

-----------------------------------------------------------------------------
(* Properties *)

Events == [num : 1..MaxEvents, source : Nat, site : Sites, named : 0..MaxRenames]

WriterSteps == {"new", "idle", "source", "store", "event", "replace", "replaced",
                "fresh", "last", "closed"}

Entries ==
  [kind : {"clock"}, version : 0..MaxClocks]
    \cup [kind : {"source"}, id : Nat, site : Sites]
    \cup [kind : {"batch"}, writer : Writers, name : 0..MaxRenames,
          latest : 0..MaxRenames, events : Seq(Events)]

SessionTypes ==
  /\ channels \in Seq(0..nchans)
  /\ sources \in Seq(Sites) /\ sourcesConsumed \in 0..Len(sources)
  /\ clocks \in 0..MaxClocks /\ consumeClockSync \in BOOLEAN

\* The consumer's thread sees no more than there is.
ChannelTypes ==
  /\ nchans \in 0..MaxChannels
  /\ owner \in [Chans -> Writers \cup {NoWriter}]
  /\ name \in [Chans -> 0..MaxRenames]
  /\ unread \in [Chans -> Seq(Events)]
  /\ visible \in [Chans -> Nat]
  /\ \A c \in Chans : visible[c] <= Len(unread[c]) /\ Len(unread[c]) <= QueueEvents
  /\ held \in [Chans -> BOOLEAN] /\ closeSeen \in [Chans -> BOOLEAN]

\* A thread that adds an event has a source id for it.
WriterTypes ==
  /\ wpc \in [Writers -> WriterSteps]
  /\ cur \in [Writers -> 0..nchans]
  /\ site \in [Writers -> Sites]
  /\ sidv \in [Writers -> 0..Len(sources)]
  /\ \A w \in Writers :
       wpc[w] \notin {"new", "idle", "source", "closed"} => sidv[w] > 0
  /\ propCopy \in [Writers -> 0..MaxRenames]
  /\ sid \in [Sites -> 0..Len(sources)]
  /\ committed \in [Writers -> 0..MaxEvents]
  /\ renames \in [Writers -> 0..MaxRenames]

ConsumerTypes ==
  /\ cpc \in {"idle", "poll", "read", "write", "crashed"}
  /\ pos \in 0..(Len(channels) + 1)
  /\ isClosed \in BOOLEAN /\ batch \in Seq(Events)
  /\ out \in Seq(Entries)
  /\ delivered \in [Writers -> Seq(1..MaxEvents)]
  /\ rotations \in 0..MaxRotations /\ failures \in 0..MaxFailures

\* Type invariant of the session, its channels, the writers and the consumer.
TypeOK == SessionTypes /\ ChannelTypes /\ WriterTypes /\ ConsumerTypes

\* In every output, also in one that was started later and in one whose writes
\* failed, each event comes after the source it refers to, and that source is
\* the one of the call site that logged it.  Session.hpp:114-117 and the race
\* of its comment at 315-323.
SourcePrecedesEvent ==
  \A i \in DOMAIN out : out[i].kind = "batch" =>
    \A k \in DOMAIN out[i].events :
      LET e == out[i].events[k]
      IN  \E j \in 1..(i - 1) :
            out[j] = [kind |-> "source", id |-> e.source, site |-> e.site]

\* Session knows the channel.
Listed(c) == \E p \in DOMAIN channels : channels[p] = c

\* An event that was committed has been written out, or is in a channel that
\* consume still knows.  The race of the comment at Session.hpp:345-350, and
\* 83-86: a channel is disposed when it is abandoned AND empty.
NoEventLost ==
  \A w \in Writers : \A n \in 1..committed[w] :
    \/ \E i \in DOMAIN delivered[w] : delivered[w][i] = n
    \/ \E c \in Chans : /\ Listed(c) /\ owner[c] = w
                        /\ \E k \in DOMAIN unread[c] : unread[c][k].num = n

\* The events of a writer are written in the order it logged them and once,
\* across the channels it went through.  A write that throws may repeat events;
\* even so none is written before its predecessor.  Session.hpp:156-159.
EventsInOrder ==
  \A w \in Writers : \A i \in DOMAIN delivered[w] :
    \/ delivered[w][i] = i
    \/ /\ failures > 0
       /\ delivered[w][i] > 1 =>
            \E j \in 1..(i - 1) : delivered[w][j] = delivered[w][i] - 1

\* While events are written, the last ClockSync of the output is the one set
\* last.  Session.hpp:138-139, 328-334, 407-409.
CurrentClock ==
  cpc \in {"poll", "read", "write"} =>
    \E i \in DOMAIN out :
      /\ out[i] = ClockSync(clocks)
      /\ \A j \in (i + 1)..Len(out) : out[j].kind # "clock" \/ out[j] = out[i]

\* An event logged after a call of setName is not written under an older name,
\* although the queue it was logged to may have been replaced since.
\* SessionWriter.hpp:73-76, 178.
NewEventsCarryName ==
  \A i \in DOMAIN out : out[i].kind = "batch" =>
    \A k \in DOMAIN out[i].events : out[i].events[k].named <= out[i].name

\* Stronger: events that were logged and not yet consumed get the new name too,
\* as SessionWriter.hpp:73-75 says.
NameTakesEffect ==
  \A i \in DOMAIN out : out[i].kind = "batch" => out[i].name = out[i].latest

\* consume does not dereference a channel that an earlier consume removed.
NoRemovedChannelPolled == cpc # "crashed"

\* The same while no write has failed.
NoRemovedChannelPolledUnlessThrown == failures = 0 => NoRemovedChannelPolled

\* What a writer commits is written out in the end.
EventuallyConsumed ==
  \A w \in Writers : \A n \in 1..MaxEvents :
    committed[w] >= n ~> \E i \in DOMAIN delivered[w] : delivered[w][i] = n

\* A channel whose writer is gone is removed in the end (Session.hpp:155).
ClosedChannelsRemoved ==
  \A c \in Chans :
    (c <= nchans /\ ~held[c]) ~> ~Listed(c)
=============================================================================
