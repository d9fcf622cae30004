---------------------------- MODULE SessionProofs ----------------------------
(***************************************************************************)
(* A logging session and its output, for any number of writers, call       *)
(* sites, events, channels, outputs and throwing writes.                   *)
(*                                                                         *)
(* First TypeOK with what it needs to be inductive: where each thread can  *)
(* be.  On it builds what the output of consume has: every event after its *)
(* source, under the name of its writer and the ClockSync in force; and,   *)
(* if the machine keeps the order of the two loads of consume              *)
(* (LoadsInOrder), all events, each writer's in the order it logged them.  *)
(***************************************************************************)
EXTENDS Session, SequenceTheorems, TLAPS

-----------------------------------------------------------------------------
(* Types, and where the threads are *)

\* A writer in use has a channel; a thread adds an event only below the bound;
\* consume is at a position of _channels that was not reset, and what it has
\* read is still in the queue.
Places ==
  /\ \A c \in 1..nchans : owner[c] \in Writers
  /\ \A w \in Writers : wpc[w] # "new" => cur[w] # 0
  /\ \A w \in Writers :
       wpc[w] \notin {"new", "idle", "closed"} => committed[w] < MaxEvents
  /\ cpc = "poll" => pos > 0
  /\ cpc \in {"read", "write"} => pos \in DOMAIN channels /\ channels[pos] # 0
  /\ cpc = "write" => Len(batch) <= visible[channels[pos]]

TInv == TypeOK /\ Places

\* A constructed session has no channels, and no thread has one.
LEMMA InitT == Init => TInv
<1> SUFFICES ASSUME Init PROVE TInv
  OBVIOUS
<1> USE SessionAssumption DEF Init
<1>1. SessionTypes
  BY DEF SessionTypes
<1>2. ChannelTypes
  BY DEF ChannelTypes, Chans
<1>3. WriterTypes
  <2>1. (CHOOSE s \in Sites : TRUE) \in Sites
    OBVIOUS
  <2>2. site \in [Writers -> Sites]
    BY <2>1
  <2>3. MaxRenames \in Nat /\ MaxEvents \in Nat
    OBVIOUS
  <2> HIDE DEF Init
  <2>4. /\ sources = <<>> /\ wpc = [w \in Writers |-> "new"]
        /\ cur = [w \in Writers |-> 0] /\ sidv = [w \in Writers |-> 0]
        /\ propCopy = [w \in Writers |-> 0] /\ sid = [s \in Sites |-> 0]
        /\ committed = [w \in Writers |-> 0] /\ renames = [w \in Writers |-> 0]
        /\ nchans = 0
    BY DEF Init
  <2>5. Len(sources) = 0 /\ nchans = 0
    BY <2>4
  <2>6. wpc \in [Writers -> WriterSteps] /\ cur \in [Writers -> 0..nchans]
    BY <2>4 DEF WriterSteps
  <2>7. sidv \in [Writers -> 0..Len(sources)] /\ sid \in [Sites -> 0..Len(sources)]
    BY <2>4, <2>5
  <2>8. /\ propCopy \in [Writers -> 0..MaxRenames]
        /\ committed \in [Writers -> 0..MaxEvents]
        /\ renames \in [Writers -> 0..MaxRenames]
    BY <2>3, <2>4
  <2>9. \A w \in Writers : wpc[w] \notin {"new", "idle", "source", "closed"} => sidv[w] > 0
    BY <2>4
  <2> QED BY <2>2, <2>6, <2>7, <2>8, <2>9 DEF WriterTypes
<1>4. ConsumerTypes
  <2>1. delivered \in [Writers -> Seq(1..MaxEvents)]
    OBVIOUS
  <2>2. rotations \in 0..MaxRotations /\ failures \in 0..MaxFailures
    OBVIOUS
  <2>3. pos \in 0..(Len(channels) + 1)
    OBVIOUS
  <2>4. batch \in Seq(Events) /\ out \in Seq(Entries)
    OBVIOUS
  <2>5. cpc = "idle" /\ isClosed \in BOOLEAN
    OBVIOUS
  <2> HIDE DEF Init
  <2> QED BY <2>1, <2>2, <2>3, <2>4, <2>5 DEF ConsumerTypes
<1>5. Places
  BY DEF Places
<1> QED BY <1>1, <1>2, <1>3, <1>4, <1>5 DEF TInv, TypeOK

\* The queues' contents and how much of them is visible, as sequences.
LEMMA QueueTypes ==
  ASSUME TInv, NEW c \in Chans
  PROVE  /\ unread[c] \in Seq(Events) /\ Len(unread[c]) \in Nat
         /\ visible[c] \in Nat /\ visible[c] <= Len(unread[c])
         /\ Len(unread[c]) <= QueueEvents /\ QueueEvents \in Nat
BY SessionAssumption DEF TInv, TypeOK, ChannelTypes

\* Publishing a writer's events keeps the views of the consumer within bounds.
LEMMA PublishTypes ==
  ASSUME TInv, NEW w, PublishByMutex(w)
  PROVE  /\ visible' \in [Chans -> Nat]
         /\ \A c \in Chans : visible'[c] <= Len(unread[c])
<1>1. ASSUME NEW c \in Chans PROVE visible'[c] \in Nat /\ visible'[c] <= Len(unread[c])
  BY QueueTypes DEF PublishByMutex
<1>2. visible' = [c \in Chans |-> visible'[c]]
  BY DEF PublishByMutex
<1> QED BY <1>1, <1>2

\* A channel number, unless it stands for a pointer that was reset.
LEMMA ListedIsChan ==
  ASSUME TInv, NEW p \in DOMAIN channels
  PROVE  channels[p] \in 0..nchans /\ (channels[p] # 0 => channels[p] \in Chans)
BY SessionAssumption DEF TInv, TypeOK, SessionTypes, ChannelTypes, Chans

\* createChannel: the next channel number, at the end of _channels.
LEMMA CreateChannelT ==
  ASSUME TInv, NEW w \in Writers, NEW n \in 0..MaxRenames, CreateChannel(w, n)
  PROVE  /\ SessionTypes' /\ ChannelTypes'
         /\ nchans' = nchans + 1 /\ nchans' \in Chans
         /\ channels' = Append(channels, nchans') /\ channels \in Seq(0..nchans')
         /\ Len(channels) \in Nat /\ Len(channels') = Len(channels) + 1
         /\ cur' \in [Writers -> 0..nchans']
         /\ \A c \in 1..nchans' : owner'[c] \in Writers
         /\ cpc = "idle"
<1>1. nchans \in Nat /\ nchans' = nchans + 1 /\ nchans' \in Chans /\ nchans' <= MaxChannels
  BY SessionAssumption
     DEF TInv, TypeOK, ChannelTypes, CreateChannel, Chans
<1>2. channels \in Seq(0..nchans')
  BY <1>1 DEF TInv, TypeOK, SessionTypes
<1>3. channels' = Append(channels, nchans')
  BY <1>1 DEF CreateChannel, PushChannel
<1>4. channels' \in Seq(0..nchans') /\ Len(channels') = Len(channels) + 1 /\ Len(channels) \in Nat
  BY <1>1, <1>2, <1>3, AppendProperties, LenProperties
<1>5. SessionTypes'
  BY <1>4 DEF TInv, TypeOK, SessionTypes, CreateChannel
<1>6. ChannelTypes'
  <2>1. /\ owner' = [owner EXCEPT ![nchans'] = w] /\ name' = [name EXCEPT ![nchans'] = n]
        /\ held' = [held EXCEPT ![nchans'] = TRUE] /\ PublishByMutex(w)
        /\ UNCHANGED <<unread, closeSeen>>
    BY <1>1 DEF CreateChannel
  <2>2. /\ visible' \in [Chans -> Nat]
        /\ \A c \in Chans : visible'[c] <= Len(unread[c])
    BY <2>1, PublishTypes
  <2>3. nchans' \in 0..MaxChannels
    BY <1>1, SessionAssumption
  <2>4. owner' \in [Chans -> Writers \cup {NoWriter}]
    BY <1>1, <2>1 DEF TInv, TypeOK, ChannelTypes
  <2>5. name' \in [Chans -> 0..MaxRenames]
    BY <1>1, <2>1 DEF TInv, TypeOK, ChannelTypes
  <2>6. held' \in [Chans -> BOOLEAN] /\ closeSeen' \in [Chans -> BOOLEAN]
    BY <1>1, <2>1 DEF TInv, TypeOK, ChannelTypes
  <2>7. \A c \in Chans : visible'[c] <= Len(unread'[c]) /\ Len(unread'[c]) <= QueueEvents
    BY <2>1, <2>2, QueueTypes
  <2>8. unread' \in [Chans -> Seq(Events)]
    BY <2>1 DEF TInv, TypeOK, ChannelTypes
  <2> QED BY <2>2, <2>3, <2>4, <2>5, <2>6, <2>7, <2>8 DEF ChannelTypes
<1>7. cur' \in [Writers -> 0..nchans']
  BY <1>1 DEF TInv, TypeOK, WriterTypes, CreateChannel
<1>8. \A c \in 1..nchans' : owner'[c] \in Writers
  BY <1>1 DEF TInv, TypeOK, ChannelTypes, Places, CreateChannel, Chans
<1>9. cpc = "idle"
  BY DEF CreateChannel, MutexFree
<1> QED BY <1>1, <1>2, <1>3, <1>4, <1>5, <1>6, <1>7, <1>8, <1>9

\* What the types and places say of one writer.
LEMMA WriterFacts ==
  ASSUME TInv, NEW w \in Writers
  PROVE  /\ wpc[w] \in WriterSteps /\ site[w] \in Sites
         /\ cur[w] \in 0..nchans /\ (wpc[w] # "new" => cur[w] \in Chans)
         /\ sidv[w] \in 0..Len(sources) /\ Len(sources) \in Nat
         /\ wpc[w] \notin {"new", "idle", "source", "closed"} => sidv[w] > 0
         /\ renames[w] \in 0..MaxRenames /\ propCopy[w] \in 0..MaxRenames
         /\ committed[w] \in 0..MaxEvents
         /\ wpc[w] \notin {"new", "idle", "closed"} => committed[w] < MaxEvents
         /\ MaxRenames \in Nat /\ MaxEvents \in Nat /\ nchans \in Nat
         /\ wpc[w] # "new" => cur[w] \in 1..nchans
<1>1. nchans \in 0..MaxChannels /\ MaxChannels \in Nat /\ MaxRenames \in Nat /\ MaxEvents \in Nat
  BY SessionAssumption DEF TInv, TypeOK, ChannelTypes
<1>2. cur[w] \in 0..nchans /\ (wpc[w] # "new" => cur[w] # 0)
  BY DEF TInv, TypeOK, WriterTypes, Places
<1>3. /\ wpc[w] \notin {"new", "idle", "closed"} => committed[w] < MaxEvents
      /\ Len(sources) \in Nat
  BY DEF TInv, TypeOK, SessionTypes, Places
<1> QED BY <1>1, <1>2, <1>3 DEF TInv, TypeOK, WriterTypes, Chans

\* What the types and places say of the iteration consume is in.
LEMMA PollFacts ==
  ASSUME TInv, cpc \in {"read", "write"}
  PROVE  /\ pos \in 1..Len(channels) /\ channels[pos] \in Chans
         /\ channels[pos] \in 1..nchans
         /\ channels \in Seq(0..nchans) /\ Len(channels) \in Nat
         /\ owner[channels[pos]] \in Writers
<1>1. pos \in DOMAIN channels /\ channels[pos] # 0
  BY DEF TInv, Places
<1>2. channels[pos] \in 0..nchans /\ channels[pos] \in Chans
  BY <1>1, ListedIsChan
<1>3. channels \in Seq(0..nchans)
  BY DEF TInv, TypeOK, SessionTypes
<1>4. nchans \in Nat
  BY SessionAssumption DEF TInv, TypeOK, ChannelTypes
<1>5. channels[pos] \in 1..nchans
  BY <1>1, <1>2, <1>4
<1>6. owner[channels[pos]] \in Writers
  BY <1>5 DEF TInv, Places
<1>7. pos \in 1..Len(channels) /\ Len(channels) \in Nat
  BY <1>1, <1>3
<1> QED BY <1>2, <1>3, <1>5, <1>6, <1>7

\* The metadata entries consume and reconsumeMetadata write are entries.
LEMMA MetadataTypes ==
  ASSUME TInv
  PROVE  /\ ClockEntries \in Seq(Entries) /\ <<ClockSync(clocks)>> \in Seq(Entries)
         /\ \A to \in 0..Len(sources) : \A from \in 0..to :
              SourceEntries(from, to) \in Seq(Entries)
<1>1. clocks \in 0..MaxClocks /\ sources \in Seq(Sites)
  BY DEF TInv, TypeOK, SessionTypes
<1>2. ClockSync(clocks) \in Entries
  BY <1>1 DEF ClockSync, Entries
<1>3. ASSUME NEW to \in 0..Len(sources), NEW from \in 0..to
      PROVE  SourceEntries(from, to) \in Seq(Entries)
  <2>1. to \in Nat /\ from \in Nat /\ to - from \in Nat
    BY <1>1
  <2>2. ASSUME NEW i \in 1..(to - from) PROVE EventSource(from + i) \in Entries
    <3>1. from + i \in Nat /\ from + i \in 1..Len(sources)
      BY <1>1, <2>1
    <3>2. sources[from + i] \in Sites
      BY <1>1, <3>1
    <3> QED BY <3>1, <3>2 DEF EventSource, Entries
  <2> QED BY <2>1, <2>2 DEF SourceEntries
<1> QED BY <1>2, <1>3 DEF ClockEntries

\* A batch is an entry.
LEMMA BatchType ==
  ASSUME TInv, NEW c \in Chans, owner[c] \in Writers, NEW events \in Seq(Events)
  PROVE  Batch(c, events) \in Entries
<1>1. name[c] \in 0..MaxRenames /\ renames[owner[c]] \in 0..MaxRenames
  BY DEF TInv, TypeOK, ChannelTypes, WriterTypes
<1> QED BY <1>1 DEF Batch, Entries

\* The numbers of events are appended to those of their writer.
LEMMA DeliverType ==
  ASSUME TInv, NEW c \in Chans, owner[c] \in Writers, NEW events \in Seq(Events),
         Deliver(c, events)
  PROVE  delivered' \in [Writers -> Seq(1..MaxEvents)]
<1>1. [i \in 1..Len(events) |-> events[i].num] \in Seq(1..MaxEvents)
  <2>1. Len(events) \in Nat
    OBVIOUS
  <2>2. ASSUME NEW i \in 1..Len(events) PROVE events[i].num \in 1..MaxEvents
    <3>1. events[i] \in Events
      OBVIOUS
    <3> QED BY <3>1 DEF Events
  <2> QED BY <2>1, <2>2
<1>2. delivered[owner[c]] \in Seq(1..MaxEvents)
  BY DEF TInv, TypeOK, ConsumerTypes
<1>3. delivered[owner[c]] \o [i \in 1..Len(events) |-> events[i].num] \in Seq(1..MaxEvents)
  BY <1>1, <1>2, ConcatProperties
<1> QED BY <1>3 DEF TInv, TypeOK, ConsumerTypes, Deliver

\* A new writer gets the channel created last.
LEMMA OpenWriterT ==
  ASSUME TInv, NEW w \in Writers, OpenWriter(w)
  PROVE  TInv'
<1>a. /\ SessionTypes' /\ ChannelTypes'
      /\ nchans' = nchans + 1 /\ nchans' \in Chans
      /\ channels' = Append(channels, nchans') /\ channels \in Seq(0..nchans')
      /\ Len(channels) \in Nat /\ Len(channels') = Len(channels) + 1
      /\ cur' \in [Writers -> 0..nchans']
      /\ \A c \in 1..nchans' : owner'[c] \in Writers
      /\ cpc = "idle"
  BY CreateChannelT, WriterFacts, SessionAssumption DEF OpenWriter
<1>b. cur' = [cur EXCEPT ![w] = nchans'] /\ nchans' # 0 /\ sources' = sources
  BY <1>a DEF OpenWriter, CreateChannel, Chans
<1>1. SessionTypes'
  BY <1>a
<1>2. ChannelTypes'
  BY <1>a
<1>3. WriterTypes'
  <2>1. wpc' \in [Writers -> WriterSteps]
    BY DEF TInv, TypeOK, WriterTypes, OpenWriter, WriterSteps
  <2>2. \A v \in Writers :
          wpc'[v] \notin {"new", "idle", "source", "closed"} => sidv'[v] > 0
    BY WriterFacts DEF TInv, TypeOK, WriterTypes, OpenWriter
  <2> QED BY <1>a, <1>b, <2>1, <2>2 DEF TInv, TypeOK, WriterTypes, OpenWriter
<1>4. ConsumerTypes'
  BY <1>a DEF TInv, TypeOK, ConsumerTypes, OpenWriter, consumerVars
<1>5. Places'
  <2>1. \A v \in Writers : wpc'[v] # "new" => cur'[v] # 0
    BY <1>b DEF TInv, TypeOK, WriterTypes, Places, OpenWriter
  <2>2. \A v \in Writers :
          wpc'[v] \notin {"new", "idle", "closed"} => committed'[v] < MaxEvents
    BY WriterFacts DEF TInv, TypeOK, WriterTypes, OpenWriter
  <2>3. cpc' = "idle"
    BY <1>a DEF OpenWriter, consumerVars
  <2> QED BY <1>a, <2>1, <2>2, <2>3 DEF Places
<1> QED BY <1>1, <1>2, <1>3, <1>4, <1>5 DEF TInv, TypeOK

\* The writer is gone; its channel stays where it is.
LEMMA CloseWriterT ==
  ASSUME TInv, NEW w \in Writers, CloseWriter(w)
  PROVE  TInv'
<1>1. SessionTypes'
  BY DEF TInv, TypeOK, SessionTypes, CloseWriter, sessionVars
<1>2. ChannelTypes'
  BY DEF TInv, TypeOK, ChannelTypes, CloseWriter
<1>3. WriterTypes'
  BY DEF TInv, TypeOK, WriterTypes, WriterSteps, sessionVars, CloseWriter
<1>4. ConsumerTypes'
  BY DEF TInv, TypeOK, ConsumerTypes, sessionVars, consumerVars, CloseWriter
<1>5. Places'
  BY DEF TInv, Places, sessionVars, consumerVars, CloseWriter
<1> QED BY <1>1, <1>2, <1>3, <1>4, <1>5 DEF TInv, TypeOK

\* A new name, and the events it publishes.
LEMMA SetNameT ==
  ASSUME TInv, NEW w \in Writers, SetName(w)
  PROVE  TInv'
<1>1. SessionTypes'
  BY DEF TInv, TypeOK, SessionTypes, sessionVars, SetName
<1>2. ChannelTypes'
  <2>1. name' \in [Chans -> 0..MaxRenames]
    <3>1. renames[w] + 1 \in 0..MaxRenames
      BY WriterFacts DEF SetName
    <3> QED BY <3>1 DEF TInv, TypeOK, ChannelTypes, SetName
  <2>2. /\ visible' \in [Chans -> Nat]
        /\ \A c \in Chans : visible'[c] <= Len(unread[c])
    BY PublishTypes DEF TInv, TypeOK, ChannelTypes, SetName
  <2>3. UNCHANGED <<nchans, owner, unread, held, closeSeen>>
    BY DEF SetName
  <2>4. \A c \in Chans : Len(unread[c]) <= QueueEvents
    BY QueueTypes
  <2> QED BY <2>1, <2>2, <2>3, <2>4 DEF TInv, TypeOK, ChannelTypes
<1>3. WriterTypes'
  <2>1. renames[w] + 1 \in 0..MaxRenames
    BY WriterFacts DEF SetName
  <2>2. renames' \in [Writers -> 0..MaxRenames]
    BY <2>1 DEF TInv, TypeOK, WriterTypes, SetName
  <2> QED BY <2>2 DEF TInv, TypeOK, WriterTypes, SetName, sessionVars
<1>4. ConsumerTypes'
  BY DEF TInv, TypeOK, ConsumerTypes, sessionVars, consumerVars, SetName
<1>5. Places'
  BY DEF TInv, Places, MutexFree, consumerVars, SetName
<1> QED BY <1>1, <1>2, <1>3, <1>4, <1>5 DEF TInv, TypeOK

\* A thread that skips addEventSource has loaded an id.
LEMMA StartLogT ==
  ASSUME TInv, NEW w \in Writers, NEW s \in Sites, StartLog(w, s)
  PROVE  TInv'
<1>1. SessionTypes'
  BY DEF TInv, TypeOK, SessionTypes, sessionVars, channelVars, StartLog
<1>2. ChannelTypes'
  BY DEF TInv, TypeOK, ChannelTypes, channelVars, StartLog
<1>3. WriterTypes'
  <2>1. sid[s] \in 0..Len(sources)
    BY DEF TInv, TypeOK, WriterTypes
  <2>2. wpc' \in [Writers -> WriterSteps] /\ sidv' \in [Writers -> 0..Len(sources)]
    BY <2>1 DEF TInv, TypeOK, WriterTypes, StartLog, WriterSteps
  <2>3. ASSUME NEW v \in Writers, wpc'[v] \notin {"new", "idle", "source", "closed"}
        PROVE  sidv'[v] > 0
    <3>1. CASE v = w
      <4>1. sid[s] # 0 /\ sidv'[w] = sid[s]
        BY <2>3, <3>1 DEF TInv, TypeOK, WriterTypes, StartLog
      <4> QED BY <2>1, <3>1, <4>1 DEF TInv, TypeOK, SessionTypes
    <3>2. CASE v # w
      BY <2>3, <3>2 DEF TInv, TypeOK, WriterTypes, StartLog
    <3> QED BY <3>1, <3>2
  <2> QED BY <2>2, <2>3
         DEF TInv, TypeOK, WriterTypes, StartLog, sessionVars, channelVars
<1>4. ConsumerTypes'
  BY DEF TInv, TypeOK, ConsumerTypes, sessionVars, consumerVars, StartLog
<1>5. Places'
  BY DEF TInv, Places, sessionVars, channelVars, consumerVars, StartLog
<1> QED BY <1>1, <1>2, <1>3, <1>4, <1>5 DEF TInv, TypeOK

\* The id assigned is that of the source added.
LEMMA AddEventSourceT ==
  ASSUME TInv, NEW w \in Writers, AddEventSource(w)
  PROVE  TInv'
<1>1. SessionTypes'
  <2>1. /\ sources' \in Seq(Sites) /\ Len(sources') = Len(sources) + 1
        /\ Len(sources) \in Nat
    BY WriterFacts, AppendProperties DEF TInv, TypeOK, SessionTypes, AddEventSource
  <2>2. sourcesConsumed' \in 0..Len(sources')
    BY <2>1 DEF TInv, TypeOK, SessionTypes, AddEventSource
  <2> QED BY <2>1, <2>2 DEF TInv, TypeOK, SessionTypes, AddEventSource
<1>2. ChannelTypes'
  <2>1. /\ visible' \in [Chans -> Nat]
        /\ \A c \in Chans : visible'[c] <= Len(unread[c])
    BY PublishTypes DEF AddEventSource
  <2>2. \A c \in Chans : Len(unread[c]) <= QueueEvents
    BY QueueTypes
  <2>3. UNCHANGED <<nchans, owner, name, unread, held, closeSeen>>
    BY DEF AddEventSource
  <2> QED BY <2>1, <2>2, <2>3 DEF TInv, TypeOK, ChannelTypes
<1>3. WriterTypes'
  <2>1. Len(sources') = Len(sources) + 1 /\ Len(sources) \in Nat
    BY WriterFacts, AppendProperties DEF TInv, TypeOK, SessionTypes, AddEventSource
  <2>2. sid' \in [Sites -> 0..Len(sources')]
    BY <2>1 DEF TInv, TypeOK, WriterTypes, AddEventSource
  <2>3. sidv' \in [Writers -> 0..Len(sources')]
    BY <2>1 DEF TInv, TypeOK, WriterTypes, AddEventSource, nextSourceId
  <2>4. wpc' \in [Writers -> WriterSteps]
    BY DEF TInv, TypeOK, WriterTypes, AddEventSource, WriterSteps
  <2>5. \A v \in Writers :
          wpc'[v] \notin {"new", "idle", "source", "closed"} => sidv'[v] > 0
    BY <2>1 DEF TInv, TypeOK, WriterTypes, AddEventSource, nextSourceId
  <2> QED BY <2>2, <2>3, <2>4, <2>5 DEF TInv, TypeOK, WriterTypes, AddEventSource
<1>4. ConsumerTypes'
  BY DEF TInv, TypeOK, ConsumerTypes, consumerVars, AddEventSource
<1>5. Places'
  BY DEF TInv, Places, MutexFree, consumerVars, AddEventSource
<1> QED BY <1>1, <1>2, <1>3, <1>4, <1>5 DEF TInv, TypeOK

\* The id stored is that of a source.
LEMMA StoreSidT ==
  ASSUME TInv, NEW w \in Writers, StoreSid(w)
  PROVE  TInv'
<1>1. SessionTypes'
  BY DEF TInv, TypeOK, SessionTypes, sessionVars, channelVars, StoreSid
<1>2. ChannelTypes'
  BY DEF TInv, TypeOK, ChannelTypes, channelVars, StoreSid
<1>3. WriterTypes'
  BY DEF TInv, TypeOK, WriterTypes, WriterSteps, sessionVars, channelVars,
         StoreSid
<1>4. ConsumerTypes'
  BY DEF TInv, TypeOK, ConsumerTypes, sessionVars, consumerVars, StoreSid
<1>5. Places'
  BY DEF TInv, Places, sessionVars, channelVars, consumerVars, StoreSid
<1> QED BY <1>1, <1>2, <1>3, <1>4, <1>5 DEF TInv, TypeOK

\* An event fits the queue; the thread may log again.
LEMMA CommitT ==
  ASSUME TInv, NEW w \in Writers, Commit(w)
  PROVE  TInv'
<1>1. SessionTypes'
  BY DEF TInv, TypeOK, SessionTypes, sessionVars, Commit
<1>2. ChannelTypes'
  <2> DEFINE c == cur[w]
             e == [num |-> committed[w] + 1, source |-> sidv[w],
                   site |-> site[w], named |-> renames[w]]
  <2>1. c \in Chans /\ e \in Events
    <3>1. committed[w] + 1 \in 1..MaxEvents /\ sidv[w] \in Nat
      BY WriterFacts DEF Commit
    <3> QED BY <3>1, WriterFacts DEF Events, Commit
  <2>2. unread' = [unread EXCEPT ![c] = Append(unread[c], e)]
    BY DEF Commit
  <2> HIDE DEF e
  <2>3. Append(unread[c], e) \in Seq(Events) /\ Len(Append(unread[c], e)) = Len(unread[c]) + 1
    BY <2>1, QueueTypes, AppendProperties
  <2>4. ASSUME NEW d \in Chans
        PROVE  visible[d] <= Len(unread'[d]) /\ Len(unread'[d]) <= QueueEvents
    <3>1. CASE d = c
      <4>1. Len(unread'[d]) = Len(unread[c]) + 1
        BY <2>2, <2>3, <3>1 DEF TInv, TypeOK, ChannelTypes
      <4>2. Len(unread[c]) < QueueEvents
        BY DEF Commit
      <4> QED BY <2>1, <3>1, <4>1, <4>2, QueueTypes
    <3>2. CASE d # c
      <4>1. unread'[d] = unread[d]
        BY <2>2, <3>2 DEF TInv, TypeOK, ChannelTypes
      <4> QED BY <4>1, QueueTypes
    <3> QED BY <3>1, <3>2
  <2>5. unread' \in [Chans -> Seq(Events)]
    BY <2>1, <2>2, <2>3 DEF TInv, TypeOK, ChannelTypes
  <2> QED BY <2>4, <2>5 DEF TInv, TypeOK, ChannelTypes, Commit
<1>3. WriterTypes'
  <2>1. wpc' \in [Writers -> WriterSteps]
    BY DEF TInv, TypeOK, WriterTypes, Commit, EndLog, WriterSteps
  <2>2. /\ sidv' \in [Writers -> 0..Len(sources)]
        /\ propCopy' \in [Writers -> 0..MaxRenames]
    BY WriterFacts DEF TInv, TypeOK, WriterTypes, Commit, EndLog
  <2>3. \A v \in Writers :
          wpc'[v] \notin {"new", "idle", "source", "closed"} => sidv'[v] > 0
    BY DEF TInv, TypeOK, WriterTypes, Commit, EndLog
  <2>4. committed' \in [Writers -> 0..MaxEvents]
    <3>1. committed[w] + 1 \in 0..MaxEvents
      BY WriterFacts DEF Commit
    <3> QED BY <3>1 DEF TInv, TypeOK, WriterTypes, Commit
  <2> QED BY <2>1, <2>2, <2>3, <2>4
         DEF TInv, TypeOK, WriterTypes, Commit, sessionVars
<1>4. ConsumerTypes'
  BY DEF TInv, TypeOK, ConsumerTypes, sessionVars, consumerVars, Commit
<1>5. Places'
  BY DEF TInv, Places, WriterTypes, EndLog, sessionVars, consumerVars, TypeOK,
         Commit
<1> QED BY <1>1, <1>2, <1>3, <1>4, <1>5 DEF TInv, TypeOK

\* The name that is copied is that of an existing channel.
LEMMA CopyPropT ==
  ASSUME TInv, NEW w \in Writers, CopyProp(w)
  PROVE  TInv'
<1>1. SessionTypes'
  BY DEF TInv, TypeOK, SessionTypes, sessionVars, channelVars, CopyProp
<1>2. ChannelTypes'
  BY DEF TInv, TypeOK, ChannelTypes, channelVars, CopyProp
<1>3. WriterTypes'
  <2>1. name[cur[w]] \in 0..MaxRenames
    BY WriterFacts DEF TInv, TypeOK, ChannelTypes, CopyProp
  <2>2. /\ propCopy' \in [Writers -> 0..MaxRenames]
        /\ wpc' \in [Writers -> WriterSteps]
    BY <2>1 DEF TInv, TypeOK, WriterTypes, CopyProp, WriterSteps
  <2>3. \A v \in Writers :
          wpc'[v] \notin {"new", "idle", "source", "closed"} => sidv'[v] > 0
    BY WriterFacts DEF TInv, TypeOK, WriterTypes, CopyProp
  <2> QED BY <2>2, <2>3
         DEF TInv, TypeOK, WriterTypes, CopyProp, sessionVars, channelVars
<1>4. ConsumerTypes'
  BY DEF TInv, TypeOK, ConsumerTypes, sessionVars, consumerVars, CopyProp
<1>5. Places'
  BY DEF TInv, Places, sessionVars, channelVars, consumerVars, CopyProp
<1> QED BY <1>1, <1>2, <1>3, <1>4, <1>5 DEF TInv, TypeOK

\* The writer moves on to the channel created last.
LEMMA ReplaceChannelT ==
  ASSUME TInv, NEW w \in Writers, ReplaceChannel(w)
  PROVE  TInv'
<1>a. /\ SessionTypes' /\ ChannelTypes'
      /\ nchans' = nchans + 1 /\ nchans' \in Chans
      /\ channels' = Append(channels, nchans') /\ channels \in Seq(0..nchans')
      /\ Len(channels) \in Nat /\ Len(channels') = Len(channels) + 1
      /\ cur' \in [Writers -> 0..nchans']
      /\ \A c \in 1..nchans' : owner'[c] \in Writers
      /\ cpc = "idle"
  BY CreateChannelT, WriterFacts, SessionAssumption DEF ReplaceChannel
<1>b. cur' = [cur EXCEPT ![w] = nchans'] /\ nchans' # 0 /\ sources' = sources
  BY <1>a DEF ReplaceChannel, CreateChannel, Chans
<1>1. SessionTypes'
  BY <1>a
<1>2. ChannelTypes'
  BY <1>a
<1>3. WriterTypes'
  <2>1. wpc' \in [Writers -> WriterSteps]
    BY DEF TInv, TypeOK, WriterTypes, ReplaceChannel, WriterSteps
  <2>2. \A v \in Writers :
          wpc'[v] \notin {"new", "idle", "source", "closed"} => sidv'[v] > 0
    BY WriterFacts DEF TInv, TypeOK, WriterTypes, ReplaceChannel
  <2> QED BY <1>a, <1>b, <2>1, <2>2 DEF TInv, TypeOK, WriterTypes, ReplaceChannel
<1>4. ConsumerTypes'
  BY <1>a DEF TInv, TypeOK, ConsumerTypes, ReplaceChannel, consumerVars
<1>5. Places'
  <2>1. \A v \in Writers : wpc'[v] # "new" => cur'[v] # 0
    BY <1>b DEF TInv, TypeOK, WriterTypes, Places, ReplaceChannel
  <2>2. \A v \in Writers :
          wpc'[v] \notin {"new", "idle", "closed"} => committed'[v] < MaxEvents
    BY WriterFacts DEF TInv, TypeOK, WriterTypes, ReplaceChannel
  <2>3. cpc' = "idle"
    BY <1>a DEF ReplaceChannel, consumerVars
  <2> QED BY <1>a, <2>1, <2>2, <2>3 DEF Places
<1> QED BY <1>1, <1>2, <1>3, <1>4, <1>5 DEF TInv, TypeOK

\* The channel that was replaced is dropped.
LEMMA ReleaseChannelT ==
  ASSUME TInv, NEW w \in Writers, ReleaseChannel(w)
  PROVE  TInv'
<1>1. SessionTypes'
  BY DEF TInv, TypeOK, SessionTypes, sessionVars, ReleaseChannel
<1>2. ChannelTypes'
  BY DEF TInv, TypeOK, ChannelTypes, ReleaseChannel
<1>3. WriterTypes'
  BY DEF TInv, TypeOK, WriterTypes, WriterSteps, sessionVars, ReleaseChannel
<1>4. ConsumerTypes'
  BY DEF TInv, TypeOK, ConsumerTypes, sessionVars, consumerVars, ReleaseChannel
<1>5. Places'
  BY DEF TInv, Places, sessionVars, consumerVars, ReleaseChannel
<1> QED BY <1>1, <1>2, <1>3, <1>4, <1>5 DEF TInv, TypeOK

\* The writer keeps its channel.
LEMMA ReplaceFailsT ==
  ASSUME TInv, NEW w \in Writers, ReplaceFails(w)
  PROVE  TInv'
<1>1. SessionTypes'
  BY DEF TInv, TypeOK, SessionTypes, sessionVars, channelVars, ReplaceFails
<1>2. ChannelTypes'
  BY DEF TInv, TypeOK, ChannelTypes, channelVars, ReplaceFails
<1>3. WriterTypes'
  BY DEF TInv, TypeOK, WriterTypes, WriterSteps, sessionVars, channelVars,
         ReplaceFails
<1>4. ConsumerTypes'
  BY DEF TInv, TypeOK, ConsumerTypes, sessionVars, consumerVars, ReplaceFails
<1>5. Places'
  BY DEF TInv, Places, sessionVars, channelVars, consumerVars, ReplaceFails
<1> QED BY <1>1, <1>2, <1>3, <1>4, <1>5 DEF TInv, TypeOK

\* The thread may log again.
LEMMA DropEventT ==
  ASSUME TInv, NEW w \in Writers, DropEvent(w)
  PROVE  TInv'
<1>1. SessionTypes'
  BY DEF TInv, TypeOK, SessionTypes, sessionVars, channelVars, DropEvent
<1>2. ChannelTypes'
  BY DEF TInv, TypeOK, ChannelTypes, channelVars, DropEvent
<1>3. WriterTypes'
  <2>1. wpc' \in [Writers -> WriterSteps]
    BY DEF TInv, TypeOK, WriterTypes, DropEvent, EndLog, WriterSteps
  <2>2. /\ sidv' \in [Writers -> 0..Len(sources)]
        /\ propCopy' \in [Writers -> 0..MaxRenames]
    BY WriterFacts DEF TInv, TypeOK, WriterTypes, DropEvent, EndLog
  <2>3. \A v \in Writers :
          wpc'[v] \notin {"new", "idle", "source", "closed"} => sidv'[v] > 0
    BY DEF TInv, TypeOK, WriterTypes, DropEvent, EndLog
  <2>4. committed' \in [Writers -> 0..MaxEvents]
    <3>1. committed[w] + 1 \in 0..MaxEvents
      BY WriterFacts DEF DropEvent
    <3> QED BY <3>1 DEF TInv, TypeOK, WriterTypes, DropEvent
  <2> QED BY <2>1, <2>2, <2>3, <2>4
         DEF TInv, TypeOK, WriterTypes, DropEvent, sessionVars, channelVars
<1>4. ConsumerTypes'
  BY DEF TInv, TypeOK, ConsumerTypes, sessionVars, consumerVars, DropEvent
<1>5. Places'
  BY DEF TInv, Places, EndLog, sessionVars, channelVars, consumerVars, DropEvent
<1> QED BY <1>1, <1>2, <1>3, <1>4, <1>5 DEF TInv, TypeOK

\* The consumer sees no more than was committed.
LEMMA EventArrivesT ==
  ASSUME TInv, NEW c \in Chans, EventArrives(c)
  PROVE  TInv'
<1>a. visible' \in [Chans -> Nat] /\ \A d \in Chans : visible'[d] >= visible[d]
  BY DEF TInv, TypeOK, ChannelTypes, EventArrives
<1>1. SessionTypes'
  BY DEF TInv, TypeOK, SessionTypes, sessionVars, EventArrives
<1>2. ChannelTypes'
  <2>1. \A d \in Chans : visible'[d] <= Len(unread[d])
    BY QueueTypes DEF TInv, TypeOK, ChannelTypes, EventArrives
  <2> QED BY <1>a, <2>1, QueueTypes DEF TInv, TypeOK, ChannelTypes, EventArrives
<1>3. WriterTypes'
  BY DEF TInv, TypeOK, WriterTypes, sessionVars, writerVars, EventArrives
<1>4. ConsumerTypes'
  BY DEF TInv, TypeOK, ConsumerTypes, sessionVars, consumerVars, EventArrives
<1>5. Places'
  <2>1. ASSUME cpc = "write" PROVE Len(batch) <= visible'[channels[pos]]
    <3>1. Len(batch) \in Nat /\ Len(batch) <= visible[channels[pos]]
      BY <2>1 DEF TInv, TypeOK, ConsumerTypes, Places
    <3>2. channels[pos] \in Chans
      BY <2>1, PollFacts
    <3> QED BY <1>a, <3>1, <3>2, QueueTypes
  <2> QED BY <2>1
         DEF TInv, TypeOK, Places, EventArrives, sessionVars, writerVars, consumerVars
<1> QED BY <1>1, <1>2, <1>3, <1>4, <1>5 DEF TInv, TypeOK

\* Seeing that a channel is abandoned moves nothing.
LEMMA CloseArrivesT ==
  ASSUME TInv, NEW c \in Chans, CloseArrives(c)
  PROVE  TInv'
<1>1. SessionTypes'
  BY DEF TInv, TypeOK, SessionTypes, sessionVars, CloseArrives
<1>2. ChannelTypes'
  BY DEF TInv, TypeOK, ChannelTypes, CloseArrives
<1>3. WriterTypes'
  BY DEF TInv, TypeOK, WriterTypes, sessionVars, writerVars, CloseArrives
<1>4. ConsumerTypes'
  BY DEF TInv, TypeOK, ConsumerTypes, sessionVars, consumerVars, CloseArrives
<1>5. Places'
  BY DEF TInv, Places, sessionVars, writerVars, consumerVars, CloseArrives
<1> QED BY <1>1, <1>2, <1>3, <1>4, <1>5 DEF TInv, TypeOK

\* One more ClockSync, within the bound.
LEMMA SetClockSyncT ==
  ASSUME TInv, SetClockSync
  PROVE  TInv'
<1>1. SessionTypes'
  <2>1. clocks' \in 0..MaxClocks
    BY SessionAssumption DEF TInv, TypeOK, SessionTypes, SetClockSync
  <2> QED BY <2>1 DEF TInv, TypeOK, SessionTypes, SetClockSync, channelVars
<1>2. ChannelTypes'
  BY DEF TInv, TypeOK, ChannelTypes, channelVars, SetClockSync
<1>3. WriterTypes'
  BY DEF TInv, TypeOK, WriterTypes, channelVars, writerVars, SetClockSync
<1>4. ConsumerTypes'
  BY DEF TInv, TypeOK, ConsumerTypes, consumerVars, SetClockSync
<1>5. Places'
  BY DEF TInv, Places, channelVars, writerVars, consumerVars, SetClockSync
<1> QED BY <1>1, <1>2, <1>3, <1>4, <1>5 DEF TInv, TypeOK

\* Only metadata entries are written before the loop.
LEMMA ConsumeStartT ==
  ASSUME TInv, ConsumeStart
  PROVE  TInv'
<1>1. SessionTypes'
  <2>1. sourcesConsumed' \in 0..Len(sources)
    BY DEF TInv, TypeOK, SessionTypes, ConsumeStart
  <2>2. UNCHANGED <<channels, sources, clocks, nchans>> /\ consumeClockSync' = FALSE
    BY DEF ConsumeStart, channelVars
  <2> QED BY <2>1, <2>2 DEF TInv, TypeOK, SessionTypes
<1>2. ChannelTypes'
  BY DEF TInv, TypeOK, ChannelTypes, channelVars, ConsumeStart
<1>3. WriterTypes'
  BY DEF TInv, TypeOK, WriterTypes, channelVars, writerVars, ConsumeStart
<1>4. ConsumerTypes'
  <2>1. out' \in Seq(Entries)
    <3>1. /\ ClockEntries \in Seq(Entries) /\ out \in Seq(Entries)
          /\ SourceEntries(sourcesConsumed, Len(sources)) \in Seq(Entries)
      <4>1. Len(sources) \in 0..Len(sources) /\ sourcesConsumed \in 0..Len(sources)
        BY DEF TInv, TypeOK, SessionTypes
      <4> QED BY <4>1, MetadataTypes DEF TInv, TypeOK, ConsumerTypes
    <3>2. out \o ClockEntries \in Seq(Entries)
      BY <3>1, ConcatProperties
    <3> QED BY <3>1, <3>2, ConcatProperties DEF ConsumeStart
  <2>2. pos' \in 0..(Len(channels) + 1) /\ channels' = channels
    BY DEF TInv, TypeOK, SessionTypes, ConsumeStart
  <2> QED BY <2>1, <2>2 DEF TInv, TypeOK, ConsumerTypes, ConsumeStart
<1>5. Places'
  BY DEF TInv, Places, channelVars, writerVars, ConsumeStart
<1> QED BY <1>1, <1>2, <1>3, <1>4, <1>5 DEF TInv, TypeOK

\* The channel polled exists.
LEMMA PollClosedT ==
  ASSUME TInv, PollClosed
  PROVE  TInv'
<1>1. SessionTypes'
  BY DEF TInv, TypeOK, SessionTypes, sessionVars, channelVars, PollClosed
<1>2. ChannelTypes'
  BY DEF TInv, TypeOK, ChannelTypes, channelVars, PollClosed
<1>3. WriterTypes'
  BY DEF TInv, TypeOK, WriterTypes, sessionVars, channelVars, writerVars,
         PollClosed
<1>4. ConsumerTypes'
  <2>1. closeSeen[channels[pos]] \in BOOLEAN
    BY ListedIsChan DEF TInv, TypeOK, ChannelTypes, PollClosed, Polling
  <2> QED BY <2>1 DEF TInv, TypeOK, ConsumerTypes, PollClosed, abandoned, sessionVars
<1>5. Places'
  BY DEF TInv, Places, Polling, sessionVars, channelVars, writerVars, PollClosed
<1> QED BY <1>1, <1>2, <1>3, <1>4, <1>5 DEF TInv, TypeOK

\* Nothing but the place of consume changes.
LEMMA PollNullT ==
  ASSUME TInv, PollNull
  PROVE  TInv'
<1>1. SessionTypes'
  BY DEF TInv, TypeOK, SessionTypes, sessionVars, channelVars, PollNull
<1>2. ChannelTypes'
  BY DEF TInv, TypeOK, ChannelTypes, channelVars, PollNull
<1>3. WriterTypes'
  BY DEF TInv, TypeOK, WriterTypes, sessionVars, channelVars, writerVars, PollNull
<1>4. ConsumerTypes'
  BY DEF TInv, TypeOK, ConsumerTypes, sessionVars, PollNull
<1>5. Places'
  BY DEF TInv, Places, channelVars, writerVars, PollNull
<1> QED BY <1>1, <1>2, <1>3, <1>4, <1>5 DEF TInv, TypeOK

\* What is read is what is visible.
LEMMA PollReadT ==
  ASSUME TInv, PollRead
  PROVE  TInv'
<1>a. /\ batch' \in Seq(Events) /\ Len(batch') = visible[channels[pos]]
      /\ channels[pos] \in Chans
  <2>1. channels[pos] \in Chans
    BY PollFacts DEF PollRead
  <2> QED BY <2>1, QueueTypes, SubSeqProperties DEF PollRead
<1>1. SessionTypes'
  BY DEF TInv, TypeOK, SessionTypes, sessionVars, channelVars, PollRead
<1>2. ChannelTypes'
  BY DEF TInv, TypeOK, ChannelTypes, channelVars, PollRead
<1>3. WriterTypes'
  BY DEF TInv, TypeOK, WriterTypes, sessionVars, channelVars, writerVars, PollRead
<1>4. ConsumerTypes'
  BY <1>a DEF TInv, TypeOK, ConsumerTypes, PollRead, sessionVars
<1>5. Places'
  <2>1. Len(batch') <= visible[channels[pos]]
    BY <1>a, QueueTypes
  <2>2. UNCHANGED <<nchans, owner, wpc, cur, committed, pos, channels, visible>>
    BY DEF PollRead, sessionVars, channelVars, writerVars
  <2>3. cpc = "read" /\ cpc' = "write"
    BY DEF PollRead
  <2> QED BY <2>1, <2>2, <2>3 DEF TInv, Places
<1> QED BY <1>1, <1>2, <1>3, <1>4, <1>5 DEF TInv, TypeOK

\* What was read is released, and no more.
LEMMA PollWriteT ==
  ASSUME TInv, PollWrite
  PROVE  TInv'
<1>a. /\ pos \in 1..Len(channels) /\ channels[pos] \in Chans
      /\ channels[pos] \in 1..nchans
      /\ channels \in Seq(0..nchans) /\ Len(channels) \in Nat
      /\ owner[channels[pos]] \in Writers
  BY PollFacts DEF PollWrite
<1>b. batch \in Seq(Events) /\ Len(batch) \in Nat /\ Len(batch) <= visible[channels[pos]]
  BY DEF TInv, TypeOK, ConsumerTypes, Places, PollWrite
<1>c. /\ channels' \in Seq(0..nchans) /\ Len(channels') = Len(channels)
  <2>1. \E v \in 0..nchans : channels' = [channels EXCEPT ![pos] = v]
    <3>1. 0 \in 0..nchans /\ channels[pos] \in 0..nchans
      <4>1. nchans \in Nat
        BY SessionAssumption DEF TInv, TypeOK, ChannelTypes
      <4> QED BY <1>a, <4>1
    <3> QED BY <3>1 DEF PollWrite, resetIfClosed
  <2> QED BY <1>a, <2>1, ExceptSeq
<1>1. SessionTypes'
  BY <1>c DEF TInv, TypeOK, SessionTypes, PollWrite
<1>2. ChannelTypes'
  <2> DEFINE c == channels[pos]
  <2>1. /\ SubSeq(unread[c], Len(batch) + 1, Len(unread[c])) \in Seq(Events)
        /\ Len(SubSeq(unread[c], Len(batch) + 1, Len(unread[c]))) = Len(unread[c]) - Len(batch)
        /\ visible[c] - Len(batch) \in Nat
    BY <1>a, <1>b, QueueTypes, SubSeqProperties
  <2>2. /\ unread' \in [Chans -> Seq(Events)] /\ visible' \in [Chans -> Nat]
    BY <1>a, <2>1 DEF TInv, TypeOK, ChannelTypes, PollWrite
  <2>3. ASSUME NEW d \in Chans
        PROVE  visible'[d] <= Len(unread'[d]) /\ Len(unread'[d]) <= QueueEvents
    <3>1. CASE d = c
      <4>1. Len(unread'[d]) = Len(unread[c]) - Len(batch) /\ visible'[d] = visible[c] - Len(batch)
        BY <1>a, <2>1, <3>1 DEF TInv, TypeOK, ChannelTypes, PollWrite
      <4> QED BY <1>b, <3>1, <4>1, QueueTypes
    <3>2. CASE d # c
      <4>1. unread'[d] = unread[d] /\ visible'[d] = visible[d]
        BY <3>2 DEF TInv, TypeOK, ChannelTypes, PollWrite
      <4> QED BY <4>1, QueueTypes
    <3> QED BY <3>1, <3>2
  <2> QED BY <2>2, <2>3 DEF TInv, TypeOK, ChannelTypes, PollWrite
<1>3. WriterTypes'
  BY DEF TInv, TypeOK, WriterTypes, writerVars, PollWrite
<1>4. ConsumerTypes'
  <2>1. out' \in Seq(Entries)
    <3>1. Batch(channels[pos], batch) \in Entries
      BY <1>a, <1>b, BatchType
    <3> QED BY <3>1, AppendProperties DEF TInv, TypeOK, ConsumerTypes, PollWrite
  <2>2. delivered' \in [Writers -> Seq(1..MaxEvents)]
    BY <1>a, <1>b, DeliverType DEF PollWrite
  <2>3. pos' \in 0..(Len(channels') + 1)
    BY <1>a, <1>c DEF PollWrite
  <2>4. batch' \in Seq(Events)
    BY DEF PollWrite
  <2> QED BY <2>1, <2>2, <2>3, <2>4 DEF TInv, TypeOK, ConsumerTypes, PollWrite
<1>5. Places'
  <2>1. pos' > 0 /\ cpc' = "poll"
    BY <1>a DEF PollWrite
  <2>2. UNCHANGED <<nchans, owner, wpc, cur, committed>>
    BY DEF PollWrite, writerVars
  <2> QED BY <2>1, <2>2 DEF TInv, Places
<1> QED BY <1>1, <1>2, <1>3, <1>4, <1>5 DEF TInv, TypeOK

\* Erasing keeps channel numbers.
LEMMA ConsumeEndT ==
  ASSUME TInv, ConsumeEnd
  PROVE  TInv'
<1>1. SessionTypes'
  <2>1. PICK n \in 0..Len(channels) : \E at \in [1..n -> DOMAIN channels] :
          channels' = [i \in 1..n |-> channels[at[i]]]
    BY DEF ConsumeEnd, RemovedErased
  <2>2. PICK at \in [1..n -> DOMAIN channels] : channels' = [i \in 1..n |-> channels[at[i]]]
    BY <2>1
  <2>3. n \in Nat
    OBVIOUS
  <2>4. ASSUME NEW i \in 1..n PROVE channels[at[i]] \in 0..nchans
    <3>1. at[i] \in DOMAIN channels
      OBVIOUS
    <3> QED BY <3>1, ListedIsChan
  <2>5. channels' \in Seq(0..nchans)
    BY <2>2, <2>3, <2>4
  <2> QED BY <2>5 DEF TInv, TypeOK, SessionTypes, ConsumeEnd, channelVars
<1>2. ChannelTypes'
  BY DEF TInv, TypeOK, ChannelTypes, channelVars, ConsumeEnd
<1>3. WriterTypes'
  BY DEF TInv, TypeOK, WriterTypes, channelVars, writerVars, ConsumeEnd
<1>4. ConsumerTypes'
  BY DEF TInv, TypeOK, ConsumerTypes, ConsumeEnd
<1>5. Places'
  BY DEF TInv, Places, channelVars, writerVars, ConsumeEnd
<1> QED BY <1>1, <1>2, <1>3, <1>4, <1>5 DEF TInv, TypeOK

\* consume gives the mutex back.
LEMMA ConsumeStartThrowsT ==
  ASSUME TInv, ConsumeStartThrows
  PROVE  TInv'
<1>1. SessionTypes'
  BY DEF TInv, TypeOK, SessionTypes, channelVars, ConsumeStartThrows
<1>2. ChannelTypes'
  BY DEF TInv, TypeOK, ChannelTypes, channelVars, ConsumeStartThrows
<1>3. WriterTypes'
  BY DEF TInv, TypeOK, WriterTypes, channelVars, writerVars, ConsumeStartThrows
<1>4. ConsumerTypes'
  <2>1. out' \in Seq(Entries)
    <3>1. ClockEntries \in Seq(Entries) /\ out \in Seq(Entries)
      BY MetadataTypes DEF TInv, TypeOK, ConsumerTypes
    <3> QED BY <3>1, ConcatProperties DEF ConsumeStartThrows
  <2>2. pos' \in 0..(Len(channels) + 1) /\ channels' = channels /\ batch' \in Seq(Events)
    BY DEF TInv, TypeOK, SessionTypes, ConsumeStartThrows, Throw
  <2>3. failures' \in 0..MaxFailures
    BY SessionAssumption DEF TInv, TypeOK, ConsumerTypes, ConsumeStartThrows, Throw
  <2> QED BY <2>1, <2>2, <2>3 DEF TInv, TypeOK, ConsumerTypes, ConsumeStartThrows, Throw
<1>5. Places'
  BY DEF TInv, Places, Throw, channelVars, writerVars, ConsumeStartThrows
<1> QED BY <1>1, <1>2, <1>3, <1>4, <1>5 DEF TInv, TypeOK

\* consume gives the mutex back; a part of the batch was written.
LEMMA PollWriteThrowsT ==
  ASSUME TInv, PollWriteThrows
  PROVE  TInv'
<1>1. SessionTypes'
  BY DEF TInv, TypeOK, SessionTypes, sessionVars, channelVars, PollWriteThrows
<1>2. ChannelTypes'
  BY DEF TInv, TypeOK, ChannelTypes, channelVars, PollWriteThrows
<1>3. WriterTypes'
  BY DEF TInv, TypeOK, WriterTypes, sessionVars, channelVars, writerVars,
         PollWriteThrows
<1>4. ConsumerTypes'
  <2>1. channels[pos] \in Chans /\ owner[channels[pos]] \in Writers
    BY PollFacts DEF PollWriteThrows
  <2>2. batch \in Seq(Events)
    BY DEF TInv, TypeOK, ConsumerTypes
  <2>3. out' \in Seq(Entries) /\ delivered' \in [Writers -> Seq(1..MaxEvents)]
    <3>1. CASE UNCHANGED <<out, delivered>>
      BY <3>1 DEF TInv, TypeOK, ConsumerTypes
    <3>2. ASSUME NEW n \in 1..Len(batch),
                 out' = Append(out, Batch(channels[pos], SubSeq(batch, 1, n - 1))),
                 Deliver(channels[pos], SubSeq(batch, 1, n - 1))
          PROVE  out' \in Seq(Entries) /\ delivered' \in [Writers -> Seq(1..MaxEvents)]
      <4>1. SubSeq(batch, 1, n - 1) \in Seq(Events)
        BY <2>2, SubSeqProperties
      <4>2. Batch(channels[pos], SubSeq(batch, 1, n - 1)) \in Entries
        BY <2>1, <4>1, BatchType
      <4> QED BY <2>1, <3>2, <4>1, <4>2, DeliverType, AppendProperties
             DEF TInv, TypeOK, ConsumerTypes
    <3> QED BY <3>1, <3>2 DEF PollWriteThrows
  <2>4. pos' \in 0..(Len(channels) + 1) /\ channels' = channels /\ batch' \in Seq(Events)
    BY DEF TInv, TypeOK, SessionTypes, PollWriteThrows, Throw, sessionVars
  <2>5. failures' \in 0..MaxFailures
    BY SessionAssumption DEF TInv, TypeOK, ConsumerTypes, PollWriteThrows, Throw
  <2> QED BY <2>3, <2>4, <2>5 DEF TInv, TypeOK, ConsumerTypes, PollWriteThrows, Throw
<1>5. Places'
  BY DEF TInv, Places, Throw, channelVars, writerVars, PollWriteThrows
<1> QED BY <1>1, <1>2, <1>3, <1>4, <1>5 DEF TInv, TypeOK

\* A new output begins with metadata entries.
LEMMA RotateT ==
  ASSUME TInv, Rotate
  PROVE  TInv'
<1>1. SessionTypes'
  BY DEF TInv, TypeOK, SessionTypes, sessionVars, channelVars, Rotate
<1>2. ChannelTypes'
  BY DEF TInv, TypeOK, ChannelTypes, channelVars, Rotate
<1>3. WriterTypes'
  BY DEF TInv, TypeOK, WriterTypes, sessionVars, channelVars, writerVars, Rotate
<1>4. ConsumerTypes'
  <2>1. out' \in Seq(Entries)
    BY MetadataTypes DEF TInv, TypeOK, SessionTypes, Rotate
  <2>2. rotations' \in 0..MaxRotations
    BY SessionAssumption DEF TInv, TypeOK, ConsumerTypes, Rotate
  <2> QED BY <2>1, <2>2 DEF TInv, TypeOK, ConsumerTypes, Rotate, sessionVars
<1>5. Places'
  BY DEF TInv, Places, sessionVars, channelVars, writerVars, Rotate
<1> QED BY <1>1, <1>2, <1>3, <1>4, <1>5 DEF TInv, TypeOK

\* Every step keeps the types and places.
LEMMA NextT ==
  ASSUME TInv, [Next]_vars
  PROVE  TInv'
<1>1. CASE \E w \in Writers : Writer(w)
  BY <1>1, OpenWriterT, CloseWriterT, SetNameT, StartLogT, AddEventSourceT, StoreSidT,
     CommitT, CopyPropT, ReplaceChannelT, ReleaseChannelT, ReplaceFailsT, DropEventT
     DEF Writer
<1>2. CASE Memory
  BY <1>2, EventArrivesT, CloseArrivesT DEF Memory
<1>3. CASE SetClockSync \/ Rotate \/ ConsumeStart \/ ConsumeEnd
  BY <1>3, SetClockSyncT, RotateT, ConsumeStartT, ConsumeEndT
<1>4. CASE Poll
  BY <1>4, PollClosedT, PollNullT, PollReadT, PollWriteT DEF Poll
<1>5. CASE ConsumeStartThrows \/ PollWriteThrows
  BY <1>5, ConsumeStartThrowsT, PollWriteThrowsT
<1>6. CASE UNCHANGED vars
  BY <1>6 DEF TInv, TypeOK, SessionTypes, ChannelTypes, WriterTypes, ConsumerTypes,
              Places, vars, sessionVars, channelVars, writerVars, consumerVars
<1> QED BY <1>1, <1>2, <1>3, <1>4, <1>5, <1>6 DEF Next

\* TInv is an invariant.
LEMMA SessionInvT == Spec => []TInv
<1> QED BY InitT, NextT, PTL DEF Spec

\* TypeOK holds for any number of writers, call sites, channels and events: the
\* ids of a thread are those of sources, a thread's channel exists, and the
\* consumer sees no more of a queue than was committed.
THEOREM SessionTypeCorrect == Spec => []TypeOK
<1>1. TInv => TypeOK
  BY DEF TInv
<1> QED BY <1>1, SessionInvT, PTL

-----------------------------------------------------------------------------
(***************************************************************************)
(* Every event written is preceded by its source.                          *)
(*                                                                         *)
(* A thread that has a source id got it from addEventSource or from the    *)
(* call site's _binlog_sid, so an event in a queue refers to a source that *)
(* was added.  consume writes all sources that were added before it reads  *)
(* a queue, and as it holds the mutex no source is added until it is done. *)
(***************************************************************************)

\* The event refers to a source that was added, by the event's call site.
KnownSource(e) == e.source \in 1..Len(sources) /\ sources[e.source] = e.site

\* Ids stored by call sites, and held by threads, are those of their sources.
SidsKnown == \A s \in Sites : sid[s] > 0 => sources[sid[s]] = s
SidvsKnown == \A w \in Writers : sidv[w] > 0 => sources[sidv[w]] = site[w]

\* So are those of the events in the queues, and in the batch being read.
UnreadKnown ==
  \A c \in Chans : \A k \in DOMAIN unread[c] : KnownSource(unread[c][k])
BatchKnown == \A k \in DOMAIN batch : KnownSource(batch[k])

\* The current output has the consumed sources; consume consumes all of them.
ConsumedWritten ==
  \A i \in 1..sourcesConsumed : \E j \in DOMAIN out : out[j] = EventSource(i)
AllConsumed == cpc # "idle" => sourcesConsumed = Len(sources)

IdsKnown == SidsKnown /\ SidvsKnown /\ UnreadKnown /\ BatchKnown

SourceInv == IdsKnown /\ ConsumedWritten /\ AllConsumed /\ SourcePrecedesEvent

-----------------------------------------------------------------------------
(* Source ids *)

\* The types of what the lemmas below are about.
LEMMA SourceTypes ==
  ASSUME TInv
  PROVE  /\ sources \in Seq(Sites) /\ Len(sources) \in Nat
         /\ sourcesConsumed \in 0..Len(sources)
         /\ \A s \in Sites : sid[s] \in 0..Len(sources)
         /\ \A w \in Writers : sidv[w] \in 0..Len(sources) /\ site[w] \in Sites
         /\ out \in Seq(Entries) /\ batch \in Seq(Events)
BY DEF TInv, TypeOK, SessionTypes, WriterTypes, ConsumerTypes

\* addEventSource keeps the sources there were.
LEMMA SourcesGrow ==
  ASSUME TInv, NEW w \in Writers, AddEventSource(w)
  PROVE  /\ Len(sources') = Len(sources) + 1 /\ nextSourceId = Len(sources) + 1
         /\ \A i \in 1..Len(sources) : sources'[i] = sources[i]
         /\ sources'[Len(sources) + 1] = site[w]
<1>1. sources' = Append(sources, site[w]) /\ nextSourceId = Len(sources) + 1
  BY DEF AddEventSource, nextSourceId
<1> QED BY <1>1, SourceTypes, AppendProperties

\* Ids known stay known while sources are only added.
LEMMA KnownStays ==
  ASSUME TInv, Len(sources') >= Len(sources), Len(sources') \in Nat,
         \A i \in 1..Len(sources) : sources'[i] = sources[i],
         NEW e, KnownSource(e)
  PROVE  KnownSource(e)'
BY SourceTypes DEF KnownSource

\* The load of _binlog_sid.
LEMMA StartLogIds ==
  ASSUME TInv, IdsKnown, NEW w \in Writers, NEW s \in Sites, StartLog(w, s)
  PROVE  IdsKnown'
<1>1. UNCHANGED <<sources, sid, unread, batch>>
  BY DEF StartLog, sessionVars, channelVars, consumerVars
<1>2. SidvsKnown'
  BY <1>1 DEF IdsKnown, SidsKnown, SidvsKnown, StartLog, TInv, TypeOK, WriterTypes
<1> QED BY <1>1, <1>2 DEF IdsKnown, SidsKnown, UnreadKnown, BatchKnown, KnownSource

\* addEventSource.
LEMMA AddEventSourceIds ==
  ASSUME TInv, IdsKnown, NEW w \in Writers, AddEventSource(w)
  PROVE  IdsKnown'
<1>1. UNCHANGED <<sid, site, unread, batch>>
  BY DEF AddEventSource, consumerVars
<1>2. SidsKnown'
  BY SMTT(30), <1>1, SourceTypes, SourcesGrow DEF IdsKnown, SidsKnown
<1>3. SidvsKnown'
  <2> SUFFICES ASSUME NEW v \in Writers, sidv'[v] > 0
               PROVE  sources'[sidv'[v]] = site[v]
    BY <1>1 DEF SidvsKnown
  <2>1. CASE v = w
    <3>1. sidv'[v] = Len(sources) + 1
      BY <2>1, SourcesGrow DEF AddEventSource, TInv, TypeOK, WriterTypes
    <3> QED BY <2>1, <3>1, SourcesGrow
  <2>2. CASE v # w
    <3>1. sidv'[v] = sidv[v] /\ sidv[v] \in 1..Len(sources)
      BY <2>2, SourceTypes DEF AddEventSource, TInv, TypeOK, WriterTypes
    <3>2. sources[sidv[v]] = site[v]
      BY <3>1, SourceTypes DEF IdsKnown, SidvsKnown
    <3> QED BY <3>1, <3>2, SourcesGrow
  <2> QED BY <2>1, <2>2
<1>4. Len(sources') >= Len(sources) /\ Len(sources') \in Nat
  BY SourceTypes, SourcesGrow
<1>5. UnreadKnown' /\ BatchKnown'
  BY <1>1, <1>4, SourcesGrow, KnownStays DEF IdsKnown, UnreadKnown, BatchKnown
<1> QED BY <1>2, <1>3, <1>5 DEF IdsKnown

\* The store to _binlog_sid.
LEMMA StoreSidIds ==
  ASSUME TInv, IdsKnown, NEW w \in Writers, StoreSid(w)
  PROVE  IdsKnown'
<1>1. UNCHANGED <<sources, site, sidv, unread, batch>>
  BY DEF StoreSid, sessionVars, channelVars, consumerVars
<1>2. SidsKnown'
  BY <1>1 DEF IdsKnown, SidsKnown, SidvsKnown, StoreSid, TInv, TypeOK, WriterTypes
<1> QED BY <1>1, <1>2 DEF IdsKnown, SidvsKnown, UnreadKnown, BatchKnown, KnownSource

\* The end of the macro.
LEMMA EndLogIds ==
  ASSUME TInv, IdsKnown, NEW w \in Writers, EndLog(w), UNCHANGED <<sources, site>>
  PROVE  SidvsKnown'
BY DEF IdsKnown, SidvsKnown, EndLog, TInv, TypeOK, WriterTypes

\* addEvent: the event has the thread's source id and call site.
LEMMA CommitIds ==
  ASSUME TInv, IdsKnown, NEW w \in Writers, Commit(w)
  PROVE  IdsKnown'
<1> DEFINE c == cur[w]
           e == [num |-> committed[w] + 1, source |-> sidv[w],
                 site |-> site[w], named |-> renames[w]]
<1>1. UNCHANGED <<sources, site, sid, batch>> /\ EndLog(w)
  BY DEF Commit, sessionVars, consumerVars
<1>2. KnownSource(e)
  <2>1. sidv[w] > 0 /\ sidv[w] \in 0..Len(sources) /\ Len(sources) \in Nat
    BY WriterFacts DEF Commit
  <2>2. sources[sidv[w]] = site[w]
    BY <2>1 DEF IdsKnown, SidvsKnown
  <2> QED BY <2>1, <2>2 DEF KnownSource
<1>3. c \in Chans /\ unread' = [unread EXCEPT ![c] = Append(unread[c], e)]
  BY WriterFacts DEF Commit
<1> HIDE DEF e
<1>4. UnreadKnown'
  <2> SUFFICES ASSUME NEW d \in Chans, NEW k \in DOMAIN unread'[d]
               PROVE  KnownSource(unread'[d][k])
    BY <1>1 DEF UnreadKnown, KnownSource
  <2>1. unread[d] \in Seq(Events)
    BY QueueTypes
  <2>2. CASE d = c
    <3>1. unread'[d] = Append(unread[d], e)
      BY <1>3, <2>2 DEF TInv, TypeOK, ChannelTypes
    <3>2. \/ k \in DOMAIN unread[d] /\ unread'[d][k] = unread[d][k]
          \/ unread'[d][k] = e
      BY <2>1, <3>1
    <3> QED BY <1>2, <3>2 DEF IdsKnown, UnreadKnown
  <2>3. CASE d # c
    <3>1. unread'[d] = unread[d]
      BY <1>3, <2>3 DEF TInv, TypeOK, ChannelTypes
    <3> QED BY <3>1 DEF IdsKnown, UnreadKnown
  <2> QED BY <2>2, <2>3
<1>5. SidvsKnown'
  BY <1>1, EndLogIds
<1> QED BY <1>1, <1>4, <1>5 DEF IdsKnown, SidsKnown, BatchKnown, KnownSource

\* beginRead: the events read are those of the queue.
LEMMA PollReadIds ==
  ASSUME TInv, IdsKnown, PollRead
  PROVE  IdsKnown'
<1> DEFINE c == channels[pos]
<1>1. c \in Chans /\ batch' = SubSeq(unread[c], 1, visible[c])
  BY PollFacts DEF PollRead
<1>2. UNCHANGED <<sources, sid, site, sidv, unread>>
  BY DEF PollRead, sessionVars, channelVars, writerVars
<1>3. \A k \in DOMAIN batch' : k \in DOMAIN unread[c] /\ batch'[k] = unread[c][k]
  BY SMTT(30), <1>1, QueueTypes, SubSeqProperties
<1>4. BatchKnown'
  <2> SUFFICES ASSUME NEW k \in DOMAIN batch'
               PROVE  KnownSource(batch'[k])
    BY <1>2 DEF BatchKnown, KnownSource
  <2>1. KnownSource(unread[c][k])
    BY <1>1, <1>3 DEF IdsKnown, UnreadKnown
  <2> QED BY <1>3, <2>1
<1> QED BY <1>2, <1>4 DEF IdsKnown, SidsKnown, SidvsKnown, UnreadKnown, KnownSource

\* endRead: the events left are those that were not read.
LEMMA PollWriteIds ==
  ASSUME TInv, IdsKnown, PollWrite
  PROVE  IdsKnown'
<1> DEFINE c == channels[pos]
<1>1. /\ c \in Chans /\ batch' = <<>>
      /\ unread' = [unread EXCEPT ![c] = SubSeq(unread[c], Len(batch) + 1, Len(unread[c]))]
  BY PollFacts DEF PollWrite
<1>2. UNCHANGED <<sources, sid, site, sidv>>
  BY DEF PollWrite, writerVars
<1>3. UnreadKnown'
  <2> SUFFICES ASSUME NEW d \in Chans, NEW k \in DOMAIN unread'[d]
               PROVE  KnownSource(unread'[d][k])
    BY <1>2 DEF UnreadKnown, KnownSource
  <2>1. CASE d = c
    <3>1. Len(batch) \in Nat /\ unread[c] \in Seq(Events)
      BY <1>1, QueueTypes, SourceTypes
    <3>2. unread'[d] = SubSeq(unread[c], Len(batch) + 1, Len(unread[c]))
      BY <1>1, <2>1 DEF TInv, TypeOK, ChannelTypes
    <3>3. \E j \in DOMAIN unread[c] : unread'[d][k] = unread[c][j]
      <4>1. k \in 1..(Len(unread[c]) - Len(batch))
        BY <3>1, <3>2, SubSeqProperties
      <4>2. unread'[d][k] = unread[c][Len(batch) + k]
        BY <3>1, <3>2, <4>1, SubSeqProperties
      <4>3. Len(batch) + k \in DOMAIN unread[c]
        BY <3>1, <4>1
      <4> QED BY <4>2, <4>3
    <3> QED BY <1>1, <3>3 DEF IdsKnown, UnreadKnown
  <2>2. CASE d # c
    <3>1. unread'[d] = unread[d]
      BY <1>1, <2>2 DEF TInv, TypeOK, ChannelTypes
    <3> QED BY <3>1 DEF IdsKnown, UnreadKnown
  <2> QED BY <2>1, <2>2
<1>4. BatchKnown'
  BY <1>1 DEF BatchKnown
<1> QED BY <1>2, <1>3, <1>4 DEF IdsKnown, SidsKnown, SidvsKnown

-----------------------------------------------------------------------------
(* The output *)

\* All but the batches.
Metadata(entries) == \A k \in DOMAIN entries : entries[k].kind # "batch"

\* What consume and reconsumeMetadata write before any event is metadata.
LEMMA MetadataEntries ==
  ASSUME TInv
  PROVE  /\ Metadata(ClockEntries) /\ Metadata(<<ClockSync(clocks)>>)
         /\ \A to \in 0..Len(sources) : \A from \in 0..to :
              /\ Metadata(SourceEntries(from, to))
              /\ Len(SourceEntries(from, to)) = to - from
              /\ \A i \in 1..(to - from) : SourceEntries(from, to)[i] = EventSource(from + i)
<1>1. Metadata(ClockEntries) /\ Metadata(<<ClockSync(clocks)>>)
  BY DEF Metadata, ClockEntries, ClockSync
<1>2. ASSUME NEW to \in 0..Len(sources), NEW from \in 0..to
      PROVE  /\ Metadata(SourceEntries(from, to))
             /\ Len(SourceEntries(from, to)) = to - from
             /\ \A i \in 1..(to - from) : SourceEntries(from, to)[i] = EventSource(from + i)
  <2>1. to - from \in Nat
    BY SourceTypes
  <2>2. SourceEntries(from, to) = [i \in 1..(to - from) |-> EventSource(from + i)]
    BY DEF SourceEntries
  <2>3. \A i \in 1..(to - from) : EventSource(from + i).kind # "batch"
    BY DEF EventSource
  <2> QED BY <2>1, <2>2, <2>3 DEF Metadata
<1> QED BY <1>1, <1>2

\* Appending metadata keeps the order of sources and events.
LEMMA MetadataAppended ==
  ASSUME TInv, SourcePrecedesEvent, NEW t \in Seq(Entries), Metadata(t),
         out' = out \o t
  PROVE  SourcePrecedesEvent'
<1> SUFFICES ASSUME NEW i \in DOMAIN out', out'[i].kind = "batch",
                    NEW k \in DOMAIN out'[i].events
             PROVE  \E j \in 1..(i - 1) :
                      out'[j] = [kind |-> "source", id |-> out'[i].events[k].source,
                                 site |-> out'[i].events[k].site]
  BY DEF SourcePrecedesEvent
<1>1. /\ out \in Seq(Entries) /\ Len(out) \in Nat /\ Len(t) \in Nat
      /\ Len(out') = Len(out) + Len(t) /\ out' \in Seq(Entries)
      /\ \A j \in 1..(Len(out) + Len(t)) :
           out'[j] = IF j <= Len(out) THEN out[j] ELSE t[j - Len(out)]
  BY SourceTypes, ConcatProperties
<1>2. i \in 1..(Len(out) + Len(t))
  BY <1>1
<1>3. i <= Len(out)
  <2>1. ASSUME i > Len(out) PROVE FALSE
    <3>1. out'[i] = t[i - Len(out)] /\ i - Len(out) \in 1..Len(t)
      BY <1>1, <1>2, <2>1
    <3> QED BY <3>1 DEF Metadata
  <2> QED BY <1>1, <1>2, <2>1
<1>4. out'[i] = out[i] /\ i \in DOMAIN out
  BY <1>1, <1>2, <1>3
<1>5. PICK j \in 1..(i - 1) :
        out[j] = [kind |-> "source", id |-> out[i].events[k].source,
                  site |-> out[i].events[k].site]
  BY <1>4 DEF SourcePrecedesEvent
<1>6. out'[j] = out[j]
  BY <1>1, <1>2, <1>3
<1> QED BY <1>4, <1>5, <1>6

\* A batch of known events is written after their sources.
LEMMA BatchAppended ==
  ASSUME TInv, SourceInv, cpc # "idle", NEW c, NEW events,
         Batch(c, events) \in Entries,
         \A k \in DOMAIN events : KnownSource(events[k]),
         out' = Append(out, Batch(c, events))
  PROVE  SourcePrecedesEvent'
<1> SUFFICES ASSUME NEW i \in DOMAIN out', out'[i].kind = "batch",
                    NEW k \in DOMAIN out'[i].events
             PROVE  \E j \in 1..(i - 1) :
                      out'[j] = [kind |-> "source", id |-> out'[i].events[k].source,
                                 site |-> out'[i].events[k].site]
  BY DEF SourcePrecedesEvent
<1>1. /\ out \in Seq(Entries) /\ Len(out) \in Nat
      /\ Len(out') = Len(out) + 1 /\ out' \in Seq(Entries)
      /\ \A j \in 1..Len(out) : out'[j] = out[j]
      /\ out'[Len(out) + 1] = Batch(c, events)
  BY SourceTypes, AppendProperties
<1>2. i \in 1..(Len(out) + 1)
  BY <1>1
<1>3. CASE i = Len(out) + 1
  <2>1. out'[i].events = events
    BY <1>1, <1>3 DEF Batch
  <2>2. KnownSource(events[k])
    BY <2>1
  <2>3. events[k].source \in 1..sourcesConsumed
    BY <2>2 DEF SourceInv, AllConsumed, KnownSource
  <2>4. PICK j \in DOMAIN out : out[j] = EventSource(events[k].source)
    BY <2>3 DEF SourceInv, ConsumedWritten
  <2>5. EventSource(events[k].source)
          = [kind |-> "source", id |-> events[k].source, site |-> events[k].site]
    BY <2>2 DEF EventSource, KnownSource
  <2>6. j \in 1..(i - 1) /\ out'[j] = out[j]
    BY <1>1, <1>3
  <2> QED BY <2>1, <2>4, <2>5, <2>6
<1>4. CASE i # Len(out) + 1
  <2>1. out'[i] = out[i] /\ i \in DOMAIN out
    BY <1>1, <1>2, <1>4
  <2>2. PICK j \in 1..(i - 1) :
          out[j] = [kind |-> "source", id |-> out[i].events[k].source,
                    site |-> out[i].events[k].site]
    BY <2>1 DEF SourceInv, SourcePrecedesEvent
  <2>3. out'[j] = out[j]
    BY <1>1, <1>2, <1>4
  <2> QED BY <2>1, <2>2, <2>3
<1> QED BY <1>3, <1>4

\* What was written stays, as long as entries are only appended.
LEMMA WrittenStays ==
  ASSUME TInv, ConsumedWritten, NEW t \in Seq(Entries), out' = out \o t,
         UNCHANGED <<sources, sourcesConsumed>>
  PROVE  ConsumedWritten'
<1>1. \A j \in DOMAIN out : j \in DOMAIN out' /\ out'[j] = out[j]
  BY SourceTypes, ConcatProperties
<1>2. \A i : EventSource(i)' = EventSource(i)
  BY DEF EventSource
<1> QED BY <1>1, <1>2 DEF ConsumedWritten

-----------------------------------------------------------------------------
(* The steps *)

\* consume writes the sources that were added since the last call.
LEMMA ConsumeStartSources ==
  ASSUME TInv, SourceInv, ConsumeStart
  PROVE  SourceInv'
<1> DEFINE meta == SourceEntries(sourcesConsumed, Len(sources))
<1>1. UNCHANGED <<sources, sid, site, sidv, unread, batch>>
  BY DEF ConsumeStart, channelVars, writerVars
<1>2. /\ sourcesConsumed \in 0..Len(sources) /\ Len(sources) \in Nat
      /\ Len(sources) \in 0..Len(sources)
      /\ sourcesConsumed' = Len(sources)
  BY SourceTypes DEF ConsumeStart
<1>3. /\ ClockEntries \in Seq(Entries) /\ meta \in Seq(Entries) /\ out \in Seq(Entries)
      /\ out \o ClockEntries \in Seq(Entries)
  BY <1>2, SourceTypes, MetadataTypes, ConcatProperties
<1>4. /\ Metadata(ClockEntries) /\ Metadata(meta)
      /\ Len(meta) = Len(sources) - sourcesConsumed
      /\ \A i \in 1..(Len(sources) - sourcesConsumed) :
           meta[i] = EventSource(sourcesConsumed + i)
  BY <1>2, MetadataEntries
<1> HIDE DEF meta
<1>5. ClockEntries \o meta \in Seq(Entries) /\ Metadata(ClockEntries \o meta)
  BY <1>3, <1>4, ConcatProperties DEF Metadata
<1>6. out' = out \o (ClockEntries \o meta)
  <2>1. out' = (out \o ClockEntries) \o meta
    BY DEF ConsumeStart, meta
  <2> QED BY <1>3, <2>1, ConcatAssociative
<1>7. SourcePrecedesEvent'
  BY <1>5, <1>6, MetadataAppended DEF SourceInv
<1>8. ConsumedWritten'
  <2> SUFFICES ASSUME NEW i \in 1..Len(sources)
               PROVE  \E j \in DOMAIN out' : out'[j] = EventSource(i)
    BY <1>1, <1>2 DEF ConsumedWritten, EventSource
  <2>1. CASE i <= sourcesConsumed
    <3>1. PICK j \in DOMAIN out : out[j] = EventSource(i)
      BY <1>2, <2>1 DEF SourceInv, ConsumedWritten
    <3>2. j \in DOMAIN out' /\ out'[j] = out[j]
      BY <1>3, <1>5, <1>6, ConcatProperties
    <3> QED BY <3>1, <3>2
  <2>2. CASE i > sourcesConsumed
    <3> DEFINE k == i - sourcesConsumed
               n == Len(out \o ClockEntries)
    <3>1. k \in 1..Len(meta) /\ meta[k] = EventSource(i)
      BY <1>2, <1>4, <2>2
    <3>2. n \in Nat /\ out' = (out \o ClockEntries) \o meta
      BY <1>3 DEF ConsumeStart, meta
    <3>3. n + k \in DOMAIN out' /\ out'[n + k] = meta[k]
      BY <1>3, <3>1, <3>2, ConcatProperties
    <3> QED BY <3>1, <3>3
  <2> QED BY <1>2, <2>1, <2>2
<1>9. AllConsumed'
  BY <1>1, <1>2 DEF AllConsumed
<1>10. IdsKnown'
  BY <1>1 DEF SourceInv, IdsKnown, SidsKnown, SidvsKnown, UnreadKnown, BatchKnown,
              KnownSource
<1> QED BY <1>7, <1>8, <1>9, <1>10 DEF SourceInv

\* A call of consume that throws while it writes metadata consumes no source.
LEMMA ConsumeStartThrowsSources ==
  ASSUME TInv, SourceInv, ConsumeStartThrows
  PROVE  SourceInv'
<1>1. UNCHANGED <<sources, sid, site, sidv, unread, sourcesConsumed>>
  BY DEF ConsumeStartThrows, channelVars, writerVars
<1>2. batch' = <<>> /\ cpc' = "idle"
  BY DEF ConsumeStartThrows, Throw
<1>3. PICK t \in Seq(Entries) : Metadata(t) /\ out' = out \o t
  <2>1. CASE out' = out
    <3>1. <<>> \in Seq(Entries) /\ Metadata(<<>>) /\ out = out \o <<>>
      BY SourceTypes, ConcatEmptySeq DEF Metadata
    <3> QED BY <2>1, <3>1
  <2>2. CASE out' = out \o ClockEntries
    BY <2>2, MetadataTypes, MetadataEntries
  <2> QED BY <2>1, <2>2 DEF ConsumeStartThrows
<1>4. SourcePrecedesEvent'
  BY <1>3, MetadataAppended DEF SourceInv
<1>5. ConsumedWritten'
  BY <1>1, <1>3, WrittenStays DEF SourceInv
<1>6. IdsKnown' /\ AllConsumed'
  BY <1>1, <1>2 DEF SourceInv, IdsKnown, SidsKnown, SidvsKnown, UnreadKnown,
                    BatchKnown, KnownSource, AllConsumed
<1> QED BY <1>4, <1>5, <1>6 DEF SourceInv

\* reconsumeMetadata starts an output with all sources consumed so far.
LEMMA RotateSources ==
  ASSUME TInv, SourceInv, Rotate
  PROVE  SourceInv'
<1> DEFINE meta == SourceEntries(0, sourcesConsumed)
<1>1. UNCHANGED <<sources, sid, site, sidv, unread, batch, sourcesConsumed, cpc>>
  BY DEF Rotate, sessionVars, channelVars, writerVars
<1>2. sourcesConsumed \in 0..Len(sources) /\ sourcesConsumed \in Nat /\ 0 \in 0..sourcesConsumed
  BY SourceTypes
<1>3. /\ meta \in Seq(Entries) /\ <<ClockSync(clocks)>> \in Seq(Entries)
      /\ Metadata(meta) /\ Metadata(<<ClockSync(clocks)>>)
      /\ Len(meta) = sourcesConsumed
      /\ \A i \in 1..sourcesConsumed : meta[i] = EventSource(i)
  <2>1. \A i \in 1..sourcesConsumed : 0 + i = i
    BY <1>2
  <2>2. meta \in Seq(Entries) /\ <<ClockSync(clocks)>> \in Seq(Entries)
    BY <1>2, MetadataTypes
  <2>3. /\ Metadata(meta) /\ Metadata(<<ClockSync(clocks)>>)
        /\ Len(meta) = sourcesConsumed - 0
        /\ \A i \in 1..(sourcesConsumed - 0) : meta[i] = EventSource(0 + i)
    BY <1>2, MetadataEntries
  <2>4. sourcesConsumed - 0 = sourcesConsumed
    BY <1>2
  <2> QED BY <2>1, <2>2, <2>3, <2>4
<1> HIDE DEF meta
<1>4. out' = <<ClockSync(clocks)>> \o meta
  BY DEF Rotate, meta
<1>5. Metadata(out') /\ \A i \in 1..sourcesConsumed : i + 1 \in DOMAIN out' /\ out'[i + 1] = meta[i]
  BY <1>2, <1>3, <1>4, ConcatProperties DEF Metadata
<1>6. SourcePrecedesEvent'
  BY <1>5 DEF SourcePrecedesEvent, Metadata
<1>7. ConsumedWritten'
  BY <1>1, <1>3, <1>5 DEF ConsumedWritten, EventSource
<1>8. IdsKnown' /\ AllConsumed'
  BY <1>1 DEF SourceInv, IdsKnown, SidsKnown, SidvsKnown, UnreadKnown, BatchKnown,
              KnownSource, AllConsumed
<1> QED BY <1>6, <1>7, <1>8 DEF SourceInv

\* A batch, or none, is written.
LEMMA PollWriteSources ==
  ASSUME TInv, SourceInv, PollWrite
  PROVE  SourceInv'
<1> DEFINE c == channels[pos]
<1>1. UNCHANGED <<sources, sourcesConsumed>> /\ cpc = "write" /\ cpc' = "poll"
  BY DEF PollWrite
<1>2. Batch(c, batch) \in Entries
  BY PollFacts, SourceTypes, BatchType DEF PollWrite
<1>3. out' = out \/ out' = Append(out, Batch(c, batch))
  BY DEF PollWrite
<1>4. SourcePrecedesEvent'
  <2>1. CASE out' = out
    BY <2>1 DEF SourceInv, SourcePrecedesEvent
  <2>2. CASE out' = Append(out, Batch(c, batch))
    BY <1>1, <1>2, <2>2, BatchAppended DEF SourceInv, IdsKnown, BatchKnown
  <2> QED BY <1>3, <2>1, <2>2
<1>5. ConsumedWritten'
  <2>1. CASE out' = out
    BY <1>1, <2>1 DEF SourceInv, ConsumedWritten, EventSource
  <2>2. CASE out' = Append(out, Batch(c, batch))
    <3>1. out' = out \o <<Batch(c, batch)>> /\ <<Batch(c, batch)>> \in Seq(Entries)
      BY <1>2, <2>2, SourceTypes, AppendIsConcat
    <3> QED BY <1>1, <3>1, WrittenStays DEF SourceInv
  <2> QED BY <1>3, <2>1, <2>2
<1>6. IdsKnown'
  BY PollWriteIds DEF SourceInv
<1>7. AllConsumed'
  BY <1>1 DEF SourceInv, AllConsumed
<1> QED BY <1>4, <1>5, <1>6, <1>7 DEF SourceInv

\* A part of a batch, or none of it, is written.
LEMMA PollWriteThrowsSources ==
  ASSUME TInv, SourceInv, PollWriteThrows
  PROVE  SourceInv'
<1> DEFINE c == channels[pos]
<1>1. UNCHANGED <<sources, sourcesConsumed, sid, site, sidv, unread>>
  BY DEF PollWriteThrows, sessionVars, channelVars, writerVars
<1>2. batch' = <<>> /\ cpc' = "idle" /\ cpc = "write"
  BY DEF PollWriteThrows, Throw
<1>3. CASE out' = out
  BY <1>1, <1>2, <1>3
     DEF SourceInv, SourcePrecedesEvent, ConsumedWritten, EventSource, IdsKnown,
         SidsKnown, SidvsKnown, UnreadKnown, BatchKnown, KnownSource, AllConsumed
<1>4. ASSUME NEW n \in 1..Len(batch), out' = Append(out, Batch(c, SubSeq(batch, 1, n - 1)))
      PROVE  SourceInv'
  <2> DEFINE written == SubSeq(batch, 1, n - 1)
  <2>1. /\ written \in Seq(Events)
        /\ \A k \in DOMAIN written : k \in DOMAIN batch /\ written[k] = batch[k]
    BY SourceTypes, SubSeqProperties
  <2> HIDE DEF written
  <2>2. Batch(c, written) \in Entries
    BY <1>2, <2>1, PollFacts, BatchType
  <2>3. SourcePrecedesEvent'
    <3>1. \A k \in DOMAIN written : KnownSource(written[k])
      BY <2>1 DEF SourceInv, IdsKnown, BatchKnown
    <3> QED BY <1>2, <1>4, <2>2, <3>1, BatchAppended DEF written
  <2>4. ConsumedWritten'
    <3>1. out' = out \o <<Batch(c, written)>> /\ <<Batch(c, written)>> \in Seq(Entries)
      BY <1>4, <2>2, SourceTypes, AppendIsConcat DEF written
    <3> QED BY <1>1, <3>1, WrittenStays DEF SourceInv
  <2>5. IdsKnown' /\ AllConsumed'
    BY <1>1, <1>2 DEF SourceInv, IdsKnown, SidsKnown, SidvsKnown, UnreadKnown,
                      BatchKnown, KnownSource, AllConsumed
  <2> QED BY <2>3, <2>4, <2>5 DEF SourceInv
<1> QED BY <1>3, <1>4 DEF PollWriteThrows

\* A step of a writer, while entries and consumed sources stay as they are.
LEMMA WriterSources ==
  ASSUME TInv, SourceInv, NEW w \in Writers, IdsKnown',
         UNCHANGED <<out, sourcesConsumed, cpc>>,
         UNCHANGED sources \/ AddEventSource(w)
  PROVE  SourceInv'
<1>1. SourcePrecedesEvent'
  BY DEF SourceInv, SourcePrecedesEvent
<1>2. ConsumedWritten'
  <2>1. \A i \in 1..sourcesConsumed : EventSource(i)' = EventSource(i)
    BY SourceTypes, SourcesGrow DEF EventSource
  <2> QED BY <2>1 DEF SourceInv, ConsumedWritten
<1>3. AllConsumed'
  BY DEF SourceInv, AllConsumed, AddEventSource, MutexFree
<1> QED BY <1>1, <1>2, <1>3 DEF SourceInv

\* What SourceInv is about.
sourceVars ==
  <<sources, sourcesConsumed, sid, site, sidv, unread, batch, out>>

\* The steps of a writer, and the arrivals, that leave all of it alone.
LEMMA OtherWriterSteps ==
  ASSUME NEW w \in Writers,
         \/ OpenWriter(w) \/ CloseWriter(w) \/ SetName(w) \/ CopyProp(w)
         \/ ReplaceChannel(w) \/ ReleaseChannel(w) \/ ReplaceFails(w)
  PROVE  UNCHANGED <<sourceVars, cpc>>
<1>1. CASE OpenWriter(w)
  BY <1>1 DEF OpenWriter, CreateChannel, consumerVars, sourceVars
<1>2. CASE CloseWriter(w)
  BY <1>2 DEF CloseWriter, sessionVars, consumerVars, sourceVars
<1>3. CASE SetName(w)
  BY <1>3 DEF SetName, sessionVars, consumerVars, sourceVars
<1>4. CASE CopyProp(w)
  BY <1>4 DEF CopyProp, sessionVars, channelVars, consumerVars, sourceVars
<1>5. CASE ReplaceChannel(w)
  BY <1>5 DEF ReplaceChannel, CreateChannel, consumerVars, sourceVars
<1>6. CASE ReleaseChannel(w)
  BY <1>6 DEF ReleaseChannel, sessionVars, consumerVars, sourceVars
<1>7. CASE ReplaceFails(w)
  BY <1>7 DEF ReplaceFails, sessionVars, channelVars, consumerVars, sourceVars
<1> QED BY <1>1, <1>2, <1>3, <1>4, <1>5, <1>6, <1>7

\* The steps of the consumer that only move it, or only set the clock.
LEMMA OtherConsumerSteps ==
  ASSUME SetClockSync \/ PollClosed \/ PollNull \/ ConsumeEnd
  PROVE  UNCHANGED sourceVars /\ (cpc' = cpc \/ cpc' = "idle" \/ cpc # "idle")
<1>1. CASE SetClockSync
  BY <1>1 DEF SetClockSync, channelVars, writerVars, consumerVars, sourceVars
<1>2. CASE PollClosed
  BY <1>2 DEF PollClosed, Polling, sessionVars, channelVars, writerVars, sourceVars
<1>3. CASE PollNull
  BY <1>3 DEF PollNull, Polling, sessionVars, channelVars, writerVars, sourceVars
<1>4. CASE ConsumeEnd
  BY <1>4 DEF ConsumeEnd, channelVars, writerVars, sourceVars
<1> QED BY <1>1, <1>2, <1>3, <1>4

\* They keep SourceInv.
LEMMA OtherSources ==
  ASSUME SourceInv, UNCHANGED sourceVars, cpc' = cpc \/ cpc' = "idle" \/ cpc # "idle"
  PROVE  SourceInv'
BY DEF SourceInv, IdsKnown, SidsKnown, SidvsKnown, UnreadKnown, BatchKnown, KnownSource,
       ConsumedWritten, EventSource, AllConsumed, SourcePrecedesEvent, sourceVars

\* Every step keeps SourceInv.
LEMMA NextSources ==
  ASSUME TInv, SourceInv, [Next]_vars
  PROVE  SourceInv'
<1>1. ASSUME NEW w \in Writers, Writer(w) PROVE SourceInv'
  <2>1. CASE \/ OpenWriter(w) \/ CloseWriter(w) \/ SetName(w) \/ CopyProp(w)
             \/ ReplaceChannel(w) \/ ReleaseChannel(w) \/ ReplaceFails(w)
    BY <2>1, OtherWriterSteps, OtherSources
  <2>2. ASSUME NEW s \in Sites, StartLog(w, s) PROVE SourceInv'
    <3>1. UNCHANGED <<out, sourcesConsumed, cpc, sources>>
      BY <2>2 DEF StartLog, sessionVars, consumerVars
    <3> QED BY <2>2, <3>1, StartLogIds, WriterSources DEF SourceInv
  <2>3. CASE AddEventSource(w)
    <3>1. UNCHANGED <<out, sourcesConsumed, cpc>>
      BY <2>3 DEF AddEventSource, consumerVars
    <3> QED BY <2>3, <3>1, AddEventSourceIds, WriterSources DEF SourceInv
  <2>4. CASE StoreSid(w)
    <3>1. UNCHANGED <<out, sourcesConsumed, cpc, sources>>
      BY <2>4 DEF StoreSid, sessionVars, consumerVars
    <3> QED BY <2>4, <3>1, StoreSidIds, WriterSources DEF SourceInv
  <2>5. CASE Commit(w)
    <3>1. UNCHANGED <<out, sourcesConsumed, cpc, sources>>
      BY <2>5 DEF Commit, sessionVars, consumerVars
    <3> QED BY <2>5, <3>1, CommitIds, WriterSources DEF SourceInv
  <2>6. CASE DropEvent(w)
    <3>1. /\ UNCHANGED <<out, sourcesConsumed, cpc, sources, site, sid, unread, batch>>
          /\ EndLog(w)
      BY <2>6 DEF DropEvent, sessionVars, channelVars, consumerVars
    <3>2. SidvsKnown'
      BY <3>1, EndLogIds DEF SourceInv
    <3>3. IdsKnown'
      BY <3>1, <3>2 DEF SourceInv, IdsKnown, SidsKnown, UnreadKnown, BatchKnown, KnownSource
    <3> QED BY <3>1, <3>3, WriterSources
  <2> QED BY <1>1, <2>1, <2>2, <2>3, <2>4, <2>5, <2>6 DEF Writer
<1>2. CASE Memory
  <2>1. UNCHANGED <<sourceVars, cpc>>
    BY <1>2 DEF Memory, EventArrives, CloseArrives, sessionVars, writerVars, consumerVars,
                sourceVars
  <2> QED BY <2>1, OtherSources
<1>3. CASE SetClockSync \/ PollClosed \/ PollNull \/ ConsumeEnd
  BY <1>3, OtherConsumerSteps, OtherSources
<1>4. CASE PollRead
  <2>1. UNCHANGED <<out, sources, sourcesConsumed>> /\ cpc # "idle"
    BY <1>4 DEF PollRead, sessionVars
  <2>2. IdsKnown'
    BY <1>4, PollReadIds DEF SourceInv
  <2> QED BY <2>1, <2>2
         DEF SourceInv, ConsumedWritten, EventSource, AllConsumed, SourcePrecedesEvent
<1>5. CASE ConsumeStart \/ PollWrite \/ ConsumeStartThrows \/ PollWriteThrows \/ Rotate
  BY <1>5, ConsumeStartSources, PollWriteSources, ConsumeStartThrowsSources,
     PollWriteThrowsSources, RotateSources
<1>6. CASE UNCHANGED vars
  <2>1. UNCHANGED <<sourceVars, cpc>>
    BY <1>6 DEF vars, sessionVars, channelVars, writerVars, consumerVars, sourceVars
  <2> QED BY <2>1, OtherSources
<1> QED BY <1>1, <1>2, <1>3, <1>4, <1>5, <1>6 DEF Next, Poll

\* No ids, no events and no output to begin with.
LEMMA InitSources == Init => SourceInv
BY DEF Init, SourceInv, IdsKnown, SidsKnown, SidvsKnown, UnreadKnown, BatchKnown,
       ConsumedWritten, AllConsumed, SourcePrecedesEvent

\* SourcePrecedesEvent holds for any number of threads, call sites, outputs and
\* failing writes: Session::consume may write an event only after its source.
THEOREM SourcesFirst == Spec => []SourcePrecedesEvent
<1>1. SourceInv => SourcePrecedesEvent
  BY DEF SourceInv
<1> QED BY <1>1, InitSources, NextSources, SessionInvT, PTL DEF Spec

-----------------------------------------------------------------------------
(***************************************************************************)
(* While consume writes events, the last ClockSync of the output is the    *)
(* one set last; and as long as no write threw, consume dereferences no    *)
(* channel that it removed.                                                *)
(*                                                                         *)
(* _consumeClockSync is the promise to write the ClockSync at the next     *)
(* consume: whenever it is not set, the output has the current one, and    *)
(* consume clears it before it polls.  A channel that was reset lies       *)
(* behind consume's position until consume ends and erases it.             *)
(***************************************************************************)
(* The ClockSync in force *)

\* The last ClockSync of the output o is the current one.
ClockInForce(o) ==
  \E i \in DOMAIN o :
    /\ o[i] = ClockSync(clocks)
    /\ \A j \in (i + 1)..Len(o) : o[j].kind # "clock" \/ o[j] = o[i]

ClockInv ==
  /\ ~consumeClockSync => ClockInForce(out)
  /\ cpc \in {"poll", "read", "write"} => ~consumeClockSync

\* No ClockSync is among the entries of t.
Clockless(t) == \A k \in DOMAIN t : t[k].kind # "clock"

\* Entries of other kinds do not change which ClockSync is the last.
LEMMA OthersAppended ==
  ASSUME NEW o \in Seq(Entries), ClockInForce(o), NEW t \in Seq(Entries), Clockless(t)
  PROVE  ClockInForce(o \o t)
<1> DEFINE all == o \o t
<1>1. PICK i \in DOMAIN o :
        /\ o[i] = ClockSync(clocks)
        /\ \A j \in (i + 1)..Len(o) : o[j].kind # "clock" \/ o[j] = o[i]
  BY DEF ClockInForce
<1>2. /\ Len(o) \in Nat /\ Len(t) \in Nat
      /\ Len(all) = Len(o) + Len(t) /\ all \in Seq(Entries)
      /\ \A j \in 1..(Len(o) + Len(t)) :
           all[j] = IF j <= Len(o) THEN o[j] ELSE t[j - Len(o)]
  BY ConcatProperties
<1> HIDE DEF all
<1>3. i \in DOMAIN all /\ all[i] = o[i] /\ i \in 1..Len(o)
  BY <1>1, <1>2
<1>4. ASSUME NEW j \in (i + 1)..Len(all)
      PROVE  all[j].kind # "clock" \/ all[j] = all[i]
  <2>1. j \in 1..(Len(o) + Len(t)) /\ j \in Nat
    BY <1>2, <1>3
  <2>2. CASE j <= Len(o)
    <3>1. all[j] = o[j] /\ j \in (i + 1)..Len(o)
      BY <1>2, <2>1, <2>2
    <3> QED BY <1>1, <1>3, <3>1
  <2>3. CASE j > Len(o)
    <3>1. all[j] = t[j - Len(o)] /\ j - Len(o) \in 1..Len(t)
      BY <1>2, <2>1, <2>3
    <3> QED BY <3>1 DEF Clockless
  <2> QED BY <1>2, <2>1, <2>2, <2>3
<1>5. ClockInForce(all)
  BY <1>1, <1>3, <1>4 DEF ClockInForce
<1> QED BY <1>5 DEF all

\* A ClockSync that is appended is the last one.
LEMMA ClockAppended ==
  ASSUME TInv, NEW o \in Seq(Entries)
  PROVE  ClockInForce(o \o <<ClockSync(clocks)>>)
<1> DEFINE all == o \o <<ClockSync(clocks)>>
<1>1. /\ Len(o) \in Nat /\ <<ClockSync(clocks)>> \in Seq(Entries)
      /\ Len(<<ClockSync(clocks)>>) = 1 /\ <<ClockSync(clocks)>>[1] = ClockSync(clocks)
  BY MetadataTypes
<1>2. /\ Len(all) = Len(o) + 1 /\ all \in Seq(Entries)
      /\ all[Len(o) + 1] = ClockSync(clocks)
  BY <1>1, ConcatProperties
<1> HIDE DEF all
<1>3. Len(o) + 1 \in DOMAIN all /\ ((Len(o) + 1) + 1)..Len(all) = {}
  BY <1>1, <1>2
<1>4. ClockInForce(all)
  BY <1>2, <1>3 DEF ClockInForce
<1> QED BY <1>4 DEF all

\* Sources are no ClockSyncs.
LEMMA SourcesClockless ==
  ASSUME TInv, NEW to \in 0..Len(sources), NEW from \in 0..to
  PROVE  SourceEntries(from, to) \in Seq(Entries) /\ Clockless(SourceEntries(from, to))
BY MetadataTypes DEF SourceEntries, EventSource, Clockless

\* Steps that write nothing and set nothing.
LEMMA QuietClock ==
  ASSUME ClockInv, UNCHANGED <<out, clocks, consumeClockSync>>,
         cpc' \in {"poll", "read", "write"} => cpc \in {"poll", "read", "write"}
  PROVE  ClockInv'
BY DEF ClockInv, ClockInForce, ClockSync

\* Those steps.
LEMMA QuietClockSteps ==
  ASSUME TInv, ClockInv,
         \/ \E w \in Writers : Writer(w)
         \/ Memory \/ PollClosed \/ PollNull \/ PollRead \/ ConsumeEnd
         \/ UNCHANGED vars
  PROVE  ClockInv'
<1>1. ASSUME NEW w \in Writers, Writer(w)
      PROVE  UNCHANGED <<out, clocks, consumeClockSync, cpc>>
  BY <1>1 DEF Writer, OpenWriter, CloseWriter, SetName, StartLog, AddEventSource, StoreSid,
         Commit, CopyProp, ReplaceChannel, ReleaseChannel, ReplaceFails, DropEvent,
         CreateChannel, sessionVars, consumerVars
<1>2. ASSUME Memory \/ UNCHANGED vars
      PROVE  UNCHANGED <<out, clocks, consumeClockSync, cpc>>
  BY <1>2 DEF Memory, EventArrives, CloseArrives, vars, sessionVars, consumerVars
<1>3. ASSUME PollClosed \/ PollNull \/ PollRead \/ ConsumeEnd
      PROVE  /\ UNCHANGED <<out, clocks, consumeClockSync>>
             /\ cpc' \in {"poll", "read", "write"} => cpc \in {"poll", "read", "write"}
  BY <1>3 DEF PollClosed, PollNull, PollRead, ConsumeEnd, Polling, sessionVars
<1> QED BY <1>1, <1>2, <1>3, QuietClock

\* consume, up to its loop, writes what was promised, and the sources.
LEMMA ConsumeStartClock ==
  ASSUME TInv, ClockInv, ConsumeStart
  PROVE  ClockInv'
<1>1. out \in Seq(Entries) /\ ClockEntries \in Seq(Entries)
  BY SourceTypes, MetadataTypes
<1>2. ClockInForce(out \o ClockEntries)
  <2>1. CASE consumeClockSync
    BY <1>1, <2>1, ClockAppended DEF ClockEntries
  <2>2. CASE ~consumeClockSync
    <3>1. out \o <<>> = out
      BY <1>1
    <3> QED BY <2>2, <3>1 DEF ClockInv, ClockEntries
  <2> QED BY <2>1, <2>2
<1>3. out \o ClockEntries \in Seq(Entries)
  BY <1>1, ConcatProperties
<1>4. Len(sources) \in 0..Len(sources) /\ sourcesConsumed \in 0..Len(sources)
  BY SourceTypes
<1>5. ClockInForce((out \o ClockEntries) \o SourceEntries(sourcesConsumed, Len(sources)))
  BY <1>2, <1>3, <1>4, SourcesClockless, OthersAppended
<1>6. /\ out' = (out \o ClockEntries) \o SourceEntries(sourcesConsumed, Len(sources))
      /\ clocks' = clocks /\ consumeClockSync' = FALSE
  BY DEF ConsumeStart
<1>7. ClockInForce(out)'
  BY <1>5, <1>6 DEF ClockInForce, ClockSync
<1> QED BY <1>6, <1>7 DEF ClockInv

\* The promise is kept until the ClockSync was written.
LEMMA ConsumeStartThrowsClock ==
  ASSUME TInv, ClockInv, ConsumeStartThrows
  PROVE  ClockInv'
<1>1. cpc' = "idle" /\ clocks' = clocks
  BY DEF ConsumeStartThrows, Throw
<1>2. CASE UNCHANGED <<out, consumeClockSync>>
  BY <1>1, <1>2, QuietClock
<1>3. CASE out' = out \o ClockEntries /\ consumeClockSync' = FALSE
  <2>1. out \in Seq(Entries)
    BY SourceTypes
  <2>2. ClockInForce(out \o ClockEntries)
    <3>1. CASE consumeClockSync
      BY <2>1, <3>1, ClockAppended DEF ClockEntries
    <3>2. CASE ~consumeClockSync
      <4>1. out \o <<>> = out
        BY <2>1
      <4> QED BY <3>2, <4>1 DEF ClockInv, ClockEntries
    <3> QED BY <3>1, <3>2
  <2>3. ClockInForce(out)'
    BY <1>1, <1>3, <2>2 DEF ClockInForce, ClockSync
  <2> QED BY <1>1, <2>3 DEF ClockInv
<1> QED BY <1>2, <1>3 DEF ConsumeStartThrows

\* A batch is no ClockSync.
LEMMA BatchClock ==
  ASSUME TInv, ClockInv, cpc = "write", NEW events \in Seq(Events),
         out' = Append(out, Batch(channels[pos], events)),
         UNCHANGED <<clocks, consumeClockSync>>
  PROVE  ClockInv'
<1> DEFINE t == <<Batch(channels[pos], events)>>
<1>1. channels[pos] \in Chans /\ owner[channels[pos]] \in Writers
  BY PollFacts
<1>2. out \in Seq(Entries) /\ Batch(channels[pos], events) \in Entries
  BY <1>1, SourceTypes, BatchType
<1>3. t \in Seq(Entries) /\ Clockless(t)
  BY <1>2 DEF Clockless, Batch
<1>4. out' = out \o t
  BY <1>2, AppendIsConcat
<1>5. ClockInForce(out)
  BY DEF ClockInv
<1>6. ClockInForce(out \o t)
  BY <1>2, <1>3, <1>5, OthersAppended
<1>7. ClockInForce(out)'
  BY <1>4, <1>6 DEF ClockInForce, ClockSync
<1>8. ~consumeClockSync'
  BY DEF ClockInv
<1> QED BY <1>7, <1>8 DEF ClockInv

\* WriterProps and events are written.
LEMMA PollWriteClock ==
  ASSUME TInv, ClockInv, PollWrite \/ PollWriteThrows
  PROVE  ClockInv'
<1>1. cpc = "write" /\ UNCHANGED <<clocks, consumeClockSync>>
  BY DEF PollWrite, PollWriteThrows, sessionVars
<1>2. CASE UNCHANGED out
  BY <1>1, <1>2, QuietClock
<1>3. CASE out' = Append(out, Batch(channels[pos], batch))
  BY <1>1, <1>3, SourceTypes, BatchClock
<1>4. ASSUME NEW n \in 1..Len(batch),
             out' = Append(out, Batch(channels[pos], SubSeq(batch, 1, n - 1)))
      PROVE  ClockInv'
  <2>1. SubSeq(batch, 1, n - 1) \in Seq(Events)
    BY SourceTypes, SubSeqProperties
  <2> QED BY <1>1, <1>4, <2>1, BatchClock
<1> QED BY <1>2, <1>3, <1>4 DEF PollWrite, PollWriteThrows

\* reconsumeMetadata begins the output with the current ClockSync.
LEMMA RotateClock ==
  ASSUME TInv, ClockInv, Rotate
  PROVE  ClockInv'
<1> DEFINE t == SourceEntries(0, sourcesConsumed)
<1>1. <<>> \in Seq(Entries) /\ <<ClockSync(clocks)>> \in Seq(Entries)
  BY MetadataTypes
<1>2. <<>> \o <<ClockSync(clocks)>> = <<ClockSync(clocks)>>
  BY <1>1
<1>3. ClockInForce(<<ClockSync(clocks)>>)
  BY <1>1, <1>2, ClockAppended
<1>4. sourcesConsumed \in 0..Len(sources) /\ 0 \in 0..sourcesConsumed
  BY SourceTypes
<1>5. t \in Seq(Entries) /\ Clockless(t)
  BY <1>4, SourcesClockless
<1>6. ClockInForce(<<ClockSync(clocks)>> \o t)
  BY <1>1, <1>3, <1>5, OthersAppended
<1>7. /\ out' = <<ClockSync(clocks)>> \o t
      /\ UNCHANGED <<clocks, consumeClockSync, cpc>>
  BY DEF Rotate, sessionVars
<1>8. ClockInForce(out)'
  BY <1>6, <1>7 DEF ClockInForce, ClockSync
<1> QED BY <1>7, <1>8 DEF ClockInv

\* Every step keeps ClockInv.
LEMMA NextClock ==
  ASSUME TInv, ClockInv, [Next]_vars
  PROVE  ClockInv'
<1>1. CASE \/ \E w \in Writers : Writer(w)
           \/ Memory \/ PollClosed \/ PollNull \/ PollRead \/ ConsumeEnd
           \/ UNCHANGED vars
  BY <1>1, QuietClockSteps
<1>2. CASE SetClockSync
  BY <1>2 DEF ClockInv, SetClockSync, MutexFree, consumerVars
<1>3. CASE ConsumeStart \/ ConsumeStartThrows \/ PollWrite \/ PollWriteThrows \/ Rotate
  BY <1>3, ConsumeStartClock, ConsumeStartThrowsClock, PollWriteClock, RotateClock
<1> QED BY <1>1, <1>2, <1>3 DEF Next, Poll

\* CurrentClock holds for any number of calls of setClockSync, outputs and
\* failing writes: consume clears _consumeClockSync only when the output has the
\* ClockSync set last, so events are never written under an older one.
THEOREM ClockIsCurrent == Spec => []CurrentClock
<1>1. Init => ClockInv
  BY DEF Init, ClockInv
<1>2. ClockInv => CurrentClock
  BY DEF ClockInv, ClockInForce, CurrentClock
<1> QED BY <1>1, <1>2, NextClock, SessionInvT, PTL DEF Spec

-----------------------------------------------------------------------------
(* Removed channels *)

\* While no write threw, the channels that were reset are behind consume.
ResetBehind ==
  failures = 0 =>
    /\ cpc # "crashed"
    /\ \A p \in DOMAIN channels : cpc = "idle" \/ p >= pos => channels[p] # 0

\* Steps that leave _channels and consume's position alone.
LEMMA QuietReset ==
  ASSUME ResetBehind, UNCHANGED <<channels, failures>>,
         \/ UNCHANGED <<cpc, pos>>
         \/ cpc # "crashed" /\ cpc' \in {"read", "write"} /\ pos' = pos
         \/ cpc = "idle" /\ cpc' # "crashed"
  PROVE  ResetBehind'
BY DEF ResetBehind

\* A new channel is not a reset one.
LEMMA CreateReset ==
  ASSUME TInv, ResetBehind, NEW w \in Writers, NEW n \in 0..MaxRenames, CreateChannel(w, n),
         UNCHANGED consumerVars
  PROVE  ResetBehind'
<1>1. /\ channels' = Append(channels, nchans') /\ channels \in Seq(0..nchans')
      /\ nchans' \in Chans /\ cpc = "idle" /\ Len(channels) \in Nat
      /\ Len(channels') = Len(channels) + 1
  BY CreateChannelT
<1>2. nchans' # 0
  BY <1>1 DEF Chans
<1>3. ASSUME NEW p \in DOMAIN channels', failures = 0 PROVE channels'[p] # 0
  <2>1. CASE p = Len(channels) + 1
    BY <1>1, <1>2, <2>1, AppendProperties
  <2>2. CASE p # Len(channels) + 1
    <3>1. p \in DOMAIN channels /\ channels'[p] = channels[p]
      BY <1>1, <2>2, AppendProperties
    <3> QED BY <1>1, <1>3, <3>1 DEF ResetBehind
  <2> QED BY <2>1, <2>2
<1> QED BY <1>1, <1>3 DEF ResetBehind, consumerVars

\* The channel polled is left behind.
LEMMA PollWriteReset ==
  ASSUME TInv, ResetBehind, PollWrite
  PROVE  ResetBehind'
<1>1. /\ pos \in DOMAIN channels /\ pos \in Nat /\ cpc = "write"
      /\ channels' = resetIfClosed(channels[pos]) /\ pos' = pos + 1
      /\ cpc' = "poll" /\ failures' = failures
  BY PollFacts DEF PollWrite
<1>2. DOMAIN channels' = DOMAIN channels
  BY <1>1 DEF resetIfClosed
<1>3. ASSUME NEW p \in DOMAIN channels, p >= pos', failures = 0 PROVE channels'[p] # 0
  <2>1. p # pos /\ p >= pos
    BY <1>1, <1>3, PollFacts
  <2> QED BY <1>1, <1>3, <2>1 DEF resetIfClosed, ResetBehind
<1> QED BY <1>1, <1>2, <1>3 DEF ResetBehind

\* What consume erases are the channels that were reset.
LEMMA ConsumeEndReset ==
  ASSUME TInv, ResetBehind, ConsumeEnd
  PROVE  ResetBehind'
<1>1. cpc' = "idle" /\ RemovedErased
  BY DEF ConsumeEnd
<1>2. PICK n \in 0..Len(channels) : \E at \in [1..n -> DOMAIN channels] :
        /\ \A p \in DOMAIN channels : channels[p] # 0 <=> \E i \in 1..n : at[i] = p
        /\ channels' = [i \in 1..n |-> channels[at[i]]]
  BY <1>1 DEF RemovedErased
<1>3. PICK at \in [1..n -> DOMAIN channels] :
        /\ \A p \in DOMAIN channels : channels[p] # 0 <=> \E i \in 1..n : at[i] = p
        /\ channels' = [i \in 1..n |-> channels[at[i]]]
  BY <1>2
<1>4. \A p \in DOMAIN channels' : channels'[p] # 0
  BY <1>3
<1> QED BY <1>1, <1>4 DEF ResetBehind

\* Every step keeps ResetBehind.
LEMMA NextReset ==
  ASSUME TInv, ResetBehind, [Next]_vars
  PROVE  ResetBehind'
<1>1. ASSUME NEW w \in Writers, Writer(w) PROVE ResetBehind'
  <2>1. CASE OpenWriter(w)
    BY <2>1, SessionAssumption, CreateReset DEF OpenWriter
  <2>2. CASE ReplaceChannel(w)
    BY <2>2, WriterFacts, CreateReset DEF ReplaceChannel
  <2>3. CASE \/ CloseWriter(w) \/ SetName(w) \/ (\E s \in Sites : StartLog(w, s))
             \/ AddEventSource(w) \/ StoreSid(w) \/ Commit(w) \/ CopyProp(w)
             \/ ReleaseChannel(w) \/ ReplaceFails(w) \/ DropEvent(w)
    <3>1. UNCHANGED <<channels, failures, cpc, pos>>
      BY <2>3 DEF CloseWriter, SetName, StartLog, AddEventSource, StoreSid, Commit, CopyProp,
             ReleaseChannel, ReplaceFails, DropEvent, sessionVars, consumerVars
    <3> QED BY <3>1, QuietReset
  <2> QED BY <1>1, <2>1, <2>2, <2>3 DEF Writer
<1>2. CASE Memory \/ SetClockSync \/ Rotate \/ UNCHANGED vars
  <2>1. UNCHANGED <<channels, failures, cpc, pos>>
    BY <1>2 DEF Memory, EventArrives, CloseArrives, SetClockSync, Rotate, vars, sessionVars,
           consumerVars
  <2> QED BY <2>1, QuietReset
<1>3. CASE ConsumeStart
  BY <1>3, QuietReset DEF ConsumeStart
<1>4. CASE PollClosed \/ PollRead
  BY <1>4, QuietReset DEF PollClosed, PollRead, Polling, sessionVars
<1>5. CASE PollNull
  <2>1. /\ pos \in DOMAIN channels /\ channels[pos] = 0 /\ failures' = failures
        /\ pos \in Int
    BY <1>5 DEF PollNull, Polling, TInv, TypeOK, ConsumerTypes
  <2>2. failures # 0
    BY <2>1 DEF ResetBehind
  <2> QED BY <2>1, <2>2 DEF ResetBehind
<1>6. CASE PollWrite \/ ConsumeEnd
  BY <1>6, PollWriteReset, ConsumeEndReset
<1>7. CASE ConsumeStartThrows \/ PollWriteThrows
  <2>1. failures \in Nat /\ failures' = failures + 1
    BY <1>7 DEF ConsumeStartThrows, PollWriteThrows, Throw, TInv, TypeOK, ConsumerTypes
  <2> QED BY <2>1 DEF ResetBehind
<1> QED BY <1>1, <1>2, <1>3, <1>4, <1>5, <1>6, <1>7 DEF Next, Poll

\* NoRemovedChannelPolledUnlessThrown holds for any number of channels: the
\* iteration that resets a channel is the last one that looks at it, unless a
\* write throws and consume skips the erasure.
THEOREM RemovedNotPolled == Spec => []NoRemovedChannelPolledUnlessThrown
<1>1. Init => ResetBehind
  BY DEF Init, ResetBehind
<1>2. ResetBehind => NoRemovedChannelPolledUnlessThrown
  BY DEF ResetBehind, NoRemovedChannelPolledUnlessThrown, NoRemovedChannelPolled
<1> QED BY <1>1, <1>2, NextReset, SessionInvT, PTL DEF Spec

-----------------------------------------------------------------------------
(***************************************************************************)
(* No event is written under a name older than the one its writer had when *)
(* it logged the event, if each thread names its own writer.               *)
(*                                                                         *)
(* The channel a writer uses has the name set last, also right after it    *)
(* was replaced: nothing happens in the thread between the copy of the     *)
(* properties and the new channel.  A channel's name never gets older, so  *)
(* the events in its queue are at most as new as it.  If setName may be    *)
(* called by another thread, between the copy and the new channel, the     *)
(* invariant, and the property, fail: see run session_rename.              *)
(***************************************************************************)

\* The writer's channel is its own, and has the name set last.
WriterNamed ==
  \A w \in Writers :
    /\ wpc[w] = "new" => renames[w] = 0
    /\ wpc[w] # "new" => owner[cur[w]] = w /\ name[cur[w]] = renames[w]
    /\ wpc[w] = "replace" => propCopy[w] = renames[w]

\* No event of a queue is newer than the channel's name.
QueueNamed ==
  \A c \in Chans :
    /\ c > nchans => unread[c] = <<>>
    /\ \A k \in DOMAIN unread[c] : unread[c][k].named <= name[c]

\* Nor is one that was read.
BatchNamed ==
  cpc = "write" => \A k \in DOMAIN batch : batch[k].named <= name[channels[pos]]

NameInv == WriterNamed /\ QueueNamed /\ BatchNamed /\ NewEventsCarryName

-----------------------------------------------------------------------------
(* Writers *)

\* The channel of a writer is created, or replaced, with the name set last.
LEMMA CreateNames ==
  ASSUME TInv, NameInv, NEW w \in Writers, CreateChannel(w, renames[w]),
         \A v \in Writers : v # w => wpc'[v] = wpc[v],
         wpc'[w] \notin {"new", "replace"},
         UNCHANGED <<renames, propCopy, consumerVars>>
  PROVE  NameInv'
<1>1. /\ nchans' = nchans + 1 /\ nchans' \in Chans /\ nchans \in Nat /\ cpc = "idle"
      /\ renames[w] \in 0..MaxRenames
  BY CreateChannelT, WriterFacts
<1>2. /\ owner' = [owner EXCEPT ![nchans'] = w]
      /\ name' = [name EXCEPT ![nchans'] = renames[w]]
      /\ cur' = [cur EXCEPT ![w] = nchans'] /\ unread' = unread
  BY DEF CreateChannel
<1>3. \A c \in Chans : c # nchans' => owner'[c] = owner[c] /\ name'[c] = name[c]
  BY <1>2 DEF TInv, TypeOK, ChannelTypes
<1>4. owner'[nchans'] = w /\ name'[nchans'] = renames[w]
  BY <1>1, <1>2 DEF TInv, TypeOK, ChannelTypes
<1>5. WriterNamed'
  <2> SUFFICES ASSUME NEW v \in Writers
               PROVE  /\ wpc'[v] = "new" => renames[v] = 0
                      /\ wpc'[v] # "new" => owner'[cur'[v]] = v /\ name'[cur'[v]] = renames[v]
                      /\ wpc'[v] = "replace" => propCopy[v] = renames[v]
    BY DEF WriterNamed
  <2>1. CASE v = w
    <3>1. cur'[w] = nchans'
      BY <1>2 DEF TInv, TypeOK, WriterTypes
    <3> QED BY <1>4, <2>1, <3>1
  <2>2. CASE v # w
    <3>1. cur'[v] = cur[v] /\ wpc'[v] = wpc[v]
      BY <1>2, <2>2 DEF TInv, TypeOK, WriterTypes
    <3>2. wpc[v] # "new" => cur[v] \in Chans /\ cur[v] # nchans'
      BY <1>1, WriterFacts
    <3> QED BY <1>3, <3>1, <3>2 DEF NameInv, WriterNamed
  <2> QED BY <2>1, <2>2
<1>6. QueueNamed'
  <2> SUFFICES ASSUME NEW c \in Chans
               PROVE  /\ c > nchans' => unread[c] = <<>>
                      /\ \A k \in DOMAIN unread[c] : unread[c][k].named <= name'[c]
    BY <1>2 DEF QueueNamed
  <2>1. c \in Nat
    BY DEF Chans
  <2>2. c > nchans => unread[c] = <<>>
    BY DEF NameInv, QueueNamed
  <2>3. CASE c = nchans'
    BY <1>1, <2>2, <2>3
  <2>4. CASE c # nchans'
    BY <1>1, <1>3, <2>1, <2>2, <2>4 DEF NameInv, QueueNamed
  <2> QED BY <2>3, <2>4
<1>7. BatchNamed' /\ NewEventsCarryName'
  BY <1>1 DEF NameInv, BatchNamed, NewEventsCarryName, consumerVars
<1> QED BY <1>5, <1>6, <1>7 DEF NameInv

\* setName: only the writer's own channel gets a newer name.
LEMMA SetNameNames ==
  ASSUME ~RenameAnytime, TInv, NameInv, NEW w \in Writers, SetName(w)
  PROVE  NameInv'
<1>1. wpc[w] = "idle" /\ cpc = "idle"
  BY DEF SetName, MutexFree
<1>2. /\ renames' = [renames EXCEPT ![w] = renames[w] + 1]
      /\ name' = [name EXCEPT ![cur[w]] = renames[w] + 1]
      /\ UNCHANGED <<nchans, owner, unread, wpc, cur, propCopy, cpc, out>>
  BY DEF SetName, consumerVars
<1>3. cur[w] \in Chans /\ renames[w] \in Nat /\ name[cur[w]] = renames[w]
  BY <1>1, WriterFacts DEF NameInv, WriterNamed
<1>4. WriterNamed'
  <2> SUFFICES ASSUME NEW v \in Writers
               PROVE  /\ wpc[v] = "new" => renames'[v] = 0
                      /\ wpc[v] # "new" => owner[cur[v]] = v /\ name'[cur[v]] = renames'[v]
                      /\ wpc[v] = "replace" => propCopy[v] = renames'[v]
    BY <1>2 DEF WriterNamed
  <2>1. CASE v = w
    <3>1. name'[cur[w]] = renames[w] + 1 /\ renames'[w] = renames[w] + 1
      BY <1>2, <1>3 DEF TInv, TypeOK, ChannelTypes, WriterTypes
    <3> QED BY <1>1, <2>1, <3>1 DEF NameInv, WriterNamed
  <2>2. CASE v # w
    <3>1. renames'[v] = renames[v]
      BY <1>2, <2>2 DEF TInv, TypeOK, WriterTypes
    <3>2. ASSUME wpc[v] # "new" PROVE name'[cur[v]] = name[cur[v]]
      <4>1. owner[cur[v]] = v /\ owner[cur[w]] = w /\ cur[v] \in Chans
        BY <1>1, <3>2, WriterFacts DEF NameInv, WriterNamed
      <4> QED BY <1>2, <2>2, <4>1 DEF TInv, TypeOK, ChannelTypes
    <3> QED BY <3>1, <3>2 DEF NameInv, WriterNamed
  <2> QED BY <2>1, <2>2
<1>5. QueueNamed'
  <2> SUFFICES ASSUME NEW c \in Chans, NEW k \in DOMAIN unread[c]
               PROVE  unread[c][k].named <= name'[c]
    BY <1>2 DEF NameInv, QueueNamed
  <2>1. unread[c][k].named <= name[c]
    BY DEF NameInv, QueueNamed
  <2>2. CASE c = cur[w]
    <3>1. name'[c] = renames[w] + 1
      BY <1>2, <2>2 DEF TInv, TypeOK, ChannelTypes
    <3>2. unread[c][k].named \in Int
      <4>1. unread[c][k] \in Events
        BY QueueTypes
      <4> QED BY <4>1 DEF Events
    <3> QED BY <1>3, <2>1, <2>2, <3>1, <3>2
  <2>3. CASE c # cur[w]
    BY <1>2, <2>1, <2>3 DEF TInv, TypeOK, ChannelTypes
  <2> QED BY <2>2, <2>3
<1>6. BatchNamed' /\ NewEventsCarryName'
  BY <1>1, <1>2 DEF NameInv, BatchNamed, NewEventsCarryName
<1> QED BY <1>4, <1>5, <1>6 DEF NameInv

\* The event is as new as the name of the channel it is added to.
LEMMA CommitNames ==
  ASSUME TInv, NameInv, NEW w \in Writers, Commit(w)
  PROVE  NameInv'
<1> DEFINE c == cur[w]
           e == [num |-> committed[w] + 1, source |-> sidv[w],
                 site |-> site[w], named |-> renames[w]]
<1>1. wpc[w] # "new" /\ c \in Chans /\ c \in 1..nchans /\ nchans \in Nat /\ renames[w] \in Nat
  BY WriterFacts DEF Commit
<1>2. /\ unread' = [unread EXCEPT ![c] = Append(unread[c], e)]
      /\ UNCHANGED <<nchans, owner, name, cur, renames, channels, cpc, pos, batch, out>>
      /\ wpc' = [wpc EXCEPT ![w] = "idle"] /\ propCopy' = [propCopy EXCEPT ![w] = 0]
  BY DEF Commit, EndLog, sessionVars, consumerVars
<1>3. e.named = renames[w]
  OBVIOUS
<1> HIDE DEF e
<1>4. WriterNamed'
  <2>1. \A v \in Writers : /\ wpc'[v] = "new" <=> wpc[v] = "new"
                           /\ wpc'[v] = "replace" => wpc[v] = "replace" /\ v # w
    BY <1>1, <1>2 DEF TInv, TypeOK, WriterTypes
  <2>2. \A v \in Writers : v # w => propCopy'[v] = propCopy[v]
    BY <1>2 DEF TInv, TypeOK, WriterTypes
  <2> QED BY <1>2, <2>1, <2>2 DEF NameInv, WriterNamed
<1>5. QueueNamed'
  <2> SUFFICES ASSUME NEW d \in Chans
               PROVE  /\ d > nchans => unread'[d] = <<>>
                      /\ \A k \in DOMAIN unread'[d] : unread'[d][k].named <= name[d]
    BY <1>2 DEF QueueNamed
  <2>1. CASE d = c
    <3>1. unread'[d] = Append(unread[d], e) /\ unread[d] \in Seq(Events)
      BY <1>2, <2>1, QueueTypes DEF TInv, TypeOK, ChannelTypes
    <3>2. ASSUME NEW k \in DOMAIN unread'[d] PROVE unread'[d][k].named <= name[d]
      <4>1. \/ k \in DOMAIN unread[d] /\ unread'[d][k] = unread[d][k]
            \/ unread'[d][k] = e
        BY <3>1
      <4>2. name[d] = renames[w]
        BY <1>1, <2>1 DEF NameInv, WriterNamed
      <4> QED BY <1>1, <1>3, <4>1, <4>2 DEF NameInv, QueueNamed
    <3>3. ~(d > nchans)
      BY <1>1, <2>1
    <3> QED BY <3>2, <3>3
  <2>2. CASE d # c
    <3>1. unread'[d] = unread[d]
      BY <1>2, <2>2 DEF TInv, TypeOK, ChannelTypes
    <3> QED BY <3>1 DEF NameInv, QueueNamed
  <2> QED BY <2>1, <2>2
<1>6. BatchNamed' /\ NewEventsCarryName'
  BY <1>2 DEF NameInv, BatchNamed, NewEventsCarryName
<1> QED BY <1>4, <1>5, <1>6 DEF NameInv

\* replaceChannel copies the name of the writer's channel.
LEMMA CopyPropNames ==
  ASSUME TInv, NameInv, NEW w \in Writers, CopyProp(w)
  PROVE  NameInv'
<1>1. /\ wpc[w] = "event" /\ wpc' = [wpc EXCEPT ![w] = "replace"]
      /\ propCopy' = [propCopy EXCEPT ![w] = name[cur[w]]]
      /\ UNCHANGED <<channels, nchans, owner, name, unread, cur, renames>>
      /\ UNCHANGED <<cpc, pos, batch, out>>
  BY DEF CopyProp, sessionVars, channelVars, consumerVars
<1>2. WriterNamed'
  <2> SUFFICES ASSUME NEW v \in Writers
               PROVE  /\ wpc'[v] = "new" => renames[v] = 0
                      /\ wpc'[v] # "new" => owner[cur[v]] = v /\ name[cur[v]] = renames[v]
                      /\ wpc'[v] = "replace" => propCopy'[v] = renames[v]
    BY <1>1 DEF WriterNamed
  <2>1. CASE v = w
    BY <1>1, <2>1 DEF NameInv, WriterNamed, TInv, TypeOK, WriterTypes
  <2>2. CASE v # w
    BY <1>1, <2>2 DEF NameInv, WriterNamed, TInv, TypeOK, WriterTypes
  <2> QED BY <2>1, <2>2
<1> QED BY <1>1, <1>2 DEF NameInv, QueueNamed, BatchNamed, NewEventsCarryName

\* Other steps of a writer's thread move it on, with its channel and its name.
LEMMA QuietNames ==
  ASSUME TInv, NameInv, NEW w \in Writers,
         UNCHANGED <<nchans, owner, name, unread, cur, renames>>,
         UNCHANGED <<channels, cpc, pos, batch, out>>,
         \A v \in Writers : /\ wpc'[v] = "new" <=> wpc[v] = "new"
                            /\ wpc'[v] = "replace" => wpc[v] = "replace" /\ propCopy'[v] = propCopy[v]
  PROVE  NameInv'
BY DEF NameInv, WriterNamed, QueueNamed, BatchNamed, NewEventsCarryName

\* Those steps.
LEMMA QuietNameSteps ==
  ASSUME TInv, NameInv, NEW w \in Writers,
         \/ CloseWriter(w) \/ (\E s \in Sites : StartLog(w, s)) \/ AddEventSource(w)
         \/ StoreSid(w) \/ ReleaseChannel(w) \/ ReplaceFails(w) \/ DropEvent(w)
  PROVE  NameInv'
<1>1. /\ UNCHANGED <<nchans, owner, name, unread, cur, renames>>
      /\ UNCHANGED <<channels, cpc, pos, batch, out>>
  BY DEF CloseWriter, StartLog, AddEventSource, StoreSid, ReleaseChannel, ReplaceFails,
         DropEvent, sessionVars, channelVars, consumerVars
<1>2. ASSUME NEW v \in Writers
      PROVE  /\ wpc'[v] = "new" <=> wpc[v] = "new"
             /\ wpc'[v] = "replace" => wpc[v] = "replace" /\ propCopy'[v] = propCopy[v]
  <2>1. CASE CloseWriter(w) \/ ReleaseChannel(w) \/ AddEventSource(w)
    BY <2>1 DEF CloseWriter, ReleaseChannel, AddEventSource, TInv, TypeOK, WriterTypes
  <2>2. CASE (\E s \in Sites : StartLog(w, s)) \/ StoreSid(w) \/ ReplaceFails(w)
    BY <2>2 DEF StartLog, StoreSid, ReplaceFails, TInv, TypeOK, WriterTypes
  <2>3. CASE DropEvent(w)
    BY <2>3 DEF DropEvent, EndLog, TInv, TypeOK, WriterTypes
  <2> QED BY <2>1, <2>2, <2>3
<1> QED BY <1>1, <1>2, QuietNames

-----------------------------------------------------------------------------
(* The consumer *)

\* What consume and reconsumeMetadata write before the loop has no events.
LEMMA MetadataNames ==
  ASSUME NEW o \in Seq(Entries), NEW t \in Seq(Entries), Metadata(t),
         \A i \in DOMAIN o : o[i].kind = "batch" =>
           \A k \in DOMAIN o[i].events : o[i].events[k].named <= o[i].name,
         out' = o \o t
  PROVE  NewEventsCarryName'
<1>1. /\ Len(o) \in Nat /\ Len(t) \in Nat /\ out' \in Seq(Entries)
      /\ Len(out') = Len(o) + Len(t)
      /\ \A j \in 1..(Len(o) + Len(t)) :
           out'[j] = IF j <= Len(o) THEN o[j] ELSE t[j - Len(o)]
  BY ConcatProperties
<1>2. ASSUME NEW i \in DOMAIN out', out'[i].kind = "batch"
      PROVE  i \in DOMAIN o /\ out'[i] = o[i]
  <2>1. i \in 1..(Len(o) + Len(t))
    BY <1>1
  <2>2. ASSUME i > Len(o) PROVE FALSE
    <3>1. out'[i] = t[i - Len(o)] /\ i - Len(o) \in 1..Len(t)
      BY <1>1, <2>1, <2>2
    <3> QED BY <1>2, <3>1 DEF Metadata
  <2> QED BY <1>1, <2>1, <2>2
<1> QED BY <1>2 DEF NewEventsCarryName

\* Metadata is written.
LEMMA MetadataStepNames ==
  ASSUME TInv, NameInv, ConsumeStart \/ ConsumeStartThrows \/ Rotate
  PROVE  NameInv'
<1>1. /\ UNCHANGED <<nchans, owner, name, unread, cur, renames, wpc, propCopy>>
      /\ cpc' # "write" \/ UNCHANGED <<channels, cpc, pos, batch>>
  BY DEF ConsumeStart, ConsumeStartThrows, Rotate, Throw, sessionVars, channelVars, writerVars
<1>2. WriterNamed' /\ QueueNamed' /\ BatchNamed'
  BY <1>1 DEF NameInv, WriterNamed, QueueNamed, BatchNamed
<1>3. /\ out \in Seq(Entries) /\ ClockEntries \in Seq(Entries) /\ Metadata(ClockEntries)
      /\ \A i \in DOMAIN out : out[i].kind = "batch" =>
           \A k \in DOMAIN out[i].events : out[i].events[k].named <= out[i].name
  BY SourceTypes, MetadataTypes, MetadataEntries DEF NameInv, NewEventsCarryName
<1>4. CASE ConsumeStart
  <2> DEFINE src == SourceEntries(sourcesConsumed, Len(sources))
  <2>1. Len(sources) \in 0..Len(sources) /\ sourcesConsumed \in 0..Len(sources)
    BY SourceTypes
  <2>2. src \in Seq(Entries) /\ Metadata(src)
    BY <2>1, MetadataTypes, MetadataEntries
  <2>3. ClockEntries \o src \in Seq(Entries) /\ Metadata(ClockEntries \o src)
    <3> HIDE DEF src
    <3>1. /\ Len(ClockEntries) \in Nat /\ Len(src) \in Nat
          /\ ClockEntries \o src \in Seq(Entries)
          /\ Len(ClockEntries \o src) = Len(ClockEntries) + Len(src)
          /\ \A j \in 1..(Len(ClockEntries) + Len(src)) :
               (ClockEntries \o src)[j] =
                 IF j <= Len(ClockEntries) THEN ClockEntries[j] ELSE src[j - Len(ClockEntries)]
      BY <1>3, <2>2, ConcatProperties
    <3>2. \A j \in 1..(Len(ClockEntries) + Len(src)) : (ClockEntries \o src)[j].kind # "batch"
      BY <1>3, <2>2, <3>1 DEF Metadata
    <3> QED BY <3>1, <3>2 DEF Metadata
  <2> HIDE DEF src
  <2>4. out' = out \o (ClockEntries \o src)
    <3>1. out' = (out \o ClockEntries) \o src
      BY <1>4 DEF ConsumeStart, src
    <3> QED BY <1>3, <2>2, <3>1, ConcatAssociative
  <2> QED BY <1>2, <1>3, <2>3, <2>4, MetadataNames DEF NameInv
<1>5. CASE ConsumeStartThrows
  <2>1. CASE out' = out
    BY <1>2, <2>1 DEF NameInv, NewEventsCarryName
  <2>2. CASE out' = out \o ClockEntries
    BY <1>2, <1>3, <2>2, MetadataNames DEF NameInv
  <2> QED BY <1>5, <2>1, <2>2 DEF ConsumeStartThrows
<1>6. CASE Rotate
  <2> DEFINE t == SourceEntries(0, sourcesConsumed)
             o == <<ClockSync(clocks)>>
  <2>1. sourcesConsumed \in 0..Len(sources) /\ 0 \in 0..sourcesConsumed
    BY SourceTypes
  <2>2. t \in Seq(Entries) /\ Metadata(t) /\ o \in Seq(Entries) /\ Metadata(o)
    BY <2>1, MetadataTypes, MetadataEntries
  <2>3. out' = o \o t
    BY <1>6 DEF Rotate
  <2> HIDE DEF o, t
  <2>4. \A i \in DOMAIN o : o[i].kind = "batch" =>
          \A k \in DOMAIN o[i].events : o[i].events[k].named <= o[i].name
    BY <2>2 DEF Metadata
  <2> QED BY <1>2, <2>2, <2>3, <2>4, MetadataNames DEF NameInv
<1> QED BY <1>4, <1>5, <1>6

\* A batch is written under its channel's name.
LEMMA BatchNames ==
  ASSUME TInv, NameInv, cpc = "write", NEW events \in Seq(Events),
         \A k \in DOMAIN events : events[k].named <= name[channels[pos]],
         out' = Append(out, Batch(channels[pos], events))
  PROVE  NewEventsCarryName'
<1> DEFINE b == Batch(channels[pos], events)
<1>1. channels[pos] \in Chans /\ owner[channels[pos]] \in Writers
  BY PollFacts
<1>2. b \in Entries /\ b.events = events /\ b.name = name[channels[pos]]
  BY <1>1, BatchType DEF Batch
<1> HIDE DEF b
<1>3. out \in Seq(Entries) /\ out' = Append(out, b)
  BY SourceTypes DEF b
<1>4. \A i \in DOMAIN out' : (i \in DOMAIN out /\ out'[i] = out[i]) \/ out'[i] = b
  BY <1>2, <1>3
<1> QED BY <1>2, <1>4 DEF NameInv, NewEventsCarryName

\* beginRead: the events read are those of the queue.
LEMMA PollReadNames ==
  ASSUME TInv, NameInv, PollRead
  PROVE  NameInv'
<1> DEFINE c == channels[pos]
<1>1. c \in Chans /\ batch' = SubSeq(unread[c], 1, visible[c])
  BY PollFacts DEF PollRead
<1>2. UNCHANGED <<channels, nchans, owner, name, unread, cur, renames, wpc, propCopy, pos, out>>
  BY DEF PollRead, sessionVars, channelVars, writerVars
<1>3. \A k \in DOMAIN batch' : k \in DOMAIN unread[c] /\ batch'[k] = unread[c][k]
  BY SMTT(30), <1>1, QueueTypes, SubSeqProperties
<1>4. BatchNamed'
  BY <1>1, <1>2, <1>3 DEF NameInv, QueueNamed, BatchNamed
<1> QED BY <1>2, <1>4 DEF NameInv, WriterNamed, QueueNamed, NewEventsCarryName

\* The rest of the iteration: what is left in the queue was there before.
LEMMA PollWriteNames ==
  ASSUME TInv, NameInv, PollWrite
  PROVE  NameInv'
<1> DEFINE c == channels[pos]
<1>1. /\ c \in Chans /\ cpc = "write" /\ cpc' = "poll"
      /\ unread' = [unread EXCEPT ![c] = SubSeq(unread[c], Len(batch) + 1, Len(unread[c]))]
      /\ UNCHANGED <<nchans, owner, name, cur, renames, wpc, propCopy>>
      /\ out' = out \/ out' = Append(out, Batch(c, batch))
  BY PollFacts DEF PollWrite, writerVars
<1>2. WriterNamed' /\ BatchNamed'
  BY <1>1 DEF NameInv, WriterNamed, BatchNamed
<1>3. QueueNamed'
  <2> SUFFICES ASSUME NEW d \in Chans
               PROVE  /\ d > nchans => unread'[d] = <<>>
                      /\ \A k \in DOMAIN unread'[d] : unread'[d][k].named <= name[d]
    BY <1>1 DEF QueueNamed
  <2>1. CASE d = c
    <3>1. Len(batch) \in Nat /\ unread[c] \in Seq(Events) /\ Len(unread[c]) \in Nat
      BY <1>1, QueueTypes, SourceTypes
    <3>2. unread'[d] = SubSeq(unread[c], Len(batch) + 1, Len(unread[c]))
      BY <1>1, <2>1 DEF TInv, TypeOK, ChannelTypes
    <3>3. ASSUME NEW k \in DOMAIN unread'[d]
          PROVE  \E j \in DOMAIN unread[c] : unread'[d][k] = unread[c][j]
      <4>1. k \in 1..(Len(unread[c]) - Len(batch))
        BY <3>1, <3>2, SubSeqProperties
      <4>2. unread'[d][k] = unread[c][Len(batch) + k]
        BY <3>1, <3>2, <4>1, SubSeqProperties
      <4>3. Len(batch) + k \in DOMAIN unread[c]
        BY <3>1, <4>1
      <4> QED BY <4>2, <4>3
    <3>4. ~(d > nchans)
      BY <1>1, <2>1, PollFacts DEF TInv, TypeOK, ChannelTypes
    <3> QED BY <1>1, <2>1, <3>3, <3>4 DEF NameInv, QueueNamed
  <2>2. CASE d # c
    <3>1. unread'[d] = unread[d]
      BY <1>1, <2>2 DEF TInv, TypeOK, ChannelTypes
    <3> QED BY <3>1 DEF NameInv, QueueNamed
  <2> QED BY <2>1, <2>2
<1>4. NewEventsCarryName'
  <2>1. \A k \in DOMAIN batch : batch[k].named <= name[c]
    BY <1>1 DEF NameInv, BatchNamed
  <2>2. CASE out' = out
    BY <2>2 DEF NameInv, NewEventsCarryName
  <2>3. CASE out' = Append(out, Batch(c, batch))
    BY <1>1, <2>1, <2>3, SourceTypes, BatchNames
  <2> QED BY <1>1, <2>2, <2>3
<1> QED BY <1>2, <1>3, <1>4 DEF NameInv

\* A part of the batch is written.
LEMMA PollWriteThrowsNames ==
  ASSUME TInv, NameInv, PollWriteThrows
  PROVE  NameInv'
<1>1. /\ cpc = "write" /\ cpc' = "idle"
      /\ UNCHANGED <<nchans, owner, name, unread, cur, renames, wpc, propCopy>>
  BY DEF PollWriteThrows, Throw, channelVars, writerVars
<1>2. WriterNamed' /\ QueueNamed' /\ BatchNamed'
  BY <1>1 DEF NameInv, WriterNamed, QueueNamed, BatchNamed
<1>3. CASE out' = out
  BY <1>2, <1>3 DEF NameInv, NewEventsCarryName
<1>4. ASSUME NEW n \in 1..Len(batch),
             out' = Append(out, Batch(channels[pos], SubSeq(batch, 1, n - 1)))
      PROVE  NewEventsCarryName'
  <2> DEFINE part == SubSeq(batch, 1, n - 1)
  <2>1. batch \in Seq(Events) /\ Len(batch) \in Nat
    BY SourceTypes
  <2>2. part \in Seq(Events) /\ \A k \in DOMAIN part : k \in DOMAIN batch /\ part[k] = batch[k]
    BY SMTT(30), <2>1, SubSeqProperties
  <2>3. \A k \in DOMAIN part : part[k].named <= name[channels[pos]]
    BY <1>1, <2>2 DEF NameInv, BatchNamed
  <2> QED BY <1>1, <1>4, <2>2, <2>3, BatchNames
<1> QED BY <1>2, <1>3, <1>4 DEF PollWriteThrows, NameInv

-----------------------------------------------------------------------------
(* The theorem *)

\* Every step keeps NameInv.
LEMMA NextNames ==
  ASSUME ~RenameAnytime, TInv, NameInv, [Next]_vars
  PROVE  NameInv'
<1>1. ASSUME NEW w \in Writers, Writer(w) PROVE NameInv'
  <2>1. CASE OpenWriter(w)
    <3>1. renames[w] = 0 /\ CreateChannel(w, 0)
      BY <2>1 DEF OpenWriter, NameInv, WriterNamed
    <3>2. /\ \A v \in Writers : v # w => wpc'[v] = wpc[v]
          /\ wpc'[w] \notin {"new", "replace"}
          /\ UNCHANGED <<renames, propCopy, consumerVars>>
      BY <2>1 DEF OpenWriter, TInv, TypeOK, WriterTypes
    <3> QED BY <3>1, <3>2, CreateNames
  <2>2. CASE ReplaceChannel(w)
    <3>1. propCopy[w] = renames[w] /\ CreateChannel(w, propCopy[w])
      BY <2>2 DEF ReplaceChannel, NameInv, WriterNamed
    <3>2. /\ \A v \in Writers : v # w => wpc'[v] = wpc[v]
          /\ wpc'[w] \notin {"new", "replace"}
          /\ UNCHANGED <<renames, propCopy, consumerVars>>
      BY <2>2 DEF ReplaceChannel, TInv, TypeOK, WriterTypes
    <3> QED BY <3>1, <3>2, CreateNames
  <2>3. CASE SetName(w) \/ Commit(w) \/ CopyProp(w)
    BY <2>3, SetNameNames, CommitNames, CopyPropNames
  <2>4. CASE \/ CloseWriter(w) \/ (\E s \in Sites : StartLog(w, s)) \/ AddEventSource(w)
             \/ StoreSid(w) \/ ReleaseChannel(w) \/ ReplaceFails(w) \/ DropEvent(w)
    BY <2>4, QuietNameSteps
  <2> QED BY <1>1, <2>1, <2>2, <2>3, <2>4 DEF Writer
<1>2. CASE Memory \/ SetClockSync \/ PollClosed \/ PollNull \/ ConsumeEnd \/ UNCHANGED vars
  <2>1. /\ UNCHANGED <<nchans, owner, name, unread, cur, renames, wpc, propCopy, out>>
        /\ cpc' # "write" \/ UNCHANGED <<channels, cpc, pos, batch>>
    BY <1>2 DEF Memory, EventArrives, CloseArrives, SetClockSync, PollClosed, PollNull,
           ConsumeEnd, vars, sessionVars, channelVars, writerVars, consumerVars
  <2> QED BY <2>1 DEF NameInv, WriterNamed, QueueNamed, BatchNamed, NewEventsCarryName
<1>3. CASE ConsumeStart \/ ConsumeStartThrows \/ Rotate
  BY <1>3, MetadataStepNames
<1>4. CASE PollRead \/ PollWrite \/ PollWriteThrows
  BY <1>4, PollReadNames, PollWriteNames, PollWriteThrowsNames
<1> QED BY <1>1, <1>2, <1>3, <1>4 DEF Next, Poll

\* NewEventsCarryName holds for any number of renames, replaced channels and
\* failing writes, if setName is called by the thread that logs: an event never
\* appears under a name that was replaced before it was logged.
THEOREM NamesAreCurrent ==
  ASSUME ~RenameAnytime
  PROVE  Spec => []NewEventsCarryName
<1>1. Init => NameInv
  <2> SUFFICES ASSUME Init PROVE NameInv
    OBVIOUS
  <2>1. WriterNamed
    BY DEF Init, WriterNamed
  <2>2. QueueNamed
    BY DEF Init, QueueNamed
  <2> QED BY <2>1, <2>2 DEF Init, NameInv, BatchNamed, NewEventsCarryName
<1>2. NameInv => NewEventsCarryName
  BY DEF NameInv
<1>3. TInv /\ NameInv /\ [Next]_vars => NameInv'
  BY NextNames
<1> QED BY <1>1, <1>2, <1>3, SessionInvT, PTL DEF Spec

-----------------------------------------------------------------------------
(***************************************************************************)
(* No committed event is lost, if the machine keeps the order of the two   *)
(* loads of consume (LoadsInOrder).                                        *)
(*                                                                         *)
(* A writer commits to a channel it holds and consume knows.  When consume *)
(* finds a channel abandoned, all that will ever be in it is visible: the  *)
(* read that follows gets everything, and removing the channel loses       *)
(* nothing.  Until then the channel stays in _channels.                    *)
(***************************************************************************)

\* A writer in use holds a channel of its own that consume knows.
Holding ==
  \A w \in Writers : wpc[w] \notin {"new", "closed"} =>
    held[cur[w]] /\ owner[cur[w]] = w /\ Listed(cur[w])

\* A channel seen to be abandoned is not written any more, and nothing in it
\* is hidden from the consumer.
ClosedVisible ==
  \A c \in Chans : closeSeen[c] =>
    c <= nchans /\ ~held[c] /\ visible[c] = Len(unread[c])

\* consume finds closed only what is.
ClosedPolled ==
  (cpc \in {"read", "write"} /\ isClosed) => closeSeen[channels[pos]]

\* The batch is the front of the queue, and all of it if the channel is closed.
BatchIsFront ==
  cpc = "write" =>
    /\ \A k \in DOMAIN batch : batch[k] = unread[channels[pos]][k]
    /\ isClosed => Len(batch) = Len(unread[channels[pos]])

LossInv == Holding /\ ClosedVisible /\ ClosedPolled /\ BatchIsFront /\ NoEventLost

\* The two places of a committed event.
Written(w, n) == \E i \in DOMAIN delivered[w] : delivered[w][i] = n
Kept(w, n) ==
  \E c \in Chans : /\ Listed(c) /\ owner[c] = w
                   /\ \E k \in DOMAIN unread[c] : unread[c][k].num = n

\* Listed, of any vector of channels.
In(cs, c) == \E p \in DOMAIN cs : cs[p] = c

\* NoEventLost in these words.
LEMMA LostOrNot ==
  NoEventLost <=> \A w \in Writers : \A n \in 1..committed[w] : Written(w, n) \/ Kept(w, n)
BY DEF NoEventLost, Written, Kept

\* A new session has no channels and no events.
LEMMA InitLoss == Init => LossInv
<1> SUFFICES ASSUME Init PROVE LossInv
  OBVIOUS
<1>1. Holding
  BY DEF Init, Holding
<1>2. ClosedVisible
  BY DEF Init, ClosedVisible
<1>3. ClosedPolled /\ BatchIsFront
  BY DEF Init, ClosedPolled, BatchIsFront
<1>4. NoEventLost
  BY DEF Init, NoEventLost
<1> QED BY <1>1, <1>2, <1>3, <1>4 DEF LossInv

-----------------------------------------------------------------------------
(* Channels come and go *)

\* A channel that consume knows exists.
LEMMA ListedExists ==
  ASSUME TInv, NEW c \in Chans, Listed(c)
  PROVE  c \in 1..nchans /\ nchans \in Nat
<1>1. PICK p \in DOMAIN channels : channels[p] = c
  BY DEF Listed
<1>2. c \in 0..nchans
  BY <1>1, ListedIsChan
<1>3. nchans \in Nat
  BY SessionAssumption DEF TInv, TypeOK, ChannelTypes
<1> QED BY <1>2, <1>3 DEF Chans

\* createChannel keeps the channels there were and lists the new one.
LEMMA CreateLists ==
  ASSUME TInv, NEW w \in Writers, NEW n \in 0..MaxRenames, CreateChannel(w, n)
  PROVE  /\ \A c \in Chans : Listed(c) => In(channels', c)
         /\ In(channels', nchans')
         /\ \A c \in 1..nchans : c # nchans' /\ owner'[c] = owner[c] /\ held'[c] = held[c]
         /\ owner'[nchans'] = w /\ held'[nchans'] /\ nchans' = nchans + 1
         /\ nchans \in Nat /\ nchans' \in Chans
<1>1. /\ nchans' = nchans + 1 /\ nchans' \in Chans
      /\ channels' = Append(channels, nchans') /\ channels \in Seq(0..nchans')
      /\ Len(channels) \in Nat
  BY CreateChannelT
<1>2. nchans \in Nat
  BY SessionAssumption DEF TInv, TypeOK, ChannelTypes
<1>3. /\ \A p \in DOMAIN channels : p \in DOMAIN channels' /\ channels'[p] = channels[p]
      /\ Len(channels) + 1 \in DOMAIN channels' /\ channels'[Len(channels) + 1] = nchans'
  <2>1. nchans' \in 0..nchans'
    BY <1>1, <1>2
  <2> QED BY <1>1, <2>1, AppendProperties
<1>4. /\ owner' = [owner EXCEPT ![nchans'] = w]
      /\ held' = [held EXCEPT ![nchans'] = TRUE]
  BY DEF CreateChannel
<1>5. ASSUME NEW c \in 1..nchans
      PROVE  c # nchans' /\ owner'[c] = owner[c] /\ held'[c] = held[c]
  <2>1. c \in Chans /\ c # nchans'
    <3>1. nchans + 1 \in 1..MaxChannels /\ MaxChannels \in Nat
      BY <1>1, SessionAssumption DEF Chans
    <3> QED BY <1>1, <1>2, <3>1 DEF Chans
  <2> QED BY <1>4, <2>1 DEF TInv, TypeOK, ChannelTypes
<1>6. owner'[nchans'] = w /\ held'[nchans']
  BY <1>1, <1>4 DEF TInv, TypeOK, ChannelTypes
<1>7. \A c \in Chans : Listed(c) => In(channels', c)
  BY <1>3 DEF Listed, In
<1>8. In(channels', nchans')
  BY <1>3 DEF Listed, In
<1> QED BY <1>1, <1>2, <1>5, <1>6, <1>7, <1>8

\* A writer that is constructed, or whose channel is replaced, moves to a
\* channel of its own; the one it had stays.
LEMMA CreateLoss ==
  ASSUME TInv, LossInv, NEW w \in Writers, NEW n \in 0..MaxRenames, CreateChannel(w, n),
         \A v \in Writers : v # w => wpc'[v] = wpc[v],
         UNCHANGED <<committed, consumerVars>>
  PROVE  LossInv'
<1>1. /\ \A c \in Chans : Listed(c) => In(channels', c)
      /\ In(channels', nchans')
      /\ \A c \in 1..nchans : c # nchans' /\ owner'[c] = owner[c] /\ held'[c] = held[c]
      /\ owner'[nchans'] = w /\ held'[nchans'] /\ nchans' = nchans + 1
      /\ nchans \in Nat /\ nchans' \in Chans
  BY CreateLists
<1>2. cur' = [cur EXCEPT ![w] = nchans'] /\ UNCHANGED <<unread, closeSeen>> /\ cpc = "idle"
  BY DEF CreateChannel, MutexFree
<1>3. UNCHANGED <<cpc, pos, isClosed, batch, delivered>>
  BY DEF consumerVars
<1>4. Holding'
  <2> SUFFICES ASSUME NEW v \in Writers, wpc'[v] \notin {"new", "closed"}
               PROVE  held'[cur'[v]] /\ owner'[cur'[v]] = v /\ In(channels', cur'[v])
    BY DEF Holding, Listed, In
  <2>1. CASE v = w
    <3>1. cur'[v] = nchans'
      BY <1>2, <2>1 DEF TInv, TypeOK, WriterTypes
    <3> QED BY <1>1, <2>1, <3>1
  <2>2. CASE v # w
    <3>1. cur'[v] = cur[v] /\ wpc[v] \notin {"new", "closed"}
      BY <1>2, <2>2 DEF TInv, TypeOK, WriterTypes
    <3>2. cur[v] \in 1..nchans /\ cur[v] \in Chans
      BY <3>1, WriterFacts
    <3>3. held[cur[v]] /\ owner[cur[v]] = v /\ Listed(cur[v])
      BY <3>1 DEF LossInv, Holding
    <3> QED BY <1>1, <3>1, <3>2, <3>3
  <2> QED BY <2>1, <2>2
<1>5. ClosedVisible'
  <2> SUFFICES ASSUME NEW c \in Chans, closeSeen[c]
               PROVE  c <= nchans' /\ ~held'[c] /\ visible'[c] = Len(unread[c])
    BY <1>2 DEF ClosedVisible
  <2>1. c <= nchans /\ ~held[c] /\ visible[c] = Len(unread[c])
    BY DEF LossInv, ClosedVisible
  <2>2. c \in 1..nchans
    BY <1>1, <2>1 DEF Chans
  <2>3. visible'[c] = Len(unread[c])
    BY <2>1 DEF CreateChannel, PublishByMutex
  <2> QED BY <1>1, <2>1, <2>2, <2>3
<1>6. ClosedPolled' /\ BatchIsFront'
  BY <1>2, <1>3 DEF ClosedPolled, BatchIsFront
<1>7. NoEventLost'
  <2>1. ASSUME NEW v \in Writers, NEW m \in 1..committed[v]
        PROVE  Written(v, m)' \/ Kept(v, m)'
    <3>1. CASE Written(v, m)
      BY <1>3, <3>1 DEF Written
    <3>2. CASE Kept(v, m)
      <4>1. PICK c \in Chans : /\ Listed(c) /\ owner[c] = v
                               /\ \E k \in DOMAIN unread[c] : unread[c][k].num = m
        BY <3>2 DEF Kept
      <4>2. In(channels', c) /\ owner'[c] = v
        BY <1>1, <4>1, ListedExists
      <4> QED BY <1>2, <4>1, <4>2 DEF Kept, Listed, In
    <3> QED BY <3>1, <3>2, LostOrNot DEF LossInv
  <2>2. \A v \in Writers : \A m \in 1..committed'[v] : Written(v, m)' \/ Kept(v, m)'
    BY <2>1
  <2> QED BY <2>2 DEF NoEventLost, Written, Kept
<1> QED BY <1>4, <1>5, <1>6, <1>7 DEF LossInv

-----------------------------------------------------------------------------
(* The writers' steps *)

\* No thread gets a writer in this step.
NoneStarts ==
  \A v \in Writers :
    wpc'[v] \notin {"new", "closed"} => wpc[v] \notin {"new", "closed"}

\* A step of a thread that keeps its channel: at most its events become visible.
LEMMA QuietLoss ==
  ASSUME TInv, LossInv, NEW w \in Writers,
         NoneStarts,
         UNCHANGED <<channels, nchans, owner, unread, held, closeSeen, cur, committed>>,
         UNCHANGED visible \/ PublishByMutex(w),
         UNCHANGED <<cpc, pos, isClosed, batch, delivered>>
  PROVE  LossInv'
<1>1. Holding'
  BY DEF LossInv, Holding, Listed, NoneStarts
<1>2. ClosedVisible'
  <2> SUFFICES ASSUME NEW c \in Chans, closeSeen[c]
               PROVE  c <= nchans /\ ~held[c] /\ visible'[c] = Len(unread[c])
    BY DEF ClosedVisible
  <2>1. c <= nchans /\ ~held[c] /\ visible[c] = Len(unread[c])
    BY DEF LossInv, ClosedVisible
  <2> QED BY <2>1 DEF PublishByMutex
<1>3. ClosedPolled' /\ BatchIsFront' /\ NoEventLost'
  BY DEF LossInv, ClosedPolled, BatchIsFront, NoEventLost, Listed
<1> QED BY <1>1, <1>2, <1>3 DEF LossInv

\* Those steps.
LEMMA QuietWriterSteps ==
  ASSUME TInv, LossInv, NEW w \in Writers,
         \/ SetName(w) \/ (\E s \in Sites : StartLog(w, s)) \/ AddEventSource(w)
         \/ StoreSid(w) \/ CopyProp(w) \/ ReplaceFails(w) \/ DropEvent(w)
  PROVE  LossInv'
<1>1. CASE SetName(w)
  BY <1>1, QuietLoss DEF NoneStarts, SetName, sessionVars, consumerVars
<1>2. ASSUME NEW s \in Sites, StartLog(w, s) PROVE LossInv'
  <2>1. NoneStarts
    BY <1>2 DEF NoneStarts, StartLog, TInv, TypeOK, WriterTypes
  <2> QED BY <1>2, <2>1, QuietLoss DEF StartLog, sessionVars, channelVars, consumerVars
<1>3. CASE AddEventSource(w)
  <2>1. NoneStarts
    BY <1>3 DEF NoneStarts, AddEventSource, TInv, TypeOK, WriterTypes
  <2> QED BY <1>3, <2>1, QuietLoss DEF AddEventSource, consumerVars
<1>4. CASE StoreSid(w)
  <2>1. NoneStarts
    BY <1>4 DEF NoneStarts, StoreSid, TInv, TypeOK, WriterTypes
  <2> QED BY <1>4, <2>1, QuietLoss DEF StoreSid, sessionVars, channelVars, consumerVars
<1>5. CASE CopyProp(w)
  <2>1. NoneStarts
    BY <1>5 DEF NoneStarts, CopyProp, TInv, TypeOK, WriterTypes
  <2> QED BY <1>5, <2>1, QuietLoss DEF CopyProp, sessionVars, channelVars, consumerVars
<1>6. CASE ReplaceFails(w)
  <2>1. NoneStarts
    BY <1>6 DEF NoneStarts, ReplaceFails, TInv, TypeOK, WriterTypes
  <2> QED BY <1>6, <2>1, QuietLoss DEF ReplaceFails, sessionVars, channelVars, consumerVars
<1>7. CASE DropEvent(w)
  <2>1. NoneStarts
    BY <1>7 DEF NoneStarts, DropEvent, EndLog, TInv, TypeOK, WriterTypes
  <2> QED BY <1>7, <2>1, QuietLoss DEF DropEvent, sessionVars, channelVars, consumerVars
<1> QED BY <1>1, <1>2, <1>3, <1>4, <1>5, <1>6, <1>7

\* A writer drops channels it does not use any more; its channel remains listed.
LEMMA DropLoss ==
  ASSUME TInv, LossInv, NEW w \in Writers, CloseWriter(w) \/ ReleaseChannel(w)
  PROVE  LossInv'
<1>1. /\ UNCHANGED <<channels, nchans, owner, unread, visible, closeSeen, cur, committed>>
      /\ UNCHANGED <<cpc, pos, isClosed, batch, delivered>>
  BY DEF CloseWriter, ReleaseChannel, sessionVars, consumerVars
<1>2. /\ NoneStarts
      /\ \A v \in Writers : v # w => wpc'[v] = wpc[v]
  BY DEF CloseWriter, ReleaseChannel, NoneStarts, TInv, TypeOK, WriterTypes
<1>3. \A c \in Chans : held'[c] => held[c]
  BY DEF CloseWriter, ReleaseChannel, TInv, TypeOK, ChannelTypes
<1>4. ASSUME NEW v \in Writers, wpc'[v] \notin {"new", "closed"}
      PROVE  held'[cur[v]] /\ owner[cur[v]] = v /\ Listed(cur[v])
  <2>1. held[cur[v]] /\ owner[cur[v]] = v /\ Listed(cur[v])
    BY <1>2, <1>4 DEF LossInv, Holding, NoneStarts
  <2>2. cur[v] \in Chans
    BY <1>2, <1>4, WriterFacts DEF NoneStarts
  <2>3. CASE CloseWriter(w)
    <3>1. v # w
      BY <1>4, <2>3 DEF CloseWriter, TInv, TypeOK, WriterTypes
    <3>2. cur[v] # cur[w]
      <4>1. owner[cur[w]] = w
        BY <2>3 DEF CloseWriter, LossInv, Holding
      <4> QED BY <2>1, <3>1, <4>1
    <3> QED BY <2>1, <2>2, <2>3, <3>2 DEF CloseWriter, TInv, TypeOK, ChannelTypes
  <2>4. CASE ReleaseChannel(w)
    BY <2>1, <2>2, <2>4 DEF ReleaseChannel
  <2> QED BY <2>1, <2>3, <2>4
<1>5. Holding'
  BY <1>1, <1>4 DEF Holding, Listed
<1>6. ClosedVisible'
  BY <1>1, <1>3 DEF LossInv, ClosedVisible
<1>7. ClosedPolled' /\ BatchIsFront' /\ NoEventLost'
  BY <1>1 DEF LossInv, ClosedPolled, BatchIsFront, NoEventLost, Listed
<1> QED BY <1>5, <1>6, <1>7 DEF LossInv

\* The event is at the end of a queue that is held, hence not seen closed.
LEMMA CommitLoss ==
  ASSUME TInv, LossInv, NEW w \in Writers, Commit(w)
  PROVE  LossInv'
<1> DEFINE c == cur[w]
           e == [num |-> committed[w] + 1, source |-> sidv[w],
                 site |-> site[w], named |-> renames[w]]
<1>1. /\ c \in Chans /\ held[c] /\ owner[c] = w /\ Listed(c) /\ ~closeSeen[c]
      /\ committed[w] \in Nat
  <2>1. c \in Chans /\ wpc[w] \notin {"new", "closed"} /\ committed[w] \in Nat
    BY WriterFacts DEF Commit
  <2> QED BY <2>1 DEF LossInv, Holding, ClosedVisible
<1>2. /\ UNCHANGED <<channels, nchans, owner, visible, held, closeSeen, cur>>
      /\ UNCHANGED <<cpc, pos, isClosed, batch, delivered>>
      /\ unread' = [unread EXCEPT ![c] = Append(unread[c], e)]
      /\ committed' = [committed EXCEPT ![w] = committed[w] + 1]
  BY DEF Commit, sessionVars, consumerVars
<1>3. e.num = committed[w] + 1
  OBVIOUS
<1> HIDE DEF e
<1>4. /\ \A d \in Chans : \A k \in DOMAIN unread[d] :
           k \in DOMAIN unread'[d] /\ unread'[d][k] = unread[d][k]
      /\ \A d \in Chans : d # c => unread'[d] = unread[d]
      /\ \E k \in DOMAIN unread'[c] : unread'[c][k] = e
  <2>1. unread[c] \in Seq(Events) /\ unread'[c] = Append(unread[c], e)
    BY <1>1, <1>2, QueueTypes DEF TInv, TypeOK, ChannelTypes
  <2>2. \A d \in Chans : d # c => unread'[d] = unread[d]
    BY <1>2 DEF TInv, TypeOK, ChannelTypes
  <2>3. /\ \A k \in DOMAIN unread[c] : k \in DOMAIN unread'[c] /\ unread'[c][k] = unread[c][k]
        /\ Len(unread[c]) + 1 \in DOMAIN unread'[c]
        /\ unread'[c][Len(unread[c]) + 1] = e
    BY <2>1
  <2> QED BY <2>2, <2>3
<1>5. Holding'
  <2>1. NoneStarts
    BY DEF NoneStarts, Commit, EndLog, TInv, TypeOK, WriterTypes
  <2> QED BY <1>2, <2>1 DEF LossInv, Holding, Listed, NoneStarts
<1>6. ClosedVisible'
  BY <1>1, <1>2, <1>4 DEF LossInv, ClosedVisible
<1>7. ClosedPolled'
  BY <1>2 DEF LossInv, ClosedPolled
<1>8. BatchIsFront'
  <2> SUFFICES ASSUME cpc = "write"
               PROVE  /\ \A k \in DOMAIN batch : batch[k] = unread'[channels[pos]][k]
                      /\ isClosed => Len(batch) = Len(unread'[channels[pos]])
    BY <1>2 DEF BatchIsFront
  <2> DEFINE d == channels[pos]
  <2>1. d \in Chans
    BY PollFacts
  <2>2. /\ \A k \in DOMAIN batch : batch[k] = unread[d][k]
        /\ isClosed => Len(batch) = Len(unread[d]) /\ closeSeen[d]
    BY DEF LossInv, BatchIsFront, ClosedPolled
  <2>3. \A k \in DOMAIN batch : k \in DOMAIN unread[d]
    <3>1. Len(batch) \in Nat /\ batch \in Seq(Events) /\ Len(batch) <= visible[d]
      BY DEF TInv, TypeOK, ConsumerTypes, Places
    <3> QED BY <2>1, <3>1, QueueTypes
  <2> QED BY <1>1, <1>4, <2>1, <2>2, <2>3
<1>9. NoEventLost'
  <2>1. ASSUME NEW v \in Writers, NEW m \in 1..committed'[v]
        PROVE  Written(v, m)' \/ Kept(v, m)'
    <3>1. ASSUME m \in 1..committed[v] PROVE Written(v, m)' \/ Kept(v, m)'
      <4>1. CASE Written(v, m)
        BY <1>2, <4>1 DEF Written
      <4>2. CASE Kept(v, m)
        BY <1>2, <1>4, <4>2 DEF Kept, Listed
      <4> QED BY <3>1, <4>1, <4>2, LostOrNot DEF LossInv
    <3>2. ASSUME m \notin 1..committed[v] PROVE Kept(v, m)'
      <4>1. v = w /\ m = committed[w] + 1
        BY <1>1, <1>2, <3>2 DEF TInv, TypeOK, WriterTypes
      <4> QED BY <1>1, <1>2, <1>3, <1>4, <4>1 DEF Kept, Listed
    <3> QED BY <3>1, <3>2
  <2> QED BY <2>1 DEF NoEventLost, Written, Kept
<1> QED BY <1>5, <1>6, <1>7, <1>8, <1>9 DEF LossInv

-----------------------------------------------------------------------------
(* What the consumer's thread can see *)

\* An event becomes visible: not of a channel seen closed, where all are.
LEMMA EventArrivesLoss ==
  ASSUME TInv, LossInv, NEW c \in Chans, EventArrives(c)
  PROVE  LossInv'
<1>1. /\ UNCHANGED <<channels, nchans, owner, unread, held, closeSeen, cur, wpc, committed>>
      /\ UNCHANGED <<cpc, pos, isClosed, batch, delivered>>
  BY DEF EventArrives, sessionVars, writerVars, consumerVars
<1>2. ClosedVisible'
  <2> SUFFICES ASSUME NEW d \in Chans, closeSeen[d]
               PROVE  d <= nchans /\ ~held[d] /\ visible'[d] = Len(unread[d])
    BY <1>1 DEF ClosedVisible
  <2>1. d <= nchans /\ ~held[d] /\ visible[d] = Len(unread[d])
    BY DEF LossInv, ClosedVisible
  <2>2. d # c
    BY <2>1, QueueTypes DEF EventArrives
  <2> QED BY <2>1, <2>2 DEF EventArrives, TInv, TypeOK, ChannelTypes
<1> QED BY <1>1, <1>2
       DEF LossInv, Holding, ClosedPolled, BatchIsFront, NoEventLost, Listed

\* That a channel is abandoned becomes visible: with the loads in order, all
\* its events already are.
LEMMA CloseArrivesLoss ==
  ASSUME LoadsInOrder, TInv, LossInv, NEW c \in Chans, CloseArrives(c)
  PROVE  LossInv'
<1>1. /\ UNCHANGED <<channels, nchans, owner, unread, visible, held, cur, wpc, committed>>
      /\ UNCHANGED <<cpc, pos, isClosed, batch, delivered>>
      /\ closeSeen' = [closeSeen EXCEPT ![c] = TRUE]
      /\ c <= nchans /\ ~held[c] /\ visible[c] = Len(unread[c])
  BY DEF CloseArrives, sessionVars, writerVars, consumerVars
<1>2. \A d \in Chans : closeSeen'[d] <=> closeSeen[d] \/ d = c
  BY <1>1 DEF TInv, TypeOK, ChannelTypes
<1>3. ClosedVisible'
  BY <1>1, <1>2 DEF LossInv, ClosedVisible
<1>4. ClosedPolled'
  <2>1. cpc \in {"read", "write"} => channels[pos] \in Chans
    BY PollFacts
  <2> QED BY <1>1, <1>2, <2>1 DEF LossInv, ClosedPolled
<1> QED BY <1>1, <1>3, <1>4
       DEF LossInv, Holding, BatchIsFront, NoEventLost, Listed

-----------------------------------------------------------------------------
(* The steps of consume *)

\* Deliver appends to what was written.
LEMMA DeliverKeeps ==
  ASSUME TInv, NEW c \in Chans, owner[c] \in Writers, NEW events \in Seq(Events),
         NEW o, o = owner[c], Deliver(c, events)
  PROVE  /\ \A w \in Writers : \A n : Written(w, n) => Written(w, n)'
         /\ \A k \in DOMAIN events : \A n : n = events[k].num => Written(o, n)'
<1> DEFINE nums == [i \in 1..Len(events) |-> events[i].num]
<1>1. nums \in Seq(1..MaxEvents) /\ Len(nums) = Len(events) /\ Len(events) \in Nat
  <2>1. ASSUME NEW i \in 1..Len(events) PROVE events[i].num \in 1..MaxEvents
    <3>1. events[i] \in Events
      OBVIOUS
    <3> QED BY <3>1 DEF Events
  <2> QED BY <2>1
<1>2. delivered[o] \in Seq(1..MaxEvents) /\ Len(delivered[o]) \in Nat
  BY DEF TInv, TypeOK, ConsumerTypes
<1>3. delivered' = [delivered EXCEPT ![o] = delivered[o] \o nums]
  BY DEF Deliver
<1> HIDE DEF nums
<1>4. /\ delivered'[o] = delivered[o] \o nums
      /\ \A w \in Writers : w # o => delivered'[w] = delivered[w]
  BY <1>3 DEF TInv, TypeOK, ConsumerTypes
<1>5. /\ \A i \in DOMAIN delivered[o] :
           i \in DOMAIN delivered'[o] /\ delivered'[o][i] = delivered[o][i]
      /\ \A k \in 1..Len(events) :
           /\ Len(delivered[o]) + k \in DOMAIN delivered'[o]
           /\ delivered'[o][Len(delivered[o]) + k] = nums[k]
  BY <1>1, <1>2, <1>4, ConcatProperties
<1>6. \A w \in Writers : \A n : Written(w, n) => Written(w, n)'
  BY <1>4, <1>5 DEF Written
<1>7. \A k \in DOMAIN events : nums[k] = events[k].num
  BY DEF nums
<1>8. \A k \in DOMAIN events : \A n : n = events[k].num => Written(o, n)'
  <2> SUFFICES ASSUME NEW k \in DOMAIN events
               PROVE  \E i \in DOMAIN delivered'[o] : delivered'[o][i] = events[k].num
    BY DEF Written
  <2>1. k \in 1..Len(events)
    OBVIOUS
  <2>2. /\ Len(delivered[o]) + k \in DOMAIN delivered'[o]
        /\ delivered'[o][Len(delivered[o]) + k] = events[k].num
    BY <1>5, <1>7, <2>1
  <2> QED BY <2>2
<1> QED BY <1>6, <1>8

\* A step of consume that leaves channels and queues alone, and does not go on
\* to read or write a channel.
LEMMA QuietConsumerLoss ==
  ASSUME TInv, LossInv,
         UNCHANGED <<channels, nchans, owner, unread, visible, held, closeSeen>>,
         UNCHANGED <<wpc, cur, committed>>,
         UNCHANGED <<cpc, pos, isClosed, batch>> \/ cpc' \notin {"read", "write"},
         \A w \in Writers : \A n : Written(w, n) => Written(w, n)'
  PROVE  LossInv'
<1>1. Holding' /\ ClosedVisible'
  BY DEF LossInv, Holding, ClosedVisible, Listed
<1>2. ClosedPolled' /\ BatchIsFront'
  BY DEF LossInv, ClosedPolled, BatchIsFront
<1>3. NoEventLost'
  <2>1. ASSUME NEW w \in Writers, NEW n \in 1..committed[w]
        PROVE  Written(w, n)' \/ Kept(w, n)'
    <3>1. Kept(w, n) => Kept(w, n)'
      BY DEF Kept, Listed
    <3> QED BY <3>1, LostOrNot DEF LossInv
  <2> QED BY <2>1 DEF NoEventLost, Written, Kept
<1> QED BY <1>1, <1>2, <1>3 DEF LossInv

\* Those steps.
LEMMA QuietConsumerSteps ==
  ASSUME TInv, LossInv,
         \/ SetClockSync \/ Rotate \/ ConsumeStart \/ PollNull \/ ConsumeStartThrows
         \/ PollWriteThrows
  PROVE  LossInv'
<1> DEFINE Same == /\ UNCHANGED <<channels, nchans, owner, unread, visible, held, closeSeen>>
                   /\ UNCHANGED <<wpc, cur, committed>>
<1>1. ASSUME UNCHANGED delivered PROVE \A w \in Writers : \A n : Written(w, n) => Written(w, n)'
  BY <1>1 DEF Written
<1>2. CASE SetClockSync
  BY <1>1, <1>2, QuietConsumerLoss DEF SetClockSync, channelVars, writerVars, consumerVars
<1>3. CASE Rotate
  BY <1>1, <1>3, QuietConsumerLoss DEF Rotate, sessionVars, channelVars, writerVars
<1>4. CASE ConsumeStart
  BY <1>1, <1>4, QuietConsumerLoss DEF ConsumeStart, channelVars, writerVars
<1>5. CASE PollNull
  BY <1>1, <1>5, QuietConsumerLoss DEF PollNull, sessionVars, channelVars, writerVars
<1>6. CASE ConsumeStartThrows
  BY <1>1, <1>6, QuietConsumerLoss DEF ConsumeStartThrows, Throw, channelVars, writerVars
<1>7. CASE PollWriteThrows
  <2>1. Same /\ cpc' \notin {"read", "write"}
    BY <1>7 DEF PollWriteThrows, Throw, sessionVars, channelVars, writerVars
  <2>2. channels[pos] \in Chans /\ owner[channels[pos]] \in Writers
    BY <1>7, PollFacts DEF PollWriteThrows
  <2>3. \A w \in Writers : \A n : Written(w, n) => Written(w, n)'
    <3>1. CASE UNCHANGED delivered
      BY <1>1, <3>1
    <3>2. ASSUME NEW n \in 1..Len(batch), Deliver(channels[pos], SubSeq(batch, 1, n - 1))
          PROVE  \A w \in Writers : \A m : Written(w, m) => Written(w, m)'
      <4>1. SubSeq(batch, 1, n - 1) \in Seq(Events)
        BY SubSeqProperties DEF TInv, TypeOK, ConsumerTypes
      <4> QED BY <2>2, <3>2, <4>1, DeliverKeeps
    <3> QED BY <1>7, <3>1, <3>2 DEF PollWriteThrows
  <2> QED BY <2>1, <2>3, QuietConsumerLoss
<1> QED BY <1>2, <1>3, <1>4, <1>5, <1>6, <1>7

\* use_count() is loaded.
LEMMA PollClosedLoss ==
  ASSUME TInv, LossInv, PollClosed
  PROVE  LossInv'
<1>1. /\ UNCHANGED <<channels, nchans, owner, unread, visible, held, closeSeen>>
      /\ UNCHANGED <<wpc, cur, committed, pos, delivered>> /\ cpc' = "read"
      /\ isClosed' = closeSeen[channels[pos]]
  BY DEF PollClosed, abandoned, sessionVars, channelVars, writerVars
<1> QED BY <1>1
       DEF LossInv, Holding, ClosedVisible, ClosedPolled, BatchIsFront, NoEventLost, Listed

\* beginRead: what is visible, which is all there is if the channel is closed.
LEMMA PollReadLoss ==
  ASSUME TInv, LossInv, PollRead
  PROVE  LossInv'
<1> DEFINE c == channels[pos]
<1>1. /\ UNCHANGED <<channels, nchans, owner, unread, visible, held, closeSeen>>
      /\ UNCHANGED <<wpc, cur, committed, pos, delivered, isClosed>> /\ cpc = "read"
      /\ cpc' = "write" /\ batch' = SubSeq(unread[c], 1, visible[c])
  BY DEF PollRead, sessionVars, channelVars, writerVars
<1>2. c \in Chans
  BY <1>1, PollFacts
<1>3. Len(batch') = visible[c] /\ \A k \in DOMAIN batch' : batch'[k] = unread[c][k]
  BY <1>1, <1>2, QueueTypes, SubSeqProperties
<1>4. isClosed => visible[c] = Len(unread[c])
  BY <1>1, <1>2 DEF LossInv, ClosedPolled, ClosedVisible
<1>5. BatchIsFront'
  BY <1>1, <1>3, <1>4 DEF BatchIsFront
<1> QED BY <1>1, <1>5
       DEF LossInv, Holding, ClosedVisible, ClosedPolled, NoEventLost, Listed

\* What was read is written out; what was not stays, in a channel that is reset
\* only if nothing was left.
LEMMA PollWriteLoss ==
  ASSUME TInv, LossInv, PollWrite
  PROVE  LossInv'
<1> DEFINE c == channels[pos]
           rest == SubSeq(unread[c], Len(batch) + 1, Len(unread[c]))
<1>1. /\ UNCHANGED <<nchans, owner, held, closeSeen, wpc, cur, committed>>
      /\ cpc = "write" /\ cpc' = "poll" /\ Deliver(c, batch)
      /\ unread' = [unread EXCEPT ![c] = rest]
      /\ visible' = [visible EXCEPT ![c] = visible[c] - Len(batch)]
      /\ channels' = [channels EXCEPT ![pos] = IF isClosed THEN 0 ELSE c]
  BY DEF PollWrite, resetIfClosed, writerVars
<1>2. /\ c \in Chans /\ pos \in DOMAIN channels /\ owner[c] \in Writers
      /\ batch \in Seq(Events) /\ Len(batch) \in Nat /\ Len(batch) <= visible[c]
  BY <1>1, PollFacts DEF TInv, TypeOK, ConsumerTypes, Places
<1>3. /\ unread[c] \in Seq(Events) /\ Len(unread[c]) \in Nat /\ visible[c] \in Nat
      /\ visible[c] <= Len(unread[c])
  BY <1>2, QueueTypes
<1>4. /\ \A k \in DOMAIN batch : batch[k] = unread[c][k]
      /\ isClosed => Len(batch) = Len(unread[c]) /\ closeSeen[c]
  BY <1>1 DEF LossInv, BatchIsFront, ClosedPolled
<1>5. /\ Len(rest) = Len(unread[c]) - Len(batch)
      /\ \A k \in DOMAIN unread[c] : k > Len(batch) =>
           k - Len(batch) \in DOMAIN rest /\ rest[k - Len(batch)] = unread[c][k]
  <2>1. /\ rest \in Seq(Events) /\ Len(rest) = Len(unread[c]) - Len(batch)
        /\ \A i \in 1..(Len(unread[c]) - Len(batch)) : rest[i] = unread[c][Len(batch) + i]
    BY <1>2, <1>3, SubSeqProperties
  <2> QED BY <1>2, <1>3, <2>1
<1> HIDE DEF rest
<1>6. \A d \in Chans : Listed(d) /\ (d = c => ~isClosed) => In(channels', d)
  <2> SUFFICES ASSUME NEW d \in Chans, Listed(d), d = c => ~isClosed
               PROVE  In(channels', d)
    OBVIOUS
  <2>1. PICK p \in DOMAIN channels : channels[p] = d
    BY DEF Listed
  <2>2. p \in DOMAIN channels' /\ channels'[p] = d
    BY <1>1, <2>1
  <2> QED BY <2>2 DEF In
<1>7. Holding'
  <2> SUFFICES ASSUME NEW w \in Writers, wpc[w] \notin {"new", "closed"}
               PROVE  held[cur[w]] /\ owner[cur[w]] = w /\ In(channels', cur[w])
    BY <1>1 DEF Holding, Listed, In
  <2>1. held[cur[w]] /\ owner[cur[w]] = w /\ Listed(cur[w]) /\ cur[w] \in Chans
    BY WriterFacts DEF LossInv, Holding
  <2>2. cur[w] = c => ~isClosed
    BY <1>2, <1>4, <2>1 DEF LossInv, ClosedVisible
  <2> QED BY <1>6, <2>1, <2>2
<1>8. ClosedVisible'
  <2> SUFFICES ASSUME NEW d \in Chans, closeSeen[d]
               PROVE  d <= nchans /\ ~held[d] /\ visible'[d] = Len(unread'[d])
    BY <1>1 DEF ClosedVisible
  <2>1. d <= nchans /\ ~held[d] /\ visible[d] = Len(unread[d])
    BY DEF LossInv, ClosedVisible
  <2>2. CASE d = c
    <3>1. visible'[d] = visible[c] - Len(batch) /\ unread'[d] = rest
      BY <1>1, <1>2, <2>2 DEF TInv, TypeOK, ChannelTypes
    <3> QED BY <1>5, <2>1, <2>2, <3>1
  <2>3. CASE d # c
    BY <1>1, <2>1, <2>3 DEF TInv, TypeOK, ChannelTypes
  <2> QED BY <2>2, <2>3
<1>9. ClosedPolled' /\ BatchIsFront'
  BY <1>1 DEF ClosedPolled, BatchIsFront
<1>10. NoEventLost'
  <2>1. ASSUME NEW w \in Writers, NEW n \in 1..committed[w]
        PROVE  Written(w, n)' \/ Kept(w, n)'
    <3>1. CASE Written(w, n)
      BY <1>1, <1>2, <3>1, DeliverKeeps
    <3>2. CASE Kept(w, n)
      <4>1. PICK d \in Chans : /\ Listed(d) /\ owner[d] = w
                               /\ \E k \in DOMAIN unread[d] : unread[d][k].num = n
        BY <3>2 DEF Kept
      <4>2. PICK k \in DOMAIN unread[d] : unread[d][k].num = n
        BY <4>1
      <4>3. CASE d # c
        <5>1. unread'[d] = unread[d] /\ In(channels', d)
          BY <1>1, <1>6, <4>1, <4>3 DEF TInv, TypeOK, ChannelTypes
        <5> QED BY <1>1, <4>1, <4>2, <5>1 DEF Kept, Listed, In
      <4>4. CASE d = c /\ k <= Len(batch)
        <5>1. k \in DOMAIN batch /\ n = batch[k].num
          BY <1>2, <1>3, <1>4, <4>2, <4>4
        <5> QED BY <1>1, <1>2, <4>1, <4>4, <5>1, DeliverKeeps
      <4>5. CASE d = c /\ k > Len(batch)
        <5>1. unread'[c] = rest
          BY <1>1, <1>2 DEF TInv, TypeOK, ChannelTypes
        <5>2. k - Len(batch) \in DOMAIN unread'[d] /\ unread'[d][k - Len(batch)].num = n
          BY <1>5, <4>2, <4>5, <5>1
        <5>3. ~isClosed
          BY <1>2, <1>3, <1>4, <4>2, <4>5
        <5>4. In(channels', d)
          BY <1>6, <4>1, <5>3
        <5> QED BY <1>1, <4>1, <5>2, <5>4 DEF Kept, Listed, In
      <4> QED BY <1>2, <1>3, <4>2, <4>3, <4>4, <4>5
    <3> QED BY <3>1, <3>2, LostOrNot DEF LossInv
  <2> QED BY <1>1, <2>1 DEF NoEventLost, Written, Kept
<1> QED BY <1>7, <1>8, <1>9, <1>10 DEF LossInv

\* Erasing keeps the channels that were not reset.
LEMMA ConsumeEndLoss ==
  ASSUME TInv, LossInv, ConsumeEnd
  PROVE  LossInv'
<1>1. /\ UNCHANGED <<nchans, owner, unread, visible, held, closeSeen>>
      /\ UNCHANGED <<wpc, cur, committed, delivered>> /\ cpc' = "idle" /\ RemovedErased
  BY DEF ConsumeEnd, channelVars, writerVars
<1>2. ASSUME NEW c \in Chans, Listed(c) PROVE In(channels', c)
  <2>1. PICK n \in 0..Len(channels) : \E at \in [1..n -> DOMAIN channels] :
          /\ \A p \in DOMAIN channels : channels[p] # 0 <=> \E i \in 1..n : at[i] = p
          /\ channels' = [i \in 1..n |-> channels[at[i]]]
    BY <1>1 DEF RemovedErased
  <2>2. PICK at \in [1..n -> DOMAIN channels] :
          /\ \A p \in DOMAIN channels : channels[p] # 0 <=> \E i \in 1..n : at[i] = p
          /\ channels' = [i \in 1..n |-> channels[at[i]]]
    BY <2>1
  <2>3. PICK p \in DOMAIN channels : channels[p] = c
    BY <1>2 DEF Listed
  <2>4. c # 0
    BY <1>2, ListedExists
  <2>5. PICK i \in 1..n : at[i] = p
    BY <2>2, <2>3, <2>4
  <2>6. i \in DOMAIN channels' /\ channels'[i] = c
    BY <2>2, <2>3, <2>5
  <2> QED BY <2>6 DEF In
<1>3. Holding'
  <2> SUFFICES ASSUME NEW w \in Writers, wpc[w] \notin {"new", "closed"}
               PROVE  held[cur[w]] /\ owner[cur[w]] = w /\ In(channels', cur[w])
    BY <1>1 DEF Holding, Listed, In
  <2> QED BY <1>2, WriterFacts DEF LossInv, Holding
<1>4. ClosedVisible' /\ ClosedPolled' /\ BatchIsFront'
  BY <1>1 DEF LossInv, ClosedVisible, ClosedPolled, BatchIsFront
<1>5. NoEventLost'
  <2>1. ASSUME NEW w \in Writers, NEW n \in 1..committed[w]
        PROVE  Written(w, n)' \/ Kept(w, n)'
    <3>1. Written(w, n) => Written(w, n)'
      BY <1>1 DEF Written
    <3>2. Kept(w, n) => Kept(w, n)'
      BY <1>1, <1>2 DEF Kept, Listed, In
    <3> QED BY <3>1, <3>2, LostOrNot DEF LossInv
  <2> QED BY <1>1, <2>1 DEF NoEventLost, Written, Kept
<1> QED BY <1>3, <1>4, <1>5 DEF LossInv

-----------------------------------------------------------------------------
(* The theorem *)

\* Every step keeps LossInv.
LEMMA NextLoss ==
  ASSUME LoadsInOrder, TInv, LossInv, [Next]_vars
  PROVE  LossInv'
<1>1. ASSUME NEW w \in Writers, Writer(w) PROVE LossInv'
  <2>1. CASE OpenWriter(w)
    <3>1. CreateChannel(w, 0) /\ 0 \in 0..MaxRenames
      BY <2>1, SessionAssumption DEF OpenWriter
    <3>2. /\ \A v \in Writers : v # w => wpc'[v] = wpc[v]
          /\ UNCHANGED <<committed, consumerVars>>
      BY <2>1 DEF OpenWriter, TInv, TypeOK, WriterTypes
    <3> QED BY <3>1, <3>2, CreateLoss
  <2>2. CASE ReplaceChannel(w)
    <3>1. CreateChannel(w, propCopy[w]) /\ propCopy[w] \in 0..MaxRenames
      BY <2>2, WriterFacts DEF ReplaceChannel
    <3>2. /\ \A v \in Writers : v # w => wpc'[v] = wpc[v]
          /\ UNCHANGED <<committed, consumerVars>>
      BY <2>2 DEF ReplaceChannel, TInv, TypeOK, WriterTypes
    <3> QED BY <3>1, <3>2, CreateLoss
  <2>3. CASE CloseWriter(w) \/ ReleaseChannel(w)
    BY <2>3, DropLoss
  <2>4. CASE Commit(w)
    BY <2>4, CommitLoss
  <2>5. CASE \/ SetName(w) \/ (\E s \in Sites : StartLog(w, s)) \/ AddEventSource(w)
             \/ StoreSid(w) \/ CopyProp(w) \/ ReplaceFails(w) \/ DropEvent(w)
    BY <2>5, QuietWriterSteps
  <2> QED BY <1>1, <2>1, <2>2, <2>3, <2>4, <2>5 DEF Writer
<1>2. CASE Memory
  BY <1>2, EventArrivesLoss, CloseArrivesLoss DEF Memory
<1>3. CASE \/ SetClockSync \/ Rotate \/ ConsumeStart \/ PollNull \/ ConsumeStartThrows
           \/ PollWriteThrows
  BY <1>3, QuietConsumerSteps
<1>4. CASE PollClosed \/ PollRead \/ PollWrite \/ ConsumeEnd
  BY <1>4, PollClosedLoss, PollReadLoss, PollWriteLoss, ConsumeEndLoss
<1>5. CASE UNCHANGED vars
  BY <1>5 DEF vars, sessionVars, channelVars, writerVars, consumerVars, LossInv, Holding,
              ClosedVisible, ClosedPolled, BatchIsFront, NoEventLost, Listed
<1> QED BY <1>1, <1>2, <1>3, <1>4, <1>5 DEF Next, Poll

\* NoEventLost holds for any number of writers, channels, failing writes and
\* calls of consume, on a machine that keeps the order of the two loads: a
\* committed event is written or remains in a channel that Session knows.
THEOREM NothingLost ==
  ASSUME LoadsInOrder
  PROVE  Spec => []NoEventLost
<1>1. LossInv => NoEventLost
  BY DEF LossInv
<1>2. TInv /\ LossInv /\ [Next]_vars => LossInv'
  BY NextLoss
<1> QED BY <1>1, <1>2, InitLoss, SessionInvT, PTL DEF Spec

-----------------------------------------------------------------------------
(***************************************************************************)
(* A writer's events are written in the order it logged them, if the       *)
(* machine keeps the order of the two loads of consume (LoadsInOrder): once *)
(* each while no write threw, and otherwise none before its predecessor.   *)
(*                                                                         *)
(* A writer leaves a channel by locking the mutex, so all of a channel     *)
(* that was replaced is visible when consume next runs.  consume goes      *)
(* through the channels in the order they were created: when it writes one *)
(* of them, the older ones of the same writer are empty.  The event before *)
(* the first one of a queue is therefore written already.                  *)
(***************************************************************************)
(* The invariant *)

\* A channel that its writer does not use any more.
Replaced(c) == c # cur[owner[c]]

Busy == cpc \in {"poll", "read", "write"}

\* consume will come to channel c, now or in a later call.
Due(c) == \E p \in DOMAIN channels : channels[p] = c /\ (Busy => p >= pos)

\* Channels belong to writers in use, which use the youngest of theirs.
Owned ==
  /\ \A w \in Writers : IF wpc[w] = "new" THEN cur[w] = 0 /\ committed[w] = 0
                                          ELSE owner[cur[w]] = w
  /\ \A c \in 1..nchans : c <= cur[owner[c]]
  /\ \A c \in Chans : c > nchans => unread[c] = <<>>

\* consume knows the channels in the order they were created.
Sorted ==
  \A p, q \in DOMAIN channels :
    p < q /\ channels[p] # 0 /\ channels[q] # 0 => channels[p] < channels[q]

\* All of a replaced channel is visible, and is read at once: what is left in
\* one is still to come.
Emptied ==
  /\ \A c \in 1..nchans : Replaced(c) =>
       /\ visible[c] = Len(unread[c])
       /\ unread[c] # <<>> => Due(c)
  /\ cpc = "write" /\ Replaced(channels[pos]) => Len(batch) = Len(unread[channels[pos]])

\* The events of a queue are consecutive; those of an older channel of the
\* writer precede them; the last one is the one committed last.
Numbered ==
  /\ \A c \in Chans : \A j, k \in DOMAIN unread[c] :
       unread[c][k].num - unread[c][j].num = k - j
  /\ \A c, d \in 1..nchans : c < d /\ owner[c] = owner[d] =>
       \A j \in DOMAIN unread[c] : \A k \in DOMAIN unread[d] :
         unread[c][j].num < unread[d][k].num
  /\ \A c \in 1..nchans : \A k \in DOMAIN unread[c] :
       unread[c][k].num <= committed[owner[c]]
  /\ \A w \in Writers : wpc[w] # "new" /\ unread[cur[w]] # <<>> =>
       unread[cur[w]][Len(unread[cur[w]])].num = committed[w]

\* The event before number n of channel c's writer was written, or is in an
\* older channel.
Preceded(c, n) ==
  \/ n = 1
  \/ Written(owner[c], n - 1)
  \/ \E d \in 1..nchans : /\ d < c /\ owner[d] = owner[c]
                          /\ \E k \in DOMAIN unread[d] : unread[d][k].num = n - 1

NoGaps ==
  /\ \A c \in 1..nchans : unread[c] # <<>> => Preceded(c, unread[c][1].num)
  /\ \A w \in Writers : wpc[w] # "new" /\ unread[cur[w]] = <<>> =>
       Preceded(cur[w], committed[w] + 1)

\* No event is written before its predecessor.
InTurn ==
  \A w \in Writers : \A i \in DOMAIN delivered[w] : delivered[w][i] > 1 =>
    \E j \in 1..(i - 1) : delivered[w][j] = delivered[w][i] - 1

\* While no write threw, each is written once.
Once ==
  failures = 0 =>
    /\ \A w \in Writers : /\ Len(delivered[w]) <= committed[w]
                          /\ \A i \in DOMAIN delivered[w] : delivered[w][i] = i
    /\ \A c \in 1..nchans : \A k \in DOMAIN unread[c] :
         unread[c][k].num > Len(delivered[owner[c]])

OrderInv == Owned /\ Sorted /\ Emptied /\ Numbered /\ NoGaps /\ InTurn /\ Once

-----------------------------------------------------------------------------
(* Channels and their queues *)

\* The types of what the lemmas below are about.
LEMMA ChanFacts ==
  ASSUME TInv, NEW c \in 1..nchans
  PROVE  /\ c \in Chans /\ c \in Nat /\ nchans \in Nat /\ owner[c] \in Writers
         /\ cur[owner[c]] \in 0..nchans /\ committed[owner[c]] \in Nat
         /\ unread[c] \in Seq(Events) /\ Len(unread[c]) \in Nat
         /\ delivered[owner[c]] \in Seq(1..MaxEvents) /\ Len(delivered[owner[c]]) \in Nat
<1>1. nchans \in 0..MaxChannels /\ MaxChannels \in Nat
  BY SessionAssumption DEF TInv, TypeOK, ChannelTypes
<1>2. c \in Chans /\ c \in Nat /\ nchans \in Nat
  BY <1>1 DEF Chans
<1>3. owner[c] \in Writers
  BY DEF TInv, Places
<1>4. /\ cur[owner[c]] \in 0..nchans /\ committed[owner[c]] \in Nat
      /\ delivered[owner[c]] \in Seq(1..MaxEvents) /\ Len(delivered[owner[c]]) \in Nat
  <2>1. /\ cur \in [Writers -> 0..nchans] /\ committed \in [Writers -> 0..MaxEvents]
        /\ MaxEvents \in Nat
    BY SessionAssumption DEF TInv, TypeOK, WriterTypes
  <2>2. delivered \in [Writers -> Seq(1..MaxEvents)]
    BY DEF TInv, TypeOK, ConsumerTypes
  <2>3. cur[owner[c]] \in 0..nchans /\ committed[owner[c]] \in Nat
    BY <1>3, <2>1
  <2>4. delivered[owner[c]] \in Seq(1..MaxEvents)
    BY <1>3, <2>2
  <2> QED BY <2>3, <2>4
<1>5. unread[c] \in Seq(Events) /\ Len(unread[c]) \in Nat
  BY <1>2, QueueTypes
<1> QED BY <1>2, <1>3, <1>4, <1>5

\* The number of an event in a queue, and the ends of a queue.
LEMMA NumFacts ==
  ASSUME TInv, NEW c \in Chans
  PROVE  /\ unread[c] \in Seq(Events) /\ Len(unread[c]) \in Nat
         /\ \A k \in DOMAIN unread[c] : unread[c][k].num \in Nat /\ k \in 1..Len(unread[c])
         /\ unread[c] # <<>> => /\ 1 \in DOMAIN unread[c]
                                /\ Len(unread[c]) \in DOMAIN unread[c]
         /\ unread[c] = <<>> <=> Len(unread[c]) = 0
<1>1. unread[c] \in Seq(Events) /\ Len(unread[c]) \in Nat
  BY QueueTypes
<1>2. \A k \in DOMAIN unread[c] : unread[c][k].num \in Nat
  <2> SUFFICES ASSUME NEW k \in DOMAIN unread[c] PROVE unread[c][k].num \in Nat
    OBVIOUS
  <2>1. unread[c][k] \in Events
    BY <1>1
  <2> QED BY <2>1 DEF Events
<1> QED BY <1>1, <1>2, EmptySeq

\* The older channels of the writer whose channel is written are empty.
LEMMA OlderEmpty ==
  ASSUME TInv, OrderInv, cpc = "write", NEW d \in 1..nchans,
         d < channels[pos], owner[d] = owner[channels[pos]]
  PROVE  unread[d] = <<>>
<1> DEFINE c == channels[pos]
<1>1. /\ pos \in 1..Len(channels) /\ c \in 1..nchans /\ channels \in Seq(0..nchans)
      /\ nchans \in Nat
  BY PollFacts, ChanFacts
<1>2. Replaced(d)
  BY <1>1, ChanFacts DEF OrderInv, Owned, Replaced
<1> SUFFICES ASSUME unread[d] # <<>> PROVE FALSE
  OBVIOUS
<1>3. PICK p \in DOMAIN channels : channels[p] = d /\ p >= pos
  BY <1>2 DEF OrderInv, Emptied, Due, Busy
<1>4. p # pos /\ pos < p /\ pos \in DOMAIN channels
  BY <1>1, <1>3
<1>5. channels[pos] # 0 /\ channels[p] # 0
  BY <1>1, <1>3
<1>6. c < d
  BY <1>3, <1>4, <1>5 DEF OrderInv, Sorted
<1> QED BY <1>1, <1>6

-----------------------------------------------------------------------------
(* Steps that keep the queues *)

\* Steps that at most make events visible.
LEMMA QuietOrder ==
  ASSUME OrderInv,
         UNCHANGED <<channels, nchans, owner, unread, cur, committed>>,
         UNCHANGED <<cpc, pos, batch, delivered, failures>>,
         \A w \in Writers : wpc'[w] = "new" <=> wpc[w] = "new",
         \A c \in 1..nchans : visible[c] = Len(unread[c]) => visible'[c] = visible[c]
  PROVE  OrderInv'
<1>1. Owned' /\ Sorted'
  BY DEF OrderInv, Owned, Sorted
<1>2. Emptied'
  BY DEF OrderInv, Emptied, Replaced, Due, Busy
<1>3. Numbered'
  BY DEF OrderInv, Numbered
<1>4. NoGaps'
  BY DEF OrderInv, NoGaps, Preceded, Written
<1>5. InTurn' /\ Once'
  BY DEF OrderInv, InTurn, Once
<1> QED BY <1>1, <1>2, <1>3, <1>4, <1>5 DEF OrderInv

\* Those steps of the writers.
LEMMA QuietOrderSteps ==
  ASSUME TInv, OrderInv, NEW w \in Writers,
         \/ CloseWriter(w) \/ SetName(w) \/ (\E s \in Sites : StartLog(w, s))
         \/ AddEventSource(w) \/ StoreSid(w) \/ CopyProp(w) \/ ReleaseChannel(w)
         \/ ReplaceFails(w) \/ DropEvent(w)
  PROVE  OrderInv'
<1>1. /\ UNCHANGED <<channels, nchans, owner, unread, cur, committed>>
      /\ UNCHANGED <<cpc, pos, batch, delivered, failures>>
      /\ UNCHANGED visible \/ PublishByMutex(w)
  BY DEF CloseWriter, SetName, StartLog, AddEventSource, StoreSid, CopyProp, ReleaseChannel,
         ReplaceFails, DropEvent, sessionVars, channelVars, consumerVars
<1>2. ASSUME NEW v \in Writers PROVE wpc'[v] = "new" <=> wpc[v] = "new"
  <2>1. CASE CloseWriter(w) \/ SetName(w) \/ AddEventSource(w) \/ ReleaseChannel(w)
    BY <2>1 DEF CloseWriter, SetName, AddEventSource, ReleaseChannel, TInv, TypeOK, WriterTypes
  <2>2. CASE \/ (\E s \in Sites : StartLog(w, s)) \/ StoreSid(w) \/ CopyProp(w)
             \/ ReplaceFails(w)
    BY <2>2 DEF StartLog, StoreSid, CopyProp, ReplaceFails, TInv, TypeOK, WriterTypes
  <2>3. CASE DropEvent(w)
    BY <2>3 DEF DropEvent, EndLog, TInv, TypeOK, WriterTypes
  <2> QED BY <2>1, <2>2, <2>3
<1>3. ASSUME NEW c \in 1..nchans, visible[c] = Len(unread[c]) PROVE visible'[c] = visible[c]
  BY <1>1, <1>3, ChanFacts DEF PublishByMutex
<1> QED BY <1>1, <1>2, <1>3, QuietOrder

\* What becomes visible was hidden, and is not of a replaced channel.
LEMMA MemoryOrder ==
  ASSUME TInv, OrderInv, Memory
  PROVE  OrderInv'
<1>1. /\ UNCHANGED <<channels, nchans, owner, unread, cur, committed, wpc>>
      /\ UNCHANGED <<cpc, pos, batch, delivered, failures>>
  BY DEF Memory, EventArrives, CloseArrives, sessionVars, writerVars, consumerVars
<1>2. ASSUME NEW c \in 1..nchans, visible[c] = Len(unread[c]) PROVE visible'[c] = visible[c]
  <2>1. PICK d \in Chans : EventArrives(d) \/ CloseArrives(d)
    BY DEF Memory
  <2>2. CASE CloseArrives(d)
    BY <2>2 DEF CloseArrives
  <2>3. CASE EventArrives(d)
    <3>1. visible[d] < Len(unread[d]) /\ visible' = [visible EXCEPT ![d] = @ + 1]
      BY <2>3 DEF EventArrives
    <3>2. c # d
      BY <1>2, <3>1, QueueTypes
    <3> QED BY <3>1, <3>2, ChanFacts DEF TInv, TypeOK, ChannelTypes
  <2> QED BY <2>1, <2>2, <2>3
<1> QED BY <1>1, <1>2, QuietOrder

\* Steps of consume that write no event.
LEMMA ConsumerOrder ==
  ASSUME OrderInv, Sorted', Emptied',
         UNCHANGED <<nchans, owner, unread, cur, wpc, committed, delivered>>,
         failures' = failures \/ failures' # 0
  PROVE  OrderInv'
<1>1. Owned' /\ Numbered'
  BY DEF OrderInv, Owned, Numbered
<1>2. NoGaps'
  BY DEF OrderInv, NoGaps, Preceded, Written
<1>3. InTurn' /\ Once'
  BY DEF OrderInv, InTurn, Once
<1> QED BY <1>1, <1>2, <1>3 DEF OrderInv

\* Those that keep _channels.
LEMMA ConsumerOrderSteps ==
  ASSUME TInv, OrderInv,
         ConsumeStart \/ PollClosed \/ PollNull \/ PollRead \/ ConsumeStartThrows
  PROVE  OrderInv'
<1>1. /\ UNCHANGED <<channels, nchans, owner, unread, visible, cur, wpc, committed, delivered>>
      /\ failures' = failures \/ failures' # 0
  <2>1. CASE ConsumeStartThrows
    <3>1. failures \in Nat /\ failures' = failures + 1
      BY <2>1 DEF ConsumeStartThrows, Throw, TInv, TypeOK, ConsumerTypes
    <3> QED BY <2>1, <3>1 DEF ConsumeStartThrows, channelVars, writerVars
  <2>2. CASE ConsumeStart \/ PollClosed \/ PollNull \/ PollRead
    BY <2>2 DEF ConsumeStart, PollClosed, PollNull, PollRead, sessionVars, channelVars,
           writerVars
  <2> QED BY <2>1, <2>2
<1>2. Sorted'
  BY <1>1 DEF OrderInv, Sorted
<1>3. ASSUME NEW c, Due(c) PROVE Due(c)'
  <2>1. PICK p \in DOMAIN channels : channels[p] = c /\ (Busy => p >= pos)
    BY <1>3 DEF Due
  <2>2. p \in Nat /\ p >= 1
    BY DEF TInv, TypeOK, SessionTypes
  <2>3. Busy' => p >= pos'
    BY <2>1, <2>2
       DEF Busy, ConsumeStart, PollClosed, PollNull, PollRead, ConsumeStartThrows, Throw, Polling
  <2> QED BY <1>1, <2>1, <2>3 DEF Due
<1>4. ASSUME cpc' = "write", Replaced(channels[pos])'
      PROVE  Len(batch)' = Len(unread[channels[pos]])'
  <2>1. PollRead
    BY <1>4 DEF ConsumeStart, PollClosed, PollNull, ConsumeStartThrows, Throw
  <2> DEFINE c == channels[pos]
  <2>2. /\ c \in 1..nchans /\ batch' = SubSeq(unread[c], 1, visible[c])
        /\ channels'[pos'] = c
    BY <1>1, <2>1, PollFacts DEF PollRead
  <2>3. visible[c] = Len(unread[c])
    BY <1>1, <1>4, <2>2 DEF OrderInv, Emptied, Replaced
  <2>4. Len(batch') = Len(unread[c])
    <3>1. unread[c] \in Seq(Events) /\ Len(unread[c]) \in Nat
      BY <2>2, ChanFacts
    <3> QED BY <2>2, <2>3, <3>1, SubSeqProperties
  <2> QED BY <1>1, <2>2, <2>4
<1>5. Emptied'
  BY <1>1, <1>3, <1>4 DEF OrderInv, Emptied, Replaced
<1> QED BY <1>1, <1>2, <1>5, ConsumerOrder

\* The channels that are not erased stay in order.
LEMMA ConsumeEndOrder ==
  ASSUME TInv, OrderInv, ConsumeEnd
  PROVE  OrderInv'
<1>1. /\ UNCHANGED <<nchans, owner, unread, visible, cur, wpc, committed, delivered, failures>>
      /\ RemovedErased /\ cpc' = "idle"
  BY DEF ConsumeEnd, channelVars, writerVars
<1>2. PICK n \in 0..Len(channels) : \E at \in [1..n -> DOMAIN channels] :
        /\ \A i, j \in 1..n : i < j => at[i] < at[j]
        /\ \A p \in DOMAIN channels : channels[p] # 0 <=> \E i \in 1..n : at[i] = p
        /\ channels' = [i \in 1..n |-> channels[at[i]]]
  BY <1>1 DEF RemovedErased
<1>3. PICK at \in [1..n -> DOMAIN channels] :
        /\ \A i, j \in 1..n : i < j => at[i] < at[j]
        /\ \A p \in DOMAIN channels : channels[p] # 0 <=> \E i \in 1..n : at[i] = p
        /\ channels' = [i \in 1..n |-> channels[at[i]]]
  BY <1>2
<1>4. Sorted'
  <2> SUFFICES ASSUME NEW p \in 1..n, NEW q \in 1..n, p < q
               PROVE  channels[at[p]] < channels[at[q]]
    BY <1>3 DEF Sorted
  <2>1. at[p] \in DOMAIN channels /\ at[q] \in DOMAIN channels /\ at[p] < at[q]
    BY <1>3
  <2>2. channels[at[p]] # 0 /\ channels[at[q]] # 0
    BY <1>3, <2>1
  <2> QED BY <2>1, <2>2 DEF OrderInv, Sorted
<1>5. ASSUME NEW c \in 1..nchans, Due(c) PROVE Due(c)'
  <2>1. PICK p \in DOMAIN channels : channels[p] = c
    BY <1>5 DEF Due
  <2>2. c # 0
    BY ChanFacts
  <2>3. PICK i \in 1..n : at[i] = p
    BY <1>3, <2>1, <2>2
  <2>4. i \in DOMAIN channels' /\ channels'[i] = c
    BY <1>3, <2>1, <2>3
  <2> QED BY <1>1, <2>4 DEF Due, Busy
<1>6. Emptied'
  BY <1>1, <1>5 DEF OrderInv, Emptied, Replaced
<1> QED BY <1>1, <1>4, <1>6, ConsumerOrder

-----------------------------------------------------------------------------
(* Writers get channels and commit *)

\* A channel is created, at the end of _channels, by a locked mutex: what its
\* writer committed before is visible.
LEMMA CreateOrder ==
  ASSUME TInv, LossInv, OrderInv, NEW w \in Writers, NEW n \in 0..MaxRenames,
         CreateChannel(w, n), wpc[w] \in {"new", "replace"}, wpc'[w] # "new",
         \A v \in Writers : v # w => wpc'[v] = wpc[v],
         UNCHANGED <<committed, consumerVars>>
  PROVE  OrderInv'
<1>1. /\ \A c \in Chans : Listed(c) => In(channels', c)
      /\ \A c \in 1..nchans : c # nchans' /\ owner'[c] = owner[c]
      /\ owner'[nchans'] = w /\ nchans' = nchans + 1
      /\ nchans \in Nat /\ nchans' \in Chans
  BY CreateLists
<1>2. cur' = [cur EXCEPT ![w] = nchans'] /\ unread' = unread /\ cpc = "idle" /\ PublishByMutex(w)
  BY DEF CreateChannel, MutexFree
<1>3. UNCHANGED <<cpc, pos, batch, delivered, failures, committed>>
  BY DEF consumerVars
<1>4. cur'[w] = nchans' /\ \A v \in Writers : v # w => cur'[v] = cur[v]
  BY <1>2 DEF TInv, TypeOK, WriterTypes
<1>5. unread[nchans'] = <<>>
  BY <1>1 DEF OrderInv, Owned
<1>6. \A c \in 1..nchans' : c = nchans' \/ c \in 1..nchans
  BY <1>1
<1>7. \A v \in Writers : wpc[v] # "new" => cur[v] \in 1..nchans /\ cur[v] \in Chans
  BY WriterFacts
<1>8. Owned'
  <2>1. ASSUME NEW v \in Writers
        PROVE  IF wpc'[v] = "new" THEN cur'[v] = 0 /\ committed[v] = 0
                                  ELSE owner'[cur'[v]] = v
    <3>1. CASE v = w
      BY <1>1, <1>4, <3>1
    <3>2. CASE v # w
      BY <1>1, <1>4, <1>7, <3>2 DEF OrderInv, Owned
    <3> QED BY <3>1, <3>2
  <2>2. ASSUME NEW c \in 1..nchans' PROVE c <= cur'[owner'[c]]
    <3>1. CASE c = nchans'
      BY <1>1, <1>4, <3>1
    <3>2. CASE c \in 1..nchans
      <4>1. c <= cur[owner[c]] /\ owner'[c] = owner[c] /\ owner[c] \in Writers
        BY <1>1, <3>2, ChanFacts DEF OrderInv, Owned
      <4>2. owner[c] = w => c <= nchans'
        BY <1>1, <3>2
      <4> QED BY <1>4, <4>1, <4>2
    <3> QED BY <1>6, <3>1, <3>2
  <2>3. \A c \in Chans : c > nchans' => unread[c] = <<>>
    <3> SUFFICES ASSUME NEW c \in Chans, c > nchans' PROVE unread[c] = <<>>
      OBVIOUS
    <3>1. c > nchans
      BY <1>1 DEF Chans
    <3> QED BY <3>1 DEF OrderInv, Owned
  <2> QED BY <1>2, <1>3, <2>1, <2>2, <2>3 DEF Owned
<1>9. Sorted'
  <2>1. /\ channels' = Append(channels, nchans') /\ channels \in Seq(0..nchans')
        /\ Len(channels) \in Nat /\ Len(channels') = Len(channels) + 1
    BY CreateChannelT
  <2>2. /\ channels'[Len(channels) + 1] = nchans'
        /\ \A p \in DOMAIN channels : channels'[p] = channels[p] /\ channels[p] \in 0..nchans
    <3>1. nchans' \in 0..nchans'
      BY <1>1
    <3>2. \A p \in DOMAIN channels : channels[p] \in 0..nchans
      BY ListedIsChan
    <3>3. channels'[Len(channels) + 1] = nchans'
      BY <2>1, <3>1, AppendProperties
    <3>4. \A p \in 1..Len(channels) : channels'[p] = channels[p]
      BY <2>1, <3>1, AppendProperties
    <3> QED BY <2>1, <3>2, <3>3, <3>4
  <2> SUFFICES ASSUME NEW p \in DOMAIN channels', NEW q \in DOMAIN channels', p < q,
                      channels'[p] # 0, channels'[q] # 0
               PROVE  channels'[p] < channels'[q]
    BY DEF Sorted
  <2>3. p \in DOMAIN channels /\ (q \in DOMAIN channels \/ q = Len(channels) + 1)
    BY <2>1
  <2>4. CASE q \in DOMAIN channels
    BY <2>2, <2>3, <2>4 DEF OrderInv, Sorted
  <2>5. CASE q = Len(channels) + 1
    <3>1. channels'[p] \in 0..nchans
      BY <2>1, <2>2, <2>3
    <3> QED BY <1>1, <2>2, <2>5, <3>1
  <2> QED BY <2>3, <2>4, <2>5
<1>10. Emptied'
  <2> SUFFICES ASSUME NEW c \in 1..nchans', c # cur'[owner'[c]]
               PROVE  /\ visible'[c] = Len(unread[c])
                      /\ unread[c] # <<>> => In(channels', c)
    BY <1>2, <1>3 DEF Emptied, Replaced, Due, Busy, In
  <2>1. c \in 1..nchans /\ c \in Chans /\ owner'[c] = owner[c] /\ owner[c] \in Writers
    <3>1. c # nchans'
      BY <1>1, <1>4
    <3> QED BY <1>1, <1>6, <3>1, ChanFacts
  <2>2. CASE c = cur[owner[c]]
    <3>1. owner[c] = w
      BY <1>4, <2>1, <2>2
    <3>2. wpc[w] = "replace"
      BY <2>1, <2>2, <3>1 DEF OrderInv, Owned
    <3>3. Listed(c)
      BY <2>2, <3>1, <3>2 DEF LossInv, Holding
    <3>4. visible'[c] = Len(unread[c])
      BY <1>2, <2>1, <2>2, <3>1 DEF PublishByMutex
    <3> QED BY <1>1, <2>1, <3>3, <3>4
  <2>3. CASE c # cur[owner[c]]
    <3>1. visible[c] = Len(unread[c]) /\ (unread[c] # <<>> => Listed(c))
      BY <2>1, <2>3 DEF OrderInv, Emptied, Replaced, Due, Listed
    <3>2. visible'[c] = Len(unread[c])
      BY <1>2, <2>1, <3>1 DEF PublishByMutex
    <3> QED BY <1>1, <2>1, <3>1, <3>2
  <2> QED BY <2>2, <2>3
<1>11. Numbered'
  <2>1. \A c, d \in 1..nchans' : c < d /\ owner'[c] = owner'[d] =>
          \A j \in DOMAIN unread[c] : \A k \in DOMAIN unread[d] :
            unread[c][j].num < unread[d][k].num
    BY <1>1, <1>5, <1>6 DEF OrderInv, Numbered
  <2>2. \A c \in 1..nchans' : \A k \in DOMAIN unread[c] :
          unread[c][k].num <= committed[owner'[c]]
    BY <1>1, <1>5, <1>6 DEF OrderInv, Numbered
  <2>3. ASSUME NEW v \in Writers, wpc'[v] # "new", unread[cur'[v]] # <<>>
        PROVE  unread[cur'[v]][Len(unread[cur'[v]])].num = committed[v]
    BY <1>4, <1>5, <2>3 DEF OrderInv, Numbered
  <2> QED BY <1>2, <1>3, <2>1, <2>2, <2>3 DEF OrderInv, Numbered
<1>12. NoGaps'
  <2>1. ASSUME NEW c \in 1..nchans, NEW m, Preceded(c, m) PROVE Preceded(c, m)'
    BY <1>1, <1>2, <1>3, <1>6, <2>1 DEF Preceded, Written
  <2>2. \A c \in 1..nchans' : unread[c] # <<>> => Preceded(c, unread[c][1].num)'
    <3> SUFFICES ASSUME NEW c \in 1..nchans', unread[c] # <<>>
                 PROVE  Preceded(c, unread[c][1].num)'
      OBVIOUS
    <3>1. c \in 1..nchans /\ Preceded(c, unread[c][1].num)
      BY <1>5, <1>6 DEF OrderInv, NoGaps
    <3>2. Preceded(c, unread[c][1].num)' <=> \E m : m = unread[c][1].num /\ Preceded(c, m)'
      BY <1>2
    <3> QED BY <2>1, <3>1, <3>2
  <2>3. ASSUME NEW v \in Writers, wpc'[v] # "new", unread[cur'[v]] = <<>>
        PROVE  Preceded(cur[v], committed[v] + 1)'
    <3>1. CASE v # w
      <4>1. cur'[v] = cur[v] /\ wpc[v] # "new" /\ cur[v] \in 1..nchans
        BY <1>4, <1>7, <2>3, <3>1
      <4>2. Preceded(cur[v], committed[v] + 1)
        BY <2>3, <4>1 DEF OrderInv, NoGaps
      <4>3. PICK c \in 1..nchans : c = cur[v]
        BY <4>1
      <4>4. PICK m : m = committed[v] + 1 /\ Preceded(c, m)
        BY <4>2, <4>3
      <4>5. Preceded(c, m)'
        BY <2>1, <4>4
      <4> QED BY <1>3, <4>1, <4>3, <4>4, <4>5 DEF Preceded, Written
    <3>2. CASE v = w /\ wpc[w] = "new"
      <4>1. committed'[w] = 0
        BY <1>3, <3>2 DEF OrderInv, Owned
      <4> QED BY <3>2, <4>1 DEF Preceded
    <3>3. CASE v = w /\ wpc[w] = "replace"
      <4> DEFINE c == cur[w]
      <4>1. /\ c \in 1..nchans /\ c \in Chans /\ owner[c] = w /\ c < nchans' /\ owner'[c] = w
            /\ c \in 1..nchans' /\ committed[w] \in Nat
        BY <1>1, <1>7, <3>3, WriterFacts DEF OrderInv, Owned
      <4>2. cur'[w] = nchans' /\ owner'[nchans'] = w
        BY <1>1, <1>4
      <4>3. CASE unread[c] # <<>>
        <5>1. /\ unread[c][Len(unread[c])].num = committed[w]
              /\ Len(unread[c]) \in DOMAIN unread[c]
          BY <3>3, <4>1, <4>3, NumFacts DEF OrderInv, Numbered
        <5>2. \E k \in DOMAIN unread[c] : unread[c][k].num = (committed[w] + 1) - 1
          BY <4>1, <5>1
        <5> HIDE DEF c
        <5> QED BY <1>2, <1>3, <3>3, <4>1, <4>2, <5>2 DEF Preceded
      <4>4. CASE unread[c] = <<>>
        <5>1. Preceded(c, committed[w] + 1)
          BY <3>3, <4>4 DEF OrderInv, NoGaps
        <5> HIDE DEF c
        <5>2. \/ committed[w] + 1 = 1
              \/ Written(w, (committed[w] + 1) - 1)
              \/ \E d \in 1..nchans : /\ d < c /\ owner[d] = w
                                      /\ \E k \in DOMAIN unread[d] :
                                           unread[d][k].num = (committed[w] + 1) - 1
          BY <4>1, <5>1 DEF Preceded
        <5>3. \A d \in 1..nchans : d < c => d \in 1..nchans' /\ d < nchans' /\ owner'[d] = owner[d]
          BY <1>1, <4>1
        <5> QED BY <1>2, <1>3, <3>3, <4>2, <5>2, <5>3 DEF Preceded, Written
      <4> QED BY <4>3, <4>4
    <3> QED BY <3>1, <3>2, <3>3
  <2> QED BY <1>2, <1>3, <2>2, <2>3 DEF NoGaps
<1>13. InTurn' /\ Once'
  <2>1. ASSUME failures = 0, NEW c \in 1..nchans', NEW k \in DOMAIN unread[c]
        PROVE  unread[c][k].num > Len(delivered[owner'[c]])
    BY <1>1, <1>5, <1>6, <2>1 DEF OrderInv, Once
  <2> QED BY <1>2, <1>3, <2>1 DEF OrderInv, InTurn, Once
<1> QED BY <1>8, <1>9, <1>10, <1>11, <1>12, <1>13 DEF OrderInv

\* The event is the next one, at the end of its writer's youngest channel.
LEMMA CommitOrder ==
  ASSUME TInv, OrderInv, NEW w \in Writers, Commit(w)
  PROVE  OrderInv'
<1> DEFINE c == cur[w]
           e == [num |-> committed[w] + 1, source |-> sidv[w],
                 site |-> site[w], named |-> renames[w]]
<1>1. /\ c \in Chans /\ c \in 1..nchans /\ wpc[w] # "new" /\ owner[c] = w
      /\ committed[w] \in Nat /\ nchans \in Nat
  <2>1. wpc[w] # "new"
    BY DEF Commit
  <2> QED BY <2>1, WriterFacts DEF OrderInv, Owned
<1>2. /\ UNCHANGED <<channels, nchans, owner, visible, cur>>
      /\ UNCHANGED <<cpc, pos, batch, delivered, failures>>
      /\ unread' = [unread EXCEPT ![c] = Append(unread[c], e)]
      /\ committed' = [committed EXCEPT ![w] = committed[w] + 1]
      /\ wpc' = [wpc EXCEPT ![w] = "idle"]
  BY DEF Commit, EndLog, sessionVars, consumerVars
<1>3. e.num = committed[w] + 1
  OBVIOUS
<1> DEFINE n == Len(unread[c])
<1>4. /\ unread[c] \in Seq(Events) /\ n \in Nat
      /\ unread'[c] = Append(unread[c], e)
      /\ \A d \in Chans : d # c => unread'[d] = unread[d]
  BY <1>1, <1>2, NumFacts DEF TInv, TypeOK, ChannelTypes
<1> HIDE DEF e
<1>5. /\ DOMAIN unread'[c] = 1..(n + 1) /\ Len(unread'[c]) = n + 1 /\ unread'[c] # <<>>
      /\ DOMAIN unread[c] = 1..n
      /\ unread'[c][n + 1].num = committed[w] + 1
      /\ \A k \in 1..n : unread'[c][k] = unread[c][k]
  BY <1>3, <1>4
<1>6. /\ committed'[w] = committed[w] + 1
      /\ \A v \in Writers : v # w => committed'[v] = committed[v]
      /\ \A v \in Writers : wpc'[v] = "new" <=> wpc[v] = "new"
  BY <1>1, <1>2 DEF TInv, TypeOK, WriterTypes
<1>7. \A d \in 1..nchans : d \in Chans
  BY ChanFacts
<1>8. \A v \in Writers : v # w /\ wpc[v] # "new" => cur[v] # c /\ cur[v] \in Chans
  BY <1>1, WriterFacts DEF OrderInv, Owned
<1>9. n > 0 => unread[c][n].num = committed[w] /\ n \in DOMAIN unread[c]
  <2>1. n > 0 => unread[c] # <<>> /\ n \in DOMAIN unread[c]
    BY <1>1, <1>4, NumFacts
  <2> QED BY <1>1, <2>1 DEF OrderInv, Numbered
<1> HIDE DEF n
<1>10. Owned'
  <2>1. \A d \in Chans : d > nchans => unread'[d] = <<>>
    BY <1>1, <1>4 DEF OrderInv, Owned
  <2>2. \A v \in Writers : wpc[v] = "new" => committed'[v] = committed[v]
    BY <1>1, <1>6
  <2> QED BY <1>2, <1>6, <2>1, <2>2 DEF OrderInv, Owned
<1>11. Sorted'
  BY <1>2 DEF OrderInv, Sorted
<1>12. Emptied'
  <2>1. \A d \in 1..nchans : Replaced(d) => unread'[d] = unread[d]
    BY <1>1, <1>4, <1>7 DEF Replaced
  <2>2. cpc = "write" => channels[pos] \in 1..nchans
    BY PollFacts
  <2> QED BY <1>2, <2>1, <2>2 DEF OrderInv, Emptied, Replaced, Due, Busy
<1>13. Numbered'
  <2>1. ASSUME NEW d \in Chans, NEW j \in DOMAIN unread'[d], NEW k \in DOMAIN unread'[d]
        PROVE  unread'[d][k].num - unread'[d][j].num = k - j
    <3>1. CASE d # c
      BY <1>4, <2>1, <3>1 DEF OrderInv, Numbered
    <3>2. CASE d = c
      <4>1. \A i \in 1..n : unread'[c][i].num = committed[w] - (n - i)
        <5> SUFFICES ASSUME NEW i \in 1..n PROVE unread'[c][i].num = committed[w] - (n - i)
          OBVIOUS
        <5>1. n > 0 /\ i \in DOMAIN unread[c]
          BY <1>4, <1>5
        <5>2. unread[c][n].num - unread[c][i].num = n - i
          BY <1>1, <1>9, <5>1 DEF OrderInv, Numbered
        <5>3. unread[c][i].num \in Nat /\ unread[c][n].num = committed[w]
          BY <1>1, <1>9, <5>1, NumFacts
        <5>4. unread'[c][i].num = unread[c][i].num
          BY <1>5
        <5>5. \A x, y \in Nat : x - y = n - i => y = x - (n - i)
          BY <1>4
        <5> QED BY <1>1, <5>2, <5>3, <5>4, <5>5
      <4>2. \A i \in 1..(n + 1) : unread'[c][i].num = committed[w] - (n - i)
        <5> SUFFICES ASSUME NEW i \in 1..(n + 1)
                     PROVE  unread'[c][i].num = committed[w] - (n - i)
          OBVIOUS
        <5>1. i \in 1..n \/ i = n + 1
          BY <1>4
        <5>2. committed[w] - (n - (n + 1)) = committed[w] + 1
          BY <1>1, <1>4
        <5> QED BY <1>5, <4>1, <5>1, <5>2
      <4>3. j \in 1..(n + 1) /\ k \in 1..(n + 1) /\ j \in Int /\ k \in Int
        BY <1>4, <1>5, <3>2
      <4>4. /\ unread'[d][k].num = committed[w] - (n - k)
            /\ unread'[d][j].num = committed[w] - (n - j)
        BY <3>2, <4>2, <4>3
      <4> QED BY <1>1, <1>4, <4>3, <4>4
    <3> QED BY <3>1, <3>2
  <2>2. ASSUME NEW a \in 1..nchans, NEW b \in 1..nchans, a < b, owner[a] = owner[b],
               NEW j \in DOMAIN unread'[a], NEW k \in DOMAIN unread'[b]
        PROVE  unread'[a][j].num < unread'[b][k].num
    <3>1. a # c
      <4>1. b <= cur[owner[b]] /\ a \in Nat /\ b \in Nat
        BY <2>2, ChanFacts DEF OrderInv, Owned
      <4> QED BY <1>1, <2>2, <4>1
    <3>2. unread'[a] = unread[a] /\ j \in DOMAIN unread[a]
      BY <1>4, <1>7, <3>1
    <3>3. CASE b # c
      <4>1. unread'[b] = unread[b]
        BY <1>4, <1>7, <3>3
      <4> QED BY <2>2, <3>2, <4>1 DEF OrderInv, Numbered
    <3>4. CASE b = c /\ k \in 1..n
      BY <1>5, <2>2, <3>2, <3>4 DEF OrderInv, Numbered
    <3>5. CASE b = c /\ k = n + 1
      <4>1. unread[a][j].num <= committed[w] /\ unread[a][j].num \in Nat
        BY <1>1, <1>7, <2>2, <3>2, <3>5, NumFacts DEF OrderInv, Numbered
      <4> QED BY <1>1, <1>5, <3>2, <3>5, <4>1
    <3>6. b = c => k \in 1..n \/ k = n + 1
      BY <1>4, <1>5
    <3> QED BY <3>3, <3>4, <3>5, <3>6
  <2>3. ASSUME NEW d \in 1..nchans, NEW k \in DOMAIN unread'[d]
        PROVE  unread'[d][k].num <= committed'[owner[d]]
    <3>1. owner[d] \in Writers /\ committed[owner[d]] \in Nat /\ d \in Chans
      BY ChanFacts
    <3>2. CASE d = c /\ k = n + 1
      BY <1>1, <1>5, <1>6, <3>2
    <3>3. CASE d # c \/ k \in 1..n
      <4>1. k \in DOMAIN unread[d] /\ unread'[d][k] = unread[d][k]
        BY <1>4, <1>5, <3>1, <3>3
      <4>2. unread[d][k].num <= committed[owner[d]] /\ unread[d][k].num \in Nat
        BY <3>1, <4>1, NumFacts DEF OrderInv, Numbered
      <4>3. committed[owner[d]] <= committed'[owner[d]] /\ committed'[owner[d]] \in Nat
        BY <1>1, <1>6, <3>1
      <4> QED BY <3>1, <4>1, <4>2, <4>3
    <3>4. d = c => k \in 1..n \/ k = n + 1
      BY <1>4, <1>5
    <3> QED BY <3>2, <3>3, <3>4
  <2>4. ASSUME NEW v \in Writers, wpc[v] # "new", unread'[cur[v]] # <<>>
        PROVE  unread'[cur[v]][Len(unread'[cur[v]])].num = committed'[v]
    <3>1. CASE v = w
      BY <1>5, <1>6, <3>1
    <3>2. CASE v # w
      <4>1. unread'[cur[v]] = unread[cur[v]] /\ committed'[v] = committed[v]
        BY <1>4, <1>6, <1>8, <2>4, <3>2
      <4> QED BY <2>4, <4>1 DEF OrderInv, Numbered
    <3> QED BY <3>1, <3>2
  <2>5. \A d \in Chans : \A j, k \in DOMAIN unread'[d] :
          unread'[d][k].num - unread'[d][j].num = k - j
    BY <2>1
  <2>6. \A a, b \in 1..nchans : a < b /\ owner[a] = owner[b] =>
          \A j \in DOMAIN unread'[a] : \A k \in DOMAIN unread'[b] :
            unread'[a][j].num < unread'[b][k].num
    BY <2>2
  <2>7. \A v \in Writers : wpc'[v] # "new" /\ unread'[cur[v]] # <<>> =>
          unread'[cur[v]][Len(unread'[cur[v]])].num = committed'[v]
    BY <1>6, <2>4
  <2>8. \A d \in 1..nchans : \A k \in DOMAIN unread'[d] :
          unread'[d][k].num <= committed'[owner[d]]
    BY <2>3
  <2>9. UNCHANGED <<nchans, owner, cur>>
    BY <1>2
  <2> HIDE DEF c
  <2> QED BY <2>5, <2>6, <2>7, <2>8, <2>9 DEF Numbered
<1>14. NoGaps'
  <2>1. ASSUME NEW d \in 1..nchans, NEW m, Preceded(d, m) PROVE Preceded(d, m)'
    <3>1. \A a \in 1..nchans : \A k \in DOMAIN unread[a] :
            k \in DOMAIN unread'[a] /\ unread'[a][k] = unread[a][k]
      <4> SUFFICES ASSUME NEW a \in 1..nchans, NEW k \in DOMAIN unread[a]
                   PROVE  k \in DOMAIN unread'[a] /\ unread'[a][k] = unread[a][k]
        OBVIOUS
      <4>1. CASE a = c
        <5>1. k \in 1..n /\ k \in 1..(n + 1)
          BY <1>4, <1>5, <4>1
        <5> QED BY <1>5, <4>1, <5>1
      <4>2. CASE a # c
        BY <1>4, <1>7, <4>2
      <4> QED BY <4>1, <4>2
    <3> QED BY <1>2, <2>1, <3>1 DEF Preceded, Written
  <2>2. ASSUME NEW d \in 1..nchans, unread'[d] # <<>>
        PROVE  \E m : m = unread'[d][1].num /\ Preceded(d, m)
    <3>1. CASE unread[d] # <<>>
      <4>1. unread'[d][1] = unread[d][1]
        <5>1. CASE d = c
          <6>1. 1 \in 1..n
            BY <1>5, <1>7, <3>1, <5>1, NumFacts
          <6> QED BY <1>5, <5>1, <6>1
        <5>2. CASE d # c
          BY <1>4, <1>7, <5>2
        <5> QED BY <5>1, <5>2
      <4> QED BY <3>1, <4>1 DEF OrderInv, NoGaps
    <3>2. CASE unread[d] = <<>>
      <4>1. d = c
        BY <1>4, <1>7, <2>2, <3>2
      <4>2. n = 0
        BY <3>2, <4>1 DEF n
      <4>3. unread'[d][1].num = committed[w] + 1
        BY <1>5, <4>1, <4>2
      <4> QED BY <1>1, <3>2, <4>1, <4>3 DEF OrderInv, NoGaps
    <3> QED BY <3>1, <3>2
  <2>3. ASSUME NEW v \in Writers, wpc[v] # "new", unread'[cur[v]] = <<>>
        PROVE  \E m : m = committed'[v] + 1 /\ Preceded(cur[v], m) /\ cur[v] \in 1..nchans
    <3>1. v # w
      BY <1>5, <2>3
    <3>2. unread[cur[v]] = <<>> /\ committed'[v] = committed[v] /\ cur[v] \in 1..nchans
      BY <1>4, <1>6, <1>8, <2>3, <3>1, WriterFacts
    <3> QED BY <2>3, <3>2 DEF OrderInv, NoGaps
  <2>4. ASSUME NEW d \in 1..nchans, unread'[d] # <<>> PROVE Preceded(d, unread[d][1].num)'
    <3>1. PICK m : m = unread'[d][1].num /\ Preceded(d, m)
      BY <2>2, <2>4
    <3>2. Preceded(d, m)'
      BY <2>1, <3>1
    <3> QED BY <3>1, <3>2 DEF Preceded, Written
  <2>5. ASSUME NEW v \in Writers, wpc[v] # "new", unread'[cur[v]] = <<>>
        PROVE  Preceded(cur[v], committed[v] + 1)'
    <3>1. PICK m : m = committed'[v] + 1 /\ Preceded(cur[v], m) /\ cur[v] \in 1..nchans
      BY <2>3, <2>5
    <3>2. PICK d \in 1..nchans : d = cur[v]
      BY <3>1
    <3>3. Preceded(d, m)'
      BY <2>1, <3>1, <3>2
    <3> QED BY <1>2, <3>1, <3>2, <3>3 DEF Preceded, Written
  <2> QED BY <1>2, <1>6, <2>4, <2>5 DEF NoGaps
<1>15. InTurn'
  BY <1>2 DEF OrderInv, InTurn
<1>16. Once'
  <2> SUFFICES ASSUME failures = 0
               PROVE  /\ \A v \in Writers : Len(delivered[v]) <= committed'[v]
                      /\ \A d \in 1..nchans : \A k \in DOMAIN unread'[d] :
                           unread'[d][k].num > Len(delivered[owner[d]])
    BY <1>2 DEF OrderInv, Once
  <2>1. ASSUME NEW v \in Writers PROVE Len(delivered[v]) <= committed'[v]
    <3>1. Len(delivered[v]) <= committed[v] /\ Len(delivered[v]) \in Nat /\ committed[v] \in Nat
      BY DEF OrderInv, Once, TInv, TypeOK, ConsumerTypes, WriterTypes
    <3> QED BY <1>6, <3>1
  <2>2. ASSUME NEW d \in 1..nchans, NEW k \in DOMAIN unread'[d]
        PROVE  unread'[d][k].num > Len(delivered[owner[d]])
    <3>1. CASE d = c /\ k = n + 1
      <4>1. Len(delivered[w]) <= committed[w] /\ Len(delivered[w]) \in Nat
        BY DEF OrderInv, Once, TInv, TypeOK, ConsumerTypes
      <4> QED BY <1>1, <1>5, <3>1, <4>1
    <3>2. CASE d # c \/ k \in 1..n
      <4>1. k \in DOMAIN unread[d] /\ unread'[d][k] = unread[d][k]
        BY <1>4, <1>5, <1>7, <3>2
      <4> QED BY <4>1 DEF OrderInv, Once
    <3>3. d = c => k \in 1..n \/ k = n + 1
      BY <1>4, <1>5
    <3> QED BY <3>1, <3>2, <3>3
  <2> QED BY <2>1, <2>2
<1> QED BY <1>10, <1>11, <1>12, <1>13, <1>14, <1>15, <1>16 DEF OrderInv

-----------------------------------------------------------------------------
(* Events are written *)

\* The elements of two sequences put together.
LEMMA ConcatFacts ==
  ASSUME NEW S, NEW s \in Seq(S), NEW t \in Seq(S)
  PROVE  /\ Len(s \o t) = Len(s) + Len(t) /\ s \o t \in Seq(S)
         /\ \A i \in 1..(Len(s) + Len(t)) :
              (s \o t)[i] = IF i <= Len(s) THEN s[i] ELSE t[i - Len(s)]
  BY ConcatProperties

\* The step writes `events` of writer o after its earlier ones.
Continues(o, events) ==
  /\ InTurn'
  /\ \A w \in Writers : w # o => delivered'[w] = delivered[w]
  /\ Len(delivered'[o]) = Len(delivered[o]) + Len(events)
  /\ failures = 0 =>
       /\ \A w \in Writers : \A i \in DOMAIN delivered'[w] : delivered'[w][i] = i
       /\ Len(events) > 0 => events[Len(events)].num = Len(delivered'[o])

\* What is written continues what was written before.
LEMMA DeliverOrder ==
  ASSUME TInv, LossInv, OrderInv, cpc = "write", NEW events \in Seq(Events),
         Len(events) <= Len(batch), \A k \in DOMAIN events : events[k] = batch[k],
         NEW o, o = owner[channels[pos]], Deliver(channels[pos], events)
  PROVE  Continues(o, events)
<1> DEFINE c == channels[pos]
           L == Len(delivered[o])
           E == Len(events)
           nums == [i \in 1..E |-> events[i].num]
<1>1. /\ c \in 1..nchans /\ c \in Chans /\ o \in Writers /\ L \in Nat /\ E \in Nat
      /\ delivered[o] \in Seq(1..MaxEvents)
  BY PollFacts, ChanFacts
<1>2. /\ unread[c] \in Seq(Events) /\ Len(unread[c]) \in Nat
      /\ E <= Len(unread[c])
      /\ \A k \in 1..E : k \in DOMAIN unread[c] /\ events[k] = unread[c][k]
  <2>1. /\ unread[c] \in Seq(Events) /\ Len(unread[c]) \in Nat
        /\ visible[c] \in Nat /\ visible[c] <= Len(unread[c])
    BY <1>1, QueueTypes
  <2>2. Len(batch) \in Nat /\ Len(batch) <= visible[c] /\ batch \in Seq(Events)
    BY DEF TInv, TypeOK, ConsumerTypes, Places
  <2>3. \A k \in DOMAIN batch : batch[k] = unread[c][k]
    BY DEF LossInv, BatchIsFront
  <2> QED BY <1>1, <2>1, <2>2, <2>3
<1>3. \A k \in 1..E : events[k].num \in Nat
  <2> SUFFICES ASSUME NEW k \in 1..E PROVE events[k].num \in Nat
    OBVIOUS
  <2>1. unread[c][k].num \in Nat
    BY <1>1, <1>2, NumFacts
  <2> QED BY <1>2, <2>1
<1>4. ASSUME NEW j \in 1..E, NEW k \in 1..E PROVE events[k].num - events[j].num = k - j
  <2>1. /\ j \in DOMAIN unread[c] /\ events[j] = unread[c][j]
        /\ k \in DOMAIN unread[c] /\ events[k] = unread[c][k]
    BY <1>2
  <2>2. unread[c][k].num - unread[c][j].num = k - j
    BY <1>1, <2>1 DEF OrderInv, Numbered
  <2> QED BY <2>1, <2>2
<1>5. nums \in Seq(1..MaxEvents) /\ Len(nums) = E
  <2>1. ASSUME NEW i \in 1..E PROVE events[i].num \in 1..MaxEvents
    <3>1. events[i] \in Events
      OBVIOUS
    <3> QED BY <3>1 DEF Events
  <2> QED BY <1>1, <2>1
<1>6. delivered' = [delivered EXCEPT ![o] = delivered[o] \o nums]
  BY DEF Deliver
<1>7. nums = [i \in 1..E |-> events[i].num]
  OBVIOUS
<1> HIDE DEF nums
<1>8. /\ delivered'[o] = delivered[o] \o nums
      /\ \A w \in Writers : w # o => delivered'[w] = delivered[w]
  BY <1>1, <1>6 DEF TInv, TypeOK, ConsumerTypes
<1>9. /\ Len(delivered'[o]) = L + E /\ DOMAIN delivered'[o] = 1..(L + E)
      /\ \A i \in 1..L : delivered'[o][i] = delivered[o][i]
      /\ \A k \in 1..E : delivered'[o][L + k] = events[k].num
  <2> DEFINE d == delivered[o]
  <2>a. d \in Seq(1..MaxEvents)
    BY <1>1
  <2> HIDE DEF d
  <2>b. /\ Len(d \o nums) = Len(d) + Len(nums) /\ d \o nums \in Seq(1..MaxEvents)
        /\ \A i \in 1..(Len(d) + Len(nums)) :
             (d \o nums)[i] = IF i <= Len(d) THEN d[i] ELSE nums[i - Len(d)]
    BY <1>5, <2>a, ConcatFacts
  <2>1. /\ Len(delivered'[o]) = L + E /\ delivered'[o] \in Seq(1..MaxEvents)
        /\ \A i \in 1..(L + E) :
             delivered'[o][i] = IF i <= L THEN delivered[o][i] ELSE nums[i - L]
    BY <1>5, <1>8, <2>b DEF d
  <2>2. \A i \in 1..L : delivered'[o][i] = delivered[o][i]
    BY <1>1, <2>1
  <2>3. ASSUME NEW k \in 1..E PROVE delivered'[o][L + k] = events[k].num
    <3>1. L + k \in 1..(L + E) /\ ~(L + k <= L) /\ (L + k) - L = k
      BY <1>1
    <3> QED BY <1>7, <2>1, <3>1
  <2> QED BY <1>1, <2>1, <2>2, <2>3
<1>10. E > 0 => events[1].num = 1 \/ Written(o, events[1].num - 1)
  <2> SUFFICES ASSUME E > 0 PROVE events[1].num = 1 \/ Written(o, events[1].num - 1)
    OBVIOUS
  <2>1. 1 \in 1..E /\ unread[c] # <<>> /\ events[1] = unread[c][1]
    BY <1>1, <1>2
  <2>2. Preceded(c, events[1].num)
    BY <1>1, <2>1 DEF OrderInv, NoGaps
  <2>3. ASSUME NEW d \in 1..nchans, d < c, owner[d] = owner[c]
        PROVE  unread[d] = <<>>
    BY <2>3, OlderEmpty
  <2> QED BY <2>2, <2>3 DEF Preceded
<1> HIDE DEF c, L, E
<1>11. InTurn'
  <2> SUFFICES ASSUME NEW w \in Writers, NEW i \in DOMAIN delivered'[w],
                      delivered'[w][i] > 1
               PROVE  \E j \in 1..(i - 1) : delivered'[w][j] = delivered'[w][i] - 1
    BY DEF InTurn
  <2>1. CASE w # o
    BY <1>8, <2>1 DEF OrderInv, InTurn
  <2>2. CASE w = o /\ i \in 1..L
    <3>1. i \in DOMAIN delivered[o] /\ delivered'[o][i] = delivered[o][i]
      BY <1>1, <1>9, <2>2 DEF L
    <3>2. PICK j \in 1..(i - 1) : delivered[o][j] = delivered[o][i] - 1
      BY <1>1, <2>2, <3>1 DEF OrderInv, InTurn
    <3>3. j \in 1..L
      BY <1>1, <2>2, <3>2
    <3> QED BY <1>9, <2>2, <3>1, <3>2, <3>3
  <2>3. ASSUME w = o, NEW k \in 1..E, i = L + k
        PROVE  \E j \in 1..(i - 1) : delivered'[w][j] = delivered'[w][i] - 1
    <3>1. CASE k > 1
      <4>1. k - 1 \in 1..E /\ L + (k - 1) \in 1..(i - 1)
        BY <1>1, <2>3, <3>1
      <4>2. delivered'[o][L + (k - 1)] = events[k - 1].num
        BY <1>9, <4>1
      <4>3. delivered'[o][i] = events[k].num
        BY <1>9, <2>3
      <4>4. events[k].num - events[k - 1].num = k - (k - 1)
        BY <1>4, <4>1
      <4>5. events[k - 1].num = events[k].num - 1
        BY <1>3, <4>1, <4>4
      <4> QED BY <2>3, <4>1, <4>2, <4>3, <4>5
    <3>2. CASE k = 1
      <4>1. E > 0 /\ delivered'[o][i] = events[1].num
        BY <1>1, <1>9, <2>3, <3>2
      <4>2. Written(o, events[1].num - 1)
        BY <1>10, <2>3, <4>1
      <4>3. PICK j \in DOMAIN delivered[o] : delivered[o][j] = events[1].num - 1
        BY <4>2 DEF Written
      <4>4. j \in 1..L /\ j \in 1..(i - 1)
        BY <1>1, <2>3, <3>2 DEF L
      <4> QED BY <1>9, <2>3, <4>1, <4>3, <4>4
    <3> QED BY <3>1, <3>2
  <2>4. w = o => i \in 1..L \/ \E k \in 1..E : i = L + k
    <3>1. ASSUME w = o, i \notin 1..L PROVE i - L \in 1..E /\ i = L + (i - L)
      BY <1>1, <1>9, <3>1
    <3> QED BY <3>1
  <2> QED BY <2>1, <2>2, <2>3, <2>4
<1>12. ASSUME failures = 0 PROVE \A k \in 1..E : events[k].num = L + k
  <2>1. ASSUME E > 0 PROVE events[1].num = L + 1
    <3>1. 1 \in 1..E /\ events[1] = unread[c][1] /\ 1 \in DOMAIN unread[c] /\ owner[c] = o
      BY <1>1, <1>2, <2>1 DEF c
    <3>2. events[1].num > L /\ events[1].num \in Nat
      BY <1>1, <1>3, <1>12, <3>1 DEF OrderInv, Once, L
    <3>3. events[1].num <= L + 1
      <4>1. CASE events[1].num = 1
        BY <1>1, <4>1
      <4>2. CASE Written(o, events[1].num - 1)
        <5>1. PICK j \in DOMAIN delivered[o] : delivered[o][j] = events[1].num - 1
          BY <4>2 DEF Written
        <5>2. delivered[o][j] = j /\ j \in 1..L
          BY <1>1, <1>12, <5>1 DEF OrderInv, Once, L
        <5> QED BY <1>1, <3>2, <5>1, <5>2
      <4> QED BY <1>10, <2>1, <4>1, <4>2
    <3> QED BY <1>1, <3>2, <3>3
  <2> SUFFICES ASSUME NEW k \in 1..E PROVE events[k].num = L + k
    OBVIOUS
  <2>2. E > 0 /\ 1 \in 1..E
    BY <1>1
  <2>3. events[k].num - events[1].num = k - 1 /\ events[k].num \in Nat
    BY <1>3, <1>4, <2>2
  <2>4. \A x \in Nat : x - (L + 1) = k - 1 => x = L + k
    BY <1>1
  <2> QED BY <2>1, <2>2, <2>3, <2>4
<1>13. ASSUME failures = 0
       PROVE  /\ \A w \in Writers : \A i \in DOMAIN delivered'[w] : delivered'[w][i] = i
              /\ E > 0 => events[E].num = Len(delivered'[o])
  <2>1. ASSUME NEW w \in Writers, NEW i \in DOMAIN delivered'[w] PROVE delivered'[w][i] = i
    <3>1. CASE w # o
      BY <1>8, <1>13, <3>1 DEF OrderInv, Once
    <3>2. CASE w = o /\ i \in 1..L
      BY <1>1, <1>9, <1>13, <3>2 DEF OrderInv, Once, L
    <3>3. CASE w = o /\ i \notin 1..L
      <4>1. i - L \in 1..E /\ i = L + (i - L)
        BY <1>1, <1>9, <3>3
      <4> QED BY <1>9, <1>12, <1>13, <3>3, <4>1
    <3> QED BY <3>1, <3>2, <3>3
  <2>2. E > 0 => E \in 1..E
    BY <1>1
  <2> QED BY <1>9, <1>12, <1>13, <2>1, <2>2
<1> QED BY <1>8, <1>9, <1>11, <1>13 DEF Continues, L, E

\* What stays in the queue follows what was written.
LEMMA PollWriteOrder ==
  ASSUME TInv, LossInv, OrderInv, PollWrite
  PROVE  OrderInv'
<1>0. PICK o : o = owner[channels[pos]]
  OBVIOUS
<1> DEFINE c == channels[pos]
           m == Len(batch)
           rest == SubSeq(unread[c], m + 1, Len(unread[c]))
<1>1. /\ UNCHANGED <<nchans, owner, wpc, cur, committed, failures>>
      /\ cpc = "write" /\ cpc' = "poll" /\ Deliver(c, batch) /\ pos' = pos + 1
      /\ unread' = [unread EXCEPT ![c] = rest]
      /\ visible' = [visible EXCEPT ![c] = visible[c] - m]
      /\ channels' = [channels EXCEPT ![pos] = IF isClosed THEN 0 ELSE c]
  BY DEF PollWrite, resetIfClosed, writerVars
<1>2. /\ c \in Chans /\ c \in 1..nchans /\ pos \in 1..Len(channels) /\ o \in Writers
      /\ Len(channels) \in Nat /\ channels \in Seq(0..nchans)
      /\ batch \in Seq(Events) /\ m \in Nat /\ m <= visible[c]
  BY <1>0, <1>1, PollFacts DEF TInv, TypeOK, ConsumerTypes, Places
<1>3. /\ unread[c] \in Seq(Events) /\ Len(unread[c]) \in Nat /\ visible[c] \in Nat
      /\ visible[c] <= Len(unread[c]) /\ m <= Len(unread[c])
  BY <1>2, QueueTypes
<1>4. \A k \in 1..m : k \in DOMAIN unread[c] /\ batch[k] = unread[c][k]
  BY <1>1, <1>2, <1>3 DEF LossInv, BatchIsFront
<1>5. /\ rest \in Seq(Events) /\ Len(rest) = Len(unread[c]) - m
      /\ \A k \in 1..(Len(unread[c]) - m) : rest[k] = unread[c][m + k]
  BY <1>2, <1>3, SubSeqProperties
<1>6. unread'[c] = rest /\ visible'[c] = visible[c] - m
  BY <1>1, <1>2 DEF TInv, TypeOK, ChannelTypes
<1>7. \A d \in Chans : d # c => unread'[d] = unread[d] /\ visible'[d] = visible[d]
  BY <1>1 DEF TInv, TypeOK, ChannelTypes
<1> HIDE DEF rest
<1>8. /\ InTurn'
      /\ \A w \in Writers : w # o => delivered'[w] = delivered[w]
      /\ Len(delivered'[o]) = Len(delivered[o]) + m
      /\ failures = 0 =>
           /\ \A w \in Writers : \A i \in DOMAIN delivered'[w] : delivered'[w][i] = i
           /\ m > 0 => batch[m].num = Len(delivered'[o])
  <2>1. /\ batch \in Seq(Events) /\ Len(batch) <= Len(batch)
        /\ \A k \in DOMAIN batch : batch[k] = batch[k]
        /\ cpc = "write" /\ o = owner[channels[pos]] /\ Deliver(channels[pos], batch)
    BY <1>0, <1>1, <1>2
  <2>2. Continues(o, batch)
    BY <2>1, DeliverOrder
  <2> QED BY <2>2 DEF Continues
<1>9. /\ \A w \in Writers : \A n : Written(w, n) => Written(w, n)'
      /\ \A k \in DOMAIN batch : \A n : n = batch[k].num => Written(o, n)'
  BY <1>0, <1>1, <1>2, DeliverKeeps
<1>10. DOMAIN unread'[c] = 1..(Len(unread[c]) - m) /\ DOMAIN unread[c] = 1..Len(unread[c])
  BY <1>3, <1>5, <1>6
<1>11. \A d \in 1..nchans : d \in Chans /\ owner[d] \in Writers
  BY ChanFacts
<1>12. \A w \in Writers : wpc[w] # "new" => cur[w] \in 1..nchans /\ owner[cur[w]] = w
  BY WriterFacts DEF OrderInv, Owned
<1> HIDE DEF c, m
<1>13. /\ \A d \in Chans : d # c => unread'[d] = unread[d]
       /\ \A k \in DOMAIN unread'[c] :
            m + k \in DOMAIN unread[c] /\ unread'[c][k] = unread[c][m + k]
  <2> SUFFICES ASSUME NEW k \in DOMAIN unread'[c]
               PROVE  m + k \in DOMAIN unread[c] /\ unread'[c][k] = unread[c][m + k]
    BY <1>7
  <2>1. k \in 1..(Len(unread[c]) - m) /\ m + k \in 1..Len(unread[c])
    BY <1>2, <1>3, <1>10
  <2> QED BY <1>5, <1>6, <1>10, <2>1
<1>14. \A k \in DOMAIN unread[c] :
         \/ k \in 1..m
         \/ k - m \in DOMAIN unread'[c] /\ unread'[c][k - m] = unread[c][k]
  <2> SUFFICES ASSUME NEW k \in DOMAIN unread[c], k \notin 1..m
               PROVE  k - m \in DOMAIN unread'[c] /\ unread'[c][k - m] = unread[c][k]
    OBVIOUS
  <2>1. k - m \in 1..(Len(unread[c]) - m) /\ m + (k - m) = k
    BY <1>2, <1>3, <1>10
  <2> QED BY <1>5, <1>6, <1>10, <2>1
<1>15. unread'[c] = <<>> <=> m = Len(unread[c])
  <2>1. unread'[c] = <<>> <=> Len(unread'[c]) = 0
    BY <1>5, <1>6, EmptySeq
  <2> QED BY <1>2, <1>3, <1>5, <1>6, <2>1
<1>16. m = 0 => unread'[c] = unread[c]
  <2> SUFFICES ASSUME m = 0 PROVE unread'[c] = unread[c]
    OBVIOUS
  <2>1. DOMAIN unread'[c] = DOMAIN unread[c] /\ \A k \in DOMAIN unread[c] : m + k = k
    BY <1>3, <1>10
  <2>2. \A k \in DOMAIN unread'[c] : unread'[c][k] = unread[c][k]
    BY <1>13, <2>1
  <2> QED BY <1>3, <1>5, <1>6, <2>1, <2>2
<1>17. ASSUME NEW d \in Chans, NEW k \in DOMAIN unread'[d]
       PROVE  \E j \in DOMAIN unread[d] : unread'[d][k] = unread[d][j]
  <2>1. CASE d = c
    BY <1>13, <2>1
  <2>2. CASE d # c
    BY <1>13, <2>2
  <2> QED BY <2>1, <2>2
<1>18. Owned'
  <2>1. ASSUME NEW d \in Chans, d > nchans PROVE unread'[d] = <<>>
    <3>1. d # c
      BY <1>2, <2>1 DEF TInv, TypeOK, ChannelTypes, Chans
    <3> QED BY <1>13, <2>1, <3>1 DEF OrderInv, Owned
  <2> QED BY <1>1, <2>1 DEF OrderInv, Owned
<1>19. /\ DOMAIN channels' = DOMAIN channels
       /\ \A p \in DOMAIN channels : p # pos => channels'[p] = channels[p]
       /\ \A p \in DOMAIN channels : channels'[p] # 0 => channels'[p] = channels[p]
  BY <1>1, <1>2 DEF c
<1>20. Sorted'
  <2> SUFFICES ASSUME NEW p \in DOMAIN channels', NEW q \in DOMAIN channels', p < q,
                      channels'[p] # 0, channels'[q] # 0
               PROVE  channels'[p] < channels'[q]
    BY DEF Sorted
  <2>1. /\ p \in DOMAIN channels /\ channels'[p] = channels[p] /\ channels[p] # 0
        /\ q \in DOMAIN channels /\ channels'[q] = channels[q] /\ channels[q] # 0
    BY <1>19
  <2> QED BY <2>1 DEF OrderInv, Sorted
<1>21. Emptied'
  <2> SUFFICES ASSUME NEW d \in 1..nchans, Replaced(d)
               PROVE  /\ visible'[d] = Len(unread'[d])
                      /\ unread'[d] # <<>> => Due(d)'
    BY <1>1 DEF Emptied, Replaced
  <2>1. visible[d] = Len(unread[d]) /\ (unread[d] # <<>> => Due(d))
    BY DEF OrderInv, Emptied
  <2>2. CASE d = c
    <3>1. m = Len(unread[c])
      BY <1>1, <2>2 DEF OrderInv, Emptied, c, m
    <3> QED BY <1>5, <1>6, <1>15, <2>1, <2>2, <3>1
  <2>3. CASE d # c
    <3>1. visible'[d] = visible[d] /\ unread'[d] = unread[d]
      BY <1>7, <1>11, <2>3
    <3>2. ASSUME unread[d] # <<>> PROVE Due(d)'
      <4>1. PICK p \in DOMAIN channels : channels[p] = d /\ p >= pos
        BY <1>1, <2>1, <3>2 DEF Due, Busy
      <4>2. p # pos /\ p \in Nat /\ pos \in Nat
        BY <1>2, <2>3, <4>1 DEF c
      <4>3. p \in DOMAIN channels' /\ channels'[p] = d /\ p >= pos'
        BY <1>1, <1>19, <4>1, <4>2
      <4> QED BY <4>3 DEF Due
    <3> QED BY <2>1, <3>1, <3>2
  <2> QED BY <2>2, <2>3
<1>22. Numbered'
  <2>1. ASSUME NEW d \in Chans, NEW j \in DOMAIN unread'[d], NEW k \in DOMAIN unread'[d]
        PROVE  unread'[d][k].num - unread'[d][j].num = k - j
    <3>1. CASE d # c
      BY <1>13, <3>1 DEF OrderInv, Numbered
    <3>2. CASE d = c
      <4>1. /\ m + k \in DOMAIN unread[c] /\ unread'[c][k] = unread[c][m + k]
            /\ m + j \in DOMAIN unread[c] /\ unread'[c][j] = unread[c][m + j]
        BY <1>13, <3>2
      <4>2. unread[c][m + k].num - unread[c][m + j].num = (m + k) - (m + j)
        BY <1>2, <4>1 DEF OrderInv, Numbered
      <4>3. (m + k) - (m + j) = k - j
        BY <1>2, <1>3, <1>10, <3>2
      <4> QED BY <3>2, <4>1, <4>2, <4>3
    <3> QED BY <3>1, <3>2
  <2>2. ASSUME NEW d \in 1..nchans, NEW e \in 1..nchans, d < e, owner[d] = owner[e],
               NEW j \in DOMAIN unread'[d], NEW k \in DOMAIN unread'[e]
        PROVE  unread'[d][j].num < unread'[e][k].num
    <3>1. PICK i \in DOMAIN unread[d] : unread'[d][j] = unread[d][i]
      BY <1>11, <1>17
    <3>2. PICK l \in DOMAIN unread[e] : unread'[e][k] = unread[e][l]
      BY <1>11, <1>17
    <3>3. unread[d][i].num < unread[e][l].num
      BY <2>2 DEF OrderInv, Numbered
    <3> QED BY <3>1, <3>2, <3>3
  <2>3. ASSUME NEW d \in 1..nchans, NEW k \in DOMAIN unread'[d]
        PROVE  unread'[d][k].num <= committed[owner[d]]
    <3>1. PICK i \in DOMAIN unread[d] : unread'[d][k] = unread[d][i]
      BY <1>11, <1>17
    <3> QED BY <3>1 DEF OrderInv, Numbered
  <2>4. ASSUME NEW w \in Writers, wpc[w] # "new", unread'[cur[w]] # <<>>
        PROVE  unread'[cur[w]][Len(unread'[cur[w]])].num = committed[w]
    <3>1. CASE cur[w] # c
      <4>1. unread'[cur[w]] = unread[cur[w]]
        BY <1>11, <1>12, <1>13, <2>4, <3>1
      <4> QED BY <2>4, <4>1 DEF OrderInv, Numbered
    <3>2. CASE cur[w] = c
      <4>1. m # Len(unread[c])
        BY <1>15, <2>4, <3>2
      <4>2. /\ Len(unread'[c]) = Len(unread[c]) - m
            /\ Len(unread'[c]) \in DOMAIN unread'[c] /\ m + Len(unread'[c]) = Len(unread[c])
        BY <1>2, <1>3, <1>5, <1>6, <1>10, <4>1
      <4>3. unread'[c][Len(unread'[c])] = unread[c][Len(unread[c])]
        BY <1>13, <4>2
      <4>4. unread[c] # <<>>
        BY <1>2, <1>3, <4>1
      <4>5. unread[c][Len(unread[c])].num = committed[w]
        BY <2>4, <3>2, <4>4 DEF OrderInv, Numbered
      <4> QED BY <3>2, <4>3, <4>5
    <3> QED BY <3>1, <3>2
  <2> QED BY <1>1, <2>1, <2>2, <2>3, <2>4 DEF Numbered
<1>23. ASSUME NEW e \in 1..nchans, NEW n, Preceded(e, n)
       PROVE  Preceded(e, n)'
  <2>1. CASE n = 1
    BY <2>1 DEF Preceded
  <2>2. CASE Written(owner[e], n - 1)
    BY <1>1, <1>9, <1>11, <2>2 DEF Preceded
  <2>3. ASSUME NEW d \in 1..nchans, d < e, owner[d] = owner[e],
               NEW k \in DOMAIN unread[d], unread[d][k].num = n - 1
        PROVE  Preceded(e, n)'
    <3>1. CASE d # c
      BY <1>1, <1>11, <1>13, <2>3, <3>1 DEF Preceded
    <3>2. CASE d = c /\ k \in 1..m
      <4>1. k \in DOMAIN batch /\ batch[k].num = n - 1 /\ owner[e] = o
        BY <1>0, <1>2, <1>4, <2>3, <3>2 DEF c, m
      <4> QED BY <1>1, <1>9, <4>1 DEF Preceded
    <3>3. CASE d = c /\ k \notin 1..m
      <4>1. k - m \in DOMAIN unread'[d] /\ unread'[d][k - m].num = n - 1
        BY <1>14, <2>3, <3>3
      <4> QED BY <1>1, <2>3, <4>1 DEF Preceded
    <3> QED BY <3>1, <3>2, <3>3
  <2> QED BY <1>23, <2>1, <2>2, <2>3 DEF Preceded
<1>24. ASSUME m > 0
       PROVE  /\ m \in DOMAIN unread[c] /\ m \in DOMAIN batch /\ batch[m] = unread[c][m]
              /\ unread[c][m].num \in Nat /\ batch[m].num \in Nat
              /\ unread[c] # <<>> /\ owner[c] = o
  <2>1. m \in 1..m /\ m \in DOMAIN batch
    BY <1>2, <1>24 DEF m
  <2>2. m \in DOMAIN unread[c] /\ batch[m] = unread[c][m]
    BY <1>4, <2>1
  <2>3. unread[c] # <<>>
    BY <1>2, <1>3, <1>24
  <2> QED BY <1>0, <1>2, <2>1, <2>2, <2>3, NumFacts DEF c
<1>25. NoGaps'
  <2>1. ASSUME NEW d \in 1..nchans, unread'[d] # <<>>
        PROVE  Preceded(d, unread[d][1].num)'
    <3>1. CASE d # c \/ m = 0
      <4>1. unread'[d] = unread[d]
        BY <1>11, <1>13, <1>16, <3>1
      <4>2. Preceded(d, unread[d][1].num)
        BY <2>1, <4>1 DEF OrderInv, NoGaps
      <4>3. PICK n : n = unread[d][1].num
        OBVIOUS
      <4>4. Preceded(d, n)'
        BY <1>23, <4>2, <4>3
      <4>5. n = unread'[d][1].num
        BY <4>1, <4>3
      <4> QED BY <1>1, <4>1, <4>4, <4>5 DEF Preceded
    <3>2. CASE d = c /\ m # 0
      <4>1. m > 0 /\ m # Len(unread[c])
        BY <1>2, <1>15, <2>1, <3>2
      <4>2. 1 \in DOMAIN unread'[c]
        BY <1>2, <1>3, <1>10, <4>1
      <4>3. m + 1 \in DOMAIN unread[c] /\ unread'[c][1] = unread[c][m + 1]
        BY <1>13, <4>2
      <4>4. unread[c][m + 1].num - unread[c][m].num = (m + 1) - m
        BY <1>2, <1>24, <4>1, <4>3 DEF OrderInv, Numbered
      <4>5. unread[c][m + 1].num \in Nat
        BY <1>2, <4>3, NumFacts
      <4>6. unread'[c][1].num - 1 = batch[m].num
        BY <1>2, <1>24, <4>1, <4>3, <4>4, <4>5
      <4>7. \E i \in DOMAIN delivered'[o] : delivered'[o][i] = unread'[c][1].num - 1
        BY <1>9, <1>24, <4>1, <4>6 DEF Written
      <4> QED BY <1>1, <1>24, <3>2, <4>1, <4>7 DEF Preceded, Written
    <3> QED BY <3>1, <3>2
  <2>2. ASSUME NEW w \in Writers, wpc[w] # "new", unread'[cur[w]] = <<>>
        PROVE  Preceded(cur[w], committed[w] + 1)'
    <3>1. CASE cur[w] # c \/ m = 0
      <4>1. unread'[cur[w]] = unread[cur[w]]
        BY <1>11, <1>12, <1>13, <1>16, <2>2, <3>1
      <4>2. Preceded(cur[w], committed[w] + 1)
        BY <2>2, <4>1 DEF OrderInv, NoGaps
      <4> QED BY <1>1, <1>12, <1>23, <2>2, <4>2
    <3>2. CASE cur[w] = c /\ m # 0
      <4>1. m > 0 /\ m = Len(unread[c])
        BY <1>2, <1>15, <2>2, <3>2
      <4>2. batch[m].num = committed[w]
        BY <1>24, <2>2, <3>2, <4>1 DEF OrderInv, Numbered
      <4>3. committed[w] \in Nat /\ (committed[w] + 1) - 1 = committed[w]
        BY DEF TInv, TypeOK, WriterTypes
      <4>4. Written(o, (committed[w] + 1) - 1)'
        BY <1>1, <1>9, <1>24, <4>1, <4>2, <4>3
      <4> QED BY <1>1, <1>24, <3>2, <4>1, <4>4 DEF Preceded
    <3> QED BY <3>1, <3>2
  <2> QED BY <1>1, <2>1, <2>2 DEF NoGaps
<1>26. Once'
  <2> SUFFICES ASSUME failures = 0
               PROVE  /\ \A w \in Writers :
                           /\ Len(delivered'[w]) <= committed[w]
                           /\ \A i \in DOMAIN delivered'[w] : delivered'[w][i] = i
                      /\ \A d \in 1..nchans : \A k \in DOMAIN unread'[d] :
                           unread'[d][k].num > Len(delivered'[owner[d]])
    BY <1>1 DEF Once
  <2>1. m > 0 => Len(delivered'[o]) = unread[c][m].num
    BY <1>8, <1>24
  <2>2. m = 0 => Len(delivered'[o]) = Len(delivered[o])
    BY <1>2, <1>8 DEF TInv, TypeOK, ConsumerTypes
  <2>3. ASSUME NEW w \in Writers PROVE Len(delivered'[w]) <= committed[w]
    <3>1. CASE w # o
      BY <1>8, <3>1 DEF OrderInv, Once
    <3>2. CASE w = o /\ m = 0
      BY <2>2, <3>2 DEF OrderInv, Once
    <3>3. CASE w = o /\ m # 0
      BY <1>2, <1>24, <2>1, <3>3 DEF OrderInv, Numbered
    <3> QED BY <3>1, <3>2, <3>3
  <2>4. ASSUME NEW d \in 1..nchans, NEW k \in DOMAIN unread'[d]
        PROVE  unread'[d][k].num > Len(delivered'[owner[d]])
    <3>1. CASE owner[d] # o
      <4>1. d # c
        BY <1>0, <3>1 DEF c
      <4>2. unread'[d] = unread[d] /\ delivered'[owner[d]] = delivered[owner[d]]
        BY <1>8, <1>11, <1>13, <3>1, <4>1
      <4> QED BY <4>2 DEF OrderInv, Once
    <3>2. CASE owner[d] = o /\ m = 0
      <4>1. unread'[d] = unread[d]
        BY <1>11, <1>13, <1>16, <3>2
      <4> QED BY <2>2, <3>2, <4>1 DEF OrderInv, Once
    <3>3. CASE owner[d] = o /\ m # 0
      <4>0. m > 0
        BY <1>2, <3>3
      <4>1. PICK i \in DOMAIN unread[d] :
              unread'[d][k] = unread[d][i] /\ (d = c => i = m + k)
        <5>1. CASE d = c
          BY <1>13, <5>1
        <5>2. CASE d # c
          BY <1>11, <1>17, <5>2
        <5> QED BY <5>1, <5>2
      <4>2. CASE d = c
        <5>1. k \in Nat /\ k > 0
          BY <1>2, <1>3, <1>10, <4>2
        <5>2. unread[c][i].num - unread[c][m].num = (m + k) - m
          BY <1>2, <1>24, <4>0, <4>1, <4>2 DEF OrderInv, Numbered
        <5>3. unread[c][i].num \in Nat /\ (m + k) - m = k
          BY <1>2, <4>1, <4>2, <5>1, NumFacts
        <5>4. unread[c][i].num > unread[c][m].num
          BY <1>24, <4>0, <5>1, <5>2, <5>3
        <5> QED BY <2>1, <3>3, <4>0, <4>1, <4>2, <5>4
      <4>3. CASE d > c
        <5>1. unread[c][m].num < unread[d][i].num
          BY <1>2, <1>24, <3>3, <4>0, <4>1, <4>3 DEF OrderInv, Numbered
        <5>2. unread[d][i].num \in Nat
          BY <1>11, <4>1, NumFacts
        <5> QED BY <1>24, <2>1, <3>3, <4>0, <4>1, <5>1, <5>2
      <4>4. CASE d < c
        <5>1. unread[d] = <<>>
          BY <1>0, <1>1, <3>3, <4>4, OlderEmpty DEF c
        <5> QED BY <4>1, <5>1
      <4>5. d \in Nat /\ c \in Nat
        BY <1>2, ChanFacts
      <4> QED BY <4>2, <4>3, <4>4, <4>5
    <3> QED BY <3>1, <3>2, <3>3
  <2> QED BY <1>8, <2>3, <2>4
<1> QED BY <1>8, <1>18, <1>20, <1>21, <1>22, <1>25, <1>26 DEF OrderInv

\* A write throws: some of what was read is written, all of it stays.
LEMMA PollWriteThrowsOrder ==
  ASSUME TInv, LossInv, OrderInv, PollWriteThrows
  PROVE  OrderInv'
<1>1. /\ UNCHANGED <<channels, nchans, owner, unread, visible, wpc, cur, committed>>
      /\ cpc = "write" /\ cpc' = "idle" /\ failures' # 0
  BY DEF PollWriteThrows, Throw, sessionVars, channelVars, writerVars, TInv, TypeOK, ConsumerTypes
<1>2. InTurn' /\ \A w \in Writers : \A n : Written(w, n) => Written(w, n)'
  <2>1. CASE UNCHANGED delivered
    BY <2>1 DEF OrderInv, InTurn, Written
  <2>2. ASSUME NEW i \in 1..Len(batch), Deliver(channels[pos], SubSeq(batch, 1, i - 1))
        PROVE  InTurn' /\ \A w \in Writers : \A n : Written(w, n) => Written(w, n)'
    <3>1. PICK o : o = owner[channels[pos]]
      OBVIOUS
    <3>2. PICK events : events = SubSeq(batch, 1, i - 1)
      OBVIOUS
    <3>3. batch \in Seq(Events) /\ Len(batch) \in Nat
      BY DEF TInv, TypeOK, ConsumerTypes
    <3>4. /\ events \in Seq(Events) /\ Len(events) <= Len(batch)
          /\ \A k \in DOMAIN events : events[k] = batch[k]
      BY <3>2, <3>3, SubSeqProperties
    <3>5. channels[pos] \in Chans /\ owner[channels[pos]] \in Writers
      BY <1>1, PollFacts
    <3>6. Deliver(channels[pos], events)
      BY <2>2, <3>2
    <3>7. Continues(o, events)
      BY <1>1, <3>1, <3>4, <3>6, DeliverOrder
    <3>8. \A w \in Writers : \A n : Written(w, n) => Written(w, n)'
      BY <3>1, <3>4, <3>5, <3>6, DeliverKeeps
    <3> QED BY <3>7, <3>8 DEF Continues
  <2> QED BY <2>1, <2>2 DEF PollWriteThrows
<1>3. Owned' /\ Sorted' /\ Numbered'
  BY <1>1 DEF OrderInv, Owned, Sorted, Numbered
<1>4. Emptied'
  BY <1>1 DEF OrderInv, Emptied, Replaced, Due, Busy
<1>5. NoGaps'
  <2>1. ASSUME NEW c \in 1..nchans, NEW n, Preceded(c, n) PROVE Preceded(c, n)'
    BY <1>1, <1>2, <2>1, ChanFacts DEF Preceded
  <2>2. ASSUME NEW c \in 1..nchans, unread[c] # <<>> PROVE Preceded(c, unread[c][1].num)'
    <3>1. PICK n : n = unread[c][1].num
      OBVIOUS
    <3>2. Preceded(c, n)'
      BY <2>1, <2>2, <3>1 DEF OrderInv, NoGaps
    <3> QED BY <1>1, <3>1, <3>2 DEF Preceded
  <2>3. ASSUME NEW w \in Writers, wpc[w] # "new", unread[cur[w]] = <<>>
        PROVE  Preceded(cur[w], committed[w] + 1)'
    <3>1. cur[w] \in 1..nchans
      BY <2>3, WriterFacts
    <3>2. PICK n : n = committed[w] + 1
      OBVIOUS
    <3>3. Preceded(cur[w], n)
      BY <2>3, <3>2 DEF OrderInv, NoGaps
    <3>4. Preceded(cur[w], n)'
      BY <1>1, <2>1, <3>1, <3>3
    <3> QED BY <1>1, <3>2, <3>4 DEF Preceded
  <2> QED BY <1>1, <2>2, <2>3 DEF NoGaps
<1>6. Once'
  BY <1>1 DEF Once
<1> QED BY <1>2, <1>3, <1>4, <1>5, <1>6 DEF OrderInv

-----------------------------------------------------------------------------
(* The theorem *)

\* Every step keeps OrderInv.
LEMMA NextOrder ==
  ASSUME TInv, LossInv, OrderInv, [Next]_vars
  PROVE  OrderInv'
<1>1. ASSUME NEW w \in Writers, Writer(w) PROVE OrderInv'
  <2>1. CASE OpenWriter(w)
    <3>1. /\ CreateChannel(w, 0) /\ 0 \in 0..MaxRenames /\ wpc[w] = "new" /\ wpc'[w] # "new"
          /\ \A v \in Writers : v # w => wpc'[v] = wpc[v]
          /\ UNCHANGED <<committed, consumerVars>>
      BY <2>1, SessionAssumption DEF OpenWriter, TInv, TypeOK, WriterTypes
    <3> QED BY <3>1, CreateOrder
  <2>2. CASE ReplaceChannel(w)
    <3>1. CreateChannel(w, propCopy[w]) /\ propCopy[w] \in 0..MaxRenames
      BY <2>2, WriterFacts DEF ReplaceChannel
    <3>2. /\ wpc[w] = "replace" /\ wpc'[w] # "new"
          /\ \A v \in Writers : v # w => wpc'[v] = wpc[v]
          /\ UNCHANGED <<committed, consumerVars>>
      BY <2>2 DEF ReplaceChannel, TInv, TypeOK, WriterTypes
    <3> QED BY <3>1, <3>2, CreateOrder
  <2>3. CASE Commit(w)
    BY <2>3, CommitOrder
  <2>4. CASE \/ CloseWriter(w) \/ SetName(w) \/ (\E s \in Sites : StartLog(w, s))
             \/ AddEventSource(w) \/ StoreSid(w) \/ CopyProp(w) \/ ReleaseChannel(w)
             \/ ReplaceFails(w) \/ DropEvent(w)
    BY <2>4, QuietOrderSteps
  <2> QED BY <1>1, <2>1, <2>2, <2>3, <2>4 DEF Writer
<1>2. CASE Memory
  BY <1>2, MemoryOrder
<1>3. CASE SetClockSync \/ Rotate \/ UNCHANGED vars
  BY <1>3, QuietOrder DEF SetClockSync, Rotate, vars, sessionVars, channelVars, writerVars,
     consumerVars
<1>4. CASE ConsumeStart \/ PollClosed \/ PollNull \/ PollRead \/ ConsumeStartThrows
  BY <1>4, ConsumerOrderSteps
<1>5. CASE PollWrite \/ PollWriteThrows \/ ConsumeEnd
  BY <1>5, PollWriteOrder, PollWriteThrowsOrder, ConsumeEndOrder
<1> QED BY <1>1, <1>2, <1>3, <1>4, <1>5 DEF Next, Poll

\* OrderInv holds initially.
LEMMA InitOrder == Init => OrderInv
<1> SUFFICES ASSUME Init PROVE OrderInv
  OBVIOUS
<1>1. Owned /\ Sorted /\ Emptied
  BY DEF Init, Owned, Sorted, Emptied
<1>2. Numbered /\ NoGaps
  BY DEF Init, Numbered, NoGaps
<1>3. InTurn /\ Once
  BY DEF Init, InTurn, Once
<1> QED BY <1>1, <1>2, <1>3 DEF OrderInv

\* EventsInOrder holds for any number of writers, channels and failing writes,
\* on a machine that keeps the order of the two loads of consume.
THEOREM WrittenInOrder ==
  ASSUME LoadsInOrder
  PROVE  Spec => []EventsInOrder
<1>1. TInv /\ OrderInv => EventsInOrder
  <2> SUFFICES ASSUME TInv, OrderInv PROVE EventsInOrder
    OBVIOUS
  <2>1. failures = 0 \/ failures > 0
    BY DEF TInv, TypeOK, ConsumerTypes
  <2> QED BY <2>1 DEF OrderInv, InTurn, Once, EventsInOrder
<1>2. TInv /\ LossInv /\ [Next]_vars => LossInv'
  BY NextLoss
<1> QED BY <1>1, <1>2, NextOrder, InitLoss, InitOrder, SessionInvT, PTL DEF Spec
=============================================================================
