------------------------------- MODULE MCBread -------------------------------
(***************************************************************************)
(* Logs for bread, one for each way a value, a format or an input is       *)
(* special; and the table of sources and the ClockSync on their own, in    *)
(* orders of ids and at boundaries that the short logs do not have.        *)
(***************************************************************************)
EXTENDS Bread, Entry, SourceTable, Clock
LOCAL INSTANCE TLC
LOCAL INSTANCE FiniteSetsExt
LOCAL INSTANCE SequencesExt

I4  == Arith("i")
Text == Sequence(Arith("c"))
P    == <<"P">>           \* a point
N    == <<"N">>           \* a list
Node == <<"N", "ode">>    \* holds an N, whose name is the beginning of its own
D    == <<"D">>           \* a point and more
E    == <<"E", "<", "T">> \* nothing
B    == <<"B">>           \* nothing but an E
field(name, t) == [label |-> name, type |-> t]

MCStructs ==
  P    :> <<field(<<"x">>, I4), field(<<"y">>, I4)>> @@
  N    :> <<field(<<"v">>, I4), field(<<"next">>, Optional(Struct(N)))>> @@
  Node :> <<field(<<"n">>, Struct(N)), field(<<"up">>, Optional(Struct(Node)))>> @@
  D    :> <<field(<<>>, Struct(P)), field(<<"e">>, Struct(E)), field(<<"z">>, Sequence(I4))>> @@
  E    :> <<>> @@
  B    :> <<field(<<"e">>, Struct(E))>> @@
  Address        :> <<field(<<"value">>, Arith("L"))>> @@
  TimePoint      :> <<field(<<"ns">>, Arith("l"))>> @@
  Duration("std::milli")     :> <<field(<<"count">>, Arith("l"))>> @@
  Duration("std::ratio<60>") :> <<field(<<"count">>, Arith("i"))>> @@
  Path           :> <<field(<<"str">>, Text)>> @@
  ErrorCode      :> <<field(<<"message">>, Text)>> @@
  DirectoryEntry :> <<field(<<"path">>, Struct(Path))>>

Flag == <<"Flag">>
MCEnums ==
  Flag :> [letter |-> "s",
           enumerators |-> <<[value |-> 1, label |-> <<"Yes">>], [value |-> 17, label |-> <<"Big">>],
                             [value |-> -1, label |-> <<"No">>], [value |-> 1, label |-> <<"Si">>]>>]

\* What was logged: the format string, {} for an argument, and the arguments.
logged(message, types, values) ==
  [message |-> message, types |-> types, values |-> values]

sourceOf(g, id) ==
  [id |-> id, severity |-> <<"INFO">>, category |-> <<"main">>, function |-> <<"f">>,
   file |-> <<"dir", "/", "a", ".cpp">>, line |-> 17,
   formatString |-> FlattenSeq([i \in DOMAIN g.message |->
     IF g.message[i] = "{}" THEN <<"{", "}">> ELSE <<g.message[i]>>]),
   argumentTags |-> tagsOf(g.types, {})]

\* The entries of a log of `given`: event n at clocks[n], the last one `cut`
\* bytes short.
entriesOf(given, clocks, cut) ==
  FlattenSeq([n \in DOMAIN given |->
    LET bytes == serializeEach(serialize, given[n].types, given[n].values)
        kept  == IF n = Len(given) THEN remove_suffix(bytes, cut) ELSE bytes
    IN  <<SourceEntry(n, sourceOf(given[n], n)),
          EventEntry(n, [clock |-> clocks[n], n |-> n, arguments |-> kept])>>])

Sync == <<100, 7, 5000, -600>>
logOf(given, clocks, cut, format, sync, sorted) ==
  [printer |-> [format |-> format, clockSync |-> sync,
                timeFormat |-> <<"%", "d", " ", "%", "H", "%", "M", ":", "%", "S", "%", "N",
                                 "%", "z", "%", "Z", "%", "?">>],
   sorted |-> sorted, given |-> given, cut |-> cut,
   entries |-> <<WriterEntry(12), ClockEntry(sync)>> \o entriesOf(given, clocks, cut)]

\* The message of one event, with no more around it.
message(g) == logOf(<<g>>, <<1>>, 0, <<"%", "m">>, Sync, FALSE)

nothings(n) == [i \in 1..n |-> <<>>]
letters == <<65, 66, 67, 68, 69, 65, 66>>
None    == <<>>
Some(v) == <<v>>
\* The N of these numbers.
chain(vs) == FoldRight(LAMBDA v, rest : Some(<<v, rest>>), vs, None)[1]

Messages ==
  {logged(<<"a", "{}", "{", "{}", "}">>, <<I4, Arith("b")>>, <<-300, -7>>),
   logged(<<"{}", "{}", "{}", "{}">>, <<Arith("y"), Arith("c"), Arith("B"), Arith("S")>>,
          <<1, 66, 200, 65535>>),
   logged(<<"{}", " ", "{}">>, <<Sequence(I4), Array(Arith("y"), 2)>>,
          << <<1, 2, 3>>, <<0, 1>> >>),
   logged(<<"{}", "{}">>, <<Sequence(Sequence(I4)), Text>>,
          << << <<1>>, <<>>, <<2, 3>> >>, letters>>),
   logged(<<"{}", "{}">>, <<Tuple(<<I4, Text, Tuple(<<>>), I4>>), I4>>,
          << <<1, <<65>>, <<>>, 2>>, 3>>),
   logged(<<"{}", "{}">>, <<Sequence(Optional(I4)), Optional(Text)>>,
          << <<None, Some(5), None>>, None>>),
   logged(<<"{}", "{}">>, <<Sequence(Struct(P)), Struct(P)>>,
          << << <<1, 2>>, <<3, 4>> >>, <<5, 6>> >>),
   logged(<<"{}", "{}">>, <<Struct(D), Sequence(Struct(E))>>,
          << << <<1, 2>>, <<>>, <<4, 5>> >>, nothings(2)>>),
   logged(<<"{}", "{}">>, <<Struct(N), I4>>, <<chain(<<1, 2, 3>>), 4>>),
   logged(<<"{}">>, <<Struct(Node)>>,
          << <<chain(<<1, 2>>), Some(<<chain(<<3>>), None>>)>> >>),
   logged(<<"{}", "{}">>, <<Sequence(Enum(Flag)), Enum(Flag)>>, << <<1, -1, 17, 2>>, -2>>),
   logged(<<"{}", "{}", "{}">>,
          <<Sequence(Tuple(<<>>)), Sequence(Struct(B)), Sequence(Struct(E))>>,
          <<nothings(5), [i \in 1..4 |-> <<nothings(0)>>], nothings(3)>>),
   logged(<<"{}", "{}">>,
          <<Sequence(Struct(Duration("std::milli"))), Struct(Duration("std::ratio<60>"))>>,
          << << <<5>>, <<-6>> >>, <<90>> >>),
   logged(<<"{}", "{}">>, <<Tuple(<<Struct(Address), Struct(Path)>>), Struct(DirectoryEntry)>>,
          << << <<171>>, << <<65, 66>> >> >>, << << <<67>> >> >> >>),
   logged(<<"{}", "{}">>, <<Struct(ErrorCode), Sequence(Struct(Address))>>,
          << << <<68>> >>, << <<16>> >> >>),
   logged(<<"{}", "{}">>,
          <<Sequence(Variant(<<I4, Monostate, Struct(P)>>)), Optional(Variant(<<I4>>))>>,
          << << <<2, <<1, 2>> >>, <<1, <<>> >>, <<3, <<>> >>, <<0, 9>> >>, Some(<<0, 4>>)>>),
   \* deeper than MaxRecursion
   logged(<<"a", "{}", "z">>, <<Struct(N)>>, <<chain(<<1, 2, 3, 4, 5>>)>>)}

answer == logged(<<"n", "=", "{}">>, <<I4>>, <<40>>)
names   == logged(<<"{}">>, <<Sequence(Text)>>, << <<letters, <<65>> >> >>)
moment  == logged(<<"{}">>, <<Struct(TimePoint)>>, << <<12345>> >>)

LongFormat ==
  <<"%", "I", "%", "S", "%", "C", "%", "M", "%", "F", "%", "G", "%", "L", "%", "P", "%", "T",
    "%", "n", "%", "t", "%", "r", "%", "%", "%", "q", "%", "u", "%", "d", " ", "%">>
LocalFormat == <<"%", "d", "%", "m", "%", "u">>
UTCFormat   == <<"%", "u", "%", "m">>
ClockFormat == <<"%", "r", ":", "%", "m">>

MCJobs ==
  {message(g) : g \in Messages \union {answer}} \union
  {logOf(<<answer, names>>, <<90, 120>>, 0, LongFormat, Sync, FALSE),
   logOf(<<moment>>, <<120>>, 0, LocalFormat, Sync, FALSE),
   logOf(<<moment>>, <<120>>, 0, UTCFormat, <<100, 7, 5000, 600>>, FALSE),
   logOf(<<moment>>, <<120>>, 0, UTCFormat, NoClock, FALSE)} \union
  {logOf(<<answer, names, answer, answer>>, <<3, 1, 2, 1>>, cut, ClockFormat, NoClock, sorted) :
     cut \in {0, 1}, sorted \in BOOLEAN} \union
  {logOf(<<answer, names>>, <<1, 2>>, cut, <<"%", "m">>, NoClock, FALSE) : cut \in {1, 5, 12}}

\* All that is logged, and its parts.
Given == Messages \union {answer, names, moment}
partTypes(t) ==
  CASE t.kind \in {"seq", "array", "optional"} -> {t.of}
    [] t.kind = "tuple"   -> ToSet(t.elems)
    [] t.kind = "struct"  -> ToSet(fieldTypes(t.name))
    [] t.kind = "variant" -> ToSet(alternatives(t))
    [] OTHER              -> {}
parts(t, v) ==
  CASE t.kind \in {"seq", "array", "optional"} -> {<<t.of, v[i]>> : i \in DOMAIN v}
    [] t.kind = "tuple"   -> {<<t.elems[i], v[i]>> : i \in DOMAIN v}
    [] t.kind = "struct"  -> {<<fieldTypes(t.name)[i], v[i]>> : i \in DOMAIN v}
    [] t.kind = "variant" -> {<<alternatives(t)[v[1] + 1], v[2]>>}
    [] OTHER              -> {}
RECURSIVE allTypes(_), allParts(_)
allTypes(ts) ==
  LET more == UNION {partTypes(t) : t \in ts} IN IF more \subseteq ts THEN ts ELSE allTypes(ts \union more)
allParts(ps) ==
  LET more == UNION {parts(p[1], p[2]) : p \in ps} IN IF more \subseteq ps THEN ps ELSE allParts(ps \union more)

MCTypes  == allTypes({Arith("L")} \union UNION {ToSet(g.types) : g \in Given})
MCValues ==
  LET all == allParts({<<Arith("L"), n>> : n \in {1, 300}} \union
                      UNION {{<<g.types[i], g.values[i]>> : i \in DOMAIN g.types} : g \in Given})
  IN  [t \in MCTypes |-> {p[2] : p \in {q \in all : q[1] = t}}]

\* The id of the source, the clock and the arguments.
MCEntries ==
  {[types |-> <<Arith("L"), Arith("L")>> \o g.types, values |-> <<1, 300>> \o g.values] : g \in Given}

MCFollowing == {<<>>, <<7, 0>>}

MCClocks  == {0, 1, 2, 93, 99, 100, 101, 107, 163, 1000, 16383, 16384, 16484, 32767}
MCTicking == {<<c, f, ns, 0>> : c \in {0, 100, 32760}, f \in {1, 7, 10, 1000, 1638}, ns \in {0, 5000}}

\* The table is filled, the ClockSync is read, and the entries are written and
\* read, before one of the jobs begins.
MCInit == Init /\ TableInit /\ ClockInit /\ EntryInit

Before == job = message(answer) /\ phase = "next" /\ output = <<>>
TableStep == Before /\ inForce = NoSync /\ stage = "start" /\ TableNext /\ UNCHANGED <<vars, inForce, entryVars>>
ClockStep == Before /\ table = EmptyMap /\ stage = "start" /\ ClockNext /\ UNCHANGED <<vars, tableVars, entryVars>>
EntryStep == Before /\ table = EmptyMap /\ inForce = NoSync /\ EntryNext /\ UNCHANGED <<vars, tableVars, inForce>>
PrintStep ==
  table = EmptyMap /\ inForce = NoSync /\ stage = "start" /\ Next /\ UNCHANGED <<tableVars, inForce, entryVars>>

MCSpec ==
  MCInit /\ [][TableStep \/ ClockStep \/ EntryStep \/ PrintStep]_<<vars, tableVars, inForce, entryVars>>
=============================================================================
