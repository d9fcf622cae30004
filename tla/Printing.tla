------------------------------ MODULE Printing ------------------------------
(***************************************************************************)
(* From the bytes of an event to its text                                  *)
(*   include/mserialize/visit.hpp, detail/Visit.hpp,                       *)
(*   include/binlog/ToStringVisitor.*, PrettyPrinter.*                     *)
(*                                                                         *)
(* Text is made of chunks, one for each call of the buffered stream: put,  *)
(* write or number.  A visitor is what is left of the input, where it is   *)
(* in the text, the chunks so far, and whether it threw.  A printer is the *)
(* event format, the time format and the ClockSync.                        *)
(***************************************************************************)
EXTENDS TypeTags, Time
LOCAL INSTANCE SequencesExt
LOCAL INSTANCE TLC

CONSTANTS
  RepeatLimit,   \* Longer sequences of equal, empty elements are abbreviated: 32
  MaxRecursion   \* 2048

NewVisitor(in) ==
  [in |-> in, state |-> "Normal", depth |-> 0, empty |-> FALSE, out |-> <<>>, threw |-> FALSE]

emit(s, op, text) ==
  IF s.threw THEN s ELSE [s EXCEPT !.out = Append(@, [op |-> op, text |-> text])]
put(s, c)       == emit(s, "put", <<c>>)
write(s, text)  == emit(s, "write", text)
number(s, n)    == emit(s, "number", digits(n, 10))

\* The visitor after a read of its input.
after(s, r) == [s EXCEPT !.in = r.in, !.threw = @ \/ ~r.ok]
throws(s)   == [s EXCEPT !.threw = TRUE]

\* The text of an event: the first letters stand for the characters.
charOf(code) == <<"A", "B", "C", "D", "E">>[code - 64]
textOf(codes) == [i \in DOMAIN codes |-> charOf(codes[i])]

(***************************** ToStringVisitor *****************************)

comma(s) ==
  CASE s.state = "SeqBegin" -> [s EXCEPT !.state = "Seq"]
    [] s.state = "Seq"      -> write(s, <<",", " ">>)
    [] OTHER                -> s

enterSeq(s) == [s EXCEPT !.state = "SeqBegin", !.depth = @ + 1]

leaveSeq(s) ==
  [s EXCEPT !.depth = @ - 1, !.state = IF s.depth = 1 THEN "Normal" ELSE "Seq"]

visitString(s, size) ==
  LET r == view(s.in, size)
  IN  IF r.ok THEN write(after(comma(s), r), textOf(r.value)) ELSE throws(comma(s))
SequenceBegin(s) == enterSeq(put(comma(s), "["))
SequenceEnd(s)   == leaveSeq(put(s, "]"))
TupleBegin(s)    == enterSeq(put(comma(s), "("))
TupleEnd(s)      == leaveSeq(put(s, ")"))
VisitNull(s)     == write(comma(s), <<"{null}">>)
VisitEnum(s, enumerator, hex) ==
  IF enumerator = <<>> THEN write(write(comma(s), <<"0", "x">>), hex)
  ELSE write(comma(s), enumerator)
RepeatEnd(s, size) ==
  IF size > 1
  THEN write(number(write(s, <<" ... <repeats ">>), size), <<" times>">>)
  ELSE s
StructBegin(s, name, fields) ==
  LET named == write(comma(s), before(name, "<"))
  IN  IF fields = <<>> THEN [named EXCEPT !.empty = TRUE]
      ELSE enterSeq(write(named, <<"{", " ">>))
StructEnd(s) ==
  IF s.empty THEN [s EXCEPT !.empty = FALSE] ELSE leaveSeq(write(s, <<" ", "}">>))
FieldBegin(s, name) ==
  LET c == comma(s)
  IN  [(IF name = <<>> THEN c ELSE write(write(c, name), <<":", " ">>))
         EXCEPT !.state = "Normal"]
FieldEnd(s) == [s EXCEPT !.state = "Seq"]

(******************************* PrettyPrinter ******************************)

\* n with zeros in front, as many digits as fit when negative.
padded(n, width) ==
  LET zeros(k) == [i \in 1..k |-> "0"]
      abs      == IF n < 0 THEN digits(-n, 10) ELSE digits(n, 10)
      all      == zeros(width - Len(abs)) \o abs
  IN  IF n < 0 THEN SubSeq(<<"-">> \o all, 1, width) ELSE all
printTwoDigits(s, i) == write(s, padded(i, 2))

\* As many digits as a fraction of a second has: nine.
printNineDigits(s, i) == write(s, padded(i, Len(digits(Den - 1, 10))))

printTimeZoneOffset(s, seconds) ==
  LET psecs == IF seconds < 0 THEN -seconds ELSE seconds
      hours == psecs \div 3600
      mins  == (psecs \div 60) - 60 * hours
      two(t, n) == printTwoDigits(t, IF n < 100 THEN n ELSE 0)
  IN  two(two(put(s, IF seconds >= 0 THEN "+" ELSE "-"), hours), mins)

printTimeField(s, spec, bdt, tzoffset, tzname) ==
  CASE spec \in {"Y", "y", "m", "d"} -> write(s, <<spec>> \o digits(bdt.time.day, 10))
    [] spec = "H" -> printTwoDigits(s, bdt.time.hour)
    [] spec = "M" -> printTwoDigits(s, bdt.time.min)
    [] spec = "S" -> printTwoDigits(s, bdt.time.sec)
    [] spec = "z" -> printTimeZoneOffset(s, tzoffset)
    [] spec = "Z" -> write(s, tzname)
    [] spec = "N" -> printNineDigits(s, bdt.nsec)
    [] OTHER      -> put(put(s, "%"), spec)

\* A format: its characters and its placeholders, in order.  A last % is not a
\* placeholder.
RECURSIVE pieces(_)
pieces(format) ==
  IF format = <<>> THEN <<>>
  ELSE IF Head(format) = "%" /\ Len(format) > 1
       THEN <<[isField |-> TRUE, c |-> format[2]]>> \o pieces(remove_prefix(format, 2))
       ELSE <<[isField |-> FALSE, c |-> Head(format)]>> \o pieces(Tail(format))

printTime(p, s, ns, tzoffset, tzname) ==
  LET bdt == nsSinceEpochToBrokenDownTimeUTC(ns)
  IN  FoldLeft(LAMBDA t, piece :
                 IF piece.isField THEN printTimeField(t, piece.c, bdt, tzoffset, tzname)
                 ELSE put(t, piece.c),
               s, pieces(p.timeFormat))

\* The ClockSync of a stream that had none: all zero, and no tzName.
syncOf(p) == IF Len(p.clockSync) = 4 THEN p.clockSync ELSE <<0, 0, 0, 0>>
tzName(p) == IF Len(p.clockSync) = 4 THEN <<"TZ">> ELSE <<>>

printLocal(p, s, ns) ==
  printTime(p, s, int64(ns + Den * syncOf(p)[4]), syncOf(p)[4], tzName(p))
printUTC(p, s, ns) == printTime(p, s, ns, 0, <<"UTC">>)

\* The first %d or %u decides.
useLocaltime(format) ==
  LET dates == SelectSeq(pieces(format), LAMBDA x : x.isField /\ x.c \in {"d", "u"})
  IN  dates = <<>> \/ dates[1].c = "d"

\* The structs that are not printed field by field: how, or "none".
Address       == <<"binlog::address">>
TimePoint     == <<"std::chrono::system_clock::time_point">>
Duration(per) == <<"std::chrono::duration", "<", "Rep,", per, ">">>
Path          == <<"std::filesystem::path">>
DirectoryEntry == <<"std::filesystem::directory_entry">>
ErrorCode     == <<"std::error_code">>
suffixOf == ("std::nano" :> "ns" @@ "std::micro" :> "us" @@ "std::milli" :> "ms" @@
             "std::ratio<1>" :> "s" @@ "std::ratio<60>" :> "m" @@ "std::ratio<3600>" :> "h")

specialStruct(name, fields) ==
  CASE name = Address /\ fields = label(<<"value">>) \o <<"L">>     -> "address"
    [] name = TimePoint /\ fields = label(<<"ns">>) \o <<"l">>      -> "time"
    [] \E per \in DOMAIN suffixOf : name = Duration(per)
         /\ \E rep \in {"l", "i"} : fields = label(<<"count">>) \o <<rep>> -> "duration"
    [] \/ name = Path /\ fields = label(<<"str">>) \o <<"[", "c">>
       \/ name = ErrorCode /\ fields = label(<<"message">>) \o <<"[", "c">>
       \/ name = DirectoryEntry
          /\ fields = label(<<"path">>) \o <<"{">> \o Path \o label(<<"str">>) \o <<"[", "c", "}">>
       -> "string"
    [] OTHER -> "none"

\* The 8 byte values are read with their own width.
printStruct(p, s, name, fields) ==
  LET r    == readArith(s.in, Last(fields))
      size == readArith(s.in, "I")
      t    == after(s, r)
  IN  CASE specialStruct(name, fields) = "address" ->
             IF r.ok THEN write(write(t, <<"0", "x">>), toHex(r.value)) ELSE t
        [] specialStruct(name, fields) = "time" ->
             IF ~r.ok THEN t
             ELSE IF useLocaltime(p.format) THEN printLocal(p, t, r.value)
             ELSE printUTC(p, t, r.value)
        [] specialStruct(name, fields) = "duration" ->
             IF r.ok THEN write(number(t, r.value), <<suffixOf[name[4]]>>) ELSE t
        [] specialStruct(name, fields) = "string" ->
             LET chars == view(size.in, size.value)
             IN  IF size.ok /\ chars.ok THEN write(after(s, chars), textOf(chars.value))
                 ELSE throws(s)
=============================================================================
