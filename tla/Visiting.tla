------------------------------ MODULE Visiting ------------------------------
(***************************************************************************)
(* Visiting the arguments of an event, and printing the event              *)
(*   include/mserialize/visit.hpp, detail/Visit.hpp,                       *)
(*   include/binlog/PrettyPrinter.cpp                                      *)
(***************************************************************************)
EXTENDS Printing
LOCAL INSTANCE SequencesExt
LOCAL INSTANCE FiniteSetsExt

\* Numbers are printed as such, also the ones of one byte.
visit_arithmetic(s, letter) ==
  LET r == readArith(s.in, letter)
      t == comma(after(s, r))
  IN  CASE ~r.ok               -> after(s, r)
        [] r.ok /\ letter = "y" -> write(t, IF r.value # 0 THEN <<"true">> ELSE <<"false">>)
        [] r.ok /\ letter = "c" -> put(t, charOf(r.value))
        [] OTHER                -> number(t, r.value)

RECURSIVE visit_impl(_, _, _, _, _)

visitEach(p, full_tag, tags, s, max_recursion) ==
  FoldLeft(LAMBDA t, tag : visit_impl(p, full_tag, tag, t, max_recursion), s, tags)

visit_sequence(p, full_tag, tag, s, max_recursion) ==
  LET elem_tag == firstTag(Tail(tag))
      size     == readArith(s.in, "I")
      begun    == SequenceBegin(after(s, size))
      same     == IF size.value > RepeatLimit
                  THEN singular_impl(full_tag, elem_tag, max_recursion) ELSE "no"
      elems    == [i \in 1..size.value |-> elem_tag]
  IN  CASE ~size.ok                        -> after(s, size)
        [] size.ok /\ elem_tag = <<"c">>   -> visitString(after(s, size), size.value)
        [] size.ok /\ same = "throws"      -> throws(begun)
        [] size.ok /\ same = "yes"         ->
             SequenceEnd(RepeatEnd(visit_impl(p, full_tag, elem_tag, begun, max_recursion),
                                   size.value))
        [] OTHER -> SequenceEnd(visitEach(p, full_tag, elems, begun, max_recursion))

visit_tuple(p, full_tag, tag, s, max_recursion) ==
  TupleEnd(visitEach(p, full_tag, eachTag(remove_suffix(Tail(tag), 1)), TupleBegin(s),
                     max_recursion))

\* An option that is not there is an empty tag.
visit_variant(p, full_tag, tag, s, max_recursion) ==
  LET options    == eachTag(remove_suffix(Tail(tag), 1))
      d          == readArith(s.in, "B")
      option_tag == IF d.value < Len(options) THEN options[d.value + 1] ELSE <<>>
  IN  CASE ~d.ok                       -> after(s, d)
        [] d.ok /\ option_tag = <<"0">> -> VisitNull(after(s, d))
        [] OTHER -> visit_impl(p, full_tag, option_tag, after(s, d), max_recursion)

visit_struct(p, full_tag, tag, s, max_recursion) ==
  LET body   == remove_suffix(tag, 1)
      intro  == before(body, LabelBegin)
      own    == remove_prefix(body, Len(intro))
      fields == IF own = <<>> THEN resolve_recursive_tag(full_tag, intro) ELSE own
      name   == Tail(intro)
      visitField(t, f) ==
        FieldEnd(visit_impl(p, full_tag, f.tag, FieldBegin(t, f.name), max_recursion))
  IN  IF specialStruct(name, fields) # "none" THEN printStruct(p, comma(s), name, fields)
      ELSE StructEnd(FoldLeft(visitField, StructBegin(s, name, fields), eachField(fields)))

\* The enumerator is looked up by the text of its value.
visit_enum(tag, s) ==
  LET body   == remove_suffix(Tail(tag), 1)
      r      == readArith(s.in, Head(body))
      values == remove_prefix(body, find_pos(body, LabelEnd))
      dvalue == <<LabelEnd>> \o toHex(r.value) \o <<LabelBegin>>
      at     == occurrences(values, dvalue)
      enumerator == IF at = {} THEN <<>>
                    ELSE firstLabel(remove_prefix(values, Min(at) + Len(dvalue) - 2))
  IN  IF r.ok THEN VisitEnum(after(s, r), enumerator, toHex(r.value)) ELSE after(s, r)

visit_impl(p, full_tag, tag, s, max_recursion) ==
  LET n == max_recursion - 1
  IN  CASE s.threw           -> s
        [] ~s.threw /\ n < 0 -> throws(s)
        [] ~s.threw /\ n >= 0 /\ tag = <<>> -> s
        [] ~s.threw /\ n >= 0 /\ tag # <<>> ->
             CASE Head(tag) = "[" -> visit_sequence(p, full_tag, tag, s, n)
               [] Head(tag) = "(" -> visit_tuple(p, full_tag, tag, s, n)
               [] Head(tag) = "<" -> visit_variant(p, full_tag, tag, s, n)
               [] Head(tag) = "{" -> visit_struct(p, full_tag, tag, s, n)
               [] Head(tag) = "/" -> visit_enum(tag, s)
               [] OTHER           -> visit_arithmetic(s, Head(tag))

\* Every {} of the format string takes the next tag, and its value from the
\* arguments.
RECURSIVE substituteArguments(_, _, _, _)
substituteArguments(p, fmt, tags, s) ==
  LET tag == firstTag(tags)
  IN  IF fmt = <<>> \/ s.threw THEN s
      ELSE IF Len(fmt) > 1 /\ fmt[1] = "{" /\ fmt[2] = "}"
      THEN substituteArguments(p, remove_prefix(fmt, 2), afterTag(tags),
                               visit_impl(p, tag, tag, s, MaxRecursion))
      ELSE substituteArguments(p, Tail(fmt), tags, put(s, Head(fmt)))

\* A visitor of its own writes to the same buffer.
printEventMessage(p, s, event) ==
  LET v == substituteArguments(p, event.source.formatString, event.source.argumentTags,
                               NewVisitor(event.arguments))
  IN  IF s.threw THEN s ELSE [s EXCEPT !.out = @ \o v.out, !.threw = v.threw]

printDate(p, s, event, utc) ==
  LET ns == clockToNsSinceEpoch(syncOf(p), event.clockValue)
  IN  CASE int64(syncOf(p)[2]) <= 0        -> write(s, <<"no_clock_sync?">>)
        [] int64(syncOf(p)[2]) > 0 /\ utc  -> printUTC(p, s, ns)
        [] int64(syncOf(p)[2]) > 0 /\ ~utc -> printLocal(p, s, ns)

fileName(path) ==
  LET separators == {i \in DOMAIN path : path[i] \in {"/", "\\"}}
  IN  IF separators = {} THEN path ELSE remove_prefix(path, Max(separators))

\* writer: the number of the writer, 0 when the stream named none.
writerName(writer) == IF writer = 0 THEN <<>> ELSE <<"w">> \o digits(writer, 10)

printEventField(p, s, spec, event, writer) ==
  CASE spec = "I" -> number(s, event.source.id)
    [] spec = "S" -> write(s, event.source.severity)
    [] spec = "C" -> write(s, event.source.category)
    [] spec = "M" -> write(s, event.source.function)
    [] spec = "F" -> write(s, event.source.file)
    [] spec = "G" -> write(s, fileName(event.source.file))
    [] spec = "L" -> number(s, event.source.line)
    [] spec = "P" -> write(s, event.source.formatString)
    [] spec = "T" -> write(s, event.source.argumentTags)
    [] spec = "n" -> write(s, writerName(writer))
    [] spec = "t" -> number(s, writer)
    [] spec = "d" -> printDate(p, s, event, FALSE)
    [] spec = "u" -> printDate(p, s, event, TRUE)
    [] spec = "r" -> number(s, event.clockValue)
    [] spec = "m" -> printEventMessage(p, s, event)
    [] spec = "%" -> put(s, "%")
    [] OTHER      -> put(put(s, "%"), spec)

\* The chunks of one event.
printEvent(p, event, writer) ==
  FoldLeft(LAMBDA s, piece :
             IF piece.isField THEN printEventField(p, s, piece.c, event, writer)
             ELSE put(s, piece.c),
           NewVisitor(<<>>), pieces(p.format))
=============================================================================
