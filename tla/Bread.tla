-------------------------------- MODULE Bread --------------------------------
(***************************************************************************)
(* bread: a binary log file turned into text                               *)
(*   bin/bread.cpp, bin/printers.cpp, include/binlog/TextOutputStream.cpp, *)
(*   include/binlog/detail/OstreamBuffer.*                                 *)
(*                                                                         *)
(* The loops of Printers, with the text that PrettyPrinter makes of an     *)
(* event.  A job also has its printer; given, what was logged, by number;  *)
(* and cut, the number of bytes that are missing at the end.               *)
(***************************************************************************)
EXTENDS Printers, Visiting
LOCAL INSTANCE SequencesExt
LOCAL INSTANCE FiniteSetsExt

eventOf(e) == [source |-> e.src, clockValue |-> e.num.clock, arguments |-> e.num.arguments]
printerOf(e) == [job.printer EXCEPT !.clockSync = e.clock]
printed(e) == printEvent(printerOf(e), eventOf(e), e.writer)

Next ==
  \/ Begin(printed(Head(todo)).out)
  \/ Call
  \/ End(printed(Head(todo)).threw)
  \/ Finish

Spec == Init /\ [][Next]_vars

(******************************** Properties *******************************)

\* What a reader of the log expects to see of a value: rendered from the value
\* itself, with no tag, no bytes and no state.
RECURSIVE Render(_, _)
Separated(texts, between) ==
  FlattenSeq([i \in DOMAIN texts |-> IF i = 1 THEN texts[i] ELSE between \o texts[i]])
RenderEach(ts, vs) == Separated([i \in DOMAIN vs |-> Render(ts[i], vs[i])], <<",", " ">>)
RECURSIVE Empty(_)
Empty(t) ==
  \/ t.kind = "tuple"  /\ \A i \in DOMAIN t.elems : Empty(t.elems[i])
  \/ t.kind = "struct" /\ \A i \in DOMAIN Structs[t.name] : Empty(Structs[t.name][i].type)
RenderElements(t, v) ==
  IF Len(v) > RepeatLimit /\ Empty(t.of)
  THEN Render(t.of, v[1]) \o <<" ... <repeats ">> \o digits(Len(v), 10) \o <<" times>">>
  ELSE RenderEach([i \in DOMAIN v |-> t.of], v)
RenderFields(fields, v) ==
  LET named(i) == IF fields[i].label = <<>> THEN <<>> ELSE fields[i].label \o <<":", " ">>
  IN  Separated([i \in DOMAIN v |-> named(i) \o Render(fields[i].type, v[i])], <<",", " ">>)
RenderStruct(name, v) ==
  LET fields == Structs[name]
  IN  CASE name = Address -> <<"0", "x">> \o toHex(v[1])
        [] name[1] = Duration("")[1] -> digits(v[1], 10) \o <<suffixOf[name[4]]>>
        [] name \in {Path, ErrorCode} -> textOf(v[1])
        [] name = DirectoryEntry -> textOf(v[1][1])
        [] fields = <<>> -> before(name, "<")
        [] OTHER -> before(name, "<") \o <<"{", " ">> \o RenderFields(fields, v) \o <<" ", "}">>
RenderEnum(e, v) ==
  LET at == {i \in DOMAIN e.enumerators : e.enumerators[i].value = v}
  IN  IF at = {} THEN <<"0", "x">> \o toHex(v)
      ELSE e.enumerators[CHOOSE i \in at : \A j \in at : i <= j].label
Render(t, v) ==
  CASE t.kind = "arith" /\ t.letter = "y" -> IF v = 0 THEN <<"false">> ELSE <<"true">>
    [] t.kind = "arith" /\ t.letter = "c" -> <<charOf(v)>>
    [] t.kind = "arith" /\ t.letter \notin {"y", "c"} -> digits(v, 10)
    [] t.kind \in {"seq", "array"} -> IF t.of = Arith("c") THEN textOf(v)
                                      ELSE <<"[">> \o RenderElements(t, v) \o <<"]">>
    [] t.kind = "tuple"    -> <<"(">> \o RenderEach(t.elems, v) \o <<")">>
    [] t.kind = "optional" -> IF v = <<>> THEN <<"{null}">> ELSE Render(t.of, v[1])
    [] t.kind = "variant"  -> Render(alternatives(t)[v[1] + 1], v[2])
    [] t.kind = "monostate" -> <<"{null}">>
    [] t.kind = "struct"   -> RenderStruct(t.name, v)
    [] t.kind = "enum"     -> RenderEnum(Enums[t.name], v)

Plain(g) ==
  LET argument(i) == Len(SelectSeq(SubSeq(g.message, 1, i), LAMBDA c : c = "{}"))
  IN  FlattenSeq([i \in DOMAIN g.message |->
        IF g.message[i] = "{}" THEN Render(g.types[argument(i)], g.values[argument(i)])
        ELSE <<g.message[i]>>])

\* How deep the visitor goes into a value.
RECURSIVE Nesting(_, _)
NestingEach(ts, vs) == 1 + Max({0} \union {Nesting(ts[i], vs[i]) : i \in DOMAIN vs})
NestingElements(t, v) == NestingEach([i \in DOMAIN v |-> t.of], v)
Nesting(t, v) ==
  CASE t.kind \in {"arith", "enum"}   -> 1
    [] t.kind \in {"seq", "array"}    -> IF t.of = Arith("c") THEN 1 ELSE NestingElements(t, v)
    [] t.kind = "tuple"               -> NestingEach(t.elems, v)
    [] t.kind = "optional"            -> NestingElements(t, v)
    [] t.kind = "variant"             -> IF alternatives(t)[v[1] + 1].kind = "monostate" THEN 1
                                         ELSE 1 + Nesting(alternatives(t)[v[1] + 1], v[2])
    [] t.kind = "struct"              -> NestingEach(fieldTypes(t.name), v)

\* The bytes of the event are all there, and no value is too deep.
Printable(n) ==
  LET g == job.given[n]
  IN  /\ n = Len(job.given) => job.cut = 0
      /\ \A i \in DOMAIN g.types : Nesting(g.types[i], g.values[i]) <= MaxRecursion

\* With the format %m, the text of an event is its message with the logged
\* values in place of the {}, and only what is cut short or too deep fails: the
\* commas and braces that the visitor puts by its little state, the tags
\* resolved by name, and the bytes taken one after the other (Visit.hpp,
\* ToStringVisitor.cpp, PrettyPrinter.cpp:229-250) make up what was logged.
MessageText ==
  job.printer.format = <<"%", "m">> =>
    /\ \A i \in DOMAIN output :
         Printable(output[i].num) => output[i].text = Plain(job.given[output[i].num])
    /\ phase = "done" => (failed <=> \E n \in DOMAIN job.given : ~Printable(n))
=============================================================================
