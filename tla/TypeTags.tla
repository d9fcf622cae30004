------------------------------- MODULE TypeTags -------------------------------
(***************************************************************************)
(* The type tag that is logged with a source                               *)
(*   include/mserialize/detail/Tag.hpp, detail/integer_to_hex.hpp,         *)
(*   make_*_tag.hpp, include/binlog/adapt_*.hpp                            *)
(*                                                                         *)
(* A tag is a sequence of characters; a word that the readers never look   *)
(* into counts as one.                                                     *)
(***************************************************************************)
EXTENDS Serialization, Tags
LOCAL INSTANCE SequencesExt

\* The digits of n, and write_integer_as_hex for any integer type.
Digits == <<"0", "1", "2", "3", "4", "5", "6", "7", "8", "9", "A", "B", "C", "D", "E", "F">>
RECURSIVE digits(_, _)
digits(n, base) ==
  IF n < 0 THEN <<"-">> \o digits(-n, base)
  ELSE (IF n < base THEN <<>> ELSE digits(n \div base, base)) \o <<Digits[(n % base) + 1]>>
toHex(n) == digits(n, 16)

label(name) == <<LabelBegin>> \o name \o <<LabelEnd>>

\* tag<T>(): a struct that is already being described is given by its name.
RECURSIVE tagOf(_, _)
tagsOf(ts, open) == FlattenSeq([i \in DOMAIN ts |-> tagOf(ts[i], open)])
structTag(name, open) ==
  LET fields == IF name \in open THEN <<>> ELSE Structs[name]
  IN  <<"{">> \o name
      \o FlattenSeq([i \in DOMAIN fields |->
           label(fields[i].label) \o tagOf(fields[i].type, open \union {name})])
      \o <<"}">>
enumTag(name) ==
  LET e == Enums[name]
  IN  <<"/", e.letter>> \o label(name)
      \o FlattenSeq([i \in DOMAIN e.enumerators |->
           toHex(e.enumerators[i].value) \o label(e.enumerators[i].label)])
      \o <<"\\">>
tagOf(t, open) ==
  CASE t.kind = "arith"            -> <<t.letter>>
    [] t.kind \in {"seq", "array"} -> <<"[">> \o tagOf(t.of, open)
    [] t.kind = "tuple"            -> <<"(">> \o tagsOf(t.elems, open) \o <<")">>
    [] t.kind = "optional"         -> <<"<", "0">> \o tagOf(t.of, open) \o <<">">>
    [] t.kind = "variant"          -> <<"<">> \o tagsOf(alternatives(t), open) \o <<">">>
    [] t.kind = "monostate"        -> <<"0">>
    [] t.kind = "struct"           -> structTag(t.name, open)
    [] t.kind = "enum"             -> enumTag(t.name)
=============================================================================
