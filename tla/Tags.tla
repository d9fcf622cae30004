-------------------------------- MODULE Tags --------------------------------
(***************************************************************************)
(* Taking type tags apart                                                  *)
(*   include/mserialize/detail/tag_util.hpp, detail/Singular.hpp           *)
(*                                                                         *)
(* Where the code removes from a string_view what it returns, there are    *)
(* two operators here: one for what is returned, one for what is left.     *)
(***************************************************************************)
EXTENDS Integers, Sequences, FiniteSets
LOCAL INSTANCE FiniteSetsExt

\* The two quotes around a label: not written as what they are, which the
\* parser takes for quotes inside of a string.
LabelBegin == "backquote"
LabelEnd   == "quote"

remove_prefix(s, n) == SubSeq(s, n + 1, Len(s))
remove_suffix(s, n) == SubSeq(s, 1, Len(s) - n)

count(s, c, from, to) == Cardinality({i \in from..to : s[i] = c})

\* The first character counts as an opening one, whatever it is.
size_between_balanced(s, open, close) ==
  LET closing == {i \in 2..Len(s) : count(s, close, 2, i) = 1 + count(s, open, 2, i)}
  IN  IF closing = {} THEN Len(s) ELSE Min(closing)

find_pos(s, c) ==
  LET at == {i \in DOMAIN s : s[i] = c}
  IN  IF at = {} THEN Len(s) ELSE Min(at) - 1

\* What remove_prefix_before returns.
before(s, c) == SubSeq(s, 1, find_pos(s, c))

closerOf == [x \in {"(", "<", "{", "/"} |->
  CASE x = "(" -> ")" [] x = "<" -> ">" [] x = "{" -> "}" [] x = "/" -> "\\"]

tag_first_size(tags) ==
  LET n    == Min({i \in 0..Len(tags) : i = Len(tags) \/ tags[i + 1] # "["})
      rest == remove_prefix(tags, n)
  IN  CASE rest = <<>> -> n
        [] rest # <<>> /\ Head(rest) \in DOMAIN closerOf ->
             n + size_between_balanced(rest, Head(rest), closerOf[Head(rest)])
        [] OTHER -> n + 1

\* tag_pop.
firstTag(tags)  == SubSeq(tags, 1, tag_first_size(tags))
afterTag(tags)  == remove_prefix(tags, tag_first_size(tags))

\* tag_pop_label.
firstLabel(tags) == before(Tail(tags), LabelEnd)
afterLabel(tags) == remove_prefix(tags, Len(firstLabel(tags)) + 2)

\* tag_pop until nothing is left, and the same for the fields of a struct.
RECURSIVE eachTag(_)
eachTag(tags) == IF tags = <<>> THEN <<>> ELSE <<firstTag(tags)>> \o eachTag(afterTag(tags))

RECURSIVE eachField(_)
eachField(tags) ==
  IF tags = <<>> THEN <<>>
  ELSE LET rest == afterLabel(tags)
       IN  <<[name |-> firstLabel(tags), tag |-> firstTag(rest)]>> \o eachField(afterTag(rest))

\* string_view::find.
occurrences(s, x) == {i \in 1..(Len(s) - Len(x) + 1) : SubSeq(s, i, i + Len(x) - 1) = x}

\* Slip: any struct whose name begins the same is taken for the definition.
resolve_recursive_tag_by_prefix(full_tag, intro) ==
  LET k    == Min(occurrences(full_tag, intro)) + Len(intro)
      rest == remove_prefix(full_tag, k - 1)
  IN  IF rest = <<>> \/ Head(rest) = "}" THEN <<>>
      ELSE SubSeq(rest, 1, size_between_balanced(rest, "{", "}") - 1)

\* The fields of the struct, from the first place that has all of its name:
\* none if that is itself a reference.
resolve_recursive_tag(full_tag, intro) ==
  LET ends == {i + Len(intro) : i \in occurrences(full_tag, intro)}
      hits == {k \in ends : k > Len(full_tag) \/ full_tag[k] \in {LabelBegin, "}"}}
      rest == remove_prefix(full_tag, Min(hits) - 1)
  IN  IF intro = <<>> \/ hits = {} \/ rest = <<>> \/ Head(rest) = "}" THEN <<>>
      ELSE SubSeq(rest, 1, size_between_balanced(rest, "{", "}") - 1)

\* Is there but one value of the tag?  "yes", "no", or "throws" at the
\* recursion limit.
RECURSIVE singular_impl(_, _, _)
singularEach(full_tag, tags, max_recursion) ==
  LET is    == [i \in DOMAIN tags |-> singular_impl(full_tag, tags[i], max_recursion)]
      other == {i \in DOMAIN tags : is[i] # "yes"}
  IN  IF other = {} THEN "yes" ELSE is[Min(other)]
singular_tuple(full_tag, tag, max_recursion) ==
  singularEach(full_tag, eachTag(remove_suffix(Tail(tag), 1)), max_recursion)
singular_struct(full_tag, tag, max_recursion) ==
  LET intro  == before(remove_suffix(tag, 1), LabelBegin)
      fields == eachField(remove_prefix(remove_suffix(tag, 1), Len(intro)))
  IN  IF fields = <<>>
      THEN IF resolve_recursive_tag(full_tag, intro) = <<>> THEN "yes" ELSE "no"
      ELSE singularEach(full_tag, [i \in DOMAIN fields |-> fields[i].tag], max_recursion)
singular_impl(full_tag, tag, max_recursion) ==
  CASE max_recursion = 0                     -> "throws"
    [] max_recursion # 0 /\ tag = <<>>       -> "yes"
    [] max_recursion # 0 /\ tag # <<>> /\ Head(tag) = "(" ->
         singular_tuple(full_tag, tag, max_recursion - 1)
    [] max_recursion # 0 /\ tag # <<>> /\ Head(tag) = "{" ->
         singular_struct(full_tag, tag, max_recursion - 1)
    [] OTHER                                 -> "no"
=============================================================================
