---------------------------- MODULE Serialization ----------------------------
(***************************************************************************)
(* What is logged of a value: its bytes, and how many                      *)
(*   include/mserialize/detail/Serializer.hpp, Deserializer.hpp,           *)
(*   StructSerializer.hpp, StructDeserializer.hpp,                         *)
(*   include/binlog/adapt_*.hpp, include/binlog/Range.hpp                  *)
(*                                                                         *)
(* A type is a record: its kind and what the kind needs.  A value is an    *)
(* integer (arithmetic, enum), the sequence of its elements or fields      *)
(* (sequence, tuple, struct), <<>> or <<v>> (optional), or <<n, v>>, v of  *)
(* alternative n (variant).  Floating point numbers are left out.          *)
(*                                                                         *)
(* The code is made by the compiler, a function for each type that calls   *)
(* those of its parts.  Here it is made level by level: what is done with  *)
(* a value, from what is done with its parts.                              *)
(***************************************************************************)
EXTENDS Integers, Sequences
LOCAL INSTANCE SequencesExt

CONSTANTS
  Structs,  \* name -> the fields in order, each [label, type]; a base has no label
  Enums,    \* name -> [letter, enumerators: the sequence of [value, label]]
  Types,    \* the types that are logged, and the types of their parts
  Values,   \* type -> its values that are logged, and those that are parts of others
  Depth     \* how deep a value is nested, at most

Arith(letter) == [kind |-> "arith", letter |-> letter]
Sequence(t)   == [kind |-> "seq", of |-> t]
Array(t, n)   == [kind |-> "array", of |-> t, size |-> n]
Tuple(ts)     == [kind |-> "tuple", elems |-> ts]
Optional(t)   == [kind |-> "optional", of |-> t]
Variant(ts)   == [kind |-> "variant", options |-> ts]
Monostate     == [kind |-> "monostate"]
Struct(name)  == [kind |-> "struct", name |-> name]
Enum(name)    == [kind |-> "enum", name |-> name]

\* The options of a variant, and last what it has when it is valueless.
alternatives(t) == Append(t.options, Monostate)
fieldTypes(name) == [i \in DOMAIN Structs[name] |-> Structs[name][i].type]

\* sizeof.
sizeofArith ==
  [y |-> 1, c |-> 1, b |-> 1, B |-> 1, s |-> 2, S |-> 2, i |-> 4, I |-> 4, l |-> 8, L |-> 8]
isSigned(letter) == letter \in {"b", "s", "i", "l"}
letterOf(t) == IF t.kind = "enum" THEN Enums[t.name].letter ELSE t.letter

Levels == [i \in 1..Depth |-> i]

\* The object representation of an integer, little endian, two's complement.
Byte == 0..255
nextByte(s, i) == [bytes |-> Append(s.bytes, s.rest % 256), rest |-> s.rest \div 256]
splitBytes(n, size) == FoldLeft(nextByte, [bytes |-> <<>>, rest |-> n], [i \in 1..size |-> i])
bytesOf(n, size) == splitBytes(n, size).bytes

\* From the most significant byte on, which has the sign.
placeByte(n, byte) == byte + 256 * n
integerOf(bytes, signed) ==
  FoldLeft(placeByte, IF signed /\ Last(bytes) >= 128 THEN -1 ELSE 0, Reverse(bytes))

serializeArith(letter, v) == bytesOf(v, sizeofArith[letter])

(******************************** Serializer *******************************)

\* serialize(v, ostream): what is written; w writes the parts.
addBytes(bytes, more) == bytes \o more
serializeEach(w, ts, vs) ==
  FoldLeft(addBytes, <<>>, [i \in DOMAIN vs |-> w[ts[i]][vs[i]]])
serializeSequence(w, t, v) ==
  serializeArith("I", Len(v)) \o serializeEach(w, [i \in DOMAIN v |-> t.of], v)
serializeOptional(w, t, v) == IF v = <<>> THEN <<0>> ELSE <<1>> \o w[t.of][v[1]]
serializeVariant(w, t, v) == serializeArith("B", v[1]) \o w[alternatives(t)[v[1] + 1]][v[2]]
serializeBy(w, t, v) ==
  CASE t.kind \in {"arith", "enum"} -> serializeArith(letterOf(t), v)
    [] t.kind \in {"seq", "array"}  -> serializeSequence(w, t, v)
    [] t.kind = "tuple"             -> serializeEach(w, t.elems, v)
    [] t.kind = "struct"            -> serializeEach(w, fieldTypes(t.name), v)
    [] t.kind = "optional"          -> serializeOptional(w, t, v)
    [] t.kind = "variant"           -> serializeVariant(w, t, v)
    [] t.kind = "monostate"         -> <<>>
serializeDeeper(w, level) == [t \in Types |-> [v \in Values[t] |-> serializeBy(w, t, v)]]
serialize == FoldLeft(serializeDeeper, [t \in Types |-> [v \in Values[t] |-> <<>>]], Levels)

\* serialized_size(v): by what the queue is reserved before v is written.
addSize(size, more) == size + more
sizeOfEach(s, ts, vs) == FoldLeft(addSize, 0, [i \in DOMAIN vs |-> s[ts[i]][vs[i]]])
sizeOfSequence(s, t, v) ==
  4 + IF t.of.kind = "arith" THEN Len(v) * sizeofArith[t.of.letter]
      ELSE sizeOfEach(s, [i \in DOMAIN v |-> t.of], v)
\* Slip: the discriminator counts for an empty optional only.
sizeOfOptionalNoTag(s, t, v) == IF v = <<>> THEN 1 ELSE s[t.of][v[1]]
sizeOfOptional(s, t, v) == 1 + IF v = <<>> THEN 0 ELSE s[t.of][v[1]]
sizeOfVariant(s, t, v) == 1 + s[alternatives(t)[v[1] + 1]][v[2]]
sizeBy(s, t, v) ==
  CASE t.kind \in {"arith", "enum"} -> sizeofArith[letterOf(t)]
    [] t.kind \in {"seq", "array"}  -> sizeOfSequence(s, t, v)
    [] t.kind = "tuple"             -> sizeOfEach(s, t.elems, v)
    [] t.kind = "struct"            -> sizeOfEach(s, fieldTypes(t.name), v)
    [] t.kind = "optional"          -> sizeOfOptional(s, t, v)
    [] t.kind = "variant"           -> sizeOfVariant(s, t, v)
    [] t.kind = "monostate"         -> 0
sizeDeeper(s, level) == [t \in Types |-> [v \in Values[t] |-> sizeBy(s, t, v)]]
serialized_size == FoldLeft(sizeDeeper, [t \in Types |-> [v \in Values[t] |-> 0]], Levels)

(******************************* Deserializer ******************************)

\* Range::read and view: the bytes taken, or an exception.
took(bytes, in) == [value |-> bytes, in |-> in, ok |-> TRUE]
threw(in)       == [value |-> <<>>, in |-> in, ok |-> FALSE]
view(in, size) ==
  IF size > Len(in) THEN threw(in)
  ELSE took(SubSeq(in, 1, size), SubSeq(in, size + 1, Len(in)))

readArith(in, letter) ==
  LET r == view(in, sizeofArith[letter])
  IN  IF r.ok THEN [r EXCEPT !.value = integerOf(@, isSigned(letter))] ELSE r

\* deserialize(v, istream); d reads the parts.  There is no deserializer of variants.
readNext(r, reader) ==
  IF ~r.ok THEN r
  ELSE LET e == reader[r.in] IN [value |-> Append(r.value, e.value), in |-> e.in, ok |-> e.ok]
deserializeEach(d, ts, in) == FoldLeft(readNext, took(<<>>, in), [i \in DOMAIN ts |-> d[ts[i]]])
deserializeSequence(d, t, in) ==
  LET n == readArith(in, "I")
  IN  CASE ~n.ok -> n
        [] n.ok /\ t.kind = "array" /\ n.value # t.size -> threw(n.in)
        [] OTHER -> deserializeEach(d, [i \in 1..n.value |-> t.of], n.in)
deserializeOptional(d, t, in) ==
  LET n == readArith(in, "B")
      e == d[t.of][n.in]
  IN  CASE ~n.ok -> n
        [] n.ok /\ n.value = 0 -> took(<<>>, n.in)
        [] OTHER -> IF e.ok THEN took(<<e.value>>, e.in) ELSE e
deserializeBy(d, t, in) ==
  CASE t.kind \in {"arith", "enum"} -> readArith(in, letterOf(t))
    [] t.kind \in {"seq", "array"}  -> deserializeSequence(d, t, in)
    [] t.kind = "tuple"             -> deserializeEach(d, t.elems, in)
    [] t.kind = "struct"            -> deserializeEach(d, fieldTypes(t.name), in)
    [] t.kind = "optional"          -> deserializeOptional(d, t, in)
    [] OTHER                        -> threw(in)
deserializeDeeper(d, level) ==
  [t \in Types |-> [in \in Seq(Byte) |-> deserializeBy(d, t, in)]]
deserialize == FoldLeft(deserializeDeeper, [t \in Types |-> [in \in Seq(Byte) |-> threw(in)]], Levels)

(********************************** Types **********************************)

\* n is a number of the integer type: all but its highest byte leave a byte.
InRange(n, letter) ==
  splitBytes(n, sizeofArith[letter] - 1).rest \in IF isSigned(letter) THEN -128..127 ELSE Byte

\* The types of the parts of a type are types.
IsType(t) ==
  \/ t.kind \in {"arith", "enum"} /\ letterOf(t) \in DOMAIN sizeofArith
  \/ t.kind \in {"seq", "array", "optional"} /\ t.of \in Types
  \/ t.kind = "tuple" /\ t.elems \in Seq(Types)
  \/ t.kind = "struct" /\ fieldTypes(t.name) \in Seq(Types)
  \/ t.kind = "variant" /\ alternatives(t) \in Seq(Types)
  \/ t.kind = "monostate"

\* is_deserializable<T>; d tells it of the parts.
isDeserializableBy(d, t) ==
  CASE t.kind \in {"arith", "enum"} -> TRUE
    [] t.kind \in {"seq", "array", "optional"} -> d[t.of]
    [] t.kind = "tuple"  -> \A i \in DOMAIN t.elems : d[t.elems[i]]
    [] t.kind = "struct" -> \A i \in DOMAIN fieldTypes(t.name) : d[fieldTypes(t.name)[i]]
    [] OTHER             -> FALSE
isDeserializableDeeper(d, level) == [t \in Types |-> isDeserializableBy(d, t)]
is_deserializable == FoldLeft(isDeserializableDeeper, [t \in Types |-> TRUE], Levels)

\* v is a value of the type, not nested deeper than Depth; c tells it of the parts.
areValues(c, ts, v) ==
  /\ v = [i \in DOMAIN ts |-> v[i]]
  /\ \A i \in DOMAIN ts : v[i] \in Values[ts[i]] /\ c[ts[i]][v[i]]
isSequence(c, t, v) ==
  /\ v \in Seq(Values[t.of]) /\ InRange(Len(v), "I")
  /\ \A i \in DOMAIN v : c[t.of][v[i]]
isVariant(c, ts, v) ==
  \E n \in DOMAIN ts : /\ InRange(n - 1, "B")
                       /\ \E x \in Values[ts[n]] : v = <<n - 1, x>> /\ c[ts[n]][x]
isValueBy(c, t, v) ==
  CASE t.kind \in {"arith", "enum"} -> v \in Int /\ InRange(v, letterOf(t))
    [] t.kind = "seq"       -> isSequence(c, t, v)
    [] t.kind = "array"     -> isSequence(c, t, v) /\ Len(v) = t.size
    [] t.kind = "tuple"     -> areValues(c, t.elems, v)
    [] t.kind = "struct"    -> areValues(c, fieldTypes(t.name), v)
    [] t.kind = "optional"  -> v = <<>> \/ \E x \in Values[t.of] : v = <<x>> /\ c[t.of][x]
    [] t.kind = "variant"   -> isVariant(c, alternatives(t), v)
    [] t.kind = "monostate" -> v = <<>>
isValueDeeper(c, level) == [t \in Types |-> [v \in Values[t] |-> isValueBy(c, t, v)]]
isValue == FoldLeft(isValueDeeper, [t \in Types |-> [v \in Values[t] |-> FALSE]], Levels)

\* Types are built of types, and values of values, no deeper than Depth.
ASSUME SerializationAssumption ==
  /\ Depth \in Nat
  /\ \A t \in Types : IsType(t) /\ \A v \in Values[t] : isValue[t][v]
=============================================================================
