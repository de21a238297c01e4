----------------------------- MODULE LegacyValues ------------------------------
(* The typed values of the legacy client protocol: the kinds of attributes    *)
(* and their datatypes, the bytes that carry a value, and the function calls  *)
(* that change one, as the server validates them and carries them out on a    *)
(* record.  The storage engine's own mutations are here as well.              *)
(*                                                                            *)
(* Bytes are abstracted to units: <<"i", n>> is the eight bytes of the        *)
(* integer n, <<"f", r>> the eight bytes of a float that rounds to r,         *)
(* <<"s", b>> a string b with its length before it, <<"c", x>> a byte of text.*)
(* Texts in the model are UTF-8 and shorter than eight bytes.  No property    *)
(* tells two floats apart: a float that is stored is Some.                    *)
EXTENDS Integers, Sequences, FiniteSets, FiniteSetsExt, SequencesExt

CONSTANTS Width,      \* bits of an integer
          FloatBits,  \* what the bytes of a float are when read as an integer
          Some,       \* a float
          Chars,      \* what texts are made of
          Absent,     \* what is not there
          Err         \* a conversion or a function call that fails

ASSUME WidthAssumption == Width \in Nat \ {0} /\ \A k \in 0..Width : 2^k \in Nat \ {0}

MaxInt == 2^(Width - 1) - 1
MinInt == -MaxInt - 1
Ints == MinInt..MaxInt
ASSUME FloatBitsAssumption == FloatBits \in Ints

-------------------------------------------------------------------------------
(* ValueKind                                                                  *)

KBool == <<"bool">>
KInt == <<"int">>
KFloat == <<"float">>
KBytes == <<"bytes">>
KString == <<"string">>
KDocument == <<"document">>
KTimestamp == <<"timestamp">>
KList(elem) == <<"list", elem>>
KSet(elem) == <<"set", elem>>
KMap(key, value) == <<"map", key, value>>

Text == {KBytes, KString, KDocument}
IsMap(kind) == kind[1] = "map"
Over(kind, elems) ==
    \/ kind[1] \in {"list", "set"} /\ kind[2] \in elems
    \/ IsMap(kind) /\ kind[2] \in elems /\ kind[3] \in elems

\* A datatype code is the kind it was made from, or none (0).
None == <<"none">>

\* legacy_hyperdatatype, legacy_primitive_code: a container has no containers in it.
HasDatatype(kind) ==
    kind \in Text \cup {KInt, KFloat, KTimestamp} \/ Over(kind, Text \cup {KInt, KFloat})
Datatype(kind) == IF HasDatatype(kind) THEN kind ELSE Err

\* legacy_kind_from_protocol_datatype, legacy_primitive_kind: of the text kinds only
\* string is read back by itself, and no document within a container.
KindFromDatatype(dt) ==
    IF dt \in {KString, KInt, KFloat} \/ Over(dt, {KBytes, KString, KInt, KFloat})
    THEN dt ELSE Err

-------------------------------------------------------------------------------
(* A Value is <<tag, payload>>; a text is stored as bytes.                    *)

Bytes(text) == <<"bytes", text>>
Number(n) == <<"int", n>>
Float == <<"float", Some>>

\* The units that bytes are made of.
Texts == Seq({"c"} \X Chars)
Units == ({"c"} \X Chars) \cup ({"i"} \X Int) \cup ({"f"} \X (Int \cup {Some})) \cup ({"s"} \X Texts)

\* What is not there, or fails, is no number, no text and no bytes.
ASSUME DistinctAssumption ==
    /\ Err \notin Int \cup Units \cup Seq(Units)
    /\ \A x \in {Err, Absent} : x \notin ({"int"} \X Int) \cup ({"bytes"} \X Texts) \cup {Float}

\* The values that are stored for a kind; a container has elements without a container.
IsList(s) == Len(s) \in Nat /\ s = [i \in 1..Len(s) |-> s[i]]
IsElement(kind, v) ==
    \/ kind \in Text /\ v \in {"bytes"} \X Texts
    \/ kind = KInt /\ v \in {"int"} \X Int
    \/ kind = KFloat /\ v = Float
IsListOf(elem, s) == IsList(s) /\ \A i \in DOMAIN s : IsElement(elem, s[i])
IsSetOf(elem, S) == IsFiniteSet(S) /\ \A x \in S : IsElement(elem, x)
IsMapOf(key, elem, map) ==
    /\ IsSetOf(key, DOMAIN map) /\ map = [k \in DOMAIN map |-> map[k]]
    /\ \A k \in DOMAIN map : IsElement(elem, map[k])
IsValue(kind, v) ==
    \/ IsElement(kind, v)
    \/ kind[1] = "list" /\ v = <<"list", v[2]>> /\ IsListOf(kind[2], v[2])
    \/ kind[1] = "set" /\ v = <<"set", v[2]>> /\ IsSetOf(kind[2], v[2])
    \/ IsMap(kind) /\ v = <<"map", v[2]>> /\ IsMapOf(kind[2], kind[3], v[2])

\* legacy_decode_i64 and legacy_decode_f64 need eight bytes and look at no more.
HasWord(bytes) == bytes # <<>> /\ bytes[1][1] \in {"i", "f"}
AsI64(unit) == IF unit[1] = "i" THEN unit[2] ELSE FloatBits

\* legacy_decode_container_value
Element(kind, unit) ==
    CASE kind \in Text /\ unit[1] = "s" -> Bytes(unit[2])
      [] kind = KInt /\ unit[1] \in {"i", "f"} -> Number(AsI64(unit))
      [] kind = KFloat /\ unit[1] \in {"i", "f"} -> Float
      [] OTHER -> Err

Elements(kind, units) == [i \in DOMAIN units |-> Element(kind, units[i])]
OrErr(tag, parts, payload) == IF Err \in Range(parts) THEN Err ELSE <<tag, payload>>

\* The entries of a map: units in pairs; the last of two equal keys counts.
MapFrom(kind, units) ==
    LET n == Len(units) \div 2
        keys == [i \in 1..n |-> Element(kind[2], units[2 * i - 1])]
        values == [i \in 1..n |-> Element(kind[3], units[2 * i])]
        last(k) == Max({i \in 1..n : keys[i] = k})
    IN  IF Len(units) % 2 = 1 \/ Err \in Range(keys) \cup Range(values) THEN Err
        ELSE <<"map", [k \in Range(keys) |-> values[last(k)]]>>

\* legacy_value_from_kind_bytes
ValueFromKindBytes(kind, bytes) ==
    CASE kind \in Text -> Bytes(bytes)
      [] kind = KInt -> IF HasWord(bytes) THEN Number(AsI64(bytes[1])) ELSE Err
      [] kind = KFloat -> IF HasWord(bytes) THEN Float ELSE Err
      [] kind[1] = "list" ->
            LET parts == Elements(kind[2], bytes) IN OrErr("list", parts, parts)
      [] kind[1] = "set" ->
            LET parts == Elements(kind[2], bytes) IN OrErr("set", parts, Range(parts))
      [] IsMap(kind) -> MapFrom(kind, bytes)
      [] OTHER -> Err

\* legacy_value_from_protocol
ValueFromProtocol(dt, bytes) ==
    IF KindFromDatatype(dt) = Err THEN Err ELSE ValueFromKindBytes(dt, bytes)

\* legacy_encode_container_value
EncodeElement(kind, value) ==
    CASE kind \in Text /\ value[1] \in {"bytes", "string"} -> <<"s", value[2]>>
      [] kind = KInt /\ value[1] = "int" -> <<"i", value[2]>>
      [] kind = KFloat /\ value[1] = "float" -> <<"f", Some>>
      [] OTHER -> Err

Encoded(kind, values) == [i \in DOMAIN values |-> EncodeElement(kind, values[i])]
AllOrErr(units) == IF Err \in Range(units) THEN Err ELSE units

\* legacy_protocol_value_from_kind (the order of a set's elements is left open).
ProtocolValue(kind, value) ==
    CASE kind \in Text /\ value[1] \in {"bytes", "string"} -> value[2]
      [] kind \in {KInt, KFloat} /\ value[1] = kind[1] -> <<EncodeElement(kind, value)>>
      [] kind[1] = "list" /\ value[1] = "list" -> AllOrErr(Encoded(kind[2], value[2]))
      [] kind[1] = "set" /\ value[1] = "set" ->
            AllOrErr(Encoded(kind[2], SetToSeq(value[2])))
      [] IsMap(kind) /\ value[1] = "map" ->
            LET keys == SetToSeq(DOMAIN value[2])
                pair(i) == <<EncodeElement(kind[2], keys[i]),
                             EncodeElement(kind[3], value[2][keys[i]])>>
            IN  AllOrErr(FlattenSeq([i \in DOMAIN keys |-> pair(i)]))
      [] OTHER -> Err

-------------------------------------------------------------------------------
(* Records and the schema: attribute -> kind.  Attribute 0 is the key.        *)

KeyAttribute == "key"

\* legacy_non_key_attribute, legacy_named_attribute
KindOf(schema, attr) ==
    CASE attr = KeyAttribute -> KBytes
      [] attr \in DOMAIN schema -> schema[attr]
      [] OTHER -> Err

Existing(r, attr) == IF attr \in DOMAIN r THEN r[attr] ELSE Absent
With(r, attr, value) ==
    [x \in DOMAIN r \cup {attr} |-> IF x = attr THEN value ELSE r[x]]
Without(r, attr) == [x \in DOMAIN r \ {attr} |-> r[x]]
NoAttributes == [x \in {} |-> Absent]

\* legacy_default_value_for_kind
DefaultValue(kind) ==
    CASE kind \in Text -> Bytes(<<>>)
      [] kind = KInt -> Number(0)
      [] kind = KFloat -> Float
      [] kind[1] = "list" -> <<"list", <<>>>>
      [] kind[1] = "set" -> <<"set", {}>>
      [] IsMap(kind) -> <<"map", NoAttributes>>
      [] OTHER -> Err

\* legacy_record_value
RecordValue(schema, r, attr) ==
    IF attr \in DOMAIN r THEN r[attr] ELSE DefaultValue(schema[attr])

\* legacy_named_value_from_record
SendsNamed(value) == value[1] \in {"null", "bool", "int", "bytes", "string"}

\* legacy_protocol_values_from_record, legacy_named_attributes_from_record:
\* whether a record can be sent to a client.
CanSend(format, schema, r) ==
    \A attr \in DOMAIN schema :
        LET value == RecordValue(schema, r, attr)
        IN  /\ value # Err
            /\ IF format = "named" THEN SendsNamed(value)
               ELSE ProtocolValue(schema[attr], value) # Err

-------------------------------------------------------------------------------
(* Integer arithmetic                                                         *)

Saturate(i) == IF i > MaxInt THEN MaxInt ELSE IF i < MinInt THEN MinInt ELSE i

BitsOf(i) == {k \in 0..(Width - 1) : ((i % 2^Width) \div 2^k) % 2 = 1}
FromBits(B) == LET u == SumFunctionOnSet([k \in B |-> 2^k], B)
               IN  IF u > MaxInt THEN u - 2^Width ELSE u

\* legacy_signed_div_mod_i64: rounds down; the smallest integer by -1 stays.
Quotient(a, b) ==
    CASE b > 0 -> a \div b
      [] a = MinInt /\ b = -1 -> a
      [] OTHER -> (-a) \div (-b)
Remainder(a, b) == IF a = MinInt /\ b = -1 THEN 0 ELSE a - b * Quotient(a, b)

\* Mutant: the sum wraps around.
WrappingI64(name, a, b) == FromBits(BitsOf(a + b))

\* legacy_apply_i64_numeric_funcall; the first three and the bitwise ones are
\* also those of the engine (apply_numeric).
ApplyI64(name, a, b) ==
    CASE name = "num_add" -> Saturate(a + b)
      [] name = "num_sub" -> Saturate(a - b)
      [] name = "num_mul" -> Saturate(a * b)
      [] name = "num_div" -> IF b = 0 THEN Err ELSE Quotient(a, b)
      [] name = "num_mod" -> IF b = 0 THEN Err ELSE Remainder(a, b)
      [] name = "num_and" -> FromBits(BitsOf(a) \cap BitsOf(b))
      [] name = "num_or" -> FromBits(BitsOf(a) \cup BitsOf(b))
      [] name = "num_xor" -> FromBits((BitsOf(a) \cup BitsOf(b)) \ (BitsOf(a) \cap BitsOf(b)))
      [] name = "num_max" -> Max({a, b})
      [] name = "num_min" -> Min({a, b})
===============================================================================
