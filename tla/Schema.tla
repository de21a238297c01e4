-------------------------------- MODULE Schema ---------------------------------
(* Definitions of spaces and the forms they travel in: the schema language of *)
(* data-model, the packed space that legacy administrators send, and what of  *)
(* it the configuration for clients can carry.                                *)
(*                                                                            *)
(* A schema is a sequence of lines, recognised by their first word; a type    *)
(* expression is a sequence of words, brackets and commas.                    *)
EXTENDS Integers, Sequences, FiniteSets, SequencesExt

CONSTANTS MaxU16,    \* the largest u16
          MaxU32,    \* the largest u32
          Invalid    \* what cannot be read

ASSUME WidthsAssumption == MaxU16 \in Nat /\ MaxU32 \in Nat

DefaultPartitions == 64

-------------------------------------------------------------------------------
(* Type expressions                                                           *)

Primitive == {"bool", "int", "float", "bytes", "string", "document"}
Units == <<"second", "minute", "hour", "day", "week", "month">>
Brackets == {"list(", "set(", "map(", "timestamp("}

Depth(tokens) ==
    FoldLeft(LAMBDA d, t : IF t \in Brackets THEN d + 1
                           ELSE IF t = ")" /\ d > 0 THEN d - 1 ELSE d, 0, tokens)

\* Mutant: the first comma separates, also one that is inside brackets.
AnyComma(tokens) == {i \in DOMAIN tokens : tokens[i] = ","}

\* split_top_level_once: commas outside of all brackets.
TopLevelCommas(tokens) ==
    {i \in DOMAIN tokens : tokens[i] = "," /\ Depth(SubSeq(tokens, 1, i - 1)) = 0}

\* parse_value_kind
RECURSIVE ParseValueKind(_)
ParseValueKind(tokens) ==
    LET inner == SubSeq(tokens, 2, Len(tokens) - 1)
        commas == TopLevelCommas(inner)
        Of(kinds) == IF Invalid \in {kinds[i] : i \in DOMAIN kinds} THEN Invalid
                     ELSE <<Head(tokens)>> \o kinds
    IN  CASE tokens = <<"int64">> -> <<"int">>
          [] Len(tokens) = 1 -> IF tokens[1] \in Primitive THEN tokens ELSE Invalid
          [] Len(tokens) < 2 \/ Last(tokens) # ")" -> Invalid
          [] tokens[1] \in {"list(", "set("} -> Of(<<ParseValueKind(inner)>>)
          [] tokens[1] = "map(" /\ commas # {} ->
                LET c == Min(commas)
                IN  Of(<<ParseValueKind(SubSeq(inner, 1, c - 1)),
                         ParseValueKind(SubSeq(inner, c + 1, Len(inner)))>>)
          [] tokens[1] = "timestamp(" /\ Len(inner) = 1 /\ inner[1] \in ToSet(Units) ->
                <<Head(tokens), inner[1]>>
          [] OTHER -> Invalid

\* format_value_kind
RECURSIVE FormatValueKind(_)
FormatValueKind(kind) ==
    CASE Len(kind) = 1 -> kind
      [] kind[1] = "map(" ->
            <<"map(">> \o FormatValueKind(kind[2]) \o <<",">> \o FormatValueKind(kind[3]) \o <<")">>
      [] kind[1] = "timestamp(" -> kind \o <<")">>
      [] OTHER -> <<kind[1]>> \o FormatValueKind(kind[2]) \o <<")">>

-------------------------------------------------------------------------------
(* The schema language                                                        *)

Line(is, arg) == [is |-> is, arg |-> arg]

\* parse_attribute_definition: without a type it is a string.
ParseDefinition(d) ==
    [name |-> d.name, kind |-> IF d.type = <<>> THEN <<"string">> ELSE ParseValueKind(d.type)]

\* One line of parse_hyperdex_space.
ReadLine(s, line) ==
    LET Outside(t) == [t EXCEPT !.in_attributes = FALSE]
    IN  CASE s = Invalid -> Invalid
          [] line.is = "space" -> Outside([s EXCEPT !.name = line.arg])
          [] line.is = "key" -> Outside([s EXCEPT !.key_attribute = line.arg])
          [] line.is = "attributes" -> [s EXCEPT !.in_attributes = TRUE]
          [] line.is = "subspace" ->
                Outside([s EXCEPT !.subspaces = Append(@, SelectSeq(line.arg, LAMBDA d : d # ""))])
          [] line.is = "tolerate" /\ line.arg <= MaxU32 ->
                Outside([s EXCEPT !.fault_tolerance = line.arg])
          [] line.is = "create" /\ line.arg <= MaxU32 ->
                Outside([s EXCEPT !.partitions = line.arg])
          [] line.is = "definition" /\ ~s.in_attributes -> s
          [] line.is = "definition" /\ ParseDefinition(line.arg).kind # Invalid ->
                [s EXCEPT !.attributes = Append(@, ParseDefinition(line.arg))]
          [] OTHER -> Invalid

Space(name, key, attributes, subspaces, fault_tolerance, partitions) ==
    [name |-> name, key_attribute |-> key, attributes |-> attributes, subspaces |-> subspaces,
     fault_tolerance |-> fault_tolerance, partitions |-> partitions]

\* parse_hyperdex_space; "" is what has not been named.
ParseSpace(lines) ==
    LET s == FoldLeft(ReadLine, [name |-> "", key_attribute |-> "", attributes |-> <<>>,
                                 subspaces |-> <<>>, fault_tolerance |-> 0,
                                 partitions |-> DefaultPartitions, in_attributes |-> FALSE], lines)
    IN  IF s = Invalid THEN Invalid
        ELSE IF s.name = "" \/ s.key_attribute = "" \/ s.attributes = <<>> THEN Invalid
        ELSE Space(s.name, s.key_attribute, s.attributes, s.subspaces,
                   s.fault_tolerance, s.partitions)

\* format_hyperdex_space: a subspace without dimensions leaves the bare word, which is
\* no subspace line.
FormatSpace(s) ==
    LET Written(a) == Line("definition", [type |-> FormatValueKind(a.kind), name |-> a.name])
        Subspace(dimensions) ==
            IF dimensions = <<>> THEN Line("definition", [type |-> <<>>, name |-> "subspace"])
            ELSE Line("subspace", dimensions)
    IN  <<Line("space", s.name), Line("key", s.key_attribute), Line("attributes", <<>>)>>
        \o [i \in DOMAIN s.attributes |-> Written(s.attributes[i])]
        \o [i \in DOMAIN s.subspaces |-> Subspace(s.subspaces[i])]
        \o <<Line("tolerate", s.fault_tolerance), Line("create", s.partitions)>>

-------------------------------------------------------------------------------
(* Datatype codes                                                             *)

PrimitiveBase == 9216
ListGeneric == 9280
SetGeneric == 9344
MapGeneric == 9408
TimestampGeneric == 9472
MacaroonSecret == 9664

\* decode_primitive_hyperdatatype
PrimitiveKinds == [c \in {0, 1, 2, 3, 7} |->
    CASE c = 0 -> <<"bytes">> [] c = 1 -> <<"string">> [] c = 2 -> <<"int">>
      [] c = 3 -> <<"float">> [] c = 7 -> <<"document">>]
DecodePrimitive(c) == IF c \in DOMAIN PrimitiveKinds THEN PrimitiveKinds[c] ELSE Invalid

\* Mutant: the key of a map is taken for its value.
MapTypesSwapped(dt) == <<DecodePrimitive(dt % 8), DecodePrimitive((dt \div 8) % 8)>>

\* decode_map_types
MapTypes(dt) == <<DecodePrimitive((dt \div 8) % 8), DecodePrimitive(dt % 8)>>

\* decode_hyperdatatype: bytes are no kind of an attribute, only of an element.
DecodeHyperdatatype(dt) ==
    LET Container(of, kinds) ==
            IF Invalid \in {kinds[i] : i \in DOMAIN kinds} THEN Invalid ELSE <<of>> \o kinds
        unit == dt - TimestampGeneric
    IN  CASE dt \in PrimitiveBase + 1 .. PrimitiveBase + 7 -> DecodePrimitive(dt - PrimitiveBase)
          [] dt \in ListGeneric .. SetGeneric - 1 -> Container("list(", <<DecodePrimitive(dt % 8)>>)
          [] dt \in SetGeneric .. MapGeneric - 1 -> Container("set(", <<DecodePrimitive(dt % 8)>>)
          [] dt \in MapGeneric .. TimestampGeneric - 1 -> Container("map(", MapTypes(dt))
          [] unit \in 0..6 -> <<"timestamp(", Units[IF unit = 0 THEN 1 ELSE unit]>>
          [] OTHER -> Invalid

\* legacy_hyperdatatype, legacy_primitive_code
PrimitiveCode(kind) ==
    IF \E c \in DOMAIN PrimitiveKinds : PrimitiveKinds[c] = kind
    THEN CHOOSE c \in DOMAIN PrimitiveKinds : PrimitiveKinds[c] = kind ELSE Invalid
HyperDatatype(kind) ==
    LET codes == [i \in 2..Len(kind) |-> PrimitiveCode(kind[i])]
        unit == CHOOSE u \in DOMAIN Units : Units[u] = kind[2]
    IN  CASE Len(kind) = 1 ->
                IF PrimitiveCode(kind) = Invalid THEN Invalid ELSE PrimitiveBase + PrimitiveCode(kind)
          [] kind[1] = "timestamp(" -> TimestampGeneric + (IF unit = 1 THEN 0 ELSE unit)
          [] \E i \in DOMAIN codes : codes[i] = Invalid -> Invalid
          [] kind[1] = "list(" -> ListGeneric + codes[2]
          [] kind[1] = "set(" -> SetGeneric + codes[2]
          [] kind[1] = "map(" -> MapGeneric + 8 * codes[2] + codes[3]

-------------------------------------------------------------------------------
(* Packed spaces; on the wire their counts are u16.                           *)

Secret == "__secret"
IsSecret(attr) == attr.datatype = MacaroonSecret

\* What decode_packed_hyperdex_space and decode_packed_index refuse.
WellPacked(p) ==
    /\ p.attrs # <<>> /\ ~IsSecret(p.attrs[1])
    /\ \A i \in DOMAIN p.attrs : IsSecret(p.attrs[i]) => p.attrs[i].name = Secret
    /\ \A i, j \in DOMAIN p.subspaces : p.subspaces[i].regions = p.subspaces[j].regions
    /\ \A i \in DOMAIN p.subspaces : \A k \in DOMAIN p.subspaces[i].attrs :
          p.subspaces[i].attrs[k] < Len(p.attrs)
    /\ \A i \in DOMAIN p.indices : p.indices[i].type \in {0, 1} /\ p.indices[i].attr < Len(p.attrs)
    /\ \A i \in 2..Len(p.attrs) :
          IsSecret(p.attrs[i]) \/ DecodeHyperdatatype(p.attrs[i].datatype) # Invalid
    /\ p.fault_tolerance <= MaxU32

\* Mutant: the secret stays a dimension.
DimensionsWithSecret(p, subspace) ==
    SelectSeq([k \in DOMAIN subspace.attrs |-> p.attrs[subspace.attrs[k] + 1].name],
              LAMBDA n : n # p.attrs[1].name)

\* A subspace's dimensions: neither the key nor the secret.
PackedDimensions(p, subspace) ==
    LET attrs == [k \in DOMAIN subspace.attrs |-> p.attrs[subspace.attrs[k] + 1]]
        kept == SelectSeq(attrs, LAMBDA a : a.name # p.attrs[1].name /\ ~IsSecret(a))
    IN  [k \in DOMAIN kept |-> kept[k].name]

\* decode_packed_hyperdex_space: the first subspace is the key's.
DecodePacked(p) ==
    IF ~WellPacked(p) THEN Invalid
    ELSE LET public == SelectSeq(Tail(p.attrs), LAMBDA a : ~IsSecret(a))
             regions == IF p.subspaces = <<>> THEN 0 ELSE p.subspaces[1].regions
             dimensions == [i \in 2..Len(p.subspaces) |-> PackedDimensions(p, p.subspaces[i])]
         IN  Space(p.name, p.attrs[1].name,
                   [i \in DOMAIN public |->
                      [name |-> public[i].name, kind |-> DecodeHyperdatatype(public[i].datatype)]],
                   SelectSeq([i \in 1..(Len(p.subspaces) - 1) |-> dimensions[i + 1]],
                             LAMBDA d : d # <<>>),
                   p.fault_tolerance, IF regions = 0 THEN DefaultPartitions ELSE regions)

-------------------------------------------------------------------------------
(* The configuration for clients                                              *)

\* Every attribute with its datatype, the key first and always a string.
EncodedAttributes(s) ==
    <<[name |-> s.key_attribute, datatype |-> PrimitiveBase + 1]>>
    \o [i \in DOMAIN s.attributes |->
          [name |-> s.attributes[i].name, datatype |-> HyperDatatype(s.attributes[i].kind)]]

\* attr_positions: the attributes of a name, by index; the last is taken.
Positions(s, name) ==
    {i \in 0..Len(s.attributes) : EncodedAttributes(s)[i + 1].name = name}

\* encode_legacy_space succeeds, whatever the daemons are, and legacy_partition_regions'
\* assertions hold: attributes with the key, subspaces with the key's and dimensions are
\* counted in a u16.
CanEncode(s) ==
    /\ Len(s.attributes) + 1 <= MaxU16 /\ Len(s.subspaces) + 1 <= MaxU16
    /\ \A i \in DOMAIN s.subspaces : Len(s.subspaces[i]) <= MaxU16
    /\ \A i \in DOMAIN s.attributes : HyperDatatype(s.attributes[i].kind) # Invalid
    /\ \A i \in DOMAIN s.subspaces :
          s.subspaces[i] # <<>> /\ \A d \in ToSet(s.subspaces[i]) : Positions(s, d) # {}
    /\ s.partitions > 0

\* The attribute indexes of each encoded subspace, the key's first.
EncodedSubspaces(s) ==
    <<<<0>>>> \o [i \in DOMAIN s.subspaces |->
                   [k \in DOMAIN s.subspaces[i] |-> Max(Positions(s, s.subspaces[i][k]))]]
===============================================================================
