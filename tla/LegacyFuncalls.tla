---------------------------- MODULE LegacyFuncalls -----------------------------
(* Function calls and checks of an atomic request: how the server validates   *)
(* them, and the two ways it carries them out.  A request whose calls all fit *)
(* the engine becomes a list of mutations; any other is computed on a copy of *)
(* the record.  Requests in the named format are first put in protocol form.  *)
EXTENDS LegacyValues

StringNames == {"string_append", "string_prepend", "string_ltrim", "string_rtrim"}
NumNames == {"num_add", "num_sub", "num_mul", "num_div", "num_mod",
             "num_and", "num_or", "num_xor", "num_max", "num_min"}
FloatNames == {"num_add", "num_sub", "num_mul", "num_div", "num_max", "num_min"}
ListNames == {"list_lpush", "list_rpush"}
ElementNames == {"set_add", "set_remove"}
MergeNames == {"set_intersect", "set_union"}
Predicates == {"eq", "lt", "le", "ge", "gt"}

\* A ProtocolFuncall and a ProtocolAttributeCheck.
Funcall(attr, name, arg1, dt1, arg2, dt2) ==
    [attr |-> attr, name |-> name, arg1 |-> arg1, dt1 |-> dt1, arg2 |-> arg2, dt2 |-> dt2]
Check(attr, predicate, dt, value) ==
    [attr |-> attr, predicate |-> predicate, dt |-> dt, value |-> value]

-------------------------------------------------------------------------------
(* legacy_validate_atomic_request                                             *)

\* An argument has the datatype of the kind and decodes as such.
Fits(kind, dt, arg) == Datatype(kind) # Err /\ dt = kind /\ ValueFromProtocol(dt, arg) # Err
NoArg1(f) == f.arg1 = <<>> /\ f.dt1 = None
NoArg2(f) == f.arg2 = <<>> /\ f.dt2 = None

\* legacy_validate_numeric_operand: an integer or a float for either.
OperandFits(kind, f) == kind \in {KInt, KFloat} /\ f.dt1 \in {KInt, KFloat} /\ HasWord(f.arg1)

\* legacy_validate_numeric_protocol_funcall, legacy_validate_float_numeric_name
NumericFits(kind, f) ==
    \/ kind = KInt /\ OperandFits(kind, f) /\ NoArg2(f)
    \/ kind = KFloat /\ OperandFits(kind, f) /\ NoArg2(f) /\ f.name \in FloatNames
    \/ /\ IsMap(kind) /\ Fits(kind[2], f.dt2, f.arg2) /\ OperandFits(kind[3], f)
       /\ kind[3] = KFloat => f.name \in FloatNames

StringFits(kind, f) ==
    \/ kind \in Text /\ Fits(kind, f.dt1, f.arg1) /\ NoArg2(f)
    \/ /\ IsMap(kind) /\ kind[3] \in Text
       /\ Fits(kind[3], f.dt1, f.arg1) /\ Fits(kind[2], f.dt2, f.arg2)

TakesElement(kind, name) ==
    \/ name \in ListNames /\ kind[1] = "list"
    \/ name \in ElementNames /\ kind[1] = "set"

\* List pushes, set additions and removals take an element; intersections and
\* unions take a value of the attribute's own datatype (also when it is no set).
ElementFits(kind, f) ==
    \/ TakesElement(kind, f.name) /\ Fits(kind[2], f.dt1, f.arg1) /\ NoArg2(f)
    \/ f.name \in MergeNames /\ Fits(kind, f.dt1, f.arg1) /\ NoArg2(f)

MapFits(kind, f) ==
    /\ IsMap(kind) /\ Fits(kind[2], f.dt2, f.arg2)
    /\ IF f.name = "map_add" THEN Fits(kind[3], f.dt1, f.arg1) ELSE NoArg1(f)

\* Mutant: a set is not compared with the schema.
ValidAnyAttribute(schema, f) ==
    f.name = "set" /\ NoArg2(f) /\ ValueFromProtocol(f.dt1, f.arg1) # Err

\* legacy_validate_protocol_funcall
ValidFuncall(schema, f) ==
    LET kind == KindOf(schema, f.attr) IN
    /\ kind # Err
    /\ CASE f.name = "set" -> Fits(kind, f.dt1, f.arg1) /\ NoArg2(f)
         [] f.name \in NumNames -> NumericFits(kind, f)
         [] f.name \in StringNames -> StringFits(kind, f)
         [] f.name \in ListNames \cup ElementNames \cup MergeNames -> ElementFits(kind, f)
         [] f.name \in {"map_add", "map_remove"} -> MapFits(kind, f)
         [] OTHER -> FALSE

ValidCheck(schema, check) ==
    /\ KindOf(schema, check.attr) # Err /\ Fits(KindOf(schema, check.attr), check.dt, check.value)
    /\ check.predicate \in Predicates

ValidAtomic(schema, q) ==
    /\ ~(q.erase /\ q.funcalls # <<>>)
    /\ \A i \in DOMAIN q.checks : ValidCheck(schema, q.checks[i])
    /\ \A i \in DOMAIN q.funcalls : ValidFuncall(schema, q.funcalls[i])

\* legacy_checks_from_protocol, legacy_protocol_predicate: a check is decoded by its
\* own datatype, which only an atomic request compares with the schema's.
DecodedCheck(schema, check) ==
    LET value == ValueFromProtocol(check.dt, check.value)
    IN  IF KindOf(schema, check.attr) = Err \/ check.predicate \notin Predicates \/ value = Err
        THEN Err
        ELSE [attr |-> check.attr, predicate |-> check.predicate, value |-> value]

\* legacy_named_value; a GetValue is a value whose text may be bytes or a string.
NamedValue(kind, g) ==
    CASE g[1] = "null" -> g
      [] kind = KBool /\ g[1] = "bool" -> g
      [] kind = KInt /\ g[1] = "int" -> g
      [] kind = KBytes /\ g[1] \in {"bytes", "string"} -> Bytes(g[2])
      [] kind \in {KString, KDocument} /\ g[1] \in {"bytes", "string"} -> <<"string", g[2]>>
      [] OTHER -> Err

\* legacy_named_checks: the text of a check is a string, never bytes.
DecodedNamedCheck(schema, check) ==
    LET kind == KindOf(schema, check.attr)
        value == IF kind = Err THEN Err ELSE NamedValue(kind, check.value)
    IN  IF value = Err THEN Err
        ELSE [attr |-> check.attr, predicate |-> check.predicate, value |-> value]

-------------------------------------------------------------------------------
(* Matching: record_matches and matches_predicate of the engine.              *)

\* Values of different tags are ordered by their tags.  (Within a tag the model
\* orders integers only.)
Rank(value) == CHOOSE i \in 1..9 :
    <<"null", "bool", "int", "float", "bytes", "string", "list", "set", "map">>[i] = value[1]
Less(v, w) == IF v[1] # w[1] THEN Rank(v) < Rank(w) ELSE v[1] = "int" /\ v[2] < w[2]

Satisfies(v, predicate, w) ==
    CASE predicate = "eq" -> v = w
      [] predicate = "lt" -> Less(v, w)
      [] predicate = "le" -> Less(v, w) \/ v = w
      [] predicate = "gt" -> Less(w, v)
      [] predicate = "ge" -> Less(w, v) \/ v = w

\* An attribute the record does not have fails every check, whatever its default.
RecordMatches(r, checks) ==
    \A i \in DOMAIN checks :
        /\ checks[i].attr \in DOMAIN r
        /\ Satisfies(r[checks[i].attr], checks[i].predicate, checks[i].value)

-------------------------------------------------------------------------------
(* legacy_apply_protocol_funcall: the new value of an attribute, or Err.      *)

\* legacy_apply_string_bytes
ApplyText(name, text, arg) ==
    CASE name = "string_append" -> text \o arg
      [] name = "string_prepend" -> arg \o text
      [] name = "string_ltrim" ->
            IF IsPrefix(arg, text) THEN SubSeq(text, Len(arg) + 1, Len(text)) ELSE text
      [] name = "string_rtrim" ->
            IF IsSuffix(arg, text) THEN SubSeq(text, 1, Len(text) - Len(arg)) ELSE text

\* legacy_existing_bytes takes anything else for empty; legacy_value_as_bytes, for an
\* entry of a map, refuses it.
TextOf(value) == IF value # Absent /\ value[1] \in {"bytes", "string"} THEN value[2] ELSE <<>>
IsText(value) == value # Absent => value[1] \in {"bytes", "string"}
PayloadOf(tag, value, default) ==
    IF value = Absent THEN default ELSE IF value[1] = tag THEN value[2] ELSE Err
MapOf(value) == PayloadOf("map", value, NoAttributes)

\* One entry of a map is replaced by what Change makes of it.
ChangeEntry(kind, old, f, Change(_)) ==
    LET map == MapOf(old)
        key == ValueFromKindBytes(kind[2], f.arg2)
        value == Change(Existing(map, key))
    IN  IF map = Err \/ key = Err \/ value = Err THEN Err
        ELSE <<"map", With(map, key, value)>>

NewText(kind, old, f) ==
    IF kind \in Text THEN Bytes(ApplyText(f.name, TextOf(old), f.arg1))
    ELSE LET arg == ValueFromKindBytes(kind[3], f.arg1)
             Changed(v) == IF IsText(v) THEN Bytes(ApplyText(f.name, TextOf(v), arg[2])) ELSE Err
         IN  ChangeEntry(kind, old, f, Changed)

\* legacy_numeric_operand_i64: a float operand is rounded.
OperandI64(f) == IF f.dt1 = KFloat /\ f.arg1[1][1] = "f" THEN f.arg1[1][2] ELSE AsI64(f.arg1[1])

\* Mutant: a number that is not there yet starts as an integer, also for a float.
NumberFromZero(kind, old, f) ==
    IF old = Absent THEN Number(ApplyI64(f.name, 0, OperandI64(f))) ELSE old

\* Integers and floats; a float in a map may meet an integer.
NumberFrom(kind, old, f) ==
    IF kind = KFloat
    THEN IF old = Absent \/ old[1] = "float" THEN Float ELSE Err
    ELSE LET n == PayloadOf("int", old, 0)
             updated == IF n = Err THEN Err ELSE ApplyI64(f.name, n, OperandI64(f))
         IN  IF updated = Err THEN Err ELSE Number(updated)

NewNumber(kind, old, f) ==
    IF IsMap(kind)
    THEN ChangeEntry(kind, old, f,
                     LAMBDA v : IF kind[3] = KFloat /\ v # Absent /\ v[1] = "int" THEN Float
                                ELSE NumberFrom(kind[3], v, f))
    ELSE NumberFrom(kind, old, f)

NewList(kind, old, f) ==
    LET list == PayloadOf("list", old, <<>>)
        value == ValueFromKindBytes(kind[2], f.arg1)
    IN  IF list = Err \/ value = Err THEN Err
        ELSE <<"list", IF f.name = "list_lpush" THEN <<value>> \o list ELSE Append(list, value)>>

NewSet(kind, old, f) ==
    LET set == PayloadOf("set", old, {})
        value == ValueFromKindBytes(kind[2], f.arg1)
    IN  IF set = Err \/ value = Err THEN Err
        ELSE <<"set", IF f.name = "set_add" THEN set \cup {value} ELSE set \ {value}>>

MergedSet(old, f) ==
    LET set == PayloadOf("set", old, {})
        other == ValueFromProtocol(f.dt1, f.arg1)
    IN  IF set = Err \/ other = Err \/ other[1] # "set" THEN Err
        ELSE <<"set", IF f.name = "set_intersect" THEN set \cap other[2] ELSE set \cup other[2]>>

NewMap(kind, old, f) ==
    IF f.name = "map_add"
    THEN ChangeEntry(kind, old, f, LAMBDA v : ValueFromKindBytes(kind[3], f.arg1))
    ELSE LET map == MapOf(old)
             key == ValueFromKindBytes(kind[2], f.arg2)
         IN  IF map = Err \/ key = Err THEN Err
             ELSE <<"map", Without(map, key)>>

\* The new value of the call's attribute.
NewValue(schema, r, f) ==
    LET kind == KindOf(schema, f.attr)
        old == Existing(r, f.attr)
    IN  CASE f.name = "set" -> ValueFromProtocol(f.dt1, f.arg1)
          [] f.name \in StringNames -> NewText(kind, old, f)
          [] f.name \in NumNames -> NewNumber(kind, old, f)
          [] f.name \in ListNames -> NewList(kind, old, f)
          [] f.name \in ElementNames -> NewSet(kind, old, f)
          [] f.name \in MergeNames -> MergedSet(old, f)
          [] OTHER -> NewMap(kind, old, f)

\* The loop of legacy_apply_atomic_direct: the first call that fails ends it.
ApplyFuncall(schema, state, f) ==
    LET new == NewValue(schema, state.record, f) IN
    IF ~state.ok THEN state
    ELSE IF new = Err THEN [state EXCEPT !.ok = FALSE]
    ELSE [state EXCEPT !.record = With(@, f.attr, new)]
ApplyFuncalls(schema, r, fs) ==
    FoldLeft(LAMBDA state, f : ApplyFuncall(schema, state, f), [record |-> r, ok |-> TRUE], fs)

-------------------------------------------------------------------------------
(* Mutations of the engine                                                    *)

EngineNames == {"num_add", "num_sub", "num_mul", "num_and", "num_or", "num_xor"}

\* Mutant: a numeric call is handed to the engine whatever the attribute's kind.
AnyKindCanUse(schema, fs) ==
    \A i \in DOMAIN fs : fs[i].arg2 = <<>> /\ fs[i].name \in {"set"} \cup EngineNames

\* Mutant: every change is computed on a copy of the record.
NeverRuntimeMutations(schema, fs) == FALSE

\* legacy_atomic_can_use_runtime_mutations
CanUseRuntimeMutations(schema, fs) ==
    \A i \in DOMAIN fs :
        /\ fs[i].arg2 = <<>>
        /\ \/ fs[i].name = "set"
           \/ /\ fs[i].name \in EngineNames
              /\ KindOf(schema, fs[i].attr) = KInt

\* legacy_mutations_from_protocol_funcalls, legacy_numeric_op: the operand's bytes
\* are read as an integer, also those of a float.
MutationFrom(f) ==
    [attr |-> f.attr, op |-> f.name,
     value |-> IF f.name = "set" THEN ValueFromProtocol(f.dt1, f.arg1)
               ELSE Number(AsI64(f.arg1[1]))]

\* apply_numeric: division and remainder, which no legacy request sends, truncate.
EngineNumeric(op, a, b) ==
    CASE op = "num_add" -> Saturate(a + b)
      [] op = "num_sub" -> Saturate(a - b)
      [] op = "num_mul" -> Saturate(a * b)
      [] op = "num_and" -> FromBits(BitsOf(a) \cap BitsOf(b))
      [] op = "num_or" -> FromBits(BitsOf(a) \cup BitsOf(b))
      [] op = "num_xor" -> FromBits((BitsOf(a) \ BitsOf(b)) \cup (BitsOf(b) \ BitsOf(a)))

\* apply_mutations: in place, so a number asked of something else (NonNumericValue)
\* leaves what came before it.
ApplyMutation(state, m) ==
    LET old == PayloadOf("int", Existing(state.record, m.attr), 0) IN
    IF ~state.ok THEN state
    ELSE IF m.op = "set" THEN [state EXCEPT !.record = With(@, m.attr, m.value)]
    ELSE IF old = Err THEN [state EXCEPT !.ok = FALSE]
    ELSE [state EXCEPT !.record = With(@, m.attr, Number(EngineNumeric(m.op, old, m.value[2])))]
ApplyMutations(r, ms) == FoldLeft(ApplyMutation, [record |-> r, ok |-> TRUE], ms)

-------------------------------------------------------------------------------
(* The named format                                                           *)

\* legacy_named_value_to_protocol
NamedArg(kind, g) ==
    LET value == NamedValue(kind, g)
    IN  IF value = Err THEN Err ELSE ProtocolValue(kind, value)

\* The kinds of the arguments of a named call; Absent: it carries none.
NamedKinds(kind, name) ==
    CASE name \in ListNames -> IF kind[1] = "list" THEN <<kind[2], Absent>> ELSE Err
      [] name \in ElementNames -> IF kind[1] = "set" THEN <<kind[2], Absent>> ELSE Err
      [] name = "map_add" -> IF IsMap(kind) THEN <<kind[3], kind[2]>> ELSE Err
      [] name = "map_remove" -> IF IsMap(kind) THEN <<Absent, kind[2]>> ELSE Err
      [] OTHER -> <<kind, Absent>>

\* legacy_named_funcall_to_protocol; the key of a map_remove is its first argument.
NamedFuncall(schema, f) ==
    LET kind == KindOf(schema, f.attr)
        kinds == NamedKinds(kind, f.name)
        second == IF f.name = "map_remove" THEN f.arg1 ELSE f.arg2
        arg(k, g) == IF k = Absent THEN <<>> ELSE IF g = Absent THEN Err ELSE NamedArg(k, g)
        datatype(k) == IF k = Absent THEN None ELSE Datatype(k)
        call == Funcall(f.attr, f.name, arg(kinds[1], f.arg1), datatype(kinds[1]),
                        arg(kinds[2], second), datatype(kinds[2]))
    IN  IF \/ kind = Err \/ kinds = Err
           \/ Err \in {call.arg1, call.dt1, call.arg2, call.dt2} THEN Err ELSE call

\* legacy_named_check_to_protocol
NamedCheck(schema, check) ==
    LET kind == KindOf(schema, check.attr)
        value == IF kind = Err THEN Err ELSE NamedArg(kind, check.value)
    IN  IF value = Err \/ Datatype(kind) = Err THEN Err
        ELSE Check(check.attr, check.predicate, Datatype(kind), value)
===============================================================================
