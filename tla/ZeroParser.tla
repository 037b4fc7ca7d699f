----------------------------- MODULE ZeroParser -----------------------------
(***************************************************************************)
(* zeroparser: parser.rs, types.rs, registry.rs, sparse_field_map.rs.      *)
(*                                                                         *)
(* A message is the sequence of wire fields that try_parse_field cuts out  *)
(* of its bytes (Wire): records [num, type, val].  The value of a Len      *)
(* field keeps the readings the schema may ask for, [fields, ints, utf8]:  *)
(* as a message, as packed varints, as text.  A buffer that does not parse *)
(* ends with a field of type "bad".                                        *)
(*                                                                         *)
(* A schema is a function from type names to descriptors [fields,          *)
(* map_entry]; Root is the name of the outermost type.  A descriptor's     *)
(* fields are a sequence of FieldDescriptorProtos [num, type, repeated,    *)
(* oneof (0 for none), optional, type_name].                               *)
(***************************************************************************)
EXTENDS Integers, Sequences, FiniteSets, SequencesExt

CONSTANTS Schema, Root, MAX_NESTING_DEPTH, HalfBits

NoValue == [none |-> TRUE]
Empty == [kind |-> "empty"]

Fail(e) == [err |-> e]
Failed(r) == "err" \in DOMAIN r

-----------------------------------------------------------------------------
(* types.rs                                                                *)

\* The low half of a word as u32 and as i32, a word as i64.
Half(v) == v % 2^HalfBits
HalfSigned(v) == IF Half(v) >= 2^(HalfBits - 1) THEN Half(v) - 2^HalfBits ELSE Half(v)
WordSigned(v) == IF v >= 2^(2 * HalfBits - 1) THEN v - 2^(2 * HalfBits) ELSE v
ZigZag(v) == IF v % 2 = 0 THEN v \div 2 ELSE -(v \div 2) - 1

Narrow == {"int32", "sint32", "uint32", "fixed32", "sfixed32", "enum"}
Wide == {"int64", "sint64", "uint64", "fixed64", "sfixed64"}
Packable == Narrow \cup Wide \cup {"bool", "float", "double"}

\* The wire types a scalar type is read from.
Accepted(type) ==
    CASE type \in Narrow -> {"Varint", "I32"}
      [] type \in Wide -> {"Varint", "I64"}
      [] type = "bool" -> {"Varint"}
      [] type = "float" -> {"I32"}
      [] type = "double" -> {"I64"}
      [] type \in {"string", "bytes", "message"} -> {"Len"}

Number(type, v) ==
    CASE type \in {"int32", "sfixed32", "enum"} -> HalfSigned(v)
      [] type = "sint32" -> ZigZag(Half(v))
      [] type \in {"uint32", "fixed32"} -> Half(v)
      [] type \in {"int64", "sfixed64"} -> WordSigned(v)
      [] type = "sint64" -> ZigZag(v)
      [] type = "bool" -> IF v = 0 THEN 0 ELSE 1
      [] OTHER -> v

convert_scalar_value(type, f) ==
    IF type = "group" THEN Fail("UnsupportedGroupFieldType")
    ELSE IF f.type \notin Accepted(type) THEN Fail("TypeMismatch")
    ELSE IF type = "string" /\ ~f.val.utf8 THEN Fail("InvalidUtf8")
    ELSE IF f.type = "Len" THEN [type |-> type, v |-> f.val]
    ELSE [type |-> type, v |-> Number(type, f.val)]

NoBytes == [fields |-> <<>>, ints |-> <<>>, utf8 |-> TRUE]

default_value_for_type(type) ==
    CASE type \in Packable -> [type |-> type, v |-> 0]
      [] type = "string" -> [type |-> "string", v |-> NoBytes]
      [] OTHER -> [type |-> "bytes", v |-> NoBytes]

is_packable_type(type) == type \in Packable

\* expand_packed_varints, _fixed32, _fixed64: every element, or the error of the
\* one that is cut off (a negative stand-in).
expand_into(type, ints) ==
    IF \E i \in DOMAIN ints : ints[i] < 0
    THEN Fail(IF type \in {"fixed32", "sfixed32", "float", "fixed64", "sfixed64", "double"}
              THEN "BufferTooShort" ELSE "TruncatedVarint")
    ELSE [vals |-> [i \in DOMAIN ints |-> [type |-> type, v |-> Number(type, ints[i])]]]

\* Map keys: integers, bool, string.
from_field_value(v) ==
    IF v.type \in {"float", "double", "bytes", "message"} THEN NoValue ELSE [key |-> v]

-----------------------------------------------------------------------------
(* registry.rs                                                             *)

IsScalar(f) == ~f.repeated /\ f.type # "message"

\* Scalars and the rest are numbered apart, in the order of declaration.
StorageIndex(desc, i) ==
    Cardinality({j \in 1..i : IsScalar(desc.fields[j]) = IsScalar(desc.fields[i])})

\* FieldInfo of the field declared i-th.  A proto3 optional field has a oneof of
\* its own, which does not count.
FieldInfo(desc, i) ==
    LET f == desc.fields[i]
    IN  [is_scalar |-> IsScalar(f), index |-> StorageIndex(desc, i), type |-> f.type,
         repeated |-> f.repeated, type_name |-> f.type_name,
         oneof |-> IF f.optional THEN 0 ELSE f.oneof]

\* SparseFieldMap: the inline array and the overflow map are one map; a number
\* declared twice keeps the later declaration.
get_field(desc, num) ==
    LET is == {i \in DOMAIN desc.fields : desc.fields[i].num = num}
    IN  IF is = {} THEN NoValue ELSE FieldInfo(desc, CHOOSE i \in is : \A j \in is : j <= i)

get_oneof_group(desc, oneof) ==
    {info \in {FieldInfo(desc, i) : i \in DOMAIN desc.fields} : info.oneof = oneof}

Count(desc, scalar) == Cardinality({i \in DOMAIN desc.fields : IsScalar(desc.fields[i]) = scalar})

-----------------------------------------------------------------------------
(* parser.rs: the parsed message and its updates.                          *)

with_descriptor(desc) ==
    [desc |-> desc,
     scalars |-> [i \in 1..Count(desc, TRUE) |-> NoValue],
     complex |-> [i \in 1..Count(desc, FALSE) |-> Empty]]

\* Whether a field is set in message m.
IsSet(m, info) == IF info.is_scalar THEN m.scalars[info.index] # NoValue
                  ELSE m.complex[info.index] # Empty

\* Members of the group other than the field itself, cleared.
ClearExcept(m, oneof, keep) ==
    LET out(scalar) == {x.index : x \in {y \in get_oneof_group(m.desc, oneof) :
                            y.is_scalar = scalar
                            /\ ~(y.is_scalar = keep.is_scalar /\ y.index = keep.index)}}
    IN  [m EXCEPT !.scalars = [i \in DOMAIN @ |-> IF i \in out(TRUE) THEN NoValue ELSE @[i]],
                  !.complex = [i \in DOMAIN @ |-> IF i \in out(FALSE) THEN Empty ELSE @[i]]]

clear_oneof_siblings(m, info) ==
    IF info.oneof = 0 THEN m ELSE ClearExcept(m, info.oneof, info)

set_scalar(m, info, v) == [m EXCEPT !.scalars[info.index] = v]

Groups1(desc) == {desc.fields[i].oneof : i \in DOMAIN desc.fields} \ {0}

\* merge_from, first part: a group with a member set in other keeps only that
\* member in m.
ClearActive(m, other) ==
    LET keep(g) == {x \in get_oneof_group(m.desc, g) : IsSet(other, x)}
        groups == {g \in Groups1(m.desc) : keep(g) # {}}
        Step(acc, g) == ClearExcept(acc, g, CHOOSE x \in keep(g) : TRUE)
    IN  FoldLeft(Step, m, SetToSeq(groups))

RECURSIVE merge_from(_, _)

\* Mutant of MergeComplex: a repeated field of the other message replaces.
MergeComplexReplace(s, o) ==
    CASE o = Empty -> s
      [] o # Empty /\ s.kind = o.kind /\ o.kind = "message" ->
            [s EXCEPT !.msg = merge_from(s.msg, o.msg)]
      [] OTHER -> o

\* merge_from, second part: other's values over m's, slot by slot.
MergeComplex(s, o) ==
    CASE o = Empty -> s
      [] o # Empty /\ s.kind # o.kind -> o
      [] o # Empty /\ s.kind = o.kind /\ o.kind = "message" ->
            [s EXCEPT !.msg = merge_from(s.msg, o.msg)]
      [] o # Empty /\ s.kind = o.kind /\ o.kind \in {"scalars", "messages"} ->
            [s EXCEPT !.vals = s.vals \o o.vals]
      [] o # Empty /\ s.kind = o.kind /\ o.kind = "map" ->
            [s EXCEPT !.map = [k \in DOMAIN s.map \cup DOMAIN o.map |->
                                 IF k \in DOMAIN o.map THEN o.map[k] ELSE s.map[k]]]

merge_from(m, other) ==
    [ClearActive(m, other) EXCEPT
        !.scalars = [i \in DOMAIN @ |-> IF other.scalars[i] = NoValue THEN @[i] ELSE other.scalars[i]],
        !.complex = [i \in DOMAIN @ |-> MergeComplex(@[i], other.complex[i])]]

merge_or_set_message(m, info, msg) ==
    LET s == m.complex[info.index]
    IN  [m EXCEPT !.complex[info.index] =
            [kind |-> "message", msg |-> IF s.kind = "message" THEN merge_from(s.msg, msg) ELSE msg]]

\* add_repeated_scalar, add_repeated_message, add_map_entry and the packed path:
\* into a slot that is empty or already of the kind.
AddTo(m, info, kind, new) ==
    LET s == m.complex[info.index]
    IN  IF s # Empty /\ s.kind # kind THEN Fail("ComplexTypeMismatch")
        ELSE [m EXCEPT !.complex[info.index] = new]

Extend(m, info, kind, vals) ==
    LET s == m.complex[info.index]
        old == IF s # Empty /\ s.kind = kind THEN s.vals ELSE <<>>
    IN  AddTo(m, info, kind, [kind |-> kind, vals |-> old \o vals])

add_map_entry(m, info, entry) ==
    LET s == m.complex[info.index]
        old == IF s # Empty /\ s.kind = "map" THEN s.map ELSE [k \in {} |-> NoValue]
    IN  AddTo(m, info, "map",
              [kind |-> "map",
               map |-> [k \in DOMAIN old \cup {entry.key} |->
                           IF k = entry.key THEN entry.val ELSE old[k]]])

-----------------------------------------------------------------------------
(* parser.rs: parsing.                                                     *)

KEY == 1
VALUE == 2

RECURSIVE parse_internal(_, _, _)

\* The parts of a map entry as they are read, or the error that ends it.
SetKey(acc, v) == IF Failed(v) THEN v ELSE [acc EXCEPT !.key = v]
SetScalar(acc, v) == IF Failed(v) THEN v ELSE [acc EXCEPT !.val = [scalar |-> v]]

\* A message value that comes again is merged.
MergeValue(acc, msg) ==
    IF Failed(msg) THEN msg
    ELSE [acc EXCEPT !.val = [msg |-> IF "msg" \in DOMAIN @ THEN merge_from(@.msg, msg) ELSE msg]]

\* One field of a map entry, declared as info.
EntryField(acc, f, info, depth) ==
    IF f.type = "bad" THEN Fail("malformed")
    ELSE IF info = NoValue \/ f.num \notin {KEY, VALUE} THEN acc
    ELSE IF f.num = KEY THEN SetKey(acc, convert_scalar_value(info.type, f))
    ELSE IF info.type # "message" THEN SetScalar(acc, convert_scalar_value(info.type, f))
    ELSE IF f.type # "Len" THEN Fail("TypeMismatch")
    ELSE MergeValue(acc, parse_internal(f.val.fields, info.type_name, depth))

\* The type a map entry declares for its key or value.
EntryInfo(desc, num) ==
    LET info == get_field(desc, num)
    IN  IF info = NoValue THEN [type |-> "bytes", type_name |-> ""] ELSE info

\* An absent key or scalar value is the default, an absent message is empty.
EntryKey(e, info) == IF e.key = NoValue THEN default_value_for_type(info.type) ELSE e.key

EntryValue(e, info, depth) ==
    IF e.val # NoValue THEN e.val
    ELSE IF info.type # "message" THEN [scalar |-> default_value_for_type(info.type)]
    ELSE [msg |-> parse_internal(<<>>, info.type_name, depth)]

Entry(key, val) ==
    IF "msg" \in DOMAIN val /\ Failed(val.msg) THEN val.msg
    ELSE IF from_field_value(key) = NoValue THEN Fail("InvalidMapKeyType")
    ELSE [key |-> key, val |-> val]

EndEntry(e, desc, depth) ==
    IF Failed(e) THEN e
    ELSE Entry(EntryKey(e, EntryInfo(desc, KEY)), EntryValue(e, EntryInfo(desc, VALUE), depth))

parse_map_entry_recursive(fields, desc, depth) ==
    LET Step(acc, f) == IF Failed(acc) THEN acc
                        ELSE EntryField(acc, f, get_field(desc, f.num), depth)
    IN  EndEntry(FoldLeft(Step, [key |-> NoValue, val |-> NoValue], fields), desc, depth)

AddEntry(m, info, e) == IF Failed(e) THEN e ELSE add_map_entry(m, info, e)

\* Mutant of MapField: map entries do not count as a level.
MapFieldFlat(m, info, f, depth) ==
    AddEntry(m, info, parse_map_entry_recursive(f.val.fields, Schema[info.type_name], depth))

MapField(m, info, f, depth) ==
    AddEntry(m, info, parse_map_entry_recursive(f.val.fields, Schema[info.type_name], depth + 1))

AddMessage(m, info, n) ==
    IF Failed(n) THEN n
    ELSE IF info.repeated THEN Extend(m, info, "messages", <<n>>)
    ELSE merge_or_set_message(clear_oneof_siblings(m, info), info, n)

MessageField(m, info, f, depth) ==
    IF f.type # "Len" THEN Fail("TypeMismatch")
    ELSE IF info.type_name \in DOMAIN Schema /\ Schema[info.type_name].map_entry
    THEN MapField(m, info, f, depth)
    ELSE AddMessage(m, info, parse_internal(f.val.fields, info.type_name, depth + 1))

SetIfRead(m, info, v) == IF Failed(v) THEN v ELSE set_scalar(m, info, v)

\* Mutant of ScalarField: the other members of the oneof stay.
ScalarFieldKeep(m, info, f) == SetIfRead(m, info, convert_scalar_value(info.type, f))

ScalarField(m, info, f) ==
    SetIfRead(clear_oneof_siblings(m, info), info, convert_scalar_value(info.type, f))

\* What a repeated field brings: the values of a packed one, or one value.
Brought(type, f) ==
    IF is_packable_type(type) /\ f.type = "Len" THEN expand_into(type, f.val.ints)
    ELSE LET v == convert_scalar_value(type, f) IN IF Failed(v) THEN v ELSE [vals |-> <<v>>]

AddScalars(m, info, r) == IF Failed(r) THEN r ELSE Extend(m, info, "scalars", r.vals)

RepeatedField(m, info, f) == AddScalars(m, info, Brought(info.type, f))

\* Unknown fields are skipped.
ParseField(m, f, info, depth) ==
    IF f.type = "bad" THEN Fail("malformed")
    ELSE IF info = NoValue THEN m
    ELSE IF info.is_scalar THEN ScalarField(m, info, f)
    ELSE IF info.type = "message" THEN MessageField(m, info, f, depth)
    ELSE RepeatedField(m, info, f)

parse_internal(fields, type_name, depth) ==
    LET Step(acc, f) == IF Failed(acc) THEN acc
                        ELSE ParseField(acc, f, get_field(acc.desc, f.num), depth)
    IN  IF depth > MAX_NESTING_DEPTH THEN Fail("MaxNestingDepthExceeded")
        ELSE IF type_name \notin DOMAIN Schema THEN Fail("UnknownTypeName")
        ELSE FoldLeft(Step, with_descriptor(Schema[type_name]), fields)

parse(fields) == parse_internal(fields, Root, 0)

-----------------------------------------------------------------------------
(* A record written in two parts.                                          *)

CONSTANTS WireFields, MaxFields

VARIABLES first, second

ParserInit == first = <<>> /\ second = <<>>

WriteFirst(f) == /\ second = <<>> /\ Len(first) < MaxFields
                 /\ first' = Append(first, f) /\ UNCHANGED second

WriteSecond(f) == /\ Len(second) < MaxFields
                  /\ second' = Append(second, f) /\ UNCHANGED first

ParserNext == \E f \in WireFields : WriteFirst(f) \/ WriteSecond(f)

Whole == parse(first \o second)

\* Two members of one oneof in the same part: the later one hides the earlier,
\* and what is hidden there is not hidden in a merge.
Overwrites(part) ==
    \E i, j \in DOMAIN part :
        LET a == get_field(Schema[Root], part[i].num)
            b == get_field(Schema[Root], part[j].num)
        IN  /\ a # NoValue /\ b # NoValue /\ part[i].num # part[j].num
            /\ a.oneof # 0 /\ a.oneof = b.oneof

Merges(whole, a, b) == ~Failed(a) /\ ~Failed(b) => whole = merge_from(a, b)

\* Protobuf's rule for records written in parts: parsing the concatenation gives
\* what parsing the parts and merging gives, over scalars, oneofs, nested and
\* repeated messages, packed and unpacked values and maps (merge_from).
ConcatIsMerge == ~Overwrites(second) => Merges(Whole, parse(first), parse(second))

RECURSIVE Nested(_)

\* A message and every message inside it.
Nested(m) ==
    {m} \cup UNION {CASE s.kind = "message" -> Nested(s.msg)
                      [] s.kind = "messages" -> UNION {Nested(s.vals[i]) : i \in DOMAIN s.vals}
                      [] s.kind = "map" -> UNION {Nested(s.map[k].msg) :
                                                   k \in {k \in DOMAIN s.map : "msg" \in DOMAIN s.map[k]}}
                      [] OTHER -> {} : s \in {m.complex[i] : i \in DOMAIN m.complex}}

\* At most one member of a oneof is set, at every level, whatever was written,
\* merged or repeated (clear_oneof_siblings, merge_from).
OneofExclusive ==
    \A whole \in {Whole} : ~Failed(whole) =>
        \A m \in Nested(whole), g \in 1..2 :
            Cardinality({x \in get_oneof_group(m.desc, g) : IsSet(m, x)}) <= 1

RECURSIVE Depth(_)

\* How many messages are open inside one another when field f is parsed.
Depth(m) ==
    LET below == UNION {CASE s.kind = "message" -> {s.msg}
                          [] s.kind = "messages" -> Range(s.vals)
                          [] s.kind = "map" -> {s.map[k].msg :
                                k \in {k \in DOMAIN s.map : "msg" \in DOMAIN s.map[k]}}
                          [] OTHER -> {} : s \in Range(m.complex)}
    IN  IF below = {} THEN 0 ELSE 1 + Max({Depth(b) : b \in below})

\* The recursion is bounded on every path, through messages, repeated messages
\* and map values alike: no accepted record nests deeper than MAX_NESTING_DEPTH.
DepthLimit == \A whole \in {Whole} : ~Failed(whole) => Depth(whole) <= MAX_NESTING_DEPTH
=============================================================================
