---------------------------- MODULE TableSchema ----------------------------
(***************************************************************************)
(* schema.rs, dynamic_proto.rs and ffi/proto_schema.rs: a Unity Catalog    *)
(* table as a protobuf descriptor and as an Arrow schema, and the records  *)
(* encoded with the descriptor.                                            *)
(*                                                                         *)
(* A name is [words, form]: my_entry, myEntry and MyEntry have the same    *)
(* words in the forms "snake", "camel" and "pascal"; the forms "empty",    *)
(* "digit" and "bad" are the ones protobuf does not allow. A number glued  *)
(* to a name is a word of its own. The name of a generated message is its  *)
(* words, spelled in PascalCase, so it is the text of a field name of form *)
(* "pascal" with the same words. A type is [kind |-> "prim", p], "struct"  *)
(* with fields, "array" with elem or "map" with key and value; in          *)
(* type_json p is the JSON spelling.                                       *)
(***************************************************************************)
EXTENDS Integers, Sequences, FiniteSets, SequencesExt

CONSTANTS MAX_TYPE_DEPTH,   \* MAX_NESTING_DEPTH of schema.rs
          Columns, MaxColumns,
          Digits            \* the words that are numbers

Bad(e) == [err |-> e]
IsBad(r) == "err" \in DOMAIN r

NoType == <<>>
Prim(p) == [kind |-> "prim", p |-> p]

-----------------------------------------------------------------------------
(* Primitive types.                                                        *)

UcTypes == [STRING |-> "String", VARIANT |-> "Variant", INT |-> "Integer",
            INTEGER |-> "Integer", LONG |-> "Long", BIGINT |-> "Long", SHORT |-> "Short",
            SMALLINT |-> "Short", BYTE |-> "Byte", TINYINT |-> "Byte", BOOLEAN |-> "Boolean",
            BOOL |-> "Boolean", DOUBLE |-> "Double", FLOAT |-> "Float",
            TIMESTAMP |-> "Timestamp", TIMESTAMP_NTZ |-> "TimestampNtz", DATE |-> "Date",
            BINARY |-> "Binary", DECIMAL |-> "Decimal"]

JsonTypes == [string |-> "String", variant |-> "Variant", long |-> "Long",
              integer |-> "Integer", short |-> "Short", byte |-> "Byte", double |-> "Double",
              float |-> "Float", boolean |-> "Boolean", binary |-> "Binary",
              timestamp |-> "Timestamp", timestamp_ntz |-> "TimestampNtz", date |-> "Date",
              decimal |-> "Decimal"]

parse_uc_top_level_type(t) ==
    IF t \in DOMAIN UcTypes THEN Prim(UcTypes[t]) ELSE Bad("UnsupportedType")

parse_primitive_type(s) ==
    IF s \in DOMAIN JsonTypes THEN Prim(JsonTypes[s]) ELSE Bad("unknown primitive type")

map_primitive_to_protobuf(p) ==
    CASE p \in {"String", "Decimal", "Variant"} -> "string"
      [] p \in {"Long", "Timestamp", "TimestampNtz"} -> "int64"
      [] p \in {"Integer", "Short", "Byte", "Date"} -> "int32"
      [] p = "Double" -> "double" [] p = "Float" -> "float"
      [] p = "Boolean" -> "bool" [] p = "Binary" -> "bytes"

is_complex(type_name) == type_name \in {"STRUCT", "ARRAY", "MAP"}

is_valid_map_key(p) == p \notin {"Double", "Float", "Binary"}

validate_map_key(key) ==
    IF key.kind # "prim" THEN Bad("map keys must be primitive")
    ELSE IF ~is_valid_map_key(key.p) THEN Bad("unsupported map key type")
    ELSE key

-----------------------------------------------------------------------------
(* type_json                                                               *)

FirstBad(rs) == SelectSeq(rs, IsBad)[1]
AnyBad(rs) == \E i \in DOMAIN rs : IsBad(rs[i])

StructOf(t, ts) ==
    IF AnyBad(ts) THEN FirstBad(ts)
    ELSE [t EXCEPT !.fields = [i \in DOMAIN @ |-> [@[i] EXCEPT !.type = ts[i]]]]
ArrayOf(t, e) == IF IsBad(e) THEN e ELSE [t EXCEPT !.elem = e]
MapOf(t, k, v) == IF IsBad(k) THEN k ELSE IF IsBad(v) THEN v
                  ELSE [t EXCEPT !.key = k, !.value = v]

RECURSIVE type_ref_to_complex(_, _)

type_ref_to_complex(t, level) ==
    IF level > MAX_TYPE_DEPTH THEN Bad("nesting level exceeds maximum depth")
    ELSE CASE t.kind = "prim" -> parse_primitive_type(t.p)
           [] t.kind = "struct" ->
                StructOf(t, [i \in DOMAIN t.fields |->
                                type_ref_to_complex(t.fields[i].type, level + 1)])
           [] t.kind = "array" -> ArrayOf(t, type_ref_to_complex(t.elem, level + 1))
           [] t.kind = "map" -> MapOf(t, type_ref_to_complex(t.key, level + 1),
                                      type_ref_to_complex(t.value, level + 1))

\* The type may come wrapped in an object that also names it.
parse_type_json(json) ==
    type_ref_to_complex(IF json.kind = "wrapped" THEN json.type ELSE json, 0)

\* The type of a column, from type_json when it is complex.
ColumnType(c) ==
    IF ~is_complex(c.type_name) THEN parse_uc_top_level_type(c.type_name)
    ELSE IF c.type_json = NoType THEN Bad("MissingTypeJson")
    ELSE parse_type_json(c.type_json)

\* Not empty, no digit in front, ASCII letters, digits and underscores only.
validate_field_name(name) == name.form \notin {"empty", "digit", "bad"}

\* Only the words are left; a name that would start with a digit gets an M.
sanitize_message_name(name) ==
    IF name.words = <<>> \/ name.words[1] \in Digits THEN <<"m">> \o name.words ELSE name.words

Under(message, name) == [words |-> message \o name.words, form |-> name.form]

-----------------------------------------------------------------------------
(* The protobuf descriptor.                                                *)

\* A column that repeats has no presence, whatever nullable says.
field_descriptor(name, number, type, type_name, nullable, repeated) ==
    [name |-> name, number |-> number, type |-> type, type_name |-> type_name,
     label |-> IF repeated THEN "repeated" ELSE IF nullable THEN "optional" ELSE "required"]

\* MessageCollector: the messages generated in a scope and the names taken in it.
NewCollector == [nested |-> <<>>, used |-> {}]

\* Mutant of unique_name: every base is taken as it is.
unique_name_as_is(used, base) == base

unique_name(used, base) ==
    IF base \notin used THEN base
    ELSE LET n == CHOOSE n \in 2..(Cardinality(used) + 2) :
                    /\ Append(base, ToString(n)) \notin used
                    /\ \A m \in 2..(n - 1) : Append(base, ToString(m)) \in used
         IN  Append(base, ToString(n))

Take(col, name) == [col EXCEPT !.used = @ \cup {name}]
Push(col, msg) == [col EXCEPT !.nested = Append(@, msg)]

\* Key 1, value 2; proto3 presence on the value only.
generate_map_entry(name, key, value) ==
    [name |-> name, map_entry |-> TRUE, nested |-> <<>>,
     fields |-> <<field_descriptor([words |-> <<"key">>, form |-> "snake"], 1,
                                   map_primitive_to_protobuf(key.p), NoType, TRUE, FALSE),
                  field_descriptor([words |-> <<"value">>, form |-> "snake"], 2,
                                   value.type, value.type_name, TRUE, FALSE)>>]

RECURSIVE generate_struct_message(_, _)

\* A message in this scope: its name is taken before the message is generated.
InScope(col, name, msg) ==
    IF IsBad(msg) THEN msg
    ELSE [type |-> "message", type_name |-> name, col |-> Push(Take(col, name), msg)]

StructNamed(col, name, st) == InScope(col, name, generate_struct_message(name, st))

StructIn(col, base, st) == StructNamed(col, unique_name(col.used, base), st)

Scalar(col, p) == [type |-> map_primitive_to_protobuf(p), type_name |-> NoType, col |-> col]

EntryNamed(name, key, value) == InScope(value.col, name, generate_map_entry(name, key, value))

\* The entry's name is taken after the names its value needs.
EntryIn(base, key, value) ==
    IF IsBad(value) THEN value
    ELSE EntryNamed(unique_name(value.col.used, Append(base, "entry")), key, value)

MapIn(col, base, ct) ==
    IF IsBad(validate_map_key(ct.key)) THEN validate_map_key(ct.key)
    ELSE CASE ct.value.kind = "prim" -> EntryIn(base, ct.key, Scalar(col, ct.value.p))
           [] ct.value.kind = "struct" ->
                EntryIn(base, ct.key, StructIn(col, Append(base, "value"), ct.value))
           [] OTHER -> Bad("maps with complex value types")

ArrayIn(col, base, elem) ==
    CASE elem.kind = "prim" -> Scalar(col, elem.p)
      [] elem.kind = "struct" -> StructIn(col, Append(base, "element"), elem)
      [] elem.kind = "array" -> Bad("nested arrays")
      [] elem.kind = "map" -> Bad("arrays of maps")

map_complex_type_to_protobuf(ct, path, col) ==
    LET base == sanitize_message_name(path)
    IN  CASE ct.kind = "prim" -> Scalar(col, ct.p)
          [] ct.kind = "struct" -> StructIn(col, base, ct)
          [] ct.kind = "array" -> ArrayIn(col, base, ct.elem)
          [] ct.kind = "map" -> MapIn(col, base, ct)

IsRepeated(ct) == ct.kind \in {"array", "map"}

WithField(acc, f, r) ==
    IF IsBad(r) THEN r
    ELSE [col |-> r.col,
          fields |-> Append(acc.fields, field_descriptor(f.name, f.number, r.type, r.type_name,
                                                         f.nullable, IsRepeated(f.type)))]

\* The next field [name, number, type, nullable] of a message under construction;
\* path names the messages the field needs.
AddField(acc, f, path) ==
    IF IsBad(acc) THEN acc
    ELSE IF ~validate_field_name(f.name) THEN Bad("InvalidFieldName")
    ELSE IF IsBad(f.type) THEN f.type
    ELSE WithField(acc, f, map_complex_type_to_protobuf(f.type, path, acc.col))

Message(name, acc) ==
    IF IsBad(acc) THEN acc
    ELSE [name |-> name, map_entry |-> FALSE, fields |-> acc.fields, nested |-> acc.col.nested]

\* Every struct has a scope of its own and numbers its fields from 1.
generate_struct_message(name, st) ==
    LET Step(acc, i) == AddField(acc, [name |-> st.fields[i].name, number |-> i,
                                       type |-> st.fields[i].type,
                                       nullable |-> st.fields[i].nullable],
                                 Under(name, st.fields[i].name))
    IN  Message(name, FoldLeft(Step, [col |-> NewCollector, fields |-> <<>>],
                               [i \in DOMAIN st.fields |-> i]))

ByPosition(columns) ==
    SortSeq(SelectSeq(columns, LAMBDA c : c.position >= 0), LAMBDA a, b : a.position < b.position)

descriptor_from_uc_columns(columns, message_name) ==
    LET Step(acc, c) == AddField(acc, [name |-> c.name, number |-> c.position + 1,
                                       type |-> ColumnType(c), nullable |-> c.nullable],
                                 c.name)
    IN  Message(message_name,
                FoldLeft(Step, [col |-> NewCollector, fields |-> <<>>], ByPosition(columns)))

\* Named after the schema and the table.
descriptor_from_uc_schema(schema) ==
    descriptor_from_uc_columns(schema.columns,
        sanitize_message_name(Under(schema.schema_name.words, schema.name)))

RECURSIVE SymbolsClash(_)

\* Two definitions with one full name: nested messages of the same name, or a field
\* and a nested message of the same message.
SymbolsClash(msg) ==
    \/ \E i, j \in DOMAIN msg.nested : i # j /\ msg.nested[i].name = msg.nested[j].name
    \/ \E i \in DOMAIN msg.fields, j \in DOMAIN msg.nested :
          msg.fields[i].name = [words |-> msg.nested[j].name, form |-> "pascal"]
    \/ \E i \in DOMAIN msg.nested : SymbolsClash(msg.nested[i])

\* add_file_descriptor_proto of prost-reflect's DescriptorPool, which refuses a file that
\* defines a symbol twice.
Pooled(desc) ==
    IF IsBad(desc) THEN desc
    ELSE IF SymbolsClash(desc) THEN Bad("failed to build descriptor pool")
    ELSE desc

build_proto_schema(schema) == Pooled(descriptor_from_uc_schema(schema))

-----------------------------------------------------------------------------
(* The Arrow schema.  A data type is [kind |-> "leaf", t], "struct", "list" *)
(* or "map"; a field is [name, type, nullable, variant].                    *)

CONSTANT annotate_variant_extension

ArrowName(w) == [words |-> <<w>>, form |-> "snake"]

Leaf(t) == [kind |-> "leaf", t |-> t]

ArrowField(name, type, nullable) ==
    [name |-> name, type |-> type, nullable |-> nullable, variant |-> FALSE]

variant_arrow_data_type ==
    [kind |-> "struct", fields |-> <<ArrowField(ArrowName("metadata"), Leaf("LargeBinary"), FALSE),
                                     ArrowField(ArrowName("value"), Leaf("LargeBinary"), FALSE)>>]

variant_marked_field(f) == [f EXCEPT !.variant = TRUE]

map_primitive_to_arrow(p) ==
    IF p = "Variant" THEN variant_arrow_data_type
    ELSE Leaf([String |-> "LargeUtf8", Decimal |-> "LargeUtf8", Long |-> "Int64",
               Integer |-> "Int32", Short |-> "Int16", Byte |-> "Int8", Double |-> "Float64",
               Float |-> "Float32", Boolean |-> "Boolean", Binary |-> "LargeBinary",
               Timestamp |-> "TimestampUtc", TimestampNtz |-> "Timestamp",
               Date |-> "Date32"][p])

primitive_arrow_field(name, p, nullable) ==
    LET f == ArrowField(name, map_primitive_to_arrow(p), nullable)
    IN  IF annotate_variant_extension /\ p = "Variant" THEN variant_marked_field(f) ELSE f

validate_arrow_map_key(key) ==
    LET k == validate_map_key(key)
    IN  IF ~IsBad(k) /\ k.p = "Variant" THEN Bad("unsupported map key type") ELSE k

RECURSIVE complex_type_to_arrow_field(_, _, _)

StructChildren(fields) ==
    [i \in DOMAIN fields |->
        IF ~validate_field_name(fields[i].name) THEN Bad("InvalidFieldName")
        ELSE complex_type_to_arrow_field(fields[i].name, fields[i].type, fields[i].nullable)]

ListOf(name, item, nullable) ==
    IF IsBad(item) THEN item ELSE ArrowField(name, [kind |-> "list", item |-> item], nullable)

\* Elements and map values are nullable.
ListField(name, elem, nullable) ==
    CASE elem.kind = "array" -> Bad("nested arrays")
      [] elem.kind = "map" -> Bad("arrays of maps")
      [] OTHER -> ListOf(name, complex_type_to_arrow_field(ArrowName("item"), elem, TRUE), nullable)

ArrowMap(name, key, value, nullable) ==
    IF IsBad(value) THEN value
    ELSE ArrowField(name, [kind |-> "map", value |-> value,
                           key |-> ArrowField(ArrowName("keys"), map_primitive_to_arrow(key.p), FALSE)],
                    nullable)

MapFieldOf(name, ct, nullable) ==
    IF IsBad(validate_arrow_map_key(ct.key)) THEN validate_arrow_map_key(ct.key)
    ELSE IF ct.value.kind \in {"array", "map"} THEN Bad("maps with complex value types")
    ELSE ArrowMap(name, ct.key, complex_type_to_arrow_field(ArrowName("values"), ct.value, TRUE),
                  nullable)

StructFieldOf(name, children, nullable) ==
    IF AnyBad(children) THEN FirstBad(children)
    ELSE ArrowField(name, [kind |-> "struct", fields |-> children], nullable)

complex_type_to_arrow_field(name, ct, nullable) ==
    CASE ct.kind = "prim" -> primitive_arrow_field(name, ct.p, nullable)
      [] ct.kind = "struct" -> StructFieldOf(name, StructChildren(ct.fields), nullable)
      [] ct.kind = "array" -> ListField(name, ct.elem, nullable)
      [] ct.kind = "map" -> MapFieldOf(name, ct, nullable)

\* A column of the given type, if that could be read.
ArrowColumn(c, type) ==
    IF IsBad(type) THEN type ELSE complex_type_to_arrow_field(c.name, type, c.nullable)

uc_column_to_arrow_field(c) == ArrowColumn(c, ColumnType(c))

ArrowSchema(fields) == IF AnyBad(fields) THEN FirstBad(fields) ELSE [fields |-> fields]

arrow_schema_from_uc_columns_with_options(columns) ==
    LET sorted == ByPosition(columns)
    IN  ArrowSchema([i \in DOMAIN sorted |->
                        IF ~validate_field_name(sorted[i].name) THEN Bad("InvalidFieldName")
                        ELSE uc_column_to_arrow_field(sorted[i])])

-----------------------------------------------------------------------------
(* Records.  A JSON value is [kind |-> "scalar"], [kind |-> "object", f]    *)
(* with f a function on names, or [kind |-> "list", items].  A message is   *)
(* the object, a map the list of its values.                                *)

\* Lookup of a relative type name in the descriptor pool: the innermost of the
\* enclosing messages that declares it.
Resolve(scopes, name) ==
    LET found(i) == {j \in DOMAIN scopes[i].nested : scopes[i].nested[j].name = name}
        depths == {i \in DOMAIN scopes : found(i) # {}}
        d == Min(depths)
    IN  IF depths = {} THEN Bad("unresolved")
        ELSE LET m == scopes[d].nested[CHOOSE j \in found(d) : TRUE]
             IN  [msg |-> m, scopes |-> <<m>> \o SubSeq(scopes, d, Len(scopes))]

\* The message a field holds, singly, in a list or as map value, or unresolved.
ThroughEntry(r) ==
    IF IsBad(r) \/ ~r.msg.map_entry THEN r
    ELSE IF r.msg.fields[2].type # "message" THEN Bad("scalar values")
    ELSE Resolve(r.scopes, r.msg.fields[2].type_name)

HeldMessage(scopes, f) == ThroughEntry(Resolve(scopes, f.type_name))

has_field(v, f) ==
    f.name \in DOMAIN v.f /\ (v.f[f.name].kind = "list" => v.f[f.name].items # <<>>)

RECURSIVE collect_missing_required_fields(_, _)

\* Mutant of descend_into_messages: only a message held singly is entered.
descend_into_messages_single(v, held) ==
    IF v.kind = "object" /\ ~IsBad(held) THEN collect_missing_required_fields(v, held.scopes)
    ELSE {}

\* Into the message, the elements of the list, the values of the map.
descend_into_messages(v, held) ==
    IF IsBad(held) THEN {}
    ELSE UNION {collect_missing_required_fields(x, held.scopes) :
                   x \in {y \in (IF v.kind = "list" THEN Range(v.items) ELSE {v}) : y.kind = "object"}}

\* The fields a record lacks, as <<message, field>>; scopes[1] is its message.
collect_missing_required_fields(v, scopes) ==
    LET fields == Range(scopes[1].fields)
    IN  {<<scopes[1].name, f.name>> : f \in {g \in fields : g.label = "required" /\ ~has_field(v, g)}}
        \cup UNION {descend_into_messages(v.f[f.name], HeldMessage(scopes, f)) :
                       f \in {g \in fields : g.type = "message" /\ has_field(v, g)}}

missing_required_fields(v, desc) == collect_missing_required_fields(v, <<desc>>)

RECURSIVE Parses(_, _)

\* A value x of a field, the message it holds, if any, resolved as held.
ParsesAs(x, f, held) ==
    /\ f.label = "repeated" <=> x.kind = "list"
    /\ \A y \in (IF x.kind = "list" THEN Range(x.items) ELSE {x}) :
           IF f.type = "message" /\ ~IsBad(held) THEN y.kind = "object" /\ Parses(y, held.scopes)
           ELSE y.kind = "scalar"

\* DynamicMessage::deserialize: every key the message knows has a value of the
\* field's shape; the other keys are ignored.
Parses(v, scopes) ==
    \A f \in Range(scopes[1].fields) :
        f.name \in DOMAIN v.f => ParsesAs(v.f[f.name], f, HeldMessage(scopes, f))

zerobus_proto_schema_encode_json(desc, v) ==
    IF ~Parses(v, <<desc>>) THEN Bad("failed to encode record")
    ELSE IF missing_required_fields(v, desc) # {} THEN Bad("record missing required field(s)")
    ELSE [bytes |-> v]

-----------------------------------------------------------------------------
(* A table is put together column by column.                               *)

VARIABLE table

TableInit == table = <<>>

\* Unity Catalog keeps names and positions apart.
AddColumn(c) ==
    /\ Len(table) < MaxColumns
    /\ \A i \in DOMAIN table : table[i].name # c.name /\ table[i].position # c.position
    /\ table' = Append(table, c)

TableNext == \E c \in Columns : AddColumn(c)

TableName == [schema_name |-> [words |-> <<"s">>, form |-> "snake"],
              name |-> [words |-> <<"m">>, form |-> "snake"], columns |-> table]

Descriptor == descriptor_from_uc_schema(TableName)
ProtoSchema == build_proto_schema(TableName)
Arrow == arrow_schema_from_uc_columns_with_options(table)

RECURSIVE Shape(_, _), ProtoShape(_, _), ArrowShape(_)

\* Reference: what a type looks like in a target, from the type alone.
Shape(ct, target) ==
    CASE ct.kind = "prim" -> IF target = "proto" THEN Leaf(map_primitive_to_protobuf(ct.p))
                             ELSE map_primitive_to_arrow(ct.p)
      [] ct.kind = "struct" ->
            [kind |-> "struct",
             fields |-> [i \in DOMAIN ct.fields |->
                 [name |-> ct.fields[i].name, shape |-> Shape(ct.fields[i].type, target),
                  null |-> ct.fields[i].nullable \/ (target = "proto" /\ IsRepeated(ct.fields[i].type))]]]
      [] ct.kind = "array" -> [kind |-> "list", item |-> Shape(ct.elem, target)]
      [] ct.kind = "map" -> [kind |-> "map", key |-> Shape(ct.key, target),
                             value |-> Shape(ct.value, target)]

\* What a reader of the descriptor finds: type names looked up as the pool does.
ResolvedShape(r) ==
    IF IsBad(r) THEN r
    ELSE IF r.msg.map_entry
    THEN [kind |-> "map", key |-> ProtoShape(r.msg.fields[1], r.scopes),
          value |-> ProtoShape(r.msg.fields[2], r.scopes)]
    ELSE [kind |-> "struct",
          fields |-> [i \in DOMAIN r.msg.fields |->
              [name |-> r.msg.fields[i].name, null |-> r.msg.fields[i].label # "required",
               shape |-> ProtoShape(r.msg.fields[i], r.scopes)]]]

Repeat(f, one) ==
    IF f.label = "repeated" /\ (IsBad(one) \/ one.kind # "map")
    THEN [kind |-> "list", item |-> one] ELSE one

ProtoShape(f, scopes) ==
    Repeat(f, IF f.type # "message" THEN Leaf(f.type)
              ELSE ResolvedShape(Resolve(scopes, f.type_name)))

ArrowShape(dt) ==
    CASE dt.kind = "leaf" \/ dt = variant_arrow_data_type -> dt
      [] dt.kind = "struct" /\ dt # variant_arrow_data_type ->
            [kind |-> "struct",
             fields |-> [i \in DOMAIN dt.fields |->
                 [name |-> dt.fields[i].name, null |-> dt.fields[i].nullable,
                  shape |-> ArrowShape(dt.fields[i].type)]]]
      [] dt.kind = "list" -> [kind |-> "list", item |-> ArrowShape(dt.item.type)]
      [] dt.kind = "map" -> [kind |-> "map", key |-> ArrowShape(dt.key.type),
                             value |-> ArrowShape(dt.value.type)]

RECURSIVE VariantKey(_), NamesIn(_)

\* The names of the fields of a type, at every depth.
NamesIn(ct) ==
    CASE ct.kind = "prim" -> {}
      [] ct.kind = "struct" ->
            UNION {{ct.fields[i].name} \cup NamesIn(ct.fields[i].type) : i \in DOMAIN ct.fields}
      [] ct.kind = "array" -> NamesIn(ct.elem)
      [] ct.kind = "map" -> NamesIn(ct.value)

\* A map keyed by VARIANT, the one type only the protobuf side takes.
VariantKey(ct) ==
    CASE ct.kind = "prim" -> FALSE
      [] ct.kind = "struct" -> \E i \in DOMAIN ct.fields : VariantKey(ct.fields[i].type)
      [] ct.kind = "array" -> VariantKey(ct.elem)
      [] ct.kind = "map" -> ct.key = Prim("Variant") \/ VariantKey(ct.value)

ProtoReadsBack(cols, types, desc) ==
    ~IsBad(desc) =>
        /\ Len(desc.fields) = Len(cols)
        /\ \A i \in DOMAIN cols :
              /\ desc.fields[i].name = cols[i].name
              /\ desc.fields[i].number = cols[i].position + 1
              /\ ProtoShape(desc.fields[i], <<desc>>) = Shape(types[i], "proto")

ArrowReadsBack(cols, types, arrow) ==
    ~IsBad(arrow) =>
        /\ Len(arrow.fields) = Len(cols)
        /\ \A i \in DOMAIN cols : ArrowShape(arrow.fields[i].type) = Shape(types[i], "arrow")

\* The pool takes the descriptor unless a name of the table is in PascalCase already.
PoolTakes(cols, types, desc, schema) ==
    IsBad(schema) =>
        \/ IsBad(desc)
        \/ \E i \in DOMAIN cols : \E n \in {cols[i].name} \cup NamesIn(types[i]) : n.form = "pascal"

SchemasAgree(cols, types, desc, schema, arrow) ==
    /\ ProtoReadsBack(cols, types, schema)
    /\ PoolTakes(cols, types, desc, schema)
    /\ ArrowReadsBack(cols, types, arrow)
    /\ IsBad(arrow) <=> IsBad(desc) \/ \E i \in DOMAIN cols : VariantKey(types[i])

Types(cols) == [i \in DOMAIN cols |-> ColumnType(cols[i])]

\* Whatever names the messages of a table need (MessageCollector,
\* map_complex_type_to_protobuf), the descriptor pool takes the descriptor, unless a
\* column or field is already named in PascalCase, as generated messages are; and from
\* a descriptor it takes, a reader finds the table's columns in order, under number
\* position + 1, each with its own type.  The Arrow schema reads back to the same
\* table, and both generators accept the same tables but for VARIANT map keys
\* ("Accepts the same set of UC types and applies the same structural rules",
\* arrow_schema_from_uc_columns_with_options).
TableReadsBack ==
    SchemasAgree(ByPosition(table), Types(ByPosition(table)), Descriptor, ProtoSchema, Arrow)

RECURSIVE Values(_), FitsType(_, _)

Scalars == [kind |-> "scalar"]

\* Objects that have some of the fields, each with one of the type's values.
Objects(fields) ==
    LET With(g, n, x) == [k \in DOMAIN g \cup {n} |-> IF k = n THEN x ELSE g[k]]
        Step(acc, f) == acc \cup {With(g, f.name, x) : g \in acc, x \in Values(f.type)}
    IN  {[kind |-> "object", f |-> g] : g \in FoldLeft(Step, {[k \in {} |-> Scalars]}, fields)}

\* The values of a type, and a list with an element of the wrong shape.
Values(ct) ==
    CASE ct.kind = "prim" -> {Scalars}
      [] ct.kind = "struct" -> Objects(ct.fields)
      [] ct.kind \in {"array", "map"} ->
            LET elem == IF ct.kind = "array" THEN ct.elem ELSE ct.value
            IN  {[kind |-> "list", items |-> <<>>]}
                \cup {[kind |-> "list", items |-> <<x>>] : x \in Values(elem) \cup {Scalars}}

Complete(fields, v) ==
    \A i \in DOMAIN fields :
        IF fields[i].name \in DOMAIN v.f THEN FitsType(fields[i].type, v.f[fields[i].name])
        ELSE fields[i].nullable \/ IsRepeated(fields[i].type)

\* Reference: a value that has all a type does not allow to be null.
FitsType(ct, x) ==
    CASE ct.kind = "prim" -> x.kind = "scalar"
      [] ct.kind = "struct" -> x.kind = "object" /\ Complete(ct.fields, x)
      [] ct.kind = "array" -> x.kind = "list" /\ \A i \in DOMAIN x.items : FitsType(ct.elem, x.items[i])
      [] ct.kind = "map" -> x.kind = "list" /\ \A i \in DOMAIN x.items : FitsType(ct.value, x.items[i])

Fields(cols) == [i \in DOMAIN cols |-> [name |-> cols[i].name, type |-> ColumnType(cols[i]),
                                       nullable |-> cols[i].nullable]]

EncodesComplete(fields, desc) ==
    ~IsBad(desc) =>
        \A v \in Objects(fields) :
            ~IsBad(zerobus_proto_schema_encode_json(desc, v)) <=> Complete(fields, v)

\* encode_json takes exactly the records that give every non-nullable field of
\* the table a value at every depth: in nested structs, in the elements of arrays
\* and in the values of maps (missing_required_fields); an omitted ARRAY or MAP is
\* empty.
RequiredAtEveryDepth == EncodesComplete(Fields(ByPosition(table)), ProtoSchema)
=============================================================================
