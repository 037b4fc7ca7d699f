------------------------------- MODULE Codec -------------------------------
(***************************************************************************)
(* The conversions of the SDK on the instances TLC checks: bytes into wire *)
(* fields (Wire), wire fields into messages (ZeroParser), tables into      *)
(* schemas and records into bytes (TableSchema).                           *)
(***************************************************************************)
EXTENDS Wire, ZeroParser, TableSchema, TLC

\* .M { int32 f1; oneof g { int32 f2; N f3; } repeated int32 f4; map<int32, N> f5;
\*      repeated N f6; string f7; }
\* .N { oneof g { int32 f1; int32 f2; } M f3; }
Decl(num, type, repeated, oneof, name) ==
    [num |-> num, type |-> type, repeated |-> repeated, oneof |-> oneof,
     optional |-> FALSE, type_name |-> name]

MCSchema ==
    ".M" :> [map_entry |-> FALSE,
             fields |-> <<Decl(1, "int32", FALSE, 0, ""), Decl(2, "int32", FALSE, 1, ""),
                          Decl(3, "message", FALSE, 1, ".N"), Decl(4, "int32", TRUE, 0, ""),
                          Decl(5, "message", TRUE, 0, ".E"), Decl(6, "message", TRUE, 0, ".N"),
                          Decl(7, "string", FALSE, 0, "")>>]
    @@ ".N" :> [map_entry |-> FALSE,
                fields |-> <<Decl(1, "int32", FALSE, 1, ""), Decl(2, "int32", FALSE, 1, ""),
                             Decl(3, "message", FALSE, 0, ".M")>>]
    @@ ".E" :> [map_entry |-> TRUE,
                fields |-> <<Decl(1, "int32", FALSE, 0, ""), Decl(2, "message", FALSE, 0, ".N")>>]

V(num, v) == [num |-> num, type |-> "Varint", val |-> v]
L(num, fields, ints, utf8) ==
    [num |-> num, type |-> "Len", val |-> [fields |-> fields, ints |-> ints, utf8 |-> utf8]]
Msg(num, fields) == L(num, fields, <<>>, TRUE)

MCWireFields ==
    {V(1, 9), V(2, 1), V(4, 5), V(8, 1),
     Msg(1, <<>>), Msg(3, <<V(1, 1)>>), Msg(3, <<V(2, 1)>>), Msg(3, <<Msg(3, <<>>)>>),
     L(4, <<>>, <<1, 5>>, TRUE), L(4, <<>>, <<1, -1>>, TRUE),
     Msg(5, <<V(1, 1)>>), Msg(5, <<Msg(2, <<V(1, 1)>>), Msg(2, <<V(2, 1)>>)>>),
     Msg(5, <<Msg(2, <<Msg(3, <<Msg(5, <<Msg(2, <<>>)>>)>>)>>)>>),
     Msg(6, <<V(1, 2)>>), L(7, <<>>, <<>>, FALSE),
     [num |-> 1, type |-> "bad", val |-> 0]}

Name(words, form) == [words |-> words, form |-> form]
J(p) == [kind |-> "prim", p |-> p]
Struct(fields) == [kind |-> "struct", fields |-> fields]
Array(elem) == [kind |-> "array", elem |-> elem]
Map(key, value) == [kind |-> "map", key |-> key, value |-> value]
F(name, type, nullable) == [name |-> name, type |-> type, nullable |-> nullable]

m == Name(<<"m">>, "snake")
mEntry == Name(<<"m", "entry">>, "camel")

Point == Struct(<<F(m, J("integer"), FALSE)>>)
\* In a column m the field MM is named like the message of the field m.
Twin == Struct(<<F(m, Point, TRUE), F(Name(<<"m", "m">>, "pascal"), J("integer"), TRUE)>>)
\* The names its map and its structs ask for collide: mEntry, m_entry, m.
Clash == Struct(<<F(mEntry, Point, TRUE), F(Name(<<"m", "entry">>, "snake"), Point, FALSE),
                  F(m, Map(J("string"), J("long")), FALSE)>>)

MCTypes ==
    {<<"INT", NoType>>, <<"VARIANT", NoType>>, <<"POINT", NoType>>, <<"STRUCT", NoType>>,
     <<"STRUCT", Point>>, <<"STRUCT", Twin>>, <<"STRUCT", Clash>>,
     <<"STRUCT", [kind |-> "wrapped", type |-> Point]>>,
     <<"STRUCT", Struct(<<F(Name(<<"m">>, "bad"), J("integer"), TRUE)>>)>>,
     <<"ARRAY", Array(J("binary"))>>, <<"ARRAY", Array(Point)>>, <<"ARRAY", Array(Array(J("date")))>>,
     <<"ARRAY", Array(Map(J("string"), J("date")))>>,
     <<"MAP", Map(J("string"), J("double"))>>, <<"MAP", Map(J("string"), Point)>>,
     <<"MAP", Map(J("variant"), J("byte"))>>, <<"MAP", Map(J("float"), J("byte"))>>,
     <<"MAP", Map(J("short"), Array(J("byte")))>>, <<"MAP", Map(J("money"), J("byte"))>>,
     <<"STRUCT", Struct(<<F(m, Array(Struct(<<F(m, Point, FALSE)>>)), TRUE)>>)>>,
     <<"STRUCT", Struct(<<F(m, Struct(<<F(m, Struct(<<F(m, Point, FALSE)>>), TRUE)>>), TRUE)>>)>>}

MCNames == {m, mEntry, Name(<<"m", "value">>, "snake"), Name(<<"m", "element">>, "snake"),
            Name(<<"m">>, "pascal"), Name(<<"m", "entry">>, "pascal"),
            Name(<<>>, "snake"), Name(<<"2">>, "snake"), Name(<<"2">>, "digit")}

MCColumns ==
    {[name |-> n, type_name |-> t[1], type_json |-> t[2], position |-> p, nullable |-> p = 2] :
        n \in MCNames, t \in MCTypes, p \in {0, 2}}
    \cup {[name |-> m, type_name |-> "INT", type_json |-> NoType, position |-> -1, nullable |-> FALSE]}

Init == WireInit /\ ParserInit /\ TableInit

Next == \/ WireNext /\ first = <<>> /\ second = <<>> /\ table = <<>>
           /\ UNCHANGED <<first, second, table>>
        \/ ParserNext /\ buffer = <<>> /\ table = <<>> /\ UNCHANGED <<buffer, table>>
        \/ TableNext /\ buffer = <<>> /\ first = <<>> /\ second = <<>>
           /\ UNCHANGED <<buffer, first, second>>

Spec == Init /\ [][Next]_<<buffer, first, second, table>>
=============================================================================
