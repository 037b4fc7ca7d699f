-------------------------------- MODULE Wire --------------------------------
(***************************************************************************)
(* zeroparser/wire.rs: varints, tags and wire fields.                      *)
(*                                                                         *)
(* The widths of the code are constants, so that small words can be        *)
(* enumerated: GroupBits payload bits in a byte (7), MaxBytes bytes in the *)
(* longest varint (10), FastBytes of them decoded by the unrolled arms     *)
(* (5), NumBits bits in a field number (32), Fixed32 and Fixed64 bytes in  *)
(* the fixed values (4 and 8).  The word has (MaxBytes - 1) * GroupBits +  *)
(* 1 bits, as 64 = 9 * 7 + 1.                                              *)
(***************************************************************************)
EXTENDS Integers, Sequences, FiniteSets, SequencesExt

CONSTANTS GroupBits, MaxBytes, FastBytes, NumBits, MaxFieldNum, Fixed32, Fixed64

ASSUME WireAssumption ==
    /\ GroupBits \in Nat \ {0} /\ NumBits \in Nat \ {0}
    /\ FastBytes \in 1..(MaxBytes - 1) /\ MaxBytes \in Nat
    /\ MaxFieldNum \in 1..(2^(NumBits - 1) - 1)
    /\ Fixed32 \in Nat \ {0} /\ Fixed64 \in Nat \ {0}

Cont == 2^GroupBits
Byte == 0..(2 * Cont - 1)
WordBits == (MaxBytes - 1) * GroupBits + 1

Err(e) == [err |-> e]
IsErr(r) == "err" \in DOMAIN r
Ok(v, rest) == [val |-> v, rest |-> rest]

\* The low bits of v as a two's complement number of that many bits (as i32, as i64).
Signed(v, bits) ==
    LET low == v % 2^bits IN IF low >= 2^(bits - 1) THEN low - 2^bits ELSE low

After(data, n) == SubSeq(data, n + 1, Len(data))

\* The first n bytes of data without their continuation bits, lowest first.
Groups(data, n) ==
    FoldLeftDomain(LAMBDA acc, i : acc + (data[i] % Cont) * Cont^(i - 1), 0, SubSeq(data, 1, n))

\* The bytes among the first n that end a varint.
Ends(data, n) == {i \in 1..n : i <= Len(data) /\ data[i] < Cont}

-----------------------------------------------------------------------------
(* Varints.                                                                *)

\* Mutant of parse_varint_slow: the last byte may hold more than one bit.
parse_varint_slow_wide(data) ==
    LET ends == Ends(data, MaxBytes)
        n == Min(ends)
    IN  IF ends # {} THEN Ok(Groups(data, n) % 2^WordBits, After(data, n))
        ELSE IF Len(data) < MaxBytes THEN Err("TruncatedVarint")
        ELSE Err("VarintTooLong")

parse_varint_slow(data) ==
    LET ends == Ends(data, MaxBytes - 1)
        n == Min(ends)
    IN  IF ends # {} THEN Ok(Groups(data, n), After(data, n))
        ELSE IF Len(data) < MaxBytes THEN Err("TruncatedVarint")
        ELSE IF data[MaxBytes] > 1 THEN Err("VarintTooLong")
        ELSE Ok(Groups(data, MaxBytes), After(data, MaxBytes))

try_read_varint(data) ==
    LET ends == Ends(data, FastBytes)
        n == Min(ends)
    IN  IF ends # {} THEN Ok(Groups(data, n), After(data, n))
        ELSE IF Len(data) < FastBytes THEN Err("TruncatedVarint")
        ELSE parse_varint_slow(data)

\* Reference: a varint is the bytes up to the first without continuation bit,
\* at most MaxBytes of them, whose value fits the word.
Varint(data) ==
    LET ends == Ends(data, Len(data))
        n == Min(ends)
    IN  IF ends = {} /\ Len(data) < MaxBytes THEN Err("TruncatedVarint")
        ELSE IF ends # {} /\ n <= MaxBytes /\ Groups(data, n) < 2^WordBits
        THEN Ok(Groups(data, n), After(data, n))
        ELSE Err("VarintTooLong")

-----------------------------------------------------------------------------
(* Tags and fields.                                                        *)

WireType(n) == CASE n = 0 -> "Varint" [] n = 1 -> "I64" [] n = 2 -> "Len"
                 [] n \in {3, 4} -> "Group" [] n = 5 -> "I32" [] OTHER -> "invalid"

\* The number is cut to NumBits before its range is checked.
try_unpack_tag(tag) ==
    LET num == Signed(tag \div 8, NumBits)
        type == WireType(tag % 8)
    IN  IF type = "invalid" THEN Err("InvalidWireType")
        ELSE IF num \notin 1..MaxFieldNum THEN Err("InvalidFieldNumber")
        ELSE [num |-> num, type |-> type]

Field(tag, v, rest) == [num |-> tag.num, type |-> tag.type, val |-> v, rest |-> rest]

Fixed(tag, data, n) ==
    IF Len(data) < n THEN Err("BufferTooShort")
    ELSE Field(tag, SubSeq(data, 1, n), After(data, n))

\* Mutant of Delimited: a value cut short is taken as it is.
DelimitedCut(tag, data) ==
    LET len == try_read_varint(data)
    IN  IF IsErr(len) THEN len
        ELSE IF Len(len.rest) < len.val THEN Field(tag, len.rest, <<>>)
        ELSE Field(tag, SubSeq(len.rest, 1, len.val), After(len.rest, len.val))

\* A length, then as many bytes.
Delimited(tag, data) ==
    LET len == try_read_varint(data)
    IN  IF IsErr(len) THEN len
        ELSE IF Len(len.rest) < len.val THEN Err("BufferTooShort")
        ELSE Field(tag, SubSeq(len.rest, 1, len.val), After(len.rest, len.val))

try_parse_field(data) ==
    LET t == try_read_varint(data)
        tag == try_unpack_tag(t.val)
        v == try_read_varint(t.rest)
    IN  IF IsErr(t) THEN t
        ELSE IF IsErr(tag) THEN tag
        ELSE CASE tag.type = "Varint" -> IF IsErr(v) THEN v ELSE Field(tag, v.val, v.rest)
               [] tag.type = "I64" -> Fixed(tag, t.rest, Fixed64)
               [] tag.type = "Len" -> Delimited(tag, t.rest)
               [] tag.type = "I32" -> Fixed(tag, t.rest, Fixed32)
               [] tag.type = "Group" -> Err("UnsupportedGroupWireType")

-----------------------------------------------------------------------------
(* The buffer grows byte by byte.                                          *)

VARIABLE buffer

WireInit == buffer = <<>>

Receive(b) == Len(buffer) <= MaxBytes /\ buffer' = Append(buffer, b)

WireNext == \E b \in Byte : Receive(b)

\* The unrolled arms, the slow path and the limit on the last byte together
\* decode exactly the varints of the reference definition, and report a buffer
\* that may still become one as truncated.
VarintIsReference == try_read_varint(buffer) = Varint(buffer)

\* A field is delimited by itself: no proper prefix of its bytes is a field, and
\* what follows does not change it.  Otherwise a record would parse differently
\* from the two halves it was written in.
FieldsArePrefixFree ==
    LET r == try_parse_field(buffer)
        n == Len(buffer) - Len(r.rest)
    IN  ~IsErr(r) =>
          /\ r.rest = After(buffer, n)
          /\ \A k \in 0..(n - 1) :
                try_parse_field(SubSeq(buffer, 1, k))
                    \in {Err("TruncatedVarint"), Err("BufferTooShort")}
          /\ try_parse_field(SubSeq(buffer, 1, n)) = [r EXCEPT !.rest = <<>>]
=============================================================================
