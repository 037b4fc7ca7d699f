------------------------------ MODULE MessageId ------------------------------
(***************************************************************************)
(* The identifier that MultiplexedStream's ingest methods return: the      *)
(* index of a sub-stream in the high bits of a signed word, an offset of   *)
(* that sub-stream in the low ones (multiplexed_stream.rs, MessageId).     *)
(*                                                                         *)
(* The code has MaxStreams = 2^6 and OffsetSpan = 2^58; nothing below      *)
(* depends on these values except that the word holds both.                *)
(***************************************************************************)
EXTENDS Integers

CONSTANTS
    MaxStreams,     \* 1 << STREAM_BITS
    OffsetSpan      \* OFFSET_MASK + 1

ASSUME MessageIdAssumption == MaxStreams \in Nat \ {0} /\ OffsetSpan \in Nat \ {0}

Words == MaxStreams * OffsetSpan

\* `as i64`: a word whose top bit is set is negative.
Signed(u) == IF 2 * u >= Words THEN u - Words ELSE u

\* `as u64`
Unsigned(w) == IF w < 0 THEN w + Words ELSE w

\* MessageId::new; the two fields share no bit, so | is +.
New(index, offset) == Signed((index * OffsetSpan) + (offset % OffsetSpan))

StreamIndex(id) == Unsigned(id) \div OffsetSpan

\* `self.0 & OFFSET_MASK`, of a two's complement word.
SubOffset(id) == id % OffsetSpan
==============================================================================
