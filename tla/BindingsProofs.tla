--------------------------- MODULE BindingsProofs ---------------------------
(***************************************************************************)
(* TLAPS proofs about Bindings, for every number of streams and calls and  *)
(* for each of the bindings.                                               *)
(*                                                                         *)
(* The inductive invariant has seven parts:                                *)
(*   BindingTypes  types                                                   *)
(*   SlotInv       which stream a call works on and which one it creates   *)
(*   GuardInv      the queue of a guard, and who has it                    *)
(*   HoldInv       what keeps the stream of a running call alive           *)
(*   ProvInv       which providers are released                            *)
(*   CallbackInv   flag or lock of a provider, and who is inside it        *)
(*   ReplayInv     what a recreation carries over, and what may be late    *)
(***************************************************************************)
EXTENDS Bindings, SequenceFacts, FiniteSetTheorems, TLAPS

-----------------------------------------------------------------------------
(* The inductive invariant *)

Opened == {"create", "recreate"}

Pcs == {"idle", "queued", "native", "refusing", "headers", "callback", "connect", "answer"}

Slots == Streams \cup {NULL}

\* What a call that is not a creation does, and how it tells its caller.
Works == {"ingest", "ingest_wait", "ingest_relock", "ingest_empty", "ingest_none", "wait",
          "flush", "close", "unacked", "query"}

Modes == {"sync", "async", "nowait"}

Ops == Works \cup Opened \cup {"idle", "closing"}

CallRecords ==
    [op : Ops, s : Slots, new : Slots, mode : Modes \cup {NULL},
     hold : {"none", "borrow", "arc", "raw", "owned"}, pc : Pcs, off : Int,
     res : {"ok", "err", "refused"} \cup {NULL}, recs : Seq(Int), late : SUBSET Int]

StreamRecords ==
    [st : {"none", "open", "closed", "failed"}, log : Seq(Int), acked : Nat, prov : Slots]

Entries == [c : Calls, access : {"r", "w"}]

BindingTypes ==
    /\ binding \in {"ffi", "jni", "node", "python"} /\ arrow \in BOOLEAN
    /\ stream \in [Streams -> StreamRecords]
    /\ handle \in [Streams -> {"none", "live", "freed", "leaked"}]
    /\ taken \in [Streams -> BOOLEAN]
    /\ queue \in [Streams -> Seq(Entries)]
    /\ call \in [Calls -> CallRecords]
    /\ inHeaders \in SUBSET Streams
    /\ busy \in [Streams -> BOOLEAN] /\ given \in SUBSET Streams
    /\ freed \in [Streams -> Int]
    /\ ingested \in Int /\ begun \in Int

\* A call that is over has let go of everything; one that works on a stream works on
\* one that was created, one that creates a stream has a slot of its own, unused
\* until it has connected.
SlotInv ==
    /\ \A c \in Calls : call[c].pc = "idle" => call[c] = Idle
    /\ \A c \in Calls : call[c].s # NULL => stream[call[c].s].st # "none"
    /\ \A c \in Calls : call[c].pc \in {"queued", "native"} => call[c].s \in Streams
    /\ \A c \in Calls :
          Creating(c) \/ (call[c].pc \in {"queued", "native"} /\ call[c].op = "recreate") =>
             call[c].new \in Streams
    /\ \A c \in Calls : call[c].new # NULL /\ call[c].pc # "answer" => stream[call[c].new].st = "none"
    /\ \A c \in Calls : call[c].pc = "answer" /\ Created(c) =>
          call[c].new \in Streams /\ stream[call[c].new].st # "none"
    /\ \A c, d \in Calls : call[c].new = call[d].new /\ call[c].new # NULL => c = d
    /\ \A s \in inHeaders : stream[s].st # "none"
    /\ \A s \in Streams : handle[s] # "none" => stream[s].st # "none"

\* A queue holds the calls that wait for the guard of the stream or have it, each once;
\* a call that runs has the guard, alone if it closes the stream or takes it out.
GuardInv ==
    /\ \A s \in Streams : \A i \in 1 .. Len(queue[s]) :
          LET k == call[queue[s][i].c] IN
          /\ k.s = s /\ k.pc \in {"queued", "native", "headers", "callback", "connect"}
          /\ k.op \in {"close", "closing"} \/ binding \in {"jni", "node"} => queue[s][i].access = "w"
    /\ \A s \in Streams : \A i, j \in 1 .. Len(queue[s]) : queue[s][i].c = queue[s][j].c => i = j
    /\ binding # "ffi" =>
          \A c \in Calls : call[c].pc = "native" /\ ~(binding = "jni" /\ call[c].op = "recreate") =>
              Granted(c, call[c].s)

\* The stream of a call that runs: behind a handle that cannot be freed, behind a clone
\* of the Arc and not taken out, or taken out by this call alone.
HoldInv ==
    /\ \A c \in Calls : call[c].pc \in {"queued", "native"} => call[c].hold # "none"
    /\ \A c \in Calls : call[c].pc = "queued" => call[c].op # "closing"
    /\ \A c \in Calls :
          call[c].hold \in {"borrow", "raw"} /\ call[c].pc # "answer" =>
             handle[call[c].s] = "live" /\ (call[c].mode = "sync" \/ call[c].hold = "raw")
    /\ \A c \in Calls :
          call[c].pc = "native" /\ call[c].hold # "owned" => ~taken[call[c].s]
    /\ \A c \in Calls : call[c].pc # "answer" /\ call[c].hold = "owned" => taken[call[c].s]
    /\ \A c, d \in Calls :
          (/\ call[c].pc # "answer" /\ call[c].hold = "owned"
           /\ call[d].pc # "answer" /\ call[d].hold = "owned"
           /\ call[c].s = call[d].s) => c = d
    /\ \A c \in Calls :
          (/\ call[c].pc = "native" /\ binding \in {"jni", "node"}
           /\ call[c].op \in {"close", "closing"}) => call[c].hold = "owned"
    /\ \A c \in Calls :
          call[c].pc = "native" /\ binding = "jni" /\ call[c].op = "recreate" => call[c].hold = "owned"
    /\ \A c \in Calls : call[c].hold \in {"borrow", "arc", "raw", "owned"} => call[c].s \in Streams
    /\ binding \in {"ffi", "python"} => \A s \in Streams : ~taken[s]
    /\ \A c \in Calls : call[c].new # NULL => handle[call[c].new] = "none"

\* A provider that was handed over is released once nothing holds it, and only then.
ProvInv ==
    /\ \A p \in Streams : freed[p] \in {0, 1}
    /\ \A p \in Streams : freed[p] = 1 => ~Held(p)
    /\ \A p \in given : Held(p) \/ freed[p] = 1
    /\ \A s \in Streams : stream[s].prov # NULL => stream[s].prov \in given

\* Flag or lock say whether somebody is inside the callback, and there is one at most.
CallbackInv ==
    binding \in {"ffi", "jni"} =>
        \A p \in Streams : /\ \A x, y \in Running(p) : x = y
                           /\ busy[p] <=> Running(p) # {}

\* The records that a recreation may miss.
Late(c) == IF arrow \/ binding \in {"jni", "node"} THEN {} ELSE call[c].late

\* What a recreation has read, or the stream it made has.
Carried(c) == ToSet(IF call[c].pc = "answer" THEN stream[call[c].new].log ELSE call[c].recs)

Replaying(c) ==
    /\ call[c].op = "recreate"
    /\ \/ call[c].pc \in {"headers", "callback", "connect"}
       \/ call[c].pc = "answer" /\ call[c].res = "ok"

\* An ingest has a record in hand only while it runs.  A recreation carries over what the
\* old stream, which has ended, has; what may still enter that stream was in hand before.
ReplayInv ==
    /\ \A c \in Calls : call[c].op \in Ingests /\ call[c].recs # <<>> => call[c].pc = "native"
    /\ \A c \in Calls : Replaying(c) =>
          /\ call[c].s \in Streams /\ stream[call[c].s].st # "open"
          /\ ToSet(Unacked(call[c].s)) \subseteq Carried(c) \cup Late(c)
          /\ ~arrow => InHand(call[c].s) \subseteq Late(c)

BindingInv ==
    BindingTypes /\ SlotInv /\ GuardInv /\ HoldInv /\ ProvInv /\ CallbackInv /\ ReplayInv

-----------------------------------------------------------------------------
(* The exported functions by shape *)

\* A call that runs at once (FFI).
EnterFfi(c, s) ==
    \E op \in Works, mode \in Modes, hold \in {"borrow", "arc", "raw"}, off \in Int :
        /\ binding = "ffi" /\ (hold = "borrow" => mode = "sync")
        /\ Start(c, s, op, mode, hold, off)

\* A call that waits for the guard of its stream (the others).
EnterGuard(c, s) ==
    \E op \in Works, mode \in Modes, hold \in {"borrow", "arc"}, access \in {"r", "w"}, off \in Int :
        /\ binding # "ffi" /\ (hold = "borrow" => mode = "sync")
        /\ op = "close" \/ binding \in {"jni", "node"} => access = "w"
        /\ Lock(c, s, op, mode, hold, access, off)

EnterCreate(c, new) ==
    \E mode \in Modes, custom, valid \in BOOLEAN : Create(c, new, mode, custom, valid)

EnterRecreate(c, s, new) ==
    \E mode \in Modes, hold \in {"borrow", "arc"}, access \in {"none", "r", "w"} :
        /\ access = "none" <=> binding = "ffi"
        /\ hold = "borrow" => mode = "sync"
        /\ binding \in {"jni", "node"} => access = "w"
        /\ Recreate(c, s, new, mode, hold, access)

Enter ==
    \/ \E c \in Calls : Refuse(c)
    \/ \E c \in Calls, s \in Streams :
          EnterFfi(c, s) \/ EnterGuard(c, s) \/ EnterCreate(c, s)
    \/ \E c \in Calls, s, new \in Streams : EnterRecreate(c, s, new)
    \/ \E s \in Streams : FreeHandle(s)

\* Every function of the C FFI that starts a call or frees a handle.
LEMMA FfiShape ==
    ASSUME binding = "ffi",
           \/ FfiCall \/ FfiArrowCall
           \/ \E s \in Streams : zerobus_stream_free(s) \/ zerobus_arrow_stream_free(s)
    PROVE  Enter
  <1> DEFINE E(c, s) == Refuse(c) \/ EnterFfi(c, s) \/ EnterCreate(c, s)
  <1>1. ASSUME NEW c \in Calls, NEW s \in Streams, NEW op \in Works, NEW off \in Int,
               NEW valid \in BOOLEAN
        PROVE  /\ BlockOn(c, s, op, off, valid) => E(c, s)
               /\ Spawn(c, s, op, off, valid) => E(c, s)
               /\ SpawnNowait(c, s, valid) => E(c, s)
    BY DEF BlockOn, Spawn, SpawnNowait, EnterFfi, clone_stream_arc, Works, Modes
  <1>2. ASSUME NEW c \in Calls, NEW s \in Streams, NEW valid \in BOOLEAN,
               NEW mode \in Modes, NEW custom \in BOOLEAN, Create(c, s, mode, custom, valid)
        PROVE  E(c, s)
    BY <1>2 DEF EnterCreate
  <1>3. ASSUME NEW c \in Calls, NEW s \in Streams,
               \/ zerobus_sdk_create_stream(c, s) \/ zerobus_sdk_create_stream_async(c, s)
               \/ zerobus_sdk_create_stream_with_headers_provider(c, s)
               \/ zerobus_sdk_create_stream_with_headers_provider_async(c, s)
               \/ zerobus_sdk_create_arrow_stream(c, s)
               \/ zerobus_sdk_create_arrow_stream_with_headers_provider(c, s)
        PROVE  E(c, s)
    BY <1>2, <1>3 DEF zerobus_sdk_create_stream, zerobus_sdk_create_stream_async,
       zerobus_sdk_create_stream_with_headers_provider,
       zerobus_sdk_create_stream_with_headers_provider_async, zerobus_sdk_create_arrow_stream,
       zerobus_sdk_create_arrow_stream_with_headers_provider, Modes
  <1> HIDE DEF E
  <1>4. ASSUME NEW c \in Calls, NEW s \in Streams,
               \/ zerobus_stream_ingest_proto_record(c, s)
               \/ zerobus_stream_ingest_proto_record_async(c, s)
               \/ zerobus_stream_ingest_json_record(c, s)
               \/ zerobus_stream_ingest_json_record_async(c, s)
               \/ zerobus_arrow_stream_ingest_batch(c, s)
               \/ zerobus_arrow_stream_ingest_c_data(c, s)
               \/ zerobus_arrow_stream_ingest_batch_via_record_batch(c, s)
        PROVE  E(c, s)
    BY <1>1, <1>4 DEF zerobus_stream_ingest_proto_record, zerobus_stream_ingest_proto_record_async,
       zerobus_stream_ingest_json_record, zerobus_stream_ingest_json_record_async,
       zerobus_arrow_stream_ingest_batch, zerobus_arrow_stream_ingest_c_data,
       zerobus_arrow_stream_ingest_batch_via_record_batch, Works
  <1>5. ASSUME NEW c \in Calls, NEW s \in Streams, Instant(c) PROVE E(c, s)
    BY <1>5 DEF Instant, E
  <1>6. ASSUME NEW c \in Calls, NEW s \in Streams,
               \/ zerobus_stream_ingest_proto_records(c, s)
               \/ zerobus_stream_ingest_proto_records_async(c, s)
               \/ zerobus_stream_ingest_json_records(c, s)
               \/ zerobus_stream_ingest_json_records_async(c, s)
               \/ zerobus_stream_ingest_proto_record_nowait(c, s)
               \/ zerobus_stream_ingest_json_record_nowait(c, s)
               \/ zerobus_stream_ingest_proto_records_nowait(c, s)
               \/ zerobus_stream_ingest_json_records_nowait(c, s)
        PROVE  E(c, s)
    BY <1>1, <1>5, <1>6
       DEF zerobus_stream_ingest_proto_records, zerobus_stream_ingest_proto_records_async,
       zerobus_stream_ingest_json_records, zerobus_stream_ingest_json_records_async,
       zerobus_stream_ingest_proto_record_nowait, zerobus_stream_ingest_json_record_nowait,
       zerobus_stream_ingest_proto_records_nowait, zerobus_stream_ingest_json_records_nowait, Works
  <1>7. ASSUME NEW c \in Calls, NEW s \in Streams,
               \/ zerobus_stream_flush(c, s) \/ zerobus_stream_flush_async(c, s)
               \/ zerobus_stream_get_unacked_records(c, s)
               \/ zerobus_stream_get_unacked_records_async(c, s)
               \/ zerobus_stream_is_closed(c, s)
               \/ zerobus_arrow_stream_flush(c, s)
               \/ zerobus_arrow_stream_get_unacked_batches(c, s)
               \/ zerobus_arrow_stream_is_closed(c, s)
        PROVE  E(c, s)
    BY <1>1, <1>5, <1>7 DEF zerobus_stream_flush, zerobus_stream_flush_async,
       zerobus_stream_get_unacked_records, zerobus_stream_get_unacked_records_async,
       zerobus_stream_is_closed, zerobus_arrow_stream_flush,
       zerobus_arrow_stream_get_unacked_batches, zerobus_arrow_stream_is_closed, Works
  <1>8. ASSUME NEW c \in Calls, NEW s \in Streams,
               \/ zerobus_stream_close(c, s) \/ zerobus_arrow_stream_close(c, s)
        PROVE  E(c, s)
    BY <1>1, <1>8 DEF zerobus_stream_close, zerobus_arrow_stream_close, Works
  <1>9. ASSUME NEW c \in Calls, NEW s \in Streams, zerobus_stream_close_async(c, s)
        PROVE  E(c, s)
    BY <1>9 DEF zerobus_stream_close_async, E, EnterFfi, Works, Modes
  <1>10. ASSUME NEW c \in Calls, NEW s \in Streams, NEW off \in 1 .. MaxRecords,
                \/ zerobus_stream_wait_for_offset(c, s, off)
                \/ zerobus_stream_wait_for_offset_async(c, s, off)
                \/ zerobus_arrow_stream_wait_for_offset(c, s, off)
         PROVE  E(c, s)
    <2>1. off \in Int
      OBVIOUS
    <2> QED BY <1>1, <1>10, <2>1 DEF zerobus_stream_wait_for_offset,
              zerobus_stream_wait_for_offset_async, zerobus_arrow_stream_wait_for_offset, Works
  <1>11. ASSUME NEW c \in Calls, NEW s \in Streams, NEW t \in Streams,
                zerobus_sdk_recreate_stream(c, s, t) \/ zerobus_sdk_recreate_stream_async(c, s, t)
         PROVE  Refuse(c) \/ EnterRecreate(c, s, t)
    BY <1>11 DEF zerobus_sdk_recreate_stream, zerobus_sdk_recreate_stream_async, clone_stream_arc,
                 EnterRecreate, Modes
  <1>12. ASSUME NEW c \in Calls, NEW s \in Streams, E(c, s) PROVE Enter
    BY <1>12 DEF E, Enter
  <1>13. ASSUME FfiCall PROVE Enter
    <2>1. ASSUME NEW c \in Calls, NEW s \in Streams, NEW t \in Streams,
                 zerobus_sdk_recreate_stream(c, s, t) \/ zerobus_sdk_recreate_stream_async(c, s, t)
          PROVE  Enter
      BY <1>11, <2>1 DEF Enter
    <2> QED BY <1>3, <1>4, <1>6, <1>7, <1>8, <1>9, <1>10, <1>12, <1>13, <2>1 DEF FfiCall
  <1>14. ASSUME FfiArrowCall PROVE Enter
    BY <1>3, <1>4, <1>7, <1>8, <1>10, <1>12, <1>14 DEF FfiArrowCall
  <1> QED BY <1>13, <1>14 DEF zerobus_stream_free, zerobus_arrow_stream_free, Enter

\* Every native of the JNI layer that starts a call or frees a handle.
LEMMA JniShape ==
    ASSUME binding = "jni", JniCall \/ JniArrowCall
    PROVE  Enter
  <1> DEFINE E(c, s) == Refuse(c) \/ EnterGuard(c, s) \/ EnterCreate(c, s)
  <1>1. ASSUME NEW c \in Calls, NEW s \in Streams, NEW op \in Works, NEW off \in Int
        PROVE  BlockOnLock(c, s, op, off) => E(c, s)
    BY DEF BlockOnLock, EnterGuard, Modes
  <1>2. ASSUME NEW c \in Calls, NEW s \in Streams, NEW custom \in BOOLEAN, NEW valid \in BOOLEAN,
               Create(c, s, "async", custom, valid)
        PROVE  E(c, s)
    BY <1>2 DEF EnterCreate, Modes
  <1>3. ASSUME NEW c \in Calls, NEW s \in Streams, nativeIngestRecord(c, s) PROVE E(c, s)
    BY <1>3 DEF nativeIngestRecord, EnterGuard, Works, Modes
  <1>4. ASSUME NEW c \in Calls, NEW s \in Streams, Refuse(c) \/ Instant(c) PROVE E(c, s)
    BY <1>4 DEF Instant
  <1> HIDE DEF E
  <1>5. ASSUME NEW c \in Calls, NEW s \in Streams,
               \/ nativeCreateStream(c, s) \/ nativeCreateStreamWithHeadersProvider(c, s)
               \/ nativeCreateArrowStream(c, s)
               \/ nativeCreateArrowStreamWithHeadersProvider(c, s)
        PROVE  E(c, s)
    BY <1>2, <1>5 DEF nativeCreateStream, nativeCreateStreamWithHeadersProvider,
                      nativeCreateArrowStream, nativeCreateArrowStreamWithHeadersProvider
  <1>6. ASSUME NEW c \in Calls, NEW s \in Streams,
               \/ nativeIngestRecordOffset(c, s) \/ nativeIngestRecordsOffset(c, s)
               \/ nativeFlush(c, s) \/ nativeClose(c, s) \/ nativeIsClosed(c, s)
               \/ nativeGetUnackedRecords(c, s) \/ nativeGetUnackedBatches(c, s)
        PROVE  E(c, s)
    BY <1>1, <1>4, <1>6 DEF nativeIngestRecordOffset, nativeIngestRecordsOffset, nativeFlush,
       nativeClose, nativeIsClosed, nativeGetUnackedRecords, nativeGetUnackedBatches, Works
  <1>7. ASSUME NEW c \in Calls, NEW s \in Streams,
               \/ arrow_nativeIngestBatch(c, s) \/ arrow_nativeFlush(c, s) \/ arrow_nativeClose(c, s)
               \/ arrow_nativeIsClosed(c, s) \/ arrow_nativeGetTableName(c, s)
               \/ arrow_nativeGetUnackedBatches(c, s)
        PROVE  E(c, s)
    BY <1>1, <1>4, <1>7 DEF arrow_nativeIngestBatch, arrow_nativeFlush, arrow_nativeClose,
       arrow_nativeIsClosed, arrow_nativeGetTableName, arrow_nativeGetUnackedBatches, Works
  <1>8. ASSUME NEW c \in Calls, NEW s \in Streams, NEW off \in 1 .. MaxRecords,
               nativeWaitForOffset(c, s, off) \/ arrow_nativeWaitForOffset(c, s, off)
        PROVE  E(c, s)
    <2>1. off \in Int
      OBVIOUS
    <2> QED BY <1>1, <1>8, <2>1 DEF nativeWaitForOffset, arrow_nativeWaitForOffset, Works
  <1>9. ASSUME NEW c \in Calls, NEW s \in Streams, NEW t \in Streams,
               nativeRecreateStream(c, s, t) \/ nativeRecreateArrowStream(c, s, t)
        PROVE  Enter
    <2>1. EnterRecreate(c, s, t)
      BY <1>9 DEF nativeRecreateStream, nativeRecreateArrowStream, EnterRecreate, Modes
    <2> QED BY <2>1 DEF Enter
  <1>10. ASSUME NEW c \in Calls, NEW s \in Streams, E(c, s) PROVE Enter
    BY <1>10 DEF E, Enter
  <1>11. ASSUME NEW s \in Streams, nativeDestroy(s) \/ arrow_nativeDestroy(s) PROVE Enter
    BY <1>11 DEF nativeDestroy, arrow_nativeDestroy, Enter
  <1>12. ASSUME JniCall PROVE Enter
    BY <1>3, <1>5, <1>6, <1>8, <1>9, <1>10, <1>11, <1>12 DEF JniCall
  <1>13. ASSUME JniArrowCall PROVE Enter
    BY <1>5, <1>7, <1>8, <1>9, <1>10, <1>11, <1>13 DEF JniArrowCall
  <1> QED BY <1>12, <1>13

\* Every method of the Node binding that starts a call.
LEMMA NodeShape ==
    ASSUME binding = "node", NodeCall \/ NodeArrowCall
    PROVE  Enter
  <1> DEFINE E(c, s) == Refuse(c) \/ EnterGuard(c, s) \/ EnterCreate(c, s)
  <1>1. ASSUME NEW c \in Calls, NEW s \in Streams, NEW op \in Works, NEW off \in Int
        PROVE  /\ Promise(c, s, op, off) => E(c, s)
               /\ Converted(c, s, op) => E(c, s)
    BY DEF Promise, Converted, EnterGuard, Modes
  <1>2. ASSUME NEW c \in Calls, NEW s \in Streams,
               node_create_stream(c, s) \/ node_create_arrow_stream(c, s)
        PROVE  E(c, s)
    BY <1>2 DEF node_create_stream, node_create_arrow_stream, EnterCreate, Modes
  <1>3. ASSUME NEW c \in Calls, NEW s \in Streams, Refuse(c) \/ Instant(c) PROVE E(c, s)
    BY <1>3 DEF Instant
  <1> HIDE DEF E
  <1>4. ASSUME NEW c \in Calls, NEW s \in Streams,
               \/ node_ingest_record(c, s) \/ node_ingest_records(c, s)
               \/ node_ingest_record_offset(c, s) \/ node_ingest_records_offset(c, s)
               \/ node_flush(c, s) \/ node_close(c, s)
               \/ node_get_unacked_records(c, s) \/ node_get_unacked_batches(c, s)
        PROVE  E(c, s)
    BY <1>1, <1>4 DEF node_ingest_record, node_ingest_records, node_ingest_record_offset,
       node_ingest_records_offset, node_flush, node_close, node_get_unacked_records,
       node_get_unacked_batches, Works
  <1>5. ASSUME NEW c \in Calls, NEW s \in Streams,
               \/ node_arrow_ingest_batch(c, s) \/ node_arrow_flush(c, s) \/ node_arrow_close(c, s)
               \/ node_arrow_is_closed(c, s) \/ node_arrow_table_name(c, s)
               \/ node_arrow_get_unacked_batches(c, s)
        PROVE  E(c, s)
    BY <1>1, <1>3, <1>5 DEF node_arrow_ingest_batch, node_arrow_flush, node_arrow_close,
       node_arrow_is_closed, node_arrow_table_name, node_arrow_get_unacked_batches, Works
  <1>6. ASSUME NEW c \in Calls, NEW s \in Streams, NEW off \in 1 .. MaxRecords,
               node_wait_for_offset(c, s, off) \/ node_arrow_wait_for_offset(c, s, off)
        PROVE  E(c, s)
    <2>1. off \in Int
      OBVIOUS
    <2> QED BY <1>1, <1>3, <1>6, <2>1 DEF node_wait_for_offset, node_arrow_wait_for_offset, Works
  <1>7. ASSUME NEW c \in Calls, NEW s \in Streams, NEW t \in Streams,
               node_recreate_stream(c, s, t) \/ node_recreate_arrow_stream(c, s, t)
        PROVE  Enter
    <2>1. EnterRecreate(c, s, t)
      BY <1>7 DEF node_recreate_stream, node_recreate_arrow_stream, EnterRecreate, Modes
    <2> QED BY <2>1 DEF Enter
  <1>8. ASSUME NEW c \in Calls, NEW s \in Streams, E(c, s) PROVE Enter
    BY <1>8 DEF E, Enter
  <1>9. ASSUME NodeCall PROVE Enter
    BY <1>2, <1>4, <1>6, <1>7, <1>8, <1>9 DEF NodeCall
  <1>10. ASSUME NodeArrowCall PROVE Enter
    BY <1>2, <1>5, <1>6, <1>7, <1>8, <1>10 DEF NodeArrowCall
  <1> QED BY <1>9, <1>10

\* Every method of the Python binding that starts a call.
LEMMA PythonShape ==
    ASSUME binding = "python", PythonCall \/ PythonArrowCall
    PROVE  Enter
  <1> DEFINE E(c, s) == Refuse(c) \/ EnterGuard(c, s) \/ EnterCreate(c, s)
  <1>1. ASSUME NEW c \in Calls, NEW s \in Streams, NEW op \in Works \ {"close"}, NEW off \in Int
        PROVE  /\ BlockOnRead(c, s, op, off) => E(c, s)
               /\ FutureRead(c, s, op, off) => E(c, s)
               /\ SpawnRead(c, s, op) => E(c, s)
    BY DEF BlockOnRead, FutureRead, SpawnRead, EnterGuard, Modes
  <1>2. ASSUME NEW c \in Calls, NEW s \in Streams, NEW valid \in BOOLEAN,
               NEW mode \in Modes, NEW custom \in BOOLEAN, Create(c, s, mode, custom, valid)
        PROVE  E(c, s)
    BY <1>2 DEF EnterCreate
  <1>3. ASSUME NEW c \in Calls, NEW s \in Streams, Refuse(c) \/ Instant(c) PROVE E(c, s)
    BY <1>3 DEF Instant
  <1>4. ASSUME NEW c \in Calls, NEW s \in Streams,
               \/ py_close(c, s) \/ aio_close(c, s) \/ py_arrow_close(c, s) \/ aio_arrow_close(c, s)
        PROVE  E(c, s)
    BY <1>4 DEF py_close, aio_close, py_arrow_close, aio_arrow_close, EnterGuard, Works, Modes
  <1> HIDE DEF E
  <1>5. ASSUME NEW c \in Calls, NEW s \in Streams,
               \/ py_ingest_record(c, s) \/ py_ingest_record_offset(c, s)
               \/ py_ingest_record_nowait(c, s) \/ py_ingest_records_offset(c, s)
               \/ py_ingest_records_nowait(c, s) \/ py_flush(c, s)
               \/ py_get_unacked_records(c, s) \/ py_get_unacked_batches(c, s)
        PROVE  E(c, s)
    BY <1>1, <1>3, <1>5 DEF py_ingest_record, py_ingest_record_offset, py_ingest_record_nowait,
       py_ingest_records_offset, py_ingest_records_nowait, py_flush, py_get_unacked_records,
       py_get_unacked_batches, Works
  <1>6. ASSUME NEW c \in Calls, NEW s \in Streams,
               \/ aio_ingest_record(c, s) \/ aio_ingest_record_offset(c, s)
               \/ aio_ingest_record_nowait(c, s) \/ aio_ingest_records_offset(c, s)
               \/ aio_ingest_records_nowait(c, s) \/ aio_flush(c, s)
               \/ aio_get_unacked_records(c, s) \/ aio_get_unacked_batches(c, s)
        PROVE  E(c, s)
    BY <1>1, <1>3, <1>6 DEF aio_ingest_record, aio_ingest_record_offset, aio_ingest_record_nowait,
       aio_ingest_records_offset, aio_ingest_records_nowait, aio_flush, aio_get_unacked_records,
       aio_get_unacked_batches, Works
  <1>7. ASSUME NEW c \in Calls, NEW s \in Streams,
               \/ py_arrow_ingest_batch(c, s) \/ py_arrow_flush(c, s) \/ py_arrow_is_closed(c, s)
               \/ py_arrow_table_name(c, s) \/ py_arrow_get_unacked_batches(c, s)
               \/ aio_arrow_ingest_batch(c, s) \/ aio_arrow_flush(c, s) \/ aio_arrow_is_closed(c, s)
               \/ aio_arrow_table_name(c, s) \/ aio_arrow_get_unacked_batches(c, s)
        PROVE  E(c, s)
    BY <1>1, <1>3, <1>7 DEF py_arrow_ingest_batch, py_arrow_flush, py_arrow_is_closed,
       py_arrow_table_name, py_arrow_get_unacked_batches, aio_arrow_ingest_batch, aio_arrow_flush,
       aio_arrow_is_closed, aio_arrow_table_name, aio_arrow_get_unacked_batches, Works
  <1>8. ASSUME NEW c \in Calls, NEW s \in Streams, NEW off \in 1 .. MaxRecords,
               \/ py_wait_for_ack(c, s, off) \/ py_wait_for_offset(c, s, off)
               \/ aio_await(c, s, off) \/ aio_wait_for_offset(c, s, off)
               \/ py_arrow_wait_for_offset(c, s, off) \/ aio_arrow_wait_for_offset(c, s, off)
        PROVE  E(c, s)
    <2>1. off \in Int
      OBVIOUS
    <2> QED BY <1>1, <1>3, <1>8, <2>1 DEF py_wait_for_ack, py_wait_for_offset, aio_await,
              aio_wait_for_offset, py_arrow_wait_for_offset, aio_arrow_wait_for_offset, Works
  <1>9. ASSUME NEW c \in Calls, NEW s \in Streams,
               \/ py_create_stream(c, s) \/ py_create_stream_with_headers_provider(c, s)
               \/ aio_create_stream(c, s) \/ aio_create_stream_with_headers_provider(c, s)
               \/ create_arrow_stream_sync(c, s) \/ create_arrow_stream_async(c, s)
               \/ create_arrow_stream_with_headers_provider_sync(c, s)
               \/ create_arrow_stream_with_headers_provider_async(c, s)
        PROVE  E(c, s)
    BY <1>2, <1>9 DEF py_create_stream, py_create_stream_with_headers_provider, aio_create_stream,
       aio_create_stream_with_headers_provider, create_arrow_stream_sync, create_arrow_stream_async,
       create_arrow_stream_with_headers_provider_sync,
       create_arrow_stream_with_headers_provider_async, Modes
  <1>10. ASSUME NEW c \in Calls, NEW s \in Streams, NEW t \in Streams,
                \/ py_recreate_stream(c, s, t) \/ aio_recreate_stream(c, s, t)
                \/ recreate_arrow_stream_sync(c, s, t) \/ recreate_arrow_stream_async(c, s, t)
         PROVE  Enter
    <2>1. EnterRecreate(c, s, t)
      BY <1>10 DEF py_recreate_stream, aio_recreate_stream, recreate_arrow_stream_sync,
                   recreate_arrow_stream_async, EnterRecreate, Modes
    <2> QED BY <2>1 DEF Enter
  <1>11. ASSUME NEW c \in Calls, NEW s \in Streams, E(c, s) PROVE Enter
    BY <1>11 DEF E, Enter
  <1>12. ASSUME PythonCall PROVE Enter
    BY <1>4, <1>5, <1>6, <1>8, <1>9, <1>10, <1>11, <1>12 DEF PythonCall
  <1>13. ASSUME PythonArrowCall PROVE Enter
    BY <1>4, <1>7, <1>8, <1>9, <1>10, <1>11, <1>13 DEF PythonArrowCall
  <1> QED BY <1>12, <1>13

-----------------------------------------------------------------------------
(* The steps by what they change *)

\* A call ends without touching a stream.
Quits(c) ==
    /\ call[c].pc \in {"queued", "native"}
    /\ \E res \in {"ok", "err", "refused"} :
          (res = "ok" => call[c].op \notin Opened) /\ Answer(c, res)
    /\ Rest /\ UNCHANGED <<stream, ingested>>

\* An ingest has found its stream open.
Checks(c) ==
    /\ call[c].pc = "native" /\ call[c].op \in Ingests /\ stream[call[c].s].st = "open"
    /\ ingested' = ingested + 1 /\ call' = [call EXCEPT ![c].recs = <<ingested + 1>>]
    /\ Rest /\ UNCHANGED <<stream, queue>>

\* A record is accepted, and the call ends, goes on to wait, or queues again for that.
Accepts(c) ==
    /\ call[c].pc = "native" /\ call[c].op \in Ingests /\ Accept(c) /\ Rest /\ UNCHANGED ingested
    /\ \/ call[c].op = "ingest" /\ Answer(c, "ok")
       \/ /\ call[c].op = "ingest_wait" /\ UNCHANGED queue
          /\ call' = [call EXCEPT ![c].op = "wait", ![c].recs = <<>>,
                                  ![c].off = Len(stream[call[c].s].log) + 1]
       \/ /\ call[c].op = "ingest_relock"
          /\ call' = [call EXCEPT ![c].op = "wait", ![c].pc = "queued", ![c].recs = <<>>,
                                  ![c].off = Len(stream[call[c].s].log) + 1]
          /\ queue' = [Unlock(c) EXCEPT ![call[c].s] = Append(@, [c |-> c, access |-> "w"])]

\* flush and close go on to their wait.
GoesOn(c) ==
    /\ call[c].pc = "native"
    /\ \/ call[c].op = "flush" /\ call' = [call EXCEPT ![c].op = "wait", ![c].off = Len(stream[call[c].s].log)]
       \/ call[c].op = "close" /\ call' = [call EXCEPT ![c].op = "closing", ![c].off = Len(stream[call[c].s].log)]
    /\ Rest /\ UNCHANGED <<stream, ingested, queue>>

\* A recreation has the records of the old stream.
Reopens(c) ==
    /\ Native(c, "recreate") /\ stream[call[c].s].st # "open"
    /\ stream' = [stream EXCEPT ![call[c].new].prov = stream[call[c].s].prov]
    /\ \E pc \in {"headers", "connect"} :
          call' = [call EXCEPT ![c].recs = Unacked(call[c].s), ![c].late = InHand(call[c].s),
                               ![c].pc = pc]
    /\ Rest /\ UNCHANGED <<queue, ingested>>

\* The guard is granted and the stream is still there.
Acquires(c) ==
    /\ binding # "ffi" /\ Acquire(c)
    /\ binding \in {"jni", "node"} => ~taken[call[c].s] /\ call[c].op # "close"
    /\ binding = "jni" => call[c].op # "recreate"

\* The stream is taken out: by close, which keeps the guard, or by a recreation in Java.
Takes(c) ==
    LET s == call[c].s IN
    /\ binding \in {"jni", "node"} /\ call[c].pc = "queued" /\ Granted(c, s) /\ ~taken[s]
    /\ taken' = [taken EXCEPT ![s] = TRUE]
    /\ \/ /\ call[c].op = "close" /\ UNCHANGED queue
          /\ call' = [call EXCEPT ![c].pc = "native", ![c].hold = "owned"]
       \/ /\ binding = "jni" /\ call[c].op = "recreate" /\ queue' = Unlock(c)
          /\ call' = [call EXCEPT ![c].pc = "native", ![c].hold = "owned", ![c].mode = "async"]
    /\ UNCHANGED <<layer, given, busy, stream, handle, inHeaders, ingested, begun>>

\* Flag or lock of the provider that creation c has called are given back.
GivesBack(c) ==
    IF binding = "node" THEN UNCHANGED busy
    ELSE busy' = [busy EXCEPT ![stream[call[c].new].prov] = FALSE]

\* The headers of a creation are there.  Node has let its callback go.
HeadersDone(c) ==
    /\ call[c].pc = "callback" /\ call' = [call EXCEPT ![c].pc = "connect"]
    /\ \/ UNCHANGED stream
       \/ stream' = [stream EXCEPT ![call[c].new].prov = NULL]
    /\ GivesBack(c)
    /\ UNCHANGED <<layer, given, handle, taken, queue, inHeaders, ingested, begun>>

\* The caller has its answer.
Ends(c) ==
    /\ call[c].pc = "answer" /\ call' = [call EXCEPT ![c] = Idle]
    /\ IF Created(c)
       THEN \E end \in {"live", "freed", "leaked"} : handle' = [handle EXCEPT ![call[c].new] = end]
       ELSE UNCHANGED handle
    /\ UNCHANGED <<layer, given, busy, stream, taken, queue, inHeaders, ingested, begun>>

\* Provider p is called: its flag or lock was free and is taken now.
Seizes(p) ==
    IF binding \in {"ffi", "jni"} THEN ~busy[p] /\ busy' = [busy EXCEPT ![p] = TRUE]
    ELSE UNCHANGED busy

\* The application's callback is called for a creation, or by a supervisor.
CallsBack(c) == Seizes(stream[call[c].new].prov) /\ CreateHeaders(c)

SupervisorCallsBack(s) == Seizes(stream[s].prov) /\ SupervisorHeaders(s)

\* A creation gives up, before the callback or after it.
GivesUp(c) ==
    /\ call[c].pc \in {"headers", "callback"} /\ CreateFails(c)
    /\ IF call[c].pc = "headers" THEN UNCHANGED busy ELSE GivesBack(c)

\* Every step but the start of a call.
Runs ==
    \/ \E c \in Calls :
          \/ Quits(c) \/ Checks(c) \/ Accepts(c) \/ GoesOn(c) \/ NativeCloseEnd(c) \/ Reopens(c)
          \/ Connect(c) \/ CreateRefused(c) \/ Acquires(c) \/ Takes(c) \/ GivesUp(c) \/ CallsBack(c)
          \/ HeadersDone(c) \/ Ends(c) \/ aio_cancel(c)
    \/ \E s \in Streams :
          \/ ServerAck(s) \/ StreamFails(s) \/ SupervisorCallsBack(s) \/ SupervisorHeadersReturn(s)

\* The SDK operations end a call, accept a record or go on.
LEMMA NativeShape ==
    ASSUME NativeStep
    PROVE  Runs
  <1>1. ASSUME NEW c \in Calls, NativeWait(c) \/ NativeCloseEnded(c) \/ NativeQuery(c) \/ NativeUnacked(c)
        PROVE  Quits(c)
    BY <1>1 DEF NativeWait, NativeCloseEnded, NativeQuery, NativeUnacked, Native, Quits, Opened
  <1>2. ASSUME NEW c \in Calls,
               \/ NativeIngestCheck(c) \/ NativeIngest(c)
               \/ NativeIngestThenWait(c) \/ NativeIngestRelock(c)
        PROVE  Quits(c) \/ Checks(c) \/ Accepts(c)
    <2>0. CASE NativeIngestCheck(c)
      BY <2>0 DEF NativeIngestCheck, Quits, Checks, Opened, Ingests
    <2>1. CASE NativeIngest(c)
      BY <2>1 DEF NativeIngest, Native, Quits, Accepts, Opened, Ingests, Fails
    <2>2. CASE NativeIngestThenWait(c)
      BY <2>2 DEF NativeIngestThenWait, Native, Quits, Accepts, Opened, Ingests, Fails
    <2>3. CASE NativeIngestRelock(c)
      BY <2>3 DEF NativeIngestRelock, Native, Quits, Accepts, Opened, Ingests, Fails
    <2> QED BY <1>2, <2>0, <2>1, <2>2, <2>3
  <1>3. ASSUME NEW c \in Calls, NativeFlush(c) \/ NativeClose(c) PROVE GoesOn(c)
    BY <1>3 DEF NativeFlush, NativeClose, Native, GoesOn
  <1>4. ASSUME NEW c \in Calls, NativeRecreate(c) PROVE Quits(c) \/ Reopens(c)
    <2>1. CASE stream[call[c].s].st = "open"
      BY <1>4, <2>1 DEF NativeRecreate, Native, Quits
    <2>2. CASE stream[call[c].s].st # "open"
      BY <1>4, <2>2 DEF NativeRecreate, Native, Reopens
    <2> QED BY <2>1, <2>2
  <1>5. ASSUME NEW c \in Calls, CreateHeadersReturn(c) PROVE HeadersDone(c) \/ GivesUp(c)
    BY <1>5 DEF CreateHeadersReturn, HeadersDone, GivesUp, GivesBack
  <1> QED BY <1>1, <1>2, <1>3, <1>4, <1>5 DEF NativeStep, Runs

\* Every step is the start of a call, the freeing of a handle, or one of the above.
LEMMA NextShape ==
    ASSUME Next
    PROVE  (Enter \/ Runs) /\ DropProviders
  <1>1. ASSUME NEW c \in Calls, Done(c) PROVE Ends(c)
    BY <1>1 DEF Done, Ends
  <1>2. ASSUME NEW c \in Calls, AcquireOption(c), binding \in {"jni", "node"},
               binding = "jni" => call[c].op # "recreate"
        PROVE  Quits(c) \/ Acquires(c) \/ Takes(c)
    <2>1. CASE ~taken[call[c].s] /\ call[c].op # "close"
      BY <1>2, <2>1 DEF AcquireOption, Acquires
    <2>2. CASE ~taken[call[c].s] /\ call[c].op = "close"
      BY <1>2, <2>2 DEF AcquireOption, Takes
    <2>3. CASE taken[call[c].s]
      BY <1>2, <2>3 DEF AcquireOption, Quits, Opened, Rest
    <2> QED BY <2>1, <2>2, <2>3
  <1>3. ASSUME FfiNext PROVE Enter \/ Runs
    <2>1. ASSUME FfiAnswer PROVE \E c \in Calls : Done(c)
      BY <2>1 DEF FfiAnswer, invoke_create_stream_async_callback, invoke_offset_async_callback,
                  invoke_bool_async_callback, invoke_record_array_async_callback, FfiReturn
    <2>2. ASSUME NEW c \in Calls, binding = "ffi", get_headers(c) PROVE CallsBack(c) \/ GivesUp(c)
      BY <2>2 DEF get_headers, CallsBack, GivesUp, Seizes
    <2>3. ASSUME NEW s \in Streams, binding = "ffi", get_headers_reconnect(s)
          PROVE  SupervisorCallsBack(s) \/ StreamFails(s)
      BY <2>3 DEF get_headers_reconnect, SupervisorCallsBack, Seizes
    <2>4. ASSUME binding = "ffi", FfiAnswer \/ FfiHeaders PROVE Runs
      BY <1>1, <2>1, <2>2, <2>3, <2>4 DEF FfiHeaders, Runs
    <2> QED BY <1>3, <2>4, FfiShape DEF FfiNext, Ffi, FfiArrow
  <1>4. ASSUME JniNext PROVE Enter \/ Runs
    <2>1. ASSUME NEW c \in Calls, TakeForRecreate(c), binding = "jni" PROVE Quits(c) \/ Takes(c)
      <3>1. CASE taken[call[c].s]
        BY <2>1, <3>1 DEF TakeForRecreate, Quits, Rest
      <3>2. CASE ~taken[call[c].s]
        BY <2>1, <3>2 DEF TakeForRecreate, Takes
      <3> QED BY <3>1, <3>2
    <2>2. ASSUME NEW c \in Calls, JniAcquire(c), binding = "jni"
          PROVE  Quits(c) \/ Acquires(c) \/ Takes(c)
      BY <1>2, <2>1, <2>2 DEF JniAcquire
    <2>3. ASSUME NEW c \in Calls, binding = "jni", java_get_headers(c) PROVE CallsBack(c)
      BY <2>3 DEF java_get_headers, CallsBack, Seizes
    <2>4. ASSUME NEW c \in Calls,
                 spawn_and_complete(c) \/ spawn_and_complete_void(c) \/ JniReturn(c)
          PROVE  Ends(c)
      BY <1>1, <2>4 DEF spawn_and_complete, spawn_and_complete_void, JniReturn, Ends
    <2>5. ASSUME NEW s \in Streams, binding = "jni", java_get_headers_reconnect(s)
          PROVE  SupervisorCallsBack(s)
      BY <2>5 DEF java_get_headers_reconnect, SupervisorCallsBack, Seizes
    <2> QED BY <1>4, <2>2, <2>3, <2>4, <2>5, JniShape DEF JniNext, Jni, JniStep, Runs
  <1>5. ASSUME NodeNext PROVE Enter \/ Runs
    <2>1. ASSUME NEW c \in Calls, binding = "node", NodeAcquire(c)
          PROVE  Quits(c) \/ Acquires(c) \/ Takes(c)
      BY <1>2, <2>1 DEF NodeAcquire
    <2>2. ASSUME NEW c \in Calls, binding = "node", node_call_headers(c) PROVE CallsBack(c)
      BY <2>2 DEF node_call_headers, CallsBack, Seizes
    <2>3. ASSUME NEW c \in Calls, binding = "node", StaticHeaders(c) PROVE HeadersDone(c) \/ GivesUp(c)
      BY <2>3 DEF StaticHeaders, HeadersDone, GivesUp, GivesBack
    <2>4. ASSUME NEW c \in Calls, NativeIngestEmpty(c) PROVE Quits(c)
      BY <2>4 DEF NativeIngestEmpty, Native, Quits, Opened
    <2>5. ASSUME NEW c \in Calls, NodeResolve(c) PROVE Ends(c)
      BY <1>1, <2>5 DEF NodeResolve
    <2> QED BY <1>5, <2>1, <2>2, <2>3, <2>4, <2>5, NodeShape DEF NodeNext, Node, NodeStep, Runs, Enter
  <1>6. ASSUME PythonNext PROVE Enter \/ Runs
    <2>1. ASSUME NEW c \in Calls, binding = "python", PythonAcquire(c) PROVE Acquires(c)
      BY <2>1 DEF PythonAcquire, Acquires
    <2>2. ASSUME NEW c \in Calls, NativeNone(c) PROVE Quits(c)
      BY <2>2 DEF NativeNone, Native, Quits, Opened
    <2>3. ASSUME NEW c \in Calls, binding = "python", python_get_headers(c) PROVE CallsBack(c)
      BY <2>3 DEF python_get_headers, CallsBack, Seizes
    <2>4. ASSUME NEW c \in Calls, PythonReturn(c) PROVE Ends(c)
      BY <1>1, <2>4 DEF PythonReturn
    <2>5. ASSUME NEW s \in Streams, binding = "python", python_get_headers_reconnect(s)
          PROVE  SupervisorCallsBack(s)
      BY <2>5 DEF python_get_headers_reconnect, SupervisorCallsBack, Seizes
    <2> QED BY <1>6, <2>1, <2>2, <2>3, <2>4, <2>5, PythonShape DEF PythonNext, Python, PythonStep, Runs, Enter
  <1> QED BY <1>3, <1>4, <1>5, <1>6, NativeShape DEF Next, Server, BindingStep, Runs

-----------------------------------------------------------------------------
(* Types *)

\* Removing one item of a sequence moves those behind it up by one.
LEMMA Removed ==
    ASSUME NEW S, NEW q \in Seq(S), NEW k \in 1 .. Len(q)
    PROVE  /\ RemoveAt(q, k) \in Seq(S) /\ Len(RemoveAt(q, k)) = Len(q) - 1
           /\ \A j \in 1 .. Len(q) - 1 : RemoveAt(q, k)[j] = IF j < k THEN q[j] ELSE q[j + 1]
  <1> DEFINE a == SubSeq(q, 1, k - 1)
             b == SubSeq(q, k + 1, Len(q))
  <1>0. Len(q) \in Nat /\ k \in Nat
    BY LenProperties
  <1>1. /\ a \in Seq(S) /\ Len(a) = k - 1
        /\ \A j \in 1 .. k - 1 : a[j] = q[j]
    BY <1>0, SubSeqProperties
  <1>2. /\ b \in Seq(S) /\ Len(b) = Len(q) - k
        /\ \A j \in 1 .. Len(q) - k : b[j] = q[k + j]
    <2>1. \A j \in 1 .. Len(q) - k : (k + 1) + j - 1 = k + j
      BY <1>0
    <2>2. CASE k < Len(q)
      BY <1>0, <2>1, <2>2, SubSeqProperties
    <2>3. CASE k = Len(q)
      <3>1. b = <<>>
        BY <1>0, <2>3, SubSeqProperties
      <3> QED BY <1>0, <2>3, <3>1
    <2> QED BY <1>0, <2>2, <2>3
  <1> HIDE DEF a, b
  <1>3. /\ a \o b \in Seq(S) /\ Len(a \o b) = Len(a) + Len(b)
        /\ \A j \in 1 .. Len(a) + Len(b) : (a \o b)[j] = IF j <= Len(a) THEN a[j] ELSE b[j - Len(a)]
    BY <1>1, <1>2, ConcatProperties
  <1>4. Len(a) + Len(b) = Len(q) - 1
    BY <1>0, <1>1, <1>2
  <1>5. ASSUME NEW j \in 1 .. Len(q) - 1
        PROVE  (a \o b)[j] = IF j < k THEN q[j] ELSE q[j + 1]
    <2>1. CASE j < k
      <3>1. j \in 1 .. k - 1 /\ j <= Len(a)
        BY <1>0, <1>1, <2>1
      <3> QED BY <1>1, <1>3, <1>4, <2>1, <3>1
    <2>2. CASE ~(j < k)
      <3>1. j - (k - 1) \in 1 .. Len(q) - k /\ ~(j <= k - 1) /\ k + (j - (k - 1)) = j + 1
        BY <1>0, <2>2
      <3>2. (a \o b)[j] = b[j - (k - 1)]
        BY <1>1, <1>3, <1>4, <3>1
      <3> QED BY <1>2, <2>2, <3>1, <3>2
    <2> QED BY <2>1, <2>2
  <1>6. RemoveAt(q, k) = a \o b
    BY DEF RemoveAt, a, b
  <1> QED BY <1>3, <1>4, <1>5, <1>6

\* What is left of a queue when a call lets go of the guard.
LEMMA Unlocked ==
    ASSUME queue \in [Streams -> Seq(Entries)], NEW c \in Calls
    PROVE  /\ Unlock(c) \in [Streams -> Seq(Entries)]
           /\ \A s \in Streams :
                 \/ Unlock(c)[s] = queue[s] /\ \A i \in 1 .. Len(queue[s]) : queue[s][i].c # c
                 \/ \E k \in 1 .. Len(queue[s]) :
                       /\ queue[s][k].c = c /\ Len(Unlock(c)[s]) = Len(queue[s]) - 1
                       /\ \A j \in 1 .. Len(queue[s]) - 1 :
                             Unlock(c)[s][j] = IF j < k THEN queue[s][j] ELSE queue[s][j + 1]
  <1> DEFINE Places(s) == {i \in 1 .. Len(queue[s]) : queue[s][i].c = c}
             u == [s \in Streams |-> IF Places(s) = {} THEN queue[s]
                                     ELSE RemoveAt(queue[s], CHOOSE i \in Places(s) : TRUE)]
  <1>1. Unlock(c) = u
    BY DEF Unlock
  <1>2. ASSUME NEW s \in Streams, Places(s) = {}
        PROVE  u[s] = queue[s] /\ (\A i \in 1 .. Len(queue[s]) : queue[s][i].c # c) /\ u[s] \in Seq(Entries)
    BY <1>2
  <1>3. ASSUME NEW s \in Streams, Places(s) # {}
        PROVE  /\ u[s] \in Seq(Entries)
               /\ \E k \in 1 .. Len(queue[s]) :
                     /\ queue[s][k].c = c /\ Len(u[s]) = Len(queue[s]) - 1
                     /\ \A j \in 1 .. Len(queue[s]) - 1 :
                           u[s][j] = IF j < k THEN queue[s][j] ELSE queue[s][j + 1]
    <2> DEFINE k == CHOOSE i \in Places(s) : TRUE
    <2>1. k \in Places(s)
      BY <1>3
    <2>2. u[s] = RemoveAt(queue[s], k)
      BY <1>3
    <2>3. k \in 1 .. Len(queue[s]) /\ queue[s][k].c = c
      BY <2>1
    <2> HIDE DEF k, u
    <2>4. /\ RemoveAt(queue[s], k) \in Seq(Entries) /\ Len(RemoveAt(queue[s], k)) = Len(queue[s]) - 1
          /\ \A j \in 1 .. Len(queue[s]) - 1 :
                RemoveAt(queue[s], k)[j] = IF j < k THEN queue[s][j] ELSE queue[s][j + 1]
      BY <2>3, Removed
    <2> QED BY <2>2, <2>3, <2>4
  <1>4. \A s \in Streams : u[s] \in Seq(Entries)
    BY <1>2, <1>3
  <1>5. u \in [Streams -> Seq(Entries)]
    <2>1. u = [s \in Streams |-> u[s]]
      OBVIOUS
    <2> HIDE DEF u
    <2> QED BY <1>4, <2>1
  <1> HIDE DEF u
  <1> QED BY <1>1, <1>2, <1>3, <1>5 DEF Places

\* A call that is over and a slot without a stream have the types of calls and streams.
LEMMA IdleTypes ==
    /\ Idle \in CallRecords /\ NoStream \in StreamRecords
    /\ Idle.pc = "idle" /\ Idle.op = "idle" /\ Idle.recs = <<>>
  <1>1. <<>> \in Seq(Int)
    BY EmptySeq
  <1>2. Idle \in CallRecords
    BY <1>1 DEF Idle, CallRecords, Slots, Pcs, Ops
  <1>3. NoStream \in StreamRecords
    BY <1>1 DEF NoStream, StreamRecords, Slots
  <1> QED BY <1>2, <1>3 DEF Idle

-----------------------------------------------------------------------------
(* The steps by what they do to the calls *)

Others(c) == \A d \in Calls : d # c => call'[d] = call[d]

\* The call keeps what it works on and how.
Keeps(c) ==
    /\ Others(c) /\ call'[c].s = call[c].s /\ call'[c].new = call[c].new
    /\ call'[c].hold = call[c].hold /\ call'[c].mode = call[c].mode

\* A call starts to work on a stream.
Joins(c) ==
    /\ Others(c) /\ call[c].pc = "idle" /\ UNCHANGED <<stream, handle, taken, inHeaders>>
    /\ LET k == call'[c] IN
       /\ k.s \in Streams /\ handle[k.s] = "live"
       /\ k.pc = (IF binding = "ffi" THEN "native" ELSE "queued")
       /\ k.op \in Works \/ (k.op = "recreate" /\ k.new \in Streams /\ NewSlot(k.new))
       /\ k.op # "recreate" => k.new = NULL
       /\ k.hold \in {"borrow", "arc", "raw"} /\ (k.hold = "borrow" => k.mode = "sync")
       /\ k.recs = <<>>
       /\ IF binding = "ffi" THEN queue' = queue
          ELSE \E access \in {"r", "w"} :
                  /\ k.op = "close" \/ binding \in {"jni", "node"} => access = "w"
                  /\ queue' = [queue EXCEPT ![k.s] = Append(@, [c |-> c, access |-> access])]

\* A call starts to create a stream.
Creates(c) ==
    /\ Others(c) /\ call[c].pc = "idle" /\ UNCHANGED <<handle, taken, queue, inHeaders>>
    /\ LET k == call'[c] IN
       /\ k.op = "create" /\ k.s = NULL /\ k.hold = "none" /\ k.recs = <<>>
       /\ k.new \in Streams /\ NewSlot(k.new) /\ k.pc \in {"refusing", "headers", "connect"}
       /\ \E v \in {k.new, NULL} : stream' = [stream EXCEPT ![k.new].prov = v]

\* A call goes on to wait for what it ingested, flushed or closes, or to enqueue what it has
\* found the stream open for.
Continues(c) ==
    /\ Keeps(c) /\ call[c].pc = "native" /\ call'[c].pc = "native"
    /\ \/ call[c].op \in {"ingest_wait", "flush"} /\ call'[c].op = "wait"
       \/ call[c].op = "close" /\ call'[c].op = "closing"
       \/ call[c].op \in Ingests /\ call'[c].op = call[c].op /\ stream[call[c].s].st = "open"
    /\ UNCHANGED <<handle, taken, queue, inHeaders>>

\* A call lets go of the guard and queues for it again.
Relocks(c) ==
    /\ Keeps(c) /\ call[c].pc = "native" /\ call'[c].pc = "queued"
    /\ call[c].op = "ingest_relock" /\ call'[c].op = "wait"
    /\ queue' = [Unlock(c) EXCEPT ![call[c].s] = Append(@, [c |-> c, access |-> "w"])]
    /\ UNCHANGED <<handle, taken, inHeaders>>

\* A call gets the guard.
Gets(c) ==
    /\ Acquires(c) /\ Keeps(c) /\ call'[c].pc = "native" /\ call'[c].op = call[c].op
    /\ call'[c].recs = call[c].recs

\* A call takes the stream out.
Grabs(c) ==
    /\ Takes(c) /\ Others(c)
    /\ call'[c].pc = "native" /\ call'[c].hold = "owned" /\ call'[c].op = call[c].op
    /\ call'[c].s = call[c].s /\ call'[c].new = call[c].new

\* A creation gets on.
Proceeds(c) ==
    /\ Keeps(c) /\ call'[c].op = call[c].op
    /\ call'[c].pc \in {"headers", "callback", "connect"}
    /\ \/ /\ Reopens(c)
          /\ call'[c].recs = Unacked(call[c].s) /\ call'[c].late = InHand(call[c].s)
       \/ /\ CallsBack(c) \/ HeadersDone(c)
          /\ call'[c].recs = call[c].recs /\ call'[c].late = call[c].late
    /\ UNCHANGED <<handle, taken, queue, inHeaders>>

\* A call is over, or has its answer; a creation that succeeded has its stream.
Finishes(c) ==
    /\ Others(c) /\ call[c].pc \notin {"idle", "answer"}
    /\ \/ call'[c] = Idle
       \/ /\ call'[c].pc = "answer" /\ call'[c].op = call[c].op /\ call'[c].s = call[c].s
          /\ call'[c].hold = call[c].hold /\ call'[c].new \in {call[c].new, NULL}
          /\ call'[c].late = call[c].late
          /\ call'[c].recs = (IF call[c].pc = "refusing" THEN call[c].recs ELSE <<>>)
          /\ call'[c].res = "ok" /\ call[c].op \in Opened =>
                /\ call[c].pc = "connect" /\ call'[c].new = call[c].new
                /\ stream'[call[c].new].st = "open"
                /\ stream'[call[c].new].log = call[c].recs
    /\ queue' = (IF call[c].pc = "refusing" THEN queue ELSE Unlock(c))
    /\ UNCHANGED <<handle, taken, inHeaders>>

\* The caller has its answer.
Returns(c) == Ends(c) /\ Others(c) /\ call'[c] = Idle

\* Nothing happens to a call or a handle; a supervisor may enter or leave the callback.
Elsewhere ==
    /\ UNCHANGED <<handle, taken, queue, call>>
    /\ \A s \in inHeaders' : s \in inHeaders \/
          (s \in Streams /\ stream[s].st = "open" /\ Exists(s))

Moves ==
    \/ \E c \in Calls :
          \/ Joins(c) \/ Creates(c) \/ Continues(c) \/ Relocks(c) \/ Gets(c) \/ Grabs(c)
          \/ Proceeds(c) \/ Finishes(c) \/ Returns(c)
    \/ \E s \in Streams : FreeHandle(s)
    \/ Elsewhere

\* What the answer leaves of a call, and of the queues.
LEMMA Answered ==
    ASSUME BindingTypes, NEW c \in Calls, NEW res \in {"ok", "err", "refused"}, Answer(c, res)
    PROVE  /\ queue' = Unlock(c) /\ queue' \in [Streams -> Seq(Entries)]
           /\ call' \in [Calls -> CallRecords] /\ Others(c)
           /\ \/ call'[c] = Idle /\ call[c].op \notin Opened
              \/ /\ call'[c].pc = "answer" /\ call'[c].res = res /\ call'[c].op = call[c].op
                 /\ call'[c].s = call[c].s /\ call'[c].new = call[c].new
                 /\ call'[c].hold = call[c].hold /\ call'[c].mode = call[c].mode
                 /\ call'[c].recs = <<>> /\ call'[c].late = call[c].late
  <1>0. call \in [Calls -> CallRecords] /\ queue \in [Streams -> Seq(Entries)] /\ call[c] \in CallRecords
    BY DEF BindingTypes
  <1>3. queue' = Unlock(c) /\ queue' \in [Streams -> Seq(Entries)]
    BY <1>0, Unlocked DEF Answer
  <1> DEFINE r == [call[c] EXCEPT !.pc = "answer", !.res = res, !.off = 0, !.recs = <<>>]
  <1>2. /\ r \in CallRecords
        /\ r.pc = "answer" /\ r.res = res /\ r.op = call[c].op /\ r.s = call[c].s /\ r.new = call[c].new
        /\ r.hold = call[c].hold /\ r.mode = call[c].mode /\ r.recs = <<>> /\ r.late = call[c].late
    <2>1. <<>> \in Seq(Int)
      BY EmptySeq
    <2>2. "answer" \in Pcs /\ res \in {"ok", "err", "refused"} \cup {NULL} /\ 0 \in Int
      BY DEF Pcs
    <2>4. r \in CallRecords
      BY <1>0, <2>1, <2>2 DEF CallRecords
    <2>3. /\ r.pc = "answer" /\ r.res = res /\ r.op = call[c].op /\ r.s = call[c].s
          /\ r.new = call[c].new /\ r.hold = call[c].hold /\ r.mode = call[c].mode
          /\ r.recs = <<>> /\ r.late = call[c].late
      BY <1>0 DEF CallRecords
    <2> QED BY <2>4, <2>3
  <1>4. \/ call' = [call EXCEPT ![c] = Idle] /\ call[c].op \notin Opened
        \/ call' = [call EXCEPT ![c] = r]
    BY <1>0 DEF Answer, Opened
  <1> HIDE DEF r
  <1> QED BY <1>0, <1>2, <1>3, <1>4, IdleTypes DEF Others

\* A step by what it does to the calls: the types of all but the streams, and one of Moves.
Fits == /\ call' \in [Calls -> CallRecords] /\ queue' \in [Streams -> Seq(Entries)]
        /\ handle' \in [Streams -> {"none", "live", "freed", "leaked"}]
        /\ taken' \in [Streams -> BOOLEAN] /\ inHeaders' \in SUBSET Streams
        /\ busy' \in [Streams -> BOOLEAN] /\ given' \in SUBSET Streams
        /\ ingested' \in Int /\ begun' \in Int /\ UNCHANGED layer

\* Every call that starts, and every handle that is freed, is one of Moves.
LEMMA EnterMoves ==
    ASSUME BindingTypes, Enter
    PROVE  Fits /\ Moves
  <1>0. /\ call \in [Calls -> CallRecords] /\ queue \in [Streams -> Seq(Entries)]
        /\ stream \in [Streams -> StreamRecords] /\ begun \in Int /\ ingested \in Int
        /\ handle \in [Streams -> {"none", "live", "freed", "leaked"}]
        /\ taken \in [Streams -> BOOLEAN] /\ inHeaders \in SUBSET Streams
        /\ busy \in [Streams -> BOOLEAN] /\ given \in SUBSET Streams
    BY DEF BindingTypes
  <1>1. ASSUME NEW c \in Calls, Refuse(c) PROVE Fits /\ Moves
    BY <1>0, <1>1 DEF Refuse, layer, Fits, Moves, Elsewhere
  <1>2. ASSUME NEW s \in Streams, FreeHandle(s) PROVE Fits /\ Moves
    BY <1>0, <1>2 DEF FreeHandle, layer, Fits, Moves
  <1>a. ASSUME NEW s \in Streams, NEW c \in Calls, NEW access \in {"r", "w"}
        PROVE  [queue EXCEPT ![s] = Append(@, [c |-> c, access |-> access])] \in [Streams -> Seq(Entries)]
    <2>1. [c |-> c, access |-> access] \in Entries
      BY DEF Entries
    <2>2. Append(queue[s], [c |-> c, access |-> access]) \in Seq(Entries)
      BY <1>0, <2>1, AppendProperties
    <2> QED BY <1>0, <2>2
  <1>b. begun + 1 \in Int
    BY <1>0
  <1>4. ASSUME NEW c \in Calls, NEW s \in Streams, EnterFfi(c, s) PROVE Fits /\ Moves
    <2>1. PICK op \in Works, mode \in Modes, hold \in {"borrow", "arc", "raw"}, off \in Int :
             /\ binding = "ffi" /\ (hold = "borrow" => mode = "sync")
             /\ Start(c, s, op, mode, hold, off)
      BY <1>4 DEF EnterFfi
    <2> DEFINE r == [Idle EXCEPT !.op = op, !.s = s, !.mode = mode, !.hold = hold, !.pc = "native", !.off = off]
    <2>2. r \in CallRecords /\ op \in Ops /\ op # "recreate"
      <3>1. op \in Ops /\ s \in Slots /\ op # "recreate" /\ "native" \in Pcs
        BY DEF Ops, Slots, Pcs, Works
      <3> QED BY <3>1, IdleTypes DEF CallRecords
    <2>3. /\ r.op = op /\ r.s = s /\ r.mode = mode /\ r.hold = hold /\ r.pc = "native" /\ r.new = NULL
          /\ r.recs = <<>>
      BY DEF Idle
    <2>4. /\ call[c].pc = "idle" /\ handle[s] = "live" /\ begun' = begun + 1
          /\ call' = [call EXCEPT ![c] = r]
          /\ UNCHANGED <<layer, given, busy, stream, handle, taken, queue, inHeaders, ingested>>
      BY <2>1 DEF Start, Begin, Free
    <2> HIDE DEF r
    <2>5. call' \in [Calls -> CallRecords] /\ Others(c) /\ call'[c] = r
      BY <1>0, <2>2, <2>4 DEF Others
    <2>6. Joins(c)
      <3> DEFINE k == call'[c]
      <3>1. /\ k.s \in Streams /\ handle[k.s] = "live" /\ k.pc = "native" /\ k.op \in Works
            /\ k.op # "recreate" /\ k.new = NULL /\ k.recs = <<>>
            /\ k.hold \in {"borrow", "arc", "raw"} /\ (k.hold = "borrow" => k.mode = "sync")
        BY <2>1, <2>2, <2>3, <2>4, <2>5
      <3> HIDE DEF k
      <3> QED BY <2>1, <2>4, <2>5, <3>1 DEF Joins, k
    <2> QED BY <1>0, <1>b, <2>4, <2>5, <2>6 DEF Fits, Moves
  <1>5. ASSUME NEW c \in Calls, NEW s \in Streams, EnterGuard(c, s) PROVE Fits /\ Moves
    <2>1. PICK op \in Works, mode \in Modes, hold \in {"borrow", "arc"}, access \in {"r", "w"}, off \in Int :
             /\ binding # "ffi" /\ (hold = "borrow" => mode = "sync")
             /\ op = "close" \/ binding \in {"jni", "node"} => access = "w"
             /\ Lock(c, s, op, mode, hold, access, off)
      BY <1>5 DEF EnterGuard
    <2> DEFINE r == [Idle EXCEPT !.op = op, !.s = s, !.mode = mode, !.hold = hold, !.pc = "queued", !.off = off]
    <2>2. r \in CallRecords /\ op \in Ops /\ op # "recreate"
      <3>1. op \in Ops /\ s \in Slots /\ op # "recreate" /\ "queued" \in Pcs
        BY DEF Ops, Slots, Pcs, Works
      <3> QED BY <3>1, IdleTypes DEF CallRecords
    <2>3. /\ r.op = op /\ r.s = s /\ r.mode = mode /\ r.hold = hold /\ r.pc = "queued" /\ r.new = NULL
          /\ r.recs = <<>>
      BY DEF Idle
    <2>4. /\ call[c].pc = "idle" /\ handle[s] = "live" /\ begun' = begun + 1
          /\ call' = [call EXCEPT ![c] = r]
          /\ queue' = [queue EXCEPT ![s] = Append(@, [c |-> c, access |-> access])]
          /\ UNCHANGED <<layer, given, busy, stream, handle, taken, inHeaders, ingested>>
      BY <2>1 DEF Lock, Begin, Free
    <2> HIDE DEF r
    <2>5. call' \in [Calls -> CallRecords] /\ Others(c) /\ call'[c] = r
      BY <1>0, <2>2, <2>4 DEF Others
    <2>6. Joins(c)
      <3> DEFINE k == call'[c]
      <3>1. /\ k.s = s /\ handle[k.s] = "live" /\ k.pc = "queued" /\ k.op \in Works
            /\ k.op # "recreate" /\ k.new = NULL /\ k.recs = <<>>
            /\ k.hold \in {"borrow", "arc", "raw"} /\ (k.hold = "borrow" => k.mode = "sync")
            /\ k.op = "close" \/ binding \in {"jni", "node"} => access = "w"
        BY <2>1, <2>2, <2>3, <2>4, <2>5
      <3> HIDE DEF k
      <3> QED BY <2>1, <2>4, <2>5, <3>1 DEF Joins, k
    <2>7. queue' \in [Streams -> Seq(Entries)]
      BY <1>a, <2>4
    <2> QED BY <1>0, <1>b, <2>4, <2>5, <2>6, <2>7 DEF Fits, Moves
  <1>6. ASSUME NEW c \in Calls, NEW s \in Streams, EnterCreate(c, s) PROVE Fits /\ Moves
    <2>1. PICK mode \in Modes, custom \in BOOLEAN, valid \in BOOLEAN : Create(c, s, mode, custom, valid)
      BY <1>6 DEF EnterCreate
    <2> DEFINE pc == IF ~valid THEN "refusing" ELSE IF custom THEN "headers" ELSE "connect"
               v == IF custom THEN s ELSE NULL
               r == [Idle EXCEPT !.op = "create", !.new = s, !.mode = mode, !.pc = pc]
    <2>2. pc \in {"refusing", "headers", "connect"} /\ v \in {s, NULL}
      OBVIOUS
    <2>3. /\ stream' = [stream EXCEPT ![s].prov = v]
          /\ call' = [call EXCEPT ![c] = r] /\ call[c].pc = "idle" /\ NewSlot(s)
          /\ begun' = begun + 1 /\ given' \in {given, given \cup {s}}
          /\ UNCHANGED <<layer, busy, handle, taken, queue, inHeaders, ingested>>
      BY <2>1 DEF Create, Begin, Free
    <2> HIDE DEF pc, v
    <2>4. r \in CallRecords
      <3>1. "create" \in Ops /\ s \in Slots /\ pc \in Pcs
        BY <2>2 DEF Ops, Opened, Slots, Pcs
      <3> QED BY <3>1, IdleTypes DEF CallRecords
    <2>5. /\ r.op = "create" /\ r.new = s /\ r.pc = pc /\ r.s = NULL /\ r.hold = "none"
          /\ r.recs = <<>>
      BY DEF Idle
    <2> HIDE DEF r
    <2>6. call' \in [Calls -> CallRecords] /\ Others(c) /\ call'[c] = r
      BY <1>0, <2>3, <2>4 DEF Others
    <2>7. Creates(c)
      BY <2>2, <2>3, <2>5, <2>6 DEF Creates, layer
    <2> QED BY <1>0, <1>b, <2>3, <2>6, <2>7 DEF Fits, Moves
  <1>7. ASSUME NEW c \in Calls, NEW s \in Streams, NEW new \in Streams, EnterRecreate(c, s, new)
        PROVE  Fits /\ Moves
    <2>1. PICK mode \in Modes, hold \in {"borrow", "arc"}, access \in {"none", "r", "w"} :
             /\ access = "none" <=> binding = "ffi"
             /\ hold = "borrow" => mode = "sync"
             /\ binding \in {"jni", "node"} => access = "w"
             /\ Recreate(c, s, new, mode, hold, access)
      BY <1>7 DEF EnterRecreate
    <2> DEFINE pc == IF access = "none" THEN "native" ELSE "queued"
               r == [Idle EXCEPT !.op = "recreate", !.s = s, !.new = new,
                                 !.mode = mode, !.hold = hold, !.pc = pc]
    <2>2. pc = IF binding = "ffi" THEN "native" ELSE "queued"
      BY <2>1
    <2>3. /\ call' = [call EXCEPT ![c] = r] /\ handle[s] = "live" /\ NewSlot(new) /\ call[c].pc = "idle"
          /\ begun' = begun + 1
          /\ UNCHANGED <<layer, given, busy, stream, handle, taken, inHeaders, ingested>>
          /\ queue' = IF access = "none" THEN queue
                      ELSE [queue EXCEPT ![s] = Append(@, [c |-> c, access |-> access])]
      BY <2>1 DEF Recreate, Begin, Free
    <2> HIDE DEF pc
    <2>4. r \in CallRecords
      <3>1. "recreate" \in Ops /\ s \in Slots /\ new \in Slots /\ pc \in Pcs
        BY <2>2 DEF Ops, Opened, Slots, Pcs
      <3> QED BY <3>1, IdleTypes DEF CallRecords
    <2>5. /\ r.op = "recreate" /\ r.s = s /\ r.new = new /\ r.pc = pc /\ r.hold = hold /\ r.mode = mode
          /\ r.recs = <<>>
      BY DEF Idle
    <2> HIDE DEF r
    <2>6. call' \in [Calls -> CallRecords] /\ Others(c) /\ call'[c] = r
      BY <1>0, <2>3, <2>4 DEF Others
    <2>7. queue' \in [Streams -> Seq(Entries)]
      BY <1>0, <1>a, <2>3
    <2>8. IF binding = "ffi" THEN queue' = queue
          ELSE \E a \in {"r", "w"} :
                  /\ binding \in {"jni", "node"} => a = "w"
                  /\ queue' = [queue EXCEPT ![s] = Append(@, [c |-> c, access |-> a])]
      BY <2>1, <2>3
    <2>9. Joins(c)
      BY <2>1, <2>2, <2>3, <2>5, <2>6, <2>8 DEF Joins, layer
    <2> QED BY <1>0, <1>b, <2>3, <2>6, <2>7, <2>9 DEF Fits, Moves
  <1> QED BY <1>1, <1>2, <1>4, <1>5, <1>6, <1>7 DEF Enter

\* Every step of a call that runs, of a supervisor and of the server is one of Moves.
LEMMA RunsMoves ==
    ASSUME BindingTypes, SlotInv, Runs
    PROVE  Fits /\ Moves
  <1>0. /\ call \in [Calls -> CallRecords] /\ queue \in [Streams -> Seq(Entries)]
        /\ stream \in [Streams -> StreamRecords] /\ begun \in Int /\ ingested \in Int
        /\ handle \in [Streams -> {"none", "live", "freed", "leaked"}]
        /\ taken \in [Streams -> BOOLEAN] /\ inHeaders \in SUBSET Streams
        /\ busy \in [Streams -> BOOLEAN] /\ given \in SUBSET Streams
    BY DEF BindingTypes
  <1>r. ASSUME NEW c \in Calls PROVE call[c] \in CallRecords
    BY <1>0
  <1>l. \A s \in Streams : Len(stream[s].log) \in Int /\ Len(stream[s].log) + 1 \in Int
    <2> SUFFICES ASSUME NEW s \in Streams PROVE Len(stream[s].log) \in Int /\ Len(stream[s].log) + 1 \in Int
      OBVIOUS
    <2>1. stream[s].log \in Seq(Int)
      BY <1>0 DEF StreamRecords
    <2>2. Len(stream[s].log) \in Nat
      BY <2>1, LenProperties
    <2> QED BY <2>2
  <1>a. ASSUME NEW c \in Calls, NEW res \in {"ok", "err", "refused"}, Answer(c, res),
               call[c].pc \notin {"idle", "answer", "refusing"}, UNCHANGED <<handle, taken, inHeaders>>,
               res = "ok" /\ call[c].op \in Opened =>
                  /\ call[c].pc = "connect" /\ stream'[call[c].new].st = "open"
                  /\ stream'[call[c].new].log = call[c].recs
        PROVE  Finishes(c) /\ call' \in [Calls -> CallRecords] /\ queue' \in [Streams -> Seq(Entries)]
    BY <1>a, Answered DEF Finishes
  <1>1. ASSUME NEW c \in Calls, Quits(c) PROVE Fits /\ Moves
    <2>1. PICK res \in {"ok", "err", "refused"} :
             (res = "ok" => call[c].op \notin Opened) /\ Answer(c, res)
      BY <1>1 DEF Quits
    <2>2. call[c].pc \notin {"idle", "answer", "refusing"} /\ UNCHANGED <<layer, given, busy, handle, taken, inHeaders, begun, ingested>>
      BY <1>1 DEF Quits, Rest
    <2>3. Finishes(c) /\ call' \in [Calls -> CallRecords] /\ queue' \in [Streams -> Seq(Entries)]
      BY <1>a, <2>1, <2>2
    <2> QED BY <1>0, <2>2, <2>3 DEF Fits, Moves
  <1>e. <<>> \in Seq(Int) /\ <<ingested + 1>> \in Seq(Int)
    <2>1. ingested + 1 \in Int
      BY <1>0
    <2> QED BY <2>1, EmptySeq
  <1>c. ASSUME NEW c \in Calls, Checks(c) PROVE Fits /\ Moves
    <2>0. /\ call[c].pc = "native" /\ UNCHANGED <<layer, given, busy, handle, taken, inHeaders, begun, queue>>
          /\ ingested' = ingested + 1 /\ call[c].op \in Ingests /\ stream[call[c].s].st = "open"
      BY <1>c DEF Checks, Rest
    <2>i. ingested' \in Int
      BY <1>0, <2>0
    <2> DEFINE r == [call[c] EXCEPT !.recs = <<ingested + 1>>]
    <2>1. r \in CallRecords
      BY <1>r, <1>e DEF CallRecords
    <2>2. /\ r.pc = call[c].pc /\ r.op = call[c].op /\ r.s = call[c].s /\ r.new = call[c].new
          /\ r.hold = call[c].hold /\ r.mode = call[c].mode
      BY <1>r DEF CallRecords
    <2>3. call' = [call EXCEPT ![c] = r]
      BY <1>0, <1>c DEF Checks
    <2> HIDE DEF r
    <2>4. call' \in [Calls -> CallRecords] /\ Others(c) /\ call'[c] = r
      BY <1>0, <2>1, <2>3 DEF Others
    <2>5. Continues(c)
      BY <2>0, <2>2, <2>4 DEF Continues, Keeps
    <2> QED BY <1>0, <2>0, <2>i, <2>4, <2>5 DEF Fits, Moves
  <1>2. ASSUME NEW c \in Calls, Accepts(c) PROVE Fits /\ Moves
    <2>0. /\ call[c].pc = "native" /\ UNCHANGED <<layer, given, busy, handle, taken, inHeaders, begun, ingested>>
          /\ call[c].s \in Streams
      BY <1>2 DEF Accepts, Rest, SlotInv
    <2>i. ingested' \in Int /\ Len(stream[call[c].s].log) + 1 \in Int
      BY <1>0, <1>l, <2>0
    <2>1. CASE call[c].op = "ingest" /\ Answer(c, "ok")
      <3>1. Finishes(c) /\ call' \in [Calls -> CallRecords] /\ queue' \in [Streams -> Seq(Entries)]
        BY <1>a, <2>0, <2>1 DEF Opened
      <3> QED BY <1>0, <2>0, <2>i, <3>1 DEF Fits, Moves
    <2>2. CASE /\ call[c].op = "ingest_wait" /\ UNCHANGED queue
               /\ call' = [call EXCEPT ![c].op = "wait", ![c].recs = <<>>,
                                       ![c].off = Len(stream[call[c].s].log) + 1]
      <3> DEFINE r == [call[c] EXCEPT !.op = "wait", !.recs = <<>>, !.off = Len(stream[call[c].s].log) + 1]
      <3>1. r \in CallRecords
        BY ZenonT(60), <1>r, <1>e, <2>i DEF CallRecords, Ops, Works
      <3>2. /\ r.pc = call[c].pc /\ r.op = "wait" /\ r.s = call[c].s /\ r.new = call[c].new
            /\ r.hold = call[c].hold /\ r.mode = call[c].mode
        BY <1>r DEF CallRecords
      <3>3. call' = [call EXCEPT ![c] = r]
        BY <1>0, <2>2
      <3> HIDE DEF r
      <3>4. call' \in [Calls -> CallRecords] /\ Others(c) /\ call'[c] = r
        BY <1>0, <3>1, <3>3 DEF Others
      <3>5. Continues(c)
        BY <2>0, <2>2, <3>2, <3>4 DEF Continues, Keeps
      <3> QED BY <1>0, <2>0, <2>i, <2>2, <3>4, <3>5 DEF Fits, Moves
    <2>3. CASE /\ call[c].op = "ingest_relock"
               /\ call' = [call EXCEPT ![c].op = "wait", ![c].pc = "queued", ![c].recs = <<>>,
                                       ![c].off = Len(stream[call[c].s].log) + 1]
               /\ queue' = [Unlock(c) EXCEPT ![call[c].s] = Append(@, [c |-> c, access |-> "w"])]
      <3> DEFINE r == [call[c] EXCEPT !.op = "wait", !.pc = "queued", !.recs = <<>>,
                                      !.off = Len(stream[call[c].s].log) + 1]
      <3>1. r \in CallRecords
        <4>1. "wait" \in Ops /\ "queued" \in Pcs
          BY DEF Ops, Works, Pcs
        <4> QED BY <1>r, <1>e, <2>i, <4>1 DEF CallRecords
      <3>2. /\ r.pc = "queued" /\ r.op = "wait" /\ r.s = call[c].s /\ r.new = call[c].new
            /\ r.hold = call[c].hold /\ r.mode = call[c].mode
        BY <1>r DEF CallRecords
      <3>3. call' = [call EXCEPT ![c] = r]
        BY <1>0, <2>3
      <3> HIDE DEF r
      <3>4. call' \in [Calls -> CallRecords] /\ Others(c) /\ call'[c] = r
        BY <1>0, <3>1, <3>3 DEF Others
      <3>5. Relocks(c)
        BY <2>0, <2>3, <3>2, <3>4 DEF Relocks, Keeps
      <3>6. queue' \in [Streams -> Seq(Entries)]
        <4>1. Unlock(c) \in [Streams -> Seq(Entries)]
          BY <1>0, Unlocked
        <4>2. [c |-> c, access |-> "w"] \in Entries
          BY DEF Entries
        <4>3. Append(Unlock(c)[call[c].s], [c |-> c, access |-> "w"]) \in Seq(Entries)
          BY <2>0, <4>1, <4>2, AppendProperties
        <4> QED BY <2>0, <2>3, <4>1, <4>3
      <3> QED BY <1>0, <2>0, <2>i, <3>4, <3>5, <3>6 DEF Fits, Moves
    <2> QED BY <1>2, <2>1, <2>2, <2>3 DEF Accepts
  <1>3. ASSUME NEW c \in Calls, GoesOn(c) PROVE Fits /\ Moves
    <2>0. /\ call[c].pc = "native" /\ UNCHANGED <<layer, given, busy, handle, taken, inHeaders, begun, ingested, queue>>
          /\ call[c].s \in Streams
      BY <1>3 DEF GoesOn, Rest, SlotInv
    <2>1. PICK op \in {"wait", "closing"} :
             /\ call' = [call EXCEPT ![c].op = op, ![c].off = Len(stream[call[c].s].log)]
             /\ call[c].op = IF op = "wait" THEN "flush" ELSE "close"
      BY <1>3 DEF GoesOn
    <2> DEFINE r == [call[c] EXCEPT !.op = op, !.off = Len(stream[call[c].s].log)]
    <2>2. r \in CallRecords
      BY ZenonT(60), <1>r, <1>l, <2>0 DEF CallRecords, Ops, Works
    <2>3. /\ r.pc = call[c].pc /\ r.op = op /\ r.s = call[c].s /\ r.new = call[c].new
          /\ r.hold = call[c].hold /\ r.mode = call[c].mode
      BY <1>r DEF CallRecords
    <2>4. call' = [call EXCEPT ![c] = r]
      BY <1>0, <2>1
    <2> HIDE DEF r
    <2>5. call' \in [Calls -> CallRecords] /\ Others(c) /\ call'[c] = r
      BY <1>0, <2>2, <2>4 DEF Others
    <2>6. Continues(c)
      BY <2>0, <2>1, <2>3, <2>5 DEF Continues, Keeps
    <2> QED BY <1>0, <2>0, <2>5, <2>6 DEF Fits, Moves
  <1>4. ASSUME NEW c \in Calls, NativeCloseEnd(c) PROVE Fits /\ Moves
    <2>1. PICK res \in {"ok", "err"} : Answer(c, res)
      BY <1>4 DEF NativeCloseEnd
    <2>2. /\ call[c].pc = "native" /\ call[c].op = "closing"
          /\ UNCHANGED <<layer, given, busy, handle, taken, inHeaders, begun, ingested>>
      BY <1>4 DEF NativeCloseEnd, Native, Rest
    <2>3. Finishes(c) /\ call' \in [Calls -> CallRecords] /\ queue' \in [Streams -> Seq(Entries)]
      BY <1>a, <2>1, <2>2 DEF Opened
    <2> QED BY <1>0, <2>2, <2>3 DEF Fits, Moves
  <1>5. ASSUME NEW c \in Calls, Reopens(c) PROVE Fits /\ Moves
    <2>0. /\ call[c].pc = "native" /\ UNCHANGED <<layer, given, busy, handle, taken, inHeaders, begun, ingested, queue>>
          /\ call[c].s \in Streams
      BY <1>5 DEF Reopens, Native, Rest, SlotInv
    <2>1. PICK pc \in {"headers", "connect"} :
             call' = [call EXCEPT ![c].recs = Unacked(call[c].s), ![c].late = InHand(call[c].s),
                                  ![c].pc = pc]
      BY <1>5 DEF Reopens
    <2>u. Unacked(call[c].s) \in Seq(Int)
      <3> DEFINE log == stream[call[c].s].log
                 n == stream[call[c].s].acked
      <3>1. log \in Seq(Int) /\ n \in Nat
        BY <1>0, <2>0 DEF StreamRecords
      <3>2. Unacked(call[c].s) = SubSeq(log, n + 1, Len(log))
        BY DEF Unacked
      <3> HIDE DEF log, n
      <3>3. Len(log) \in Nat /\ n + 1 \in Int /\ \A i \in n + 1 .. Len(log) : log[i] \in Int
        BY <3>1, LenProperties
      <3> QED BY <3>2, <3>3, SubSeqProperties
    <2>h. InHand(call[c].s) \in SUBSET Int
      <3>1. \A d \in Calls : ToSet(call[d].recs) \subseteq Int
        BY <1>r, ItemAt DEF CallRecords
      <3> QED BY <3>1 DEF InHand
    <2> DEFINE r == [call[c] EXCEPT !.recs = Unacked(call[c].s), !.late = InHand(call[c].s), !.pc = pc]
    <2>2. r \in CallRecords
      BY <1>r, <2>u, <2>h DEF CallRecords, Pcs
    <2>3. /\ r.pc = pc /\ r.op = call[c].op /\ r.s = call[c].s /\ r.new = call[c].new
          /\ r.hold = call[c].hold /\ r.mode = call[c].mode /\ r.recs = Unacked(call[c].s)
          /\ r.late = InHand(call[c].s)
      BY <1>r DEF CallRecords
    <2>4. call' = [call EXCEPT ![c] = r]
      BY <1>0, <2>1
    <2> HIDE DEF r
    <2>5. call' \in [Calls -> CallRecords] /\ Others(c) /\ call'[c] = r
      BY <1>0, <2>2, <2>4 DEF Others
    <2>6. Proceeds(c)
      BY <1>5, <2>0, <2>1, <2>3, <2>5 DEF Proceeds, Keeps
    <2> QED BY <1>0, <2>0, <2>5, <2>6 DEF Fits, Moves
  <1>6. ASSUME NEW c \in Calls, Connect(c) PROVE Fits /\ Moves
    <2>0. /\ call[c].pc = "connect" /\ UNCHANGED <<layer, given, busy, handle, taken, inHeaders, begun, ingested>>
          /\ call[c].new \in Streams
      BY <1>6 DEF Connect, Rest, SlotInv, Creating
    <2>1. CASE /\ stream' = [stream EXCEPT ![call[c].new].st = "open", ![call[c].new].log = call[c].recs]
               /\ Answer(c, "ok")
      <3>1. stream'[call[c].new].st = "open" /\ stream'[call[c].new].log = call[c].recs
        BY <1>0, <2>0, <2>1 DEF StreamRecords
      <3>2. Finishes(c) /\ call' \in [Calls -> CallRecords] /\ queue' \in [Streams -> Seq(Entries)]
        BY <1>a, <2>0, <2>1, <3>1
      <3> QED BY <1>0, <2>0, <3>2 DEF Fits, Moves
    <2>2. CASE Answer(c, "err")
      <3>2. Finishes(c) /\ call' \in [Calls -> CallRecords] /\ queue' \in [Streams -> Seq(Entries)]
        BY <1>a, <2>0, <2>2
      <3> QED BY <1>0, <2>0, <3>2 DEF Fits, Moves
    <2> QED BY <1>6, <2>1, <2>2 DEF Connect
  <1>7. ASSUME NEW c \in Calls, CreateRefused(c) PROVE Fits /\ Moves
    <2>0. /\ call[c].pc = "refusing" /\ UNCHANGED <<layer, given, busy, handle, taken, queue, inHeaders, begun, ingested>>
          /\ call' = [call EXCEPT ![c].pc = "answer", ![c].res = "refused", ![c].new = NULL, ![c].mode = "sync"]
      BY <1>7 DEF CreateRefused
    <2> DEFINE r == [call[c] EXCEPT !.pc = "answer", !.res = "refused", !.new = NULL, !.mode = "sync"]
    <2>1. r \in CallRecords
      <3>1. "answer" \in Pcs /\ "refused" \in {"ok", "err", "refused"} \cup {NULL} /\ NULL \in Slots
            /\ "sync" \in Modes \cup {NULL}
        BY DEF Pcs, Slots, Modes
      <3> QED BY <1>r, <3>1 DEF CallRecords
    <2>2. r.pc = "answer" /\ r.op = call[c].op /\ r.s = call[c].s /\ r.new = NULL /\ r.hold = call[c].hold
          /\ r.res = "refused" /\ r.recs = call[c].recs /\ r.late = call[c].late
      BY <1>r DEF CallRecords
    <2>3. call' = [call EXCEPT ![c] = r]
      BY <1>0, <2>0
    <2> HIDE DEF r
    <2>4. call' \in [Calls -> CallRecords] /\ Others(c) /\ call'[c] = r
      BY <1>0, <2>1, <2>3 DEF Others
    <2>5. Finishes(c)
      BY <2>0, <2>2, <2>4 DEF Finishes
    <2> QED BY <1>0, <2>0, <2>4, <2>5 DEF Fits, Moves
  <1>8. ASSUME NEW c \in Calls, NEW pc \in Pcs, call' = [call EXCEPT ![c].pc = pc]
        PROVE  /\ call' \in [Calls -> CallRecords] /\ Keeps(c) /\ call'[c].pc = pc
               /\ call'[c].op = call[c].op /\ call'[c].recs = call[c].recs
               /\ call'[c].late = call[c].late
    <2> DEFINE r == [call[c] EXCEPT !.pc = pc]
    <2>1. r \in CallRecords
      BY <1>r DEF CallRecords
    <2>2. r.pc = pc /\ r.op = call[c].op /\ r.s = call[c].s /\ r.new = call[c].new /\ r.hold = call[c].hold
          /\ r.recs = call[c].recs /\ r.mode = call[c].mode /\ r.late = call[c].late
      BY <1>r DEF CallRecords
    <2>3. call' = [call EXCEPT ![c] = r]
      BY <1>0, <1>8
    <2> HIDE DEF r
    <2>4. call' \in [Calls -> CallRecords] /\ Others(c) /\ call'[c] = r
      BY <1>0, <2>1, <2>3 DEF Others
    <2> QED BY <2>2, <2>4 DEF Keeps
  <1>p. {"native", "callback", "connect"} \subseteq Pcs
    BY DEF Pcs
  <1>9. ASSUME NEW c \in Calls, Acquires(c) PROVE Fits /\ Moves
    <2>0. /\ UNCHANGED <<layer, given, busy, handle, taken, queue, inHeaders, begun, ingested>>
          /\ call' = [call EXCEPT ![c].pc = "native"]
      BY <1>9 DEF Acquires, Acquire
    <2>1. call' \in [Calls -> CallRecords] /\ Gets(c)
      BY <1>8, <1>9, <1>p, <2>0 DEF Gets
    <2> QED BY <1>0, <2>0, <2>1 DEF Fits, Moves
  <1>10. ASSUME NEW c \in Calls, Takes(c) PROVE Fits /\ Moves
    <2>0. /\ UNCHANGED <<layer, given, busy, stream, handle, inHeaders, begun, ingested>> /\ call[c].s \in Streams
          /\ taken' = [taken EXCEPT ![call[c].s] = TRUE] /\ queue' \in {queue, Unlock(c)}
      BY <1>10 DEF Takes, SlotInv
    <2>1. PICK mode \in {call[c].mode, "async"} :
             call' = [call EXCEPT ![c].pc = "native", ![c].hold = "owned", ![c].mode = mode]
      <3>1. CASE call' = [call EXCEPT ![c].pc = "native", ![c].hold = "owned"]
        <4>1. call[c] = [call[c] EXCEPT !.mode = call[c].mode]
          BY <1>r DEF CallRecords
        <4>2. [call[c] EXCEPT !.pc = "native", !.hold = "owned"]
                = [call[c] EXCEPT !.pc = "native", !.hold = "owned", !.mode = call[c].mode]
          BY <1>r DEF CallRecords
        <4>3. call' = [call EXCEPT ![c].pc = "native", ![c].hold = "owned", ![c].mode = call[c].mode]
          BY <1>0, <3>1, <4>2
        <4> QED BY <4>3
      <3> QED BY <1>10, <3>1 DEF Takes
    <2> DEFINE r == [call[c] EXCEPT !.pc = "native", !.hold = "owned", !.mode = mode]
    <2>2. r \in CallRecords
      <3>1. mode \in Modes \cup {NULL} /\ "native" \in Pcs
        BY <1>r DEF CallRecords, Modes, Pcs
      <3> QED BY <1>r, <3>1 DEF CallRecords
    <2>3. r.pc = "native" /\ r.op = call[c].op /\ r.s = call[c].s /\ r.new = call[c].new /\ r.hold = "owned"
      BY <1>r DEF CallRecords
    <2>4. call' = [call EXCEPT ![c] = r]
      BY <1>0, <2>1
    <2> HIDE DEF r
    <2>5. call' \in [Calls -> CallRecords] /\ Others(c) /\ call'[c] = r
      BY <1>0, <2>2, <2>4 DEF Others
    <2>6. Grabs(c)
      BY <1>10, <2>3, <2>5 DEF Grabs
    <2>7. queue' \in [Streams -> Seq(Entries)]
      BY <1>0, <2>0, Unlocked
    <2>8. taken' \in [Streams -> BOOLEAN]
      BY <1>0, <2>0
    <2> QED BY <1>0, <2>0, <2>5, <2>6, <2>7, <2>8 DEF Fits, Moves
  <1>b. ASSUME NEW c \in Calls, GivesBack(c) PROVE busy' \in [Streams -> BOOLEAN]
    BY <1>0, <1>b DEF GivesBack
  <1>z. ASSUME NEW q, Seizes(q) PROVE busy' \in [Streams -> BOOLEAN]
    BY <1>0, <1>z DEF Seizes
  <1>11. ASSUME NEW c \in Calls, GivesUp(c) PROVE Fits /\ Moves
    <2>0. /\ call[c].pc \in {"headers", "callback"} /\ Answer(c, "err")
          /\ UNCHANGED <<layer, given, handle, taken, inHeaders, begun, ingested>>
          /\ UNCHANGED busy \/ GivesBack(c)
      BY <1>11 DEF GivesUp, CreateFails
    <2>1. Finishes(c) /\ call' \in [Calls -> CallRecords] /\ queue' \in [Streams -> Seq(Entries)]
      BY <1>a, <2>0
    <2> QED BY <1>0, <1>b, <2>0, <2>1 DEF Fits, Moves
  <1>12. ASSUME NEW c \in Calls, CallsBack(c) \/ HeadersDone(c) PROVE Fits /\ Moves
    <2>0. PICK pc \in {"callback", "connect"} : call' = [call EXCEPT ![c].pc = pc]
      BY <1>12 DEF CallsBack, CreateHeaders, HeadersDone
    <2>1. /\ UNCHANGED <<layer, given, handle, taken, queue, inHeaders, begun, ingested>>
          /\ busy' \in [Streams -> BOOLEAN]
      BY <1>b, <1>z, <1>12 DEF CallsBack, CreateHeaders, HeadersDone
    <2>2. call' \in [Calls -> CallRecords] /\ Proceeds(c)
      BY <1>8, <1>12, <1>p, <2>0, <2>1 DEF Proceeds
    <2> QED BY <1>0, <2>1, <2>2 DEF Fits, Moves
  <1>13. ASSUME NEW c \in Calls, call' = [call EXCEPT ![c] = Idle]
         PROVE  call' \in [Calls -> CallRecords] /\ Others(c) /\ call'[c] = Idle
    BY <1>0, <1>13, IdleTypes DEF Others
  <1>14. ASSUME NEW c \in Calls, Ends(c) PROVE Fits /\ Moves
    <2>0. /\ call' = [call EXCEPT ![c] = Idle]
          /\ UNCHANGED <<layer, given, busy, stream, taken, queue, inHeaders, begun, ingested>>
      BY <1>14 DEF Ends
    <2>1. handle' \in [Streams -> {"none", "live", "freed", "leaked"}]
      <3>1. CASE ~Created(c)
        BY <1>0, <1>14, <3>1 DEF Ends
      <3>2. CASE Created(c)
        BY <1>0, <1>14, <3>2 DEF Ends
      <3> QED BY <3>1, <3>2
    <2> QED BY <1>0, <1>13, <1>14, <2>0, <2>1 DEF Fits, Moves, Returns
  <1>15. ASSUME NEW c \in Calls, aio_cancel(c) PROVE Fits /\ Moves
    <2>0. /\ call' = [call EXCEPT ![c] = Idle] /\ queue' = Unlock(c)
          /\ call[c].pc \in {"queued", "native", "headers", "connect"}
          /\ UNCHANGED <<layer, given, busy, handle, taken, inHeaders, begun, ingested>>
      BY <1>15 DEF aio_cancel
    <2>1. Finishes(c) /\ call' \in [Calls -> CallRecords] /\ queue' \in [Streams -> Seq(Entries)]
      BY <1>0, <1>13, <2>0, Unlocked DEF Finishes
    <2> QED BY <1>0, <2>0, <2>1 DEF Fits, Moves
  <1>16. ASSUME NEW s \in Streams, ServerAck(s) \/ StreamFails(s) PROVE Fits /\ Moves
    <2>0. UNCHANGED <<layer, given, busy, handle, taken, queue, call, inHeaders, ingested, begun>>
      BY <1>16 DEF ServerAck, StreamFails
    <2> QED BY <1>0, <2>0 DEF Fits, Moves, Elsewhere, layer
  <1>17. ASSUME NEW s \in Streams, SupervisorCallsBack(s) PROVE Fits /\ Moves
    <2>0. /\ UNCHANGED <<layer, given, handle, taken, queue, call, ingested, begun>>
          /\ inHeaders' = inHeaders \cup {s} /\ stream[s].st = "open" /\ Exists(s)
          /\ busy' \in [Streams -> BOOLEAN]
      BY <1>z, <1>17 DEF SupervisorCallsBack, SupervisorHeaders
    <2> QED BY <1>0, <2>0 DEF Fits, Moves, Elsewhere, layer
  <1>18. ASSUME NEW s \in Streams, SupervisorHeadersReturn(s) PROVE Fits /\ Moves
    <2>0. /\ UNCHANGED <<layer, given, handle, taken, queue, call, ingested, begun>>
          /\ inHeaders' = inHeaders \ {s} /\ busy' = [busy EXCEPT ![stream[s].prov] = FALSE]
      BY <1>18 DEF SupervisorHeadersReturn
    <2>1. busy' \in [Streams -> BOOLEAN]
      BY <1>0, <2>0
    <2> QED BY <1>0, <2>0, <2>1 DEF Fits, Moves, Elsewhere, layer
  <1> QED BY <1>1, <1>c, <1>2, <1>3, <1>4, <1>5, <1>6, <1>7, <1>9, <1>10, <1>11, <1>12, <1>14, <1>15,
            <1>16, <1>17, <1>18 DEF Runs

-----------------------------------------------------------------------------
(* The steps by what they do to the streams *)

\* The records of a stream that are not acknowledged.  Who gives slot s the provider v.
\* A stream that exists keeps its provider and its records, and one that has ended gets at
\* most what was in hand for it; a slot gets its stream from the creation that has it; a
\* provider is new, or that of the stream that is recreated, or let go of.
Pending(r) == SubSeq(r.log, r.acked + 1, Len(r.log))

Provides(c, s, v) ==
    /\ s \in {call[c].new, call'[c].new} /\ call'[c].pc # "callback"
    /\ \/ v = NULL
       \/ /\ v = s /\ freed[s] = 0 /\ s \in given' /\ call'[c].new = s
          /\ call'[c].pc \in {"refusing", "headers", "connect"}
       \/ /\ Native(c, "recreate") /\ call[c].new = s /\ call'[c].new = s
          /\ call'[c].pc \in {"headers", "connect"} /\ v = stream[call[c].s].prov

Gentle(s) ==
    /\ stream[s].st # "none" =>
          /\ stream'[s].st # "none" /\ stream'[s].prov = stream[s].prov
          /\ ToSet(stream[s].log) \subseteq ToSet(stream'[s].log)
          /\ stream[s].st # "open" =>
                /\ stream'[s].st # "open"
                /\ ToSet(Pending(stream'[s])) \subseteq
                     ToSet(Pending(stream[s])) \cup (IF arrow THEN {} ELSE InHand(s))
    /\ stream[s].st = "none" /\ stream'[s].st # "none" =>
          /\ stream'[s].prov = stream[s].prov
          /\ \E c \in Calls : /\ call[c].pc = "connect" /\ call[c].new = s
                              /\ call'[c].pc \in {"idle", "answer"}
    /\ stream'[s].prov = stream[s].prov \/ \E c \in Calls : Provides(c, s, stream'[s].prov)

\* What is left of a sequence behind its first items, when another is appended.
LEMMA ConcatRest ==
    ASSUME NEW S, NEW q \in Seq(S), NEW x \in Seq(S), NEW a \in Nat
    PROVE  ToSet(SubSeq(q \o x, a + 1, Len(q \o x))) \subseteq ToSet(SubSeq(q, a + 1, Len(q))) \cup ToSet(x)
  <1> DEFINE u == q \o x
             m == Len(q)
             n == Len(x)
             A == SubSeq(u, a + 1, Len(u))
             B == SubSeq(q, a + 1, m)
  <1>1. /\ u \in Seq(S) /\ Len(u) = m + n /\ m \in Nat /\ n \in Nat
        /\ \A i \in 1 .. m + n : u[i] = IF i <= m THEN q[i] ELSE x[i - m]
    BY ConcatProperties, LenProperties
  <1> HIDE DEF u, m, n
  <1>2. /\ A \in Seq(S) /\ ToSet(A) = {A[i] : i \in 1 .. Len(A)}
        /\ Len(A) = IF a + 1 <= m + n THEN m + n - a ELSE 0
        /\ \A i \in 1 .. Len(A) : A[i] = u[a + i]
    <2>1. Len(u) \in Nat /\ a + 1 \in Int /\ \A i \in a + 1 .. Len(u) : u[i] \in S
      BY <1>1, ElementOfSeq
    <2>2. A \in Seq(S) /\ Len(A) = IF a + 1 <= m + n THEN m + n - a ELSE 0
      BY <1>1, <2>1, SubSeqProperties
    <2>3. \A i \in 1 .. m + n - a : A[i] = u[(a + 1) + i - 1] /\ (a + 1) + i - 1 = a + i
      BY <1>1, <2>1, SubSeqProperties
    <2> HIDE DEF A
    <2>4. ToSet(A) = {A[i] : i \in 1 .. Len(A)}
      BY <2>2, ItemAt
    <2>5. \A i \in 1 .. Len(A) : i \in 1 .. m + n - a
      BY <1>1, <2>2
    <2>6. \A i \in 1 .. Len(A) : A[i] = u[a + i]
      <3> TAKE i \in 1 .. Len(A)
      <3>1. A[i] = u[(a + 1) + i - 1] /\ (a + 1) + i - 1 = a + i
        BY <2>3, <2>5
      <3> QED BY <3>1
    <2> QED BY <2>2, <2>4, <2>6
  <1>3. ASSUME NEW i \in 1 .. m, a < i PROVE q[i] \in ToSet(B)
    <2>1. Len(q) = m /\ a + 1 \in Int /\ (\A j \in a + 1 .. m : q[j] \in S) /\ a + 1 <= m
      BY <1>1, <1>3, ElementOfSeq DEF m
    <2>2. B \in Seq(S) /\ Len(B) = m - a
      BY <1>1, <2>1, SubSeqProperties
    <2>3. B[i - a] = q[(a + 1) + (i - a) - 1] /\ (a + 1) + (i - a) - 1 = i
      BY <1>1, <1>3, <2>1, SubSeqProperties
    <2>4. i - a \in 1 .. Len(B)
      BY <1>1, <1>3, <2>2
    <2> HIDE DEF B
    <2> QED BY <2>2, <2>3, <2>4, ItemAt
  <1>4. \A j \in 1 .. n : x[j] \in ToSet(x)
    BY ItemAt DEF n
  <1> HIDE DEF A, B
  <1>5. ASSUME NEW i \in 1 .. Len(A) PROVE A[i] \in ToSet(B) \cup ToSet(x)
    <2>0. A[i] = u[a + i]
      BY <1>2
    <2>a. i \in Nat /\ 1 <= i /\ a + i <= m + n /\ m \in Nat /\ n \in Nat
      <3>1. CASE a + 1 <= m + n
        BY <1>1, <1>2, <3>1
      <3>2. CASE ~(a + 1 <= m + n)
        BY <1>2, <3>2
      <3> QED BY <3>1, <3>2
    <2>1. A[i] = u[a + i] /\ a + i \in 1 .. m + n /\ a < a + i
      BY <2>0, <2>a
    <2>2. CASE a + i <= m
      BY <1>1, <1>3, <2>1, <2>2
    <2>3. CASE ~(a + i <= m)
      <3>1. (a + i) - m \in 1 .. n /\ A[i] = x[(a + i) - m]
        BY <1>1, <2>1, <2>3
      <3> QED BY <1>4, <3>1
    <2> QED BY <2>2, <2>3
  <1>6. ToSet(A) \subseteq ToSet(B) \cup ToSet(x)
    BY <1>2, <1>5
  <1> QED BY <1>6 DEF A, B, u, m

\* A step that changes one slot gently leaves the others as they are.
LEMMA GentleAlone ==
    ASSUME BindingTypes, NEW t \in Streams, NEW r \in StreamRecords, stream' = [stream EXCEPT ![t] = r],
           stream'[t] = r => Gentle(t)
    PROVE  stream' \in [Streams -> StreamRecords] /\ \A s \in Streams : Gentle(s)
  <1>1. stream \in [Streams -> StreamRecords]
    BY DEF BindingTypes
  <1>2. stream' \in [Streams -> StreamRecords] /\ stream'[t] = r
    BY <1>1
  <1>3. ASSUME NEW s \in Streams, s # t PROVE Gentle(s)
    <2>1. stream'[s] = stream[s]
      BY <1>1, <1>3
    <2> QED BY <2>1 DEF Gentle
  <1> QED BY <1>2, <1>3

\* No step harms a stream: which slots a step may touch follows from SlotInv (a creation
\* that fails or is cancelled clears a slot that never had a stream).
LEMMA StreamMoves ==
    ASSUME BindingTypes, SlotInv, Enter \/ Runs
    PROVE  stream' \in [Streams -> StreamRecords] /\ \A s \in Streams : Gentle(s)
  <1> DEFINE G == stream' \in [Streams -> StreamRecords] /\ \A s \in Streams : Gentle(s)
  <1>t. /\ call \in [Calls -> CallRecords] /\ stream \in [Streams -> StreamRecords] /\ ingested \in Int
    BY DEF BindingTypes
  <1>r. ASSUME NEW s \in Streams
        PROVE  /\ stream[s] \in StreamRecords /\ stream[s].log \in Seq(Int) /\ stream[s].acked \in Nat
               /\ stream[s].prov \in Slots
    BY <1>t DEF StreamRecords
  <1>0. ASSUME UNCHANGED stream PROVE G
    BY <1>0, <1>t DEF Gentle
  <1>1. ASSUME NEW t \in Streams, NEW v \in Slots, stream' = [stream EXCEPT ![t].prov = v],
               stream[t].st = "none", NEW c \in Calls, Provides(c, t, v)
        PROVE  G
    <2> DEFINE r == [stream[t] EXCEPT !.prov = v]
    <2>1. r \in StreamRecords /\ r.prov = v /\ r.st = stream[t].st
      BY <1>r DEF StreamRecords
    <2>2. stream' = [stream EXCEPT ![t] = r]
      BY <1>1, <1>t
    <2> HIDE DEF r
    <2>3. ASSUME stream'[t] = r PROVE Gentle(t)
      BY <1>1, <2>1, <2>3 DEF Gentle
    <2> QED BY <2>1, <2>2, <2>3, GentleAlone
  <1>2. ASSUME NEW c \in Calls, Accepts(c) PROVE G
    <2> DEFINE t == call[c].s
               x == call[c].recs
               r == [stream[t] EXCEPT !.log = @ \o x]
    <2>0. t \in Streams /\ x \in Seq(Int) /\ call[c].op \in Ingests /\ (arrow => stream[t].st = "open")
      BY <1>2, <1>t DEF Accepts, Accept, SlotInv, CallRecords
    <2>1. stream[t].log \o x \in Seq(Int)
      BY <1>r, <2>0, ConcatProperties
    <2>2. /\ r \in StreamRecords /\ r.prov = stream[t].prov /\ r.st = stream[t].st
          /\ r.log = stream[t].log \o x /\ r.acked = stream[t].acked
      BY <1>r, <2>0, <2>1 DEF StreamRecords
    <2>3. stream' = [stream EXCEPT ![t] = r]
      BY <1>2, <1>t DEF Accepts, Accept
    <2>4. ToSet(stream[t].log \o x) = ToSet(stream[t].log) \cup ToSet(x)
      BY <1>r, <2>0, ConcatSet
    <2>5. ToSet(x) \subseteq InHand(t)
      BY <2>0 DEF InHand
    <2> HIDE DEF r
    <2>6. ToSet(Pending(r)) \subseteq ToSet(Pending(stream[t])) \cup InHand(t)
      <3> DEFINE q == stream[t].log
                 a == stream[t].acked
      <3>1. q \in Seq(Int) /\ a \in Nat
        BY <1>r, <2>0
      <3>2. Pending(r) = SubSeq(q \o x, a + 1, Len(q \o x)) /\ Pending(stream[t]) = SubSeq(q, a + 1, Len(q))
        BY <2>2 DEF Pending
      <3> HIDE DEF q, a, x
      <3>3. ToSet(SubSeq(q \o x, a + 1, Len(q \o x))) \subseteq ToSet(SubSeq(q, a + 1, Len(q))) \cup ToSet(x)
        BY <2>0, <3>1, ConcatRest
      <3> QED BY <2>5, <3>2, <3>3
    <2>7. ASSUME stream'[t] = r PROVE Gentle(t)
      BY <2>0, <2>2, <2>4, <2>6, <2>7 DEF Gentle
    <2> QED BY <2>0, <2>2, <2>3, <2>7, GentleAlone
  <1>3. ASSUME NEW t \in Streams, NEW st \in {"closed", "failed"}, stream' = [stream EXCEPT ![t].st = st],
               stream[t].st # "none"
        PROVE  G
    <2> DEFINE r == [stream[t] EXCEPT !.st = st]
    <2>1. /\ r \in StreamRecords /\ r.prov = stream[t].prov /\ r.st = st /\ r.log = stream[t].log
          /\ r.acked = stream[t].acked
      BY <1>r DEF StreamRecords
    <2>2. stream' = [stream EXCEPT ![t] = r]
      BY <1>3, <1>t
    <2> HIDE DEF r
    <2>3. ASSUME stream'[t] = r PROVE Gentle(t)
      <3>1. Pending(r) = Pending(stream[t])
        BY <2>1 DEF Pending
      <3> QED BY <1>3, <2>1, <2>3, <3>1 DEF Gentle
    <2> QED BY <2>1, <2>2, <2>3, GentleAlone
  <1>4. ASSUME NEW t \in Streams, NEW c \in Calls, call[c].pc = "connect", call[c].new = t,
               call'[c].pc \in {"idle", "answer"}, stream[t].st = "none",
               stream' = [stream EXCEPT ![t].st = "open", ![t].log = call[c].recs]
        PROVE  G
    <2> DEFINE r == [stream[t] EXCEPT !.st = "open", !.log = call[c].recs]
    <2>0. call[c].recs \in Seq(Int)
      BY <1>t DEF CallRecords
    <2>1. r \in StreamRecords /\ r.prov = stream[t].prov
      BY <1>r, <2>0 DEF StreamRecords
    <2>2. stream' = [stream EXCEPT ![t] = r]
      BY <1>4, <1>t
    <2> HIDE DEF r
    <2>3. ASSUME stream'[t] = r PROVE Gentle(t)
      BY <1>4, <2>1, <2>3 DEF Gentle
    <2> QED BY <2>1, <2>2, <2>3, GentleAlone
  <1>5. ASSUME NEW t \in Streams, Abandon(t), stream[t].st = "none",
               NEW c \in Calls, call[c].new = t, call'[c].pc # "callback"
        PROVE  G
    <2>1. stream'[t] = NoStream => Gentle(t)
      BY <1>5 DEF Gentle, NoStream, Provides
    <2> QED BY <1>5, <2>1, GentleAlone, IdleTypes DEF Abandon
  <1>6. ASSUME NEW t \in Streams, ServerAck(t) PROVE G
    <2> DEFINE r == [stream[t] EXCEPT !.acked = @ + 1]
    <2>1. /\ r \in StreamRecords /\ r.prov = stream[t].prov /\ r.st = stream[t].st /\ r.log = stream[t].log
      BY <1>r DEF StreamRecords
    <2>2. stream' = [stream EXCEPT ![t] = r] /\ stream[t].st = "open"
      BY <1>6, <1>t DEF ServerAck
    <2> HIDE DEF r
    <2>3. ASSUME stream'[t] = r PROVE Gentle(t)
      BY <2>1, <2>2, <2>3 DEF Gentle
    <2> QED BY <2>1, <2>2, <2>3, GentleAlone
  <1>7. ASSUME NEW c \in Calls, Creating(c) \/ Native(c, "recreate")
        PROVE  call[c].new \in Streams /\ stream[call[c].new].st = "none"
    <2>1. call[c].new \in Streams /\ call[c].pc # "answer"
      BY <1>7 DEF SlotInv, Creating, Native
    <2>2. call[c].new # NULL
      BY <2>1, BindingsAssumption
    <2> QED BY <2>1, <2>2 DEF SlotInv
  <1> HIDE DEF G
  <1>8. ASSUME Enter PROVE G
    <2>1. ASSUME NEW c \in Calls, NEW t \in Streams, EnterCreate(c, t) PROVE G
      <3>1. PICK mode \in Modes, custom \in BOOLEAN, valid \in BOOLEAN : Create(c, t, mode, custom, valid)
        BY <2>1 DEF EnterCreate
      <3> DEFINE v == IF custom THEN t ELSE NULL
                 pc == IF ~valid THEN "refusing" ELSE IF custom THEN "headers" ELSE "connect"
                 r == [Idle EXCEPT !.op = "create", !.new = t, !.mode = mode, !.pc = pc]
      <3>2. /\ stream' = [stream EXCEPT ![t].prov = v] /\ v \in Slots /\ v \in {t, NULL}
            /\ call' = [call EXCEPT ![c] = r] /\ stream[t].st = "none" /\ freed[t] = 0
            /\ v = t => t \in given'
        BY <3>1, BindingsAssumption DEF Create, Begin, NewSlot, Unused, Slots
      <3>3. pc \in {"refusing", "headers", "connect"} /\ r.new = t /\ r.pc = pc
        BY DEF Idle
      <3> HIDE DEF v, r, pc
      <3>4. call'[c] = r
        BY <1>t, <3>2
      <3>5. Provides(c, t, v)
        BY <3>2, <3>3, <3>4 DEF Provides
      <3> QED BY <1>1, <3>2, <3>5
    <2>2. ASSUME NEW c \in Calls, Refuse(c) PROVE G
      BY <1>0, <2>2 DEF Refuse
    <2>3. ASSUME NEW s \in Streams, FreeHandle(s) PROVE G
      BY <1>0, <2>3 DEF FreeHandle
    <2>4. ASSUME NEW c \in Calls, NEW s \in Streams, EnterFfi(c, s) PROVE G
      BY <1>0, <2>4 DEF EnterFfi, Start
    <2>5. ASSUME NEW c \in Calls, NEW s \in Streams, EnterGuard(c, s) PROVE G
      BY <1>0, <2>5 DEF EnterGuard, Lock
    <2>6. ASSUME NEW c \in Calls, NEW s \in Streams, NEW new \in Streams, EnterRecreate(c, s, new)
          PROVE  G
      BY <1>0, <2>6 DEF EnterRecreate, Recreate
    <2> QED BY <1>8, <2>1, <2>2, <2>3, <2>4, <2>5, <2>6 DEF Enter
  <1>9. ASSUME NEW c \in Calls, Quits(c) \/ Checks(c) \/ GoesOn(c) \/ Acquires(c) \/ Takes(c) \/ CallsBack(c) \/ Ends(c)
        PROVE  G
    BY <1>0, <1>9 DEF Quits, Checks, GoesOn, Acquires, Acquire, Takes, CallsBack, CreateHeaders, Ends
  <1>11. ASSUME NEW c \in Calls, NativeCloseEnd(c) PROVE G
    <2>1. call[c].s \in Streams /\ stream[call[c].s].st # "none"
      BY <1>11, BindingsAssumption DEF NativeCloseEnd, Native, SlotInv
    <2> QED BY <1>3, <1>11, <2>1 DEF NativeCloseEnd
  <1>12. ASSUME NEW c \in Calls, Reopens(c) PROVE G
    <2>1. /\ Native(c, "recreate") /\ call[c].new \in Streams /\ stream[call[c].new].st = "none"
          /\ stream' = [stream EXCEPT ![call[c].new].prov = stream[call[c].s].prov]
      BY <1>7, <1>12 DEF Reopens
    <2>2. stream[call[c].s].prov \in Slots
      BY <1>r, <2>1 DEF SlotInv, Native
    <2>3. call'[c].new = call[c].new /\ call'[c].pc \in {"headers", "connect"}
      BY <1>12, <1>t DEF Reopens, CallRecords
    <2>4. Provides(c, call[c].new, stream[call[c].s].prov)
      BY <2>1, <2>3 DEF Provides
    <2> QED BY <1>1, <2>1, <2>2, <2>4
  <1>13. ASSUME NEW c \in Calls, Connect(c) PROVE G
    <2>1. call[c].pc = "connect" /\ call[c].new \in Streams /\ stream[call[c].new].st = "none"
      BY <1>7, <1>13 DEF Connect, Creating
    <2>2. CASE Abandon(call[c].new) /\ Answer(c, "err")
      <3>1. call'[c].pc # "callback"
        BY <2>2, Answered, IdleTypes
      <3> QED BY <1>5, <2>1, <2>2, <3>1
    <2>3. CASE /\ stream' = [stream EXCEPT ![call[c].new].st = "open", ![call[c].new].log = call[c].recs]
               /\ Answer(c, "ok")
      <3>1. call'[c].pc \in {"idle", "answer"}
        BY <2>3, Answered, IdleTypes
      <3> QED BY <1>4, <2>1, <2>3, <3>1
    <2> QED BY <1>13, <2>2, <2>3 DEF Connect
  <1>14. ASSUME NEW c \in Calls, CreateRefused(c) \/ GivesUp(c) PROVE G
    <2>1. call[c].new \in Streams /\ stream[call[c].new].st = "none" /\ Abandon(call[c].new)
      BY <1>7, <1>14 DEF CreateRefused, GivesUp, CreateFails, Creating
    <2>2. CASE CreateRefused(c)
      <3>1. call'[c].pc = "answer"
        BY <1>t, <2>2 DEF CreateRefused, CallRecords
      <3> QED BY <1>5, <2>1, <3>1
    <2>3. CASE GivesUp(c)
      <3>1. call'[c].pc # "callback"
        BY <2>3, Answered, IdleTypes DEF GivesUp, CreateFails
      <3> QED BY <1>5, <2>1, <3>1
    <2> QED BY <1>14, <2>2, <2>3
  <1>15. ASSUME NEW c \in Calls, HeadersDone(c) PROVE G
    <2>1. call[c].new \in Streams /\ stream[call[c].new].st = "none" /\ NULL \in Slots
      BY <1>7, <1>15 DEF HeadersDone, Creating, Slots
    <2>2. call'[c].pc = "connect"
      BY <1>t, <1>15 DEF HeadersDone, CallRecords
    <2>3. Provides(c, call[c].new, NULL)
      BY <2>2 DEF Provides
    <2> QED BY <1>0, <1>1, <1>15, <2>1, <2>3 DEF HeadersDone
  <1>16. ASSUME NEW c \in Calls, aio_cancel(c) PROVE G
    <2>1. CASE call[c].new = NULL
      BY <1>0, <1>16, <2>1 DEF aio_cancel
    <2>2. CASE call[c].new # NULL
      <3>1. call[c].new \in Streams
        BY <1>t, <2>2 DEF CallRecords, Slots
      <3>2. stream[call[c].new].st = "none" /\ Abandon(call[c].new)
        BY <1>16, <2>2 DEF aio_cancel, SlotInv, Abandon
      <3>3. call'[c].pc # "callback"
        BY <1>t, <1>16, IdleTypes DEF aio_cancel
      <3> QED BY <1>5, <3>1, <3>2, <3>3
    <2> QED BY <2>1, <2>2
  <1>17. ASSUME NEW s \in Streams,
                ServerAck(s) \/ StreamFails(s) \/ SupervisorCallsBack(s) \/ SupervisorHeadersReturn(s)
         PROVE  G
    <2>1. CASE StreamFails(s)
      BY <1>3, <2>1 DEF StreamFails
    <2>2. CASE SupervisorHeadersReturn(s)
      <3>1. UNCHANGED stream \/ (stream[s].st = "open" /\ stream' = [stream EXCEPT ![s].st = "failed"])
        BY <2>2 DEF SupervisorHeadersReturn
      <3> QED BY <1>0, <1>3, <3>1
    <2> QED BY <1>0, <1>6, <1>17, <2>1, <2>2 DEF SupervisorCallsBack, SupervisorHeaders
  <1> QED BY <1>2, <1>8, <1>9, <1>11, <1>12, <1>13, <1>14, <1>15, <1>16, <1>17 DEF Runs, G

-----------------------------------------------------------------------------
(* The invariant, part by part *)

\* What the rest of the proof knows of a step.
Step == /\ Fits /\ Moves /\ stream' \in [Streams -> StreamRecords] /\ \A s \in Streams : Gentle(s)
        /\ given \subseteq given'
        /\ \A p \in given' : p \in given \/
              \E c \in Calls : call'[c].new = p /\ Creating(c)' /\ stream'[p].prov = p

\* A provider that is handed over is at once in the hands of its creation.
LEMMA GivenStep ==
    ASSUME BindingTypes, Enter \/ Runs
    PROVE  /\ given \subseteq given'
           /\ \A p \in given' : p \in given \/
                 \E c \in Calls : call'[c].new = p /\ Creating(c)' /\ stream'[p].prov = p
  <1>1. ASSUME Runs PROVE UNCHANGED given
    BY ZenonT(60), <1>1 DEF Runs, Quits, Checks, Accepts, GoesOn, NativeCloseEnd, Reopens, Connect, CreateRefused,
       Acquires, Acquire, Takes, GivesUp, CreateFails, CallsBack, CreateHeaders, HeadersDone, Ends, aio_cancel,
       ServerAck, StreamFails, SupervisorCallsBack, SupervisorHeaders, SupervisorHeadersReturn, Rest
  <1>2. ASSUME NEW c \in Calls, NEW t \in Streams, EnterCreate(c, t)
        PROVE  \/ UNCHANGED given
               \/ /\ given' = given \cup {t} /\ call'[c].new = t /\ Creating(c)' /\ stream'[t].prov = t
    <2>1. PICK mode \in Modes, custom \in BOOLEAN, valid \in BOOLEAN : Create(c, t, mode, custom, valid)
      BY <1>2 DEF EnterCreate
    <2>2. CASE ~custom
      BY <2>1, <2>2 DEF Create
    <2>3. CASE custom
      <3> DEFINE pc == IF ~valid THEN "refusing" ELSE IF custom THEN "headers" ELSE "connect"
                 r == [Idle EXCEPT !.op = "create", !.new = t, !.mode = mode, !.pc = pc]
      <3>1. /\ stream' = [stream EXCEPT ![t].prov = t] /\ given' = given \cup {t}
            /\ call' = [call EXCEPT ![c] = r]
        BY <2>1, <2>3 DEF Create, Begin
      <3>2. pc \in {"refusing", "headers", "connect"} /\ r.new = t /\ r.pc = pc
        BY DEF Idle
      <3> HIDE DEF r, pc
      <3>3. call'[c] = r /\ stream'[t].prov = t
        BY <3>1 DEF BindingTypes, StreamRecords
      <3> QED BY <3>1, <3>2, <3>3 DEF Creating
    <2> QED BY <2>2, <2>3
  <1>3. ASSUME Enter PROVE UNCHANGED given \/ \E c \in Calls, t \in Streams : EnterCreate(c, t)
    <2>1. ASSUME NEW c \in Calls, NEW s \in Streams, EnterFfi(c, s) \/ EnterGuard(c, s) PROVE UNCHANGED given
      BY <2>1 DEF EnterFfi, Start, EnterGuard, Lock
    <2>2. ASSUME NEW c \in Calls, NEW s \in Streams, NEW new \in Streams, EnterRecreate(c, s, new)
          PROVE  UNCHANGED given
      BY <2>2 DEF EnterRecreate, Recreate
    <2>3. ASSUME NEW c \in Calls, Refuse(c) PROVE UNCHANGED given
      BY <2>3 DEF Refuse
    <2>4. ASSUME NEW s \in Streams, FreeHandle(s) PROVE UNCHANGED given
      BY <2>4 DEF FreeHandle
    <2> QED BY <1>3, <2>1, <2>2, <2>3, <2>4 DEF Enter
  <1>4. CASE UNCHANGED given
    BY <1>4
  <1>5. CASE \E c \in Calls, t \in Streams : EnterCreate(c, t)
    BY <1>2, <1>4, <1>5
  <1> QED BY <1>1, <1>3, <1>4, <1>5

\* Every step fits the types and is gentle, and changes only the count of a provider it lets go.
LEMMA EveryStep ==
    ASSUME BindingTypes, SlotInv, Next
    PROVE  Step /\ DropProviders /\ freed' \in [Streams -> Int]
  <1>1. (Enter \/ Runs) /\ DropProviders
    BY NextShape
  <1>2. Step
    BY <1>1, EnterMoves, RunsMoves, StreamMoves, GivenStep DEF Step
  <1>3. freed' \in [Streams -> Int]
    <2>1. freed \in [Streams -> Int]
      BY DEF BindingTypes
    <2>2. freed' = [p \in Streams |-> freed'[p]]
      BY <1>1 DEF DropProviders
    <2>3. \A p \in Streams : freed'[p] \in {freed[p], freed[p] + 1}
      BY <1>1 DEF DropProviders
    <2> QED BY <2>1, <2>2, <2>3
  <1> QED BY <1>1, <1>2, <1>3

\* A step preserves the types.
LEMMA TypesStep ==
    ASSUME BindingTypes, SlotInv, Next
    PROVE  BindingTypes'
  BY EveryStep DEF Step, Fits, BindingTypes, layer

\* The fate of a call in a step.
LEMMA CallStep ==
    ASSUME BindingTypes, Fits, Moves, NEW d \in Calls
    PROVE  \/ call'[d] = call[d]
           \/ Joins(d) \/ Creates(d) \/ Continues(d) \/ Relocks(d) \/ Gets(d) \/ Grabs(d)
           \/ Proceeds(d) \/ Finishes(d) \/ Returns(d)
  <1>1. ASSUME NEW c \in Calls, c # d, Others(c) PROVE call'[d] = call[d]
    BY <1>1 DEF Others
  <1>2. ASSUME NEW c \in Calls,
               \/ Joins(c) \/ Creates(c) \/ Continues(c) \/ Relocks(c) \/ Gets(c) \/ Grabs(c)
               \/ Proceeds(c) \/ Finishes(c) \/ Returns(c)
        PROVE  Others(c)
    BY <1>2 DEF Joins, Creates, Continues, Relocks, Gets, Grabs, Proceeds, Finishes, Returns, Keeps
  <1>3. CASE Elsewhere
    BY <1>3 DEF Elsewhere
  <1>4. ASSUME NEW s \in Streams, FreeHandle(s) PROVE call'[d] = call[d]
    BY <1>4 DEF FreeHandle
  <1> QED BY <1>1, <1>2, <1>3, <1>4 DEF Moves

\* A call keeps its slot, gives it up, or takes a new one; what it works on does not change.
LEMMA SlotStep ==
    ASSUME BindingTypes, SlotInv, Step, NEW d \in Calls
    PROVE  /\ call'[d].pc = "idle" => call'[d] = Idle
           /\ call'[d].s \in {call[d].s, NULL} \/ Joins(d)
           /\ call'[d].new \in {call[d].new, NULL} \/ NewSlot(call'[d].new)
           /\ call'[d].new # NULL /\ call'[d].pc # "answer" =>
                 \/ call'[d].new = call[d].new /\ call[d].pc # "answer"
                 \/ Joins(d) \/ Creates(d)
           /\ call'[d].pc \in {"queued", "native"} => call'[d].s \in Streams
           /\ Creating(d)' \/ (call'[d].pc \in {"queued", "native"} /\ call'[d].op = "recreate") =>
                 call'[d].new \in Streams
           /\ call'[d].pc = "answer" /\ Created(d)' =>
                 \/ call'[d] = call[d]
                 \/ /\ call[d].new \in Streams /\ call'[d].new = call[d].new
                    /\ stream'[call[d].new].st = "open" /\ call[d].pc = "connect"
  <1>0. CASE call'[d] = call[d]
    BY <1>0 DEF SlotInv, Creating, Native, Created
  <1>1. CASE Joins(d)
    BY <1>1 DEF Joins, Creating, Native, Created, Works
  <1>2. CASE Creates(d)
    BY <1>2 DEF Creates, Creating, Native, Created
  <1>3. CASE Continues(d)
    BY <1>3 DEF Continues, Keeps, SlotInv, Creating, Native, Created
  <1>4. CASE Relocks(d)
    BY <1>4 DEF Relocks, Keeps, SlotInv, Creating, Native, Created
  <1>5. CASE Gets(d)
    BY <1>5 DEF Gets, Keeps, SlotInv, Creating, Native, Created, Acquires, Acquire
  <1>6. CASE Grabs(d)
    BY <1>6 DEF Grabs, Keeps, SlotInv, Creating, Native, Created, Takes
  <1>7. CASE Proceeds(d)
    BY <1>7 DEF Proceeds, Keeps, SlotInv, Creating, Native, Created, Reopens, CallsBack, CreateHeaders,
                HeadersDone
  <1>8. CASE Finishes(d)
    <2>1. CASE call'[d] = Idle
      BY <2>1, BindingsAssumption DEF Idle, Creating, Native, Created
    <2>2. CASE call'[d] # Idle
      BY <1>8, <2>2 DEF Finishes, SlotInv, Creating, Native, Created, Opened
    <2> QED BY <2>1, <2>2
  <1>9. CASE Returns(d)
    BY <1>9, BindingsAssumption DEF Returns, Idle, Creating, Native, Created
  <1> QED BY <1>0, <1>1, <1>2, <1>3, <1>4, <1>5, <1>6, <1>7, <1>8, <1>9, CallStep DEF Step

\* A step preserves SlotInv: a new call takes a slot nobody has, a slot gets its stream from
\* the creation that has it, and a creation keeps its slot until its caller has the handle.
LEMMA SlotInvStep ==
    ASSUME BindingTypes, SlotInv, Next
    PROVE  SlotInv'
  <1>1. Step
    BY EveryStep
  <1>0. /\ call \in [Calls -> CallRecords] /\ call' \in [Calls -> CallRecords]
        /\ handle \in [Streams -> {"none", "live", "freed", "leaked"}] /\ inHeaders \in SUBSET Streams
    BY <1>1 DEF BindingTypes, Step, Fits
  <1>n. ASSUME NEW d \in Calls PROVE (call[d].new # NULL => call[d].new \in Streams)
                                  /\ (call'[d].new # NULL => call'[d].new \in Streams)
                                  /\ (call[d].s # NULL => call[d].s \in Streams)
    BY <1>0 DEF CallRecords, Slots
  <1>g. ASSUME NEW s \in Streams, stream[s].st # "none" PROVE stream'[s].st # "none"
    BY <1>1, <1>g DEF Step, Gentle
  <1>2. ASSUME NEW d \in Calls, call'[d].s # NULL PROVE stream'[call'[d].s].st # "none"
    <2>1. CASE Joins(d)
      BY <1>g, <2>1 DEF Joins, SlotInv
    <2>2. CASE call'[d].s = call[d].s
      BY <1>2, <1>g, <1>n, <2>2 DEF SlotInv
    <2> QED BY <1>1, <1>2, <2>1, <2>2, SlotStep
  <1>3. ASSUME NEW d \in Calls, call'[d].new # NULL, call'[d].pc # "answer"
        PROVE  stream'[call'[d].new].st = "none"
    <2>1. CASE Joins(d)
      <3>1. NewSlot(call'[d].new) /\ stream' = stream
        BY <1>3, <2>1 DEF Joins, Works
      <3> QED BY <3>1 DEF NewSlot, Unused
    <2>2. CASE Creates(d)
      <3>1. /\ NewSlot(call'[d].new) /\ call'[d].new \in Streams
            /\ \E v : stream' = [stream EXCEPT ![call'[d].new].prov = v]
        BY <2>2 DEF Creates
      <3>2. stream \in [Streams -> StreamRecords]
        BY DEF BindingTypes
      <3> QED BY <3>1, <3>2 DEF NewSlot, Unused, StreamRecords
    <2>3. CASE call'[d].new = call[d].new /\ call[d].pc # "answer"
      <3>1. call[d].new \in Streams /\ stream[call[d].new].st = "none" /\ Gentle(call[d].new)
        BY <1>1, <1>3, <1>n, <2>3 DEF SlotInv, Step
      <3>2. CASE stream'[call[d].new].st # "none"
        <4>1. PICK c \in Calls : /\ call[c].pc = "connect" /\ call[c].new = call[d].new
                                 /\ call'[c].pc \in {"idle", "answer"}
          BY <3>1, <3>2 DEF Gentle
        <4>2. c = d
          BY <1>3, <2>3, <4>1 DEF SlotInv
        <4>3. call'[d] = Idle
          BY <1>1, <1>3, <4>1, <4>2, SlotStep
        <4> QED BY <1>3, <4>3 DEF Idle
      <3> QED BY <2>3, <3>2
    <2> QED BY <1>1, <1>3, <2>1, <2>2, <2>3, SlotStep
  <1>4. ASSUME NEW d \in Calls, call'[d].pc = "answer", Created(d)'
        PROVE  call'[d].new \in Streams /\ stream'[call'[d].new].st # "none"
    <2>1. CASE call'[d] = call[d]
      <3>1. call[d].new \in Streams /\ stream[call[d].new].st # "none"
        BY <1>4, <2>1 DEF SlotInv, Created
      <3> QED BY <1>g, <2>1, <3>1
    <2> QED BY <1>1, <1>4, <2>1, SlotStep
  <1>5. ASSUME NEW c \in Calls, NEW d \in Calls, call'[c].new = call'[d].new, call'[c].new # NULL
        PROVE  c = d
    <2>1. ASSUME NEW a \in Calls, NEW b \in Calls, call'[a].new = call'[b].new, call'[a].new # NULL,
                 call'[a].new # call[a].new, a # b
          PROVE  FALSE
      <3>1. NewSlot(call'[a].new)
        BY <1>1, <2>1, SlotStep
      <3>2. call[b].new # call'[a].new
        BY <3>1 DEF NewSlot, Unused
      <3>3. Joins(a) \/ Creates(a)
        <4>1. CASE call'[a].pc # "answer"
          BY <1>1, <2>1, <4>1, SlotStep
        <4>2. CASE call'[a].pc = "answer"
          <5>1. \/ Joins(a) \/ Creates(a) \/ Continues(a) \/ Relocks(a) \/ Gets(a) \/ Grabs(a)
                \/ Proceeds(a) \/ Finishes(a) \/ Returns(a)
            BY <1>1, <2>1, CallStep DEF Step
          <5> QED BY <2>1, <4>2, <5>1, IdleTypes DEF Continues, Relocks, Gets, Grabs, Keeps, Proceeds,
                     Finishes, Returns, Idle
        <4> QED BY <4>1, <4>2
      <3>4. call'[b] = call[b]
        BY <2>1, <3>3 DEF Joins, Creates, Others
      <3> QED BY <2>1, <3>2, <3>4
    <2>2. CASE call'[c].new = call[c].new /\ call'[d].new = call[d].new
      BY <1>5, <2>2 DEF SlotInv
    <2> QED BY <1>5, <2>1, <2>2
  <1>6. ASSUME NEW s \in inHeaders' PROVE stream'[s].st # "none"
    <2>1. s \in inHeaders \/ (s \in Streams /\ stream[s].st = "open")
      BY ZenonT(60), <1>1, <1>6 DEF Step, Moves, Joins, Creates, Continues, Relocks, Gets, Acquires, Acquire, Grabs,
         Takes, Proceeds, Finishes, Returns, Ends, FreeHandle, Elsewhere
    <2>2. s \in Streams /\ stream[s].st # "none"
      BY <1>0, <2>1 DEF SlotInv
    <2> QED BY <1>g, <2>2
  <1>7. ASSUME NEW s \in Streams, handle'[s] # "none" PROVE stream'[s].st # "none"
    <2>1. CASE handle[s] # "none"
      BY <1>g, <2>1 DEF SlotInv
    <2>2. CASE handle'[s] = handle[s]
      BY <1>7, <2>1, <2>2
    <2>3. CASE handle[s] = "none" /\ handle'[s] # handle[s]
      <3>0. ASSUME NEW t \in Streams, FreeHandle(t) PROVE handle'[s] = handle[s] \/ handle[s] = "live"
        BY <1>0, <3>0 DEF FreeHandle
      <3>1. PICK c \in Calls : Returns(c)
        BY ZenonT(60), <1>1, <2>3, <3>0 DEF Step, Moves, Joins, Creates, Continues, Relocks, Gets, Acquires, Acquire,
           Grabs, Takes, Proceeds, Finishes, Elsewhere
      <3>2. Created(c) /\ call[c].pc = "answer" /\ \E end : handle' = [handle EXCEPT ![call[c].new] = end]
        BY <2>3, <3>1 DEF Returns, Ends
      <3>3. s = call[c].new
        BY <1>0, <2>3, <3>2
      <3>4. stream[s].st # "none"
        BY <3>2, <3>3 DEF SlotInv
      <3> QED BY <1>g, <3>4
    <2> QED BY <2>1, <2>2, <2>3
  <1>8. /\ \A d \in Calls : call'[d].pc = "idle" => call'[d] = Idle
        /\ \A d \in Calls : call'[d].pc \in {"queued", "native"} => call'[d].s \in Streams
        /\ \A d \in Calls :
              Creating(d)' \/ (call'[d].pc \in {"queued", "native"} /\ call'[d].op = "recreate") =>
                 call'[d].new \in Streams
    BY <1>1, SlotStep
  <1> QED BY <1>2, <1>3, <1>4, <1>5, <1>6, <1>7, <1>8 DEF SlotInv

-----------------------------------------------------------------------------
(* The guard *)

GrantedIn(q, c) ==
    \E i \in 1 .. Len(q) :
        q[i].c = c /\ \A j \in 1 .. (i - 1) : q[i].access = "r" /\ q[j].access = "r"

Distinct(q) == \A i, j \in 1 .. Len(q) : q[i].c = q[j].c => i = j

\* A call that leaves a queue is not in it, and costs nobody the guard.
LEMMA LeavesQueue ==
    ASSUME NEW q \in Seq(Entries), NEW u \in Seq(Entries), NEW c, Distinct(q),
           \/ u = q /\ \A i \in 1 .. Len(q) : q[i].c # c
           \/ \E k \in 1 .. Len(q) :
                 /\ q[k].c = c /\ Len(u) = Len(q) - 1
                 /\ \A j \in 1 .. Len(q) - 1 : u[j] = IF j < k THEN q[j] ELSE q[j + 1]
    PROVE  /\ \A j \in 1 .. Len(u) : \E i \in 1 .. Len(q) : u[j] = q[i] /\ q[i].c # c
           /\ Distinct(u)
           /\ \A d : d # c /\ GrantedIn(q, d) => GrantedIn(u, d)
  <1>0. Len(q) \in Nat /\ Len(u) \in Nat
    BY LenProperties
  <1>1. CASE u = q /\ \A i \in 1 .. Len(q) : q[i].c # c
    BY <1>1
  <1>2. CASE \E k \in 1 .. Len(q) :
                /\ q[k].c = c /\ Len(u) = Len(q) - 1
                /\ \A j \in 1 .. Len(q) - 1 : u[j] = IF j < k THEN q[j] ELSE q[j + 1]
    <2>1. PICK k \in 1 .. Len(q) :
             /\ q[k].c = c /\ Len(u) = Len(q) - 1
             /\ \A j \in 1 .. Len(q) - 1 : u[j] = IF j < k THEN q[j] ELSE q[j + 1]
      BY <1>2
    <2> DEFINE Old(j) == IF j < k THEN j ELSE j + 1
    <2>2. \A j \in 1 .. Len(u) : Old(j) \in 1 .. Len(q) /\ Old(j) # k /\ u[j] = q[Old(j)]
      BY <1>0, <2>1
    <2>3. \A i, j \in 1 .. Len(u) : Old(i) = Old(j) => i = j
      BY <1>0, <2>1
    <2>4. \A i \in 1 .. Len(q) : i # k => \E j \in 1 .. Len(u) : Old(j) = i
      <3> SUFFICES ASSUME NEW i \in 1 .. Len(q), i # k PROVE \E j \in 1 .. Len(u) : Old(j) = i
        OBVIOUS
      <3>1. CASE i < k
        <4>1. i \in 1 .. Len(u) /\ Old(i) = i
          BY <1>0, <2>1, <3>1
        <4> QED BY <4>1
      <3>2. CASE i > k
        <4>1. i - 1 \in 1 .. Len(u) /\ Old(i - 1) = i
          BY <1>0, <2>1, <3>2
        <4> QED BY <4>1
      <3> QED BY <3>1, <3>2
    <2>5. \A i, j \in 1 .. Len(u) : j < i => Old(j) < Old(i)
      BY <1>0, <2>1
    <2> HIDE DEF Old
    <2>6. \A j \in 1 .. Len(u) : \E i \in 1 .. Len(q) : u[j] = q[i] /\ q[i].c # c
      BY <2>1, <2>2 DEF Distinct
    <2>7. Distinct(u)
      BY SMTT(60), <2>2, <2>3 DEF Distinct
    <2>8. ASSUME NEW d, d # c, GrantedIn(q, d) PROVE GrantedIn(u, d)
      <3>1. PICK i \in 1 .. Len(q) :
               q[i].c = d /\ \A j \in 1 .. (i - 1) : q[i].access = "r" /\ q[j].access = "r"
        BY <2>8 DEF GrantedIn
      <3>2. i # k
        BY <2>1, <2>8, <3>1
      <3>3. PICK n \in 1 .. Len(u) : Old(n) = i
        BY <2>4, <3>2
      <3>4. ASSUME NEW j \in 1 .. (n - 1) PROVE u[n].access = "r" /\ u[j].access = "r"
        <4>1. j \in 1 .. Len(u) /\ j < n
          BY <1>0
        <4>2. Old(j) < i /\ Old(j) \in 1 .. Len(q)
          BY <2>2, <2>5, <3>3, <4>1
        <4>3. Old(j) \in 1 .. (i - 1)
          BY <1>0, <4>2
        <4> QED BY <2>2, <3>1, <3>3, <4>1, <4>3
      <3>5. u[n].c = d
        BY <2>2, <3>1, <3>3
      <3> QED BY <3>4, <3>5 DEF GrantedIn
    <2> QED BY <2>6, <2>7, <2>8
  <1> QED BY <1>1, <1>2

\* A call that queues up is the last, and costs nobody the guard.
LEMMA JoinsQueue ==
    ASSUME NEW q \in Seq(Entries), NEW e \in Entries, Distinct(q), \A i \in 1 .. Len(q) : q[i].c # e.c
    PROVE  /\ \A j \in 1 .. Len(Append(q, e)) :
                 Append(q, e)[j] = e \/ \E i \in 1 .. Len(q) : Append(q, e)[j] = q[i]
           /\ Distinct(Append(q, e))
           /\ \A d : GrantedIn(q, d) => GrantedIn(Append(q, e), d)
  <1> DEFINE a == Append(q, e)
  <1>1. /\ a \in Seq(Entries) /\ Len(a) = Len(q) + 1 /\ Len(q) \in Nat
        /\ \A i \in 1 .. Len(q) : a[i] = q[i]
        /\ a[Len(q) + 1] = e
    BY AppendProperties, LenProperties
  <1> HIDE DEF a
  <1>2. \A j \in 1 .. Len(a) : j \in 1 .. Len(q) \/ j = Len(q) + 1
    BY <1>1
  <1>3. \A j \in 1 .. Len(a) : a[j] = e \/ \E i \in 1 .. Len(q) : a[j] = q[i]
    BY <1>1, <1>2
  <1>4. Distinct(a)
    BY <1>1, <1>2 DEF Distinct
  <1>5. ASSUME NEW d, GrantedIn(q, d) PROVE GrantedIn(a, d)
    <2>1. PICK i \in 1 .. Len(q) :
             q[i].c = d /\ \A j \in 1 .. (i - 1) : q[i].access = "r" /\ q[j].access = "r"
      BY <1>5 DEF GrantedIn
    <2>2. i \in 1 .. Len(a) /\ \A j \in 1 .. (i - 1) : j \in 1 .. Len(q)
      BY <1>1
    <2> QED BY <1>1, <2>1, <2>2 DEF GrantedIn
  <1> QED BY <1>3, <1>4, <1>5 DEF a

\* The queues after a step of call c: who is left, once each, and still has the guard; c may
\* have queued up (last) or left.
Queued(c) ==
    \A s \in Streams :
        /\ Distinct(queue'[s])
        /\ \A j \in 1 .. Len(queue'[s]) :
              queue'[s][j].c # c => \E i \in 1 .. Len(queue[s]) : queue'[s][j] = queue[s][i]
        /\ \A d : d # c /\ GrantedIn(queue[s], d) => GrantedIn(queue'[s], d)

\* What c itself has in the queues after the step.
Own(c) ==
    /\ \A s \in Streams : \A j \in 1 .. Len(queue'[s]) : queue'[s][j].c = c =>
          /\ call'[c].s = s /\ call'[c].pc \in {"queued", "native", "headers", "callback", "connect"}
          /\ call'[c].op \in {"close", "closing"} \/ binding \in {"jni", "node"} => queue'[s][j].access = "w"
    /\ binding # "ffi" /\ call'[c].pc = "native" /\ ~(binding = "jni" /\ call'[c].op = "recreate") =>
          GrantedIn(queue'[call'[c].s], c)

\* GuardInv survives a step of one call that leaves the queues in order and keeps its own
\* place in them.
LEMMA GuardKept ==
    ASSUME BindingTypes, SlotInv, GuardInv, Fits, NEW c \in Calls, Others(c), Queued(c), Own(c),
           call'[c].pc = "native" => call'[c].s \in Streams
    PROVE  GuardInv'
  <1>0. /\ queue \in [Streams -> Seq(Entries)] /\ queue' \in [Streams -> Seq(Entries)] /\ binding' = binding
    BY DEF BindingTypes, Fits, layer
  <1>1. ASSUME NEW s \in Streams, NEW j \in 1 .. Len(queue'[s])
        PROVE  LET k == call'[queue'[s][j].c] IN
               /\ k.s = s /\ k.pc \in {"queued", "native", "headers", "callback", "connect"}
               /\ k.op \in {"close", "closing"} \/ binding' \in {"jni", "node"} => queue'[s][j].access = "w"
    <2>1. CASE queue'[s][j].c = c
      BY <1>0, <2>1 DEF Own
    <2>2. CASE queue'[s][j].c # c
      <3>1. PICK i \in 1 .. Len(queue[s]) : queue'[s][j] = queue[s][i]
        BY <2>2 DEF Queued
      <3>2. queue[s][i] \in Entries
        BY <1>0
      <3>3. queue[s][i].c \in Calls
        BY <3>2 DEF Entries
      <3>4. call'[queue'[s][j].c] = call[queue[s][i].c]
        BY <2>2, <3>1, <3>3 DEF Others
      <3> QED BY <1>0, <3>1, <3>4 DEF GuardInv
    <2> QED BY <2>1, <2>2
  <1>2. ASSUME NEW s \in Streams, NEW i \in 1 .. Len(queue'[s]), NEW j \in 1 .. Len(queue'[s]),
               queue'[s][i].c = queue'[s][j].c
        PROVE  i = j
    BY <1>2 DEF Queued, Distinct
  <1>3. ASSUME binding # "ffi", NEW d \in Calls, call'[d].pc = "native",
               ~(binding = "jni" /\ call'[d].op = "recreate")
        PROVE  GrantedIn(queue'[call'[d].s], d)
    <2>1. CASE d = c
      BY <1>3, <2>1 DEF Own
    <2>2. CASE d # c
      <3>1. call'[d] = call[d]
        BY <2>2 DEF Others
      <3>2. Granted(d, call[d].s) /\ call[d].s \in Streams
        BY <1>3, <3>1 DEF GuardInv, SlotInv
      <3>3. GrantedIn(queue[call[d].s], d)
        BY <3>2 DEF Granted, GrantedIn
      <3> QED BY <2>2, <3>1, <3>2, <3>3 DEF Queued
    <2> QED BY <2>1, <2>2
  <1>4. ASSUME binding # "ffi", NEW d \in Calls, call'[d].pc = "native",
               ~(binding = "jni" /\ call'[d].op = "recreate")
        PROVE  Granted(d, call[d].s)'
    BY <1>3, <1>4 DEF Granted, GrantedIn
  <1> QED BY <1>0, <1>1, <1>2, <1>4 DEF GuardInv

\* A step preserves GuardInv: calls queue up at the end, leave from anywhere, and run only
\* when the guard is theirs.
LEMMA GuardInvStep ==
    ASSUME BindingTypes, SlotInv, GuardInv, Next
    PROVE  GuardInv'
  <1>1. Fits /\ Moves /\ SlotInv'
    BY EveryStep, SlotInvStep DEF Step
  <1>0. /\ queue \in [Streams -> Seq(Entries)] /\ \A s \in Streams : Distinct(queue[s])
        /\ call \in [Calls -> CallRecords]
    BY DEF BindingTypes, GuardInv, Distinct
  <1>n. ASSUME NEW c \in Calls, call'[c].pc = "native" PROVE call'[c].s \in Streams
    BY <1>1, <1>n DEF SlotInv
  <1>s. ASSUME NEW c \in Calls, UNCHANGED queue PROVE Queued(c)
    BY <1>0, <1>s DEF Queued
  <1>u. ASSUME NEW c \in Calls, NEW s \in Streams
        PROVE  /\ Unlock(c)[s] \in Seq(Entries) /\ Distinct(Unlock(c)[s])
               /\ \A j \in 1 .. Len(Unlock(c)[s]) :
                     \E i \in 1 .. Len(queue[s]) : Unlock(c)[s][j] = queue[s][i] /\ queue[s][i].c # c
               /\ \A d : d # c /\ GrantedIn(queue[s], d) => GrantedIn(Unlock(c)[s], d)
    <2> DEFINE q == queue[s]
               u == Unlock(c)[s]
    <2>1. u \in Seq(Entries) /\ q \in Seq(Entries) /\ Distinct(q)
      BY <1>0, Unlocked
    <2>2. \/ u = q /\ \A i \in 1 .. Len(q) : q[i].c # c
          \/ \E k \in 1 .. Len(q) :
                /\ q[k].c = c /\ Len(u) = Len(q) - 1
                /\ \A j \in 1 .. Len(q) - 1 : u[j] = IF j < k THEN q[j] ELSE q[j + 1]
      BY <1>0, Unlocked
    <2> HIDE DEF q, u
    <2>3. /\ \A j \in 1 .. Len(u) : \E i \in 1 .. Len(q) : u[j] = q[i] /\ q[i].c # c
          /\ Distinct(u)
          /\ \A d : d # c /\ GrantedIn(q, d) => GrantedIn(u, d)
      BY <2>1, <2>2, LeavesQueue
    <2> QED BY <2>1, <2>3 DEF q, u
  <1>q. ASSUME NEW c \in Calls, queue' = Unlock(c)
        PROVE  Queued(c) /\ \A s \in Streams : \A j \in 1 .. Len(queue'[s]) : queue'[s][j].c # c
    <2>1. ASSUME NEW s \in Streams
          PROVE  /\ Distinct(queue'[s])
                 /\ \A j \in 1 .. Len(queue'[s]) :
                       \E i \in 1 .. Len(queue[s]) : queue'[s][j] = queue[s][i] /\ queue'[s][j].c # c
                 /\ \A d : d # c /\ GrantedIn(queue[s], d) => GrantedIn(queue'[s], d)
      <3>1. queue'[s] = Unlock(c)[s]
        BY <1>q
      <3>2. /\ Distinct(Unlock(c)[s])
            /\ \A j \in 1 .. Len(Unlock(c)[s]) :
                  \E i \in 1 .. Len(queue[s]) : Unlock(c)[s][j] = queue[s][i] /\ queue[s][i].c # c
            /\ \A d : d # c /\ GrantedIn(queue[s], d) => GrantedIn(Unlock(c)[s], d)
        BY <1>u
      <3>3. \A j \in 1 .. Len(Unlock(c)[s]) :
               \E i \in 1 .. Len(queue[s]) :
                  Unlock(c)[s][j] = queue[s][i] /\ Unlock(c)[s][j].c # c
        BY <3>2, Zenon
      <3> QED BY <3>1, <3>2, <3>3, Zenon
    <2> QED BY <2>1, Zenon DEF Queued
  <1>e. ASSUME NEW s \in Streams, NEW i \in 1 .. Len(queue[s])
        PROVE  queue[s][i].c \in Calls
    <2>1. queue[s][i] \in Entries
      BY <1>0
    <2> QED BY <2>1 DEF Entries
  <1>x. ASSUME NEW c \in Calls, call[c].pc \in {"idle", "answer", "refusing"}, NEW s \in Streams,
               NEW i \in 1 .. Len(queue[s])
        PROVE  queue[s][i].c # c
    BY <1>x DEF GuardInv
  <1>2. ASSUME NEW c \in Calls, Joins(c) PROVE GuardInv'
    <2>1. Others(c) /\ call[c].pc = "idle" /\ call'[c].s \in Streams
      BY <1>2 DEF Joins
    <2>2. CASE binding = "ffi"
      <3>1. UNCHANGED queue
        BY <1>2, <2>2 DEF Joins
      <3>2. Queued(c)
        BY <1>s, <3>1
      <3>3. Own(c)
        BY <1>x, <2>1, <2>2, <3>1 DEF Own
      <3> QED BY <1>1, <1>n, <2>1, <3>2, <3>3, GuardKept
    <2>3. CASE binding # "ffi"
      <3> DEFINE s == call'[c].s
      <3>1. PICK access \in {"r", "w"} :
               /\ call'[c].op = "close" \/ binding \in {"jni", "node"} => access = "w"
               /\ queue' = [queue EXCEPT ![s] = Append(@, [c |-> c, access |-> access])]
        BY <1>2, <2>3 DEF Joins
      <3>2. call'[c].pc = "queued" /\ call'[c].op # "closing"
        BY <1>2, <2>3 DEF Joins, Works
      <3> DEFINE e == [c |-> c, access |-> access]
      <3>3. e \in Entries /\ e.c = c /\ e.access = access
        BY DEF Entries
      <3>4. s \in Streams
        BY <2>1
      <3> HIDE DEF s, e
      <3>5. /\ queue'[s] = Append(queue[s], e)
            /\ \A t \in Streams : t # s => queue'[t] = queue[t]
        BY <1>0, <3>1, <3>4 DEF e
      <3>6. /\ \A j \in 1 .. Len(queue'[s]) : queue'[s][j] = e \/ \E i \in 1 .. Len(queue[s]) : queue'[s][j] = queue[s][i]
            /\ Distinct(queue'[s])
            /\ \A d : GrantedIn(queue[s], d) => GrantedIn(queue'[s], d)
        <4>1. queue[s] \in Seq(Entries) /\ Distinct(queue[s]) /\ \A i \in 1 .. Len(queue[s]) : queue[s][i].c # e.c
          BY <1>0, <1>x, <2>1, <3>3, <3>4
        <4> QED BY <3>3, <3>5, <4>1, JoinsQueue
      <3>7. Queued(c)
        <4>1. ASSUME NEW t \in Streams
              PROVE  /\ Distinct(queue'[t])
                     /\ \A j \in 1 .. Len(queue'[t]) :
                           queue'[t][j].c # c => \E i \in 1 .. Len(queue[t]) : queue'[t][j] = queue[t][i]
                     /\ \A d : d # c /\ GrantedIn(queue[t], d) => GrantedIn(queue'[t], d)
          <5>1. CASE t # s
            BY <1>0, <3>5, <5>1
          <5>2. CASE t = s
            BY <3>3, <3>6, <5>2
          <5> QED BY <5>1, <5>2
        <4> QED BY <4>1 DEF Queued
      <3>8. ASSUME NEW t \in Streams, NEW j \in 1 .. Len(queue'[t]), queue'[t][j].c = c
            PROVE  t = s /\ queue'[t][j] = e
        <4>1. CASE t # s
          BY <1>x, <2>1, <3>5, <3>8, <4>1
        <4>2. CASE t = s
          BY <1>x, <2>1, <3>4, <3>6, <3>8, <4>2
        <4> QED BY <4>1, <4>2
      <3>9. Own(c)
        BY <3>1, <3>2, <3>3, <3>8 DEF Own, s
      <3> QED BY <1>1, <1>n, <2>1, <3>7, <3>9, GuardKept
    <2> QED BY <2>2, <2>3
  <1>3. ASSUME NEW c \in Calls, UNCHANGED queue, Others(c), Own(c) PROVE GuardInv'
    BY <1>1, <1>3, <1>n, <1>s, GuardKept
  <1>4. ASSUME NEW c \in Calls, Creates(c) PROVE GuardInv'
    <2>1. Own(c)
      BY <1>4, <1>x DEF Own, Creates
    <2> QED BY <1>3, <1>4, <2>1 DEF Creates
  <1>5. ASSUME NEW c \in Calls, Continues(c) PROVE GuardInv'
    <2>1. binding # "ffi" => GrantedIn(queue[call[c].s], c)
      <3>1. call[c].pc = "native" /\ call[c].op # "recreate"
        BY <1>5 DEF Continues, Ingests
      <3> QED BY <3>1 DEF GuardInv, Granted, GrantedIn
    <2>2. ASSUME NEW s \in Streams, NEW j \in 1 .. Len(queue[s]), queue[s][j].c = c
          PROVE  /\ call[c].s = s
                 /\ call[c].op = "close" \/ binding \in {"jni", "node"} => queue[s][j].access = "w"
      BY <2>2 DEF GuardInv
    <2>3. Own(c)
      BY <1>5, <2>1, <2>2 DEF Own, Continues, Keeps, Ingests
    <2> QED BY <1>3, <1>5, <2>3 DEF Continues, Keeps
  <1>6. ASSUME NEW c \in Calls, Gets(c) PROVE GuardInv'
    <2>1. GrantedIn(queue[call[c].s], c) /\ UNCHANGED queue
      BY <1>6 DEF Gets, Acquires, Acquire, Granted, GrantedIn
    <2>2. ASSUME NEW s \in Streams, NEW j \in 1 .. Len(queue[s]), queue[s][j].c = c
          PROVE  /\ call[c].s = s
                 /\ call[c].op \in {"close", "closing"} \/ binding \in {"jni", "node"} => queue[s][j].access = "w"
      BY <2>2 DEF GuardInv
    <2>3. Own(c)
      BY <1>6, <2>1, <2>2 DEF Own, Gets, Keeps
    <2> QED BY <1>3, <1>6, <2>1, <2>3 DEF Gets, Keeps
  <1>7. ASSUME NEW c \in Calls, Grabs(c) PROVE GuardInv'
    <2>1. CASE UNCHANGED queue
      <3>1. GrantedIn(queue[call[c].s], c)
        BY <1>7 DEF Grabs, Takes, Granted, GrantedIn
      <3>2. ASSUME NEW s \in Streams, NEW j \in 1 .. Len(queue[s]), queue[s][j].c = c
            PROVE  /\ call[c].s = s
                   /\ call[c].op \in {"close", "closing"} \/ binding \in {"jni", "node"} => queue[s][j].access = "w"
        BY <3>2 DEF GuardInv
      <3>3. Own(c)
        BY <1>7, <2>1, <3>1, <3>2 DEF Own, Grabs
      <3> QED BY <1>3, <1>7, <2>1, <3>3 DEF Grabs
    <2>2. CASE queue' = Unlock(c) /\ binding = "jni" /\ call[c].op = "recreate"
      <3>1. Queued(c) /\ Own(c)
        BY <1>7, <1>q, <2>2 DEF Own, Grabs
      <3> QED BY <1>1, <1>7, <1>n, <3>1, GuardKept DEF Grabs
    <2> QED BY <1>7, <2>1, <2>2 DEF Grabs, Takes
  <1>8. ASSUME NEW c \in Calls, Proceeds(c) PROVE GuardInv'
    <2>2. ASSUME NEW s \in Streams, NEW j \in 1 .. Len(queue[s]), queue[s][j].c = c
          PROVE  /\ call[c].s = s
                 /\ call[c].op \in {"close", "closing"} \/ binding \in {"jni", "node"} => queue[s][j].access = "w"
      BY <2>2 DEF GuardInv
    <2>3. Own(c)
      BY <1>8, <2>2 DEF Own, Proceeds, Keeps
    <2> QED BY <1>3, <1>8, <2>3 DEF Proceeds, Keeps
  <1>9. ASSUME NEW c \in Calls, Finishes(c) PROVE GuardInv'
    <2>0. Others(c) /\ call'[c].pc \in {"idle", "answer"}
      BY <1>9, IdleTypes DEF Finishes
    <2>1. CASE call[c].pc = "refusing"
      <3>1. UNCHANGED queue
        BY <1>9, <2>1 DEF Finishes
      <3>2. Own(c)
        BY <1>x, <2>0, <2>1, <3>1 DEF Own
      <3> QED BY <1>3, <2>0, <3>1, <3>2
    <2>2. CASE call[c].pc # "refusing"
      <3>1. queue' = Unlock(c)
        BY <1>9, <2>2 DEF Finishes
      <3>2. Queued(c) /\ Own(c)
        BY <1>q, <2>0, <3>1 DEF Own
      <3> QED BY <1>1, <1>n, <2>0, <3>2, GuardKept
    <2> QED BY <2>1, <2>2
  <1>10. ASSUME NEW c \in Calls, Returns(c) PROVE GuardInv'
    <2>1. call[c].pc = "answer" /\ UNCHANGED queue /\ Others(c) /\ call'[c].pc = "idle"
      BY <1>10, IdleTypes DEF Returns, Ends
    <2>2. Own(c)
      BY <1>x, <2>1 DEF Own
    <2> QED BY <1>3, <2>1, <2>2
  <1>11. ASSUME NEW c \in Calls, Relocks(c) PROVE GuardInv'
    <2> DEFINE s == call[c].s
               e == [c |-> c, access |-> "w"]
    <2>0. s \in Streams /\ Others(c) /\ call'[c].s = s /\ call'[c].pc = "queued" /\ call'[c].op = "wait"
      BY <1>11 DEF Relocks, SlotInv, Keeps
    <2>1. e \in Entries /\ e.c = c /\ e.access = "w"
      BY DEF Entries
    <2>2. Unlock(c) \in [Streams -> Seq(Entries)] /\ queue' = [Unlock(c) EXCEPT ![s] = Append(@, e)]
      BY <1>0, <1>11, Unlocked DEF Relocks
    <2> HIDE DEF s, e
    <2>3. /\ queue'[s] = Append(Unlock(c)[s], e)
          /\ \A t \in Streams : t # s => queue'[t] = Unlock(c)[t]
      BY <2>0, <2>2
    <2>4. /\ \A j \in 1 .. Len(queue'[s]) :
                queue'[s][j] = e \/ \E i \in 1 .. Len(Unlock(c)[s]) : queue'[s][j] = Unlock(c)[s][i]
          /\ Distinct(queue'[s])
          /\ \A d : GrantedIn(Unlock(c)[s], d) => GrantedIn(queue'[s], d)
      <3>1. /\ Unlock(c)[s] \in Seq(Entries) /\ Distinct(Unlock(c)[s])
            /\ \A i \in 1 .. Len(Unlock(c)[s]) : Unlock(c)[s][i].c # e.c
        BY <1>u, <2>0, <2>1
      <3>2. /\ \A j \in 1 .. Len(Append(Unlock(c)[s], e)) :
                  \/ Append(Unlock(c)[s], e)[j] = e
                  \/ \E i \in 1 .. Len(Unlock(c)[s]) : Append(Unlock(c)[s], e)[j] = Unlock(c)[s][i]
            /\ Distinct(Append(Unlock(c)[s], e))
            /\ \A d : GrantedIn(Unlock(c)[s], d) => GrantedIn(Append(Unlock(c)[s], e), d)
        BY ZenonT(60), <2>1, <3>1, JoinsQueue
      <3> QED BY ZenonT(60), <2>3, <3>2
    <2>5. ASSUME NEW t \in Streams, NEW j \in 1 .. Len(queue'[t])
          PROVE  \/ t = s /\ queue'[t][j] = e
                 \/ \E i \in 1 .. Len(queue[t]) : queue'[t][j] = queue[t][i] /\ queue[t][i].c # c
      <3>1. CASE t # s
        BY <1>u, <2>3, <3>1
      <3>2. CASE t = s
        <4>1. queue'[s][j] = e \/ \E i \in 1 .. Len(Unlock(c)[s]) : queue'[s][j] = Unlock(c)[s][i]
          BY <2>4, <3>2
        <4>2. ASSUME NEW n \in 1 .. Len(Unlock(c)[s]), queue'[s][j] = Unlock(c)[s][n]
              PROVE  \E i \in 1 .. Len(queue[s]) : queue'[s][j] = queue[s][i] /\ queue[s][i].c # c
          BY <1>u, <2>0, <4>2
        <4> QED BY <3>2, <4>1, <4>2
      <3> QED BY <3>1, <3>2
    <2>6. Queued(c)
      <3>1. ASSUME NEW t \in Streams, NEW d, d # c, GrantedIn(queue[t], d) PROVE GrantedIn(queue'[t], d)
        <4>1. GrantedIn(Unlock(c)[t], d)
          BY <1>u, <3>1
        <4> QED BY <2>3, <2>4, <4>1
      <3>2. \A t \in Streams : Distinct(queue'[t])
        BY <1>u, <2>3, <2>4
      <3> QED BY <2>1, <2>5, <3>1, <3>2 DEF Queued
    <2>7. Own(c)
      BY <2>0, <2>1, <2>5 DEF Own
    <2> QED BY <1>1, <2>0, <2>6, <2>7, GuardKept
  <1>12. ASSUME UNCHANGED <<queue, call>> PROVE GuardInv'
    <2>1. queue' = queue /\ call' = call /\ binding' = binding
      BY <1>1, <1>12 DEF Fits, layer
    <2>2. \A c \in Calls : Granted(c, call[c].s)' <=> Granted(c, call[c].s)
      BY <2>1 DEF Granted
    <2> QED BY <2>1, <2>2 DEF GuardInv
  <1> QED BY <1>1, <1>2, <1>4, <1>5, <1>6, <1>7, <1>8, <1>9, <1>10, <1>11, <1>12
         DEF Moves, Elsewhere, FreeHandle

-----------------------------------------------------------------------------
(* What a call holds *)

\* What a call holds, by its own steps.
LEMMA HoldStep ==
    ASSUME BindingTypes, SlotInv, GuardInv, HoldInv, Step, NEW d \in Calls
    PROVE  /\ call'[d].pc \in {"queued", "native"} => call'[d].hold # "none"
           /\ call'[d].pc = "queued" => call'[d].op # "closing"
           /\ call'[d].pc = "native" /\ binding \in {"jni", "node"} /\ call'[d].op \in {"close", "closing"} =>
                 call'[d].hold = "owned"
           /\ call'[d].pc = "native" /\ binding = "jni" /\ call'[d].op = "recreate" => call'[d].hold = "owned"
           /\ call'[d].hold \in {"borrow", "arc", "raw", "owned"} => call'[d].s \in Streams
           /\ call'[d].hold \in {"borrow", "raw"} /\ call'[d].pc # "answer" =>
                 /\ handle[call'[d].s] = "live" /\ (call'[d].mode = "sync" \/ call'[d].hold = "raw")
                 /\ \/ call'[d] = call[d] \/ UNCHANGED handle
           /\ call'[d].pc = "native" /\ call'[d].hold # "owned" => ~taken[call'[d].s]
           /\ call'[d].pc # "answer" /\ call'[d].hold = "owned" =>
                 \/ call[d].pc # "answer" /\ call[d].hold = "owned" /\ call'[d].s = call[d].s
                 \/ Grabs(d)
  <1>b. binding \in {"ffi", "jni", "node", "python"}
    BY DEF BindingTypes
  <1>0. CASE call'[d] = call[d]
    BY <1>0 DEF HoldInv
  <1>1. CASE Joins(d)
    BY <1>1, <1>b DEF Joins, HoldInv, Works
  <1>2. CASE Creates(d)
    BY <1>2 DEF Creates
  <1>3. CASE Continues(d)
    BY <1>3 DEF Continues, Keeps, HoldInv
  <1>4. CASE Relocks(d)
    BY <1>4 DEF Relocks, Keeps, HoldInv
  <1>5. CASE Gets(d)
    <2>1. /\ call[d].pc = "queued" /\ Keeps(d) /\ call'[d].pc = "native" /\ call'[d].op = call[d].op
          /\ UNCHANGED handle /\ call[d].s \in Streams
          /\ binding \in {"jni", "node"} => ~taken[call[d].s] /\ call[d].op # "close"
          /\ binding = "jni" => call[d].op # "recreate"
      BY <1>5 DEF Gets, Acquires, Acquire, SlotInv
    <2>2. ~taken[call[d].s]
      BY <1>b, <2>1 DEF HoldInv
    <2> QED BY <2>1, <2>2 DEF Keeps, HoldInv
  <1>6. CASE Grabs(d)
    BY <1>6 DEF Grabs, Takes, SlotInv
  <1>7. CASE Proceeds(d)
    <2>1. call[d].pc # "answer" /\ UNCHANGED handle
      BY <1>7 DEF Proceeds, Reopens, Native, CallsBack, CreateHeaders, HeadersDone
    <2> QED BY <1>7, <2>1 DEF Proceeds, Keeps, HoldInv
  <1>8. CASE Finishes(d)
    <2>1. CASE call'[d] = Idle
      BY <2>1 DEF Idle
    <2>2. CASE call'[d] # Idle
      BY <1>8, <2>2 DEF Finishes, HoldInv
    <2> QED BY <2>1, <2>2
  <1>9. CASE Returns(d)
    BY <1>9 DEF Returns, Idle
  <1> QED BY <1>0, <1>1, <1>2, <1>3, <1>4, <1>5, <1>6, <1>7, <1>8, <1>9, CallStep DEF Step

\* Two calls of a binding with a mutex never have the guard of a stream both.
LEMMA OneWriter ==
    ASSUME BindingTypes, GuardInv, NEW c \in Calls, NEW d \in Calls, NEW s \in Streams,
           Granted(c, s), Granted(d, s),
           binding \in {"jni", "node"} \/ call[c].op \in {"close", "closing"}
    PROVE  c = d
  <1>1. PICK i \in 1 .. Len(queue[s]) :
           /\ queue[s][i].c = c
           /\ \A j \in 1 .. (i - 1) : queue[s][i].access = "r" /\ queue[s][j].access = "r"
    BY DEF Granted
  <1>2. PICK k \in 1 .. Len(queue[s]) :
           /\ queue[s][k].c = d
           /\ \A j \in 1 .. (k - 1) : queue[s][k].access = "r" /\ queue[s][j].access = "r"
    BY DEF Granted
  <1>3. queue[s][i].access = "w"
    BY <1>1 DEF GuardInv
  <1>4. Len(queue[s]) \in Nat
    BY LenProperties DEF BindingTypes
  <1>5. ~(k < i)
    BY <1>1, <1>3, <1>4
  <1>6. ~(i < k)
    BY <1>2, <1>3, <1>4
  <1>7. i = k
    BY <1>4, <1>5, <1>6
  <1> QED BY <1>1, <1>2, <1>7

\* A step preserves HoldInv: a handle that a call works on is not freed, and a stream is
\* taken out by a call that has the guard alone.
LEMMA HoldInvStep ==
    ASSUME BindingTypes, SlotInv, GuardInv, HoldInv, Next
    PROVE  HoldInv'
  <1>1. Step /\ binding' = binding
    BY EveryStep DEF Step, Fits, layer
  <1>0. /\ handle \in [Streams -> {"none", "live", "freed", "leaked"}] /\ taken \in [Streams -> BOOLEAN]
        /\ call \in [Calls -> CallRecords] /\ call' \in [Calls -> CallRecords]
    BY <1>1 DEF BindingTypes, Step, Fits
  <1>n. ASSUME NEW d \in Calls
        PROVE  /\ call[d].new # NULL => call[d].new \in Streams
               /\ call'[d].new # NULL => call'[d].new \in Streams
               /\ call[d].new # NULL /\ call[d].pc # "answer" => handle[call[d].new] = "none"
    BY ZenonT(60), <1>0 DEF CallRecords, Slots, SlotInv
  <1>t. ASSUME NEW s \in Streams, taken'[s] # taken[s]
        PROVE  /\ ~taken[s] /\ taken'[s] = TRUE /\ binding \in {"jni", "node"}
               /\ \E c \in Calls : Grabs(c) /\ call[c].s = s
    <2>1. PICK c \in Calls : Grabs(c)
      BY <1>1, <1>t DEF Step, Moves, Joins, Creates, Continues, Relocks, Gets, Acquires, Acquire,
         Proceeds, Finishes, Returns, Ends, FreeHandle, Elsewhere
    <2>2. ~taken[call[c].s] /\ taken' = [taken EXCEPT ![call[c].s] = TRUE] /\ binding \in {"jni", "node"}
      BY <2>1 DEF Grabs, Takes
    <2>3. call[c].s = s
      BY <1>0, <1>t, <2>2
    <2> QED BY <1>0, <2>1, <2>2, <2>3
  <1>g. ASSUME NEW c \in Calls, Grabs(c)
        PROVE  /\ call[c].s \in Streams /\ call[c].pc = "queued" /\ Granted(c, call[c].s)
               /\ ~taken[call[c].s] /\ taken'[call[c].s] = TRUE /\ binding \in {"jni", "node"}
               /\ call'[c].s = call[c].s /\ call'[c].hold = "owned" /\ Others(c)
    BY <1>0, <1>g DEF Grabs, Takes, SlotInv
  <1>2. ASSUME NEW s \in Streams, handle[s] = "live", handle'[s] # "live"
        PROVE  FreeHandle(s)
    <2>1. ASSUME NEW c \in Calls, Returns(c) PROVE handle'[s] = handle[s]
      <3>1. CASE ~Created(c)
        BY <2>1, <3>1 DEF Returns, Ends
      <3>2. CASE Created(c)
        <4>1. call[c].pc = "answer" /\ \E end : handle' = [handle EXCEPT ![call[c].new] = end]
          BY <2>1, <3>2 DEF Returns, Ends
        <4>2. call[c].new \in Streams /\ call[c].new # NULL
          BY <3>2, <4>1, BindingsAssumption DEF SlotInv
        <4>3. handle[call[c].new] = "none"
          BY <4>2 DEF HoldInv
        <4> QED BY <1>0, <1>2, <4>1, <4>3
      <3> QED BY <3>1, <3>2
    <2>2. PICK u \in Streams : FreeHandle(u)
      BY <1>1, <1>2, <2>1 DEF Step, Moves, Joins, Creates, Continues, Relocks, Gets, Acquires, Acquire, Grabs,
         Takes, Proceeds, Finishes, Elsewhere
    <2>3. handle' = [handle EXCEPT ![u] = "freed"]
      BY <2>2 DEF FreeHandle
    <2>4. u = s
      BY <1>0, <1>2, <2>3
    <2> QED BY <2>2, <2>4
  <1>3. ASSUME NEW d \in Calls, call'[d].hold \in {"borrow", "raw"}, call'[d].pc # "answer"
        PROVE  handle'[call'[d].s] = "live" /\ (call'[d].mode = "sync" \/ call'[d].hold = "raw")
    <2>1. /\ handle[call'[d].s] = "live" /\ (call'[d].mode = "sync" \/ call'[d].hold = "raw")
          /\ call'[d].s \in Streams /\ (call'[d] = call[d] \/ UNCHANGED handle)
      BY <1>1, <1>3, HoldStep
    <2>2. CASE handle'[call'[d].s] # "live"
      <3>1. FreeHandle(call'[d].s) /\ call'[d] = call[d]
        BY <1>2, <2>1, <2>2
      <3>2. d \in OnHandle(call'[d].s)
        BY <1>3, <2>1, <3>1 DEF OnHandle
      <3> QED BY <3>1, <3>2 DEF FreeHandle
    <2> QED BY <2>1, <2>2
  <1>4. ASSUME NEW d \in Calls, call'[d].pc = "native", call'[d].hold # "owned"
        PROVE  ~taken'[call'[d].s]
    <2>1. ~taken[call'[d].s] /\ call'[d].s \in Streams
      BY <1>1, <1>4, HoldStep, SlotStep
    <2>2. CASE taken'[call'[d].s] # taken[call'[d].s]
      <3>1. PICK c \in Calls : Grabs(c) /\ call[c].s = call'[d].s
        BY <1>t, <2>1, <2>2
      <3>2. c # d
        BY <1>4, <1>g, <3>1
      <3>3. call'[d] = call[d]
        BY <1>g, <3>1, <3>2 DEF Others
      <3>4. ~(binding = "jni" /\ call[d].op = "recreate")
        BY <1>4, <3>3 DEF HoldInv
      <3>5. Granted(d, call[d].s)
        BY ZenonT(60), <1>4, <1>g, <3>1, <3>3, <3>4 DEF GuardInv
      <3> QED BY <1>g, <2>1, <3>1, <3>2, <3>3, <3>5, OneWriter
    <2> QED BY <2>1, <2>2
  <1>5. ASSUME NEW d \in Calls, call'[d].pc # "answer", call'[d].hold = "owned"
        PROVE  taken'[call'[d].s]
    <2>1. CASE Grabs(d)
      BY <1>g, <2>1
    <2>2. CASE call[d].pc # "answer" /\ call[d].hold = "owned" /\ call'[d].s = call[d].s
      <3>1. taken[call[d].s] /\ call[d].s \in Streams
        BY <2>2 DEF HoldInv
      <3> QED BY <1>t, <2>2, <3>1
    <2> QED BY <1>1, <1>5, <2>1, <2>2, HoldStep
  <1>6. ASSUME NEW c \in Calls, NEW d \in Calls, call'[c].pc # "answer", call'[c].hold = "owned",
               call'[d].pc # "answer", call'[d].hold = "owned", call'[c].s = call'[d].s
        PROVE  c = d
    <2>1. ASSUME NEW a \in Calls, NEW b \in Calls, a # b, Grabs(a), call'[b].pc # "answer",
                 call'[b].hold = "owned", call'[b].s = call'[a].s
          PROVE  FALSE
      <3>1. call'[b] = call[b]
        BY <1>g, <2>1 DEF Others
      <3>2. taken[call[b].s]
        BY <2>1, <3>1 DEF HoldInv
      <3> QED BY <1>g, <2>1, <3>1, <3>2
    <2>2. CASE ~Grabs(c) /\ ~Grabs(d)
      <3>1. /\ call[c].pc # "answer" /\ call[c].hold = "owned" /\ call'[c].s = call[c].s
            /\ call[d].pc # "answer" /\ call[d].hold = "owned" /\ call'[d].s = call[d].s
        BY <1>1, <1>6, <2>2, HoldStep
      <3> QED BY ZenonT(60), <1>6, <3>1 DEF HoldInv
    <2> QED BY <1>6, <2>1, <2>2
  <1>7. ASSUME binding' \in {"ffi", "python"}, NEW s \in Streams PROVE ~taken'[s]
    BY <1>1, <1>7, <1>t DEF HoldInv
  <1>8. ASSUME NEW d \in Calls, call'[d].new # NULL PROVE handle'[call'[d].new] = "none"
    <2>1. CASE NewSlot(call'[d].new) /\ call'[d].new # call[d].new
      <3>1. handle[call'[d].new] = "none"
        BY <1>8, <1>n, <2>1 DEF NewSlot, Unused, SlotInv
      <3>2. Joins(d) \/ Creates(d)
        <4>1. CASE call'[d].pc # "answer"
          BY <1>1, <1>8, <2>1, <4>1, SlotStep
        <4>2. CASE call'[d].pc = "answer"
          <5>1. \/ Joins(d) \/ Creates(d) \/ Continues(d) \/ Relocks(d) \/ Gets(d) \/ Grabs(d)
                \/ Proceeds(d) \/ Finishes(d) \/ Returns(d)
            BY <1>1, <2>1, CallStep DEF Step
          <5> QED BY <1>8, <2>1, <4>2, <5>1, IdleTypes DEF Continues, Relocks, Gets, Grabs, Keeps, Proceeds,
                     Finishes, Returns, Idle
        <4> QED BY <4>1, <4>2
      <3> QED BY <3>1, <3>2 DEF Joins, Creates
    <2>2. CASE call'[d].new = call[d].new
      <3>1. handle[call[d].new] = "none" /\ call[d].new \in Streams
        BY <1>8, <1>n, <2>2 DEF HoldInv
      <3>2. ASSUME NEW c \in Calls, Returns(c) PROVE handle'[call[d].new] = "none"
        <4>1. CASE ~Created(c)
          BY <3>1, <3>2, <4>1 DEF Returns, Ends
        <4>2. CASE Created(c)
          <5>1. call[c].pc = "answer" /\ call'[c] = Idle /\ \E end : handle' = [handle EXCEPT ![call[c].new] = end]
            BY <3>2, <4>2 DEF Returns, Ends
          <5>2. c # d
            BY <1>8, <5>1 DEF Idle
          <5>3. call[c].new # call[d].new
            BY <1>8, <2>2, <5>2 DEF SlotInv
          <5> QED BY <1>0, <3>1, <5>1, <5>3
        <4> QED BY <4>1, <4>2
      <3>3. ASSUME NEW s \in Streams, FreeHandle(s) PROVE handle'[call[d].new] = "none"
        BY <1>0, <3>1, <3>3 DEF FreeHandle
      <3>4. \/ \E c \in Calls : Returns(c)
            \/ \E s \in Streams : FreeHandle(s)
            \/ UNCHANGED handle
        BY ZenonT(60), <1>1 DEF Step, Moves, Joins, Creates, Continues, Relocks, Gets, Acquires, Acquire, Grabs,
           Takes, Proceeds, Finishes, Elsewhere
      <3> QED BY <2>2, <3>1, <3>2, <3>3, <3>4
    <2> QED BY <1>1, <1>8, <2>1, <2>2, SlotStep
  <1>9. ASSUME NEW d \in Calls
        PROVE  /\ call'[d].pc \in {"queued", "native"} => call'[d].hold # "none"
               /\ call'[d].pc = "queued" => call'[d].op # "closing"
               /\ (/\ call'[d].pc = "native" /\ binding' \in {"jni", "node"}
                   /\ call'[d].op \in {"close", "closing"}) => call'[d].hold = "owned"
               /\ call'[d].pc = "native" /\ binding' = "jni" /\ call'[d].op = "recreate" => call'[d].hold = "owned"
               /\ call'[d].hold \in {"borrow", "arc", "raw", "owned"} => call'[d].s \in Streams
    BY <1>1, HoldStep
  <1> QED BY <1>3, <1>4, <1>5, <1>6, <1>7, <1>8, <1>9 DEF HoldInv

-----------------------------------------------------------------------------
(* Streams and providers *)

\* The stream of a call that runs, or is about to, is there.
LEMMA Alive ==
    ASSUME BindingTypes, SlotInv, HoldInv, NEW c \in Calls,
           call[c].pc = "native" \/ (call[c].pc = "queued" /\ ~taken[call[c].s])
    PROVE  call[c].s \in Streams /\ Exists(call[c].s)
  <1>1. call[c].s \in Streams /\ stream[call[c].s].st # "none" /\ Active(c)
    BY BindingsAssumption DEF SlotInv, Active
  <1>2. call[c].hold \in {"borrow", "arc", "raw", "owned"}
    BY DEF HoldInv, BindingTypes, CallRecords
  <1>3. CASE call[c].hold = "owned"
    BY <1>1, <1>3 DEF Exists
  <1>4. CASE call[c].hold # "owned"
    <2>1. ~taken[call[c].s]
      BY <1>4 DEF HoldInv
    <2>2. CASE call[c].hold = "arc"
      BY <1>1, <2>1, <2>2 DEF Exists
    <2>3. CASE call[c].hold \in {"borrow", "raw"}
      <3>1. handle[call[c].s] = "live"
        BY <2>3 DEF HoldInv
      <3> QED BY <1>1, <2>1, <3>1 DEF Exists
    <2> QED BY <1>2, <1>4, <2>2, <2>3
  <1> QED BY <1>1, <1>3, <1>4

\* A stream that is gone does not come back.
LEMMA StaysGone ==
    ASSUME BindingTypes, SlotInv, GuardInv, HoldInv, Step, NEW s \in Streams, stream[s].st # "none",
           Exists(s)'
    PROVE  Exists(s)
  <1>0. /\ handle \in [Streams -> {"none", "live", "freed", "leaked"}] /\ taken \in [Streams -> BOOLEAN]
        /\ call \in [Calls -> CallRecords]
    BY DEF BindingTypes
  <1>t. ~taken'[s] => ~taken[s]
    <2>1. ASSUME NEW c \in Calls, Grabs(c) PROVE taken'[s] = taken[s] \/ taken'[s] = TRUE
      <3>1. taken' = [taken EXCEPT ![call[c].s] = TRUE]
        BY <2>1 DEF Grabs, Takes
      <3> QED BY <1>0, <3>1
    <2>2. taken'[s] = taken[s] \/ taken'[s] = TRUE
      BY <2>1 DEF Step, Moves, Joins, Creates, Continues, Relocks, Gets, Acquires, Acquire,
         Proceeds, Finishes, Returns, Ends, FreeHandle, Elsewhere
    <2> QED BY <2>2
  <1>1. CASE handle'[s] \in {"live", "leaked"} /\ ~taken'[s]
    <2>1. CASE handle[s] \in {"live", "leaked"}
      BY <1>1, <1>t, <2>1 DEF Exists
    <2>2. CASE handle[s] \notin {"live", "leaked"}
      <3>1. ASSUME NEW t \in Streams, FreeHandle(t) PROVE handle'[s] \in {handle[s], "freed"}
        <4>1. handle' = [handle EXCEPT ![t] = "freed"]
          BY <3>1 DEF FreeHandle
        <4> QED BY <1>0, <4>1
      <3>2. PICK c \in Calls : Returns(c)
        BY ZenonT(60), <1>1, <2>2, <3>1 DEF Step, Moves, Joins, Creates, Continues, Relocks, Gets, Acquires, Acquire,
           Grabs, Takes, Proceeds, Finishes, Elsewhere
      <3>3. /\ call[c].pc = "answer" /\ Created(c)
            /\ \E end : handle' = [handle EXCEPT ![call[c].new] = end]
        BY <1>1, <2>2, <3>2 DEF Returns, Ends
      <3>4. call[c].new = s
        BY <1>0, <1>1, <2>2, <3>3
      <3> QED BY <3>3, <3>4 DEF Exists
    <2> QED BY <2>1, <2>2
  <1>2. ASSUME NEW d \in Calls, call'[d].pc = "answer", call'[d].new = s PROVE Exists(s)
    <2>0. call'[d].new # NULL
      BY <1>2, BindingsAssumption
    <2>1. CASE call'[d] = call[d]
      BY <1>2, <2>1 DEF Exists
    <2>2. CASE Finishes(d)
      <3>1. call[d].new = s /\ call[d].pc # "answer"
        BY <1>2, <2>0, <2>2, IdleTypes DEF Finishes
      <3>2. stream[s].st = "none"
        BY <1>2, <2>0, <3>1 DEF SlotInv
      <3> QED BY <3>2
    <2> QED BY <1>2, <2>1, <2>2, CallStep, IdleTypes DEF Step, Joins, Creates, Continues, Relocks, Gets, Grabs,
          Proceeds, Returns
  <1>3. ASSUME NEW d \in Calls, Active(d)', call'[d].s = s,
               \/ call'[d].hold = "arc" /\ ~taken'[s]
               \/ call'[d].hold = "owned" /\ call'[d].pc # "answer"
        PROVE  Exists(s)
    <2>1. CASE Joins(d)
      <3>1. handle[s] = "live" /\ call'[d].hold = "arc"
        BY <1>3, <2>1 DEF Joins
      <3> QED BY <1>3, <1>t, <3>1 DEF Exists
    <2>2. CASE Grabs(d)
      <3>1. call[d].pc = "queued" /\ ~taken[call[d].s] /\ call[d].s = s
        BY <1>3, <2>2 DEF Grabs, Takes
      <3> QED BY <3>1, Alive
    <2>3. CASE ~Joins(d) /\ ~Grabs(d)
      <3>1. /\ Active(d) /\ call[d].s = s /\ call[d].hold = call'[d].hold
            /\ call'[d].pc # "answer" => call[d].pc # "answer"
        <4>1. CASE call'[d] = call[d]
          BY <1>3, <4>1 DEF Active
        <4>2. CASE Continues(d) \/ Relocks(d)
          BY <1>3, <4>2 DEF Active, Continues, Relocks, Keeps
        <4>3. CASE Gets(d)
          BY <1>3, <4>3 DEF Active, Gets, Keeps, Acquires, Acquire
        <4>4. CASE Proceeds(d)
          <5>1. call[d].pc \notin {"answer", "idle"}
            BY <4>4 DEF Proceeds, Reopens, Native, CallsBack, CreateHeaders, HeadersDone
          <5> QED BY <1>3, <4>4, <5>1 DEF Active, Proceeds, Keeps
        <4>5. CASE Finishes(d)
          <5>1. call'[d] # Idle
            BY <1>3, IdleTypes DEF Active
          <5> QED BY <1>3, <4>5, <5>1 DEF Active, Finishes
        <4>6. CASE Creates(d)
          BY <1>3, <4>6 DEF Creates
        <4>7. CASE Returns(d)
          BY <1>3, <4>7, IdleTypes DEF Returns, Active
        <4> QED BY <2>3, <4>1, <4>2, <4>3, <4>4, <4>5, <4>6, <4>7, CallStep DEF Step
      <3> QED BY <1>3, <1>t, <3>1 DEF Exists
    <2> QED BY <2>1, <2>2, <2>3
  <1> QED BY <1>1, <1>2, <1>3 DEF Exists

\* A provider that nothing holds is not picked up again, except the one a creation brings.
LEMMA StaysReleased ==
    ASSUME BindingTypes, SlotInv, GuardInv, HoldInv, Step, NEW p \in Streams, Held(p)'
    PROVE  Held(p) \/ freed[p] = 0
  <1>0. /\ call \in [Calls -> CallRecords] /\ inHeaders \in SUBSET Streams
        /\ stream \in [Streams -> StreamRecords]
    BY DEF BindingTypes
  <1>p. p # NULL
    BY BindingsAssumption
  <1>1. ASSUME NEW s \in Streams, stream'[s].prov = p, Exists(s)' PROVE Held(p)
    <2>1. CASE stream[s].st # "none"
      <3>1. Exists(s) /\ stream[s].prov = p
        BY <1>1, <2>1, StaysGone DEF Step, Gentle
      <3> QED BY <3>1 DEF Held
    <2>2. CASE stream[s].st = "none"
      <3>1. stream'[s].st # "none"
        BY <1>1 DEF Exists
      <3>2. stream[s].prov = p /\ \E c \in Calls : call[c].pc = "connect" /\ call[c].new = s
        BY <1>1, <2>2, <3>1 DEF Step, Gentle
      <3> QED BY <3>2 DEF Held, Creating
    <2> QED BY <2>1, <2>2
  <1>2. ASSUME NEW s \in Streams, stream'[s].prov = p, s \in inHeaders' PROVE Held(p)
    <2>1. s \in inHeaders \/ (stream[s].st = "open" /\ Exists(s))
      BY ZenonT(60), <1>2 DEF Step, Moves, Joins, Creates, Continues, Relocks, Gets, Acquires, Acquire, Grabs, Takes,
         Proceeds, Finishes, Returns, Ends, FreeHandle, Elsewhere
    <2>2. stream[s].st # "none"
      BY <2>1 DEF SlotInv
    <2>3. stream[s].prov = p
      BY <1>2, <2>2 DEF Step, Gentle
    <2> QED BY <2>1, <2>3 DEF Held
  <1>3. ASSUME NEW d \in Calls, Creating(d)', stream'[call'[d].new].prov = p
        PROVE  Held(p) \/ freed[p] = 0
    <2>1. CASE Creates(d)
      <3>1. PICK v \in {call'[d].new, NULL} : stream' = [stream EXCEPT ![call'[d].new].prov = v]
        BY <2>1 DEF Creates
      <3>2. call'[d].new \in Streams /\ NewSlot(call'[d].new)
        BY <2>1 DEF Creates
      <3>3. stream'[call'[d].new].prov = v
        BY <1>0, <3>1, <3>2 DEF StreamRecords
      <3>4. p = call'[d].new
        BY <1>3, <1>p, <3>3
      <3> QED BY <3>2, <3>4 DEF NewSlot, Unused
    <2>2. CASE Proceeds(d) /\ Reopens(d)
      <3>1. /\ call[d].pc = "native" /\ call[d].op = "recreate" /\ call'[d].new = call[d].new
            /\ stream' = [stream EXCEPT ![call[d].new].prov = stream[call[d].s].prov]
        BY <2>2 DEF Proceeds, Keeps, Reopens, Native
      <3>2. call[d].new \in Streams /\ call[d].s \in Streams /\ Exists(call[d].s)
        BY <3>1, Alive DEF SlotInv
      <3>3. stream[call[d].s].prov = p
        BY <1>0, <1>3, <3>1, <3>2 DEF StreamRecords
      <3> QED BY <3>2, <3>3 DEF Held
    <2>3. CASE ~Creates(d) /\ ~Reopens(d)
      <3>1. Creating(d) /\ call'[d].new = call[d].new
        <4>1. CASE call'[d] = call[d]
          BY <1>3, <4>1 DEF Creating
        <4>2. CASE Proceeds(d)
          BY <1>3, <2>3, <4>2 DEF Creating, Proceeds, Keeps, CallsBack, CreateHeaders, HeadersDone
        <4>3. ~Joins(d) /\ ~Continues(d) /\ ~Relocks(d) /\ ~Gets(d) /\ ~Grabs(d) /\ ~Finishes(d) /\ ~Returns(d)
          BY <1>3, IdleTypes DEF Creating, Joins, Continues, Relocks, Gets, Grabs, Finishes, Returns
        <4> QED BY <2>3, <4>1, <4>2, <4>3, CallStep DEF Step
      <3> DEFINE n == call[d].new
      <3>2. n \in Streams /\ stream'[n].prov = p /\ n # NULL
        BY <1>3, <3>1, BindingsAssumption DEF SlotInv
      <3> HIDE DEF n
      <3>3. CASE stream'[n].prov = stream[n].prov
        BY <3>1, <3>2, <3>3 DEF Held, n
      <3>5. ASSUME NEW c \in Calls, Native(c, "recreate"), call[c].new = n PROVE FALSE
        <4>1. c = d
          BY <3>2, <3>5 DEF SlotInv, n
        <4> QED BY <3>1, <3>5, <4>1 DEF Creating, Native
      <3>6. ASSUME NEW c \in Calls, Provides(c, n, p) PROVE freed[p] = 0
        BY <1>p, <3>5, <3>6 DEF Provides
      <3> QED BY <3>2, <3>3, <3>6 DEF Step, Gentle
    <2>4. CASE Reopens(d) /\ ~Proceeds(d)
      <3>1. call[d].pc = "native"
        BY <2>4 DEF Reopens, Native
      <3>2. call'[d] = call[d] \/ Joins(d) \/ Creates(d) \/ Continues(d) \/ Relocks(d) \/ Gets(d) \/ Grabs(d)
            \/ Finishes(d) \/ Returns(d)
        BY <2>4, CallStep DEF Step
      <3>3. ~Joins(d) /\ ~Continues(d) /\ ~Relocks(d) /\ ~Gets(d) /\ ~Grabs(d) /\ ~Finishes(d) /\ ~Returns(d)
        BY <1>3, IdleTypes DEF Creating, Joins, Continues, Relocks, Gets, Grabs, Finishes, Returns
      <3>4. ~Creates(d) /\ call'[d] # call[d]
        BY <1>3, <3>1 DEF Creates, Creating
      <3> QED BY <3>2, <3>3, <3>4
    <2> QED BY <2>1, <2>2, <2>3, <2>4
  <1> QED BY <1>1, <1>2, <1>3 DEF Held

\* A step preserves ProvInv: what lets go of a provider last releases it.
LEMMA ProvInvStep ==
    ASSUME BindingTypes, SlotInv, GuardInv, HoldInv, ProvInv, Next
    PROVE  ProvInv'
  <1>1. Step /\ DropProviders /\ freed \in [Streams -> Int]
    BY EveryStep DEF BindingTypes
  <1>f. ASSUME NEW p \in Streams
        PROVE  freed'[p] = IF Held(p) /\ ~Held(p)' THEN freed[p] + 1 ELSE freed[p]
    BY <1>1 DEF DropProviders
  <1>2. ASSUME NEW p \in Streams
        PROVE  /\ freed'[p] \in {0, 1}
               /\ freed'[p] = 1 => ~Held(p)'
               /\ Held(p) => Held(p)' \/ freed'[p] = 1
               /\ freed[p] = 1 => freed'[p] = 1
    <2>0. freed[p] \in {0, 1} /\ (freed[p] = 1 => ~Held(p))
      BY DEF ProvInv
    <2>1. CASE Held(p) /\ ~Held(p)'
      BY <1>f, <2>0, <2>1
    <2>2. CASE Held(p) /\ Held(p)'
      BY <1>f, <2>0, <2>2
    <2>3. CASE ~Held(p)
      <3>1. Held(p)' => freed[p] = 0
        BY <1>1, <2>3, StaysReleased
      <3> QED BY <1>f, <2>0, <2>3, <3>1
    <2> QED BY <2>1, <2>2, <2>3
  <1>3. ASSUME NEW p \in given' PROVE Held(p)' \/ freed'[p] = 1
    <2>0. p \in Streams /\ given \in SUBSET Streams
      BY <1>1 DEF Step, Fits, BindingTypes
    <2>1. CASE p \in given
      BY <1>2, <2>0, <2>1 DEF ProvInv
    <2>2. CASE \E c \in Calls : call'[c].new = p /\ Creating(c)' /\ stream'[p].prov = p
      BY <2>2 DEF Held
    <2> QED BY <1>1, <2>1, <2>2 DEF Step
  <1>4. ASSUME NEW s \in Streams, stream'[s].prov # NULL PROVE stream'[s].prov \in given'
    <2>1. \A t \in Streams : stream[t].prov # NULL => stream[t].prov \in given'
      BY <1>1 DEF ProvInv, Step
    <2>2. ASSUME NEW c \in Calls, Provides(c, s, stream'[s].prov) PROVE stream'[s].prov \in given'
      <3>1. Native(c, "recreate") => call[c].s \in Streams
        BY DEF Native, SlotInv
      <3> QED BY <1>4, <2>1, <2>2, <3>1 DEF Provides
    <2> QED BY <1>1, <1>4, <2>1, <2>2 DEF Step, Gentle
  <1> QED BY <1>2, <1>3, <1>4 DEF ProvInv

-----------------------------------------------------------------------------
(* Callbacks *)

\* Who is inside the callback stays with the provider it called.
LEMMA SameProvider ==
    ASSUME BindingTypes, SlotInv, Step
    PROVE  /\ \A s \in inHeaders : stream'[s].prov = stream[s].prov
           /\ \A c \in Calls : call[c].pc = "callback" /\ call'[c].pc = "callback" /\ call'[c].new = call[c].new =>
                 stream'[call'[c].new].prov = stream[call[c].new].prov
  <1>1. ASSUME NEW s \in inHeaders PROVE stream'[s].prov = stream[s].prov
    <2>1. s \in Streams /\ stream[s].st # "none"
      BY DEF SlotInv, BindingTypes
    <2> QED BY <2>1 DEF Step, Gentle
  <1>2. ASSUME NEW c \in Calls, call[c].pc = "callback", call'[c].pc = "callback", call'[c].new = call[c].new
        PROVE  stream'[call[c].new].prov = stream[call[c].new].prov
    <2> DEFINE n == call[c].new
    <2>1. n \in Streams /\ n # NULL
      BY <1>2, BindingsAssumption DEF SlotInv, Creating
    <2>2. ASSUME NEW d \in Calls, NEW v, Provides(d, n, v) PROVE FALSE
      <3>1. CASE call[d].new = n
        <4>1. d = c
          BY <2>1, <3>1 DEF SlotInv
        <4> QED BY <1>2, <2>2, <4>1 DEF Provides
      <3>2. CASE call[d].new # n /\ call'[d].new = n
        <4>1. NewSlot(n)
          BY <2>1, <3>2, SlotStep
        <4> QED BY <4>1 DEF NewSlot, Unused
      <3> QED BY <2>2, <3>1, <3>2 DEF Provides
    <2> HIDE DEF n
    <2>3. stream'[n].prov = stream[n].prov
      BY <2>1, <2>2 DEF Step, Gentle
    <2> QED BY <2>3 DEF n
  <1> QED BY <1>1, <1>2

\* The creations inside the callback, as the steps change them: none enters or leaves, or c does.
Inside(c) == call[c].pc = "callback"

Still == \A c \in Calls : /\ Inside(c) <=> Inside(c)'
                          /\ Inside(c) => call'[c].new = call[c].new

Goes(c) == /\ Others(c) /\ UNCHANGED inHeaders /\ Inside(c) /\ ~Inside(c)' /\ GivesBack(c)

Comes(c) == /\ Others(c) /\ UNCHANGED inHeaders /\ ~Inside(c) /\ Inside(c)'
            /\ call'[c].new = call[c].new /\ UNCHANGED stream /\ Seizes(stream[call[c].new].prov)

\* How a step turns flag or lock of the providers.
Turns ==
    \/ Still /\ UNCHANGED <<busy, inHeaders>>
    \/ \E c \in Calls : Goes(c) \/ Comes(c)
    \/ \E s \in Streams : /\ UNCHANGED <<call, stream>> /\ s \notin inHeaders /\ inHeaders' = inHeaders \cup {s}
                          /\ Seizes(stream[s].prov)
    \/ \E s \in inHeaders : /\ UNCHANGED call /\ inHeaders' = inHeaders \ {s}
                            /\ busy' = [busy EXCEPT ![stream[s].prov] = FALSE]

\* Flag and lock are taken and given back by who enters the callback and leaves it, and by nobody else.
LEMMA TurnStep ==
    ASSUME BindingTypes, SlotInv, Enter \/ Runs
    PROVE  Turns
  <1>0. call \in [Calls -> CallRecords] /\ call' \in [Calls -> CallRecords]
    BY EnterMoves, RunsMoves DEF BindingTypes, Fits
  <1>1. ASSUME NEW c \in Calls, Others(c), ~Inside(c), ~Inside(c)', UNCHANGED <<busy, inHeaders>> PROVE Turns
    BY <1>1 DEF Others, Turns, Still, Inside
  <1>2. ASSUME UNCHANGED <<busy, inHeaders, call>> PROVE Turns
    BY <1>2 DEF Turns, Still, Inside
  <1>3. ASSUME Enter PROVE Turns
    <2>0. ASSUME NEW c \in Calls, NEW f, call[c].pc = "idle", f.pc # "callback", Begin(c, f),
                 UNCHANGED <<busy, inHeaders>>
          PROVE  Turns
      <3>1. Others(c) /\ call'[c] = f
        BY <1>0, <2>0 DEF Begin, Others
      <3> QED BY <1>1, <2>0, <3>1 DEF Inside
    <2>1. ASSUME NEW c \in Calls, NEW s \in Streams, NEW op, NEW mode, NEW hold, NEW off, NEW access,
                 Start(c, s, op, mode, hold, off) \/ Lock(c, s, op, mode, hold, access, off)
          PROVE  Turns
      <3> DEFINE f(pc) == [Idle EXCEPT !.op = op, !.s = s, !.mode = mode, !.hold = hold, !.pc = pc, !.off = off]
      <3>1. f("native").pc = "native" /\ f("queued").pc = "queued"
        BY DEF Idle
      <3>2. /\ Begin(c, f("native")) \/ Begin(c, f("queued"))
            /\ call[c].pc = "idle" /\ UNCHANGED <<busy, inHeaders>>
        BY <2>1 DEF Start, Lock, Free
      <3> HIDE DEF f
      <3> QED BY <2>0, <3>1, <3>2
    <2>2. ASSUME NEW c \in Calls, NEW s \in Streams, NEW mode, NEW custom \in BOOLEAN, NEW valid \in BOOLEAN,
                 Create(c, s, mode, custom, valid)
          PROVE  Turns
      <3> DEFINE pc == IF ~valid THEN "refusing" ELSE IF custom THEN "headers" ELSE "connect"
                 f == [Idle EXCEPT !.op = "create", !.new = s, !.mode = mode, !.pc = pc]
      <3>1. f.pc = pc /\ pc # "callback"
        BY DEF Idle
      <3>2. Begin(c, f) /\ call[c].pc = "idle" /\ UNCHANGED <<busy, inHeaders>>
        BY <2>2 DEF Create, Free
      <3> HIDE DEF f, pc
      <3> QED BY <2>0, <3>1, <3>2
    <2>3. ASSUME NEW c \in Calls, NEW s \in Streams, NEW new \in Streams, NEW mode, NEW hold, NEW access,
                 Recreate(c, s, new, mode, hold, access)
          PROVE  Turns
      <3> DEFINE pc == IF access = "none" THEN "native" ELSE "queued"
                 f == [Idle EXCEPT !.op = "recreate", !.s = s, !.new = new, !.mode = mode, !.hold = hold, !.pc = pc]
      <3>1. f.pc = pc /\ pc # "callback"
        BY DEF Idle
      <3>2. Begin(c, f) /\ call[c].pc = "idle" /\ UNCHANGED <<busy, inHeaders>>
        BY <2>3 DEF Recreate, Free
      <3> HIDE DEF f, pc
      <3> QED BY <2>0, <3>1, <3>2
    <2>4. ASSUME NEW c \in Calls, Refuse(c) PROVE Turns
      BY <1>2, <2>4 DEF Refuse
    <2>5. ASSUME NEW s \in Streams, FreeHandle(s) PROVE Turns
      BY <1>2, <2>5 DEF FreeHandle
    <2>6. ASSUME NEW c \in Calls, NEW s \in Streams, EnterFfi(c, s) \/ EnterGuard(c, s) \/ EnterCreate(c, s)
          PROVE  Turns
      BY <2>1, <2>2, <2>6 DEF EnterFfi, EnterGuard, EnterCreate
    <2>7. ASSUME NEW c \in Calls, NEW s \in Streams, NEW new \in Streams, EnterRecreate(c, s, new) PROVE Turns
      BY <2>3, <2>7 DEF EnterRecreate
    <2> QED BY <1>3, <2>4, <2>5, <2>6, <2>7 DEF Enter
  <1>a. ASSUME NEW c \in Calls, NEW res \in {"ok", "err", "refused"}, Answer(c, res) PROVE Others(c) /\ ~Inside(c)'
    BY <1>a, Answered, IdleTypes DEF Inside
  <1>p. ASSUME NEW c \in Calls, NEW pc, call' = [call EXCEPT ![c].pc = pc]
        PROVE  Others(c) /\ call'[c].pc = pc /\ call'[c].new = call[c].new
    BY <1>0, <1>p DEF Others, CallRecords
  <1>4. ASSUME NEW c \in Calls, Quits(c) PROVE Turns
    BY <1>1, <1>4, <1>a DEF Quits, Rest, Inside
  <1>5. ASSUME NEW c \in Calls, Checks(c) \/ GoesOn(c) PROVE Turns
    <2>1. Others(c) /\ call[c].pc = "native" /\ call'[c].pc = "native" /\ UNCHANGED <<busy, inHeaders>>
      BY <1>0, <1>5 DEF Checks, GoesOn, Rest, Others, CallRecords
    <2> QED BY <1>1, <2>1 DEF Inside
  <1>6. ASSUME NEW c \in Calls, Accepts(c) PROVE Turns
    <2>1. call[c].pc = "native" /\ UNCHANGED <<busy, inHeaders>>
      BY <1>6 DEF Accepts, Rest
    <2>2. CASE Answer(c, "ok")
      BY <1>1, <1>a, <2>1, <2>2 DEF Inside
    <2>3. CASE call' = [call EXCEPT ![c].op = "wait", ![c].recs = <<>>, ![c].off = Len(stream[call[c].s].log) + 1]
      <3>1. Others(c) /\ call'[c].pc = "native"
        BY <1>0, <2>1, <2>3 DEF Others, CallRecords
      <3> QED BY <1>1, <2>1, <3>1 DEF Inside
    <2>4. CASE call' = [call EXCEPT ![c].op = "wait", ![c].pc = "queued", ![c].recs = <<>>,
                                    ![c].off = Len(stream[call[c].s].log) + 1]
      <3>1. Others(c) /\ call'[c].pc = "queued"
        BY <1>0, <2>4 DEF Others, CallRecords
      <3> QED BY <1>1, <2>1, <3>1 DEF Inside
    <2> QED BY <1>6, <2>2, <2>3, <2>4 DEF Accepts
  <1>7. ASSUME NEW c \in Calls, NativeCloseEnd(c) \/ Connect(c) PROVE Turns
    <2>1. PICK res \in {"ok", "err"} : Answer(c, res)
      BY <1>7 DEF NativeCloseEnd, Connect
    <2>2. call[c].pc \in {"native", "connect"} /\ UNCHANGED <<busy, inHeaders>>
      BY <1>7 DEF NativeCloseEnd, Connect, Native, Rest
    <2> QED BY <1>1, <1>a, <2>1, <2>2 DEF Inside
  <1>8. ASSUME NEW c \in Calls, Reopens(c) PROVE Turns
    <2>1. Others(c) /\ call[c].pc = "native" /\ call'[c].pc \in {"headers", "connect"} /\ UNCHANGED <<busy, inHeaders>>
      BY <1>0, <1>8 DEF Reopens, Native, Rest, Others, CallRecords
    <2> QED BY <1>1, <2>1 DEF Inside
  <1>9. ASSUME NEW c \in Calls, CreateRefused(c) PROVE Turns
    <2>1. Others(c) /\ call[c].pc = "refusing" /\ call'[c].pc = "answer" /\ UNCHANGED <<busy, inHeaders>>
      BY <1>0, <1>9 DEF CreateRefused, Others, CallRecords
    <2> QED BY <1>1, <2>1 DEF Inside
  <1>10. ASSUME NEW c \in Calls, Acquires(c) \/ Takes(c) PROVE Turns
    <2>1. Others(c) /\ call[c].pc = "queued" /\ call'[c].pc = "native" /\ UNCHANGED <<busy, inHeaders>>
      BY <1>0, <1>10 DEF Acquires, Acquire, Takes, Others, CallRecords
    <2> QED BY <1>1, <2>1 DEF Inside
  <1>11. ASSUME NEW c \in Calls, Ends(c) \/ aio_cancel(c) PROVE Turns
    <2>1. Others(c) /\ ~Inside(c) /\ call'[c].pc = "idle" /\ UNCHANGED <<busy, inHeaders>>
      BY <1>0, <1>11, IdleTypes DEF Ends, aio_cancel, Others, Inside
    <2> QED BY <1>1, <2>1 DEF Inside
  <1>12. ASSUME NEW c \in Calls, CallsBack(c) PROVE Turns
    <2>1. /\ call[c].pc = "headers" /\ call' = [call EXCEPT ![c].pc = "callback"] /\ UNCHANGED <<stream, inHeaders>>
          /\ Seizes(stream[call[c].new].prov)
      BY <1>12 DEF CallsBack, CreateHeaders
    <2>2. Comes(c)
      BY <1>p, <2>1 DEF Comes, Inside
    <2> QED BY <2>2 DEF Turns
  <1>13. ASSUME NEW c \in Calls, HeadersDone(c) PROVE Turns
    <2>1. /\ call[c].pc = "callback" /\ call' = [call EXCEPT ![c].pc = "connect"] /\ UNCHANGED inHeaders
          /\ GivesBack(c)
      BY <1>13 DEF HeadersDone
    <2>2. Others(c) /\ call'[c].pc = "connect"
      BY <1>p, <2>1
    <2>3. Goes(c)
      BY <2>1, <2>2 DEF Goes, Inside
    <2> QED BY <2>3 DEF Turns
  <1>14. ASSUME NEW c \in Calls, GivesUp(c) PROVE Turns
    <2>1. /\ call[c].pc \in {"headers", "callback"} /\ Others(c) /\ ~Inside(c)' /\ UNCHANGED inHeaders
          /\ IF call[c].pc = "headers" THEN UNCHANGED busy ELSE GivesBack(c)
      BY <1>a, <1>14 DEF GivesUp, CreateFails
    <2>2. CASE call[c].pc = "headers"
      BY <1>1, <2>1, <2>2 DEF Inside
    <2>3. CASE call[c].pc = "callback"
      BY <2>1, <2>3 DEF Goes, Inside, Turns
    <2> QED BY <2>1, <2>2, <2>3
  <1>15. ASSUME NEW s \in Streams, ServerAck(s) \/ StreamFails(s) PROVE Turns
    BY <1>2, <1>15 DEF ServerAck, StreamFails
  <1>16. ASSUME NEW s \in Streams, SupervisorCallsBack(s) PROVE Turns
    BY <1>16 DEF SupervisorCallsBack, SupervisorHeaders, Turns
  <1>17. ASSUME NEW s \in Streams, SupervisorHeadersReturn(s) PROVE Turns
    BY <1>17 DEF SupervisorHeadersReturn, Turns
  <1> QED BY <1>3, <1>4, <1>5, <1>6, <1>7, <1>8, <1>9, <1>10, <1>11, <1>12, <1>13, <1>14, <1>15, <1>16, <1>17
          DEF Runs

\* A step preserves CallbackInv: who enters a callback finds flag or lock free, which means that
\* nobody is inside, and who leaves was alone.
LEMMA CallbackInvStep ==
    ASSUME BindingTypes, SlotInv, CallbackInv, Next
    PROVE  CallbackInv'
  <1>1. Step /\ Turns /\ binding' = binding /\ busy \in [Streams -> BOOLEAN]
    BY EveryStep, NextShape, TurnStep DEF Step, Fits, layer, BindingTypes
  <1> SUFFICES ASSUME binding \in {"ffi", "jni"}, NEW p \in Streams
               PROVE  (\A x, y \in Running(p)' : x = y) /\ (busy'[p] <=> Running(p)' # {})
    BY <1>1 DEF CallbackInv
  <1>i. (\A x, y \in Running(p) : x = y) /\ (busy[p] <=> Running(p) # {})
    BY DEF CallbackInv
  <1> DEFINE S(s) == <<"supervisor", s>>
             K(c) == <<"creation", c>>
             Cre(c) == Inside(c) /\ stream[call[c].new].prov = p
             CreP(c) == Inside(c)' /\ stream'[call'[c].new].prov = p
  <1>m. ASSUME NEW z
        PROVE  /\ z \in Running(p) <=> \/ \E s \in inHeaders : z = S(s) /\ stream[s].prov = p
                                       \/ \E c \in Calls : z = K(c) /\ Cre(c)
               /\ z \in Running(p)' <=> \/ \E s \in inHeaders' : z = S(s) /\ stream'[s].prov = p
                                        \/ \E c \in Calls : z = K(c) /\ CreP(c)
    BY DEF Running, Inside
  <1>d. ASSUME NEW s, NEW c, NEW d PROVE S(s) # K(c) /\ (S(s) = S(d) => s = d) /\ (K(c) = K(d) => c = d)
    OBVIOUS
  <1>s. \A s \in inHeaders : stream'[s].prov = p <=> stream[s].prov = p
    BY <1>1, SameProvider
  <1>k. \A c \in Calls : Inside(c) /\ Inside(c)' /\ call'[c].new = call[c].new => (CreP(c) <=> Cre(c))
    BY <1>1, SameProvider DEF Inside
  <1>o. ASSUME NEW c \in Calls, Others(c), NEW d \in Calls, d # c PROVE CreP(d) <=> Cre(d)
    <2>1. call'[d] = call[d]
      BY <1>o DEF Others
    <2>2. Inside(d) <=> Inside(d)'
      BY <2>1 DEF Inside
    <2> QED BY <1>k, <2>1, <2>2
  <1> HIDE DEF S, K, Cre, CreP
  <1>2. ASSUME Still, UNCHANGED <<busy, inHeaders>>
        PROVE  Running(p)' = Running(p) /\ busy'[p] = busy[p]
    <2>1. ASSUME NEW c \in Calls PROVE CreP(c) <=> Cre(c)
      <3>0. Still
        BY <1>2
      <3>1. (Inside(c) <=> Inside(c)') /\ (Inside(c) => call'[c].new = call[c].new)
        BY <3>0, Zenon DEF Still
      <3>2. CASE Inside(c)
        BY <1>k, <3>1, <3>2
      <3>3. CASE ~Inside(c)
        BY <3>1, <3>3 DEF Cre, CreP
      <3> QED BY <3>2, <3>3
    <2>2. \A z : z \in Running(p)' <=> z \in Running(p)
      BY <1>2, <1>m, <1>s, <2>1
    <2> QED BY <1>2, <2>2
  <1>3. ASSUME NEW c \in Calls, Goes(c)
        PROVE  (\A x, y \in Running(p)' : x = y) /\ (busy'[p] <=> Running(p)' # {})
    <2> DEFINE q == stream[call[c].new].prov
    <2>0. Others(c) /\ inHeaders' = inHeaders /\ Inside(c) /\ ~CreP(c) /\ busy' = [busy EXCEPT ![q] = FALSE]
      BY <1>3 DEF Goes, GivesBack, CreP
    <2>1. CASE q = p
      <3>1. K(c) \in Running(p)
        BY <1>m, <2>0, <2>1 DEF Cre
      <3>2. ASSUME NEW z \in Running(p)' PROVE FALSE
        <4>1. ASSUME NEW s \in inHeaders', z = S(s), stream'[s].prov = p PROVE FALSE
          <5>1. S(s) \in Running(p)
            BY <1>m, <1>s, <2>0, <4>1
          <5> QED BY <1>d, <1>i, <3>1, <5>1
        <4>2. ASSUME NEW d \in Calls, z = K(d), CreP(d) PROVE FALSE
          <5>1. d # c /\ Cre(d)
            BY <1>o, <2>0, <4>2
          <5>2. K(d) \in Running(p)
            BY <1>m, <5>1
          <5> QED BY <1>d, <1>i, <3>1, <5>1, <5>2
        <4> QED BY <1>m, <4>1, <4>2
      <3>3. busy'[p] = FALSE
        BY <1>1, <2>0, <2>1
      <3> QED BY <3>2, <3>3
    <2>2. CASE q # p
      <3>1. ~Cre(c)
        BY <2>2 DEF Cre
      <3>2. \A d \in Calls : CreP(d) <=> Cre(d)
        BY <1>o, <2>0, <3>1
      <3>3. \A z : z \in Running(p)' <=> z \in Running(p)
        BY <1>m, <1>s, <2>0, <3>2
      <3>4. busy'[p] = busy[p]
        BY <1>1, <2>0, <2>2
      <3> QED BY <1>i, <3>3, <3>4
    <2> QED BY <2>1, <2>2
  <1>z. ASSUME NEW q, NEW x, Seizes(q),
               IF q = p THEN \A z : z \in Running(p)' <=> z \in Running(p) \/ z = x
               ELSE \A z : z \in Running(p)' <=> z \in Running(p)
        PROVE  (\A a, b \in Running(p)' : a = b) /\ (busy'[p] <=> Running(p)' # {})
    <2>1. ~busy[q] /\ busy' = [busy EXCEPT ![q] = TRUE]
      BY <1>z DEF Seizes
    <2>2. CASE q = p
      <3>1. Running(p) = {} /\ busy'[p] = TRUE
        BY <1>1, <1>i, <2>1, <2>2
      <3> QED BY <1>z, <2>2, <3>1
    <2>3. CASE q # p
      <3>1. busy'[p] = busy[p]
        BY <1>1, <2>1, <2>3
      <3> QED BY <1>i, <1>z, <2>3, <3>1
    <2> QED BY <2>2, <2>3
  <1>4. ASSUME NEW c \in Calls, Comes(c)
        PROVE  (\A x, y \in Running(p)' : x = y) /\ (busy'[p] <=> Running(p)' # {})
    <2> DEFINE q == stream[call[c].new].prov
    <2>0. /\ Others(c) /\ inHeaders' = inHeaders /\ ~Cre(c) /\ Seizes(q) /\ (CreP(c) <=> q = p)
      BY <1>4 DEF Comes, Cre, CreP
    <2>1. \A d \in Calls : CreP(d) <=> Cre(d) \/ (d = c /\ q = p)
      BY <1>o, <2>0
    <2> HIDE DEF q
    <2>2. IF q = p THEN \A z : z \in Running(p)' <=> z \in Running(p) \/ z = K(c)
          ELSE \A z : z \in Running(p)' <=> z \in Running(p)
      BY <1>m, <1>s, <2>0, <2>1
    <2> QED BY <1>z, <2>0, <2>2
  <1>5. ASSUME NEW t \in Streams, UNCHANGED <<call, stream>>, t \notin inHeaders, inHeaders' = inHeaders \cup {t},
               Seizes(stream[t].prov)
        PROVE  (\A x, y \in Running(p)' : x = y) /\ (busy'[p] <=> Running(p)' # {})
    <2>1. \A d \in Calls : CreP(d) <=> Cre(d)
      BY <1>5 DEF Cre, CreP, Inside
    <2>2. IF stream[t].prov = p THEN \A z : z \in Running(p)' <=> z \in Running(p) \/ z = S(t)
          ELSE \A z : z \in Running(p)' <=> z \in Running(p)
      BY <1>5, <1>m, <2>1
    <2> QED BY <1>5, <1>z, <2>2
  <1>6. ASSUME NEW t \in inHeaders, UNCHANGED call, inHeaders' = inHeaders \ {t},
               busy' = [busy EXCEPT ![stream[t].prov] = FALSE]
        PROVE  (\A x, y \in Running(p)' : x = y) /\ (busy'[p] <=> Running(p)' # {})
    <2>0. \A d \in Calls : CreP(d) <=> Cre(d)
      <3>1. \A d \in Calls : call'[d].new = call[d].new /\ (Inside(d)' <=> Inside(d))
        BY <1>6 DEF Inside
      <3> QED BY <1>k, <3>1 DEF Cre, CreP
    <2>1. CASE stream[t].prov = p
      <3>1. S(t) \in Running(p)
        BY <1>m, <2>1
      <3>2. ASSUME NEW z \in Running(p)' PROVE FALSE
        <4>1. z \in Running(p) /\ z # S(t)
          BY <1>6, <1>d, <1>m, <1>s, <2>0
        <4> QED BY <1>i, <3>1, <4>1
      <3>3. busy'[p] = FALSE
        BY <1>1, <1>6, <2>1
      <3> QED BY <3>2, <3>3
    <2>2. CASE stream[t].prov # p
      <3>1. \A z : z \in Running(p)' <=> z \in Running(p)
        BY <1>6, <1>m, <1>s, <2>0, <2>2
      <3>2. busy'[p] = busy[p]
        BY <1>1, <1>6, <2>2
      <3> QED BY <1>i, <3>1, <3>2
    <2> QED BY <2>1, <2>2
  <1> QED BY <1>1, <1>2, <1>3, <1>4, <1>5, <1>6, <1>i DEF Turns

-----------------------------------------------------------------------------
(* Recreation *)

\* Only an ingest that runs has a record in hand, and it got it while its stream was open.
LEMMA HandStep ==
    ASSUME BindingTypes, SlotInv, ReplayInv, Step, NEW d \in Calls, call'[d].op \in Ingests, call'[d].recs # <<>>
    PROVE  \/ call'[d] = call[d]
           \/ call'[d].pc = "native" /\ call'[d].s = call[d].s /\ stream[call[d].s].st = "open"
  <1>1. CASE Joins(d) \/ Creates(d) \/ Returns(d)
    BY <1>1, IdleTypes DEF Joins, Creates, Returns
  <1>2. CASE Continues(d)
    BY <1>2 DEF Continues, Keeps, Ingests
  <1>3. CASE Relocks(d)
    BY <1>3 DEF Relocks, Ingests
  <1>4. CASE Gets(d)
    BY <1>4 DEF Gets, Acquires, Acquire, ReplayInv
  <1>5. CASE Grabs(d)
    BY <1>5 DEF Grabs, Takes, Ingests
  <1>6. CASE Proceeds(d)
    <2>1. CASE Reopens(d)
      BY <1>6, <2>1 DEF Proceeds, Reopens, Native, Ingests
    <2>2. CASE CallsBack(d) \/ HeadersDone(d)
      <3>1. call[d].pc \in {"headers", "callback"} /\ ~Reopens(d)
        BY <2>2 DEF CallsBack, CreateHeaders, HeadersDone, Reopens, Native
      <3> QED BY <1>6, <3>1 DEF Proceeds, ReplayInv
    <2> QED BY <1>6, <2>1, <2>2 DEF Proceeds
  <1>7. CASE Finishes(d)
    <2>1. call'[d] # Idle
      BY IdleTypes
    <2>2. call[d].pc = "refusing" /\ call[d].op \in Ingests /\ call[d].recs # <<>>
      BY <1>7, <2>1 DEF Finishes
    <2> QED BY <2>2 DEF ReplayInv
  <1> QED BY <1>1, <1>2, <1>3, <1>4, <1>5, <1>6, <1>7, CallStep DEF Step

\* What is in hand for a stream that has ended was in hand before.
LEMMA HandShrinks ==
    ASSUME BindingTypes, SlotInv, ReplayInv, Step, NEW s \in Streams, stream[s].st # "open"
    PROVE  InHand(s)' \subseteq InHand(s)
  <1> SUFFICES ASSUME NEW x, NEW d \in Calls, call'[d].s = s, call'[d].op \in Ingests, x \in ToSet(call'[d].recs)
               PROVE  x \in InHand(s)
    BY DEF InHand
  <1>1. call'[d].recs # <<>>
    BY EmptySet
  <1>2. call'[d] = call[d]
    BY <1>1, HandStep
  <1> QED BY <1>2 DEF InHand

\* Nothing is in hand for a stream that a recreation in Java or Node reads: it owns the stream or has
\* the guard alone.
LEMMA HandsEmpty ==
    ASSUME BindingTypes, SlotInv, GuardInv, HoldInv, ReplayInv, NEW c \in Calls, Native(c, "recreate"),
           binding \in {"jni", "node"}
    PROVE  InHand(call[c].s) = {}
  <1> SUFFICES ASSUME NEW d \in Calls, call[d].s = call[c].s, call[d].op \in Ingests, NEW x,
                      x \in ToSet(call[d].recs)
               PROVE  FALSE
    BY DEF InHand
  <1>1. call[d].recs # <<>>
    BY EmptySet
  <1>2. call[d].pc = "native" /\ d # c /\ call[d].op # "recreate" /\ call[c].pc = "native" /\ call[c].op = "recreate"
    BY <1>1 DEF ReplayInv, Native, Ingests
  <1>3. CASE binding = "jni"
    <2>1. call[c].hold = "owned" /\ taken[call[c].s]
      BY <1>2, <1>3 DEF HoldInv
    <2>2. call[d].hold = "owned"
      BY <1>2, <2>1 DEF HoldInv
    <2> QED BY <1>2, <2>1, <2>2 DEF HoldInv
  <1>4. CASE binding = "node"
    <2>1. Granted(c, call[c].s) /\ Granted(d, call[c].s) /\ call[c].s \in Streams
      BY <1>2, <1>4 DEF GuardInv, SlotInv
    <2> QED BY <1>2, <1>4, <2>1, OneWriter
  <1> QED BY <1>3, <1>4

\* A recreation after a step was one before, or has just read the old stream.
LEMMA ReplayingStep ==
    ASSUME BindingTypes, SlotInv, ReplayInv, Step, NEW d \in Calls, Replaying(d)'
    PROVE  \/ /\ Replaying(d) /\ call'[d].s = call[d].s /\ call'[d].late = call[d].late
              /\ Carried(d) \subseteq Carried(d)'
           \/ /\ Native(d, "recreate") /\ call[d].s \in Streams /\ stream[call[d].s].st # "open"
              /\ call'[d].s = call[d].s /\ call'[d].late = InHand(call[d].s)
              /\ Carried(d)' = ToSet(Unacked(call[d].s))
  <1>0. call'[d].op = "recreate" /\ call'[d].pc \in {"headers", "callback", "connect", "answer"}
        /\ (call'[d].pc = "answer" => call'[d].res = "ok")
    BY DEF Replaying
  <1>1. call'[d] = call[d] \/ Proceeds(d) \/ Finishes(d)
    <2>1. ~Joins(d) /\ ~Creates(d) /\ ~Continues(d) /\ ~Relocks(d) /\ ~Gets(d) /\ ~Grabs(d) /\ ~Returns(d)
      BY <1>0, IdleTypes DEF Joins, Creates, Continues, Relocks, Gets, Grabs, Returns
    <2> QED BY <2>1, CallStep DEF Step
  <1>2. CASE call'[d] = call[d]
    <2>1. Replaying(d)
      BY <1>2 DEF Replaying
    <2>2. CASE call[d].pc = "answer"
      <3>1. call[d].new \in Streams /\ stream[call[d].new].st # "none"
        BY <2>1, <2>2 DEF Replaying, SlotInv, Created
      <3>2. ToSet(stream[call[d].new].log) \subseteq ToSet(stream'[call[d].new].log)
        BY <3>1 DEF Step, Gentle
      <3> QED BY <1>2, <2>1, <2>2, <3>2 DEF Carried
    <2>3. CASE call[d].pc # "answer"
      BY <1>2, <2>1, <2>3 DEF Carried
    <2> QED BY <2>2, <2>3
  <1>3. CASE Proceeds(d) /\ Reopens(d)
    <2>1. /\ Native(d, "recreate") /\ call[d].s \in Streams /\ stream[call[d].s].st # "open"
          /\ ~CallsBack(d) /\ ~HeadersDone(d)
      BY <1>3 DEF Reopens, Native, CallsBack, CreateHeaders, HeadersDone, SlotInv
    <2>2. /\ call'[d].s = call[d].s /\ call'[d].late = InHand(call[d].s) /\ call'[d].pc # "answer"
          /\ call'[d].recs = Unacked(call[d].s)
      BY <1>3, <2>1 DEF Proceeds, Keeps
    <2>3. Carried(d)' = ToSet(call'[d].recs)
      BY <2>2 DEF Carried
    <2> QED BY <2>1, <2>2, <2>3
  <1>4. CASE Proceeds(d) /\ ~Reopens(d)
    <2>1. /\ call[d].pc \in {"headers", "callback"} /\ call[d].op = "recreate" /\ call'[d].s = call[d].s
          /\ call'[d].recs = call[d].recs /\ call'[d].late = call[d].late /\ call'[d].pc # "answer"
      BY <1>0, <1>4 DEF Proceeds, Keeps, CallsBack, CreateHeaders, HeadersDone
    <2> QED BY <2>1 DEF Replaying, Carried
  <1>5. CASE Finishes(d)
    <2>1. call'[d] # Idle
      BY <1>0, IdleTypes
    <2>2. /\ call[d].op = "recreate" /\ call'[d].s = call[d].s /\ call[d].pc = "connect" /\ call'[d].pc = "answer"
          /\ call'[d].new = call[d].new /\ stream'[call[d].new].log = call[d].recs /\ call'[d].late = call[d].late
      BY <1>0, <1>5, <2>1 DEF Finishes, Opened
    <2> QED BY <2>2 DEF Replaying, Carried
  <1> QED BY <1>1, <1>2, <1>3, <1>4, <1>5

\* A step preserves ReplayInv: a stream that has ended gets nothing but what was in hand when the
\* recreation read it, and the new stream only adds to the records it started with.
LEMMA ReplayInvStep ==
    ASSUME BindingTypes, SlotInv, GuardInv, HoldInv, ReplayInv, Next
    PROVE  ReplayInv'
  <1>1. Step /\ arrow' = arrow /\ binding' = binding
    BY EveryStep DEF Step, Fits, layer
  <1>2. ASSUME NEW d \in Calls, call'[d].op \in Ingests, call'[d].recs # <<>> PROVE call'[d].pc = "native"
    BY <1>1, <1>2, HandStep DEF ReplayInv
  <1>3. ASSUME NEW d \in Calls, Replaying(d)'
        PROVE  /\ call'[d].s \in Streams /\ stream'[call'[d].s].st # "open"
               /\ ToSet(Unacked(call[d].s))' \subseteq Carried(d)' \cup Late(d)'
               /\ ~arrow => InHand(call[d].s)' \subseteq Late(d)'
    <2>1. PICK s \in Streams : call[d].s = s /\ call'[d].s = s /\ stream[s].st # "open"
      BY <1>1, <1>3, ReplayingStep DEF ReplayInv
    <2>2. /\ ToSet(Unacked(s)) \subseteq Carried(d)' \cup Late(d)'
          /\ ~arrow => InHand(s) \subseteq Late(d)'
      <3>1. CASE /\ Replaying(d) /\ call'[d].late = call[d].late /\ Carried(d) \subseteq Carried(d)'
        <4>1. Late(d)' = Late(d)
          BY <1>1, <3>1 DEF Late
        <4> QED BY <2>1, <3>1, <4>1 DEF ReplayInv
      <3>2. CASE /\ Native(d, "recreate") /\ call'[d].late = InHand(call[d].s)
                 /\ Carried(d)' = ToSet(Unacked(call[d].s))
        <4>1. CASE binding \in {"jni", "node"}
          <5>1. InHand(s) = {}
            BY <2>1, <3>2, <4>1, HandsEmpty
          <5> QED BY <2>1, <3>2, <5>1
        <4>2. CASE ~arrow /\ binding \notin {"jni", "node"}
          <5>1. Late(d)' = InHand(s)
            BY <1>1, <2>1, <3>2, <4>2 DEF Late
          <5> QED BY <2>1, <3>2, <5>1
        <4> QED BY <2>1, <3>2, <4>1, <4>2
      <3> QED BY <1>1, <1>3, <3>1, <3>2, ReplayingStep
    <2>3. stream[s].st # "none"
      BY <2>1, BindingsAssumption DEF SlotInv
    <2>4. /\ stream'[s].st # "open"
          /\ ToSet(Pending(stream'[s])) \subseteq ToSet(Pending(stream[s])) \cup (IF arrow THEN {} ELSE InHand(s))
      BY <1>1, <2>1, <2>3 DEF Step, Gentle
    <2>5. /\ Unacked(s) = Pending(stream[s]) /\ Unacked(call[d].s)' = Pending(stream'[s])
          /\ InHand(call[d].s)' = InHand(s)'
      BY <2>1 DEF Unacked, Pending, InHand
    <2>6. InHand(s)' \subseteq InHand(s)
      BY <1>1, <2>1, HandShrinks
    <2>7. ToSet(Unacked(call[d].s))' = ToSet(Pending(stream'[s]))
      BY <2>5
    <2> QED BY <2>1, <2>2, <2>4, <2>5, <2>6, <2>7
  <1> QED BY <1>1, <1>2, <1>3 DEF ReplayInv

-----------------------------------------------------------------------------
(* Results *)

\* The invariant holds at the start.
LEMMA BindingInit ==
    Init => BindingInv
  <1> SUFFICES ASSUME Init PROVE BindingInv
    OBVIOUS
  <1>0. /\ stream = [s \in Streams |-> NoStream] /\ handle = [s \in Streams |-> "none"]
        /\ taken = [s \in Streams |-> FALSE] /\ queue = [s \in Streams |-> <<>>]
        /\ call = [c \in Calls |-> Idle] /\ inHeaders = {} /\ freed = [s \in Streams |-> 0]
        /\ busy = [s \in Streams |-> FALSE] /\ given = {} /\ ingested = 0 /\ begun = 0
    BY DEF Init
  <1>c. \A c \in Calls : /\ call[c] = Idle /\ call[c].pc = "idle" /\ call[c].s = NULL /\ call[c].new = NULL
                         /\ call[c].hold = "none" /\ call[c].op = "idle"
    BY <1>0 DEF Idle
  <1>s. \A s \in Streams : stream[s].st = "none" /\ stream[s].prov = NULL
    BY <1>0 DEF NoStream
  <1>1. BindingTypes
    <2>1. binding \in {"ffi", "jni", "node", "python"} /\ arrow \in BOOLEAN
      BY BindingsAssumption DEF Init
    <2>2. <<>> \in Seq(Entries)
      BY EmptySeq
    <2> QED BY <1>0, <2>1, <2>2, IdleTypes DEF BindingTypes
  <1>2. SlotInv
    BY <1>0, <1>c DEF SlotInv, Creating, Created
  <1>3. GuardInv
    BY <1>0, <1>c DEF GuardInv
  <1>4. HoldInv
    BY <1>0, <1>c DEF HoldInv
  <1>5. ProvInv
    <2>1. \A p \in Streams : ~Held(p)
      BY <1>c, <1>s, BindingsAssumption DEF Held, Creating
    <2> QED BY <1>0, <1>s, <2>1 DEF ProvInv
  <1>6. CallbackInv
    BY <1>0, <1>c DEF CallbackInv, Running
  <1>7. ReplayInv
    BY <1>c DEF ReplayInv, Replaying, Ingests
  <1> QED BY <1>1, <1>2, <1>3, <1>4, <1>5, <1>6, <1>7 DEF BindingInv

\* The invariant holds on when nothing happens.
LEMMA BindingStutter ==
    ASSUME BindingInv, UNCHANGED cvars
    PROVE  BindingInv'
  <1> USE DEF cvars
  <1>1. BindingTypes'
    BY DEF BindingInv, BindingTypes
  <1>2. SlotInv'
    BY DEF BindingInv, SlotInv, Creating, Created
  <1>3. GuardInv'
    <2>1. call' = call /\ queue' = queue /\ binding' = binding
      OBVIOUS
    <2>2. \A c, s : Granted(c, s)' <=> Granted(c, s)
      BY <2>1 DEF Granted
    <2> QED BY <2>1, <2>2 DEF BindingInv, GuardInv
  <1>4. HoldInv'
    BY DEF BindingInv, HoldInv
  <1>5. ProvInv'
    BY DEF BindingInv, ProvInv, Held, Creating, Exists, Active
  <1>6. CallbackInv'
    BY DEF BindingInv, CallbackInv, Running
  <1>7. ReplayInv'
    BY DEF BindingInv, ReplayInv, Replaying, Carried, Late, Unacked, InHand
  <1> QED BY <1>1, <1>2, <1>3, <1>4, <1>5, <1>6, <1>7 DEF BindingInv

\* The inductive invariant holds in every state of every binding.
THEOREM BindingInvariant == Spec => []BindingInv
  <1>1. BindingInv /\ [Next]_cvars => BindingInv'
    <2>1. ASSUME BindingInv, Next PROVE BindingInv'
      BY <2>1, TypesStep, SlotInvStep, GuardInvStep, HoldInvStep, ProvInvStep, CallbackInvStep, ReplayInvStep
         DEF BindingInv
    <2> QED BY <2>1, BindingStutter
  <1> QED BY <1>1, BindingInit, PTL DEF Spec

\* An operation that runs finds its stream alive, whatever the application frees, closes or
\* recreates meanwhile, in each binding: clone_stream_arc, the Option in the JNI and Node mutex and
\* the rule that a handle is not freed under a blocking call together suffice.
THEOREM RunsOnLiveStream == Spec => []NoUseAfterFree
  <1>1. BindingInv => NoUseAfterFree
    BY Alive DEF BindingInv, NoUseAfterFree
  <1> QED BY <1>1, BindingInvariant, PTL

\* A headers provider that the application has handed over is released once, when the last
\* stream, creation and running callback has let go of it, and not before: also when the creation
\* is refused by its arguments, fails or is cancelled (CallbackHeadersProvider's Drop, the JNI global
\* reference, the Node reference).
THEOREM ReleasedOnce == Spec => []ProviderReleasedOnce
  <1>1. BindingInv => ProviderReleasedOnce
    <2> SUFFICES ASSUME BindingInv, NEW p \in Streams
                 PROVE  LET users == {s \in Streams : stream[s].prov = p /\ Exists(s)}
                            calls == {c \in Calls : Creating(c) /\ stream[call[c].new].prov = p}
                        IN  /\ freed[p] <= 1
                            /\ freed[p] = 1 => users = {} /\ calls = {} /\ Running(p) = {}
                            /\ p \in given /\ users = {} /\ calls = {} /\ Running(p) = {} => freed[p] = 1
      BY DEF ProviderReleasedOnce
    <2> DEFINE users == {s \in Streams : stream[s].prov = p /\ Exists(s)}
               calls == {c \in Calls : Creating(c) /\ stream[call[c].new].prov = p}
    <2>0. freed[p] \in {0, 1} /\ (freed[p] = 1 => ~Held(p)) /\ inHeaders \in SUBSET Streams
      BY DEF BindingInv, ProvInv, BindingTypes
    <2>1. freed[p] <= 1
      BY <2>0
    <2>2. Held(p) <=> users # {} \/ calls # {} \/ Running(p) # {}
      <3>1. ASSUME Held(p) PROVE users # {} \/ calls # {} \/ Running(p) # {}
        <4>1. ASSUME NEW s \in Streams, stream[s].prov = p, s \in inHeaders PROVE Running(p) # {}
          <5>1. <<"supervisor", s>> \in Running(p)
            BY <4>1 DEF Running
          <5> QED BY <5>1
        <4> QED BY <3>1, <4>1 DEF Held
      <3>2. ASSUME users # {} \/ calls # {} PROVE Held(p)
        BY <3>2 DEF Held
      <3>3. ASSUME Running(p) # {} PROVE Held(p)
        <4>1. \/ \E s \in inHeaders : stream[s].prov = p
              \/ \E c \in Calls : call[c].pc = "callback" /\ stream[call[c].new].prov = p
          BY <3>3 DEF Running
        <4> QED BY <2>0, <4>1 DEF Held, Creating
      <3> QED BY <3>1, <3>2, <3>3
    <2>3. ASSUME p \in given, ~Held(p) PROVE freed[p] = 1
      BY <2>3 DEF BindingInv, ProvInv
    <2> HIDE DEF users, calls
    <2>4. /\ freed[p] = 1 => users = {} /\ calls = {} /\ Running(p) = {}
          /\ p \in given /\ users = {} /\ calls = {} /\ Running(p) = {} => freed[p] = 1
      BY <2>0, <2>2, <2>3
    <2> QED BY <2>1, <2>4 DEF users, calls
  <1> QED BY <1>1, BindingInvariant, PTL

\* The C and the Java callback are never entered twice at once, and in_use or callback_lock is
\* taken only while somebody is inside: what takes it gives it back, whatever becomes of the stream,
\* so a provider is never refused or waited for in vain.
THEOREM CallbacksAlternate == Spec => []OneCallbackAtATime
  <1>1. BindingInv => OneCallbackAtATime
    <2> SUFFICES ASSUME BindingInv, binding \in {"ffi", "jni"}, NEW p \in Streams
                 PROVE  Cardinality(Running(p)) <= 1 /\ (busy[p] => Running(p) # {})
      BY DEF OneCallbackAtATime
    <2>0. busy[p] => Running(p) # {}
      BY DEF BindingInv, CallbackInv
    <2>1. \A x, y \in Running(p) : x = y
      BY DEF BindingInv, CallbackInv
    <2>2. CASE Running(p) = {}
      <3>1. Cardinality(Running(p)) = 0
        BY <2>2, FS_EmptySet
      <3> QED BY <2>0, <3>1
    <2>3. CASE Running(p) # {}
      <3>1. PICK x : x \in Running(p)
        BY <2>3
      <3>2. Running(p) = {x}
        BY <2>1, <3>1
      <3>3. Cardinality(Running(p)) = 1
        BY <3>2, FS_Singleton
      <3> QED BY <2>0, <3>3
    <2> QED BY <2>2, <2>3
  <1> QED BY <1>1, BindingInvariant, PTL

\* Where a binding has a guard, close has the stream alone from its flush to its end: the
\* guard is held by one writer, and a JNI recreation that has let go of the guard owns the stream.
THEOREM ClosesAlone == Spec => []CloseRunsAlone
  <1>1. BindingInv => CloseRunsAlone
    <2> SUFFICES ASSUME BindingInv, binding # "ffi", NEW c \in Calls, NEW d \in Calls,
                        c # d, call[c].s = call[d].s, call[c].s # NULL, call[c].pc = "native",
                        call[c].op \in {"close", "closing"}, call[d].pc = "native"
                 PROVE  FALSE
      BY DEF CloseRunsAlone
    <2>1. call[c].s \in Streams /\ Granted(c, call[c].s)
      BY DEF BindingInv, SlotInv, GuardInv
    <2>2. CASE binding = "jni" /\ call[d].op = "recreate"
      BY <2>2 DEF BindingInv, HoldInv
    <2>3. CASE ~(binding = "jni" /\ call[d].op = "recreate")
      <3>1. Granted(d, call[c].s)
        BY <2>3 DEF BindingInv, GuardInv
      <3> QED BY <2>1, <3>1, OneWriter DEF BindingInv
    <2> QED BY <2>2, <2>3
  <1> QED BY <1>1, BindingInvariant, PTL

\* A recreation that succeeds has put every unacknowledged record of the old stream into the new
\* one, except, in the FFI and in Python, those that an ingest call had checked but not enqueued when
\* the recreation read the old stream (get_unacked_batches): the mutex of the JNI and Node bindings
\* and the second look of the Arrow stream leave no such record.
THEOREM RecreateReplays == Spec => []RecreateReplaysAll
  <1>1. BindingInv => RecreateReplaysAll
    <2> SUFFICES ASSUME BindingInv, NEW c \in Calls, Recreated(c)
                 PROVE  LeftBehind(c) \subseteq Late(c)
      BY DEF RecreateReplaysAll, Late
    <2>1. Replaying(c) /\ Carried(c) = ToSet(stream[call[c].new].log)
      BY DEF Recreated, Replaying, Carried
    <2> QED BY <2>1 DEF BindingInv, ReplayInv, LeftBehind
  <1> QED BY <1>1, BindingInvariant, PTL
=============================================================================
