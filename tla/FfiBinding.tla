----------------------------- MODULE FfiBinding -----------------------------
(***************************************************************************)
(* The C FFI.  A stream handle is a raw Arc; no guard protects it.  A      *)
(* synchronous function borrows it for the length of the call, an          *)
(* asynchronous one clones the Arc first (close_async keeps the pointer),  *)
(* and the caller promises to free a handle or the SDK only when no call   *)
(* still works on the pointer.  An Arrow handle is a Box and has only      *)
(* synchronous functions.                                                  *)
(***************************************************************************)
EXTENDS BindingCalls

Ffi == binding = "ffi" /\ ~arrow
FfiArrow == binding = "ffi" /\ arrow

\* Mutant of clone_stream_arc: the task works on the caller's pointer.
clone_stream_arc_borrowed == "borrow"

\* Arc::increment_strong_count: the task keeps the stream alive by itself.
clone_stream_arc == "arc"

\* The shapes of an entry point: what a function does once its pointers are
\* checked, or an error written to the caller's CResult.
BlockOn(c, s, op, off, valid) ==
    IF valid THEN Start(c, s, op, "sync", "borrow", off) ELSE Refuse(c)

Spawn(c, s, op, off, valid) ==
    IF valid THEN Start(c, s, op, "async", clone_stream_arc, off) ELSE Refuse(c)

SpawnNowait(c, s, valid) ==
    IF valid THEN Start(c, s, "ingest", "nowait", clone_stream_arc, 0) ELSE Refuse(c)

-----------------------------------------------------------------------------
(* Creating streams.  The provider is built before the first check.        *)

zerobus_sdk_create_stream(c, new) ==
    \E valid \in BOOLEAN : Create(c, new, "sync", FALSE, valid)

zerobus_sdk_create_stream_async(c, new) ==
    \E valid \in BOOLEAN : Create(c, new, "async", FALSE, valid)

zerobus_sdk_create_stream_with_headers_provider(c, new) ==
    \E valid \in BOOLEAN : Create(c, new, "sync", TRUE, valid)

zerobus_sdk_create_stream_with_headers_provider_async(c, new) ==
    \E valid \in BOOLEAN : Create(c, new, "async", TRUE, valid)

zerobus_sdk_create_arrow_stream(c, new) ==
    \E valid \in BOOLEAN : Create(c, new, "sync", FALSE, valid)

zerobus_sdk_create_arrow_stream_with_headers_provider(c, new) ==
    \E valid \in BOOLEAN : Create(c, new, "sync", TRUE, valid)

zerobus_sdk_recreate_stream(c, s, new) ==
    \E valid \in BOOLEAN :
        IF valid THEN Recreate(c, s, new, "sync", "borrow", "none") ELSE Refuse(c)

zerobus_sdk_recreate_stream_async(c, s, new) ==
    \E valid \in BOOLEAN :
        IF valid THEN Recreate(c, s, new, "async", clone_stream_arc, "none") ELSE Refuse(c)

-----------------------------------------------------------------------------
(* Ingestion.  An empty batch is a success that never looks at the stream, *)
(* except in the nowait functions, which check the pointer first.          *)

zerobus_stream_ingest_proto_record(c, s) ==
    \E valid \in BOOLEAN : BlockOn(c, s, "ingest", 0, valid)

zerobus_stream_ingest_proto_record_async(c, s) ==
    \E valid \in BOOLEAN : Spawn(c, s, "ingest", 0, valid)

zerobus_stream_ingest_json_record(c, s) ==
    \E valid \in BOOLEAN : BlockOn(c, s, "ingest", 0, valid)

zerobus_stream_ingest_json_record_async(c, s) ==
    \E valid \in BOOLEAN : Spawn(c, s, "ingest", 0, valid)

zerobus_stream_ingest_proto_records(c, s) ==
    \E valid \in BOOLEAN : Instant(c) \/ BlockOn(c, s, "ingest", 0, valid)

zerobus_stream_ingest_proto_records_async(c, s) ==
    \E valid \in BOOLEAN : Instant(c) \/ Spawn(c, s, "ingest", 0, valid)

zerobus_stream_ingest_json_records(c, s) ==
    \E valid \in BOOLEAN : Instant(c) \/ BlockOn(c, s, "ingest", 0, valid)

zerobus_stream_ingest_json_records_async(c, s) ==
    \E valid \in BOOLEAN : Instant(c) \/ Spawn(c, s, "ingest", 0, valid)

zerobus_stream_ingest_proto_record_nowait(c, s) ==
    \E valid \in BOOLEAN : SpawnNowait(c, s, valid)

zerobus_stream_ingest_json_record_nowait(c, s) ==
    \E valid \in BOOLEAN : SpawnNowait(c, s, valid)

zerobus_stream_ingest_proto_records_nowait(c, s) ==
    \E valid \in BOOLEAN : Instant(c) \/ SpawnNowait(c, s, valid)

zerobus_stream_ingest_json_records_nowait(c, s) ==
    \E valid \in BOOLEAN : Instant(c) \/ SpawnNowait(c, s, valid)

zerobus_arrow_stream_ingest_batch(c, s) ==
    \E valid \in BOOLEAN : BlockOn(c, s, "ingest", 0, valid)

zerobus_arrow_stream_ingest_c_data(c, s) ==
    \E valid \in BOOLEAN : BlockOn(c, s, "ingest", 0, valid)

zerobus_arrow_stream_ingest_batch_via_record_batch(c, s) ==
    \E valid \in BOOLEAN : BlockOn(c, s, "ingest", 0, valid)

-----------------------------------------------------------------------------
(* Waiting, closing, reading back.                                         *)

zerobus_stream_wait_for_offset(c, s, off) ==
    \E valid \in BOOLEAN : BlockOn(c, s, "wait", off, valid)

zerobus_stream_wait_for_offset_async(c, s, off) ==
    \E valid \in BOOLEAN : Spawn(c, s, "wait", off, valid)

zerobus_stream_flush(c, s) ==
    \E valid \in BOOLEAN : BlockOn(c, s, "flush", 0, valid)

zerobus_stream_flush_async(c, s) ==
    \E valid \in BOOLEAN : Spawn(c, s, "flush", 0, valid)

zerobus_stream_get_unacked_records(c, s) ==
    \E valid \in BOOLEAN : BlockOn(c, s, "unacked", 0, valid)

zerobus_stream_get_unacked_records_async(c, s) ==
    \E valid \in BOOLEAN : Spawn(c, s, "unacked", 0, valid)

\* The exclusive borrow behind close: the caller never closes a stream twice
\* at the same time.
NoOtherClose(s) == \A d \in Calls : call[d].s = s => call[d].op \notin {"close", "closing"}

zerobus_stream_close(c, s) ==
    \E valid \in BOOLEAN : NoOtherClose(s) /\ BlockOn(c, s, "close", 0, valid)

\* The task gets the pointer itself, not a clone of the Arc.
zerobus_stream_close_async(c, s) ==
    \E valid \in BOOLEAN :
        /\ NoOtherClose(s)
        /\ IF valid THEN Start(c, s, "close", "async", "raw", 0) ELSE Refuse(c)

zerobus_stream_is_closed(c, s) ==
    handle[s] = "live" /\ Instant(c)

zerobus_arrow_stream_wait_for_offset(c, s, off) ==
    \E valid \in BOOLEAN : BlockOn(c, s, "wait", off, valid)

zerobus_arrow_stream_flush(c, s) ==
    \E valid \in BOOLEAN : BlockOn(c, s, "flush", 0, valid)

zerobus_arrow_stream_close(c, s) ==
    \E valid \in BOOLEAN : NoOtherClose(s) /\ BlockOn(c, s, "close", 0, valid)

zerobus_arrow_stream_get_unacked_batches(c, s) ==
    \E valid \in BOOLEAN : BlockOn(c, s, "unacked", 0, valid)

zerobus_arrow_stream_is_closed(c, s) ==
    handle[s] = "live" /\ Instant(c)

-----------------------------------------------------------------------------
(* Freeing.                                                                *)

zerobus_stream_free(s) == FreeHandle(s)

zerobus_arrow_stream_free(s) == FreeHandle(s)

-----------------------------------------------------------------------------
(* Callbacks into the application.                                         *)

\* CallbackHeadersProvider::get_headers: in_use is swapped to true; a second
\* concurrent call finds it set and ends with InvalidArgument, and with it the
\* creation or the stream.
get_headers(c) ==
    LET p == stream[call[c].new].prov
    IN  /\ call[c].pc = "headers"
        /\ \/ ~busy[p] /\ busy' = [busy EXCEPT ![p] = TRUE] /\ CreateHeaders(c)
           \/ busy[p] /\ CreateFails(c) /\ UNCHANGED busy

\* Mutant of get_headers_reconnect: in_use is read but not set.
get_headers_reconnect_loads(s) ==
    LET p == stream[s].prov
    IN  /\ p # NULL
        /\ \/ ~busy[p] /\ SupervisorHeaders(s) /\ UNCHANGED busy
           \/ busy[p] /\ StreamFails(s)

get_headers_reconnect(s) ==
    LET p == stream[s].prov
    IN  /\ p # NULL
        /\ \/ ~busy[p] /\ busy' = [busy EXCEPT ![p] = TRUE] /\ SupervisorHeaders(s)
           \/ busy[p] /\ StreamFails(s)

\* Completion callbacks.  A panic in one is contained; the record array is then
\* freed here instead of by the application.
Completes(c) == call[c].mode = "async" /\ call[c].pc = "answer"

invoke_create_stream_async_callback(c) ==
    Completes(c) /\ call[c].op \in {"create", "recreate"} /\ Done(c)

invoke_offset_async_callback(c) ==
    Completes(c) /\ call[c].op = "ingest" /\ Done(c)

invoke_bool_async_callback(c) ==
    Completes(c) /\ call[c].op \in {"wait", "closing", "close"} /\ Done(c)

invoke_record_array_async_callback(c) ==
    Completes(c) /\ call[c].op = "unacked" /\ Done(c)

\* A synchronous function returns; a nowait task ends and its result is dropped.
FfiReturn(c) ==
    call[c].mode \in {"sync", "nowait"} /\ Done(c)

FfiAnswer ==
    \E c \in Calls :
        \/ invoke_create_stream_async_callback(c) \/ invoke_offset_async_callback(c)
        \/ invoke_bool_async_callback(c) \/ invoke_record_array_async_callback(c)
        \/ FfiReturn(c)

FfiCall ==
    \/ \E c \in Calls, s \in Streams, off \in 1..MaxRecords :
        \/ zerobus_sdk_create_stream(c, s) \/ zerobus_sdk_create_stream_async(c, s)
        \/ zerobus_sdk_create_stream_with_headers_provider(c, s)
        \/ zerobus_sdk_create_stream_with_headers_provider_async(c, s)
        \/ zerobus_stream_ingest_proto_record(c, s)
        \/ zerobus_stream_ingest_proto_record_async(c, s)
        \/ zerobus_stream_ingest_json_record(c, s)
        \/ zerobus_stream_ingest_json_record_async(c, s)
        \/ zerobus_stream_ingest_proto_records(c, s)
        \/ zerobus_stream_ingest_proto_records_async(c, s)
        \/ zerobus_stream_ingest_json_records(c, s)
        \/ zerobus_stream_ingest_json_records_async(c, s)
        \/ zerobus_stream_ingest_proto_record_nowait(c, s)
        \/ zerobus_stream_ingest_json_record_nowait(c, s)
        \/ zerobus_stream_ingest_proto_records_nowait(c, s)
        \/ zerobus_stream_ingest_json_records_nowait(c, s)
        \/ zerobus_stream_wait_for_offset(c, s, off)
        \/ zerobus_stream_wait_for_offset_async(c, s, off)
        \/ zerobus_stream_flush(c, s) \/ zerobus_stream_flush_async(c, s)
        \/ zerobus_stream_get_unacked_records(c, s)
        \/ zerobus_stream_get_unacked_records_async(c, s)
        \/ zerobus_stream_close(c, s) \/ zerobus_stream_close_async(c, s)
        \/ zerobus_stream_is_closed(c, s)
    \/ \E c \in Calls, s, t \in Streams :
         \/ zerobus_sdk_recreate_stream(c, s, t)
         \/ zerobus_sdk_recreate_stream_async(c, s, t)

FfiArrowCall ==
    \E c \in Calls, s \in Streams, off \in 1..MaxRecords :
        \/ zerobus_sdk_create_arrow_stream(c, s)
        \/ zerobus_sdk_create_arrow_stream_with_headers_provider(c, s)
        \/ zerobus_arrow_stream_ingest_batch(c, s)
        \/ zerobus_arrow_stream_ingest_c_data(c, s)
        \/ zerobus_arrow_stream_ingest_batch_via_record_batch(c, s)
        \/ zerobus_arrow_stream_wait_for_offset(c, s, off)
        \/ zerobus_arrow_stream_flush(c, s) \/ zerobus_arrow_stream_close(c, s)
        \/ zerobus_arrow_stream_get_unacked_batches(c, s)
        \/ zerobus_arrow_stream_is_closed(c, s)

FfiHeaders == (\E c \in Calls : get_headers(c))
              \/ (\E s \in Streams : get_headers_reconnect(s))

FfiNext ==
    \/ Ffi /\ (FfiCall \/ (\E s \in Streams : zerobus_stream_free(s)))
    \/ FfiArrow /\ (FfiArrowCall \/ (\E s \in Streams : zerobus_arrow_stream_free(s)))
    \/ binding = "ffi" /\ (FfiAnswer \/ FfiHeaders)
=============================================================================
