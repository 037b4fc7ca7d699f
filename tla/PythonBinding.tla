--------------------------- MODULE PythonBinding ---------------------------
(***************************************************************************)
(* The Python binding: a blocking and an asyncio class for each kind of    *)
(* stream, over an Arc<RwLock<stream>>.  Everything but close takes the    *)
(* lock shared, close takes it alone; the stream stays in place.  A        *)
(* blocking method (py_) works on the caller's thread, an asyncio method   *)
(* (aio_) is a future that the event loop may cancel.                      *)
(***************************************************************************)
EXTENDS BindingCalls

Python == binding = "python"

BlockOnRead(c, s, op, off) == Lock(c, s, op, "sync", "arc", "r", off)
FutureRead(c, s, op, off) == Lock(c, s, op, "async", "arc", "r", off)
SpawnRead(c, s, op) == Lock(c, s, op, "nowait", "arc", "r", 0)

-----------------------------------------------------------------------------
(* The blocking record stream.                                             *)

py_ingest_record(c, s) ==
    \E args \in BOOLEAN : IF args THEN BlockOnRead(c, s, "ingest", 0) ELSE Refuse(c)

\* A RecordAcknowledgment waits once; done is set by a successful wait.
py_wait_for_ack(c, s, off) ==
    \E done \in BOOLEAN : IF done THEN Refuse(c) ELSE BlockOnRead(c, s, "wait", off)

py_ingest_record_offset(c, s) ==
    \E args \in BOOLEAN : IF args THEN BlockOnRead(c, s, "ingest", 0) ELSE Refuse(c)

py_ingest_record_nowait(c, s) ==
    \E args \in BOOLEAN : IF args THEN SpawnRead(c, s, "ingest") ELSE Refuse(c)

\* An empty batch answers without the lock.
py_ingest_records_offset(c, s) ==
    \E args, empty \in BOOLEAN :
        IF ~args THEN Refuse(c)
        ELSE IF empty THEN Instant(c)
        ELSE BlockOnRead(c, s, "ingest", 0)

py_ingest_records_nowait(c, s) ==
    \E args \in BOOLEAN : IF args THEN SpawnRead(c, s, "ingest") ELSE Refuse(c)

py_wait_for_offset(c, s, off) == BlockOnRead(c, s, "wait", off)

py_flush(c, s) == BlockOnRead(c, s, "flush", 0)

\* Mutant of py_close: close under the shared lock.
py_close_shared(c, s) == Lock(c, s, "close", "sync", "arc", "r", 0)

py_close(c, s) == Lock(c, s, "close", "sync", "arc", "w", 0)

py_get_unacked_records(c, s) == BlockOnRead(c, s, "unacked", 0)

py_get_unacked_batches(c, s) == BlockOnRead(c, s, "unacked", 0)

-----------------------------------------------------------------------------
(* The asyncio record stream.                                              *)

\* Stage one returns a future for the acknowledgement, stage two awaits it.
aio_ingest_record(c, s) ==
    \E args \in BOOLEAN : IF args THEN FutureRead(c, s, "ingest", 0) ELSE Refuse(c)

\* The future is taken by the first await.
aio_await(c, s, off) ==
    \E awaited \in BOOLEAN : IF awaited THEN Refuse(c) ELSE FutureRead(c, s, "wait", off)

aio_ingest_record_offset(c, s) ==
    \E args \in BOOLEAN : IF args THEN FutureRead(c, s, "ingest", 0) ELSE Refuse(c)

aio_ingest_record_nowait(c, s) ==
    \E args \in BOOLEAN : IF args THEN SpawnRead(c, s, "ingest") ELSE Refuse(c)

\* An empty batch goes to the SDK, through the lock.
aio_ingest_records_offset(c, s) ==
    \E args, empty \in BOOLEAN :
        IF ~args THEN Refuse(c)
        ELSE FutureRead(c, s, IF empty THEN "ingest_none" ELSE "ingest", 0)

aio_ingest_records_nowait(c, s) ==
    \E args \in BOOLEAN : IF args THEN SpawnRead(c, s, "ingest") ELSE Refuse(c)

aio_wait_for_offset(c, s, off) == FutureRead(c, s, "wait", off)

aio_flush(c, s) == FutureRead(c, s, "flush", 0)

aio_close(c, s) == Lock(c, s, "close", "async", "arc", "w", 0)

aio_get_unacked_records(c, s) == FutureRead(c, s, "unacked", 0)

aio_get_unacked_batches(c, s) == FutureRead(c, s, "unacked", 0)

-----------------------------------------------------------------------------
(* The Arrow streams.                                                      *)

py_arrow_ingest_batch(c, s) ==
    \E args \in BOOLEAN : IF args THEN BlockOnRead(c, s, "ingest", 0) ELSE Refuse(c)

py_arrow_wait_for_offset(c, s, off) == BlockOnRead(c, s, "wait", off)

py_arrow_flush(c, s) == BlockOnRead(c, s, "flush", 0)

py_arrow_close(c, s) == Lock(c, s, "close", "sync", "arc", "w", 0)

py_arrow_is_closed(c, s) == BlockOnRead(c, s, "query", 0)

py_arrow_table_name(c, s) == BlockOnRead(c, s, "query", 0)

py_arrow_get_unacked_batches(c, s) == BlockOnRead(c, s, "unacked", 0)

aio_arrow_ingest_batch(c, s) ==
    \E args \in BOOLEAN : IF args THEN FutureRead(c, s, "ingest", 0) ELSE Refuse(c)

aio_arrow_wait_for_offset(c, s, off) == FutureRead(c, s, "wait", off)

aio_arrow_flush(c, s) == FutureRead(c, s, "flush", 0)

aio_arrow_close(c, s) == Lock(c, s, "close", "async", "arc", "w", 0)

\* try_read: a writer that holds or waits for the lock makes it an error.
aio_arrow_is_closed(c, s) ==
    handle[s] = "live" /\ Instant(c)

aio_arrow_table_name(c, s) ==
    handle[s] = "live" /\ Instant(c)

aio_arrow_get_unacked_batches(c, s) == FutureRead(c, s, "unacked", 0)

-----------------------------------------------------------------------------
(* The SDK classes.  Options are validated before anything else.           *)

py_create_stream(c, new) == \E args \in BOOLEAN : Create(c, new, "sync", FALSE, args)

py_create_stream_with_headers_provider(c, new) ==
    \E args \in BOOLEAN : Create(c, new, "sync", TRUE, args)

aio_create_stream(c, new) == \E args \in BOOLEAN : Create(c, new, "async", FALSE, args)

aio_create_stream_with_headers_provider(c, new) ==
    \E args \in BOOLEAN : Create(c, new, "async", TRUE, args)

\* The old stream is read-locked until the new one has its records.
py_recreate_stream(c, s, new) == Recreate(c, s, new, "sync", "arc", "r")

aio_recreate_stream(c, s, new) == Recreate(c, s, new, "async", "arc", "r")

create_arrow_stream_sync(c, new) ==
    \E args \in BOOLEAN : Create(c, new, "sync", FALSE, args)

create_arrow_stream_with_headers_provider_sync(c, new) ==
    \E args \in BOOLEAN : Create(c, new, "sync", TRUE, args)

recreate_arrow_stream_sync(c, s, new) == Recreate(c, s, new, "sync", "arc", "r")

create_arrow_stream_async(c, new) ==
    \E args \in BOOLEAN : Create(c, new, "async", FALSE, args)

create_arrow_stream_with_headers_provider_async(c, new) ==
    \E args \in BOOLEAN : Create(c, new, "async", TRUE, args)

recreate_arrow_stream_async(c, s, new) == Recreate(c, s, new, "async", "arc", "r")

-----------------------------------------------------------------------------
(* Steps of the binding.                                                   *)

PythonAcquire(c) == Acquire(c)

NativeNone(c) ==
    /\ Native(c, "ingest_none") /\ Rest
    /\ Answer(c, "ok")
    /\ UNCHANGED <<stream, ingested>>

\* HeadersProviderWrapper::get_headers: nothing keeps two calls apart.
python_get_headers(c) == call[c].pc = "headers" /\ CreateHeaders(c) /\ UNCHANGED busy

python_get_headers_reconnect(s) == SupervisorHeaders(s) /\ UNCHANGED busy

\* The event loop cancels an asyncio call: its Rust future is dropped at the
\* await it stands at, with its guard and with a stream it was creating.
aio_cancel(c) ==
    /\ call[c].mode = "async" /\ call[c].pc \in {"queued", "native", "headers", "connect"}
    /\ call' = [call EXCEPT ![c] = Idle]
    /\ queue' = Unlock(c)
    /\ stream' = IF call[c].new = NULL THEN stream
                 ELSE [stream EXCEPT ![call[c].new] = NoStream]
    /\ UNCHANGED <<layer, given, busy, handle, taken, inHeaders, ingested, begun>>

PythonReturn(c) == Done(c)

PythonCall ==
    \/ \E c \in Calls, s \in Streams, off \in 1..MaxRecords :
        \/ py_ingest_record(c, s) \/ py_wait_for_ack(c, s, off)
        \/ py_ingest_record_offset(c, s) \/ py_ingest_record_nowait(c, s)
        \/ py_ingest_records_offset(c, s) \/ py_ingest_records_nowait(c, s)
        \/ py_wait_for_offset(c, s, off) \/ py_flush(c, s) \/ py_close(c, s)
        \/ py_get_unacked_records(c, s) \/ py_get_unacked_batches(c, s)
        \/ py_create_stream(c, s) \/ py_create_stream_with_headers_provider(c, s)
        \/ aio_ingest_record(c, s) \/ aio_await(c, s, off)
        \/ aio_ingest_record_offset(c, s) \/ aio_ingest_record_nowait(c, s)
        \/ aio_ingest_records_offset(c, s) \/ aio_ingest_records_nowait(c, s)
        \/ aio_wait_for_offset(c, s, off) \/ aio_flush(c, s) \/ aio_close(c, s)
        \/ aio_get_unacked_records(c, s) \/ aio_get_unacked_batches(c, s)
        \/ aio_create_stream(c, s) \/ aio_create_stream_with_headers_provider(c, s)
    \/ \E c \in Calls, s, t \in Streams :
         py_recreate_stream(c, s, t) \/ aio_recreate_stream(c, s, t)

PythonArrowCall ==
    \/ \E c \in Calls, s \in Streams, off \in 1..MaxRecords :
        \/ py_arrow_ingest_batch(c, s) \/ py_arrow_wait_for_offset(c, s, off)
        \/ py_arrow_flush(c, s) \/ py_arrow_close(c, s) \/ py_arrow_is_closed(c, s)
        \/ py_arrow_table_name(c, s) \/ py_arrow_get_unacked_batches(c, s)
        \/ aio_arrow_ingest_batch(c, s) \/ aio_arrow_wait_for_offset(c, s, off)
        \/ aio_arrow_flush(c, s) \/ aio_arrow_close(c, s) \/ aio_arrow_is_closed(c, s)
        \/ aio_arrow_table_name(c, s) \/ aio_arrow_get_unacked_batches(c, s)
        \/ create_arrow_stream_sync(c, s) \/ create_arrow_stream_async(c, s)
        \/ create_arrow_stream_with_headers_provider_sync(c, s)
        \/ create_arrow_stream_with_headers_provider_async(c, s)
    \/ \E c \in Calls, s, t \in Streams :
         \/ recreate_arrow_stream_sync(c, s, t)
         \/ recreate_arrow_stream_async(c, s, t)

PythonStep ==
    \E c \in Calls : \/ PythonAcquire(c) \/ NativeNone(c) \/ python_get_headers(c)
                     \/ PythonReturn(c)

PythonNext ==
    \/ Python /\ ~arrow /\ PythonCall
    \/ Python /\ arrow /\ PythonArrowCall
    \/ Python /\ (PythonStep \/ (\E c \in Calls : aio_cancel(c))
                  \/ \E s \in Streams : FreeHandle(s) \/ python_get_headers_reconnect(s))
=============================================================================
