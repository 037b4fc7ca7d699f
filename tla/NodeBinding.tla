---------------------------- MODULE NodeBinding ----------------------------
(***************************************************************************)
(* The Node.js binding.  An object holds Arc<Mutex<Option<stream>>>; every *)
(* method returns a promise and runs on a clone of the Arc, so the object  *)
(* may be collected at any time.  The application's header callback is     *)
(* called once, before the stream is built; the stream keeps the headers   *)
(* it returned.                                                            *)
(***************************************************************************)
EXTENDS BindingCalls

Node == binding = "node"

Promise(c, s, op, off) == Lock(c, s, op, "async", "arc", "w", off)

\* A payload that cannot be converted throws before anything starts.
Converted(c, s, op) ==
    \E args \in BOOLEAN : IF args THEN Promise(c, s, op, 0) ELSE Refuse(c)

-----------------------------------------------------------------------------
(* ZerobusStream.  ingestRecord and ingestRecords take the lock twice, for *)
(* the ingest and for the wait.                                            *)

node_ingest_record(c, s) == Converted(c, s, "ingest_relock")

\* An empty batch gets no offset: there is nothing to wait for.
node_ingest_records(c, s) ==
    Converted(c, s, "ingest_relock") \/ Promise(c, s, "ingest_empty", 0)

node_ingest_record_offset(c, s) == Converted(c, s, "ingest")

node_ingest_records_offset(c, s) ==
    Converted(c, s, "ingest") \/ Promise(c, s, "ingest_empty", 0)

\* A BigInt that does not fit an i64 is refused.
node_wait_for_offset(c, s, off) ==
    \E fits \in BOOLEAN : IF fits THEN Promise(c, s, "wait", off) ELSE Refuse(c)

node_flush(c, s) == Promise(c, s, "flush", 0)

node_close(c, s) == Promise(c, s, "close", 0)

node_get_unacked_records(c, s) == Promise(c, s, "unacked", 0)

node_get_unacked_batches(c, s) == Promise(c, s, "unacked", 0)

-----------------------------------------------------------------------------
(* ZerobusArrowStream.  The two getters only try the lock.                 *)

node_arrow_ingest_batch(c, s) == Promise(c, s, "ingest", 0)

node_arrow_wait_for_offset(c, s, off) ==
    \E fits \in BOOLEAN : IF fits THEN Promise(c, s, "wait", off) ELSE Refuse(c)

node_arrow_flush(c, s) == Promise(c, s, "flush", 0)

node_arrow_close(c, s) == Promise(c, s, "close", 0)

\* A busy lock reads as not closed, a closed stream has no table name.
node_arrow_is_closed(c, s) ==
    handle[s] = "live" /\ Instant(c)

node_arrow_table_name(c, s) ==
    handle[s] = "live" /\ Instant(c)

node_arrow_get_unacked_batches(c, s) == Promise(c, s, "unacked", 0)

-----------------------------------------------------------------------------
(* ZerobusSdk.                                                             *)

node_create_stream(c, new) ==
    \E args, custom \in BOOLEAN : Create(c, new, "async", custom, args)

\* The old stream is only borrowed, under its lock, to the end.
node_recreate_stream(c, s, new) == Recreate(c, s, new, "async", "arc", "w")

node_create_arrow_stream(c, new) == Create(c, new, "async", FALSE, TRUE)

node_recreate_arrow_stream(c, s, new) == Recreate(c, s, new, "async", "arc", "w")

\* call_headers_tsfn: the callback runs once; its headers are copied into a
\* StaticHeadersProvider and the callback is let go.
node_call_headers(c) == call[c].pc = "headers" /\ CreateHeaders(c) /\ UNCHANGED busy

StaticHeaders(c) ==
    /\ call[c].pc = "callback"
    /\ \/ /\ call' = [call EXCEPT ![c].pc = "connect"]
          /\ stream' = [stream EXCEPT ![call[c].new].prov = NULL]
          /\ UNCHANGED <<layer, given, handle, taken, queue, inHeaders, ingested, begun>>
       \/ CreateFails(c)
    /\ UNCHANGED busy

NodeAcquire(c) == AcquireOption(c)

NativeIngestEmpty(c) ==
    /\ Native(c, "ingest_empty") /\ Rest
    /\ \E res \in {"ok", "err"} : Answer(c, res)
    /\ UNCHANGED <<stream, ingested>>

NodeResolve(c) == Done(c)

NodeCall ==
    \/ \E c \in Calls, s \in Streams, off \in 1..MaxRecords :
        \/ node_ingest_record(c, s) \/ node_ingest_records(c, s)
        \/ node_ingest_record_offset(c, s) \/ node_ingest_records_offset(c, s)
        \/ node_wait_for_offset(c, s, off) \/ node_flush(c, s) \/ node_close(c, s)
        \/ node_get_unacked_records(c, s) \/ node_get_unacked_batches(c, s)
        \/ node_create_stream(c, s)
    \/ \E c \in Calls, s, t \in Streams :
         node_recreate_stream(c, s, t)

NodeArrowCall ==
    \/ \E c \in Calls, s \in Streams, off \in 1..MaxRecords :
        \/ node_arrow_ingest_batch(c, s) \/ node_arrow_wait_for_offset(c, s, off)
        \/ node_arrow_flush(c, s) \/ node_arrow_close(c, s)
        \/ node_arrow_is_closed(c, s) \/ node_arrow_table_name(c, s)
        \/ node_arrow_get_unacked_batches(c, s)
        \/ node_create_arrow_stream(c, s)
    \/ \E c \in Calls, s, t \in Streams :
         node_recreate_arrow_stream(c, s, t)

NodeStep ==
    \E c \in Calls : \/ NodeAcquire(c) \/ node_call_headers(c) \/ StaticHeaders(c)
                     \/ NativeIngestEmpty(c) \/ NodeResolve(c)

NodeNext ==
    \/ Node /\ ~arrow /\ NodeCall
    \/ Node /\ arrow /\ NodeArrowCall
    \/ Node /\ (NodeStep \/ \E s \in Streams : FreeHandle(s))
=============================================================================
