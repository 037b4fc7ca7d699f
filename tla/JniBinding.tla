----------------------------- MODULE JniBinding -----------------------------
(***************************************************************************)
(* The JNI layer under the Java SDK.  A handle boxes an                    *)
(* Arc<Mutex<Option<stream>>>.  Most natives borrow the handle and block   *)
(* on the mutex; ingestRecord and the creations return a CompletableFuture *)
(* and run on a clone of the Arc.  close and recreate take the stream out  *)
(* of the Option.                                                          *)
(***************************************************************************)
EXTENDS BindingCalls

Jni == binding = "jni"

BlockOnLock(c, s, op, off) == Lock(c, s, op, "sync", "borrow", "w", off)

-----------------------------------------------------------------------------
(* BaseZerobusStream.                                                      *)

\* future, global reference, payload bytes or UTF-8: any of them can fail
\* first.  The future completes on the acknowledgement; the lock is held from
\* the ingest to the end of the wait.
nativeIngestRecord(c, s) ==
    \E args \in BOOLEAN :
        IF args THEN Lock(c, s, "ingest_wait", "async", "arc", "w", 0) ELSE Refuse(c)

nativeIngestRecordOffset(c, s) ==
    \E args \in BOOLEAN : IF args THEN BlockOnLock(c, s, "ingest", 0) ELSE Refuse(c)

\* An empty list answers -1 before the handle is looked at.
nativeIngestRecordsOffset(c, s) ==
    \E args, empty \in BOOLEAN :
        IF empty THEN Instant(c)
        ELSE IF args THEN BlockOnLock(c, s, "ingest", 0) ELSE Refuse(c)

nativeWaitForOffset(c, s, off) == BlockOnLock(c, s, "wait", off)

nativeFlush(c, s) == BlockOnLock(c, s, "flush", 0)

nativeClose(c, s) == BlockOnLock(c, s, "close", 0)

nativeIsClosed(c, s) == BlockOnLock(c, s, "query", 0)

nativeGetUnackedRecords(c, s) == BlockOnLock(c, s, "unacked", 0)

nativeGetUnackedBatches(c, s) == BlockOnLock(c, s, "unacked", 0)

nativeDestroy(s) == FreeHandle(s)

-----------------------------------------------------------------------------
(* ZerobusSdk.  Parameters are converted before the task is spawned; the   *)
(* provider is kept as a global reference.                                 *)

nativeCreateStream(c, new) ==
    \E args \in BOOLEAN : Create(c, new, "async", FALSE, args)

nativeCreateStreamWithHeadersProvider(c, new) ==
    \E args \in BOOLEAN : Create(c, new, "async", TRUE, args)

\* Waits for the lock on the caller's thread, then owns the old stream.
nativeRecreateStream(c, s, new) == Recreate(c, s, new, "sync", "borrow", "w")

nativeCreateArrowStream(c, new) ==
    \E args \in BOOLEAN : Create(c, new, "async", FALSE, args)

nativeCreateArrowStreamWithHeadersProvider(c, new) ==
    \E args \in BOOLEAN : Create(c, new, "async", TRUE, args)

nativeRecreateArrowStream(c, s, new) == Recreate(c, s, new, "sync", "borrow", "w")

-----------------------------------------------------------------------------
(* ZerobusArrowStream.                                                     *)

arrow_nativeIngestBatch(c, s) ==
    \E args \in BOOLEAN : IF args THEN BlockOnLock(c, s, "ingest", 0) ELSE Refuse(c)

arrow_nativeWaitForOffset(c, s, off) == BlockOnLock(c, s, "wait", off)

arrow_nativeFlush(c, s) == BlockOnLock(c, s, "flush", 0)

arrow_nativeClose(c, s) == BlockOnLock(c, s, "close", 0)

arrow_nativeIsClosed(c, s) == BlockOnLock(c, s, "query", 0)

\* Answers under the lock as soon as it finds the stream.
arrow_nativeGetTableName(c, s) == BlockOnLock(c, s, "query", 0)

arrow_nativeGetUnackedBatches(c, s) == BlockOnLock(c, s, "unacked", 0)

arrow_nativeDestroy(s) == FreeHandle(s)

-----------------------------------------------------------------------------
(* Locks, callbacks and completions.                                       *)

\* recreate takes the stream and lets the lock go; from here it is a task.
TakeForRecreate(c) ==
    LET s == call[c].s
    IN  /\ call[c].op = "recreate" /\ call[c].pc = "queued" /\ Granted(c, s)
        /\ IF taken[s]
           THEN Answer(c, "refused") /\ UNCHANGED taken
           ELSE /\ taken' = [taken EXCEPT ![s] = TRUE]
                /\ queue' = Unlock(c)
                /\ call' = [call EXCEPT ![c].pc = "native", ![c].hold = "owned",
                                        ![c].mode = "async"]
        /\ UNCHANGED <<layer, given, busy, stream, handle, inHeaders, ingested, begun>>

JniAcquire(c) ==
    \/ call[c].op # "recreate" /\ AcquireOption(c)
    \/ TakeForRecreate(c)

\* JavaHeadersProvider: callback_lock admits one getHeaders at a time, the
\* others wait for it.  The blocking thread keeps it to the end of the callback.
java_get_headers(c) ==
    LET p == stream[call[c].new].prov
    IN  /\ call[c].pc = "headers"
        /\ ~busy[p] /\ busy' = [busy EXCEPT ![p] = TRUE]
        /\ CreateHeaders(c)

java_get_headers_reconnect(s) ==
    LET p == stream[s].prov
    IN  /\ p # NULL
        /\ ~busy[p] /\ busy' = [busy EXCEPT ![p] = TRUE]
        /\ SupervisorHeaders(s)

\* Completes with the handle.  A thread that cannot attach to the JVM drops the
\* new stream and leaves the future pending; a Long that cannot be allocated
\* leaves a stream that nobody can reach.
spawn_and_complete(c) ==
    /\ call[c].mode = "async" /\ call[c].op \in {"create", "recreate"}
    /\ \/ Done(c)
       \/ \E end \in {"freed", "leaked"} :
             /\ call[c].pc = "answer" /\ Created(c)
             /\ call' = [call EXCEPT ![c] = Idle]
             /\ handle' = [handle EXCEPT ![call[c].new] = end]
             /\ UNCHANGED <<layer, given, busy, stream, taken, queue, inHeaders, ingested, begun>>

spawn_and_complete_void(c) ==
    call[c].mode = "async" /\ call[c].op \in {"ingest_wait", "wait"} /\ Done(c)

JniReturn(c) == call[c].mode = "sync" /\ Done(c)

JniCall ==
    \/ \E c \in Calls, s \in Streams, off \in 1..MaxRecords :
        \/ nativeIngestRecord(c, s) \/ nativeIngestRecordOffset(c, s)
        \/ nativeIngestRecordsOffset(c, s) \/ nativeWaitForOffset(c, s, off)
        \/ nativeFlush(c, s) \/ nativeClose(c, s) \/ nativeIsClosed(c, s)
        \/ nativeGetUnackedRecords(c, s) \/ nativeGetUnackedBatches(c, s)
        \/ nativeCreateStream(c, s) \/ nativeCreateStreamWithHeadersProvider(c, s)
        \/ nativeDestroy(s)
    \/ \E c \in Calls, s, t \in Streams :
         nativeRecreateStream(c, s, t)

JniArrowCall ==
    \/ \E c \in Calls, s \in Streams, off \in 1..MaxRecords :
        \/ arrow_nativeIngestBatch(c, s) \/ arrow_nativeWaitForOffset(c, s, off)
        \/ arrow_nativeFlush(c, s) \/ arrow_nativeClose(c, s)
        \/ arrow_nativeIsClosed(c, s) \/ arrow_nativeGetTableName(c, s)
        \/ arrow_nativeGetUnackedBatches(c, s)
        \/ nativeCreateArrowStream(c, s)
        \/ nativeCreateArrowStreamWithHeadersProvider(c, s)
        \/ arrow_nativeDestroy(s)
    \/ \E c \in Calls, s, t \in Streams :
         nativeRecreateArrowStream(c, s, t)

JniStep ==
    \/ \E c \in Calls : \/ JniAcquire(c) \/ java_get_headers(c)
                        \/ spawn_and_complete(c) \/ spawn_and_complete_void(c)
                        \/ JniReturn(c)

JniNext ==
    \/ Jni /\ ~arrow /\ JniCall
    \/ Jni /\ arrow /\ JniArrowCall
    \/ Jni /\ (JniStep
               \/ \E s \in Streams : java_get_headers_reconnect(s))
=============================================================================
