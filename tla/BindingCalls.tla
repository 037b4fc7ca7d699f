---------------------------- MODULE BindingCalls ----------------------------
(***************************************************************************)
(* What the language bindings share: calls that cross the boundary, the    *)
(* native streams they work on, and the headers provider callbacks that    *)
(* the SDK makes back into the application.                                *)
(*                                                                         *)
(* A call enters through an exported function (FfiBinding, JniBinding,     *)
(* NodeBinding, PythonBinding: one operator per function), waits for the   *)
(* guard of its stream where the binding has one, runs the SDK operation,  *)
(* and hands its answer back.  The SDK operation itself is the subject of  *)
(* ZerobusStream and ArrowStream; here it is one step, which reads and     *)
(* changes the stream it works on.                                         *)
(*                                                                         *)
(* binding, arrow   which binding, and which of its two kinds of stream    *)
(* stream[s]   the native stream: its state, the records it accepted, how  *)
(*             many of them the server acknowledged, and the headers       *)
(*             provider it calls (named after the stream created with it)  *)
(* handle[s]   what the application holds: none, live, freed or leaked     *)
(* taken[s]    the Option inside the JNI and Node mutexes is None          *)
(* queue[s]    the calls that hold or wait for the guard, oldest first     *)
(* call[c]     the call in progress; recs is what it has in hand: the      *)
(*             record of an ingest between its check and its enqueue, or   *)
(*             what a recreation read from the old stream; late is history,*)
(*             the records other calls had in hand at that read            *)
(* inHeaders   the streams whose supervisor is inside getHeaders           *)
(* busy[p]     in_use or callback_lock of provider p is taken (FFI, JNI)   *)
(* given       the providers the application has handed over so far        *)
(* freed[p]    how often provider p was released                           *)
(* ingested    how many records passed the check of an ingest so far       *)
(* begun       how many calls were started so far                          *)
(***************************************************************************)
EXTENDS Integers, Sequences, FiniteSets, SequencesExt

CONSTANTS Streams, Calls, MaxRecords, MaxBegun, NULL, Layers

VARIABLES binding, arrow, stream, handle, taken, queue, call, inHeaders, busy, given, freed,
          ingested, begun

cvars == <<binding, arrow, stream, handle, taken, queue, call, inHeaders,
           busy, given, freed, ingested, begun>>

\* Which binding, and whether its Arrow or its record streams: fixed.
layer == <<binding, arrow>>

Idle == [op |-> "idle", s |-> NULL, new |-> NULL, mode |-> NULL,
         hold |-> "none", pc |-> "idle", off |-> 0, res |-> NULL,
         recs |-> <<>>, late |-> {}]

NoStream == [st |-> "none", log |-> <<>>, acked |-> 0, prov |-> NULL]

Init ==
    /\ \E l \in Layers : binding = l[1] /\ arrow = l[2]
    /\ stream = [s \in Streams |-> NoStream]
    /\ handle = [s \in Streams |-> "none"]
    /\ taken = [s \in Streams |-> FALSE]
    /\ queue = [s \in Streams |-> <<>>]
    /\ call = [c \in Calls |-> Idle]
    /\ inHeaders = {}
    /\ busy = [s \in Streams |-> FALSE]
    /\ given = {}
    /\ freed = [s \in Streams |-> 0]
    /\ ingested = 0
    /\ begun = 0

-----------------------------------------------------------------------------
(* Who keeps what alive.                                                   *)

Active(c) == call[c].pc # "idle"

\* A creation still has its provider in hand.
Creating(c) == call[c].pc \in {"refusing", "headers", "callback", "connect"}

\* The stream object itself: behind a live handle or a cloned Arc while it is
\* still inside, or owned by the call that took it out.
Exists(s) ==
    /\ stream[s].st # "none"
    /\ \/ handle[s] \in {"live", "leaked"} /\ ~taken[s]
       \/ \E c \in Calls : call[c].pc = "answer" /\ call[c].new = s
       \/ \E c \in Calls : /\ Active(c) /\ call[c].s = s
                           /\ \/ call[c].hold = "arc" /\ ~taken[s]
                              \/ call[c].hold = "owned" /\ call[c].pc # "answer"

\* Clones of the provider's Arc: one in the stream, one in a supervisor that
\* is inside the callback, one in a creation that is not finished.
Held(p) ==
    \/ \E s \in Streams : stream[s].prov = p /\ (Exists(s) \/ s \in inHeaders)
    \/ \E c \in Calls : Creating(c) /\ stream[call[c].new].prov = p

\* The last clone dropped releases the provider.
DropProviders ==
    freed' = [p \in Streams |->
                IF Held(p) /\ ~Held(p)' THEN freed[p] + 1 ELSE freed[p]]

Unacked(s) == SubSeq(stream[s].log, stream[s].acked + 1, Len(stream[s].log))

-----------------------------------------------------------------------------
(* Entering and leaving.                                                   *)

\* Calls are interchangeable: the next one to enter is the lowest idle one.
Free(c) == call[c].pc = "idle" /\ \A d \in Calls : d < c => Active(d)

Begin(c, rec) == /\ begun < MaxBegun /\ begun' = begun + 1
                 /\ call' = [call EXCEPT ![c] = rec]

\* A call answered on the caller's thread with nothing started: refused by its
\* argument checks, an empty batch, a query.
Refuse(c) == Free(c) /\ UNCHANGED <<layer, given, busy, stream, handle, taken, queue, call,
                                    inHeaders, ingested, begun>>

Instant(c) == Refuse(c)

\* The operation starts at once: no guard.
Start(c, s, op, mode, hold, off) ==
    /\ Free(c)
    /\ handle[s] = "live"
    /\ Begin(c, [Idle EXCEPT !.op = op, !.s = s, !.mode = mode, !.hold = hold,
                             !.pc = "native", !.off = off])
    /\ UNCHANGED <<layer, given, busy, stream, handle, taken, queue, inHeaders,
                   ingested>>

\* The operation asks for the guard of the stream, "r" shared or "w" alone.
Lock(c, s, op, mode, hold, access, off) ==
    /\ Free(c)
    /\ handle[s] = "live"
    /\ Begin(c, [Idle EXCEPT !.op = op, !.s = s, !.mode = mode, !.hold = hold,
                             !.pc = "queued", !.off = off])
    /\ queue' = [queue EXCEPT ![s] = Append(@, [c |-> c, access |-> access])]
    /\ UNCHANGED <<layer, given, busy, stream, handle, taken, inHeaders, ingested>>

\* The guard is fair: a writer waits for everyone ahead of it, a reader for
\* every writer ahead of it.
Granted(c, s) ==
    \E i \in 1..Len(queue[s]) :
        /\ queue[s][i].c = c
        /\ \A j \in 1..(i - 1) : queue[s][i].access = "r" /\ queue[s][j].access = "r"

\* With the guard in hand the operation starts.
Acquire(c) ==
    /\ call[c].pc = "queued" /\ Granted(c, call[c].s)
    /\ call' = [call EXCEPT ![c].pc = "native"]
    /\ UNCHANGED <<layer, given, busy, stream, handle, taken, queue, inHeaders, ingested, begun>>

\* The guard is dropped, held or waited for.  A call is in a queue once at most.
Unlock(c) ==
    [s \in Streams |->
        LET places == {i \in 1..Len(queue[s]) : queue[s][i].c = c}
        IN  IF places = {} THEN queue[s] ELSE RemoveAt(queue[s], CHOOSE i \in places : TRUE)]

\* The operation is over; the guard, if any, is released.  A caller that blocks
\* has its answer at once, unless the binding has a new stream to wrap or close
\* still to finish.
Answer(c, res) ==
    /\ call' = [call EXCEPT ![c] =
                  IF @.mode # "async" /\ @.op \notin {"create", "recreate", "closing"}
                  THEN Idle
                  ELSE [@ EXCEPT !.pc = "answer", !.res = res, !.off = 0, !.recs = <<>>]]
    /\ queue' = Unlock(c)

\* Mutant of AcquireOption: nothing answers the operation that finds None.
AcquireOptionSome(c) ==
    LET s == call[c].s
    IN  /\ call[c].pc = "queued" /\ Granted(c, s) /\ ~taken[s]
        /\ taken' = [taken EXCEPT ![s] = call[c].op = "close"]
        /\ call' = [call EXCEPT ![c].pc = "native",
                                ![c].hold = IF call[c].op = "close" THEN "owned" ELSE @]
        /\ UNCHANGED <<layer, given, busy, stream, handle, queue, inHeaders, ingested, begun>>

\* The guard of the JNI and Node bindings protects an Option: an operation that
\* finds None ends there, close takes the stream out.
AcquireOption(c) ==
    LET s == call[c].s
        granted == call[c].pc = "queued" /\ Granted(c, s)
    IN  \/ granted /\ ~taken[s] /\ call[c].op # "close" /\ Acquire(c)
        \/ /\ granted /\ ~taken[s] /\ call[c].op = "close"
           /\ taken' = [taken EXCEPT ![s] = TRUE]
           /\ call' = [call EXCEPT ![c].pc = "native", ![c].hold = "owned"]
           /\ UNCHANGED <<layer, given, busy, stream, handle, queue, inHeaders, ingested, begun>>
        \/ /\ granted /\ taken[s]
           /\ Answer(c, IF call[c].op \in {"close", "query"} THEN "ok" ELSE "err")
           /\ UNCHANGED <<layer, given, busy, stream, handle, taken, inHeaders, ingested, begun>>

\* A slot for a stream that a call is about to create; slots are taken in order.
Unused(s) == /\ stream[s].st = "none" /\ freed[s] = 0
             /\ \A d \in Calls : call[d].new # s

NewSlot(s) == Unused(s) /\ \A t \in Streams : Unused(t) => s <= t

\* A creation that fails leaves no stream.
Abandon(new) == stream' = [stream EXCEPT ![new] = NoStream]

\* Mutant of Create: the provider is built after the checks that may refuse.
CreateCheckedFirst(c, new, mode, custom, valid) ==
    /\ Free(c) /\ NewSlot(new)
    /\ given' = IF custom THEN given \cup {new} ELSE given
    /\ stream' = [stream EXCEPT ![new].prov = IF custom /\ valid THEN new ELSE NULL]
    /\ Begin(c, [Idle EXCEPT !.op = "create", !.new = new, !.mode = mode,
                             !.pc = IF ~valid THEN "refusing"
                                    ELSE IF custom THEN "headers" ELSE "connect"])
    /\ UNCHANGED <<layer, busy, handle, taken, queue, inHeaders, ingested>>

\* Creation: with a custom headers provider the SDK first calls getHeaders.
\* The provider belongs to the native side from here on, on every path.
Create(c, new, mode, custom, valid) ==
    /\ Free(c) /\ NewSlot(new)
    /\ given' = IF custom THEN given \cup {new} ELSE given
    /\ stream' = [stream EXCEPT ![new].prov = IF custom THEN new ELSE NULL]
    /\ Begin(c, [Idle EXCEPT !.op = "create", !.new = new, !.mode = mode,
                             !.pc = IF ~valid THEN "refusing"
                                    ELSE IF custom THEN "headers" ELSE "connect"])
    /\ UNCHANGED <<layer, busy, handle, taken, queue, inHeaders, ingested>>

\* Recreation: the old stream through its guard ("none" when there is none).
Recreate(c, s, new, mode, hold, access) ==
    /\ Free(c) /\ NewSlot(new) /\ handle[s] = "live"
    /\ Begin(c, [Idle EXCEPT !.op = "recreate", !.s = s, !.new = new, !.mode = mode,
                             !.hold = hold,
                             !.pc = IF access = "none" THEN "native" ELSE "queued"])
    /\ queue' = IF access = "none" THEN queue
                ELSE [queue EXCEPT ![s] = Append(@, [c |-> c, access |-> access])]
    /\ UNCHANGED <<layer, given, busy, stream, handle, taken, inHeaders, ingested>>

\* A creation turned down by its argument checks.
CreateRefused(c) ==
    /\ call[c].pc = "refusing"
    /\ Abandon(call[c].new)
    /\ call' = [call EXCEPT ![c].pc = "answer", ![c].res = "refused",
                            ![c].new = NULL, ![c].mode = "sync"]
    /\ UNCHANGED <<layer, given, busy, handle, taken, queue, inHeaders, ingested, begun>>

-----------------------------------------------------------------------------
(* The SDK operations.                                                     *)

\* What every SDK operation leaves alone.
Rest == UNCHANGED <<layer, given, busy, handle, taken, inHeaders, begun>>

Native(c, op) == call[c].pc = "native" /\ call[c].op = op

\* ingest_record_offset / ingest_records_offset / ingest_batch: one offset per
\* call, or an error that leaves the stream as it was.  is_closed is read before
\* the call waits for its turn and for capacity.
Ingests == {"ingest", "ingest_wait", "ingest_relock"}

NativeIngestCheck(c) ==
    /\ call[c].pc = "native" /\ call[c].op \in Ingests /\ call[c].recs = <<>> /\ Rest
    /\ \/ /\ stream[call[c].s].st = "open" /\ ingested < MaxRecords
          /\ ingested' = ingested + 1
          /\ call' = [call EXCEPT ![c].recs = <<ingested + 1>>]
          /\ UNCHANGED queue
       \/ Answer(c, "err") /\ UNCHANGED ingested
    /\ UNCHANGED stream

\* Then it enqueues: a record stream whatever became of it meanwhile, an Arrow
\* stream after a second look at is_closed under the mutex that closure takes.
Accept(c) ==
    /\ call[c].recs # <<>>
    /\ arrow => stream[call[c].s].st = "open"
    /\ stream' = [stream EXCEPT ![call[c].s].log = @ \o call[c].recs]

\* What was in hand is dropped.
Fails(c) ==
    /\ call[c].recs # <<>>
    /\ Answer(c, "err")
    /\ UNCHANGED stream

NativeIngest(c) ==
    /\ Native(c, "ingest") /\ Rest
    /\ \/ Accept(c) /\ Answer(c, "ok")
       \/ Fails(c)
    /\ UNCHANGED ingested

\* An ingest whose caller also waits for the acknowledgement: the same guard
\* covers both, or (relock) the wait takes it anew.
NativeIngestThenWait(c) ==
    /\ Native(c, "ingest_wait") /\ Rest
    /\ \/ /\ Accept(c)
          /\ call' = [call EXCEPT ![c].op = "wait", ![c].recs = <<>>,
                                  ![c].off = Len(stream[call[c].s].log) + 1]
          /\ UNCHANGED queue
       \/ Fails(c)
    /\ UNCHANGED ingested

NativeIngestRelock(c) ==
    /\ Native(c, "ingest_relock") /\ Rest
    /\ \/ /\ Accept(c)
          /\ call' = [call EXCEPT ![c].op = "wait", ![c].pc = "queued", ![c].recs = <<>>,
                                  ![c].off = Len(stream[call[c].s].log) + 1]
          /\ queue' = [Unlock(c) EXCEPT ![call[c].s] =
                          Append(@, [c |-> c, access |-> "w"])]
       \/ Fails(c)
    /\ UNCHANGED ingested

\* The records that ingest calls on s have checked and not enqueued yet.
InHand(s) ==
    UNION {ToSet(call[d].recs) : d \in {e \in Calls : call[e].s = s /\ call[e].op \in Ingests}}

\* wait_for_offset: an acknowledged offset is Ok even after the stream ended;
\* otherwise the end of the stream or flush_timeout_ms ends the wait.
NativeWait(c) ==
    /\ Native(c, "wait") /\ Rest
    /\ LET s == call[c].s
       IN  \/ stream[s].acked >= call[c].off /\ Answer(c, "ok")
           \/ stream[s].acked < call[c].off /\ Answer(c, "err")
    /\ UNCHANGED <<stream, ingested>>

\* flush waits for the last offset given out when it starts.
NativeFlush(c) ==
    /\ Native(c, "flush") /\ Rest
    /\ call' = [call EXCEPT ![c].op = "wait", ![c].off = Len(stream[call[c].s].log)]
    /\ UNCHANGED <<stream, ingested, queue>>

\* close of a stream that still runs: flush, then stop the tasks whatever the
\* flush said.
NativeClose(c) ==
    /\ Native(c, "close") /\ Rest
    /\ stream[call[c].s].st = "open"
    /\ call' = [call EXCEPT ![c].op = "closing", ![c].off = Len(stream[call[c].s].log)]
    /\ UNCHANGED <<stream, ingested, queue>>

NativeCloseEnd(c) ==
    /\ Native(c, "closing") /\ Rest
    /\ LET s == call[c].s
       IN  /\ stream' = [stream EXCEPT ![s].st = "closed"]
           /\ Answer(c, IF stream[s].acked >= call[c].off THEN "ok" ELSE "err")
    /\ UNCHANGED ingested

\* close of a stream that already ended: Ok for a record stream, even one that
\* failed; an Arrow stream repeats the error it ended with.
NativeCloseEnded(c) ==
    /\ Native(c, "close") /\ Rest
    /\ LET s == call[c].s
       IN  /\ stream[s].st # "open"
           /\ \/ ~arrow /\ Answer(c, "ok")
              \/ arrow /\ Answer(c, "err")
              \/ /\ arrow /\ stream[s].st = "closed" /\ Unacked(s) = <<>>
                 /\ Answer(c, "ok")
    /\ UNCHANGED <<stream, ingested>>

\* is_closed, table_name: a read under the guard.
NativeQuery(c) ==
    /\ Native(c, "query") /\ Rest
    /\ Answer(c, "ok")
    /\ UNCHANGED <<stream, ingested>>

\* get_unacked_records / get_unacked_batches: an error while the stream runs, or
\* when the records cannot be converted for the caller.
NativeUnacked(c) ==
    /\ Native(c, "unacked") /\ Rest
    /\ LET s == call[c].s
       IN  \/ stream[s].st = "open" /\ Answer(c, "err")
           \/ stream[s].st # "open" /\ Answer(c, "ok")
    /\ UNCHANGED <<stream, ingested>>

\* Mutant of NativeRecreate: the old stream may still be open.
NativeRecreateOpen(c) ==
    /\ Native(c, "recreate") /\ Rest
    /\ LET s == call[c].s
       IN  /\ stream' = [stream EXCEPT ![call[c].new].prov = stream[s].prov]
           /\ call' = [call EXCEPT ![c].recs = Unacked(s), ![c].late = InHand(s),
                         ![c].pc = IF stream[s].prov # NULL /\ binding # "node"
                                   THEN "headers" ELSE "connect"]
    /\ UNCHANGED <<queue, ingested>>

\* recreate_stream / recreate_arrow_stream: the unacknowledged records first
\* (an error while the old stream is open), then a new stream with the same
\* provider.
NativeRecreate(c) ==
    /\ Native(c, "recreate") /\ Rest
    /\ LET s == call[c].s
       IN  IF stream[s].st = "open"
           THEN Answer(c, "err") /\ UNCHANGED stream
           ELSE /\ stream' = [stream EXCEPT ![call[c].new].prov = stream[s].prov]
                /\ call' = [call EXCEPT ![c].recs = Unacked(s), ![c].late = InHand(s),
                              ![c].pc = IF stream[s].prov # NULL /\ binding # "node"
                                        THEN "headers" ELSE "connect"]
                /\ UNCHANGED queue
    /\ UNCHANGED ingested

\* The connection of a creation: a stream that starts with the records to be
\* replayed, or no stream at all (connection refused, or a replay failed and
\* the new stream was dropped with what it had).
Connect(c) ==
    /\ call[c].pc = "connect"
    /\ LET new == call[c].new
       IN  \/ /\ stream' = [stream EXCEPT ![new].st = "open",
                                          ![new].log = call[c].recs]
              /\ Answer(c, "ok")
           \/ Abandon(new) /\ Answer(c, "err")
    /\ Rest /\ UNCHANGED ingested

-----------------------------------------------------------------------------
(* The supervisor of a stream, and the server.                             *)

\* getHeaders calls on provider p that are running.
Running(p) ==
    {<<"supervisor", s>> : s \in {t \in inHeaders : stream[t].prov = p}}
    \cup {<<"creation", c>> :
             c \in {d \in Calls : call[d].pc = "callback" /\ stream[call[d].new].prov = p}}

ServerAck(s) ==
    /\ stream[s].st = "open" /\ Exists(s)
    /\ stream[s].acked < Len(stream[s].log)
    /\ stream' = [stream EXCEPT ![s].acked = @ + 1]
    /\ UNCHANGED <<layer, given, busy, handle, taken, queue, call, inHeaders,
                   ingested, begun>>

StreamFails(s) ==
    /\ stream[s].st = "open" /\ Exists(s)
    /\ s \notin inHeaders
    /\ stream' = [stream EXCEPT ![s].st = "failed"]
    /\ UNCHANGED <<layer, given, busy, handle, taken, queue, call, inHeaders,
                   ingested, begun>>

\* A reconnect asks the provider for headers.
SupervisorHeaders(s) ==
    /\ stream[s].st = "open" /\ Exists(s) /\ s \notin inHeaders
    /\ stream[s].prov # NULL
    /\ inHeaders' = inHeaders \cup {s}
    /\ UNCHANGED <<layer, given, stream, handle, taken, queue, call, ingested, begun>>

\* The application's callback returns, with headers or with an error that ends
\* the stream.  A stream closed meanwhile stays closed.  Flag or lock are given
\* back, whoever may have dropped the stream.
SupervisorHeadersReturn(s) ==
    /\ s \in inHeaders
    /\ inHeaders' = inHeaders \ {s}
    /\ busy' = [busy EXCEPT ![stream[s].prov] = FALSE]
    /\ \E ok \in BOOLEAN :
          stream' = IF ok \/ stream[s].st # "open" THEN stream
                    ELSE [stream EXCEPT ![s].st = "failed"]
    /\ UNCHANGED <<layer, given, handle, taken, queue, call, ingested, begun>>

CreateHeaders(c) ==
    /\ call[c].pc = "headers"
    /\ call' = [call EXCEPT ![c].pc = "callback"]
    /\ UNCHANGED <<layer, given, stream, handle, taken, queue, inHeaders,
                   ingested, begun>>

CreateFails(c) ==
    /\ Abandon(call[c].new)
    /\ Answer(c, "err")
    /\ UNCHANGED <<layer, given, handle, taken, inHeaders, ingested, begun>>

\* The callback of a creation returns.  (Node lets go of it: NodeBinding.)
CreateHeadersReturn(c) ==
    /\ binding # "node" /\ call[c].pc = "callback"
    /\ busy' = [busy EXCEPT ![stream[call[c].new].prov] = FALSE]
    /\ \/ /\ call' = [call EXCEPT ![c].pc = "connect"]
          /\ UNCHANGED <<layer, given, stream, handle, taken, queue, inHeaders, ingested, begun>>
       \/ CreateFails(c)

Created(c) == call[c].op \in {"create", "recreate"} /\ call[c].res = "ok"

\* The caller has its answer (a new stream as a handle); what the call held is
\* released.
Done(c) ==
    /\ call[c].pc = "answer"
    /\ call' = [call EXCEPT ![c] = Idle]
    /\ handle' = IF Created(c) THEN [handle EXCEPT ![call[c].new] = "live"] ELSE handle
    /\ UNCHANGED <<layer, given, busy, stream, taken, queue, inHeaders, ingested, begun>>

\* Calls that work on the handle itself, not on a clone of what it points to.
OnHandle(s) == {c \in Calls : /\ call[c].s = s /\ call[c].pc # "answer"
                              /\ call[c].mode = "sync" \/ call[c].hold = "raw"}

\* The application gives its handle up: in C and Java by an explicit call that
\* its contract forbids while OnHandle(s), elsewhere by garbage collection.
FreeHandle(s) ==
    /\ handle[s] = "live" /\ OnHandle(s) = {}
    /\ handle' = [handle EXCEPT ![s] = "freed"]
    /\ UNCHANGED <<layer, given, busy, stream, taken, queue, call, inHeaders, ingested, begun>>

\* The steps every binding shares.
NativeStep ==
    \/ \E c \in Calls :
          \/ NativeIngestCheck(c) \/ NativeIngest(c)
          \/ NativeIngestThenWait(c) \/ NativeIngestRelock(c)
          \/ NativeWait(c) \/ NativeFlush(c)
          \/ NativeClose(c) \/ NativeCloseEnd(c) \/ NativeCloseEnded(c)
          \/ NativeQuery(c) \/ NativeUnacked(c) \/ NativeRecreate(c) \/ Connect(c)
          \/ CreateRefused(c) \/ CreateHeadersReturn(c)
    \/ \E s \in Streams : SupervisorHeadersReturn(s)

Server == \E s \in Streams : ServerAck(s) \/ StreamFails(s)
=============================================================================
