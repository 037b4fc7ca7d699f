---------------------------- MODULE ZerobusStream ----------------------------
(***************************************************************************)
(* One gRPC ingest stream of the Rust SDK (rust/sdk/src/stream/grpc).      *)
(*                                                                         *)
(* Tasks and callers that interleave:                                      *)
(*   clients     ingest_record_offset / ingest_records_offset (ingest.rs)  *)
(*   supervisor  creates connections, spawns the two tasks below, recovers *)
(*               or fails the stream (supervisor.rs)                       *)
(*   sender      one per connection: landing zone -> wire (sender.rs)      *)
(*   receiver    one per connection: server messages -> acks (receiver.rs) *)
(*   callbacks   the callback handler task (callback_handler.rs)           *)
(*   api         one caller of wait_for_offset, flush, close, and of the   *)
(*               synchronous get_unacked_batches, signal_shutdown, Drop    *)
(*               (acks.rs, close.rs, mod.rs)                               *)
(*   server      external: makes records durable in order, acknowledges    *)
(*               them cumulatively, and may end a connection at any time   *)
(*                                                                         *)
(* A step is the code between two await points, except where the comment   *)
(* of an action says that it is split further because another thread can   *)
(* observe the state in between.  A record (or batch) is its logical       *)
(* offset; the physical offset of a record is its position in wire[c].     *)
(***************************************************************************)
EXTENDS LandingZone, Integers, FiniteSets, SequencesExt

CONSTANTS
    Clients,            \* concurrent callers of ingest_*_offset
    MaxRecords,         \* bound: offsets the generator hands out
    MaxConns,           \* bound: connections that get established
    Retries,            \* options.recovery_retries
    Recovery,           \* options.recovery
    WithCallback,       \* options.ack_callback is set
    CallbackMaxWait,    \* options.callback_max_wait_time_ms is Some
    ServerErrors,       \* classes of errors the server and the network produce
    ApiOps,             \* operations the application uses besides ingest
    AbortIsPrompt       \* an aborted receiver ends before the next handshake does

ASSUME StreamAssumptions ==
    /\ MaxRecords \in Nat /\ MaxConns \in Nat /\ Retries \in Nat
    /\ {Recovery, WithCallback, CallbackMaxWait, AbortIsPrompt} \subseteq BOOLEAN
    /\ ServerErrors \subseteq {"retryable", "auth", "permanent"}
    /\ ApiOps \subseteq {"wait", "flush", "close", "unacked", "shutdown", "drop", "cancel"}
    /\ IsFiniteSet(Clients)

Conns == 1 .. MaxConns
Offsets == 0 .. MaxRecords - 1

\* The classes of ZerobusError that the code tells apart: is_retryable(),
\* is_auth_rejection(), anything else.
Errors == {"retryable", "auth", "permanent"}

IsRetryable(e) == e = "retryable"
IsAuthRejection(e) == e = "auth"

VARIABLES
    \* shared state of the stream
    lastOffset,     \* logical_offset_id_generator, -1 before the first offset
    client,         \* program counter of every ingest caller
    isClosed,       \* is_closed
    cancelled,      \* cancellation_token
    lastReceived,   \* logical_last_received_offset_id watch, -1 for None
    serverErr,      \* server_error watch, "none" for None
    failed,         \* failed_records
    staleToken,     \* the provider's cached token is one the server rejected
    \* the supervisor
    sup,            \* program counter
    conn,           \* connections established so far; the last one is current
    attempts,       \* create attempts that failed in this round
    authRetry,      \* initial_auth_retry_available
    supErr,         \* the result it is handling, "ok" or an error; at the end, its own
    failing,        \* records held by fail_all_pending_records
    \* the receivers, one per connection: an aborted one may outlive its connection
    recv,           \* program counter
    lastAcked,      \* last_acked_offset; in the ack loop, the offset last handled
    ackTo,          \* durability_ack_up_to_offset being handled
    logical,        \* last_logical_acked_offset, -2 for none
    aborted,        \* abort() was called
    \* the current connection
    recvRes,        \* result of its receiver
    paused,         \* is_paused, and the receiver's pause_deadline is set
    drain,          \* recv_drain_token
    send,           \* program counter of its sender
    inHand,         \* the item the sender is sending
    sendRes,        \* result of the sender
    streamCancelled,\* per_stream_token
    wire,           \* external: records handed to the outbound stream
    persisted,      \* external: how many of them the server has made durable
    \* callbacks
    cb, cbQueue, cbLog, cbAborted,
    \* the api caller
    api, apiOp, apiTarget, apiRes,
    recvFresh,      \* its offset receiver has an unseen value
    errFresh,       \* its error receiver has an unseen value
    errSent,        \* some value was sent on the server_error watch
    \* history
    accepted,       \* offsets enqueued by an ingest call, in order
    ackLog,         \* offsets removed on an acknowledgement, in order
    durable         \* records the server has made durable on any connection

streamVars == <<isClosed, cancelled>>
clientVars == <<lastOffset, client, accepted>>
watchVars == <<lastReceived, recvFresh>>
errVars == <<serverErr, errFresh, errSent>>
failVars == <<failed, failing>>
supVars == <<sup, conn, attempts, authRetry, supErr>>
recvLocals == <<lastAcked, ackTo, logical, aborted>>
recvVars == <<recv, recvLocals, recvRes, paused, drain>>
sendVars == <<send, inHand, sendRes, streamCancelled>>
netVars == <<wire, persisted, durable>>
cbVars == <<cb, cbQueue, cbLog, cbAborted>>
apiVars == <<api, apiOp, apiTarget, apiRes>>
histVars == <<ackLog>>

resultVars == <<watchVars, errVars, failVars, staleToken>>
taskVars == <<recvVars, sendVars, netVars>>
userVars == <<cbVars, apiVars, histVars>>

vars == <<lzVars, streamVars, clientVars, watchVars, errVars, failVars, staleToken,
          supVars, recvVars, sendVars, netVars, cbVars, apiVars, histVars>>

Init ==
    /\ LZInit
    /\ lastOffset = -1 /\ client = [k \in Clients |-> "idle"]
    /\ isClosed = FALSE /\ cancelled = FALSE
    /\ lastReceived = -1 /\ serverErr = "none"
    /\ failed = <<>> /\ failing = <<>> /\ staleToken = FALSE
    /\ sup = "connecting" /\ conn = 0 /\ attempts = 0
    /\ authRetry = (Retries > 0) /\ supErr = "ok"
    /\ recv = [c \in Conns |-> "none"] /\ lastAcked = [c \in Conns |-> -1]
    /\ ackTo = [c \in Conns |-> -1] /\ logical = [c \in Conns |-> -2]
    /\ aborted = [c \in Conns |-> FALSE]
    /\ recvRes = "ok" /\ paused = FALSE /\ drain = FALSE
    /\ send = "none" /\ inHand = -1 /\ sendRes = "ok" /\ streamCancelled = FALSE
    /\ wire = <<>> /\ persisted = 0 /\ durable = {}
    /\ cb = (IF WithCallback THEN "run" ELSE "none")
    /\ cbQueue = <<>> /\ cbLog = <<>> /\ cbAborted = FALSE
    /\ api = "idle" /\ apiOp = "none" /\ apiTarget = -1
    /\ apiRes = "none"
    /\ recvFresh = FALSE /\ errFresh = FALSE /\ errSent = FALSE
    /\ accepted = <<>> /\ ackLog = <<>>

\* The application holds a stream: new_stream returned and Drop has not run.
Alive == conn > 0 /\ api # "gone"

\* close() and Drop take the stream exclusively (&mut self).
Shared == Alive /\ ~(apiOp = "close" /\ api # "idle")

\* A child token that is not linked to the stream's token.
SendCancelled_ChildOnly == streamCancelled

\* The sender sees either the stream's token or its own child token.
SendCancelled == cancelled \/ streamCancelled

\* A waiting api call holds receivers of the two watches.
Subscribed == api \in {"top", "check", "parked"}

\* logical_last_received_offset_id_tx.send and server_error_tx.send
Received(o) == lastReceived' = o /\ recvFresh' = Subscribed
SendErr(e) == serverErr' = e /\ errFresh' = Subscribed /\ errSent' = TRUE

\* callback_tx.send(..): ignored once the handler task is gone.
Callbacks(msgs) ==
    /\ cbQueue' = IF cb = "run" THEN cbQueue \o msgs ELSE cbQueue
    /\ UNCHANGED <<cb, cbLog, cbAborted>>

------------------------------------------------------------------------------
(* Clients: ingest_internal_v2.  sync_mutex is held in state "adding". *)

\* OffsetIdGenerator::next
NextOffset == lastOffset + 1

\* is_closed is loaded before the mutex is taken, and not again.
IngestCheck(k) ==
    /\ Shared /\ client[k] = "idle" /\ ~isClosed
    /\ lastOffset + Cardinality({j \in Clients : client[j] = "checked"}) < MaxRecords - 1
    /\ client' = [client EXCEPT ![k] = "checked"]
    /\ UNCHANGED <<lzVars, streamVars, lastOffset, accepted, resultVars, supVars, taskVars,
                   userVars>>

\* sync_mutex acquired, an offset drawn from the generator, add() starts.
IngestOffset(k) ==
    /\ client[k] = "checked"
    /\ \A j \in Clients : client[j] # "adding"
    /\ lastOffset' = NextOffset
    /\ client' = [client EXCEPT ![k] = "adding"]
    /\ UNCHANGED <<lzVars, streamVars, accepted, resultVars, supVars, taskVars, userVars>>

\* add() gets a permit and enqueues; the call returns Ok(offset).
IngestAdd(k) ==
    /\ client[k] = "adding"
    /\ permits < MaxInflight
    /\ Add(lastOffset)
    /\ accepted' = Append(accepted, lastOffset)
    /\ client' = [client EXCEPT ![k] = "idle"]
    /\ UNCHANGED <<streamVars, lastOffset, resultVars, supVars, taskVars, userVars>>

\* The caller drops the future (a timeout, a select!) at one of its await points;
\* also after the lock or the permit it waits for was released, before it resumes.
IngestCancel(k) ==
    /\ "cancel" \in ApiOps
    /\ client[k] \in {"checked", "adding"}
    /\ client' = [client EXCEPT ![k] = "idle"]
    /\ UNCHANGED <<lzVars, streamVars, lastOffset, accepted, resultVars, supVars, taskVars,
                   userVars>>

------------------------------------------------------------------------------
(* Supervisor *)

\* What a create attempt can fail with: the headers provider, the rpc or the
\* CreateStream exchange yields an error of some class, or the attempt times out
\* (DeadlineExceeded, a retryable one).
CreateErrors == ServerErrors

\* create_stream_connection: on an auth rejection the provider's invalidate()
\* drops the token (it is taken to return within the attempt's deadline).
TokenAfterReject(e) == staleToken /\ ~IsAuthRejection(e)

\* The policy of RetryIf: should_retry_initial_connection on the first round,
\* `recovery && is_retryable()` afterwards.
ShouldRetry(e) ==
    /\ attempts < Retries
    /\ Recovery
    /\ IsRetryable(e) \/ (conn = 0 /\ IsAuthRejection(e) /\ authRetry)

\* A create attempt fails and RetryIf tries again.  An auth rejection has already
\* invalidated the token, and in the first round it spends the one auth retry.
SupCreateRetry(e) ==
    /\ sup = "connecting" /\ ShouldRetry(e)
    /\ attempts' = attempts + 1
    /\ authRetry' = (authRetry /\ ~(conn = 0 /\ IsAuthRejection(e)))
    /\ staleToken' = TokenAfterReject(e)
    /\ UNCHANGED <<lzVars, streamVars, clientVars, watchVars, errVars, failVars, sup, conn,
                   supErr, taskVars, userVars>>

\* A create attempt fails for good.  Initially new_stream reports the error and
\* there is no stream; on a reconnect is_closed is stored (and no error is sent
\* on server_error) before the pending records are failed.
SupCreateFail(e) ==
    /\ sup = "connecting" /\ ~ShouldRetry(e)
    /\ supErr' = e
    /\ staleToken' = TokenAfterReject(e)
    /\ IF conn = 0
       THEN sup' = "done" /\ UNCHANGED streamVars
       ELSE sup' = "failDrain" /\ isClosed' = TRUE /\ UNCHANGED cancelled
    /\ UNCHANGED <<lzVars, clientVars, watchVars, errVars, failVars, conn, attempts,
                   authRetry, taskVars, userVars>>

\* A reconnect that does not reset the landing zone.
SupConnect_NoReset ==
    /\ sup = "connecting" /\ conn < MaxConns
    /\ AbortIsPrompt => \A c \in Conns : recv[c] \in {"none", "done"}
    /\ conn' = conn + 1 /\ sup' = "running" /\ attempts' = 0 /\ authRetry' = FALSE
    /\ IF conn = 0 THEN UNCHANGED errVars ELSE SendErr("none")
    /\ recv' = [recv EXCEPT ![conn + 1] = "await"]
    /\ paused' = FALSE /\ drain' = FALSE /\ send' = "top" /\ streamCancelled' = FALSE
    /\ wire' = <<>> /\ persisted' = 0
    /\ UNCHANGED <<lzVars, streamVars, clientVars, watchVars, failVars, staleToken, supErr,
                   recvLocals, recvRes, inHand, sendRes, durable, userVars>>

\* A connection is established: clear the error (reconnect only), reset the
\* landing zone, spawn receiver and sender with fresh tokens and counters.
\* AbortIsPrompt: an aborted receiver has stopped before the handshake is over.
SupConnect ==
    /\ sup = "connecting" /\ conn < MaxConns
    /\ AbortIsPrompt => \A c \in Conns : recv[c] \in {"none", "done"}
    /\ conn' = conn + 1 /\ sup' = "running" /\ attempts' = 0 /\ authRetry' = FALSE
    /\ IF conn = 0 THEN UNCHANGED errVars ELSE SendErr("none")
    /\ ResetObserve
    /\ recv' = [recv EXCEPT ![conn + 1] = "await"]
    /\ paused' = FALSE /\ drain' = FALSE /\ send' = "top" /\ streamCancelled' = FALSE
    /\ wire' = <<>> /\ persisted' = 0
    /\ UNCHANGED <<streamVars, clientVars, watchVars, failVars, staleToken, supErr,
                   recvLocals, recvRes, inHand, sendRes, durable, userVars>>

\* A task ends: its locals are gone.
RecvEnd(c) ==
    /\ recv' = [recv EXCEPT ![c] = "done"]
    /\ lastAcked' = [lastAcked EXCEPT ![c] = -1]
    /\ ackTo' = [ackTo EXCEPT ![c] = -1]
    /\ logical' = [logical EXCEPT ![c] = -2]
    /\ aborted' = [aborted EXCEPT ![c] = FALSE]

SendEnd(res) == send' = "done" /\ inHand' = -1 /\ sendRes' = res

\* recv_task.abort(): takes effect at the receiver's next await point.
AbortRecv ==
    IF recv[conn] = "await"
    THEN RecvEnd(conn)
    ELSE /\ aborted' = [aborted EXCEPT ![conn] = recv[conn] # "done"]
         /\ UNCHANGED <<recv, lastAcked, ackTo, logical>>

\* select!: the receiver ended first.  Cancel the sender and wait for it.
SupRecvEnded ==
    /\ sup = "running" /\ recv[conn] = "done"
    /\ sup' = "joinSender" /\ supErr' = recvRes /\ recvRes' = "ok"
    /\ streamCancelled' = TRUE
    /\ UNCHANGED <<lzVars, streamVars, clientVars, resultVars, conn, attempts, authRetry,
                   recv, recvLocals, paused, drain, send, inHand, sendRes, netVars,
                   userVars>>

\* The sender ends, or is aborted at its await point after the drain timeout.
SupJoinSender ==
    /\ sup = "joinSender"
    /\ sup' = "handle"
    /\ SendEnd("ok")
    /\ UNCHANGED <<lzVars, streamVars, clientVars, resultVars, conn, attempts, authRetry,
                   supErr, recvVars, streamCancelled, netVars, userVars>>

\* select!: the sender ended first.  On close the receiver is drained, on an
\* error it is aborted.
SupSendEnded ==
    /\ sup = "running" /\ send = "done"
    /\ supErr' = sendRes /\ sendRes' = "ok"
    /\ IF sendRes = "ok" /\ cancelled
       THEN sup' = "drainRecv" /\ drain' = TRUE /\ UNCHANGED <<recv, recvLocals>>
       ELSE sup' = "handle" /\ AbortRecv /\ UNCHANGED drain
    /\ UNCHANGED <<lzVars, streamVars, clientVars, resultVars, conn, attempts, authRetry,
                   recvRes, paused, send, inHand, streamCancelled, netVars, userVars>>

\* The drained receiver ends, or the drain times out; either way it is aborted.
SupDrained ==
    /\ sup = "drainRecv"
    /\ sup' = "handle"
    /\ AbortRecv
    /\ UNCHANGED <<lzVars, streamVars, clientVars, resultVars, conn, attempts, authRetry,
                   supErr, recvRes, paused, drain, sendVars, netVars, userVars>>

\* The round ended without an error (server close signal, cancellation), or with
\* one that recovery handles, which is published.  Back at the top of the loop:
\* stop if the stream was cancelled, else reconnect.
SupRecover ==
    /\ sup = "handle"
    /\ \/ supErr = "ok" /\ UNCHANGED errVars
       \/ supErr # "ok" /\ IsRetryable(supErr) /\ Recovery /\ SendErr(supErr)
    /\ sup' = IF cancelled THEN "done" ELSE "connecting"
    /\ supErr' = "ok"
    /\ UNCHANGED <<lzVars, streamVars, clientVars, watchVars, failVars, staleToken, conn,
                   attempts, authRetry, taskVars, userVars>>

\* A terminal error: publish it ...
SupPublishError ==
    /\ sup = "handle"
    /\ supErr # "ok" /\ ~(IsRetryable(supErr) /\ Recovery)
    /\ SendErr(supErr)
    /\ sup' = "close"
    /\ UNCHANGED <<lzVars, streamVars, clientVars, watchVars, failVars, staleToken, conn,
                   attempts, authRetry, supErr, taskVars, userVars>>

\* Closing without looking at the class of the error.
SupClose_KeepToken ==
    /\ sup = "close"
    /\ isClosed' = TRUE
    /\ sup' = "failDrain"
    /\ UNCHANGED <<lzVars, cancelled, clientVars, resultVars, conn, attempts, authRetry,
                   supErr, taskVars, userVars>>

\* ... then close the stream ...
SupClose ==
    /\ sup = "close"
    /\ isClosed' = TRUE
    /\ sup' = IF IsAuthRejection(supErr) THEN "invalidate" ELSE "failDrain"
    /\ UNCHANGED <<lzVars, cancelled, clientVars, resultVars, conn, attempts, authRetry,
                   supErr, taskVars, userVars>>

\* ... and, when the server rejected the token, have the provider drop it.
SupInvalidate ==
    /\ sup = "invalidate"
    /\ staleToken' = FALSE
    /\ sup' = "failDrain"
    /\ UNCHANGED <<lzVars, streamVars, clientVars, watchVars, errVars, failVars, conn,
                   attempts, authRetry, supErr, taskVars, userVars>>

\* fail_all_pending_records, first half: with failed_records locked, drain the zone.
FailDrain ==
    /\ sup = "failDrain"
    /\ failing' = AllItems
    /\ RemoveAll
    /\ sup' = "failFinish"
    /\ UNCHANGED <<streamVars, clientVars, watchVars, errVars, failed, staleToken, conn,
                   attempts, authRetry, supErr, taskVars, userVars>>

\* Overwriting failed_records instead of extending it.
FailFinish_Overwrite ==
    /\ sup = "failFinish"
    /\ \A c \in Conns : recv[c] # "acking"
    /\ failed' = failing
    /\ failing' = <<>>
    /\ Callbacks([i \in 1 .. Len(failing) |-> <<"error", failing[i]>>])
    /\ sup' = "done"
    /\ UNCHANGED <<lzVars, streamVars, clientVars, watchVars, errVars, staleToken, conn,
                   attempts, authRetry, supErr, taskVars, apiVars, histVars>>

\* Second half, once oneshot_map is free (a receiver holds it while acking): keep
\* the records, queue their error callbacks, end the supervisor.
FailFinish ==
    /\ sup = "failFinish"
    /\ \A c \in Conns : recv[c] # "acking"
    /\ failed' = failed \o failing
    /\ failing' = <<>>
    /\ Callbacks([i \in 1 .. Len(failing) |-> <<"error", failing[i]>>])
    /\ sup' = "done"
    /\ UNCHANGED <<lzVars, streamVars, clientVars, watchVars, errVars, staleToken, conn,
                   attempts, authRetry, supErr, taskVars, apiVars, histVars>>

------------------------------------------------------------------------------
(* Receiver of connection c *)

\* The receiver returns res through its JoinHandle, which the supervisor of a
\* later connection no longer holds.
RecvReturn(c, res) ==
    /\ RecvEnd(c)
    /\ recvRes' = IF c = conn /\ ~aborted[c] THEN res ELSE recvRes

\* biased select!: a message is only looked at while the drain token is not set.
Listening(c) == recv[c] = "await" /\ ~drain

\* An acknowledgement of everything up to physical offset v, once oneshot_map is
\* locked.  The server's acknowledgements never decrease; a repeated one is possible.
RecvAck(c, v) ==
    /\ Listening(c)
    /\ \A d \in Conns : recv[d] # "acking"
    /\ v \in lastAcked[c] .. persisted - 1 /\ v >= 0
    /\ recv' = [recv EXCEPT ![c] = IF v = lastAcked[c] THEN "publish" ELSE "acking"]
    /\ ackTo' = [ackTo EXCEPT ![c] = v]
    /\ UNCHANGED <<lzVars, streamVars, clientVars, resultVars, supVars, lastAcked, logical,
                   aborted, recvRes, paused, drain, sendVars, netVars, userVars>>

\* Looking at the oldest observed record instead of removing it.
AckOne_Peek(c) ==
    /\ recv[c] = "acking"
    /\ ~IsObservedEmpty
    /\ logical' = [logical EXCEPT ![c] = Head(observed)]
    /\ ackLog' = Append(ackLog, Head(observed))
    /\ Callbacks(<< <<"ack", Head(observed)>> >>)
    /\ lastAcked' = [lastAcked EXCEPT ![c] = @ + 1]
    /\ recv' = [recv EXCEPT ![c] = IF lastAcked[c] + 1 = ackTo[c] THEN "publish" ELSE @]
    /\ UNCHANGED <<lzVars, streamVars, clientVars, resultVars, supVars, ackTo, aborted, recvRes,
                   paused, drain, sendVars, netVars, apiVars>>

\* One iteration of the loop over newly acknowledged physical offsets, holding
\* oneshot_map: remove_observed() and the ack callback; an empty observed queue
\* is skipped.  Other threads run between the iterations.
AckOne(c) ==
    /\ recv[c] = "acking"
    /\ \/ /\ RemoveObserved
          /\ logical' = [logical EXCEPT ![c] = Head(observed)]
          /\ ackLog' = Append(ackLog, Head(observed))
          /\ Callbacks(<< <<"ack", Head(observed)>> >>)
       \/ /\ IsObservedEmpty
          /\ UNCHANGED <<lzVars, logical, ackLog, cbVars>>
    /\ lastAcked' = [lastAcked EXCEPT ![c] = @ + 1]
    /\ recv' = [recv EXCEPT ![c] = IF lastAcked[c] + 1 = ackTo[c] THEN "publish" ELSE @]
    /\ UNCHANGED <<streamVars, clientVars, resultVars, supVars, ackTo, aborted, recvRes,
                   paused, drain, sendVars, netVars, apiVars>>

\* Back at the top of 'recv_loop: an abort takes effect here; a graceful close
\* ends the receiver once nothing is waiting for an acknowledgement.
RecvLoopTop(c, isPaused) ==
    IF aborted[c] \/ (isPaused /\ IsObservedEmpty)
    THEN RecvReturn(c, "ok")
    ELSE /\ recv' = [recv EXCEPT ![c] = "await"]
         /\ logical' = [logical EXCEPT ![c] = -2]
         /\ ackTo' = [ackTo EXCEPT ![c] = -1]
         /\ UNCHANGED <<lastAcked, aborted, recvRes>>

\* Publishing the sentinel of a loop that acknowledged nothing.
AckPublish_Sentinel(c) ==
    /\ recv[c] = "publish"
    /\ Received(logical[c])
    /\ RecvLoopTop(c, paused)
    /\ UNCHANGED <<lzVars, streamVars, clientVars, errVars, failVars, staleToken, supVars,
                   paused, drain, sendVars, netVars, userVars>>

\* The loop is over: publish the last logical offset it acknowledged, if any.
AckPublish(c) ==
    /\ recv[c] = "publish"
    /\ IF logical[c] # -2 THEN Received(logical[c]) ELSE UNCHANGED watchVars
    /\ RecvLoopTop(c, paused)
    /\ UNCHANGED <<lzVars, streamVars, clientVars, errVars, failVars, staleToken, supVars,
                   paused, drain, sendVars, netVars, userVars>>

\* CloseStreamSignal: ignored without recovery; otherwise recover at once (no
\* wait allowed by the server or the options) or pause the sender and wait for
\* the outstanding acknowledgements.
RecvCloseSignal(c) ==
    /\ Listening(c) /\ Recovery
    /\ \/ RecvReturn(c, "ok") /\ UNCHANGED paused
       \/ ~paused /\ paused' = TRUE /\ RecvLoopTop(c, TRUE)
    /\ UNCHANGED <<lzVars, streamVars, clientVars, resultVars, supVars, drain, sendVars,
                   netVars, userVars>>

\* The pause deadline passes.
RecvPauseDeadline(c) ==
    /\ Listening(c) /\ paused
    /\ RecvReturn(c, "ok")
    /\ UNCHANGED <<lzVars, streamVars, clientVars, resultVars, supVars, paused, drain,
                   sendVars, netVars, userVars>>

\* The response stream ends, breaks or carries an unexpected message.
RecvError(c, e) ==
    /\ Listening(c)
    /\ SendErr(e)
    /\ RecvReturn(c, e)
    /\ staleToken' = (staleToken \/ IsAuthRejection(e))
    /\ UNCHANGED <<lzVars, streamVars, clientVars, watchVars, failVars, supVars, paused,
                   drain, sendVars, netVars, userVars>>

\* No message for server_lack_of_ack_timeout_ms: an error if records are waiting
\* and the stream is not pausing, otherwise another turn of the loop.
RecvTimeout(c) ==
    /\ Listening(c)
    /\ \/ /\ ~paused /\ ~IsObservedEmpty
          /\ SendErr("retryable") /\ RecvReturn(c, "retryable")
       \/ /\ paused /\ IsObservedEmpty
          /\ RecvLoopTop(c, TRUE) /\ UNCHANGED errVars
    /\ UNCHANGED <<lzVars, streamVars, clientVars, watchVars, failVars, staleToken, supVars,
                   paused, drain, sendVars, netVars, userVars>>

\* The supervisor's drain token: read and discard what is left, then return.
RecvDrain(c) ==
    /\ recv[c] = "await" /\ drain
    /\ RecvReturn(c, "ok")
    /\ UNCHANGED <<lzVars, streamVars, clientVars, resultVars, supVars, paused, drain,
                   sendVars, netVars, userVars>>

------------------------------------------------------------------------------
(* Sender of the current connection *)

\* The top of the loop: the first poll of the select! finds the token not cancelled
\* and loads is_paused, once.
SendTop ==
    /\ send = "top"
    /\ IF SendCancelled
       THEN SendEnd("ok")
       ELSE send' = (IF paused THEN "pending" ELSE "polled") /\ UNCHANGED <<inHand, sendRes>>
    /\ UNCHANGED <<lzVars, streamVars, clientVars, resultVars, supVars, recvVars,
                   streamCancelled, netVars, userVars>>

\* A later poll, after the zone's notification: cancelled() comes first again.
SendPoll ==
    /\ send = "observe" /\ queue # <<>> /\ ~SendCancelled
    /\ send' = "polled"
    /\ UNCHANGED <<lzVars, streamVars, clientVars, resultVars, supVars, recvVars, inHand, sendRes,
                   streamCancelled, netVars, userVars>>

\* observe() finds nothing and the select! parks.
SendPark ==
    /\ send = "polled" /\ queue = <<>>
    /\ send' = "observe"
    /\ UNCHANGED <<lzVars, streamVars, clientVars, resultVars, supVars, recvVars, inHand, sendRes,
                   streamCancelled, netVars, userVars>>

\* The cancellation branch of the select!, which is polled first.
SendCancel ==
    /\ send \in {"observe", "pending"} /\ SendCancelled
    /\ SendEnd("ok")
    /\ UNCHANGED <<lzVars, streamVars, clientVars, resultVars, supVars, recvVars,
                   streamCancelled, netVars, userVars>>

\* observe() returns an item, although the stream may have been cancelled or
\* drained since cancelled() was polled; its physical offset is the next position
\* in wire.
SendObserve ==
    /\ send = "polled"
    /\ Observe
    /\ inHand' = Head(queue) /\ send' = "sending"
    /\ UNCHANGED <<streamVars, clientVars, resultVars, supVars, recvVars, sendRes,
                   streamCancelled, netVars, userVars>>

\* outbound_stream.send() succeeds.
SendRecord ==
    /\ send = "sending"
    /\ wire' = Append(wire, inHand)
    /\ inHand' = -1 /\ send' = "top"
    /\ UNCHANGED <<lzVars, streamVars, clientVars, resultVars, supVars, recvVars, sendRes,
                   streamCancelled, persisted, durable, userVars>>

\* outbound_stream.send() fails: the connection is gone.
SendFail ==
    /\ send = "sending"
    /\ SendErr("retryable")
    /\ SendEnd("retryable")
    /\ UNCHANGED <<lzVars, streamVars, clientVars, watchVars, failVars, staleToken, supVars,
                   recvVars, streamCancelled, netVars, userVars>>

------------------------------------------------------------------------------
(* Server (external): the records of a connection become durable in order.
   What it makes durable after the client has given the connection up is left
   out: no code can see it, and it only adds to `durable`. *)

Persist ==
    /\ conn > 0 /\ recv[conn] # "done"
    /\ persisted < Len(wire)
    /\ persisted' = persisted + 1
    /\ durable' = durable \cup {wire[persisted + 1]}
    /\ UNCHANGED <<lzVars, streamVars, clientVars, resultVars, supVars, recvVars, sendVars,
                   wire, userVars>>

------------------------------------------------------------------------------
(* Callback handler task *)

\* The supervisor and every receiver are gone, and with them the callback senders.
TasksGone == sup = "done" /\ \A c \in Conns : recv[c] \in {"none", "done"}

CallbackDeliver ==
    /\ cb = "run" /\ cbQueue # <<>>
    /\ cbLog' = Append(cbLog, Head(cbQueue))
    /\ cbQueue' = Tail(cbQueue)
    /\ UNCHANGED <<lzVars, streamVars, clientVars, resultVars, supVars, taskVars, cb,
                   cbAborted, apiVars, histVars>>

\* An unbiased select!: cancellation may win over queued messages.
CallbackExit_Eager ==
    /\ cb = "run"
    /\ cancelled \/ TasksGone
    /\ cb' = "done"
    /\ UNCHANGED <<lzVars, streamVars, clientVars, resultVars, supVars, taskVars, cbQueue,
                   cbLog, cbAborted, apiVars, histVars>>

\* biased select!: the queue is drained before cancellation is noticed.
CallbackExit ==
    /\ cb = "run" /\ cbQueue = <<>>
    /\ cancelled \/ TasksGone
    /\ cb' = "done"
    /\ UNCHANGED <<lzVars, streamVars, clientVars, resultVars, supVars, taskVars, cbQueue,
                   cbLog, cbAborted, apiVars, histVars>>

------------------------------------------------------------------------------
(* The api caller: wait_for_offset, flush and close share wait_for_offset_internal *)

ClientsIdle == \A k \in Clients : client[k] = "idle"

Call(op) == Alive /\ api = "idle" /\ op \in ApiOps

\* A call begins to wait for target: subscribe to both watches.  A clone of
\* server_error_rx has never seen what was sent before.
WaitBegin(op, target) ==
    /\ api' = "top" /\ apiOp' = op /\ apiTarget' = target
    /\ recvFresh' = FALSE /\ errFresh' = errSent
    /\ UNCHANGED <<streamVars, apiRes, lastReceived, serverErr, errSent>>

\* shutdown_all_tasks_gracefully, up to its first await.
BeginShutdown(res) ==
    /\ isClosed' = TRUE /\ cancelled' = TRUE
    /\ api' = "shutdown" /\ apiRes' = res

\* wait_for_offset_internal returns res: to the application, or to close().
WaitReturn(res) ==
    /\ IF apiOp = "close"
       THEN BeginShutdown(res)
       ELSE api' = "returned" /\ apiRes' = res /\ UNCHANGED streamVars
    /\ recvFresh' = FALSE /\ errFresh' = FALSE
    /\ UNCHANGED <<apiOp, apiTarget, lastReceived, serverErr, errSent>>

\* wait_for_offset_internal goes on at pc; the caller has seen the given watch.
WaitGoto(pc, seenOffset, seenErr) ==
    /\ api' = pc
    /\ recvFresh' = (recvFresh /\ ~seenOffset)
    /\ errFresh' = (errFresh /\ ~seenErr)
    /\ UNCHANGED <<streamVars, apiOp, apiTarget, apiRes, lastReceived, serverErr, errSent>>

waitOthers == <<lzVars, clientVars, failVars, staleToken, supVars, taskVars, cbVars, histVars>>

\* wait_for_offset(t), for an offset an ingest call returned.
WaitForOffset(t) ==
    /\ Call("wait") /\ t \in ToSet(accepted)
    /\ WaitBegin("wait", t)
    /\ UNCHANGED waitOthers

\* flush(): wait for the last offset generated; with none, return Ok.
Flush ==
    /\ Call("flush") /\ lastOffset # -1
    /\ WaitBegin("flush", lastOffset)
    /\ UNCHANGED waitOthers

\* close(): on a closed stream return Ok at once; otherwise flush first.
Close ==
    /\ Call("close") /\ ClientsIdle
    /\ \/ /\ isClosed
          /\ api' = "returned" /\ apiOp' = "close" /\ apiRes' = "okAlreadyClosed"
          /\ UNCHANGED <<streamVars, apiTarget, watchVars, errVars>>
       \/ /\ ~isClosed /\ lastOffset = -1
          /\ BeginShutdown("ok") /\ apiOp' = "close"
          /\ UNCHANGED <<apiTarget, watchVars, errVars>>
       \/ /\ ~isClosed /\ lastOffset # -1
          /\ WaitBegin("close", lastOffset)
    /\ UNCHANGED waitOthers

\* Off by one.
CaughtUp_OffByOne == lastReceived + 1 >= apiTarget

CaughtUp == lastReceived >= apiTarget

\* The top of the loop: borrow_and_update the offset.
WaitTop ==
    /\ api = "top"
    /\ IF CaughtUp THEN WaitReturn("ok") ELSE WaitGoto("check", TRUE, FALSE)
    /\ UNCHANGED waitOthers

\* Without the is_closed check: only the two watches end the wait.
WaitCheck_NoClosed ==
    /\ api = "check"
    /\ WaitGoto("parked", FALSE, FALSE)
    /\ UNCHANGED waitOthers

\* is_closed is loaded after the offset; the offset is read again before failing.
WaitCheck ==
    /\ api = "check"
    /\ IF isClosed
       THEN WaitReturn(IF CaughtUp THEN "ok"
                       ELSE IF serverErr # "none" THEN "errServer" ELSE "errClosed")
       ELSE WaitGoto("parked", FALSE, FALSE)
    /\ UNCHANGED waitOthers

\* select!: the offset receiver has a new value.
WaitOffsetChanged ==
    /\ api = "parked" /\ recvFresh
    /\ WaitGoto("top", TRUE, FALSE)
    /\ UNCHANGED waitOthers

\* Every sender of server_error is gone: changed() then fails, at once and always.
ErrorChannelClosed == TasksGone /\ send \in {"none", "done"}

\* select!: the error receiver has a new value, or its channel is closed.
WaitErrorChanged ==
    /\ api = "parked" /\ (errFresh \/ ErrorChannelClosed)
    /\ IF serverErr # "none" /\ isClosed
       THEN WaitReturn(IF CaughtUp THEN "ok" ELSE "errServer")
       ELSE WaitGoto("top", FALSE, TRUE)
    /\ UNCHANGED waitOthers

\* flush_timeout_ms expires.
WaitTimeout ==
    /\ Subscribed
    /\ WaitReturn("errTimeout")
    /\ UNCHANGED waitOthers

\* supervisor_task.abort(), or finding it finished.  The tasks it spawned are
\* detached, not stopped.  The abort takes effect at an await that really waits:
\* the error path waits only for the headers provider (the two locks of
\* fail_all_pending_records are held by others in synchronous sections only).
AbortSup ==
    /\ sup \notin {"handle", "close", "failDrain", "failFinish"}
    /\ sup' = "done"
    /\ UNCHANGED <<conn, attempts, authRetry, supErr>>

\* close() waits for the supervisor, aborting it after SHUTDOWN_TIMEOUT_SECS.
ShutdownSup ==
    /\ api = "shutdown"
    /\ AbortSup
    /\ api' = "callbacks"
    /\ UNCHANGED <<lzVars, streamVars, clientVars, resultVars, taskVars, apiOp, apiTarget,
                   apiRes, cbVars, histVars>>

\* close() waits for the callback handler, for ever or up to the configured time,
\* and returns what flush() returned.
ShutdownCallbacks ==
    /\ api = "callbacks"
    /\ \/ cb # "run" /\ UNCHANGED <<cb, cbAborted>>
       \/ cb = "run" /\ CallbackMaxWait /\ cb' = "done" /\ cbAborted' = TRUE
    /\ api' = "returned"
    /\ UNCHANGED <<lzVars, streamVars, clientVars, resultVars, supVars, taskVars, apiOp,
                   apiTarget, apiRes, cbQueue, cbLog, histVars>>

\* The application takes the result of its call.
Returned ==
    /\ api = "returned"
    /\ api' = "idle" /\ apiOp' = "none" /\ apiTarget' = -1 /\ apiRes' = "none"
    /\ UNCHANGED <<lzVars, streamVars, clientVars, resultVars, supVars, taskVars, cbVars,
                   histVars>>

\* get_unacked_batches: refused on an open stream; with failed_records locked,
\* take over whatever the landing zone still holds.
GetUnacked ==
    /\ Shared /\ "unacked" \in ApiOps /\ isClosed /\ sup # "failFinish"
    /\ failed' = failed \o AllItems
    /\ RemoveAll
    /\ UNCHANGED <<streamVars, clientVars, watchVars, errVars, failing, staleToken, supVars,
                   taskVars, cbVars, apiVars, ackLog>>

\* signal_shutdown, on the failure of another substream of a MultiplexedStream.
SignalShutdown ==
    /\ Shared /\ "shutdown" \in ApiOps /\ ~cancelled
    /\ isClosed' = TRUE /\ cancelled' = TRUE
    /\ UNCHANGED <<lzVars, clientVars, resultVars, supVars, taskVars, userVars>>

\* Drop for ZerobusStream: nothing is flushed, every task is cancelled or aborted.
DropStream ==
    /\ Call("drop") /\ ClientsIdle
    /\ isClosed' = TRUE /\ cancelled' = TRUE
    /\ AbortSup
    /\ cb' = (IF cb = "run" THEN "done" ELSE cb) /\ cbAborted' = (cb = "run" \/ cbAborted)
    /\ api' = "gone"
    /\ UNCHANGED <<lzVars, clientVars, resultVars, taskVars, cbQueue, cbLog, apiOp,
                   apiTarget, apiRes, histVars>>

------------------------------------------------------------------------------

\* Nothing is left to run: new_stream failed, or the stream is closed for good.
Terminated ==
    /\ TasksGone /\ send \in {"none", "done"} /\ cb # "run"
    /\ api \in {"idle", "gone"} /\ ClientsIdle
    /\ UNCHANGED vars

ClientStep(k) == IngestOffset(k) \/ IngestAdd(k)

SupStep ==
    \/ \E e \in CreateErrors : SupCreateRetry(e) \/ SupCreateFail(e)
    \/ SupConnect \/ SupRecvEnded \/ SupJoinSender \/ SupSendEnded \/ SupDrained
    \/ SupRecover \/ SupPublishError \/ SupClose \/ SupInvalidate
    \/ FailDrain \/ FailFinish

\* What the server sends, or fails to send.
RecvMessage(c) ==
    \/ \E v \in Offsets : RecvAck(c, v)
    \/ RecvCloseSignal(c) \/ RecvPauseDeadline(c) \/ RecvTimeout(c)
    \/ \E e \in ServerErrors : RecvError(c, e)

RecvStep(c) == AckOne(c) \/ AckPublish(c) \/ RecvDrain(c)

SendStep == SendTop \/ SendPoll \/ SendPark \/ SendCancel \/ SendObserve \/ SendRecord

CallbackStep == CallbackDeliver \/ CallbackExit

ApiCall ==
    \/ \E t \in Offsets : WaitForOffset(t)
    \/ Flush \/ Close \/ GetUnacked \/ SignalShutdown \/ DropStream

ApiStep ==
    \/ WaitTop \/ WaitCheck \/ WaitOffsetChanged \/ WaitErrorChanged
    \/ ShutdownSup \/ ShutdownCallbacks \/ Returned

Next ==
    \/ \E k \in Clients : IngestCheck(k) \/ ClientStep(k) \/ IngestCancel(k)
    \/ SupStep
    \/ \E c \in Conns : RecvStep(c) \/ RecvMessage(c)
    \/ SendStep \/ SendFail \/ Persist
    \/ CallbackStep
    \/ ApiCall \/ ApiStep \/ WaitTimeout
    \/ Terminated

Spec == Init /\ [][Next]_vars

\* Every task that can run is scheduled (tokio), and so are the waiting callers.
\* The server stores what it is sent and acknowledges what it stored (strong
\* fairness: repeated acknowledgements may keep interrupting), and the timer of a
\* graceful close fires.  No error, timeout or cancellation has to happen.
Fairness ==
    /\ \A k \in Clients : WF_vars(ClientStep(k))
    /\ WF_vars(SupStep) /\ WF_vars(SendStep) /\ WF_vars(CallbackStep) /\ WF_vars(ApiStep)
    /\ WF_vars(Persist)
    /\ \A c \in Conns :
          /\ WF_vars(RecvStep(c))
          /\ SF_vars(RecvPauseDeadline(c))
          /\ SF_vars(\E v \in Offsets : v > lastAcked[c] /\ RecvAck(c, v))

FairSpec == Spec /\ Fairness

------------------------------------------------------------------------------
(* Properties *)

Acked == ToSet(ackLog)
Held == ackLog \o observed \o queue \o failing \o failed

ClientTypes ==
    /\ lastOffset \in -1 .. MaxRecords - 1
    /\ client \in [Clients -> {"idle", "checked", "adding"}]

RecordTypes ==
    /\ queue \in Seq(Offsets) /\ observed \in Seq(Offsets) /\ permits \in 0 .. MaxInflight
    /\ failed \in Seq(Offsets) /\ failing \in Seq(Offsets)
    /\ accepted \in Seq(Offsets) /\ ackLog \in Seq(Offsets)

StateTypes ==
    /\ isClosed \in BOOLEAN /\ cancelled \in BOOLEAN /\ staleToken \in BOOLEAN
    /\ lastReceived \in -1 .. MaxRecords - 1 /\ recvFresh \in BOOLEAN
    /\ serverErr \in Errors \cup {"none"} /\ errFresh \in BOOLEAN /\ errSent \in BOOLEAN

SupTypes ==
    /\ sup \in {"connecting", "running", "joinSender", "drainRecv", "handle", "close",
                "invalidate", "failDrain", "failFinish", "done"}
    /\ conn \in 0 .. MaxConns /\ attempts \in 0 .. Retries /\ authRetry \in BOOLEAN
    /\ supErr \in Errors \cup {"ok"}

RecvTypes ==
    /\ recv \in [Conns -> {"none", "await", "acking", "publish", "done"}]
    /\ lastAcked \in [Conns -> Offsets \cup {-1}] /\ ackTo \in [Conns -> Offsets \cup {-1}]
    /\ logical \in [Conns -> Offsets \cup {-2}] /\ aborted \in [Conns -> BOOLEAN]
    /\ recvRes \in Errors \cup {"ok"} /\ paused \in BOOLEAN /\ drain \in BOOLEAN

SendTypes ==
    /\ send \in {"none", "top", "polled", "observe", "pending", "sending", "done"}
    /\ inHand \in Offsets \cup {-1} /\ (send = "sending" => inHand \in Offsets)
    /\ sendRes \in Errors \cup {"ok"} /\ streamCancelled \in BOOLEAN
    /\ wire \in Seq(Offsets) /\ persisted \in 0 .. Len(wire) /\ durable \subseteq Offsets

UserTypes ==
    /\ cb \in {"none", "run", "done"} /\ cbAborted \in BOOLEAN
    /\ cbQueue \in Seq({"ack", "error"} \X Offsets) /\ cbLog \in Seq({"ack", "error"} \X Offsets)
    /\ api \in {"idle", "top", "check", "parked", "shutdown", "callbacks", "returned", "gone"}
    /\ apiOp \in {"none", "wait", "flush", "close"} /\ apiTarget \in Offsets \cup {-1}
    /\ apiRes \in {"none", "ok", "okAlreadyClosed", "errServer", "errClosed", "errTimeout"}

\* Every variable has the type its declaration in the code gives it.
TypeOK ==
    /\ ClientTypes /\ RecordTypes /\ StateTypes /\ SupTypes /\ RecvTypes /\ SendTypes
    /\ UserTypes

\* Every record an ingest call accepted is in exactly one place: acknowledged,
\* in the landing zone, in the hands of fail_all_pending_records, or in
\* failed_records.  No reconnect, failure, cancelled call or get_unacked_batches
\* loses or duplicates one.
NoRecordLost ==
    /\ IsInjective(Held)
    /\ ToSet(Held) = ToSet(accepted)

\* A record leaves the landing zone as acknowledged only if the server has made
\* that record durable: the physical offsets a connection acknowledges line up
\* with the logical records it sent (receiver.rs:113-128, sender.rs:42).
AckedIsDurable == Acked \subseteq durable

\* Ok from wait_for_offset, flush or the flush of close() means that every record
\* accepted up to that offset has been acknowledged.
WaitOkMeansAcked ==
    apiRes = "ok" => \A o \in ToSet(accepted) : o <= apiTarget => o \in Acked

\* A record gets at most one callback, on_ack only if it was acknowledged and
\* on_error only if it is in failed_records.
CallbackMatchesFate ==
    LET msgs == cbLog \o cbQueue
    IN  /\ \A i, j \in 1 .. Len(msgs) : msgs[i][2] = msgs[j][2] => i = j
        /\ \A i \in 1 .. Len(msgs) :
              msgs[i][2] \in (IF msgs[i][1] = "ack" THEN Acked ELSE ToSet(failed))

\* When close() returns Ok after its flush, the callback of every record has run,
\* unless the configured wait for callbacks ran out (close.rs, callback_handler.rs:31).
CloseRunsCallbacks ==
    api = "returned" /\ apiOp = "close" /\ apiRes = "ok" /\ WithCallback /\ ~cbAborted =>
        \A o \in ToSet(accepted) : \E i \in 1 .. Len(cbLog) : cbLog[i] = <<"ack", o>>

\* When the stream fails because the server rejected its token, on a connection or
\* on a reconnect, the provider has dropped that token (supervisor.rs:291-295,
\* connection.rs:51-55).  Closing or dropping the stream may cut this short.
RejectedTokenDropped == sup = "done" /\ supErr = "auth" /\ ~cancelled => ~staleToken

\* The stream, with all its connections, implements the ledger it promises.
Ledger == INSTANCE AckLedger
            WITH Offset <- Offsets, pending <- AllItems, acked <- ackLog,
                 returned <- failed \o failing, announced <- lastReceived
ImplementsLedger == Ledger!LedgerSpec

\* wait_for_offset, flush and close return without their timeout's help: the
\* offset arrives, or the end of the stream wakes them (acks.rs:73-96).
WaitReturns == Subscribed ~> ~Subscribed

\* An ingest call blocked on capacity returns: acknowledgements or the failure of
\* the stream free a permit (landing_zone.rs:97-102, supervisor.rs:325).  Only
\* signal_shutdown, which drains nothing, may leave it waiting.
IngestReturns == \A k \in Clients : client[k] # "idle" ~> client[k] = "idle" \/ cancelled

\* A closed stream's supervisor ends, in every phase close() or a failure meets it.
ClosedSupervisorEnds == isClosed ~> sup = "done"

------------------------------------------------------------------------------
(* Statements of the documentation that the code does not keep *)

\* close.rs:33: Ok(()) "if the stream was closed successfully after flushing all
\* records"; acks.rs:251: Ok(_) => "All records acknowledged".
CloseOkMeansAllAcked ==
    api = "returned" /\ apiOp = "close" /\ apiRes \in {"ok", "okAlreadyClosed"} =>
        ToSet(accepted) \subseteq Acked

\* acks.rs:139 on flush: "Ok(()) when all pending records at the time of the call
\* have been acknowledged".
FlushEndsOnceAllAcked ==
    (/\ apiOp = "flush" /\ Subscribed
     /\ \A o \in ToSet(accepted) : o <= apiTarget => o \in Acked) ~> ~Subscribed
==============================================================================
