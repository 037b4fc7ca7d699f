----------------------------- MODULE ArrowStream -----------------------------
(***************************************************************************)
(* ZerobusArrowStream (rust/sdk/src/stream/arrow): ingestion of record     *)
(* batches over Arrow Flight.  Callers of ingest_batch, the supervisor     *)
(* with its acknowledgement processor, one waiter and close() share        *)
(* pending_batches, three record counters and a pause gate.                *)
(*                                                                         *)
(* The server acknowledges records, not batches, and counts them per       *)
(* connection: pending batches carry a range [start, end) of the current   *)
(* connection, and a reconnect cuts off acknowledged prefixes and renumbers*)
(* the rest from 0.  A record is <<offset of its batch, position>>.        *)
(*                                                                         *)
(* A step reaches from one await point to the next.  Time is left out: a   *)
(* deadline may pass at any moment at which the code watches it.           *)
(***************************************************************************)
EXTENDS Integers, FiniteSetsExt, SequencesExt

CONSTANTS
    Callers,            \* tasks that call ingest_batch
    MaxInflight,        \* max_inflight_batches
    Retries,            \* recovery_retries
    Recoveries,         \* the values of options.recovery to explore
    MaxBatches,         \* bound: batches that get an offset
    MaxRows,            \* bound: rows of a batch
    Interrupts          \* await points at which the application may drop a call

ASSUME ArrowAssumptions ==
    /\ MaxInflight \in Nat \ {0} /\ Retries \in Nat /\ Recoveries \subseteq BOOLEAN
    /\ MaxBatches \in Nat /\ MaxRows \in Nat \ {0}
    /\ IsFiniteSet(Callers) /\ Callers \cap {"free", "sup", "close"} = {}
    /\ Interrupts \subseteq {"permit", "mutex", "assigned", "send", "commit", "close", "drop"}

VARIABLES
    recovery,           \* options.recovery
    \* shared state of the stream
    pending,            \* pending_batches
    failed,             \* failed_batches
    permits,            \* free permits of inflight
    mutex,              \* holder of ingest_mutex, or "free"
    paused,             \* is_paused
    sender,             \* batch_tx holds a sender
    assigned,           \* cumulative_records_assigned
    submitted,          \* submitted_records
    acked,              \* last_acked_records
    lastAck,            \* last_ack_tx, -1 before the first acknowledged batch
    serverError,        \* server_error_tx, or "none"
    sendFailure,        \* request_send_failure
    closed,             \* is_closed
    teardown,           \* close_teardown_started
    closeError,         \* close_flush_error, "ok" for None
    attempts,           \* recovery_attempts; retries already used while creating
    \* the current connection
    reqOpen,            \* the request channel still has its receiver
    queue,              \* rows of each batch in the channel
    wire,               \* rows that have left the channel
    \* the supervisor
    sup, rotation, target, respDone, err, authRetry, ackedBefore, replayed,
    \* the application
    pc,                 \* the ingest_batch call of each caller
    wait,               \* the flush() or wait_for_offset() call
    closing,            \* the close() call
    result,             \* what close() returned last
    \* history
    size,               \* rows of each batch that got an offset
    accepted,           \* offsets returned by ingest_batch
    handed,             \* records handed to the current connection, in order
    confirmed,          \* records the server has acknowledged
    snapped             \* get_unacked_batches has returned a snapshot

batches == <<pending, failed, permits>>
counters == <<assigned, submitted, acked>>
gate == <<paused, sender>>
marks == <<lastAck, serverError>>
life == <<closed, teardown, closeError>>
net == <<reqOpen, queue, wire>>
supVars == <<sup, rotation, target, respDone, err, authRetry, ackedBefore, replayed, attempts>>
closeVars == <<closing, result>>
vars == <<recovery, batches, counters, gate, marks, life, mutex, sendFailure, net, supVars,
          pc, wait, closeVars, size, accepted, handed, confirmed, snapped>>

Offsets == 0 .. MaxBatches - 1
Errors == {"retry", "perm", "auth"}     \* is_retryable, neither, is_auth_rejection
NoWait == [st |-> "idle", goal |-> -1, woken |-> FALSE, owner |-> "none"]

------------------------------------------------------------------------------
(* Pending batches *)

NumRows(b) == size[b.offset] - b.skip
RowsOf(b) == {b.offset} \X (b.skip + 1 .. size[b.offset])
RowSeq(b) == [i \in 1 .. NumRows(b) |-> <<b.offset, b.skip + i>>]
BatchRows(o) == {o} \X (1 .. size[o])

\* A batch counts as done once its first row is acknowledged.
FullyAcknowledged_Touched(b, n) == n > b.start

FullyAcknowledged(b, n) == n >= b.end

\* The part of a batch the server has not acknowledged; all rows skipped means none.
UnacknowledgedSuffix(b, n) ==
    IF b.start >= n THEN b
    ELSE [b EXCEPT !.skip = @ + (IF n - b.start < NumRows(b) THEN n - b.start ELSE NumRows(b))]

\* The k-th smallest of a set of indices.
Nth(I, k) == CHOOSE i \in I : Cardinality({j \in I : j <= i}) = k

\* What is left of a Vec when the elements at the indices in I are retained.
Retain(s, I) == [k \in 1 .. Cardinality(I) |-> s[Nth(I, k)]]

\* The suffixes of a sequence of batches, without the empty ones.
UnackedParts(bs, n) ==
    LET cut == [i \in DOMAIN bs |-> UnacknowledgedSuffix(bs[i], n)]
    IN  Retain(cut, {i \in DOMAIN bs : NumRows(cut[i]) > 0})

\* The rows of a sequence of batches, each counted as <<its batch, its position>>.
RowCount(bs) == Cardinality({r \in (DOMAIN bs) \X (1 .. MaxRows) : r[2] <= NumRows(bs[r[1]])})

\* rebuild_pending_for_replay: cut acknowledged prefixes, renumber from 0.
RebuildPending(bs, n) ==
    LET kept == UnackedParts(bs, n)
        before(i) == RowCount(SubSeq(kept, 1, i - 1))
    IN  [i \in DOMAIN kept |->
            [kept[i] EXCEPT !.start = before(i), !.end = before(i) + NumRows(kept[i])]]

\* The permits of drained batches are lost.
MovePendingToFailed_LeakPermits ==
    /\ failed' = failed \o UnackedParts(pending, acked)
    /\ UNCHANGED permits
    /\ pending' = <<>>

\* The unacknowledged parts are copied, and stay pending.
MovePendingToFailed_Copy ==
    /\ failed' = failed \o UnackedParts(pending, acked)
    /\ UNCHANGED <<permits, pending>>

\* move_pending_to_failed; draining pending frees the permits.
MovePendingToFailed ==
    /\ failed' = failed \o UnackedParts(pending, acked)
    /\ permits' = permits + Len(pending)
    /\ pending' = <<>>

\* The oldest batch submitted on this connection has a deadline.
HasAckDeadline == \E i \in DOMAIN pending : pending[i].start < submitted

------------------------------------------------------------------------------
(* What every part uses *)

Unlock(who) == IF mutex = who THEN "free" ELSE mutex

\* A send on a watch channel wakes the waiter.
Woken == [wait EXCEPT !.woken = wait.st # "idle"]

\* AckProgress::apply for an acknowledgement of n records that is not above submitted.
ApplyAck(n) ==
    LET effective == IF n > acked THEN n ELSE acked
        done == {i \in DOMAIN pending : FullyAcknowledged(pending[i], effective)}
    IN  /\ acked' = effective
        /\ pending' = Retain(pending, DOMAIN pending \ done)
        /\ permits' = permits + Cardinality(done)
        /\ confirmed' = confirmed \cup {handed[i] : i \in 1 .. n \cap DOMAIN handed}
        /\ IF done = {} THEN UNCHANGED <<lastAck, wait>>
           ELSE lastAck' = Max({pending[i].offset : i \in done}) /\ wait' = Woken

NoAck == UNCHANGED <<acked, pending, permits, confirmed, lastAck, wait>>

\* What the server may acknowledge: rows that reached it, in any order and as often as it
\* likes, or, against the protocol, more than was submitted.
AckValues == 0 .. wire \cup {submitted + 1}

\* apply() refuses an acknowledgement of more than was submitted.
Valid(n) == n <= submitted

\* A new connection, before anything is sent on it.
Fresh ==
    /\ reqOpen' = TRUE /\ queue' = <<>> /\ wire' = 0 /\ handed' = <<>>

Init ==
    /\ recovery \in Recoveries
    /\ pending = <<>> /\ failed = <<>> /\ permits = MaxInflight /\ mutex = "free"
    /\ paused = FALSE /\ sender = FALSE /\ assigned = 0 /\ submitted = 0 /\ acked = 0
    /\ lastAck = -1 /\ serverError = "none" /\ sendFailure = FALSE
    /\ closed = FALSE /\ teardown = FALSE /\ closeError = "ok" /\ attempts = 0
    /\ reqOpen = FALSE /\ queue = <<>> /\ wire = 0
    /\ sup = "create" /\ rotation = "open" /\ target = 0 /\ respDone = FALSE
    /\ err = "none" /\ authRetry = (Retries > 0) /\ ackedBefore = 0 /\ replayed = 0
    /\ pc = [c \in Callers |-> "idle"] /\ wait = NoWait
    /\ closing = "idle" /\ result = "none"
    /\ size = [o \in Offsets |-> 0] /\ accepted = {} /\ handed = <<>>
    /\ confirmed = {} /\ snapped = FALSE

------------------------------------------------------------------------------
(* Creation *)

\* An attempt of new() succeeds: the sender is stored and the supervisor starts.
CreateOk ==
    /\ sup = "create"
    /\ Fresh /\ sender' = TRUE /\ sup' = "process"
    /\ authRetry' = FALSE /\ attempts' = 0
    /\ UNCHANGED <<recovery, batches, counters, paused, marks, life, mutex, sendFailure,
                   rotation, target, respDone, err, ackedBefore, replayed,
                   pc, wait, closeVars, size, accepted, confirmed, snapped>>

\* An attempt fails.  Retryable errors are tried again, an auth rejection once.
CreateFail(e) ==
    /\ sup = "create"
    /\ LET again == /\ recovery /\ attempts < Retries
                    /\ e = "retry" \/ (e = "auth" /\ authRetry)
       IN  /\ sup' = IF again THEN "create" ELSE "none"
           /\ attempts' = IF again THEN attempts + 1 ELSE attempts
           /\ authRetry' = (authRetry /\ e # "auth")
    /\ UNCHANGED <<recovery, batches, counters, gate, marks, life, mutex, sendFailure, net,
                   rotation, target, respDone, err, ackedBefore, replayed,
                   pc, wait, closeVars, size, accepted, handed, confirmed, snapped>>

------------------------------------------------------------------------------
(* ingest_batch *)

Refusing == closed \/ teardown

\* Calls that take &self run only while no call that takes &mut self does.
Shared == sup \notin {"create", "none"} /\ closing = "idle"

Goto(c, where) == pc' = [pc EXCEPT ![c] = where]

\* offset_generator.last(), -1 for None; the call that holds ingest_mutex drew it.
LastOffset == Cardinality({o \in Offsets : size[o] > 0}) - 1
Current == LastOffset

\* Entry: lifecycle check.  Schema and empty-batch errors return here without a trace.
IngestStart(c) ==
    /\ Shared /\ pc[c] = "idle" /\ ~Refusing
    /\ LastOffset + 1 + Cardinality({d \in Callers : pc[d] \in {"permit", "mutex"}}) < MaxBatches
    /\ Goto(c, "permit")
    /\ UNCHANGED <<recovery, batches, counters, gate, marks, life, mutex, sendFailure, net,
                   supVars, wait, closeVars, size, accepted, handed, confirmed, snapped>>

\* A place among the in-flight batches, before ingest_mutex.
IngestPermit(c) ==
    /\ pc[c] = "permit" /\ permits > 0
    /\ permits' = permits - 1 /\ Goto(c, "mutex")
    /\ UNCHANGED <<recovery, pending, failed, counters, gate, marks, life, mutex, sendFailure,
                   net, supVars, wait, closeVars, size, accepted, handed, confirmed, snapped>>

\* Under ingest_mutex, a stream that closed meanwhile: the permit is dropped.
IngestRefused(c) ==
    /\ pc[c] = "mutex" /\ mutex = "free" /\ Refusing
    /\ permits' = permits + 1 /\ Goto(c, "idle")
    /\ UNCHANGED <<recovery, pending, failed, counters, gate, marks, life, mutex, sendFailure,
                   net, supVars, wait, closeVars, size, accepted, handed, confirmed, snapped>>

\* Otherwise the batch of n rows gets its offset and its range of records.
IngestAssign(c, n) ==
    /\ pc[c] = "mutex" /\ mutex = "free" /\ ~Refusing
    /\ mutex' = c
    /\ size' = [size EXCEPT ![LastOffset + 1] = n]
    /\ assigned' = assigned + n
    /\ Goto(c, "assigned")
    /\ UNCHANGED <<recovery, batches, submitted, acked, gate, marks, life, sendFailure, net,
                   supVars, wait, closeVars, accepted, handed, confirmed, snapped>>

\* It joins the pending batches; on a paused stream that is all.
IngestPush(c) ==
    /\ pc[c] = "assigned"
    /\ pending' = Append(pending, [offset |-> Current, skip |-> 0,
                                   start |-> assigned - size[Current], end |-> assigned])
    /\ Goto(c, IF paused THEN "idle" ELSE "send")
    /\ mutex' = IF paused THEN "free" ELSE mutex
    /\ accepted' = IF paused THEN accepted \cup {Current} ELSE accepted
    /\ UNCHANGED <<recovery, failed, permits, counters, gate, marks, life, sendFailure, net,
                   supVars, wait, closeVars, size, handed, confirmed, snapped>>

\* reserve() on the current sender gets a slot of the request channel.
IngestReserve(c) ==
    /\ pc[c] = "send" /\ sender /\ reqOpen /\ Len(queue) < MaxInflight
    /\ Goto(c, "commit")
    /\ UNCHANGED <<recovery, batches, counters, gate, marks, life, mutex, sendFailure, net,
                   supVars, wait, closeVars, size, accepted, handed, confirmed, snapped>>

\* With recovery the failed send is left to the deadlines.
IngestSendFails_NotReported(c) ==
    /\ pc[c] = "send" /\ sender /\ ~reqOpen
    /\ Goto(c, "idle") /\ mutex' = "free"
    /\ \/ /\ recovery
          /\ accepted' = accepted \cup {Current}
          /\ UNCHANGED <<pending, permits, sendFailure>>
       \/ /\ ~recovery
          /\ pending' = Retain(pending, {i \in DOMAIN pending : pending[i].offset # Current})
          /\ permits' = permits + 1
          /\ UNCHANGED <<sendFailure, accepted>>
    /\ UNCHANGED <<recovery, failed, counters, gate, marks, life, net,
                   supVars, wait, closeVars, size, handed, confirmed, snapped>>

\* The channel has lost its receiver: with recovery the failure is reported and the batch
\* stays pending, without it the batch is taken back.
IngestSendFails(c) ==
    /\ pc[c] = "send" /\ sender /\ ~reqOpen
    /\ Goto(c, "idle") /\ mutex' = "free"
    /\ \/ /\ recovery
          /\ sendFailure' = TRUE /\ accepted' = accepted \cup {Current}
          /\ UNCHANGED <<pending, permits>>
       \/ /\ ~recovery
          /\ pending' = Retain(pending, {i \in DOMAIN pending : pending[i].offset # Current})
          /\ permits' = permits + 1
          /\ UNCHANGED <<sendFailure, accepted>>
    /\ UNCHANGED <<recovery, failed, counters, gate, marks, life, net,
                   supVars, wait, closeVars, size, handed, confirmed, snapped>>

\* Watermark and hand-off under the pending lock.
IngestCommit(c) ==
    /\ pc[c] = "commit"
    /\ submitted' = assigned
    /\ queue' = IF reqOpen THEN Append(queue, size[Current]) ELSE queue
    /\ handed' = handed \o RowSeq([offset |-> Current, skip |-> 0])
    /\ accepted' = accepted \cup {Current}
    /\ Goto(c, "idle") /\ mutex' = "free"
    /\ UNCHANGED <<recovery, batches, assigned, acked, gate, marks, life, sendFailure,
                   reqOpen, wire, supVars, wait, closeVars, size, confirmed, snapped>>

\* The caller drops the future at an await point: locks and an unused permit are released,
\* what is already in pending_batches stays there.
IngestCancel(c) ==
    /\ pc[c] \in Interrupts
    /\ permits' = IF pc[c] \in {"mutex", "assigned"} THEN permits + 1 ELSE permits
    /\ mutex' = Unlock(c) /\ Goto(c, "idle")
    /\ UNCHANGED <<recovery, pending, failed, counters, gate, marks, life, sendFailure, net,
                   supVars, wait, closeVars, size, accepted, handed, confirmed, snapped>>

------------------------------------------------------------------------------
(* The connection *)

\* The encoder takes a batch from the channel.
Transmit ==
    /\ reqOpen /\ queue # <<>>
    /\ wire' = wire + Head(queue) /\ queue' = Tail(queue)
    /\ UNCHANGED <<recovery, batches, counters, gate, marks, life, mutex, sendFailure, reqOpen,
                   supVars, pc, wait, closeVars, size, accepted, handed, confirmed,
                   snapped>>

\* The request body is dropped; what is still in the channel is lost.
RequestDies ==
    /\ reqOpen
    /\ reqOpen' = FALSE /\ queue' = <<>>
    /\ UNCHANGED <<recovery, batches, counters, gate, marks, life, mutex, sendFailure, wire,
                   supVars, pc, wait, closeVars, size, accepted, handed, confirmed,
                   snapped>>

------------------------------------------------------------------------------
(* The acknowledgement processor *)

\* process() gives an error to the supervisor and drops the response stream.
Fail(e) ==
    /\ sup' = "handle" /\ err' = e
    /\ rotation' = "open" /\ target' = 0 /\ respDone' = FALSE

\* Rotation leaves the wait for acknowledgements for the drain of the transport.
BeginDrain(e, done) ==
    /\ sup' = "half_close" /\ err' = e /\ respDone' = done
    /\ UNCHANGED <<rotation, target>>

\* A response with an acknowledgement of n records; n = 0 acknowledges nothing.  An
\* invalid one is a permanent error.
AckResponse(n) ==
    /\ sup = "process" /\ n \in AckValues
    /\ \/ /\ Valid(n)
          /\ IF n > 0 THEN ApplyAck(n) ELSE NoAck
          /\ UNCHANGED <<sup, err, rotation, target, respDone>>
       \/ /\ ~Valid(n) /\ NoAck
          /\ IF rotation = "waiting" THEN BeginDrain("perm", FALSE) ELSE Fail("perm")
    /\ UNCHANGED <<recovery, failed, assigned, submitted, gate, serverError, life, mutex,
                   sendFailure, net, authRetry, ackedBefore, replayed, attempts,
                   pc, closeVars, size, accepted, handed, snapped>>

\* A close signal, which may carry an acknowledgement too: sends stop, and what was
\* submitted so far is the target of the rotation.
CloseSignal(n) ==
    /\ sup = "process" /\ rotation = "open" /\ mutex = "free" /\ n \in AckValues
    /\ paused' = TRUE
    /\ rotation' = "waiting" /\ target' = submitted
    /\ \/ /\ Valid(n)
          /\ IF n > 0 THEN ApplyAck(n) ELSE NoAck
          /\ UNCHANGED <<sup, err, respDone>>
       \/ /\ ~Valid(n) /\ NoAck
          /\ sup' = "half_close" /\ err' = "perm" /\ respDone' = FALSE
    /\ UNCHANGED <<recovery, failed, assigned, submitted, sender, serverError, life, mutex,
                   sendFailure, net, authRetry, ackedBefore, replayed, attempts,
                   pc, closeVars, size, accepted, handed, snapped>>

\* An error status of class e.  Only outside a rotation is it published at once.
ResponseError(e) ==
    /\ sup = "process"
    /\ \/ rotation = "waiting" /\ BeginDrain(e, TRUE) /\ UNCHANGED <<serverError, wait>>
       \/ rotation = "open" /\ Fail(e) /\ serverError' = e /\ wait' = Woken
    /\ UNCHANGED <<recovery, batches, counters, gate, lastAck, life, mutex, sendFailure, net,
                   authRetry, ackedBefore, replayed, attempts, pc, closeVars,
                   size, accepted, handed, confirmed, snapped>>

\* The response stream ends; outside a rotation that is a retryable error.
ResponseEnd ==
    /\ sup = "process"
    /\ IF rotation = "waiting" THEN BeginDrain("none", TRUE) ELSE Fail("retry")
    /\ UNCHANGED <<recovery, batches, counters, gate, marks, life, mutex, sendFailure, net,
                   authRetry, ackedBefore, replayed, attempts, pc, wait, closeVars,
                   size, accepted, handed, confirmed, snapped>>

\* A failed reserve() of an ingest call.
RequestSendFailed ==
    /\ sup = "process" /\ sendFailure
    /\ sendFailure' = FALSE /\ Fail("retry")
    /\ UNCHANGED <<recovery, batches, counters, gate, marks, life, mutex, net,
                   authRetry, ackedBefore, replayed, attempts, pc, wait, closeVars,
                   size, accepted, handed, confirmed, snapped>>

\* server_lack_of_ack_timeout of the oldest submitted batch, watched outside rotations.
AckDeadline ==
    /\ sup = "process" /\ rotation = "open" /\ HasAckDeadline
    /\ Fail("retry")
    /\ UNCHANGED <<recovery, batches, counters, gate, marks, life, mutex, sendFailure, net,
                   authRetry, ackedBefore, replayed, attempts, pc, wait, closeVars,
                   size, accepted, handed, confirmed, snapped>>

\* The target is reached.
TargetReached ==
    /\ sup = "process" /\ rotation = "waiting" /\ acked >= target
    /\ BeginDrain("none", FALSE)
    /\ UNCHANGED <<recovery, batches, counters, gate, marks, life, mutex, sendFailure, net,
                   authRetry, ackedBefore, replayed, attempts, pc, wait, closeVars,
                   size, accepted, handed, confirmed, snapped>>

\* The grace period of the server, or stream_paused_max_wait_time, is over.
GraceOver ==
    /\ sup = "process" /\ rotation = "waiting" /\ acked < target
    /\ BeginDrain("none", FALSE)
    /\ UNCHANGED <<recovery, batches, counters, gate, marks, life, mutex, sendFailure, net,
                   authRetry, ackedBefore, replayed, attempts, pc, wait, closeVars,
                   size, accepted, handed, confirmed, snapped>>

\* half_close: sends stop, the sender goes, the request body is told to end.
HalfClose ==
    /\ sup = "half_close" /\ mutex = "free"
    /\ paused' = TRUE /\ sender' = FALSE
    /\ reqOpen' = FALSE /\ queue' = <<>>
    /\ sup' = "drain"
    /\ UNCHANGED <<recovery, batches, counters, marks, life, mutex, sendFailure, wire,
                   rotation, target, respDone, err, authRetry, ackedBefore, replayed, attempts,
                   pc, wait, closeVars, size, accepted, handed, confirmed, snapped>>

\* update_rotation_error: a retryable status does not hide a permanent error.
RotationError(e) == IF err \in {"perm", "auth"} /\ e = "retry" THEN err ELSE e

\* Late responses are applied during the drain ...
DrainAck(n) ==
    /\ sup = "drain" /\ ~respDone /\ n \in AckValues \ {0}
    /\ \/ Valid(n) /\ ApplyAck(n) /\ UNCHANGED err
       \/ ~Valid(n) /\ NoAck /\ err' = RotationError("perm")
    /\ UNCHANGED <<recovery, failed, assigned, submitted, gate, serverError, life, mutex,
                   sendFailure, net, sup, rotation, target, respDone, authRetry, ackedBefore,
                   replayed, attempts, pc, closeVars, size, accepted, handed, snapped>>

\* ... until an error status ...
DrainError(e) ==
    /\ sup = "drain" /\ ~respDone
    /\ err' = RotationError(e) /\ respDone' = TRUE
    /\ UNCHANGED <<recovery, batches, counters, gate, marks, life, mutex, sendFailure, net,
                   sup, rotation, target, authRetry, ackedBefore, replayed, attempts,
                   pc, wait, closeVars, size, accepted, handed, confirmed, snapped>>

\* ... or the end of both directions, or the deadline.  Without an error of its own the
\* drain ends in the retryable rotation error.
DrainEnd ==
    /\ sup = "drain"
    /\ Fail(IF err = "none" THEN "retry" ELSE err)
    /\ UNCHANGED <<recovery, batches, counters, gate, marks, life, mutex, sendFailure, net,
                   authRetry, ackedBefore, replayed, attempts, pc, wait, closeVars,
                   size, accepted, handed, confirmed, snapped>>

------------------------------------------------------------------------------
(* The supervisor: recovery *)

Retryable == recovery /\ (err = "retry" \/ authRetry)

\* A terminal error is published before finalization.  Retries that are used up are one.
HandleTerminal ==
    /\ sup = "handle" /\ (Retryable => attempts >= Retries)
    /\ serverError' = err /\ wait' = Woken
    /\ sup' = "finalize"
    /\ attempts' = IF Retryable THEN attempts + 1 ELSE attempts
    /\ authRetry' = FALSE
    /\ UNCHANGED <<recovery, batches, counters, gate, lastAck, life, mutex, sendFailure, net,
                   rotation, target, respDone, err, ackedBefore, replayed,
                   pc, closeVars, size, accepted, handed, confirmed, snapped>>

HandleRetry ==
    /\ sup = "handle" /\ Retryable /\ attempts < Retries
    /\ attempts' = attempts + 1 /\ authRetry' = FALSE
    /\ sup' = "pause" /\ err' = "none"
    /\ UNCHANGED <<recovery, batches, counters, gate, marks, life, mutex, sendFailure, net,
                   rotation, target, respDone, ackedBefore, replayed,
                   pc, wait, closeVars, size, accepted, handed, confirmed, snapped>>

\* pause_and_detach_sender, then the failures of the old sender are forgotten.
Pause ==
    /\ sup = "pause" /\ mutex = "free"
    /\ paused' = TRUE /\ sender' = FALSE /\ sendFailure' = FALSE
    /\ sup' = "backoff"
    /\ UNCHANGED <<recovery, batches, counters, marks, life, mutex, net,
                   rotation, target, respDone, err, authRetry, ackedBefore, replayed, attempts,
                   pc, wait, closeVars, size, accepted, handed, confirmed, snapped>>

Backoff ==
    /\ sup = "backoff"
    /\ serverError' = "none" /\ wait' = Woken
    /\ sup' = "connect"
    /\ UNCHANGED <<recovery, batches, counters, gate, lastAck, life, mutex, sendFailure, net,
                   rotation, target, respDone, err, authRetry, ackedBefore, replayed, attempts,
                   pc, closeVars, size, accepted, handed, confirmed, snapped>>

\* reconnect_transport succeeds; the watermark of the old connection is read.
Connect ==
    /\ sup = "connect"
    /\ Fresh /\ ackedBefore' = acked
    /\ sup' = "replay"
    /\ UNCHANGED <<recovery, batches, counters, gate, marks, life, mutex, sendFailure,
                   rotation, target, respDone, err, authRetry, replayed, attempts,
                   pc, wait, closeVars, size, accepted, confirmed, snapped>>

\* The count of the old connection is kept.
ReplayInstall_KeepSubmitted ==
    /\ sup = "replay" /\ mutex = "free"
    /\ mutex' = "sup"
    /\ LET kept == RebuildPending(pending, ackedBefore)
       IN  /\ pending' = kept
           /\ permits' = permits + Len(pending) - Len(kept)
           /\ assigned' = RowCount(kept)
    /\ acked' = 0
    /\ sup' = "replaying" /\ replayed' = 0 /\ ackedBefore' = 0
    /\ UNCHANGED <<recovery, failed, submitted, gate, marks, life, sendFailure, net,
                   rotation, target, respDone, err, authRetry, attempts,
                   pc, wait, closeVars, size, accepted, handed, confirmed, snapped>>

\* Under ingest_mutex, until reconnect() returns: ranges and counters are rebuilt at once.
ReplayInstall ==
    /\ sup = "replay" /\ mutex = "free"
    /\ mutex' = "sup"
    /\ LET kept == RebuildPending(pending, ackedBefore)
       IN  /\ pending' = kept
           /\ permits' = permits + Len(pending) - Len(kept)
           /\ assigned' = RowCount(kept)
    /\ submitted' = 0 /\ acked' = 0
    /\ sup' = "replaying" /\ replayed' = 0 /\ ackedBefore' = 0
    /\ UNCHANGED <<recovery, failed, gate, marks, life, sendFailure, net,
                   rotation, target, respDone, err, authRetry, attempts,
                   pc, wait, closeVars, size, accepted, handed, confirmed, snapped>>

ReplaySend ==
    /\ sup = "replaying" /\ replayed < Len(pending) /\ reqOpen /\ Len(queue) < MaxInflight
    /\ LET b == pending[replayed + 1]
       IN  /\ queue' = Append(queue, NumRows(b))
           /\ handed' = handed \o RowSeq(b)
           /\ submitted' = submitted + NumRows(b)
    /\ replayed' = replayed + 1
    /\ UNCHANGED <<recovery, batches, assigned, acked, gate, marks, life, mutex, sendFailure,
                   reqOpen, wire, sup, rotation, target, respDone, err, authRetry,
                   ackedBefore, attempts, pc, wait, closeVars, size, accepted, confirmed,
                   snapped>>

\* The new sender is published before the gate opens.
ReplayCommit ==
    /\ sup = "replaying" /\ replayed = Len(pending)
    /\ sender' = TRUE /\ paused' = FALSE
    /\ sup' = "refresh" /\ replayed' = 0
    /\ UNCHANGED <<recovery, batches, counters, marks, life, mutex, sendFailure, net,
                   rotation, target, respDone, err, authRetry, ackedBefore, attempts,
                   pc, wait, closeVars, size, accepted, handed, confirmed, snapped>>

\* Deadlines are refreshed and acknowledgement processing resumes.
Resume ==
    /\ sup = "refresh"
    /\ mutex' = "free" /\ attempts' = 0 /\ sup' = "process"
    /\ UNCHANGED <<recovery, batches, counters, gate, marks, life, sendFailure, net,
                   rotation, target, respDone, err, authRetry, ackedBefore, replayed,
                   pc, wait, closeVars, size, accepted, handed, confirmed, snapped>>

\* reconnect() fails, in the set-up, in a replay send or by its timeout.  After an auth
\* rejection the credentials are invalidated and the error counts as retryable once.
ReconnectFails(e) ==
    /\ \/ sup = "connect"
       \/ sup \in {"replay", "replaying", "refresh"} /\ e = "retry"
    /\ sup' = "handle" /\ err' = e /\ authRetry' = (e = "auth")
    /\ mutex' = Unlock("sup") /\ ackedBefore' = 0 /\ replayed' = 0
    /\ UNCHANGED <<recovery, batches, counters, gate, marks, life, sendFailure, net,
                   rotation, target, respDone, attempts,
                   pc, wait, closeVars, size, accepted, handed, confirmed, snapped>>

\* A provider that stalls in invalidate() ends the stream with the rejection.
InvalidateStalls ==
    /\ sup = "connect"
    /\ serverError' = "auth" /\ wait' = Woken
    /\ sup' = "finalize" /\ err' = "auth"
    /\ UNCHANGED <<recovery, batches, counters, gate, lastAck, life, mutex, sendFailure, net,
                   rotation, target, respDone, authRetry, ackedBefore, replayed, attempts,
                   pc, closeVars, size, accepted, handed, confirmed, snapped>>

\* Closure is published beside an ingest call in progress.
FinalizeClose_NoMutex ==
    /\ sup = "finalize"
    /\ closed' = TRUE
    /\ sup' = "drain_pending"
    /\ UNCHANGED <<recovery, batches, counters, gate, marks, teardown, closeError, mutex,
                   sendFailure, net, rotation, target, respDone, err, authRetry, ackedBefore,
                   replayed, attempts, pc, wait, closeVars, size, accepted, handed, confirmed,
                   snapped>>

\* finalize_closed: closure under ingest_mutex, then the drain once failed_batches is locked.
FinalizeClose ==
    /\ sup = "finalize" /\ mutex = "free"
    /\ mutex' = "sup" /\ closed' = TRUE
    /\ sup' = "drain_pending"
    /\ UNCHANGED <<recovery, batches, counters, gate, marks, teardown, closeError, sendFailure,
                   net, rotation, target, respDone, err, authRetry, ackedBefore, replayed,
                   attempts, pc, wait, closeVars, size, accepted, handed, confirmed, snapped>>

\* The error is not published again.
FinalizeDrain_SentOnce ==
    /\ sup = "drain_pending"
    /\ MovePendingToFailed
    /\ mutex' = "free"
    /\ sup' = "done" /\ err' = "none"
    /\ UNCHANGED <<recovery, counters, gate, marks, life, sendFailure, net,
                   rotation, target, respDone, authRetry, ackedBefore, replayed,
                   attempts, pc, wait, closeVars, size, accepted, handed, confirmed, snapped>>

\* The error is published again, for waiters that parked before closure.
FinalizeDrain ==
    /\ sup = "drain_pending"
    /\ MovePendingToFailed
    /\ mutex' = "free" /\ serverError' = err /\ wait' = Woken
    /\ sup' = "done" /\ err' = "none"
    /\ UNCHANGED <<recovery, counters, gate, lastAck, life, sendFailure, net,
                   rotation, target, respDone, authRetry, ackedBefore, replayed,
                   attempts, pc, closeVars, size, accepted, handed, confirmed, snapped>>

\* The supervisor task is aborted at an await point.
Abort ==
    /\ sup' = "done" /\ mutex' = Unlock("sup")
    /\ rotation' = "open" /\ target' = 0 /\ respDone' = FALSE
    /\ err' = "none" /\ authRetry' = FALSE /\ ackedBefore' = 0 /\ replayed' = 0

------------------------------------------------------------------------------
(* flush() and wait_for_offset() *)

Waiting(o, who) == [st |-> "check", goal |-> o, woken |-> FALSE, owner |-> who]

\* The wait ends.  close() keeps the result before it announces the teardown.
WaitReturn(r) ==
    /\ wait' = NoWait
    /\ \/ wait.owner = "flush" /\ UNCHANGED <<teardown, closeError, closing>>
       \/ wait.owner = "close" /\ closeError' = r /\ teardown' = TRUE /\ closing' = "reap"

\* flush() waits for the last offset drawn, wait_for_offset() for a given one.
WaitCall(o) ==
    /\ Shared /\ wait.st = "idle" /\ o \in accepted \cup {LastOffset} /\ o >= 0
    /\ wait' = Waiting(o, "flush")
    /\ UNCHANGED <<recovery, batches, counters, gate, marks, life, mutex, sendFailure, net,
                   supVars, pc, closeVars, size, accepted, handed, confirmed, snapped>>

\* The acknowledged offset is read first, ...
WaitCheck ==
    /\ wait.st = "check"
    /\ IF lastAck >= wait.goal
       THEN WaitReturn("ok")
       ELSE /\ wait' = [wait EXCEPT !.st = "state", !.woken = FALSE]
            /\ UNCHANGED <<teardown, closeError, closing>>
    /\ UNCHANGED <<recovery, batches, counters, gate, marks, closed, mutex, sendFailure, net,
                   supVars, pc, result, size, accepted, handed, confirmed, snapped>>

\* ... then the state of the stream, and on closure the offset again.
WaitState ==
    /\ wait.st = "state"
    /\ IF ~Refusing
       THEN /\ wait' = [wait EXCEPT !.st = "parked"]
            /\ UNCHANGED <<teardown, closeError, closing>>
       ELSE WaitReturn(IF lastAck >= wait.goal THEN "ok"
                       ELSE IF serverError # "none" THEN serverError ELSE "closed")
    /\ UNCHANGED <<recovery, batches, counters, gate, marks, closed, mutex, sendFailure, net,
                   supVars, pc, result, size, accepted, handed, confirmed, snapped>>

WaitWake ==
    /\ wait.st = "parked" /\ wait.woken
    /\ wait' = [wait EXCEPT !.st = "check"]
    /\ UNCHANGED <<recovery, batches, counters, gate, marks, life, mutex, sendFailure, net,
                   supVars, pc, closeVars, size, accepted, handed, confirmed, snapped>>

\* flush_timeout
WaitTimeout ==
    /\ wait.st = "parked"
    /\ WaitReturn("timeout")
    /\ UNCHANGED <<recovery, batches, counters, gate, marks, closed, mutex, sendFailure, net,
                   supVars, pc, result, size, accepted, handed, confirmed, snapped>>

------------------------------------------------------------------------------
(* close(), get_unacked_batches(), drop *)

\* &mut self: no other call is in progress.
Exclusive == Shared /\ wait.st = "idle" /\ \A c \in Callers : pc[c] = "idle"

\* Only the outcome of its own flush is reported.
CloseAgain_FlushOnly ==
    /\ Exclusive /\ closed /\ ~teardown
    /\ result' = closeError
    /\ UNCHANGED <<recovery, batches, counters, gate, marks, life, mutex, sendFailure, net,
                   supVars, pc, wait, closing, size, accepted, handed, confirmed, snapped>>

\* On a closed stream close() reports how it ended.
CloseAgain ==
    /\ Exclusive /\ closed /\ ~teardown
    /\ result' = IF serverError # "none" THEN serverError ELSE closeError
    /\ UNCHANGED <<recovery, batches, counters, gate, marks, life, mutex, sendFailure, net,
                   supVars, pc, wait, closing, size, accepted, handed, confirmed, snapped>>

\* Otherwise it flushes, unless an earlier call has, and tears down.
Close ==
    /\ Exclusive /\ (closed => teardown)
    /\ \/ /\ ~teardown /\ LastOffset >= 0
          /\ wait' = Waiting(LastOffset, "close") /\ closing' = "flush"
          /\ UNCHANGED <<teardown, closeError>>
       \/ /\ ~teardown /\ LastOffset = -1
          /\ teardown' = TRUE /\ closeError' = "ok" /\ closing' = "reap"
          /\ UNCHANGED wait
       \/ /\ teardown
          /\ closing' = "reap"
          /\ UNCHANGED <<teardown, closeError, wait>>
    /\ UNCHANGED <<recovery, batches, counters, gate, marks, closed, mutex, sendFailure, net,
                   supVars, pc, result, size, accepted, handed, confirmed, snapped>>

\* The supervisor is aborted and joined before the sender goes.
CloseReap ==
    /\ closing = "reap"
    /\ Abort /\ closing' = "detach"
    /\ UNCHANGED <<recovery, batches, counters, gate, marks, life, sendFailure, net, attempts,
                   pc, wait, result, size, accepted, handed, confirmed, snapped>>

CloseDetach ==
    /\ closing = "detach"
    /\ sender' = FALSE /\ closing' = "final"
    /\ UNCHANGED <<recovery, batches, counters, paused, marks, life, mutex, sendFailure, net,
                   supVars, pc, wait, result, size, accepted, handed, confirmed, snapped>>

CloseFinal ==
    /\ closing = "final" /\ mutex = "free"
    /\ mutex' = "close" /\ closed' = TRUE /\ closing' = "drain"
    /\ UNCHANGED <<recovery, batches, counters, gate, marks, teardown, closeError, sendFailure,
                   net, supVars, pc, wait, result, size, accepted, handed, confirmed, snapped>>

CloseDrain ==
    /\ closing = "drain"
    /\ MovePendingToFailed
    /\ mutex' = "free" /\ teardown' = FALSE
    /\ result' = closeError /\ closing' = "idle"
    /\ UNCHANGED <<recovery, counters, gate, marks, closed, closeError, sendFailure, net,
                   supVars, pc, wait, size, accepted, handed, confirmed, snapped>>

\* The future of close() is dropped at one of its await points.
CloseCancel ==
    /\ "close" \in Interrupts /\ closing \notin {"idle", "dropped"}
    /\ closing' = "idle" /\ wait' = NoWait /\ mutex' = Unlock("close")
    /\ UNCHANGED <<recovery, batches, counters, gate, marks, life, sendFailure, net,
                   supVars, pc, result, size, accepted, handed, confirmed, snapped>>

\* get_unacked_batches() of a closed stream drains what is still pending.
GetUnacked ==
    /\ Shared /\ closed
    /\ MovePendingToFailed /\ snapped' = TRUE
    /\ UNCHANGED <<recovery, counters, gate, marks, life, mutex, sendFailure, net,
                   supVars, pc, wait, closeVars, size, accepted, handed, confirmed>>

\* Drop: the supervisor is aborted, nothing can be called any more.
DropStream ==
    /\ "drop" \in Interrupts /\ Exclusive
    /\ closed' = TRUE /\ Abort /\ closing' = "dropped"
    /\ UNCHANGED <<recovery, batches, counters, gate, marks, teardown, closeError, sendFailure,
                   net, attempts, pc, wait, result, size, accepted, handed, confirmed, snapped>>

\* Nothing happens after a drop or a failed creation.
Ended ==
    /\ closing = "dropped" \/ sup = "none"
    /\ UNCHANGED vars

------------------------------------------------------------------------------
(* The specification *)

IngestStep(c) ==
    \/ IngestPermit(c) \/ IngestRefused(c) \/ \E n \in 1 .. MaxRows : IngestAssign(c, n)
    \/ IngestPush(c) \/ IngestReserve(c) \/ IngestSendFails(c) \/ IngestCommit(c)

\* What the supervisor does without the server: its own work and its deadlines.
SupStep ==
    \/ RequestSendFailed \/ AckDeadline \/ TargetReached \/ GraceOver \/ HalfClose \/ DrainEnd
    \/ HandleTerminal \/ HandleRetry \/ Pause \/ Backoff
    \/ Connect \/ ReplayInstall \/ ReplaySend \/ ReplayCommit \/ Resume
    \/ \E e \in Errors : ReconnectFails(e)
    \/ InvalidateStalls \/ FinalizeClose \/ FinalizeDrain

ServerStep ==
    \/ \E n \in AckValues : AckResponse(n) \/ CloseSignal(n) \/ DrainAck(n)
    \/ \E e \in Errors : ResponseError(e) \/ DrainError(e)
    \/ ResponseEnd \/ RequestDies

WaitStep == WaitCheck \/ WaitState \/ WaitWake \/ WaitTimeout

CloseStep == CloseReap \/ CloseDetach \/ CloseFinal \/ CloseDrain

Next ==
    \/ CreateOk \/ \E e \in Errors : CreateFail(e)
    \/ \E c \in Callers : IngestStart(c) \/ IngestStep(c) \/ IngestCancel(c)
    \/ Transmit \/ ServerStep \/ SupStep
    \/ \E o \in Offsets : WaitCall(o)
    \/ WaitStep \/ CloseAgain \/ Close \/ CloseStep \/ CloseCancel
    \/ GetUnacked \/ DropStream \/ Ended

Spec == Init /\ [][Next]_vars

\* A reconnect that succeeds gives the stream all its attempts back, so a server that
\* accepts every connection and never acknowledges a row is tried for ever.  Assumed of
\* the server: of the connections over which pending batches are replayed, it does not
\* leave infinitely many without ever acknowledging another row.
ServerProgress ==
    []<><<Resume /\ pending # <<>>>>_vars => []<><<confirmed' # confirmed>>_vars

\* Tasks that can run do run, and deadlines pass.  tokio's semaphore, mutex and channel
\* serve their waiters in order, so a call waiting on one is not overtaken for ever.
FairSpec ==
    /\ Spec
    /\ \A c \in Callers : SF_vars(IngestStep(c))
    /\ WF_vars(SupStep) /\ WF_vars(WaitStep) /\ WF_vars(CloseStep)
    /\ ServerProgress

------------------------------------------------------------------------------
(* Properties *)

BatchType == [offset : Offsets, skip : 0 .. MaxRows, start : Nat, end : Nat]

\* Every variable has its type.
TypeOK ==
    /\ recovery \in BOOLEAN
    /\ \A b \in Range(pending) \cup Range(failed) : b \in BatchType /\ NumRows(b) > 0
    /\ permits \in 0 .. MaxInflight
    /\ mutex \in Callers \cup {"free", "sup", "close"}
    /\ paused \in BOOLEAN /\ sender \in BOOLEAN /\ sendFailure \in BOOLEAN
    /\ assigned \in Nat /\ submitted \in 0 .. assigned /\ acked \in 0 .. submitted
    /\ lastAck \in Offsets \cup {-1} /\ serverError \in Errors \cup {"none"}
    /\ closed \in BOOLEAN /\ teardown \in BOOLEAN
    /\ closeError \in Errors \cup {"ok", "timeout", "closed"}
    /\ attempts \in 0 .. Retries + 1
    /\ reqOpen \in BOOLEAN /\ wire \in 0 .. Len(handed)
    /\ Len(queue) <= MaxInflight
    /\ sup \in {"create", "none", "process", "half_close", "drain", "handle", "pause", "backoff",
                "connect", "replay", "replaying", "refresh", "finalize", "drain_pending", "done"}
    /\ rotation \in {"open", "waiting"} /\ target \in Nat /\ respDone \in BOOLEAN
    /\ err \in Errors \cup {"none"} /\ authRetry \in BOOLEAN
    /\ ackedBefore \in Nat /\ replayed \in 0 .. Len(pending)
    /\ pc \in [Callers -> {"idle", "permit", "mutex", "assigned", "send", "commit"}]
    /\ wait.st \in {"idle", "check", "state", "parked"}
    /\ closing \in {"idle", "flush", "reap", "detach", "final", "drain", "dropped"}
    /\ result \in Errors \cup {"none", "ok", "timeout", "closed"}
    /\ size \in [Offsets -> 0 .. MaxRows] /\ accepted \subseteq Offsets
    /\ snapped \in BOOLEAN

Unconfirmed == UNION {RowsOf(b) : b \in Range(UnackedParts(pending, acked))}
Failed == UNION {RowsOf(b) : b \in Range(failed)}

\* The rows of each place a row can be in.
Places == [confirmed |-> confirmed, pending |-> Unconfirmed, failed |-> Failed]

\* Every row of an accepted batch is in exactly one place: acknowledged by the server, in
\* the unacknowledged part of pending_batches, or in failed_batches.  So no row is lost, and
\* neither a replay nor a retry of get_unacked_batches() repeats an acknowledged one, however
\* partial acknowledgements, rotations, failed replays and interrupted closes mix.
RowLedger ==
    \A o \in accepted : \A r \in BatchRows(o) :
        Cardinality({p \in DOMAIN Places : r \in Places[p]}) = 1

\* A batch counts as acknowledged for flush() and wait_for_offset() exactly when all its
\* rows, sent over however many connections, have been acknowledged.
AckedIffConfirmed ==
    \A o \in accepted : o <= lastAck <=> BatchRows(o) \subseteq confirmed

\* submitted_records counts the records committed to the active sender, and so bounds what
\* the server can acknowledge.
SubmittedIsSent ==
    sender \/ sup = "drain" => submitted = Len(handed)

\* No waiter stays parked on a finalized stream or behind the offset it waits for.
NoStrandedWaiter ==
    wait.st = "parked" /\ ~wait.woken => ~(closed /\ sup = "done") /\ lastAck < wait.goal

\* close() returns Ok only when nothing is left to retry.
CloseOkMeansDelivered ==
    result = "ok" => failed = <<>> /\ pending = <<>>

\* get_unacked_batches() returns the same batches from its first success on.
SnapshotStable == [][snapped => failed' = failed]_vars

\* An accepted batch is eventually acknowledged or handed back, over however many
\* connections and rotations, and even when one connection is never answered at all.
Settles ==
    \A o \in Offsets : o \in accepted ~>
        (o <= lastAck \/ \E i \in DOMAIN failed : failed[i].offset = o)

\* A call of ingest_batch that waits for a permit, which has no timeout, or for the mutex
\* returns, under the same assumption: recoveries and drains give every permit back.
IngestReturns == \A c \in Callers : pc[c] # "idle" ~> pc[c] = "idle"

CallerSymmetry == Permutations(Callers)
==============================================================================
