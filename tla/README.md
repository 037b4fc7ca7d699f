# Formal models of the Zerobus ingest SDK

TLA+ specifications of the parts of this repository that carry its delivery
guarantee: a record that an ingest call accepted is acknowledged after the
server stored it, or handed back to the application, in order, exactly once,
through reconnects, failures, timeouts, cancelled calls and shutdown. TLC checks
the specifications on small instances; TLAPS proves the safety properties of most
of them for every instance. Around the streams stand the layers that hand records to them:
the bindings that let other languages call the SDK, and the conversions between
tables, records and bytes. `PROJECT.json` lists components, runs, mutants, the source lines
of every definition, findings, hazards and theorems.

Paths below are relative to `rust/sdk/src/` unless they start elsewhere.

## 1. The system

The repository is a client SDK in several languages. The Rust crate
(`rust/sdk`) implements the protocol; the C FFI, JNI, PyO3 and napi layers and
the Go, C++, .NET, Java, Python and TypeScript packages wrap it. `purego` is an
independent implementation in Go.

| component | state | operations | talks to |
|---|---|---|---|
| landing zone (`landing_zone.rs`) | queue of unsent records, queue of observed ones, deque of permits, semaphore, Notify | add, observe, remove_observed, reset_observe, remove_all | ingest callers, sender, receiver, supervisor |
| ingest callers (`stream/grpc/ingest.rs`) | offset generator, `sync_mutex` | ingest_record_offset, ingest_records_offset | landing zone |
| supervisor (`stream/grpc/supervisor.rs`) | `is_closed`, cancellation tokens, `failed_records`, `server_error` watch | connect, retry, spawn and join sender and receiver, recover, fail the stream | all tasks |
| connection set-up (`stream/grpc/connection.rs`, `errors.rs`) | one-shot auth retry, the provider's token | create attempt, classify the error, invalidate the token | supervisor, headers provider |
| sender (`stream/grpc/sender.rs`) | item in hand, `is_paused` | observe a record, put it on the wire | landing zone, server |
| receiver (`stream/grpc/receiver.rs`) | last acknowledged physical offset, pause deadline | apply acknowledgements, close signals, errors, time out | landing zone, waiters, callbacks |
| callback handler (`stream/grpc/callback_handler.rs`) | queue of callback messages | run on_ack, on_error, leave on cancellation | receiver, supervisor, close |
| waiters and shutdown (`stream/grpc/acks.rs`, `close.rs`, `mod.rs`) | two watch receivers | wait_for_offset, flush, close, get_unacked_batches, signal_shutdown, Drop | all of the above |
| multiplexed stream (`multiplexed_stream.rs`) | sub-streams, round-robin counter, `is_closed` | ingest, flush, wait_for_message_id, poison, close, get_unacked, Drop | sub-streams |
| token cache (`token_cache.rs`) | map from key to slot; a slot holds a lock and a token | get_or_fetch, invalidate, prune_expired | headers provider, connection set-up |
| Arrow Flight stream (`stream/arrow/`) | pending batches with their record ranges and permits, counters of assigned, submitted and acknowledged records, pause gate, request sender, two watches | ingest_batch, acknowledge, rotate, recover and replay, finalize, flush, wait_for_offset, close, get_unacked_batches, Drop | Flight server, headers provider |
| token factory (`default_token_factory.rs`) | none | one request to the token endpoint, its answers classified | token cache |
| bindings (`rust/ffi`, `rust/jni`, `typescript/src/lib.rs`, `python/rust`) | handles, reference counts, a mutex or RwLock per stream, headers providers owned by the application | create, recreate, ingest, wait, flush, close, get_unacked, free; callbacks into the application | streams, application threads, supervisors |
| `recreate_stream` (`sdk.rs`) | none of its own | replay unacknowledged batches into a new stream | old stream, new stream, the provider both share |
| zeroparser (`zeroparser/`) | a parsed message: scalar and complex slots | read varints, tags and fields; parse, merge, expand packed values | descriptor registry |
| schemas (`schema.rs`, `dynamic_proto.rs`, `rust/ffi/src/proto_schema.rs`) | names taken while nested messages are generated | table to descriptor, table to Arrow schema, JSON to bytes | bindings |
| pure Go SDK (`purego/`) | as the Rust SDK | as the Rust SDK | not modelled |

What is hard: every stream has five tasks and any number of callers that share
the landing zone, two watches, an atomic flag and three tokens; a task can be
aborted, but only at an await; acknowledgements are relative to a connection
while waiters use logical offsets (the Arrow stream counts records where its
callers count batches, and renumbers them on every connection); `is_closed` is read and written without the
locks that protect what it is about; any caller may drop its future at an await.
In the bindings a call may outlive the handle it came through, and a supervisor
may be inside an application's callback when the stream it serves is gone.

What makes each component correct:

- landing zone: permits are conserved, order is kept across resets, no wake-up
  of the sender is lost, nobody waits for capacity while some is free;
- stream: no record is lost, duplicated, reordered, or acknowledged before it is
  durable; `Ok` means acknowledged; each record gets the callback of its fate;
  waiting calls return; shut-down tasks end;
- Arrow stream: every row of an accepted batch is acknowledged, retained or handed
  back, and only one of these, however often its batch is cut; the counters of a
  connection agree with what it was given; nothing blocks under `ingest_mutex`;
  a resumed or repeated close() tells the truth;
- connection set-up: a rejected token is dropped;
- token cache: no expired token is served, no token survives its invalidation;
- multiplexed stream: ids lead back to their record, unacknowledged records are
  all reported, the poison reaches every sub-stream;
- bindings: what runs finds its stream alive, every provider handed over is released
  exactly once and its callback is entered by one at a time, close is alone, a
  recreation leaves no record behind that was not still on its way, calls return;
- zeroparser: it decodes what the protobuf rules say: varints, concatenation as
  merging, oneofs, bounded recursion;
- schemas: a descriptor and an Arrow schema mean the table they were made from,
  and a record is encoded exactly when it has every required field.

## 2. The modules

| module | what it is |
|---|---|
| `LandingZone` | the two queues and the methods that hold the state mutex; shared by the next two |
| `LandingZoneTasks` | LandingZone with tokio's FIFO semaphore and Notify, concurrent `add()` calls that can be cancelled, one sender |
| `LandingZoneProofs` | theorems about LandingZoneTasks |
| `ZerobusStream` | the whole gRPC stream: clients, supervisor, sender, receivers, callback handler, api caller, server; EXTENDS LandingZone |
| `AckLedger` | what a stream promises; ZerobusStream implements it |
| `ZerobusStreamProofs`, `StreamLedgerProofs` | theorems about ZerobusStream; the second EXTENDS the first and has the refinement of AckLedger |
| `MultiplexedStream` | the multiplexer over sub-streams reduced to what AckLedger says of them; EXTENDS MessageId |
| `MessageId` | the packing of sub-stream index and offset into a signed word |
| `MultiplexedStreamProofs` | theorems about MessageId and MultiplexedStream |
| `ArrowStream` | the whole Arrow Flight stream: ingest callers, request channel, acknowledgement processor, recovery, waiter, close, server |
| `ArrowStreamProofs` | theorems about ArrowStream |
| `TokenCache` | the OAuth token cache with slot identity, per-slot lock and a clock, and the token factory that fills it |
| `TokenCacheProofs` | theorems about TokenCache |
| `BindingCalls` | what the four bindings share: calls, guards, native streams, providers, `recreate_stream` |
| `FfiBinding`, `JniBinding`, `NodeBinding`, `PythonBinding` | one operator per exported function of the binding; EXTEND BindingCalls |
| `Bindings` | the four together, with the properties; `MCBindings` names the instances |
| `BindingsProofs` | theorems about Bindings |
| `SequenceFacts` | lemmas about sequences that the proofs share |
| `Wire` | `zeroparser/wire.rs`: varints, tags, fields over bytes |
| `ZeroParser` | the message parser, its value conversions and its registry |
| `TableSchema` | tables as descriptors and Arrow schemas; required fields |
| `Codec` | the three modules above on one instance |

Operators named `X_Something` next to `X` are deliberately wrong variants of `X`,
used only as mutants: `PROJECT.json` says which property each one breaks.

### State and steps

Variables carry the names of the code's fields, or the field is in the comment
of their declaration. A step is the code between two await points. Three places
are different:

- the receiver's acknowledgement loop (`receiver.rs:113-128`) has no await, but
  other threads see every record it removes: it is one step per record;
- the supervisor's error path (publish, set `is_closed`, drain, keep) is split at
  each of its stores and locks, for the same reason;
- one poll of the sender's `select!` is two steps (`SendPoll`, then `SendObserve`
  or `SendPark`): `cancelled()` is polled before `observe()`, and other threads
  run in between.

`sync_mutex`, `oneshot_map` and `failed_records` are guards: a step that needs a
lock is disabled while another actor is in a state that holds it. A `biased`
select! is a guard on the later branches.

A record or batch is its logical offset. Its physical offset is its position in
`wire`, which a new connection empties. Error values are three classes
(`retryable`, `auth`, `permanent`), the ones `is_retryable` and
`is_auth_rejection` tell apart. Durations are gone: a timeout is an action that
may happen whenever the code waits with that timeout.

The server is external. It stores the records of a connection in order,
acknowledges a prefix of what it stored (possibly again), may ask for a graceful
close, and may fail at any time with any class of error.

`AbortIsPrompt` is an assumption, not an option of the code: an aborted receiver
that is inside its acknowledgement loop has left it before the next connection
is established. The abort is not awaited, so nothing enforces it. With
`AbortIsPrompt = FALSE` in `MCStream.cfg` TLC reports AckedIsDurable violated.

In `MultiplexedStream` the sub-streams are only what the multiplexer can see:
records are acknowledged in order or set aside by a failure, `is_closed` comes
before the records are set aside, a cancelled sub-stream keeps acknowledging
until its tasks end and then leaves its records where they are.

In `ArrowStream` a record is `<<offset of its batch, position>>`, so that a batch
cut on recovery keeps the identity of its rows. `pending` holds the code's
`PendingBatch` without time stamp: offset, rows already cut off, range on the
current connection. A held permit is the difference between `MaxInflight` and
`permits`. `handed` is the order in which the current connection got the rows;
the server may acknowledge any number of rows that left the channel, any number
of times, or claim more than was submitted. `Interrupts` names the await points
at which the application may drop a call: "permit", "mutex", "assigned", "send"
and "commit" of ingest_batch, "close", and "drop" of the stream. The `arrow` run
leaves out the three after the mutex, which `arrow_cancel` is about.
`process()`'s and `run()`'s checks of `is_closed` never fire in the model: only
the supervisor itself, or a call that has aborted it, sets the flag.

In `BindingCalls` a call is a record: its operation, its stream, whether it blocks
the caller or runs as a task (`mode`), what it holds (`hold`: a borrowed pointer,
a cloned Arc, a stream it took out of its Option) and how far it is (`pc`). An
exported function is one operator in its binding's module; it checks its
arguments, starts or queues the call, and the shared actions take it on: guard,
SDK operation, answer. The SDK operation is one step on an abstract stream whose
records the server acknowledges in order and which may fail. Ingestion is two: the
check of `is_closed`, after which the call has its record in hand (`recs`), and the
enqueue, which on a record stream looks at nothing any more (`ingest.rs:189-209`) and on
an Arrow stream looks again under `ingest_mutex`. `given` are the providers handed over.
A provider is counted by who holds a clone of it; `DropProviders` releases it in the
step that drops the last one, as Rust does. `busy` is the `in_use` flag of the C
provider, which refuses a second caller, or the `callback_lock` of the Java one, which
makes it wait; the step that leaves the callback gives it back. Callers keep the contract of the C header: they
free a handle only when no call works on the bare pointer. A panic caught by
`ffi_guard` is not modelled.

`Wire` scales the widths: `GroupBits` payload bits in a byte instead of 7, varints
of `MaxBytes` bytes instead of 10, of which `FastBytes` are unrolled. The relation
between them that the code relies on (the last byte contributes one bit) is kept.
`ZeroParser` starts from the fields that `Wire` delivers, so that the two can be
enumerated separately. In `TableSchema` a name is a sequence of words in a form
(`my_entry`, `myEntry`, `MyEntry`), which is what PascalCase conversion and collisions
depend on, and the descriptor pool refuses two symbols of one name in a scope, be they
fields, messages or one of each; `type_json` is the parsed tree. prost-reflect is external: the operators it
stands for are marked so in `PROJECT.json`.

In `TokenCache` a key in `Malformed` has a table name the factory refuses, and
`MaxInstant` is the last instant the clock can represent, so that a lifetime that
overflows `checked_add` occurs.

## 3. Runs

| run | what it shows |
|---|---|
| `landing_zone` | Capacity two, four items. Permits in the semaphore, in the hands of calls and in the zone stay two in all, order is kept, no wake-up is lost; under fairness every blocked add gets in. |
| `stream` | Two clients, three offsets, two connections, one retry, retryable and auth errors, cancelled ingest calls, close, Drop, `get_unacked_batches`. No record is lost, duplicated or acknowledged before it is durable; a rejected token is dropped; the stream implements AckLedger, which includes the order of acknowledgements and an announced offset that never goes back. |
| `api` | One client, callbacks on, all error classes; wait_for_offset, flush, close, get_unacked_batches and Drop at every point. `Ok` means acknowledged; every record gets the callback of its fate; close() leaves no callback behind unless its wait was cut short. |
| `stream_live` | Capacity one, flush, close and `signal_shutdown` under fairness. Waiting calls return, blocked ingest calls get through, a cancelled supervisor ends. |
| `mux` | Two callers, two sub-streams of capacity one, one of which may fail; timeouts, cancelled calls, poisoning, close, Drop, get_unacked_batches. |
| `token_cache` | Two callers, two keys, one of them with a malformed table name, three ticks, two tokens; every answer of the endpoint, expiry, pruning, cancellation, invalidation. |
| `arrow` | Two callers, two batches of one or two rows, any number of connections, one retry, recovery on and off, every error class, rotations, failed replays, a waiter, closes that are dropped and repeated, Drop, get_unacked_batches. |
| `arrow_live` | One permit, any number of connections, fair tasks and timers, and a server that does not go on for ever accepting connections without acknowledging a row (`ServerProgress`). Every accepted batch is acknowledged or handed back; a blocked ingest_batch returns. |
| `bindings` | Each of the four bindings with record and Arrow streams; two streams, two calls at a time, three in all, one record. Handles are freed and objects collected under running calls, asyncio futures are cancelled, streams fail between the check and the enqueue of an ingest, creations are refused, fail or are cancelled with a provider in hand, callbacks are still running when their stream is dropped. |
| `codec` | Every buffer of up to four bytes of three bits; every pair of messages of up to two fields each over a recursive schema with oneofs, a map, packed and repeated fields; every table of up to two columns out of about 380. |
| `arrow_cancel`, `java_unacked` | the disagreements of section 5 |

### Bounds

`MaxRecords`, `MaxConns`, `MaxCalls`, `MaxMints` and `MaxClock` bound counters
that the code does not bound; everything else is a parameter of the code.

- Two connections are one reconnect, the only event that shifts physical against
  logical offsets; the state a reconnect leaves (observed queue empty, counters
  fresh) is the one the first connection started from, so a third adds nothing
  new. Three offsets with two clients allow a gap, a record on either side of it,
  and a full zone with a blocked client.
- With `Recovery` off every error is terminal, which is what `permanent` errors do
  in `api`; no run repeats it.
- In `mux` stream 0 gets two of the three ingest calls and may fail, so there are
  a blocked caller on a failing sub-stream and a healthy one that is poisoned.
  `MaxStreams` is 2, so ids of stream 1 have the sign bit.
- In `arrow` and `arrow_live` connections are not bounded: a new one starts from what
  the last one left, which is finite. A connection may be abandoned half way
  through its replay or just after its sender was published. Two batches with two
  rows give an acknowledgement that ends inside a batch before and behind another
  one.
- In `bindings` three calls are what the hazards need: one that creates, one that is
  under way, one that frees, closes or recreates. The second stream is the
  recreated one. One record is enough to be in hand, in the old stream or in the
  new one when a recreation reads.
- In `codec` four bytes hold a varint that is one byte too long for the word, a tag
  with a delimited value, and a value cut short. Depth two is reached through
  messages and through map values. `Clash` asks for the same nested name three
  times; column and field names in PascalCase meet the names of generated messages, so
  that the pool refuses some tables and takes others. A table with two columns is enough for two names or two positions to
  collide.
- In `token_cache` a token lives two ticks with a refresh buffer of one, so it is
  fresh, due for a refresh, and expired within the three ticks.

Deadlock checking is off in `bindings`, `java_unacked` and `codec`, where the
environment stops after a bounded number of calls, fields or columns; it is on
everywhere else. `Terminated` is the explicit stuttering step of a stream that is
over.

### Fairness

- Weak fairness of every task and of every caller that has been entered: tokio
  polls a task that was woken.
- The server stores what it was sent (weak) and acknowledges what it stored.
  The latter is strong fairness, because a repeated acknowledgement or a close
  signal can keep interrupting it; without it no waiting call needs to end, as
  the code itself bounds the wait only by `flush_timeout_ms`.
- The deadline of a graceful close fires (strong, for the same reason).
- In `ArrowStream` deadlines are part of the supervisor's steps, because the code
  watches `server_lack_of_ack_timeout_ms`, the rotation deadlines,
  `recovery_timeout_ms` and `flush_timeout_ms` itself, so that the server owes
  nothing on any one connection. Over all connections it owes `ServerProgress`: if
  pending batches are replayed on infinitely many, it acknowledges another row again
  and again. This cannot be left out. A successful reconnect gives the supervisor all
  its attempts back (`stream/arrow/supervisor.rs:216`), so a server that accepts every
  reconnect and acknowledges nothing keeps a batch pending for ever, and `ingest_batch`
  waits for a permit without a deadline (`stream/arrow/mod.rs:500`). Without
  ServerProgress TLC finds both properties of `arrow_live` violated that way.
  The steps of a call inside `ingest_batch` are strongly fair: tokio's semaphore,
  mutex and channel serve their waiters in order, so the supervisor and the other
  callers cannot overtake one for ever.
- In `Bindings` a task that can run runs, a granted guard is taken, an application's
  callback returns, and an answer is delivered. New calls, frees and
  cancellations are free. A wait or flush ends because the SDK operation it
  stands for ends, which `stream_live` and `arrow_live` are about.
- Elsewhere no error, timeout, cancellation or call has to happen: no
  liveness property of the gRPC stream relies on `flush_timeout_ms`.

`IngestReturns` of ZerobusStream excludes streams that were cancelled: a call that
waits for capacity when `signal_shutdown` runs may stay there (section 5).

## 4. Proofs

Each theorem is about `Spec`, without fairness, and holds for every value of the
constants that satisfies the module's ASSUME. Those say that bounds are natural
numbers, that capacities are positive, that callers form a finite set and that no
caller is named like a state. Two hypotheses go further:

    PromptAbort == AbortIsPrompt /\ ~({"shutdown", "unacked"} \subseteq ApiOps)

an aborted receiver has left its acknowledgement loop before the next connection
is there, and `get_unacked_batches` is not called on a stream after
`signal_shutdown`. A theorem has it exactly where it is needed: without the first
half TLC reports AckedIsDurable violated, without the second `VAckRace.cfg` does.

    Undropped == Interrupts \cap {"assigned", "send", "commit"} = {}

no `ingest_batch` of the Arrow stream is dropped in its critical section; three theorems
have it, and `arrow_cancel` is what happens to the first of them without it (section 5).

### Landing zone (`LandingZoneProofs`)

- `TypeCorrect`, `PermitPerItem` (PermitsConserved): `LZInv` is inductive. It has
  TypeOK, one permit per item in the zone, the balance of the permits in the
  semaphore, in the hands of granted calls and in the zone, and who waits in the
  semaphore's queue: the balance needs that a released permit goes to a call that waits
  and is counted once. TypeOK alone is not inductive: that `permits` stays a natural
  number when an item is removed needs one permit per item.
- `OrderPreserved` (FifoNoLoss): inductive relative to the types. What was
  acknowledged or drained, what is observed and what is queued are, in this
  order, what was added. A reset or a drain moves the border between them only.
- `WakeupNotLost` (NoLostWakeup): inductive relative to the types; a push either
  wakes the parked sender or leaves a stored permit that its next await takes.

### gRPC stream (`ZerobusStreamProofs`, `StreamLedgerProofs`)

The invariant is built in layers, each inductive relative to the ones before it:

1. `TypeInv`: the types, one permit per record in the zone, one caller at a time under
   `sync_mutex`, a receiver in its loop with something left to acknowledge.
   Gives `StreamTypeCorrect`.
2. `RecordInv`: offsets are drawn in increasing order, and every accepted one is
   acknowledged, in the zone or set aside, once. Gives `StreamKeepsRecords`
   (NoRecordLost) without any hypothesis: even a late receiver only moves a record
   from one place to another.
3. `ControlInv`: which phases of supervisor, sender, receivers and api caller go
   together; above all that a receiver which is not aborted belongs to the current
   connection. With `TokenInv` it gives `StreamDropsToken` (RejectedTokenDropped).
4. `AckInv`: what the current connection was sent, less what its receiver has
   acknowledged, is the observed queue, in order; the server stores a prefix of what
   was sent, and a receiver acknowledges within that prefix. Gives
   `AcknowledgedAreDurable` (AckedIsDurable). This is where `PromptAbort` enters:
   an old receiver that is still in its loop would remove records of the new
   connection.
5. The refinement mapping to AckLedger is the landing zone as `pending`, the log of
   acknowledged records, the records set aside and the announced offset.
   `StreamImplementsLedger` (ImplementsLedger) shows that the initial state maps to
   an initial state and every step to a step of the ledger or a stutter. The
   invariant `OrderInv` that this adds says that acknowledged, set-aside and pending
   records are, in this order, the accepted ones, and that only acknowledged offsets
   are announced, each above the one before. From it `OkIsAcknowledged`
   (WaitOkMeansAcked) follows.
6. `CallbacksMatchFates` (CallbackMatchesFate) and `CloseWaitsForCallbacks`
   (CloseRunsCallbacks): a record's message is queued in the step that decides its
   fate; until the stream is cancelled the handler misses no acknowledgement, and it
   ends by itself only with an empty queue.

### Multiplexed stream (`MultiplexedStreamProofs`)

- `RoundTrip`, `IdsDistinct`: `stream_index` and `sub_offset` undo
  `MessageId::new`, whether or not the index sets the sign bit, and different
  records have different ids.
- `MuxTypeCorrect`, `OkIsAcked` (OkMeansAcked), `UnackedIsComplete`
  (UnackedComplete): acknowledged, set-aside and waiting records of a sub-stream are,
  in increasing order, those an id was returned for; none is acknowledged after one
  was set aside; while the stream is closed and collected no call ingests, so that
  what was collected stays what was set aside.

### Arrow Flight stream (`ArrowStreamProofs`)

`ArrowInv` has the types, with what keeps the next offset within its bound
(`DrawInv`), and three more parts:

- `HoldInv`: who holds `ingest_mutex` in which phase, and that a stream is closed
  only beside no call in its critical section;
- `WaitInv`: a waiter between its reads and its wake-up was told of every
  acknowledgement since it read the offset, and of the end of the stream if it has
  parked. Gives `NobodyStranded` (NoStrandedWaiter); the part about the first read,
  and that a `close()` past its flush waits no more, make it inductive;
- `SnapInv`: once `get_unacked_batches` has returned, the stream is closed and
  nothing is pending. With HoldInv nothing is pushed, acknowledged or replayed any
  more and every later drain moves nothing: `SnapshotIsStable` (SnapshotStable).

These hold for every set of await points at which calls are dropped, the ones of
`arrow_cancel` included.

`SubmittedMatchesSent` (SubmittedIsSent, under `Undropped`) adds:

- `GateInv`: in which phases of the supervisor there is a sender and the stream is
  paused, and that a paused stream has no call between its look at the gate and its
  hand-off;
- `PartInv`: every pending batch keeps at least one row through acknowledgements,
  cuts and renumbering, so that a replay sends as many rows as it counts;
- `CountInv`: while sends are possible, `cumulative_records_assigned` and
  `submitted_records` differ by the batch of the one call in its critical section
  and by nothing else; a replay has submitted the rows of the batches it has sent,
  and its end makes the two equal. A batch dropped between its push and its commit
  breaks exactly this: it is assigned and never submitted, and the next commit
  counts it.

The lemmas below it say what `Retain` keeps and in which order, and that `RowCount`
adds up batch by batch.

The rest is about the ranges of the pending batches. `OrderInv`, which holds whatever
calls are dropped, says that they are disjoint, ascending in records and in offsets
alike, as long as the rows they stand for, and all between what is acknowledged and
what is assigned. An acknowledgement moves two counters, of records and of batches;
OrderInv is what makes them agree, because the batches that end within the records are
then a prefix of the pending ones and the last of that prefix has the highest offset.
Its parts are the counters (`MarkInv`), the ranges (`RangeInv`), the batch that has been
assigned and is not pushed yet (`NewInv`), the gapless ranges of a replay (`ReplayInv`)
and the batches handed back (`FailInv`).

`CloseOkDelivers` (CloseOkMeansDelivered, without `Undropped`) adds three parts:

- `FlushInv`: the flush of `close()` waits for the last offset, and no offset is drawn
  while it does. With OrderInv its success leaves nothing pending;
- `ErrorInv`: a stream that ends by itself has published an error;
- `ResultInv`: a teardown that began after a successful flush, a stream that closed
  without an error, and a `close()` that returned `Ok` all find nothing pending, nothing
  handed back and no call that could add to either. A second `close()`, and one
  that meets a finalizing supervisor, take the same answer from this.

`LedgerInvariant` (under `Undropped`) is that SentInv, OrderInv and `LedgerInv` hold.
LedgerInv follows single rows:

- `CutInv`: of a pending batch the server has confirmed the rows before its `skip`
  and those that its range puts up to the acknowledged record, and no others; of a batch
  handed back, those before its `skip`;
- `HandInv`: while a connection is in use, a batch is submitted as a whole and its
  range is where its rows are in `handed`; what was handed over is confirmed up to the
  acknowledged record and belongs to a pending batch from there on;
- `PlaceInv`: an accepted batch is behind the acknowledged offset with all its rows
  confirmed, or it is pending or handed back;
- `EntryInv`: the batch of the call in its critical section is the last one, and is
  not confirmed before it is submitted.

An acknowledgement of n records confirms the first n of `handed` (`AckConfirms`), which
HandInv turns into rows of pending batches. A replay cuts what is confirmed off each
batch and numbers the rest from 0 (`CutAway`, `PartsCut`, `RebuiltRanges`), so that CutInv
holds again with nothing acknowledged, and each send of the replay extends HandInv by
one batch (`HandOver`). A drain moves the cut batches to `failed` in one step. There is
one lemma per such step, named `Order...` and `Ledger...` after it, and one for the steps
that leave all this alone. From LedgerInvariant:

- `RowsInOnePlace` (RowLedger): of the three places of a row exactly one has it.
  PlaceInv says where a batch is and CutInv which of its rows are confirmed there;
  OrderInv excludes that it is both pending and handed back;
- `AckedMeansConfirmed` (AckedIffConfirmed): a batch that is pending or handed back has
  at least one row that is not confirmed, its last one.

### Token cache (`TokenCacheProofs`)

`CacheTypeCorrect`, `CachedTokenValid` (CachedTokenIsValid) and `DroppedNotServed`
(DroppedTokenNotServed) come from one invariant, `CacheInv`: keys do not share
slots, the slot a key leads to has no dropped token, and the slot a call works on has
no token that was dropped before the call began. That last part is what makes
DroppedTokenNotServed inductive, because calls keep using a slot whose entry has
gone; it needs in turn that no token is in two slots.

### Bindings (`BindingsProofs`)

`BindingInv` has seven parts: the types; which stream a call works on and which slot
it fills; the queue of each guard and who was granted it; what keeps the stream of a
running call alive (a borrowed handle, an Arc, the stream itself taken out of its
Option); that a provider handed over is held by somebody or released, once, and never
both; what the flag or lock of a provider says of who is inside it; what a recreation
carries over. From it:

- `RunsOnLiveStream` (NoUseAfterFree): what a running call holds keeps its stream;
- `ReleasedOnce` (ProviderReleasedOnce): `ProvInv` quantifies over `given`, so it speaks
  of the provider of a creation that was refused, failed or was cancelled as well, which
  no stream remembers. A provider is held from the step that hands it over; it
  is released in the step in which its last user goes, and one without a user gets no
  new one;
- `CallbacksAlternate` (OneCallbackAtATime): `CallbackInv`, flag or lock is taken
  exactly while somebody is inside, is inductive because every step either leaves the
  callbacks alone, or takes the flag of a provider nobody is inside and enters, or
  leaves and gives it back (`Turns`); that the provider of a running callback stays
  what it was (`SameProvider`) is what makes the right flag be given back;
- `ClosesAlone` (CloseRunsAlone): two calls that run on one guard both hold it for
  reading, and close holds it for writing;
- `RecreateReplays` (RecreateReplaysAll): the old stream has ended when the recreation
  reads it, so no ingest passes its check any more; what still enters it was in hand
  at the read (`InHand` only shrinks), and nothing enters an Arrow stream, or one whose
  mutex the recreation holds.

Each step is proved once for the shared actions of BindingCalls and once per
exported function, which only has to be shown to start, queue or refuse a call in
one of a few shapes.

### Left to TLC

- Liveness and everything else that needs fairness: AdderIsServed, WaitReturns,
  ClosedSupervisorEnds, PoisonReachesAll, Settles, CallsReturn and both
  IngestReturns. Fairness is outside the prover's reach.
- VarintIsReference, FieldsArePrefixFree, ConcatIsMerge, OneofExclusive, DepthLimit,
  TableReadsBack and RequiredAtEveryDepth: Wire, ZeroParser and TableSchema compute by
  recursion over data; the prover has no induction over sequences that it can
  instantiate.
- Every other property of a passing run is a theorem.
- UnackedSurviveClose, RecreateReplaysLate, and SubmittedIsSent in `arrow_cancel`, do not
  hold (section 5).

## 5. Where code and documentation disagree

With a run whose counterexample is the shortest one:

1. `arrow_cancel` - an `ingest_batch` dropped between its entry into
   `pending_batches` and its hand-off to the connection leaves rows that the next
   call counts as submitted; acknowledgements then fall on the wrong batch
   (`stream/arrow/mod.rs:236`, `:597`).
2. `java_unacked` - `nativeClose` takes the stream out of its handle and drops it
   (`rust/jni/src/stream.rs:395`); the records `close()` could not get acknowledged
   can no longer be cached or recreated, which `BaseZerobusStream.java:111` promises.
   Node's `close()` does the same (`typescript/src/lib.rs:620`).

With a configuration to reproduce it (`tlc -config <cfg> <module>`):

3. `VRecreateRace.cfg`, `MCBindings` - an ingest that read `is_closed` before the stream
   failed enqueues after `recreate_stream` has read the unacknowledged batches
   (`ingest.rs:189-209`, `sdk.rs:188`): it returns `Ok`, and the new stream never gets
   the record, although `sdk.rs:155` says that it "automatically re-ingests all records
   that weren't acknowledged". The C FFI has no lock and Python's is shared, so both
   let the calls overlap; a second `get_unacked_batches` on the old stream still finds
   the record. RecreateReplaysAll says how far the promise does hold.
4. `VCloseOk.cfg`, `ZerobusStream` - `close()` on a stream that already failed
   returns `Ok` without any flush (`close.rs:33`).
5. `VFlushGap.cfg`, `ZerobusStream` - an ingest call dropped while it waits for
   capacity has used up an offset; a flush that waits for that offset cannot
   succeed (`acks.rs:139`).
6. `VMuxStuck.cfg`, `MultiplexedStream` - an ingest call that passed
   `has_capacity()` and then waits in `add()` never returns when the multiplexer is
   poisoned by another sub-stream, and keeps `close()` from running. (The
   multiplexed stream is compiled with the `testing` feature only.)
7. `VAckRace.cfg`, `ZerobusStream` - after `signal_shutdown`, `get_unacked_batches`
   drains the zone while the sender is between the two polls of its `select!`; the
   sender then takes a record added meanwhile, and an acknowledgement that was on
   its way is applied to it. Only the multiplexer calls `signal_shutdown`.

Seen while modelling, without a configuration:

- After a failed reconnect `is_closed` is set with nothing on `server_error`
  (`supervisor.rs:159`; `acks.rs:62` says the error always comes first).
- A sender parked in `observe()` sends one more record after a pause
  (`sender.rs:35`; `stream_configuration.rs:97`).
- `close()` of a sub-stream after `signal_shutdown` returns without reaping the
  tasks (`close.rs:51`; `multiplexed_stream.rs:190` says close or Drop does).
- An ingest call that read `is_closed` before the stream was drained still
  enqueues, so a second `get_unacked_batches` may return more than the first
  (`ingest.rs:189`; `acks.rs:286`).
- After `invalidate()` two fetches for one key can run at once
  (`token_cache.rs:92`).
- The Arrow `close()` returns `Ok` when the flush succeeded although an error status
  arrived since, and a second call then returns that error
  (`stream/arrow/mod.rs:868` says a clean close has none).
- `try_unpack_tag` narrows the field number to `i32` before it checks the range
  (`zeroparser/wire.rs:293`): a tag beyond 35 bits is taken for the field its low
  bits name.
- Names of generated messages are unique among messages only: a STRUCT column whose
  name is already in PascalCase gets a nested message with the name of its own
  field, which protobuf does not allow in one scope, so the descriptor pool refuses
  the table (`schema.rs:487`). `codec` has such columns; TableReadsBack says that
  no other table is refused.
- A server that accepts every reconnect and never acknowledges keeps an Arrow stream
  reconnecting for ever (section 3, fairness).
- A VARIANT map key is accepted for protobuf and refused for Arrow, which documents
  the same set of types. `TableReadsBack` states the difference.

## 6. Not modelled

- `ingest_internal` and its oneshot promises inside ZerobusStream: only
  `recreate_stream` uses them. The lock of their map is modelled, because the
  receiver holds it; `BindingCalls` models the replay itself.
- The exchange inside one connection attempt: it shares no state; its outcomes are
  the attempt's error classes. A provider whose `invalidate()` stalls past the
  attempt's deadline is not modelled.
- Panics of tasks, and payload checks that return before any state is touched.
- Arrow: IPC and C-data import in front of `ingest_batch`, the JSON of the metadata,
  a response whose metadata does not parse (it is skipped), the invalidation of
  credentials after a terminal rejection, and an abort of close() between
  `abort()` and the end of the join.
- Bindings: the SDK handle and its options, marshalling of strings, arrays and Arrow
  buffers, ack callbacks into Java and Python; the Go, C++, .NET and Java sources,
  which call the functions modelled here.
- zeroparser's typed accessors and floating point values; `record_types.rs`, which
  wraps payloads; the text of `type_json`.
- Headers providers other than through the cache and the bindings; builders and
  options; TLS, proxies, client warnings, logging.
- The pure Go SDK.

## 7. Plan

1. The stream core of the pure Go SDK, against the same AckLedger.
2. ArrowStream against an abstract ledger of rows, of which AckLedger is the case
   of one row per batch.
