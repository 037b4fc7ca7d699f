-------------------------- MODULE MultiplexedStream --------------------------
(***************************************************************************)
(* MultiplexedStream (rust/sdk/src/multiplexed_stream.rs): ingestion       *)
(* spread over a fixed set of ZerobusStreams, poisoned by the first one    *)
(* that fails.                                                             *)
(*                                                                         *)
(* A sub-stream is what ZerobusStream promises (AckLedger) and no more:    *)
(* records wait in its landing zone, are acknowledged in order, and are    *)
(* set aside when it fails.  Connections and retries are not visible here. *)
(***************************************************************************)
EXTENDS MessageId, FiniteSets, SequencesExt

CONSTANTS
    Callers,            \* tasks that share the stream
    NumStreams,
    MaxInflight,        \* capacity of a sub-stream
    MaxCalls,           \* bound: ingest calls
    MayFail,            \* sub-streams that may fail
    Ops                 \* what the application does besides ingest

ASSUME MultiplexedAssumptions ==
    /\ NumStreams \in 1 .. MaxStreams /\ MaxInflight \in Nat \ {0} /\ MaxCalls \in Nat
    /\ MaxCalls <= OffsetSpan /\ IsFiniteSet(Callers)
    /\ Ops \subseteq {"flush", "wait", "close", "unacked", "drop", "cancel", "timeout"}

Streams == 0 .. NumStreams - 1

ASSUME MayFailAssumption == MayFail \subseteq Streams

VARIABLES
    \* the multiplexer
    counter,            \* round_robin_counter
    muxClosed,          \* is_closed
    closeOp,            \* whether close() runs on its own or for get_unacked_batches
    \* the sub-streams
    last,               \* logical_offset_id_generator, -1 before the first offset
    zone,               \* landing zone
    acked,              \* records acknowledged, in order
    failed,             \* failed_records
    closed,             \* is_closed
    cancelled,          \* cancellation_token
    task,               \* the supervisor and the tasks of its connection
    \* the callers
    pc,
    at,                 \* the sub-stream a caller works on
    goal,               \* per sub-stream, the offset a caller waits for
    wait,               \* per sub-stream, how that wait stands
    \* history
    issued,             \* MessageIds returned by ingest calls
    report,             \* what get_unacked_batches returned, per sub-stream
    dropped             \* a call was cancelled

muxVars == <<counter, muxClosed, closeOp>>
subVars == <<last, zone, acked, failed, closed, cancelled, task>>
callVars == <<pc, at, goal, wait>>
histVars == <<issued, report, dropped>>
vars == <<muxVars, subVars, callVars, histVars>>

NoWait == [i \in Streams |-> "none"]
NoGoal == [i \in Streams |-> -1]

Init ==
    /\ counter = 0 /\ muxClosed = FALSE /\ closeOp = "none"
    /\ last = NoGoal
    /\ zone = [i \in Streams |-> <<>>] /\ acked = zone /\ failed = zone
    /\ closed = [i \in Streams |-> FALSE] /\ cancelled = closed
    /\ task = [i \in Streams |-> "run"]
    /\ pc = [k \in Callers |-> "idle"] /\ at = [k \in Callers |-> 0]
    /\ goal = [k \in Callers |-> NoGoal] /\ wait = [k \in Callers |-> NoWait]
    /\ issued = {} /\ report = {} /\ dropped = FALSE

------------------------------------------------------------------------------
(* Sub-streams, as the multiplexer sees them *)

\* logical_last_received_offset_id
Received(i) == IF acked[i] = <<>> THEN -1 ELSE Last(acked[i])

\* The oldest record is acknowledged: until its tasks have ended, cancelled or not.
SubAck(i) ==
    /\ task[i] = "run" /\ zone[i] # <<>>
    /\ acked' = [acked EXCEPT ![i] = Append(@, Head(zone[i]))]
    /\ zone' = [zone EXCEPT ![i] = Tail(@)]
    /\ UNCHANGED <<muxVars, last, failed, closed, cancelled, task, callVars, histVars>>

\* A terminal error: is_closed first ...
SubFail(i) ==
    /\ i \in MayFail /\ task[i] = "run"
    /\ closed' = [closed EXCEPT ![i] = TRUE]
    /\ task' = [task EXCEPT ![i] = "failing"]
    /\ UNCHANGED <<muxVars, last, zone, acked, failed, cancelled, callVars, histVars>>

\* ... then fail_all_pending_records.
SubDrain(i) ==
    /\ task[i] = "failing"
    /\ failed' = [failed EXCEPT ![i] = @ \o zone[i]]
    /\ zone' = [zone EXCEPT ![i] = <<>>]
    /\ task' = [task EXCEPT ![i] = "ended"]
    /\ UNCHANGED <<muxVars, last, acked, closed, cancelled, callVars, histVars>>

\* After a cancellation the tasks end and leave the landing zone as it is.
SubEnd(i) ==
    /\ task[i] = "run" /\ cancelled[i]
    /\ task' = [task EXCEPT ![i] = "ended"]
    /\ UNCHANGED <<muxVars, last, zone, acked, failed, closed, cancelled, callVars, histVars>>

------------------------------------------------------------------------------
(* Waiting for sub-streams: join_all of flush(), and wait_for_offset *)

\* A caller starts to wait for the given offsets; -1 is nothing to wait for.
WaitFor(k, newPc, goals) ==
    /\ pc' = [pc EXCEPT ![k] = newPc]
    /\ goal' = [goal EXCEPT ![k] = goals]
    /\ wait' = [wait EXCEPT ![k] = [i \in Streams |-> IF goals[i] = -1 THEN "ok" ELSE "wait"]]

\* A call returns.
Return(k) ==
    /\ pc' = [pc EXCEPT ![k] = "idle"]
    /\ at' = [at EXCEPT ![k] = 0]
    /\ goal' = [goal EXCEPT ![k] = NoGoal]
    /\ wait' = [wait EXCEPT ![k] = NoWait]

Resolve(k, i, res) ==
    /\ wait[k][i] = "wait"
    /\ wait' = [wait EXCEPT ![k][i] = res]
    /\ UNCHANGED <<muxVars, subVars, pc, at, goal, histVars>>

\* Reporting success as soon as the sub-stream is closed.
WaitEnds_ClosedIsOk(k, i) ==
    (Received(i) >= goal[k][i] \/ closed[i]) /\ Resolve(k, i, "ok")

\* The offset arrives, or the sub-stream is closed without it.
WaitEnds(k, i) ==
    \/ Received(i) >= goal[k][i] /\ Resolve(k, i, "ok")
    \/ Received(i) < goal[k][i] /\ closed[i] /\ Resolve(k, i, "err")

\* flush_timeout_ms
WaitTimeout(k, i) == "timeout" \in Ops /\ Resolve(k, i, "err")

Resolved(k) == \A i \in Streams : wait[k][i] # "wait"

------------------------------------------------------------------------------
(* shutdown_on_failure *)

\* The first caller to notice flushes every sub-stream; the others return.
Poison(k) ==
    IF muxClosed
    THEN Return(k) /\ UNCHANGED muxClosed
    ELSE /\ muxClosed' = TRUE
         /\ WaitFor(k, "poison", last)
         /\ UNCHANGED at

\* Flushing without telling the sub-streams to stop.
PoisonSignal_Forgotten(k) ==
    /\ pc[k] = "poison" /\ Resolved(k)
    /\ Return(k)
    /\ UNCHANGED <<muxVars, subVars, histVars>>

\* Whatever the flushes returned, signal_shutdown for every sub-stream.
PoisonSignal(k) ==
    /\ pc[k] = "poison" /\ Resolved(k)
    /\ closed' = [i \in Streams |-> TRUE]
    /\ cancelled' = [i \in Streams |-> TRUE]
    /\ Return(k)
    /\ UNCHANGED <<muxVars, last, zone, acked, failed, task, histVars>>

------------------------------------------------------------------------------
(* ingest_record and ingest_records *)

\* check_closed, pick_substream
IngestStart(k) ==
    /\ pc[k] = "idle" /\ ~muxClosed /\ counter < MaxCalls
    /\ at' = [at EXCEPT ![k] = counter % NumStreams]
    /\ counter' = counter + 1
    /\ pc' = [pc EXCEPT ![k] = "capacity"]
    /\ UNCHANGED <<muxClosed, closeOp, subVars, goal, wait, histVars>>

\* A turn of wait_for_capacity, and check_closed after it.  With no capacity the
\* caller sleeps and looks again.
WaitForCapacity(k) ==
    /\ pc[k] = "capacity"
    /\ \/ muxClosed /\ Return(k) /\ UNCHANGED muxClosed
       \/ ~muxClosed /\ closed[at[k]] /\ Poison(k)
       \/ /\ ~muxClosed /\ ~closed[at[k]] /\ Len(zone[at[k]]) < MaxInflight
          /\ pc' = [pc EXCEPT ![k] = "ingest"]
          /\ UNCHANGED <<muxClosed, at, goal, wait>>
    /\ UNCHANGED <<counter, closeOp, subVars, histVars>>

\* ingest_*_offset of the sub-stream: it is closed, and handle_ingest_error
\* poisons the multiplexer; it refuses the payload; or it goes on to its mutex.
IngestOffset(k) ==
    /\ pc[k] = "ingest"
    /\ \/ closed[at[k]] /\ Poison(k)
       \/ ~closed[at[k]] /\ Return(k) /\ UNCHANGED muxClosed
       \/ /\ ~closed[at[k]]
          /\ pc' = [pc EXCEPT ![k] = "checked"]
          /\ UNCHANGED <<muxClosed, at, goal, wait>>
    /\ UNCHANGED <<counter, closeOp, subVars, histVars>>

\* sync_mutex and the next offset
DrawOffset(k) ==
    /\ pc[k] = "checked"
    /\ \A j \in Callers : ~(pc[j] = "adding" /\ at[j] = at[k])
    /\ last' = [last EXCEPT ![at[k]] = @ + 1]
    /\ pc' = [pc EXCEPT ![k] = "adding"]
    /\ UNCHANGED <<muxVars, zone, acked, failed, closed, cancelled, task, at, goal, wait,
                   histVars>>

\* LandingZone::add; the call returns the MessageId.
Enqueue(k) ==
    /\ pc[k] = "adding" /\ Len(zone[at[k]]) < MaxInflight
    /\ zone' = [zone EXCEPT ![at[k]] = Append(@, last[at[k]])]
    /\ issued' = issued \cup {New(at[k], last[at[k]])}
    /\ Return(k)
    /\ UNCHANGED <<muxVars, last, acked, failed, closed, cancelled, task, report, dropped>>

------------------------------------------------------------------------------
(* flush and wait_for_message_id *)

Flush(k) ==
    /\ "flush" \in Ops /\ pc[k] = "idle" /\ ~muxClosed
    /\ WaitFor(k, "flush", last)
    /\ UNCHANGED <<muxVars, subVars, at, histVars>>

\* It does not look at is_closed, but needs the stream while close() borrows it.
WaitForMessageId(k, id) ==
    /\ "wait" \in Ops /\ pc[k] = "idle" /\ closeOp = "none"
    /\ WaitFor(k, "flush", [NoGoal EXCEPT ![StreamIndex(id)] = SubOffset(id)])
    /\ UNCHANGED <<muxVars, subVars, at, histVars>>

\* Every wait is over: an error of a sub-stream that is closed poisons the
\* multiplexer, any other (a timeout) is only returned.
FlushDone(k) ==
    /\ pc[k] = "flush" /\ Resolved(k)
    /\ IF \E i \in Streams : wait[k][i] = "err" /\ closed[i]
       THEN Poison(k)
       ELSE Return(k) /\ UNCHANGED muxClosed
    /\ UNCHANGED <<counter, closeOp, subVars, histVars>>

\* The application drops a future at one of its await points.
Cancel(k) ==
    /\ "cancel" \in Ops
    /\ pc[k] \in {"capacity", "checked", "adding", "flush", "poison"}
    /\ Return(k)
    /\ dropped' = TRUE
    /\ UNCHANGED <<muxVars, subVars, issued, report>>

------------------------------------------------------------------------------
(* close, get_unacked_batches, Drop: they own the stream (&mut self) *)

Exclusive == \A k \in Callers : pc[k] = "idle"

\* close(), also as the first half of get_unacked_batches: flush all ...
Close(k, op) ==
    /\ op \in Ops \cap {"close", "unacked"} /\ Exclusive
    /\ muxClosed' = TRUE
    /\ closeOp' = op
    /\ WaitFor(k, "closeFlush", last)
    /\ UNCHANGED <<counter, subVars, at, histVars>>

\* ... then close one sub-stream after the other.  A closed one is skipped at
\* once; otherwise its close() flushes again ...
CloseSub(k) ==
    /\ pc[k] \in {"closeFlush", "closing"} /\ Resolved(k) /\ at[k] < NumStreams
    /\ IF closed[at[k]]
       THEN /\ pc' = [pc EXCEPT ![k] = "closing"]
            /\ at' = [at EXCEPT ![k] = @ + 1]
            /\ UNCHANGED <<goal, wait>>
       ELSE /\ WaitFor(k, "subFlush", [NoGoal EXCEPT ![at[k]] = last[at[k]]])
            /\ UNCHANGED at
    /\ UNCHANGED <<muxVars, subVars, histVars>>

\* ... and, whatever that returns, cancels its supervisor and joins it, or aborts
\* it after a while: then a failing one leaves its records where they are.
CloseSubDone(k) ==
    LET i == at[k] IN
    /\ pc[k] = "subFlush" /\ Resolved(k)
    /\ closed' = [closed EXCEPT ![i] = TRUE]
    /\ cancelled' = [cancelled EXCEPT ![i] = TRUE]
    /\ task' = [task EXCEPT ![i] = "ended"]
    /\ pc' = [pc EXCEPT ![k] = "closing"]
    /\ at' = [at EXCEPT ![k] = i + 1]
    /\ UNCHANGED <<muxVars, last, zone, acked, failed, goal, wait, histVars>>

\* close() returns, or get_unacked_batches goes on to collect.
CloseDone(k) ==
    /\ pc[k] = "closing" /\ at[k] = NumStreams
    /\ IF closeOp = "close"
       THEN Return(k) /\ closeOp' = "none"
       ELSE /\ pc' = [pc EXCEPT ![k] = "collect"]
            /\ at' = [at EXCEPT ![k] = 0]
            /\ UNCHANGED <<goal, wait, closeOp>>
    /\ UNCHANGED <<counter, muxClosed, subVars, histVars>>

\* Returning failed_records alone.
Collect_FailedOnly(k) ==
    LET i == at[k] IN
    /\ pc[k] = "collect" /\ i < NumStreams
    /\ report' = report \cup {<<i, failed[i]>>}
    /\ at' = [at EXCEPT ![k] = i + 1]
    /\ UNCHANGED <<muxVars, subVars, pc, goal, wait, issued, dropped>>

\* get_unacked_batches of one sub-stream: failed_records and the landing zone.
Collect(k) ==
    LET i == at[k] IN
    /\ pc[k] = "collect" /\ i < NumStreams
    /\ failed' = [failed EXCEPT ![i] = @ \o zone[i]]
    /\ zone' = [zone EXCEPT ![i] = <<>>]
    /\ report' = report \cup {<<i, failed'[i]>>}
    /\ at' = [at EXCEPT ![k] = i + 1]
    /\ UNCHANGED <<muxVars, last, acked, closed, cancelled, task, pc, goal, wait,
                   issued, dropped>>

CollectDone(k) ==
    /\ pc[k] = "collect" /\ at[k] = NumStreams
    /\ Return(k) /\ closeOp' = "none"
    /\ UNCHANGED <<counter, muxClosed, subVars, histVars>>

\* Drop: signal_shutdown for all, then every ZerobusStream is dropped.
DropMux ==
    /\ "drop" \in Ops /\ Exclusive
    /\ muxClosed' = TRUE
    /\ closed' = [i \in Streams |-> TRUE] /\ cancelled' = closed'
    /\ task' = [i \in Streams |-> "ended"]
    /\ pc' = [k \in Callers |-> "gone"]
    /\ UNCHANGED <<counter, closeOp, last, zone, acked, failed, at, goal, wait, histVars>>

------------------------------------------------------------------------------

SubStep(i) == SubAck(i) \/ SubDrain(i) \/ SubEnd(i)

CallStep(k) ==
    \/ WaitForCapacity(k) \/ IngestOffset(k) \/ DrawOffset(k) \/ Enqueue(k)
    \/ \E i \in Streams : WaitEnds(k, i)
    \/ FlushDone(k) \/ PoisonSignal(k)
    \/ CloseSub(k) \/ CloseSubDone(k) \/ CloseDone(k) \/ Collect(k) \/ CollectDone(k)

\* Nobody has anything left to do.
Terminated ==
    /\ muxClosed /\ \A k \in Callers : pc[k] \in {"idle", "gone"}
    /\ UNCHANGED vars

Next ==
    \/ \E i \in Streams : SubStep(i) \/ SubFail(i)
    \/ \E k \in Callers :
          \/ IngestStart(k) \/ Flush(k) \/ \E id \in issued : WaitForMessageId(k, id)
          \/ \E op \in {"close", "unacked"} : Close(k, op)
          \/ CallStep(k) \/ Cancel(k)
          \/ \E i \in Streams : WaitTimeout(k, i)
    \/ DropMux
    \/ Terminated

Spec == Init /\ [][Next]_vars

\* Every caller and every task that can run does; the server acknowledges what it
\* is sent.  Nothing has to fail, time out, be called or be cancelled.
Fairness ==
    /\ \A k \in Callers : WF_vars(CallStep(k))
    /\ \A i \in Streams : WF_vars(SubAck(i)) /\ WF_vars(SubDrain(i)) /\ WF_vars(SubEnd(i))

FairSpec == Spec /\ Fairness

------------------------------------------------------------------------------
(* Properties *)

\* Every variable has the type its declaration in the code gives it.
TypeOK ==
    /\ counter \in 0 .. MaxCalls /\ muxClosed \in BOOLEAN
    /\ last \in [Streams -> -1 .. MaxCalls - 1]
    /\ {zone, acked, failed} \subseteq [Streams -> Seq(0 .. MaxCalls - 1)]
    /\ \A i \in Streams : Len(zone[i]) <= MaxInflight
    /\ closed \in [Streams -> BOOLEAN] /\ cancelled \in [Streams -> BOOLEAN]
    /\ task \in [Streams -> {"run", "failing", "ended"}]
    /\ pc \in [Callers -> {"idle", "capacity", "ingest", "checked", "adding", "flush", "poison",
                           "closeFlush", "closing", "subFlush", "collect", "gone"}]
    /\ at \in [Callers -> 0 .. NumStreams]
    /\ goal \in [Callers -> [Streams -> -1 .. MaxCalls - 1]]
    /\ wait \in [Callers -> [Streams -> {"none", "wait", "ok", "err"}]]
    /\ closeOp \in {"none", "close", "unacked"}
    /\ \A id \in issued : StreamIndex(id) \in Streams /\ SubOffset(id) \in 0 .. MaxCalls - 1

Issued(i) == {SubOffset(id) : id \in {m \in issued : StreamIndex(m) = i}}

\* A flush() or wait_for_message_id that succeeds means that every record whose
\* id names the sub-stream, up to the offset waited for, was acknowledged there:
\* ids lead back to the right record, failed sub-streams never report success.
OkMeansAcked ==
    \A k \in Callers, i \in Streams : wait[k][i] = "ok" =>
        \A o \in Issued(i) : o <= goal[k][i] => o \in ToSet(acked[i])

\* Once get_unacked_batches has returned, what it returned and what was
\* acknowledged are, for good, exactly the records ingest calls returned an id
\* for, and no record is in both: whatever was poisoned, failing, timing out or
\* cancelled when it was called ("results are always complete").
UnackedComplete ==
    \A r \in report :
        /\ ToSet(r[2]) \cup ToSet(acked[r[1]]) = Issued(r[1])
        /\ ToSet(r[2]) \cap ToSet(acked[r[1]]) = {}

\* A poisoned or closed multiplexer has every sub-stream told to stop in the end,
\* whatever the sub-streams do meanwhile and without the help of a timeout; only
\* an application that drops the poisoning call can keep it from that.
PoisonReachesAll == muxClosed ~> dropped \/ \A i \in Streams : closed[i]

\* multiplexed_stream.rs:262-263, "If the chosen sub-stream is at capacity, this
\* waits for it to drain": so an ingest call returns once scheduling is fair and
\* the server acknowledges what it is sent.
MuxIngestReturns ==
    \A k \in Callers :
        pc[k] \in {"capacity", "ingest", "checked", "adding"} ~> pc[k] \in {"idle", "poison"}
==============================================================================
