------------------------- MODULE ZerobusStreamProofs -------------------------
(***************************************************************************)
(* TLAPS proofs about ZerobusStream, for every number of clients, records, *)
(* connections and retries, and every choice of options.                   *)
(*                                                                         *)
(* The invariants come in layers, each resting on the ones before it:      *)
(*   TypeInv     types, with the counting that keeps them                  *)
(*   RecordInv   where the records are                                     *)
(*   ControlInv  which tasks can still run in which phase                  *)
(*   AckInv      what an acknowledged physical offset stands for           *)
(* StreamLedgerProofs goes on from there to what callers are told.         *)
(***************************************************************************)
EXTENDS ZerobusStream, SequenceFacts, FiniteSetTheorems, TLAPS

------------------------------------------------------------------------------
(* The inductive invariants *)

Checked == {j \in Clients : client[j] = "checked"}
Adding == \E k \in Clients : client[k] = "adding"

\* sync_mutex admits one caller at a time, and the bound on offsets is kept.
ClientInv ==
    /\ \A j, k \in Clients : client[j] = "adding" /\ client[k] = "adding" => j = k
    /\ lastOffset + Cardinality(Checked) <= MaxRecords - 1
    /\ Adding => lastOffset >= 0

\* The ack loop ends at the offset being handled.
LoopInv == \A c \in Conns : recv[c] = "acking" => lastAcked[c] < ackTo[c]

LoopTypes ==
    /\ recv \in [Conns -> {"none", "await", "acking", "publish", "done"}]
    /\ lastAcked \in [Conns -> Offsets \cup {-1}] /\ ackTo \in [Conns -> Offsets \cup {-1}]
    /\ logical \in [Conns -> Offsets \cup {-2}] /\ aborted \in [Conns -> BOOLEAN]

\* One permit per item, and a receiver in its loop has something left to handle.
CountInv ==
    /\ permits = LZLen
    /\ LoopInv

TypeInv == TypeOK /\ ClientInv /\ CountInv

\* Offsets are accepted in increasing order, and only fail_all_pending_records
\* holds records of its own.
AcceptInv ==
    /\ Increasing(accepted)
    /\ \A o \in ToSet(accepted) : o <= lastOffset /\ (Adding => o < lastOffset)
    /\ failing # <<>> => sup = "failFinish"

RecordInv == AcceptInv /\ NoRecordLost

\* The supervisor past its select!: the sender is gone.
PastSelect == {"drainRecv", "handle", "close", "invalidate", "failDrain", "failFinish"}

\* The supervisor has failed the stream or has ended: it connects no more.
Ending == {"invalidate", "failDrain", "failFinish", "done"}

\* Past its select! the supervisor has a connection and the sender is gone; before
\* the first connection there is no stream yet.
PhaseInv ==
    /\ sup \in PastSelect \/ (sup = "connecting" /\ conn > 0) => send = "done"
    /\ sup \in PastSelect \cup {"running", "joinSender"} => conn > 0
    /\ conn = 0 => send = "none" /\ api = "idle" /\ ~isClosed /\ ~cancelled

\* Whose results a receiver's are: the supervisor's, which is waiting for it, unless
\* it was aborted or close() has stopped the supervisor.
ReceiverInv ==
    /\ \A c \in Conns : recv[c] = "none" <=> c > conn
    /\ \A c \in Conns : recv[c] \in {"none", "done"} =>
          lastAcked[c] = -1 /\ ackTo[c] = -1 /\ logical[c] = -2 /\ ~aborted[c]
    /\ \A c \in Conns : recv[c] = "await" => ~aborted[c]
    /\ \A c \in Conns : recv[c] \notin {"none", "done"} /\ ~aborted[c] =>
          c = conn /\ (sup \in {"running", "drainRecv"} \/ (sup = "done" /\ cancelled))
    /\ sup = "joinSender" => recv[conn] = "done"

\* What the api caller is doing, and what its phase implies.
ApiInv ==
    /\ api \in {"shutdown", "callbacks"} => apiOp = "close" /\ cancelled
    /\ apiOp = "close" /\ api \notin {"idle", "returned"} => ClientsIdle
    /\ api = "idle" => apiOp = "none" /\ apiTarget = -1 /\ apiRes = "none"
    /\ api \in {"callbacks", "gone"} => sup = "done"
    /\ cancelled => isClosed

ControlInv == PhaseInv /\ ReceiverInv /\ ApiInv

\* Why a stream is closed: its supervisor failed it when the sender was gone, or
\* the application closed it when no ingest call was under way.
CloseOrigin ==
    /\ isClosed =>
          \/ "shutdown" \in ApiOps
          \/ sup \in Ending /\ (send = "done" \/ ClientsIdle)
          \/ apiOp = "close" /\ api = "shutdown" /\ ClientsIdle
    /\ sup \in Ending \ {"done"} => isClosed

\* The landing zone was drained and nothing can be sent any more.
Drained ==
    /\ isClosed /\ observed = <<>> /\ sup \in Ending
    /\ send = "done" \/ (queue = <<>> /\ ClientsIdle)

\* The observed records are those sent on the connection and not yet
\* acknowledged, in the order they were sent, and the one in the sender's hands.
Aligned ==
    LET n == lastAcked[conn] + 1
    IN  /\ n + Len(observed) >= Len(wire)
        /\ \A i \in 1 .. Len(observed) : n + i <= Len(wire) => observed[i] = wire[n + i]
        /\ send \notin {"sending", "done"} => n + Len(observed) = Len(wire)
        /\ send = "sending" => /\ n + Len(observed) = Len(wire) + 1
                               /\ observed[Len(observed)] = inHand

\* The receiver of the current connection may be alive, no other is.
OnlyCurrent == \A c \in Conns : c # conn => recv[c] \in {"none", "done"}

\* What the server has stored of the current connection.
Stored == \A i \in 1 .. persisted : wire[i] \in durable

\* The receiver of the current connection acknowledges stored records, and they
\* are the oldest observed ones.
InLine ==
    conn > 0 /\ recv[conn] # "done" =>
        /\ Aligned \/ Drained
        /\ lastAcked[conn] < persisted
        /\ recv[conn] = "acking" => ackTo[conn] < persisted

\* Records are handed back from a zone that stays drained.
HandedBack == failed # <<>> \/ failing # <<>> => Drained

AckInv ==
    OnlyCurrent /\ CloseOrigin /\ Stored /\ InLine /\ HandedBack /\ AckedIsDurable

\* A rejected token is dropped before the stream fails.
TokenInv ==
    /\ sup \in {"failDrain", "failFinish"} /\ supErr = "auth" => ~staleToken
    /\ sup = "done" /\ supErr = "auth" /\ ~cancelled => ~staleToken

------------------------------------------------------------------------------
(* Who changes what: every other step leaves the variables alone *)

USE DEF Next, ClientStep, SupStep, RecvStep, RecvMessage, SendStep, CallbackStep, ApiCall, ApiStep,
        vars, waitOthers, IngestCheck, IngestOffset, IngestAdd, IngestCancel,
        SupCreateRetry, SupCreateFail, SupConnect, SupRecvEnded, SupJoinSender,
        SupSendEnded, SupDrained, SupRecover, SupPublishError, SupClose, SupInvalidate,
        FailDrain, FailFinish, RecvAck, AckOne, AckPublish, RecvCloseSignal,
        RecvPauseDeadline, RecvError, RecvTimeout, RecvDrain, SendTop, SendPoll, SendPark,
        SendCancel, SendObserve, SendRecord, SendFail, Persist, CallbackDeliver,
        CallbackExit, WaitForOffset, Flush, Close, GetUnacked, SignalShutdown, DropStream,
        WaitTop, WaitCheck, WaitOffsetChanged, WaitErrorChanged, WaitTimeout, ShutdownSup,
        ShutdownCallbacks, Returned, Terminated

\* Only the ingest calls move a client.
LEMMA ClientFrame ==
    ASSUME [Next]_vars
    PROVE  \/ \E k \in Clients :
                 IngestCheck(k) \/ IngestOffset(k) \/ IngestAdd(k) \/ IngestCancel(k)
           \/ UNCHANGED clientVars
  OBVIOUS

\* Only these steps change the landing zone.
LEMMA ZoneFrame ==
    ASSUME [Next]_vars
    PROVE  \/ \E k \in Clients : IngestAdd(k)
           \/ SupConnect \/ FailDrain \/ SendObserve \/ GetUnacked
           \/ \E c \in Conns : AckOne(c)
           \/ UNCHANGED lzVars
  OBVIOUS

\* Only these steps change what was failed.
LEMMA FailFrame ==
    ASSUME [Next]_vars
    PROVE  FailDrain \/ FailFinish \/ GetUnacked \/ UNCHANGED failVars
  BY DEF resultVars

\* Only a receiver that acknowledges an item extends the log of acknowledgements.
LEMMA AckFrame ==
    ASSUME [Next]_vars
    PROVE  (\E c \in Conns : AckOne(c)) \/ UNCHANGED ackLog
  BY DEF userVars, histVars

\* Only these steps move the supervisor.
LEMMA SupFrame ==
    ASSUME [Next]_vars
    PROVE  SupStep \/ ShutdownSup \/ DropStream \/ UNCHANGED supVars
  OBVIOUS

\* Only these steps move a receiver.
LEMMA RecvFrame ==
    ASSUME [Next]_vars
    PROVE  \/ SupConnect \/ SupRecvEnded \/ SupSendEnded \/ SupDrained
           \/ \E c \in Conns : RecvStep(c) \/ RecvMessage(c)
           \/ UNCHANGED recvVars
  BY DEF taskVars

\* Only these steps move the sender.
LEMMA SendFrame ==
    ASSUME [Next]_vars
    PROVE  \/ SupConnect \/ SupRecvEnded \/ SupJoinSender \/ SupSendEnded \/ SendStep \/ SendFail
           \/ UNCHANGED sendVars
  BY DEF taskVars

\* Only these steps change what is on the wire or stored.
LEMMA NetFrame ==
    ASSUME [Next]_vars
    PROVE  SupConnect \/ SendRecord \/ Persist \/ UNCHANGED netVars
  BY DEF taskVars

\* Only these steps change the callback queue.
LEMMA CallbackFrame ==
    ASSUME [Next]_vars
    PROVE  \/ FailFinish \/ CallbackStep \/ ShutdownCallbacks \/ DropStream
           \/ \E c \in Conns : AckOne(c)
           \/ UNCHANGED cbVars
  BY DEF userVars

\* The caller's own variables.
LEMMA ApiFrame ==
    ASSUME [Next]_vars
    PROVE  \/ (\E t \in Offsets : WaitForOffset(t)) \/ Flush \/ Close \/ DropStream
           \/ ApiStep \/ WaitTimeout
           \/ UNCHANGED apiVars
  BY DEF userVars

\* Only these steps close or cancel the stream.
LEMMA StreamFrame ==
    ASSUME [Next]_vars
    PROVE  \/ \E e \in CreateErrors : SupCreateFail(e)
           \/ SupClose \/ SignalShutdown \/ Close \/ DropStream
           \/ WaitTop \/ WaitCheck \/ WaitErrorChanged \/ WaitTimeout
           \/ UNCHANGED streamVars
  BY DEF WaitBegin, WaitGoto

\* Only these steps change the watch of acknowledged offsets.
LEMMA WatchFrame ==
    ASSUME [Next]_vars
    PROVE  \/ \E c \in Conns : AckPublish(c)
           \/ (\E t \in Offsets : WaitForOffset(t)) \/ Flush \/ Close \/ ApiStep \/ WaitTimeout
           \/ UNCHANGED watchVars
  BY DEF resultVars

\* Only these steps change the watch of server errors.
LEMMA ErrFrame ==
    ASSUME [Next]_vars
    PROVE  \/ SupConnect \/ SupRecover \/ SupPublishError \/ SendFail
           \/ \E c \in Conns : RecvMessage(c)
           \/ (\E t \in Offsets : WaitForOffset(t)) \/ Flush \/ Close \/ ApiStep \/ WaitTimeout
           \/ UNCHANGED errVars
  BY DEF resultVars

\* Only these steps make the cached token stale or drop it.
LEMMA TokenFrame ==
    ASSUME [Next]_vars
    PROVE  \/ \E e \in CreateErrors : SupCreateRetry(e) \/ SupCreateFail(e)
           \/ SupInvalidate
           \/ \E c \in Conns, e \in ServerErrors : RecvError(c, e)
           \/ UNCHANGED staleToken
  BY DEF resultVars

HIDE DEF Next, ClientStep, SupStep, RecvStep, RecvMessage, SendStep, CallbackStep, ApiCall, ApiStep,
        vars, waitOthers, IngestCheck, IngestOffset, IngestAdd, IngestCancel,
        SupCreateRetry, SupCreateFail, SupConnect, SupRecvEnded, SupJoinSender,
        SupSendEnded, SupDrained, SupRecover, SupPublishError, SupClose, SupInvalidate,
        FailDrain, FailFinish, RecvAck, AckOne, AckPublish, RecvCloseSignal,
        RecvPauseDeadline, RecvError, RecvTimeout, RecvDrain, SendTop, SendPoll, SendPark,
        SendCancel, SendObserve, SendRecord, SendFail, Persist, CallbackDeliver,
        CallbackExit, WaitForOffset, Flush, Close, GetUnacked, SignalShutdown, DropStream,
        WaitTop, WaitCheck, WaitOffsetChanged, WaitErrorChanged, WaitTimeout, ShutdownSup,
        ShutdownCallbacks, Returned, Terminated

------------------------------------------------------------------------------
(* Types *)

\* A client entering or leaving the state "checked" changes their number by one.
LEMMA CheckedCount ==
    ASSUME ClientTypes, NEW k \in Clients,
           NEW v \in {"idle", "checked", "adding"}, client' = [client EXCEPT ![k] = v]
    PROVE  /\ Cardinality(Checked) \in Nat /\ Cardinality(Checked)' \in Nat
           /\ client[k] # "checked" /\ v = "checked" =>
                 Cardinality(Checked)' = Cardinality(Checked) + 1
           /\ client[k] = "checked" /\ v # "checked" =>
                 Cardinality(Checked)' = Cardinality(Checked) - 1
           /\ client[k] # "checked" /\ v # "checked" =>
                 Cardinality(Checked)' = Cardinality(Checked)
  <1>1. IsFiniteSet(Checked) /\ IsFiniteSet(Checked')
    <2>1. Checked \subseteq Clients /\ Checked' \subseteq Clients
      BY DEF Checked
    <2> QED BY <2>1, StreamAssumptions, FS_Subset
  <1>2. /\ v = "checked" => Checked' = Checked \cup {k}
        /\ v # "checked" => Checked' = Checked \ {k}
    BY DEF Checked, ClientTypes
  <1>3. k \in Checked <=> client[k] = "checked"
    BY DEF Checked
  <1>4. /\ Cardinality(Checked) \in Nat /\ Cardinality(Checked') \in Nat
        /\ k \notin Checked => Cardinality(Checked \cup {k}) = Cardinality(Checked) + 1
        /\ k \in Checked => Cardinality(Checked \ {k}) = Cardinality(Checked) - 1
        /\ k \notin Checked => Checked \ {k} = Checked
    BY <1>1, FS_CardinalityType, FS_AddElement, FS_RemoveElement
  <1> QED BY <1>2, <1>3, <1>4

\* ingest_internal_v2 draws offsets one caller at a time and within the bound.
LEMMA ClientTypesStep ==
    ASSUME TypeInv, [Next]_vars
    PROVE  (ClientTypes /\ ClientInv)'
  <1> USE DEF TypeInv, TypeOK
  <1>1. ASSUME NEW k \in Clients, IngestCheck(k) PROVE (ClientTypes /\ ClientInv)'
    <2>1. /\ lastOffset' = lastOffset /\ client[k] = "idle"
          /\ client' = [client EXCEPT ![k] = "checked"]
          /\ lastOffset + Cardinality(Checked) < MaxRecords - 1
      BY <1>1 DEF IngestCheck, Checked
    <2>2. Cardinality(Checked)' = Cardinality(Checked) + 1 /\ Cardinality(Checked) \in Nat
      BY <2>1, CheckedCount
    <2>3. (lastOffset + Cardinality(Checked))' <= MaxRecords - 1
      BY <2>1, <2>2, StreamAssumptions DEF ClientTypes
    <2> QED BY <2>1, <2>3 DEF ClientTypes, ClientInv, Adding
  <1>2. ASSUME NEW k \in Clients, IngestOffset(k) PROVE (ClientTypes /\ ClientInv)'
    <2>1. /\ lastOffset' = lastOffset + 1 /\ client[k] = "checked"
          /\ client' = [client EXCEPT ![k] = "adding"]
          /\ \A j \in Clients : client[j] # "adding"
      BY <1>2 DEF IngestOffset, NextOffset
    <2>2. /\ Cardinality(Checked)' = Cardinality(Checked) - 1
          /\ Cardinality(Checked) \in Nat /\ Cardinality(Checked)' \in Nat
      BY <2>1, CheckedCount
    <2>3. /\ (lastOffset + Cardinality(Checked))' <= MaxRecords - 1
          /\ lastOffset' \in -1 .. MaxRecords - 1 /\ lastOffset' >= 0
      BY <2>1, <2>2, StreamAssumptions DEF ClientTypes, ClientInv
    <2> QED BY <2>1, <2>3 DEF ClientTypes, ClientInv, Adding
  <1>3. ASSUME NEW k \in Clients, IngestAdd(k) \/ IngestCancel(k)
        PROVE (ClientTypes /\ ClientInv)'
    <2>1. /\ lastOffset' = lastOffset /\ client[k] \in {"checked", "adding"}
          /\ client' = [client EXCEPT ![k] = "idle"]
      BY <1>3 DEF IngestAdd, IngestCancel
    <2>2. /\ \/ Cardinality(Checked)' = Cardinality(Checked)
             \/ Cardinality(Checked)' = Cardinality(Checked) - 1
          /\ Cardinality(Checked) \in Nat
      <3>1. /\ client[k] = "checked" => Cardinality(Checked)' = Cardinality(Checked) - 1
            /\ client[k] # "checked" => Cardinality(Checked)' = Cardinality(Checked)
            /\ Cardinality(Checked) \in Nat
        <4>1. client' = [client EXCEPT ![k] = "idle"] /\ ClientTypes
          BY <2>1
        <4> QED BY <4>1, CheckedCount
      <3> QED BY <3>1
    <2>3. (lastOffset + Cardinality(Checked))' <= MaxRecords - 1
      BY <2>1, <2>2, StreamAssumptions DEF ClientTypes, ClientInv
    <2> QED BY <2>1, <2>3 DEF ClientTypes, ClientInv, Adding
  <1>4. CASE UNCHANGED clientVars
    BY <1>4 DEF clientVars, ClientTypes, ClientInv, Adding, Checked
  <1> QED BY <1>1, <1>2, <1>3, <1>4, ClientFrame

\* The records stay records, and an item holds a permit as long as it is held.
LEMMA RecordTypesStep ==
    ASSUME TypeInv, [Next]_vars
    PROVE  RecordTypes' /\ (permits = LZLen)'
  <1>0. RecordTypes /\ permits = LZLen /\ ClientTypes /\ ClientInv
    BY DEF TypeInv, TypeOK, CountInv
  <1>1. ASSUME NEW k \in Clients, IngestAdd(k)
        PROVE  (queue' \in Seq(Offsets) /\ accepted' \in Seq(Offsets)
                  /\ observed' \in Seq(Offsets) /\ permits' \in 0 .. MaxInflight
                  /\ ackLog' = ackLog /\ failed' = failed /\ failing' = failing)
               /\ (permits = LZLen)'
    <2>1. lastOffset \in Offsets
      BY <1>0, <1>1, StreamAssumptions DEF IngestAdd, ClientInv, ClientTypes, Adding, Offsets
    <2> QED
      BY <1>0, <1>1, <2>1, MaxInflightAssumption, AppendProperties, LenProperties
      DEF IngestAdd, Add, RecordTypes, LZLen, resultVars, failVars, userVars, histVars
  <1>2. ASSUME SupConnect \/ SendObserve \/ FailDrain \/ GetUnacked \/ \E c \in Conns : AckOne(c)
        PROVE  queue' \in Seq(Offsets) /\ observed' \in Seq(Offsets)
               /\ permits' \in 0 .. MaxInflight /\ (permits = LZLen)'
    <2>1. CASE SupConnect
      BY <1>0, <2>1, ConcatProperties, LenProperties
      DEF SupConnect, ResetObserve, RecordTypes, LZLen
    <2>2. CASE SendObserve
      BY <1>0, <2>2, HeadTailProperties, AppendProperties, LenProperties
      DEF SendObserve, Observe, RecordTypes, LZLen
    <2>3. CASE FailDrain \/ GetUnacked
      <3>1. queue' = <<>> /\ observed' = <<>> /\ permits' = 0
        BY <2>3 DEF FailDrain, GetUnacked, RemoveAll
      <3> QED BY <3>1, MaxInflightAssumption, EmptySeq DEF LZLen
    <2>4. ASSUME NEW c \in Conns, AckOne(c)
          PROVE  queue' \in Seq(Offsets) /\ observed' \in Seq(Offsets)
                 /\ permits' \in 0 .. MaxInflight /\ (permits = LZLen)'
      <3>1. CASE UNCHANGED lzVars
        BY <1>0, <3>1 DEF lzVars, RecordTypes, LZLen
      <3>2. CASE RemoveObserved
        <4>1. /\ observed # <<>> /\ observed' = Tail(observed) /\ queue' = queue
              /\ permits' = permits - 1
          BY <3>2 DEF RemoveObserved
        <4>2. Tail(observed) \in Seq(Offsets) /\ Len(Tail(observed)) = Len(observed) - 1
          BY <1>0, <4>1, HeadTailProperties DEF RecordTypes
        <4>3. Len(observed) \in Nat \ {0} /\ Len(queue) \in Nat
          BY <1>0, <4>1, EmptySeq, LenProperties DEF RecordTypes
        <4> QED
          BY <1>0, <4>1, <4>2, <4>3, MaxInflightAssumption DEF RecordTypes, LZLen
      <3> QED BY <2>4, <3>1, <3>2 DEF AckOne
    <2> QED BY <1>2, <2>1, <2>2, <2>3, <2>4
  <1>3. (queue \in Seq(Offsets) /\ observed \in Seq(Offsets) /\ permits \in 0 .. MaxInflight)'
        /\ (permits = LZLen)'
    <2>1. CASE UNCHANGED lzVars
      BY <1>0, <2>1 DEF lzVars, RecordTypes, LZLen
    <2> QED BY <1>1, <1>2, <2>1, ZoneFrame
  <1>4. (failed \in Seq(Offsets) /\ failing \in Seq(Offsets))'
    <2>1. CASE FailDrain \/ FailFinish \/ GetUnacked
      <3>1. /\ failed' \in {failed, failed \o failing, failed \o (observed \o queue)}
            /\ failing' \in {failing, observed \o queue, <<>>}
        BY <2>1 DEF FailDrain, FailFinish, GetUnacked, AllItems
      <3>2. /\ observed \o queue \in Seq(Offsets) /\ failed \o failing \in Seq(Offsets)
            /\ <<>> \in Seq(Offsets)
        BY <1>0, ConcatProperties, EmptySeq DEF RecordTypes
      <3>3. failed \o (observed \o queue) \in Seq(Offsets)
        BY <1>0, <3>2, ConcatProperties DEF RecordTypes
      <3> QED BY <1>0, <3>1, <3>2, <3>3 DEF RecordTypes
    <2>2. CASE UNCHANGED failVars
      BY <1>0, <2>2 DEF failVars, RecordTypes
    <2> QED BY <2>1, <2>2, FailFrame
  <1>5. (accepted \in Seq(Offsets))'
    <2>1. CASE UNCHANGED accepted
      BY <1>0, <2>1 DEF RecordTypes
    <2>2. UNCHANGED accepted \/ \E k \in Clients : IngestAdd(k)
      BY ClientFrame DEF IngestCheck, IngestOffset, IngestCancel, clientVars
    <2> QED BY <2>1, <2>2, <1>1
  <1>6. (ackLog \in Seq(Offsets))'
    <2>1. ASSUME NEW c \in Conns, AckOne(c) PROVE ackLog' \in Seq(Offsets)
      <3>1. CASE UNCHANGED ackLog
        BY <1>0, <3>1 DEF RecordTypes
      <3>2. CASE observed # <<>> /\ ackLog' = Append(ackLog, Head(observed))
        BY <1>0, <3>2, HeadTailProperties, AppendProperties DEF RecordTypes
      <3> QED BY <2>1, <3>1, <3>2 DEF AckOne, RemoveObserved
    <2> QED BY <1>0, <2>1, AckFrame DEF RecordTypes
  <1> QED BY <1>3, <1>4, <1>5, <1>6 DEF RecordTypes

\* What the calls of the api do to the two watches and to their own variables.
LEMMA ApiEffect ==
    ASSUME (\E t \in Offsets : WaitForOffset(t)) \/ Flush \/ Close \/ ApiStep \/ WaitTimeout
    PROVE  /\ lastReceived' = lastReceived /\ serverErr' = serverErr /\ errSent' = errSent
           /\ \/ recvFresh' = recvFresh \/ recvFresh' = FALSE
           /\ \/ errFresh' = errFresh \/ errFresh' = FALSE \/ errFresh' = errSent
  BY DEF WaitForOffset, Flush, Close, ApiStep, WaitTop, WaitCheck, WaitOffsetChanged,
         WaitErrorChanged, WaitTimeout, ShutdownSup, ShutdownCallbacks, Returned, WaitBegin,
         WaitGoto, WaitReturn, waitOthers, watchVars, errVars, resultVars

\* is_closed, the cancellation token, the two watches and the token.
LEMMA StateTypesStep ==
    ASSUME TypeInv, [Next]_vars
    PROVE  StateTypes'
  <1>0. StateTypes /\ RecvTypes /\ SupTypes /\ ServerErrors \subseteq Errors
    BY StreamAssumptions DEF TypeInv, TypeOK, Errors
  <1>1. isClosed' \in BOOLEAN /\ cancelled' \in BOOLEAN
    <2>1. isClosed' \in {isClosed, TRUE} /\ cancelled' \in {cancelled, TRUE}
      BY StreamFrame
      DEF SupCreateFail, SupClose, SignalShutdown, Close, DropStream, WaitTop, WaitCheck,
          WaitErrorChanged, WaitTimeout, streamVars, WaitReturn, WaitGoto, WaitBegin, BeginShutdown
    <2> QED BY <1>0, <2>1 DEF StateTypes
  <1>2. staleToken' \in BOOLEAN
    BY <1>0, TokenFrame
    DEF StateTypes, SupCreateRetry, SupCreateFail, SupInvalidate, RecvError, TokenAfterReject
  <1>3. lastReceived' \in -1 .. MaxRecords - 1 /\ recvFresh' \in BOOLEAN
    <2>1. ASSUME NEW c \in Conns, AckPublish(c)
          PROVE  lastReceived' \in -1 .. MaxRecords - 1 /\ recvFresh' \in BOOLEAN
      <3>1. logical[c] # -2 => logical[c] \in -1 .. MaxRecords - 1
        BY <1>0 DEF RecvTypes, Offsets
      <3>2. (\E o \in -1 .. MaxRecords - 1 : Received(o)) \/ UNCHANGED watchVars
        BY <2>1, <3>1 DEF AckPublish
      <3>3. Subscribed \in BOOLEAN
        BY DEF Subscribed
      <3>4. CASE \E o \in -1 .. MaxRecords - 1 : Received(o)
        BY <3>3, <3>4 DEF Received
      <3>5. CASE UNCHANGED watchVars
        BY <1>0, <3>5 DEF StateTypes, watchVars
      <3> QED BY <3>2, <3>4, <3>5
    <2>2. CASE UNCHANGED watchVars
      BY <1>0, <2>2 DEF watchVars, StateTypes
    <2> QED BY <1>0, <2>1, <2>2, ApiEffect, WatchFrame DEF StateTypes
  <1>4. serverErr' \in Errors \cup {"none"} /\ errFresh' \in BOOLEAN /\ errSent' \in BOOLEAN
    <2>1. CASE \E e \in Errors \cup {"none"} : SendErr(e)
      BY <2>1 DEF SendErr, Subscribed
    <2>2. CASE UNCHANGED errVars
      BY <1>0, <2>2 DEF errVars, StateTypes
    <2>3. CASE SupConnect \/ SupRecover \/ SupPublishError \/ SendFail
      <3>1. UNCHANGED errVars \/ \E e \in Errors \cup {"none"} : SendErr(e)
        BY <1>0, <2>3 DEF SupConnect, SupRecover, SupPublishError, SendFail, SupTypes, Errors
      <3> QED BY <2>1, <2>2, <3>1
    <2>4. ASSUME NEW c \in Conns, RecvMessage(c)
          PROVE  UNCHANGED errVars \/ \E e \in Errors \cup {"none"} : SendErr(e)
      BY <1>0, <2>4
      DEF RecvMessage, RecvAck, RecvCloseSignal, RecvPauseDeadline, RecvTimeout, RecvError,
          resultVars, Errors
    <2> QED BY <1>0, <2>1, <2>2, <2>3, <2>4, ApiEffect, ErrFrame DEF StateTypes
  <1> QED BY <1>1, <1>2, <1>3, <1>4 DEF StateTypes

\* The supervisor's own state; RetryIf counts the attempts of a round.
LEMMA SupTypesStep ==
    ASSUME TypeInv, [Next]_vars
    PROVE  SupTypes'
  <1>0. /\ SupTypes /\ ServerErrors \subseteq Errors
        /\ recvRes \in Errors \cup {"ok"} /\ sendRes \in Errors \cup {"ok"}
        /\ MaxConns \in Nat /\ Retries \in Nat
    BY StreamAssumptions DEF TypeInv, TypeOK, Errors, RecvTypes, SendTypes
  <1>1. CASE SupStep
    <2>1. ASSUME NEW e \in CreateErrors, SupCreateRetry(e) \/ SupCreateFail(e) PROVE SupTypes'
      <3>1. CASE SupCreateRetry(e)
        <4>1. attempts < Retries /\ attempts' = attempts + 1
          BY <3>1 DEF SupCreateRetry, ShouldRetry
        <4>2. attempts' \in 0 .. Retries
          BY <1>0, <4>1 DEF SupTypes
        <4>3. authRetry' \in BOOLEAN
          BY <3>1 DEF SupCreateRetry
        <4> QED BY <1>0, <3>1, <4>2, <4>3 DEF SupCreateRetry, SupTypes
      <3>2. CASE SupCreateFail(e)
        BY <1>0, <3>2 DEF SupCreateFail, SupTypes, CreateErrors
      <3> QED BY <2>1, <3>1, <3>2
    <2>2. CASE SupConnect
      <3>1. conn' \in 0 .. MaxConns /\ attempts' \in 0 .. Retries
        BY <1>0, <2>2 DEF SupConnect, SupTypes
      <3> QED BY <1>0, <2>2, <3>1 DEF SupConnect, SupTypes
    <2>3. CASE SupRecvEnded \/ SupJoinSender \/ SupSendEnded \/ SupDrained
      BY <1>0, <2>3 DEF SupRecvEnded, SupJoinSender, SupSendEnded, SupDrained, SupTypes
    <2>4. CASE SupRecover \/ SupPublishError \/ SupClose \/ SupInvalidate
      BY <1>0, <2>4 DEF SupRecover, SupPublishError, SupClose, SupInvalidate, SupTypes
    <2>5. CASE FailDrain \/ FailFinish
      BY <1>0, <2>5 DEF FailDrain, FailFinish, SupTypes
    <2> QED BY <1>1, <2>1, <2>2, <2>3, <2>4, <2>5 DEF SupStep
  <1>2. CASE ShutdownSup \/ DropStream
    BY <1>0, <1>2 DEF ShutdownSup, DropStream, AbortSup, SupTypes
  <1>3. CASE UNCHANGED supVars
    BY <1>0, <1>3 DEF supVars, SupTypes
  <1> QED BY <1>1, <1>2, <1>3, SupFrame

\* The receivers' types, and their loop.
LEMMA RecvTypesStep ==
    ASSUME TypeInv, [Next]_vars
    PROVE  RecvTypes' /\ LoopInv'
  <1>0. /\ LoopTypes /\ LoopInv /\ ServerErrors \subseteq Errors /\ MaxRecords \in Nat
        /\ recvRes \in Errors \cup {"ok"} /\ paused \in BOOLEAN /\ drain \in BOOLEAN
        /\ observed \in Seq(Offsets) /\ "retryable" \in Errors
    BY StreamAssumptions
    DEF TypeInv, TypeOK, RecvTypes, LoopTypes, LoopInv, CountInv, Errors, RecordTypes
  <1>1. ASSUME NEW c, RecvEnd(c) PROVE LoopTypes' /\ LoopInv'
    BY <1>0, <1>1 DEF RecvEnd, LoopTypes, LoopInv
  <1>2. ASSUME NEW c, NEW b, RecvLoopTop(c, b) PROVE LoopTypes' /\ LoopInv'
    <2>1. CASE RecvEnd(c)
      BY <1>1, <2>1
    <2>2. CASE ~RecvEnd(c)
      BY <1>0, <1>2, <2>2 DEF RecvLoopTop, RecvReturn, LoopTypes, LoopInv
    <2> QED BY <2>1, <2>2
  <1>3. ASSUME AbortRecv PROVE LoopTypes' /\ LoopInv'
    <2>1. CASE RecvEnd(conn)
      BY <1>0, <2>1 DEF RecvEnd, LoopTypes, LoopInv
    <2>2. CASE ~RecvEnd(conn)
      BY <1>0, <1>3, <2>2 DEF AbortRecv, LoopTypes, LoopInv
    <2> QED BY <2>1, <2>2
  <1>4. ASSUME NEW c \in Conns, NEW v \in Offsets, RecvAck(c, v) PROVE LoopTypes' /\ LoopInv'
    <2>1. v \in Int /\ lastAcked[c] \in Int /\ lastAcked[c] <= v
      BY <1>0, <1>4 DEF RecvAck, LoopTypes, Offsets
    <2> QED BY <1>0, <1>4, <2>1 DEF RecvAck, LoopTypes, LoopInv
  <1>5. ASSUME NEW c \in Conns, AckOne(c) PROVE LoopTypes' /\ LoopInv'
    <2>1. /\ lastAcked[c] \in Int /\ ackTo[c] \in Int /\ lastAcked[c] < ackTo[c]
          /\ lastAcked[c] + 1 \in Offsets
      BY <1>0, <1>5 DEF AckOne, LoopTypes, LoopInv, Offsets
    <2>2. /\ lastAcked' = [lastAcked EXCEPT ![c] = lastAcked[c] + 1]
          /\ recv' = [recv EXCEPT ![c] = IF lastAcked[c] + 1 = ackTo[c] THEN "publish" ELSE recv[c]]
          /\ ackTo' = ackTo /\ aborted' = aborted
      BY <1>5 DEF AckOne
    <2>3. logical' \in [Conns -> Offsets \cup {-2}]
      <3>1. observed # <<>> => Head(observed) \in Offsets
        BY <1>0, HeadTailProperties
      <3> QED BY <1>0, <1>5, <3>1 DEF AckOne, RemoveObserved, LoopTypes
    <2>4. LoopTypes'
      BY <1>0, <2>1, <2>2, <2>3 DEF LoopTypes
    <2>5. LoopInv'
      BY <1>0, <2>1, <2>2 DEF LoopInv, LoopTypes
    <2> QED BY <2>4, <2>5
  <1>6. ASSUME SupConnect PROVE LoopTypes' /\ LoopInv'
    <2>1. recv' = [recv EXCEPT ![conn + 1] = "await"] /\ UNCHANGED recvLocals
      BY <1>6 DEF SupConnect
    <2> QED BY <1>0, <2>1 DEF LoopTypes, LoopInv, recvLocals
  <1>7. ASSUME UNCHANGED <<recv, recvLocals>> PROVE LoopTypes' /\ LoopInv'
    BY <1>0, <1>7 DEF LoopTypes, LoopInv, recvLocals
  <1>8. LoopTypes' /\ LoopInv'
    <2>1. CASE SupRecvEnded \/ SupSendEnded \/ SupDrained \/ UNCHANGED recvVars
      <3>1. AbortRecv \/ UNCHANGED <<recv, recvLocals>>
        BY <2>1 DEF SupRecvEnded, SupSendEnded, SupDrained, recvVars
      <3> QED BY <1>3, <1>7, <3>1
    <2>2. ASSUME NEW c \in Conns, RecvStep(c) \/ RecvMessage(c) PROVE LoopTypes' /\ LoopInv'
      BY <1>1, <1>2, <1>4, <1>5, <2>2
      DEF RecvStep, RecvMessage, AckPublish, RecvDrain, RecvCloseSignal, RecvPauseDeadline,
          RecvTimeout, RecvError, RecvReturn
    <2>3. CASE SupConnect
      BY <1>6, <2>3
    <2> QED BY <2>1, <2>2, <2>3, RecvFrame
  <1>9. recvRes' \in Errors \cup {"ok"} /\ paused' \in BOOLEAN /\ drain' \in BOOLEAN
    <2>1. CASE SupConnect \/ SupRecvEnded \/ SupSendEnded \/ SupDrained \/ UNCHANGED recvVars
      BY <1>0, <2>1 DEF SupConnect, SupRecvEnded, SupSendEnded, SupDrained, recvVars
    <2>2. ASSUME NEW c \in Conns, RecvStep(c) \/ RecvMessage(c)
          PROVE  recvRes' \in Errors \cup {"ok"} /\ paused' \in BOOLEAN /\ drain' \in BOOLEAN
      BY <1>0, <2>2
      DEF RecvStep, RecvMessage, RecvAck, AckOne, AckPublish, RecvDrain, RecvCloseSignal,
          RecvPauseDeadline, RecvTimeout, RecvError, RecvReturn, RecvLoopTop
    <2> QED BY <2>1, <2>2, RecvFrame
  <1> QED BY <1>8, <1>9 DEF RecvTypes, LoopTypes

\* The sender and the server it sends to: a record in hand is a record.
LEMMA SendTypesStep ==
    ASSUME TypeInv, [Next]_vars
    PROVE  SendTypes'
  <1>0. /\ SendTypes /\ queue \in Seq(Offsets) /\ "retryable" \in Errors
        /\ Len(wire) \in Nat /\ persisted \in Nat /\ persisted <= Len(wire)
    BY LenProperties DEF TypeInv, TypeOK, RecordTypes, SendTypes, Errors
  <1>1. /\ send' \in {"none", "top", "polled", "observe", "pending", "sending", "done"}
        /\ inHand' \in Offsets \cup {-1} /\ (send' = "sending" => inHand' \in Offsets)
        /\ sendRes' \in Errors \cup {"ok"} /\ streamCancelled' \in BOOLEAN
    <2>1. CASE SupConnect \/ SupRecvEnded \/ SupJoinSender \/ SupSendEnded
      BY <1>0, <2>1 DEF SupConnect, SupRecvEnded, SupJoinSender, SupSendEnded, SendEnd, SendTypes
    <2>2. CASE SendTop \/ SendPoll \/ SendPark \/ SendCancel \/ SendRecord \/ SendFail
      BY <1>0, <2>2
      DEF SendTop, SendPoll, SendPark, SendCancel, SendRecord, SendFail, SendEnd, SendTypes
    <2>3. CASE SendObserve
      <3>1. Head(queue) \in Offsets
        BY <1>0, <2>3, HeadTailProperties DEF SendObserve, Observe
      <3> QED BY <1>0, <2>3, <3>1 DEF SendObserve, SendTypes
    <2>4. CASE UNCHANGED sendVars
      BY <1>0, <2>4 DEF sendVars, SendTypes
    <2> QED BY <2>1, <2>2, <2>3, <2>4, SendFrame DEF SendStep
  <1>2. (wire \in Seq(Offsets) /\ persisted \in 0 .. Len(wire) /\ durable \subseteq Offsets)'
    <2>1. CASE SupConnect
      <3>1. wire' = <<>> /\ persisted' = 0 /\ durable' = durable
        BY <2>1 DEF SupConnect
      <3> QED BY <1>0, <3>1, EmptySeq DEF SendTypes
    <2>2. CASE SendRecord
      <3>1. wire' = Append(wire, inHand) /\ inHand \in Offsets
        BY <1>0, <2>2 DEF SendRecord, SendTypes
      <3>2. wire' \in Seq(Offsets) /\ Len(wire') = Len(wire) + 1
        BY <1>0, <3>1, AppendProperties DEF SendTypes
      <3> QED BY <1>0, <2>2, <3>2 DEF SendRecord, SendTypes
    <2>3. CASE Persist
      <3>1. wire[persisted + 1] \in Offsets /\ persisted + 1 \in 0 .. Len(wire)
        BY <1>0, <2>3, ElementOfSeq DEF Persist, SendTypes
      <3> QED BY <1>0, <2>3, <3>1 DEF Persist, SendTypes
    <2>4. CASE UNCHANGED netVars
      BY <1>0, <2>4 DEF netVars, SendTypes
    <2> QED BY <2>1, <2>2, <2>3, <2>4, NetFrame
  <1> QED BY <1>1, <1>2 DEF SendTypes

\* A message for the callback handler: the kind of callback and the record.
Message == {"ack", "error"} \X Offsets

\* The error callbacks of fail_all_pending_records.
Failures == [i \in 1 .. Len(failing) |-> <<"error", failing[i]>>]

\* The failures handed to the callbacks are messages, one for each record that failed.
LEMMA FailuresAreMessages ==
    ASSUME failing \in Seq(Offsets)
    PROVE  /\ Failures \in Seq(Message) /\ Len(Failures) = Len(failing)
           /\ \A i \in 1 .. Len(failing) : Failures[i] = <<"error", failing[i]>>
  <1>1. Len(failing) \in Nat /\ \A i \in 1 .. Len(failing) : failing[i] \in Offsets
    BY LenProperties, ElementOfSeq
  <1>2. \A i \in 1 .. Len(failing) : <<"error", failing[i]>> \in Message
    BY <1>1 DEF Message
  <1>3. Failures \in Seq(Message)
    BY <1>1, <1>2, IsASeq DEF Failures
  <1> QED BY <1>1, <1>3 DEF Failures

\* What a step does to the callback queue: nothing, deliver its head, or add.
LEMMA CallbackEffect ==
    ASSUME TypeInv, [Next]_vars
    PROVE  \/ cbQueue' = cbQueue /\ cbLog' = cbLog
           \/ /\ cbQueue # <<>> /\ cbQueue' = Tail(cbQueue)
              /\ cbLog' = Append(cbLog, Head(cbQueue))
           \/ \E m \in Seq(Message) : cbQueue' = cbQueue \o m /\ cbLog' = cbLog
  <1>0. RecordTypes
    BY DEF TypeInv, TypeOK
  <1>1. CASE FailFinish
    <2>1. Failures \in Seq(Message) /\ Callbacks(Failures)
      BY <1>0, <1>1, FailuresAreMessages DEF RecordTypes, FailFinish, Failures
    <2> QED BY <2>1 DEF Callbacks
  <1>2. ASSUME NEW c \in Conns, AckOne(c), cbQueue' # cbQueue
        PROVE  \E m \in Seq(Message) : cbQueue' = cbQueue \o m /\ cbLog' = cbLog
    <2>1. /\ observed # <<>> /\ Callbacks(<< <<"ack", Head(observed)>> >>)
      BY <1>2 DEF AckOne, RemoveObserved, cbVars
    <2>2. << <<"ack", Head(observed)>> >> \in Seq(Message)
      BY <1>0, <2>1, HeadTailProperties DEF RecordTypes, Message
    <2> QED BY <1>2, <2>1, <2>2 DEF Callbacks
  <1>3. ASSUME NEW c \in Conns, AckOne(c) PROVE cbLog' = cbLog
    BY <1>3 DEF AckOne, Callbacks, cbVars
  <1>4. CASE CallbackStep \/ ShutdownCallbacks \/ DropStream
    BY <1>4 DEF CallbackStep, CallbackDeliver, CallbackExit, ShutdownCallbacks, DropStream
  <1>5. CASE UNCHANGED cbVars
    BY <1>5 DEF cbVars
  <1> QED BY <1>1, <1>2, <1>3, <1>4, <1>5, CallbackFrame

\* Callbacks and the api caller.
LEMMA UserTypesStep ==
    ASSUME TypeInv, [Next]_vars
    PROVE  UserTypes'
  <1>0. UserTypes /\ lastOffset \in -1 .. MaxRecords - 1 /\ MaxRecords \in Nat
    BY StreamAssumptions DEF TypeInv, TypeOK, ClientTypes
  <1>1. cb' \in {"none", "run", "done"} /\ cbAborted' \in BOOLEAN
    <2>1. ASSUME NEW c \in Conns, AckOne(c) PROVE cb' = cb /\ cbAborted' = cbAborted
      BY <2>1 DEF AckOne, Callbacks, cbVars
    <2>2. CASE FailFinish \/ CallbackStep \/ ShutdownCallbacks \/ DropStream \/ UNCHANGED cbVars
      BY <1>0, <2>2
      DEF UserTypes, FailFinish, Callbacks, CallbackStep, CallbackDeliver, CallbackExit,
          ShutdownCallbacks, DropStream, cbVars
    <2> QED BY <1>0, <2>1, <2>2, CallbackFrame DEF UserTypes
  <1>2. cbQueue' \in Seq(Message) /\ cbLog' \in Seq(Message)
    <2>1. cbQueue \in Seq(Message) /\ cbLog \in Seq(Message)
      BY <1>0 DEF UserTypes, Message
    <2>2. ASSUME NEW m \in Seq(Message) PROVE cbQueue \o m \in Seq(Message)
      BY <2>1, ConcatProperties
    <2>3. ASSUME cbQueue # <<>>
          PROVE  Tail(cbQueue) \in Seq(Message) /\ Append(cbLog, Head(cbQueue)) \in Seq(Message)
      BY <2>1, <2>3, HeadTailProperties, AppendProperties
    <2> QED BY <2>1, <2>2, <2>3, CallbackEffect
  <1>3. /\ api' \in {"idle", "top", "check", "parked", "shutdown", "callbacks", "returned", "gone"}
        /\ apiOp' \in {"none", "wait", "flush", "close"} /\ apiTarget' \in Offsets \cup {-1}
        /\ apiRes' \in {"none", "ok", "okAlreadyClosed", "errServer", "errClosed", "errTimeout"}
    <2>1. lastOffset # -1 => lastOffset \in Offsets
      BY <1>0 DEF Offsets
    <2>2. CASE (\E t \in Offsets : WaitForOffset(t)) \/ Flush \/ Close \/ DropStream
      BY <1>0, <2>1, <2>2
      DEF UserTypes, WaitForOffset, Flush, Close, DropStream, WaitBegin, BeginShutdown
    <2>3. CASE ApiStep \/ WaitTimeout
      BY <1>0, <2>3
      DEF UserTypes, ApiStep, WaitTop, WaitCheck, WaitOffsetChanged, WaitErrorChanged,
          WaitTimeout, ShutdownSup, ShutdownCallbacks, Returned, WaitGoto, WaitReturn,
          BeginShutdown
    <2>4. CASE UNCHANGED apiVars
      BY <1>0, <2>4 DEF UserTypes, apiVars
    <2> QED BY <2>2, <2>3, <2>4, ApiFrame
  <1> QED BY <1>1, <1>2, <1>3 DEF UserTypes, Message

\* The types hold at the start.
LEMMA TypeInit == Init => TypeInv
  <1> SUFFICES ASSUME Init PROVE TypeInv
    OBVIOUS
  <1>1. /\ ClientTypes /\ ClientInv
    <2>1. Checked = {} /\ ~Adding
      BY DEF Init, Checked, Adding
    <2> QED BY <2>1, StreamAssumptions, FS_EmptySet DEF Init, ClientTypes, ClientInv, Adding
  <1>2. RecordTypes /\ permits = LZLen
    BY MaxInflightAssumption, EmptySeq DEF Init, LZInit, RecordTypes, LZLen
  <1>3. StateTypes /\ SupTypes
    <2>1. authRetry \in BOOLEAN
      BY DEF Init
    <2>2. lastReceived \in -1 .. MaxRecords - 1 /\ conn \in 0 .. MaxConns
          /\ attempts \in 0 .. Retries
      BY StreamAssumptions DEF Init
    <2> QED BY <2>1, <2>2 DEF Init, StateTypes, SupTypes
  <1>4. RecvTypes /\ LoopInv
    BY DEF Init, RecvTypes, LoopInv
  <1>5. SendTypes
    <2>1. wire = <<>> /\ persisted = 0
      BY DEF Init
    <2>2. wire \in Seq(Offsets) /\ persisted \in 0 .. Len(wire)
      BY <2>1, EmptySeq
    <2> QED BY <2>2 DEF Init, SendTypes
  <1>6. UserTypes
    BY EmptySeq DEF Init, UserTypes
  <1> QED BY <1>1, <1>2, <1>3, <1>4, <1>5, <1>6 DEF TypeInv, TypeOK, CountInv

\* A step preserves the types.
LEMMA TypeStep == TypeInv /\ [Next]_vars => TypeInv'
  <1> SUFFICES ASSUME TypeInv, [Next]_vars PROVE TypeInv'
    OBVIOUS
  <1> QED
    BY ClientTypesStep, RecordTypesStep, StateTypesStep, SupTypesStep, RecvTypesStep,
       SendTypesStep, UserTypesStep DEF TypeInv, TypeOK, CountInv

\* Every variable of a stream keeps its type: the landing zone never holds more
\* than max_inflight_requests, a record in the sender's hands is one, and the
\* receiver's loop never runs past the offset it acknowledges.
THEOREM StreamTypeCorrect == Spec => []TypeOK
  <1>1. Spec => []TypeInv
    BY TypeInit, TypeStep, PTL DEF Spec
  <1>2. TypeInv => TypeOK
    BY DEF TypeInv
  <1> QED BY <1>1, <1>2, PTL

------------------------------------------------------------------------------
(* Records *)

\* All the steps that move a record between its places, and what they do to them:
\* an ingest call adds one, an acknowledgement takes the oldest pending one, and
\* the pending ones are drained into the hands of fail_all_pending_records or of
\* get_unacked_batches.  Neither the sender nor a reconnect disturbs their order.
LEMMA RecordFlow ==
    ASSUME TypeInv, [Next]_vars
    PROVE  \/ /\ \E k \in Clients : IngestAdd(k)
              /\ lastOffset \in Offsets
              /\ AllItems' = Append(AllItems, lastOffset)
              /\ accepted' = Append(accepted, lastOffset)
              /\ UNCHANGED <<ackLog, failed, failing>>
           \/ /\ \E c \in Conns : AckOne(c)
              /\ observed # <<>> /\ AllItems # <<>> /\ Head(observed) = Head(AllItems)
              /\ AllItems' = Tail(AllItems)
              /\ ackLog' = Append(ackLog, Head(AllItems))
              /\ UNCHANGED <<accepted, failed, failing>>
           \/ /\ FailDrain
              /\ AllItems' = <<>> /\ failing' = AllItems
              /\ UNCHANGED <<accepted, ackLog, failed>>
           \/ /\ FailFinish
              /\ failed' = failed \o failing /\ failing' = <<>>
              /\ AllItems' = AllItems /\ UNCHANGED <<accepted, ackLog>>
           \/ /\ GetUnacked
              /\ AllItems' = <<>> /\ failed' = failed \o AllItems
              /\ UNCHANGED <<accepted, ackLog, failing>>
           \/ AllItems' = AllItems /\ UNCHANGED <<accepted, ackLog, failed, failing>>
  <1>0. RecordTypes /\ ClientTypes /\ ClientInv /\ MaxRecords \in Nat
    BY StreamAssumptions DEF TypeInv, TypeOK
  <1>1. ASSUME NEW k \in Clients, IngestAdd(k)
        PROVE  /\ lastOffset \in Offsets
               /\ AllItems' = Append(AllItems, lastOffset)
               /\ accepted' = Append(accepted, lastOffset)
               /\ UNCHANGED <<ackLog, failed, failing>>
    <2>1. lastOffset \in Offsets
      BY <1>0, <1>1 DEF IngestAdd, ClientInv, ClientTypes, Adding, Offsets
    <2>2. observed \o Append(queue, lastOffset) = Append(observed \o queue, lastOffset)
      <3>1. observed \in Seq(Offsets) /\ queue \in Seq(Offsets)
        BY <1>0 DEF RecordTypes
      <3> QED BY <2>1, <3>1, AppendRight
    <2>3. observed' = observed /\ queue' = Append(queue, lastOffset)
      BY <1>1 DEF IngestAdd, Add
    <2>4. AllItems' = Append(AllItems, lastOffset)
      BY <2>2, <2>3, Zenon DEF AllItems
    <2> QED BY <1>1, <2>1, <2>4 DEF IngestAdd, resultVars, failVars, userVars, histVars
  <1>2. ASSUME NEW c \in Conns, AckOne(c), observed # <<>>
        PROVE  /\ AllItems # <<>> /\ Head(observed) = Head(AllItems)
               /\ AllItems' = Tail(AllItems)
               /\ ackLog' = Append(ackLog, Head(AllItems))
               /\ UNCHANGED <<accepted, failed, failing>>
    <2>1. /\ observed \o queue # <<>> /\ Head(observed \o queue) = Head(observed)
          /\ Tail(observed \o queue) = Tail(observed) \o queue
      BY <1>0, <1>2, HeadConcat, Zenon DEF RecordTypes
    <2>2. /\ observed' = Tail(observed) /\ queue' = queue
          /\ ackLog' = Append(ackLog, Head(observed))
          /\ UNCHANGED <<accepted, failed, failing>>
      BY <1>2 DEF AckOne, RemoveObserved, IsObservedEmpty, clientVars, resultVars, failVars
    <2> QED BY <2>1, <2>2, Zenon DEF AllItems
  <1>3. ASSUME NEW c \in Conns, AckOne(c), observed = <<>>
        PROVE  AllItems' = AllItems /\ UNCHANGED <<accepted, ackLog, failed, failing>>
    BY <1>3 DEF AckOne, RemoveObserved, lzVars, AllItems, clientVars, resultVars, failVars
  <1>4. ASSUME SupConnect
        PROVE  AllItems' = AllItems /\ UNCHANGED <<accepted, ackLog, failed, failing>>
    <2>1. observed \o queue \in Seq(Offsets)
      BY <1>0, ConcatProperties DEF RecordTypes
    <2>2. <<>> \o (observed \o queue) = observed \o queue
      BY <2>1, ConcatEmptySeq
    <2>3. observed' = <<>> /\ queue' = observed \o queue
      BY <1>4 DEF SupConnect, ResetObserve
    <2>4. AllItems' = AllItems
      BY <2>2, <2>3 DEF AllItems
    <2> QED BY <1>4, <2>4 DEF SupConnect, clientVars, failVars, userVars, histVars
  <1>5. ASSUME SendObserve
        PROVE  AllItems' = AllItems /\ UNCHANGED <<accepted, ackLog, failed, failing>>
    <2>1. Append(observed, Head(queue)) \o Tail(queue) = observed \o queue
      BY <1>0, <1>5, MoveHead, Zenon DEF RecordTypes, SendObserve, Observe
    <2>2. observed' = Append(observed, Head(queue)) /\ queue' = Tail(queue)
      BY <1>5 DEF SendObserve, Observe
    <2>3. AllItems' = AllItems
      BY <2>1, <2>2, Zenon DEF AllItems
    <2> QED BY <1>5, <2>3 DEF SendObserve, clientVars, resultVars, failVars, userVars, histVars
  <1>6. ASSUME FailDrain \/ GetUnacked
        PROVE  AllItems' = <<>> /\ UNCHANGED <<accepted, ackLog>>
    <2>1. observed' = <<>> /\ queue' = <<>>
      BY <1>6 DEF FailDrain, GetUnacked, RemoveAll
    <2>2. AllItems' = <<>>
      BY <2>1, EmptySeq, ConcatEmptySeq DEF AllItems
    <2> QED BY <1>6, <2>2 DEF FailDrain, GetUnacked, clientVars, userVars, histVars
  <1>7. CASE UNCHANGED lzVars
    <2>0. AllItems' = AllItems
      BY <1>7 DEF lzVars, AllItems
    <2>1. ASSUME FailFinish
          PROVE  failed' = failed \o failing /\ failing' = <<>> /\ UNCHANGED <<accepted, ackLog>>
      BY <2>1 DEF FailFinish, clientVars, histVars
    <2>2. accepted' = accepted \/ \E k \in Clients : IngestAdd(k)
      BY ClientFrame DEF IngestCheck, IngestOffset, IngestCancel, clientVars
    <2>3. ackLog' = ackLog \/ \E c \in Conns : AckOne(c)
      BY AckFrame
    <2>4. FailDrain \/ FailFinish \/ GetUnacked \/ UNCHANGED <<failed, failing>>
      BY FailFrame DEF failVars
    <2>5. FailDrain => failing' = AllItems /\ failed' = failed
      BY DEF FailDrain
    <2>6. GetUnacked => failed' = failed \o AllItems /\ failing' = failing
      BY DEF GetUnacked
    <2> QED
      BY <1>1, <1>2, <1>3, <1>6, <2>0, <2>1, <2>2, <2>3, <2>4, <2>5, <2>6
  <1>8. FailDrain => failing' = AllItems /\ failed' = failed
    BY DEF FailDrain
  <1>9. GetUnacked => failed' = failed \o AllItems /\ failing' = failing
    BY DEF GetUnacked
  <1> QED BY <1>1, <1>2, <1>3, <1>4, <1>5, <1>6, <1>7, <1>8, <1>9, ZoneFrame

\* Four sequences that repeat nothing and share nothing.
Distinct(a, b, c, d) ==
    /\ IsInjective(a) /\ IsInjective(b) /\ IsInjective(c) /\ IsInjective(d)
    /\ ToSet(a) \cap ToSet(b) = {} /\ ToSet(a) \cap ToSet(c) = {} /\ ToSet(a) \cap ToSet(d) = {}
    /\ ToSet(b) \cap ToSet(c) = {} /\ ToSet(b) \cap ToSet(d) = {} /\ ToSet(c) \cap ToSet(d) = {}

\* A record is in one place if the four places are distinct.
LEMMA HeldParts ==
    ASSUME NEW a \in Seq(Offsets), NEW o \in Seq(Offsets), NEW q \in Seq(Offsets),
           NEW f \in Seq(Offsets), NEW g \in Seq(Offsets)
    PROVE  /\ IsInjective(a \o o \o q \o f \o g) <=> Distinct(a, o \o q, f, g)
           /\ ToSet(a \o o \o q \o f \o g) = ToSet(a) \cup ToSet(o \o q) \cup ToSet(f) \cup ToSet(g)
  <1> DEFINE b == o \o q
             ab == a \o b
             abf == ab \o f
  <1>1. b \in Seq(Offsets) /\ ab \in Seq(Offsets) /\ abf \in Seq(Offsets)
    BY ConcatProperties
  <1>2. a \o o \o q = ab
    BY SMTT(60), ConcatAssociative
  <1>3. a \o o \o q \o f \o g = abf \o g
    BY <1>2, Zenon
  <1> HIDE DEF b, ab, abf
  <1>4. /\ ToSet(ab) = ToSet(a) \cup ToSet(b)
        /\ ToSet(abf) = ToSet(ab) \cup ToSet(f)
        /\ ToSet(abf \o g) = ToSet(abf) \cup ToSet(g)
    BY ZenonT(60), <1>1, ConcatSet DEF ab, abf
  <1>5. /\ IsInjective(ab) <=> IsInjective(a) /\ IsInjective(b) /\ ToSet(a) \cap ToSet(b) = {}
        /\ IsInjective(abf) <=> IsInjective(ab) /\ IsInjective(f) /\ ToSet(ab) \cap ToSet(f) = {}
        /\ IsInjective(abf \o g) <=>
              IsInjective(abf) /\ IsInjective(g) /\ ToSet(abf) \cap ToSet(g) = {}
    BY <1>1, InjectiveConcat, Zenon DEF ab, abf
  <1>6. IsInjective(abf \o g) <=> Distinct(a, b, f, g)
    BY <1>4, <1>5 DEF Distinct
  <1>7. ToSet(abf \o g) = ToSet(a) \cup ToSet(b) \cup ToSet(f) \cup ToSet(g)
    BY <1>4
  <1> QED BY <1>3, <1>6, <1>7, Zenon DEF b

\* Offsets are accepted in increasing order: sync_mutex is held from next() until
\* the record is enqueued, and a cancelled call only leaves a gap.
LEMMA AcceptStep == TypeInv /\ AcceptInv /\ [Next]_vars => AcceptInv'
  <1> SUFFICES ASSUME TypeInv, AcceptInv, [Next]_vars PROVE AcceptInv'
    OBVIOUS
  <1>0. /\ RecordTypes /\ ClientTypes /\ ClientInv /\ MaxRecords \in Nat
        /\ Offsets \in SUBSET Int /\ lastOffset \in Int
        /\ \A o \in ToSet(accepted) : o \in Int
    <2>1. Offsets \in SUBSET Int
      BY DEF Offsets
    <2>2. ToSet(accepted) \subseteq Offsets
      BY ItemAt DEF TypeInv, TypeOK, RecordTypes
    <2>3. RecordTypes /\ ClientTypes /\ ClientInv
      BY DEF TypeInv, TypeOK
    <2>4. MaxRecords \in Nat /\ lastOffset \in Int
      BY <2>3, StreamAssumptions DEF ClientTypes
    <2> QED BY <2>1, <2>2, <2>3, <2>4
  <1>1. ASSUME NEW k \in Clients, IngestAdd(k)
        PROVE  /\ Increasing(accepted')
               /\ \A o \in ToSet(accepted') : o <= lastOffset'
               /\ ~Adding'
    <2>1. /\ lastOffset \in Offsets /\ accepted' = Append(accepted, lastOffset)
          /\ client' = [client EXCEPT ![k] = "idle"] /\ client[k] = "adding"
          /\ lastOffset' = lastOffset
      BY <1>0, <1>1 DEF IngestAdd, ClientInv, ClientTypes, Adding, Offsets
    <2>2. \A o \in ToSet(accepted) : o < lastOffset
      BY <2>1 DEF AcceptInv, Adding
    <2>3. ToSet(accepted') = ToSet(accepted) \cup {lastOffset}
      BY <1>0, <2>1, AppendSet DEF RecordTypes
    <2>4. Increasing(accepted')
      <3>1. Increasing(Append(accepted, lastOffset))
        BY <1>0, <2>1, <2>2, IncreasingAppend DEF AcceptInv, RecordTypes
      <3> QED BY <2>1, <3>1
    <2>5. ~Adding'
      BY <1>0, <2>1 DEF Adding, ClientInv, ClientTypes
    <2> QED BY <1>0, <2>1, <2>2, <2>3, <2>4, <2>5
  <1>2. ASSUME NEW k \in Clients, IngestCheck(k) \/ IngestOffset(k) \/ IngestCancel(k)
        PROVE  /\ accepted' = accepted
               /\ \A o \in ToSet(accepted) : o <= lastOffset' /\ (Adding' => o < lastOffset')
    <2>1. CASE IngestOffset(k)
      BY <1>0, <2>1 DEF IngestOffset, NextOffset, AcceptInv
    <2>2. CASE IngestCheck(k) \/ IngestCancel(k)
      <3>1. lastOffset' = lastOffset /\ accepted' = accepted
        BY <2>2 DEF IngestCheck, IngestCancel
      <3>2. Adding' => Adding
        BY <1>0, <2>2 DEF IngestCheck, IngestCancel, Adding, ClientTypes
      <3> QED BY <3>1, <3>2 DEF AcceptInv
    <2> QED BY <1>2, <2>1, <2>2
  <1>3. ASSUME UNCHANGED clientVars
        PROVE  /\ accepted' = accepted
               /\ \A o \in ToSet(accepted) : o <= lastOffset' /\ (Adding' => o < lastOffset')
    BY <1>3 DEF clientVars, AcceptInv, Adding
  <1>4. /\ Increasing(accepted')
        /\ \A o \in ToSet(accepted') : o <= lastOffset' /\ (Adding' => o < lastOffset')
    <2>1. Increasing(accepted)
      BY DEF AcceptInv
    <2> QED BY <1>1, <1>2, <1>3, <2>1, ClientFrame
  <1>5. failing' # <<>> => sup' = "failFinish"
    <2>1. CASE FailDrain \/ FailFinish
      BY <2>1 DEF FailDrain, FailFinish
    <2>2. CASE ~FailDrain /\ ~FailFinish
      <3>1. failing' = failing
        BY <2>2, FailFrame DEF GetUnacked, failVars
      <3>2. sup = "failFinish" => sup' = sup
        BY <2>2, SupFrame
        DEF SupStep, SupCreateRetry, SupCreateFail, SupConnect, SupRecvEnded, SupJoinSender,
            SupSendEnded, SupDrained, SupRecover, SupPublishError, SupClose, SupInvalidate,
            ShutdownSup, DropStream, AbortSup, supVars
      <3> QED BY <3>1, <3>2 DEF AcceptInv
    <2> QED BY <2>1, <2>2
  <1> QED BY <1>4, <1>5 DEF AcceptInv

\* The four places as they are before and after a step.
LEMMA Places ==
    ASSUME TypeInv, TypeInv'
    PROVE  /\ NoRecordLost <=>
                 /\ Distinct(ackLog, AllItems, failing, failed)
                 /\ ToSet(accepted) =
                       ToSet(ackLog) \cup ToSet(AllItems) \cup ToSet(failing) \cup ToSet(failed)
           /\ NoRecordLost' <=>
                 /\ Distinct(ackLog', AllItems', failing', failed')
                 /\ ToSet(accepted') =
                       ToSet(ackLog') \cup ToSet(AllItems') \cup ToSet(failing') \cup ToSet(failed')
           /\ AllItems \in Seq(Offsets) /\ failing \in Seq(Offsets) /\ failed \in Seq(Offsets)
           /\ accepted \in Seq(Offsets) /\ ackLog \in Seq(Offsets)
  <1>1. RecordTypes /\ RecordTypes'
    BY DEF TypeInv, TypeOK
  <1>2. /\ IsInjective(Held) <=> Distinct(ackLog, AllItems, failing, failed)
        /\ ToSet(Held) = ToSet(ackLog) \cup ToSet(AllItems) \cup ToSet(failing) \cup ToSet(failed)
    <2>1. /\ ackLog \in Seq(Offsets) /\ observed \in Seq(Offsets) /\ queue \in Seq(Offsets)
          /\ failing \in Seq(Offsets) /\ failed \in Seq(Offsets)
      BY <1>1 DEF RecordTypes
    <2>2. IsInjective(Held) <=> Distinct(ackLog, AllItems, failing, failed)
      BY <2>1, HeldParts, Zenon DEF Held, AllItems
    <2>3. ToSet(Held) = ToSet(ackLog) \cup ToSet(AllItems) \cup ToSet(failing) \cup ToSet(failed)
      BY <2>1, HeldParts DEF Held, AllItems
    <2> QED BY <2>2, <2>3
  <1>3. /\ IsInjective(Held') <=> Distinct(ackLog', AllItems', failing', failed')
        /\ ToSet(Held') =
              ToSet(ackLog') \cup ToSet(AllItems') \cup ToSet(failing') \cup ToSet(failed')
    <2>1. /\ ackLog' \in Seq(Offsets) /\ observed' \in Seq(Offsets) /\ queue' \in Seq(Offsets)
          /\ failing' \in Seq(Offsets) /\ failed' \in Seq(Offsets)
      BY <1>1 DEF RecordTypes
    <2>2. IsInjective(Held') <=> Distinct(ackLog', AllItems', failing', failed')
      BY <2>1, HeldParts, Zenon DEF Held, AllItems
    <2>3. ToSet(Held') =
              ToSet(ackLog') \cup ToSet(AllItems') \cup ToSet(failing') \cup ToSet(failed')
      BY <2>1, HeldParts DEF Held, AllItems
    <2> QED BY <2>2, <2>3
  <1>4. AllItems \in Seq(Offsets)
    BY <1>1, ConcatProperties DEF RecordTypes, AllItems
  <1>5. /\ NoRecordLost <=> IsInjective(Held) /\ ToSet(Held) = ToSet(accepted)
        /\ NoRecordLost' <=> IsInjective(Held') /\ ToSet(Held') = ToSet(accepted')
    BY DEF NoRecordLost
  <1> QED BY <1>1, <1>2, <1>3, <1>4, <1>5 DEF RecordTypes

\* The empty sequence holds nothing.
LEMMA NoItems == IsInjective(<<>>) /\ ToSet(<<>>) = {}
  BY EmptySet DEF IsInjective

\* A step moves a record from one place to another, or brings a new one: none is lost, and
\* none is in two places.
LEMMA RecordStep == TypeInv /\ TypeInv' /\ RecordInv /\ [Next]_vars => NoRecordLost'
  <1> SUFFICES ASSUME TypeInv, TypeInv', AcceptInv, NoRecordLost, [Next]_vars
               PROVE  /\ Distinct(ackLog', AllItems', failing', failed')
                      /\ ToSet(accepted') = ToSet(ackLog') \cup ToSet(AllItems')
                                             \cup ToSet(failing') \cup ToSet(failed')
    BY Places DEF RecordInv
  <1> DEFINE A == AllItems
  <1>0. /\ Distinct(ackLog, A, failing, failed)
        /\ ToSet(accepted) = ToSet(ackLog) \cup ToSet(A) \cup ToSet(failing) \cup ToSet(failed)
        /\ A \in Seq(Offsets) /\ failing \in Seq(Offsets) /\ failed \in Seq(Offsets)
        /\ accepted \in Seq(Offsets) /\ ackLog \in Seq(Offsets)
    BY Places
  <1>1. ASSUME NEW k \in Clients, IngestAdd(k), lastOffset \in Offsets,
               A' = Append(A, lastOffset), accepted' = Append(accepted, lastOffset),
               UNCHANGED <<ackLog, failed, failing>>
        PROVE  /\ Distinct(ackLog', A', failing', failed')
               /\ ToSet(accepted') = ToSet(ackLog') \cup ToSet(A') \cup ToSet(failing') \cup ToSet(failed')
    <2>1. lastOffset \notin ToSet(accepted)
      <3>1. Adding
        BY <1>1 DEF IngestAdd, Adding
      <3>2. \A o \in ToSet(accepted) : o < lastOffset
        BY <3>1 DEF AcceptInv
      <3> QED BY <1>1, <3>2 DEF Offsets
    <2>2. ToSet(A') = ToSet(A) \cup {lastOffset}
      BY <1>0, <1>1, AppendSet
    <2>3. ToSet(accepted') = ToSet(accepted) \cup {lastOffset}
      BY <1>0, <1>1, AppendSet
    <2>4. IsInjective(A')
      BY <1>0, <1>1, <2>1, InjectiveAppend DEF Distinct
    <2> HIDE DEF A
    <2> QED BY <1>0, <1>1, <2>1, <2>2, <2>3, <2>4 DEF Distinct
  <1>2. ASSUME A # <<>>, A' = Tail(A), ackLog' = Append(ackLog, Head(A)),
               UNCHANGED <<accepted, failed, failing>>
        PROVE  /\ Distinct(ackLog', A', failing', failed')
               /\ ToSet(accepted') = ToSet(ackLog') \cup ToSet(A') \cup ToSet(failing') \cup ToSet(failed')
    <2>1. Head(A) \in Offsets
      BY <1>0, <1>2, HeadTailProperties
    <2>2. ToSet(A) = {Head(A)} \cup ToSet(A')
      BY <1>0, <1>2, HeadTailSet, Zenon
    <2>3. IsInjective(A') /\ Head(A) \notin ToSet(A')
      BY <1>0, <1>2, InjectiveHead, Zenon DEF Distinct
    <2>4. ToSet(ackLog') = ToSet(ackLog) \cup {Head(A)}
      BY <1>0, <1>2, <2>1, AppendSet
    <2>5. IsInjective(ackLog')
      <3>1. Head(A) \notin ToSet(ackLog)
        BY <1>0, <2>2 DEF Distinct
      <3> QED BY <1>0, <1>2, <2>1, <3>1, InjectiveAppend DEF Distinct
    <2> HIDE DEF A
    <2> QED BY <1>0, <1>2, <2>2, <2>3, <2>4, <2>5 DEF Distinct
  <1>3. ASSUME FailDrain, A' = <<>>, failing' = A, UNCHANGED <<accepted, ackLog, failed>>
        PROVE  /\ Distinct(ackLog', A', failing', failed')
               /\ ToSet(accepted') = ToSet(ackLog') \cup ToSet(A') \cup ToSet(failing') \cup ToSet(failed')
    <2>1. failing = <<>>
      BY <1>3 DEF AcceptInv, FailDrain
    <2> HIDE DEF A
    <2> QED BY <1>0, <1>3, <2>1, NoItems DEF Distinct
  <1>4. ASSUME NEW x \in Seq(Offsets), Distinct(ackLog, x, <<>>, failed),
               failed' = failed \o x
        PROVE  ToSet(failed') = ToSet(failed) \cup ToSet(x) /\ IsInjective(failed')
    <2>1. ToSet(failed') = ToSet(failed) \cup ToSet(x)
      BY <1>0, <1>4, ConcatSet
    <2>2. IsInjective(failed \o x) <=>
              IsInjective(failed) /\ IsInjective(x) /\ ToSet(failed) \cap ToSet(x) = {}
      BY <1>0, InjectiveConcat
    <2> QED BY <1>4, <2>1, <2>2 DEF Distinct
  <1>5. ASSUME A' = A, failed' = failed \o failing, failing' = <<>>, UNCHANGED <<accepted, ackLog>>
        PROVE  /\ Distinct(ackLog', A', failing', failed')
               /\ ToSet(accepted') = ToSet(ackLog') \cup ToSet(A') \cup ToSet(failing') \cup ToSet(failed')
    <2>1. Distinct(ackLog, failing, <<>>, failed)
      BY <1>0, NoItems DEF Distinct
    <2>2. ToSet(failed') = ToSet(failed) \cup ToSet(failing) /\ IsInjective(failed')
      BY <1>0, <1>4, <1>5, <2>1
    <2> HIDE DEF A
    <2> QED BY <1>0, <1>5, <2>2, NoItems DEF Distinct
  <1>6. ASSUME A' = <<>>, failed' = failed \o A, UNCHANGED <<accepted, ackLog, failing>>
        PROVE  /\ Distinct(ackLog', A', failing', failed')
               /\ ToSet(accepted') = ToSet(ackLog') \cup ToSet(A') \cup ToSet(failing') \cup ToSet(failed')
    <2>1. Distinct(ackLog, A, <<>>, failed)
      BY <1>0, NoItems DEF Distinct
    <2>2. ToSet(failed') = ToSet(failed) \cup ToSet(A) /\ IsInjective(failed')
      BY <1>0, <1>4, <1>6, <2>1
    <2> HIDE DEF A
    <2> QED BY <1>0, <1>6, <2>2, NoItems DEF Distinct
  <1>7. ASSUME A' = A, UNCHANGED <<accepted, ackLog, failed, failing>>
        PROVE  /\ Distinct(ackLog', A', failing', failed')
               /\ ToSet(accepted') = ToSet(ackLog') \cup ToSet(A') \cup ToSet(failing') \cup ToSet(failed')
    <2> HIDE DEF A
    <2> QED BY <1>0, <1>7
  <1> QED BY <1>1, <1>2, <1>3, <1>5, <1>6, <1>7, RecordFlow, Zenon

\* A new stream has no records.
LEMMA RecordInit == Init => RecordInv
  <1> SUFFICES ASSUME Init PROVE RecordInv
    OBVIOUS
  <1>1. /\ accepted = <<>> /\ failing = <<>> /\ ackLog = <<>> /\ failed = <<>>
        /\ observed = <<>> /\ queue = <<>>
    BY DEF Init, LZInit
  <1>2. Held = <<>>
    BY <1>1, EmptySeq, ConcatEmptySeq DEF Held
  <1>3. NoRecordLost
    BY <1>1, <1>2, NoItems DEF NoRecordLost
  <1>4. AcceptInv
    BY <1>1, NoItems, EmptySeq DEF AcceptInv, Increasing
  <1> QED BY <1>3, <1>4 DEF RecordInv

\* No record is lost or duplicated: for every number of ingest callers, records and
\* connections, whatever fails or is cancelled, every accepted record is in exactly
\* one of the landing zone, the acknowledged ones, the hands of
\* fail_all_pending_records and failed_records.
THEOREM StreamKeepsRecords == Spec => []NoRecordLost
  <1>1. Init => TypeInv /\ RecordInv
    BY TypeInit, RecordInit
  <1>2. TypeInv /\ RecordInv /\ [Next]_vars => (TypeInv /\ RecordInv)'
    BY TypeStep, AcceptStep, RecordStep DEF RecordInv
  <1>3. RecordInv => NoRecordLost
    BY DEF RecordInv
  <1> QED BY <1>1, <1>2, <1>3, PTL DEF Spec

------------------------------------------------------------------------------
(* Which tasks run in which phase *)

\* Once is_closed is stored or the token cancelled it stays so, and a cancelled
\* stream is a closed one.
LEMMA CloseIsFinal ==
    ASSUME TypeInv, [Next]_vars
    PROVE  /\ isClosed => isClosed'
           /\ cancelled => cancelled'
           /\ cancelled' => cancelled \/ isClosed'
  <1>1. /\ isClosed' = isClosed \/ isClosed' = TRUE
        /\ cancelled' = cancelled \/ (cancelled' = TRUE /\ isClosed' = TRUE)
    BY StreamFrame
    DEF SupCreateFail, SupClose, SignalShutdown, Close, DropStream, WaitTop, WaitCheck,
        WaitErrorChanged, WaitTimeout, streamVars, WaitReturn, WaitGoto, WaitBegin, BeginShutdown
  <1>2. isClosed \in BOOLEAN /\ cancelled \in BOOLEAN
    BY DEF TypeInv, TypeOK, StateTypes
  <1> QED BY <1>1, <1>2

\* How the supervisor moves on, apart from the four steps that touch a receiver.
LEMMA SupMoves ==
    ASSUME TypeInv, ControlInv, [Next]_vars
    PROVE  \/ SupConnect \/ SupRecvEnded \/ SupSendEnded \/ SupDrained
           \/ /\ conn' = conn
              /\ sup \in {"running", "drainRecv"} =>
                    sup' = sup \/ (sup' = "done" /\ cancelled')
              /\ sup = "done" => sup' = "done"
              /\ sup' \in {"running", "joinSender", "drainRecv"} => sup' = sup
              /\ sup' = "connecting" => sup' = sup \/ sup = "handle"
              /\ sup' \in PastSelect => sup \in PastSelect \cup {"joinSender"} \/ (sup = "connecting" /\ conn > 0)
  <1>0. cancelled => cancelled'
    BY CloseIsFinal
  <1>1. CASE ShutdownSup \/ DropStream
    <2>1. sup' = "done" /\ conn' = conn
      BY <1>1 DEF ShutdownSup, DropStream, AbortSup
    <2>2. cancelled'
      BY <1>0, <1>1 DEF ShutdownSup, DropStream, ControlInv, ApiInv
    <2> QED BY <2>1, <2>2 DEF PastSelect
  <1>2. CASE UNCHANGED supVars
    BY <1>2 DEF supVars, PastSelect
  <1>3. CASE SupStep
    <2>1. ASSUME NEW e \in CreateErrors, SupCreateRetry(e) \/ SupCreateFail(e)
          PROVE  /\ conn' = conn /\ sup = "connecting"
                 /\ sup' \in {"connecting", "done", "failDrain"} /\ (sup' = "failDrain" => conn > 0)
      <3>1. conn \in Nat
        BY DEF TypeInv, TypeOK, SupTypes
      <3> QED BY <2>1, <3>1 DEF SupCreateRetry, SupCreateFail
    <2>2. ASSUME SupJoinSender \/ SupRecover \/ SupPublishError \/ SupClose \/ SupInvalidate
                 \/ FailDrain \/ FailFinish
          PROVE  /\ conn' = conn
                 /\ sup \in {"joinSender", "handle", "close", "invalidate", "failDrain", "failFinish"}
                 /\ sup' \in {"handle", "close", "invalidate", "failDrain", "failFinish", "connecting",
                              "done"}
                 /\ sup' = "connecting" => sup = "handle"
      BY <2>2
      DEF SupJoinSender, SupRecover, SupPublishError, SupClose, SupInvalidate, FailDrain, FailFinish
    <2> QED BY <1>3, <2>1, <2>2 DEF SupStep, PastSelect
  <1> QED BY <1>1, <1>2, <1>3, SupFrame

\* A step preserves PhaseInv: past its select! the supervisor has a connection and its sender
\* task is gone, and before the first connection nothing runs.
LEMMA PhaseStep == TypeInv /\ ControlInv /\ [Next]_vars => PhaseInv'
  <1> SUFFICES ASSUME TypeInv, ControlInv, [Next]_vars PROVE PhaseInv'
    OBVIOUS
  <1>0. PhaseInv /\ conn \in Nat
    BY DEF TypeInv, TypeOK, SupTypes, ControlInv
  <1>1. conn' = conn \/ (conn' = conn + 1 /\ sup' = "running" /\ send' = "top")
    BY SupMoves DEF SupConnect, SupRecvEnded, SupSendEnded, SupDrained
  <1>2. sup' \in PastSelect \/ (sup' = "connecting" /\ conn' > 0) => send' = "done"
    <2>1. send = "done" => send' = "done" \/ sup' = "running"
      BY SendFrame
      DEF SupConnect, SupRecvEnded, SupJoinSender, SupSendEnded, SendStep, SendTop, SendPoll,
          SendPark, SendCancel, SendObserve, SendRecord, SendFail, SendEnd, sendVars
    <2>2. CASE SupConnect \/ SupRecvEnded
      BY <2>2 DEF SupConnect, SupRecvEnded, PastSelect
    <2>3. CASE SupSendEnded
      BY <2>1, <2>3 DEF SupSendEnded, PastSelect
    <2>4. CASE SupJoinSender
      BY <2>4 DEF SupJoinSender, SendEnd, PastSelect
    <2>5. sup = "joinSender" => SupJoinSender \/ sup' \in {"joinSender", "done"}
      BY SupFrame
      DEF SupStep, SupCreateRetry, SupCreateFail, SupConnect, SupRecvEnded,
          SupSendEnded, SupDrained, SupRecover, SupPublishError, SupClose, SupInvalidate,
          FailDrain, FailFinish, ShutdownSup, DropStream, AbortSup, supVars
    <2>6. CASE SupDrained
      BY <1>0, <2>1, <2>6 DEF SupDrained, PhaseInv, PastSelect
    <2>7. CASE ~SupConnect /\ ~SupRecvEnded /\ ~SupSendEnded /\ ~SupDrained /\ ~SupJoinSender
      BY <1>0, <1>1, <2>1, <2>5, <2>7, SupMoves DEF PhaseInv, PastSelect
    <2> QED BY <2>2, <2>3, <2>4, <2>6, <2>7
  <1>3. sup' \in PastSelect \cup {"running", "joinSender"} => conn' > 0
    <2>1. CASE SupConnect
      BY <1>0, <2>1 DEF SupConnect
    <2>2. CASE SupRecvEnded \/ SupSendEnded \/ SupDrained
      BY <1>0, <2>2 DEF SupRecvEnded, SupSendEnded, SupDrained, PhaseInv, PastSelect
    <2>3. CASE ~SupConnect /\ ~SupRecvEnded /\ ~SupSendEnded /\ ~SupDrained
      BY <1>0, <2>3, SupMoves DEF PhaseInv, PastSelect
    <2> QED BY <2>1, <2>2, <2>3
  <1>4. conn' = 0 => send' = "none" /\ api' = "idle" /\ ~isClosed' /\ ~cancelled'
    <2> SUFFICES ASSUME conn' = 0 PROVE send' = "none" /\ api' = "idle" /\ ~isClosed' /\ ~cancelled'
      OBVIOUS
    <2>1. /\ conn = 0 /\ send = "none" /\ api = "idle" /\ ~isClosed /\ ~cancelled
          /\ sup \notin PastSelect \cup {"running", "joinSender"}
      BY <1>0, <1>1 DEF PhaseInv
    <2>2. send' = "none"
      <3>1. ~SupConnect
        BY <1>0, <2>1 DEF SupConnect
      <3>2. ~SupRecvEnded /\ ~SupJoinSender /\ ~SupSendEnded
        BY <2>1 DEF SupRecvEnded, SupJoinSender, SupSendEnded
      <3> QED
        BY <2>1, <3>1, <3>2, SendFrame
        DEF SendStep, SendTop, SendPoll, SendPark, SendCancel, SendObserve, SendRecord,
            SendFail, sendVars
    <2>3. api' = "idle"
      BY <2>1, ApiFrame
      DEF WaitForOffset, Flush, Close, DropStream, Call, Alive, ApiStep, WaitTop, WaitCheck,
          WaitOffsetChanged, WaitErrorChanged, WaitTimeout, Subscribed, ShutdownSup,
          ShutdownCallbacks, Returned, apiVars
    <2>4. UNCHANGED streamVars
      <3>1. ~Alive
        BY <1>0, <2>1 DEF Alive
      <3>2. ~SupClose /\ ~SignalShutdown /\ ~Close /\ ~DropStream
        BY <2>1, <3>1 DEF SupClose, PastSelect, SignalShutdown, Shared, Close, DropStream, Call
      <3>3. ~WaitTop /\ ~WaitCheck /\ ~WaitErrorChanged /\ ~WaitTimeout
        BY <2>1 DEF WaitTop, WaitCheck, WaitErrorChanged, WaitTimeout, Subscribed
      <3> QED BY <2>1, <3>2, <3>3, StreamFrame DEF SupCreateFail
    <2> QED BY <2>1, <2>2, <2>3, <2>4 DEF streamVars
  <1> QED BY <1>2, <1>3, <1>4 DEF PhaseInv

\* What a receiver's own steps do to it: it ends, goes on as it was told, or goes
\* back to waiting unless it was aborted.
LEMMA ReceiverSteps ==
    ASSUME NEW c \in Conns, RecvStep(c) \/ RecvMessage(c)
    PROVE  /\ UNCHANGED <<sup, conn, send, cancelled, isClosed>>
           /\ recv[c] \notin {"none", "done"}
           /\ \/ RecvEnd(c)
              \/ /\ recv' = [recv EXCEPT ![c] = "await"] /\ ~aborted[c]
                 /\ logical' = [logical EXCEPT ![c] = -2]
                 /\ ackTo' = [ackTo EXCEPT ![c] = -1]
                 /\ UNCHANGED <<lastAcked, aborted>>
              \/ /\ \E v \in Offsets : RecvAck(c, v)
                 /\ UNCHANGED <<lastAcked, logical, aborted>>
              \/ AckOne(c) /\ UNCHANGED <<ackTo, aborted>>
  <1>1. /\ UNCHANGED <<sup, conn, send, cancelled, isClosed>>
        /\ recv[c] \notin {"none", "done"}
    BY DEF RecvStep, RecvMessage, AckOne, AckPublish, RecvDrain, RecvAck, RecvCloseSignal,
           RecvPauseDeadline, RecvTimeout, RecvError, Listening, supVars, sendVars, streamVars
  <1>2. CASE \E v \in Offsets : RecvAck(c, v)
    BY <1>1, <1>2 DEF RecvAck
  <1>3. CASE AckOne(c)
    BY <1>1, <1>3 DEF AckOne
  <1>4. CASE ~(\E v \in Offsets : RecvAck(c, v)) /\ ~AckOne(c)
    <2>1. (\E b \in BOOLEAN : RecvLoopTop(c, b)) \/ RecvLoopTop(c, paused) \/ RecvEnd(c)
      BY <1>4
      DEF RecvStep, RecvMessage, AckPublish, RecvDrain, RecvCloseSignal, RecvPauseDeadline,
          RecvTimeout, RecvError, RecvReturn
    <2>2. CASE RecvLoopTop(c, paused)
      BY <1>1, <2>2 DEF RecvLoopTop, RecvReturn
    <2>3. ASSUME NEW b \in BOOLEAN, RecvLoopTop(c, b)
          PROVE  \/ RecvEnd(c)
                 \/ /\ recv' = [recv EXCEPT ![c] = "await"] /\ ~aborted[c]
                    /\ logical' = [logical EXCEPT ![c] = -2]
                    /\ ackTo' = [ackTo EXCEPT ![c] = -1]
                    /\ UNCHANGED <<lastAcked, aborted>>
      BY <2>3 DEF RecvLoopTop, RecvReturn
    <2> QED BY <1>1, <2>1, <2>2, <2>3
  <1> QED BY <1>2, <1>3, <1>4

\* A step preserves ReceiverInv: a receiver that runs and is not aborted belongs to the
\* current connection, and the supervisor waits for it unless close() has stopped it.
LEMMA ReceiverInvStep == TypeInv /\ ControlInv /\ [Next]_vars => ReceiverInv'
  <1> SUFFICES ASSUME TypeInv, ControlInv, [Next]_vars PROVE ReceiverInv'
    OBVIOUS
  <1>0. ReceiverInv /\ LoopTypes /\ conn \in 0 .. MaxConns /\ MaxConns \in Nat /\ PhaseInv
    BY StreamAssumptions DEF TypeInv, TypeOK, SupTypes, RecvTypes, LoopTypes, ControlInv
  <1>1. ASSUME NEW c \in Conns, RecvStep(c) \/ RecvMessage(c) PROVE ReceiverInv'
    <2>0. /\ UNCHANGED <<sup, conn, send, cancelled, isClosed>>
          /\ recv[c] \notin {"none", "done"} /\ c \in Int
      BY <1>1, ReceiverSteps DEF Conns
    <2>1. CASE RecvEnd(c)
      BY <1>0, <2>0, <2>1 DEF RecvEnd, ReceiverInv, LoopTypes
    <2>2. CASE /\ recv' = [recv EXCEPT ![c] = "await"] /\ ~aborted[c]
               /\ logical' = [logical EXCEPT ![c] = -2]
               /\ ackTo' = [ackTo EXCEPT ![c] = -1]
               /\ UNCHANGED <<lastAcked, aborted>>
      BY <1>0, <2>0, <2>2 DEF ReceiverInv, LoopTypes
    <2>3. ASSUME NEW v \in Offsets, RecvAck(c, v) PROVE ReceiverInv'
      BY <1>0, <2>0, <2>3 DEF ReceiverInv, LoopTypes, RecvAck, Listening
    <2>4. CASE AckOne(c)
      <3>1. /\ recv' \in {recv, [recv EXCEPT ![c] = "publish"]} /\ recv[c] = "acking"
            /\ UNCHANGED <<ackTo, aborted>>
            /\ lastAcked' = [lastAcked EXCEPT ![c] = lastAcked[c] + 1]
            /\ \A d \in Conns : d # c => logical'[d] = logical[d]
        BY <1>0, <2>4 DEF AckOne, LoopTypes
      <3>2. /\ recv'[c] \in {"acking", "publish"}
            /\ \A d \in Conns : d # c => recv'[d] = recv[d] /\ lastAcked'[d] = lastAcked[d]
        BY <1>0, <3>1 DEF LoopTypes
      <3>3. /\ \A d \in Conns : recv'[d] = "none" <=> d > conn
            /\ \A d \in Conns : recv'[d] = "await" => ~aborted[d]
        BY <1>0, <2>0, <3>1, <3>2 DEF ReceiverInv
      <3>4. \A d \in Conns : recv'[d] \in {"none", "done"} =>
               lastAcked'[d] = -1 /\ ackTo[d] = -1 /\ logical'[d] = -2 /\ ~aborted[d]
        BY <1>0, <3>1, <3>2 DEF ReceiverInv
      <3>5. /\ \A d \in Conns : recv'[d] \notin {"none", "done"} /\ ~aborted[d] =>
                  d = conn /\ (sup \in {"running", "drainRecv"} \/ (sup = "done" /\ cancelled))
            /\ sup = "joinSender" => recv'[conn] = "done"
        <4>1. sup = "joinSender" => conn \in Conns
          BY <1>0 DEF PhaseInv, Conns
        <4> QED BY <1>0, <3>1, <3>2, <4>1 DEF ReceiverInv
      <3> QED BY <2>0, <3>1, <3>3, <3>4, <3>5 DEF ReceiverInv
    <2> QED BY <1>1, <2>1, <2>2, <2>3, <2>4, ReceiverSteps
  <1>2. CASE SupConnect
    <2>1. /\ conn' = conn + 1 /\ conn + 1 \in Conns /\ sup' = "running" /\ sup = "connecting"
          /\ recv' = [recv EXCEPT ![conn + 1] = "await"] /\ UNCHANGED recvLocals
      BY <1>0, <1>2 DEF SupConnect, Conns
    <2>2. recv[conn + 1] = "none"
      BY <1>0, <2>1 DEF ReceiverInv
    <2>3. \A c \in Conns : c # conn + 1 => recv'[c] = recv[c]
      BY <1>0, <2>1 DEF LoopTypes
    <2>4. \A c \in Conns : c \in Int
      BY DEF Conns
    <2> QED BY <1>0, <2>1, <2>2, <2>3, <2>4 DEF ReceiverInv, LoopTypes, recvLocals
  <1>3. ASSUME AbortRecv, conn > 0, conn' = conn, sup' = "handle" PROVE ReceiverInv'
    <2>1. conn \in Conns /\ recv[conn] # "none"
      BY <1>0, <1>3 DEF ReceiverInv, Conns
    <2> QED BY ZenonT(60), <1>0, <1>3, <2>1 DEF AbortRecv, RecvEnd, ReceiverInv, LoopTypes
  <1>4. CASE SupRecvEnded
    BY <1>0, <1>4 DEF SupRecvEnded, ReceiverInv, LoopTypes, recvLocals, streamVars
  <1>5. CASE SupSendEnded \/ SupDrained
    <2>1. conn' = conn /\ conn > 0 /\ UNCHANGED cancelled
      BY <1>0, <1>5 DEF SupSendEnded, SupDrained, PhaseInv, PastSelect, streamVars
    <2>2. \/ AbortRecv /\ sup' = "handle"
          \/ sup = "running" /\ sup' = "drainRecv" /\ UNCHANGED <<recv, recvLocals>>
      BY <1>5 DEF SupSendEnded, SupDrained
    <2>3. CASE sup = "running" /\ sup' = "drainRecv" /\ UNCHANGED <<recv, recvLocals>>
      BY <1>0, <2>1, <2>3 DEF ReceiverInv, LoopTypes, recvLocals
    <2> QED BY <1>3, <2>1, <2>2, <2>3
  <1>6. CASE UNCHANGED recvVars /\ ~SupConnect /\ ~SupRecvEnded /\ ~SupSendEnded /\ ~SupDrained
    BY <1>0, <1>6, SupMoves, CloseIsFinal DEF ReceiverInv, LoopTypes, recvVars, recvLocals
  <1> QED BY <1>1, <1>2, <1>4, <1>5, <1>6, RecvFrame

\* close() and Drop own the stream: no ingest call runs beside them.
LEMMA ApiInvStep == TypeInv /\ ControlInv /\ [Next]_vars => ApiInv'
  <1> SUFFICES ASSUME TypeInv, ControlInv, [Next]_vars PROVE ApiInv'
    OBVIOUS
  <1>0. ApiInv /\ ClientTypes
    BY DEF ControlInv, TypeInv, TypeOK
  <1>1. cancelled' => isClosed'
    BY <1>0, CloseIsFinal DEF ApiInv
  <1>2. sup = "done" => sup' = "done"
    BY SupMoves DEF SupConnect, SupRecvEnded, SupSendEnded, SupDrained
  <1>3. ASSUME ClientsIdle, apiOp = "close", api # "idle" PROVE ClientsIdle'
    <2>1. ~Shared
      BY <1>3 DEF Shared
    <2> QED
      BY <1>3, <2>1, ClientFrame
      DEF IngestCheck, IngestOffset, IngestAdd, IngestCancel, ClientsIdle, clientVars
  <1>4. CASE UNCHANGED apiVars
    BY <1>0, <1>1, <1>2, <1>3, <1>4, CloseIsFinal DEF ApiInv, apiVars
  <1>5. ASSUME NEW t \in Offsets, WaitForOffset(t) PROVE ApiInv'
    BY <1>1, <1>5 DEF WaitForOffset, WaitBegin, ApiInv
  <1>6. CASE Flush
    BY <1>1, <1>6 DEF Flush, WaitBegin, ApiInv
  <1>7. CASE Close
    <2>1. ClientsIdle'
      BY <1>7 DEF Close, waitOthers, clientVars, ClientsIdle
    <2> QED BY <1>1, <1>7, <2>1 DEF Close, WaitBegin, BeginShutdown, ApiInv
  <1>8. CASE DropStream
    <2>1. /\ api' = "gone" /\ sup' = "done" /\ UNCHANGED <<apiOp, apiTarget, apiRes>>
          /\ apiOp = "none"
      BY <1>0, <1>8 DEF DropStream, AbortSup, Call, ApiInv
    <2> QED BY <1>1, <2>1 DEF ApiInv
  <1>9. CASE WaitTop \/ WaitCheck \/ WaitOffsetChanged \/ WaitErrorChanged \/ WaitTimeout
    <2>1. api \in {"top", "check", "parked"} /\ apiOp' = apiOp
      BY <1>9
      DEF WaitTop, WaitCheck, WaitOffsetChanged, WaitErrorChanged, WaitTimeout, Subscribed,
          WaitGoto, WaitReturn
    <2>2. \/ api' \in {"top", "check", "parked", "returned"}
          \/ api' = "shutdown" /\ apiOp = "close" /\ cancelled'
      BY <1>9
      DEF WaitTop, WaitCheck, WaitOffsetChanged, WaitErrorChanged, WaitTimeout,
          WaitGoto, WaitReturn, BeginShutdown
    <2> QED BY <1>0, <1>1, <1>3, <2>1, <2>2 DEF ApiInv
  <1>10. CASE ShutdownSup
    <2>1. /\ api = "shutdown" /\ api' = "callbacks" /\ sup' = "done"
          /\ UNCHANGED <<apiOp, apiTarget, apiRes>>
      BY <1>10 DEF ShutdownSup, AbortSup
    <2> QED BY <1>0, <1>1, <1>3, <2>1, CloseIsFinal DEF ApiInv
  <1>11. CASE ShutdownCallbacks \/ Returned
    BY <1>1, <1>11 DEF ShutdownCallbacks, Returned, ApiInv
  <1> QED
    BY <1>4, <1>5, <1>6, <1>7, <1>8, <1>9, <1>10, <1>11, ApiFrame DEF ApiStep

\* The tasks start in agreement.
LEMMA ControlInit == Init => ControlInv
  <1> SUFFICES ASSUME Init PROVE ControlInv
    OBVIOUS
  <1>1. PhaseInv /\ ApiInv
    BY DEF Init, PhaseInv, PastSelect, ApiInv
  <1>2. ReceiverInv
    BY DEF Init, ReceiverInv, Conns
  <1> QED BY <1>1, <1>2 DEF ControlInv

\* A step preserves the agreement of the tasks.
LEMMA ControlStep == TypeInv /\ ControlInv /\ [Next]_vars => ControlInv'
  BY PhaseStep, ReceiverInvStep, ApiInvStep DEF ControlInv

------------------------------------------------------------------------------
(* The rejected token *)

\* A step preserves TokenInv: a rejected token is dropped before the stream fails.
LEMMA TokenStep == TypeInv /\ ControlInv /\ TokenInv /\ [Next]_vars => TokenInv'
  <1> SUFFICES ASSUME TypeInv, ControlInv, TokenInv, [Next]_vars PROVE TokenInv'
    OBVIOUS
  <1>0. ReceiverInv /\ ApiInv /\ PhaseInv
    BY DEF ControlInv
  <1>1. ASSUME NEW e \in CreateErrors, SupCreateRetry(e) PROVE TokenInv'
    BY <1>1 DEF SupCreateRetry, TokenInv
  <1>2. ASSUME NEW e \in CreateErrors, SupCreateFail(e) PROVE TokenInv'
    BY <1>2 DEF SupCreateFail, TokenInv, TokenAfterReject, IsAuthRejection
  <1>3. CASE SupInvalidate
    BY <1>3 DEF SupInvalidate, TokenInv
  <1>4. ASSUME NEW c \in Conns, NEW e \in ServerErrors, RecvError(c, e) PROVE TokenInv'
    <2>1. recv[c] = "await" /\ UNCHANGED <<sup, supErr, cancelled>>
      BY <1>4 DEF RecvError, Listening, supVars, streamVars
    <2>2. sup \in {"running", "drainRecv"} \/ (sup = "done" /\ cancelled)
      BY <1>0, <2>1 DEF ReceiverInv
    <2> QED BY <2>1, <2>2 DEF TokenInv
  <1>5. CASE UNCHANGED staleToken
    <2>1. CASE SupConnect \/ SupRecvEnded \/ SupJoinSender \/ SupSendEnded \/ SupDrained
      BY <2>1 DEF SupConnect, SupRecvEnded, SupJoinSender, SupSendEnded, SupDrained, TokenInv
    <2>2. CASE SupRecover \/ SupPublishError
      BY <2>2 DEF SupRecover, SupPublishError, TokenInv
    <2>3. CASE SupClose
      BY <2>3 DEF SupClose, IsAuthRejection, TokenInv
    <2>4. CASE FailDrain \/ FailFinish
      BY <1>5, <2>4 DEF FailDrain, FailFinish, TokenInv
    <2>5. CASE ShutdownSup \/ DropStream
      <3>1. sup' = "done"
        BY <2>5 DEF ShutdownSup, DropStream, AbortSup
      <3>2. cancelled'
        BY <1>0, <2>5, CloseIsFinal DEF ShutdownSup, DropStream, ApiInv
      <3> QED BY <3>1, <3>2 DEF TokenInv
    <2>6. CASE UNCHANGED supVars
      BY <1>5, <2>6, CloseIsFinal DEF supVars, TokenInv
    <2> QED BY <1>1, <1>2, <1>3, <2>1, <2>2, <2>3, <2>4, <2>5, <2>6, SupFrame DEF SupStep
  <1> QED BY <1>1, <1>2, <1>3, <1>4, <1>5, TokenFrame

\* A stream that the server rejected has had its token dropped before it reports the
\* end, whichever of connection, reconnect and first connection the server rejected.
THEOREM StreamDropsToken == Spec => []RejectedTokenDropped
  <1>1. Init => TypeInv /\ ControlInv /\ TokenInv
    <2>1. Init => TokenInv
      BY DEF Init, TokenInv
    <2> QED BY <2>1, TypeInit, ControlInit
  <1>2. TypeInv /\ ControlInv /\ TokenInv /\ [Next]_vars => (TypeInv /\ ControlInv /\ TokenInv)'
    BY TypeStep, ControlStep, TokenStep
  <1>3. TokenInv => RejectedTokenDropped
    BY DEF TokenInv, RejectedTokenDropped
  <1> QED BY <1>1, <1>2, <1>3, PTL DEF Spec

------------------------------------------------------------------------------
(* Acknowledgements *)

\* An aborted receiver has stopped before the next connection is up, and the
\* application that shuts a substream down does not take over its records meanwhile.
PromptAbort == AbortIsPrompt /\ ~({"shutdown", "unacked"} \subseteq ApiOps)

\* A closed stream admits no new ingest call, so callers that are idle stay so.
LEMMA IdleStays ==
    ASSUME [Next]_vars, ClientsIdle, isClosed
    PROVE  ClientsIdle'
  BY ClientFrame
  DEF IngestCheck, IngestOffset, IngestAdd, IngestCancel, ClientsIdle, clientVars

\* The supervisor does not come back from the failure of its stream.
LEMMA EndingStays ==
    ASSUME [Next]_vars, sup \in Ending
    PROVE  sup' \in Ending
  BY SupFrame
  DEF SupStep, SupCreateRetry, SupCreateFail, SupConnect, SupRecvEnded, SupJoinSender,
      SupSendEnded, SupDrained, SupRecover, SupPublishError, SupClose, SupInvalidate,
      FailDrain, FailFinish, ShutdownSup, DropStream, AbortSup, supVars, Ending

\* A sender that is done stays so until the next connection.
LEMMA SenderStaysDone ==
    ASSUME [Next]_vars, send = "done"
    PROVE  SupConnect \/ send' = "done"
  BY SendFrame
  DEF SupRecvEnded, SupJoinSender, SupSendEnded, SendStep, SendTop, SendPoll,
      SendPark, SendCancel, SendObserve, SendRecord, SendFail, SendEnd, sendVars

\* A step preserves CloseOrigin: a stream is closed by its supervisor's failure or by its owner.
LEMMA CloseOriginStep == TypeInv /\ ControlInv /\ CloseOrigin /\ [Next]_vars => CloseOrigin'
  <1> SUFFICES ASSUME TypeInv, ControlInv, CloseOrigin, [Next]_vars PROVE CloseOrigin'
    OBVIOUS
  <1>0. PhaseInv /\ ApiInv /\ conn \in Nat
    BY DEF ControlInv, TypeInv, TypeOK, SupTypes
  <1>1. sup' \in Ending \ {"done"} => isClosed'
    <2>1. CASE sup \in Ending
      <3>1. sup = "done" => sup' = "done"
        BY SupMoves DEF SupConnect, SupRecvEnded, SupSendEnded, SupDrained
      <3> QED BY <2>1, <3>1, CloseIsFinal DEF CloseOrigin
    <2>2. CASE sup \notin Ending
      BY <2>2, SupFrame
      DEF SupStep, SupCreateRetry, SupCreateFail, SupConnect, SupRecvEnded, SupJoinSender,
          SupSendEnded, SupDrained, SupRecover, SupPublishError, SupClose, SupInvalidate,
          FailDrain, FailFinish, ShutdownSup, DropStream, AbortSup, supVars, Ending
    <2> QED BY <2>1, <2>2
  <1>2. ASSUME sup \in Ending, send = "done" \/ ClientsIdle, isClosed
        PROVE  sup' \in Ending /\ (send' = "done" \/ ClientsIdle')
    <2>1. ~SupConnect
      BY <1>2 DEF SupConnect, Ending
    <2> QED BY <1>2, <2>1, EndingStays, SenderStaysDone, IdleStays
  <1>3. ASSUME apiOp = "close", api = "shutdown", ClientsIdle, isClosed
        PROVE  \/ sup' \in Ending /\ ClientsIdle'
               \/ apiOp' = "close" /\ api' = "shutdown" /\ ClientsIdle'
    <2>1. ClientsIdle'
      BY <1>3, IdleStays
    <2>2. CASE ShutdownSup
      BY <2>1, <2>2 DEF ShutdownSup, AbortSup, Ending
    <2>3. CASE ~ShutdownSup
      BY <1>3, <2>1, <2>3, ApiFrame
      DEF WaitForOffset, Flush, Close, DropStream, Call, ApiStep, WaitTop, WaitCheck,
          WaitOffsetChanged, WaitErrorChanged, WaitTimeout, Subscribed,
          ShutdownCallbacks, Returned, apiVars
    <2> QED BY <2>2, <2>3
  <1>4. ASSUME isClosed', ~isClosed
        PROVE  \/ "shutdown" \in ApiOps
               \/ sup' \in Ending /\ (send' = "done" \/ ClientsIdle')
               \/ apiOp' = "close" /\ api' = "shutdown" /\ ClientsIdle'
    <2>1. ASSUME NEW e \in CreateErrors, SupCreateFail(e)
          PROVE  sup' \in Ending /\ send' = "done"
      <3>0. conn # 0
        BY <1>4, <2>1 DEF SupCreateFail, streamVars
      <3>1. conn > 0 /\ sup' = "failDrain" /\ sup = "connecting" /\ send' = send
        BY <1>0, <2>1, <3>0 DEF SupCreateFail, taskVars, sendVars
      <3> QED BY <1>0, <3>1 DEF PhaseInv, Ending
    <2>2. ASSUME SupClose PROVE sup' \in Ending /\ send' = "done"
      <3>1. sup' \in {"invalidate", "failDrain"} /\ sup = "close" /\ send' = send
        BY <2>2 DEF SupClose, taskVars, sendVars
      <3> QED BY <1>0, <3>1 DEF PhaseInv, Ending, PastSelect
    <2>3. ASSUME SignalShutdown PROVE "shutdown" \in ApiOps
      BY <2>3 DEF SignalShutdown
    <2>4. ASSUME Close PROVE apiOp' = "close" /\ api' = "shutdown" /\ ClientsIdle'
      <3>1. ClientsIdle'
        BY <2>4 DEF Close, waitOthers, clientVars, ClientsIdle
      <3> QED BY <1>4, <2>4, <3>1 DEF Close, BeginShutdown, WaitBegin, streamVars
    <2>5. ASSUME DropStream PROVE sup' \in Ending /\ ClientsIdle'
      BY <2>5 DEF DropStream, AbortSup, Ending, clientVars, ClientsIdle
    <2>6. ASSUME WaitTop \/ WaitCheck \/ WaitErrorChanged \/ WaitTimeout
          PROVE  apiOp' = "close" /\ api' = "shutdown" /\ ClientsIdle'
      <3>1. /\ apiOp = "close" /\ apiOp' = "close" /\ api' = "shutdown"
            /\ api \in {"top", "check", "parked"} /\ UNCHANGED clientVars
        BY <1>4, <2>6
        DEF WaitTop, WaitCheck, WaitErrorChanged, WaitTimeout, WaitReturn, WaitGoto,
            BeginShutdown, streamVars, Subscribed, waitOthers
      <3> QED BY <1>0, <3>1 DEF ApiInv, ClientsIdle, clientVars
    <2>7. CASE UNCHANGED streamVars
      BY <1>4, <2>7 DEF streamVars
    <2> QED BY <2>1, <2>2, <2>3, <2>4, <2>5, <2>6, <2>7, StreamFrame
  <1>5. CASE isClosed
    BY <1>1, <1>2, <1>3, <1>5 DEF CloseOrigin
  <1>6. CASE ~isClosed
    BY <1>1, <1>4, <1>6 DEF CloseOrigin
  <1> QED BY <1>5, <1>6

\* A drained zone stays drained of observed records: nothing is left to observe, or
\* nobody to observe it.
LEMMA DrainedStays ==
    ASSUME TypeInv, ControlInv, Drained, [Next]_vars
    PROVE  Drained'
  <1>0. /\ isClosed /\ observed = <<>> /\ sup \in Ending
        /\ send = "done" \/ (queue = <<>> /\ ClientsIdle)
    BY DEF Drained
  <1>1. ~SupConnect
    BY <1>0 DEF SupConnect, Ending
  <1>2. isClosed' /\ sup' \in Ending
    BY <1>0, CloseIsFinal, EndingStays
  <1>3. ~SendObserve
    BY <1>0 DEF SendObserve, Observe
  <1>4. observed' = <<>>
    <2>1. ASSUME NEW k \in Clients, IngestAdd(k) PROVE observed' = observed
      BY <2>1 DEF IngestAdd, Add
    <2>2. ASSUME NEW c \in Conns, AckOne(c) PROVE observed' = observed
      BY <1>0, <2>2 DEF AckOne, RemoveObserved, lzVars
    <2>3. ASSUME FailDrain \/ GetUnacked PROVE observed' = <<>>
      BY <2>3 DEF FailDrain, GetUnacked, RemoveAll
    <2>4. CASE UNCHANGED lzVars
      BY <1>0, <2>4 DEF lzVars
    <2> QED BY <1>0, <1>1, <1>3, <2>1, <2>2, <2>3, <2>4, ZoneFrame
  <1>5. send' = "done" \/ (queue' = <<>> /\ ClientsIdle')
    <2>1. CASE send = "done"
      BY <1>1, <2>1, SenderStaysDone
    <2>2. CASE queue = <<>> /\ ClientsIdle
      <3>1. ClientsIdle'
        BY <1>0, <2>2, IdleStays
      <3>2. ASSUME NEW k \in Clients, IngestAdd(k) PROVE FALSE
        BY <2>2, <3>2 DEF IngestAdd, ClientsIdle
      <3>3. ASSUME NEW c \in Conns, AckOne(c) PROVE queue' = queue
        BY <3>3 DEF AckOne, RemoveObserved, lzVars
      <3>4. ASSUME FailDrain \/ GetUnacked PROVE queue' = <<>>
        BY <3>4 DEF FailDrain, GetUnacked, RemoveAll
      <3>5. CASE UNCHANGED lzVars
        BY <2>2, <3>1, <3>5 DEF lzVars
      <3> QED BY <1>1, <1>3, <2>2, <3>1, <3>2, <3>3, <3>4, <3>5, ZoneFrame
    <2> QED BY <1>0, <2>1, <2>2
  <1> QED BY <1>2, <1>4, <1>5 DEF Drained

\* The other receivers have stopped, as long as an abort is prompt.
LEMMA OnlyCurrentStep ==
    ASSUME PromptAbort, TypeInv, ControlInv, OnlyCurrent, [Next]_vars
    PROVE  OnlyCurrent'
  <1>0. LoopTypes /\ ReceiverInv
    BY DEF TypeInv, TypeOK, RecvTypes, LoopTypes, ControlInv
  <1>1. ASSUME NEW c \in Conns, RecvStep(c) \/ RecvMessage(c) PROVE OnlyCurrent'
    <2>1. /\ conn' = conn /\ recv[c] \notin {"none", "done"}
          /\ \A d \in Conns : d # c => recv'[d] = recv[d]
      BY <1>0, <1>1, ReceiverSteps DEF LoopTypes, RecvEnd, RecvAck, AckOne
    <2> QED BY <2>1 DEF OnlyCurrent
  <1>2. CASE SupConnect
    <2>1. /\ \A c \in Conns : recv[c] \in {"none", "done"}
          /\ conn' = conn + 1 /\ recv' = [recv EXCEPT ![conn + 1] = "await"]
      BY <1>2 DEF SupConnect, PromptAbort
    <2> QED BY <1>0, <2>1 DEF OnlyCurrent, LoopTypes
  <1>3. CASE SupRecvEnded \/ SupSendEnded \/ SupDrained
    <2>1. /\ conn' = conn
          /\ recv' = recv \/ recv' = [recv EXCEPT ![conn] = "done"]
      BY <1>3 DEF SupRecvEnded, SupSendEnded, SupDrained, AbortRecv, RecvEnd
    <2> QED BY <1>0, <2>1 DEF OnlyCurrent, LoopTypes
  <1>4. CASE UNCHANGED recvVars /\ ~SupConnect
    <2>1. conn' = conn
      BY <1>4, SupMoves DEF SupRecvEnded, SupSendEnded, SupDrained
    <2> QED BY <1>4, <2>1 DEF OnlyCurrent, recvVars
  <1> QED BY <1>1, <1>2, <1>3, <1>4, RecvFrame

\* The server stores the records of a connection in the order they were sent.
LEMMA StoredStep ==
    ASSUME TypeInv, Stored, [Next]_vars
    PROVE  Stored'
  <1>0. /\ wire \in Seq(Offsets) /\ Len(wire) \in Nat /\ persisted \in Nat
        /\ persisted <= Len(wire) /\ SendTypes
    BY LenProperties DEF TypeInv, TypeOK, SendTypes
  <1>1. CASE SupConnect
    BY <1>1 DEF SupConnect, Stored
  <1>2. CASE SendRecord
    <2>1. inHand \in Offsets /\ wire' = Append(wire, inHand)
          /\ persisted' = persisted /\ durable' = durable
      BY <1>0, <1>2 DEF SendRecord, SendTypes
    <2>2. \A i \in 1 .. persisted : wire'[i] = wire[i]
      BY <1>0, <2>1, AppendProperties
    <2> QED BY <2>1, <2>2 DEF Stored
  <1>3. CASE Persist
    <2>1. /\ wire' = wire /\ persisted' = persisted + 1
          /\ durable' = durable \cup {wire[persisted + 1]}
      BY <1>3 DEF Persist
    <2>2. \A i \in 1 .. persisted + 1 : i \in 1 .. persisted \/ i = persisted + 1
      BY <1>0
    <2> QED BY <2>1, <2>2 DEF Stored
  <1>4. CASE UNCHANGED netVars
    BY <1>4 DEF netVars, Stored
  <1> QED BY <1>1, <1>2, <1>3, <1>4, NetFrame

\* What is handed back leaves a drained zone behind: get_unacked_batches is refused
\* on an open stream, and a stream is only closed once its sender has stopped or
\* no caller can add to the zone.
LEMMA Draining ==
    ASSUME PromptAbort, TypeInv, ControlInv, CloseOrigin, FailDrain \/ GetUnacked
    PROVE  Drained'
  <1>1. CASE FailDrain
    <2>1. /\ sup = "failDrain" /\ sup' = "failFinish" /\ observed' = <<>>
          /\ send' = send /\ isClosed' = isClosed
      BY <1>1 DEF FailDrain, RemoveAll, streamVars, taskVars, sendVars
    <2>2. send = "done" /\ isClosed
      BY <2>1 DEF ControlInv, PhaseInv, PastSelect, CloseOrigin, Ending
    <2> QED BY <2>1, <2>2 DEF Drained, Ending
  <1>2. CASE GetUnacked
    <2>1. /\ isClosed /\ observed' = <<>> /\ queue' = <<>> /\ "unacked" \in ApiOps
          /\ ~(apiOp = "close" /\ api # "idle")
          /\ send' = send /\ isClosed' = isClosed /\ client' = client /\ sup' = sup
      BY <1>2
      DEF GetUnacked, RemoveAll, Shared, streamVars, taskVars, sendVars, clientVars, supVars
    <2>2. sup \in Ending /\ (send = "done" \/ ClientsIdle)
      BY <2>1 DEF CloseOrigin, PromptAbort
    <2> QED BY <2>1, <2>2 DEF Drained, ClientsIdle
  <1> QED BY <1>1, <1>2

\* A step preserves HandedBack: records are handed back only by a landing zone that stays
\* drained.
LEMMA HandedBackStep ==
    ASSUME PromptAbort, TypeInv, ControlInv, CloseOrigin, HandedBack, [Next]_vars
    PROVE  HandedBack'
  <1>1. CASE Drained
    BY <1>1, DrainedStays DEF HandedBack
  <1>2. CASE ~Drained
    <2>1. failed = <<>> /\ failing = <<>>
      BY <1>2 DEF HandedBack
    <2>2. CASE FailDrain \/ GetUnacked
      BY <2>2, Draining DEF HandedBack
    <2>3. CASE FailFinish
      BY <2>1, <2>3, EmptySeq, ConcatEmptySeq DEF FailFinish, HandedBack
    <2>4. CASE UNCHANGED failVars
      BY <2>1, <2>4 DEF failVars, HandedBack
    <2> QED BY <2>2, <2>3, <2>4, FailFrame
  <1> QED BY <1>1, <1>2

\* The record that an iteration of the ack loop removes is the one sent at the
\* physical offset it handles, and it is durable.
LEMMA AckedHead ==
    ASSUME TypeInv, ControlInv, OnlyCurrent, Stored, InLine, NEW c \in Conns, AckOne(c)
    PROVE  /\ c = conn /\ conn > 0 /\ recv[conn] = "acking"
           /\ lastAcked[conn] + 1 <= ackTo[conn] /\ ackTo[conn] < persisted
           /\ observed # <<>> => Aligned /\ Head(observed) \in durable
           /\ observed = <<>> => Drained
  <1>0. /\ LoopTypes /\ ReceiverInv /\ LoopInv /\ wire \in Seq(Offsets) /\ Len(wire) \in Nat
        /\ observed \in Seq(Offsets) /\ Len(observed) \in Nat
        /\ persisted \in Nat /\ persisted <= Len(wire) /\ MaxRecords \in Nat
    BY LenProperties, StreamAssumptions
    DEF TypeInv, TypeOK, RecvTypes, LoopTypes, ControlInv, CountInv, SendTypes, RecordTypes
  <1>1. recv[c] = "acking"
    BY DEF AckOne
  <1>2. c = conn /\ conn > 0
    BY <1>1 DEF OnlyCurrent, Conns
  <1>3. /\ lastAcked[conn] \in Int /\ lastAcked[conn] >= -1 /\ ackTo[conn] \in Int
        /\ lastAcked[conn] < ackTo[conn]
    BY <1>0, <1>1, <1>2 DEF LoopTypes, LoopInv, Offsets
  <1>4. (Aligned \/ Drained) /\ ackTo[conn] < persisted
    BY <1>1, <1>2 DEF InLine
  <1>5. ASSUME Aligned PROVE observed # <<>> /\ Head(observed) \in durable
    <2> DEFINE n == lastAcked[conn] + 1
    <2>1. /\ n + Len(observed) >= Len(wire)
          /\ \A i \in 1 .. Len(observed) : n + i <= Len(wire) => observed[i] = wire[n + i]
      BY <1>5 DEF Aligned
    <2>2. n \in Nat /\ n + 1 <= persisted /\ n + 1 \in 1 .. persisted /\ n + 1 <= Len(wire)
      BY <1>0, <1>3, <1>4
    <2> HIDE DEF n
    <2>3. Len(observed) >= 1 /\ 1 \in 1 .. Len(observed)
      BY <1>0, <2>1, <2>2
    <2>4. observed # <<>> /\ Head(observed) = observed[1]
      BY <1>0, <2>3, EmptySeq, HeadTailProperties
    <2>5. observed[1] = wire[n + 1]
      BY <2>1, <2>2, <2>3
    <2> QED BY <2>2, <2>4, <2>5 DEF Stored
  <1>6. Drained => observed = <<>>
    BY DEF Drained
  <1>7. lastAcked[conn] + 1 <= ackTo[conn]
    BY <1>3
  <1> QED BY <1>1, <1>2, <1>4, <1>5, <1>6, <1>7

\* A step acknowledges only a record that the server has stored.
LEMMA DurableStep ==
    ASSUME TypeInv, ControlInv, OnlyCurrent, Stored, InLine, AckedIsDurable, [Next]_vars
    PROVE  AckedIsDurable'
  <1>1. durable \subseteq durable'
    BY NetFrame DEF SupConnect, SendRecord, Persist, netVars
  <1>2. ASSUME NEW c \in Conns, AckOne(c), ackLog' # ackLog PROVE ToSet(ackLog') \subseteq durable
    <2>1. observed # <<>> /\ ackLog' = Append(ackLog, Head(observed))
      BY <1>2 DEF AckOne, RemoveObserved
    <2>2. Head(observed) \in durable
      BY <1>2, <2>1, AckedHead
    <2>3. ackLog \in Seq(Offsets) /\ Head(observed) \in Offsets
      BY <2>1, HeadTailProperties DEF TypeInv, TypeOK, RecordTypes
    <2>4. ToSet(ackLog') = ToSet(ackLog) \cup {Head(observed)}
      BY <2>1, <2>3, AppendSet
    <2> QED BY <2>2, <2>4 DEF AckedIsDurable, Acked
  <1>3. CASE ackLog' = ackLog
    BY <1>1, <1>3 DEF AckedIsDurable, Acked
  <1> QED BY <1>1, <1>2, <1>3, AckFrame DEF AckedIsDurable, Acked

\* The receiver of the current connection between two connections.
LEMMA CurrentReceiver ==
    ASSUME TypeInv, ControlInv, OnlyCurrent, [Next]_vars, ~SupConnect,
           conn' > 0, recv'[conn'] # "done"
    PROVE  /\ conn' = conn /\ conn \in Conns /\ recv[conn] # "done"
           /\ \/ \E c \in Conns : AckOne(c)
              \/ /\ lastAcked'[conn] = lastAcked[conn]
                 /\ recv'[conn] = "acking" =>
                       \/ recv[conn] = "acking" /\ ackTo'[conn] = ackTo[conn]
                       \/ ackTo'[conn] < persisted
  <1>0. /\ LoopTypes /\ persisted \in Nat /\ conn' = conn /\ conn \in Conns
    <2>1. conn' = conn
      BY SupMoves DEF SupRecvEnded, SupSendEnded, SupDrained
    <2>2. conn \in 0 .. MaxConns /\ persisted \in Nat
      BY LenProperties DEF TypeInv, TypeOK, SupTypes, SendTypes
    <2> QED BY <2>1, <2>2 DEF TypeInv, TypeOK, RecvTypes, LoopTypes, Conns
  <1>1. ASSUME NEW c \in Conns, RecvStep(c) \/ RecvMessage(c), ~AckOne(c)
        PROVE  /\ recv[conn] # "done" /\ lastAcked'[conn] = lastAcked[conn]
               /\ recv'[conn] = "acking" => ackTo'[conn] < persisted
    <2>1. c = conn /\ recv[conn] # "done"
      BY <1>1, ReceiverSteps DEF OnlyCurrent
    <2>2. ~RecvEnd(c)
      BY <1>0, <2>1 DEF RecvEnd, LoopTypes
    <2>3. CASE /\ recv' = [recv EXCEPT ![c] = "await"] /\ UNCHANGED <<lastAcked, aborted>>
      BY <1>0, <2>1, <2>3 DEF LoopTypes
    <2>4. ASSUME NEW v \in Offsets, RecvAck(c, v)
          PROVE  lastAcked'[conn] = lastAcked[conn] /\ ackTo'[conn] < persisted
      <3>1. lastAcked' = lastAcked /\ ackTo' = [ackTo EXCEPT ![c] = v] /\ v < persisted
        BY <1>0, <2>4 DEF RecvAck, Offsets
      <3> QED BY <1>0, <2>1, <3>1 DEF LoopTypes
    <2> QED BY <1>1, <2>1, <2>2, <2>3, <2>4, ReceiverSteps
  <1>2. ASSUME NEW c \in Conns, AckOne(c) PROVE recv[conn] # "done"
    BY <1>2 DEF AckOne, OnlyCurrent
  <1>3. CASE SupRecvEnded \/ SupSendEnded \/ SupDrained
    <2>1. \/ UNCHANGED <<recv, recvLocals>>
          \/ AbortRecv
      BY <1>3 DEF SupRecvEnded, SupSendEnded, SupDrained
    <2>2. CASE UNCHANGED <<recv, recvLocals>>
      BY <1>0, <2>2 DEF recvLocals
    <2>3. CASE AbortRecv
      BY <1>0, <2>3 DEF AbortRecv, RecvEnd, LoopTypes
    <2> QED BY <2>1, <2>2, <2>3
  <1>4. CASE UNCHANGED recvVars
    BY <1>0, <1>4 DEF recvVars, recvLocals
  <1> QED BY <1>0, <1>1, <1>2, <1>3, <1>4, RecvFrame

\* Physical offsets stay in line with the observed records: an acknowledgement takes
\* from the front of both, the sender adds to the end of both, and a reconnect
\* starts both anew.
LEMMA InLineStep ==
    ASSUME PromptAbort, TypeInv, TypeInv', ControlInv, OnlyCurrent, CloseOrigin, Stored, InLine,
           [Next]_vars
    PROVE  InLine'
  <1>0. /\ LoopTypes /\ ReceiverInv /\ wire \in Seq(Offsets) /\ Len(wire) \in Nat
        /\ observed \in Seq(Offsets) /\ Len(observed) \in Nat /\ queue \in Seq(Offsets)
        /\ persisted \in Nat /\ persisted <= Len(wire) /\ MaxRecords \in Nat
        /\ conn \in 0 .. MaxConns /\ MaxConns \in Nat /\ SendTypes
    BY SMTT(60), LenProperties, StreamAssumptions
    DEF TypeInv, TypeOK, RecvTypes, LoopTypes, ControlInv, SendTypes, RecordTypes, SupTypes
  <1>1. CASE SupConnect
    <2>1. /\ conn' = conn + 1 /\ conn + 1 \in Conns /\ UNCHANGED recvLocals
          /\ recv' = [recv EXCEPT ![conn + 1] = "await"]
          /\ observed' = <<>> /\ wire' = <<>> /\ persisted' = 0 /\ send' = "top"
      BY <1>0, <1>1 DEF SupConnect, ResetObserve, Conns
    <2>2. recv[conn + 1] = "none" /\ recv'[conn + 1] = "await"
      BY <1>0, <2>1 DEF ReceiverInv, LoopTypes
    <2>3. lastAcked'[conn'] = -1
      BY <1>0, <2>1, <2>2 DEF ReceiverInv, recvLocals
    <2>4. Len(observed') = 0 /\ Len(wire') = 0
      BY <2>1, EmptySeq
    <2>5. Aligned'
      BY <2>1, <2>3, <2>4 DEF Aligned
    <2> QED BY <2>1, <2>2, <2>3, <2>5 DEF InLine
  <1>2. ASSUME ~SupConnect, conn' > 0, recv'[conn'] # "done"
        PROVE  /\ Aligned' \/ Drained'
               /\ lastAcked'[conn'] < persisted'
               /\ recv'[conn'] = "acking" => ackTo'[conn'] < persisted'
    <2>0. conn' = conn /\ conn \in Conns /\ recv[conn] # "done" /\ conn > 0
      BY <1>2, CurrentReceiver DEF Conns
    <2>1. /\ Aligned \/ Drained
          /\ lastAcked[conn] < persisted
          /\ recv[conn] = "acking" => ackTo[conn] < persisted
      BY <2>0 DEF InLine
    <2>2. persisted' \in Nat /\ persisted <= persisted'
      BY <1>0, <1>2, NetFrame DEF SendRecord, Persist, netVars
    <2>3. /\ lastAcked[conn] \in Int /\ lastAcked[conn] >= -1 /\ ackTo[conn] \in Int
          /\ ackTo'[conn] \in Int
      BY <1>0, <2>0 DEF LoopTypes, Offsets, TypeInv, TypeOK, RecvTypes
    <2>4. ASSUME NEW c \in Conns, AckOne(c)
          PROVE  /\ Aligned' \/ Drained'
                 /\ lastAcked'[conn'] < persisted'
                 /\ recv'[conn'] = "acking" => ackTo'[conn'] < persisted'
      <3>1. /\ c = conn /\ lastAcked[conn] + 1 <= ackTo[conn] /\ ackTo[conn] < persisted
            /\ observed # <<>> => Aligned
            /\ observed = <<>> => Drained
        BY <2>4, AckedHead
      <3>2. /\ lastAcked' = [lastAcked EXCEPT ![c] = lastAcked[c] + 1] /\ ackTo' = ackTo
            /\ UNCHANGED <<send, inHand, wire, persisted>>
        BY <2>4 DEF AckOne, sendVars, netVars
      <3>3. lastAcked'[conn] = lastAcked[conn] + 1
        BY <1>0, <3>1, <3>2 DEF LoopTypes
      <3>4. lastAcked'[conn'] < persisted' /\ ackTo'[conn'] < persisted'
        BY <1>0, <2>0, <2>3, <3>1, <3>2, <3>3
      <3>5. CASE observed = <<>>
        BY <3>1, <3>4, <3>5, DrainedStays
      <3>6. CASE observed # <<>>
        <4>1. Aligned /\ observed' = Tail(observed)
          BY <2>4, <3>1, <3>6 DEF AckOne, RemoveObserved, IsObservedEmpty
        <4>2. /\ Len(observed') = Len(observed) - 1
              /\ \A i \in 1 .. Len(observed) - 1 : observed'[i] = observed[i + 1]
          BY <1>0, <3>6, <4>1, HeadTailProperties
        <4> DEFINE n == lastAcked[conn] + 1
        <4>3. /\ n \in Nat /\ Len(observed) >= 1 /\ n + 1 <= Len(wire)
              /\ n + Len(observed) >= Len(wire)
              /\ \A i \in 1 .. Len(observed) : n + i <= Len(wire) => observed[i] = wire[n + i]
              /\ send \notin {"sending", "done"} => n + Len(observed) = Len(wire)
              /\ send = "sending" => /\ n + Len(observed) = Len(wire) + 1
                                     /\ observed[Len(observed)] = inHand
          <5>1. Len(observed) >= 1
            BY <1>0, <3>6, EmptySeq
          <5>2. n \in Nat /\ n + 1 <= Len(wire)
            BY <1>0, <2>3, <3>1
          <5> QED BY <4>1, <5>1, <5>2 DEF Aligned
        <4>4. lastAcked'[conn'] + 1 = n + 1
          BY <2>0, <3>3
        <4> HIDE DEF n
        <4>5. /\ n + 1 + Len(observed') >= Len(wire)
              /\ send \notin {"sending", "done"} => n + 1 + Len(observed') = Len(wire)
              /\ send = "sending" => n + 1 + Len(observed') = Len(wire) + 1
          <5>1. Len(observed) \in Nat /\ Len(wire) \in Nat /\ n \in Nat
            BY <1>0, <4>3
          <5>2. n + 1 + Len(observed') = n + Len(observed)
            BY <4>2, <5>1
          <5> QED BY <4>3, <5>2
        <4>6. ASSUME NEW i \in 1 .. Len(observed'), n + 1 + i <= Len(wire)
              PROVE  observed'[i] = wire[n + 1 + i]
          <5>1. i + 1 \in 1 .. Len(observed) /\ n + (i + 1) = n + 1 + i /\ i \in 1 .. Len(observed) - 1
            BY <1>0, <4>2, <4>3
          <5>2. observed[i + 1] = wire[n + (i + 1)]
            BY <4>3, <4>6, <5>1
          <5> QED BY <4>2, <5>1, <5>2
        <4>7. send = "sending" => observed'[Len(observed')] = inHand
          <5>1. send = "sending" => Len(observed) >= 2
            BY <1>0, <4>3
          <5>2. ASSUME Len(observed) >= 2 PROVE observed'[Len(observed')] = observed[Len(observed)]
            <6>1. Len(observed) - 1 \in 1 .. Len(observed) - 1 /\ (Len(observed) - 1) + 1 = Len(observed)
              BY <1>0, <5>2
            <6> QED BY <4>2, <6>1
          <5> QED BY <4>3, <5>1, <5>2
        <4>8. Aligned'
          BY <3>2, <4>4, <4>5, <4>6, <4>7 DEF Aligned
        <4> QED BY <3>4, <4>8
      <3> QED BY <3>5, <3>6
    <2>5. CASE ~(\E c \in Conns : AckOne(c))
      <3>1. /\ lastAcked'[conn] = lastAcked[conn]
            /\ recv'[conn] = "acking" =>
                  \/ recv[conn] = "acking" /\ ackTo'[conn] = ackTo[conn]
                  \/ ackTo'[conn] < persisted
        BY <1>2, <2>5, CurrentReceiver
      <3>2. lastAcked'[conn'] < persisted'
        BY <1>0, <2>0, <2>1, <2>2, <2>3, <3>1
      <3>3. recv'[conn'] = "acking" => ackTo'[conn'] < persisted'
        BY <1>0, <2>0, <2>1, <2>2, <2>3, <3>1
      <3>4. CASE Drained
        BY <3>2, <3>3, <3>4, DrainedStays
      <3>5. CASE FailDrain \/ GetUnacked
        BY <3>2, <3>3, <3>5, Draining
      <3>6. CASE Aligned /\ ~FailDrain /\ ~GetUnacked
        <4> DEFINE n == lastAcked[conn] + 1
        <4>0. /\ n \in Nat /\ lastAcked'[conn'] + 1 = n
              /\ n + Len(observed) >= Len(wire)
              /\ \A i \in 1 .. Len(observed) : n + i <= Len(wire) => observed[i] = wire[n + i]
              /\ send \notin {"sending", "done"} => n + Len(observed) = Len(wire)
              /\ send = "sending" => /\ n + Len(observed) = Len(wire) + 1
                                     /\ observed[Len(observed)] = inHand
          BY <2>0, <2>3, <3>1, <3>6 DEF Aligned
        <4> HIDE DEF n
        <4>1. CASE SendObserve
          <5>1. /\ send = "polled" /\ send' = "sending" /\ inHand' = Head(queue) /\ wire' = wire
                /\ observed' = Append(observed, Head(queue)) /\ Head(queue) \in Offsets
            BY <1>0, <4>1, HeadTailProperties DEF SendObserve, Observe, netVars
          <5>2. /\ Len(observed') = Len(observed) + 1
                /\ \A i \in 1 .. Len(observed) : observed'[i] = observed[i]
                /\ observed'[Len(observed) + 1] = Head(queue)
            BY <1>0, <5>1, AppendProperties
          <5>3. ASSUME NEW i \in 1 .. Len(observed'), n + i <= Len(wire)
                PROVE  observed'[i] = wire[n + i]
            <6>1. i \in 1 .. Len(observed)
              BY <1>0, <4>0, <5>1, <5>2, <5>3
            <6> QED BY <4>0, <5>2, <5>3, <6>1
          <5>4. /\ n + Len(observed') >= Len(wire) /\ n + Len(observed') = Len(wire) + 1
                /\ observed'[Len(observed')] = inHand'
            BY <1>0, <4>0, <5>1, <5>2
          <5>5. Aligned'
            BY <4>0, <5>1, <5>3, <5>4 DEF Aligned
          <5> QED BY <3>2, <3>3, <5>5
        <4>2. CASE SendRecord
          <5>1. /\ send = "sending" /\ send' = "top" /\ wire' = Append(wire, inHand)
                /\ inHand \in Offsets /\ observed' = observed
            BY <1>0, <4>2 DEF SendRecord, SendTypes, lzVars
          <5>2. /\ Len(wire') = Len(wire) + 1 /\ wire'[Len(wire) + 1] = inHand
                /\ \A i \in 1 .. Len(wire) : wire'[i] = wire[i]
            BY <1>0, <5>1, AppendProperties
          <5>3. n + Len(observed') = Len(wire') /\ n + Len(observed') >= Len(wire')
            BY <1>0, <4>0, <5>1, <5>2
          <5>4. ASSUME NEW i \in 1 .. Len(observed'), n + i <= Len(wire')
                PROVE  observed'[i] = wire'[n + i]
            <6>1. CASE n + i <= Len(wire)
              <7>1. n + i \in 1 .. Len(wire) /\ i \in 1 .. Len(observed)
                BY <1>0, <4>0, <5>1, <6>1
              <7> QED BY <4>0, <5>1, <5>2, <6>1, <7>1
            <6>2. CASE n + i = Len(wire) + 1
              <7>1. i = Len(observed)
                BY <1>0, <4>0, <5>1, <6>2
              <7> QED BY <4>0, <5>1, <5>2, <6>2, <7>1
            <6>3. n + i <= Len(wire) \/ n + i = Len(wire) + 1
              <7>1. i \in Int /\ n \in Int /\ Len(wire) \in Int
                BY <1>0, <4>0
              <7>2. n + i <= Len(wire) + 1
                BY <5>2, <5>4
              <7> QED BY <7>1, <7>2
            <6> QED BY <6>1, <6>2, <6>3
          <5>5. Aligned'
            BY <4>0, <5>1, <5>3, <5>4 DEF Aligned
          <5> QED BY <3>2, <3>3, <5>5
        <4>3. CASE ~SendObserve /\ ~SendRecord
          <5>1. observed' = observed
            <6>1. \A k \in Clients : IngestAdd(k) => observed' = observed
              BY DEF IngestAdd, Add
            <6> QED BY <1>2, <2>5, <3>6, <4>3, <6>1, ZoneFrame DEF lzVars
          <5>2. wire' = wire
            BY <1>2, <4>3, NetFrame DEF Persist, netVars
          <5>3. \/ UNCHANGED <<send, inHand>> \/ send' = "done"
                \/ send \notin {"sending", "done"} /\ send' \notin {"sending", "done"}
            BY <1>2, <4>3, SendFrame
            DEF SupRecvEnded, SupJoinSender, SupSendEnded, SendStep, SendTop, SendPoll,
                SendPark, SendCancel, SendFail, SendEnd, sendVars
          <5>4. Aligned'
            BY <4>0, <5>1, <5>2, <5>3 DEF Aligned
          <5> QED BY <3>2, <3>3, <5>4
        <4> QED BY <4>1, <4>2, <4>3
      <3> QED BY <2>1, <3>4, <3>5, <3>6
    <2> QED BY <2>4, <2>5
  <1> QED BY <1>1, <1>2 DEF InLine

\* Nothing is acknowledged at the start.
LEMMA AckInit == Init => AckInv
  <1> SUFFICES ASSUME Init PROVE AckInv
    OBVIOUS
  <1>1. OnlyCurrent /\ CloseOrigin /\ HandedBack
    BY DEF Init, OnlyCurrent, CloseOrigin, HandedBack, Ending
  <1>2. Stored /\ InLine
    BY DEF Init, Stored, InLine
  <1>3. AckedIsDurable
    BY NoItems DEF Init, AckedIsDurable, Acked
  <1> QED BY <1>1, <1>2, <1>3 DEF AckInv

\* A step preserves the whole of AckInv.
LEMMA AckStep ==
    ASSUME PromptAbort
    PROVE  TypeInv /\ TypeInv' /\ ControlInv /\ AckInv /\ [Next]_vars => AckInv'
  <1> SUFFICES ASSUME TypeInv, TypeInv', ControlInv, AckInv, [Next]_vars PROVE AckInv'
    OBVIOUS
  <1>1. OnlyCurrent /\ CloseOrigin /\ Stored /\ InLine /\ HandedBack /\ AckedIsDurable
    BY DEF AckInv
  <1>2. OnlyCurrent' /\ CloseOrigin'
    BY <1>1, OnlyCurrentStep, CloseOriginStep
  <1>3. Stored' /\ HandedBack'
    BY <1>1, StoredStep, HandedBackStep
  <1>4. InLine' /\ AckedIsDurable'
    BY <1>1, InLineStep, DurableStep
  <1> QED BY <1>2, <1>3, <1>4 DEF AckInv

\* Only durable records are acknowledged, across any number of connections, provided
\* that an aborted receiver stops before the next connection is established and that
\* no one takes over the records of a stream that signal_shutdown has closed while
\* its tasks still run.
THEOREM AcknowledgedAreDurable ==
    ASSUME PromptAbort
    PROVE  Spec => []AckedIsDurable
  <1>1. Init => TypeInv /\ ControlInv /\ AckInv
    BY TypeInit, ControlInit, AckInit
  <1>2. TypeInv /\ ControlInv /\ AckInv /\ [Next]_vars => (TypeInv /\ ControlInv /\ AckInv)'
    BY TypeStep, ControlStep, AckStep
  <1>3. AckInv => AckedIsDurable
    BY DEF AckInv
  <1> QED BY <1>1, <1>2, <1>3, PTL DEF Spec
==============================================================================
