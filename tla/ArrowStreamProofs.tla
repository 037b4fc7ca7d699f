-------------------------- MODULE ArrowStreamProofs --------------------------
(***************************************************************************)
(* TLAPS proofs about ArrowStream, for every number of callers, batches,   *)
(* rows, connections and retries.                                          *)
(***************************************************************************)
EXTENDS ArrowStream, SequenceFacts, FiniteSetTheorems, TLAPS

------------------------------------------------------------------------------
(* The inductive invariant *)

\* An ingest call in its critical section.
Held == {"assigned", "send", "commit"}
Pcs == {"idle", "permit", "mutex"} \cup Held

Queued == {d \in Callers : pc[d] \in {"permit", "mutex"}}

SupStates == {"create", "none", "process", "half_close", "drain", "handle", "pause", "backoff",
              "connect", "replay", "replaying", "refresh", "finalize", "drain_pending", "done"}

BatchRec == [offset : Offsets, skip : Int, start : Int, end : Int]

WaitRec == [st : {"idle", "check", "state", "parked"}, goal : Int, woken : BOOLEAN,
            owner : {"none", "flush", "close"}]

Types ==
    /\ pc \in [Callers -> Pcs] /\ wait \in WaitRec /\ sup \in SupStates
    /\ closing \in {"idle", "flush", "reap", "detach", "final", "drain", "dropped"}
    /\ size \in [Offsets -> 0 .. MaxRows]
    /\ assigned \in Int /\ submitted \in Int /\ acked \in Int /\ ackedBefore \in Int
    /\ replayed \in Nat
    /\ pending \in Seq(BatchRec) /\ failed \in Seq(BatchRec)
    /\ lastAck \in Offsets \cup {-1}

\* Offsets are drawn without a gap, and the bound on them is kept.
DrawInv ==
    /\ LastOffset + 1 + Cardinality(Queued) <= MaxBatches
    /\ \A o \in Offsets : size[o] > 0 <=> o <= LastOffset
    /\ (\E c \in Callers : pc[c] \in Held) => LastOffset >= 0

TypeInv == Types /\ DrawInv

\* Who holds ingest_mutex; nobody but the supervisor or close() ends the stream, and
\* under the mutex.
HoldInv ==
    /\ \A c \in Callers : pc[c] \in Held => mutex = c
    /\ sup \in {"replaying", "refresh", "drain_pending"} => mutex = "sup"
    /\ closing = "drain" => mutex = "close"
    /\ closing \in {"detach", "final", "drain", "dropped"} => sup = "done"
    /\ closed => sup \in {"drain_pending", "done"} /\ \A c \in Callers : pc[c] \notin Held

\* A waiter that has read the offset and parks, or has parked, was told of every
\* acknowledgement since and of the end of the stream; a close() past its flush waits
\* no more.
WaitInv ==
    /\ closing \in {"reap", "detach", "final", "drain", "dropped"} => wait.st = "idle"
    /\ wait.st \in {"state", "parked"} /\ ~wait.woken => lastAck < wait.goal
    /\ wait.st = "parked" /\ ~wait.woken => ~(closed /\ sup = "done")

\* After get_unacked_batches has returned, the stream is closed and nothing is pending.
SnapInv == snapped => closed /\ pending = <<>>

\* When the stream has a sender, when it is paused, and when calls may be in their
\* critical section.
GateInv ==
    /\ sup \in {"create", "none"} =>
          ~sender /\ ~paused /\ \A c \in Callers : pc[c] = "idle"
    /\ sup \in {"process", "half_close", "refresh"} => sender
    /\ sup \in {"drain", "backoff", "connect", "replay", "replaying"} => ~sender /\ paused
    /\ paused => \A c \in Callers : pc[c] \notin {"send", "commit"}

\* Every pending batch has rows left.
Whole(b, sizes) == b.skip >= 0 /\ sizes[b.offset] - b.skip >= 1
PartInv == \A i \in 1 .. Len(pending) : Whole(pending[i], size)

\* While sends are possible, what is assigned is submitted, but for the batch of the call
\* in its critical section; a replay has submitted the rows of the batches it has sent.
CountInv ==
    /\ handed \in Seq(Offsets \X Int)
    /\ sup \in {"create", "none"} => assigned = 0 /\ submitted = 0
    /\ sup = "replay" => handed = <<>>
    /\ sender \/ sup \in {"drain", "replaying"} => submitted = Len(handed)
    /\ sup = "replaying" =>
          /\ replayed <= Len(pending) /\ assigned = RowCount(pending)
          /\ submitted = RowCount(SubSeq(pending, 1, replayed))
    /\ sender /\ ~paused /\ reqOpen /\ (\A c \in Callers : pc[c] \notin Held) =>
          assigned = submitted
    /\ \A c \in Callers :
          pc[c] = "commit" \/ (pc[c] \in Held /\ sender /\ ~paused /\ reqOpen) =>
             assigned = submitted + size[Current]

\* No call is dropped inside its critical section.
Undropped == Interrupts \cap Held = {}

------------------------------------------------------------------------------
(* Who changes what: every other step leaves the variables alone *)

USE DEF Next, IngestStep, SupStep, ServerStep, WaitStep, CloseStep, vars, batches, counters, gate,
        marks, life, net, supVars, closeVars, CreateOk, CreateFail, IngestStart, IngestPermit,
        IngestRefused, IngestAssign, IngestPush, IngestReserve, IngestSendFails, IngestCommit,
        IngestCancel, Transmit, RequestDies, AckResponse, CloseSignal, ResponseError, ResponseEnd,
        RequestSendFailed, AckDeadline, TargetReached, GraceOver, HalfClose, DrainAck, DrainError,
        DrainEnd, HandleTerminal, HandleRetry, Pause, Backoff, Connect, ReplayInstall, ReplaySend,
        ReplayCommit, Resume, ReconnectFails, InvalidateStalls, FinalizeClose, FinalizeDrain,
        WaitCall, WaitCheck, WaitState, WaitWake, WaitTimeout, CloseAgain, Close, CloseReap,
        CloseDetach, CloseFinal, CloseDrain, CloseCancel, GetUnacked, DropStream, Ended,
        Fail, BeginDrain, NoAck, Fresh, Abort, Goto

\* Only ingest calls move a caller.
LEMMA CallerFrame ==
    ASSUME [Next]_vars
    PROVE  \/ \E c \in Callers :
                 \/ IngestStart(c) \/ IngestPermit(c) \/ IngestRefused(c) \/ IngestPush(c)
                 \/ \E n \in 1 .. MaxRows : IngestAssign(c, n)
                 \/ IngestReserve(c) \/ IngestSendFails(c) \/ IngestCommit(c) \/ IngestCancel(c)
           \/ UNCHANGED pc
  BY ZenonT(60)

\* Only a call that draws an offset gives a batch its size.
LEMMA SizeFrame ==
    ASSUME [Next]_vars
    PROVE  (\E c \in Callers, n \in 1 .. MaxRows : IngestAssign(c, n)) \/ UNCHANGED size
  BY ZenonT(60)

\* An acknowledgement that is applied, in a response, a close signal or the drain.
Acks(n) == (AckResponse(n) \/ CloseSignal(n) \/ DrainAck(n)) /\ ApplyAck(n)

\* Only these steps change what is pending or failed.
LEMMA BatchFrame ==
    ASSUME [Next]_vars
    PROVE  \/ \E c \in Callers : IngestPush(c) \/ IngestSendFails(c)
           \/ \E n \in AckValues : Acks(n)
           \/ ReplayInstall \/ FinalizeDrain \/ CloseDrain \/ GetUnacked
           \/ UNCHANGED <<pending, failed>>
  BY ZenonT(60) DEF Acks

\* Only these steps count records.
LEMMA CounterFrame ==
    ASSUME [Next]_vars
    PROVE  \/ \E c \in Callers : IngestCommit(c) \/ \E n \in 1 .. MaxRows : IngestAssign(c, n)
           \/ \E n \in AckValues : Acks(n)
           \/ ReplayInstall \/ ReplaySend
           \/ UNCHANGED counters
  BY ZenonT(60) DEF Acks

\* Only an acknowledgement moves the acknowledged offset.
LEMMA LastAckFrame ==
    ASSUME [Next]_vars
    PROVE  (\E n \in AckValues : Acks(n)) \/ UNCHANGED lastAck
  BY ZenonT(60) DEF Acks

\* Only these steps move or wake the waiter.
LEMMA WaitFrame ==
    ASSUME [Next]_vars
    PROVE  \/ \E n \in AckValues : Acks(n)
           \/ wait' = Woken
           \/ (\E o \in Offsets : WaitCall(o)) \/ WaitStep \/ Close \/ CloseCancel
           \/ UNCHANGED wait
  BY ZenonT(60) DEF Acks

\* Only these steps close the stream.
LEMMA ClosedFrame ==
    ASSUME [Next]_vars
    PROVE  FinalizeClose \/ CloseFinal \/ DropStream \/ UNCHANGED closed
  BY ZenonT(60) DEF WaitReturn

\* How a replay is counted.
LEMMA ReplayFrame ==
    ASSUME [Next]_vars
    PROVE  /\ replayed' \in {replayed, replayed + 1, 0}
           /\ ackedBefore' \in {ackedBefore, acked, 0}
  BY ZenonT(60) DEF WaitReturn

\* Where the supervisor goes.
LEMMA SupFrame ==
    ASSUME [Next]_vars
    PROVE  sup' \in SupStates \/ UNCHANGED sup
  BY ZenonT(60) DEF SupStates, WaitReturn

\* Only these steps lead the supervisor to where it holds ingest_mutex.
LEMMA HeldFrame ==
    ASSUME [Next]_vars, sup' \in {"replaying", "refresh", "drain_pending"}
    PROVE  UNCHANGED sup \/ ReplayInstall \/ ReplayCommit \/ FinalizeClose
  BY ZenonT(60) DEF WaitReturn

\* Where close() goes.
LEMMA ClosingFrame ==
    ASSUME [Next]_vars
    PROVE  \/ closing' \in {"idle", "flush", "reap", "detach", "final", "drain", "dropped"}
           \/ UNCHANGED closing
  BY ZenonT(60) DEF WaitReturn

\* Only these steps take or release ingest_mutex.
LEMMA MutexFrame ==
    ASSUME [Next]_vars
    PROVE  \/ \E c \in Callers :
                 \/ \E n \in 1 .. MaxRows : IngestAssign(c, n)
                 \/ IngestPush(c) \/ IngestSendFails(c) \/ IngestCommit(c) \/ IngestCancel(c)
           \/ ReplayInstall \/ Resume \/ (\E e \in Errors : ReconnectFails(e))
           \/ FinalizeClose \/ FinalizeDrain \/ CloseReap \/ DropStream
           \/ CloseFinal \/ CloseDrain \/ CloseCancel
           \/ UNCHANGED mutex
  BY ZenonT(60) DEF WaitReturn

\* Only these steps end the supervisor.
LEMMA DoneFrame ==
    ASSUME [Next]_vars
    PROVE  sup' = "done" => FinalizeDrain \/ CloseReap \/ DropStream \/ sup = "done"
  BY ZenonT(60) DEF WaitReturn

\* Only these steps open or close the pause gate, or install or remove the sender.
LEMMA GateFrame ==
    ASSUME [Next]_vars
    PROVE  \/ CreateOk \/ (\E n \in AckValues : CloseSignal(n)) \/ HalfClose \/ Pause
           \/ ReplayCommit \/ CloseDetach
           \/ UNCHANGED gate
  BY ZenonT(60) DEF WaitReturn

\* From where the supervisor comes to a phase: with a sender, ...
LEMMA AttachedFrame ==
    ASSUME [Next]_vars, sup' \in {"process", "half_close", "refresh"}
    PROVE  CreateOk \/ ReplayCommit \/ sup \in {"process", "half_close", "refresh"}
  BY ZenonT(60) DEF WaitReturn

\* ... without one, ...
LEMMA DetachedFrame ==
    ASSUME [Next]_vars, sup' \in {"drain", "backoff", "connect", "replay", "replaying"}
    PROVE  HalfClose \/ Pause \/ sup \in {"drain", "backoff", "connect", "replay", "replaying"}
  BY ZenonT(60) DEF WaitReturn

\* ... or before there is one.
LEMMA CreateFrame ==
    ASSUME [Next]_vars
    PROVE  sup' \in {"create", "none"} => sup \in {"create", "none"}
  BY ZenonT(60) DEF WaitReturn

\* Only these steps lead to a replay.
LEMMA ReplayingFrame ==
    ASSUME [Next]_vars, sup' = "replaying"
    PROVE  ReplayInstall \/ ReplaySend \/ (sup = "replaying" /\ UNCHANGED replayed)
  BY ZenonT(60) DEF WaitReturn

\* The replay of a connection begins with nothing handed to it.
LEMMA ReplayFrom ==
    ASSUME [Next]_vars, sup' = "replay"
    PROVE  Connect \/ (sup = "replay" /\ UNCHANGED ackedBefore)
  BY ZenonT(60) DEF WaitReturn

\* Only a half-close leads to the drain of the transport.
LEMMA DrainFrame ==
    ASSUME [Next]_vars
    PROVE  sup' = "drain" => sup \in {"drain", "half_close"}
  BY ZenonT(60) DEF WaitReturn

\* Only a new connection has an open request.
LEMMA RequestFrame ==
    ASSUME [Next]_vars
    PROVE  reqOpen' => CreateOk \/ Connect \/ reqOpen
  BY ZenonT(60) DEF WaitReturn

\* Only these steps hand over records, or begin again.
LEMMA HandedFrame ==
    ASSUME [Next]_vars
    PROVE  (\E c \in Callers : IngestCommit(c)) \/ ReplaySend \/ CreateOk \/ Connect
           \/ UNCHANGED handed
  BY ZenonT(60) DEF WaitReturn

\* Only these steps accept a batch.
LEMMA AcceptedFrame ==
    ASSUME [Next]_vars
    PROVE  \/ \E c \in Callers : IngestPush(c) \/ IngestSendFails(c) \/ IngestCommit(c)
           \/ UNCHANGED accepted
  BY ZenonT(60) DEF WaitReturn

\* Only an acknowledgement confirms records.
LEMMA ConfirmedFrame ==
    ASSUME [Next]_vars
    PROVE  (\E n \in AckValues : Acks(n)) \/ UNCHANGED confirmed
  BY ZenonT(60) DEF Acks, WaitReturn

\* The phases in which the ranges of pending batches are those of the connection.
Active == {"process", "half_close", "drain", "replaying", "refresh"}

\* Only a new stream and a replay lead there.
LEMMA ActiveFrame ==
    ASSUME [Next]_vars, sup' \in Active
    PROVE  CreateOk \/ ReplayInstall \/ sup \in Active
  BY ZenonT(60) DEF Active, WaitReturn

\* Only with closure does a drain of the pending batches begin.
LEMMA DrainingFrame ==
    ASSUME [Next]_vars
    PROVE  /\ sup' = "drain_pending" => sup = "drain_pending" \/ FinalizeClose
           /\ closing' = "drain" => closing = "drain" \/ CloseFinal
  BY ZenonT(60) DEF WaitReturn

\* Where errors come from.
LEMMA ErrorFrame ==
    ASSUME [Next]_vars
    PROVE  /\ err' \in Errors \/ err' = "none" \/ err' = err
           /\ serverError' \in Errors \/ serverError' = "none" \/ serverError' = err
              \/ serverError' = serverError
  BY ZenonT(60) DEF WaitReturn, Errors, RotationError

\* The supervisor handles an error, ...
LEMMA HandleFrame ==
    ASSUME [Next]_vars, sup' = "handle"
    PROVE  err' \in Errors \/ (err' = err /\ (sup = "handle" \/ err # "none"))
  BY ZenonT(60) DEF WaitReturn, Errors

\* ... and the stream ends with one that was published.
LEMMA FinalizeFrame ==
    ASSUME [Next]_vars, sup' \in {"finalize", "drain_pending"}
    PROVE  \/ HandleTerminal \/ InvalidateStalls
           \/ sup \in {"finalize", "drain_pending"} /\ UNCHANGED <<err, serverError>>
  BY ZenonT(60) DEF WaitReturn

\* On a closed stream only the end of the supervisor publishes an error.
LEMMA PublishFrame ==
    ASSUME [Next]_vars, sup \in {"drain_pending", "done"}
    PROVE  FinalizeDrain \/ UNCHANGED serverError
  BY ZenonT(60) DEF WaitReturn

\* Only these steps announce the teardown or keep the outcome of the flush.
LEMMA TeardownFrame ==
    ASSUME [Next]_vars
    PROVE  \/ WaitCheck \/ WaitState \/ WaitTimeout \/ Close \/ CloseDrain
           \/ UNCHANGED <<teardown, closeError>>
  BY ZenonT(60)

\* Only these steps report an outcome of close().
LEMMA ResultFrame ==
    ASSUME [Next]_vars
    PROVE  CloseAgain \/ CloseDrain \/ UNCHANGED result
  BY ZenonT(60) DEF WaitReturn

\* How close() moves through its flush and its teardown.
LEMMA CloseFrame ==
    ASSUME [Next]_vars
    PROVE  /\ closing' = "flush" => closing = "flush" \/ Close
           /\ closing = "flush" => closing' = "flush" \/ wait' = NoWait
           /\ closing' \in {"reap", "detach", "final", "drain"} =>
                 \/ closing \in {"reap", "detach", "final", "drain"} /\ UNCHANGED teardown
                 \/ teardown'
           /\ closing = "dropped" => closing' = "dropped" \/ wait.st # "idle" \/ sup # "done"
  BY ZenonT(60) DEF WaitReturn, Shared, Exclusive

HIDE DEF Next

------------------------------------------------------------------------------
(* Retaining elements of a sequence *)

\* How many of a set of indices are at most i grows with i.
LEMMA RankGrows ==
    ASSUME NEW I \in SUBSET Int, IsFiniteSet(I), NEW i \in I
    PROVE  LET rank(x) == Cardinality({j \in I : j <= x})
           IN  /\ rank(i) \in 1 .. Cardinality(I)
               /\ \A k \in I : i < k => rank(i) < rank(k)
  <1> DEFINE R(x) == {j \in I : j <= x}
  <1>1. \A x : R(x) \in SUBSET I
    OBVIOUS
  <1>2. \A x : IsFiniteSet(R(x)) /\ Cardinality(R(x)) <= Cardinality(I)
    BY <1>1, FS_Subset
  <1>3. \A x : Cardinality(R(x)) \in Nat
    BY <1>2, FS_CardinalityType
  <1>4. Cardinality(I) \in Nat
    BY FS_CardinalityType
  <1>5. R(i) # {}
    BY DEF R
  <1>6. Cardinality(R(i)) # 0
    BY <1>2, <1>5, FS_EmptySet
  <1>7. ASSUME NEW k \in I, i < k PROVE Cardinality(R(i)) < Cardinality(R(k))
    <2>1. R(i) \in SUBSET R(k) /\ k \in R(k) /\ k \notin R(i)
      <3>1. i \in Int /\ k \in Int /\ i < k /\ I \subseteq Int
        BY <1>7
      <3>2. \A j \in I : j <= i => j <= k
        BY <3>1
      <3>3. R(i) \subseteq R(k)
        BY <3>2
      <3> QED BY <3>1, <3>3
    <2>2. Cardinality(R(i)) <= Cardinality(R(k)) /\ Cardinality(R(i)) # Cardinality(R(k))
      <3> HIDE DEF R
      <3> QED BY <1>2, <2>1, FS_Subset
    <2> QED BY <1>3, <2>2
  <1> HIDE DEF R
  <1>8. Cardinality(R(i)) \in 1 .. Cardinality(I)
    BY <1>2, <1>3, <1>4, <1>6
  <1> QED BY <1>7, <1>8 DEF R

\* Nth enumerates a set of indices in increasing order.
LEMMA NthEnumerates ==
    ASSUME NEW I \in SUBSET Int, IsFiniteSet(I)
    PROVE  /\ \A k \in 1 .. Cardinality(I) : Nth(I, k) \in I
           /\ \A k, l \in 1 .. Cardinality(I) : k < l => Nth(I, k) < Nth(I, l)
           /\ \A i \in I : \E k \in 1 .. Cardinality(I) : Nth(I, k) = i
  <1> DEFINE n == Cardinality(I)
             rank == [i \in I |-> Cardinality({j \in I : j <= i})]
  <1>0. n \in Nat /\ IsFiniteSet(1 .. n) /\ Cardinality(1 .. n) = n
    BY FS_CardinalityType, FS_Interval
  <1>1. \A i \in I : rank[i] \in 1 .. n /\ \A k \in I : i < k => rank[i] < rank[k]
    BY RankGrows
  <1>2. \A i, k \in I : rank[i] = rank[k] => i = k
    <2> HIDE DEF rank, n
    <2> QED BY <1>0, <1>1
  <1>3. rank \in Injection(I, 1 .. n)
    BY <1>1, <1>2 DEF Injection, IsInjective
  <1>4. rank \in Surjection(I, 1 .. n)
    <2> HIDE DEF rank, n
    <2>1. Cardinality(I) = Cardinality(1 .. n)
      BY <1>0 DEF n
    <2> QED BY <1>0, <1>3, <2>1, FS_Injection
  <1>5. \A k \in 1 .. n : \E i \in I : rank[i] = k
    <2> HIDE DEF rank, n
    <2> QED BY <1>4 DEF Surjection
  <1>6. \A k \in 1 .. n : Nth(I, k) \in I /\ rank[Nth(I, k)] = k
    <2> SUFFICES ASSUME NEW k \in 1 .. n PROVE Nth(I, k) \in I /\ rank[Nth(I, k)] = k
      OBVIOUS
    <2>1. PICK i \in I : Cardinality({j \in I : j <= i}) = k
      BY <1>5
    <2>2. Nth(I, k) \in I /\ Cardinality({j \in I : j <= Nth(I, k)}) = k
      BY <2>1 DEF Nth
    <2> QED BY <2>2
  <1>7. ASSUME NEW k \in 1 .. n, NEW l \in 1 .. n, k < l PROVE Nth(I, k) < Nth(I, l)
    <2> HIDE DEF rank, n
    <2>1. /\ Nth(I, k) \in I /\ Nth(I, l) \in I /\ rank[Nth(I, k)] = k
          /\ rank[Nth(I, l)] = l
      BY <1>6
    <2>2. Nth(I, k) \in Int /\ Nth(I, l) \in Int /\ k \in Int /\ l \in Int /\ k < l
      <3>1. \A x \in I : x \in Int
        OBVIOUS
      <3>2. Nth(I, k) \in Int /\ Nth(I, l) \in Int
        BY <2>1, <3>1
      <3>3. k \in Int /\ l \in Int /\ k < l
        BY <1>0, <1>7
      <3> QED BY <3>2, <3>3
    <2>3. Nth(I, l) # Nth(I, k)
      BY <2>1, <2>2
    <2>4. Nth(I, l) < Nth(I, k) => l < k
      BY <1>1, <2>1
    <2> QED BY <2>2, <2>3, <2>4
  <1>8. ASSUME NEW i \in I PROVE \E k \in 1 .. n : Nth(I, k) = i
    <2> HIDE DEF rank, n
    <2> QED BY <1>1, <1>2, <1>6
  <1> QED BY <1>6, <1>7, <1>8

\* Retain keeps the elements at the given indices, in their order.
LEMMA RetainProperties ==
    ASSUME NEW S, NEW s \in Seq(S), NEW I \in SUBSET (1 .. Len(s))
    PROVE  /\ Retain(s, I) \in Seq(S) /\ Len(Retain(s, I)) = Cardinality(I)
           /\ Cardinality(I) \in 0 .. Len(s)
           /\ \E e \in [1 .. Cardinality(I) -> I] :
                 /\ \A k \in 1 .. Cardinality(I) : Retain(s, I)[k] = s[e[k]]
                 /\ \A k, l \in 1 .. Cardinality(I) : k < l => e[k] < e[l]
                 /\ \A i \in I : \E k \in 1 .. Cardinality(I) : e[k] = i
  <1> DEFINE n == Cardinality(I)
             e == [k \in 1 .. n |-> Nth(I, k)]
  <1>0. Len(s) \in Nat /\ I \in SUBSET Int
    BY LenProperties
  <1>1. IsFiniteSet(I) /\ n \in Nat /\ n <= Len(s)
    <2>1. IsFiniteSet(1 .. Len(s)) /\ Cardinality(1 .. Len(s)) = Len(s)
      <3>1. 1 \in Int /\ Len(s) \in Int
        BY <1>0
      <3>2. /\ IsFiniteSet(1 .. Len(s))
            /\ Cardinality(1 .. Len(s)) = IF 1 > Len(s) THEN 0 ELSE Len(s) - 1 + 1
        BY <3>1, FS_Interval, ZenonT(60)
      <3> QED BY <1>0, <3>2
    <2>2. IsFiniteSet(I) /\ n <= Len(s)
      BY <2>1, FS_Subset
    <2> QED BY <2>2, FS_CardinalityType
  <1>2. /\ \A k \in 1 .. n : Nth(I, k) \in I
        /\ \A k, l \in 1 .. n : k < l => Nth(I, k) < Nth(I, l)
        /\ \A i \in I : \E k \in 1 .. n : Nth(I, k) = i
    BY <1>0, <1>1, NthEnumerates
  <1>3. \A k \in 1 .. n : s[Nth(I, k)] \in S
    <2> HIDE DEF n
    <2>1. \A i \in I : s[i] \in S
      BY ElementOfSeq
    <2> QED BY <1>2, <2>1
  <1>4. Retain(s, I) = [k \in 1 .. n |-> s[Nth(I, k)]]
    BY DEF Retain
  <1> HIDE DEF n
  <1>5. Retain(s, I) \in Seq(S) /\ Len(Retain(s, I)) = n
    BY <1>1, <1>3, <1>4, IsASeq, LenProperties
  <1>6. /\ e \in [1 .. n -> I]
        /\ \A k \in 1 .. n : Retain(s, I)[k] = s[e[k]]
        /\ \A k, l \in 1 .. n : k < l => e[k] < e[l]
        /\ \A i \in I : \E k \in 1 .. n : e[k] = i
    BY <1>2, <1>4
  <1> HIDE DEF e
  <1>7. n \in 0 .. Len(s)
    BY <1>0, <1>1
  <1> QED BY <1>5, <1>6, <1>7 DEF n

\* The indices of what is retained, in their order.
Picks(s, I, e) ==
    /\ e \in [1 .. Len(Retain(s, I)) -> I]
    /\ \A k \in 1 .. Len(Retain(s, I)) : Retain(s, I)[k] = s[e[k]]
    /\ \A k, l \in 1 .. Len(Retain(s, I)) : k < l => e[k] < e[l]
    /\ \A i \in I : \E k \in 1 .. Len(Retain(s, I)) : e[k] = i

\* They exist.
LEMMA RetainPicks ==
    ASSUME NEW S, NEW s \in Seq(S), NEW I \in SUBSET (1 .. Len(s))
    PROVE  \E e : Picks(s, I, e)
  <1>1. Len(Retain(s, I)) = Cardinality(I)
    BY RetainProperties
  <1>2. \E e \in [1 .. Cardinality(I) -> I] :
           /\ \A k \in 1 .. Cardinality(I) : Retain(s, I)[k] = s[e[k]]
           /\ \A k, l \in 1 .. Cardinality(I) : k < l => e[k] < e[l]
           /\ \A i \in I : \E k \in 1 .. Cardinality(I) : e[k] = i
    BY RetainProperties, SMTT(60)
  <1> QED BY <1>1, <1>2 DEF Picks

\* Nothing of the empty sequence is retained.
LEMMA RetainEmpty == Retain(<<>>, {}) = <<>>
  <1>1. Cardinality({}) = 0
    BY FS_EmptySet
  <1> QED BY <1>1 DEF Retain

------------------------------------------------------------------------------
(* Types *)

\* There are finitely many offsets.
LEMMA OffsetsFinite == IsFiniteSet(Offsets)
  <1>1. 0 \in Int /\ MaxBatches - 1 \in Int
    BY ArrowAssumptions
  <1> DEFINE m == MaxBatches - 1
  <1>2. IsFiniteSet(0 .. m)
    <2> HIDE DEF m
    <2>1. m \in Int
      BY <1>1 DEF m
    <2> QED BY <1>1, <2>1, FS_Interval, ZenonT(60)
  <1> QED BY <1>2 DEF Offsets

\* The number of offsets drawn is a number.
LEMMA LastType ==
    /\ IsFiniteSet({o \in Offsets : size[o] > 0})
    /\ LastOffset \in Int /\ LastOffset >= -1
  <1> DEFINE D == {o \in Offsets : size[o] > 0}
  <1>1. IsFiniteSet(Offsets)
    BY OffsetsFinite
  <1>2. IsFiniteSet(D)
    BY <1>1, FS_Subset
  <1>3. Cardinality(D) \in Nat
    BY <1>2, FS_CardinalityType
  <1> QED BY <1>2, <1>3 DEF LastOffset

\* The callers that have not drawn an offset yet can be counted.
LEMMA QueuedType == IsFiniteSet(Queued) /\ Cardinality(Queued) \in Nat
  <1>1. IsFiniteSet(Queued)
    BY ArrowAssumptions, FS_Subset DEF Queued
  <1> QED BY <1>1, FS_CardinalityType

\* A call that is about to draw an offset leaves one for itself.
LEMMA NextOffset ==
    ASSUME TypeInv, NEW c \in Callers, pc[c] \in {"permit", "mutex"}
    PROVE  /\ LastOffset + 1 \in Offsets /\ size[LastOffset + 1] = 0
  <1>1. c \in Queued
    BY DEF Queued
  <1>2. Cardinality(Queued) # 0
    BY <1>1, QueuedType, FS_EmptySet
  <1>3. LastOffset \in Int /\ LastOffset >= -1 /\ LastOffset + 1 <= MaxBatches - 1
    BY <1>2, LastType, QueuedType, ArrowAssumptions DEF TypeInv, DrawInv
  <1>4. LastOffset + 1 \in Offsets
    BY <1>3, ArrowAssumptions DEF Offsets
  <1>5. ~(size[LastOffset + 1] > 0) /\ size[LastOffset + 1] \in 0 .. MaxRows
    BY <1>3, <1>4 DEF TypeInv, DrawInv, Types
  <1> QED BY <1>4, <1>5, ArrowAssumptions

\* The batch that a call in its critical section is about has an offset.
LEMMA CurrentOffset ==
    ASSUME TypeInv, NEW c \in Callers, pc[c] \in Held
    PROVE  Current \in Offsets /\ size[Current] \in 1 .. MaxRows
  <1>1. LastOffset >= 0 /\ LastOffset + 1 <= MaxBatches /\ LastOffset \in Int
    BY LastType, QueuedType, ArrowAssumptions DEF TypeInv, DrawInv
  <1>2. LastOffset \in Offsets
    BY <1>1, ArrowAssumptions DEF Offsets
  <1>3. size[LastOffset] > 0 /\ size[LastOffset] \in 0 .. MaxRows
    BY <1>1, <1>2 DEF TypeInv, DrawInv, Types
  <1> QED BY <1>2, <1>3, ArrowAssumptions DEF Current

\* Cutting and retaining batches gives batches.
LEMMA PartsType ==
    ASSUME Types, NEW n \in Int
    PROVE  /\ [i \in DOMAIN pending |-> UnacknowledgedSuffix(pending[i], n)] \in Seq(BatchRec)
           /\ UnackedParts(pending, n) \in Seq(BatchRec)
  <1> DEFINE cut == [i \in DOMAIN pending |-> UnacknowledgedSuffix(pending[i], n)]
             I == {i \in DOMAIN pending : NumRows(cut[i]) > 0}
  <1>1. /\ Len(pending) \in Nat /\ DOMAIN pending = 1 .. Len(pending)
        /\ \A i \in 1 .. Len(pending) : pending[i] \in BatchRec
    BY LenProperties, ElementOfSeq DEF Types
  <1>2. \A b \in BatchRec : NumRows(b) \in Int
    <2>1. \A o \in Offsets : size[o] \in Int
      BY ArrowAssumptions DEF Types
    <2> QED BY <2>1 DEF BatchRec, NumRows
  <1>3. \A b \in BatchRec : UnacknowledgedSuffix(b, n) \in BatchRec
    BY <1>2 DEF BatchRec, UnacknowledgedSuffix
  <1>4. cut \in Seq(BatchRec) /\ Len(cut) = Len(pending)
    <2>1. cut \in [1 .. Len(pending) -> BatchRec]
      BY <1>1, <1>3
    <2> HIDE DEF cut
    <2> QED BY <1>1, <2>1
  <1>5. UnackedParts(pending, n) = Retain(cut, I)
    BY DEF UnackedParts
  <1>6. I \in SUBSET (1 .. Len(cut))
    BY <1>1, <1>4
  <1> HIDE DEF cut, I
  <1>7. Retain(cut, I) \in Seq(BatchRec)
    BY <1>4, <1>6, RetainProperties
  <1> QED BY <1>4, <1>5, <1>7 DEF cut

\* The rows of a sequence of batches can be counted.
LEMMA RowCountType ==
    ASSUME NEW s \in Seq(BatchRec)
    PROVE  RowCount(s) \in Nat
  <1> DEFINE R == (DOMAIN s) \X (1 .. MaxRows)
             Q == {r \in R : r[2] <= NumRows(s[r[1]])}
  <1>1. IsFiniteSet(DOMAIN s) /\ IsFiniteSet(1 .. MaxRows)
    BY LenProperties, FS_Interval, ArrowAssumptions
  <1>2. IsFiniteSet(R)
    BY <1>1, FS_Product
  <1>3. IsFiniteSet(Q)
    BY <1>2, FS_Subset
  <1> QED BY <1>3, FS_CardinalityType DEF RowCount

\* Renumbered batches are batches.
LEMMA RebuildType ==
    ASSUME Types, NEW n \in Int
    PROVE  /\ RebuildPending(pending, n) \in Seq(BatchRec)
           /\ Len(RebuildPending(pending, n)) = Len(UnackedParts(pending, n))
  <1> DEFINE kept == UnackedParts(pending, n)
             before(i) == RowCount(SubSeq(kept, 1, i - 1))
             new(i) == [kept[i] EXCEPT !.start = before(i), !.end = before(i) + NumRows(kept[i])]
  <1>1. kept \in Seq(BatchRec)
    BY PartsType
  <1>2. RebuildPending(pending, n) = [i \in DOMAIN kept |-> new(i)]
    BY DEF RebuildPending
  <1> HIDE DEF kept
  <1>3. /\ Len(kept) \in Nat /\ DOMAIN kept = 1 .. Len(kept)
        /\ \A i \in 1 .. Len(kept) : kept[i] \in BatchRec
    BY <1>1, LenProperties, ElementOfSeq
  <1>4. \A i \in 1 .. Len(kept) : before(i) \in Nat
    <2> SUFFICES ASSUME NEW i \in 1 .. Len(kept) PROVE before(i) \in Nat
      OBVIOUS
    <2>1. \A j \in 1 .. i - 1 : kept[j] \in BatchRec
      BY <1>3
    <2>2. SubSeq(kept, 1, i - 1) \in Seq(BatchRec)
      BY <1>3, <2>1, SubSeqProperties
    <2> QED BY <2>2, RowCountType
  <1>5. \A b \in BatchRec : NumRows(b) \in Int
    <2>1. \A o \in Offsets : size[o] \in Int
      BY ArrowAssumptions DEF Types
    <2> QED BY <2>1 DEF BatchRec, NumRows
  <1>6. \A i \in 1 .. Len(kept) : new(i) \in BatchRec
    <2> SUFFICES ASSUME NEW i \in 1 .. Len(kept) PROVE new(i) \in BatchRec
      OBVIOUS
    <2>1. before(i) \in Int /\ NumRows(kept[i]) \in Int /\ kept[i] \in BatchRec
      BY <1>3, <1>4, <1>5
    <2>2. \A b \in BatchRec, x, y \in Int : [b EXCEPT !.start = x, !.end = y] \in BatchRec
      BY DEF BatchRec
    <2>3. before(i) + NumRows(kept[i]) \in Int
      BY <2>1
    <2> HIDE DEF before
    <2> QED BY <2>1, <2>2, <2>3
  <1> HIDE DEF before, new
  <1>7. [i \in DOMAIN kept |-> new(i)] \in [1 .. Len(kept) -> BatchRec]
    BY <1>3, <1>6
  <1> QED BY <1>2, <1>3, <1>7 DEF kept

\* In the initial state.
LEMMA TypeInit == Init => TypeInv
  <1> SUFFICES ASSUME Init PROVE TypeInv
    OBVIOUS
  <1>1. {o \in Offsets : size[o] > 0} = {} /\ Queued = {}
    BY DEF Init, Queued
  <1>2. LastOffset = -1 /\ Cardinality(Queued) = 0
    BY <1>1, FS_EmptySet DEF LastOffset
  <1>3. DrawInv
    BY <1>1, <1>2, ArrowAssumptions DEF DrawInv, Init, Offsets, Held
  <1>4. <<>> \in Seq(BatchRec)
    BY EmptySeq
  <1>5. Types
    BY <1>4, ArrowAssumptions DEF Init, Types, Pcs, WaitRec, NoWait, SupStates
  <1> QED BY <1>3, <1>5 DEF TypeInv

\* Offsets are drawn one by one, each by a call that was counted when it began.
LEMMA DrawStep ==
    ASSUME TypeInv, [Next]_vars
    PROVE  DrawInv'
  <1> USE DEF Held
  <1>0. /\ LastOffset \in Int /\ LastOffset >= -1 /\ MaxBatches \in Nat
        /\ IsFiniteSet(Queued) /\ Cardinality(Queued) \in Nat
        /\ LastOffset + 1 + Cardinality(Queued) <= MaxBatches
        /\ \A o \in Offsets : size[o] > 0 <=> o <= LastOffset
        /\ pc \in [Callers -> Pcs]
    BY LastType, QueuedType, ArrowAssumptions DEF TypeInv, DrawInv, Types
  <1>1. ASSUME UNCHANGED size, Queued' \subseteq Queued,
               \A c \in Callers : pc'[c] \in Held => \E d \in Callers : pc[d] \in Held
        PROVE  DrawInv'
    <2>1. LastOffset' = LastOffset
      BY <1>1 DEF LastOffset
    <2>2. Cardinality(Queued') <= Cardinality(Queued) /\ Cardinality(Queued') \in Nat
      BY <1>0, <1>1, FS_Subset, FS_CardinalityType
    <2> QED BY <1>0, <1>1, <2>1, <2>2 DEF DrawInv, TypeInv
  <1>2. ASSUME NEW c \in Callers, IngestStart(c) PROVE DrawInv'
    <2>1. LastOffset' = LastOffset /\ UNCHANGED size
      BY <1>2 DEF LastOffset
    <2>2. Queued' = Queued \cup {c}
      BY <1>0, <1>2 DEF Queued
    <2>3. Cardinality(Queued') <= Cardinality(Queued) + 1 /\ Cardinality(Queued') \in Nat
      <3>1. IsFiniteSet(Queued')
        BY <1>0, <2>2, FS_AddElement
      <3>2. Cardinality(Queued') \in Nat
        BY <3>1, FS_CardinalityType
      <3>3. Cardinality(Queued \cup {c}) =
               IF c \in Queued THEN Cardinality(Queued) ELSE Cardinality(Queued) + 1
        BY <1>0, FS_AddElement
      <3> QED BY <1>0, <2>2, <3>2, <3>3
    <2>4. LastOffset + 1 + Cardinality(Queued) < MaxBatches
      BY <1>2 DEF Queued
    <2>5. (\E d \in Callers : pc'[d] \in Held) => LastOffset >= 0
      BY <1>0, <1>2 DEF TypeInv, DrawInv
    <2> QED BY <1>0, <2>1, <2>3, <2>4, <2>5 DEF DrawInv
  <1>3. ASSUME NEW c \in Callers, NEW n \in 1 .. MaxRows, IngestAssign(c, n) PROVE DrawInv'
    <2> DEFINE D == {o \in Offsets : size[o] > 0}
               E == {o \in Offsets : size'[o] > 0}
               l == LastOffset + 1
    <2>1. l \in Offsets /\ size[l] = 0 /\ l \in Int /\ c \in Queued
      BY <1>0, <1>3, NextOffset DEF Queued
    <2>2. size' = [size EXCEPT ![l] = n] /\ size \in [Offsets -> 0 .. MaxRows]
      BY <1>3 DEF TypeInv, Types
    <2>3. n > 0 /\ \A o \in Offsets : size'[o] = IF o = l THEN n ELSE size[o]
      BY <2>1, <2>2, ArrowAssumptions
    <2>4. E = D \cup {l} /\ l \notin D
      BY <2>1, <2>3
    <2>5. Cardinality(E) = Cardinality(D) + 1
      BY <2>4, LastType, FS_AddElement
    <2>6. LastOffset' = LastOffset + 1
      <3>1. LastOffset = Cardinality(D) - 1 /\ LastOffset' = Cardinality(E) - 1
        BY DEF LastOffset
      <3>2. Cardinality(D) \in Nat
        BY LastType, FS_CardinalityType
      <3> HIDE DEF D, E
      <3> QED BY <2>5, <3>1, <3>2
    <2>7. Queued' = Queued \ {c}
      BY <1>0, <1>3 DEF Queued
    <2>8. Cardinality(Queued') = Cardinality(Queued) - 1
      BY <1>0, <2>1, <2>7, FS_RemoveElement
    <2> HIDE DEF D, E
    <2>9. ASSUME NEW o \in Offsets PROVE size'[o] > 0 <=> o <= LastOffset'
      <3>1. o \in Int
        BY DEF Offsets
      <3> QED BY <1>0, <2>1, <2>3, <2>6, <3>1
    <2> QED BY <1>0, <2>6, <2>8, <2>9 DEF DrawInv
  <1>4. ASSUME NEW c \in Callers,
               IngestPermit(c) \/ IngestRefused(c) \/ IngestPush(c) \/ IngestReserve(c)
               \/ IngestSendFails(c) \/ IngestCommit(c) \/ IngestCancel(c)
        PROVE  DrawInv'
    <2>1. UNCHANGED size
      BY <1>4
    <2>2. /\ \A d \in Callers \ {c} : pc'[d] = pc[d]
          /\ pc'[c] \in {"permit", "mutex"} => pc[c] \in {"permit", "mutex"}
          /\ pc'[c] \in Held => pc[c] \in Held
      BY <1>0, <1>4
    <2>3. Queued' \subseteq Queued
      BY <2>2 DEF Queued
    <2>4. \A d \in Callers : pc'[d] \in Held => \E e \in Callers : pc[e] \in Held
      BY <2>2
    <2> QED BY <1>1, <2>1, <2>3, <2>4
  <1>5. CASE UNCHANGED pc
    <2>1. UNCHANGED size
      BY <1>0, <1>5, SizeFrame
    <2> QED BY <1>1, <1>5, <2>1 DEF Queued
  <1>6. \/ \E c \in Callers :
              \/ IngestStart(c) \/ IngestPermit(c) \/ IngestRefused(c) \/ IngestPush(c)
              \/ \E n \in 1 .. MaxRows : IngestAssign(c, n)
              \/ IngestReserve(c) \/ IngestSendFails(c) \/ IngestCommit(c) \/ IngestCancel(c)
        \/ UNCHANGED pc
    BY CallerFrame
  <1> HIDE DEF IngestStart, IngestPermit, IngestRefused, IngestPush, IngestAssign, IngestReserve,
               IngestSendFails, IngestCommit, IngestCancel
  <1> QED BY <1>2, <1>3, <1>4, <1>5, <1>6
\* A set of offsets that is not empty has a largest one.
LEMMA MaxOffset ==
    ASSUME NEW O \in SUBSET Offsets, O # {}
    PROVE  Max(O) \in O /\ \A o \in O : o <= Max(O)
  <1> DEFINE rank(x) == Cardinality({j \in O : j <= x})
             n == Cardinality(O)
  <1>1. O \in SUBSET Int /\ IsFiniteSet(O)
    <2>1. IsFiniteSet(Offsets)
      BY OffsetsFinite
    <2>2. IsFiniteSet(O)
      BY <2>1, FS_Subset
    <2> QED BY <2>2 DEF Offsets
  <1>2. n \in Nat /\ n # 0
    BY <1>1, FS_EmptySet, FS_CardinalityType
  <1>3. /\ \A k \in 1 .. n : Nth(O, k) \in O
        /\ \A k, l \in 1 .. n : k < l => Nth(O, k) < Nth(O, l)
        /\ \A i \in O : \E k \in 1 .. n : Nth(O, k) = i
    BY <1>1, NthEnumerates
  <1> HIDE DEF n
  <1>4. \A o \in O : o <= Nth(O, n)
    <2> SUFFICES ASSUME NEW o \in O PROVE o <= Nth(O, n)
      OBVIOUS
    <2>1. PICK k \in 1 .. n : Nth(O, k) = o
      BY <1>3
    <2>2. n \in 1 .. n /\ (k = n \/ k < n)
      BY <1>2
    <2>3. o \in Int /\ Nth(O, n) \in Int
      BY <1>1, <1>3, <2>2
    <2> QED BY <1>3, <2>1, <2>2, <2>3
  <1>5. Nth(O, n) \in O
    BY <1>2, <1>3
  <1>6. \E x \in O : \A y \in O : x >= y
    BY <1>1, <1>4, <1>5
  <1>7. Max(O) \in O /\ \A y \in O : Max(O) >= y
    BY <1>6 DEF Max
  <1> QED BY <1>1, <1>7

\* The types after an acknowledgement.
LEMMA AckType ==
    ASSUME Types, NEW n \in Int, ApplyAck(n)
    PROVE  /\ acked' \in Int /\ pending' \in Seq(BatchRec)
           /\ lastAck' \in Offsets \cup {-1} /\ wait' \in WaitRec
  <1> DEFINE effective == IF n > acked THEN n ELSE acked
             done == {i \in DOMAIN pending : FullyAcknowledged(pending[i], effective)}
             O == {pending[i].offset : i \in done}
  <1>1. /\ acked' = effective /\ pending' = Retain(pending, DOMAIN pending \ done)
        /\ IF done = {} THEN UNCHANGED <<lastAck, wait>>
           ELSE lastAck' = Max(O) /\ wait' = Woken
    BY DEF ApplyAck
  <1>2. effective \in Int /\ DOMAIN pending = 1 .. Len(pending) /\ pending \in Seq(BatchRec)
    BY LenProperties DEF Types
  <1>3. \A i \in 1 .. Len(pending) : pending[i].offset \in Offsets
    <2>1. \A i \in 1 .. Len(pending) : pending[i] \in BatchRec
      BY <1>2, ElementOfSeq
    <2> QED BY <2>1 DEF BatchRec
  <1>4. done \subseteq 1 .. Len(pending) /\ O \subseteq Offsets /\ (done # {} => O # {})
    BY <1>2, <1>3
  <1> HIDE DEF done, effective
  <1>5. pending' \in Seq(BatchRec)
    BY <1>1, <1>2, <1>4, RetainProperties
  <1> HIDE DEF O
  <1>6. Woken \in WaitRec
    BY DEF Types, Woken, WaitRec
  <1>7. O # {} => Max(O) \in O
    BY <1>4, MaxOffset
  <1> QED BY <1>1, <1>2, <1>4, <1>5, <1>6, <1>7 DEF Types
\* The types of what is pending and of the counters.
LEMMA TypesStep ==
    ASSUME TypeInv, [Next]_vars
    PROVE  Types'
  <1>0. Types /\ MaxRows \in Nat \ {0} /\ (\A o \in Offsets : o \in Int)
        /\ (\A n \in AckValues : n \in Int)
    <2>1. Types /\ MaxRows \in Nat \ {0} /\ \A o \in Offsets : o \in Int
      BY ArrowAssumptions DEF TypeInv, Offsets
    <2>2. submitted \in Int
      BY <2>1 DEF Types
    <2>3. \A n \in AckValues : n \in Int
      BY <2>2 DEF AckValues
    <2> QED BY <2>1, <2>3
  <1>1. pc' \in [Callers -> Pcs]
    <2>1. pc \in [Callers -> Pcs]
      BY <1>0 DEF Types
    <2>2. \A c \in Callers : \A p \in Pcs : [pc EXCEPT ![c] = p] \in [Callers -> Pcs]
      BY <2>1
    <2>3. {"idle", "permit", "mutex", "assigned", "send", "commit"} \subseteq Pcs
      BY DEF Pcs, Held
    <2>4. ASSUME NEW c \in Callers,
                 \/ IngestStart(c) \/ IngestPermit(c) \/ IngestRefused(c) \/ IngestPush(c)
                 \/ \E n \in 1 .. MaxRows : IngestAssign(c, n)
                 \/ IngestReserve(c) \/ IngestSendFails(c) \/ IngestCommit(c) \/ IngestCancel(c)
          PROVE  \E p \in {"idle", "permit", "mutex", "assigned", "send", "commit"} :
                    pc' = [pc EXCEPT ![c] = p]
      BY <2>4
    <2>5. CASE UNCHANGED pc
      BY <2>1, <2>5
    <2>6. \/ \E c \in Callers :
                \/ IngestStart(c) \/ IngestPermit(c) \/ IngestRefused(c) \/ IngestPush(c)
                \/ \E n \in 1 .. MaxRows : IngestAssign(c, n)
                \/ IngestReserve(c) \/ IngestSendFails(c) \/ IngestCommit(c) \/ IngestCancel(c)
          \/ UNCHANGED pc
      BY CallerFrame
    <2> HIDE DEF IngestStart, IngestPermit, IngestRefused, IngestPush, IngestAssign,
                 IngestReserve, IngestSendFails, IngestCommit, IngestCancel
    <2> QED BY <2>2, <2>3, <2>4, <2>5, <2>6
  <1>2. size' \in [Offsets -> 0 .. MaxRows]
    <2>1. ASSUME NEW c \in Callers, NEW n \in 1 .. MaxRows, IngestAssign(c, n)
          PROVE  size' \in [Offsets -> 0 .. MaxRows]
      <3>1. size \in [Offsets -> 0 .. MaxRows] /\ n \in 0 .. MaxRows
        BY <1>0 DEF Types
      <3>2. size' = [size EXCEPT ![LastOffset + 1] = n]
        BY <2>1
      <3> QED BY <3>1, <3>2
    <2> HIDE DEF IngestAssign
    <2> QED BY <1>0, <2>1, SizeFrame DEF Types
  <1>3. ASSUME NEW n \in AckValues, Acks(n)
        PROVE  /\ acked' \in Int /\ pending' \in Seq(BatchRec)
               /\ lastAck' \in Offsets \cup {-1} /\ wait' \in WaitRec
               /\ UNCHANGED <<assigned, submitted, failed>>
    <2>1. /\ acked' \in Int /\ pending' \in Seq(BatchRec)
          /\ lastAck' \in Offsets \cup {-1} /\ wait' \in WaitRec
      BY <1>0, <1>3, AckType DEF Acks
    <2> QED BY <1>3, <2>1 DEF Acks
  <1>4. lastAck' \in Offsets \cup {-1}
    BY <1>0, <1>3, LastAckFrame DEF Types
  <1>5. wait' \in WaitRec
    <2>1. wait' = Woken => wait' \in WaitRec
      BY <1>0 DEF Types, Woken, WaitRec
    <2>2. ASSUME WaitStep \/ Close \/ CloseCancel \/ \E o \in Offsets : WaitCall(o)
          PROVE  wait' \in WaitRec
      <3>1. NoWait \in WaitRec /\ LastOffset \in Int
        BY LastType DEF NoWait, WaitRec
      <3>2. \A o \in Int : Waiting(o, "flush") \in WaitRec /\ Waiting(o, "close") \in WaitRec
        BY DEF Waiting, WaitRec
      <3>3. \A st \in {"state", "parked", "check"} :
               /\ [wait EXCEPT !.st = st] \in WaitRec
               /\ [wait EXCEPT !.st = st, !.woken = FALSE] \in WaitRec
        BY <1>0 DEF Types, WaitRec
      <3> QED BY <1>0, <2>2, <3>1, <3>2, <3>3 DEF WaitReturn, Types
    <2> QED BY <1>0, <1>3, <2>1, <2>2, WaitFrame DEF Types
  <1>6. pending' \in Seq(BatchRec) /\ failed' \in Seq(BatchRec)
    <2>0. pending \in Seq(BatchRec) /\ failed \in Seq(BatchRec) /\ <<>> \in Seq(BatchRec)
          /\ DOMAIN pending = 1 .. Len(pending)
      BY <1>0, LenProperties, EmptySeq DEF Types
    <2>1. ASSUME NEW c \in Callers, IngestPush(c)
          PROVE  pending' \in Seq(BatchRec) /\ failed' \in Seq(BatchRec)
      <3> DEFINE b == [offset |-> Current, skip |-> 0, start |-> assigned - size[Current],
                       end |-> assigned]
      <3>1. Current \in Offsets /\ size[Current] \in Int /\ assigned \in Int
        BY <1>0, <2>1, CurrentOffset DEF Held, Types
      <3>2. b \in BatchRec
        BY <3>1 DEF BatchRec
      <3>3. pending' = Append(pending, b) /\ failed' = failed
        BY <2>1
      <3> HIDE DEF b
      <3> QED BY <2>0, <3>2, <3>3, AppendProperties
    <2>2. ASSUME NEW c \in Callers, IngestSendFails(c)
          PROVE  pending' \in Seq(BatchRec) /\ failed' \in Seq(BatchRec)
      <3> DEFINE I == {i \in DOMAIN pending : pending[i].offset # Current}
      <3>1. failed' = failed /\ (pending' = pending \/ pending' = Retain(pending, I))
        BY <2>2
      <3>2. I \in SUBSET (1 .. Len(pending))
        BY <2>0
      <3> HIDE DEF I
      <3> QED BY <2>0, <3>1, <3>2, RetainProperties
    <2>3. ASSUME ReplayInstall
          PROVE  pending' \in Seq(BatchRec) /\ failed' \in Seq(BatchRec)
      <3>1. pending' = RebuildPending(pending, ackedBefore) /\ failed' = failed
            /\ ackedBefore \in Int
        BY <1>0, <2>3 DEF Types
      <3> QED BY <1>0, <2>0, <3>1, RebuildType
    <2>4. ASSUME MovePendingToFailed
          PROVE  pending' \in Seq(BatchRec) /\ failed' \in Seq(BatchRec)
      <3>1. pending' = <<>> /\ failed' = failed \o UnackedParts(pending, acked)
            /\ acked \in Int
        BY <1>0, <2>4 DEF MovePendingToFailed, Types
      <3>2. UnackedParts(pending, acked) \in Seq(BatchRec)
        BY <1>0, <3>1, PartsType
      <3> QED BY <2>0, <3>1, <3>2, ConcatProperties
    <2>5. ASSUME NEW n \in AckValues, Acks(n)
          PROVE  pending' \in Seq(BatchRec) /\ failed' \in Seq(BatchRec)
      BY <1>3, <2>0, <2>5
    <2>6. FinalizeDrain \/ CloseDrain \/ GetUnacked => MovePendingToFailed
      OBVIOUS
    <2>7. \/ \E c \in Callers : IngestPush(c) \/ IngestSendFails(c)
          \/ \E n \in AckValues : Acks(n)
          \/ ReplayInstall \/ FinalizeDrain \/ CloseDrain \/ GetUnacked
          \/ UNCHANGED <<pending, failed>>
      BY BatchFrame
    <2> HIDE DEF IngestPush, IngestSendFails, ReplayInstall, FinalizeDrain, CloseDrain, GetUnacked
    <2> QED BY <2>0, <2>1, <2>2, <2>3, <2>4, <2>5, <2>6, <2>7
  <1>7. assigned' \in Int /\ submitted' \in Int /\ acked' \in Int
    <2>0. assigned \in Int /\ submitted \in Int /\ acked \in Int
      BY <1>0 DEF Types
    <2>1. ASSUME ReplayInstall PROVE assigned' \in Int /\ submitted' \in Int /\ acked' \in Int
      <3>1. /\ assigned' = RowCount(RebuildPending(pending, ackedBefore))
            /\ submitted' = 0 /\ acked' = 0 /\ ackedBefore \in Int
        BY <1>0, <2>1 DEF Types
      <3>2. RebuildPending(pending, ackedBefore) \in Seq(BatchRec)
        BY <1>0, <3>1, RebuildType
      <3> QED BY <3>1, <3>2, RowCountType
    <2>2. ASSUME ReplaySend PROVE assigned' \in Int /\ submitted' \in Int /\ acked' \in Int
      <3>1. replayed \in Nat /\ replayed < Len(pending) /\ pending \in Seq(BatchRec)
        BY <1>0, <2>2 DEF Types
      <3>2. pending[replayed + 1] \in BatchRec
        BY <3>1, LenProperties, ElementOfSeq
      <3>3. \A b \in BatchRec : NumRows(b) \in Int
        <4>1. \A o \in Offsets : size[o] \in Int
          BY <1>0 DEF Types
        <4> QED BY <4>1 DEF BatchRec, NumRows
      <3>4. /\ submitted' = submitted + NumRows(pending[replayed + 1])
            /\ UNCHANGED <<assigned, acked>>
        BY <2>2
      <3> QED BY <2>0, <3>2, <3>3, <3>4
    <2>3. ASSUME NEW c \in Callers,
                 IngestCommit(c) \/ \E n \in 1 .. MaxRows : IngestAssign(c, n)
          PROVE  assigned' \in Int /\ submitted' \in Int /\ acked' \in Int
      BY <2>0, <2>3
    <2>4. ASSUME NEW n \in AckValues, Acks(n)
          PROVE  assigned' \in Int /\ submitted' \in Int /\ acked' \in Int
      BY <1>3, <2>0, <2>4
    <2>5. \/ \E c \in Callers : IngestCommit(c) \/ \E n \in 1 .. MaxRows : IngestAssign(c, n)
          \/ \E n \in AckValues : Acks(n)
          \/ ReplayInstall \/ ReplaySend
          \/ UNCHANGED counters
      BY CounterFrame
    <2> HIDE DEF IngestCommit, IngestAssign, ReplayInstall, ReplaySend
    <2> QED BY <2>0, <2>1, <2>2, <2>3, <2>4, <2>5
  <1>8. replayed' \in Nat /\ ackedBefore' \in Int
    <2>1. replayed \in Nat /\ ackedBefore \in Int /\ acked \in Int
      BY <1>0 DEF Types
    <2>2. replayed' \in {replayed, replayed + 1, 0} /\ ackedBefore' \in {ackedBefore, acked, 0}
      BY ReplayFrame
    <2> QED BY <2>1, <2>2
  <1>9. sup' \in SupStates
    BY <1>0, SupFrame DEF Types
  <1>10. closing' \in {"idle", "flush", "reap", "detach", "final", "drain", "dropped"}
    BY <1>0, ClosingFrame DEF Types
  <1> QED BY <1>1, <1>2, <1>4, <1>5, <1>6, <1>7, <1>8, <1>9, <1>10 DEF Types

\* The types, and the offsets drawn, of every reachable state.
LEMMA TypeStep ==
    ASSUME TypeInv, [Next]_vars
    PROVE  TypeInv'
  BY DrawStep, TypesStep DEF TypeInv

------------------------------------------------------------------------------
(* Who holds ingest_mutex *)

\* A call, the supervisor and close() hold ingest_mutex one at a time, and a stream closes
\* only beside no call in its critical section.
LEMMA HoldStep ==
    ASSUME TypeInv, HoldInv, [Next]_vars
    PROVE  HoldInv'
  <1> USE DEF Held, HoldInv
  <1>0. /\ pc \in [Callers -> Pcs]
        /\ \A c \in Callers : c # "free" /\ c # "sup" /\ c # "close"
    BY ArrowAssumptions DEF TypeInv, Types
  <1>1. ASSUME NEW c \in Callers,
               \/ IngestStart(c) \/ IngestPermit(c) \/ IngestRefused(c) \/ IngestPush(c)
               \/ \E n \in 1 .. MaxRows : IngestAssign(c, n)
               \/ IngestReserve(c) \/ IngestSendFails(c) \/ IngestCommit(c) \/ IngestCancel(c)
        PROVE  HoldInv'
    <2>1. /\ UNCHANGED <<sup, closing, closed>>
          /\ \A d \in Callers \ {c} : pc'[d] = pc[d]
          /\ pc'[c] \in Held => mutex' = c /\ (pc[c] \in Held \/ (mutex = "free" /\ ~closed))
          /\ mutex' # mutex => mutex \in {"free", c}
      BY <1>0, <1>1 DEF Refusing, Unlock
    <2> HIDE DEF IngestStart, IngestPermit, IngestRefused, IngestPush, IngestAssign,
                 IngestReserve, IngestSendFails, IngestCommit, IngestCancel
    <2> QED BY <1>0, <2>1
  <1>2. ASSUME UNCHANGED <<pc, mutex>> PROVE HoldInv'
    <2>1. \/ FinalizeClose \/ CloseFinal \/ DropStream \/ UNCHANGED closed
      BY ClosedFrame
    <2>2. CASE DropStream
      BY <1>0, <1>2, <2>2 DEF Exclusive
    <2>3. CASE FinalizeClose \/ CloseFinal
      BY <1>0, <1>2, <2>3
    <2>4. ASSUME UNCHANGED closed PROVE HoldInv'
      <3>1. sup' \in {"replaying", "refresh", "drain_pending"} =>
               sup \in {"replaying", "refresh", "drain_pending"} \/ mutex' = "sup"
        <4>1. ReplayInstall \/ FinalizeClose => mutex' = "sup"
          OBVIOUS
        <4>2. ReplayCommit => sup = "replaying"
          OBVIOUS
        <4> HIDE DEF ReplayInstall, FinalizeClose, ReplayCommit
        <4> QED BY <4>1, <4>2, HeldFrame
      <3>2. closed => sup' \in {sup, "done"}
        BY ZenonT(60) DEF Next, WaitReturn
      <3>3. closing' = "drain" => closing = "drain" \/ mutex' = "close"
        BY ZenonT(60) DEF Next, WaitReturn
      <3>4. sup = "done" => sup' = "done"
        BY ZenonT(60) DEF Next, WaitReturn
      <3>5. closing' \in {"detach", "final", "drain", "dropped"} =>
               closing \in {"detach", "final", "drain"} \/ closing' = closing \/ sup' = "done"
        BY ZenonT(60) DEF Next, WaitReturn
      <3> QED BY <1>2, <2>4, <3>1, <3>2, <3>3, <3>4, <3>5
    <2> HIDE DEF FinalizeClose, CloseFinal, DropStream
    <2> QED BY <2>1, <2>2, <2>3, <2>4
  <1>3. ASSUME \/ ReplayInstall \/ Resume \/ (\E e \in Errors : ReconnectFails(e))
               \/ FinalizeClose \/ FinalizeDrain
        PROVE  HoldInv'
    BY <1>0, <1>3 DEF Unlock
  <1>4. ASSUME CloseReap \/ DropStream \/ CloseFinal \/ CloseDrain \/ CloseCancel
        PROVE  HoldInv'
    BY <1>0, <1>4 DEF Unlock, Exclusive
  <1>5. \/ \E c \in Callers :
              \/ \E n \in 1 .. MaxRows : IngestAssign(c, n)
              \/ IngestPush(c) \/ IngestSendFails(c) \/ IngestCommit(c) \/ IngestCancel(c)
        \/ ReplayInstall \/ Resume \/ (\E e \in Errors : ReconnectFails(e))
        \/ FinalizeClose \/ FinalizeDrain \/ CloseReap \/ DropStream
        \/ CloseFinal \/ CloseDrain \/ CloseCancel
        \/ UNCHANGED mutex
    BY MutexFrame
  <1>6. \/ \E c \in Callers :
              \/ IngestStart(c) \/ IngestPermit(c) \/ IngestRefused(c) \/ IngestPush(c)
              \/ \E n \in 1 .. MaxRows : IngestAssign(c, n)
              \/ IngestReserve(c) \/ IngestSendFails(c) \/ IngestCommit(c) \/ IngestCancel(c)
        \/ UNCHANGED pc
    BY CallerFrame
  <1> HIDE DEF IngestStart, IngestPermit, IngestRefused, IngestPush, IngestAssign, IngestReserve,
               IngestSendFails, IngestCommit, IngestCancel, ReplayInstall, Resume, ReconnectFails,
               FinalizeClose, FinalizeDrain, CloseReap, DropStream, CloseFinal, CloseDrain,
               CloseCancel, HoldInv
  <1> QED BY <1>1, <1>2, <1>3, <1>4, <1>5, <1>6

------------------------------------------------------------------------------
(* The waiter *)

\* How the waiter moves, and what is seen of it.
LEMMA WaitMoves ==
    ASSUME TypeInv, [Next]_vars
    PROVE  \/ wait' = wait \/ wait' = Woken
           \/ wait'.st \in {"idle", "check"}
           \/ /\ wait.st = "check" /\ lastAck < wait.goal /\ UNCHANGED lastAck
              /\ wait'.st = "state" /\ wait'.goal = wait.goal
           \/ /\ WaitState /\ wait.st = "state" /\ UNCHANGED lastAck
              /\ wait'.st = "parked" /\ wait'.goal = wait.goal /\ wait'.woken = wait.woken
  <1>0. wait \in WaitRec /\ lastAck \in Int /\ wait.goal \in Int
    BY DEF TypeInv, Types, Offsets, WaitRec
  <1>1. ASSUME NEW n \in AckValues, Acks(n) PROVE wait' = wait \/ wait' = Woken
    BY <1>1 DEF Acks, ApplyAck
  <1>2. NoWait.st = "idle" /\ \A o, w : Waiting(o, w).st = "check"
    BY DEF NoWait, Waiting
  <1>3. ASSUME Close \/ CloseCancel \/ \E o \in Offsets : WaitCall(o)
        PROVE  wait' = wait \/ wait'.st \in {"idle", "check"}
    BY <1>2, <1>3
  <1>4. ASSUME WaitCheck
        PROVE  \/ wait'.st = "idle"
               \/ /\ wait.st = "check" /\ lastAck < wait.goal /\ UNCHANGED lastAck
                  /\ wait'.st = "state" /\ wait'.goal = wait.goal
    <2>1. wait' = NoWait \/ wait' = [wait EXCEPT !.st = "state", !.woken = FALSE]
      BY <1>4 DEF WaitReturn
    <2>2. wait' = NoWait \/ ~(lastAck >= wait.goal)
      BY <1>4 DEF WaitReturn
    <2>3. wait.st = "check" /\ UNCHANGED lastAck
      BY <1>4
    <2>4. wait' = NoWait \/ lastAck < wait.goal
      BY <1>0, <2>2
    <2> HIDE DEF WaitCheck
    <2>5. wait' = NoWait \/ (wait'.st = "state" /\ wait'.goal = wait.goal)
      BY <1>0, <2>1 DEF WaitRec
    <2> QED BY <1>2, <2>3, <2>4, <2>5
  <1>5. ASSUME WaitState
        PROVE  \/ wait'.st = "idle"
               \/ /\ wait.st = "state" /\ UNCHANGED lastAck
                  /\ wait'.st = "parked" /\ wait'.goal = wait.goal /\ wait'.woken = wait.woken
    <2>1. wait' = NoWait \/ wait' = [wait EXCEPT !.st = "parked"]
      BY <1>5 DEF WaitReturn
    <2>2. wait.st = "state" /\ UNCHANGED lastAck
      BY <1>5
    <2> HIDE DEF WaitState
    <2> QED BY <1>0, <1>2, <2>1, <2>2 DEF WaitRec
  <1>6. ASSUME WaitWake \/ WaitTimeout PROVE wait'.st \in {"idle", "check"}
    <2>1. wait' = NoWait \/ wait' = [wait EXCEPT !.st = "check"]
      BY <1>6 DEF WaitReturn
    <2> HIDE DEF WaitWake, WaitTimeout
    <2> QED BY <1>0, <1>2, <2>1 DEF WaitRec
  <1>7. \/ \E n \in AckValues : Acks(n)
        \/ wait' = Woken
        \/ (\E o \in Offsets : WaitCall(o)) \/ WaitStep \/ Close \/ CloseCancel
        \/ UNCHANGED wait
    BY WaitFrame
  <1> HIDE DEF WaitCall, WaitCheck, WaitState, WaitWake, WaitTimeout, Close, CloseCancel
  <1> QED BY <1>1, <1>3, <1>4, <1>5, <1>6, <1>7

\* A parked waiter is told of what it waits for.
LEMMA WaitStepInv ==
    ASSUME TypeInv, HoldInv, WaitInv, [Next]_vars
    PROVE  WaitInv'
  <1> USE DEF WaitInv
  <1>0. /\ wait \in WaitRec /\ lastAck \in Int /\ \A o \in Offsets : o \in Int
    BY DEF TypeInv, Types, Offsets
  <1>1. wait' = Woken => wait'.st = wait.st /\ wait'.woken = (wait.st # "idle")
    BY <1>0 DEF Woken, WaitRec
  <1>2. ASSUME closing' \in {"reap", "detach", "final", "drain", "dropped"}
        PROVE  wait'.st = "idle"
    <2>1. \/ closing \in {"reap", "detach", "final", "drain", "dropped"}
          \/ WaitStep /\ wait' = NoWait
          \/ Exclusive /\ wait' = wait
      BY <1>2, ZenonT(60) DEF Next, WaitReturn
    <2>2. closing \in {"reap", "detach", "final", "drain", "dropped"} =>
             wait' = Woken \/ wait' = wait \/ wait' = NoWait
      BY ZenonT(60) DEF Next, WaitReturn, Shared, ApplyAck, Exclusive
    <2> HIDE DEF WaitStep
    <2> QED BY <1>0, <1>1, <2>1, <2>2 DEF NoWait, Exclusive
  <1>3. lastAck' < wait'.goal \/ wait'.woken \/ wait'.st \notin {"state", "parked"}
    <2>1. CASE wait' = Woken
      BY <1>0, <1>1, <2>1 DEF WaitRec
    <2>2. CASE UNCHANGED <<wait, lastAck>>
      BY <2>2
    <2>3. UNCHANGED lastAck \/ wait' = Woken
      BY LastAckFrame DEF Acks, ApplyAck
    <2>4. \/ wait' = wait \/ wait' = Woken
          \/ wait'.st \in {"idle", "check"}
          \/ wait'.goal = wait.goal /\ lastAck < wait.goal /\ UNCHANGED lastAck
          \/ /\ wait.st = "state" /\ UNCHANGED lastAck
             /\ wait'.goal = wait.goal /\ wait'.woken = wait.woken
      BY WaitMoves
    <2> QED BY <2>1, <2>2, <2>3, <2>4
  <1>4. ASSUME wait'.st = "parked", ~wait'.woken, closed', sup' = "done" PROVE FALSE
    <2>1. wait' = wait \/ WaitState
      <3>1. wait' # Woken
        BY <1>1, <1>4
      <3> HIDE DEF WaitState
      <3>2. \/ wait' = wait \/ wait' = Woken \/ WaitState
            \/ wait'.st \in {"idle", "check"} \/ wait'.st = "state"
        BY WaitMoves
      <3> QED BY <1>4, <3>1, <3>2
    <2>2. CASE WaitState
      BY <1>0, <1>4, <2>2 DEF WaitReturn, Refusing, NoWait
    <2>3. CASE FinalizeDrain
      BY <1>1, <1>4, <2>3
    <2>4. CASE CloseReap \/ DropStream \/ CloseFinal
      BY <1>4, <2>4 DEF Exclusive
    <2>5. CASE FinalizeClose
      BY <1>4, <2>5
    <2>6. ASSUME UNCHANGED closed, sup = "done", wait' = wait PROVE FALSE
      BY <1>4, <2>6
    <2>7. FinalizeClose \/ CloseFinal \/ DropStream \/ UNCHANGED closed
      BY ClosedFrame
    <2>8. FinalizeDrain \/ CloseReap \/ DropStream \/ sup = "done"
      BY <1>4, DoneFrame
    <2> HIDE DEF WaitState, FinalizeDrain, CloseReap, DropStream, CloseFinal, FinalizeClose
    <2> QED BY <1>4, <2>1, <2>2, <2>3, <2>4, <2>5, <2>6, <2>7, <2>8
  <1> QED BY <1>2, <1>3, <1>4

------------------------------------------------------------------------------
(* The snapshot of get_unacked_batches *)

\* Moving nothing changes nothing.
LEMMA MoveNothing ==
    ASSUME TypeInv, pending = <<>>, MovePendingToFailed
    PROVE  failed' = failed /\ pending' = <<>>
  <1>1. failed \in Seq(BatchRec)
    BY DEF TypeInv, Types
  <1> DEFINE cut == [i \in DOMAIN pending |-> UnacknowledgedSuffix(pending[i], acked)]
  <1>2. DOMAIN pending = {}
    OBVIOUS
  <1>3. cut = <<>> /\ {i \in DOMAIN pending : NumRows(cut[i]) > 0} = {}
    BY <1>2
  <1>4. UnackedParts(pending, acked) = Retain(cut, {i \in DOMAIN pending : NumRows(cut[i]) > 0})
    BY DEF UnackedParts
  <1>5. UnackedParts(pending, acked) = <<>>
    BY <1>3, <1>4, RetainEmpty
  <1>6. failed \o <<>> = failed
    BY <1>1, ConcatEmptySeq
  <1> QED BY <1>5, <1>6 DEF MovePendingToFailed

\* On a closed stream only a drain touches the batches.
LEMMA ClosedBatches ==
    ASSUME HoldInv, closed, [Next]_vars
    PROVE  MovePendingToFailed \/ UNCHANGED <<pending, failed>>
  <1>1. ASSUME NEW c \in Callers PROVE ~IngestPush(c) /\ ~IngestSendFails(c)
    BY DEF HoldInv, Held
  <1>2. ASSUME NEW n \in AckValues PROVE ~Acks(n)
    BY DEF HoldInv, Acks
  <1>3. ~ReplayInstall
    BY DEF HoldInv
  <1>4. FinalizeDrain \/ CloseDrain \/ GetUnacked => MovePendingToFailed
    OBVIOUS
  <1>5. \/ \E c \in Callers : IngestPush(c) \/ IngestSendFails(c)
        \/ \E n \in AckValues : Acks(n)
        \/ ReplayInstall \/ FinalizeDrain \/ CloseDrain \/ GetUnacked
        \/ UNCHANGED <<pending, failed>>
    BY BatchFrame
  <1> HIDE DEF IngestPush, IngestSendFails, ReplayInstall, FinalizeDrain, CloseDrain,
               GetUnacked
  <1> QED BY <1>1, <1>2, <1>3, <1>4, <1>5

\* A snapshot is of a closed stream with nothing pending.
LEMMA SnapStep ==
    ASSUME TypeInv, HoldInv, SnapInv, [Next]_vars
    PROVE  SnapInv' /\ (snapped => failed' = failed)
  <1>1. snapped' = snapped \/ GetUnacked
    BY ZenonT(60) DEF Next, WaitReturn
  <1>2. GetUnacked => closed /\ closed' /\ pending' = <<>>
    BY DEF MovePendingToFailed
  <1>3. closed => closed'
    BY ClosedFrame
  <1>4. closed /\ pending = <<>> => pending' = <<>> /\ failed' = failed
    BY ClosedBatches, MoveNothing
  <1> HIDE DEF GetUnacked
  <1> QED BY <1>1, <1>2, <1>3, <1>4 DEF SnapInv

------------------------------------------------------------------------------
(* The sender, the pause gate and the calls in their critical section *)

\* How a call moves, and what it leaves alone when it does.
LEMMA CallerMoves ==
    ASSUME TypeInv, [Next]_vars, NEW c \in Callers
    PROVE  \/ pc'[c] = pc[c]
           \/ /\ UNCHANGED <<sup, paused, sender, reqOpen>>
              /\ \/ pc[c] = "idle" /\ pc'[c] = "permit" /\ Shared
                 \/ pc[c] = "permit" /\ pc'[c] = "mutex"
                 \/ (\E n \in 1 .. MaxRows : IngestAssign(c, n)) /\ pc'[c] = "assigned"
                 \/ pc[c] = "assigned" /\ pc'[c] = "send" /\ ~paused
                 \/ pc[c] = "send" /\ pc'[c] = "commit" /\ sender /\ reqOpen
                 \/ pc[c] \in {"permit", "mutex"} /\ pc'[c] = "idle"
                 \/ pc[c] = "assigned" /\ pc'[c] = "idle" /\ paused
                 \/ pc[c] = "send" /\ pc'[c] = "idle" /\ ~reqOpen
                 \/ IngestCommit(c) /\ pc'[c] = "idle"
                 \/ pc[c] \in Held \cap Interrupts /\ pc'[c] = "idle"
  <1>0. pc \in [Callers -> Pcs]
    BY DEF TypeInv, Types
  <1>1. ASSUME NEW d \in Callers,
               \/ IngestStart(d) \/ IngestPermit(d) \/ IngestRefused(d) \/ IngestPush(d)
               \/ \E n \in 1 .. MaxRows : IngestAssign(d, n)
               \/ IngestReserve(d) \/ IngestSendFails(d) \/ IngestCommit(d) \/ IngestCancel(d),
               d # c
        PROVE  pc'[c] = pc[c]
    BY <1>0, <1>1
  <1>2. CASE IngestStart(c)
    BY <1>0, <1>2
  <1>3. CASE IngestPermit(c) \/ IngestRefused(c)
    BY <1>0, <1>3
  <1>4. CASE IngestPush(c)
    BY <1>0, <1>4
  <1>5. CASE \E n \in 1 .. MaxRows : IngestAssign(c, n)
    <2>1. pc'[c] = "assigned" /\ UNCHANGED <<sup, paused, sender, reqOpen>>
      BY <1>0, <1>5
    <2> HIDE DEF IngestAssign
    <2> QED BY <1>5, <2>1
  <1>6. CASE IngestReserve(c) \/ IngestSendFails(c)
    BY <1>0, <1>6
  <1>7. CASE IngestCommit(c)
    <2>1. pc'[c] = "idle" /\ UNCHANGED <<sup, paused, sender, reqOpen>>
      BY <1>0, <1>7
    <2> HIDE DEF IngestCommit
    <2> QED BY <1>7, <2>1
  <1>8. CASE IngestCancel(c)
    <2>1. pc'[c] = "idle" /\ UNCHANGED <<sup, paused, sender, reqOpen>> /\ pc[c] \in Interrupts
      BY <1>0, <1>8
    <2>2. pc[c] \in {"permit", "mutex"} \/ pc[c] \in Held \/ pc[c] = "idle"
      BY <1>0 DEF Pcs
    <2> HIDE DEF IngestCancel
    <2> QED BY <2>1, <2>2
  <1>9. \/ \E d \in Callers :
              \/ IngestStart(d) \/ IngestPermit(d) \/ IngestRefused(d) \/ IngestPush(d)
              \/ \E n \in 1 .. MaxRows : IngestAssign(d, n)
              \/ IngestReserve(d) \/ IngestSendFails(d) \/ IngestCommit(d) \/ IngestCancel(d)
        \/ UNCHANGED pc
    BY CallerFrame
  <1> HIDE DEF IngestStart, IngestPermit, IngestRefused, IngestPush, IngestAssign, IngestReserve,
               IngestSendFails, IngestCommit, IngestCancel
  <1> QED BY <1>1, <1>2, <1>3, <1>4, <1>5, <1>6, <1>7, <1>8, <1>9

\* The sender comes with a connection and goes before the next one; a paused stream has no
\* call between its look at the gate and its hand-off.
LEMMA GateStep ==
    ASSUME TypeInv, HoldInv, GateInv, [Next]_vars
    PROVE  GateInv'
  <1> DEFINE On == {"process", "half_close", "refresh"}
             Off == {"drain", "backoff", "connect", "replay", "replaying"}
  <1>0. \/ CreateOk \/ (\E n \in AckValues : CloseSignal(n)) \/ HalfClose \/ Pause
        \/ ReplayCommit \/ CloseDetach
        \/ UNCHANGED <<paused, sender>>
    BY GateFrame
  <1>1. /\ CreateOk => sup = "create" /\ sup' = "process" /\ sender' /\ UNCHANGED <<paused, pc>>
        /\ ReplayCommit => sup = "replaying" /\ sup' = "refresh" /\ sender' /\ ~paused'
        /\ HalfClose => sup = "half_close" /\ sup' = "drain" /\ paused' /\ ~sender'
                        /\ mutex = "free" /\ UNCHANGED pc
        /\ Pause => sup = "pause" /\ sup' = "backoff" /\ paused' /\ ~sender'
                    /\ mutex = "free" /\ UNCHANGED pc
        /\ CloseDetach => sup = "done" /\ sup' = "done" /\ ~sender' /\ UNCHANGED <<paused, pc>>
    BY DEF HoldInv
  <1>2. ASSUME NEW n \in AckValues, CloseSignal(n)
        PROVE  /\ sup = "process" /\ sup' \in {"process", "half_close"} /\ UNCHANGED <<sender, pc>>
               /\ paused' /\ mutex = "free"
    BY <1>2
  <1>3. mutex = "free" => \A c \in Callers : pc[c] \notin Held
    BY ArrowAssumptions DEF HoldInv
  <1>4. sup' \in {"create", "none"} => sup \in {"create", "none"}
    BY CreateFrame
  <1>5. sup' \in On => CreateOk \/ ReplayCommit \/ sup \in On
    BY AttachedFrame
  <1>6. sup' \in Off => HalfClose \/ Pause \/ sup \in Off
    BY DetachedFrame
  <1> HIDE DEF CreateOk, ReplayCommit, HalfClose, Pause, CloseDetach, CloseSignal
  <1>7. ASSUME sup' \in {"create", "none"}
        PROVE  ~sender' /\ ~paused' /\ \A c \in Callers : pc'[c] = "idle"
    <2>1. ~sender /\ ~paused /\ \A c \in Callers : pc[c] = "idle"
      BY <1>4, <1>7 DEF GateInv
    <2>2. UNCHANGED <<paused, sender>>
      BY <1>0, <1>1, <1>2, <1>4, <1>7
    <2>3. \A c \in Callers : pc'[c] = pc[c]
      <3>1. ~Shared
        BY <1>4, <1>7 DEF Shared
      <3>2. ASSUME NEW c \in Callers PROVE ~IngestCommit(c) /\ \A n : ~IngestAssign(c, n)
        BY <2>1
      <3> HIDE DEF IngestCommit, IngestAssign
      <3> QED BY <2>1, <3>1, <3>2, CallerMoves DEF Held
    <2> QED BY <2>1, <2>2, <2>3
  <1>8. sup' \in On => sender'
    BY <1>0, <1>1, <1>2, <1>5 DEF GateInv
  <1>9. sup' \in Off => ~sender' /\ paused'
    BY <1>0, <1>1, <1>2, <1>6 DEF GateInv
  <1>10. ASSUME paused', NEW c \in Callers PROVE pc'[c] \notin {"send", "commit"}
    <2>1. CASE UNCHANGED paused
      <3>1. pc[c] \notin {"send", "commit"}
        BY <1>10, <2>1 DEF GateInv
      <3> HIDE DEF IngestCommit, IngestAssign
      <3> QED BY <1>10, <2>1, <3>1, CallerMoves
    <2>2. CASE UNCHANGED pc /\ mutex = "free"
      BY <1>3, <2>2 DEF Held
    <2> QED BY <1>0, <1>1, <1>2, <1>10, <2>1, <2>2
  <1> QED BY <1>7, <1>8, <1>9, <1>10 DEF GateInv

------------------------------------------------------------------------------
(* Rows *)

\* What is cut off a batch is acknowledged rows, and what is renumbered keeps its rows.
LEMMA RebuildWhole ==
    ASSUME Types, PartInv, NEW n \in Int
    PROVE  \A i \in 1 .. Len(RebuildPending(pending, n)) :
              Whole(RebuildPending(pending, n)[i], size)
  <1> DEFINE cut == [i \in DOMAIN pending |-> UnacknowledgedSuffix(pending[i], n)]
             I == {i \in DOMAIN pending : NumRows(cut[i]) > 0}
             kept == UnackedParts(pending, n)
             before(i) == RowCount(SubSeq(kept, 1, i - 1))
             new(i) == [kept[i] EXCEPT !.start = before(i), !.end = before(i) + NumRows(kept[i])]
  <1>1. /\ Len(pending) \in Nat /\ DOMAIN pending = 1 .. Len(pending)
        /\ \A i \in 1 .. Len(pending) : pending[i] \in BatchRec
    BY LenProperties, ElementOfSeq DEF Types
  <1>2. \A o \in Offsets : size[o] \in Int
    BY ArrowAssumptions DEF Types
  <1>3. ASSUME NEW i \in 1 .. Len(pending), NumRows(cut[i]) > 0 PROVE Whole(cut[i], size)
    <2> DEFINE b == pending[i]
    <2>1. b \in BatchRec /\ b.skip >= 0 /\ size[b.offset] - b.skip >= 1
      BY <1>1 DEF PartInv, Whole
    <2>2. /\ b.offset \in Offsets /\ b.skip \in Int /\ b.start \in Int
          /\ size[b.offset] \in Int
      BY <1>2, <2>1 DEF BatchRec
    <2>3. cut[i] = UnacknowledgedSuffix(b, n)
      BY <1>1
    <2>4. cut[i].offset = b.offset /\ cut[i].skip \in Int /\ cut[i].skip >= b.skip
      <3> HIDE DEF b
      <3>1. CASE b.start >= n
        <4>1. cut[i] = b
          BY <2>3, <3>1 DEF UnacknowledgedSuffix
        <4> HIDE DEF cut
        <4> QED BY <2>2, <4>1
      <3>2. CASE ~(b.start >= n)
        <4> DEFINE k == IF n - b.start < NumRows(b) THEN n - b.start ELSE NumRows(b)
        <4>1. k \in Int /\ k >= 0
          BY <2>1, <2>2, <3>2 DEF NumRows
        <4>2. cut[i] = [b EXCEPT !.skip = b.skip + k]
          BY <2>3, <3>2 DEF UnacknowledgedSuffix
        <4> HIDE DEF k
        <4>3. cut[i].offset = b.offset /\ cut[i].skip = b.skip + k
          BY <2>1, <4>2 DEF BatchRec
        <4> QED BY <2>2, <4>1, <4>3
      <3> QED BY <3>1, <3>2
    <2>5. size[b.offset] - cut[i].skip > 0
      BY <1>3, <2>4 DEF NumRows
    <2> HIDE DEF b, cut
    <2> QED BY <2>1, <2>2, <2>4, <2>5 DEF Whole
  <1>4. cut \in Seq(BatchRec) /\ kept \in Seq(BatchRec) /\ kept = Retain(cut, I)
    BY PartsType DEF UnackedParts
  <1>5. I \in SUBSET (1 .. Len(cut)) /\ \A i \in I : Whole(cut[i], size)
    <2>1. DOMAIN cut = 1 .. Len(cut) /\ DOMAIN cut = DOMAIN pending
      BY <1>4, LenProperties
    <2> HIDE DEF cut
    <2> QED BY <1>1, <1>3, <2>1
  <1> HIDE DEF cut, I
  <1>6. \A k \in 1 .. Len(kept) : Whole(kept[k], size)
    <2>1. PICK e \in [1 .. Cardinality(I) -> I] :
             \A k \in 1 .. Cardinality(I) : Retain(cut, I)[k] = cut[e[k]]
      BY <1>4, <1>5, RetainProperties
    <2>2. Len(kept) = Cardinality(I)
      BY <1>4, <1>5, RetainProperties
    <2> HIDE DEF kept
    <2> QED BY <1>4, <1>5, <2>1, <2>2
  <1>7. RebuildPending(pending, n) = [i \in DOMAIN kept |-> new(i)]
    BY DEF RebuildPending
  <1> HIDE DEF kept
  <1>8. /\ Len(kept) \in Nat /\ DOMAIN kept = 1 .. Len(kept)
        /\ \A i \in 1 .. Len(kept) : kept[i] \in BatchRec
    BY <1>4, LenProperties, ElementOfSeq
  <1>9. ASSUME NEW i \in 1 .. Len(kept) PROVE Whole(new(i), size)
    <2>1. \A b \in BatchRec : \A x, y :
             /\ [b EXCEPT !.start = x, !.end = y].offset = b.offset
             /\ [b EXCEPT !.start = x, !.end = y].skip = b.skip
      BY DEF BatchRec
    <2>2. new(i).offset = kept[i].offset /\ new(i).skip = kept[i].skip
      BY <1>8, <2>1
    <2> HIDE DEF new
    <2> QED BY <1>6, <2>2 DEF Whole
  <1> HIDE DEF new
  <1>10. Len(RebuildPending(pending, n)) = Len(kept)
    BY RebuildType DEF kept
  <1> QED BY <1>7, <1>8, <1>9, <1>10

\* Every pending batch keeps a row that is not acknowledged.
LEMMA PartStep ==
    ASSUME TypeInv, PartInv, [Next]_vars
    PROVE  PartInv'
  <1> DEFINE Good(s) == \A i \in 1 .. Len(s) : Whole(s[i], size)
  <1>0. /\ Types /\ pending \in Seq(BatchRec) /\ Len(pending) \in Nat
        /\ DOMAIN pending = 1 .. Len(pending)
    BY LenProperties DEF TypeInv, Types
  <1>1. ASSUME NEW I \in SUBSET (1 .. Len(pending)), pending' = Retain(pending, I)
        PROVE  Good(pending')
    <2>1. PICK e \in [1 .. Cardinality(I) -> I] :
             \A k \in 1 .. Cardinality(I) : Retain(pending, I)[k] = pending[e[k]]
      BY <1>0, RetainProperties
    <2>2. Len(Retain(pending, I)) = Cardinality(I)
      BY <1>0, RetainProperties
    <2> QED BY <1>1, <2>1, <2>2 DEF PartInv
  <1>2. ASSUME NEW c \in Callers, IngestPush(c) PROVE Good(pending')
    <2> DEFINE b == [offset |-> Current, skip |-> 0, start |-> assigned - size[Current],
                     end |-> assigned]
    <2>1. Current \in Offsets /\ size[Current] \in 1 .. MaxRows
      BY <1>2, CurrentOffset DEF Held
    <2>2. Whole(b, size)
      BY <2>1 DEF Whole
    <2>3. pending' = Append(pending, b)
      BY <1>2
    <2>4. b \in BatchRec
      <3>1. size[Current] \in Int /\ assigned \in Int
        BY <1>0, <2>1 DEF Types
      <3> QED BY <2>1, <3>1 DEF BatchRec
    <2> HIDE DEF b, IngestPush
    <2>5. /\ Len(pending') = Len(pending) + 1 /\ pending'[Len(pending) + 1] = b
          /\ \A i \in 1 .. Len(pending) : pending'[i] = pending[i]
      <3>1. pending \in Seq(BatchRec)
        BY <1>0
      <3> QED BY <2>3, <2>4, <3>1, AppendProperties
    <2>6. \A i \in 1 .. Len(pending) + 1 : i = Len(pending) + 1 \/ i \in 1 .. Len(pending)
      BY <1>0
    <2> QED BY <2>2, <2>5, <2>6 DEF PartInv
  <1>3. ASSUME NEW c \in Callers, IngestSendFails(c) PROVE Good(pending')
    <2> DEFINE I == {i \in DOMAIN pending : pending[i].offset # Current}
    <2>1. pending' = pending \/ pending' = Retain(pending, I)
      BY <1>3
    <2>2. I \in SUBSET (1 .. Len(pending))
      BY <1>0
    <2> HIDE DEF I
    <2> QED BY <1>1, <2>1, <2>2 DEF PartInv
  <1>4. ASSUME NEW n \in AckValues, Acks(n) PROVE Good(pending')
    <2>1. \E I \in SUBSET (1 .. Len(pending)) : pending' = Retain(pending, I)
      <3> DEFINE effective == IF n > acked THEN n ELSE acked
                 I == DOMAIN pending \ {i \in DOMAIN pending :
                                           FullyAcknowledged(pending[i], effective)}
      <3>1. pending' = Retain(pending, I)
        BY <1>4 DEF Acks, ApplyAck
      <3>2. I \in SUBSET (1 .. Len(pending))
        BY <1>0
      <3> HIDE DEF I
      <3> QED BY <3>1, <3>2
    <2> QED BY <1>1, <2>1
  <1>5. ASSUME ReplayInstall PROVE Good(pending')
    <2>1. pending' = RebuildPending(pending, ackedBefore) /\ ackedBefore \in Int
      BY <1>0, <1>5 DEF Types
    <2> QED BY <1>0, <2>1, RebuildWhole
  <1>6. ASSUME MovePendingToFailed PROVE Good(pending')
    BY <1>6 DEF MovePendingToFailed
  <1>7. FinalizeDrain \/ CloseDrain \/ GetUnacked => MovePendingToFailed
    OBVIOUS
  <1>8. \/ \E c \in Callers : IngestPush(c) \/ IngestSendFails(c)
        \/ \E n \in AckValues : Acks(n)
        \/ ReplayInstall \/ FinalizeDrain \/ CloseDrain \/ GetUnacked
        \/ UNCHANGED <<pending, failed>>
    BY BatchFrame
  <1>9. Good(pending')
    <2>1. CASE UNCHANGED pending
      BY <2>1 DEF PartInv
    <2> HIDE DEF IngestPush, IngestSendFails, ReplayInstall, FinalizeDrain, CloseDrain, GetUnacked,
                 Good
    <2> QED BY <1>2, <1>3, <1>4, <1>5, <1>6, <1>7, <1>8, <2>1
  <1>10. \A o \in Offsets : size[o] >= 1 => size'[o] = size[o]
    <2>1. ASSUME NEW c \in Callers, NEW n \in 1 .. MaxRows, IngestAssign(c, n),
                 NEW o \in Offsets, size[o] >= 1
          PROVE  size'[o] = size[o]
      <3>1. size[LastOffset + 1] = 0
        BY <2>1, NextOffset
      <3>2. size' = [size EXCEPT ![LastOffset + 1] = n] /\ size \in [Offsets -> 0 .. MaxRows]
        BY <1>0, <2>1 DEF Types
      <3> QED BY <2>1, <3>1, <3>2
    <2> HIDE DEF IngestAssign
    <2> QED BY <2>1, SizeFrame
  <1>11. pending' \in Seq(BatchRec) /\ \A i \in 1 .. Len(pending') : pending'[i] \in BatchRec
    BY TypesStep, ElementOfSeq DEF Types
  <1>12. \A b \in BatchRec : Whole(b, size) => Whole(b, size')
    <2>1. \A o \in Offsets : size[o] \in Int
      BY <1>0, ArrowAssumptions DEF Types
    <2>2. \A b \in BatchRec : b.offset \in Offsets /\ b.skip \in Int
      BY DEF BatchRec
    <2> QED BY <1>10, <2>1, <2>2 DEF Whole
  <1> QED BY <1>9, <1>11, <1>12 DEF PartInv

\* The rows of a batch, in order.
LEMMA RowSeqType ==
    ASSUME NEW b, b.offset \in Offsets, b.skip \in Int, size[b.offset] - b.skip \in Nat
    PROVE  RowSeq(b) \in Seq(Offsets \X Int) /\ Len(RowSeq(b)) = NumRows(b)
  <1>1. NumRows(b) \in Nat
    BY DEF NumRows
  <1>2. RowSeq(b) \in [1 .. NumRows(b) -> Offsets \X Int]
    BY <1>1 DEF RowSeq
  <1> QED BY <1>1, <1>2

\* No batches have no rows, and every batch adds its own.
LEMMA RowCountGrows ==
    ASSUME NEW s \in Seq(BatchRec),
           \A i \in 1 .. Len(s) : NumRows(s[i]) \in 0 .. MaxRows
    PROVE  /\ RowCount(SubSeq(s, 1, 0)) = 0
           /\ RowCount(SubSeq(s, 1, Len(s))) = RowCount(s)
           /\ \A k \in 0 .. Len(s) - 1 :
                 RowCount(SubSeq(s, 1, k + 1)) = RowCount(SubSeq(s, 1, k)) + NumRows(s[k + 1])
  <1> DEFINE Q(k) == {r \in (1 .. k) \X (1 .. MaxRows) : r[2] <= NumRows(s[r[1]])}
  <1>0. /\ Len(s) \in Nat /\ MaxRows \in Nat /\ DOMAIN s = 1 .. Len(s)
        /\ \A i \in 1 .. Len(s) : s[i] \in BatchRec
    BY LenProperties, ElementOfSeq, ArrowAssumptions
  <1>1. ASSUME NEW k \in 0 .. Len(s)
        PROVE  RowCount(SubSeq(s, 1, k)) = Cardinality(Q(k))
    <2>1. SubSeq(s, 1, k) = [i \in 1 .. k |-> s[i]]
      BY <1>0
    <2>2. {r \in (DOMAIN SubSeq(s, 1, k)) \X (1 .. MaxRows) :
              r[2] <= NumRows(SubSeq(s, 1, k)[r[1]])} = Q(k)
      BY <2>1
    <2> QED BY <2>2 DEF RowCount
  <1>2. \A k \in 0 .. Len(s) : IsFiniteSet(Q(k)) /\ Cardinality(Q(k)) \in Nat
    <2> SUFFICES ASSUME NEW k \in 0 .. Len(s)
                 PROVE  IsFiniteSet(Q(k)) /\ Cardinality(Q(k)) \in Nat
      OBVIOUS
    <2>1. IsFiniteSet(1 .. k) /\ IsFiniteSet(1 .. MaxRows)
      BY <1>0, FS_Interval
    <2>2. IsFiniteSet((1 .. k) \X (1 .. MaxRows))
      BY <2>1, FS_Product
    <2>3. IsFiniteSet(Q(k))
      BY <2>2, FS_Subset
    <2> QED BY <2>3, FS_CardinalityType
  <1>3. RowCount(SubSeq(s, 1, 0)) = 0
    <2>1. Q(0) = {} /\ 0 \in 0 .. Len(s)
      BY <1>0
    <2>2. Cardinality(Q(0)) = 0
      BY <2>1, FS_EmptySet
    <2> HIDE DEF Q
    <2> QED BY <1>1, <2>1, <2>2
  <1>4. RowCount(SubSeq(s, 1, Len(s))) = RowCount(s)
    <2>1. SubSeq(s, 1, Len(s)) = s
      BY <1>0
    <2> QED BY <2>1
  <1>5. ASSUME NEW k \in 0 .. Len(s) - 1
        PROVE  RowCount(SubSeq(s, 1, k + 1)) = RowCount(SubSeq(s, 1, k)) + NumRows(s[k + 1])
    <2> DEFINE m == NumRows(s[k + 1])
               P == {k + 1} \X (1 .. m)
    <2>1. k \in Nat /\ k \in 0 .. Len(s) /\ k + 1 \in 0 .. Len(s) /\ k + 1 \in 1 .. Len(s)
      BY <1>0
    <2>2. m \in 0 .. MaxRows
      BY <2>1
    <2>3. Q(k + 1) = Q(k) \cup P
      <3> HIDE DEF m
      <3>1. \A i : i \in 1 .. k + 1 <=> i \in 1 .. k \/ i = k + 1
        BY <2>1
      <3>2. \A j : j \in 1 .. MaxRows /\ j <= m <=> j \in 1 .. m
        BY <1>0, <2>2
      <3>3. \A r : r \in Q(k + 1) => r \in Q(k) \cup P
        BY <3>1, <3>2 DEF m
      <3>4. \A r : r \in Q(k) \cup P => r \in Q(k + 1)
        BY <3>1, <3>2 DEF m
      <3> QED BY <3>3, <3>4
    <2>4. Q(k) \cap P = {}
      BY <2>1
    <2>5. IsFiniteSet(P) /\ Cardinality(P) = m
      <3> HIDE DEF m
      <3>1. IsFiniteSet({k + 1}) /\ Cardinality({k + 1}) = 1
        BY FS_Singleton
      <3>2. IsFiniteSet(1 .. m) /\ Cardinality(1 .. m) = m
        BY <2>2, FS_Interval
      <3>3. IsFiniteSet(P) /\ Cardinality(P) = Cardinality({k + 1}) * Cardinality(1 .. m)
        BY <3>1, <3>2, FS_Product, ZenonT(60)
      <3> HIDE DEF P
      <3> QED BY <2>2, <3>1, <3>2, <3>3
    <2>6. Cardinality({}) = 0
      BY FS_EmptySet
    <2> HIDE DEF P, Q, m
    <2>7. Cardinality(Q(k) \cup P) = Cardinality(Q(k)) + Cardinality(P) - Cardinality(Q(k) \cap P)
      BY <1>2, <2>1, <2>5, FS_Union
    <2>8. Cardinality(Q(k + 1)) = Cardinality(Q(k)) + m
      <3>1. Cardinality(Q(k)) \in Nat
        BY <1>2, <2>1
      <3>2. Cardinality(Q(k + 1)) = Cardinality(Q(k)) + m - 0
        BY <2>3, <2>4, <2>5, <2>6, <2>7
      <3> QED BY <2>2, <3>1, <3>2
    <2> QED BY <1>1, <2>1, <2>8 DEF m
  <1> QED BY <1>3, <1>4, <1>5

\* The rows of pending batches fit the bound.
LEMMA PendingRows ==
    ASSUME Types, PartInv
    PROVE  \A i \in 1 .. Len(pending) : NumRows(pending[i]) \in 1 .. MaxRows
  <1>1. \A i \in 1 .. Len(pending) : pending[i] \in BatchRec
    BY ElementOfSeq DEF Types
  <1>2. \A o \in Offsets : size[o] \in 0 .. MaxRows
    BY DEF Types
  <1> SUFFICES ASSUME NEW i \in 1 .. Len(pending) PROVE NumRows(pending[i]) \in 1 .. MaxRows
    OBVIOUS
  <1>3. pending[i].offset \in Offsets /\ pending[i].skip \in Int
    BY <1>1 DEF BatchRec
  <1> QED BY <1>2, <1>3, ArrowAssumptions DEF PartInv, Whole, NumRows

------------------------------------------------------------------------------
(* Submitted records *)

\* Drawing an offset makes it the current one.
LEMMA AssignCurrent ==
    ASSUME TypeInv, NEW c \in Callers, NEW n \in 1 .. MaxRows, IngestAssign(c, n)
    PROVE  Current' = LastOffset + 1 /\ size'[Current'] = n
  <1> DEFINE D == {o \in Offsets : size[o] > 0}
             E == {o \in Offsets : size'[o] > 0}
             l == LastOffset + 1
  <1>1. l \in Offsets /\ size[l] = 0
    BY NextOffset
  <1>2. size' = [size EXCEPT ![l] = n] /\ size \in [Offsets -> 0 .. MaxRows]
    BY DEF TypeInv, Types
  <1>3. n > 0 /\ size'[l] = n /\ \A o \in Offsets : size'[o] = IF o = l THEN n ELSE size[o]
    BY <1>1, <1>2, ArrowAssumptions
  <1>4. E = D \cup {l} /\ l \notin D
    BY <1>1, <1>3
  <1>5. Cardinality(E) = Cardinality(D) + 1
    BY <1>4, LastType, FS_AddElement
  <1>6. LastOffset = Cardinality(D) - 1 /\ LastOffset' = Cardinality(E) - 1
    BY DEF LastOffset
  <1>7. Cardinality(D) \in Nat
    BY LastType, FS_CardinalityType
  <1> HIDE DEF D, E
  <1>8. LastOffset' = l
    BY <1>5, <1>6, <1>7
  <1> QED BY <1>3, <1>8 DEF Current

\* While the supervisor replays, nobody else touches the batches.
LEMMA ReplayAlone ==
    ASSUME HoldInv, sup = "replaying", [Next]_vars
    PROVE  UNCHANGED <<pending, size>>
  <1>1. ASSUME NEW c \in Callers
        PROVE  ~IngestPush(c) /\ ~IngestSendFails(c) /\ \A n : ~IngestAssign(c, n)
    BY ArrowAssumptions DEF HoldInv, Held
  <1>2. ASSUME NEW n \in AckValues PROVE ~Acks(n)
    BY DEF Acks
  <1>3. ~ReplayInstall /\ ~FinalizeDrain /\ ~CloseDrain /\ ~GetUnacked
    BY DEF HoldInv
  <1>4. \/ \E c \in Callers : IngestPush(c) \/ IngestSendFails(c)
        \/ \E n \in AckValues : Acks(n)
        \/ ReplayInstall \/ FinalizeDrain \/ CloseDrain \/ GetUnacked
        \/ UNCHANGED <<pending, failed>>
    BY BatchFrame
  <1>5. (\E c \in Callers, n \in 1 .. MaxRows : IngestAssign(c, n)) \/ UNCHANGED size
    BY SizeFrame
  <1> HIDE DEF IngestPush, IngestSendFails, IngestAssign, ReplayInstall, FinalizeDrain, CloseDrain,
               GetUnacked
  <1> QED BY <1>1, <1>2, <1>3, <1>4, <1>5

\* The steps that count or hand over records, or open the gate.
Counts == \/ \E c \in Callers : IngestCommit(c) \/ \E n \in 1 .. MaxRows : IngestAssign(c, n)
          \/ ReplayInstall \/ ReplaySend \/ CreateOk \/ Connect \/ ReplayCommit

\* Every other step keeps the counters right.
LEMMA CountIdle ==
    ASSUME Undropped, TypeInv, HoldInv, GateInv, CountInv, [Next]_vars, ~Counts
    PROVE  CountInv'
  <1> HIDE DEF IngestCommit, IngestAssign, ReplayInstall, ReplaySend, CreateOk, Connect,
               ReplayCommit
  <1>1. UNCHANGED <<assigned, submitted, size, handed>>
    <2>1. ASSUME NEW n \in AckValues, Acks(n) PROVE UNCHANGED <<assigned, submitted>>
      BY <2>1 DEF Acks
    <2>2. UNCHANGED <<assigned, submitted>>
      BY <2>1, CounterFrame DEF Counts
    <2>3. UNCHANGED size
      BY SizeFrame DEF Counts
    <2>4. UNCHANGED handed
      BY HandedFrame DEF Counts
    <2> QED BY <2>2, <2>3, <2>4
  <1>2. Current' = Current
    BY <1>1 DEF Current, LastOffset
  <1>3. (sender' => sender) /\ (sender' /\ ~paused' => ~paused)
    <2>1. ASSUME (\E n \in AckValues : CloseSignal(n)) \/ HalfClose \/ Pause \/ CloseDetach
          PROVE  (sender' => sender) /\ (sender' /\ ~paused' => ~paused)
      BY <2>1
    <2>2. \/ CreateOk \/ (\E n \in AckValues : CloseSignal(n)) \/ HalfClose \/ Pause
          \/ ReplayCommit \/ CloseDetach
          \/ UNCHANGED <<paused, sender>>
      BY GateFrame
    <2> HIDE DEF CloseSignal, HalfClose, Pause, CloseDetach
    <2> QED BY <2>1, <2>2 DEF Counts
  <1>4. reqOpen' => reqOpen
    BY RequestFrame DEF Counts
  <1>5. sup' \in {"create", "none"} => sup \in {"create", "none"}
    BY CreateFrame
  <1>6. sup' = "replay" => sup = "replay"
    BY ReplayFrom DEF Counts
  <1>7. sup' = "replaying" =>
           sup = "replaying" /\ UNCHANGED <<replayed, pending, size>>
    BY ReplayingFrame, ReplayAlone DEF Counts
  <1>8. sup' = "drain" => sup = "drain" \/ sender
    <2>1. sup' = "drain" => sup \in {"drain", "half_close"}
      BY DrainFrame
    <2> QED BY <2>1 DEF GateInv
  <1>9. ASSUME NEW c \in Callers, pc[c] \in Held, sender', ~paused', reqOpen'
        PROVE  pc'[c] \in Held
    <2>1. ~IngestCommit(c) /\ ~\E n \in 1 .. MaxRows : IngestAssign(c, n)
      BY DEF Counts
    <2>2. ~paused /\ reqOpen /\ pc[c] \notin Held \cap Interrupts
      BY <1>3, <1>4, <1>9 DEF Undropped
    <2> QED BY <1>9, <2>1, <2>2, CallerMoves DEF Held
  <1>10. ASSUME NEW c \in Callers, pc'[c] \in Held
         PROVE  /\ pc[c] \in Held
                /\ pc'[c] = "commit" => pc[c] = "commit" \/ (sender /\ ~paused /\ reqOpen)
    <2>1. ~IngestCommit(c) /\ ~\E n \in 1 .. MaxRows : IngestAssign(c, n)
      BY DEF Counts
    <2>2. pc[c] = "send" => ~paused
      BY DEF GateInv
    <2> QED BY <1>10, <2>1, <2>2, CallerMoves DEF Held
  <1>11. ASSUME sup' = "replaying"
         PROVE  /\ replayed' <= Len(pending') /\ assigned' = RowCount(pending)'
                /\ submitted' = RowCount(SubSeq(pending, 1, replayed))'
    <2>1. /\ RowCount(pending)' = RowCount(pending)
          /\ RowCount(SubSeq(pending, 1, replayed))' = RowCount(SubSeq(pending, 1, replayed))
      BY <1>7, <1>11 DEF RowCount, NumRows
    <2> QED BY <1>1, <1>7, <1>11, <2>1 DEF CountInv
  <1>12. sender' \/ sup' \in {"drain", "replaying"} => submitted' = Len(handed')
    BY <1>1, <1>3, <1>7, <1>8 DEF CountInv
  <1>13. sender' /\ ~paused' /\ reqOpen' /\ (\A c \in Callers : pc'[c] \notin Held) =>
            assigned' = submitted'
    BY <1>1, <1>3, <1>4, <1>9 DEF CountInv
  <1>14. ASSUME NEW c \in Callers,
                pc'[c] = "commit" \/ (pc'[c] \in Held /\ sender' /\ ~paused' /\ reqOpen')
         PROVE  assigned' = submitted' + size'[Current']
    <2>1. pc[c] = "commit" \/ (pc[c] \in Held /\ sender /\ ~paused /\ reqOpen)
      BY <1>3, <1>4, <1>10, <1>14 DEF Held
    <2> QED BY <1>1, <1>2, <2>1 DEF CountInv
  <1> QED BY <1>1, <1>5, <1>6, <1>11, <1>12, <1>13, <1>14 DEF CountInv

\* Watermark and hand-off are one step, and a replay ends with everything submitted.
LEMMA CountStep ==
    ASSUME Undropped, TypeInv, HoldInv, GateInv, PartInv, CountInv, [Next]_vars
    PROVE  CountInv'
  <1>0. /\ Types /\ handed \in Seq(Offsets \X Int) /\ Len(handed) \in Nat
        /\ assigned \in Int /\ submitted \in Int /\ replayed \in Nat
        /\ pending \in Seq(BatchRec) /\ Len(pending) \in Nat
        /\ size \in [Offsets -> 0 .. MaxRows]
    BY LenProperties DEF TypeInv, Types, CountInv
  <1>1. mutex \in {"free", "sup"} => \A c \in Callers : pc[c] \notin Held
    BY ArrowAssumptions DEF HoldInv
  <1>2. ASSUME NEW c \in Callers, IngestCommit(c) PROVE CountInv'
    <2> DEFINE b == [offset |-> Current, skip |-> 0]
    <2>1. /\ pc[c] = "commit" /\ submitted' = assigned /\ handed' = handed \o RowSeq(b)
          /\ UNCHANGED <<assigned, size, pending, sup, paused, sender, reqOpen>>
          /\ pc' = [pc EXCEPT ![c] = "idle"] /\ pc \in [Callers -> Pcs]
      BY <1>0, <1>2 DEF Types
    <2>2. Current \in Offsets /\ size[Current] \in 1 .. MaxRows
      BY <2>1, CurrentOffset DEF Held
    <2>3. RowSeq(b) \in Seq(Offsets \X Int) /\ Len(RowSeq(b)) = size[Current]
      <3>1. b.offset \in Offsets /\ b.skip \in Int /\ size[b.offset] - b.skip \in Nat
        BY <2>2
      <3>2. NumRows(b) = size[Current]
        BY <2>2 DEF NumRows
      <3> HIDE DEF b
      <3> QED BY <3>1, <3>2, RowSeqType
    <2> HIDE DEF b
    <2>4. handed' \in Seq(Offsets \X Int) /\ Len(handed') = Len(handed) + size[Current]
      BY <1>0, <2>1, <2>3, ConcatProperties
    <2>5. sup \notin {"create", "none", "drain", "backoff", "connect", "replay", "replaying"}
      BY <2>1 DEF GateInv
    <2>6. assigned = submitted + size[Current] /\ (sender => submitted = Len(handed))
      BY <2>1 DEF CountInv
    <2>7. \A d \in Callers : pc'[d] \notin Held
      <3>1. \A d \in Callers : d # c => pc[d] \notin Held
        BY <2>1 DEF HoldInv, Held
      <3> QED BY <2>1, <3>1 DEF Held
    <2> HIDE DEF IngestCommit
    <2>8. sender' \/ sup' \in {"drain", "replaying"} => submitted' = Len(handed')
      BY <2>1, <2>4, <2>5, <2>6
    <2> QED BY <2>1, <2>4, <2>5, <2>7, <2>8 DEF CountInv, Held
  <1>3. ASSUME NEW c \in Callers, NEW n \in 1 .. MaxRows, IngestAssign(c, n) PROVE CountInv'
    <2>1. /\ pc[c] = "mutex" /\ mutex = "free" /\ assigned' = assigned + n
          /\ UNCHANGED <<submitted, handed, pending, sup, paused, sender, reqOpen, replayed>>
          /\ pc' = [pc EXCEPT ![c] = "assigned"] /\ pc \in [Callers -> Pcs]
      BY <1>0, <1>3 DEF Types
    <2>2. \A d \in Callers : pc[d] \notin Held
      BY <1>1, <2>1
    <2>3. sup \notin {"create", "none", "replaying"}
      BY <2>1 DEF GateInv, HoldInv
    <2>4. pc'[c] \in Held /\ \A d \in Callers : pc'[d] \in Held => d = c /\ pc'[d] = "assigned"
      BY <2>1, <2>2 DEF Held
    <2>5. size'[Current'] = n /\ n \in Int
      <3> HIDE DEF IngestAssign
      <3> QED BY <1>3, AssignCurrent
    <2>6. sender /\ ~paused /\ reqOpen => assigned' = submitted' + size'[Current']
      BY <1>0, <2>1, <2>2, <2>5 DEF CountInv
    <2> HIDE DEF IngestAssign
    <2> QED BY <2>1, <2>3, <2>4, <2>6 DEF CountInv, Held
  <1>4. ASSUME ReplaySend PROVE CountInv'
    <2> DEFINE b == pending[replayed + 1]
    <2>1. /\ sup = "replaying" /\ replayed < Len(pending) /\ handed' = handed \o RowSeq(b)
          /\ submitted' = submitted + NumRows(b) /\ replayed' = replayed + 1
          /\ UNCHANGED <<assigned, pending, sup, paused, sender, pc, size>>
      BY <1>4
    <2>2. replayed + 1 \in 1 .. Len(pending) /\ replayed \in 0 .. Len(pending) - 1
      BY <1>0, <2>1
    <2>3. NumRows(b) \in 1 .. MaxRows /\ b \in BatchRec
      BY <1>0, <2>2, PendingRows, ElementOfSeq
    <2>4. RowSeq(b) \in Seq(Offsets \X Int) /\ Len(RowSeq(b)) = NumRows(b)
      <3>1. b.offset \in Offsets /\ b.skip \in Int /\ size[b.offset] - b.skip \in Nat
        BY <2>3 DEF BatchRec, NumRows
      <3> HIDE DEF b
      <3> QED BY <3>1, RowSeqType
    <2>5. RowCount(SubSeq(pending, 1, replayed + 1)) =
             RowCount(SubSeq(pending, 1, replayed)) + NumRows(b)
      <3>1. \A i \in 1 .. Len(pending) : NumRows(pending[i]) \in 0 .. MaxRows
        BY <1>0, PendingRows, ArrowAssumptions
      <3> QED BY <1>0, <2>2, <3>1, RowCountGrows
    <2> HIDE DEF b, ReplaySend
    <2>6. handed' \in Seq(Offsets \X Int) /\ Len(handed') = Len(handed) + NumRows(b)
      <3>1. /\ handed \o RowSeq(b) \in Seq(Offsets \X Int)
            /\ Len(handed \o RowSeq(b)) = Len(handed) + Len(RowSeq(b))
        BY <1>0, <2>4, ConcatProperties
      <3> QED BY <2>1, <2>4, <3>1
    <2>7. /\ RowCount(pending)' = RowCount(pending)
          /\ RowCount(SubSeq(pending, 1, replayed))' = RowCount(SubSeq(pending, 1, replayed + 1))
      BY <2>1 DEF RowCount, NumRows
    <2>8. /\ submitted = Len(handed) /\ assigned = RowCount(pending)
          /\ submitted = RowCount(SubSeq(pending, 1, replayed))
      BY <2>1 DEF CountInv
    <2>9. /\ replayed' <= Len(pending') /\ assigned' = RowCount(pending)'
          /\ submitted' = RowCount(SubSeq(pending, 1, replayed))'
          /\ submitted' = Len(handed')
      BY <1>0, <2>1, <2>2, <2>5, <2>6, <2>7, <2>8
    <2>10. ~sender /\ \A c \in Callers : pc[c] \notin Held
      BY <1>1, <2>1 DEF GateInv, HoldInv
    <2> QED BY <2>1, <2>6, <2>9, <2>10 DEF CountInv, Held
  <1>5. ASSUME ReplayInstall PROVE CountInv'
    <2>1. /\ sup = "replay" /\ mutex = "free" /\ sup' = "replaying"
          /\ pending' = RebuildPending(pending, ackedBefore)
          /\ assigned' = RowCount(RebuildPending(pending, ackedBefore))
          /\ submitted' = 0 /\ replayed' = 0
          /\ UNCHANGED <<handed, paused, sender, pc, size>>
      BY <1>5
    <2> HIDE DEF ReplayInstall
    <2>2. handed = <<>> /\ ~sender /\ \A c \in Callers : pc[c] \notin Held
      BY <1>1, <2>1 DEF GateInv, CountInv
    <2>3. pending' \in Seq(BatchRec) /\ Len(pending') \in Nat
      BY TypesStep, LenProperties DEF Types
    <2>4. \A i \in 1 .. Len(pending') : NumRows(pending'[i]) \in 0 .. MaxRows
      <3>1. Types' /\ PartInv'
        BY TypesStep, PartStep
      <3>2. \A i \in 1 .. Len(pending') : Whole(pending'[i], size) /\ pending'[i] \in BatchRec
        BY <2>1, <2>3, <3>1, ElementOfSeq DEF PartInv
      <3>3. \A b \in BatchRec : Whole(b, size) => NumRows(b) \in 0 .. MaxRows
        <4>1. \A o \in Offsets : size[o] \in 0 .. MaxRows
          BY <1>0
        <4>2. \A b \in BatchRec : b.offset \in Offsets /\ b.skip \in Int
          BY DEF BatchRec
        <4> QED BY <4>1, <4>2, ArrowAssumptions DEF Whole, NumRows
      <3> QED BY <3>2, <3>3
    <2>5. RowCount(SubSeq(pending', 1, 0)) = 0
      BY <2>3, <2>4, RowCountGrows
    <2>6. /\ RowCount(pending)' = RowCount(pending')
          /\ RowCount(SubSeq(pending, 1, replayed))' = RowCount(SubSeq(pending', 1, 0))
      BY <2>1 DEF RowCount, NumRows
    <2> QED BY <1>0, <2>1, <2>2, <2>3, <2>5, <2>6 DEF CountInv, Held
  <1>6. ASSUME CreateOk PROVE CountInv'
    <2>1. /\ sup = "create" /\ sup' = "process" /\ handed' = <<>>
          /\ UNCHANGED <<assigned, submitted, pc>>
      BY <1>6
    <2>2. assigned = 0 /\ submitted = 0 /\ \A c \in Callers : pc[c] = "idle"
      BY <2>1 DEF CountInv, GateInv
    <2> HIDE DEF CreateOk
    <2>3. <<>> \in Seq(Offsets \X Int) /\ Len(<<>>) = 0
      BY EmptySeq
    <2> QED BY <2>1, <2>2, <2>3 DEF CountInv, Held
  <1>7. ASSUME Connect PROVE CountInv'
    <2>1. /\ sup = "connect" /\ sup' = "replay" /\ handed' = <<>>
          /\ UNCHANGED <<assigned, submitted, pc, sender, paused>>
      BY <1>7
    <2>2. ~sender /\ \A c \in Callers : pc[c] # "commit"
      BY <2>1 DEF GateInv
    <2> HIDE DEF Connect
    <2>3. <<>> \in Seq(Offsets \X Int) /\ Len(<<>>) = 0
      BY EmptySeq
    <2> QED BY <2>1, <2>2, <2>3 DEF CountInv
  <1>8. ASSUME ReplayCommit PROVE CountInv'
    <2>1. /\ sup = "replaying" /\ replayed = Len(pending) /\ sup' = "refresh"
          /\ UNCHANGED <<assigned, submitted, handed, pc>>
      BY <1>8
    <2> HIDE DEF ReplayCommit
    <2>2. /\ \A i \in 1 .. Len(pending) : NumRows(pending[i]) \in 0 .. MaxRows
      BY <1>0, PendingRows, ArrowAssumptions
    <2>3. assigned = submitted /\ submitted = Len(handed)
      BY <1>0, <2>1, <2>2, RowCountGrows DEF CountInv
    <2>4. \A c \in Callers : pc[c] \notin Held
      BY <1>1, <2>1 DEF HoldInv
    <2> QED BY <1>0, <2>1, <2>3, <2>4 DEF CountInv, Held
  <1>9. ASSUME ~Counts PROVE CountInv'
    BY <1>9, CountIdle
  <1> HIDE DEF IngestCommit, IngestAssign, ReplayInstall, ReplaySend, CreateOk, Connect,
               ReplayCommit
  <1> QED BY <1>2, <1>3, <1>4, <1>5, <1>6, <1>7, <1>8, <1>9 DEF Counts

\* From here on a step names the actions it expands.
HIDE DEF IngestStep, SupStep, ServerStep, WaitStep, CloseStep, vars, batches, counters, gate,
         marks, life, net, supVars, closeVars, CreateOk, CreateFail, IngestStart, IngestPermit,
         IngestRefused, IngestAssign, IngestPush, IngestReserve, IngestSendFails, IngestCommit,
         IngestCancel, Transmit, RequestDies, AckResponse, CloseSignal, ResponseError, ResponseEnd,
         RequestSendFailed, AckDeadline, TargetReached, GraceOver, HalfClose, DrainAck, DrainError,
         DrainEnd, HandleTerminal, HandleRetry, Pause, Backoff, Connect, ReplayInstall, ReplaySend,
         ReplayCommit, Resume, ReconnectFails, InvalidateStalls, FinalizeClose, FinalizeDrain,
         WaitCall, WaitCheck, WaitState, WaitWake, WaitTimeout, CloseAgain, Close, CloseReap,
         CloseDetach, CloseFinal, CloseDrain, CloseCancel, GetUnacked, DropStream, Ended,
         Fail, BeginDrain, NoAck, Fresh, Abort, Goto

------------------------------------------------------------------------------
(* The ranges of pending batches *)

\* A batch comes before another one, by its records and by its offset.
Follows(p, q) == p.end <= q.start /\ p.offset < q.offset
Ordered(s) == \A i, j \in 1 .. Len(s) : i < j => Follows(s[i], s[j])

\* The range of a batch is that of its rows and lies in (low, high], its offset in (first, last].
Placed(b, sizes, low, high, first, last) ==
    /\ 0 <= b.start /\ b.end = b.start + (sizes[b.offset] - b.skip)
    /\ low < b.end /\ b.end <= high
    /\ first < b.offset /\ b.offset <= last

AllPlaced(s, sizes, low, high, first, last) ==
    \A i \in 1 .. Len(s) : Placed(s[i], sizes, low, high, first, last)

\* The counters, and the watermark that a reconnect has read.
MarkInv ==
    /\ 0 <= acked /\ acked <= submitted /\ submitted <= assigned
    /\ lastAck <= LastOffset
    /\ sup = "replay" => ackedBefore = acked

\* Pending batches are in order and not acknowledged.
RangeInv ==
    /\ Ordered(pending)
    /\ AllPlaced(pending, size, acked, assigned, lastAck, LastOffset)

\* A batch that is about to join them comes after all of them.
NewInv ==
    \A c \in Callers : pc[c] = "assigned" =>
       /\ submitted + size[Current] <= assigned /\ lastAck < Current
       /\ AllPlaced(pending, size, acked, assigned - size[Current], lastAck, Current - 1)

\* A replay submits the batches one after the other, without a gap.
ReplayInv ==
    sup = "replaying" =>
       /\ acked = 0 /\ replayed <= Len(pending)
       /\ submitted = IF replayed = 0 THEN 0 ELSE pending[replayed].end
       /\ \A i \in 1 .. Len(pending) :
             pending[i].start = IF i = 1 THEN 0 ELSE pending[i - 1].end

\* Batches are handed back once, by a closed stream, and none that is acknowledged.
FailInv ==
    /\ sup = "drain_pending" \/ closing = "drain" => closed
    /\ failed # <<>> => closed /\ pending = <<>>
    /\ \A j \in 1 .. Len(failed) : lastAck < failed[j].offset /\ failed[j].offset <= LastOffset

OrderInv == MarkInv /\ RangeInv /\ NewInv /\ ReplayInv /\ FailInv

\* Retaining keeps the order, and only what was there.
LEMMA RetainOrdered ==
    ASSUME NEW s \in Seq(BatchRec), NEW I \in SUBSET (1 .. Len(s)), Ordered(s)
    PROVE  /\ Ordered(Retain(s, I))
           /\ \A k \in 1 .. Len(Retain(s, I)) : \E i \in I : Retain(s, I)[k] = s[i]
           /\ \A i \in I : \E k \in 1 .. Len(Retain(s, I)) : Retain(s, I)[k] = s[i]
  <1> DEFINE r == Retain(s, I)
             m == Len(r)
  <1>1. PICK e : Picks(s, I, e)
    BY RetainPicks
  <1>2. /\ \A k \in 1 .. m : e[k] \in I /\ e[k] \in 1 .. Len(s) /\ r[k] = s[e[k]]
        /\ \A k, l \in 1 .. m : k < l => e[k] < e[l]
        /\ \A i \in I : \E k \in 1 .. m : e[k] = i
        /\ Len(r) = m
    BY <1>1 DEF Picks
  <1> HIDE DEF r, m
  <1>3. Ordered(r)
    <2> SUFFICES ASSUME NEW k \in 1 .. m, NEW l \in 1 .. m, k < l PROVE Follows(r[k], r[l])
      BY <1>2 DEF Ordered
    <2>1. Follows(s[e[k]], s[e[l]])
      BY <1>2 DEF Ordered
    <2> QED BY <1>2, <2>1
  <1>4. \A k \in 1 .. m : \E i \in I : r[k] = s[i]
    BY <1>2
  <1>5. \A i \in I : \E k \in 1 .. m : r[k] = s[i]
    BY <1>2
  <1> QED BY <1>2, <1>3, <1>4, <1>5 DEF r

\* The first fields of a cut batch stay, and what is skipped is what is acknowledged.
LEMMA SuffixOf ==
    ASSUME Types, NEW n \in Int, NEW b \in BatchRec
    PROVE  /\ UnacknowledgedSuffix(b, n) \in BatchRec
           /\ UnacknowledgedSuffix(b, n).offset = b.offset
           /\ b.end = b.start + NumRows(b) /\ n < b.end =>
                 UnacknowledgedSuffix(b, n).skip =
                    IF b.start >= n THEN b.skip ELSE b.skip + (n - b.start)
  <1>1. /\ b.offset \in Offsets /\ b.skip \in Int /\ b.start \in Int /\ b.end \in Int
        /\ NumRows(b) \in Int
    <2>1. \A o \in Offsets : size[o] \in Int
      BY ArrowAssumptions DEF Types
    <2> QED BY <2>1 DEF BatchRec, NumRows
  <1>2. CASE b.start >= n
    <2>1. UnacknowledgedSuffix(b, n) = b
      BY <1>2 DEF UnacknowledgedSuffix
    <2> QED BY <1>2, <2>1
  <1>3. CASE ~(b.start >= n)
    <2> DEFINE k == IF n - b.start < NumRows(b) THEN n - b.start ELSE NumRows(b)
    <2>1. k \in Int /\ (b.end = b.start + NumRows(b) /\ n < b.end => k = n - b.start)
      BY <1>1
    <2>2. UnacknowledgedSuffix(b, n) = [b EXCEPT !.skip = b.skip + k]
      BY <1>3 DEF UnacknowledgedSuffix
    <2> HIDE DEF k
    <2>3. \A x \in Int : /\ [b EXCEPT !.skip = x] \in BatchRec
                         /\ [b EXCEPT !.skip = x].offset = b.offset
                         /\ [b EXCEPT !.skip = x].skip = x
      BY DEF BatchRec
    <2>4. b.skip + k \in Int
      BY <1>1, <2>1
    <2>5. /\ UnacknowledgedSuffix(b, n) \in BatchRec
          /\ UnacknowledgedSuffix(b, n).offset = b.offset
          /\ UnacknowledgedSuffix(b, n).skip = b.skip + k
      BY <2>2, <2>3, <2>4
    <2> QED BY <1>1, <1>3, <2>1, <2>5
  <1> QED BY <1>2, <1>3

\* The batches of t are the unacknowledged parts of those of s, in their order; e says of
\* which batch each of them is.
Parts(t, s, n, e) ==
    /\ e \in [1 .. Len(t) -> 1 .. Len(s)]
    /\ \A k \in 1 .. Len(t) : /\ t[k].offset = s[e[k]].offset
                              /\ t[k].skip = UnacknowledgedSuffix(s[e[k]], n).skip
    /\ \A k, l \in 1 .. Len(t) : k < l => e[k] < e[l]
    /\ \A i \in 1 .. Len(s) :
          NumRows(UnacknowledgedSuffix(s[i], n)) > 0 => \E k \in 1 .. Len(t) : e[k] = i

\* What rebuild_pending_for_replay and move_pending_to_failed keep of the batches.
LEMMA PartsOf ==
    ASSUME Types, NEW n \in Int
    PROVE  /\ \E e : Parts(UnackedParts(pending, n), pending, n, e)
           /\ \A k \in 1 .. Len(UnackedParts(pending, n)) :
                 NumRows(UnackedParts(pending, n)[k]) > 0
  <1> DEFINE cut == [i \in DOMAIN pending |-> UnacknowledgedSuffix(pending[i], n)]
             I == {i \in DOMAIN pending : NumRows(cut[i]) > 0}
  <1>1. /\ Len(pending) \in Nat /\ DOMAIN pending = 1 .. Len(pending)
        /\ \A i \in 1 .. Len(pending) : pending[i] \in BatchRec
    BY LenProperties, ElementOfSeq DEF Types
  <1>2. cut \in Seq(BatchRec) /\ UnackedParts(pending, n) = Retain(cut, I)
    BY PartsType DEF UnackedParts
  <1>3. Len(cut) = Len(pending)
    <2>1. DOMAIN cut = DOMAIN pending
      OBVIOUS
    <2> HIDE DEF cut
    <2> QED BY <1>1, <1>2, <2>1, LenProperties
  <1>4. /\ \A i \in 1 .. Len(pending) : cut[i] = UnacknowledgedSuffix(pending[i], n)
        /\ I \in SUBSET (1 .. Len(cut)) /\ \A i \in I : NumRows(cut[i]) > 0
        /\ \A i \in 1 .. Len(pending) :
              NumRows(UnacknowledgedSuffix(pending[i], n)) > 0 => i \in I
    BY <1>1, <1>3
  <1> HIDE DEF cut, I
  <1> DEFINE kept == UnackedParts(pending, n)
  <1>5. PICK e : Picks(cut, I, e)
    BY <1>2, <1>4, RetainPicks
  <1>6. /\ e \in [1 .. Len(kept) -> 1 .. Len(pending)]
        /\ \A k \in 1 .. Len(kept) : e[k] \in I /\ kept[k] = cut[e[k]]
        /\ \A k, l \in 1 .. Len(kept) : k < l => e[k] < e[l]
        /\ \A i \in I : \E k \in 1 .. Len(kept) : e[k] = i
    BY <1>2, <1>3, <1>4, <1>5 DEF Picks
  <1> HIDE DEF kept
  <1>7. ASSUME NEW k \in 1 .. Len(kept)
        PROVE  /\ kept[k].offset = pending[e[k]].offset
               /\ kept[k].skip = UnacknowledgedSuffix(pending[e[k]], n).skip
               /\ NumRows(kept[k]) > 0
    <2>1. /\ e[k] \in 1 .. Len(pending) /\ NumRows(kept[k]) > 0
          /\ kept[k] = UnacknowledgedSuffix(pending[e[k]], n)
      BY <1>3, <1>4, <1>6
    <2>2. UnacknowledgedSuffix(pending[e[k]], n).offset = pending[e[k]].offset
      BY <1>1, <2>1, SuffixOf
    <2> QED BY <2>1, <2>2
  <1>8. \A i \in 1 .. Len(pending) : NumRows(UnacknowledgedSuffix(pending[i], n)) > 0 =>
           \E k \in 1 .. Len(kept) : e[k] = i
    BY <1>4, <1>6
  <1>9. Parts(kept, pending, n, e)
    BY <1>6, <1>7, <1>8 DEF Parts
  <1> QED BY <1>7, <1>9 DEF kept

\* More batches have no fewer rows.
LEMMA RowCountOrder ==
    ASSUME NEW s \in Seq(BatchRec), NEW k \in 0 .. Len(s), NEW l \in 0 .. Len(s), k <= l
    PROVE  RowCount(SubSeq(s, 1, k)) <= RowCount(SubSeq(s, 1, l))
  <1> DEFINE Q(m) == {r \in (1 .. m) \X (1 .. MaxRows) : r[2] <= NumRows(s[r[1]])}
  <1>0. Len(s) \in Nat /\ MaxRows \in Nat
    BY LenProperties, ArrowAssumptions
  <1>1. ASSUME NEW m \in 0 .. Len(s) PROVE RowCount(SubSeq(s, 1, m)) = Cardinality(Q(m))
    <2>1. SubSeq(s, 1, m) = [i \in 1 .. m |-> s[i]]
      BY <1>0
    <2>2. {r \in (DOMAIN SubSeq(s, 1, m)) \X (1 .. MaxRows) :
              r[2] <= NumRows(SubSeq(s, 1, m)[r[1]])} = Q(m)
      BY <2>1
    <2> HIDE DEF Q
    <2> QED BY <2>2 DEF RowCount
  <1>2. Q(k) \subseteq Q(l)
    <2>1. 1 .. k \subseteq 1 .. l
      BY <1>0
    <2> QED BY <2>1
  <1>3. IsFiniteSet(Q(l))
    <2>1. IsFiniteSet(1 .. l) /\ IsFiniteSet(1 .. MaxRows)
      <3>1. 1 \in Int /\ l \in Int /\ MaxRows \in Int
        BY <1>0
      <3> QED BY <3>1, FS_Interval, ZenonT(60)
    <2>2. IsFiniteSet((1 .. l) \X (1 .. MaxRows))
      BY <2>1, FS_Product
    <2> QED BY <2>2, FS_Subset
  <1> HIDE DEF Q
  <1>4. Cardinality(Q(k)) <= Cardinality(Q(l))
    BY <1>2, <1>3, FS_Subset
  <1> QED BY <1>1, <1>4

\* A replay gives the parts that are left ranges without a gap, from 0 on.
LEMMA RebuiltRanges ==
    ASSUME Types, PartInv, NEW n \in Int, NEW new, new = RebuildPending(pending, n)
    PROVE  /\ \E e : Parts(new, pending, n, e)
           /\ \A k \in 1 .. Len(new) :
                 /\ new[k].start = IF k = 1 THEN 0 ELSE new[k - 1].end
                 /\ 0 <= new[k].start /\ new[k].end = new[k].start + NumRows(new[k])
                 /\ 0 < new[k].end /\ new[k].end <= RowCount(new)
           /\ \A k, l \in 1 .. Len(new) : k < l => new[k].end <= new[l].start
  <1> DEFINE kept == UnackedParts(pending, n)
             before(i) == RowCount(SubSeq(kept, 1, i - 1))
             ren(i) == [kept[i] EXCEPT !.start = before(i), !.end = before(i) + NumRows(kept[i])]
  <1>1. kept \in Seq(BatchRec) /\ Len(new) = Len(kept) /\ new \in Seq(BatchRec)
    BY PartsType, RebuildType
  <1>2. new = [i \in DOMAIN kept |-> ren(i)]
    BY DEF RebuildPending
  <1>3. (\E e : Parts(kept, pending, n, e)) /\ \A k \in 1 .. Len(kept) : NumRows(kept[k]) > 0
    BY PartsOf
  <1> HIDE DEF kept
  <1>4. /\ Len(kept) \in Nat /\ DOMAIN kept = 1 .. Len(kept)
        /\ \A i \in 1 .. Len(kept) : kept[i] \in BatchRec
        /\ Len(pending) \in Nat
        /\ \A i \in 1 .. Len(pending) : pending[i] \in BatchRec
    BY <1>1, LenProperties, ElementOfSeq DEF Types
  <1>5. \A i \in 1 .. Len(kept) :
           /\ new[i].offset = kept[i].offset /\ new[i].skip = kept[i].skip
           /\ new[i].start = before(i) /\ new[i].end = before(i) + NumRows(kept[i])
    <2>1. \A b \in BatchRec : \A x, y :
             /\ [b EXCEPT !.start = x, !.end = y].offset = b.offset
             /\ [b EXCEPT !.start = x, !.end = y].skip = b.skip
             /\ [b EXCEPT !.start = x, !.end = y].start = x
             /\ [b EXCEPT !.start = x, !.end = y].end = y
      BY DEF BatchRec
    <2>2. \A i \in 1 .. Len(kept) : new[i] = ren(i)
      BY <1>2, <1>4
    <2> SUFFICES ASSUME NEW i \in 1 .. Len(kept)
                 PROVE  /\ new[i].offset = kept[i].offset /\ new[i].skip = kept[i].skip
                        /\ new[i].start = before(i)
                        /\ new[i].end = before(i) + NumRows(kept[i])
      OBVIOUS
    <2>3. kept[i] \in BatchRec /\ new[i] = ren(i)
      BY <1>4, <2>2
    <2> HIDE DEF before
    <2> QED BY <2>1, <2>3
  <1>6. /\ \A i \in 1 .. Len(kept) : NumRows(new[i]) = NumRows(kept[i])
        /\ \A i \in 1 .. Len(kept) : NumRows(kept[i]) \in 1 .. MaxRows
    <2>1. \A i \in 1 .. Len(kept) : NumRows(new[i]) = NumRows(kept[i])
      BY <1>5 DEF NumRows
    <2>2. \A i \in 1 .. Len(kept) : Whole(new[i], size) /\ new[i] \in BatchRec
      BY <1>1, RebuildWhole, ElementOfSeq
    <2>3. \A b \in BatchRec : Whole(b, size) => NumRows(b) \in 1 .. MaxRows
      <3>1. \A o \in Offsets : size[o] \in 0 .. MaxRows
        BY DEF Types
      <3>2. \A b \in BatchRec : b.offset \in Offsets /\ b.skip \in Int
        BY DEF BatchRec
      <3> QED BY <3>1, <3>2, ArrowAssumptions DEF Whole, NumRows
    <2> QED BY <2>1, <2>2, <2>3
  <1>7. RowCount(new) = RowCount(kept)
    <2>1. DOMAIN new = DOMAIN kept
      BY <1>1, LenProperties
    <2>2. \A i \in DOMAIN kept : NumRows(new[i]) = NumRows(kept[i])
      BY <1>4, <1>6
    <2> QED BY <2>1, <2>2 DEF RowCount
  <1> DEFINE sum == [i \in 0 .. Len(kept) |-> RowCount(SubSeq(kept, 1, i))]
  <1>8. /\ sum[0] = 0 /\ sum[Len(kept)] = RowCount(new)
        /\ \A i \in 0 .. Len(kept) - 1 : sum[i + 1] = sum[i] + NumRows(kept[i + 1])
        /\ \A i \in 0 .. Len(kept) : sum[i] \in Nat
        /\ \A i, j \in 0 .. Len(kept) : i <= j => sum[i] <= sum[j]
    <2>1. \A i \in 1 .. Len(kept) : NumRows(kept[i]) \in 0 .. MaxRows
      BY <1>6, ArrowAssumptions
    <2>2. /\ RowCount(SubSeq(kept, 1, 0)) = 0
          /\ RowCount(SubSeq(kept, 1, Len(kept))) = RowCount(kept)
          /\ \A i \in 0 .. Len(kept) - 1 :
                RowCount(SubSeq(kept, 1, i + 1)) = RowCount(SubSeq(kept, 1, i)) + NumRows(kept[i + 1])
      BY <1>1, <2>1, RowCountGrows
    <2>3. \A i \in 0 .. Len(kept) : RowCount(SubSeq(kept, 1, i)) \in Nat
      <3> SUFFICES ASSUME NEW i \in 0 .. Len(kept) PROVE RowCount(SubSeq(kept, 1, i)) \in Nat
        OBVIOUS
      <3>1. \A j \in 1 .. i : kept[j] \in BatchRec
        BY <1>4
      <3>2. SubSeq(kept, 1, i) \in Seq(BatchRec)
        BY <1>4, <3>1, SubSeqProperties
      <3> QED BY <3>2, RowCountType
    <2>4. \A i, j \in 0 .. Len(kept) : i <= j =>
             RowCount(SubSeq(kept, 1, i)) <= RowCount(SubSeq(kept, 1, j))
      BY <1>1, RowCountOrder
    <2>5. /\ 0 \in 0 .. Len(kept) /\ Len(kept) \in 0 .. Len(kept)
          /\ \A i \in 0 .. Len(kept) - 1 : i \in 0 .. Len(kept) /\ i + 1 \in 0 .. Len(kept)
      BY <1>4
    <2> QED BY <1>7, <2>2, <2>3, <2>4, <2>5
  <1>9. \A i \in 1 .. Len(kept) : new[i].start = sum[i - 1] /\ new[i].end = sum[i]
    <2> SUFFICES ASSUME NEW i \in 1 .. Len(kept)
                 PROVE  new[i].start = sum[i - 1] /\ new[i].end = sum[i]
      OBVIOUS
    <2>1. i - 1 \in 0 .. Len(kept) - 1 /\ i - 1 \in 0 .. Len(kept) /\ (i - 1) + 1 = i
      BY <1>4
    <2>2. before(i) = sum[i - 1]
      BY <2>1
    <2>3. sum[i] = sum[i - 1] + NumRows(kept[i])
      BY <1>8, <2>1
    <2> HIDE DEF sum, before
    <2> QED BY <1>5, <2>2, <2>3
  <1> HIDE DEF before, ren, sum
  <1>10. ASSUME NEW k \in 1 .. Len(kept)
         PROVE  /\ new[k].start = IF k = 1 THEN 0 ELSE new[k - 1].end
                /\ 0 <= new[k].start /\ new[k].end = new[k].start + NumRows(new[k])
                /\ 0 < new[k].end /\ new[k].end <= RowCount(new)
    <2>1. /\ k - 1 \in 0 .. Len(kept) - 1 /\ k - 1 \in 0 .. Len(kept) /\ (k - 1) + 1 = k
          /\ k \in 0 .. Len(kept) /\ Len(kept) \in 0 .. Len(kept) /\ k <= Len(kept)
          /\ (k # 1 => k - 1 \in 1 .. Len(kept))
      BY <1>4
    <2>2. sum[k] = sum[k - 1] + NumRows(kept[k]) /\ sum[k] <= RowCount(new)
          /\ sum[k - 1] \in Nat
      BY <1>8, <2>1
    <2>3. NumRows(kept[k]) >= 1 /\ NumRows(kept[k]) \in Int /\ NumRows(new[k]) = NumRows(kept[k])
      BY <1>6, ArrowAssumptions
    <2>4. new[k].start = sum[k - 1] /\ new[k].end = sum[k]
      BY <1>9
    <2>5. new[k].start = IF k = 1 THEN 0 ELSE new[k - 1].end
      BY <1>8, <1>9, <2>1
    <2> QED BY <2>2, <2>3, <2>4, <2>5
  <1>11. ASSUME NEW k \in 1 .. Len(kept), NEW l \in 1 .. Len(kept), k < l
         PROVE  new[k].end <= new[l].start
    <2>1. k \in 0 .. Len(kept) /\ l - 1 \in 0 .. Len(kept) /\ k <= l - 1
      BY <1>4, <1>11
    <2> QED BY <1>8, <1>9, <2>1
  <1>12. PICK e : Parts(kept, pending, n, e)
    BY <1>3
  <1>13. Parts(new, pending, n, e)
    BY <1>1, <1>5, <1>12 DEF Parts
  <1> QED BY <1>1, <1>10, <1>11, <1>13

\* The fields of batches are numbers.
LEMMA BatchFields ==
    ASSUME Types, NEW s \in Seq(BatchRec)
    PROVE  /\ Len(s) \in Nat
           /\ \A i \in 1 .. Len(s) :
                 /\ s[i] \in BatchRec /\ s[i].offset \in Offsets /\ s[i].offset \in Int
                 /\ s[i].skip \in Int /\ s[i].start \in Int /\ s[i].end \in Int
                 /\ size[s[i].offset] \in Int
  <1>1. Len(s) \in Nat /\ \A i \in 1 .. Len(s) : s[i] \in BatchRec
    BY LenProperties, ElementOfSeq
  <1>2. \A o \in Offsets : o \in Int /\ size[o] \in Int
    BY ArrowAssumptions DEF Types, Offsets
  <1>3. \A b \in BatchRec :
           b.offset \in Offsets /\ b.skip \in Int /\ b.start \in Int /\ b.end \in Int
    BY DEF BatchRec
  <1> QED BY <1>1, <1>2, <1>3

\* The counters and marks are numbers.
LEMMA MarkTypes ==
    ASSUME TypeInv
    PROVE  /\ Types /\ pending \in Seq(BatchRec) /\ failed \in Seq(BatchRec)
           /\ assigned \in Int /\ submitted \in Int /\ acked \in Int /\ lastAck \in Int
           /\ LastOffset \in Int /\ Current = LastOffset
  <1>1. \A o \in Offsets : o \in Int
    BY DEF Offsets
  <1> QED BY <1>1, LastType DEF TypeInv, Types, Current

\* Of all calls at most one is in its critical section.
LEMMA OneHeld ==
    ASSUME HoldInv
    PROVE  /\ \A c, d \in Callers : pc[c] \in Held /\ pc[d] \in Held => c = d
           /\ mutex \in {"free", "sup", "close"} => \A c \in Callers : pc[c] \notin Held
  BY ArrowAssumptions DEF HoldInv

\* An offset that is drawn comes after all others.
LEMMA OrderAssign ==
    ASSUME TypeInv, HoldInv, OrderInv,
           NEW c \in Callers, NEW n \in 1 .. MaxRows, IngestAssign(c, n)
    PROVE  OrderInv'
  <1> DEFINE l == LastOffset + 1
  <1>0. /\ Types /\ pending \in Seq(BatchRec) /\ assigned \in Int /\ submitted \in Int
        /\ acked \in Int /\ lastAck \in Int /\ LastOffset \in Int
    BY MarkTypes
  <1>1. /\ mutex = "free" /\ assigned' = assigned + n
        /\ size' = [size EXCEPT ![l] = n] /\ pc' = [pc EXCEPT ![c] = "assigned"]
        /\ UNCHANGED <<pending, failed, submitted, acked, lastAck, closed, sup, closing,
                       ackedBefore>>
    BY DEF IngestAssign, batches, marks, life, supVars, closeVars, Goto
  <1>2. Current' = l /\ LastOffset' = l /\ size'[l] = n /\ n \in Int /\ n >= 1
    BY AssignCurrent, ArrowAssumptions DEF Current
  <1>3. /\ Len(pending) \in Nat
        /\ \A i \in 1 .. Len(pending) : /\ pending[i].offset \in Offsets
                                        /\ pending[i].offset \in Int
                                        /\ pending[i].end \in Int
    BY <1>0, BatchFields
  <1>4. \A i \in 1 .. Len(pending) : pending[i].offset <= LastOffset
    BY DEF OrderInv, RangeInv, AllPlaced, Placed
  <1>5. \A o \in Offsets : o <= LastOffset => size'[o] = size[o]
    <2>1. size \in [Offsets -> 0 .. MaxRows] /\ \A o \in Offsets : o \in Int
      BY <1>0 DEF Types, Offsets
    <2> QED BY <1>0, <1>1, <2>1
  <1> HIDE DEF l
  <1>6. \A i \in 1 .. Len(pending) : size'[pending[i].offset] = size[pending[i].offset]
    BY <1>3, <1>4, <1>5
  <1>7. l \in Int /\ LastOffset < l /\ l - 1 = LastOffset
    BY <1>0 DEF l
  <1>8. AllPlaced(pending, size', acked, assigned, lastAck, LastOffset)
    BY <1>6 DEF OrderInv, RangeInv, AllPlaced, Placed
  <1>9. AllPlaced(pending, size', acked, assigned', lastAck, l)
    BY <1>0, <1>1, <1>2, <1>3, <1>7, <1>8 DEF AllPlaced, Placed
  <1>10. MarkInv'
    <2>1. sup # "replay" \/ ackedBefore = acked
      BY DEF OrderInv, MarkInv
    <2> QED BY <1>0, <1>1, <1>2, <1>7, <2>1 DEF OrderInv, MarkInv
  <1>11. RangeInv'
    BY <1>1, <1>2, <1>9 DEF OrderInv, RangeInv
  <1>12. NewInv'
    <2>1. submitted' + size'[Current'] <= assigned' /\ lastAck' < Current'
      BY <1>0, <1>1, <1>2, <1>7 DEF OrderInv, MarkInv
    <2>2. assigned' - size'[Current'] = assigned /\ Current' - 1 = LastOffset
      BY <1>0, <1>1, <1>2, <1>7
    <2>3. AllPlaced(pending', size', acked', assigned' - size'[Current'], lastAck', Current' - 1)
      BY <1>1, <1>8, <2>2
    <2> QED BY <2>1, <2>3 DEF NewInv
  <1>13. ReplayInv'
    BY <1>1 DEF HoldInv, ReplayInv
  <1>14. FailInv'
    <2>1. failed \in Seq(BatchRec)
      BY MarkTypes
    <2>2. Len(failed) \in Nat /\ \A j \in 1 .. Len(failed) : failed[j].offset \in Int
      BY <1>0, <2>1, BatchFields
    <2> QED BY <1>0, <1>1, <1>2, <1>7, <2>2 DEF OrderInv, FailInv
  <1> QED BY <1>10, <1>11, <1>12, <1>13, <1>14 DEF OrderInv

\* A batch joins behind the others.
LEMMA OrderPush ==
    ASSUME TypeInv, HoldInv, OrderInv, NEW c \in Callers, IngestPush(c)
    PROVE  OrderInv'
  <1> DEFINE b == [offset |-> Current, skip |-> 0, start |-> assigned - size[Current],
                   end |-> assigned]
  <1>0. /\ Types /\ pending \in Seq(BatchRec) /\ assigned \in Int /\ submitted \in Int
        /\ acked \in Int /\ lastAck \in Int /\ LastOffset \in Int /\ Current = LastOffset
    BY MarkTypes
  <1>1. /\ pc[c] = "assigned" /\ pending' = Append(pending, b)
        /\ UNCHANGED <<size, failed, assigned, submitted, acked, lastAck, closed, sup, closing,
                       ackedBefore>>
        /\ pc' = [pc EXCEPT ![c] = IF paused THEN "idle" ELSE "send"]
    BY DEF IngestPush, batches, counters, marks, life, supVars, closeVars, Goto
  <1>2. Current \in Offsets /\ size[Current] \in Int /\ size[Current] >= 1
    <2>1. Current \in Offsets /\ size[Current] \in 1 .. MaxRows
      BY <1>1, CurrentOffset DEF Held
    <2> QED BY <2>1, ArrowAssumptions
  <1>3. b \in BatchRec
    BY <1>0, <1>2 DEF BatchRec
  <1>4. /\ submitted + size[Current] <= assigned /\ lastAck < Current
        /\ AllPlaced(pending, size, acked, assigned - size[Current], lastAck, Current - 1)
        /\ 0 <= acked /\ acked <= submitted
    BY <1>1 DEF OrderInv, NewInv, MarkInv
  <1>5. /\ Len(pending) \in Nat
        /\ \A i \in 1 .. Len(pending) : pending[i].offset \in Int /\ pending[i].end \in Int
    BY <1>0, BatchFields
  <1>6. Placed(b, size, acked, assigned, lastAck, LastOffset)
    BY <1>0, <1>2, <1>4 DEF Placed
  <1>7. b.start = assigned - size[Current] /\ b.offset = Current
    OBVIOUS
  <1> HIDE DEF b
  <1>8. /\ Len(pending') = Len(pending) + 1 /\ pending'[Len(pending) + 1] = b
        /\ \A i \in 1 .. Len(pending) : pending'[i] = pending[i]
    BY <1>0, <1>1, <1>3, AppendProperties
  <1>9. \A i \in 1 .. Len(pending') : i \in 1 .. Len(pending) \/ i = Len(pending) + 1
    BY <1>5, <1>8
  <1>10. \A i \in 1 .. Len(pending) : Follows(pending[i], b)
    BY <1>0, <1>2, <1>4, <1>5, <1>7 DEF AllPlaced, Placed, Follows
  <1>11. Ordered(pending')
    <2> SUFFICES ASSUME NEW i \in 1 .. Len(pending'), NEW j \in 1 .. Len(pending'), i < j
                 PROVE  Follows(pending'[i], pending'[j])
      BY DEF Ordered
    <2>1. i \in 1 .. Len(pending)
      BY <1>5, <1>8
    <2>2. CASE j \in 1 .. Len(pending)
      BY <1>8, <2>1, <2>2 DEF OrderInv, RangeInv, Ordered
    <2>3. CASE j = Len(pending) + 1
      BY <1>8, <1>10, <2>1, <2>3
    <2> QED BY <1>9, <2>2, <2>3
  <1>12. AllPlaced(pending', size, acked, assigned, lastAck, LastOffset)
    <2>1. AllPlaced(pending, size, acked, assigned, lastAck, LastOffset)
      BY DEF OrderInv, RangeInv
    <2> QED BY <1>6, <1>8, <1>9, <2>1 DEF AllPlaced
  <1>13. LastOffset' = LastOffset
    BY <1>1 DEF LastOffset
  <1>14. RangeInv'
    BY <1>1, <1>11, <1>12, <1>13 DEF RangeInv
  <1>15. MarkInv'
    BY <1>1, <1>13 DEF OrderInv, MarkInv
  <1>16. NewInv'
    <2>1. \A d \in Callers : pc'[d] # "assigned"
      <3>1. pc \in [Callers -> Pcs]
        BY <1>0 DEF Types
      <3>2. \A d \in Callers : d # c => pc[d] # "assigned"
        BY <1>1, OneHeld DEF Held
      <3> QED BY <1>1, <3>1, <3>2
    <2> QED BY <2>1 DEF NewInv
  <1>17. ~closed /\ sup # "replaying"
    BY <1>1, ArrowAssumptions DEF HoldInv, Held
  <1>18. ReplayInv'
    BY <1>1, <1>17 DEF ReplayInv
  <1>19. FailInv'
    BY <1>1, <1>13, <1>17 DEF OrderInv, FailInv
  <1> QED BY <1>14, <1>15, <1>16, <1>18, <1>19 DEF OrderInv

\* A batch that is taken back leaves the others in order.
LEMMA OrderTakeBack ==
    ASSUME TypeInv, HoldInv, OrderInv, NEW c \in Callers, IngestSendFails(c)
    PROVE  OrderInv'
  <1> DEFINE I == {i \in DOMAIN pending : pending[i].offset # Current}
  <1>0. /\ Types /\ pending \in Seq(BatchRec)
    BY MarkTypes
  <1>1. /\ pc[c] = "send" /\ (pending' = pending \/ pending' = Retain(pending, I))
        /\ UNCHANGED <<size, failed, assigned, submitted, acked, lastAck, closed, sup, closing,
                       ackedBefore>>
        /\ pc' = [pc EXCEPT ![c] = "idle"]
    BY DEF IngestSendFails, batches, counters, marks, life, supVars, closeVars, Goto
  <1>2. I \in SUBSET (1 .. Len(pending))
    BY <1>0, LenProperties
  <1>3. LastOffset' = LastOffset
    BY <1>1 DEF LastOffset
  <1> HIDE DEF I
  <1>4. RangeInv'
    <2>1. RangeInv
      BY DEF OrderInv
    <2>2. CASE pending' = pending
      BY <1>1, <1>3, <2>1, <2>2 DEF RangeInv
    <2>3. CASE pending' = Retain(pending, I)
      <3>1. /\ Ordered(pending')
            /\ \A k \in 1 .. Len(pending') : \E i \in I : pending'[k] = pending[i]
        BY <1>0, <1>2, <2>1, <2>3, RetainOrdered DEF RangeInv
      <3>2. AllPlaced(pending', size, acked, assigned, lastAck, LastOffset)
        BY <1>2, <2>1, <3>1 DEF RangeInv, AllPlaced
      <3> QED BY <1>1, <1>3, <3>1, <3>2 DEF RangeInv
    <2> QED BY <1>1, <2>2, <2>3
  <1>5. MarkInv'
    BY <1>1, <1>3 DEF OrderInv, MarkInv
  <1>6. NewInv'
    <2>1. \A d \in Callers : pc'[d] # "assigned"
      <3>1. pc \in [Callers -> Pcs]
        BY <1>0 DEF Types
      <3>2. \A d \in Callers : d # c => pc[d] # "assigned"
        BY <1>1, OneHeld DEF Held
      <3> QED BY <1>1, <3>1, <3>2
    <2> QED BY <2>1 DEF NewInv
  <1>7. ~closed /\ sup # "replaying"
    BY <1>1, ArrowAssumptions DEF HoldInv, Held
  <1> QED BY <1>1, <1>3, <1>4, <1>5, <1>6, <1>7 DEF OrderInv, ReplayInv, FailInv

\* Submitting a batch moves the watermark to what is assigned.
LEMMA OrderCommit ==
    ASSUME TypeInv, HoldInv, OrderInv, NEW c \in Callers, IngestCommit(c)
    PROVE  OrderInv'
  <1>0. /\ Types /\ assigned \in Int /\ submitted \in Int /\ acked \in Int
    BY MarkTypes
  <1>1. /\ pc[c] = "commit" /\ submitted' = assigned
        /\ UNCHANGED <<size, pending, failed, assigned, acked, lastAck, closed, sup, closing,
                       ackedBefore>>
        /\ pc' = [pc EXCEPT ![c] = "idle"]
    BY DEF IngestCommit, batches, marks, life, supVars, closeVars, Goto
  <1>2. LastOffset' = LastOffset
    BY <1>1 DEF LastOffset
  <1>3. MarkInv'
    BY <1>0, <1>1, <1>2 DEF OrderInv, MarkInv
  <1>4. RangeInv'
    BY <1>1, <1>2 DEF OrderInv, RangeInv
  <1>5. NewInv'
    <2>1. \A d \in Callers : pc'[d] # "assigned"
      <3>1. pc \in [Callers -> Pcs]
        BY <1>0 DEF Types
      <3>2. \A d \in Callers : d # c => pc[d] # "assigned"
        BY <1>1, OneHeld DEF Held
      <3> QED BY <1>1, <3>1, <3>2
    <2> QED BY <2>1 DEF NewInv
  <1>6. ~closed /\ sup # "replaying"
    BY <1>1, ArrowAssumptions DEF HoldInv, Held
  <1> QED BY <1>1, <1>2, <1>3, <1>4, <1>5, <1>6 DEF OrderInv, ReplayInv, FailInv

\* An acknowledgement takes the batches it covers from the front, and moves the acknowledged
\* offset to the last of them.
LEMMA AckMoves ==
    ASSUME TypeInv, PartInv, MarkInv, RangeInv, NEW n \in AckValues, Acks(n)
    PROVE  /\ n \in Int /\ 0 <= n /\ n <= submitted
           /\ acked' = IF n > acked THEN n ELSE acked
           /\ confirmed' = confirmed \cup {handed[j] : j \in (1 .. n) \cap DOMAIN handed}
           /\ pending' = Retain(pending, {i \in 1 .. Len(pending) : acked' < pending[i].end})
           /\ \A i \in 1 .. Len(pending) : acked' < pending[i].end <=> lastAck' < pending[i].offset
           /\ lastAck' \in Int /\ lastAck <= lastAck'
           /\ \/ lastAck' = lastAck
              \/ \E i \in 1 .. Len(pending) : lastAck' = pending[i].offset
  <1> DEFINE effective == IF n > acked THEN n ELSE acked
             done == {i \in DOMAIN pending : FullyAcknowledged(pending[i], effective)}
             O == {pending[i].offset : i \in done}
             I == {i \in 1 .. Len(pending) : effective < pending[i].end}
  <1>0. /\ Types /\ pending \in Seq(BatchRec) /\ submitted \in Int /\ acked \in Int
        /\ lastAck \in Int /\ LastOffset \in Int
    BY MarkTypes
  <1>1. /\ Len(pending) \in Nat /\ DOMAIN pending = 1 .. Len(pending)
        /\ \A i \in 1 .. Len(pending) :
              /\ pending[i].offset \in Int /\ pending[i].offset \in Offsets
              /\ pending[i].start \in Int /\ pending[i].end \in Int
    BY <1>0, BatchFields, LenProperties
  <1>2. /\ acked' = effective /\ pending' = Retain(pending, DOMAIN pending \ done)
        /\ confirmed' = confirmed \cup {handed[j] : j \in (1 .. n) \cap DOMAIN handed}
        /\ IF done = {} THEN lastAck' = lastAck ELSE lastAck' = Max(O)
    BY DEF Acks, ApplyAck
  <1>3. n \in Int /\ 0 <= n /\ n <= submitted
    <2>1. n \in Int /\ 0 <= n
      BY <1>0 DEF AckValues, MarkInv
    <2>2. Valid(n) \/ acked' = acked
      BY DEF Acks, AckResponse, CloseSignal, DrainAck, NoAck
    <2>3. acked' = acked => n <= acked
      BY <1>0, <1>2, <2>1
    <2> QED BY <1>0, <2>1, <2>2, <2>3 DEF Valid, MarkInv
  <1>4. effective \in Int
    BY <1>0, <1>3
  <1> HIDE DEF effective
  <1>5. /\ done \in SUBSET (1 .. Len(pending)) /\ DOMAIN pending \ done = I
        /\ \A i \in 1 .. Len(pending) : i \in done <=> ~(effective < pending[i].end)
    BY <1>1, <1>4 DEF FullyAcknowledged
  <1>6. O \in SUBSET Offsets /\ (done # {} => O # {})
    BY <1>1
  <1>7. done # {} => \E m \in done : lastAck' = pending[m].offset
                                     /\ \A i \in done : pending[i].offset <= lastAck'
    <2> SUFFICES ASSUME done # {} PROVE \E m \in done : lastAck' = pending[m].offset
                                     /\ \A i \in done : pending[i].offset <= lastAck'
      OBVIOUS
    <2>1. lastAck' \in O /\ \A o \in O : o <= lastAck'
      BY <1>2, <1>6, MaxOffset
    <2> QED BY <2>1
  <1> HIDE DEF done, O
  <1>8. /\ \A i, j \in 1 .. Len(pending) : i < j =>
              pending[i].end <= pending[j].start /\ pending[i].offset < pending[j].offset
        /\ \A i \in 1 .. Len(pending) : lastAck < pending[i].offset
    BY DEF RangeInv, Ordered, Follows, AllPlaced, Placed
  <1>9. \A i \in 1 .. Len(pending) : pending[i].start < pending[i].end
    <2>1. \A i \in 1 .. Len(pending) :
             /\ pending[i].end = pending[i].start + (size[pending[i].offset] - pending[i].skip)
             /\ acked < pending[i].end
      BY DEF RangeInv, AllPlaced, Placed
    <2>2. \A i \in 1 .. Len(pending) : size[pending[i].offset] - pending[i].skip \in 1 .. MaxRows
      BY <1>0, PendingRows DEF NumRows
    <2> QED BY <1>1, <2>1, <2>2
  <1>10. \A i, j \in 1 .. Len(pending) : i < j => pending[i].end < pending[j].end
    BY <1>1, <1>8, <1>9
  <1>11. CASE done = {}
    <2>1. lastAck' = lastAck
      BY <1>2, <1>11
    <2>2. \A i \in 1 .. Len(pending) : effective < pending[i].end
      BY <1>5, <1>11
    <2>3. pending' = Retain(pending, I)
      BY <1>2, <1>5
    <2> QED BY <1>0, <1>2, <1>3, <1>8, <2>1, <2>2, <2>3 DEF effective
  <1>12. CASE done # {}
    <2>1. PICK m \in done : /\ lastAck' = pending[m].offset
                            /\ \A i \in done : pending[i].offset <= lastAck'
      BY <1>7, <1>12
    <2>2. m \in 1 .. Len(pending) /\ ~(effective < pending[m].end)
      BY <1>5
    <2>3. ASSUME NEW i \in 1 .. Len(pending)
          PROVE  effective < pending[i].end <=> lastAck' < pending[i].offset
      <3>1. CASE i \in done
        <4>1. ~(effective < pending[i].end) /\ pending[i].offset <= lastAck'
          BY <1>5, <2>1, <3>1
        <4> QED BY <1>1, <2>1, <2>2, <4>1
      <3>2. CASE i \notin done
        <4>1. effective < pending[i].end /\ i # m
          BY <1>5, <3>2
        <4>2. ~(i < m)
          BY <1>1, <1>4, <1>10, <2>2, <4>1
        <4>3. m < i
          BY <1>1, <2>2, <4>1, <4>2
        <4> QED BY <1>8, <2>1, <2>2, <4>1, <4>3
      <3> QED BY <3>1, <3>2
    <2>4. pending' = Retain(pending, I)
      BY <1>2, <1>5
    <2>5. lastAck' \in Int /\ lastAck <= lastAck'
      BY <1>0, <1>1, <1>8, <2>1, <2>2
    <2> QED BY <1>2, <1>3, <2>1, <2>2, <2>3, <2>4, <2>5 DEF effective
  <1> QED BY <1>11, <1>12

\* An acknowledgement leaves what it does not cover in order.
LEMMA OrderAck ==
    ASSUME TypeInv, HoldInv, PartInv, OrderInv, NEW n \in AckValues, Acks(n)
    PROVE  OrderInv'
  <1> DEFINE I == {i \in 1 .. Len(pending) : acked' < pending[i].end}
  <1>0. /\ Types /\ pending \in Seq(BatchRec) /\ submitted \in Int /\ acked \in Int
        /\ assigned \in Int /\ lastAck \in Int /\ LastOffset \in Int /\ Current = LastOffset
    BY MarkTypes
  <1>1. /\ n \in Int /\ 0 <= n /\ n <= submitted
        /\ acked' = IF n > acked THEN n ELSE acked
        /\ pending' = Retain(pending, I)
        /\ \A i \in 1 .. Len(pending) : acked' < pending[i].end <=> lastAck' < pending[i].offset
        /\ lastAck' \in Int /\ lastAck <= lastAck'
        /\ \/ lastAck' = lastAck
           \/ \E i \in 1 .. Len(pending) : lastAck' = pending[i].offset
    BY AckMoves DEF OrderInv
  <1>2. /\ sup \in {"process", "drain"}
        /\ UNCHANGED <<size, failed, assigned, submitted, pc, closed, closing>>
    BY DEF Acks, AckResponse, CloseSignal, DrainAck, counters, life, closeVars
  <1>3. sup' \notin {"replay", "replaying", "drain_pending"}
    BY DEF Acks, AckResponse, CloseSignal, DrainAck, BeginDrain, Fail
  <1>4. LastOffset' = LastOffset /\ Current' = Current
    BY <1>2 DEF LastOffset, Current
  <1>5. /\ Ordered(pending)
        /\ AllPlaced(pending, size, acked, assigned, lastAck, LastOffset)
        /\ 0 <= acked /\ acked <= submitted /\ submitted <= assigned /\ lastAck <= LastOffset
    BY DEF OrderInv, RangeInv, MarkInv
  <1>6. MarkInv'
    <2>1. lastAck' <= LastOffset
      BY <1>0, <1>1, <1>5 DEF AllPlaced, Placed
    <2>2. 0 <= acked' /\ acked' <= submitted
      BY <1>0, <1>1, <1>5
    <2> QED BY <1>2, <1>3, <1>4, <1>5, <2>1, <2>2 DEF MarkInv
  <1>7. I \in SUBSET (1 .. Len(pending))
    OBVIOUS
  <1>8. /\ Ordered(pending')
        /\ \A k \in 1 .. Len(pending') : \E i \in I : pending'[k] = pending[i]
    <2> HIDE DEF I
    <2> QED BY <1>0, <1>1, <1>5, <1>7, RetainOrdered
  <1>9. ASSUME NEW high, NEW last, AllPlaced(pending, size, acked, high, lastAck, last)
        PROVE  AllPlaced(pending', size, acked', high, lastAck', last)
    <2> SUFFICES ASSUME NEW k \in 1 .. Len(pending')
                 PROVE  Placed(pending'[k], size, acked', high, lastAck', last)
      BY DEF AllPlaced
    <2>1. PICK i \in 1 .. Len(pending) : acked' < pending[i].end /\ pending'[k] = pending[i]
      BY <1>8
    <2>2. Placed(pending[i], size, acked, high, lastAck, last) /\ lastAck' < pending[i].offset
      BY <1>1, <1>9, <2>1 DEF AllPlaced
    <2> QED BY <2>1, <2>2 DEF Placed
  <1> HIDE DEF I
  <1>10. RangeInv'
    BY <1>2, <1>4, <1>5, <1>8, <1>9 DEF RangeInv
  <1>11. NewInv'
    <2> SUFFICES ASSUME NEW c \in Callers, pc[c] = "assigned"
                 PROVE  /\ submitted + size[Current] <= assigned /\ lastAck' < Current
                        /\ AllPlaced(pending', size, acked', assigned - size[Current], lastAck',
                                     Current - 1)
      BY <1>2, <1>4 DEF NewInv
    <2>1. /\ submitted + size[Current] <= assigned /\ lastAck < Current
          /\ AllPlaced(pending, size, acked, assigned - size[Current], lastAck, Current - 1)
      BY DEF OrderInv, NewInv
    <2>2. \A i \in 1 .. Len(pending) : pending[i].offset <= Current - 1
      BY <2>1 DEF AllPlaced, Placed
    <2>3. lastAck' < Current
      BY <1>0, <1>1, <2>1, <2>2
    <2> QED BY <1>9, <2>1, <2>3
  <1>12. failed = <<>>
    BY <1>2 DEF OrderInv, FailInv, HoldInv
  <1>13. FailInv'
    <2>1. Len(failed') = 0
      BY <1>2, <1>12
    <2> QED BY <1>2, <1>3, <1>12, <2>1 DEF OrderInv, FailInv
  <1> QED BY <1>3, <1>6, <1>10, <1>11, <1>13 DEF OrderInv, ReplayInv

\* A replay renumbers what is left, in its order.
LEMMA OrderReplay ==
    ASSUME TypeInv, HoldInv, PartInv, OrderInv, ReplayInstall
    PROVE  OrderInv'
  <1> DEFINE new == RebuildPending(pending, ackedBefore)
  <1>0. /\ Types /\ pending \in Seq(BatchRec) /\ lastAck \in Int /\ LastOffset \in Int
        /\ ackedBefore \in Int
    BY MarkTypes DEF Types
  <1>1. /\ sup = "replay" /\ sup' = "replaying" /\ mutex = "free"
        /\ pending' = new /\ assigned' = RowCount(new)
        /\ submitted' = 0 /\ acked' = 0 /\ replayed' = 0
        /\ UNCHANGED <<size, failed, pc, closed, closing, lastAck>>
    BY DEF ReplayInstall, batches, marks, life, closeVars
  <1>2. new = RebuildPending(pending, ackedBefore)
    OBVIOUS
  <1>3. new \in Seq(BatchRec) /\ RowCount(new) \in Nat /\ Len(new) \in Nat
    BY <1>0, RebuildType, RowCountType, LenProperties
  <1> HIDE DEF new
  <1>4. PICK e : Parts(new, pending, ackedBefore, e)
    BY <1>0, <1>2, RebuiltRanges
  <1>5. /\ \A k \in 1 .. Len(new) :
              /\ new[k].start = IF k = 1 THEN 0 ELSE new[k - 1].end
              /\ 0 <= new[k].start /\ new[k].end = new[k].start + NumRows(new[k])
              /\ 0 < new[k].end /\ new[k].end <= RowCount(new)
        /\ \A k, l \in 1 .. Len(new) : k < l => new[k].end <= new[l].start
    BY <1>0, <1>2, RebuiltRanges
  <1>6. /\ Ordered(pending)
        /\ AllPlaced(pending, size, acked, assigned, lastAck, LastOffset)
        /\ lastAck <= LastOffset
    BY DEF OrderInv, RangeInv, MarkInv
  <1>7. LastOffset' = LastOffset
    BY <1>1 DEF LastOffset
  <1>8. Ordered(new)
    <2> SUFFICES ASSUME NEW k \in 1 .. Len(new), NEW l \in 1 .. Len(new), k < l
                 PROVE  Follows(new[k], new[l])
      BY DEF Ordered
    <2>1. /\ e[k] \in 1 .. Len(pending) /\ e[l] \in 1 .. Len(pending) /\ e[k] < e[l]
          /\ new[k].offset = pending[e[k]].offset /\ new[l].offset = pending[e[l]].offset
      BY <1>4 DEF Parts
    <2>2. pending[e[k]].offset < pending[e[l]].offset
      BY <1>6, <2>1 DEF Ordered, Follows
    <2> QED BY <1>5, <2>1, <2>2 DEF Follows
  <1>9. AllPlaced(new, size, 0, RowCount(new), lastAck, LastOffset)
    <2> SUFFICES ASSUME NEW k \in 1 .. Len(new)
                 PROVE  Placed(new[k], size, 0, RowCount(new), lastAck, LastOffset)
      BY DEF AllPlaced
    <2>1. e[k] \in 1 .. Len(pending) /\ new[k].offset = pending[e[k]].offset
      BY <1>4 DEF Parts
    <2>2. lastAck < pending[e[k]].offset /\ pending[e[k]].offset <= LastOffset
      BY <1>6, <2>1 DEF AllPlaced, Placed
    <2> QED BY <1>5, <2>1, <2>2 DEF Placed, NumRows
  <1>10. MarkInv' /\ RangeInv' /\ ReplayInv'
    BY <1>1, <1>5, <1>3, <1>6, <1>7, <1>8, <1>9 DEF MarkInv, RangeInv, ReplayInv
  <1>11. NewInv'
    BY <1>1, OneHeld DEF NewInv, Held
  <1>12. failed = <<>> /\ ~closed
    BY <1>1 DEF OrderInv, FailInv, HoldInv
  <1>13. FailInv'
    <2>1. Len(failed') = 0
      BY <1>1, <1>12
    <2> QED BY <1>1, <1>12, <2>1 DEF OrderInv, FailInv
  <1> QED BY <1>10, <1>11, <1>13 DEF OrderInv

\* Each batch that is replayed moves the watermark to its end.
LEMMA OrderSend ==
    ASSUME TypeInv, HoldInv, PartInv, OrderInv, ReplaySend
    PROVE  OrderInv' /\ pending[replayed + 1].start = submitted
  <1> DEFINE b == pending[replayed + 1]
  <1>0. /\ Types /\ pending \in Seq(BatchRec) /\ submitted \in Int /\ assigned \in Int
        /\ replayed \in Nat /\ acked \in Int
    BY MarkTypes DEF Types
  <1>1. /\ sup = "replaying" /\ replayed < Len(pending)
        /\ submitted' = submitted + NumRows(b) /\ replayed' = replayed + 1
        /\ UNCHANGED <<size, pending, failed, assigned, acked, lastAck, sup, pc, closed, closing>>
    BY DEF ReplaySend, batches, marks, life, closeVars
  <1>2. /\ acked = 0 /\ submitted = IF replayed = 0 THEN 0 ELSE pending[replayed].end
        /\ \A i \in 1 .. Len(pending) :
              pending[i].start = IF i = 1 THEN 0 ELSE pending[i - 1].end
    BY <1>1 DEF OrderInv, ReplayInv
  <1>3. replayed + 1 \in 1 .. Len(pending) /\ Len(pending) \in Nat
    BY <1>0, <1>1, LenProperties
  <1>4. b.start = submitted
    <2>1. replayed + 1 = 1 <=> replayed = 0
      BY <1>0
    <2>2. (replayed + 1) - 1 = replayed
      BY <1>0
    <2> QED BY <1>2, <1>3, <2>1, <2>2
  <1>5. b.start \in Int /\ b.end \in Int
    BY <1>0, <1>3, BatchFields
  <1>6. NumRows(b) \in Int /\ NumRows(b) >= 1
    <2>1. NumRows(b) \in 1 .. MaxRows
      BY <1>0, <1>3, PendingRows
    <2> QED BY <2>1, ArrowAssumptions
  <1>7. b.end = b.start + NumRows(b) /\ b.end <= assigned
    BY <1>3 DEF OrderInv, RangeInv, AllPlaced, Placed, NumRows
  <1> HIDE DEF b
  <1>8. submitted' = b.end /\ submitted <= submitted'
    BY <1>0, <1>1, <1>4, <1>5, <1>6, <1>7
  <1>9. LastOffset' = LastOffset
    BY <1>1 DEF LastOffset
  <1>10. MarkInv'
    BY <1>0, <1>1, <1>5, <1>7, <1>8, <1>9 DEF OrderInv, MarkInv
  <1>11. ReplayInv'
    <2>1. submitted' = pending'[replayed'].end /\ replayed' # 0 /\ replayed' <= Len(pending')
      BY <1>0, <1>1, <1>3, <1>8 DEF b
    <2> QED BY <1>1, <1>2, <2>1 DEF ReplayInv
  <1>12. NewInv'
    <2>1. \A c \in Callers : pc[c] # "assigned"
      BY <1>1, OneHeld DEF HoldInv, Held
    <2> QED BY <1>1, <2>1 DEF NewInv
  <1>13. RangeInv' /\ FailInv'
    BY <1>1, <1>9 DEF OrderInv, RangeInv, FailInv
  <1> QED BY <1>4, <1>10, <1>11, <1>12, <1>13 DEF OrderInv, b

\* What is handed back is not acknowledged.
LEMMA OrderMove ==
    ASSUME TypeInv, HoldInv, OrderInv, FinalizeDrain \/ CloseDrain \/ GetUnacked
    PROVE  OrderInv'
  <1>0. /\ Types /\ pending \in Seq(BatchRec) /\ failed \in Seq(BatchRec) /\ acked \in Int
        /\ lastAck \in Int
    BY MarkTypes
  <1>1. MovePendingToFailed /\ pending' = <<>>
    BY DEF FinalizeDrain, CloseDrain, GetUnacked, MovePendingToFailed
  <1>2. closed
    <2>1. FinalizeDrain => sup = "drain_pending"
      BY DEF FinalizeDrain
    <2>2. CloseDrain => closing = "drain"
      BY DEF CloseDrain
    <2>3. GetUnacked => closed
      BY DEF GetUnacked
    <2> QED BY <2>1, <2>2, <2>3 DEF OrderInv, FailInv
  <1>3. /\ UNCHANGED <<size, assigned, submitted, acked, lastAck, pc, closed>>
        /\ sup' \in {"done", sup}
    BY DEF FinalizeDrain, CloseDrain, GetUnacked, counters, marks, life, supVars
  <1>4. sup' \notin {"replay", "replaying"}
    BY <1>2, <1>3 DEF HoldInv
  <1>5. LastOffset' = LastOffset
    BY <1>3 DEF LastOffset
  <1>6. Len(pending') = 0
    BY <1>1
  <1>7. MarkInv' /\ RangeInv' /\ ReplayInv'
    BY <1>3, <1>4, <1>5, <1>6 DEF OrderInv, MarkInv, RangeInv, ReplayInv, Ordered, AllPlaced
  <1>8. NewInv'
    <2>1. \A c \in Callers : pc[c] # "assigned"
      BY <1>2 DEF HoldInv, Held
    <2> QED BY <1>3, <2>1 DEF NewInv
  <1>9. \A j \in 1 .. Len(failed') : lastAck < failed'[j].offset /\ failed'[j].offset <= LastOffset
    <2>1. CASE pending = <<>>
      <3>1. failed' = failed
        BY <1>1, <2>1, MoveNothing
      <3> QED BY <3>1 DEF OrderInv, FailInv
    <2>2. CASE pending # <<>>
      <3> DEFINE kept == UnackedParts(pending, acked)
      <3>1. failed = <<>> /\ kept \in Seq(BatchRec)
        BY <1>0, <2>2, PartsType DEF OrderInv, FailInv
      <3>2. failed' = kept
        <4>1. failed' = failed \o kept
          BY <1>1 DEF MovePendingToFailed
        <4> HIDE DEF kept
        <4> QED BY <3>1, <4>1, ConcatEmptySeq
      <3>3. PICK e : Parts(kept, pending, acked, e)
        BY <1>0, PartsOf
      <3> HIDE DEF kept
      <3> SUFFICES ASSUME NEW j \in 1 .. Len(kept)
                   PROVE  lastAck < kept[j].offset /\ kept[j].offset <= LastOffset
        BY <3>2
      <3>4. e[j] \in 1 .. Len(pending) /\ kept[j].offset = pending[e[j]].offset
        BY <3>3 DEF Parts
      <3> QED BY <3>4 DEF OrderInv, RangeInv, AllPlaced, Placed
    <2> QED BY <2>1, <2>2
  <1>10. FailInv'
    BY <1>1, <1>2, <1>3, <1>5, <1>9 DEF FailInv
  <1> QED BY <1>7, <1>8, <1>10 DEF OrderInv

\* The steps that draw, move, count or renumber batches, or read the watermark.
Orders == \/ \E c \in Callers : \/ \E n \in 1 .. MaxRows : IngestAssign(c, n)
                                \/ IngestPush(c) \/ IngestSendFails(c) \/ IngestCommit(c)
          \/ \E n \in AckValues : Acks(n)
          \/ Connect \/ ReplayInstall \/ ReplaySend \/ FinalizeDrain \/ CloseDrain \/ GetUnacked

\* Every other step leaves them alone.
LEMMA OrdersFrame ==
    ASSUME TypeInv, [Next]_vars, ~Orders
    PROVE  /\ UNCHANGED <<size, pending, failed, assigned, submitted, acked, lastAck>>
           /\ LastOffset' = LastOffset /\ Current' = Current
           /\ \A c \in Callers : pc'[c] = "assigned" => pc[c] = "assigned"
  <1>1. UNCHANGED <<pending, failed>>
    BY BatchFrame DEF Orders
  <1>2. UNCHANGED <<assigned, submitted, acked>>
    BY CounterFrame DEF Orders, counters
  <1>3. UNCHANGED <<size, lastAck>>
    BY SizeFrame, LastAckFrame DEF Orders
  <1>4. LastOffset' = LastOffset /\ Current' = Current
    BY <1>3 DEF LastOffset, Current
  <1>5. ASSUME NEW c \in Callers, pc'[c] = "assigned" PROVE pc[c] = "assigned"
    <2>1. ~\E n \in 1 .. MaxRows : IngestAssign(c, n)
      BY DEF Orders
    <2> QED BY <1>5, <2>1, CallerMoves
  <1> QED BY <1>1, <1>2, <1>3, <1>4, <1>5

\* The order of batches is kept by every other step.
LEMMA OrderIdle ==
    ASSUME TypeInv, HoldInv, OrderInv, [Next]_vars, ~Orders
    PROVE  OrderInv'
  <1>1. /\ UNCHANGED <<size, pending, failed, assigned, submitted, acked, lastAck>>
        /\ LastOffset' = LastOffset /\ Current' = Current
        /\ \A c \in Callers : pc'[c] = "assigned" => pc[c] = "assigned"
    BY OrdersFrame
  <1>2. sup' = "replay" => sup = "replay" /\ UNCHANGED ackedBefore
    BY ReplayFrom DEF Orders
  <1>3. sup' = "replaying" => sup = "replaying" /\ UNCHANGED replayed
    BY ReplayingFrame DEF Orders
  <1>4. closed => closed'
    BY ClosedFrame DEF FinalizeClose, CloseFinal, DropStream
  <1>5. sup' = "drain_pending" \/ closing' = "drain" =>
           closed' \/ sup = "drain_pending" \/ closing = "drain"
    <2>1. FinalizeClose \/ CloseFinal => closed'
      BY DEF FinalizeClose, CloseFinal
    <2> QED BY <2>1, DrainingFrame
  <1>6. MarkInv' /\ RangeInv'
    BY <1>1, <1>2 DEF OrderInv, MarkInv, RangeInv
  <1>7. NewInv'
    BY <1>1 DEF OrderInv, NewInv
  <1>8. ReplayInv'
    BY <1>1, <1>3 DEF OrderInv, ReplayInv
  <1>9. FailInv'
    BY <1>1, <1>4, <1>5 DEF OrderInv, FailInv
  <1> QED BY <1>6, <1>7, <1>8, <1>9 DEF OrderInv

\* The order of batches is kept.
LEMMA OrderStep ==
    ASSUME TypeInv, HoldInv, PartInv, OrderInv, [Next]_vars
    PROVE  OrderInv'
  <1>1. CASE Connect
    <2>1. /\ sup' = "replay" /\ ackedBefore' = acked
          /\ UNCHANGED <<size, pending, failed, assigned, submitted, acked, lastAck, pc, closed,
                         closing>>
      BY <1>1 DEF Connect, batches, counters, marks, life, closeVars
    <2>2. LastOffset' = LastOffset /\ Current' = Current
      BY <2>1 DEF LastOffset, Current
    <2> QED BY <2>1, <2>2 DEF OrderInv, MarkInv, RangeInv, NewInv, ReplayInv, FailInv
  <1> QED BY <1>1, OrderAssign, OrderPush, OrderTakeBack, OrderCommit, OrderAck, OrderReplay,
             OrderSend, OrderMove, OrderIdle DEF Orders

\* In the initial state.
LEMMA OrderInit == Init => OrderInv
  <1> SUFFICES ASSUME Init PROVE OrderInv
    OBVIOUS
  <1>1. {o \in Offsets : size[o] > 0} = {}
    BY DEF Init
  <1>2. LastOffset = -1
    BY <1>1, FS_EmptySet DEF LastOffset
  <1> QED BY <1>2 DEF Init, OrderInv, MarkInv, RangeInv, Ordered, AllPlaced, NewInv, ReplayInv,
                      FailInv

------------------------------------------------------------------------------
(* What close() reports *)

\* Nothing is left to acknowledge, and no call can add to it.
Clean == pending = <<>> /\ failed = <<>> /\ \A c \in Callers : pc[c] \notin Held

Outcomes == Errors \cup {"none"}

\* A stream ends with an error that was published.
ErrorInv ==
    /\ err \in Outcomes /\ serverError \in Outcomes
    /\ sup = "handle" => err # "none"
    /\ sup \in {"finalize", "drain_pending"} => err # "none" /\ serverError # "none"

\* The flush of close() waits for the last offset, and nobody draws another one meanwhile;
\* after the flush the teardown is announced.
FlushInv ==
    /\ closing = "flush" => \A c \in Callers : pc[c] = "idle"
    /\ wait.st # "idle" /\ wait.owner = "close" => closing = "flush" /\ wait.goal = LastOffset
    /\ closing \in {"reap", "detach", "final", "drain"} => teardown

\* A flush that succeeded left nothing; a stream that closed by itself has published why.
ResultInv ==
    /\ teardown /\ closeError = "ok" => Clean
    /\ closed /\ ~teardown /\ closing # "dropped" /\ serverError = "none" /\ closeError = "ok" =>
          Clean
    /\ result = "ok" => closed /\ Clean

\* Errors are errors.
LEMMA ErrorStep ==
    ASSUME ErrorInv, [Next]_vars
    PROVE  ErrorInv'
  <1>1. "none" \notin Errors
    BY DEF Errors
  <1>2. err' \in Outcomes /\ serverError' \in Outcomes
    BY ErrorFrame DEF ErrorInv, Outcomes
  <1>3. sup' = "handle" => err' # "none"
    BY <1>1, HandleFrame DEF ErrorInv
  <1>4. HandleTerminal => sup = "handle" /\ serverError' = err /\ err' = err
    BY DEF HandleTerminal
  <1>5. InvalidateStalls => serverError' = "auth" /\ err' = "auth"
    BY DEF InvalidateStalls
  <1>6. sup' \in {"finalize", "drain_pending"} => err' # "none" /\ serverError' # "none"
    BY <1>4, <1>5, FinalizeFrame DEF ErrorInv
  <1> QED BY <1>2, <1>3, <1>6 DEF ErrorInv

\* Whose wait it is.
LEMMA WaitOwner ==
    ASSUME TypeInv, [Next]_vars
    PROVE  \/ wait'.st = "idle" \/ wait'.owner = "flush"
           \/ Close /\ closing' = "flush" /\ wait'.goal = LastOffset
           \/ wait.st # "idle" /\ wait'.owner = wait.owner /\ wait'.goal = wait.goal
  <1>0. wait \in WaitRec
    BY DEF TypeInv, Types
  <1>1. /\ NoWait.st = "idle" /\ \A o : Waiting(o, "flush").owner = "flush"
        /\ \A o, w : Waiting(o, w).goal = o
    BY DEF NoWait, Waiting
  <1>2. /\ Woken.st = wait.st /\ Woken.owner = wait.owner /\ Woken.goal = wait.goal
        /\ \A x : /\ [wait EXCEPT !.st = x].owner = wait.owner
                  /\ [wait EXCEPT !.st = x].goal = wait.goal
    BY <1>0 DEF Woken, WaitRec
  <1>3. ASSUME NEW n \in AckValues, Acks(n) PROVE wait' = wait \/ wait' = Woken
    BY <1>3 DEF Acks, ApplyAck
  <1>4. ASSUME NEW o \in Offsets, WaitCall(o) PROVE wait'.owner = "flush"
    BY <1>1, <1>4 DEF WaitCall
  <1>5. WaitCheck => \/ wait' = NoWait
                     \/ wait.st = "check" /\ wait' = [wait EXCEPT !.st = "state", !.woken = FALSE]
    BY DEF WaitCheck, WaitReturn
  <1>6. WaitState => \/ wait' = NoWait
                     \/ wait.st = "state" /\ wait' = [wait EXCEPT !.st = "parked"]
    BY DEF WaitState, WaitReturn
  <1>7. WaitWake => wait.st = "parked" /\ wait' = [wait EXCEPT !.st = "check"]
    BY DEF WaitWake
  <1>8. WaitTimeout \/ CloseCancel => wait' = NoWait
    BY DEF WaitTimeout, WaitReturn, CloseCancel
  <1>9. Close => wait' = wait \/ (closing' = "flush" /\ wait' = Waiting(LastOffset, "close"))
    BY DEF Close
  <1>10. ASSUME wait' = wait \/ wait' = Woken
         PROVE  wait'.st = wait.st /\ wait'.owner = wait.owner /\ wait'.goal = wait.goal
    BY <1>2, <1>10
  <1>11. ASSUME wait' = wait \/ wait' = Woken
         PROVE  \/ wait'.st = "idle"
                \/ wait.st # "idle" /\ wait'.owner = wait.owner /\ wait'.goal = wait.goal
    BY <1>10, <1>11
  <1>12. WaitCheck => \/ wait'.st = "idle"
                      \/ wait.st # "idle" /\ wait'.owner = wait.owner /\ wait'.goal = wait.goal
    <2>1. CASE wait.st = "check" /\ wait' = [wait EXCEPT !.st = "state", !.woken = FALSE]
      <3>1. wait'.owner = wait.owner /\ wait'.goal = wait.goal
        BY <1>0, <2>1 DEF WaitRec
      <3> QED BY <2>1, <3>1
    <2> QED BY <1>1, <1>5, <2>1
  <1>13. WaitState => \/ wait'.st = "idle"
                      \/ wait.st # "idle" /\ wait'.owner = wait.owner /\ wait'.goal = wait.goal
    <2>1. CASE wait.st = "state" /\ wait' = [wait EXCEPT !.st = "parked"]
      <3>1. wait'.owner = wait.owner /\ wait'.goal = wait.goal
        BY <1>0, <2>1 DEF WaitRec
      <3> QED BY <2>1, <3>1
    <2> QED BY <1>1, <1>6, <2>1
  <1>14. WaitWake => wait.st # "idle" /\ wait'.owner = wait.owner /\ wait'.goal = wait.goal
    BY <1>2, <1>7
  <1>15. WaitTimeout \/ CloseCancel => wait'.st = "idle"
    BY <1>1, <1>8
  <1>16. Close => wait' = wait \/ (Close /\ closing' = "flush" /\ wait'.goal = LastOffset)
    BY <1>1, <1>9
  <1>17. \/ wait' = wait \/ wait' = Woken
         \/ \E o \in Offsets : WaitCall(o)
         \/ WaitCheck \/ WaitState \/ WaitWake \/ WaitTimeout \/ Close \/ CloseCancel
    BY <1>3, WaitFrame DEF WaitStep
  <1> QED BY <1>4, <1>11, <1>12, <1>13, <1>14, <1>15, <1>16, <1>17

\* The flush of close() has the stream for itself.
LEMMA FlushStep ==
    ASSUME TypeInv, FlushInv, [Next]_vars
    PROVE  FlushInv'
  <1>1. ASSUME \A c \in Callers : pc[c] = "idle", closing # "idle"
        PROVE  (\A c \in Callers : pc'[c] = "idle") /\ LastOffset' = LastOffset
    <2>1. ~Shared
      BY <1>1 DEF Shared
    <2>2. ASSUME NEW c \in Callers PROVE ~IngestCommit(c) /\ \A n : ~IngestAssign(c, n)
      BY <1>1 DEF IngestCommit, IngestAssign
    <2>3. \A c \in Callers : pc'[c] = "idle"
      BY <1>1, <2>1, <2>2, CallerMoves DEF Held
    <2>4. UNCHANGED size
      BY <2>2, SizeFrame
    <2> QED BY <2>3, <2>4 DEF LastOffset
  <1>2. Close => /\ \A c \in Callers : pc[c] = "idle"
                 /\ UNCHANGED <<pc, size>>
    BY DEF Close, Exclusive
  <1>3. Close => LastOffset' = LastOffset
    BY <1>2 DEF LastOffset
  <1>4. closing' = "flush" => \A c \in Callers : pc'[c] = "idle"
    BY <1>1, <1>2, CloseFrame DEF FlushInv
  <1>5. ASSUME wait'.st # "idle", wait'.owner = "close"
        PROVE  closing' = "flush" /\ wait'.goal = LastOffset'
    <2>1. NoWait.st = "idle"
      BY DEF NoWait
    <2>2. CASE Close /\ closing' = "flush" /\ wait'.goal = LastOffset
      BY <1>3, <2>2
    <2>3. CASE wait.st # "idle" /\ wait'.owner = wait.owner /\ wait'.goal = wait.goal
      <3>1. closing = "flush" /\ wait.goal = LastOffset
        BY <1>5, <2>3 DEF FlushInv
      <3>2. closing' = "flush"
        BY <1>5, <2>1, <3>1, CloseFrame
      <3>3. LastOffset' = LastOffset
        BY <1>1, <3>1 DEF FlushInv
      <3> QED BY <2>3, <3>1, <3>2, <3>3
    <2> QED BY <1>5, <2>2, <2>3, WaitOwner
  <1>6. closing' \in {"reap", "detach", "final", "drain"} => teardown'
    BY CloseFrame DEF FlushInv
  <1> QED BY <1>4, <1>5, <1>6 DEF FlushInv

\* When the last offset is acknowledged, nothing is left.
LEMMA AllAcked ==
    ASSUME TypeInv, OrderInv, lastAck >= LastOffset
    PROVE  pending = <<>> /\ failed = <<>>
  <1>0. /\ Types /\ pending \in Seq(BatchRec) /\ failed \in Seq(BatchRec)
        /\ lastAck \in Int /\ LastOffset \in Int
    BY MarkTypes
  <1>1. /\ Len(pending) \in Nat /\ Len(failed) \in Nat
        /\ \A i \in 1 .. Len(pending) : pending[i].offset \in Int
        /\ \A i \in 1 .. Len(failed) : failed[i].offset \in Int
    BY <1>0, BatchFields
  <1>2. /\ \A i \in 1 .. Len(pending) :
              lastAck < pending[i].offset /\ pending[i].offset <= LastOffset
        /\ \A i \in 1 .. Len(failed) :
              lastAck < failed[i].offset /\ failed[i].offset <= LastOffset
    BY DEF OrderInv, RangeInv, AllPlaced, Placed, FailInv
  <1>3. 1 \notin 1 .. Len(pending) /\ 1 \notin 1 .. Len(failed)
    BY <1>0, <1>1, <1>2
  <1>4. Len(pending) = 0 /\ Len(failed) = 0
    BY <1>1, <1>3
  <1> QED BY <1>0, <1>4, EmptySeq

\* Once a closed stream, or one that is torn down, has nothing left, that stays so.
LEMMA CleanStays ==
    ASSUME TypeInv, HoldInv, PartInv, Clean, closed \/ teardown, [Next]_vars
    PROVE  Clean'
  <1>0. /\ Types /\ pending \in Seq(BatchRec) /\ failed \in Seq(BatchRec) /\ pending = <<>>
        /\ Len(pending) = 0 /\ ackedBefore \in Int
    BY MarkTypes DEF Clean, Types
  <1>1. ASSUME NEW c \in Callers
        PROVE  ~IngestPush(c) /\ ~IngestSendFails(c) /\ \A n : ~IngestAssign(c, n)
    BY DEF Clean, Held, Refusing, IngestPush, IngestSendFails, IngestAssign
  <1>2. ASSUME NEW n \in AckValues, Acks(n) PROVE pending' = <<>> /\ failed' = failed
    <2> DEFINE effective == IF n > acked THEN n ELSE acked
               I == DOMAIN pending \ {i \in DOMAIN pending :
                                         FullyAcknowledged(pending[i], effective)}
    <2>1. pending' = Retain(pending, I) /\ failed' = failed
      BY <1>2 DEF Acks, ApplyAck, AckResponse, CloseSignal, DrainAck
    <2>2. I = {}
      BY <1>0
    <2> HIDE DEF I
    <2> QED BY <1>0, <2>1, <2>2, RetainEmpty
  <1>3. ASSUME ReplayInstall PROVE pending' = <<>> /\ failed' = failed
    <2>1. pending' = RebuildPending(pending, ackedBefore) /\ failed' = failed
      BY <1>3 DEF ReplayInstall
    <2>2. pending' \in Seq(BatchRec) /\ Len(pending') \in Nat
      BY TypesStep, LenProperties DEF Types
    <2>3. PICK e : Parts(pending', pending, ackedBefore, e)
      BY <1>0, <2>1, RebuiltRanges
    <2>4. 1 \notin 1 .. Len(pending')
      BY <1>0, <2>3 DEF Parts
    <2>5. Len(pending') = 0
      BY <2>2, <2>4
    <2> QED BY <2>1, <2>2, <2>5, EmptySeq
  <1>4. ASSUME FinalizeDrain \/ CloseDrain \/ GetUnacked PROVE pending' = <<>> /\ failed' = failed
    <2>1. MovePendingToFailed
      BY <1>4 DEF FinalizeDrain, CloseDrain, GetUnacked
    <2> QED BY <1>0, <2>1, MoveNothing
  <1>5. pending' = <<>> /\ failed' = failed
    BY <1>0, <1>1, <1>2, <1>3, <1>4, BatchFrame
  <1>6. ASSUME NEW c \in Callers PROVE pc'[c] \notin Held
    <2>1. ~\E n \in 1 .. MaxRows : IngestAssign(c, n)
      BY <1>1
    <2>2. pc[c] \notin Held
      BY DEF Clean
    <2> QED BY <2>1, <2>2, CallerMoves DEF Held
  <1> QED BY <1>5, <1>6 DEF Clean

\* What a wait of close() returns.
LEMMA WaitOutcome ==
    ASSUME TypeInv, OrderInv, ErrorInv, FlushInv, WaitCheck \/ WaitState \/ WaitTimeout
    PROVE  /\ UNCHANGED <<pending, failed, pc, closed>>
           /\ \/ UNCHANGED <<teardown, closeError>>
              \/ teardown' /\ (closeError' = "ok" => Clean)
  <1>0. lastAck \in Int /\ LastOffset \in Int
    BY MarkTypes
  <1>1. UNCHANGED <<pending, failed, pc, closed>>
    BY DEF WaitCheck, WaitState, WaitTimeout, batches
  <1>2. ASSUME NEW r, WaitReturn(r), wait.st # "idle", r = "ok" => lastAck >= wait.goal
        PROVE  UNCHANGED <<teardown, closeError>> \/ (teardown' /\ (closeError' = "ok" => Clean))
    <2>1. CASE wait.owner = "flush"
      BY <1>2, <2>1 DEF WaitReturn
    <2>2. CASE wait.owner = "close"
      <3>1. closeError' = r /\ teardown'
        BY <1>2, <2>2 DEF WaitReturn
      <3>2. wait.goal = LastOffset /\ \A c \in Callers : pc[c] = "idle"
        BY <1>2, <2>2 DEF FlushInv
      <3>3. r = "ok" => pending = <<>> /\ failed = <<>>
        BY <1>2, <3>2, AllAcked
      <3> QED BY <3>1, <3>2, <3>3 DEF Clean, Held
    <2> QED BY <1>2, <2>1, <2>2 DEF WaitReturn
  <1>3. CASE WaitCheck
    <2>1. \/ UNCHANGED <<teardown, closeError>>
          \/ WaitReturn("ok") /\ lastAck >= wait.goal /\ wait.st # "idle"
      BY <1>3 DEF WaitCheck
    <2> QED BY <1>1, <1>2, <2>1
  <1>4. CASE WaitState
    <2> DEFINE r == IF lastAck >= wait.goal THEN "ok"
                    ELSE IF serverError # "none" THEN serverError ELSE "closed"
    <2>1. UNCHANGED <<teardown, closeError>> \/ (WaitReturn(r) /\ wait.st # "idle")
      BY <1>4 DEF WaitState
    <2>2. r = "ok" => lastAck >= wait.goal
      BY DEF ErrorInv, Outcomes, Errors
    <2> HIDE DEF r
    <2> QED BY <1>1, <1>2, <2>1, <2>2
  <1>5. CASE WaitTimeout
    <2>1. WaitReturn("timeout") /\ wait.st # "idle"
      BY <1>5 DEF WaitTimeout
    <2> QED BY <1>1, <1>2, <2>1
  <1> QED BY <1>3, <1>4, <1>5

\* close() succeeds only when everything is acknowledged.
LEMMA ResultStep ==
    ASSUME TypeInv, HoldInv, WaitInv, PartInv, OrderInv, ErrorInv, FlushInv, ResultInv, [Next]_vars
    PROVE  ResultInv'
  <1>1. Clean /\ (closed \/ teardown) => Clean'
    BY CleanStays
  <1>2. closed => closed'
    BY ClosedFrame DEF FinalizeClose, CloseFinal, DropStream
  <1>3. CloseDrain => /\ closing = "drain" /\ teardown' = FALSE /\ result' = closeError
                      /\ UNCHANGED closeError
    BY DEF CloseDrain
  <1>4. Close => \/ UNCHANGED <<teardown, closeError>>
                 \/ teardown' /\ Clean /\ UNCHANGED <<pending, failed, pc>>
    <2> SUFFICES ASSUME Close PROVE \/ UNCHANGED <<teardown, closeError>>
                                    \/ teardown' /\ Clean /\ UNCHANGED <<pending, failed, pc>>
      OBVIOUS
    <2>1. \/ UNCHANGED <<teardown, closeError>>
          \/ teardown' /\ LastOffset = -1 /\ \A c \in Callers : pc[c] = "idle"
      BY DEF Close, Exclusive
    <2>2. UNCHANGED <<pending, failed, pc>>
      BY DEF Close, batches
    <2>3. LastOffset = -1 => pending = <<>> /\ failed = <<>>
      <3>1. lastAck \in Int /\ lastAck >= -1
        BY DEF TypeInv, Types, Offsets
      <3> QED BY <3>1, AllAcked
    <2> QED BY <2>1, <2>2, <2>3 DEF Clean, Held
  <1>5. \/ UNCHANGED <<teardown, closeError>>
        \/ teardown' /\ (closeError' = "ok" => Clean')
        \/ CloseDrain
    <2>1. Clean /\ UNCHANGED <<pending, failed, pc>> => Clean'
      BY DEF Clean
    <2>2. WaitCheck \/ WaitState \/ WaitTimeout =>
             \/ UNCHANGED <<teardown, closeError>>
             \/ teardown' /\ (closeError' = "ok" => Clean')
      BY <2>1, WaitOutcome
    <2> QED BY <1>4, <2>1, <2>2, TeardownFrame
  <1>6. teardown' /\ closeError' = "ok" => Clean'
    BY <1>1, <1>3, <1>5 DEF ResultInv
  <1>7. ASSUME closed', ~teardown', closing' # "dropped", serverError' = "none", closeError' = "ok"
        PROVE  Clean'
    <2>1. CASE CloseDrain
      <3>1. teardown /\ closeError = "ok"
        BY <1>3, <1>7, <2>1 DEF FlushInv
      <3> QED BY <1>1, <3>1 DEF ResultInv
    <2>2. CASE UNCHANGED <<teardown, closeError>> /\ closed
      <3>1. sup \in {"drain_pending", "done"}
        BY <2>2 DEF HoldInv
      <3>2. ~FinalizeDrain
        <4>1. FinalizeDrain => serverError' = err /\ err # "none"
          BY DEF FinalizeDrain, ErrorInv
        <4> QED BY <1>7, <4>1
      <3>3. serverError = "none"
        BY <1>7, <3>1, <3>2, PublishFrame
      <3>4. closing # "dropped"
        BY <1>7, CloseFrame DEF HoldInv, WaitInv
      <3> QED BY <1>1, <1>7, <2>2, <3>3, <3>4 DEF ResultInv
    <2>3. CASE UNCHANGED <<teardown, closeError>> /\ ~closed
      <3>1. DropStream => closing' = "dropped"
        BY DEF DropStream
      <3>2. CloseFinal => teardown
        BY DEF CloseFinal, FlushInv
      <3>3. FinalizeClose => serverError' # "none"
        BY DEF FinalizeClose, ErrorInv, marks
      <3> QED BY <1>7, <2>3, <3>1, <3>2, <3>3, ClosedFrame
    <2> QED BY <1>5, <1>7, <2>1, <2>2, <2>3
  <1>8. ASSUME result' = "ok" PROVE closed' /\ Clean'
    <2>1. CASE CloseAgain
      <3>1. /\ closed /\ ~teardown /\ closing = "idle"
            /\ result' = IF serverError # "none" THEN serverError ELSE closeError
        BY <2>1 DEF CloseAgain, Exclusive, Shared
      <3>2. serverError # "ok"
        BY DEF ErrorInv, Outcomes, Errors
      <3>3. Clean
        BY <1>8, <3>1, <3>2 DEF ResultInv
      <3> QED BY <1>1, <1>2, <3>1, <3>3
    <2>2. CASE CloseDrain
      <3>1. closeError = "ok" /\ teardown /\ closed
        BY <1>3, <1>8, <2>2 DEF FlushInv, OrderInv, FailInv
      <3> QED BY <1>1, <1>2, <3>1 DEF ResultInv
    <2>3. CASE UNCHANGED result
      BY <1>1, <1>2, <1>8, <2>3 DEF ResultInv
    <2> QED BY <2>1, <2>2, <2>3, ResultFrame
  <1> QED BY <1>6, <1>7, <1>8 DEF ResultInv

------------------------------------------------------------------------------
(* The ledger of rows *)

\* Of a batch whose range begins at its start, the server has confirmed the rows that are
\* skipped and those up to n.
Confirms(conf, sizes, b, n) ==
    \A k \in 1 .. sizes[b.offset] :
        <<b.offset, k>> \in conf <=> k <= b.skip \/ b.start + (k - b.skip) <= n

\* Of a batch that is handed back it has confirmed the rows that are skipped.
Skips(conf, sizes, b) == \A k \in 1 .. sizes[b.offset] : <<b.offset, k>> \in conf <=> k <= b.skip

CutInv ==
    /\ \A i \in 1 .. Len(pending) : Confirms(confirmed, size, pending[i], acked)
    /\ \A j \in 1 .. Len(failed) : Whole(failed[j], size) /\ Skips(confirmed, size, failed[j])
    /\ confirmed \subseteq Offsets \X Int
    /\ \A r \in confirmed : r[1] <= LastOffset

\* A batch is submitted as a whole, and its range says where its rows are on the connection.
HandedOver(b, sizes, hand, sub) ==
    b.start < sub =>
       /\ b.end <= sub
       /\ \A k \in 1 .. sizes[b.offset] - b.skip : hand[b.start + k] = <<b.offset, b.skip + k>>

Spans(b, j) == b.start < j /\ j <= b.end

\* What was handed to the connection is confirmed up to n and pending from there on.
Carries(s, sizes, hand, sub, n, conf) ==
    /\ \A i \in 1 .. Len(s) : HandedOver(s[i], sizes, hand, sub)
    /\ \A j \in n + 1 .. sub : \E i \in 1 .. Len(s) : Spans(s[i], j)
    /\ \A j \in 1 .. n : hand[j] \in conf

HandInv == sup \in Active => Carries(pending, size, handed, submitted, acked, confirmed)

\* Where an accepted batch is: behind the acknowledged offset with all its rows confirmed, or
\* pending or handed back.
Kept(o, s) == \E i \in 1 .. Len(s) : s[i].offset = o

PlaceInv ==
    /\ accepted \subseteq Offsets
    /\ \A o \in accepted : /\ o <= LastOffset
                           /\ o <= lastAck => BatchRows(o) \subseteq confirmed
                           /\ lastAck < o => Kept(o, pending) \/ Kept(o, failed)

\* The batch of the call in its critical section.
Entry == [offset |-> Current, skip |-> 0, start |-> assigned - size[Current], end |-> assigned]

EntryInv ==
    \A c \in Callers :
       /\ pc[c] \in Held => \A o \in accepted : o < Current
       /\ pc[c] = "assigned" => \A r \in confirmed : r[1] < Current
       /\ pc[c] \in {"send", "commit"} =>
             /\ submitted + size[Current] <= assigned
             /\ \E i \in 1 .. Len(pending) : pending[i] = Entry

LedgerInv == CutInv /\ HandInv /\ PlaceInv /\ EntryInv

\* Two pending batches with one offset are one.
LEMMA OneOffset ==
    ASSUME TypeInv, OrderInv, NEW i \in 1 .. Len(pending), NEW j \in 1 .. Len(pending),
           pending[i].offset = pending[j].offset
    PROVE  i = j
  <1>1. /\ Len(pending) \in Nat
        /\ \A k \in 1 .. Len(pending) : pending[k].offset \in Int
    BY MarkTypes, BatchFields
  <1>2. \A k, l \in 1 .. Len(pending) : k < l => pending[k].offset < pending[l].offset
    BY DEF OrderInv, RangeInv, Ordered, Follows
  <1>3. ~(i < j) /\ ~(j < i)
    BY <1>1, <1>2
  <1> QED BY <1>1, <1>3

\* The unacknowledged part of a pending batch has rows, none of them confirmed, and the server
\* has confirmed all the others.
LEMMA CutAway ==
    ASSUME TypeInv, PartInv, OrderInv, CutInv, NEW i \in 1 .. Len(pending)
    PROVE  LET b == UnacknowledgedSuffix(pending[i], acked)
           IN  b \in BatchRec /\ b.offset = pending[i].offset /\ NumRows(b) > 0
               /\ Whole(b, size) /\ Skips(confirmed, size, b)
  <1> DEFINE a == pending[i]
             b == UnacknowledgedSuffix(a, acked)
  <1>0. Types /\ pending \in Seq(BatchRec) /\ acked \in Int
    BY MarkTypes
  <1>1. /\ a \in BatchRec /\ a.offset \in Offsets /\ a.skip \in Int /\ a.start \in Int
        /\ a.end \in Int /\ size[a.offset] \in Int
    BY <1>0, BatchFields
  <1>2. a.end = a.start + (size[a.offset] - a.skip) /\ acked < a.end
    BY DEF OrderInv, RangeInv, AllPlaced, Placed
  <1>3. a.skip >= 0 /\ size[a.offset] - a.skip >= 1
    BY DEF PartInv, Whole
  <1>4. Confirms(confirmed, size, a, acked)
    BY DEF CutInv
  <1> HIDE DEF a
  <1>5. /\ b \in BatchRec /\ b.offset = a.offset
        /\ b.skip = IF a.start >= acked THEN a.skip ELSE a.skip + (acked - a.start)
    BY <1>0, <1>1, <1>2, SuffixOf DEF NumRows
  <1> HIDE DEF b
  <1>6. b.skip \in Int /\ b.skip >= 0 /\ size[a.offset] - b.skip >= 1
    BY <1>0, <1>1, <1>2, <1>3, <1>5
  <1>7. \A k \in Int : (k <= a.skip \/ a.start + (k - a.skip) <= acked) <=> k <= b.skip
    BY <1>0, <1>1, <1>5
  <1>8. Skips(confirmed, size, b)
    BY <1>1, <1>4, <1>5, <1>7 DEF Skips, Confirms
  <1>9. Whole(b, size) /\ NumRows(b) > 0
    BY <1>1, <1>5, <1>6 DEF Whole, NumRows
  <1> QED BY <1>5, <1>8, <1>9 DEF a, b

\* The parts that a replay or a drain keeps of the pending batches are those of all of them.
LEMMA PartsCut ==
    ASSUME TypeInv, PartInv, OrderInv, CutInv, NEW t, NEW e, Parts(t, pending, acked, e)
    PROVE  /\ \A k \in 1 .. Len(t) :
                 Whole(t[k], size) /\ Skips(confirmed, size, t[k]) /\ Kept(t[k].offset, pending)
           /\ \A o : Kept(o, pending) => Kept(o, t)
  <1>1. ASSUME NEW k \in 1 .. Len(t)
        PROVE  /\ Whole(t[k], size) /\ Skips(confirmed, size, t[k])
               /\ Kept(t[k].offset, pending)
    <2>1. /\ e[k] \in 1 .. Len(pending) /\ t[k].offset = pending[e[k]].offset
          /\ t[k].skip = UnacknowledgedSuffix(pending[e[k]], acked).skip
      BY DEF Parts
    <2> DEFINE b == UnacknowledgedSuffix(pending[e[k]], acked)
    <2>2. b.offset = pending[e[k]].offset /\ Whole(b, size) /\ Skips(confirmed, size, b)
      BY <2>1, CutAway
    <2>3. t[k].skip = b.skip /\ t[k].offset = b.offset
      BY <2>1, <2>2
    <2> HIDE DEF b
    <2> QED BY <2>1, <2>2, <2>3 DEF Whole, Skips, Kept
  <1>2. ASSUME NEW o, Kept(o, pending) PROVE Kept(o, t)
    <2>1. PICK i \in 1 .. Len(pending) : pending[i].offset = o
      BY <1>2 DEF Kept
    <2>2. NumRows(UnacknowledgedSuffix(pending[i], acked)) > 0
      BY CutAway
    <2>3. PICK k \in 1 .. Len(t) : e[k] = i
      BY <2>2 DEF Parts
    <2>4. t[k].offset = o
      BY <2>1, <2>3 DEF Parts
    <2> QED BY <2>4 DEF Kept
  <1> QED BY <1>1, <1>2

\* Handing over the batch that begins where the connection ends.
LEMMA HandOver ==
    ASSUME TypeInv, PartInv, OrderInv, handed \in Seq(Offsets \X Int), Len(handed) = submitted,
           Carries(pending, size, handed, submitted, acked, confirmed),
           NEW m \in 1 .. Len(pending), pending[m].start = submitted
    PROVE  Carries(pending, size, handed \o RowSeq(pending[m]), pending[m].end, acked, confirmed)
  <1> DEFINE b == pending[m]
             new == handed \o RowSeq(b)
  <1>0. Types /\ pending \in Seq(BatchRec) /\ acked \in Int /\ submitted \in Int
    BY MarkTypes
  <1>1. /\ Len(pending) \in Nat
        /\ \A i \in 1 .. Len(pending) :
              /\ pending[i].offset \in Offsets /\ pending[i].skip \in Int
              /\ pending[i].start \in Int /\ pending[i].end \in Int
              /\ size[pending[i].offset] \in Int
    BY <1>0, BatchFields
  <1>2. \A i \in 1 .. Len(pending) :
           /\ 0 <= pending[i].start
           /\ pending[i].end = pending[i].start + (size[pending[i].offset] - pending[i].skip)
           /\ size[pending[i].offset] - pending[i].skip >= 1
    BY DEF OrderInv, RangeInv, AllPlaced, Placed, PartInv, Whole
  <1>3. \A i, j \in 1 .. Len(pending) : i < j => pending[i].end <= pending[j].start
    BY DEF OrderInv, RangeInv, Ordered, Follows
  <1>4. /\ b.offset \in Offsets /\ b.skip \in Int /\ size[b.offset] - b.skip \in Nat
        /\ b.start = submitted /\ b.end \in Int /\ b.end = submitted + (size[b.offset] - b.skip)
        /\ submitted < b.end
    BY <1>0, <1>1, <1>2
  <1>5. RowSeq(b) \in Seq(Offsets \X Int) /\ Len(RowSeq(b)) = size[b.offset] - b.skip
    <2> HIDE DEF b
    <2> QED BY <1>4, RowSeqType DEF NumRows
  <1>6. /\ \A j \in 1 .. submitted : new[j] = handed[j]
        /\ \A k \in 1 .. size[b.offset] - b.skip : new[submitted + k] = <<b.offset, b.skip + k>>
    <2>1. \A k \in 1 .. size[b.offset] - b.skip : RowSeq(b)[k] = <<b.offset, b.skip + k>>
      BY DEF RowSeq, NumRows
    <2> HIDE DEF b
    <2>2. \A j \in 1 .. Len(handed) + Len(RowSeq(b)) :
             new[j] = IF j <= Len(handed) THEN handed[j] ELSE RowSeq(b)[j - Len(handed)]
      BY <1>5, ConcatProperties
    <2>3. Len(handed) \in Nat
      BY LenProperties
    <2>4. \A k \in 1 .. size[b.offset] - b.skip :
             /\ submitted + k \in 1 .. Len(handed) + Len(RowSeq(b))
             /\ ~(submitted + k <= Len(handed)) /\ (submitted + k) - Len(handed) = k
      BY <1>0, <1>4, <1>5, <2>3
    <2>5. \A j \in 1 .. submitted : j \in 1 .. Len(handed) + Len(RowSeq(b)) /\ j <= Len(handed)
      BY <1>0, <1>4, <1>5, <2>3
    <2> HIDE DEF new
    <2> QED BY <2>1, <2>2, <2>4, <2>5
  <1> HIDE DEF new
  <1>7. ASSUME NEW i \in 1 .. Len(pending) PROVE HandedOver(pending[i], size, new, b.end)
    <2>0. /\ pending[i].start \in Int /\ pending[i].end \in Int /\ 0 <= pending[i].start
          /\ size[pending[i].offset] - pending[i].skip \in Int
          /\ pending[i].end = pending[i].start + (size[pending[i].offset] - pending[i].skip)
          /\ pending[i].start < pending[i].end
      BY <1>1, <1>2
    <2>1. CASE pending[i].start < submitted
      <3>1. /\ pending[i].end <= submitted
            /\ \A k \in 1 .. size[pending[i].offset] - pending[i].skip :
                  handed[pending[i].start + k] = <<pending[i].offset, pending[i].skip + k>>
        BY <2>1 DEF Carries, HandedOver
      <3>2. \A k \in 1 .. size[pending[i].offset] - pending[i].skip :
               pending[i].start + k \in 1 .. submitted
        <4>1. \A x, y, z \in Int : \A k \in 1 .. y :
                 0 <= x /\ z = x + y /\ z <= submitted => x + k \in 1 .. submitted
          BY <1>0
        <4> QED BY <2>0, <3>1, <4>1
      <3>3. pending[i].end <= b.end
        BY <1>0, <1>1, <1>4, <3>1
      <3> QED BY <1>6, <3>1, <3>2, <3>3 DEF HandedOver
    <2>2. CASE i = m
      <3>1. b.end <= b.end
        BY <1>4
      <3> QED BY <1>4, <1>6, <2>2, <3>1 DEF HandedOver
    <2>3. CASE ~(pending[i].start < submitted) /\ i # m
      <3>1. m < i
        <4>1. ~(i < m)
          <5>1. i < m => pending[i].end <= submitted
            BY <1>3, <1>4
          <5> QED BY <1>0, <2>0, <2>3, <5>1
        <4> QED BY <1>1, <2>3, <4>1
      <3>2. b.end <= pending[i].start
        BY <1>3, <3>1
      <3> QED BY <1>1, <1>4, <3>2 DEF HandedOver
    <2> QED BY <2>1, <2>2, <2>3
  <1>8. ASSUME NEW j \in acked + 1 .. b.end
        PROVE  \E i \in 1 .. Len(pending) : Spans(pending[i], j)
    <2>1. CASE j <= submitted
      <3>1. j \in acked + 1 .. submitted
        BY <1>0, <1>4, <2>1
      <3> QED BY <3>1 DEF Carries
    <2>2. CASE ~(j <= submitted)
      <3>1. Spans(b, j)
        BY <1>0, <1>4, <2>2 DEF Spans
      <3> QED BY <3>1
    <2> QED BY <2>1, <2>2
  <1>9. \A j \in 1 .. acked : new[j] \in confirmed
    <2>1. \A j \in 1 .. acked : j \in 1 .. submitted
      BY <1>0 DEF OrderInv, MarkInv
    <2> QED BY <1>6, <2>1 DEF Carries
  <1> QED BY <1>7, <1>8, <1>9 DEF Carries, new

\* A new stream has nothing to carry.
LEMMA CreatedEmpty ==
    ASSUME TypeInv, OrderInv, CountInv, sup = "create", NEW hand
    PROVE  Carries(pending, size, hand, submitted, acked, confirmed)
  <1>0. Types /\ pending \in Seq(BatchRec) /\ acked \in Int
    BY MarkTypes
  <1>1. submitted = 0 /\ acked = 0
    BY <1>0 DEF CountInv, OrderInv, MarkInv
  <1>2. \A i \in 1 .. Len(pending) : 0 <= pending[i].start /\ pending[i].start \in Int
    BY <1>0, BatchFields DEF OrderInv, RangeInv, AllPlaced, Placed
  <1> QED BY <1>1, <1>2 DEF Carries, HandedOver

\* The ledger is kept by the steps that neither move, count nor renumber batches.
LEMMA LedgerIdle ==
    ASSUME TypeInv, OrderInv, CountInv, LedgerInv, [Next]_vars, ~Orders
    PROVE  LedgerInv'
  <1>1. /\ UNCHANGED <<size, pending, failed, assigned, submitted, acked, lastAck>>
        /\ LastOffset' = LastOffset /\ Current' = Current
        /\ \A c \in Callers : pc'[c] = "assigned" => pc[c] = "assigned"
    BY OrdersFrame
  <1>2. UNCHANGED <<accepted, confirmed>>
    BY AcceptedFrame, ConfirmedFrame DEF Orders
  <1>3. CutInv'
    BY <1>1, <1>2 DEF LedgerInv, CutInv
  <1>4. PlaceInv'
    BY <1>1, <1>2 DEF LedgerInv, PlaceInv, BatchRows
  <1>5. ASSUME sup' \in Active PROVE Carries(pending, size, handed', submitted, acked, confirmed)
    <2>1. CASE CreateOk
      <3>1. sup = "create"
        BY <2>1 DEF CreateOk
      <3> QED BY <3>1, CreatedEmpty
    <2>2. CASE ~CreateOk
      <3>1. sup \in Active /\ UNCHANGED handed
        BY <1>5, <2>2, ActiveFrame, HandedFrame DEF Orders
      <3> QED BY <3>1 DEF LedgerInv, HandInv
    <2> QED BY <2>1, <2>2
  <1>6. HandInv'
    BY <1>1, <1>2, <1>5 DEF HandInv
  <1>7. ASSUME NEW c \in Callers, pc'[c] \in {"send", "commit"} PROVE pc[c] \in {"send", "commit"}
    <2>1. pc \in [Callers -> Pcs]
      BY DEF TypeInv, Types
    <2>2. ASSUME NEW d \in Callers, IngestReserve(d) PROVE pc[c] \in {"send", "commit"}
      <3>1. pc[d] = "send" /\ pc' = [pc EXCEPT ![d] = "commit"]
        BY <2>2 DEF IngestReserve, Goto
      <3> QED BY <1>7, <2>1, <3>1
    <2>3. ASSUME NEW d \in Callers, IngestStart(d) \/ IngestPermit(d) \/ IngestRefused(d)
                                    \/ IngestCancel(d)
          PROVE  pc[c] \in {"send", "commit"}
      <3>1. PICK x \in {"permit", "mutex", "idle"} : pc' = [pc EXCEPT ![d] = x]
        BY <2>3 DEF IngestStart, IngestPermit, IngestRefused, IngestCancel, Goto
      <3> QED BY <1>7, <2>1, <3>1
    <2> QED BY <1>7, <2>2, <2>3, CallerFrame DEF Orders
  <1>8. \A c \in Callers : pc'[c] \in Held => pc[c] \in Held
    BY <1>1, <1>7 DEF Held
  <1>9. Entry' = Entry
    BY <1>1 DEF Entry
  <1>10. EntryInv'
    BY <1>1, <1>2, <1>7, <1>8, <1>9 DEF LedgerInv, EntryInv
  <1> QED BY <1>3, <1>4, <1>6, <1>10 DEF LedgerInv

\* The watermark is read, and the new connection has nothing yet.
LEMMA LedgerConnect ==
    ASSUME LedgerInv, Connect
    PROVE  LedgerInv'
  <1>1. /\ sup' = "replay"
        /\ UNCHANGED <<size, pending, failed, assigned, submitted, acked, lastAck, pc, accepted,
                       confirmed>>
    BY DEF Connect, batches, counters, marks
  <1>2. LastOffset' = LastOffset /\ Current' = Current
    BY <1>1 DEF LastOffset, Current
  <1>3. HandInv'
    BY <1>1 DEF HandInv, Active
  <1>4. CutInv' /\ PlaceInv'
    BY <1>1, <1>2 DEF LedgerInv, CutInv, PlaceInv, BatchRows
  <1>5. EntryInv'
    BY <1>1, <1>2 DEF LedgerInv, EntryInv, Entry
  <1> QED BY <1>3, <1>4, <1>5 DEF LedgerInv

\* A batch that gets its offset has no confirmed row.
LEMMA LedgerAssign ==
    ASSUME TypeInv, HoldInv, OrderInv, LedgerInv,
           NEW c \in Callers, NEW n \in 1 .. MaxRows, IngestAssign(c, n)
    PROVE  LedgerInv'
  <1> DEFINE l == LastOffset + 1
  <1>0. /\ Types /\ pending \in Seq(BatchRec) /\ failed \in Seq(BatchRec) /\ LastOffset \in Int
    BY MarkTypes
  <1>1. /\ mutex = "free" /\ ~closed
        /\ size' = [size EXCEPT ![l] = n] /\ pc' = [pc EXCEPT ![c] = "assigned"]
        /\ UNCHANGED <<pending, failed, submitted, acked, lastAck, sup, accepted, handed,
                       confirmed>>
    BY DEF IngestAssign, batches, marks, supVars, Goto, Refusing
  <1>2. Current' = l /\ LastOffset' = l
    BY AssignCurrent DEF Current
  <1>3. l \in Int /\ LastOffset < l
    BY <1>0
  <1>4. \A o \in Offsets : o \in Int /\ (o <= LastOffset => size'[o] = size[o])
    <2>1. size \in [Offsets -> 0 .. MaxRows] /\ \A o \in Offsets : o \in Int
      BY <1>0 DEF Types, Offsets
    <2> QED BY <1>0, <1>1, <2>1
  <1> HIDE DEF l
  <1>5. \A i \in 1 .. Len(pending) : size'[pending[i].offset] = size[pending[i].offset]
    <2>1. \A i \in 1 .. Len(pending) : pending[i].offset \in Offsets
      BY <1>0, BatchFields
    <2>2. \A i \in 1 .. Len(pending) : pending[i].offset <= LastOffset
      BY DEF OrderInv, RangeInv, AllPlaced, Placed
    <2> QED BY <1>4, <2>1, <2>2
  <1>6. Len(failed) = 0
    BY <1>1 DEF OrderInv, FailInv
  <1>7. \A r \in confirmed : r[1] < l
    <2>1. \A r \in confirmed : r[1] \in Int /\ r[1] <= LastOffset
      BY <1>4 DEF LedgerInv, CutInv
    <2> QED BY <1>0, <1>3, <2>1
  <1>8. CutInv'
    <2>1. \A i \in 1 .. Len(pending) : Confirms(confirmed, size', pending[i], acked)
      BY <1>5 DEF LedgerInv, CutInv, Confirms
    <2>2. \A r \in confirmed : r[1] <= l
      <3>1. \A r \in confirmed : r[1] \in Int
        BY <1>4 DEF LedgerInv, CutInv
      <3> QED BY <1>3, <1>7, <3>1
    <2>3. \A j \in 1 .. Len(failed) : FALSE
      BY <1>6
    <2>4. confirmed \subseteq Offsets \X Int
      BY DEF LedgerInv, CutInv
    <2> QED BY <1>1, <1>2, <2>1, <2>2, <2>3, <2>4 DEF CutInv
  <1>9. HandInv'
    <2>1. Carries(pending, size, handed, submitted, acked, confirmed) =>
             Carries(pending, size', handed, submitted, acked, confirmed)
      BY <1>5 DEF Carries, HandedOver
    <2> QED BY <1>1, <2>1 DEF LedgerInv, HandInv
  <1>10. \A o \in accepted : o \in Int /\ o <= LastOffset /\ o < l /\ size'[o] = size[o]
    <2>1. \A o \in accepted : o \in Offsets /\ o <= LastOffset
      BY DEF LedgerInv, PlaceInv
    <2> QED BY <1>0, <1>3, <1>4, <2>1
  <1>11. PlaceInv'
    <2>1. \A o \in accepted : o <= l
      BY <1>3, <1>10
    <2>2. \A o \in accepted : BatchRows(o)' = BatchRows(o)
      BY <1>10 DEF BatchRows
    <2> QED BY <1>1, <1>2, <2>1, <2>2 DEF LedgerInv, PlaceInv
  <1>12. EntryInv'
    <2>1. \A d \in Callers : pc'[d] \notin {"send", "commit"}
      <3>1. pc \in [Callers -> Pcs]
        BY <1>0 DEF Types
      <3>2. \A d \in Callers : pc[d] \notin Held
        BY <1>1, OneHeld
      <3> QED BY <1>1, <3>1, <3>2 DEF Held
    <2> QED BY <1>1, <1>2, <1>7, <1>10, <2>1 DEF EntryInv
  <1> QED BY <1>8, <1>9, <1>11, <1>12 DEF LedgerInv

\* A batch joins the pending ones unconfirmed and not handed over.
LEMMA LedgerPush ==
    ASSUME TypeInv, HoldInv, OrderInv, LedgerInv, NEW c \in Callers, IngestPush(c)
    PROVE  LedgerInv'
  <1>0. /\ Types /\ pending \in Seq(BatchRec) /\ assigned \in Int /\ submitted \in Int
        /\ acked \in Int /\ lastAck \in Int /\ LastOffset \in Int /\ Current = LastOffset
        /\ pc \in [Callers -> Pcs]
    BY MarkTypes DEF Types
  <1>1. /\ pc[c] = "assigned" /\ pending' = Append(pending, Entry)
        /\ UNCHANGED <<size, failed, assigned, submitted, acked, lastAck, sup, handed, confirmed>>
        /\ pc' = [pc EXCEPT ![c] = IF paused THEN "idle" ELSE "send"]
        /\ accepted' = IF paused THEN accepted \cup {Current} ELSE accepted
    BY DEF IngestPush, batches, counters, marks, supVars, Goto, Entry
  <1>2. Current \in Offsets /\ size[Current] \in Int /\ size[Current] >= 1
    <2>1. Current \in Offsets /\ size[Current] \in 1 .. MaxRows
      BY <1>1, CurrentOffset DEF Held
    <2> QED BY <2>1, ArrowAssumptions
  <1>3. LastOffset' = LastOffset /\ Current' = Current /\ Entry' = Entry
    BY <1>1 DEF LastOffset, Current, Entry
  <1>4. /\ Entry \in BatchRec /\ Entry.offset = Current /\ Entry.skip = 0
        /\ Entry.start = assigned - size[Current] /\ Entry.end = assigned
    BY <1>0, <1>2 DEF BatchRec, Entry
  <1>5. /\ submitted + size[Current] <= assigned /\ lastAck < Current
        /\ 0 <= acked /\ acked <= submitted
    BY <1>1 DEF OrderInv, NewInv, MarkInv
  <1>6. /\ \A r \in confirmed : r[1] < Current
        /\ \A o \in accepted : o < Current
    BY <1>1 DEF LedgerInv, EntryInv, Held
  <1>7. /\ Len(pending') = Len(pending) + 1 /\ pending'[Len(pending) + 1] = Entry
        /\ \A i \in 1 .. Len(pending) : pending'[i] = pending[i]
    BY <1>0, <1>1, <1>4, AppendProperties
  <1>8. /\ Len(pending) \in Nat
        /\ \A i \in 1 .. Len(pending') : i \in 1 .. Len(pending) \/ i = Len(pending) + 1
        /\ \A i \in 1 .. Len(pending) : i \in 1 .. Len(pending')
        /\ Len(pending) + 1 \in 1 .. Len(pending')
    BY <1>0, <1>7, LenProperties
  <1>9. /\ \A o : Kept(o, pending) => Kept(o, pending')
        /\ Kept(Current, pending')
    BY <1>4, <1>7, <1>8 DEF Kept
  <1>10. CutInv'
    <2>1. Confirms(confirmed, size, Entry, acked)
      <3>1. \A k \in 1 .. size[Current] :
               /\ <<Current, k>> \notin confirmed
               /\ ~(k <= 0) /\ ~((assigned - size[Current]) + (k - 0) <= acked)
        <4>1. ASSUME NEW k \in 1 .. size[Current], <<Current, k>> \in confirmed PROVE FALSE
          <5>1. <<Current, k>>[1] < Current
            BY <1>6, <4>1
          <5> QED BY <1>0, <5>1
        <4> QED BY <1>0, <1>2, <1>5, <4>1
      <3> QED BY <1>4, <3>1 DEF Confirms
    <2>2. \A i \in 1 .. Len(pending) : Confirms(confirmed, size, pending[i], acked)
      BY DEF LedgerInv, CutInv
    <2>3. \A i \in 1 .. Len(pending') : Confirms(confirmed, size, pending'[i], acked)
      BY <1>7, <1>8, <2>1, <2>2
    <2> QED BY <1>1, <1>3, <2>3 DEF LedgerInv, CutInv
  <1>11. HandInv'
    <2> SUFFICES ASSUME sup \in Active
                 PROVE  Carries(pending', size, handed, submitted, acked, confirmed)
      BY <1>1 DEF HandInv
    <2>1. Carries(pending, size, handed, submitted, acked, confirmed)
      BY DEF LedgerInv, HandInv
    <2>2. HandedOver(Entry, size, handed, submitted)
      BY <1>0, <1>2, <1>4, <1>5 DEF HandedOver
    <2>3. \A i \in 1 .. Len(pending') : HandedOver(pending'[i], size, handed, submitted)
      BY <1>7, <1>8, <2>1, <2>2 DEF Carries
    <2>4. \A j \in acked + 1 .. submitted : \E i \in 1 .. Len(pending') : Spans(pending'[i], j)
      BY <1>7, <1>8, <2>1 DEF Carries
    <2> QED BY <2>1, <2>3, <2>4 DEF Carries
  <1>12. \A d \in Callers : d # c => pc[d] \notin Held
    BY <1>1, OneHeld DEF Held
  <1>13. PlaceInv'
    <2>1. \A o \in accepted' : o \in accepted \/ o = Current
      BY <1>1
    <2>2. accepted' \subseteq Offsets
      BY <1>2, <2>1 DEF LedgerInv, PlaceInv
    <2>3. ASSUME NEW o \in accepted'
          PROVE  /\ o <= LastOffset
                 /\ o <= lastAck => BatchRows(o) \subseteq confirmed
                 /\ lastAck < o => Kept(o, pending') \/ Kept(o, failed)
      <3>1. CASE o \in accepted
        BY <1>9, <3>1 DEF LedgerInv, PlaceInv
      <3>2. CASE o = Current
        BY <1>0, <1>5, <1>9, <3>2
      <3> QED BY <2>1, <3>1, <3>2
    <2>4. \A o : BatchRows(o)' = BatchRows(o)
      BY <1>1 DEF BatchRows
    <2> QED BY <1>1, <1>3, <2>2, <2>3, <2>4 DEF PlaceInv
  <1>14. EntryInv'
    <2> SUFFICES ASSUME NEW d \in Callers
                 PROVE  /\ pc'[d] \in Held => \A o \in accepted' : o < Current
                        /\ pc'[d] = "assigned" => \A r \in confirmed : r[1] < Current
                        /\ pc'[d] \in {"send", "commit"} =>
                              /\ submitted + size[Current] <= assigned
                              /\ \E i \in 1 .. Len(pending') : pending'[i] = Entry
      BY <1>1, <1>3 DEF EntryInv
    <2>1. d # c => pc'[d] = pc[d] /\ pc[d] \notin Held
      BY <1>0, <1>1, <1>12
    <2>2. pc'[c] = IF paused THEN "idle" ELSE "send"
      BY <1>0, <1>1
    <2>3. pc'[d] \in Held => d = c /\ ~paused
      BY <2>1, <2>2 DEF Held
    <2>4. \E i \in 1 .. Len(pending') : pending'[i] = Entry
      BY <1>7, <1>8
    <2>5. pc'[d] # "assigned"
      BY <2>1, <2>2 DEF Held
    <2> QED BY <1>1, <1>5, <1>6, <2>3, <2>4, <2>5
  <1> QED BY <1>10, <1>11, <1>13, <1>14 DEF LedgerInv

\* A batch that is taken back was neither accepted nor handed over.
LEMMA LedgerTakeBack ==
    ASSUME TypeInv, HoldInv, OrderInv, LedgerInv, NEW c \in Callers, IngestSendFails(c)
    PROVE  LedgerInv'
  <1> DEFINE I == {i \in DOMAIN pending : pending[i].offset # Current}
  <1>0. /\ Types /\ pending \in Seq(BatchRec) /\ LastOffset \in Int /\ Current = LastOffset
        /\ pc \in [Callers -> Pcs] /\ submitted \in Int /\ acked \in Int /\ assigned \in Int
        /\ Len(pending) \in Nat /\ DOMAIN pending = 1 .. Len(pending)
    BY MarkTypes, LenProperties DEF Types
  <1>1. /\ pc[c] = "send"
        /\ \/ accepted' = accepted \cup {Current} /\ pending' = pending
           \/ accepted' = accepted /\ pending' = Retain(pending, I)
        /\ UNCHANGED <<size, failed, assigned, submitted, acked, lastAck, sup, handed, confirmed>>
        /\ pc' = [pc EXCEPT ![c] = "idle"]
    BY DEF IngestSendFails, batches, counters, marks, supVars, Goto
  <1>2. LastOffset' = LastOffset
    BY <1>1 DEF LastOffset
  <1>3. EntryInv'
    <2>1. \A d \in Callers : d # c => pc[d] \notin Held
      BY <1>1, OneHeld DEF Held
    <2>2. \A d \in Callers : pc'[d] \notin Held
      BY <1>0, <1>1, <2>1 DEF Held
    <2> QED BY <2>2 DEF EntryInv, Held
  <1>4. PICK m \in 1 .. Len(pending) : pending[m] = Entry
    BY <1>1 DEF LedgerInv, EntryInv
  <1>5. /\ pending[m].offset = Current /\ pending[m].start = assigned - size[Current]
        /\ submitted + size[Current] <= assigned /\ \A o \in accepted : o < Current
    BY <1>1, <1>4 DEF LedgerInv, EntryInv, Entry, Held
  <1>6. Current \in Offsets /\ size[Current] \in Int
    <2>1. Current \in Offsets /\ size[Current] \in 1 .. MaxRows
      BY <1>1, CurrentOffset DEF Held
    <2> QED BY <2>1
  <1>7. \A o : BatchRows(o)' = BatchRows(o)
    BY <1>1 DEF BatchRows
  <1>8. CASE accepted' = accepted \cup {Current} /\ pending' = pending
    <2>1. CutInv' /\ HandInv'
      BY <1>1, <1>2, <1>8 DEF LedgerInv, CutInv, HandInv
    <2>2. lastAck < Current /\ lastAck \in Int
      BY <1>5, MarkTypes DEF OrderInv, RangeInv, AllPlaced, Placed
    <2>3. ASSUME NEW o \in accepted \cup {Current}
          PROVE  /\ o \in Offsets /\ o <= LastOffset
                 /\ o <= lastAck => BatchRows(o) \subseteq confirmed
                 /\ lastAck < o => Kept(o, pending) \/ Kept(o, failed)
      <3>1. CASE o \in accepted
        BY <3>1 DEF LedgerInv, PlaceInv
      <3>2. CASE o = Current
        BY <1>0, <1>5, <1>6, <2>2, <3>2 DEF Kept
      <3> QED BY <3>1, <3>2
    <2>4. PlaceInv'
      BY <1>1, <1>2, <1>7, <1>8, <2>3 DEF PlaceInv
    <2> QED BY <1>3, <2>1, <2>4 DEF LedgerInv
  <1>9. CASE accepted' = accepted /\ pending' = Retain(pending, I)
    <2>1. I \in SUBSET (1 .. Len(pending)) /\ \A i \in 1 .. Len(pending) : i # m => i \in I
      BY <1>0, <1>5, OneOffset
    <2> HIDE DEF I
    <2>2. /\ \A k \in 1 .. Len(pending') : \E i \in I : pending'[k] = pending[i]
          /\ \A i \in I : \E k \in 1 .. Len(pending') : pending'[k] = pending[i]
      BY <1>0, <1>9, <2>1, RetainOrdered DEF OrderInv, RangeInv
    <2>3. CutInv'
      <3>1. \A k \in 1 .. Len(pending') : Confirms(confirmed, size, pending'[k], acked)
        BY <2>1, <2>2 DEF LedgerInv, CutInv
      <3> QED BY <1>1, <1>2, <3>1 DEF LedgerInv, CutInv
    <2>4. HandInv'
      <3> SUFFICES ASSUME sup \in Active
                   PROVE  Carries(pending', size, handed, submitted, acked, confirmed)
        BY <1>1 DEF HandInv
      <3>1. Carries(pending, size, handed, submitted, acked, confirmed)
        BY DEF LedgerInv, HandInv
      <3>2. \A k \in 1 .. Len(pending') : HandedOver(pending'[k], size, handed, submitted)
        BY <2>1, <2>2, <3>1 DEF Carries
      <3>3. ASSUME NEW j \in acked + 1 .. submitted
            PROVE  \E k \in 1 .. Len(pending') : Spans(pending'[k], j)
        <4>1. PICK i \in 1 .. Len(pending) : Spans(pending[i], j)
          BY <3>1 DEF Carries
        <4>2. ~Spans(pending[m], j)
          BY <1>0, <1>5, <1>6 DEF Spans
        <4>3. i \in I
          BY <2>1, <4>1, <4>2
        <4> QED BY <2>2, <4>1, <4>3
      <3> QED BY <3>1, <3>2, <3>3 DEF Carries
    <2>5. PlaceInv'
      <3>1. ASSUME NEW o \in accepted, Kept(o, pending) PROVE Kept(o, pending')
        <4>1. PICK i \in 1 .. Len(pending) : pending[i].offset = o
          BY <3>1 DEF Kept
        <4>2. i \in I
          <5>1. o < Current /\ o \in Int
            BY <1>5 DEF LedgerInv, PlaceInv, Offsets
          <5>2. i # m
            BY <1>0, <1>5, <4>1, <5>1
          <5> QED BY <2>1, <5>2
        <4> QED BY <2>2, <4>1, <4>2 DEF Kept
      <3> QED BY <1>1, <1>2, <1>7, <1>9, <3>1 DEF LedgerInv, PlaceInv
    <2> QED BY <1>3, <2>3, <2>4, <2>5 DEF LedgerInv
  <1> QED BY <1>1, <1>8, <1>9

\* A batch that is submitted is the next one of the connection.
LEMMA LedgerCommit ==
    ASSUME TypeInv, HoldInv, GateInv, PartInv, CountInv, OrderInv, LedgerInv,
           NEW c \in Callers, IngestCommit(c)
    PROVE  LedgerInv'
  <1>0. /\ Types /\ pending \in Seq(BatchRec) /\ LastOffset \in Int /\ Current = LastOffset
        /\ pc \in [Callers -> Pcs] /\ submitted \in Int /\ assigned \in Int /\ lastAck \in Int
    BY MarkTypes DEF Types
  <1>1. /\ pc[c] = "commit" /\ submitted' = assigned
        /\ handed' = handed \o RowSeq([offset |-> Current, skip |-> 0])
        /\ accepted' = accepted \cup {Current}
        /\ UNCHANGED <<size, pending, failed, assigned, acked, lastAck, sup, confirmed>>
        /\ pc' = [pc EXCEPT ![c] = "idle"]
    BY DEF IngestCommit, batches, marks, supVars, Goto
  <1>2. LastOffset' = LastOffset
    BY <1>1 DEF LastOffset
  <1>3. EntryInv'
    <2>1. \A d \in Callers : d # c => pc[d] \notin Held
      BY <1>1, OneHeld DEF Held
    <2>2. \A d \in Callers : pc'[d] \notin Held
      BY <1>0, <1>1, <2>1 DEF Held
    <2> QED BY <2>2 DEF EntryInv, Held
  <1>4. PICK m \in 1 .. Len(pending) : pending[m] = Entry
    BY <1>1 DEF LedgerInv, EntryInv
  <1>5. /\ pending[m].offset = Current /\ pending[m].start = assigned - size[Current]
        /\ pending[m].skip = 0 /\ pending[m].end = assigned
    BY <1>4 DEF Entry
  <1>6. Current \in Offsets /\ size[Current] \in Int
    <2>1. Current \in Offsets /\ size[Current] \in 1 .. MaxRows
      BY <1>1, CurrentOffset DEF Held
    <2> QED BY <2>1
  <1>7. CutInv'
    BY <1>1, <1>2 DEF LedgerInv, CutInv
  <1>8. HandInv'
    <2> SUFFICES ASSUME sup \in Active
                 PROVE  Carries(pending, size, handed', assigned, acked, confirmed)
      BY <1>1 DEF HandInv
    <2>1. sender
      BY <1>1 DEF GateInv, Active
    <2>2. /\ handed \in Seq(Offsets \X Int) /\ Len(handed) = submitted
          /\ assigned = submitted + size[Current]
      BY <1>1, <2>1 DEF CountInv
    <2>3. pending[m].start = submitted
      BY <1>0, <1>5, <1>6, <2>2
    <2>4. RowSeq(pending[m]) = RowSeq([offset |-> Current, skip |-> 0])
      BY <1>5 DEF RowSeq, NumRows
    <2>5. Carries(pending, size, handed, submitted, acked, confirmed)
      BY DEF LedgerInv, HandInv
    <2>6. Carries(pending, size, handed \o RowSeq(pending[m]), pending[m].end, acked, confirmed)
      BY <2>2, <2>3, <2>5, HandOver
    <2> QED BY <1>1, <1>5, <2>4, <2>6
  <1>9. PlaceInv'
    <2>1. lastAck < Current
      BY <1>5 DEF OrderInv, RangeInv, AllPlaced, Placed
    <2>2. ASSUME NEW o \in accepted \cup {Current}
          PROVE  /\ o \in Offsets /\ o <= LastOffset
                 /\ o <= lastAck => BatchRows(o) \subseteq confirmed
                 /\ lastAck < o => Kept(o, pending) \/ Kept(o, failed)
      <3>1. CASE o \in accepted
        BY <3>1 DEF LedgerInv, PlaceInv
      <3>2. CASE o = Current
        BY <1>0, <1>5, <1>6, <2>1, <3>2 DEF Kept
      <3> QED BY <3>1, <3>2
    <2>3. \A o : BatchRows(o)' = BatchRows(o)
      BY <1>1 DEF BatchRows
    <2> QED BY <1>1, <1>2, <2>2, <2>3 DEF PlaceInv
  <1> QED BY <1>3, <1>7, <1>8, <1>9 DEF LedgerInv

\* So is a batch that is replayed.
LEMMA LedgerSend ==
    ASSUME TypeInv, HoldInv, PartInv, CountInv, OrderInv, LedgerInv, ReplaySend
    PROVE  LedgerInv'
  <1> DEFINE m == replayed + 1
  <1>0. /\ Types /\ pending \in Seq(BatchRec) /\ submitted \in Int /\ replayed \in Nat
        /\ Len(pending) \in Nat
    BY MarkTypes, LenProperties DEF Types
  <1>1. /\ sup = "replaying" /\ replayed < Len(pending)
        /\ submitted' = submitted + NumRows(pending[m])
        /\ handed' = handed \o RowSeq(pending[m])
        /\ UNCHANGED <<size, pending, failed, assigned, acked, lastAck, sup, pc, accepted,
                       confirmed>>
    BY DEF ReplaySend, batches, marks
  <1>2. m \in 1 .. Len(pending)
    BY <1>0, <1>1
  <1>3. pending[m].start = submitted
    BY OrderSend
  <1> HIDE DEF m
  <1>4. pending[m].end = submitted'
    BY <1>1, <1>2, <1>3 DEF OrderInv, RangeInv, AllPlaced, Placed, NumRows
  <1>5. handed \in Seq(Offsets \X Int) /\ Len(handed) = submitted
    BY <1>1 DEF CountInv
  <1>6. Carries(pending, size, handed, submitted, acked, confirmed)
    BY <1>1 DEF LedgerInv, HandInv, Active
  <1>7. Carries(pending, size, handed', submitted', acked, confirmed)
    BY <1>1, <1>2, <1>3, <1>4, <1>5, <1>6, HandOver
  <1>8. LastOffset' = LastOffset /\ \A o : BatchRows(o)' = BatchRows(o)
    BY <1>1 DEF LastOffset, BatchRows
  <1>9. CutInv' /\ HandInv' /\ PlaceInv'
    BY <1>1, <1>7, <1>8 DEF LedgerInv, CutInv, HandInv, PlaceInv
  <1>10. EntryInv'
    <2>1. \A c \in Callers : pc[c] \notin Held
      BY <1>1, OneHeld DEF HoldInv
    <2> QED BY <1>1, <2>1 DEF EntryInv, Held
  <1> QED BY <1>9, <1>10 DEF LedgerInv

\* A replay cuts off what is confirmed, and no more.
LEMMA LedgerReplay ==
    ASSUME TypeInv, HoldInv, PartInv, OrderInv, LedgerInv, ReplayInstall
    PROVE  LedgerInv'
  <1> DEFINE new == RebuildPending(pending, ackedBefore)
  <1>0. Types /\ pending \in Seq(BatchRec) /\ ackedBefore \in Int /\ acked \in Int
    BY MarkTypes DEF Types
  <1>1. /\ sup = "replay" /\ sup' = "replaying" /\ mutex = "free"
        /\ pending' = new /\ submitted' = 0 /\ acked' = 0
        /\ UNCHANGED <<size, failed, pc, lastAck, accepted, confirmed>>
    BY DEF ReplayInstall, batches, marks
  <1>2. new = RebuildPending(pending, acked)
    BY <1>1 DEF OrderInv, MarkInv
  <1>3. new \in Seq(BatchRec)
    BY <1>0, RebuildType
  <1> HIDE DEF new
  <1>4. PICK e : Parts(new, pending, acked, e)
    BY <1>0, <1>2, RebuiltRanges
  <1>5. \A k \in 1 .. Len(new) : 0 <= new[k].start
    BY <1>0, <1>2, RebuiltRanges
  <1>6. /\ \A k \in 1 .. Len(new) : Whole(new[k], size) /\ Skips(confirmed, size, new[k])
        /\ \A o : Kept(o, pending) => Kept(o, new)
    BY <1>4, PartsCut DEF LedgerInv
  <1>7. \A k \in 1 .. Len(new) :
           new[k].start \in Int /\ new[k].skip \in Int /\ size[new[k].offset] \in Int
    BY <1>0, <1>3, BatchFields
  <1>8. LastOffset' = LastOffset /\ \A o : BatchRows(o)' = BatchRows(o)
    BY <1>1 DEF LastOffset, BatchRows
  <1>9. CutInv'
    <2>1. ASSUME NEW i \in 1 .. Len(new) PROVE Confirms(confirmed, size, new[i], 0)
      <3>1. \A k \in Int : (k <= new[i].skip \/ new[i].start + (k - new[i].skip) <= 0)
                           <=> k <= new[i].skip
        BY <1>5, <1>7
      <3>2. \A k \in 1 .. size[new[i].offset] : k \in Int
        BY <1>7
      <3> QED BY <1>6, <3>1, <3>2 DEF Confirms, Skips
    <2> QED BY <1>1, <1>8, <2>1 DEF LedgerInv, CutInv
  <1>10. HandInv'
    <2>1. Carries(new, size, handed', 0, 0, confirmed)
      BY <1>5, <1>7 DEF Carries, HandedOver
    <2> QED BY <1>1, <2>1 DEF HandInv
  <1>11. PlaceInv'
    BY <1>1, <1>6, <1>8 DEF LedgerInv, PlaceInv
  <1>12. EntryInv'
    <2>1. \A c \in Callers : pc[c] \notin Held
      BY <1>1, OneHeld
    <2> QED BY <1>1, <2>1 DEF EntryInv, Held
  <1> QED BY <1>9, <1>10, <1>11, <1>12 DEF LedgerInv

\* What is handed back is what is not confirmed.
LEMMA LedgerMove ==
    ASSUME TypeInv, HoldInv, PartInv, OrderInv, LedgerInv,
           FinalizeDrain \/ CloseDrain \/ GetUnacked
    PROVE  LedgerInv'
  <1>0. /\ Types /\ pending \in Seq(BatchRec) /\ failed \in Seq(BatchRec) /\ acked \in Int
    BY MarkTypes
  <1>1. MovePendingToFailed /\ pending' = <<>> /\ Len(pending') = 0
    BY DEF FinalizeDrain, CloseDrain, GetUnacked, MovePendingToFailed
  <1>2. closed
    <2>1. FinalizeDrain => sup = "drain_pending"
      BY DEF FinalizeDrain
    <2>2. CloseDrain => closing = "drain"
      BY DEF CloseDrain
    <2>3. GetUnacked => closed
      BY DEF GetUnacked
    <2> QED BY <2>1, <2>2, <2>3 DEF OrderInv, FailInv
  <1>3. /\ UNCHANGED <<size, assigned, submitted, acked, lastAck, pc, accepted, confirmed>>
        /\ sup' \in {"done", sup}
    BY DEF FinalizeDrain, CloseDrain, GetUnacked, counters, marks, supVars
  <1>4. HandInv'
    BY <1>2, <1>3 DEF HoldInv, HandInv, Active
  <1>5. LastOffset' = LastOffset /\ \A o : BatchRows(o)' = BatchRows(o)
    BY <1>3 DEF LastOffset, BatchRows
  <1>6. EntryInv'
    <2>1. \A c \in Callers : pc[c] \notin Held
      BY <1>2 DEF HoldInv
    <2> QED BY <1>3, <2>1 DEF EntryInv, Held
  <1>7. /\ \A j \in 1 .. Len(failed') :
              Whole(failed'[j], size) /\ Skips(confirmed, size, failed'[j])
        /\ \A o : Kept(o, pending) \/ Kept(o, failed) => Kept(o, failed')
    <2>1. CASE pending = <<>>
      <3>1. failed' = failed
        BY <1>1, <2>1, MoveNothing
      <3>2. \A o : ~Kept(o, pending)
        BY <2>1 DEF Kept
      <3> QED BY <3>1, <3>2 DEF LedgerInv, CutInv
    <2>2. CASE pending # <<>>
      <3> DEFINE kept == UnackedParts(pending, acked)
      <3>1. failed = <<>> /\ kept \in Seq(BatchRec)
        BY <1>0, <2>2, PartsType DEF OrderInv, FailInv
      <3>2. PICK e : Parts(kept, pending, acked, e)
        BY <1>0, PartsOf
      <3>3. failed' = failed \o kept
        BY <1>1 DEF MovePendingToFailed
      <3> HIDE DEF kept
      <3>4. failed' = kept
        BY <3>1, <3>3, ConcatEmptySeq
      <3>5. \A o : ~Kept(o, failed)
        BY <3>1 DEF Kept
      <3>6. /\ \A k \in 1 .. Len(kept) : Whole(kept[k], size) /\ Skips(confirmed, size, kept[k])
            /\ \A o : Kept(o, pending) => Kept(o, kept)
        BY <3>2, PartsCut DEF LedgerInv
      <3> QED BY <3>4, <3>5, <3>6
    <2> QED BY <2>1, <2>2
  <1>8. CutInv'
    BY <1>1, <1>3, <1>5, <1>7 DEF LedgerInv, CutInv
  <1>9. PlaceInv'
    BY <1>3, <1>5, <1>7 DEF LedgerInv, PlaceInv
  <1> QED BY <1>4, <1>6, <1>8, <1>9 DEF LedgerInv

\* The rows that an acknowledgement confirms are those of pending batches up to it.
LEMMA AckConfirms ==
    ASSUME TypeInv, GateInv, PartInv, CountInv, OrderInv, LedgerInv,
           NEW n \in AckValues, Acks(n)
    PROVE  /\ confirmed \subseteq confirmed'
           /\ \A r \in confirmed' :
                 \/ r \in confirmed
                 \/ \E i \in 1 .. Len(pending) : \E j \in 1 .. n :
                       /\ Spans(pending[i], j)
                       /\ r = <<pending[i].offset, pending[i].skip + (j - pending[i].start)>>
           /\ \A j \in 1 .. acked' : handed[j] \in confirmed'
           /\ \A i \in 1 .. Len(pending) : Confirms(confirmed', size, pending[i], acked')
  <1>0. /\ Types /\ pending \in Seq(BatchRec) /\ submitted \in Int /\ acked \in Int
    BY MarkTypes
  <1>1. /\ n \in Int /\ 0 <= n /\ n <= submitted
        /\ acked' = IF n > acked THEN n ELSE acked
        /\ confirmed' = confirmed \cup {handed[j] : j \in (1 .. n) \cap DOMAIN handed}
    BY AckMoves DEF OrderInv
  <1>2. sup \in {"process", "drain"}
    BY DEF Acks, AckResponse, CloseSignal, DrainAck
  <1>3. Carries(pending, size, handed, submitted, acked, confirmed)
    BY <1>2 DEF LedgerInv, HandInv, Active
  <1>4. DOMAIN handed = 1 .. submitted
    <2>1. submitted = Len(handed) /\ handed \in Seq(Offsets \X Int)
      BY <1>2 DEF GateInv, CountInv
    <2> QED BY <2>1, LenProperties
  <1>5. acked' \in Int /\ acked <= acked' /\ n <= acked' /\ 0 <= acked /\ acked <= submitted
    BY <1>0, <1>1 DEF OrderInv, MarkInv
  <1>6. \A j \in 1 .. n : handed[j] \in confirmed' /\ j \in 1 .. submitted
    BY <1>0, <1>1, <1>4
  <1>7. ASSUME NEW i \in 1 .. Len(pending)
        PROVE  /\ pending[i].offset \in Int /\ pending[i].skip \in Int /\ pending[i].start \in Int
               /\ size[pending[i].offset] \in Int /\ 0 <= pending[i].start
               /\ pending[i].end = pending[i].start + (size[pending[i].offset] - pending[i].skip)
    BY <1>0, BatchFields DEF OrderInv, RangeInv, AllPlaced, Placed
  <1>8. ASSUME NEW j \in 1 .. n, handed[j] \notin confirmed
        PROVE  \E i \in 1 .. Len(pending) :
                  /\ Spans(pending[i], j)
                  /\ handed[j] = <<pending[i].offset, pending[i].skip + (j - pending[i].start)>>
    <2>1. j \in acked + 1 .. submitted
      <3>1. ~(j \in 1 .. acked)
        BY <1>3, <1>8 DEF Carries
      <3> QED BY <1>0, <1>1, <3>1
    <2>2. PICK i \in 1 .. Len(pending) : Spans(pending[i], j)
      BY <1>3, <2>1 DEF Carries
    <2>3. pending[i].start < j /\ j <= pending[i].end /\ pending[i].start < submitted
      BY <1>0, <1>7, <2>1, <2>2 DEF Spans
    <2>4. \A k \in 1 .. size[pending[i].offset] - pending[i].skip :
             handed[pending[i].start + k] = <<pending[i].offset, pending[i].skip + k>>
      BY <1>3, <2>3 DEF Carries, HandedOver
    <2>5. /\ j - pending[i].start \in 1 .. size[pending[i].offset] - pending[i].skip
          /\ pending[i].start + (j - pending[i].start) = j
      BY <1>1, <1>7, <2>3
    <2>6. handed[j] = <<pending[i].offset, pending[i].skip + (j - pending[i].start)>>
      BY <2>4, <2>5
    <2> QED BY <2>2, <2>6
  <1>9. \A r \in confirmed' :
           \/ r \in confirmed
           \/ \E i \in 1 .. Len(pending) : \E j \in 1 .. n :
                 /\ Spans(pending[i], j)
                 /\ r = <<pending[i].offset, pending[i].skip + (j - pending[i].start)>>
    <2> SUFFICES ASSUME NEW r \in confirmed', r \notin confirmed
                 PROVE  \E i \in 1 .. Len(pending) : \E j \in 1 .. n :
                           /\ Spans(pending[i], j)
                           /\ r = <<pending[i].offset, pending[i].skip + (j - pending[i].start)>>
      OBVIOUS
    <2>1. PICK j \in 1 .. n : r = handed[j]
      BY <1>1
    <2> QED BY <1>8, <2>1
  <1>10. confirmed \subseteq confirmed'
    BY <1>1
  <1>11. \A j \in 1 .. acked' : handed[j] \in confirmed'
    <2> SUFFICES ASSUME NEW j \in 1 .. acked' PROVE handed[j] \in confirmed'
      OBVIOUS
    <2>1. CASE j <= acked
      <3>1. j \in 1 .. acked
        BY <1>0, <1>5, <2>1
      <3> QED BY <1>3, <1>10, <3>1 DEF Carries
    <2>2. CASE ~(j <= acked)
      <3>1. j \in 1 .. n
        BY <1>0, <1>1, <1>5, <2>2
      <3> QED BY <1>6, <3>1
    <2> QED BY <2>1, <2>2
  <1>12. ASSUME NEW i \in 1 .. Len(pending) PROVE Confirms(confirmed', size, pending[i], acked')
    <2> SUFFICES ASSUME NEW k \in 1 .. size[pending[i].offset]
                 PROVE  <<pending[i].offset, k>> \in confirmed' <=>
                           \/ k <= pending[i].skip
                           \/ pending[i].start + (k - pending[i].skip) <= acked'
      BY DEF Confirms
    <2>0. /\ k \in Int /\ 1 <= k /\ k <= size[pending[i].offset]
          /\ size[pending[i].offset] \in Int /\ pending[i].skip \in Int
          /\ pending[i].start \in Int /\ 0 <= pending[i].start
      BY <1>7
    <2>1. <<pending[i].offset, k>> \in confirmed <=>
             k <= pending[i].skip \/ pending[i].start + (k - pending[i].skip) <= acked
      BY DEF LedgerInv, CutInv, Confirms
    <2>2. ASSUME <<pending[i].offset, k>> \in confirmed', <<pending[i].offset, k>> \notin confirmed
          PROVE  pending[i].start + (k - pending[i].skip) <= acked'
      <3>1. PICK m \in 1 .. Len(pending) : \E j \in 1 .. n :
               /\ Spans(pending[m], j)
               /\ <<pending[i].offset, k>> =
                     <<pending[m].offset, pending[m].skip + (j - pending[m].start)>>
        BY <1>9, <2>2
      <3>2. PICK j \in 1 .. n :
               <<pending[i].offset, k>> =
                  <<pending[m].offset, pending[m].skip + (j - pending[m].start)>>
        BY <3>1
      <3>3. i = m
        BY <3>2, OneOffset
      <3>4. k = pending[i].skip + (j - pending[i].start)
        BY <3>2, <3>3
      <3>5. pending[i].start + (k - pending[i].skip) = j /\ j \in Int /\ j <= n
        BY <1>1, <2>0, <3>4
      <3> QED BY <1>1, <1>5, <3>5
    <2>3. ASSUME ~(k <= pending[i].skip), pending[i].start + (k - pending[i].skip) <= acked',
                 ~(pending[i].start + (k - pending[i].skip) <= acked)
          PROVE  <<pending[i].offset, k>> \in confirmed'
      <3> DEFINE j == pending[i].start + (k - pending[i].skip)
      <3>1. j \in 1 .. n
        BY <1>0, <1>1, <1>5, <2>0, <2>3
      <3>2. pending[i].start < submitted
        BY <1>0, <1>1, <2>0, <2>3, <3>1
      <3>3. /\ k - pending[i].skip \in 1 .. size[pending[i].offset] - pending[i].skip
            /\ pending[i].skip + (k - pending[i].skip) = k
        BY <2>0, <2>3
      <3>4. handed[j] = <<pending[i].offset, k>>
        BY <1>3, <3>2, <3>3 DEF Carries, HandedOver
      <3> HIDE DEF j
      <3> QED BY <1>6, <3>1, <3>4
    <2>4. pending[i].start + (k - pending[i].skip) <= acked =>
             pending[i].start + (k - pending[i].skip) <= acked'
      BY <1>0, <1>5, <2>0
    <2> QED BY <1>10, <2>1, <2>2, <2>3, <2>4
  <1> QED BY <1>9, <1>10, <1>11, <1>12

\* An acknowledgement moves confirmed rows, and batches all of whose rows are confirmed.
LEMMA LedgerAck ==
    ASSUME TypeInv, HoldInv, GateInv, PartInv, CountInv, OrderInv, LedgerInv,
           NEW n \in AckValues, Acks(n)
    PROVE  LedgerInv'
  <1> DEFINE I == {i \in 1 .. Len(pending) : acked' < pending[i].end}
  <1>0. /\ Types /\ pending \in Seq(BatchRec) /\ submitted \in Int /\ acked \in Int
        /\ assigned \in Int /\ lastAck \in Int /\ LastOffset \in Int /\ Current = LastOffset
    BY MarkTypes
  <1>1. /\ n \in Int /\ 0 <= n /\ n <= submitted
        /\ acked' = IF n > acked THEN n ELSE acked
        /\ pending' = Retain(pending, I)
        /\ \A i \in 1 .. Len(pending) : acked' < pending[i].end <=> lastAck' < pending[i].offset
        /\ lastAck' \in Int /\ lastAck <= lastAck'
    BY AckMoves DEF OrderInv
  <1>2. /\ sup \in {"process", "drain"}
        /\ UNCHANGED <<size, failed, assigned, submitted, pc, handed, accepted>>
    BY DEF Acks, AckResponse, CloseSignal, DrainAck
  <1>3. LastOffset' = LastOffset /\ Current' = Current /\ Entry' = Entry
    BY <1>2 DEF LastOffset, Current, Entry
  <1>4. /\ confirmed \subseteq confirmed'
        /\ \A r \in confirmed' :
              \/ r \in confirmed
              \/ \E i \in 1 .. Len(pending) : \E j \in 1 .. n :
                    r = <<pending[i].offset, pending[i].skip + (j - pending[i].start)>>
        /\ \A j \in 1 .. acked' : handed[j] \in confirmed'
        /\ \A i \in 1 .. Len(pending) : Confirms(confirmed', size, pending[i], acked')
    BY AckConfirms
  <1>5. failed = <<>> /\ Len(failed) = 0
    BY <1>2 DEF OrderInv, FailInv, HoldInv
  <1>6. I \in SUBSET (1 .. Len(pending))
    OBVIOUS
  <1>7. \A i \in 1 .. Len(pending) : i \in I <=> acked' < pending[i].end
    OBVIOUS
  <1> HIDE DEF I
  <1>8. /\ \A k \in 1 .. Len(pending') : \E i \in I : pending'[k] = pending[i]
        /\ \A i \in I : \E k \in 1 .. Len(pending') : pending'[k] = pending[i]
    BY <1>0, <1>1, <1>6, RetainOrdered DEF OrderInv, RangeInv
  <1>9. ASSUME NEW i \in 1 .. Len(pending)
        PROVE  /\ pending[i].offset \in Offsets /\ pending[i].offset \in Int
               /\ pending[i].skip \in Int /\ pending[i].start \in Int /\ pending[i].end \in Int
               /\ size[pending[i].offset] \in Int
               /\ pending[i].end = pending[i].start + (size[pending[i].offset] - pending[i].skip)
               /\ pending[i].offset <= LastOffset
    BY <1>0, BatchFields DEF OrderInv, RangeInv, AllPlaced, Placed
  <1>10. CutInv'
    <2>1. \A k \in 1 .. Len(pending') : Confirms(confirmed', size, pending'[k], acked')
      BY <1>4, <1>6, <1>8
    <2>2. ASSUME NEW r \in confirmed' PROVE r \in Offsets \X Int /\ r[1] <= LastOffset
      <3>1. CASE r \in confirmed
        BY <3>1 DEF LedgerInv, CutInv
      <3>2. CASE r \notin confirmed
        <4>1. PICK i \in 1 .. Len(pending) : \E j \in 1 .. n :
                 r = <<pending[i].offset, pending[i].skip + (j - pending[i].start)>>
          BY <1>4, <3>2
        <4>2. PICK j \in 1 .. n :
                 r = <<pending[i].offset, pending[i].skip + (j - pending[i].start)>>
          BY <4>1
        <4>3. pending[i].skip + (j - pending[i].start) \in Int
          BY <1>1, <1>9
        <4> QED BY <1>9, <4>2, <4>3
      <3> QED BY <3>1, <3>2
    <2>3. \A j \in 1 .. Len(failed) : FALSE
      BY <1>5
    <2> QED BY <1>2, <1>3, <2>1, <2>2, <2>3 DEF CutInv
  <1>11. HandInv'
    <2>1. Carries(pending, size, handed, submitted, acked, confirmed)
      BY <1>2 DEF LedgerInv, HandInv, Active
    <2>2. \A k \in 1 .. Len(pending') : HandedOver(pending'[k], size, handed, submitted)
      BY <1>6, <1>8, <2>1 DEF Carries
    <2>3. ASSUME NEW j \in acked' + 1 .. submitted
          PROVE  \E k \in 1 .. Len(pending') : Spans(pending'[k], j)
      <3>0. acked' \in Int /\ acked <= acked'
        BY <1>0, <1>1
      <3>1. j \in acked + 1 .. submitted /\ acked' < j /\ j \in Int
        <4> DEFINE a == acked'
        <4>1. a \in Int /\ acked <= a /\ j \in a + 1 .. submitted
          BY <3>0
        <4> HIDE DEF a
        <4>2. j \in acked + 1 .. submitted /\ a < j /\ j \in Int
          BY <1>0, <4>1
        <4> QED BY <4>2 DEF a
      <3>2. PICK i \in 1 .. Len(pending) : Spans(pending[i], j)
        BY <2>1, <3>1 DEF Carries
      <3>3. acked' < pending[i].end
        BY <1>9, <3>0, <3>1, <3>2 DEF Spans
      <3>4. i \in I
        BY <1>7, <3>3
      <3> QED BY <1>8, <3>2, <3>4
    <2>4. Carries(pending', size, handed, submitted, acked', confirmed')
      BY <1>4, <2>2, <2>3 DEF Carries
    <2> QED BY <1>2, <2>4 DEF HandInv
  <1>12. PlaceInv'
    <2>1. ASSUME NEW o \in accepted
          PROVE  /\ o <= LastOffset /\ o \in Offsets
                 /\ o <= lastAck' => BatchRows(o) \subseteq confirmed'
                 /\ lastAck' < o => Kept(o, pending')
      <3>0. o \in Offsets /\ o \in Int /\ o <= LastOffset
        BY DEF LedgerInv, PlaceInv, Offsets
      <3>1. CASE o <= lastAck
        <4>1. BatchRows(o) \subseteq confirmed'
          BY <1>4, <3>1 DEF LedgerInv, PlaceInv
        <4> QED BY <1>0, <1>1, <3>0, <3>1, <4>1
      <3>2. CASE lastAck < o
        <4>1. Kept(o, pending)
          BY <1>5, <3>2 DEF LedgerInv, PlaceInv, Kept
        <4>2. PICK i \in 1 .. Len(pending) : pending[i].offset = o
          BY <4>1 DEF Kept
        <4>3. ASSUME lastAck' < o PROVE Kept(o, pending')
          <5>1. i \in I
            BY <1>1, <1>7, <4>2, <4>3
          <5> QED BY <1>8, <4>2, <5>1 DEF Kept
        <4>4. ASSUME o <= lastAck', NEW k \in 1 .. size[o] PROVE <<o, k>> \in confirmed'
          <5>0. acked' \in Int
            BY <1>0, <1>1
          <5>1. ~(lastAck' < o)
            BY <1>1, <3>0, <4>4
          <5>2. ~(acked' < pending[i].end)
            BY <1>1, <4>2, <5>1
          <5>3. size[o] \in Int /\ k \in Int /\ k <= size[o]
            BY <1>9, <4>2
          <5>4. pending[i].start + (k - pending[i].skip) <= acked'
            <6>1. /\ pending[i].skip \in Int /\ pending[i].start \in Int /\ pending[i].end \in Int
                  /\ pending[i].end = pending[i].start + (size[o] - pending[i].skip)
              BY <1>9, <4>2
            <6> QED BY <5>0, <5>2, <5>3, <6>1
          <5>5. <<pending[i].offset, k>> \in confirmed'
            BY <1>4, <4>2, <5>4 DEF Confirms
          <5> QED BY <4>2, <5>5
        <4>5. o <= lastAck' => BatchRows(o) \subseteq confirmed'
          BY <4>4 DEF BatchRows
        <4> QED BY <3>0, <4>3, <4>5
      <3> QED BY <1>0, <3>0, <3>1, <3>2
    <2>2. \A o : BatchRows(o)' = BatchRows(o)
      BY <1>2 DEF BatchRows
    <2> QED BY <1>2, <1>3, <2>1, <2>2 DEF PlaceInv
  <1>13. EntryInv'
    <2> SUFFICES ASSUME NEW c \in Callers
                 PROVE  /\ pc[c] \in Held => \A o \in accepted : o < Current
                        /\ pc[c] = "assigned" => \A r \in confirmed' : r[1] < Current
                        /\ pc[c] \in {"send", "commit"} =>
                              /\ submitted + size[Current] <= assigned
                              /\ \E k \in 1 .. Len(pending') : pending'[k] = Entry
      BY <1>2, <1>3 DEF EntryInv
    <2>1. pc[c] \in Held => \A o \in accepted : o < Current
      BY DEF LedgerInv, EntryInv
    <2>2. ASSUME pc[c] = "assigned", NEW r \in confirmed' PROVE r[1] < Current
      <3>1. CASE r \in confirmed
        BY <2>2, <3>1 DEF LedgerInv, EntryInv
      <3>2. CASE r \notin confirmed
        <4>1. PICK i \in 1 .. Len(pending) : \E j \in 1 .. n :
                 r = <<pending[i].offset, pending[i].skip + (j - pending[i].start)>>
          BY <1>4, <3>2
        <4>2. r[1] = pending[i].offset
          BY <4>1
        <4>3. pending[i].offset <= Current - 1
          BY <2>2 DEF OrderInv, NewInv, AllPlaced, Placed
        <4> QED BY <1>0, <1>9, <4>2, <4>3
      <3> QED BY <3>1, <3>2
    <2>3. ASSUME pc[c] \in {"send", "commit"}
          PROVE  /\ submitted + size[Current] <= assigned
                 /\ \E k \in 1 .. Len(pending') : pending'[k] = Entry
      <3>1. submitted + size[Current] <= assigned
        BY <2>3 DEF LedgerInv, EntryInv
      <3>2. PICK i \in 1 .. Len(pending) : pending[i] = Entry
        BY <2>3 DEF LedgerInv, EntryInv
      <3>3. pending[i].end = assigned
        BY <3>2 DEF Entry
      <3>4. size[Current] \in Int /\ size[Current] >= 1
        <4>1. size[Current] \in 1 .. MaxRows
          BY <2>3, CurrentOffset DEF Held
        <4> QED BY <4>1, ArrowAssumptions
      <3>5. acked' \in Int /\ acked' <= submitted
        BY <1>0, <1>1 DEF OrderInv, MarkInv
      <3>6. i \in I
        BY <1>0, <1>7, <3>1, <3>3, <3>4, <3>5
      <3> QED BY <1>8, <3>1, <3>2, <3>6
    <2> QED BY <2>1, <2>2, <2>3
  <1> QED BY <1>10, <1>11, <1>12, <1>13 DEF LedgerInv

\* The ledger is kept.
LEMMA LedgerStep ==
    ASSUME TypeInv, HoldInv, GateInv, PartInv, CountInv, OrderInv, LedgerInv, [Next]_vars
    PROVE  LedgerInv'
  BY LedgerIdle, LedgerConnect, LedgerAssign, LedgerPush, LedgerTakeBack, LedgerCommit, LedgerSend,
     LedgerReplay, LedgerMove, LedgerAck DEF Orders

\* A row of a batch is among those that parts of batches are left to acknowledge exactly when
\* its batch is and the server has not confirmed it.
LEMMA RowsLeft ==
    ASSUME Types, NEW s \in Seq(BatchRec), NEW o \in Offsets, NEW k \in 1 .. size[o],
           \A j \in 1 .. Len(s) : Whole(s[j], size) /\ Skips(confirmed, size, s[j])
    PROVE  <<o, k>> \in UNION {RowsOf(b) : b \in Range(s)} <=>
              Kept(o, s) /\ <<o, k>> \notin confirmed
  <1>0. size[o] \in Int /\ k \in Int /\ 1 <= k /\ k <= size[o]
    <2>1. size[o] \in Int
      BY ArrowAssumptions DEF Types
    <2> QED BY <2>1
  <1>1. /\ DOMAIN s = 1 .. Len(s)
        /\ \A j \in 1 .. Len(s) : s[j].skip \in Int
    BY BatchFields, LenProperties
  <1>2. ASSUME NEW j \in 1 .. Len(s), <<o, k>> \in RowsOf(s[j])
        PROVE  s[j].offset = o /\ <<o, k>> \notin confirmed
    <2>1. s[j].offset = o /\ k \in s[j].skip + 1 .. size[s[j].offset]
      BY <1>2 DEF RowsOf
    <2>2. ~(k <= s[j].skip)
      BY <1>0, <1>1, <2>1
    <2>3. <<s[j].offset, k>> \in confirmed <=> k <= s[j].skip
      BY <2>1 DEF Skips
    <2> QED BY <2>1, <2>2, <2>3
  <1>3. ASSUME NEW j \in 1 .. Len(s), s[j].offset = o, <<o, k>> \notin confirmed
        PROVE  <<o, k>> \in RowsOf(s[j])
    <2>1. ~(k <= s[j].skip)
      BY <1>3 DEF Skips
    <2>2. k \in s[j].skip + 1 .. size[o]
      BY <1>0, <1>1, <2>1
    <2> QED BY <1>3, <2>2 DEF RowsOf
  <1>4. \A b : b \in Range(s) <=> \E j \in 1 .. Len(s) : b = s[j]
    BY <1>1 DEF Range
  <1> QED BY <1>2, <1>3, <1>4 DEF Kept

\* Where the rows of an accepted batch are.
LEMMA RowsPlaced ==
    ASSUME TypeInv, PartInv, OrderInv, LedgerInv, NEW o \in accepted, NEW k \in 1 .. size[o]
    PROVE  /\ <<o, k>> \in Unconfirmed <=> Kept(o, pending) /\ <<o, k>> \notin confirmed
           /\ <<o, k>> \in Failed <=> Kept(o, failed) /\ <<o, k>> \notin confirmed
           /\ <<o, k>> \in confirmed \/ Kept(o, pending) \/ Kept(o, failed)
           /\ ~(Kept(o, pending) /\ Kept(o, failed))
  <1> DEFINE parts == UnackedParts(pending, acked)
  <1>0. /\ Types /\ pending \in Seq(BatchRec) /\ failed \in Seq(BatchRec) /\ acked \in Int
        /\ lastAck \in Int
    BY MarkTypes
  <1>1. o \in Offsets /\ o \in Int
    BY DEF LedgerInv, PlaceInv, Offsets
  <1>2. PICK e : Parts(parts, pending, acked, e)
    BY <1>0, PartsOf
  <1>3. parts \in Seq(BatchRec)
    BY <1>0, PartsType
  <1>4. Unconfirmed = UNION {RowsOf(b) : b \in Range(parts)}
    BY DEF Unconfirmed
  <1> HIDE DEF parts
  <1>5. /\ \A j \in 1 .. Len(parts) :
              /\ Whole(parts[j], size) /\ Skips(confirmed, size, parts[j])
              /\ Kept(parts[j].offset, pending)
        /\ Kept(o, pending) => Kept(o, parts)
    BY <1>2, PartsCut DEF LedgerInv
  <1>6. Kept(o, parts) <=> Kept(o, pending)
    BY <1>5 DEF Kept
  <1>7. <<o, k>> \in Unconfirmed <=> Kept(o, pending) /\ <<o, k>> \notin confirmed
    <2>1. \A j \in 1 .. Len(parts) : Whole(parts[j], size) /\ Skips(confirmed, size, parts[j])
      BY <1>5
    <2> QED BY <1>0, <1>1, <1>3, <1>4, <1>6, <2>1, RowsLeft
  <1>8. <<o, k>> \in Failed <=> Kept(o, failed) /\ <<o, k>> \notin confirmed
    <2>1. \A j \in 1 .. Len(failed) : Whole(failed[j], size) /\ Skips(confirmed, size, failed[j])
      BY DEF LedgerInv, CutInv
    <2> QED BY <1>0, <1>1, <2>1, RowsLeft DEF Failed
  <1>9. <<o, k>> \in confirmed \/ Kept(o, pending) \/ Kept(o, failed)
    <2>1. o <= lastAck \/ lastAck < o
      BY <1>0, <1>1
    <2>2. <<o, k>> \in BatchRows(o)
      BY DEF BatchRows
    <2> QED BY <2>1, <2>2 DEF LedgerInv, PlaceInv
  <1>10. ~(Kept(o, pending) /\ Kept(o, failed))
    <2>1. failed = <<>> \/ pending = <<>>
      BY DEF OrderInv, FailInv
    <2>2. Kept(o, <<>>) = FALSE
      BY DEF Kept
    <2> QED BY <2>1, <2>2
  <1> QED BY <1>7, <1>8, <1>9, <1>10

\* The last row of a batch that is pending or handed back is not confirmed.
LEMMA LastRow ==
    ASSUME TypeInv, PartInv, OrderInv, LedgerInv, NEW o \in accepted, lastAck < o
    PROVE  ~(BatchRows(o) \subseteq confirmed)
  <1>0. /\ Types /\ pending \in Seq(BatchRec) /\ failed \in Seq(BatchRec) /\ acked \in Int
    BY MarkTypes
  <1>1. o \in Offsets
    BY DEF LedgerInv, PlaceInv
  <1>2. size[o] \in Int
    BY <1>0, <1>1, ArrowAssumptions DEF Types
  <1>3. \E b \in BatchRec : b.offset = o /\ Whole(b, size) /\ Skips(confirmed, size, b)
    <2>1. CASE Kept(o, pending)
      <3>1. PICK i \in 1 .. Len(pending) : pending[i].offset = o
        BY <2>1 DEF Kept
      <3> QED BY <3>1, CutAway DEF LedgerInv
    <2>2. CASE Kept(o, failed)
      <3>1. PICK j \in 1 .. Len(failed) : failed[j].offset = o
        BY <2>2 DEF Kept
      <3>2. failed[j] \in BatchRec
        BY <1>0, BatchFields
      <3> QED BY <3>1, <3>2 DEF LedgerInv, CutInv
    <2> QED BY <2>1, <2>2 DEF LedgerInv, PlaceInv
  <1>4. PICK b \in BatchRec : b.offset = o /\ Whole(b, size) /\ Skips(confirmed, size, b)
    BY <1>3
  <1>5. b.skip \in Int /\ b.skip >= 0 /\ size[o] - b.skip >= 1
    BY <1>4 DEF BatchRec, Whole
  <1>6. size[o] \in 1 .. size[o] /\ ~(size[o] <= b.skip)
    BY <1>2, <1>5
  <1>7. <<o, size[o]>> \notin confirmed
    BY <1>4, <1>6 DEF Skips
  <1> QED BY <1>6, <1>7 DEF BatchRows

------------------------------------------------------------------------------
(* The theorems *)

ArrowInv == TypeInv /\ HoldInv /\ WaitInv /\ SnapInv

\* The invariant holds in every reachable state.
THEOREM ArrowInvariant == Spec => []ArrowInv
  <1>1. Init => ArrowInv
    BY TypeInit DEF Init, ArrowInv, HoldInv, WaitInv, SnapInv, NoWait, Held
  <1>2. ArrowInv /\ [Next]_vars => ArrowInv'
    BY TypeStep, HoldStep, WaitStepInv, SnapStep DEF ArrowInv
  <1> QED BY <1>1, <1>2, PTL DEF Spec

\* NoStrandedWaiter: a flush() or wait_for_offset() that is parked and has not been told to
\* look again waits for an offset that is not acknowledged, on a stream that is not finished,
\* whatever calls are dropped and however acknowledgements, errors and closure interleave.
THEOREM NobodyStranded == Spec => []NoStrandedWaiter
  <1>1. ArrowInv => NoStrandedWaiter
    BY DEF ArrowInv, WaitInv, NoStrandedWaiter
  <1> QED BY <1>1, ArrowInvariant, PTL

\* SnapshotStable: get_unacked_batches() returns the same batches from its first success on,
\* whatever a repeated or interrupted close(), another call of it or a drop do afterwards.
THEOREM SnapshotIsStable == Spec => SnapshotStable
  <1>1. ArrowInv /\ [Next]_vars => [snapped => failed' = failed]_vars
    BY SnapStep DEF ArrowInv
  <1> QED BY <1>1, ArrowInvariant, PTL DEF Spec, SnapshotStable

SentInv == ArrowInv /\ GateInv /\ PartInv /\ CountInv

\* SubmittedIsSent: the watermark that bounds acknowledgements is the number of records handed
\* to the connection in use, across rotations, half-closes, replays that fail half way and
\* renewed connections, provided no ingest_batch call is dropped in its critical section.
THEOREM SubmittedMatchesSent ==
    ASSUME Undropped
    PROVE  Spec => []SubmittedIsSent
  <1>1. Init => SentInv
    <2>1. Init => ArrowInv
      BY TypeInit DEF Init, ArrowInv, HoldInv, WaitInv, SnapInv, NoWait, Held
    <2>2. Init => PartInv
      BY DEF Init, PartInv
    <2>3. Init => GateInv
      BY DEF Init, GateInv
    <2>4. Init => CountInv
      BY EmptySeq DEF Init, CountInv, Held
    <2> QED BY <2>1, <2>2, <2>3, <2>4 DEF SentInv
  <1>2. SentInv /\ [Next]_vars => SentInv'
    <2> SUFFICES ASSUME SentInv, [Next]_vars PROVE SentInv'
      OBVIOUS
    <2>1. TypeInv /\ HoldInv /\ WaitInv /\ SnapInv /\ GateInv /\ PartInv /\ CountInv
      BY DEF SentInv, ArrowInv
    <2>2. ArrowInv'
      BY <2>1, TypeStep, HoldStep, WaitStepInv, SnapStep DEF ArrowInv
    <2>3. GateInv' /\ PartInv' /\ CountInv'
      BY <2>1, GateStep, PartStep, CountStep
    <2> QED BY <2>2, <2>3 DEF SentInv
  <1>3. SentInv => SubmittedIsSent
    BY DEF SentInv, CountInv, SubmittedIsSent
  <1> QED BY <1>1, <1>2, <1>3, PTL DEF Spec

\* What the outcome of close() rests on.
CloseInv == ArrowInv /\ PartInv /\ OrderInv /\ ErrorInv /\ FlushInv /\ ResultInv

\* CloseOkMeansDelivered: when close() reports success no batch is pending and none is handed back
\* for a retry, whatever calls are dropped, however often it is called and however it meets a
\* supervisor that recovers or finalizes.
THEOREM CloseOkDelivers == Spec => []CloseOkMeansDelivered
  <1>1. Init => CloseInv
    <2> SUFFICES ASSUME Init PROVE CloseInv
      OBVIOUS
    <2>1. TypeInv /\ HoldInv /\ WaitInv /\ SnapInv /\ PartInv
      BY TypeInit DEF Init, HoldInv, WaitInv, SnapInv, NoWait, Held, PartInv
    <2>2. OrderInv
      BY OrderInit
    <2>3. ErrorInv
      BY DEF Init, ErrorInv, Outcomes
    <2>4. FlushInv
      BY DEF Init, FlushInv, NoWait
    <2>5. ResultInv
      BY DEF Init, ResultInv
    <2> QED BY <2>1, <2>2, <2>3, <2>4, <2>5 DEF CloseInv, ArrowInv
  <1>2. CloseInv /\ [Next]_vars => CloseInv'
    BY TypeStep, HoldStep, WaitStepInv, SnapStep, PartStep, OrderStep, ErrorStep, FlushStep,
       ResultStep DEF CloseInv, ArrowInv
  <1>3. CloseInv => CloseOkMeansDelivered
    BY DEF CloseInv, ResultInv, Clean, CloseOkMeansDelivered
  <1> QED BY <1>1, <1>2, <1>3, PTL DEF Spec

\* What the ledger rests on.
RowInv == SentInv /\ OrderInv /\ LedgerInv

\* The ledger holds in every reachable state in which no call was dropped in its critical
\* section.
THEOREM LedgerInvariant ==
    ASSUME Undropped
    PROVE  Spec => []RowInv
  <1>1. Init => RowInv
    <2> SUFFICES ASSUME Init PROVE RowInv
      OBVIOUS
    <2>1. TypeInv /\ HoldInv /\ WaitInv /\ SnapInv
      BY TypeInit DEF Init, HoldInv, WaitInv, SnapInv, NoWait, Held
    <2>2. GateInv /\ PartInv
      BY DEF Init, GateInv, PartInv
    <2>3. CountInv
      BY EmptySeq DEF Init, CountInv, Held
    <2>4. OrderInv
      BY OrderInit
    <2>5. LedgerInv
      BY DEF Init, LedgerInv, CutInv, HandInv, Active, PlaceInv, EntryInv, Held
    <2> QED BY <2>1, <2>2, <2>3, <2>4, <2>5 DEF RowInv, SentInv, ArrowInv
  <1>2. RowInv /\ [Next]_vars => RowInv'
    <2> SUFFICES ASSUME RowInv, [Next]_vars PROVE RowInv'
      OBVIOUS
    <2>1. /\ TypeInv /\ HoldInv /\ WaitInv /\ SnapInv /\ GateInv /\ PartInv /\ CountInv
          /\ OrderInv /\ LedgerInv
      BY DEF RowInv, SentInv, ArrowInv
    <2>2. ArrowInv'
      BY <2>1, TypeStep, HoldStep, WaitStepInv, SnapStep DEF ArrowInv
    <2>3. GateInv' /\ PartInv' /\ CountInv'
      BY <2>1, GateStep, PartStep, CountStep
    <2>4. OrderInv' /\ LedgerInv'
      BY <2>1, OrderStep, LedgerStep
    <2> QED BY <2>2, <2>3, <2>4 DEF RowInv, SentInv
  <1> QED BY <1>1, <1>2, PTL DEF Spec

\* RowLedger: every row of an accepted batch is in exactly one place, acknowledged by the
\* server, in the part of pending_batches that a replay would send again, or in the batches that
\* get_unacked_batches() hands back, however partial acknowledgements, rotations, failed
\* replays, finalization and interrupted closes mix, provided no ingest_batch call is dropped in
\* its critical section.
THEOREM RowsInOnePlace ==
    ASSUME Undropped
    PROVE  Spec => []RowLedger
  <1>1. RowInv => RowLedger
    <2> SUFFICES ASSUME RowInv, NEW o \in accepted, NEW r \in BatchRows(o)
                 PROVE  Cardinality({p \in DOMAIN Places : r \in Places[p]}) = 1
      BY DEF RowLedger
    <2>1. TypeInv /\ PartInv /\ OrderInv /\ LedgerInv
      BY DEF RowInv, SentInv, ArrowInv
    <2>2. PICK k \in 1 .. size[o] : r = <<o, k>>
      BY DEF BatchRows
    <2>3. /\ r \in Unconfirmed <=> Kept(o, pending) /\ r \notin confirmed
          /\ r \in Failed <=> Kept(o, failed) /\ r \notin confirmed
          /\ r \in confirmed \/ Kept(o, pending) \/ Kept(o, failed)
          /\ ~(Kept(o, pending) /\ Kept(o, failed))
      BY <2>1, <2>2, RowsPlaced
    <2>4. /\ DOMAIN Places = {"confirmed", "pending", "failed"}
          /\ Places["confirmed"] = confirmed
          /\ Places["pending"] = Unconfirmed
          /\ Places["failed"] = Failed
      BY DEF Places
    <2>5. \E x : {p \in DOMAIN Places : r \in Places[p]} = {x}
      <3>1. CASE r \in confirmed
        <4>1. {p \in DOMAIN Places : r \in Places[p]} = {"confirmed"}
          BY <2>3, <2>4, <3>1
        <4> QED BY <4>1
      <3>2. CASE r \notin confirmed /\ Kept(o, pending)
        <4>1. {p \in DOMAIN Places : r \in Places[p]} = {"pending"}
          BY <2>3, <2>4, <3>2
        <4> QED BY <4>1
      <3>3. CASE r \notin confirmed /\ Kept(o, failed)
        <4>1. {p \in DOMAIN Places : r \in Places[p]} = {"failed"}
          BY <2>3, <2>4, <3>3
        <4> QED BY <4>1
      <3> QED BY <2>3, <3>1, <3>2, <3>3
    <2> QED BY <2>5, FS_Singleton
  <1> QED BY <1>1, LedgerInvariant, PTL

\* AckedIffConfirmed: the offset that flush() and wait_for_offset() watch has passed an accepted
\* batch exactly when all rows of the batch are acknowledged, over however many connections and
\* in however many parts the batch was sent, provided no ingest_batch call is dropped in its
\* critical section.
THEOREM AckedMeansConfirmed ==
    ASSUME Undropped
    PROVE  Spec => []AckedIffConfirmed
  <1>1. RowInv => AckedIffConfirmed
    <2> SUFFICES ASSUME RowInv, NEW o \in accepted
                 PROVE  o <= lastAck <=> BatchRows(o) \subseteq confirmed
      BY DEF AckedIffConfirmed
    <2>1. TypeInv /\ PartInv /\ OrderInv /\ LedgerInv
      BY DEF RowInv, SentInv, ArrowInv
    <2>2. o \in Int /\ lastAck \in Int
      BY <2>1, MarkTypes DEF LedgerInv, PlaceInv, Offsets
    <2>3. o <= lastAck => BatchRows(o) \subseteq confirmed
      BY <2>1 DEF LedgerInv, PlaceInv
    <2>4. lastAck < o => ~(BatchRows(o) \subseteq confirmed)
      BY <2>1, LastRow
    <2> QED BY <2>2, <2>3, <2>4
  <1> QED BY <1>1, LedgerInvariant, PTL
==============================================================================
