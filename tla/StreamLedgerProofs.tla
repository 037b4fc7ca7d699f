-------------------------- MODULE StreamLedgerProofs --------------------------
(***************************************************************************)
(* TLAPS proofs of what a ZerobusStream tells its callers: that it         *)
(* implements AckLedger, what Ok from wait_for_offset, flush and close     *)
(* means, and what the callback handler is given.  The invariants are      *)
(*   OrderInv    the order of fates and of what waiters are told           *)
(*   WaitInv     what an answer rests on                                   *)
(*   CallbackMatchesFate, and CallbackInv for close()                      *)
(* on top of those of ZerobusStreamProofs.                                 *)
(***************************************************************************)
EXTENDS ZerobusStreamProofs

------------------------------------------------------------------------------
(* The inductive invariants *)

\* Fates are in the order of acceptance: acknowledged, then handed back, then
\* pending.
FateInOrder == accepted = ackLog \o ((failed \o failing) \o AllItems)

\* Only acknowledged offsets are announced, each above the one before.
AnnounceInv ==
    /\ lastReceived # -1 => lastReceived \in Acked
    /\ \A c \in Conns : logical[c] # -2 => logical[c] \in Acked /\ logical[c] > lastReceived

\* What is on the wire or about to be was accepted.
SentInv ==
    /\ ToSet(wire) \subseteq ToSet(accepted)
    /\ send = "sending" => inHand \in ToSet(accepted)

OrderInv == FateInOrder /\ AnnounceInv /\ SentInv

\* Ok was returned only once the announced offset had reached the target.
WaitInv ==
    apiRes = "ok" => apiTarget <= lastReceived

------------------------------------------------------------------------------
(* The order of fates *)

\* Appending behind three sequences.
LEMMA AppendBehind ==
    ASSUME NEW S, NEW a \in Seq(S), NEW b \in Seq(S), NEW c \in Seq(S), NEW x \in S
    PROVE  a \o (b \o Append(c, x)) = Append(a \o (b \o c), x)
  <1>1. b \o c \in Seq(S)
    BY ConcatProperties
  <1>2. b \o Append(c, x) = Append(b \o c, x)
    BY AppendRight
  <1>3. a \o Append(b \o c, x) = Append(a \o (b \o c), x)
    BY <1>1, AppendRight
  <1> QED BY <1>2, <1>3

\* The pieces of FateInOrder as they are before a step.
LEMMA FatePieces ==
    ASSUME TypeInv
    PROVE  /\ accepted \in Seq(Offsets) /\ ackLog \in Seq(Offsets) /\ failed \in Seq(Offsets)
           /\ failing \in Seq(Offsets) /\ AllItems \in Seq(Offsets)
           /\ failed \o failing \in Seq(Offsets)
           /\ (failed \o failing) \o AllItems \in Seq(Offsets)
           /\ Offsets \in SUBSET Int
  <1>1. RecordTypes /\ MaxRecords \in Nat
    BY StreamAssumptions DEF TypeInv, TypeOK
  <1>2. AllItems \in Seq(Offsets) /\ failed \o failing \in Seq(Offsets)
    BY <1>1, ConcatProperties DEF RecordTypes, AllItems
  <1>3. (failed \o failing) \o AllItems \in Seq(Offsets)
    BY <1>2, ConcatProperties
  <1>4. Offsets \in SUBSET Int
    BY DEF Offsets
  <1> QED BY <1>1, <1>2, <1>3, <1>4 DEF RecordTypes

\* Records are handed back before the ones that are still pending, and never beside
\* an acknowledgement.
LEMMA FateStep ==
    ASSUME TypeInv, AcceptInv, HandedBack, FateInOrder, [Next]_vars
    PROVE  FateInOrder'
  <1> DEFINE A == AllItems
             F == failed \o failing
  <1>0. /\ accepted \in Seq(Offsets) /\ ackLog \in Seq(Offsets) /\ failed \in Seq(Offsets)
        /\ failing \in Seq(Offsets) /\ A \in Seq(Offsets) /\ F \in Seq(Offsets)
        /\ F \o A \in Seq(Offsets)
        /\ accepted = ackLog \o (F \o A)
    BY FatePieces DEF FateInOrder
  <1>1. ASSUME lastOffset \in Offsets, A' = Append(A, lastOffset),
               accepted' = Append(accepted, lastOffset), UNCHANGED <<ackLog, failed, failing>>
        PROVE  FateInOrder'
    <2>1. ackLog \o (F \o Append(A, lastOffset)) = Append(ackLog \o (F \o A), lastOffset)
      <3>1. ackLog \in Seq(Offsets) /\ F \in Seq(Offsets) /\ A \in Seq(Offsets) /\ lastOffset \in Offsets
        BY <1>0, <1>1
      <3>2. \A a, b, c \in Seq(Offsets) : \A x \in Offsets :
               a \o (b \o Append(c, x)) = Append(a \o (b \o c), x)
        BY SMTT(60), AppendBehind
      <3> HIDE DEF A, F
      <3> QED BY <3>1, <3>2, Zenon
    <2> QED BY <1>0, <1>1, <2>1 DEF FateInOrder
  <1>2. ASSUME observed # <<>>, A # <<>>, A' = Tail(A), ackLog' = Append(ackLog, Head(A)),
               UNCHANGED <<accepted, failed, failing>>
        PROVE  FateInOrder'
    <2>1. failed = <<>> /\ failing = <<>>
      BY <1>2 DEF HandedBack, Drained
    <2>2. F = <<>>
      BY <2>1, EmptySeq, ConcatEmptySeq
    <2>3. Append(ackLog, Head(A)) \o Tail(A) = ackLog \o A
      <3> HIDE DEF A, F
      <3> QED BY <1>0, <1>2, MoveHead
    <2>4. Tail(A) \in Seq(Offsets)
      BY <1>0, <1>2, HeadTailProperties
    <2>5. <<>> \o A = A /\ <<>> \o Tail(A) = Tail(A)
      <3> HIDE DEF A, F
      <3> QED BY <1>0, <2>4, ConcatEmptySeq
    <2>6. accepted' = ackLog' \o (F \o A')
      <3> HIDE DEF A, F
      <3> QED BY <1>0, <1>2, <2>2, <2>3, <2>5
    <2>7. F' = F
      BY <1>2
    <2> QED BY <2>6, <2>7 DEF FateInOrder
  <1>3. ASSUME NEW x \in Seq(Offsets) PROVE x \o <<>> = x
    BY ConcatEmptySeq
  <1>4. ASSUME FailDrain, A' = <<>>, failing' = A, UNCHANGED <<accepted, ackLog, failed>>
        PROVE  FateInOrder'
    <2>1. failing = <<>>
      BY <1>4 DEF AcceptInv, FailDrain
    <2>2. F = failed
      BY <1>0, <1>3, <2>1
    <2>3. F' = failed \o A
      BY <1>4
    <2>4. F' \o <<>> = F \o A
      <3> HIDE DEF A, F
      <3> QED BY <1>0, <1>3, <2>2, <2>3
    <2> HIDE DEF A, F
    <2>5. accepted' = ackLog' \o (F' \o A')
      BY <1>0, <1>4, <2>4
    <2> QED BY <2>5 DEF FateInOrder, A, F
  <1>5. ASSUME A' = A, failed' = failed \o failing, failing' = <<>>,
               UNCHANGED <<accepted, ackLog>>
        PROVE  FateInOrder'
    <2>1. F' = F
      BY <1>0, <1>3, <1>5
    <2> HIDE DEF A, F
    <2>2. accepted' = ackLog' \o (F' \o A')
      BY <1>0, <1>5, <2>1
    <2> QED BY <2>2 DEF FateInOrder, A, F
  <1>6. ASSUME GetUnacked, A' = <<>>, failed' = failed \o A,
               UNCHANGED <<accepted, ackLog, failing>>
        PROVE  FateInOrder'
    <2>1. failing = <<>>
      BY <1>6 DEF AcceptInv, GetUnacked
    <2>2. F = failed /\ F \o A \in Seq(Offsets)
      BY <1>0, <1>3, <2>1
    <2>3. F' = F \o A
      <3>1. F' = (failed \o A) \o <<>>
        BY <1>6, <2>1
      <3> HIDE DEF A, F
      <3> QED BY <1>3, <2>2, <3>1
    <2>4. F' \o <<>> = F \o A
      <3> HIDE DEF A, F
      <3> QED BY <1>3, <2>2, <2>3
    <2> HIDE DEF A, F
    <2>5. accepted' = ackLog' \o (F' \o A')
      BY <1>0, <1>6, <2>4
    <2> QED BY <2>5 DEF FateInOrder, A, F
  <1>7. ASSUME A' = A, UNCHANGED <<accepted, ackLog, failed, failing>>
        PROVE  FateInOrder'
    BY <1>0, <1>7 DEF FateInOrder
  <1> QED BY <1>1, <1>2, <1>4, <1>5, <1>6, <1>7, RecordFlow, Zenon

\* What was acknowledged is older than what was not.
LEMMA AckedAreOldest ==
    ASSUME TypeInv, AcceptInv, FateInOrder
    PROVE  LET R == (failed \o failing) \o AllItems
           IN  /\ \A x \in Acked, y \in ToSet(R) : x < y
               /\ ToSet(accepted) = Acked \cup ToSet(R)
               /\ ToSet(AllItems) \subseteq ToSet(R)
               /\ Acked \subseteq Offsets /\ Offsets \subseteq Nat
  <1> DEFINE R == (failed \o failing) \o AllItems
  <1>1. /\ ackLog \in Seq(Offsets) /\ R \in Seq(Offsets) /\ Offsets \in SUBSET Int
        /\ AllItems \in Seq(Offsets) /\ failed \o failing \in Seq(Offsets)
    BY FatePieces
  <1>2. accepted = ackLog \o R /\ Increasing(accepted)
    BY DEF FateInOrder, AcceptInv
  <1>3. ToSet(AllItems) \subseteq ToSet(R)
    <2>1. ToSet(R) = ToSet(failed \o failing) \cup ToSet(AllItems)
      BY ZenonT(60), <1>1, ConcatSet
    <2> QED BY <2>1
  <1>4. Acked \subseteq Offsets /\ Offsets \subseteq Nat
    <2>1. Offsets \subseteq Nat
      BY StreamAssumptions DEF Offsets
    <2>2. ToSet(ackLog) \subseteq Offsets
      BY <1>1, ItemAt
    <2> QED BY <2>1, <2>2 DEF Acked
  <1>5. \A x \in ToSet(ackLog), y \in ToSet(R) : x < y
    <2> HIDE DEF R
    <2> QED BY <1>1, <1>2, IncreasingConcat
  <1>6. ToSet(accepted) = ToSet(ackLog) \cup ToSet(R)
    <2> HIDE DEF R
    <2> QED BY <1>1, <1>2, ConcatSet
  <1> QED BY <1>3, <1>4, <1>5, <1>6 DEF Acked

------------------------------------------------------------------------------
(* What waiters are told *)

\* last_logical_acked_offset is set by an acknowledgement, and published once.
LEMMA AnnounceStep ==
    ASSUME TypeInv, ControlInv, AcceptInv, OnlyCurrent, FateInOrder, AnnounceInv, [Next]_vars
    PROVE  /\ AnnounceInv'
           /\ lastReceived' = lastReceived
              \/ (lastReceived' \in Acked /\ lastReceived' > lastReceived)
  <1>0. /\ LoopTypes /\ ReceiverInv /\ lastReceived \in Int
        /\ Acked \subseteq Offsets /\ Offsets \subseteq Nat
    <2>1. LoopTypes /\ ReceiverInv
      BY DEF TypeInv, TypeOK, RecvTypes, LoopTypes, ControlInv
    <2>2. lastReceived \in Int
      BY StreamAssumptions DEF TypeInv, TypeOK, StateTypes
    <2> QED BY <2>1, <2>2, AckedAreOldest
  <1>1. Acked \subseteq Acked'
    <2>1. UNCHANGED ackLog \/ \E x \in Offsets : ackLog' = Append(ackLog, x)
      <3>1. observed # <<>> => Head(observed) \in Offsets
        BY HeadTailProperties DEF TypeInv, TypeOK, RecordTypes
      <3> QED BY <3>1, AckFrame DEF AckOne, RemoveObserved
    <2>2. ackLog \in Seq(Offsets)
      BY FatePieces
    <2>3. ASSUME NEW x \in Offsets PROVE ToSet(Append(ackLog, x)) = ToSet(ackLog) \cup {x}
      BY <2>2, AppendSet
    <2> QED BY <2>1, <2>3 DEF Acked
  <1>2. ASSUME NEW c \in Conns, AckOne(c), observed # <<>>
        PROVE  AnnounceInv' /\ lastReceived' = lastReceived
    <2>1. /\ logical' = [logical EXCEPT ![c] = Head(observed)]
          /\ ackLog' = Append(ackLog, Head(observed)) /\ lastReceived' = lastReceived
      BY <1>2 DEF AckOne, IsObservedEmpty, resultVars, watchVars
    <2>2. Head(observed) \in ToSet(AllItems) /\ Head(observed) \in Offsets
      <3>1. observed \in Seq(Offsets) /\ queue \in Seq(Offsets)
        BY DEF TypeInv, TypeOK, RecordTypes
      <3>2. ToSet(AllItems) = ToSet(observed) \cup ToSet(queue)
        BY <3>1, ConcatSet DEF AllItems
      <3>3. ToSet(observed) = {Head(observed)} \cup ToSet(Tail(observed))
        BY <1>2, <3>1, HeadTailSet
      <3>4. Head(observed) \in Offsets
        BY <1>2, <3>1, HeadTailProperties
      <3> QED BY <3>2, <3>3, <3>4
    <2>3. \A x \in Acked : x < Head(observed)
      BY <2>2, AckedAreOldest
    <2>4. Head(observed) \in Acked'
      <3>1. ackLog \in Seq(Offsets)
        BY FatePieces
      <3>2. ToSet(Append(ackLog, Head(observed))) = ToSet(ackLog) \cup {Head(observed)}
        BY <2>2, <3>1, AppendSet
      <3> QED BY <2>1, <3>2 DEF Acked
    <2>5. Head(observed) > lastReceived
      <3>1. CASE lastReceived = -1
        <4>1. Head(observed) \in Nat
          BY <1>0, <2>2
        <4> QED BY <3>1, <4>1
      <3>2. CASE lastReceived # -1
        BY <1>0, <2>2, <2>3, <3>2 DEF AnnounceInv
      <3> QED BY <3>1, <3>2
    <2>6. \A d \in Conns : logical'[d] = logical[d] \/ logical'[d] = Head(observed)
      BY <1>0, <2>1 DEF LoopTypes
    <2> QED BY <1>1, <2>1, <2>4, <2>5, <2>6 DEF AnnounceInv
  <1>3. ASSUME NEW c \in Conns, AckPublish(c), logical[c] # -2
        PROVE  AnnounceInv' /\ lastReceived' \in Acked /\ lastReceived' > lastReceived
    <2>1. /\ lastReceived' = logical[c] /\ logical' = [logical EXCEPT ![c] = -2]
          /\ recv[c] = "publish"
      BY <1>3 DEF AckPublish, Received, RecvLoopTop, RecvReturn, RecvEnd
    <2>2. \A d \in Conns : d # c => logical[d] = -2
      BY <1>0, <2>1 DEF OnlyCurrent, ReceiverInv
    <2>3. \A d \in Conns : logical'[d] = -2
      BY <1>0, <2>1, <2>2 DEF LoopTypes
    <2>4. logical[c] \in Acked /\ logical[c] > lastReceived
      BY <1>3 DEF AnnounceInv
    <2> QED BY <1>1, <2>1, <2>3, <2>4 DEF AnnounceInv
  <1>4. ASSUME \A d \in Conns : logical'[d] = logical[d] \/ logical'[d] = -2,
               lastReceived' = lastReceived
        PROVE  AnnounceInv'
    BY <1>1, <1>4 DEF AnnounceInv
  <1>5. \/ \E c \in Conns : AckOne(c) /\ observed # <<>>
        \/ \E c \in Conns : AckPublish(c) /\ logical[c] # -2
        \/ lastReceived' = lastReceived
    BY WatchFrame
    DEF AckPublish, WaitForOffset, Flush, Close, ApiStep, WaitTimeout, WaitTop, WaitCheck,
        WaitOffsetChanged, WaitErrorChanged, ShutdownSup, ShutdownCallbacks, Returned,
        resultVars, watchVars, WaitBegin, WaitGoto, WaitReturn
  <1>6. \/ \E c \in Conns : AckOne(c) /\ observed # <<>>
        \/ \A d \in Conns : logical'[d] = logical[d] \/ logical'[d] = -2
    <2>1. ASSUME NEW c \in Conns, RecvStep(c) \/ RecvMessage(c)
          PROVE  \/ AckOne(c) /\ observed # <<>>
                 \/ \A d \in Conns : logical'[d] = logical[d] \/ logical'[d] = -2
      <3>1. AckOne(c) => observed # <<>> \/ logical' = logical
        BY DEF AckOne, RemoveObserved
      <3> QED BY <1>0, <2>1, <3>1, ReceiverSteps DEF LoopTypes, RecvEnd
    <2>2. CASE SupConnect \/ SupRecvEnded
      BY <2>2 DEF SupConnect, SupRecvEnded, recvLocals
    <2>3. CASE SupSendEnded \/ SupDrained
      BY <1>0, <2>3 DEF SupSendEnded, SupDrained, AbortRecv, RecvEnd, LoopTypes, recvLocals
    <2>4. CASE UNCHANGED recvVars
      BY <2>4 DEF recvVars, recvLocals
    <2> QED BY <2>1, <2>2, <2>3, <2>4, RecvFrame
  <1> QED BY <1>2, <1>3, <1>4, <1>5, <1>6

------------------------------------------------------------------------------
(* What is sent *)

\* Only accepted records reach the sender and the wire.
LEMMA SentStep ==
    ASSUME TypeInv, AcceptInv, FateInOrder, SentInv, [Next]_vars
    PROVE  SentInv'
  <1>0. /\ SendTypes /\ wire \in Seq(Offsets) /\ accepted \in Seq(Offsets)
        /\ queue \in Seq(Offsets) /\ observed \in Seq(Offsets)
    BY DEF TypeInv, TypeOK, SendTypes, RecordTypes
  <1>1. ToSet(accepted) \subseteq ToSet(accepted')
    <2>1. accepted' = accepted \/ (lastOffset \in Offsets /\ accepted' = Append(accepted, lastOffset))
      BY RecordFlow
    <2>2. ASSUME lastOffset \in Offsets
          PROVE  ToSet(Append(accepted, lastOffset)) = ToSet(accepted) \cup {lastOffset}
      BY <1>0, <2>2, AppendSet
    <2> QED BY <2>1, <2>2
  <1>2. ToSet(queue) \subseteq ToSet(accepted)
    <2>1. ToSet(AllItems) = ToSet(observed) \cup ToSet(queue)
      BY <1>0, ConcatSet DEF AllItems
    <2> QED BY <2>1, AckedAreOldest
  <1>3. \/ ToSet(wire') \subseteq ToSet(wire)
        \/ send = "sending" /\ ToSet(wire') = ToSet(wire) \cup {inHand}
    <2>1. CASE SupConnect
      BY <2>1, NoItems DEF SupConnect
    <2>2. CASE SendRecord
      <3>1. send = "sending" /\ inHand \in Offsets /\ wire' = Append(wire, inHand)
        BY <1>0, <2>2 DEF SendRecord, SendTypes
      <3> QED BY <1>0, <3>1, AppendSet
    <2>3. CASE Persist \/ UNCHANGED netVars
      BY <2>3 DEF Persist, netVars
    <2> QED BY <2>1, <2>2, <2>3, NetFrame
  <1>4. ToSet(wire') \subseteq ToSet(accepted')
    BY <1>1, <1>3 DEF SentInv
  <1>5. send' = "sending" => inHand' \in ToSet(accepted')
    <2>1. CASE SendObserve
      <3>1. queue # <<>> /\ inHand' = Head(queue)
        BY <2>1 DEF SendObserve, Observe
      <3>2. ToSet(queue) = {Head(queue)} \cup ToSet(Tail(queue))
        BY <1>0, <3>1, HeadTailSet
      <3> QED BY <1>1, <1>2, <3>1, <3>2
    <2>2. CASE ~SendObserve
      <3>1. send' = "sending" => UNCHANGED <<send, inHand>>
        BY <2>2, SendFrame
        DEF SupConnect, SupRecvEnded, SupJoinSender, SupSendEnded, SendStep, SendTop, SendPoll,
            SendPark, SendCancel, SendRecord, SendFail, SendEnd, sendVars
      <3> QED BY <1>1, <3>1 DEF SentInv
    <2> QED BY <2>1, <2>2
  <1> QED BY <1>4, <1>5 DEF SentInv

------------------------------------------------------------------------------
(* The ledger *)

\* Everything the proofs of this section use.
LedgerInv == TypeInv /\ RecordInv /\ ControlInv /\ AckInv /\ OrderInv

\* Nothing has been accepted, sent or announced at first.
LEMMA LedgerInvInit == Init => LedgerInv
  <1> SUFFICES ASSUME Init PROVE LedgerInv
    OBVIOUS
  <1>1. TypeInv /\ RecordInv /\ ControlInv /\ AckInv
    BY TypeInit, RecordInit, ControlInit, AckInit
  <1>2. FateInOrder
    <2>1. /\ accepted = <<>> /\ ackLog = <<>> /\ failed = <<>> /\ failing = <<>>
          /\ observed = <<>> /\ queue = <<>>
      BY DEF Init, LZInit
    <2> QED BY <2>1, EmptySeq, ConcatEmptySeq DEF FateInOrder, AllItems
  <1>3. AnnounceInv /\ SentInv
    BY NoItems DEF Init, AnnounceInv, SentInv
  <1> QED BY <1>1, <1>2, <1>3 DEF LedgerInv, OrderInv

\* All of it is inductive when aborted receivers stop in time.
LEMMA LedgerInvStep ==
    ASSUME PromptAbort
    PROVE  LedgerInv /\ [Next]_vars => LedgerInv'
  <1> SUFFICES ASSUME LedgerInv, [Next]_vars PROVE LedgerInv'
    OBVIOUS
  <1>1. /\ TypeInv /\ RecordInv /\ AcceptInv /\ ControlInv /\ AckInv /\ OnlyCurrent /\ HandedBack
        /\ FateInOrder /\ AnnounceInv /\ SentInv
    BY DEF LedgerInv, OrderInv, AckInv, RecordInv
  <1>2. TypeInv' /\ RecordInv' /\ ControlInv' /\ AckInv'
    BY <1>1, TypeStep, AcceptStep, RecordStep, ControlStep, AckStep DEF RecordInv
  <1>3. FateInOrder' /\ AnnounceInv' /\ SentInv'
    BY <1>1, FateStep, AnnounceStep, SentStep
  <1> QED BY <1>2, <1>3 DEF LedgerInv, OrderInv

\* What the ledger knows of is what was accepted.
LEMMA LedgerKnown ==
    ASSUME LedgerInv
    PROVE  Ledger!Known = accepted
  <1>1. /\ ackLog \in Seq(Offsets) /\ failed \o failing \in Seq(Offsets)
        /\ AllItems \in Seq(Offsets)
    BY FatePieces DEF LedgerInv
  <1>2. (ackLog \o (failed \o failing)) \o AllItems = ackLog \o ((failed \o failing) \o AllItems)
    BY SMTT(60), <1>1, ConcatAssociative
  <1> QED BY <1>2 DEF Ledger!Known, LedgerInv, OrderInv, FateInOrder

\* Every step of the stream is a step of the ledger or changes nothing it shows.
LEMMA LedgerStep ==
    ASSUME LedgerInv, [Next]_vars
    PROVE  [Ledger!LedgerNext]_(Ledger!ledgerVars)
  <1> DEFINE A == AllItems
             F == failed \o failing
  <1>0. /\ TypeInv /\ AcceptInv /\ ControlInv /\ OnlyCurrent /\ Stored /\ InLine
        /\ FateInOrder /\ AnnounceInv /\ SentInv
    BY DEF LedgerInv, OrderInv, AckInv, RecordInv
  <1>1. /\ accepted \in Seq(Offsets) /\ ackLog \in Seq(Offsets) /\ failed \in Seq(Offsets)
        /\ failing \in Seq(Offsets) /\ A \in Seq(Offsets) /\ F \in Seq(Offsets)
        /\ F \o A \in Seq(Offsets) /\ failed \o A \in Seq(Offsets)
    BY <1>0, FatePieces, ConcatProperties
  <1>2. ASSUME NEW x \in Seq(Offsets) PROVE x \o <<>> = x
    BY ConcatEmptySeq
  <1>3. ASSUME NEW k \in Clients, IngestAdd(k), lastOffset \in Offsets,
               A' = Append(A, lastOffset), UNCHANGED <<ackLog, failed, failing>>
        PROVE  Ledger!Accept(lastOffset)
    <2>1. \A o \in ToSet(accepted) : o < lastOffset
      BY <1>0, <1>3 DEF AcceptInv, IngestAdd, Adding
    <2>2. \A i \in 1 .. Len(accepted) : accepted[i] < lastOffset
      BY <1>1, <2>1, ItemAt
    <2>3. UNCHANGED <<durable, lastReceived>>
      BY <1>3 DEF IngestAdd, taskVars, netVars, resultVars, watchVars
    <2> QED BY <1>3, <2>2, <2>3, LedgerKnown DEF Ledger!Accept
  <1>4. ASSUME NEW c \in Conns, AckOne(c), observed # <<>>, A # <<>>, Head(observed) = Head(A),
               A' = Tail(A), ackLog' = Append(ackLog, Head(A)), UNCHANGED <<failed, failing>>
        PROVE  Ledger!Acknowledge
    <2>1. Head(A) \in durable
      BY <1>0, <1>4, AckedHead
    <2>2. UNCHANGED <<durable, lastReceived>>
      BY <1>4 DEF AckOne, netVars, resultVars, watchVars
    <2> QED BY <1>4, <2>1, <2>2 DEF Ledger!Acknowledge
  <1>5. ASSUME FailDrain, A' = <<>>, failing' = A, UNCHANGED <<ackLog, failed>>
        PROVE  Ledger!HandBack
    <2>1. F = failed
      BY <1>0, <1>1, <1>2, <1>5 DEF AcceptInv, FailDrain
    <2>2. UNCHANGED <<durable, lastReceived>>
      BY <1>5 DEF FailDrain, taskVars, netVars, watchVars
    <2> QED BY <1>5, <2>1, <2>2 DEF Ledger!HandBack
  <1>6. ASSUME FailFinish, failed' = failed \o failing, failing' = <<>>, A' = A, UNCHANGED ackLog
        PROVE  UNCHANGED Ledger!ledgerVars
    <2>1. F' = F
      BY <1>1, <1>2, <1>6
    <2>2. UNCHANGED <<durable, lastReceived>>
      BY <1>6 DEF FailFinish, taskVars, netVars, watchVars
    <2> QED BY <1>6, <2>1, <2>2 DEF Ledger!ledgerVars
  <1>7. ASSUME GetUnacked, A' = <<>>, failed' = failed \o A, UNCHANGED <<ackLog, failing>>
        PROVE  Ledger!HandBack
    <2>1. failing = <<>>
      BY <1>0, <1>7 DEF AcceptInv, GetUnacked
    <2>2. F = failed /\ F' = failed \o A
      BY <1>1, <1>2, <1>7, <2>1
    <2>3. UNCHANGED <<durable, lastReceived>>
      BY <1>7 DEF GetUnacked, taskVars, netVars, watchVars
    <2> QED BY <1>7, <2>2, <2>3 DEF Ledger!HandBack
  <1>8. ASSUME A' = A, UNCHANGED <<ackLog, failed, failing>>
        PROVE  \/ \E o \in Offsets : Ledger!Store(o) \/ Ledger!Announce(o)
               \/ UNCHANGED Ledger!ledgerVars
    <2>1. ASSUME Persist
          PROVE  \E o \in Offsets : Ledger!Store(o)
      <3> DEFINE o == wire[persisted + 1]
      <3>1. /\ wire \in Seq(Offsets) /\ persisted \in Nat /\ Len(wire) \in Nat
            /\ persisted < Len(wire) /\ durable' = durable \cup {o} /\ lastReceived' = lastReceived
        BY <1>0, <2>1, LenProperties
        DEF Persist, TypeInv, TypeOK, SendTypes, resultVars, watchVars
      <3>2. o \in ToSet(wire) /\ o \in Offsets
        <4>1. persisted + 1 \in 1 .. Len(wire)
          BY <3>1
        <4> QED BY <3>1, <4>1, ItemAt
      <3>3. o \in ToSet(accepted)
        BY <1>0, <3>2 DEF SentInv
      <3>4. o \in Ledger!ToSet(Ledger!Known)
        BY <3>3, LedgerKnown DEF ToSet, Ledger!ToSet
      <3>5. Ledger!Store(o)
        BY <1>8, <3>1, <3>4 DEF Ledger!Store
      <3> QED BY <3>2, <3>5
    <2>2. ASSUME ~Persist
          PROVE  durable' = durable
      BY <2>2, NetFrame DEF SupConnect, SendRecord, netVars
    <2>3. ASSUME ~Persist, lastReceived' # lastReceived
          PROVE  \E o \in Offsets : Ledger!Announce(o)
      <3>1. lastReceived' \in Acked /\ lastReceived' > lastReceived /\ Acked \subseteq Offsets
        BY <1>0, <2>3, AnnounceStep, AckedAreOldest
      <3>2. lastReceived' \in Ledger!ToSet(ackLog)
        BY <3>1 DEF Acked, ToSet, Ledger!ToSet
      <3>3. \A o : o = lastReceived' => Ledger!Announce(o)
        BY <1>8, <2>2, <2>3, <3>1, <3>2 DEF Ledger!Announce
      <3> QED BY <3>1, <3>3
    <2>4. ASSUME ~Persist, lastReceived' = lastReceived
          PROVE  UNCHANGED Ledger!ledgerVars
      BY <1>8, <2>2, <2>4 DEF Ledger!ledgerVars
    <2> QED BY <2>1, <2>3, <2>4
  <1>9. \/ \E o \in Offsets : Ledger!Accept(o) \/ Ledger!Store(o) \/ Ledger!Announce(o)
        \/ Ledger!Acknowledge \/ Ledger!HandBack
        \/ UNCHANGED Ledger!ledgerVars
    <2> HIDE DEF A, F
    <2>1. \/ /\ \E k \in Clients : IngestAdd(k)
             /\ lastOffset \in Offsets
             /\ A' = Append(A, lastOffset) /\ UNCHANGED <<ackLog, failed, failing>>
          \/ /\ \E c \in Conns : AckOne(c)
             /\ observed # <<>> /\ A # <<>> /\ Head(observed) = Head(A)
             /\ A' = Tail(A) /\ ackLog' = Append(ackLog, Head(A)) /\ UNCHANGED <<failed, failing>>
          \/ FailDrain /\ A' = <<>> /\ failing' = A /\ UNCHANGED <<ackLog, failed>>
          \/ /\ FailFinish /\ failed' = failed \o failing /\ failing' = <<>>
             /\ A' = A /\ UNCHANGED ackLog
          \/ GetUnacked /\ A' = <<>> /\ failed' = failed \o A /\ UNCHANGED <<ackLog, failing>>
          \/ A' = A /\ UNCHANGED <<ackLog, failed, failing>>
      BY <1>0, RecordFlow DEF A
    <2> QED BY <1>3, <1>4, <1>5, <1>6, <1>7, <1>8, <2>1, Zenon
  <1> QED BY <1>9 DEF Ledger!LedgerNext

\* The stream implements the ledger: whatever its connections do, records are
\* accepted in offset order, acknowledged in that order and only once durable,
\* announced only when acknowledged and never backwards, and handed back once
\* (receiver.rs:113-160, supervisor.rs:325-360, landing_zone.rs).  As for
\* AcknowledgedAreDurable, an aborted receiver ends before the next handshake and
\* the application does not combine signal_shutdown with get_unacked_batches.
THEOREM StreamImplementsLedger ==
    ASSUME PromptAbort
    PROVE  Spec => ImplementsLedger
  <1>1. Init => LedgerInv
    BY LedgerInvInit
  <1>2. LedgerInv /\ [Next]_vars => LedgerInv'
    BY LedgerInvStep
  <1>3. Init => Ledger!LedgerInit
    <2> SUFFICES ASSUME Init PROVE Ledger!LedgerInit
      OBVIOUS
    <2>1. failed \o failing = <<>> /\ AllItems = <<>>
      BY EmptySeq, ConcatEmptySeq DEF Init, LZInit, AllItems
    <2> QED BY <2>1 DEF Init, Ledger!LedgerInit
  <1>4. LedgerInv /\ [Next]_vars => [Ledger!LedgerNext]_(Ledger!ledgerVars)
    BY LedgerStep
  <1> QED BY <1>1, <1>2, <1>3, <1>4, PTL DEF Spec, ImplementsLedger, Ledger!LedgerSpec

------------------------------------------------------------------------------
(* Ok from wait_for_offset, flush and close *)

\* How an answer comes about: from the announced offset, or, on a stream that never
\* handed out an offset, from close() with nothing to wait for.
LEMMA AnswerStep ==
    ASSUME TypeInv, ControlInv, [Next]_vars, apiRes' = "ok"
    PROVE  \/ apiRes = "ok" /\ apiTarget' = apiTarget
           \/ apiTarget' = apiTarget /\ CaughtUp /\ lastReceived' = lastReceived
           \/ apiTarget' = -1
  <1>0. ApiInv
    BY DEF ControlInv
  <1>1. ASSUME NEW t \in Offsets, WaitForOffset(t) PROVE FALSE
    BY <1>0, <1>1 DEF WaitForOffset, Call, WaitBegin, ApiInv
  <1>2. CASE Flush
    BY <1>0, <1>2 DEF Flush, Call, WaitBegin, ApiInv
  <1>3. CASE Close
    BY <1>0, <1>3 DEF Close, Call, WaitBegin, BeginShutdown, ApiInv
  <1>4. CASE DropStream
    BY <1>4 DEF DropStream
  <1>5. CASE WaitTop
    BY <1>5 DEF WaitTop, WaitReturn, WaitGoto, BeginShutdown
  <1>6. CASE WaitCheck
    BY <1>6 DEF WaitCheck, WaitReturn, WaitGoto, BeginShutdown
  <1>7. CASE WaitErrorChanged
    BY <1>7 DEF WaitErrorChanged, WaitReturn, WaitGoto, BeginShutdown
  <1>8. CASE WaitTimeout
    BY <1>8 DEF WaitTimeout, WaitReturn, BeginShutdown
  <1>9. CASE WaitOffsetChanged \/ ShutdownSup \/ ShutdownCallbacks
    BY <1>9 DEF WaitOffsetChanged, WaitGoto, ShutdownSup, ShutdownCallbacks
  <1>10. CASE Returned
    BY <1>10 DEF Returned
  <1>11. CASE UNCHANGED apiVars
    BY <1>11 DEF apiVars
  <1> QED BY <1>1, <1>2, <1>3, <1>4, <1>5, <1>6, <1>7, <1>8, <1>9, <1>10, <1>11, ApiFrame
          DEF ApiStep

\* The announced offset never goes back, so an Ok stays justified.
LEMMA WaitStep ==
    ASSUME LedgerInv, WaitInv, [Next]_vars
    PROVE  WaitInv'
  <1>1. /\ TypeInv /\ ControlInv /\ AcceptInv /\ OnlyCurrent /\ FateInOrder /\ AnnounceInv
    BY DEF LedgerInv, OrderInv, AckInv, RecordInv
  <1>2. lastReceived' = lastReceived \/ (lastReceived' \in Acked /\ lastReceived' > lastReceived)
    BY <1>1, AnnounceStep
  <1>3. /\ lastReceived \in Int /\ lastReceived >= -1 /\ apiTarget \in Int
        /\ Acked \subseteq Offsets /\ Offsets \subseteq Int
    <2>1. lastReceived \in -1 .. MaxRecords - 1 /\ apiTarget \in Offsets \cup {-1}
      BY <1>1 DEF TypeInv, TypeOK, StateTypes, UserTypes
    <2>2. Offsets \subseteq Int /\ Acked \subseteq Offsets
      BY <1>1, AckedAreOldest
    <2>3. apiTarget \in Int
      BY <2>1, <2>2
    <2>4. lastReceived \in Int /\ lastReceived >= -1
      BY <2>1, StreamAssumptions
    <2> QED BY <2>2, <2>3, <2>4
  <1>4. lastReceived' \in Int /\ lastReceived' >= lastReceived
    <2>1. lastReceived' \in Int /\ lastReceived \in Int
      BY <1>2, <1>3
    <2> QED BY <1>2, <2>1
  <1>5. ASSUME apiRes' = "ok" PROVE apiTarget' <= lastReceived'
    BY <1>1, <1>3, <1>4, <1>5, AnswerStep DEF WaitInv, CaughtUp
  <1> QED BY <1>5 DEF WaitInv

\* Everything up to the announced offset was acknowledged.
LEMMA AnnouncedIsAcked ==
    ASSUME LedgerInv, NEW o \in ToSet(accepted), o <= lastReceived
    PROVE  o \in Acked
  <1> SUFFICES ASSUME o \notin Acked PROVE FALSE
    OBVIOUS
  <1> DEFINE R == (failed \o failing) \o AllItems
  <1>1. TypeInv /\ AcceptInv /\ FateInOrder /\ AnnounceInv
    BY DEF LedgerInv, OrderInv, RecordInv
  <1>2. /\ \A x \in Acked, y \in ToSet(R) : x < y
        /\ ToSet(accepted) = Acked \cup ToSet(R)
        /\ Acked \subseteq Offsets /\ Offsets \subseteq Nat
    BY <1>1, AckedAreOldest
  <1>3. o \in ToSet(R) /\ o \in Nat
    <2>1. accepted \in Seq(Offsets)
      BY <1>1, FatePieces
    <2>2. ToSet(accepted) \subseteq Offsets
      BY <2>1, ItemAt
    <2> QED BY <1>2, <2>2
  <1>4. lastReceived \in Int
    BY <1>1, StreamAssumptions DEF TypeInv, TypeOK, StateTypes
  <1>5. lastReceived \in Acked
    BY <1>1, <1>3, <1>4 DEF AnnounceInv
  <1>6. lastReceived < o
    BY <1>2, <1>3, <1>5
  <1> QED BY <1>3, <1>4, <1>6

\* Ok from wait_for_offset, flush or the flush of close() means that every record
\* accepted up to that offset has been acknowledged, for any number of ingest
\* callers and reconnects (acks.rs:60-100): the announced offset was acknowledged,
\* it never goes back, and everything before it was acknowledged first.
THEOREM OkIsAcknowledged ==
    ASSUME PromptAbort
    PROVE  Spec => []WaitOkMeansAcked
  <1>1. Init => LedgerInv /\ WaitInv
    <2>1. Init => WaitInv
      BY DEF Init, WaitInv
    <2> QED BY <2>1, LedgerInvInit
  <1>2. LedgerInv /\ WaitInv /\ [Next]_vars => (LedgerInv /\ WaitInv)'
    BY LedgerInvStep, WaitStep
  <1>3. LedgerInv /\ WaitInv => WaitOkMeansAcked
    <2> SUFFICES ASSUME LedgerInv, WaitInv, apiRes = "ok",
                        NEW o \in ToSet(accepted), o <= apiTarget
                 PROVE  o \in Acked
      BY DEF WaitOkMeansAcked
    <2>1. TypeInv
      BY DEF LedgerInv
    <2>2. apiTarget \in Offsets \cup {-1} /\ lastReceived \in Int /\ Offsets \subseteq Int
      BY <2>1, StreamAssumptions DEF TypeInv, TypeOK, StateTypes, UserTypes, Offsets
    <2>3. apiTarget \in Int /\ o \in Int
      <3>1. accepted \in Seq(Offsets)
        BY <2>1, FatePieces
      <3>2. ToSet(accepted) \subseteq Offsets
        BY <3>1, ItemAt
      <3>3. o \in Int
        BY <2>2, <3>2
      <3> QED BY <2>2, <3>3
    <2>4. o <= lastReceived
      BY <2>2, <2>3 DEF WaitInv
    <2> QED BY <2>4, AnnouncedIsAcked
  <1> QED BY <1>1, <1>2, <1>3, PTL DEF Spec

------------------------------------------------------------------------------
(* Callbacks *)

\* What the callback handler was told, run or still queued.
Told == cbLog \o cbQueue

\* A sequence of callbacks with at most one per record, and one whose callbacks are
\* on_ack for records of A and on_error for records of F.
OneEach(m) == \A i, j \in 1 .. Len(m) : m[i][2] = m[j][2] => i = j
Fits(m, A, F) == \A i \in 1 .. Len(m) : m[i][2] \in (IF m[i][1] = "ack" THEN A ELSE F)

\* Callbacks for records that had no fate before are added without a repetition.
LEMMA TellMore ==
    ASSUME NEW m \in Seq(Message), NEW n \in Seq(Message), OneEach(m), OneEach(n),
           NEW A, NEW F, NEW A2, NEW F2, A \subseteq A2, F \subseteq F2,
           Fits(m, A, F), Fits(n, A2, F2), \A i \in 1 .. Len(n) : n[i][2] \notin A \cup F
    PROVE  OneEach(m \o n) /\ Fits(m \o n, A2, F2)
  <1> DEFINE u == m \o n
             k == Len(m)
  <1>1. /\ Len(m) \in Nat /\ Len(n) \in Nat /\ Len(u) = k + Len(n)
        /\ \A i \in 1 .. k + Len(n) : u[i] = IF i <= k THEN m[i] ELSE n[i - k]
    BY ConcatProperties, LenProperties
  <1>2. \A i \in 1 .. k : m[i][2] \in A \cup F
    BY DEF Fits
  <1> HIDE DEF u
  <1>3. \A i \in 1 .. Len(u) : \/ i \in 1 .. k /\ u[i] = m[i]
                               \/ i - k \in 1 .. Len(n) /\ u[i] = n[i - k] /\ i \in Int
    BY <1>1
  <1>4. OneEach(u)
    <2> SUFFICES ASSUME NEW i \in 1 .. Len(u), NEW j \in 1 .. Len(u), u[i][2] = u[j][2]
                 PROVE  i = j
      BY DEF OneEach
    <2>1. CASE i \in 1 .. k /\ u[i] = m[i] /\ j \in 1 .. k /\ u[j] = m[j]
      BY <2>1 DEF OneEach
    <2>2. CASE /\ i - k \in 1 .. Len(n) /\ u[i] = n[i - k] /\ i \in Int
               /\ j - k \in 1 .. Len(n) /\ u[j] = n[j - k] /\ j \in Int
      <3>1. i - k = j - k
        BY <2>2 DEF OneEach
      <3> QED BY <1>1, <2>2, <3>1
    <2>3. CASE i \in 1 .. k /\ u[i] = m[i] /\ j - k \in 1 .. Len(n) /\ u[j] = n[j - k]
      BY <1>2, <2>3
    <2>4. CASE j \in 1 .. k /\ u[j] = m[j] /\ i - k \in 1 .. Len(n) /\ u[i] = n[i - k]
      BY <1>2, <2>4
    <2> QED BY <1>3, <2>1, <2>2, <2>3, <2>4
  <1>5. Fits(u, A2, F2)
    <2> SUFFICES ASSUME NEW i \in 1 .. Len(u)
                 PROVE  u[i][2] \in (IF u[i][1] = "ack" THEN A2 ELSE F2)
      BY DEF Fits
    <2>1. CASE i \in 1 .. k /\ u[i] = m[i]
      BY <2>1 DEF Fits
    <2>2. CASE i - k \in 1 .. Len(n) /\ u[i] = n[i - k]
      BY <2>2 DEF Fits
    <2> QED BY <1>3, <2>1, <2>2
  <1> QED BY <1>4, <1>5 DEF u

\* The handler is told of an acknowledgement and of a failure, as long as it runs.
LEMMA ToldStep ==
    ASSUME TypeInv, [Next]_vars
    PROVE  \/ /\ \E c \in Conns : AckOne(c)
              /\ observed # <<>> /\ cb = "run"
              /\ Told' = Told \o << <<"ack", Head(observed)>> >>
           \/ FailFinish /\ cb = "run" /\ Told' = Told \o Failures
           \/ Told' = Told /\ (cb = "run" => ackLog' = ackLog)
  <1>0. cbLog \in Seq(Message) /\ cbQueue \in Seq(Message) /\ RecordTypes
    BY DEF TypeInv, TypeOK, UserTypes, Message
  <1>1. CASE FailFinish
    <2>1. Failures \in Seq(Message)
      BY <1>0, FailuresAreMessages DEF RecordTypes
    <2>2. cbLog' = cbLog /\ cbQueue' = IF cb = "run" THEN cbQueue \o Failures ELSE cbQueue
      BY <1>1 DEF FailFinish, Callbacks, Failures
    <2>3. cbLog \o (cbQueue \o Failures) = (cbLog \o cbQueue) \o Failures
      BY SMTT(60), <1>0, <2>1, ConcatAssociative
    <2> QED BY <1>1, <2>2, <2>3 DEF Told
  <1>2. ASSUME NEW c \in Conns, AckOne(c), observed # <<>>
        PROVE  \/ cb = "run" /\ Told' = Told \o << <<"ack", Head(observed)>> >>
               \/ cb # "run" /\ Told' = Told
    <2> DEFINE x == << <<"ack", Head(observed)>> >>
    <2>1. x \in Seq(Message)
      BY <1>0, <1>2, HeadTailProperties DEF RecordTypes, Message
    <2>2. cbLog' = cbLog /\ cbQueue' = IF cb = "run" THEN cbQueue \o x ELSE cbQueue
      BY <1>2 DEF AckOne, Callbacks, IsObservedEmpty
    <2> HIDE DEF x
    <2>3. cbLog \o (cbQueue \o x) = (cbLog \o cbQueue) \o x
      BY <1>0, <2>1, ConcatAssociative
    <2> QED BY <2>2, <2>3 DEF Told, x
  <1>3. ASSUME NEW c \in Conns, AckOne(c), observed = <<>>
        PROVE  Told' = Told /\ ackLog' = ackLog
    BY <1>3 DEF AckOne, RemoveObserved, cbVars, Told
  <1>4. CASE CallbackDeliver
    <2>1. cbQueue # <<>> /\ cbQueue' = Tail(cbQueue) /\ cbLog' = Append(cbLog, Head(cbQueue))
          /\ ackLog' = ackLog
      BY <1>4 DEF CallbackDeliver, histVars
    <2>2. Append(cbLog, Head(cbQueue)) \o Tail(cbQueue) = cbLog \o cbQueue
      BY <1>0, <2>1, MoveHead
    <2> QED BY <2>1, <2>2 DEF Told
  <1>5. CASE CallbackExit \/ ShutdownCallbacks \/ DropStream
    BY <1>5 DEF CallbackExit, ShutdownCallbacks, DropStream, histVars, Told
  <1>6. ASSUME UNCHANGED cbVars, \A c \in Conns : ~AckOne(c) PROVE Told' = Told /\ ackLog' = ackLog
    BY <1>6, AckFrame DEF cbVars, Told
  <1> QED BY <1>1, <1>2, <1>3, <1>4, <1>5, <1>6, CallbackFrame DEF CallbackStep

\* A callback is queued only when its record gets its fate.
LEMMA CallbackStepInv ==
    ASSUME TypeInv, TypeInv', AcceptInv, NoRecordLost, CallbackMatchesFate, [Next]_vars
    PROVE  CallbackMatchesFate'
  <1> DEFINE A == ToSet(ackLog)
             F == ToSet(failed)
  <1>0. /\ ackLog \in Seq(Offsets) /\ failed \in Seq(Offsets) /\ failing \in Seq(Offsets)
        /\ AllItems \in Seq(Offsets) /\ Told \in Seq(Message)
        /\ Distinct(ackLog, AllItems, failing, failed)
    <2>1. cbLog \in Seq(Message) /\ cbQueue \in Seq(Message)
      BY DEF TypeInv, TypeOK, UserTypes, Message
    <2>2. Told \in Seq(Message)
      BY <2>1, ConcatProperties DEF Told
    <2> QED BY <2>2, Places
  <1>1. OneEach(Told) /\ Fits(Told, A, F)
    BY DEF CallbackMatchesFate, OneEach, Fits, Told, Acked
  <1>2. A \subseteq A' /\ F \subseteq F'
    <2>1. \/ ackLog' = ackLog
          \/ AllItems # <<>> /\ ackLog' = Append(ackLog, Head(AllItems))
      BY RecordFlow
    <2>2. AllItems # <<>> => Head(AllItems) \in Offsets
      BY <1>0, HeadTailProperties
    <2>3. ASSUME NEW x \in Offsets PROVE ToSet(Append(ackLog, x)) = ToSet(ackLog) \cup {x}
      BY <1>0, AppendSet
    <2>4. failed' = failed \/ failed' = failed \o failing \/ failed' = failed \o AllItems
      BY RecordFlow
    <2>5. /\ ToSet(failed \o failing) = ToSet(failed) \cup ToSet(failing)
          /\ ToSet(failed \o AllItems) = ToSet(failed) \cup ToSet(AllItems)
      BY <1>0, ConcatSet
    <2> QED BY <2>1, <2>2, <2>3, <2>4, <2>5
  <1>3. ASSUME OneEach(Told'), Fits(Told', A', F') PROVE CallbackMatchesFate'
    BY <1>3 DEF CallbackMatchesFate, OneEach, Fits, Told, Acked
  <1>4. ASSUME NEW c \in Conns, AckOne(c), observed # <<>>,
               Told' = Told \o << <<"ack", Head(observed)>> >>
        PROVE  OneEach(Told') /\ Fits(Told', A', F')
    <2> DEFINE h == Head(observed)
               n == << <<"ack", h>> >>
    <2>1. /\ AllItems # <<>> /\ h = Head(AllItems) /\ ackLog' = Append(ackLog, h) /\ h \in Offsets
      <3>1. ackLog' = Append(ackLog, h) /\ observed \in Seq(Offsets) /\ queue \in Seq(Offsets)
        BY <1>4 DEF AckOne, IsObservedEmpty, TypeInv, TypeOK, RecordTypes
      <3>2. AllItems # <<>> /\ Head(AllItems) = h
        BY <1>4, <3>1, HeadConcat DEF AllItems
      <3>3. h \in Offsets
        BY <1>4, <3>1, HeadTailProperties
      <3> QED BY <3>1, <3>2, <3>3
    <2>2. h \in ToSet(AllItems)
      <3>1. ToSet(AllItems) = {Head(AllItems)} \cup ToSet(Tail(AllItems))
        BY <1>0, <2>1, HeadTailSet
      <3> QED BY <2>1, <3>1
    <2>3. h \notin A \cup F
      BY <1>0, <2>2 DEF Distinct
    <2>4. h \in A'
      <3>1. ToSet(Append(ackLog, h)) = ToSet(ackLog) \cup {h}
        BY <1>0, <2>1, AppendSet
      <3> QED BY <2>1, <3>1
    <2>5. n \in Seq(Message) /\ Len(n) = 1 /\ n[1] = <<"ack", h>>
      BY <2>1 DEF Message
    <2>6. /\ OneEach(n) /\ Fits(n, A', F') /\ \A i \in 1 .. Len(n) : n[i][2] \notin A \cup F
      <3> HIDE DEF n, h, A, F
      <3>1. \A i \in 1 .. Len(n) : i = 1 /\ n[i] = <<"ack", h>>
        BY <2>5
      <3> QED BY <2>3, <2>4, <3>1 DEF OneEach, Fits
    <2> HIDE DEF n, h, A, F
    <2>7. OneEach(Told \o n) /\ Fits(Told \o n, A', F')
      BY <1>0, <1>1, <1>2, <2>5, <2>6, TellMore
    <2> QED BY <1>4, <2>7 DEF n, h
  <1>5. ASSUME FailFinish, Told' = Told \o Failures
        PROVE  OneEach(Told') /\ Fits(Told', A', F')
    <2>1. /\ Failures \in Seq(Message) /\ Len(Failures) = Len(failing)
          /\ \A i \in 1 .. Len(failing) : Failures[i] = <<"error", failing[i]>>
      BY <1>0, FailuresAreMessages
    <2>2. F' = F \cup ToSet(failing)
      <3>1. failed' = failed \o failing
        BY <1>5 DEF FailFinish
      <3> QED BY <1>0, <3>1, ConcatSet
    <2>3. \A i \in 1 .. Len(failing) :
             failing[i] \in F' /\ failing[i] \notin A \cup F
      <3>1. \A i \in 1 .. Len(failing) : failing[i] \in ToSet(failing)
        BY <1>0, ItemAt
      <3> QED BY <1>0, <2>2, <3>1 DEF Distinct
    <2>4. \A i, j \in 1 .. Len(failing) : failing[i] = failing[j] => i = j
      <3>1. DOMAIN failing = 1 .. Len(failing)
        BY <1>0, LenProperties
      <3> QED BY <1>0, <3>1 DEF Distinct, IsInjective
    <2> HIDE DEF A, F
    <2>5. OneEach(Failures) /\ Fits(Failures, A', F')
          /\ \A i \in 1 .. Len(Failures) : Failures[i][2] \notin A \cup F
      BY <2>1, <2>3, <2>4 DEF OneEach, Fits
    <2>6. OneEach(Told \o Failures) /\ Fits(Told \o Failures, A', F')
      BY <1>0, <1>1, <1>2, <2>1, <2>5, TellMore
    <2> QED BY <1>5, <2>6
  <1>6. ASSUME Told' = Told PROVE OneEach(Told') /\ Fits(Told', A', F')
    <2> HIDE DEF A, F
    <2> QED BY <1>1, <1>2, <1>6 DEF Fits
  <1> QED BY <1>3, <1>4, <1>5, <1>6, ToldStep

\* A record gets at most one callback, on_ack only if it was acknowledged and
\* on_error only if it is in failed_records (receiver.rs:129-141,
\* supervisor.rs:325-360), for every interleaving of receivers, failures, close()
\* and drop, and also when an aborted receiver is slow to stop.
THEOREM CallbacksMatchFates == Spec => []CallbackMatchesFate
  <1>1. Init => TypeInv /\ RecordInv /\ CallbackMatchesFate
    <2> SUFFICES ASSUME Init PROVE CallbackMatchesFate
      BY TypeInit, RecordInit
    <2>1. cbLog = <<>> /\ cbQueue = <<>>
      BY DEF Init
    <2>2. cbLog \o cbQueue = <<>> /\ Len(<<>>) = 0
      BY <2>1, EmptySeq, ConcatEmptySeq
    <2> QED BY <2>2 DEF CallbackMatchesFate
  <1>2. TypeInv /\ RecordInv /\ CallbackMatchesFate /\ [Next]_vars =>
            (TypeInv /\ RecordInv /\ CallbackMatchesFate)'
    BY TypeStep, AcceptStep, RecordStep, CallbackStepInv DEF RecordInv
  <1> QED BY <1>1, <1>2, PTL DEF Spec

------------------------------------------------------------------------------
(* Callbacks at close *)

\* The handler was told that o was acknowledged.
HasAck(m, o) == \E i \in 1 .. Len(m) : m[i] = <<"ack", o>>

AckedTold == \A o \in Acked : HasAck(Told, o)
AcceptedTold == \A o \in ToSet(accepted) : HasAck(Told, o)

\* The handler exists if it was asked for, and ends by itself only with an empty
\* queue.
HandlerInv ==
    /\ cb = "none" <=> ~WithCallback
    /\ cb = "done" /\ ~cbAborted => cbQueue = <<>>

\* Until the stream is cancelled, the handler misses no acknowledgement.
TellInv ==
    /\ cb = "run" => AckedTold
    /\ cb = "done" /\ ~cbAborted /\ ~cancelled => TasksGone /\ AckedTold

\* close() has the stream to itself, waits for the last offset, and once its flush
\* has returned Ok there is nothing the handler was not told.
ClosingInv ==
    /\ apiOp = "close" /\ api # "idle" => ClientsIdle
    /\ apiOp = "close" /\ Subscribed => ~cancelled /\ apiTarget = lastOffset
    /\ apiOp = "close" /\ apiRes = "ok" /\ WithCallback /\ ~cbAborted => AcceptedTold
    /\ api = "returned" /\ apiOp = "close" /\ apiRes = "ok" => cb # "run"

CallbackInv == HandlerInv /\ TellInv /\ ClosingInv

\* The handler is never told less than before, and of every acknowledgement while
\* it runs.
LEMMA ToldGrows ==
    ASSUME TypeInv, [Next]_vars
    PROVE  /\ \A o : HasAck(Told, o) => HasAck(Told', o)
           /\ cb = "run" /\ AckedTold => AckedTold'
           /\ ackLog' = ackLog /\ AckedTold => AckedTold'
  <1>0. /\ Told \in Seq(Message) /\ Failures \in Seq(Message) /\ ackLog \in Seq(Offsets)
        /\ observed \in Seq(Offsets)
    <2>1. cbLog \in Seq(Message) /\ cbQueue \in Seq(Message) /\ failing \in Seq(Offsets)
          /\ ackLog \in Seq(Offsets) /\ observed \in Seq(Offsets)
      BY DEF TypeInv, TypeOK, UserTypes, RecordTypes, Message
    <2> QED BY <2>1, ConcatProperties, FailuresAreMessages DEF Told
  <1>1. ASSUME NEW n \in Seq(Message), NEW o, HasAck(Told, o) PROVE HasAck(Told \o n, o)
    <2>1. /\ Len(Told \o n) = Len(Told) + Len(n) /\ Len(Told) \in Nat /\ Len(n) \in Nat
          /\ \A i \in 1 .. Len(Told) + Len(n) :
                (Told \o n)[i] = IF i <= Len(Told) THEN Told[i] ELSE n[i - Len(Told)]
      BY <1>0, ConcatProperties, LenProperties
    <2>2. PICK i \in 1 .. Len(Told) : Told[i] = <<"ack", o>>
      BY <1>1 DEF HasAck
    <2>3. i \in 1 .. Len(Told \o n) /\ (Told \o n)[i] = <<"ack", o>>
      BY <2>1, <2>2
    <2> QED BY <2>3 DEF HasAck
  <1>2. ASSUME observed # <<>>, Told' = Told \o << <<"ack", Head(observed)>> >>
        PROVE  HasAck(Told', Head(observed)) /\ \A o : HasAck(Told, o) => HasAck(Told', o)
    <2> DEFINE x == <<"ack", Head(observed)>>
    <2>1. x \in Message /\ <<x>> \in Seq(Message)
      BY <1>0, <1>2, HeadTailProperties DEF Message
    <2> HIDE DEF x
    <2>2. Told \o <<x>> = Append(Told, x)
      BY <1>0, <2>1, AppendIsConcat
    <2>3. Len(Append(Told, x)) = Len(Told) + 1 /\ Append(Told, x)[Len(Told) + 1] = x
          /\ Len(Told) \in Nat
      BY <1>0, <2>1, AppendProperties, LenProperties
    <2>4. Len(Told) + 1 \in 1 .. Len(Told')
      BY <1>2, <2>2, <2>3 DEF x
    <2>5. HasAck(Told', Head(observed))
      BY <1>2, <2>2, <2>3, <2>4 DEF HasAck, x
    <2>6. \A o : HasAck(Told, o) => HasAck(Told \o <<x>>, o)
      BY <1>1, <2>1
    <2> QED BY <1>2, <2>5, <2>6 DEF x
  <1>3. ASSUME NEW c \in Conns, AckOne(c), observed # <<>>
        PROVE  Acked' = Acked \cup {Head(observed)}
    <2>1. ackLog' = Append(ackLog, Head(observed)) /\ Head(observed) \in Offsets
      BY <1>0, <1>3, HeadTailProperties DEF AckOne, IsObservedEmpty
    <2> QED BY <1>0, <2>1, AppendSet DEF Acked
  <1>4. ASSUME FailFinish PROVE Acked' = Acked
    BY <1>4 DEF FailFinish, histVars, Acked
  <1>5. \A o : HasAck(Told, o) => HasAck(Told \o Failures, o)
    BY <1>0, <1>1
  <1>6. \A o : HasAck(Told, o) => HasAck(Told', o)
    BY <1>2, <1>5, ToldStep
  <1>7. ASSUME cb = "run", AckedTold PROVE AckedTold'
    <2>1. CASE /\ \E c \in Conns : AckOne(c)
               /\ observed # <<>> /\ Told' = Told \o << <<"ack", Head(observed)>> >>
      BY <1>2, <1>3, <1>7, <2>1 DEF AckedTold
    <2>2. CASE Acked' = Acked
      BY <1>6, <1>7, <2>2 DEF AckedTold
    <2>3. ackLog' = ackLog => Acked' = Acked
      BY DEF Acked
    <2> QED BY <1>4, <1>7, <2>1, <2>2, <2>3, ToldStep
  <1>8. ASSUME ackLog' = ackLog, AckedTold PROVE AckedTold'
    BY <1>6, <1>8 DEF AckedTold, Acked
  <1> QED BY <1>6, <1>7, <1>8

\* The tasks that are gone stay gone, and acknowledge nothing.
LEMMA GoneStays ==
    ASSUME TypeInv, ControlInv, TasksGone, [Next]_vars
    PROVE  TasksGone' /\ ackLog' = ackLog
  <1>0. LoopTypes /\ sup = "done" /\ \A c \in Conns : recv[c] \in {"none", "done"}
    BY DEF TypeInv, TypeOK, RecvTypes, LoopTypes, TasksGone
  <1>1. sup' = "done"
    BY <1>0, SupMoves DEF SupConnect, SupRecvEnded, SupSendEnded, SupDrained
  <1>2. ASSUME NEW c \in Conns, RecvStep(c) \/ RecvMessage(c) PROVE FALSE
    BY <1>0, <1>2, ReceiverSteps
  <1>3. recv' = recv
    BY <1>0, <1>2, RecvFrame
    DEF SupConnect, SupRecvEnded, SupSendEnded, SupDrained, recvVars
  <1>4. ackLog' = ackLog
    BY <1>2, AckFrame DEF RecvStep
  <1> QED BY <1>0, <1>1, <1>3, <1>4 DEF TasksGone

\* How the handler ends.
LEMMA HandlerMoves ==
    ASSUME TypeInv, [Next]_vars
    PROVE  /\ cbAborted => cbAborted'
           /\ \/ cb' = cb /\ cbAborted' = cbAborted
              \/ /\ cb = "run" /\ cb' = "done" /\ cbQueue' = <<>>
                 /\ (cancelled \/ TasksGone) /\ UNCHANGED <<cancelled, sup, recv, ackLog>>
              \/ cb = "run" /\ cb' = "done" /\ cbAborted'
              \/ cb' = cb /\ cbAborted'
           /\ cb = "done" => cbQueue' = cbQueue
  <1>0. cbAborted \in BOOLEAN /\ cb \in {"none", "run", "done"}
    BY DEF TypeInv, TypeOK, UserTypes
  <1>1. CASE FailFinish
    BY <1>1 DEF FailFinish, Callbacks
  <1>2. ASSUME NEW c \in Conns, AckOne(c)
        PROVE  cb' = cb /\ cbAborted' = cbAborted /\ (cb = "done" => cbQueue' = cbQueue)
    BY <1>2 DEF AckOne, Callbacks, cbVars
  <1>3. CASE CallbackDeliver
    BY <1>3 DEF CallbackDeliver
  <1>4. CASE CallbackExit
    BY <1>4 DEF CallbackExit, streamVars, supVars, taskVars, recvVars, histVars
  <1>5. CASE ShutdownCallbacks
    BY <1>5 DEF ShutdownCallbacks
  <1>6. CASE DropStream
    BY <1>0, <1>6 DEF DropStream
  <1>7. CASE UNCHANGED cbVars
    BY <1>7 DEF cbVars
  <1> QED BY <1>0, <1>1, <1>2, <1>3, <1>4, <1>5, <1>6, <1>7, CallbackFrame DEF CallbackStep

\* The handler's own state, and what it was told.
LEMMA HandlerStep ==
    ASSUME TypeInv, ControlInv, HandlerInv, TellInv, [Next]_vars
    PROVE  HandlerInv' /\ TellInv'
  <1>0. cbAborted \in BOOLEAN /\ cb \in {"none", "run", "done"} /\ cancelled \in BOOLEAN
    BY DEF TypeInv, TypeOK, UserTypes, StateTypes
  <1>1. HandlerInv'
    BY <1>0, HandlerMoves DEF HandlerInv
  <1>2. cb' = "run" => AckedTold'
    BY HandlerMoves, ToldGrows DEF TellInv
  <1>3. ASSUME cb' = "done", ~cbAborted', ~cancelled' PROVE TasksGone' /\ AckedTold'
    <2>1. ~cancelled /\ ~cbAborted
      BY <1>3, CloseIsFinal, HandlerMoves
    <2>2. CASE cb = "done"
      <3>1. TasksGone /\ AckedTold
        BY <2>1, <2>2 DEF TellInv
      <3> QED BY <3>1, GoneStays, ToldGrows
    <2>3. CASE cb = "run"
      <3>1. AckedTold /\ TasksGone
        BY <1>3, <2>1, <2>3, HandlerMoves DEF TellInv
      <3> QED BY <3>1, GoneStays, ToldGrows
    <2> QED BY <1>0, <1>3, <2>2, <2>3, HandlerMoves
  <1> QED BY <1>1, <1>2, <1>3 DEF TellInv

\* While close() runs nothing is accepted and nobody else shuts the stream down.
LEMMA CloseIsAlone ==
    ASSUME apiOp = "close", api # "idle", ClientsIdle, [Next]_vars
    PROVE  UNCHANGED <<client, lastOffset, accepted>> /\ ~SignalShutdown
  <1>1. ~Shared
    BY DEF Shared
  <1>2. UNCHANGED clientVars
    BY <1>1, ClientFrame DEF IngestCheck, IngestOffset, IngestAdd, IngestCancel, ClientsIdle
  <1> QED BY <1>1, <1>2 DEF clientVars, SignalShutdown

\* How a call of close() moves on.
LEMMA CloseMoves ==
    ASSUME TypeInv, ControlInv, [Next]_vars, apiOp' = "close", api' # "idle"
    PROVE  \/ /\ Close /\ ClientsIdle /\ UNCHANGED <<client, lastOffset, accepted, cancelled>>
              /\ api' = "returned" /\ apiRes' = "okAlreadyClosed"
           \/ /\ Close /\ ClientsIdle /\ UNCHANGED <<client, lastOffset, accepted>>
              /\ api' = "shutdown" /\ lastOffset = -1
           \/ /\ Close /\ ClientsIdle /\ UNCHANGED <<client, lastOffset, accepted, cancelled>>
              /\ api' = "top" /\ ~cancelled /\ apiTarget' = lastOffset /\ apiRes' = "none"
           \/ /\ apiOp = "close" /\ Subscribed /\ Subscribed'
              /\ apiTarget' = apiTarget /\ apiRes' = apiRes
           \/ /\ apiOp = "close" /\ Subscribed /\ api' = "shutdown" /\ (apiRes' = "ok" => CaughtUp)
           \/ /\ apiOp = "close" /\ api # "idle" /\ ~Subscribed /\ ~Subscribed' /\ apiRes' = apiRes
              /\ api' = "returned" => api = "returned" \/ cb' # "run"
  <1>0. ApiInv /\ cancelled \in BOOLEAN /\ isClosed \in BOOLEAN
    BY DEF ControlInv, TypeInv, TypeOK, StateTypes
  <1>1. ASSUME NEW t \in Offsets, WaitForOffset(t) PROVE FALSE
    BY <1>1 DEF WaitForOffset, WaitBegin
  <1>2. ~Flush
    BY DEF Flush, WaitBegin
  <1>3. ~DropStream
    BY <1>0 DEF DropStream, Call, ApiInv
  <1>4. CASE Close
    <2>1. /\ ClientsIdle /\ UNCHANGED clientVars /\ api = "idle" /\ apiRes = "none"
      BY <1>0, <1>4 DEF Close, Call, waitOthers, ApiInv
    <2> QED BY <1>0, <1>4, <2>1 DEF Close, WaitBegin, BeginShutdown, streamVars, clientVars, ApiInv
  <1>5. CASE WaitTop
    BY <1>5 DEF WaitTop, WaitReturn, WaitGoto, BeginShutdown, Subscribed
  <1>6. CASE WaitCheck
    BY <1>6 DEF WaitCheck, WaitReturn, WaitGoto, BeginShutdown, Subscribed
  <1>7. CASE WaitErrorChanged
    BY <1>7 DEF WaitErrorChanged, WaitReturn, WaitGoto, BeginShutdown, Subscribed
  <1>8. CASE WaitTimeout
    BY <1>8 DEF WaitTimeout, WaitReturn, BeginShutdown
  <1>9. CASE WaitOffsetChanged
    BY <1>9 DEF WaitOffsetChanged, WaitGoto, Subscribed
  <1>10. CASE ShutdownSup
    BY <1>10 DEF ShutdownSup, Subscribed
  <1>11. CASE ShutdownCallbacks
    BY <1>11 DEF ShutdownCallbacks, Subscribed
  <1>12. ~Returned
    BY DEF Returned
  <1>13. CASE UNCHANGED apiVars
    BY <1>0, <1>13 DEF apiVars, Subscribed, ApiInv
  <1> QED BY <1>1, <1>2, <1>3, <1>4, <1>5, <1>6, <1>7, <1>8, <1>9, <1>10, <1>11, <1>12, <1>13, ApiFrame
          DEF ApiStep

\* The token is not cancelled under a close() that is still flushing.
LEMMA FlushingIsOpen ==
    ASSUME apiOp = "close", Subscribed, Subscribed', ~SignalShutdown, [Next]_vars
    PROVE  cancelled' = cancelled
  <1>1. ~Close /\ ~DropStream
    BY DEF Close, DropStream, Call, Subscribed
  <1>2. CASE WaitTop \/ WaitCheck \/ WaitErrorChanged \/ WaitTimeout
    BY <1>2 DEF WaitTop, WaitCheck, WaitErrorChanged, WaitTimeout, WaitReturn, WaitGoto,
                BeginShutdown, Subscribed, streamVars
  <1>3. ASSUME NEW e \in CreateErrors, SupCreateFail(e) PROVE cancelled' = cancelled
    BY <1>3 DEF SupCreateFail, streamVars
  <1>4. CASE SupClose
    BY <1>4 DEF SupClose
  <1>5. CASE UNCHANGED streamVars
    BY <1>5 DEF streamVars
  <1> QED BY <1>1, <1>2, <1>3, <1>4, <1>5, StreamFrame

\* A close() whose flush returned Ok leaves nothing untold.
LEMMA ClosingStep ==
    ASSUME LedgerInv, CallbackInv, [Next]_vars
    PROVE  ClosingInv'
  <1>0. /\ TypeInv /\ ControlInv /\ AcceptInv /\ HandlerInv /\ TellInv /\ ClosingInv
        /\ cbAborted \in BOOLEAN /\ cb \in {"none", "run", "done"}
    BY DEF LedgerInv, RecordInv, CallbackInv, TypeInv, TypeOK, UserTypes
  <1>1. /\ \A o : HasAck(Told, o) => HasAck(Told', o)
        /\ cbAborted => cbAborted'
        /\ cb # "run" => cb' # "run"
    BY <1>0, ToldGrows, HandlerMoves
  <1>2. ASSUME AcceptedTold, accepted' = accepted PROVE AcceptedTold'
    BY <1>1, <1>2 DEF AcceptedTold
  <1> SUFFICES ASSUME apiOp' = "close", api' # "idle" PROVE ClosingInv'
    <2>1. ApiInv'
      BY <1>0, ControlStep DEF ControlInv
    <2>2. api' = "idle" => apiOp' # "close"
      BY <2>1 DEF ApiInv
    <2>3. ASSUME apiOp' # "close" PROVE ClosingInv'
      BY <2>3 DEF ClosingInv
    <2> QED BY <2>2, <2>3
  <1>3. ASSUME apiOp = "close", api # "idle"
        PROVE  UNCHANGED <<client, lastOffset, accepted>> /\ ~SignalShutdown /\ ClientsIdle
    BY <1>0, <1>3, CloseIsAlone DEF ClosingInv
  <1>4. ASSUME ClientsIdle, client' = client PROVE ClientsIdle'
    BY <1>4 DEF ClientsIdle
  <1>5. Subscribed => api # "idle"
    BY DEF Subscribed
  <1>6. CASE api' = "returned" /\ apiRes' = "okAlreadyClosed" /\ ClientsIdle /\ client' = client
    BY <1>4, <1>6 DEF ClosingInv, Subscribed
  <1>7. CASE ClientsIdle /\ UNCHANGED <<client, lastOffset, accepted>>
             /\ api' = "shutdown" /\ lastOffset = -1
    <2>1. AcceptedTold
      <3>1. accepted \in Seq(Offsets)
        BY <1>0, FatePieces
      <3>2. ToSet(accepted) \subseteq Nat
        BY <3>1, ItemAt, StreamAssumptions DEF Offsets
      <3>3. \A o \in ToSet(accepted) : o <= -1
        BY <1>0, <1>7 DEF AcceptInv
      <3>4. \A o \in ToSet(accepted) : FALSE
        BY <3>2, <3>3
      <3> QED BY <3>4 DEF AcceptedTold
    <2> QED BY <1>2, <1>4, <1>7, <2>1 DEF ClosingInv, Subscribed
  <1>8. CASE /\ ClientsIdle /\ UNCHANGED <<client, lastOffset, accepted, cancelled>>
             /\ api' = "top" /\ ~cancelled /\ apiTarget' = lastOffset /\ apiRes' = "none"
    BY <1>4, <1>8 DEF ClosingInv, Subscribed
  <1>9. CASE /\ apiOp = "close" /\ Subscribed /\ Subscribed'
             /\ apiTarget' = apiTarget /\ apiRes' = apiRes
    <2>1. cancelled' = cancelled
      BY <1>3, <1>5, <1>9, FlushingIsOpen
    <2>2. api' # "returned"
      BY <1>9 DEF Subscribed
    <2> QED BY <1>0, <1>1, <1>2, <1>3, <1>4, <1>5, <1>9, <2>1, <2>2 DEF ClosingInv
  <1>10. CASE /\ apiOp = "close" /\ Subscribed /\ api' = "shutdown" /\ (apiRes' = "ok" => CaughtUp)
    <2>1. ASSUME apiRes' = "ok", WithCallback, ~cbAborted' PROVE AcceptedTold
      <3>1. ~cancelled /\ apiTarget = lastOffset /\ CaughtUp
        BY <1>0, <1>10, <2>1 DEF ClosingInv
      <3>2. AckedTold
        BY <1>0, <1>1, <2>1, <3>1 DEF HandlerInv, TellInv
      <3>3. \A o \in ToSet(accepted) : o <= lastReceived
        <4>1. lastReceived \in Int /\ lastOffset \in Int
          BY <1>0, StreamAssumptions DEF TypeInv, TypeOK, StateTypes, ClientTypes
        <4>2. accepted \in Seq(Offsets)
          BY <1>0, FatePieces
        <4>3. ToSet(accepted) \subseteq Int
          BY <4>2, ItemAt, StreamAssumptions DEF Offsets
        <4>4. lastOffset <= lastReceived
          BY <3>1, <4>1 DEF CaughtUp
        <4> QED BY <1>0, <4>1, <4>3, <4>4 DEF AcceptInv
      <3>4. ToSet(accepted) \subseteq Acked
        BY <3>3, AnnouncedIsAcked
      <3> QED BY <3>2, <3>4 DEF AckedTold, AcceptedTold
    <2>2. ClientsIdle' /\ accepted' = accepted
      BY <1>3, <1>4, <1>5, <1>10
    <2> QED BY <1>2, <1>10, <2>1, <2>2 DEF ClosingInv, Subscribed
  <1>11. CASE /\ apiOp = "close" /\ api # "idle" /\ ~Subscribed /\ ~Subscribed' /\ apiRes' = apiRes
              /\ api' = "returned" => api = "returned" \/ cb' # "run"
    <2>1. ClientsIdle' /\ accepted' = accepted
      BY <1>3, <1>4, <1>11
    <2> QED BY <1>0, <1>1, <1>2, <1>11, <2>1 DEF ClosingInv
  <1> QED BY <1>0, <1>6, <1>7, <1>8, <1>9, <1>10, <1>11, CloseMoves

\* When close() returns Ok after its flush, the callback of every record has run,
\* unless the configured wait for callbacks ran out (close.rs:60-110,
\* callback_handler.rs:31): the flush saw every record acknowledged, the handler
\* was told of each acknowledgement, and it ends by itself only when it has run
\* everything it was told.
THEOREM CloseWaitsForCallbacks ==
    ASSUME PromptAbort
    PROVE  Spec => []CloseRunsCallbacks
  <1>1. Init => LedgerInv /\ CallbackInv
    <2> SUFFICES ASSUME Init PROVE CallbackInv
      BY LedgerInvInit
    <2>1. HandlerInv
      BY StreamAssumptions DEF Init, HandlerInv
    <2>2. AckedTold
      BY NoItems DEF Init, AckedTold, Acked
    <2>3. TellInv /\ ClosingInv
      BY <2>2 DEF Init, TellInv, ClosingInv
    <2> QED BY <2>1, <2>3 DEF CallbackInv
  <1>2. LedgerInv /\ CallbackInv /\ [Next]_vars => (LedgerInv /\ CallbackInv)'
    <2> SUFFICES ASSUME LedgerInv, CallbackInv, [Next]_vars PROVE (LedgerInv /\ CallbackInv)'
      OBVIOUS
    <2>1. HandlerInv' /\ TellInv'
      BY HandlerStep DEF LedgerInv, CallbackInv
    <2> QED BY <2>1, LedgerInvStep, ClosingStep DEF CallbackInv
  <1>3. LedgerInv /\ CallbackInv => CloseRunsCallbacks
    <2> SUFFICES ASSUME LedgerInv, CallbackInv, api = "returned", apiOp = "close", apiRes = "ok",
                        WithCallback, ~cbAborted
                 PROVE  \A o \in ToSet(accepted) : HasAck(cbLog, o)
      BY DEF CloseRunsCallbacks, HasAck
    <2>1. AcceptedTold /\ cbQueue = <<>>
      BY DEF CallbackInv, ClosingInv, HandlerInv, LedgerInv, TypeInv, TypeOK, UserTypes
    <2>2. cbLog \in Seq(Message)
      BY DEF LedgerInv, TypeInv, TypeOK, UserTypes, Message
    <2>3. Told = cbLog
      BY <2>1, <2>2, ConcatEmptySeq DEF Told
    <2> QED BY <2>1, <2>3 DEF AcceptedTold
  <1> QED BY <1>1, <1>2, <1>3, PTL DEF Spec
==============================================================================
