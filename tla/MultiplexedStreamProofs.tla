------------------------ MODULE MultiplexedStreamProofs ------------------------
(***************************************************************************)
(* TLAPS proofs about MultiplexedStream, for every number of callers,      *)
(* sub-streams and calls.  A MessageId leads back to the record it was     *)
(* made for; success means acknowledged; get_unacked_batches is complete.  *)
(*                                                                         *)
(* The inductive invariant has four parts:                                 *)
(*   TypeInv     types, and the counting that bounds the offsets           *)
(*   SubInv      the records of a sub-stream, in the order of their fates  *)
(*   ReportInv   nothing is ingested once get_unacked_batches collects     *)
(*   WaitInv     what a successful wait rests on                           *)
(***************************************************************************)
EXTENDS MultiplexedStream, SequenceFacts, FiniteSetTheorems, TLAPS

------------------------------------------------------------------------------
(* MessageId *)

\* Division undoes the shift: what is left below the divisor does not matter.
LEMMA DivOfSum ==
    ASSUME NEW m \in Nat \ {0}, NEW q \in Int, NEW r \in 0 .. m - 1
    PROVE  /\ ((q * m) + r) \div m = q
           /\ ((q * m) + r) % m = r
<1> DEFINE x == (q * m) + r
<1>1. x \in Int /\ x = m * (x \div m) + (x % m) /\ x % m \in 0 .. m - 1 /\ x \div m \in Int
  BY Z3
<1>2. x \div m = q
  BY <1>1, Z3
<1>3. x % m = r
  BY <1>1, <1>2, Z3
<1> QED BY <1>2, <1>3

\* The fields packed by MessageId::new fit the word.
LEMMA PackedInRange ==
    ASSUME NEW i \in 0 .. MaxStreams - 1, NEW o \in 0 .. OffsetSpan - 1
    PROVE  (i * OffsetSpan) + o \in 0 .. Words - 1
<1>1. i * OffsetSpan >= 0 /\ i * OffsetSpan \in Int
  BY MessageIdAssumption, Z3
<1>2. i * OffsetSpan <= (MaxStreams - 1) * OffsetSpan
  BY MessageIdAssumption, Z3
<1>3. (MaxStreams - 1) * OffsetSpan = Words - OffsetSpan /\ Words \in Int
  BY MessageIdAssumption, Z3 DEF Words
<1> QED BY <1>1, <1>2, <1>3, MessageIdAssumption, Z3

\* Reading the signed word as an unsigned one gives the packed fields back.
LEMMA SignedUnsigned ==
    ASSUME NEW u \in 0 .. Words - 1, Words \in Nat
    PROVE  Unsigned(Signed(u)) = u
BY Z3 DEF Signed, Unsigned

\* stream_index() and sub_offset() of an id made by MessageId::new(i, o) return
\* i and o, for every index and every offset the word has room for; the sign bit
\* that a large index sets does not get in the way.
THEOREM RoundTrip ==
    ASSUME NEW i \in 0 .. MaxStreams - 1, NEW o \in 0 .. OffsetSpan - 1
    PROVE  /\ StreamIndex(New(i, o)) = i
           /\ SubOffset(New(i, o)) = o
<1> DEFINE u == (i * OffsetSpan) + o
<1>1. u \in 0 .. Words - 1 /\ Words \in Nat
  BY PackedInRange, MessageIdAssumption, Z3 DEF Words
<1>2. o % OffsetSpan = o
  <2>1. (0 * OffsetSpan) + o = o
    BY MessageIdAssumption, Z3
  <2> QED BY <2>1, DivOfSum, MessageIdAssumption, Z3
<1>3. New(i, o) = Signed(u)
  BY <1>2 DEF New
<1>4. StreamIndex(New(i, o)) = i
  <2>1. Unsigned(New(i, o)) = u
    BY <1>1, <1>3, SignedUnsigned
  <2>2. u \div OffsetSpan = i
    BY DivOfSum, MessageIdAssumption, Z3
  <2> QED BY <2>1, <2>2 DEF StreamIndex
<1>5. SubOffset(New(i, o)) = o
  <2>1. CASE 2 * u >= Words
    <3>1. Signed(u) = u - Words
      BY <2>1 DEF Signed
    <3>2. u - Words = ((i - MaxStreams) * OffsetSpan) + o
      BY MessageIdAssumption, Z3 DEF Words
    <3>3. (((i - MaxStreams) * OffsetSpan) + o) % OffsetSpan = o
      BY DivOfSum, MessageIdAssumption, Z3
    <3> QED BY <1>3, <3>1, <3>2, <3>3 DEF SubOffset
  <2>2. CASE ~(2 * u >= Words)
    <3>1. Signed(u) = u
      BY <2>2 DEF Signed
    <3>2. u % OffsetSpan = o
      BY DivOfSum, MessageIdAssumption, Z3
    <3> QED BY <1>3, <3>1, <3>2 DEF SubOffset
  <2> QED BY <2>1, <2>2
<1> QED BY <1>4, <1>5

\* Ids of different records differ, on one sub-stream or across sub-streams.
THEOREM IdsDistinct ==
    ASSUME NEW i \in 0 .. MaxStreams - 1, NEW o \in 0 .. OffsetSpan - 1,
           NEW j \in 0 .. MaxStreams - 1, NEW p \in 0 .. OffsetSpan - 1,
           New(i, o) = New(j, p)
    PROVE  i = j /\ o = p
<1>1. StreamIndex(New(i, o)) = i /\ SubOffset(New(i, o)) = o
  BY RoundTrip
<1>2. StreamIndex(New(j, p)) = j /\ SubOffset(New(j, p)) = p
  BY RoundTrip
<1> QED BY <1>1, <1>2

------------------------------------------------------------------------------
(* The inductive invariant *)

Offs == 0 .. MaxCalls - 1

\* Callers that will draw an offset from sub-stream i.
Drawing(i) == {k \in Callers : pc[k] \in {"capacity", "ingest", "checked"} /\ at[k] = i}

\* Every offset was drawn by a call that was counted, one call at a time adds to a
\* sub-stream, and a call that ingests or closes a sub-stream has one.
CallInv ==
    /\ \A i \in Streams : last[i] + 1 + Cardinality(Drawing(i)) <= counter
    /\ \A j, k \in Callers : pc[j] = "adding" /\ pc[k] = "adding" /\ at[j] = at[k] => j = k
    /\ \A k \in Callers :
          pc[k] \in {"capacity", "ingest", "checked", "adding", "subFlush"} => at[k] \in Streams
    /\ \A k \in Callers : pc[k] = "adding" => last[at[k]] >= 0

TypeInv == TypeOK /\ CallInv

\* No call ingests and none will.
Quiet ==
    /\ muxClosed
    /\ \A k \in Callers : pc[k] \notin {"capacity", "ingest", "checked", "adding"}

\* The records of a sub-stream: acknowledged, set aside, waiting.
All(i) == acked[i] \o (failed[i] \o zone[i])

\* The records of sub-stream i are those an id was returned for, in the order of
\* their offsets, below the one that is being added; none is acknowledged after one
\* was set aside.
SubInv(i) ==
    /\ Increasing(All(i))
    /\ ToSet(All(i)) = Issued(i)
    /\ \A o \in Issued(i) : o <= last[i]
    /\ \A o \in Issued(i), k \in Callers : pc[k] = "adding" /\ at[k] = i => o < last[i]
    /\ failed[i] # <<>> => task[i] = "ended" \/ (zone[i] = <<>> /\ Quiet)

\* While the stream is closed and collected nothing is ingested, and what was
\* collected from a sub-stream is still what it has set aside.
ReportInv ==
    /\ \A k \in Callers :
          pc[k] \in {"closeFlush", "closing", "subFlush", "collect"} => Quiet
    /\ report # {} => Quiet
    /\ \A r \in report : \E i \in Streams : r = <<i, failed[i]>> /\ zone[i] = <<>>

\* A wait succeeds when the last acknowledged offset has reached its goal.
WaitInv ==
    \A k \in Callers, i \in Streams : wait[k][i] = "ok" => goal[k][i] <= Received(i)

MuxInv == TypeInv /\ (\A i \in Streams : SubInv(i)) /\ ReportInv /\ WaitInv

------------------------------------------------------------------------------
(* Types *)

Phases == {"idle", "capacity", "ingest", "checked", "adding", "flush", "poison",
           "closeFlush", "closing", "subFlush", "collect", "gone"}

MuxTypes == counter \in 0 .. MaxCalls /\ muxClosed \in BOOLEAN /\ closeOp \in {"none", "close", "unacked"}

SubTypes ==
    /\ last \in [Streams -> -1 .. MaxCalls - 1]
    /\ zone \in [Streams -> Seq(Offs)] /\ acked \in [Streams -> Seq(Offs)]
    /\ failed \in [Streams -> Seq(Offs)]
    /\ \A i \in Streams : Len(zone[i]) <= MaxInflight
    /\ closed \in [Streams -> BOOLEAN] /\ cancelled \in [Streams -> BOOLEAN]
    /\ task \in [Streams -> {"run", "failing", "ended"}]

CallTypes ==
    /\ pc \in [Callers -> Phases] /\ at \in [Callers -> 0 .. NumStreams]
    /\ goal \in [Callers -> [Streams -> -1 .. MaxCalls - 1]]
    /\ wait \in [Callers -> [Streams -> {"none", "wait", "ok", "err"}]]

IdTypes == \A id \in issued : StreamIndex(id) \in Streams /\ SubOffset(id) \in Offs

\* TypeOK by groups of variables.
LEMMA TypeGroups ==
    TypeOK <=> MuxTypes /\ SubTypes /\ CallTypes /\ IdTypes
  BY DEF TypeOK, MuxTypes, SubTypes, CallTypes, IdTypes, Phases, Offs

\* The bounds are numbers.
LEMMA Bounds ==
    /\ NumStreams \in Nat /\ NumStreams >= 1 /\ NumStreams <= MaxStreams /\ MaxStreams \in Nat
    /\ MaxCalls \in Nat /\ MaxInflight \in Nat /\ OffsetSpan \in Nat /\ MaxCalls <= OffsetSpan
    /\ Streams \subseteq Nat /\ \A i \in Streams : i \in 0 .. NumStreams
  BY MultiplexedAssumptions, MessageIdAssumption DEF Streams

\* The calls that draw an offset change it or the count; every other step only takes
\* callers out of the states in which they ingest.
LEMMA CallerMoves ==
    ASSUME TypeInv, [Next]_vars
    PROVE  \/ \E k \in Callers : IngestStart(k)
           \/ \E k \in Callers : DrawOffset(k)
           \/ /\ UNCHANGED <<last, counter>>
              /\ \A k \in Callers :
                    /\ pc'[k] \in {"capacity", "ingest", "checked"} =>
                          pc[k] \in {"capacity", "ingest", "checked"} /\ at'[k] = at[k]
                    /\ pc'[k] = "adding" => pc[k] = "adding" /\ at'[k] = at[k]
                    /\ pc'[k] = "subFlush" =>
                          at'[k] \in Streams \/ (pc[k] = "subFlush" /\ at'[k] = at[k])
  <1> DEFINE Kept == /\ UNCHANGED <<last, counter>>
                     /\ \A k \in Callers :
                           /\ pc'[k] \in {"capacity", "ingest", "checked"} =>
                                 pc[k] \in {"capacity", "ingest", "checked"} /\ at'[k] = at[k]
                           /\ pc'[k] = "adding" => pc[k] = "adding" /\ at'[k] = at[k]
                           /\ pc'[k] = "subFlush" =>
                                 at'[k] \in Streams \/ (pc[k] = "subFlush" /\ at'[k] = at[k])
  <1>0. pc \in [Callers -> Phases] /\ at \in [Callers -> 0 .. NumStreams] /\ NumStreams \in Nat
    BY TypeGroups, Bounds DEF TypeInv, CallTypes
  <1>1. ASSUME NEW i \in Streams, SubStep(i) \/ SubFail(i) PROVE Kept
    BY <1>1 DEF SubStep, SubAck, SubDrain, SubEnd, SubFail, muxVars, callVars
  <1>2. ASSUME NEW k \in Callers, Flush(k) \/ \E id \in issued : WaitForMessageId(k, id) PROVE Kept
    BY <1>0, <1>2 DEF Flush, WaitForMessageId, WaitFor, muxVars, subVars
  <1>3. ASSUME NEW k \in Callers, \E op \in {"close", "unacked"} : Close(k, op) PROVE Kept
    BY <1>0, <1>3 DEF Close, WaitFor, subVars
  <1>4. ASSUME NEW k \in Callers, Cancel(k) PROVE Kept
    BY <1>0, <1>4 DEF Cancel, Return, muxVars, subVars
  <1>5. ASSUME NEW k \in Callers, NEW i \in Streams, WaitTimeout(k, i) \/ WaitEnds(k, i) PROVE Kept
    BY <1>5 DEF WaitTimeout, WaitEnds, Resolve, muxVars, subVars
  <1>6. ASSUME NEW k \in Callers, WaitForCapacity(k) \/ IngestOffset(k) \/ FlushDone(k) PROVE Kept
    BY <1>0, <1>6 DEF WaitForCapacity, IngestOffset, FlushDone, Poison, WaitFor, Return, subVars
  <1>7. ASSUME NEW k \in Callers, Enqueue(k) PROVE Kept
    BY <1>0, <1>7 DEF Enqueue, Return, muxVars
  <1>8. ASSUME NEW k \in Callers, PoisonSignal(k) PROVE Kept
    BY <1>0, <1>8 DEF PoisonSignal, Return, muxVars
  <1>9. ASSUME NEW k \in Callers, CloseSub(k) PROVE Kept
    BY <1>0, <1>9 DEF CloseSub, WaitFor, muxVars, subVars, Streams
  <1>10. ASSUME NEW k \in Callers, CloseSubDone(k) PROVE Kept
    BY <1>0, <1>10 DEF CloseSubDone, muxVars
  <1>11. ASSUME NEW k \in Callers, CloseDone(k) \/ CollectDone(k) PROVE Kept
    BY <1>0, <1>11 DEF CloseDone, CollectDone, Return, subVars
  <1>12. ASSUME NEW k \in Callers, Collect(k) PROVE Kept
    BY <1>0, <1>12 DEF Collect, muxVars
  <1>13. CASE DropMux
    BY <1>0, <1>13 DEF DropMux
  <1>14. CASE Terminated \/ UNCHANGED vars
    BY <1>14 DEF Terminated, vars, muxVars, subVars, callVars
  <1> QED
    BY <1>1, <1>2, <1>3, <1>4, <1>5, <1>6, <1>7, <1>8, <1>9, <1>10, <1>11, <1>12, <1>13, <1>14
    DEF Next, CallStep

\* Offsets are drawn by counted calls, one at a time.
LEMMA CallStepInv ==
    ASSUME TypeInv, [Next]_vars
    PROVE  CallInv' /\ counter' \in 0 .. MaxCalls /\ \A i \in Streams : last'[i] \in -1 .. MaxCalls - 1
  <1>0. /\ pc \in [Callers -> Phases] /\ at \in [Callers -> 0 .. NumStreams] /\ NumStreams \in Nat
        /\ NumStreams >= 1
        /\ counter \in 0 .. MaxCalls /\ MaxCalls \in Nat /\ last \in [Streams -> -1 .. MaxCalls - 1]
        /\ CallInv
    BY TypeGroups, Bounds DEF TypeInv, CallTypes, MuxTypes, SubTypes
  <1>1. ASSUME NEW i \in Streams
        PROVE  /\ IsFiniteSet(Drawing(i)) /\ IsFiniteSet(Drawing(i)')
               /\ Cardinality(Drawing(i)) \in Nat /\ Cardinality(Drawing(i)') \in Nat
               /\ last[i] \in Int /\ last[i] + 1 + Cardinality(Drawing(i)) <= counter
    <2>1. Drawing(i) \subseteq Callers /\ Drawing(i)' \subseteq Callers
      BY DEF Drawing
    <2>2. IsFiniteSet(Drawing(i)) /\ IsFiniteSet(Drawing(i)')
      BY <2>1, MultiplexedAssumptions, FS_Subset
    <2> QED BY <1>0, <2>2, FS_CardinalityType DEF CallInv
  <1>2. ASSUME NEW k \in Callers, IngestStart(k)
        PROVE  CallInv' /\ counter' \in 0 .. MaxCalls /\ last' = last
    <2> DEFINE n == counter % NumStreams
    <2>1. /\ pc[k] = "idle" /\ counter < MaxCalls /\ counter' = counter + 1 /\ last' = last
          /\ pc' = [pc EXCEPT ![k] = "capacity"] /\ at' = [at EXCEPT ![k] = n]
      BY <1>2 DEF IngestStart, subVars
    <2>2. n \in Streams
      BY <1>0, Z3 DEF Streams
    <2> HIDE DEF n
    <2>3. ASSUME NEW i \in Streams PROVE last'[i] + 1 + Cardinality(Drawing(i)') <= counter'
      <3>1. Drawing(i)' = Drawing(i) \/ Drawing(i)' = Drawing(i) \cup {k}
        BY <1>0, <2>1 DEF Drawing
      <3>2. k \notin Drawing(i)
        BY <2>1 DEF Drawing
      <3>3. Cardinality(Drawing(i) \cup {k}) = Cardinality(Drawing(i)) + 1
        BY <1>1, <3>2, FS_AddElement
      <3>4. Cardinality(Drawing(i)') <= Cardinality(Drawing(i)) + 1
        <4>1. \/ Cardinality(Drawing(i)') = Cardinality(Drawing(i))
              \/ Cardinality(Drawing(i)') = Cardinality(Drawing(i)) + 1
          BY <3>1, <3>3
        <4>2. Cardinality(Drawing(i)) \in Nat
          BY <1>1
        <4> QED BY <4>1, <4>2
      <3>5. counter \in Int
        BY <1>0
      <3> QED BY <1>1, <2>1, <3>4, <3>5
    <2>4. counter' \in 0 .. MaxCalls
      BY <1>0, <2>1
    <2> QED BY <1>0, <2>1, <2>2, <2>3, <2>4 DEF CallInv
  <1>3. ASSUME NEW k \in Callers, DrawOffset(k)
        PROVE  CallInv' /\ counter' = counter /\ last' \in [Streams -> Int]
    <2>1. /\ pc[k] = "checked" /\ counter' = counter /\ last' = [last EXCEPT ![at[k]] = @ + 1]
          /\ pc' = [pc EXCEPT ![k] = "adding"] /\ at' = at /\ at[k] \in Streams
          /\ \A j \in Callers : ~(pc[j] = "adding" /\ at[j] = at[k])
      BY <1>0, <1>3 DEF DrawOffset, muxVars, CallInv
    <2>2. ASSUME NEW i \in Streams PROVE last'[i] + 1 + Cardinality(Drawing(i)') <= counter'
      <3>1. CASE i = at[k]
        <4>1. Drawing(i)' = Drawing(i) \ {k} /\ k \in Drawing(i) /\ last'[i] = last[i] + 1
          BY <1>0, <2>1, <3>1 DEF Drawing
        <4>2. Cardinality(Drawing(i)') = Cardinality(Drawing(i)) - 1
          BY <1>1, <4>1, FS_RemoveElement
        <4>3. counter \in Int
          BY <1>0
        <4> QED BY <1>1, <2>1, <4>1, <4>2, <4>3
      <3>2. CASE i # at[k]
        <4>1. Drawing(i)' = Drawing(i) /\ last'[i] = last[i]
          BY <1>0, <2>1, <3>2 DEF Drawing
        <4> QED BY <1>1, <2>1, <4>1
      <3> QED BY <3>1, <3>2
    <2>3. last' \in [Streams -> Int] /\ \A i \in Streams : last'[i] >= last[i]
      <3>1. last \in [Streams -> Int]
        BY <1>0
      <3> QED BY <2>1, <3>1
    <2>4. last'[at[k]] >= 0
      <3>1. last[at[k]] \in Int /\ last[at[k]] >= -1
        BY <1>0, <2>1
      <3> QED BY <1>0, <2>1, <3>1
    <2>5. \A j \in Callers : pc'[j] = "adding" => last'[at'[j]] >= 0
      <3>1. ASSUME NEW j \in Callers, pc[j] = "adding" PROVE last'[at[j]] >= 0
        <4>1. at[j] \in Streams /\ last[at[j]] >= 0 /\ last[at[j]] \in Int /\ last'[at[j]] \in Int
          BY <1>0, <2>3, <3>1 DEF CallInv
        <4> QED BY <2>3, <4>1
      <3> QED BY <1>0, <2>1, <2>4, <3>1
    <2> QED BY <1>0, <2>1, <2>2, <2>3, <2>5 DEF CallInv
  <1>4. ASSUME UNCHANGED <<last, counter>>,
               \A k \in Callers :
                    /\ pc'[k] \in {"capacity", "ingest", "checked"} =>
                          pc[k] \in {"capacity", "ingest", "checked"} /\ at'[k] = at[k]
                    /\ pc'[k] = "adding" => pc[k] = "adding" /\ at'[k] = at[k]
                    /\ pc'[k] = "subFlush" =>
                          at'[k] \in Streams \/ (pc[k] = "subFlush" /\ at'[k] = at[k])
        PROVE  CallInv'
    <2>1. ASSUME NEW i \in Streams PROVE last'[i] + 1 + Cardinality(Drawing(i)') <= counter'
      <3>1. Drawing(i)' \subseteq Drawing(i)
        BY <1>4 DEF Drawing
      <3>2. Cardinality(Drawing(i)') <= Cardinality(Drawing(i))
        BY <1>1, <3>1, FS_Subset
      <3>3. counter \in Int
        BY <1>0
      <3> QED BY <1>1, <1>4, <3>2, <3>3
    <2> QED BY <1>0, <1>4, <2>1 DEF CallInv
  <1>5. CallInv' /\ counter' \in 0 .. MaxCalls /\ (last' = last \/ last' \in [Streams -> Int])
    BY <1>0, <1>2, <1>3, <1>4, CallerMoves
  <1>6. ASSUME NEW i \in Streams PROVE last'[i] \in -1 .. MaxCalls - 1
    <2>1. /\ Cardinality(Drawing(i)') \in Nat /\ last'[i] \in Int
          /\ last'[i] + 1 + Cardinality(Drawing(i)') <= counter'
      BY <1>0, <1>1, <1>5 DEF CallInv
    <2>2. counter' \in Int /\ counter' <= MaxCalls
      BY <1>5
    <2>3. last'[i] >= -1
      <3>1. last'[i] = last[i] \/ (last'[i] = last[i] + 1)
        BY <1>0, CallerMoves DEF IngestStart, DrawOffset, subVars
      <3> QED BY <1>0, <3>1
    <2> QED BY <1>0, <2>1, <2>2, <2>3
  <1> QED BY <1>5, <1>6

\* A call that returns, or that starts to wait for offsets.
LEMMA WaitTypes ==
    ASSUME CallTypes, NEW k \in Callers
    PROVE  /\ Return(k) => CallTypes'
           /\ \A v \in Phases, goals \in [Streams -> -1 .. MaxCalls - 1] :
                 WaitFor(k, v, goals) /\ UNCHANGED at => CallTypes'
  <1>1. NoGoal \in [Streams -> -1 .. MaxCalls - 1]
    BY Bounds DEF NoGoal
  <1>2. NoWait \in [Streams -> {"none", "wait", "ok", "err"}] /\ 0 \in 0 .. NumStreams
    BY Bounds DEF NoWait
  <1>3. Return(k) => CallTypes'
    BY <1>1, <1>2 DEF Return, CallTypes, Phases
  <1>4. ASSUME NEW v \in Phases, NEW goals \in [Streams -> -1 .. MaxCalls - 1],
               WaitFor(k, v, goals), UNCHANGED at
        PROVE  CallTypes'
    BY <1>4 DEF WaitFor, CallTypes
  <1> QED BY <1>3, <1>4

\* The callers' own variables.
LEMMA CallTypesStep ==
    ASSUME TypeInv, [Next]_vars
    PROVE  CallTypes'
  <1>0. CallTypes /\ SubTypes /\ IdTypes /\ CallInv /\ MuxTypes
    BY TypeGroups DEF TypeInv
  <1>1. last \in [Streams -> -1 .. MaxCalls - 1] /\ {"poison", "flush", "closeFlush", "subFlush"} \subseteq Phases
    BY <1>0 DEF SubTypes, Phases
  <1>2. ASSUME NEW k \in Callers, Poison(k) PROVE CallTypes'
    BY <1>0, <1>1, <1>2, WaitTypes DEF Poison
  <1>3. ASSUME NEW k \in Callers,
               Cancel(k) \/ Enqueue(k) \/ PoisonSignal(k) \/ CollectDone(k)
        PROVE CallTypes'
    BY <1>0, <1>3, WaitTypes DEF Cancel, Enqueue, PoisonSignal, CollectDone
  <1>4. ASSUME NEW k \in Callers, WaitForCapacity(k) \/ IngestOffset(k) \/ FlushDone(k)
        PROVE  CallTypes'
    <2>1. \/ Return(k) \/ Poison(k)
          \/ \E v \in {"ingest", "checked"} : pc' = [pc EXCEPT ![k] = v] /\ UNCHANGED <<at, goal, wait>>
      BY <1>4 DEF WaitForCapacity, IngestOffset, FlushDone
    <2>2. ASSUME NEW v \in {"ingest", "checked"}, pc' = [pc EXCEPT ![k] = v],
                 UNCHANGED <<at, goal, wait>>
          PROVE  CallTypes'
      BY <1>0, <2>2 DEF CallTypes, Phases
    <2> QED BY <1>0, <1>2, <2>1, <2>2, WaitTypes
  <1>5. ASSUME NEW k \in Callers, IngestStart(k) PROVE CallTypes'
    <2>1. counter % NumStreams \in 0 .. NumStreams
      <3>1. counter \in Nat /\ NumStreams \in Nat /\ NumStreams >= 1
        BY <1>0, Bounds DEF MuxTypes
      <3> QED BY <3>1, Z3
    <2>2. at' = [at EXCEPT ![k] = counter % NumStreams] /\ pc' = [pc EXCEPT ![k] = "capacity"]
          /\ UNCHANGED <<goal, wait>>
      BY <1>5 DEF IngestStart
    <2> QED BY <1>0, <2>1, <2>2 DEF CallTypes, Phases
  <1>6. ASSUME NEW k \in Callers, DrawOffset(k) PROVE CallTypes'
    BY <1>0, <1>6 DEF DrawOffset, CallTypes, Phases
  <1>7. ASSUME NEW k \in Callers, Flush(k) \/ \E op \in {"close", "unacked"} : Close(k, op)
        PROVE  CallTypes'
    BY <1>0, <1>1, <1>7, WaitTypes DEF Flush, Close
  <1>8. ASSUME NEW k \in Callers, NEW id \in issued, WaitForMessageId(k, id) PROVE CallTypes'
    <2>1. [NoGoal EXCEPT ![StreamIndex(id)] = SubOffset(id)] \in [Streams -> -1 .. MaxCalls - 1]
      BY <1>0, Bounds DEF IdTypes, Offs, NoGoal
    <2> QED BY <1>0, <1>1, <1>8, <2>1, WaitTypes DEF WaitForMessageId
  <1>9. ASSUME NEW k \in Callers, NEW i \in Streams, WaitTimeout(k, i) \/ WaitEnds(k, i)
        PROVE  CallTypes'
    <2>1. \E res \in {"ok", "err"} : wait' = [wait EXCEPT ![k][i] = res] /\ UNCHANGED <<pc, at, goal>>
      BY <1>9 DEF WaitTimeout, WaitEnds, Resolve
    <2> QED BY <1>0, <2>1 DEF CallTypes
  <1>10. ASSUME NEW k \in Callers, CloseSub(k) PROVE CallTypes'
    <2>1. at[k] \in Streams /\ at[k] + 1 \in 0 .. NumStreams
      BY <1>0, <1>10, Bounds DEF CloseSub, CallTypes, Streams
    <2>2. [NoGoal EXCEPT ![at[k]] = last[at[k]]] \in [Streams -> -1 .. MaxCalls - 1]
      <3>1. last[at[k]] \in -1 .. MaxCalls - 1
        BY <1>1, <2>1
      <3>2. NoGoal \in [Streams -> -1 .. MaxCalls - 1]
        BY Bounds DEF NoGoal
      <3> QED BY <3>1, <3>2
    <2>3. CASE closed[at[k]]
      BY <1>0, <1>10, <2>1, <2>3 DEF CloseSub, CallTypes, Phases
    <2>4. CASE ~closed[at[k]]
      BY <1>0, <1>1, <1>10, <2>2, <2>4, WaitTypes DEF CloseSub
    <2> QED BY <2>3, <2>4
  <1>11. ASSUME NEW k \in Callers, CloseSubDone(k) PROVE CallTypes'
    <2>1. at[k] + 1 \in 0 .. NumStreams
      BY <1>0, <1>11, Bounds DEF CloseSubDone, CallInv, Streams
    <2> QED BY <1>0, <1>11, <2>1 DEF CloseSubDone, CallTypes, Phases
  <1>12. ASSUME NEW k \in Callers, CloseDone(k) PROVE CallTypes'
    <2>1. CASE closeOp = "close"
      BY <1>0, <1>12, <2>1, WaitTypes DEF CloseDone
    <2>2. CASE closeOp # "close"
      BY SMTT(60), <1>0, <1>12, <2>2, Bounds DEF CloseDone, CallTypes, Phases
    <2> QED BY <2>1, <2>2
  <1>13. ASSUME NEW k \in Callers, Collect(k) PROVE CallTypes'
    <2>1. at[k] + 1 \in 0 .. NumStreams
      BY <1>0, <1>13, Bounds DEF Collect, CallTypes
    <2> QED BY <1>0, <1>13, <2>1 DEF Collect, CallTypes
  <1>14. CASE DropMux
    BY <1>0, <1>14 DEF DropMux, CallTypes, Phases
  <1>15. ASSUME UNCHANGED callVars PROVE CallTypes'
    BY <1>0, <1>15 DEF callVars, CallTypes
  <1>16. ASSUME NEW i \in Streams, SubStep(i) \/ SubFail(i) PROVE UNCHANGED callVars
    BY <1>16 DEF SubStep, SubAck, SubDrain, SubEnd, SubFail
  <1>17. ASSUME Terminated \/ UNCHANGED vars PROVE UNCHANGED callVars
    BY <1>17 DEF Terminated, vars
  <1> QED
    BY <1>3, <1>4, <1>5, <1>6, <1>7, <1>8, <1>9, <1>10, <1>11, <1>12, <1>13, <1>14, <1>15,
       <1>16, <1>17
    DEF Next, CallStep

------------------------------------------------------------------------------
(* Records *)

\* Where records move: one step of a sub-stream, of an ingest call or of the
\* collection, or nothing.
LEMMA RecordMoves ==
    ASSUME [Next]_vars
    PROVE  \/ \E i \in Streams : SubAck(i) \/ SubDrain(i)
           \/ \E k \in Callers : DrawOffset(k) \/ Enqueue(k) \/ Collect(k)
           \/ UNCHANGED <<last, zone, acked, failed, issued, report>>
  <1> DEFINE Same == UNCHANGED <<last, zone, acked, failed, issued, report>>
  <1>1. ASSUME NEW i \in Streams, SubEnd(i) \/ SubFail(i) PROVE Same
    BY <1>1 DEF SubEnd, SubFail, histVars
  <1>2. ASSUME NEW k \in Callers,
               \/ IngestStart(k) \/ Flush(k) \/ (\E id \in issued : WaitForMessageId(k, id))
               \/ \E op \in {"close", "unacked"} : Close(k, op)
        PROVE  Same
    BY <1>2 DEF IngestStart, Flush, WaitForMessageId, Close, subVars, histVars
  <1>3. ASSUME NEW k \in Callers, WaitForCapacity(k) \/ IngestOffset(k) \/ FlushDone(k) \/ Cancel(k)
        PROVE  Same
    BY <1>3 DEF WaitForCapacity, IngestOffset, FlushDone, Cancel, subVars, histVars
  <1>4. ASSUME NEW k \in Callers, NEW i \in Streams, WaitEnds(k, i) \/ WaitTimeout(k, i) PROVE Same
    BY <1>4 DEF WaitEnds, WaitTimeout, Resolve, subVars, histVars
  <1>5. ASSUME NEW k \in Callers, PoisonSignal(k) \/ CloseSub(k) \/ CloseSubDone(k) PROVE Same
    BY <1>5 DEF PoisonSignal, CloseSub, CloseSubDone, subVars, histVars
  <1>6. ASSUME NEW k \in Callers, CloseDone(k) \/ CollectDone(k) PROVE Same
    BY <1>6 DEF CloseDone, CollectDone, subVars, histVars
  <1>7. ASSUME DropMux \/ Terminated \/ UNCHANGED vars PROVE Same
    BY <1>7 DEF DropMux, Terminated, vars, subVars, histVars
  <1> HIDE DEF Same
  <1>8. \/ \E i \in Streams : SubAck(i) \/ SubDrain(i)
        \/ \E k \in Callers : DrawOffset(k) \/ Enqueue(k) \/ Collect(k)
        \/ Same
    BY <1>1, <1>2, <1>3, <1>4, <1>5, <1>6, <1>7 DEF Next, SubStep, CallStep
  <1> QED BY <1>8 DEF Same

\* A sub-stream's task and its flags.
LEMMA FlagTypes ==
    ASSUME TypeInv, [Next]_vars
    PROVE  /\ closed' \in [Streams -> BOOLEAN] /\ cancelled' \in [Streams -> BOOLEAN]
           /\ task' \in [Streams -> {"run", "failing", "ended"}]
           /\ \A i \in Streams : task[i] = "ended" => task'[i] = "ended"
  <1>0. SubTypes /\ CallTypes /\ CallInv
    BY TypeGroups DEF TypeInv
  <1>1. ASSUME NEW i \in Streams, SubStep(i) \/ SubFail(i)
        PROVE  /\ closed' \in [Streams -> BOOLEAN] /\ cancelled' \in [Streams -> BOOLEAN]
               /\ task' \in [Streams -> {"run", "failing", "ended"}]
               /\ \A j \in Streams : task[j] = "ended" => task'[j] = "ended"
    BY <1>0, <1>1 DEF SubStep, SubAck, SubDrain, SubEnd, SubFail, SubTypes
  <1>2. ASSUME NEW k \in Callers, PoisonSignal(k) \/ CloseSubDone(k)
        PROVE  /\ closed' \in [Streams -> BOOLEAN] /\ cancelled' \in [Streams -> BOOLEAN]
               /\ task' \in [Streams -> {"run", "failing", "ended"}]
               /\ \A j \in Streams : task[j] = "ended" => task'[j] = "ended"
    BY <1>0, <1>2 DEF PoisonSignal, CloseSubDone, SubTypes
  <1>3. ASSUME DropMux
        PROVE  /\ closed' \in [Streams -> BOOLEAN] /\ cancelled' \in [Streams -> BOOLEAN]
               /\ task' \in [Streams -> {"run", "failing", "ended"}]
               /\ \A j \in Streams : task[j] = "ended" => task'[j] = "ended"
    BY <1>3 DEF DropMux
  <1>4. \/ \E i \in Streams : SubStep(i) \/ SubFail(i)
        \/ \E k \in Callers : PoisonSignal(k) \/ CloseSubDone(k)
        \/ DropMux
        \/ UNCHANGED <<closed, cancelled, task>>
    BY ZenonT(60) DEF Next, CallStep, IngestStart, Flush, WaitForMessageId, Close, DrawOffset, Enqueue,
           Collect, Cancel, WaitTimeout, WaitEnds, Resolve, WaitForCapacity, IngestOffset,
           FlushDone, CloseSub, CloseDone, CollectDone, Terminated, vars, subVars
  <1> QED BY <1>0, <1>1, <1>2, <1>3, <1>4 DEF SubTypes

\* The multiplexer's own variables; is_closed stays set.
LEMMA MuxTypesStep ==
    ASSUME TypeInv, [Next]_vars
    PROVE  muxClosed' \in BOOLEAN /\ closeOp' \in {"none", "close", "unacked"}
           /\ (muxClosed => muxClosed')
  <1>0. MuxTypes
    BY TypeGroups DEF TypeInv
  <1> DEFINE Kept == /\ muxClosed' = muxClosed \/ muxClosed' = TRUE
                     /\ closeOp' \in {closeOp, "none", "close", "unacked"}
  <1>1. ASSUME NEW i \in Streams, SubStep(i) \/ SubFail(i) PROVE Kept
    BY <1>1 DEF SubStep, SubAck, SubDrain, SubEnd, SubFail, muxVars
  <1>2. ASSUME NEW k \in Callers,
               \/ IngestStart(k) \/ Flush(k) \/ (\E id \in issued : WaitForMessageId(k, id))
               \/ \E op \in {"close", "unacked"} : Close(k, op)
        PROVE  Kept
    BY <1>2 DEF IngestStart, Flush, WaitForMessageId, Close, muxVars
  <1>3. ASSUME NEW k \in Callers, WaitForCapacity(k) \/ IngestOffset(k) \/ FlushDone(k) \/ Cancel(k)
        PROVE  Kept
    BY <1>3 DEF WaitForCapacity, IngestOffset, FlushDone, Poison, Cancel, muxVars
  <1>4. ASSUME NEW k \in Callers, NEW i \in Streams, WaitEnds(k, i) \/ WaitTimeout(k, i) PROVE Kept
    BY <1>4 DEF WaitEnds, WaitTimeout, Resolve, muxVars
  <1>5. ASSUME NEW k \in Callers, DrawOffset(k) \/ Enqueue(k) \/ Collect(k) PROVE Kept
    BY <1>5 DEF DrawOffset, Enqueue, Collect, muxVars
  <1>6. ASSUME NEW k \in Callers, PoisonSignal(k) \/ CloseSub(k) \/ CloseSubDone(k) PROVE Kept
    BY <1>6 DEF PoisonSignal, CloseSub, CloseSubDone, muxVars
  <1>7. ASSUME NEW k \in Callers, CloseDone(k) \/ CollectDone(k) PROVE Kept
    BY <1>7 DEF CloseDone, CollectDone
  <1>8. ASSUME DropMux \/ Terminated \/ UNCHANGED vars PROVE Kept
    BY <1>8 DEF DropMux, Terminated, vars, muxVars
  <1> HIDE DEF Kept
  <1>9. Kept
    BY <1>1, <1>2, <1>3, <1>4, <1>5, <1>6, <1>7, <1>8 DEF Next, CallStep
  <1>10. muxClosed \in BOOLEAN /\ closeOp \in {"none", "close", "unacked"}
    BY <1>0 DEF MuxTypes
  <1> QED BY <1>9, <1>10 DEF Kept

\* The id of the record being added leads back to the sub-stream and to its offset.
LEMMA NewId ==
    ASSUME TypeInv, NEW k \in Callers, pc[k] = "adding"
    PROVE  /\ at[k] \in Streams /\ last[at[k]] \in Offs
           /\ StreamIndex(New(at[k], last[at[k]])) = at[k]
           /\ SubOffset(New(at[k], last[at[k]])) = last[at[k]]
  <1>1. at[k] \in Streams /\ last[at[k]] >= 0 /\ last[at[k]] \in -1 .. MaxCalls - 1
    BY TypeGroups DEF TypeInv, CallInv, SubTypes
  <1>2. last[at[k]] \in Offs
    BY <1>1, Bounds DEF Offs
  <1>3. at[k] \in 0 .. MaxStreams - 1 /\ last[at[k]] \in 0 .. OffsetSpan - 1
    BY <1>1, <1>2, Bounds DEF Offs, Streams
  <1> QED BY <1>1, <1>2, <1>3, RoundTrip

\* Returning an id adds its record to those issued for its sub-stream, and to no other.
LEMMA IssuedMoves ==
    ASSUME TypeInv, NEW k \in Callers, Enqueue(k)
    PROVE  \A i \in Streams :
              Issued(i)' = IF i = at[k] THEN Issued(i) \cup {last[i]} ELSE Issued(i)
  <1> DEFINE m == New(at[k], last[at[k]])
  <1>1. pc[k] = "adding" /\ issued' = issued \cup {m}
    BY DEF Enqueue
  <1>2. StreamIndex(m) = at[k] /\ SubOffset(m) = last[at[k]]
    BY <1>1, NewId
  <1> HIDE DEF m
  <1>3. ASSUME NEW i \in Streams
        PROVE  Issued(i)' = IF i = at[k] THEN Issued(i) \cup {last[i]} ELSE Issued(i)
    <2>1. Issued(i)' = {SubOffset(id) : id \in {x \in issued \cup {m} : StreamIndex(x) = i}}
      BY <1>1 DEF Issued
    <2>2. CASE i = at[k]
      BY <1>2, <2>1, <2>2 DEF Issued
    <2>3. CASE i # at[k]
      BY <1>2, <2>1, <2>3 DEF Issued
    <2> QED BY <2>2, <2>3
  <1> QED BY <1>3

\* The sub-streams' queues and the ids.
LEMMA QueueTypes ==
    ASSUME TypeInv, [Next]_vars
    PROVE  /\ zone' \in [Streams -> Seq(Offs)] /\ acked' \in [Streams -> Seq(Offs)]
           /\ failed' \in [Streams -> Seq(Offs)]
           /\ \A i \in Streams : Len(zone'[i]) <= MaxInflight
           /\ IdTypes'
  <1>0. /\ zone \in [Streams -> Seq(Offs)] /\ acked \in [Streams -> Seq(Offs)]
        /\ failed \in [Streams -> Seq(Offs)] /\ \A i \in Streams : Len(zone[i]) <= MaxInflight
        /\ IdTypes /\ MaxInflight \in Nat
    BY TypeGroups, Bounds DEF TypeInv, SubTypes
  <1>e. <<>> \in Seq(Offs) /\ Len(<<>>) = 0
    BY EmptySeq
  <1>1. ASSUME NEW i \in Streams, SubAck(i)
        PROVE  /\ zone' \in [Streams -> Seq(Offs)] /\ acked' \in [Streams -> Seq(Offs)]
               /\ failed' \in [Streams -> Seq(Offs)]
               /\ \A j \in Streams : Len(zone'[j]) <= MaxInflight
               /\ IdTypes'
    <2>1. /\ zone[i] # <<>> /\ acked' = [acked EXCEPT ![i] = Append(acked[i], Head(zone[i]))]
          /\ zone' = [zone EXCEPT ![i] = Tail(zone[i])] /\ UNCHANGED <<failed, issued>>
      BY <1>1 DEF SubAck, histVars
    <2>2. zone[i] \in Seq(Offs) /\ acked[i] \in Seq(Offs) /\ Len(zone[i]) <= MaxInflight
      BY <1>0
    <2>3. Tail(zone[i]) \in Seq(Offs) /\ Head(zone[i]) \in Offs /\ Len(Tail(zone[i])) = Len(zone[i]) - 1
      BY <2>1, <2>2, HeadTailProperties
    <2>4. Append(acked[i], Head(zone[i])) \in Seq(Offs)
      BY <2>2, <2>3, AppendProperties
    <2>5. Len(Tail(zone[i])) <= MaxInflight
      BY <1>0, <2>2, <2>3, LenProperties
    <2> QED BY <1>0, <2>1, <2>3, <2>4, <2>5 DEF IdTypes
  <1>2. ASSUME NEW i \in Streams, failed' = [failed EXCEPT ![i] = failed[i] \o zone[i]],
               zone' = [zone EXCEPT ![i] = <<>>], UNCHANGED <<acked, issued>>
        PROVE  /\ zone' \in [Streams -> Seq(Offs)] /\ acked' \in [Streams -> Seq(Offs)]
               /\ failed' \in [Streams -> Seq(Offs)]
               /\ \A j \in Streams : Len(zone'[j]) <= MaxInflight
               /\ IdTypes'
    <2>1. failed[i] \o zone[i] \in Seq(Offs)
      BY <1>0, ConcatProperties
    <2> QED BY <1>0, <1>e, <1>2, <2>1 DEF IdTypes
  <1>3. ASSUME NEW k \in Callers, Enqueue(k)
        PROVE  /\ zone' \in [Streams -> Seq(Offs)] /\ acked' \in [Streams -> Seq(Offs)]
               /\ failed' \in [Streams -> Seq(Offs)]
               /\ \A j \in Streams : Len(zone'[j]) <= MaxInflight
               /\ IdTypes'
    <2> DEFINE i == at[k]
               m == New(at[k], last[at[k]])
    <2>1. /\ pc[k] = "adding" /\ Len(zone[i]) < MaxInflight
          /\ zone' = [zone EXCEPT ![i] = Append(zone[i], last[i])]
          /\ issued' = issued \cup {m} /\ UNCHANGED <<acked, failed>>
      BY <1>3 DEF Enqueue
    <2>2. i \in Streams /\ last[i] \in Offs /\ StreamIndex(m) \in Streams /\ SubOffset(m) \in Offs
      BY <2>1, NewId
    <2> HIDE DEF i, m
    <2>3. Append(zone[i], last[i]) \in Seq(Offs) /\ Len(Append(zone[i], last[i])) = Len(zone[i]) + 1
          /\ Len(zone[i]) \in Nat
      BY <1>0, <2>2, AppendProperties, LenProperties
    <2>4. Len(Append(zone[i], last[i])) <= MaxInflight
      BY <1>0, <2>1, <2>3
    <2>5. IdTypes'
      BY <1>0, <2>1, <2>2 DEF IdTypes
    <2> QED BY <1>0, <2>1, <2>2, <2>3, <2>4, <2>5
  <1>4. ASSUME NEW i \in Streams, SubDrain(i)
        PROVE  /\ failed' = [failed EXCEPT ![i] = failed[i] \o zone[i]]
               /\ zone' = [zone EXCEPT ![i] = <<>>] /\ UNCHANGED <<acked, issued>>
    BY <1>4 DEF SubDrain, histVars
  <1>5. ASSUME NEW k \in Callers, Collect(k)
        PROVE  /\ failed' = [failed EXCEPT ![at[k]] = failed[at[k]] \o zone[at[k]]]
               /\ zone' = [zone EXCEPT ![at[k]] = <<>>] /\ UNCHANGED <<acked, issued>>
               /\ at[k] \in Streams
    <2>1. at[k] \in 0 .. NumStreams
      BY TypeGroups DEF TypeInv, CallTypes
    <2> QED BY <1>5, <2>1, Bounds DEF Collect, Streams
  <1>6. ASSUME UNCHANGED <<zone, acked, failed, issued>>
        PROVE  /\ zone' \in [Streams -> Seq(Offs)] /\ acked' \in [Streams -> Seq(Offs)]
               /\ failed' \in [Streams -> Seq(Offs)]
               /\ \A j \in Streams : Len(zone'[j]) <= MaxInflight
               /\ IdTypes'
    BY <1>0, <1>6 DEF IdTypes
  <1>7. ASSUME NEW k \in Callers, DrawOffset(k) PROVE UNCHANGED <<zone, acked, failed, issued>>
    BY <1>7 DEF DrawOffset, histVars
  <1>8. CASE \E i \in Streams : SubAck(i) \/ SubDrain(i)
    BY <1>1, <1>2, <1>4, <1>8
  <1>9. CASE \E k \in Callers : DrawOffset(k) \/ Enqueue(k) \/ Collect(k)
    BY <1>2, <1>3, <1>5, <1>6, <1>7, <1>9
  <1> QED BY <1>6, <1>8, <1>9, RecordMoves

\* Every step keeps the types.
LEMMA TypeStep ==
    ASSUME TypeInv, [Next]_vars
    PROVE  TypeInv'
  <1>1. CallInv' /\ counter' \in 0 .. MaxCalls
    BY CallStepInv
  <1>2. last' \in [Streams -> -1 .. MaxCalls - 1]
    <2>1. last \in [Streams -> -1 .. MaxCalls - 1]
      BY TypeGroups DEF TypeInv, SubTypes
    <2>2. last' = last \/ \E k \in Callers : last' = [last EXCEPT ![at[k]] = @ + 1]
      BY CallerMoves DEF IngestStart, DrawOffset, subVars
    <2>3. last' = [i \in Streams |-> last'[i]]
      BY <2>1, <2>2
    <2> QED BY <2>3, CallStepInv
  <1>3. SubTypes' /\ IdTypes'
    BY <1>2, FlagTypes, QueueTypes DEF SubTypes
  <1>4. CallTypes' /\ MuxTypes'
    BY <1>1, CallTypesStep, MuxTypesStep DEF MuxTypes
  <1>5. (MuxTypes /\ SubTypes /\ CallTypes /\ IdTypes)' <=> TypeOK'
    BY DEF TypeOK, MuxTypes, SubTypes, CallTypes, IdTypes, Phases, Offs
  <1> QED BY <1>1, <1>3, <1>4, <1>5 DEF TypeInv

\* Once no call ingests, none will.
LEMMA QuietStable ==
    ASSUME TypeInv, [Next]_vars, Quiet
    PROVE  Quiet'
  <1>1. muxClosed'
    BY MuxTypesStep DEF Quiet
  <1>2. ~ \E k \in Callers : IngestStart(k) \/ DrawOffset(k)
    BY DEF Quiet, IngestStart, DrawOffset
  <1>3. \A k \in Callers : pc'[k] \notin {"capacity", "ingest", "checked", "adding"}
    BY <1>2, CallerMoves DEF Quiet
  <1> QED BY <1>1, <1>3 DEF Quiet

\* The records of a sub-stream are sequences of offsets.
LEMMA QueuesTyped ==
    ASSUME TypeInv, NEW i \in Streams
    PROVE  /\ acked[i] \in Seq(Offs) /\ failed[i] \in Seq(Offs) /\ zone[i] \in Seq(Offs)
           /\ failed[i] \o zone[i] \in Seq(Offs) /\ All(i) \in Seq(Offs)
           /\ Offs \in SUBSET Int /\ last[i] \in Int
  <1>1. acked[i] \in Seq(Offs) /\ failed[i] \in Seq(Offs) /\ zone[i] \in Seq(Offs)
    BY TypeGroups DEF TypeInv, SubTypes
  <1>2. failed[i] \o zone[i] \in Seq(Offs)
    BY <1>1, ConcatProperties
  <1>3. All(i) \in Seq(Offs)
    BY <1>1, <1>2, ConcatProperties DEF All
  <1>4. Offs \in SUBSET Int
    BY Bounds DEF Offs
  <1>5. last[i] \in Int
    BY TypeGroups, Bounds DEF TypeInv, SubTypes
  <1> QED BY <1>1, <1>2, <1>3, <1>4, <1>5

\* Records only move between the queues of their sub-stream, and keep their order,
\* unless one is added at the end: the one an id is returned for.
LEMMA AllMoves ==
    ASSUME MuxInv, [Next]_vars, NEW i \in Streams
    PROVE  \/ \E k \in Callers : /\ Enqueue(k) /\ at[k] = i /\ failed'[i] = failed[i]
                                 /\ All(i)' = Append(All(i), last[i])
           \/ /\ All(i)' = All(i) /\ Issued(i)' = Issued(i)
              /\ failed'[i] = failed[i] \/ (zone'[i] = <<>> /\ (Quiet \/ task'[i] = "ended"))
              /\ zone[i] = <<>> => zone'[i] = <<>> /\ failed'[i] = failed[i]
  <1> DEFINE Kept == /\ All(i)' = All(i) /\ Issued(i)' = Issued(i)
                     /\ failed'[i] = failed[i] \/ (zone'[i] = <<>> /\ (Quiet \/ task'[i] = "ended"))
                     /\ zone[i] = <<>> => zone'[i] = <<>> /\ failed'[i] = failed[i]
  <1>0. TypeInv /\ SubInv(i) /\ ReportInv
    BY DEF MuxInv
  <1>q. /\ acked[i] \in Seq(Offs) /\ failed[i] \in Seq(Offs) /\ zone[i] \in Seq(Offs)
        /\ failed[i] \o zone[i] \in Seq(Offs) /\ All(i) \in Seq(Offs)
    BY <1>0, QueuesTyped
  <1>f. /\ zone \in [Streams -> Seq(Offs)] /\ acked \in [Streams -> Seq(Offs)]
        /\ failed \in [Streams -> Seq(Offs)] /\ task \in [Streams -> {"run", "failing", "ended"}]
    BY <1>0, TypeGroups DEF TypeInv, SubTypes
  <1>s. ASSUME UNCHANGED <<acked, failed, zone, issued>> PROVE Kept
    BY <1>s DEF All, Issued
  <1>u. ASSUME acked'[i] = acked[i], failed'[i] = failed[i], zone'[i] = zone[i], issued' = issued
        PROVE  Kept
    BY <1>u DEF All, Issued
  <1>1. ASSUME NEW j \in Streams, SubAck(j) PROVE Kept
    <2>1. /\ task[j] = "run" /\ zone[j] # <<>>
          /\ acked' = [acked EXCEPT ![j] = Append(acked[j], Head(zone[j]))]
          /\ zone' = [zone EXCEPT ![j] = Tail(zone[j])] /\ UNCHANGED <<failed, issued>>
      BY <1>1 DEF SubAck, histVars
    <2>2. CASE j # i
      BY <1>f, <1>u, <2>1, <2>2
    <2>3. CASE j = i
      <3>1. failed[i] = <<>>
        BY <1>0, <2>1, <2>3 DEF SubInv
      <3>2. acked'[i] = Append(acked[i], Head(zone[i])) /\ zone'[i] = Tail(zone[i]) /\ failed'[i] = <<>>
            /\ zone[i] # <<>>
        BY <1>f, <2>1, <2>3, <3>1
      <3>3. Tail(zone[i]) \in Seq(Offs)
        BY <1>q, <3>2, HeadTailProperties
      <3>4. <<>> \o zone[i] = zone[i] /\ <<>> \o Tail(zone[i]) = Tail(zone[i])
        BY <1>q, <3>3, ConcatEmptySeq
      <3>5. Append(acked[i], Head(zone[i])) \o Tail(zone[i]) = acked[i] \o zone[i]
        BY <1>q, <3>2, MoveHead
      <3>6. All(i)' = Append(acked[i], Head(zone[i])) \o Tail(zone[i])
        BY <3>2, <3>4 DEF All
      <3>7. All(i) = acked[i] \o zone[i]
        BY <3>1, <3>4 DEF All
      <3>8. Issued(i)' = Issued(i)
        BY <2>1 DEF Issued
      <3> QED BY <3>1, <3>2, <3>5, <3>6, <3>7, <3>8
    <2> QED BY <2>2, <2>3
  <1>2. ASSUME NEW j \in Streams, failed' = [failed EXCEPT ![j] = failed[j] \o zone[j]],
               zone' = [zone EXCEPT ![j] = <<>>], UNCHANGED <<acked, issued>>,
               j = i => Quiet \/ task'[i] = "ended"
        PROVE  Kept
    <2>2. CASE j # i
      BY <1>f, <1>u, <1>2, <2>2
    <2>3. CASE j = i
      <3>1. failed'[i] = failed[i] \o zone[i] /\ zone'[i] = <<>> /\ acked'[i] = acked[i]
        BY <1>f, <1>2, <2>3
      <3>2. (failed[i] \o zone[i]) \o <<>> = failed[i] \o zone[i]
        BY <1>q, ConcatEmptySeq
      <3>3. All(i)' = All(i)
        BY <3>1, <3>2 DEF All
      <3>4. Issued(i)' = Issued(i)
        BY <1>2 DEF Issued
      <3>5. zone[i] = <<>> => failed'[i] = failed[i]
        BY <1>q, <3>1, ConcatEmptySeq
      <3> QED BY <1>2, <2>3, <3>1, <3>3, <3>4, <3>5
    <2> QED BY <2>2, <2>3
  <1>3. ASSUME NEW j \in Streams, SubDrain(j) PROVE Kept
    <2>1. /\ failed' = [failed EXCEPT ![j] = failed[j] \o zone[j]]
          /\ zone' = [zone EXCEPT ![j] = <<>>] /\ UNCHANGED <<acked, issued>>
          /\ task' = [task EXCEPT ![j] = "ended"]
      BY <1>3 DEF SubDrain, histVars
    <2>2. j = i => task'[i] = "ended"
      BY <1>f, <2>1
    <2> HIDE DEF Kept
    <2> QED BY <1>2, <2>1, <2>2
  <1>4. ASSUME NEW k \in Callers, Collect(k) PROVE Kept
    <2>1. /\ failed' = [failed EXCEPT ![at[k]] = failed[at[k]] \o zone[at[k]]]
          /\ zone' = [zone EXCEPT ![at[k]] = <<>>] /\ UNCHANGED <<acked, issued>>
          /\ pc[k] = "collect" /\ at[k] < NumStreams
      BY <1>4 DEF Collect
    <2>2. at[k] \in 0 .. NumStreams
      BY <1>0, TypeGroups DEF TypeInv, CallTypes
    <2>3. at[k] \in Streams
      BY <2>1, <2>2, Bounds DEF Streams
    <2>4. Quiet
      BY <1>0, <2>1 DEF ReportInv
    <2> HIDE DEF Kept
    <2> QED BY <1>2, <2>1, <2>3, <2>4
  <1>5. ASSUME NEW k \in Callers, DrawOffset(k) PROVE Kept
    <2>1. UNCHANGED <<acked, failed, zone, issued>>
      BY <1>5 DEF DrawOffset, histVars
    <2> QED BY <1>s, <2>1
  <1>6. ASSUME NEW k \in Callers, Enqueue(k), at[k] # i PROVE Kept
    <2>1. acked'[i] = acked[i] /\ failed'[i] = failed[i] /\ zone'[i] = zone[i]
      BY <1>f, <1>6 DEF Enqueue
    <2>2. Issued(i)' = Issued(i)
      BY <1>0, <1>6, IssuedMoves
    <2> QED BY <2>1, <2>2 DEF All
  <1>7. ASSUME NEW k \in Callers, Enqueue(k), at[k] = i
        PROVE  failed'[i] = failed[i] /\ All(i)' = Append(All(i), last[i])
    <2>1. acked'[i] = acked[i] /\ failed'[i] = failed[i] /\ zone'[i] = Append(zone[i], last[i])
      BY <1>f, <1>7 DEF Enqueue
    <2>2. last[i] \in Offs
      BY <1>0, <1>7, NewId DEF Enqueue
    <2>a. \A s, t \in Seq(Offs), x \in Offs : s \o Append(t, x) = Append(s \o t, x)
      BY AppendRight
    <2>3. failed[i] \o Append(zone[i], last[i]) = Append(failed[i] \o zone[i], last[i])
      BY <1>q, <2>2, <2>a
    <2>4. acked[i] \o Append(failed[i] \o zone[i], last[i])
              = Append(acked[i] \o (failed[i] \o zone[i]), last[i])
      BY <1>q, <2>2, <2>a
    <2>5. All(i)' = acked[i] \o (failed[i] \o Append(zone[i], last[i]))
      BY <2>1 DEF All
    <2> QED BY <2>1, <2>3, <2>4, <2>5 DEF All
  <1>8. ASSUME UNCHANGED <<last, zone, acked, failed, issued, report>> PROVE Kept
    BY <1>8, <1>s
  <1> HIDE DEF Kept
  <1>9. \/ \E k \in Callers : /\ Enqueue(k) /\ at[k] = i /\ failed'[i] = failed[i]
                              /\ All(i)' = Append(All(i), last[i])
        \/ Kept
    BY <1>1, <1>3, <1>4, <1>5, <1>6, <1>7, <1>8, RecordMoves
  <1> QED BY <1>9 DEF Kept

\* The last offset drawn grows by one at most, and then for the call that adds it.
LEMMA LastMoves ==
    ASSUME TypeInv, [Next]_vars, NEW i \in Streams
    PROVE  /\ last'[i] = last[i] \/ last'[i] = last[i] + 1
           /\ \A k \in Callers : pc'[k] = "adding" /\ at'[k] = i =>
                 last'[i] = last[i] + 1 \/ (pc[k] = "adding" /\ at[k] = i)
           /\ \A k \in Callers : Enqueue(k) => last' = last
  <1>0. last \in [Streams -> -1 .. MaxCalls - 1] /\ pc \in [Callers -> Phases]
    BY TypeGroups DEF TypeInv, SubTypes, CallTypes
  <1>1. ASSUME NEW k \in Callers, DrawOffset(k)
        PROVE  /\ last'[i] = last[i] \/ last'[i] = last[i] + 1
               /\ \A j \in Callers : pc'[j] = "adding" /\ at'[j] = i =>
                     last'[i] = last[i] + 1 \/ (pc[j] = "adding" /\ at[j] = i)
    BY <1>0, <1>1 DEF DrawOffset
  <1>2. ASSUME NEW k \in Callers, IngestStart(k)
        PROVE  /\ last'[i] = last[i]
               /\ \A j \in Callers : pc'[j] = "adding" /\ at'[j] = i => pc[j] = "adding" /\ at[j] = i
    <2>1. /\ pc[k] = "idle" /\ pc' = [pc EXCEPT ![k] = "capacity"] /\ last' = last
          /\ at' = [at EXCEPT ![k] = counter % NumStreams]
      BY <1>2 DEF IngestStart, subVars
    <2>2. at \in [Callers -> 0 .. NumStreams]
      BY TypeGroups DEF TypeInv, CallTypes
    <2> QED BY <1>0, <2>1, <2>2
  <1>3. \A k \in Callers : Enqueue(k) => last' = last
    BY DEF Enqueue
  <1> QED BY <1>1, <1>2, <1>3, CallerMoves

\* The order of a sub-stream's records.
LEMMA SubInvStep ==
    ASSUME MuxInv, [Next]_vars, NEW i \in Streams
    PROVE  SubInv(i)'
  <1>0. TypeInv /\ SubInv(i)
    BY DEF MuxInv
  <1>q. All(i) \in Seq(Offs) /\ Offs \in SUBSET Int /\ last[i] \in Int
    BY <1>0, QueuesTyped
  <1>m. /\ last'[i] = last[i] \/ last'[i] = last[i] + 1
        /\ \A k \in Callers : pc'[k] = "adding" /\ at'[k] = i =>
              last'[i] = last[i] + 1 \/ (pc[k] = "adding" /\ at[k] = i)
        /\ \A k \in Callers : Enqueue(k) => last' = last
    BY <1>0, LastMoves
  <1>n. Issued(i) \subseteq Int
    BY <1>0, <1>q, ItemAt DEF SubInv
  <1>5. ASSUME failed'[i] # <<>>
        PROVE  task'[i] = "ended" \/ (zone'[i] = <<>> /\ Quiet')
    <2>1. Quiet => Quiet'
      BY <1>0, QuietStable
    <2>2. task[i] = "ended" => task'[i] = "ended"
      BY <1>0, FlagTypes
    <2>3. ASSUME NEW k \in Callers, Enqueue(k), at[k] = i PROVE ~Quiet
      BY <2>3 DEF Enqueue, Quiet
    <2> QED BY <1>0, <1>5, <2>1, <2>2, <2>3, AllMoves DEF SubInv
  <1>1. ASSUME All(i)' = All(i), Issued(i)' = Issued(i) PROVE SubInv(i)'
    <2>1. Increasing(All(i)') /\ ToSet(All(i)') = Issued(i)'
      BY <1>0, <1>1 DEF SubInv
    <2>2. ASSUME NEW o \in Issued(i)' PROVE o <= last'[i]
      <3>1. o \in Int /\ o <= last[i]
        BY <1>0, <1>1, <1>n, <2>2 DEF SubInv
      <3> QED BY <1>q, <1>m, <3>1
    <2>3. ASSUME NEW o \in Issued(i)', NEW k \in Callers, pc'[k] = "adding", at'[k] = i
          PROVE  o < last'[i]
      <3>1. o \in Int /\ o <= last[i] /\ (pc[k] = "adding" /\ at[k] = i => o < last[i])
        BY <1>0, <1>1, <1>n, <2>3 DEF SubInv
      <3> QED BY <1>q, <1>m, <2>3, <3>1
    <2> QED BY <1>5, <2>1, <2>2, <2>3 DEF SubInv
  <1>2. ASSUME NEW k \in Callers, Enqueue(k), at[k] = i, All(i)' = Append(All(i), last[i])
        PROVE  SubInv(i)'
    <2>1. pc[k] = "adding" /\ last' = last /\ pc'[k] = "idle"
          /\ \A j \in Callers : j # k => pc'[j] = pc[j] /\ at'[j] = at[j]
      <3>1. pc \in [Callers -> Phases] /\ at \in [Callers -> 0 .. NumStreams]
        BY <1>0, TypeGroups DEF TypeInv, CallTypes
      <3> QED BY <1>2, <3>1 DEF Enqueue, Return
    <2>2. last[i] \in Offs
      BY <1>0, <1>2, <2>1, NewId
    <2>3. Issued(i)' = Issued(i) \cup {last[i]}
      BY <1>0, <1>2, IssuedMoves
    <2>4. \A o \in ToSet(All(i)) : o < last[i]
      BY <1>0, <1>2, <2>1 DEF SubInv
    <2>5. Increasing(Append(All(i), last[i])) /\ ToSet(Append(All(i), last[i])) = ToSet(All(i)) \cup {last[i]}
      BY <1>0, <1>q, <2>2, <2>4, IncreasingAppend, AppendSet DEF SubInv
    <2>6. Increasing(All(i)') /\ ToSet(All(i)') = Issued(i)'
      BY <1>0, <1>2, <2>3, <2>5 DEF SubInv
    <2>7. \A o \in Issued(i)' : o <= last'[i]
      BY <1>0, <1>q, <2>1, <2>3 DEF SubInv
    <2>8. ~ \E j \in Callers : pc'[j] = "adding" /\ at'[j] = i
      BY <1>0, <1>2, <2>1 DEF TypeInv, CallInv
    <2> QED BY <1>5, <2>6, <2>7, <2>8 DEF SubInv
  <1> QED BY <1>1, <1>2, AllMoves

------------------------------------------------------------------------------
(* Collecting and waiting *)

\* A call closes or collects because it already did, or because it owns the stream
\* and starts to.
LEMMA CloseMoves ==
    ASSUME TypeInv, [Next]_vars, NEW k \in Callers,
           pc'[k] \in {"closeFlush", "closing", "subFlush", "collect"}
    PROVE  \/ pc[k] \in {"closeFlush", "closing", "subFlush", "collect"}
           \/ Exclusive /\ muxClosed' /\ pc' = [pc EXCEPT ![k] = "closeFlush"]
  <1>0. pc \in [Callers -> Phases]
    BY TypeGroups DEF TypeInv, CallTypes
  <1> DEFINE Kept == \/ pc[k] \in {"closeFlush", "closing", "subFlush", "collect"}
                     \/ Exclusive /\ muxClosed' /\ pc' = [pc EXCEPT ![k] = "closeFlush"]
  <1>1. ASSUME NEW i \in Streams, SubStep(i) \/ SubFail(i) PROVE Kept
    BY <1>1 DEF SubStep, SubAck, SubDrain, SubEnd, SubFail, callVars
  <1>2. ASSUME NEW j \in Callers,
               IngestStart(j) \/ Flush(j) \/ \E id \in issued : WaitForMessageId(j, id)
        PROVE  Kept
    BY <1>0, <1>2 DEF IngestStart, Flush, WaitForMessageId, WaitFor
  <1>3. ASSUME NEW j \in Callers, \E op \in {"close", "unacked"} : Close(j, op) PROVE Kept
    <2>1. Exclusive /\ muxClosed' /\ pc' = [pc EXCEPT ![j] = "closeFlush"]
      BY <1>3 DEF Close, WaitFor
    <2>2. j = k
      BY <1>0, <2>1 DEF Exclusive
    <2> QED BY <2>1, <2>2
  <1>4. ASSUME NEW j \in Callers,
               \/ WaitForCapacity(j) \/ IngestOffset(j) \/ FlushDone(j) \/ Cancel(j)
               \/ PoisonSignal(j) \/ Enqueue(j) \/ DrawOffset(j)
        PROVE  Kept
    <2>1. \E v \in {"idle", "poison", "ingest", "checked", "adding"} : pc' = [pc EXCEPT ![j] = v]
      BY <1>4 DEF WaitForCapacity, IngestOffset, FlushDone, Poison, Cancel, PoisonSignal, Enqueue,
                  DrawOffset, WaitFor, Return
    <2> QED BY <1>0, <2>1
  <1>5. ASSUME NEW j \in Callers, NEW i \in Streams, WaitEnds(j, i) \/ WaitTimeout(j, i) PROVE Kept
    BY <1>5 DEF WaitEnds, WaitTimeout, Resolve
  <1>6. ASSUME NEW j \in Callers, CloseSub(j) \/ CloseSubDone(j) \/ Collect(j) PROVE Kept
    BY <1>0, <1>6 DEF CloseSub, WaitFor, CloseSubDone, Collect
  <1>7. ASSUME NEW j \in Callers, CloseDone(j) \/ CollectDone(j) PROVE Kept
    BY <1>0, <1>7 DEF CloseDone, CollectDone, Return
  <1>8. CASE DropMux
    BY <1>8 DEF DropMux
  <1>9. CASE Terminated \/ UNCHANGED vars
    BY <1>9 DEF Terminated, vars, callVars
  <1> QED
    BY <1>1, <1>2, <1>3, <1>4, <1>5, <1>6, <1>7, <1>8, <1>9 DEF Next, CallStep

\* What was collected stays what the sub-streams have set aside.
LEMMA ReportInvStep ==
    ASSUME MuxInv, [Next]_vars
    PROVE  ReportInv'
  <1>0. TypeInv /\ ReportInv
    BY DEF MuxInv
  <1>1. Quiet => Quiet'
    BY <1>0, QuietStable
  <1>2. ASSUME NEW k \in Callers, pc'[k] \in {"closeFlush", "closing", "subFlush", "collect"}
        PROVE  Quiet'
    <2>1. CASE pc[k] \in {"closeFlush", "closing", "subFlush", "collect"}
      BY <1>0, <1>1, <2>1 DEF ReportInv
    <2>2. CASE Exclusive /\ muxClosed' /\ pc' = [pc EXCEPT ![k] = "closeFlush"]
      <3>1. pc \in [Callers -> Phases]
        BY <1>0, TypeGroups DEF TypeInv, CallTypes
      <3> QED BY <2>2, <3>1 DEF Exclusive, Quiet
    <2> QED BY <1>0, <1>2, <2>1, <2>2, CloseMoves
  <1>3. ASSUME NEW k \in Callers, Collect(k)
        PROVE  /\ Quiet /\ at[k] \in Streams /\ report' = report \cup {<<at[k], failed'[at[k]]>>}
               /\ zone'[at[k]] = <<>>
    <2>1. pc[k] = "collect" /\ at[k] < NumStreams /\ zone' = [zone EXCEPT ![at[k]] = <<>>]
          /\ report' = report \cup {<<at[k], failed'[at[k]]>>}
      BY <1>3 DEF Collect
    <2>2. at[k] \in 0 .. NumStreams /\ zone \in [Streams -> Seq(Offs)]
      BY <1>0, TypeGroups DEF TypeInv, CallTypes, SubTypes
    <2>3. at[k] \in Streams
      BY <2>1, <2>2, Bounds DEF Streams
    <2> QED BY <1>0, <2>1, <2>2, <2>3 DEF ReportInv
  <1>4. report' = report \/ \E k \in Callers : Collect(k)
    BY RecordMoves DEF SubAck, SubDrain, DrawOffset, Enqueue, histVars
  <1>5. report' # {} => Quiet'
    BY <1>0, <1>1, <1>3, <1>4 DEF ReportInv
  <1>6. ASSUME NEW i \in Streams, Quiet, zone[i] = <<>> PROVE zone'[i] = <<>> /\ failed'[i] = failed[i]
    BY <1>6, AllMoves DEF Enqueue, Quiet
  <1>7. ASSUME NEW r \in report PROVE \E i \in Streams : r = <<i, failed'[i]>> /\ zone'[i] = <<>>
    <2>1. PICK i \in Streams : r = <<i, failed[i]>> /\ zone[i] = <<>>
      BY <1>0 DEF ReportInv
    <2>2. Quiet
      BY <1>0 DEF ReportInv
    <2> QED BY <1>6, <2>1, <2>2
  <1>8. ASSUME NEW r \in report' PROVE \E i \in Streams : r = <<i, failed'[i]>> /\ zone'[i] = <<>>
    BY <1>3, <1>4, <1>7
  <1> QED BY <1>2, <1>5, <1>8 DEF ReportInv

\* A wait is successful because nothing was waited for, because it was, or because
\* the offset has arrived.
LEMMA WaitMoves ==
    ASSUME TypeInv, [Next]_vars, NEW k \in Callers, NEW i \in Streams, wait'[k][i] = "ok"
    PROVE  \/ goal'[k][i] = -1
           \/ goal'[k][i] = goal[k][i] /\ (wait[k][i] = "ok" \/ Received(i) >= goal[k][i])
  <1>0. CallTypes /\ SubTypes /\ IdTypes
    BY TypeGroups DEF TypeInv
  <1>t. /\ goal \in [Callers -> [Streams -> -1 .. MaxCalls - 1]]
        /\ wait \in [Callers -> [Streams -> {"none", "wait", "ok", "err"}]]
    BY <1>0 DEF CallTypes
  <1> DEFINE Kept == \/ goal'[k][i] = -1
                     \/ goal'[k][i] = goal[k][i] /\ (wait[k][i] = "ok" \/ Received(i) >= goal[k][i])
  <1>r. ASSUME NEW j \in Callers, Return(j) PROVE Kept
    BY <1>t, <1>r DEF Return, NoWait
  <1>w. ASSUME NEW j \in Callers, NEW v, NEW goals, WaitFor(j, v, goals) PROVE Kept
    BY <1>t, <1>w DEF WaitFor
  <1>u. ASSUME UNCHANGED <<goal, wait>> PROVE Kept
    BY <1>u
  <1>1. ASSUME NEW j \in Streams, SubStep(j) \/ SubFail(j) PROVE UNCHANGED <<goal, wait>>
    BY <1>1 DEF SubStep, SubAck, SubDrain, SubEnd, SubFail, callVars
  <1>2. ASSUME NEW j \in Callers, IngestStart(j) \/ DrawOffset(j) \/ CloseSubDone(j) \/ Collect(j)
        PROVE  UNCHANGED <<goal, wait>>
    BY <1>2 DEF IngestStart, DrawOffset, CloseSubDone, Collect
  <1>3. ASSUME NEW j \in Callers,
               \/ Flush(j) \/ (\E id \in issued : WaitForMessageId(j, id))
               \/ \E op \in {"close", "unacked"} : Close(j, op)
        PROVE  \E v, goals : WaitFor(j, v, goals)
    BY <1>3 DEF Flush, WaitForMessageId, Close
  <1>4. ASSUME NEW j \in Callers,
               \/ WaitForCapacity(j) \/ IngestOffset(j) \/ FlushDone(j) \/ Cancel(j)
               \/ PoisonSignal(j) \/ Enqueue(j)
        PROVE  Return(j) \/ (\E v, goals : WaitFor(j, v, goals)) \/ UNCHANGED <<goal, wait>>
    BY <1>4 DEF WaitForCapacity, IngestOffset, FlushDone, Poison, Cancel, PoisonSignal, Enqueue
  <1>5. ASSUME NEW j \in Callers, CloseSub(j) \/ CloseDone(j) \/ CollectDone(j)
        PROVE  Return(j) \/ (\E v, goals : WaitFor(j, v, goals)) \/ UNCHANGED <<goal, wait>>
    BY <1>5 DEF CloseSub, CloseDone, CollectDone
  <1>6. ASSUME NEW j \in Callers, NEW s \in Streams, WaitEnds(j, s) \/ WaitTimeout(j, s) PROVE Kept
    BY <1>t, <1>6 DEF WaitEnds, WaitTimeout, Resolve
  <1>7. ASSUME DropMux \/ Terminated \/ UNCHANGED vars PROVE UNCHANGED <<goal, wait>>
    BY <1>7 DEF DropMux, Terminated, vars, callVars
  <1> HIDE DEF Kept
  <1>8. Kept
    BY <1>r, <1>w, <1>u, <1>1, <1>2, <1>3, <1>4, <1>5, <1>6, <1>7 DEF Next, CallStep
  <1> QED BY <1>8 DEF Kept

\* The last acknowledged offset is one of those acknowledged, before and after a step.
LEMMA ReceivedIsAcked ==
    ASSUME NEW i \in Streams
    PROVE  /\ TypeInv => /\ Received(i) \in Int /\ Received(i) >= -1
                         /\ acked[i] # <<>> => Received(i) \in ToSet(acked[i])
           /\ TypeInv' => Received(i)' \in Int /\ Received(i)' >= -1
  <1>0. Offs \subseteq Nat
    BY Bounds DEF Offs
  <1>1. ASSUME NEW s \in Seq(Offs), s # <<>>
        PROVE  Last(s) \in ToSet(s) /\ Last(s) \in Int /\ Last(s) >= -1
    <2>1. Len(s) \in 1 .. Len(s)
      BY <1>1, EmptySeq, LenProperties
    <2>2. Last(s) \in ToSet(s) /\ Last(s) \in Offs
      BY <2>1, ItemAt DEF Last
    <2>3. Last(s) \in Nat
      BY <1>0, <2>2
    <2> QED BY <2>2, <2>3
  <1>2. TypeInv => acked[i] \in Seq(Offs)
    BY TypeGroups DEF TypeInv, SubTypes
  <1>3. TypeInv' => acked'[i] \in Seq(Offs)
    BY DEF TypeInv, TypeOK, Offs
  <1>4. \A s \in Seq(Offs) : s # <<>> => Last(s) \in ToSet(s) /\ Last(s) \in Int /\ Last(s) >= -1
    BY <1>1
  <1>5. TypeInv => /\ Received(i) \in Int /\ Received(i) >= -1
                   /\ acked[i] # <<>> => Received(i) \in ToSet(acked[i])
    BY <1>2, <1>4 DEF Received
  <1>6. TypeInv' => Received(i)' \in Int /\ Received(i)' >= -1
    BY <1>3, <1>4 DEF Received
  <1> QED BY <1>5, <1>6

\* Acknowledgements arrive in the order of the offsets.
LEMMA ReceivedGrows ==
    ASSUME MuxInv, [Next]_vars, NEW i \in Streams
    PROVE  Received(i) <= Received(i)'
  <1>0. TypeInv /\ SubInv(i) /\ TypeInv'
    BY TypeStep DEF MuxInv
  <1>r. Received(i) \in Int /\ Received(i) >= -1
    BY <1>0, ReceivedIsAcked
  <1>1. CASE acked'[i] = acked[i]
    <2>1. Received(i)' = Received(i)
      BY <1>1 DEF Received
    <2> QED BY <1>r, <2>1
  <1>2. CASE SubAck(i)
    <2> DEFINE x == Head(zone[i])
    <2>0. acked[i] \in Seq(Offs) /\ failed[i] \in Seq(Offs) /\ zone[i] \in Seq(Offs) /\ zone[i] # <<>>
          /\ Offs \subseteq Nat /\ Offs \in SUBSET Int
      BY <1>0, <1>2, QueuesTyped, Bounds DEF SubAck, Offs
    <2>1. x \in Offs /\ acked'[i] = Append(acked[i], x) /\ failed[i] = <<>>
      <3>1. acked \in [Streams -> Seq(Offs)]
        BY <1>0, TypeGroups DEF TypeInv, SubTypes
      <3>2. task[i] = "run" /\ acked' = [acked EXCEPT ![i] = Append(acked[i], x)]
        BY <1>2 DEF SubAck
      <3>3. failed[i] = <<>>
        BY <1>0, <2>0, <3>2 DEF SubInv
      <3>4. x \in Offs
        BY <2>0, HeadTailProperties
      <3> HIDE DEF x
      <3> QED BY <3>1, <3>2, <3>3, <3>4
    <2>2. x \in ToSet(zone[i])
      BY <2>0, HeadTailSet
    <2> HIDE DEF x
    <2>3. Received(i)' = x
      <3>1. Append(acked[i], x) # <<>> /\ Last(Append(acked[i], x)) = x
        BY <2>0, <2>1, AppendProperties, LenProperties, EmptySeq DEF Last
      <3> QED BY <2>1, <3>1 DEF Received
    <2>4. All(i) = acked[i] \o zone[i]
      BY <2>0, <2>1, ConcatEmptySeq DEF All
    <2>5. \A a \in ToSet(acked[i]), b \in ToSet(zone[i]) : a < b
      BY <1>0, <2>0, <2>4, IncreasingConcat DEF SubInv
    <2>6. acked[i] # <<>> => Received(i) < x
      BY <1>0, <2>2, <2>5, ReceivedIsAcked
    <2>7. acked[i] = <<>> => Received(i) = -1
      BY DEF Received
    <2> QED BY <1>r, <2>0, <2>1, <2>3, <2>6, <2>7
  <1>3. acked'[i] = acked[i] \/ SubAck(i)
    <2>1. acked \in [Streams -> Seq(Offs)]
      BY <1>0, TypeGroups DEF TypeInv, SubTypes
    <2>2. acked' = acked \/ \E j \in Streams : SubAck(j)
      BY RecordMoves DEF SubDrain, DrawOffset, Enqueue, Collect
    <2>3. ASSUME NEW j \in Streams, SubAck(j), j # i PROVE acked'[i] = acked[i]
      BY <2>1, <2>3 DEF SubAck
    <2> QED BY <2>2, <2>3
  <1> QED BY <1>1, <1>2, <1>3

\* A wait that succeeded rests on an offset that was acknowledged.
LEMMA WaitInvStep ==
    ASSUME MuxInv, [Next]_vars
    PROVE  WaitInv'
  <1>0. TypeInv /\ WaitInv /\ TypeInv'
    BY TypeStep DEF MuxInv
  <1>1. ASSUME NEW k \in Callers, NEW i \in Streams, wait'[k][i] = "ok"
        PROVE  goal'[k][i] <= Received(i)'
    <2>1. Received(i) \in Int /\ Received(i)' \in Int /\ Received(i)' >= -1 /\ Received(i) <= Received(i)'
      BY <1>0, ReceivedIsAcked, ReceivedGrows
    <2>2. goal[k][i] \in Int
      <3>1. goal[k][i] \in -1 .. MaxCalls - 1
        BY <1>0, TypeGroups DEF TypeInv, CallTypes
      <3> QED BY <3>1, Bounds
    <2>3. wait[k][i] = "ok" => goal[k][i] <= Received(i)
      BY <1>0 DEF WaitInv
    <2>4. goal'[k][i] = -1 \/ (goal'[k][i] = goal[k][i] /\ goal[k][i] <= Received(i))
      BY <1>0, <1>1, <2>1, <2>2, <2>3, WaitMoves
    <2> QED BY <2>1, <2>2, <2>4
  <1> QED BY <1>1 DEF WaitInv

------------------------------------------------------------------------------
(* Results *)

\* The invariant holds at first.
LEMMA MuxInit == Init => MuxInv
  <1> SUFFICES ASSUME Init PROVE MuxInv
    OBVIOUS
  <1>0. /\ last = NoGoal /\ zone = [i \in Streams |-> <<>>] /\ acked = zone /\ failed = zone
        /\ pc = [k \in Callers |-> "idle"] /\ at = [k \in Callers |-> 0]
        /\ goal = [k \in Callers |-> NoGoal] /\ wait = [k \in Callers |-> NoWait]
        /\ issued = {} /\ report = {} /\ counter = 0
    BY DEF Init
  <1>1. MuxTypes
    <2>1. counter = 0 /\ muxClosed = FALSE /\ closeOp = "none" /\ 0 \in 0 .. MaxCalls
      BY Bounds DEF Init
    <2> QED BY <2>1 DEF MuxTypes
  <1>2. NoGoal \in [Streams -> -1 .. MaxCalls - 1] /\ <<>> \in Seq(Offs) /\ Len(<<>>) = 0
    BY Bounds, EmptySeq DEF NoGoal
  <1>3. SubTypes
    BY <1>0, <1>2, Bounds DEF Init, SubTypes
  <1>4. CallTypes /\ IdTypes
    BY <1>0, <1>2, Bounds DEF CallTypes, IdTypes, NoWait, Phases
  <1>5. CallInv
    <2>1. ASSUME NEW i \in Streams PROVE last[i] + 1 + Cardinality(Drawing(i)) <= counter
      <3>1. Drawing(i) = {}
        BY <1>0 DEF Drawing
      <3>2. Cardinality(Drawing(i)) = 0 /\ last[i] = -1
        BY <1>0, <3>1, FS_EmptySet DEF NoGoal
      <3> QED BY <1>0, <3>2
    <2> QED BY <1>0, <2>1 DEF CallInv
  <1>6. TypeInv
    BY <1>1, <1>3, <1>4, <1>5, TypeGroups DEF TypeInv
  <1>7. ASSUME NEW i \in Streams PROVE SubInv(i)
    <2>1. <<>> \in Seq(Offs) /\ <<>> \o <<>> = <<>>
      BY <1>2, ConcatEmptySeq
    <2>2. All(i) = <<>> /\ failed[i] = <<>>
      BY <1>0, <2>1 DEF All
    <2>3. Increasing(<<>>) /\ ToSet(<<>>) = {}
      BY EmptySet DEF Increasing
    <2>4. Issued(i) = {}
      BY <1>0 DEF Issued
    <2> QED BY <2>2, <2>3, <2>4 DEF SubInv
  <1>8. ReportInv /\ WaitInv
    BY <1>0 DEF ReportInv, WaitInv, NoWait
  <1> QED BY <1>6, <1>7, <1>8 DEF MuxInv

\* The invariant of the multiplexer, whatever callers, sub-streams, failures, timeouts
\* and cancellations do.
THEOREM MuxInvariant == Spec => []MuxInv
  <1>1. MuxInv /\ [Next]_vars => MuxInv'
    <2> SUFFICES ASSUME MuxInv, [Next]_vars PROVE MuxInv'
      OBVIOUS
    <2>1. TypeInv'
      BY TypeStep DEF MuxInv
    <2>2. \A i \in Streams : SubInv(i)'
      BY SubInvStep
    <2> QED BY <2>1, <2>2, ReportInvStep, WaitInvStep DEF MuxInv
  <1> QED BY <1>1, MuxInit, PTL DEF Spec

\* The types of the multiplexer's variables: no offset above the calls that were
\* started, no sub-stream beyond its capacity.
THEOREM MuxTypeCorrect == Spec => []TypeOK
  <1>1. MuxInv => TypeOK
    BY DEF MuxInv, TypeInv
  <1> QED BY <1>1, MuxInvariant, PTL

\* A flush() or wait_for_message_id that succeeds has every record up to the offset
\* acknowledged: what follows the last acknowledged record has a larger offset.
THEOREM OkIsAcked == Spec => []OkMeansAcked
  <1>1. ASSUME MuxInv PROVE OkMeansAcked
    <2> SUFFICES ASSUME NEW k \in Callers, NEW i \in Streams, wait[k][i] = "ok",
                        NEW o \in Issued(i), o <= goal[k][i], o \notin ToSet(acked[i])
                 PROVE  FALSE
      BY DEF OkMeansAcked
    <2>0. TypeInv /\ SubInv(i) /\ WaitInv
      BY <1>1 DEF MuxInv
    <2>q. /\ acked[i] \in Seq(Offs) /\ failed[i] \o zone[i] \in Seq(Offs) /\ All(i) \in Seq(Offs)
          /\ Offs \in SUBSET Int
      BY <2>0, QueuesTyped
    <2>1. o \in ToSet(All(i)) /\ o \in Offs
      BY <2>0, <2>q, ItemAt DEF SubInv
    <2>2. ToSet(All(i)) = ToSet(acked[i]) \cup ToSet(failed[i] \o zone[i])
      <3>1. \A s, t \in Seq(Offs) : ToSet(s \o t) = ToSet(s) \cup ToSet(t)
        BY ConcatSet
      <3> QED BY <2>q, <3>1 DEF All
    <2>3. \A x \in ToSet(acked[i]) : x < o
      BY <2>0, <2>q, <2>1, <2>2, IncreasingConcat DEF SubInv, All
    <2>4. o \in Int /\ o >= 0
      BY <2>1, Bounds DEF Offs
    <2>5. Received(i) \in Int /\ Received(i) < o
      <3>1. acked[i] = <<>> => Received(i) = -1
        BY DEF Received
      <3> QED BY <2>0, <2>3, <2>4, <3>1, ReceivedIsAcked
    <2>6. goal[k][i] <= Received(i)
      BY <2>0 DEF WaitInv
    <2>7. goal[k][i] \in Int
      <3>1. goal[k][i] \in -1 .. MaxCalls - 1
        BY <2>0, TypeGroups DEF TypeInv, CallTypes
      <3> QED BY <3>1, Bounds
    <2> QED BY <2>4, <2>5, <2>6, <2>7
  <1> QED BY <1>1, MuxInvariant, PTL

\* What get_unacked_batches returned and what was acknowledged are for good exactly
\* the records an id was returned for, and they share none.
THEOREM UnackedIsComplete == Spec => []UnackedComplete
  <1>1. ASSUME MuxInv PROVE UnackedComplete
    <2> SUFFICES ASSUME NEW r \in report
                 PROVE  /\ ToSet(r[2]) \cup ToSet(acked[r[1]]) = Issued(r[1])
                        /\ ToSet(r[2]) \cap ToSet(acked[r[1]]) = {}
      BY DEF UnackedComplete
    <2>1. PICK i \in Streams : r = <<i, failed[i]>> /\ zone[i] = <<>>
      BY <1>1 DEF MuxInv, ReportInv
    <2>2. r[1] = i /\ r[2] = failed[i]
      BY <2>1
    <2>0. TypeInv /\ SubInv(i)
      BY <1>1 DEF MuxInv
    <2>q. acked[i] \in Seq(Offs) /\ failed[i] \in Seq(Offs) /\ Offs \in SUBSET Int
      BY <2>0, QueuesTyped
    <2>3. All(i) = acked[i] \o failed[i]
      BY <2>1, <2>q, ConcatEmptySeq DEF All
    <2>4. ToSet(All(i)) = ToSet(acked[i]) \cup ToSet(failed[i])
      BY <2>3, <2>q, ConcatSet
    <2>5. \A x \in ToSet(acked[i]), y \in ToSet(failed[i]) : x < y
      BY <2>0, <2>q, <2>3, IncreasingConcat DEF SubInv
    <2>6. ToSet(acked[i]) \subseteq Int
      BY <2>q, ItemAt
    <2>7. ToSet(failed[i]) \cap ToSet(acked[i]) = {}
      BY <2>5, <2>6
    <2> QED BY <2>0, <2>2, <2>4, <2>7 DEF SubInv
  <1> QED BY <1>1, MuxInvariant, PTL
==============================================================================
