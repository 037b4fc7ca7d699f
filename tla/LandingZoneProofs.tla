-------------------------- MODULE LandingZoneProofs --------------------------
(***************************************************************************)
(* TLAPS proofs about LandingZoneTasks, for every capacity and every set   *)
(* of add() calls.                                                         *)
(***************************************************************************)
EXTENDS LandingZoneTasks, SequenceFacts, FiniteSetTheorems, TLAPS

------------------------------------------------------------------------------
(* Facts about sequences *)

\* The library's associativity of concatenation, for sequences of items.
LEMMA ConcatAssoc ==
    \A s, t, u \in Seq(Items) : (s \o t) \o u = s \o (t \o u)
  BY ConcatAssociative

------------------------------------------------------------------------------
(* Types and permits *)

\* The semaphore's wait list: every call in it still waits, and waits once.
Waiters ==
    /\ \A i, j \in 1 .. Len(semQueue) : semQueue[i] = semQueue[j] => i = j
    /\ \A i \in 1 .. Len(semQueue) : call[semQueue[i]] = "acquiring"

\* PermitsConserved is inductive with the types and with a wait list in which a
\* released permit finds a call that does not own one yet.
LZInv == TypeOK /\ PermitsConserved /\ IsFiniteSet(Granted) /\ Waiters

\* Releasing permits keeps the semaphore's state well typed.
LEMMA ReleaseType ==
    ASSUME TypeOK, NEW n \in Nat, NEW c \in [Items -> CallStates], Release(n, c)
    PROVE  available' \in Nat /\ semQueue' \in Seq(Items) /\ call' \in [Items -> CallStates]
  <1>1. HandedOff(n) \in 0 .. Len(semQueue) /\ HandedOff(n) <= n
    BY DEF TypeOK, HandedOff
  <1>2. available' \in Nat
    BY <1>1 DEF Release, TypeOK
  <1>3. semQueue' \in Seq(Items)
    BY SMTT(60), <1>1 DEF Release, TypeOK
  <1>4. call' \in [Items -> CallStates]
    BY DEF Release, CallStates
  <1> QED BY <1>2, <1>3, <1>4

\* The first h calls of the wait list are h different calls.
LEMMA FirstWaiters ==
    ASSUME TypeOK, Waiters, NEW h \in 0 .. Len(semQueue)
    PROVE  /\ IsFiniteSet({semQueue[i] : i \in 1 .. h})
           /\ Cardinality({semQueue[i] : i \in 1 .. h}) = h
  <1> DEFINE H == {semQueue[i] : i \in 1 .. h}
             f == [i \in 1 .. h |-> semQueue[i]]
  <1>0. Len(semQueue) \in Nat /\ h \in Nat
    BY LenProperties DEF TypeOK
  <1>1. f \in Bijection(1 .. h, H)
    <2>1. f \in [1 .. h -> H]
      OBVIOUS
    <2>2. \A i, j \in 1 .. h : f[i] = f[j] => i = j
      BY <1>0 DEF Waiters
    <2>3. \A y \in H : \E i \in 1 .. h : f[i] = y
      OBVIOUS
    <2> HIDE DEF f, H
    <2> QED BY <2>1, <2>2, <2>3 DEF Bijection, Injection, Surjection, IsInjective
  <1>2. ExistsBijection(1 .. h, H)
    <2> HIDE DEF f, H
    <2> QED BY <1>1 DEF ExistsBijection
  <1>3. IsFiniteSet(1 .. h) /\ Cardinality(1 .. h) = h
    BY <1>0, FS_Interval
  <1> HIDE DEF H
  <1>4. IsFiniteSet(H) /\ Cardinality(H) = Cardinality(1 .. h)
    BY <1>2, <1>3, FS_Bijection
  <1> QED BY <1>3, <1>4 DEF H

\* A released permit is free again or in the hands of one more call, and it is
\* free only when nobody waits.
LEMMA ReleaseCount ==
    ASSUME LZInv, NEW n \in Nat, NEW c \in [Items -> CallStates], Release(n, c),
           IsFiniteSet({x \in Items : c[x] = "granted"}),
           \A i \in 1 .. Len(semQueue) : c[semQueue[i]] = "acquiring"
    PROVE  /\ IsFiniteSet(Granted') /\ Cardinality(Granted') \in Nat
           /\ available' + Cardinality(Granted')
                = available + n + Cardinality({x \in Items : c[x] = "granted"})
           /\ available' > 0 => semQueue' = <<>>
           /\ Waiters'
  <1> DEFINE h == HandedOff(n)
             H == {semQueue[i] : i \in 1 .. h}
             G == {x \in Items : c[x] = "granted"}
  <1>0. semQueue \in Seq(Items) /\ Len(semQueue) \in Nat /\ available \in Nat
    BY LenProperties DEF LZInv, TypeOK
  <1>1. /\ h \in 0 .. Len(semQueue) /\ h <= n /\ h \in Nat
        /\ h < n => h = Len(semQueue)
    BY <1>0 DEF HandedOff
  <1>2. IsFiniteSet(H) /\ Cardinality(H) = h
    BY <1>1, FirstWaiters DEF LZInv
  <1>3. \A i \in 1 .. Len(semQueue) : semQueue[i] \in Items
    BY <1>0, ElementOfSeq
  <1>4. Granted' = G \cup H
    <2>1. \A x \in Items : call'[x] = IF \E i \in 1 .. h : semQueue[i] = x THEN "granted" ELSE c[x]
      BY DEF Release
    <2>2. \A x \in H : x \in Items
      BY <1>0, <1>1, <1>3
    <2> HIDE DEF h
    <2> QED BY <2>1, <2>2 DEF Granted
  <1>5. G \cap H = {}
    BY <1>0, <1>1
  <1>6. /\ IsFiniteSet(G \cup H)
        /\ Cardinality(G \cup H) = Cardinality(G) + h /\ Cardinality(G) \in Nat
    <2> HIDE DEF G, H, h
    <2>1. IsFiniteSet(G)
      BY DEF G
    <2>2. /\ IsFiniteSet(G \cup H)
          /\ Cardinality(G \cup H) = Cardinality(G) + Cardinality(H) - Cardinality(G \cap H)
      BY <2>1, <1>2, FS_Union
    <2>3. Cardinality(G \cap H) = 0
      BY <1>5, FS_EmptySet
    <2>4. Cardinality(G) \in Nat
      BY <2>1, FS_CardinalityType
    <2> QED BY <1>1, <1>2, <2>2, <2>3, <2>4
  <1>7. IsFiniteSet(Granted') /\ Cardinality(Granted') = Cardinality(G) + h
    BY <1>4, <1>6
  <1>8. available' = available + (n - h)
    BY DEF Release
  <1>9. semQueue' = SubSeq(semQueue, h + 1, Len(semQueue))
    BY DEF Release
  <1>10. available' > 0 => semQueue' = <<>>
    <2>1. available > 0 => Len(semQueue) = 0
      BY <1>0 DEF LZInv, PermitsConserved
    <2>2. available' > 0 => h = Len(semQueue)
      <3> HIDE DEF h
      <3> QED BY <1>0, <1>1, <1>8, <2>1
    <2>3. SubSeq(semQueue, Len(semQueue) + 1, Len(semQueue)) = <<>>
      BY <1>0, SubSeqProperties, EmptySeq
    <2> HIDE DEF h
    <2> QED BY <1>9, <2>2, <2>3
  <1>11. Waiters'
    <2>1. /\ Len(semQueue') = Len(semQueue) - h
          /\ \A i \in 1 .. Len(semQueue) - h : semQueue'[i] = semQueue[i + h]
      <3> HIDE DEF h
      <3>1. CASE h = Len(semQueue)
        <4>1. SubSeq(semQueue, h + 1, Len(semQueue)) = <<>>
          BY <1>0, <3>1, SubSeqProperties, EmptySeq
        <4> QED BY <1>0, <1>9, <3>1, <4>1
      <3>2. CASE h < Len(semQueue)
        BY <1>0, <1>1, <1>9, <3>2, SubSeqProperties
      <3> QED BY <1>0, <1>1, <3>1, <3>2
    <2>2. \A i \in 1 .. Len(semQueue) - h : i + h \in 1 .. Len(semQueue)
      <3> HIDE DEF h
      <3> QED BY <1>0, <1>1
    <2>3. ASSUME NEW i \in 1 .. Len(semQueue'), NEW j \in 1 .. Len(semQueue'),
                 semQueue'[i] = semQueue'[j]
          PROVE  i = j
      <3>1. i + h = j + h
        BY <2>1, <2>2, <2>3 DEF LZInv, Waiters
      <3> HIDE DEF h
      <3> QED BY <1>0, <1>1, <2>1, <3>1
    <2>4. ASSUME NEW i \in 1 .. Len(semQueue')
          PROVE  call'[semQueue'[i]] = "acquiring"
      <3>1. i + h \in 1 .. Len(semQueue) /\ semQueue'[i] = semQueue[i + h] /\ i > 0
        <4> HIDE DEF h
        <4> QED BY <2>1, <2>2
      <3>2. \A k \in 1 .. h : k \in 1 .. Len(semQueue) /\ k # i + h
        <4> HIDE DEF h
        <4> QED BY <1>0, <1>1, <3>1
      <3>3. ~ \E k \in 1 .. h : semQueue[k] = semQueue[i + h]
        BY <3>1, <3>2 DEF LZInv, Waiters
      <3>4. semQueue[i + h] \in Items /\ c[semQueue[i + h]] = "acquiring"
        BY <3>1, <1>3
      <3> QED BY <3>1, <3>3, <3>4 DEF Release
    <2> QED BY <2>3, <2>4 DEF Waiters
  <1>12. Cardinality(Granted') \in Nat /\ available' + Cardinality(Granted') = available + n + Cardinality(G)
    <2> HIDE DEF h, G
    <2> QED BY <1>0, <1>1, <1>6, <1>7, <1>8
  <1> QED BY <1>7, <1>10, <1>11, <1>12

\* A cancelled wait leaves the other waiters in the semaphore's queue.
LEMMA RemoveAtType ==
    ASSUME NEW S, NEW s \in Seq(S), NEW i \in DOMAIN s
    PROVE  RemoveAt(s, i) \in Seq(S)
  <1>1. i \in 1 .. Len(s) /\ Len(s) \in Nat /\ \A j \in 1 .. Len(s) : s[j] \in S
    BY LenProperties, ElementOfSeq
  <1>2. SubSeq(s, 1, i - 1) \in Seq(S)
    BY <1>1, SubSeqProperties
  <1>3. SubSeq(s, i + 1, Len(s)) \in Seq(S)
    BY <1>1, SubSeqProperties
  <1> QED BY <1>2, <1>3, ConcatProperties DEF RemoveAt

\* Taking one call out of the wait list keeps the others, each once.
LEMMA RemoveWaiter ==
    ASSUME LZInv, NEW i \in DOMAIN semQueue, semQueue' = RemoveAt(semQueue, i),
           call' = [call EXCEPT ![semQueue[i]] = "cancelled"]
    PROVE  Waiters'
  <1>0. /\ semQueue \in Seq(Items) /\ Len(semQueue) \in Nat /\ DOMAIN semQueue = 1 .. Len(semQueue)
        /\ i \in 1 .. Len(semQueue) /\ \A j \in 1 .. Len(semQueue) : semQueue[j] \in Items
    BY LenProperties, ElementOfSeq DEF LZInv, TypeOK
  <1> DEFINE a == SubSeq(semQueue, 1, i - 1)
             b == SubSeq(semQueue, i + 1, Len(semQueue))
             at(k) == IF k < i THEN k ELSE k + 1
  <1>1. /\ a \in Seq(Items) /\ Len(a) = i - 1 /\ \A k \in 1 .. (i - 1) : a[k] = semQueue[k]
    BY <1>0, SubSeqProperties, Z3T(30)
  <1>2. /\ b \in Seq(Items) /\ Len(b) = Len(semQueue) - i
        /\ \A k \in 1 .. (Len(semQueue) - i) : b[k] = semQueue[k + i]
    BY <1>0, SubSeqProperties, Z3T(30)
  <1>3. semQueue' = a \o b
    BY DEF RemoveAt
  <1>4. /\ Len(semQueue') = Len(semQueue) - 1
        /\ \A k \in 1 .. Len(semQueue') : semQueue'[k] = semQueue[at(k)]
    <2> HIDE DEF a, b
    <2>1. /\ Len(a \o b) = Len(a) + Len(b)
          /\ \A k \in 1 .. (Len(a) + Len(b)) : (a \o b)[k] = IF k <= Len(a) THEN a[k] ELSE b[k - Len(a)]
      BY <1>1, <1>2, ConcatProperties
    <2>2. Len(a \o b) = Len(semQueue) - 1
      BY <1>0, <1>1, <1>2, <2>1
    <2>3. ASSUME NEW k \in 1 .. (Len(semQueue) - 1) PROVE (a \o b)[k] = semQueue[at(k)]
      <3>1. k \in 1 .. (Len(a) + Len(b))
        BY <1>0, <1>1, <1>2
      <3>2. CASE k < i
        <4>1. k <= Len(a) /\ k \in 1 .. (i - 1) /\ at(k) = k
          BY <1>0, <1>1, <3>2
        <4> QED BY <1>1, <2>1, <3>1, <4>1
      <3>3. CASE ~ (k < i)
        <4>1. /\ ~ (k <= Len(a)) /\ k - Len(a) \in 1 .. (Len(semQueue) - i)
              /\ at(k) = (k - Len(a)) + i
          BY <1>0, <1>1, <3>3
        <4> HIDE DEF at
        <4> QED BY <1>2, <2>1, <3>1, <4>1
      <3> QED BY <3>2, <3>3
    <2> HIDE DEF at
    <2> QED BY <1>3, <2>2, <2>3
  <1>5. /\ \A k \in 1 .. Len(semQueue') : at(k) \in 1 .. Len(semQueue) /\ at(k) # i
        /\ \A k, l \in 1 .. Len(semQueue') : at(k) = at(l) => k = l
    BY <1>0, <1>4
  <1> HIDE DEF at, a, b
  <1>6. \A k, l \in 1 .. Len(semQueue') : semQueue'[k] = semQueue'[l] => k = l
    BY <1>4, <1>5 DEF LZInv, Waiters
  <1>7. ASSUME NEW k \in 1 .. Len(semQueue') PROVE call'[semQueue'[k]] = "acquiring"
    <2>1. semQueue[at(k)] # semQueue[i] /\ call[semQueue[at(k)]] = "acquiring" /\ semQueue[at(k)] \in Items
      BY <1>0, <1>5 DEF LZInv, Waiters
    <2> QED BY <1>4, <2>1 DEF LZInv, TypeOK
  <1> QED BY <1>6, <1>7 DEF Waiters

\* The permits of a step that touches neither the semaphore nor its callers.
LEMMA SameSemaphore ==
    ASSUME LZInv, UNCHANGED semVars
    PROVE  IsFiniteSet(Granted') /\ Waiters' /\ Granted' = Granted
  BY DEF LZInv, Waiters, Granted, semVars

\* Every step keeps the types, conserves the permits and keeps the wait list.
LEMMA LZInvStep == LZInv /\ [Next]_vars => LZInv'
  <1> SUFFICES ASSUME LZInv, [Next]_vars PROVE LZInv'
    OBVIOUS
  <1> USE DEF TypeOK
  <1>t. TypeOK
    BY DEF LZInv
  <1>p. /\ permits = Len(queue) + Len(observed)
        /\ available + Cardinality(Granted) + permits = MaxInflight
        /\ available > 0 => semQueue = <<>>
        /\ Cardinality(Granted) \in Nat /\ IsFiniteSet(Granted)
        /\ Len(queue) \in Nat /\ Len(observed) \in Nat /\ MaxInflight \in Nat
    BY FS_CardinalityType, LenProperties, MaxInflightAssumption DEF LZInv, PermitsConserved
  <1>1. ASSUME NEW x \in Items, AddStart(x) PROVE LZInv'
    <2>0. UNCHANGED <<queue, observed, permits, obsPc, stored, added, taken>> /\ call[x] = "new"
      BY <1>1 DEF AddStart, lzVars, obsVars
    <2>1. CASE available > 0
      <3>1. /\ available' = available - 1 /\ semQueue' = semQueue
            /\ call' = [call EXCEPT ![x] = "granted"]
        BY <1>1, <2>1 DEF AddStart
      <3>2. Granted' = Granted \cup {x} /\ x \notin Granted
        BY <1>t, <2>0, <3>1 DEF Granted
      <3>3. IsFiniteSet(Granted') /\ Cardinality(Granted') = Cardinality(Granted) + 1
        BY <1>p, <3>2, FS_AddElement
      <3>4. TypeOK'
        BY <1>t, <2>0, <2>1, <3>1 DEF CallStates
      <3>5. PermitsConserved'
        BY <1>t, <1>p, <2>0, <2>1, <3>1, <3>3 DEF PermitsConserved
      <3>6. Waiters'
        BY <1>p, <2>1, <3>1 DEF Waiters
      <3> QED BY <3>3, <3>4, <3>5, <3>6 DEF LZInv
    <2>2. CASE ~ (available > 0)
      <3>1. /\ semQueue' = Append(semQueue, x) /\ available' = available
            /\ call' = [call EXCEPT ![x] = "acquiring"]
        BY <1>1, <2>2 DEF AddStart
      <3>2. Granted' = Granted
        BY <1>t, <2>0, <3>1 DEF Granted
      <3>3. TypeOK'
        <4>1. call' \in [Items -> CallStates]
          BY <1>t, <3>1 DEF CallStates
        <4>2. semQueue' \in Seq(Items)
          BY <1>t, <3>1, AppendProperties
        <4> QED BY <1>t, <2>0, <3>1, <4>1, <4>2
      <3>4. PermitsConserved'
        BY <1>t, <1>p, <2>0, <2>2, <3>1, <3>2 DEF PermitsConserved
      <3>5. Waiters'
        <4>1. /\ Len(semQueue') = Len(semQueue) + 1 /\ Len(semQueue) \in Nat
              /\ \A i \in 1 .. Len(semQueue) : semQueue'[i] = semQueue[i] /\ semQueue[i] \in Items
              /\ semQueue'[Len(semQueue) + 1] = x
          BY <1>t, <3>1, AppendProperties, LenProperties, ElementOfSeq
        <4>2. \A i \in 1 .. Len(semQueue) : semQueue[i] # x /\ call'[semQueue[i]] = "acquiring"
          BY <1>t, <2>0, <3>1, <4>1 DEF LZInv, Waiters
        <4>3. call'[x] = "acquiring"
          BY <1>t, <3>1
        <4>4. ASSUME NEW i \in 1 .. Len(semQueue'), NEW j \in 1 .. Len(semQueue'),
                     semQueue'[i] = semQueue'[j]
              PROVE  i = j
          <5>1. \A k \in 1 .. Len(semQueue') : k \in 1 .. Len(semQueue) \/ k = Len(semQueue) + 1
            BY <4>1
          <5>2. CASE i \in 1 .. Len(semQueue) /\ j \in 1 .. Len(semQueue)
            BY <4>1, <4>4, <5>2 DEF LZInv, Waiters
          <5>3. CASE i = Len(semQueue) + 1 \/ j = Len(semQueue) + 1
            BY <4>1, <4>2, <4>4, <5>1, <5>3
          <5> QED BY <5>1, <5>2, <5>3
        <4>5. ASSUME NEW i \in 1 .. Len(semQueue') PROVE call'[semQueue'[i]] = "acquiring"
          <5>1. i \in 1 .. Len(semQueue) \/ i = Len(semQueue) + 1
            BY <4>1
          <5> QED BY <4>1, <4>2, <4>3, <5>1
        <4> QED BY <4>4, <4>5 DEF Waiters
      <3> QED BY <1>p, <3>2, <3>3, <3>4, <3>5 DEF LZInv
    <2> QED BY <2>1, <2>2
  <1>2. ASSUME NEW x \in Items, AddPush(x) PROVE LZInv'
    <2>1. TypeOK'
      BY <1>2, <1>t DEF AddPush, Add, NotifyOne, obsVars, CallStates, ObserverStates
    <2>2. /\ call[x] = "granted" /\ call' = [call EXCEPT ![x] = "returned"]
          /\ UNCHANGED <<available, semQueue, observed>>
          /\ queue' = Append(queue, x) /\ permits' = permits + 1
      BY <1>2 DEF AddPush, Add
    <2>3. Granted' = Granted \ {x} /\ x \in Granted
      BY <1>t, <2>2 DEF Granted
    <2>4. IsFiniteSet(Granted') /\ Cardinality(Granted') = Cardinality(Granted) - 1
      BY <1>p, <2>3, FS_RemoveElement
    <2>5. Len(queue') = Len(queue) + 1
      BY <1>t, <2>2, AppendProperties
    <2>6. PermitsConserved'
      BY <1>t, <1>p, <2>2, <2>4, <2>5 DEF PermitsConserved
    <2>7. Waiters'
      BY <1>t, <2>2 DEF LZInv, Waiters
    <2> QED BY <2>1, <2>4, <2>6, <2>7 DEF LZInv
  <1>3. ASSUME NEW x \in Items, AddCancel(x) PROVE LZInv'
    <2>0. UNCHANGED <<queue, observed, permits, obsPc, stored, added, taken>>
      BY <1>3 DEF AddCancel, lzVars, obsVars
    <2>1. CASE /\ call[x] = "acquiring"
               /\ call' = [call EXCEPT ![x] = "cancelled"]
               /\ \E i \in DOMAIN semQueue : semQueue[i] = x /\ semQueue' = RemoveAt(semQueue, i)
               /\ UNCHANGED available
      <3>1. PICK i \in DOMAIN semQueue : semQueue[i] = x /\ semQueue' = RemoveAt(semQueue, i)
        BY <2>1
      <3>2. semQueue' \in Seq(Items)
        BY <1>t, <3>1, RemoveAtType
      <3>3. TypeOK'
        BY <1>t, <2>0, <2>1, <3>2 DEF CallStates
      <3>4. Waiters'
        BY <2>1, <3>1, RemoveWaiter
      <3>5. Granted' = Granted
        BY <1>t, <2>1 DEF Granted
      <3>6. semQueue # <<>>
        BY <3>1
      <3>7. PermitsConserved'
        BY <1>t, <1>p, <2>0, <2>1, <3>5, <3>6 DEF PermitsConserved
      <3> QED BY <1>p, <3>3, <3>4, <3>5, <3>7 DEF LZInv
    <2>2. CASE call[x] = "granted" /\ Release(1, [call EXCEPT ![x] = "cancelled"])
      <3> DEFINE c == [call EXCEPT ![x] = "cancelled"]
                 G == {y \in Items : c[y] = "granted"}
      <3>1. c \in [Items -> CallStates]
        BY <1>t DEF CallStates
      <3>2. TypeOK'
        <4>1. available' \in Nat /\ semQueue' \in Seq(Items) /\ call' \in [Items -> CallStates]
          BY <1>t, <2>2, <3>1, ReleaseType
        <4> QED BY <1>t, <2>0, <4>1
      <3>3. G = Granted \ {x} /\ x \in Granted
        BY <1>t, <2>2 DEF Granted
      <3>4. IsFiniteSet(G) /\ Cardinality(G) = Cardinality(Granted) - 1
        BY <1>p, <3>3, FS_RemoveElement
      <3>5. \A i \in 1 .. Len(semQueue) : c[semQueue[i]] = "acquiring"
        BY <1>t, <2>2 DEF LZInv, Waiters
      <3> HIDE DEF c
      <3>6. /\ IsFiniteSet(Granted') /\ Cardinality(Granted') \in Nat
            /\ available' + Cardinality(Granted') = available + 1 + Cardinality(G)
            /\ available' > 0 => semQueue' = <<>>
            /\ Waiters'
        BY <2>2, <3>1, <3>4, <3>5, ReleaseCount DEF c
      <3> HIDE DEF G
      <3>7. PermitsConserved'
        BY <1>t, <1>p, <2>0, <3>2, <3>4, <3>6 DEF PermitsConserved
      <3> QED BY <3>2, <3>6, <3>7 DEF LZInv
    <2> QED BY <1>3, <2>1, <2>2 DEF AddCancel
  <1>4. ASSUME UNCHANGED semVars, TypeOK', permits' = permits,
               permits' = Len(queue') + Len(observed')
        PROVE  LZInv'
    BY <1>4, <1>p, SameSemaphore DEF LZInv, PermitsConserved, semVars
  <1>5. CASE ObserveStart \/ ObserveAwait \/ ObserveWake \/ ObserveCancel
    BY <1>5, <1>4, <1>t, <1>p
       DEF ObserveStart, ObserveAwait, ObserveWake, ObserveCancel, lzVars, semVars, ObserverStates
  <1>6. CASE ObserveCheck
    <2>1. CASE Observe /\ obsPc' = "idle"
      <3>1. /\ queue' \in Seq(Items) /\ Len(queue') = Len(queue) - 1
            /\ observed' \in Seq(Items) /\ Len(observed') = Len(observed) + 1
        BY <1>t, <2>1, HeadTailProperties, AppendProperties DEF Observe
      <3> QED BY <1>6, <1>4, <1>t, <1>p, <2>1, <3>1 DEF ObserveCheck, Observe, semVars, ObserverStates
    <2>2. CASE obsPc' = "empty" /\ UNCHANGED lzVars
      BY <1>6, <1>4, <1>t, <1>p, <2>2 DEF ObserveCheck, lzVars, semVars, ObserverStates
    <2> QED BY <1>6, <2>1, <2>2 DEF ObserveCheck
  <1>7. \A n \in Nat : Release(n, call) =>
            /\ IsFiniteSet(Granted') /\ Cardinality(Granted') \in Nat
            /\ available' + Cardinality(Granted') = available + n + Cardinality(Granted)
            /\ available' > 0 => semQueue' = <<>>
            /\ Waiters'
    <2> SUFFICES ASSUME NEW n \in Nat, Release(n, call)
                 PROVE  /\ IsFiniteSet(Granted') /\ Cardinality(Granted') \in Nat
                        /\ available' + Cardinality(Granted') = available + n + Cardinality(Granted)
                        /\ available' > 0 => semQueue' = <<>>
                        /\ Waiters'
      OBVIOUS
    <2>1. \A i \in 1 .. Len(semQueue) : call[semQueue[i]] = "acquiring"
      BY DEF LZInv, Waiters
    <2>2. Granted = {x \in Items : call[x] = "granted"}
      BY DEF Granted
    <2> QED BY <1>t, <1>p, <2>1, <2>2, ReleaseCount
  <1>8. CASE AckRemove
    <2>1. /\ observed' \in Seq(Items) /\ Len(observed') = Len(observed) - 1
          /\ Head(observed) \in Items
          /\ permits' \in Nat /\ permits' = permits - 1 /\ queue' = queue
      BY <1>8, <1>t, <1>p, HeadTailProperties DEF AckRemove, RemoveObserved
    <2>2. taken' \in Seq(Items)
      BY <1>8, <1>t, <2>1 DEF AckRemove
    <2>3. available' \in Nat /\ semQueue' \in Seq(Items) /\ call' \in [Items -> CallStates]
      BY <1>8, <1>t, ReleaseType DEF AckRemove
    <2>4. TypeOK'
      BY <1>8, <1>t, <2>1, <2>2, <2>3 DEF AckRemove, obsVars
    <2>5. PermitsConserved' /\ IsFiniteSet(Granted') /\ Waiters'
      <3>1. Release(1, call)
        BY <1>8 DEF AckRemove
      <3> QED BY <1>t, <1>p, <1>7, <2>1, <2>3, <3>1 DEF PermitsConserved
    <2> QED BY <2>4, <2>5 DEF LZInv
  <1>9. CASE Reset
    <2>1. queue' \in Seq(Items) /\ Len(queue') = Len(observed) + Len(queue)
      BY <1>9, <1>t, ConcatProperties DEF Reset, ResetObserve
    <2> QED BY <1>9, <1>4, <1>t, <1>p, <2>1 DEF Reset, ResetObserve, semVars, obsVars
  <1>10. CASE Drain
    <2>1. taken' \in Seq(Items)
      BY <1>10, <1>t, ConcatProperties DEF Drain, AllItems
    <2>2. available' \in Nat /\ semQueue' \in Seq(Items) /\ call' \in [Items -> CallStates]
      BY <1>10, <1>t, ReleaseType DEF Drain
    <2>3. TypeOK'
      BY <1>10, <1>t, <2>1, <2>2 DEF Drain, RemoveAll, obsVars
    <2>4. PermitsConserved' /\ IsFiniteSet(Granted') /\ Waiters'
      <3>1. Release(permits, call) /\ queue' = <<>> /\ observed' = <<>> /\ permits' = 0
        BY <1>10 DEF Drain, RemoveAll
      <3> QED BY <1>t, <1>p, <1>7, <2>2, <3>1 DEF PermitsConserved
    <2> QED BY <2>3, <2>4 DEF LZInv
  <1>11. CASE UNCHANGED vars
    BY <1>11, <1>4, <1>t, <1>p DEF vars, lzVars, semVars, obsVars
  <1> QED
    BY <1>1, <1>2, <1>3, <1>5, <1>6, <1>8, <1>9, <1>10, <1>11 DEF Next, Quiet

\* A new zone, with MaxInflight free permits, satisfies them.
LEMMA LZInvInit == Init => LZInv
  <1> SUFFICES ASSUME Init PROVE LZInv
    OBVIOUS
  <1>1. Granted = {}
    BY DEF Init, Granted
  <1>2. IsFiniteSet(Granted) /\ Cardinality(Granted) = 0
    BY <1>1, FS_EmptySet
  <1>3. TypeOK
    BY MaxInflightAssumption DEF Init, LZInit, TypeOK, CallStates, ObserverStates
  <1> QED
    BY <1>2, <1>3, MaxInflightAssumption DEF Init, LZInit, LZInv, PermitsConserved, Waiters

\* The facts above as an invariant of the specification.
LEMMA LZInvariant == Spec => []LZInv
  BY LZInvInit, LZInvStep, PTL DEF Spec

\* Every variable of the landing zone and of its callers keeps its type.
THEOREM TypeCorrect == Spec => []TypeOK
  BY LZInvariant, PTL DEF LZInv

\* Backpressure bookkeeping: whatever is observed, acknowledged, reset, drained
\* or cancelled, the zone holds one semaphore permit per item, and what is free,
\* granted and held adds up to the capacity.
THEOREM PermitPerItem == Spec => []PermitsConserved
  BY LZInvariant, PTL DEF LZInv

------------------------------------------------------------------------------
(* Order *)

\* Nothing is lost, duplicated or reordered between add() and the moment an item
\* is acknowledged or drained, across any number of reconnects.
THEOREM OrderPreserved == Spec => []FifoNoLoss
  <1>1. Init => FifoNoLoss
    BY DEF Init, LZInit, FifoNoLoss
  <1>2. LZInv /\ FifoNoLoss /\ [Next]_vars => FifoNoLoss'
    <2> SUFFICES ASSUME LZInv, FifoNoLoss, [Next]_vars PROVE FifoNoLoss'
      OBVIOUS
    <2> USE DEF LZInv, TypeOK, FifoNoLoss
    <2>0. taken \o observed \in Seq(Items)
      BY ConcatProperties
    <2>b. (taken \o observed) \o queue = taken \o (observed \o queue)
      BY ConcatAssoc
    <2>1. ASSUME NEW x \in Items, AddStart(x) PROVE FifoNoLoss'
      BY <2>1 DEF AddStart, lzVars
    <2>2. ASSUME NEW x \in Items, AddPush(x) PROVE FifoNoLoss'
      <3>1. (taken \o observed) \o Append(queue, x) = Append((taken \o observed) \o queue, x)
        BY <2>0, AppendRight
      <3> QED BY <2>2, <3>1 DEF AddPush, Add
    <2>3. ASSUME NEW x \in Items, AddCancel(x) PROVE FifoNoLoss'
      BY <2>3 DEF AddCancel, lzVars
    <2>4. CASE ObserveStart \/ ObserveAwait \/ ObserveWake \/ ObserveCancel
      BY <2>4 DEF ObserveStart, ObserveAwait, ObserveWake, ObserveCancel, lzVars
    <2>5. CASE ObserveCheck
      <3>1. CASE Observe
        <4>1. Head(queue) \in Items /\ Tail(queue) \in Seq(Items) /\ queue # <<>>
          BY <3>1, HeadTailProperties DEF Observe
        <4>2. Append(observed, Head(queue)) \in Seq(Items)
          BY <4>1, AppendProperties
        <4>3. (taken \o Append(observed, Head(queue))) \o Tail(queue)
                = taken \o (Append(observed, Head(queue)) \o Tail(queue))
          <5>1. taken \in Seq(Items)
            OBVIOUS
          <5> HIDE DEF TypeOK, LZInv, FifoNoLoss
          <5> QED BY ConcatAssoc, <4>1, <4>2, <5>1, ZenonT(30)
        <4>4. Append(observed, Head(queue)) \o Tail(queue) = observed \o queue
          BY <4>1, MoveHead
        <4> QED BY <2>5, <3>1, <4>3, <4>4, <2>b DEF ObserveCheck, Observe
      <3>2. CASE UNCHANGED lzVars
        BY <2>5, <3>2 DEF ObserveCheck, lzVars
      <3> QED BY <2>5, <3>1, <3>2 DEF ObserveCheck
    <2>6. CASE AckRemove
      <3>1. Append(taken, Head(observed)) \o Tail(observed) = taken \o observed
        BY <2>6, MoveHead DEF AckRemove, RemoveObserved
      <3> QED BY <2>6, <3>1 DEF AckRemove, RemoveObserved
    <2>7. CASE Reset
      <3>1. taken \o <<>> = taken
        BY ConcatEmptySeq
      <3> QED BY <2>7, <3>1, <2>b DEF Reset, ResetObserve
    <2>8. CASE Drain
      <3>2. taken \o (observed \o queue) \in Seq(Items)
        BY ConcatProperties
      <3>3. ((taken \o (observed \o queue)) \o <<>>) \o <<>> = taken \o (observed \o queue)
        BY <3>2, ConcatEmptySeq
      <3> QED BY <2>8, <2>b, <3>3 DEF Drain, RemoveAll, AllItems
    <2>9. CASE UNCHANGED vars
      BY <2>9 DEF vars, lzVars
    <2> QED BY <2>1, <2>2, <2>3, <2>4, <2>5, <2>6, <2>7, <2>8, <2>9 DEF Next, Quiet
  <1> QED BY <1>1, <1>2, LZInvariant, PTL DEF Spec

------------------------------------------------------------------------------
(* Wake-ups *)

\* observe() is never left parked on an item, whichever way the check, the await
\* and a concurrent add() interleave.
THEOREM WakeupNotLost == Spec => []NoLostWakeup
  <1>1. Init => NoLostWakeup
    BY DEF Init, LZInit, NoLostWakeup
  <1>2. LZInv /\ NoLostWakeup /\ [Next]_vars => NoLostWakeup'
    <2> SUFFICES ASSUME LZInv, NoLostWakeup, [Next]_vars PROVE NoLostWakeup'
      OBVIOUS
    <2> USE DEF LZInv, TypeOK, NoLostWakeup
    <2>1. ASSUME NEW x \in Items, AddStart(x) PROVE NoLostWakeup'
      BY <2>1 DEF AddStart, lzVars, obsVars
    <2>2. ASSUME NEW x \in Items, AddPush(x) PROVE NoLostWakeup'
      BY <2>2 DEF AddPush, NotifyOne
    <2>3. ASSUME NEW x \in Items, AddCancel(x) PROVE NoLostWakeup'
      BY <2>3 DEF AddCancel, lzVars, obsVars
    <2>4. CASE ObserveStart \/ ObserveWake \/ ObserveCancel
      BY <2>4 DEF ObserveStart, ObserveWake, ObserveCancel, lzVars
    <2>5. CASE ObserveCheck
      BY <2>5 DEF ObserveCheck, lzVars
    <2>6. CASE ObserveAwait
      BY <2>6 DEF ObserveAwait, lzVars
    <2>7. CASE AckRemove
      BY <2>7 DEF AckRemove, RemoveObserved, obsVars
    <2>8. CASE Reset
      BY <2>8 DEF Reset, obsVars
    <2>9. CASE Drain
      BY <2>9 DEF Drain, RemoveAll, obsVars
    <2>10. CASE UNCHANGED vars
      BY <2>10 DEF vars, lzVars, obsVars
    <2> QED BY <2>1, <2>2, <2>3, <2>4, <2>5, <2>6, <2>7, <2>8, <2>9, <2>10 DEF Next, Quiet
  <1> QED BY <1>1, <1>2, LZInvariant, PTL DEF Spec
==============================================================================
