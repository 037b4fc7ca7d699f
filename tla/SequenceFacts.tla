---------------------------- MODULE SequenceFacts ----------------------------
(***************************************************************************)
(* Facts about sequences that the proofs of the streams share: what moving *)
(* an item between two queues, appending and draining do to the items, to  *)
(* their order and to their number.                                        *)
(***************************************************************************)
EXTENDS Integers, Sequences, SequencesExt, SequenceTheorems, TLAPS

\* The items come in increasing order, so none comes twice.
Increasing(s) == \A i, j \in 1 .. Len(s) : i < j => s[i] < s[j]

------------------------------------------------------------------------------
(* Moving items *)

\* Moving the first item of t to the end of s leaves s \o t as it was: what
\* observe() does to the zone, and remove_observed() to the history.
LEMMA MoveHead ==
    ASSUME NEW S, NEW s \in Seq(S), NEW t \in Seq(S), t # <<>>
    PROVE  Append(s, Head(t)) \o Tail(t) = s \o t
  <1>1. Head(t) \in S /\ Tail(t) \in Seq(S) /\ Len(Tail(t)) = Len(t) - 1 /\ Len(t) \in Nat
    BY HeadTailProperties, LenProperties
  <1>2. \A i \in 1 .. Len(t) - 1 : Tail(t)[i] = t[i + 1]
    BY HeadTailProperties
  <1> DEFINE u == Append(s, Head(t))
  <1>3. /\ u \in Seq(S) /\ Len(u) = Len(s) + 1 /\ Len(s) \in Nat
        /\ \A i \in 1 .. Len(s) : u[i] = s[i]
        /\ u[Len(s) + 1] = t[1]
    BY <1>1, AppendProperties, LenProperties
  <1>4. /\ u \o Tail(t) \in Seq(S) /\ Len(u \o Tail(t)) = Len(s) + Len(t)
        /\ \A i \in 1 .. Len(s) + Len(t) :
              (u \o Tail(t))[i] = IF i <= Len(s) + 1 THEN u[i] ELSE Tail(t)[i - (Len(s) + 1)]
    BY <1>1, <1>3, ConcatProperties
  <1>5. /\ s \o t \in Seq(S) /\ Len(s \o t) = Len(s) + Len(t)
        /\ \A i \in 1 .. Len(s) + Len(t) :
              (s \o t)[i] = IF i <= Len(s) THEN s[i] ELSE t[i - Len(s)]
    BY ConcatProperties
  <1>6. ASSUME NEW i \in 1 .. Len(s) + Len(t) PROVE (u \o Tail(t))[i] = (s \o t)[i]
    <2>1. CASE i <= Len(s)
      BY <2>1, <1>3, <1>4, <1>5
    <2>2. CASE i = Len(s) + 1
      BY <2>2, <1>3, <1>4, <1>5
    <2>3. CASE i > Len(s) + 1
      <3> HIDE DEF u
      <3>1. i - (Len(s) + 1) \in 1 .. Len(t) - 1
        BY <2>3, <1>1, <1>3
      <3>2. (u \o Tail(t))[i] = Tail(t)[i - (Len(s) + 1)]
        BY <2>3, <1>3, <1>4
      <3>3. Tail(t)[i - (Len(s) + 1)] = t[(i - (Len(s) + 1)) + 1]
        BY <3>1, <1>2
      <3>4. (i - (Len(s) + 1)) + 1 = i - Len(s)
        BY <2>3, <1>3
      <3>5. (s \o t)[i] = t[i - Len(s)]
        BY <2>3, <1>3, <1>5
      <3> QED BY <3>2, <3>3, <3>4, <3>5
    <2> QED BY <2>1, <2>2, <2>3, <1>3
  <1>7. u \o Tail(t) = s \o t
    <2> HIDE DEF u
    <2> QED BY <1>4, <1>5, <1>6, SeqEqual
  <1> QED BY <1>7

\* Appending to the second of two sequences appends to their concatenation.
LEMMA AppendRight ==
    ASSUME NEW S, NEW s \in Seq(S), NEW t \in Seq(S), NEW x \in S
    PROVE  s \o Append(t, x) = Append(s \o t, x)
  <1>1. Append(t, x) = t \o <<x>> /\ <<x>> \in Seq(S)
    BY AppendIsConcat
  <1>2. s \o t \in Seq(S)
    BY ConcatProperties
  <1>3. Append(s \o t, x) = (s \o t) \o <<x>>
    BY <1>2, AppendIsConcat
  <1> QED BY <1>1, <1>3, ConcatAssociative

\* The first item of a concatenation is the first item of a nonempty first part.
LEMMA HeadConcat ==
    ASSUME NEW S, NEW s \in Seq(S), NEW t \in Seq(S), s # <<>>
    PROVE  /\ s \o t # <<>> /\ Head(s \o t) = Head(s)
           /\ Tail(s \o t) = Tail(s) \o t
  <1> DEFINE u == s \o t
             m == Len(s)
             n == Len(t)
  <1>1. /\ u \in Seq(S) /\ Len(u) = m + n
        /\ \A i \in 1 .. m + n : u[i] = IF i <= m THEN s[i] ELSE t[i - m]
    BY ConcatProperties
  <1>2. m \in Nat \ {0} /\ n \in Nat
    BY LenProperties, EmptySeq
  <1>3. u # <<>> /\ Head(u) = u[1] /\ Head(s) = s[1] /\ u[1] = s[1]
    <2> HIDE DEF u, m, n
    <2>1. u # <<>>
      BY <1>1, <1>2, EmptySeq
    <2> QED BY <1>1, <1>2, <2>1, HeadTailProperties
  <1>4. /\ Tail(s) \in Seq(S) /\ Len(Tail(s)) = m - 1
        /\ \A i \in 1 .. m - 1 : Tail(s)[i] = s[i + 1]
    BY HeadTailProperties
  <1>5. /\ Tail(u) \in Seq(S) /\ Len(Tail(u)) = m + n - 1
        /\ \A i \in 1 .. m + n - 1 : Tail(u)[i] = u[i + 1]
    <2> HIDE DEF u, m, n
    <2>1. /\ Tail(u) \in Seq(S) /\ Len(Tail(u)) = Len(u) - 1
          /\ \A i \in 1 .. Len(u) - 1 : Tail(u)[i] = u[i + 1]
      BY <1>1, <1>3, HeadTailProperties
    <2> QED BY <1>1, <1>2, <2>1
  <1>6. /\ Tail(s) \o t \in Seq(S) /\ Len(Tail(s) \o t) = (m - 1) + n
        /\ \A i \in 1 .. (m - 1) + n :
              (Tail(s) \o t)[i] = IF i <= m - 1 THEN Tail(s)[i] ELSE t[i - (m - 1)]
    BY <1>4, ConcatProperties
  <1> HIDE DEF u, m, n
  <1>7. ASSUME NEW i \in 1 .. m + n - 1 PROVE Tail(u)[i] = (Tail(s) \o t)[i]
    <2>1. i + 1 \in 1 .. m + n /\ i \in 1 .. (m - 1) + n /\ (i + 1) - m = i - (m - 1)
      BY <1>2
    <2>2. (i <= m - 1 <=> i + 1 <= m) /\ (i <= m - 1 => i \in 1 .. m - 1)
      BY <1>2
    <2>3. CASE i <= m - 1
      BY <1>1, <1>4, <1>5, <1>6, <2>1, <2>2, <2>3
    <2>4. CASE ~(i <= m - 1)
      BY <1>1, <1>5, <1>6, <2>1, <2>2, <2>4
    <2> QED BY <2>3, <2>4
  <1>8. Tail(u) = Tail(s) \o t
    <2>1. Len(Tail(u)) = Len(Tail(s) \o t)
      BY <1>2, <1>5, <1>6
    <2> QED BY <1>5, <1>6, <1>7, <2>1, SeqEqual
  <1> QED BY <1>3, <1>8 DEF u

------------------------------------------------------------------------------
(* The set of items *)

\* An item of a sequence is at one of its positions.
LEMMA ItemAt ==
    ASSUME NEW S, NEW s \in Seq(S)
    PROVE  /\ ToSet(s) = {s[i] : i \in 1 .. Len(s)}
           /\ ToSet(s) \subseteq S
           /\ \A i \in 1 .. Len(s) : s[i] \in ToSet(s)
  BY LenProperties DEF ToSet

\* Only the empty sequence has no items.
LEMMA EmptySet ==
    /\ ToSet(<<>>) = {}
    /\ \A S : \A s \in Seq(S) : ToSet(s) = {} => s = <<>>
  <1>1. ToSet(<<>>) = {}
    BY DEF ToSet
  <1>2. ASSUME NEW S, NEW s \in Seq(S), ToSet(s) = {} PROVE s = <<>>
    <2>1. s # <<>> => 1 \in 1 .. Len(s)
      BY EmptySeq
    <2> QED BY <1>2, <2>1, ItemAt
  <1> QED BY <1>1, <1>2

\* Concatenation holds the items of both.
LEMMA ConcatSet ==
    ASSUME NEW S, NEW s \in Seq(S), NEW t \in Seq(S)
    PROVE  ToSet(s \o t) = ToSet(s) \cup ToSet(t)
  <1>1. /\ s \o t \in Seq(S) /\ Len(s \o t) = Len(s) + Len(t)
        /\ \A i \in 1 .. Len(s) + Len(t) :
              (s \o t)[i] = IF i <= Len(s) THEN s[i] ELSE t[i - Len(s)]
    BY ConcatProperties
  <1>2. Len(s) \in Nat /\ Len(t) \in Nat
    BY LenProperties
  <1>3. /\ ToSet(s) = {s[i] : i \in 1 .. Len(s)}
        /\ ToSet(t) = {t[i] : i \in 1 .. Len(t)}
        /\ ToSet(s \o t) = {(s \o t)[i] : i \in 1 .. Len(s) + Len(t)}
    BY <1>1, ItemAt
  <1>4. ASSUME NEW x \in ToSet(s \o t) PROVE x \in ToSet(s) \cup ToSet(t)
    <2>1. PICK i \in 1 .. Len(s) + Len(t) : x = (s \o t)[i]
      BY <1>3
    <2>2. CASE i <= Len(s)
      BY <1>1, <1>2, <1>3, <2>1, <2>2
    <2>3. CASE ~(i <= Len(s))
      <3>1. i - Len(s) \in 1 .. Len(t)
        BY <1>2, <2>3
      <3> QED BY <1>1, <1>3, <2>1, <2>3, <3>1
    <2> QED BY <2>2, <2>3
  <1>5. ASSUME NEW x \in ToSet(s) PROVE x \in ToSet(s \o t)
    <2>1. PICK i \in 1 .. Len(s) : x = s[i]
      BY <1>3
    <2>2. i \in 1 .. Len(s) + Len(t) /\ (s \o t)[i] = s[i]
      BY <1>1, <1>2
    <2> QED BY <1>3, <2>1, <2>2
  <1>6. ASSUME NEW x \in ToSet(t) PROVE x \in ToSet(s \o t)
    <2>1. PICK i \in 1 .. Len(t) : x = t[i]
      BY <1>3
    <2>2. Len(s) + i \in 1 .. Len(s) + Len(t) /\ ~(Len(s) + i <= Len(s)) /\ Len(s) + i - Len(s) = i
      BY <1>2
    <2>3. (s \o t)[Len(s) + i] = t[i]
      BY <1>1, <2>2
    <2> QED BY <1>3, <2>1, <2>2, <2>3
  <1> QED BY <1>4, <1>5, <1>6

\* Appending adds one item.
LEMMA AppendSet ==
    ASSUME NEW S, NEW s \in Seq(S), NEW x \in S
    PROVE  ToSet(Append(s, x)) = ToSet(s) \cup {x}
  <1>1. Append(s, x) = s \o <<x>> /\ <<x>> \in Seq(S)
    BY AppendIsConcat
  <1>2. ToSet(<<x>>) = {x}
    BY DEF ToSet
  <1>3. ToSet(s \o <<x>>) = ToSet(s) \cup ToSet(<<x>>)
    BY <1>1, ConcatSet, Zenon
  <1> QED BY <1>1, <1>2, <1>3, Zenon

\* A nonempty sequence has its first item and those of the rest.
LEMMA HeadTailSet ==
    ASSUME NEW S, NEW s \in Seq(S), s # <<>>
    PROVE  ToSet(s) = {Head(s)} \cup ToSet(Tail(s))
  <1>1. /\ Head(s) \in S /\ Tail(s) \in Seq(S) /\ Len(Tail(s)) = Len(s) - 1
        /\ \A i \in 1 .. Len(s) - 1 : Tail(s)[i] = s[i + 1]
    BY HeadTailProperties
  <1>2. Len(s) \in Nat \ {0} /\ Head(s) = s[1]
    BY EmptySeq, LenProperties
  <1>3. /\ ToSet(s) = {s[i] : i \in 1 .. Len(s)}
        /\ ToSet(Tail(s)) = {Tail(s)[i] : i \in 1 .. Len(s) - 1}
    BY <1>1, ItemAt
  <1>4. ASSUME NEW x \in ToSet(s) PROVE x \in {Head(s)} \cup ToSet(Tail(s))
    <2>1. PICK i \in 1 .. Len(s) : x = s[i]
      BY <1>3
    <2>2. CASE i = 1
      BY <1>2, <2>1, <2>2
    <2>3. CASE i # 1
      <3>1. i - 1 \in 1 .. Len(s) - 1 /\ (i - 1) + 1 = i
        BY <1>2, <2>3
      <3>2. Tail(s)[i - 1] = s[i]
        BY <1>1, <3>1
      <3> QED BY <1>3, <2>1, <3>1, <3>2
    <2> QED BY <2>2, <2>3
  <1>5. ASSUME NEW x \in ToSet(Tail(s)) PROVE x \in ToSet(s)
    <2>1. PICK i \in 1 .. Len(s) - 1 : x = Tail(s)[i]
      BY <1>3
    <2>2. i + 1 \in 1 .. Len(s) /\ Tail(s)[i] = s[i + 1]
      BY <1>1, <1>2
    <2> QED BY <1>3, <2>1, <2>2
  <1>6. Head(s) \in ToSet(s)
    BY <1>2, <1>3
  <1> QED BY <1>4, <1>5, <1>6

------------------------------------------------------------------------------
(* No item twice *)

\* A concatenation repeats nothing if neither part does and they share nothing.
LEMMA InjectiveConcat ==
    ASSUME NEW S, NEW s \in Seq(S), NEW t \in Seq(S)
    PROVE  IsInjective(s \o t) <=>
              IsInjective(s) /\ IsInjective(t) /\ ToSet(s) \cap ToSet(t) = {}
  <1> DEFINE u == s \o t
             m == Len(s)
             n == Len(t)
  <1>1. /\ u \in Seq(S) /\ Len(u) = m + n
        /\ \A i \in 1 .. m + n : u[i] = IF i <= m THEN s[i] ELSE t[i - m]
    BY ConcatProperties
  <1>2. /\ m \in Nat /\ n \in Nat
        /\ DOMAIN s = 1 .. m /\ DOMAIN t = 1 .. n /\ DOMAIN u = 1 .. m + n
    BY <1>1, LenProperties
  <1>3. /\ ToSet(s) = {s[i] : i \in 1 .. m}
        /\ ToSet(t) = {t[i] : i \in 1 .. n}
    BY ItemAt
  <1>4. /\ \A i \in 1 .. m : i \in 1 .. m + n /\ u[i] = s[i]
        /\ \A i \in 1 .. n : m + i \in 1 .. m + n /\ u[m + i] = t[i]
    <2>1. ASSUME NEW i \in 1 .. n PROVE m + i \in 1 .. m + n /\ u[m + i] = t[i]
      <3>1. m + i \in 1 .. m + n /\ ~(m + i <= m) /\ (m + i) - m = i
        BY <1>2
      <3> HIDE DEF u, m, n
      <3> QED BY <1>1, <3>1
    <2>2. ASSUME NEW i \in 1 .. m PROVE i \in 1 .. m + n /\ u[i] = s[i]
      <3> HIDE DEF u, m, n
      <3> QED BY <1>1, <1>2
    <2> QED BY <2>1, <2>2
  <1> HIDE DEF u, m, n
  <1>5. ASSUME IsInjective(u)
        PROVE  IsInjective(s) /\ IsInjective(t) /\ ToSet(s) \cap ToSet(t) = {}
    <2>1. \A i, j \in 1 .. m + n : u[i] = u[j] => i = j
      BY <1>2, <1>5 DEF IsInjective
    <2>2. IsInjective(s)
      BY <1>2, <1>4, <2>1 DEF IsInjective
    <2>3. IsInjective(t)
      <3>1. ASSUME NEW i \in 1 .. n, NEW j \in 1 .. n, t[i] = t[j] PROVE i = j
        <4>1. m + i = m + j
          BY <1>4, <2>1, <3>1
        <4> QED BY <1>2, <4>1
      <3> QED BY <1>2, <3>1 DEF IsInjective
    <2>4. ASSUME NEW x \in ToSet(s) \cap ToSet(t) PROVE FALSE
      <3>1. PICK i \in 1 .. m, j \in 1 .. n : x = s[i] /\ x = t[j]
        BY <1>3
      <3>2. i = m + j
        BY ZenonT(60), <1>4, <2>1, <3>1
      <3> QED BY <1>2, <3>2
    <2> QED BY <2>2, <2>3, <2>4
  <1>6. ASSUME IsInjective(s), IsInjective(t), ToSet(s) \cap ToSet(t) = {}
        PROVE  IsInjective(u)
    <2>1. ASSUME NEW i \in 1 .. m + n, NEW j \in 1 .. m + n, u[i] = u[j] PROVE i = j
      <3>0. /\ i <= m => i \in 1 .. m /\ u[i] = s[i] /\ u[i] \in ToSet(s)
            /\ j <= m => j \in 1 .. m /\ u[j] = s[j] /\ u[j] \in ToSet(s)
        BY <1>1, <1>2, <1>3
      <3>1. /\ ~(i <= m) => i - m \in 1 .. n /\ u[i] = t[i - m] /\ u[i] \in ToSet(t)
            /\ ~(j <= m) => j - m \in 1 .. n /\ u[j] = t[j - m] /\ u[j] \in ToSet(t)
        <4>1. ~(i <= m) => i - m \in 1 .. n
          BY <1>2
        <4>2. ~(j <= m) => j - m \in 1 .. n
          BY <1>2
        <4> QED BY <1>1, <1>3, <4>1, <4>2
      <3>2. CASE i <= m /\ j <= m
        BY <1>2, <1>6, <2>1, <3>0, <3>2 DEF IsInjective
      <3>3. CASE ~(i <= m) /\ ~(j <= m)
        <4>1. i - m = j - m
          BY <1>2, <1>6, <2>1, <3>1, <3>3 DEF IsInjective
        <4> QED BY <1>2, <4>1
      <3>4. CASE (i <= m /\ ~(j <= m)) \/ (~(i <= m) /\ j <= m)
        BY <1>6, <2>1, <3>0, <3>1, <3>4
      <3> QED BY <3>2, <3>3, <3>4, Zenon
    <2> QED BY <1>2, <2>1 DEF IsInjective
  <1> QED BY <1>5, <1>6 DEF u

\* Appending a new item repeats nothing.
LEMMA InjectiveAppend ==
    ASSUME NEW S, NEW s \in Seq(S), NEW x \in S
    PROVE  IsInjective(Append(s, x)) <=> (IsInjective(s) /\ x \notin ToSet(s))
  <1>1. Append(s, x) = s \o <<x>> /\ <<x>> \in Seq(S)
    BY AppendIsConcat
  <1>2. ToSet(<<x>>) = {x} /\ IsInjective(<<x>>)
    BY DEF ToSet, IsInjective
  <1>3. IsInjective(s \o <<x>>) <=>
            IsInjective(s) /\ IsInjective(<<x>>) /\ ToSet(s) \cap ToSet(<<x>>) = {}
    BY <1>1, InjectiveConcat, Zenon
  <1>4. (ToSet(s) \cap ToSet(<<x>>) = {}) <=> (x \notin ToSet(s))
    BY <1>2
  <1>5. IsInjective(Append(s, x)) <=> IsInjective(s \o <<x>>)
    BY <1>1, Zenon
  <1> QED
    BY <1>2, <1>3, <1>4, <1>5

\* The first item of a sequence that repeats nothing is not among the rest.
LEMMA InjectiveHead ==
    ASSUME NEW S, NEW s \in Seq(S), s # <<>>, IsInjective(s)
    PROVE  IsInjective(Tail(s)) /\ Head(s) \notin ToSet(Tail(s))
  <1>1. /\ Head(s) = s[1] /\ Tail(s) \in Seq(S) /\ Len(Tail(s)) = Len(s) - 1
        /\ Len(s) \in Nat /\ DOMAIN s = 1 .. Len(s) /\ DOMAIN Tail(s) = 1 .. Len(s) - 1
        /\ \A i \in 1 .. Len(s) - 1 : Tail(s)[i] = s[i + 1]
    BY HeadTailProperties, LenProperties
  <1>2. \A i, j \in 1 .. Len(s) : s[i] = s[j] => i = j
    BY <1>1 DEF IsInjective
  <1>3. ASSUME NEW i \in 1 .. Len(s) - 1, NEW j \in 1 .. Len(s) - 1, Tail(s)[i] = Tail(s)[j]
        PROVE  i = j
    <2>1. i + 1 \in 1 .. Len(s) /\ j + 1 \in 1 .. Len(s)
      BY <1>1
    <2>2. i + 1 = j + 1
      BY <1>1, <1>2, <1>3, <2>1
    <2> QED BY <2>2
  <1>4. ASSUME Head(s) \in ToSet(Tail(s)) PROVE FALSE
    <2>1. ToSet(Tail(s)) = {Tail(s)[i] : i \in 1 .. Len(s) - 1}
      BY <1>1, ItemAt
    <2>2. PICK i \in 1 .. Len(s) - 1 : Head(s) = Tail(s)[i]
      BY <1>4, <2>1
    <2>3. i + 1 \in 1 .. Len(s) /\ 1 \in 1 .. Len(s) /\ s[1] = s[i + 1]
      BY <1>1, <2>2
    <2>4. 1 = i + 1
      BY <1>2, <2>3
    <2> QED BY <2>4
  <1> QED BY <1>1, <1>3, <1>4 DEF IsInjective

------------------------------------------------------------------------------
(* Increasing order *)

\* Two increasing sequences follow each other if all of the first is below all of
\* the second.
LEMMA IncreasingConcat ==
    ASSUME NEW S \in SUBSET Int, NEW s \in Seq(S), NEW t \in Seq(S)
    PROVE  Increasing(s \o t) <=>
              (/\ Increasing(s) /\ Increasing(t)
               /\ \A x \in ToSet(s), y \in ToSet(t) : x < y)
  <1> DEFINE u == s \o t
             m == Len(s)
             n == Len(t)
  <1>1. /\ u \in Seq(S) /\ Len(u) = m + n
        /\ \A i \in 1 .. m + n : u[i] = IF i <= m THEN s[i] ELSE t[i - m]
    BY ConcatProperties
  <1>2. m \in Nat /\ n \in Nat
    BY LenProperties
  <1>3. /\ ToSet(s) = {s[i] : i \in 1 .. m}
        /\ ToSet(t) = {t[i] : i \in 1 .. n}
    BY ItemAt
  <1>4. /\ \A i \in 1 .. m : i \in 1 .. m + n /\ u[i] = s[i]
        /\ \A i \in 1 .. n : m + i \in 1 .. m + n /\ u[m + i] = t[i]
    <2>1. ASSUME NEW i \in 1 .. n PROVE m + i \in 1 .. m + n /\ u[m + i] = t[i]
      <3>1. m + i \in 1 .. m + n /\ ~(m + i <= m) /\ (m + i) - m = i
        BY <1>2
      <3> HIDE DEF u, m, n
      <3> QED BY <1>1, <3>1
    <2>2. ASSUME NEW i \in 1 .. m PROVE i \in 1 .. m + n /\ u[i] = s[i]
      <3> HIDE DEF u, m, n
      <3> QED BY <1>1, <1>2
    <2> QED BY <2>1, <2>2
  <1>5. /\ \A i \in 1 .. m : s[i] \in Int
        /\ \A i \in 1 .. n : t[i] \in Int
    BY ElementOfSeq
  <1>6. Increasing(s) <=> \A i, j \in 1 .. m : i < j => s[i] < s[j]
    BY DEF Increasing
  <1>7. Increasing(t) <=> \A i, j \in 1 .. n : i < j => t[i] < t[j]
    BY DEF Increasing
  <1>8. Increasing(u) <=> \A i, j \in 1 .. m + n : i < j => u[i] < u[j]
    <2> HIDE DEF u
    <2> QED BY <1>1 DEF Increasing
  <1> HIDE DEF u, m, n
  <1>9. ASSUME Increasing(u)
        PROVE  /\ Increasing(s) /\ Increasing(t)
               /\ \A x \in ToSet(s), y \in ToSet(t) : x < y
    <2>1. Increasing(s)
      BY <1>4, <1>6, <1>8, <1>9
    <2>2. Increasing(t)
      <3>1. ASSUME NEW i \in 1 .. n, NEW j \in 1 .. n, i < j PROVE t[i] < t[j]
        <4>1. m + i < m + j
          BY <1>2, <3>1
        <4> QED BY <1>4, <1>8, <1>9, <4>1
      <3> QED BY <1>7, <3>1
    <2>3. ASSUME NEW x \in ToSet(s), NEW y \in ToSet(t) PROVE x < y
      <3>1. PICK i \in 1 .. m, j \in 1 .. n : x = s[i] /\ y = t[j]
        BY <1>3
      <3>2. i < m + j
        BY <1>2
      <3> QED BY <1>4, <1>8, <1>9, <3>1, <3>2
    <2> QED BY <2>1, <2>2, <2>3
  <1>10. ASSUME Increasing(s), Increasing(t), \A x \in ToSet(s), y \in ToSet(t) : x < y
         PROVE  Increasing(u)
    <2>1. ASSUME NEW i \in 1 .. m + n, NEW j \in 1 .. m + n, i < j PROVE u[i] < u[j]
      <3>1. CASE j <= m
        <4>1. i \in 1 .. m /\ j \in 1 .. m
          BY <1>2, <2>1, <3>1
        <4> QED BY <1>4, <1>6, <1>10, <2>1, <4>1
      <3>2. CASE ~(i <= m)
        <4>1. i - m \in 1 .. n /\ j - m \in 1 .. n /\ i - m < j - m /\ ~(j <= m)
          BY <1>2, <2>1, <3>2
        <4>2. u[i] = t[i - m] /\ u[j] = t[j - m]
          BY <1>1, <3>2, <4>1
        <4> QED BY <1>7, <1>10, <4>1, <4>2
      <3>3. CASE i <= m /\ ~(j <= m)
        <4>1. i \in 1 .. m /\ j - m \in 1 .. n
          BY <1>2, <2>1, <3>3
        <4>2. u[i] = s[i] /\ u[j] = t[j - m]
          BY <1>1, <3>3
        <4> QED BY <1>3, <1>10, <4>1, <4>2
      <3> QED BY <3>1, <3>2, <3>3, <1>2
    <2> QED BY <1>8, <2>1
  <1> QED BY <1>9, <1>10 DEF u

\* Appending an item above all others keeps the order.
LEMMA IncreasingAppend ==
    ASSUME NEW S \in SUBSET Int, NEW s \in Seq(S), NEW x \in S
    PROVE  Increasing(Append(s, x)) <=> (Increasing(s) /\ \A y \in ToSet(s) : y < x)
  <1>1. Append(s, x) = s \o <<x>> /\ <<x>> \in Seq(S)
    BY AppendIsConcat
  <1>2. ToSet(<<x>>) = {x} /\ Increasing(<<x>>)
    BY DEF ToSet, Increasing
  <1>3. Increasing(s \o <<x>>) <=>
            (/\ Increasing(s) /\ Increasing(<<x>>)
             /\ \A y \in ToSet(s), z \in ToSet(<<x>>) : y < z)
    BY <1>1, IncreasingConcat, Zenon
  <1>4. (\A y \in ToSet(s), z \in ToSet(<<x>>) : y < z) <=> (\A y \in ToSet(s) : y < x)
    BY <1>2
  <1>5. Increasing(Append(s, x)) <=> Increasing(s \o <<x>>)
    BY <1>1, Zenon
  <1> QED
    BY <1>2, <1>3, <1>4, <1>5

\* A sequence in increasing order repeats nothing.
LEMMA IncreasingIsInjective ==
    ASSUME NEW S \in SUBSET Int, NEW s \in Seq(S), Increasing(s)
    PROVE  IsInjective(s)
  <1>1. DOMAIN s = 1 .. Len(s) /\ Len(s) \in Nat /\ \A i \in 1 .. Len(s) : s[i] \in Int
    BY LenProperties, ElementOfSeq
  <1>2. ASSUME NEW i \in 1 .. Len(s), NEW j \in 1 .. Len(s), s[i] = s[j] PROVE i = j
    <2>1. ~(i < j) /\ ~(j < i)
      BY <1>1, <1>2 DEF Increasing
    <2> QED BY <2>1
  <1> QED BY <1>1, <1>2 DEF IsInjective

\* The first item of an increasing sequence is its least.
LEMMA IncreasingHead ==
    ASSUME NEW S \in SUBSET Int, NEW s \in Seq(S), Increasing(s), s # <<>>
    PROVE  Increasing(Tail(s)) /\ \A y \in ToSet(Tail(s)) : Head(s) < y
  <1>1. /\ Head(s) = s[1] /\ Tail(s) \in Seq(S) /\ Len(Tail(s)) = Len(s) - 1
        /\ Len(s) \in Nat
        /\ \A i \in 1 .. Len(s) - 1 : Tail(s)[i] = s[i + 1]
    BY HeadTailProperties, LenProperties
  <1>2. \A i \in 1 .. Len(s) - 1 : i + 1 \in 1 .. Len(s) /\ 1 < i + 1 /\ 1 \in 1 .. Len(s)
    BY <1>1
  <1>3. Increasing(Tail(s))
    <2>1. ASSUME NEW i \in 1 .. Len(s) - 1, NEW j \in 1 .. Len(s) - 1, i < j
          PROVE  Tail(s)[i] < Tail(s)[j]
      <3>1. i + 1 < j + 1
        BY <2>1
      <3> QED BY <1>1, <1>2, <3>1 DEF Increasing
    <2> QED BY <1>1, <2>1 DEF Increasing
  <1>4. ASSUME NEW y \in ToSet(Tail(s)) PROVE Head(s) < y
    <2>0. ToSet(Tail(s)) = {Tail(s)[i] : i \in 1 .. Len(s) - 1}
      BY <1>1, ItemAt
    <2>1. PICK i \in 1 .. Len(s) - 1 : y = Tail(s)[i]
      BY <2>0
    <2> QED BY <1>1, <1>2, <2>1 DEF Increasing
  <1> QED BY <1>3, <1>4
==============================================================================
