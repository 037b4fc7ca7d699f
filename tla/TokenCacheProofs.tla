--------------------------- MODULE TokenCacheProofs ---------------------------
(***************************************************************************)
(* TLAPS proofs about TokenCache, for every set of callers and keys, every *)
(* lifetime the endpoint grants and every clock and refresh buffer.        *)
(***************************************************************************)
EXTENDS TokenCache, FiniteSetTheorems, TLAPS

------------------------------------------------------------------------------
(* The inductive invariant *)

\* The types that TypeOK leaves open, and what goes with them: a call has a slot
\* exactly while it runs, and serves nothing meanwhile.
CallsOK ==
    /\ expires \in [Tokens -> Nat]
    /\ owner \in [Slots -> Callers \cup {"free"}]
    /\ served \in [Callers -> [token : 0 .. mints, at : Nat]]
    /\ banned \in [Callers -> SUBSET invalid]
    /\ \A c \in Callers : pc[c] # "idle" <=> slot[c] # 0

\* Two keys never share a slot, and no token is in two slots.
Unshared ==
    /\ \A k, l \in Keys : entries[k] = entries[l] /\ entries[k] # 0 => k = l
    /\ \A s, t \in Slots : token[s] = token[t] /\ token[s] # 0 => s = t

\* The map leads to no token that was invalidated, and a running call has a slot
\* without the tokens that were invalidated when it began.
NoneDropped ==
    /\ \A k \in Keys : entries[k] # 0 => token[entries[k]] \notin invalid
    /\ \A c \in Callers : slot[c] # 0 => token[slot[c]] \notin banned[c]

CacheInv ==
    TypeOK /\ CallsOK /\ Unshared /\ NoneDropped /\ CachedTokenIsValid /\ DroppedTokenNotServed
------------------------------------------------------------------------------
(* A free slot exists *)

\* The values of a function on a finite set are no more than its arguments.
LEMMA ImageBound ==
    ASSUME NEW S, IsFiniteSet(S), NEW f
    PROVE  /\ IsFiniteSet({f[x] : x \in S})
           /\ Cardinality({f[x] : x \in S}) <= Cardinality(S)
  <1> DEFINE T == {f[x] : x \in S}
             g == [x \in S |-> f[x]]
  <1>1. g \in Surjection(S, T)
    BY DEF Surjection
  <1> HIDE DEF g
  <1> QED BY <1>1, FS_Surjection

\* A nonempty set of naturals has a minimum.
LEMMA MinOfNaturals ==
    ASSUME NEW S \in SUBSET Nat, S # {}
    PROVE  Min(S) \in S
  <1>1. PICK x \in S : \A y \in S : ~ (<<y, x>> \in OpToRel(<, Nat))
    <2> HIDE DEF OpToRel
    <2> QED BY NatLessThanWellFounded, WFMin
  <1>2. ASSUME NEW y \in S PROVE x <= y
    <2>1. <<y, x>> \in Nat \X Nat /\ <<y, x>>[1] = y /\ <<y, x>>[2] = x
      OBVIOUS
    <2>2. ~(y < x)
      BY <1>1, <2>1, Zenon DEF OpToRel
    <2> QED BY <2>2
  <1> QED BY <1>2 DEF Min

\* There is a slot for every caller and every key, so a caller that is idle finds a
\* free one for a key that has none: get_or_fetch can always create an entry.
LEMMA FreshSlotExists ==
    ASSUME NEW c \in Callers, NEW k \in Keys, slot[c] = 0, entries[k] = 0
    PROVE  FreshSlot \in Slots \ InUse
  <1> DEFINE E == {entries[x] : x \in Keys \ {k}}
             C == {slot[x] : x \in Callers \ {c}}
             m == Cardinality(Keys)
             n == Cardinality(Callers)
  <1>1. /\ IsFiniteSet(Keys \ {k}) /\ Cardinality(Keys \ {k}) = m - 1 /\ m \in Nat
        /\ IsFiniteSet(Callers \ {c}) /\ Cardinality(Callers \ {c}) = n - 1 /\ n \in Nat
    BY TokenCacheAssumptions, FS_RemoveElement, FS_CardinalityType
  <1>2. IsFiniteSet(E) /\ Cardinality(E) <= m - 1 /\ Cardinality(E) \in Nat
    BY <1>1, ImageBound, FS_CardinalityType
  <1>3. IsFiniteSet(C) /\ Cardinality(C) <= n - 1 /\ Cardinality(C) \in Nat
    BY <1>1, ImageBound, FS_CardinalityType
  <1>4. IsFiniteSet(E \cup C) /\ Cardinality(E \cup C) <= m - 1 + n - 1
    <2> HIDE DEF E, C, m, n
    <2>1. /\ IsFiniteSet(E \cup C)
          /\ Cardinality(E \cup C) = Cardinality(E) + Cardinality(C) - Cardinality(E \cap C)
      BY <1>2, <1>3, FS_Union
    <2>2. Cardinality(E \cap C) \in Nat
      BY <1>2, FS_Intersection, FS_CardinalityType
    <2> QED BY <2>1, <2>2, <1>1, <1>2, <1>3
  <1>5. Cardinality(Slots) = n + m
    BY <1>1, FS_Interval DEF Slots
  <1>6. ~(Slots \subseteq E \cup C)
    <2> SUFFICES ASSUME Slots \subseteq E \cup C PROVE FALSE
      OBVIOUS
    <2>1. Cardinality(Slots) <= Cardinality(E \cup C)
      BY <1>4, FS_Subset
    <2>2. Cardinality(E \cup C) \in Nat
      BY <1>4, FS_CardinalityType
    <2> QED
      <3> HIDE DEF E, C, m, n
      <3> QED BY <2>1, <2>2, <1>1, <1>4, <1>5
  <1>7. Slots \ InUse # {}
    <2>1. PICK s \in Slots : s \notin E \cup C
      BY <1>6
    <2>2. s # 0
      BY <1>1 DEF Slots
    <2> QED BY <2>1, <2>2 DEF InUse
  <1>8. Slots \ InUse \in SUBSET Nat
    BY <1>1 DEF Slots
  <1> QED BY <1>7, <1>8, MinOfNaturals DEF FreshSlot

------------------------------------------------------------------------------
(* Invariance *)

\* The invariant holds with an empty cache.
LEMMA InitInv == Init => CacheInv
  <1> SUFFICES ASSUME Init PROVE CacheInv
    OBVIOUS
  <1>1. Cardinality(Keys) \in Nat /\ Cardinality(Callers) \in Nat
    BY TokenCacheAssumptions, FS_CardinalityType
  <1> QED
    BY <1>1, TokenCacheAssumptions
    DEF Init, CacheInv, TypeOK, CallsOK, Unshared, NoneDropped, CachedTokenIsValid,
        DroppedTokenNotServed, NoServe, Slots, Tokens

\* Looking an entry up, or making one for a key that has none, preserves the invariant.
LEMMA LookupInv ==
    ASSUME CacheInv, NEW c \in Callers, NEW k \in Keys, Lookup(c, k)
    PROVE  CacheInv'
  <1> USE DEF CacheInv, TypeOK, CallsOK, Unshared, NoneDropped, CachedTokenIsValid,
              DroppedTokenNotServed, Lookup
  <1>0. Slots \subseteq Nat \ {0}
    BY DEF Slots
  <1>1. CASE entries[k] # 0
    <2>1. TypeOK'
      BY <1>0, <1>1, TokenCacheAssumptions
    <2>2. CallsOK'
      BY <1>0, <1>1, TokenCacheAssumptions DEF NoServe
    <2>3. Unshared' /\ NoneDropped'
      BY <1>0, <1>1
    <2>4. CachedTokenIsValid' /\ DroppedTokenNotServed'
      BY <1>1 DEF NoServe
    <2> QED BY <2>1, <2>2, <2>3, <2>4
  <1>2. CASE entries[k] = 0
    <2> DEFINE f == FreshSlot
    <2>1. f \in Slots /\ f \notin InUse
      BY <1>2, FreshSlotExists
    <2>2. /\ \A l \in Keys : entries[l] # f
          /\ \A d \in Callers : slot[d] # f
      BY <2>1 DEF InUse
    <2>3. /\ \A l \in Keys : Pruned[l] \in {0, entries[l]}
          /\ Pruned \in [Keys -> Slots \cup {0}]
      BY DEF Pruned
    <2>4. /\ entries' = [Pruned EXCEPT ![k] = f]
          /\ token' = [token EXCEPT ![f] = 0]
          /\ slot' = [slot EXCEPT ![c] = f]
      BY <1>2
    <2> HIDE DEF f
    <2>5. TypeOK'
      BY <1>0, <2>1, <2>2, <2>3, <2>4, TokenCacheAssumptions
    <2>6. CallsOK'
      BY <1>0, <2>1, <2>2, <2>3, <2>4, TokenCacheAssumptions DEF NoServe
    <2>7. Unshared'
      BY <1>0, <2>1, <2>2, <2>3, <2>4
    <2>8. NoneDropped'
      BY <1>0, <2>1, <2>2, <2>3, <2>4
    <2>9. CachedTokenIsValid' /\ DroppedTokenNotServed'
      BY <1>2 DEF NoServe
    <2> QED BY <2>5, <2>6, <2>7, <2>8, <2>9
  <1> QED BY <1>1, <1>2

\* A call that returns the cached token t of its slot, checked to be valid, or
\* (t = 0) something else, gives up its slot and nothing else changes.
LEMMA ReturnInv ==
    ASSUME CacheInv, NEW c \in Callers, NEW t \in 0 .. mints, slot[c] # 0,
           owner[slot[c]] \in {"free", c}, Return(c, t),
           t # 0 => t = token[slot[c]] /\ now < expires[t],
           UNCHANGED <<entries, tokenVars, now>>
    PROVE  CacheInv'
  <1> USE DEF CacheInv, TypeOK, CallsOK, Unshared, NoneDropped, CachedTokenIsValid,
              DroppedTokenNotServed, Return, tokenVars
  <1>0. Slots \subseteq Nat \ {0} /\ slot[c] \in Slots
    BY DEF Slots
  <1>1. TypeOK'
    BY <1>0, TokenCacheAssumptions
  <1>2. PICK r \in [token : 0 .. mints, at : Nat] :
            /\ served' = [served EXCEPT ![c] = r] /\ r.token = t
            /\ t # 0 => r.at < expires[t]
    <2>1. CASE t = 0
      <3>1. NoServe \in [token : 0 .. mints, at : Nat] /\ NoServe.token = 0
        BY DEF NoServe
      <3> QED BY <2>1, <3>1
    <2>2. CASE t # 0
      <3> DEFINE r == [token |-> t, at |-> now]
      <3>1. r \in [token : 0 .. mints, at : Nat] /\ r.token = t /\ r.at = now
        OBVIOUS
      <3> QED BY <2>2, <3>1
    <2> QED BY <2>1, <2>2
  <1>3. /\ banned' \in [Callers -> SUBSET invalid]
        /\ \A d \in Callers : banned'[d] \subseteq banned[d]
    OBVIOUS
  <1>4. CallsOK'
    <2>1. served' \in [Callers -> [token : 0 .. mints', at : Nat]]
      BY <1>2
    <2>2. owner' \in [Slots -> Callers \cup {"free"}] /\ expires' \in [Tokens -> Nat]
      BY <1>0
    <2>3. \A d \in Callers : pc'[d] # "idle" <=> slot'[d] # 0
      BY <1>0
    <2> QED BY <1>3, <2>1, <2>2, <2>3
  <1>5. Unshared' /\ NoneDropped'
    BY <1>0, <1>3
  <1>6. CachedTokenIsValid'
    BY <1>2
  <1>7. DroppedTokenNotServed'
    BY <1>0, <1>2, <1>3
  <1> QED BY <1>1, <1>4, <1>5, <1>6, <1>7

\* Taking the lock of a slot, and returning the token found there if it needs no refresh,
\* preserves the invariant: the slot has none of the tokens dropped before the call began.
LEMMA LockInv ==
    ASSUME CacheInv, NEW c \in Callers, Lock(c)
    PROVE  CacheInv'
  <1> DEFINE t == token[slot[c]]
  <1>0. Slots \subseteq Nat \ {0} /\ slot[c] \in Slots /\ t \in 0 .. mints
    BY DEF Slots, CacheInv, TypeOK, CallsOK, Lock
  <1>1. CASE t # 0 /\ ~NeedsRefresh(t)
    <2>1. now < expires[t]
      BY <1>0, <1>1, TokenCacheAssumptions
      DEF NeedsRefresh, CacheInv, TypeOK, CallsOK, Tokens
    <2> QED BY <1>0, <1>1, <2>1, ReturnInv DEF Lock
  <1>2. CASE ~(t # 0 /\ ~NeedsRefresh(t))
    <2> USE DEF CacheInv, TypeOK, CallsOK, Unshared, NoneDropped, CachedTokenIsValid,
                DroppedTokenNotServed, tokenVars
    <2>1. /\ pc[c] = "lock" /\ owner[slot[c]] = "free"
          /\ pc' = [pc EXCEPT ![c] = "fetch"] /\ owner' = [owner EXCEPT ![slot[c]] = c]
          /\ UNCHANGED <<key, slot, served, banned, entries, tokenVars, now>>
      BY <1>2 DEF Lock
    <2>2. TypeOK'
      BY <1>0, <2>1, TokenCacheAssumptions
    <2> QED BY <1>0, <2>1, <2>2
  <1> QED BY <1>1, <1>2

\* A token is minted: it is a new one, so it was never invalidated nor served, and
\* it replaces or leaves what the slot of c holds.
LEMMA FetchOkInv ==
    ASSUME CacheInv, NEW c \in Callers, NEW ttl \in Nat,
           FetchOk(c, ttl) \/ FetchOkNoTtl(c, ttl)
    PROVE  CacheInv'
  <1> USE DEF CacheInv, TypeOK, CallsOK, Unshared, NoneDropped, CachedTokenIsValid,
              DroppedTokenNotServed, Return
  <1>0. /\ Slots \subseteq Nat \ {0} /\ slot[c] \in Slots /\ pc[c] = "fetch"
        /\ Return(c, 0)
        /\ UNCHANGED <<entries, invalid, now>>
    BY DEF Slots, FetchOk, FetchOkNoTtl
  <1>1. /\ mints' = mints + 1 /\ mints \in Nat /\ mints + 1 \in Tokens
        /\ 0 .. mints \subseteq 0 .. mints' /\ 1 .. mints \subseteq 1 .. mints'
        /\ mints' \in 0 .. MaxMints
    BY TokenCacheAssumptions DEF Tokens, FetchOk, FetchOkNoTtl
  <1>2. /\ expires' \in [Tokens -> Nat]
        /\ \A u \in 1 .. mints : expires'[u] = expires[u]
    <2>1. CASE FetchOk(c, ttl)
      <3>1. now + ttl \in Nat
        OBVIOUS
      <3>2. expires' = [expires EXCEPT ![mints + 1] = now + ttl]
        BY <2>1 DEF FetchOk
      <3> QED BY <1>1, <3>1, <3>2
    <2>2. CASE FetchOkNoTtl(c, ttl)
      BY <2>2 DEF FetchOkNoTtl
    <2> QED BY <2>1, <2>2
  <1>3. PICK u \in {0, mints + 1, token[slot[c]]} : token' = [token EXCEPT ![slot[c]] = u]
    BY <1>0 DEF FetchOk, FetchOkNoTtl
  <1>4. /\ served' = [served EXCEPT ![c] = NoServe] /\ banned' = [banned EXCEPT ![c] = {}]
        /\ NoServe.token = 0
    BY <1>0 DEF NoServe
  <1>5. TypeOK'
    <2>1. token' \in [Slots -> 0 .. mints']
      <3>1. u \in 0 .. mints'
        <4>1. token[slot[c]] \in 0 .. mints'
          BY ZenonT(60), <1>0, <1>1
        <4>2. 0 \in 0 .. mints' /\ mints + 1 \in 0 .. mints'
          BY <1>1
        <4> QED BY <1>3, <4>1, <4>2
      <3> QED BY <1>0, <1>1, <1>3, <3>1
    <2>2. \A s \in Slots, d \in Callers : owner'[s] = d <=> pc'[d] = "fetch" /\ slot'[d] = s
      BY <1>0, TokenCacheAssumptions
    <2> QED BY <1>0, <1>1, <2>1, <2>2
  <1>6. CallsOK'
    <2>1. NoServe \in [token : 0 .. mints', at : Nat]
      BY <1>1 DEF NoServe
    <2>2. served' \in [Callers -> [token : 0 .. mints', at : Nat]]
      BY <1>1, <1>4, <2>1
    <2> QED BY <1>0, <1>2, <1>4, <2>2, TokenCacheAssumptions
  <1>7. Unshared'
    BY <1>0, <1>1, <1>3
  <1>8. NoneDropped'
    BY <1>0, <1>1, <1>3
  <1>9. CachedTokenIsValid'
    BY <1>2, <1>4
  <1>10. DroppedTokenNotServed'
    BY <1>4
  <1> QED BY <1>5, <1>6, <1>7, <1>8, <1>9, <1>10

\* A fetch that fails serves the token of the slot when it has not expired and the error is
\* retryable, and otherwise nothing; the slot keeps what it has.
LEMMA FetchFailInv ==
    ASSUME CacheInv, NEW c \in Callers, NEW retryable, FetchFail(c, retryable)
    PROVE  CacheInv'
  <1> DEFINE t == token[slot[c]]
  <1>0. /\ Slots \subseteq Nat \ {0} /\ slot[c] \in Slots /\ t \in 0 .. mints
        /\ owner[slot[c]] = c
    BY DEF Slots, CacheInv, TypeOK, CallsOK, FetchFail
  <1>1. CASE retryable /\ t # 0 /\ ~IsExpired(t)
    <2>1. now < expires[t]
      BY <1>0, <1>1, TokenCacheAssumptions DEF IsExpired, CacheInv, TypeOK, CallsOK, Tokens
    <2> QED BY <1>0, <1>1, <2>1, ReturnInv DEF FetchFail
  <1>2. CASE ~(retryable /\ t # 0 /\ ~IsExpired(t))
    <2>1. 0 \in 0 .. mints
      BY DEF CacheInv, TypeOK
    <2> QED BY <1>0, <1>2, <2>1, ReturnInv DEF FetchFail
  <1> QED BY <1>1, <1>2

\* A caller that is cancelled lets go of the lock and serves nothing.
LEMMA CancelInv ==
    ASSUME CacheInv, NEW c \in Callers, Cancel(c)
    PROVE  CacheInv'
  <1> USE DEF CacheInv, TypeOK, CallsOK, Unshared, NoneDropped, CachedTokenIsValid,
              DroppedTokenNotServed, Cancel, tokenVars
  <1>0. Slots \subseteq Nat \ {0}
    BY DEF Slots
  <1>1. TypeOK'
    BY <1>0, TokenCacheAssumptions
  <1>2. CallsOK'
    BY <1>0, TokenCacheAssumptions
  <1> QED BY <1>0, <1>1, <1>2

\* invalidate removes the entry, so no call that begins later finds its token.
LEMMA InvalidateInv ==
    ASSUME CacheInv, NEW k \in Keys, Invalidate(k)
    PROVE  CacheInv'
  <1> DEFINE t == token[entries[k]]
  <1>0. Slots \subseteq Nat \ {0} /\ entries[k] \in Slots
    BY DEF Slots, CacheInv, TypeOK, Invalidate
  <1>1. t \in 0 .. mints /\ mints \in Nat
    <2>1. token \in [Slots -> 0 .. mints] /\ mints \in 0 .. MaxMints
      BY DEF CacheInv, TypeOK
    <2>2. token[entries[k]] \in 0 .. mints
      BY <1>0, <2>1
    <2>3. mints \in Nat
      BY <2>1, TokenCacheAssumptions
    <2> QED BY <2>2, <2>3
  <1>2. \A l \in Keys : l # k /\ entries[l] # 0 => token[entries[l]] \notin {t} \ {0}
    <2>1. entries \in [Keys -> Slots \cup {0}] /\ Unshared
      BY DEF CacheInv, TypeOK
    <2> QED BY <1>0, <2>1 DEF Unshared
  <1>3. /\ entries' = [entries EXCEPT ![k] = 0] /\ invalid' = invalid \cup ({t} \ {0})
        /\ UNCHANGED <<token, expires, mints, owner, pc, key, slot, served, banned, now>>
    BY DEF Invalidate, callVars
  <1>4. invalid' \subseteq 1 .. mints /\ invalid \subseteq invalid'
    <2> HIDE DEF t
    <2> QED BY <1>1, <1>3 DEF CacheInv, TypeOK
  <1> HIDE DEF t
  <1>5. TypeOK'
    BY <1>3, <1>4 DEF CacheInv, TypeOK
  <1>6. CallsOK' /\ Unshared'
    BY <1>3, <1>4 DEF CacheInv, TypeOK, CallsOK, Unshared
  <1>7. NoneDropped'
    BY <1>2, <1>3 DEF CacheInv, TypeOK, NoneDropped
  <1>8. CachedTokenIsValid' /\ DroppedTokenNotServed'
    BY <1>3 DEF CacheInv, CachedTokenIsValid, DroppedTokenNotServed
  <1> QED BY <1>5, <1>6, <1>7, <1>8 DEF CacheInv

\* The seconds the endpoint names are a natural number.
LEMMA TtlIsNat ==
    ASSUME NEW k, NEW r \in Responses, fetch_token_inner(k, r).ok
    PROVE  fetch_token_inner(k, r).ttl \in Nat
  <1>1. /\ "net" \notin DOMAIN r
        /\ r \in [status : {200}, access_token : {"missing", "not_a_header", "usable"},
                  expires_in : Ttls \cup {0, MaxInstant + 1}]
    BY DEF fetch_token_inner, Responses, Final, Retryable, handle_http_error, classify_status_code
  <1>2. r.expires_in \in Nat
    <2>1. Ttls \cup {0, MaxInstant + 1} \subseteq Nat
      BY TokenCacheAssumptions
    <2>2. r.expires_in \in Ttls \cup {0, MaxInstant + 1}
      BY <1>1
    <2> QED BY <2>1, <2>2
  <1> QED BY <1>1, <1>2
    DEF fetch_token_inner, Final, Retryable, classify_status_code, parse_expires_in

\* The inductive invariant holds in every state.
THEOREM CacheInvariant == Spec => []CacheInv
  <1>1. CacheInv /\ [Next]_vars => CacheInv'
    <2> SUFFICES ASSUME CacheInv, [Next]_vars PROVE CacheInv'
      OBVIOUS
    <2>1. ASSUME NEW c \in Callers, NEW k \in Keys, Lookup(c, k) PROVE CacheInv'
      BY <2>1, LookupInv
    <2>2. ASSUME NEW c \in Callers, Lock(c) PROVE CacheInv'
      BY <2>2, LockInv
    <2>3. ASSUME NEW c \in Callers, Cancel(c) PROVE CacheInv'
      BY <2>3, CancelInv
    <2>4. ASSUME NEW c \in Callers, NEW r \in Responses, Fetched(c, r) PROVE CacheInv'
      BY <2>4, TtlIsNat, FetchOkInv, FetchFailInv DEF Fetched
    <2>5. ASSUME NEW k \in Keys, Invalidate(k) PROVE CacheInv'
      BY <2>5, InvalidateInv
    <2>6. CASE Tick
      BY <2>6, TokenCacheAssumptions
      DEF Tick, CacheInv, TypeOK, CallsOK, Unshared, NoneDropped, CachedTokenIsValid,
          DroppedTokenNotServed, tokenVars, callVars
    <2>7. CASE UNCHANGED vars
      BY <2>7
      DEF vars, CacheInv, TypeOK, CallsOK, Unshared, NoneDropped, CachedTokenIsValid,
          DroppedTokenNotServed
    <2> QED BY <2>1, <2>2, <2>3, <2>4, <2>5, <2>6, <2>7 DEF Next
  <1> QED BY InitInv, <1>1, PTL DEF Spec

------------------------------------------------------------------------------
(* The properties *)

\* Every reachable state is well typed, and a slot's mutex is held by exactly the
\* call that fetches through it.
THEOREM CacheTypeCorrect == Spec => []TypeOK
  BY CacheInvariant, PTL DEF CacheInv

\* A token served from the cache has not expired when it is served: by the check
\* under the slot's lock, and by the second one after a fetch that failed.
THEOREM CachedTokenValid == Spec => []CachedTokenIsValid
  BY CacheInvariant, PTL DEF CacheInv

\* A call that begins after an invalidate() is never served what it dropped, even
\* though calls under way keep their slot and the slot may be filled again.
THEOREM DroppedNotServed == Spec => []DroppedTokenNotServed
  BY CacheInvariant, PTL DEF CacheInv
==============================================================================
