------------------------------ MODULE TokenCache ------------------------------
(***************************************************************************)
(* The OAuth token cache of rust/sdk/src/token_cache.rs, shared by every   *)
(* stream of one SDK instance, and the token factory that fills it         *)
(* (default_token_factory.rs).                                             *)
(*                                                                         *)
(* The map `entries` leads from a key to a slot; a slot is an Arc'd mutex  *)
(* around an optional token, so a caller keeps its slot after the map has  *)
(* lost it.  Slots are numbered; a number nobody refers to is free again.  *)
(* Tokens are numbered in the order they are minted.  With caching         *)
(* disabled nothing is shared, and that path is left out.                  *)
(***************************************************************************)
EXTENDS Naturals, FiniteSets, FiniteSetsExt

CONSTANTS
    Callers,        \* concurrent get_or_fetch calls
    Keys,           \* (client_id, secret, table) keys
    Malformed,      \* keys whose table name is not catalog.schema.table
    Ttls,           \* lifetimes the token endpoint grants
    MaxInstant,     \* the last instant the clock can represent
    RefreshBuffer,  \* refresh_buffer
    MaxClock,       \* bound: clock ticks
    MaxMints        \* bound: tokens minted

ASSUME TokenCacheAssumptions ==
    /\ RefreshBuffer \in Nat /\ MaxClock \in Nat /\ MaxMints \in Nat /\ Ttls \subseteq Nat
    /\ MaxInstant \in Nat /\ Malformed \subseteq Keys
    /\ IsFiniteSet(Callers) /\ IsFiniteSet(Keys) /\ "free" \notin Callers

VARIABLES
    entries,        \* key -> slot, 0 for none
    token,          \* slot -> id of the token it holds, 0 for none
    expires,        \* token id -> expires_at
    mints,          \* tokens minted so far
    owner,          \* slot -> caller holding its mutex, or "free"
    pc, key, slot,  \* program counter and locals of every caller
    now,            \* the clock
    served,         \* history: cached token the last call got, and when; 0 for none
    invalid,        \* history: tokens an invalidate() has dropped
    banned          \* history: `invalid` when the caller's call began

vars == <<entries, token, expires, mints, owner, pc, key, slot, now, served, invalid, banned>>
callVars == <<pc, key, slot, served, banned>>
tokenVars == <<token, expires, mints, invalid>>

Slots == 1 .. Cardinality(Callers) + Cardinality(Keys)
Tokens == 1 .. MaxMints
NoServe == [token |-> 0, at |-> 0]

Init ==
    /\ entries = [k \in Keys |-> 0] /\ token = [s \in Slots |-> 0]
    /\ expires = [t \in Tokens |-> 0] /\ mints = 0
    /\ owner = [s \in Slots |-> "free"]
    /\ pc = [c \in Callers |-> "idle"] /\ slot = [c \in Callers |-> 0]
    /\ key = [c \in Callers |-> "none"]
    /\ now = 0 /\ served = [c \in Callers |-> NoServe]
    /\ invalid = {} /\ banned = [c \in Callers |-> {}]

IsExpired(t) == now >= expires[t]
NeedsRefresh(t) == now + RefreshBuffer >= expires[t]

\* prune_expired: drop the entries of unlocked slots that hold an expired token.
Pruned ==
    [k \in Keys |->
        IF /\ entries[k] # 0 /\ owner[entries[k]] = "free"
           /\ token[entries[k]] # 0 /\ IsExpired(token[entries[k]])
        THEN 0 ELSE entries[k]]

InUse == {entries[k] : k \in Keys} \cup {slot[c] : c \in Callers}
FreshSlot == Min(Slots \ InUse)

\* get_or_fetch, under the lock of the map: find or create the slot of k.
Lookup(c, k) ==
    /\ pc[c] = "idle"
    /\ IF entries[k] # 0
       THEN slot' = [slot EXCEPT ![c] = entries[k]] /\ UNCHANGED <<entries, token>>
       ELSE /\ entries' = [Pruned EXCEPT ![k] = FreshSlot]
            /\ token' = [token EXCEPT ![FreshSlot] = 0]
            /\ slot' = [slot EXCEPT ![c] = FreshSlot]
    /\ pc' = [pc EXCEPT ![c] = "lock"] /\ key' = [key EXCEPT ![c] = k]
    /\ served' = [served EXCEPT ![c] = NoServe] /\ banned' = [banned EXCEPT ![c] = invalid]
    /\ UNCHANGED <<expires, mints, invalid, owner, now>>

\* The call returns the cached token t, or (t = 0) a fresh one or an error; its
\* guard is dropped.
Return(c, t) ==
    /\ pc' = [pc EXCEPT ![c] = "idle"] /\ slot' = [slot EXCEPT ![c] = 0]
    /\ owner' = [owner EXCEPT ![slot[c]] = "free"]
    /\ key' = [key EXCEPT ![c] = "none"]
    /\ IF t = 0
       THEN served' = [served EXCEPT ![c] = NoServe] /\ banned' = [banned EXCEPT ![c] = {}]
       ELSE served' = [served EXCEPT ![c] = [token |-> t, at |-> now]] /\ UNCHANGED banned

\* The mutex of the slot is acquired: a usable token is returned, otherwise the
\* fetch starts and the guard is held across it.
Lock(c) ==
    /\ pc[c] = "lock" /\ owner[slot[c]] = "free"
    /\ LET t == token[slot[c]]
       IN  IF t # 0 /\ ~NeedsRefresh(t)
           THEN Return(c, t)
           ELSE /\ pc' = [pc EXCEPT ![c] = "fetch"] /\ owner' = [owner EXCEPT ![slot[c]] = c]
                /\ UNCHANGED <<key, slot, served, banned>>
    /\ UNCHANGED <<entries, tokenVars, now>>

\* What the token endpoint may answer: no response, an error status, a token with
\* or without a lifetime.
Responses ==
    [net : {"timeout", "connect", "other"}] \cup [status : {401, 503}]
    \cup [status : {200}, access_token : {"missing", "not_a_header", "usable"},
          expires_in : Ttls \cup {0, MaxInstant + 1}]

Retryable == [ok |-> FALSE, retryable |-> TRUE]     \* TokenFetchError
Final == [ok |-> FALSE, retryable |-> FALSE]        \* InvalidUCTokenError, InvalidTableName

parse_table_name(k) == k \notin Malformed

classify_status_code(status) == IF status >= 500 THEN Retryable ELSE Final

\* send() reports no status, so only the network's failures can be retried.
handle_http_error(net) == IF net \in {"timeout", "connect"} THEN Retryable ELSE Final

is_usable_as_header(t) == t = "usable"

\* The lifetime in seconds, 0 for none.
parse_expires_in(body) == body.expires_in

fetch_token_inner(k, r) ==
    IF ~parse_table_name(k) THEN Final
    ELSE IF "net" \in DOMAIN r THEN handle_http_error(r.net)
    ELSE IF r.status \notin 200 .. 299 THEN classify_status_code(r.status)
    ELSE IF r.access_token = "missing" \/ ~is_usable_as_header(r.access_token) THEN Final
    ELSE [ok |-> TRUE, ttl |-> parse_expires_in(r)]

\* expires_in is given and checked_add does not overflow.
UsableTtl(ttl) == ttl # 0 /\ now + ttl <= MaxInstant

\* The fetch succeeds and the token has a usable lifetime: cache it.
FetchOk(c, ttl) ==
    /\ pc[c] = "fetch" /\ mints < MaxMints /\ UsableTtl(ttl)
    /\ mints' = mints + 1
    /\ expires' = [expires EXCEPT ![mints + 1] = now + ttl]
    /\ token' = [token EXCEPT ![slot[c]] = mints + 1]
    /\ Return(c, 0)
    /\ UNCHANGED <<entries, invalid, now>>

\* It succeeds without a usable lifetime: the token is returned but not cached,
\* and a cached token stays if it is still valid.
FetchOkNoTtl(c, ttl) ==
    /\ pc[c] = "fetch" /\ mints < MaxMints /\ ~UsableTtl(ttl)
    /\ mints' = mints + 1
    /\ token' = [token EXCEPT ![slot[c]] = IF @ # 0 /\ ~IsExpired(@) THEN @ ELSE 0]
    /\ Return(c, 0)
    /\ UNCHANGED <<entries, expires, invalid, now>>

\* Judging the cached token by the time the fetch began.
FetchFail_Unchecked(c, retryable) ==
    /\ pc[c] = "fetch"
    /\ LET t == token[slot[c]]
       IN  IF retryable /\ t # 0
           THEN Return(c, t)
           ELSE Return(c, 0)
    /\ UNCHANGED <<entries, tokenVars, now>>

\* The fetch fails: after a retryable error a token that is still valid is served.
FetchFail(c, retryable) ==
    /\ pc[c] = "fetch"
    /\ LET t == token[slot[c]]
       IN  IF retryable /\ t # 0 /\ ~IsExpired(t)
           THEN Return(c, t)
           ELSE Return(c, 0)
    /\ UNCHANGED <<entries, tokenVars, now>>

\* The endpoint answers r.
Fetched(c, r) ==
    LET f == fetch_token_inner(key[c], r)
    IN  \/ f.ok /\ (FetchOk(c, f.ttl) \/ FetchOkNoTtl(c, f.ttl))
        \/ ~f.ok /\ FetchFail(c, f.retryable)

\* The caller drops its call (the timeout around a connection attempt).
Cancel(c) ==
    /\ pc[c] \in {"lock", "fetch"}
    /\ pc' = [pc EXCEPT ![c] = "idle"] /\ slot' = [slot EXCEPT ![c] = 0]
    /\ key' = [key EXCEPT ![c] = "none"]
    /\ owner' = [s \in Slots |-> IF owner[s] = c THEN "free" ELSE owner[s]]
    /\ banned' = [banned EXCEPT ![c] = {}]
    /\ UNCHANGED <<entries, tokenVars, served, now>>

\* Leaving an entry alone while a call holds its slot.
Invalidate_SkipLocked(k) ==
    /\ entries[k] # 0
    /\ entries' = [entries EXCEPT ![k] = IF owner[@] = "free" THEN 0 ELSE @]
    /\ invalid' = invalid \cup ({token[entries[k]]} \ {0})
    /\ UNCHANGED <<token, expires, mints, owner, callVars, now>>

\* invalidate: the map loses the entry; a call that already has the slot keeps it.
Invalidate(k) ==
    /\ entries[k] # 0
    /\ entries' = [entries EXCEPT ![k] = 0]
    /\ invalid' = invalid \cup ({token[entries[k]]} \ {0})
    /\ UNCHANGED <<token, expires, mints, owner, callVars, now>>

Tick ==
    /\ now < MaxClock
    /\ now' = now + 1
    /\ UNCHANGED <<entries, tokenVars, owner, callVars>>

Next ==
    \/ \E c \in Callers :
          \/ \E k \in Keys : Lookup(c, k)
          \/ Lock(c) \/ Cancel(c)
          \/ \E r \in Responses : Fetched(c, r)
    \/ \E k \in Keys : Invalidate(k)
    \/ Tick

Spec == Init /\ [][Next]_vars

------------------------------------------------------------------------------
(* Properties *)

\* Slots and locks are consistent: a slot's mutex is held by the caller that is
\* fetching through it, and what a slot holds was minted (token_cache.rs:113-183).
TypeOK ==
    /\ entries \in [Keys -> Slots \cup {0}] /\ token \in [Slots -> 0 .. mints]
    /\ mints \in 0 .. MaxMints /\ now \in 0 .. MaxClock
    /\ pc \in [Callers -> {"idle", "lock", "fetch"}] /\ slot \in [Callers -> Slots \cup {0}]
    /\ \A s \in Slots, c \in Callers : owner[s] = c <=> pc[c] = "fetch" /\ slot[c] = s
    /\ invalid \subseteq 1 .. mints

\* A token served from the cache has not expired, also when it was checked before
\* a fetch that took a while and failed (token_cache.rs:126-156).
CachedTokenIsValid ==
    \A c \in Callers : served[c].token # 0 => served[c].at < expires[served[c].token]

\* A call that begins after an invalidate() is never served a token that this
\* invalidate() dropped, whichever calls were under way (token_cache.rs:185-197).
DroppedTokenNotServed ==
    \A c \in Callers : served[c].token # 0 => served[c].token \notin banned[c]
==============================================================================
