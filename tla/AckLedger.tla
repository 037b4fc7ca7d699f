------------------------------ MODULE AckLedger ------------------------------
(***************************************************************************)
(* What an ingest stream promises, whatever its connections do: records    *)
(* are accepted in offset order, each one is acknowledged in that order    *)
(* and only once it is durable, the offset announced to waiters is one     *)
(* that was acknowledged and never goes back, and everything that is not   *)
(* acknowledged when the stream ends is handed back, once.                 *)
(***************************************************************************)
EXTENDS Integers, Sequences, SequencesExt

CONSTANT Offset         \* the offsets a stream can hand out

VARIABLES
    pending,            \* accepted, neither acknowledged nor handed back
    acked,              \* acknowledged, in order
    returned,           \* handed back to the application, in order
    durable,            \* records the server has stored
    announced           \* highest acknowledged offset made known, -1 for none

ledgerVars == <<pending, acked, returned, durable, announced>>

Known == acked \o returned \o pending

LedgerInit ==
    /\ pending = <<>> /\ acked = <<>> /\ returned = <<>>
    /\ durable = {} /\ announced = -1

\* A record is accepted behind all earlier ones.
Accept(o) ==
    /\ \A i \in 1 .. Len(Known) : Known[i] < o
    /\ pending' = Append(pending, o)
    /\ UNCHANGED <<acked, returned, durable, announced>>

\* The server stores a record it was sent.
Store(o) ==
    /\ o \in ToSet(Known)
    /\ durable' = durable \cup {o}
    /\ UNCHANGED <<pending, acked, returned, announced>>

\* The oldest pending record is acknowledged, which requires it to be stored.
Acknowledge ==
    /\ pending # <<>> /\ Head(pending) \in durable
    /\ acked' = Append(acked, Head(pending))
    /\ pending' = Tail(pending)
    /\ UNCHANGED <<returned, durable, announced>>

\* Waiters learn of an acknowledgement.
Announce(o) ==
    /\ o \in ToSet(acked) /\ o > announced
    /\ announced' = o
    /\ UNCHANGED <<pending, acked, returned, durable>>

\* The stream is over: every pending record goes back to the application.
HandBack ==
    /\ returned' = returned \o pending
    /\ pending' = <<>>
    /\ UNCHANGED <<acked, durable, announced>>

LedgerNext ==
    \/ \E o \in Offset : Accept(o) \/ Store(o) \/ Announce(o)
    \/ Acknowledge \/ HandBack

LedgerSpec == LedgerInit /\ [][LedgerNext]_ledgerVars
==============================================================================
