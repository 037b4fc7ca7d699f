----------------------------- MODULE LandingZone -----------------------------
(***************************************************************************)
(* The two queues of rust/sdk/src/landing_zone.rs and the synchronous      *)
(* methods on them.  Every method holds the state mutex for its whole      *)
(* body, so each is one atomic step.                                       *)
(*                                                                         *)
(*   queue     unobserved items, oldest first                              *)
(*   observed  items handed to the sender and not yet acknowledged         *)
(*   permits   length of the deque of semaphore permits the items hold     *)
(*                                                                         *)
(* The blocking halves of add() and observe() (the semaphore and the       *)
(* Notify) are in LandingZoneTasks.                                        *)
(***************************************************************************)
EXTENDS Naturals, Sequences

CONSTANT
    MaxInflight     \* max_inflight_requests, the capacity of the zone

ASSUME MaxInflightAssumption == MaxInflight \in Nat \ {0}

VARIABLES
    queue,
    observed,
    permits

lzVars == <<queue, observed, permits>>

LZInit ==
    /\ queue = <<>>
    /\ observed = <<>>
    /\ permits = 0

\* LandingZone::len: items held, observed or not.
LZLen == Len(queue) + Len(observed)

\* is_observed_empty
IsObservedEmpty == observed = <<>>

\* The critical section of add(): the caller already owns a permit.
Add(x) ==
    /\ queue' = Append(queue, x)
    /\ permits' = permits + 1
    /\ UNCHANGED observed

\* The critical section of observe() when the queue is not empty.
Observe ==
    /\ queue # <<>>
    /\ queue' = Tail(queue)
    /\ observed' = Append(observed, Head(queue))
    /\ UNCHANGED permits

\* remove_observed() when it returns Ok; on an empty observed queue it returns
\* RemovingNonObservedElement and changes nothing.
RemoveObserved ==
    /\ observed # <<>>
    /\ observed' = Tail(observed)
    /\ permits' = permits - 1
    /\ UNCHANGED queue

\* A recovery that put the unacknowledged items behind the new ones.
ResetObserve_Behind ==
    /\ queue' = queue \o observed
    /\ observed' = <<>>
    /\ UNCHANGED permits

\* reset_observe(): pop_back from observed, push_front onto queue, until empty.
ResetObserve ==
    /\ queue' = observed \o queue
    /\ observed' = <<>>
    /\ UNCHANGED permits

\* What remove_all() returns.
AllItems == observed \o queue

\* A drain that keeps the permits.
RemoveAll_LeakPermits ==
    /\ queue' = <<>>
    /\ observed' = <<>>
    /\ UNCHANGED permits

\* remove_all()
RemoveAll ==
    /\ queue' = <<>>
    /\ observed' = <<>>
    /\ permits' = 0
==============================================================================
