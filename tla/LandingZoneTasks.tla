-------------------------- MODULE LandingZoneTasks ---------------------------
(***************************************************************************)
(* The landing zone under concurrent use: any number of add() calls that   *)
(* contend for the capacity semaphore, the one sender task that sits in    *)
(* observe(), the receiver task that removes acknowledged items, and the   *)
(* supervisor that resets or drains the zone.                              *)
(*                                                                         *)
(* External (tokio, modelled from how landing_zone.rs uses it):            *)
(*   Semaphore  fair: a released permit is assigned to the oldest waiter;  *)
(*              dropping a waiting or assigned acquire gives it back.      *)
(*   Notify     notify_one wakes the parked waiter, or stores one permit   *)
(*              when nobody is parked; dropping a woken waiter passes the  *)
(*              wake-up on.                                                *)
(***************************************************************************)
EXTENDS LandingZone, FiniteSets, SequencesExt

CONSTANT
    Items           \* the add() calls; each item is added by one call

VARIABLES
    available,      \* permits left in the semaphore
    semQueue,       \* add() calls waiting in the semaphore, oldest first
    call,           \* state of every add() call
    obsPc,          \* the sender's observe() call
    stored,         \* permits stored in the Notify: 0 or 1
    added,          \* history: items in the order add() enqueued them
    taken           \* history: items in the order they left the zone

semVars == <<available, semQueue, call>>
obsVars == <<obsPc, stored>>
vars == <<lzVars, semVars, obsVars, added, taken>>

\* "acquiring": acquire_owned() has not been polled to readiness;
\* "granted": the semaphore has assigned the permit, the push is still to come.
CallStates == {"new", "acquiring", "granted", "returned", "cancelled"}

\* "check": about to pop; "empty": found the queue empty, the Notified future
\* exists but has not been polled; "parked": registered with the Notify;
\* "woken": notified, not yet polled again.
ObserverStates == {"idle", "check", "empty", "parked", "woken"}

Init ==
    /\ LZInit
    /\ available = MaxInflight
    /\ semQueue = <<>>
    /\ call = [x \in Items |-> "new"]
    /\ obsPc = "idle"
    /\ stored = 0
    /\ added = <<>>
    /\ taken = <<>>

------------------------------------------------------------------------------
(* add() *)

\* How many of n released permits go to waiting calls, the rest to `available`.
HandedOff(n) == IF n <= Len(semQueue) THEN n ELSE Len(semQueue)

\* Dropping n OwnedSemaphorePermits; c is the state of the calls otherwise.
Release(n, c) ==
    /\ available' = available + (n - HandedOff(n))
    /\ semQueue' = SubSeq(semQueue, HandedOff(n) + 1, Len(semQueue))
    /\ call' = [x \in Items |->
                  IF \E i \in 1 .. HandedOff(n) : semQueue[i] = x
                  THEN "granted" ELSE c[x]]

\* add() starts: acquire_owned() succeeds at once or joins the wait list.
AddStart(x) ==
    /\ call[x] = "new"
    /\ IF available > 0
       THEN /\ available' = available - 1
            /\ call' = [call EXCEPT ![x] = "granted"]
            /\ UNCHANGED semQueue
       ELSE /\ semQueue' = Append(semQueue, x)
            /\ call' = [call EXCEPT ![x] = "acquiring"]
            /\ UNCHANGED available
    /\ UNCHANGED <<lzVars, obsVars, added, taken>>

\* add() that wakes nobody.
NotifyOne_Dropped == UNCHANGED obsVars

\* new_item_notify.notify_one()
NotifyOne ==
    IF obsPc = "parked"
    THEN obsPc' = "woken" /\ UNCHANGED stored
    ELSE stored' = 1 /\ UNCHANGED obsPc

\* add() continues: push under the state lock, then notify.
AddPush(x) ==
    /\ call[x] = "granted"
    /\ call' = [call EXCEPT ![x] = "returned"]
    /\ Add(x)
    /\ NotifyOne
    /\ added' = Append(added, x)
    /\ UNCHANGED <<available, semQueue, taken>>

\* A dropped add() future that takes the permit assigned to it along.
AddCancel_LosesPermit(x) ==
    /\ \/ /\ call[x] = "acquiring"
          /\ \E i \in DOMAIN semQueue :
                semQueue[i] = x /\ semQueue' = RemoveAt(semQueue, i)
       \/ call[x] = "granted" /\ UNCHANGED semQueue
    /\ call' = [call EXCEPT ![x] = "cancelled"]
    /\ UNCHANGED <<lzVars, obsVars, available, added, taken>>

\* The caller drops the add() future while it waits for capacity.
AddCancel(x) ==
    /\ \/ /\ call[x] = "acquiring"
          /\ \E i \in DOMAIN semQueue :
                semQueue[i] = x /\ semQueue' = RemoveAt(semQueue, i)
          /\ call' = [call EXCEPT ![x] = "cancelled"]
          /\ UNCHANGED available
       \/ /\ call[x] = "granted"
          /\ Release(1, [call EXCEPT ![x] = "cancelled"])
    /\ UNCHANGED <<lzVars, obsVars, added, taken>>

------------------------------------------------------------------------------
(* observe(), called by the sender task in a loop *)

ObserveStart ==
    /\ obsPc = "idle"
    /\ obsPc' = "check"
    /\ UNCHANGED <<lzVars, semVars, stored, added, taken>>

\* The critical section: pop and return, or find the queue empty.
ObserveCheck ==
    /\ obsPc = "check"
    /\ \/ Observe /\ obsPc' = "idle"
       \/ queue = <<>> /\ obsPc' = "empty" /\ UNCHANGED lzVars
    /\ UNCHANGED <<semVars, stored, added, taken>>

\* First poll of notified.await: consume a stored permit or park.
ObserveAwait ==
    /\ obsPc = "empty"
    /\ obsPc' = IF stored = 1 THEN "check" ELSE "parked"
    /\ stored' = 0
    /\ UNCHANGED <<lzVars, semVars, added, taken>>

ObserveWake ==
    /\ obsPc = "woken"
    /\ obsPc' = "check"
    /\ UNCHANGED <<lzVars, semVars, stored, added, taken>>

\* The sender's select! takes its cancellation branch and drops the future.
ObserveCancel ==
    /\ obsPc \in {"parked", "woken"}
    /\ obsPc' = "idle"
    /\ stored' = IF obsPc = "woken" THEN 1 ELSE stored
    /\ UNCHANGED <<lzVars, semVars, added, taken>>

------------------------------------------------------------------------------
(* The receiver and the supervisor *)

\* An acknowledgement that forgets to give the permit back.
AckRemove_LeakPermit ==
    /\ RemoveObserved
    /\ UNCHANGED <<semVars, obsVars, added>>
    /\ taken' = Append(taken, Head(observed))

\* remove_observed() on an acknowledgement.
AckRemove ==
    /\ RemoveObserved
    /\ Release(1, call)
    /\ taken' = Append(taken, Head(observed))
    /\ UNCHANGED <<obsVars, added>>

\* reset_observe() runs between two sender tasks, never beside one.
Reset ==
    /\ obsPc = "idle"
    /\ observed # <<>>
    /\ ResetObserve
    /\ UNCHANGED <<semVars, obsVars, added, taken>>

\* remove_all() by fail_all_pending_records or get_unacked_batches.
Drain ==
    /\ AllItems # <<>>
    /\ RemoveAll
    /\ Release(permits, call)
    /\ taken' = taken \o AllItems
    /\ UNCHANGED <<obsVars, added>>

\* Every add() is over and the zone is empty: only the observer can still move.
Quiet ==
    /\ \A x \in Items : call[x] \in {"returned", "cancelled"}
    /\ AllItems = <<>>
    /\ UNCHANGED vars

Next ==
    \/ \E x \in Items : AddStart(x) \/ AddPush(x) \/ AddCancel(x)
    \/ ObserveStart \/ ObserveCheck \/ ObserveAwait \/ ObserveWake \/ ObserveCancel
    \/ AckRemove \/ Reset \/ Drain
    \/ Quiet

\* A spawned task that can run does run.  The server does not reset the stream
\* for ever without acknowledging anything in between (strong fairness, because
\* a reset disables the acknowledgement).  Nothing forces a cancellation, a
\* reset or a drain.
Fairness ==
    /\ \A x \in Items : WF_vars(AddPush(x))
    /\ WF_vars(ObserveStart) /\ WF_vars(ObserveCheck)
    /\ WF_vars(ObserveAwait) /\ WF_vars(ObserveWake)
    /\ SF_vars(AckRemove)

Spec == Init /\ [][Next]_vars
FairSpec == Spec /\ Fairness

------------------------------------------------------------------------------
(* Properties *)

\* Every variable has the type its declaration in landing_zone.rs gives it.
TypeOK ==
    /\ queue \in Seq(Items)
    /\ observed \in Seq(Items)
    /\ permits \in Nat
    /\ available \in Nat
    /\ semQueue \in Seq(Items)
    /\ call \in [Items -> CallStates]
    /\ obsPc \in ObserverStates
    /\ stored \in {0, 1}
    /\ added \in Seq(Items)
    /\ taken \in Seq(Items)

\* The add() calls that own a permit and have not pushed their item yet.
Granted == {x \in Items : call[x] = "granted"}

\* Backpressure: the permits deque holds exactly one permit per item in the
\* zone, and the permits in the semaphore, in the hands of add() calls and in
\* the zone are the MaxInflight of the beginning: none is lost or minted,
\* whatever is cancelled, reset or drained while calls wait; and no call waits
\* while a permit is free (landing_zone.rs: add, remove_observed, remove_all).
PermitsConserved ==
    /\ permits = Len(queue) + Len(observed)
    /\ available + Cardinality(Granted) + permits = MaxInflight
    /\ available > 0 => semQueue = <<>>

\* No lost wake-up: observe() is never parked on an item, and if an item arrives
\* between its check and its await the Notify remembers it (landing_zone.rs:143-155).
NoLostWakeup ==
    /\ obsPc = "parked" => queue = <<>>
    /\ obsPc = "empty" /\ queue # <<>> => stored = 1

\* What leaves the zone, what waits for an acknowledgement and what waits to be
\* sent are, in this order, exactly what was added: resets and drains neither
\* lose, duplicate nor reorder an item.
FifoNoLoss == taken \o observed \o queue = added

\* A call waiting for capacity eventually gets in or is cancelled, under fair
\* scheduling of the tasks (landing_zone.rs add, acknowledgements and drains).
AdderIsServed ==
    \A x \in Items : (call[x] = "acquiring") ~> (call[x] \in {"returned", "cancelled"})

==============================================================================
