------------------------------ MODULE Bindings ------------------------------
(***************************************************************************)
(* One process, one binding: the calls of BindingCalls through the         *)
(* exported functions of the C FFI, the JNI layer, the Node or the Python  *)
(* binding.  Which one is chosen at the start.                             *)
(***************************************************************************)
EXTENDS FfiBinding, JniBinding, NodeBinding, PythonBinding

ASSUME BindingsAssumption ==
    /\ Calls \subseteq Nat /\ IsFiniteSet(Calls) /\ MaxRecords \in Nat /\ MaxBegun \in Nat
    /\ Streams \subseteq Nat /\ IsFiniteSet(Streams)
    /\ NULL \notin Streams
    /\ Layers \subseteq {"ffi", "jni", "node", "python"} \X BOOLEAN

BindingStep == FfiNext \/ JniNext \/ NodeNext \/ PythonNext

Next == (NativeStep \/ Server \/ BindingStep) /\ DropProviders

\* The steps that need nobody outside: a task that can run does run, a guard
\* that is granted is taken, a callback of the application returns, an answer
\* is delivered.  The server, new calls and the freeing of handles are free.
Progress(c) ==
    /\ \/ NativeIngestCheck(c) \/ NativeIngest(c)
       \/ NativeIngestThenWait(c) \/ NativeIngestRelock(c)
       \/ NativeWait(c) \/ NativeFlush(c) \/ NativeClose(c) \/ NativeCloseEnd(c)
       \/ NativeCloseEnded(c) \/ NativeQuery(c) \/ NativeUnacked(c)
       \/ NativeRecreate(c) \/ Connect(c) \/ CreateRefused(c) \/ CreateHeadersReturn(c)
       \/ binding = "ffi" /\ get_headers(c)
       \/ binding = "jni" /\ (JniAcquire(c) \/ java_get_headers(c))
       \/ binding = "node" /\ (NodeAcquire(c) \/ node_call_headers(c)
                               \/ StaticHeaders(c) \/ NativeIngestEmpty(c))
       \/ binding = "python" /\ (PythonAcquire(c) \/ NativeNone(c) \/ python_get_headers(c))
       \/ Done(c)
    /\ DropProviders

Spec == Init /\ [][Next]_cvars

FairSpec == /\ Spec
            /\ \A c \in Calls : WF_cvars(Progress(c))
            /\ \A s \in Streams : WF_cvars(SupervisorHeadersReturn(s) /\ DropProviders)

-----------------------------------------------------------------------------

\* Every operation that runs finds its stream object alive: freeing a handle
\* while asynchronous calls are outstanding (zerobus_stream_free, nativeDestroy,
\* a collected object) leaves them the Arc they cloned or the stream they took.
NoUseAfterFree ==
    \A c \in Calls : (call[c].pc = "native" /\ call[c].s # NULL) => Exists(call[c].s)

\* A provider's user data is released once, on every path: never while the SDK
\* can still call it or is calling it, and always once nothing can.  A refused or
\* failed creation, a recreation that shares the provider of the old stream and a
\* close that abandons a supervisor inside the callback are the hard paths.
ProviderReleasedOnce ==
    \A p \in Streams :
        LET users == {s \in Streams : stream[s].prov = p /\ Exists(s)}
            calls == {c \in Calls : Creating(c) /\ stream[call[c].new].prov = p}
        IN  /\ freed[p] <= 1
            /\ freed[p] = 1 => users = {} /\ calls = {} /\ Running(p) = {}
            /\ p \in given /\ users = {} /\ calls = {} /\ Running(p) = {} => freed[p] = 1

\* The C and Java callbacks are never entered twice at once, although the
\* supervisor of an abandoned stream and the creation that replaces it use the
\* same provider; and in_use or callback_lock is never left taken by a callback
\* that is over, so that the provider stays usable.
OneCallbackAtATime ==
    binding \in {"ffi", "jni"} =>
        \A p \in Streams : /\ Cardinality(Running(p)) <= 1
                           /\ busy[p] => Running(p) # {}

\* close works on the stream alone: where a binding has a lock, no other
\* operation runs on the stream between the flush of close and its end.
CloseRunsAlone ==
    binding # "ffi" =>
        \A c, d \in Calls :
            (/\ c # d /\ call[c].s = call[d].s /\ call[c].s # NULL
             /\ call[c].pc = "native" /\ call[c].op \in {"close", "closing"})
            => call[d].pc # "native"

\* What the old stream of a successful recreation has accepted without an
\* acknowledgement and the new stream does not have.
LeftBehind(c) == ToSet(Unacked(call[c].s)) \ ToSet(stream[call[c].new].log)

Recreated(c) == call[c].pc = "answer" /\ call[c].op = "recreate" /\ call[c].res = "ok"

\* A successful recreate leaves nothing behind but the records that other ingest
\* calls had already checked in when the old stream was read, and none at all
\* where ingestion looks again under the mutex of closure (Arrow streams) or
\* recreation has the stream to itself (Java, Node).
RecreateReplaysAll ==
    \A c \in Calls : Recreated(c) =>
        LeftBehind(c) \subseteq (IF arrow \/ binding \in {"jni", "node"} THEN {} ELSE call[c].late)

\* recreate_stream "automatically re-ingests all records that weren't
\* acknowledged" (sdk.rs): every record of the old stream, late ones included.
RecreateReplaysLate == \A c \in Calls : Recreated(c) => LeftBehind(c) = {}

\* Every call returns: no order of locks, callbacks, failures and cancellations
\* leaves a caller waiting for ever.  It rests on the fairness above: the
\* application's callbacks return and a runtime thread can attach to the JVM.
CallsReturn == \A c \in Calls : Active(c) ~> ~Active(c)

\* What close did not get acknowledged can still be read or recreated from the
\* stream that was closed (BaseZerobusStream.close, Node recreateStream).
UnackedSurviveClose ==
    \A c \in Calls :
        (/\ call[c].pc = "answer" /\ call[c].op = "closing"
         /\ handle[call[c].s] = "live" /\ Unacked(call[c].s) # <<>>)
        => Exists(call[c].s)
=============================================================================
