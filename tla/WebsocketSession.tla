-------------------------- MODULE WebsocketSession ---------------------------
(***************************************************************************)
(* The life of one Websocket object over several sessions.  Each open()    *)
(* that (re)connects makes a new Impl, a session; the superseded one is    *)
(* detached and finishes in the background.  The service thread runs one   *)
(* handler at a time: the session coroutine, on_read, on_write, on_close,  *)
(* posted closes.  The client calls open(), close() and the destructor one *)
(* after the other, from its own thread or from a callback: a call may     *)
(* fall between any two steps of a handler.                                *)
(*                                                                         *)
(* Sessions whose read buffer is shared (a slick backend) hand it on: the  *)
(* next one opens only when the one before has released it.                *)
(*                                                                         *)
(* The service runs throughout (WebsocketService has its stops), and of    *)
(* the callbacks only onConnected may throw.                               *)
(***************************************************************************)
EXTENDS Naturals

CONSTANT MaxSessions        \* bound on the sessions of the object

ASSUME MaxSessionsAssumption == MaxSessions \in Nat \ {0}

Sessions == 1..MaxSessions
NoSession == 0

CONNECTING == 0
CONNECTED == 1
DISCONNECTING == 2
DISCONNECTED == 3

VARIABLES
    shared,     \* is_shared_buffer<BufferT>
    ses,        \* the sessions, in the order in which they are made
    impl,       \* the session impl_ points to
    cpc,        \* where the client is inside a call
    cur,        \* the session whose handler the service thread runs
    step        \* and where it is in that handler

client == <<shared, impl, cpc>>
handler == <<cur, step>>
vars == <<client, ses, handler>>

\* An Impl: its flags, and what the service holds for it.
Impl == [
    status : CONNECTING..DISCONNECTED,
    session_started : BOOLEAN,
    open_cancelled : BOOLEAN,
    detached : BOOLEAN,
    release_state : {"active", "callbackSet", "released"},
    net : {"none", "spawned", "connecting", "over"},        \* the session coroutine
    reading : BOOLEAN,                                      \* an async_read is outstanding
    closing : {"none", "socket", "frame", "closing", "over"},   \* the close that was posted
    connects : Nat,                                         \* onConnected calls that returned
    disconnects : Nat]                                      \* onDisconnected calls that returned

NewImpl == [
    status |-> DISCONNECTED, session_started |-> FALSE, open_cancelled |-> FALSE,
    detached |-> FALSE, release_state |-> "active", net |-> "none", reading |-> FALSE,
    closing |-> "none", connects |-> 0, disconnects |-> 0]

ClientSteps ==
    {"idle", "openCheck", "openConnected", "openConnecting", "openDetach", "openClose", "openNew",
     "openDefer", "openImpl", "closeCheck", "closeCancel", "closeImpl",
     "destroyCancel", "destroyClose", "destroyed"}

\* In a callback, from the decision to call it until it has returned.
Callbacks ==
    {"onConnected", "onData", "onReadError", "onWriteError", "onFailed", "onDisconnected",
     "onCloseError", "onClosed"}

HandlerSteps == Callbacks \cup
    {"idle", "open", "start", "upgraded", "connect", "announce", "connected", "arm", "completed",
     "failed", "reportFailed", "report", "release", "readFailed", "readDown", "closeDone",
     "reportClose"}

Init ==
    /\ shared \in BOOLEAN
    /\ ses = [i \in Sessions |-> NewImpl]
    /\ impl = NoSession
    /\ cpc = "idle"
    /\ cur = NoSession
    /\ step = "idle"

-----------------------------------------------------------------------------
(* What both sides do to a session.                                        *)

Stopped(s) == s.open_cancelled \/ s.detached

\* Impl::open() past its checks: the coroutine is spawned.
Started(s) == [s EXCEPT !.status = CONNECTING, !.session_started = TRUE, !.net = "spawned"]

\* Impl::close(): only the call that moves the status posts a close, and what
\* it posts depends on the status it moved.
Closed(s) ==
    IF s.status >= DISCONNECTING
    THEN s
    ELSE [s EXCEPT !.status = DISCONNECTING,
                   !.closing = IF s.status = CONNECTING THEN "socket" ELSE "frame"]

\* compare_exchange(CONNECTING, DISCONNECTED), of a session that gives up.
GaveUp(s) == [s EXCEPT !.status = IF @ = CONNECTING THEN DISCONNECTED ELSE @]

-----------------------------------------------------------------------------
(* The client.                                                             *)

\* A step of a call on the current session, which it leaves as s.
Call(from, to, s) ==
    /\ cpc = from
    /\ cpc' = to
    /\ ses' = [ses EXCEPT ![impl] = s]
    /\ UNCHANGED <<shared, impl, handler>>

CallOpen ==
    /\ cpc = "idle"
    /\ cpc' = IF impl = NoSession THEN "openNew" ELSE "openCheck"
    /\ UNCHANGED <<shared, impl, ses, handler>>

\* A session that has not started is left pending unless it was cancelled.
OpenCheck ==
    \/ Call("openCheck", "openConnected", ses[impl]) /\ ses[impl].session_started
    \/ /\ Call("openCheck", IF ses[impl].open_cancelled THEN "openDetach" ELSE "idle", ses[impl])
       /\ ~ses[impl].session_started

\* The status is read once for CONNECTED and once more for CONNECTING.
OpenConnected ==
    Call("openConnected",
         IF ses[impl].status = CONNECTED THEN "idle" ELSE "openConnecting", ses[impl])

OpenConnecting ==
    Call("openConnecting",
         IF ses[impl].status = CONNECTING THEN "idle" ELSE "openDetach", ses[impl])

\* MaxSessions bounds the calls that get here, past the looks that let open() return.
OpenDetach ==
    /\ impl < MaxSessions
    /\ Call("openDetach", "openClose", [ses[impl] EXCEPT !.detached = TRUE])

OpenClose ==
    Call("openClose", "openNew", IF ses[impl].session_started THEN Closed(ses[impl]) ELSE ses[impl])

\* A fault: the new session does not wait for the shared buffer.
OpenNewAtOnce ==
    /\ cpc = "openNew"
    /\ cpc' = "openImpl"
    /\ impl' = impl + 1
    /\ UNCHANGED <<shared, ses, handler>>

\* make_shared<Impl>, and mark_pending_open() when it has to wait.
OpenNew ==
    /\ cpc = "openNew"
    /\ impl' = impl + 1
    /\ IF shared /\ impl # NoSession
       THEN cpc' = "openDefer" /\ ses' = [ses EXCEPT ![impl + 1].status = CONNECTING]
       ELSE cpc' = "openImpl" /\ UNCHANGED ses
    /\ UNCHANGED <<shared, handler>>

\* A fault: a buffer that is already free is waited for.
OpenDeferBlind ==
    /\ cpc = "openDefer"
    /\ cpc' = "idle"
    /\ ses' = [ses EXCEPT ![impl - 1].release_state = IF @ = "active" THEN "callbackSet" ELSE @]
    /\ UNCHANGED <<shared, impl, handler>>

\* set_on_buffer_released() on the session before.
OpenDefer ==
    /\ cpc = "openDefer"
    /\ \/ /\ ses[impl - 1].release_state = "active"
          /\ ses' = [ses EXCEPT ![impl - 1].release_state = "callbackSet"]
          /\ cpc' = "idle"
       \/ /\ ses[impl - 1].release_state = "released"
          /\ cpc' = "openImpl"
          /\ UNCHANGED ses
    /\ UNCHANGED <<shared, impl, handler>>

OpenImpl == Call("openImpl", "idle", Started(ses[impl]))

CallClose == impl # NoSession /\ Call("idle", "closeCheck", ses[impl])

CloseCheck ==
    Call("closeCheck", IF ses[impl].session_started THEN "closeImpl" ELSE "closeCancel", ses[impl])

CloseCancel == Call("closeCancel", "idle", [ses[impl] EXCEPT !.open_cancelled = TRUE])

CloseImpl == Call("closeImpl", "idle", Closed(ses[impl]))

\* ~Websocket(): detach(), cancel_open(), and close() if the session has started.
Destroy ==
    impl # NoSession /\ Call("idle", "destroyCancel", [ses[impl] EXCEPT !.detached = TRUE])

DestroyCancel == Call("destroyCancel", "destroyClose", [ses[impl] EXCEPT !.open_cancelled = TRUE])

DestroyClose ==
    Call("destroyClose", "destroyed",
         IF ses[impl].session_started THEN Closed(ses[impl]) ELSE ses[impl])

-----------------------------------------------------------------------------
(* The session coroutine, on the service thread.                           *)

At(i, s) == cur = i /\ step = s

\* A step of the running handler, of session i, which it leaves as s.
Run(i, from, to, s) ==
    /\ At(i, from)
    /\ step' = to
    /\ cur' = IF to = "idle" THEN NoSession ELSE i
    /\ ses' = [ses EXCEPT ![i] = s]
    /\ UNCHANGED client

\* The service thread takes a handler of session i.
Take(i, to, s) ==
    /\ step = "idle"
    /\ step' = to
    /\ cur' = IF to = "idle" THEN NoSession ELSE i
    /\ ses' = [ses EXCEPT ![i] = s]
    /\ UNCHANGED client

SessionBegins(i) ==
    LET s == ses[i] IN
    /\ s.net = "spawned"
    /\ \/ /\ s.status # CONNECTING \/ Stopped(s)
          /\ Take(i, "completed", [GaveUp(s) EXCEPT !.net = "over"])
       \/ /\ s.status = CONNECTING /\ ~Stopped(s)
          /\ Take(i, "idle", [s EXCEPT !.net = "connecting"])

\* Resolving, connecting and the handshakes end: upgraded, failed, or closed by
\* the peer during the handshake, which is no failure.
NetworkAnswers(i) ==
    /\ ses[i].net = "connecting"
    /\ \E to \in {"upgraded", "failed", "completed"} : Take(i, to, [ses[i] EXCEPT !.net = "over"])

Upgraded(i) ==
    \/ Stopped(ses[i]) /\ Run(i, "upgraded", "completed", GaveUp(ses[i]))
    \/ ~Stopped(ses[i]) /\ Run(i, "upgraded", "connect", ses[i])

\* A fault: the status is stored, whatever it was.
ConnectStores(i) == Run(i, "connect", "announce", [ses[i] EXCEPT !.status = CONNECTED])

Connect(i) ==
    \/ /\ ses[i].status = CONNECTING
       /\ Run(i, "connect", "announce", [ses[i] EXCEPT !.status = CONNECTED])
    \/ ses[i].status # CONNECTING /\ Run(i, "connect", "completed", ses[i])

Announce(i) ==
    Run(i, "announce", IF ses[i].detached THEN "connected" ELSE "onConnected", ses[i])

\* An exception from the callback fails the session.
OnConnectedReturns(i) ==
    \E to \in {"connected", "failed"} :
        Run(i, "onConnected", to, [ses[i] EXCEPT !.connects = @ + 1])

Connected(i) ==
    Run(i, "connected",
        IF ses[i].status # CONNECTED \/ ses[i].detached THEN "completed" ELSE "arm", ses[i])

\* read_started_ = true and the first async_read: the completion handler of the
\* coroutine then has nothing to do.
Arm(i) == Run(i, "arm", "idle", [ses[i] EXCEPT !.reading = TRUE])

\* The completion handler of a session that never read: status_.exchange.
Complete(i) ==
    LET down == [ses[i] EXCEPT !.status = DISCONNECTED]
        wasClosing == ses[i].status = DISCONNECTING
    IN  \/ Run(i, "completed", IF wasClosing THEN "report" ELSE "release", down)
        \/ Run(i, "failed", IF wasClosing THEN "report" ELSE "reportFailed", down)

\* The status has been stored: is_detached() is a look of its own, one for both
\* callbacks of a failed session.
Report(i) ==
    \/ Run(i, "reportClose", IF ses[i].detached THEN "idle" ELSE "onClosed", ses[i])
    \/ Run(i, "report", IF ses[i].detached THEN "release" ELSE "onDisconnected", ses[i])
    \/ Run(i, "reportFailed", IF ses[i].detached THEN "release" ELSE "onFailed", ses[i])

OnFailedReturns(i) == Run(i, "onFailed", "onDisconnected", ses[i])

OnDisconnectedReturns(i) ==
    Run(i, "onDisconnected", "release", [ses[i] EXCEPT !.disconnects = @ + 1])

\* A fault: the buffer is handed on without a look at who waits for it.
ReleaseUnasked(i) ==
    /\ At(i, "release")
    /\ ses' = [ses EXCEPT ![i].release_state = "released"]
    /\ cur' = i + 1
    /\ step' = "open"
    /\ UNCHANGED client

\* release_buffer(): a no-op unless the buffer is shared.
Release(i) ==
    /\ At(i, "release")
    /\ ses' = [ses EXCEPT ![i].release_state = IF shared THEN "released" ELSE @]
    /\ IF ses[i].release_state = "callbackSet"
       THEN cur' = i + 1 /\ step' = "open"
       ELSE cur' = NoSession /\ step' = "idle"
    /\ UNCHANGED client

\* Impl::open() of the successor: cancelled or abandoned meanwhile, it forwards
\* the buffer.
OpenDeferred(i) ==
    \/ Stopped(ses[i]) /\ Run(i, "open", "release", GaveUp(ses[i]))
    \/ ~Stopped(ses[i]) /\ Run(i, "open", "start", ses[i])

StartDeferred(i) == Run(i, "start", "idle", Started(ses[i]))

-----------------------------------------------------------------------------
(* on_read, on_write and on_close, and the close that close() posts.       *)

\* A fault: data is delivered whatever has become of the session.
ReadOkUnchecked(i) ==
    ses[i].reading /\ Take(i, "onData", [ses[i] EXCEPT !.reading = FALSE])

ReadOk(i) ==
    LET up == ses[i].status = CONNECTED /\ ~ses[i].detached IN
    ses[i].reading /\ Take(i, IF up THEN "onData" ELSE "release", [ses[i] EXCEPT !.reading = FALSE])

\* The next async_read is started whatever the callback did.
OnDataReturns(i) == Run(i, "onData", "idle", [ses[i] EXCEPT !.reading = TRUE])

\* An expected end of the stream is not an error; any other one is, as long as
\* the connection is CONNECTED, and then closes it.
ReadFails(i) ==
    /\ ses[i].reading
    /\ \E to \in {"readFailed", "onReadError"} :
        /\ to = "onReadError" => ses[i].status = CONNECTED
        /\ Take(i, to, [ses[i] EXCEPT !.reading = FALSE])

\* on_error_ is skipped for a detached session, close() is not.
OnReadErrorReturns(i) == Run(i, "onReadError", "release", Closed(ses[i]))

ReadFailed(i) ==
    Run(i, "readFailed", IF ses[i].status = CONNECTED THEN "readDown" ELSE "release", ses[i])

\* The status is stored some time after it was read.
ReadDown(i) == Run(i, "readDown", "report", [ses[i] EXCEPT !.status = DISCONNECTED])

\* A write of a connection that is up fails unexpectedly.
WriteFails(i) ==
    /\ ses[i].reading
    /\ ses[i].status = CONNECTED
    /\ Take(i, "onWriteError", ses[i])

OnWriteErrorReturns(i) == Run(i, "onWriteError", "idle", Closed(ses[i]))

\* The handler close() posted: close the socket, or start async_close.
RunClose(i) ==
    \/ ses[i].closing = "socket" /\ Take(i, "idle", [ses[i] EXCEPT !.closing = "over"])
    \/ ses[i].closing = "frame" /\ Take(i, "idle", [ses[i] EXCEPT !.closing = "closing"])

\* on_close, with or without an error to report.
OnClose(i) ==
    /\ ses[i].closing = "closing"
    /\ \E to \in {"closeDone", "onCloseError"} :
        /\ to = "onCloseError" => ~ses[i].detached
        /\ Take(i, to, [ses[i] EXCEPT !.closing = "over"])

OnCloseErrorReturns(i) == Run(i, "onCloseError", "closeDone", ses[i])

\* A fault: on_close leaves the status to on_read.
CloseDoneNoStatus(i) ==
    Run(i, "closeDone", "reportClose", ses[i])

\* A fault: on_close leaves the report to on_read.
CloseDoneNoReport(i) == Run(i, "closeDone", "idle", [ses[i] EXCEPT !.status = DISCONNECTED])

\* A fault: a superseded session reports its end.
CloseDoneReports(i) == Run(i, "closeDone", "onClosed", [ses[i] EXCEPT !.status = DISCONNECTED])

CloseDone(i) == Run(i, "closeDone", "reportClose", [ses[i] EXCEPT !.status = DISCONNECTED])

OnClosedReturns(i) == Run(i, "onClosed", "idle", [ses[i] EXCEPT !.disconnects = @ + 1])

-----------------------------------------------------------------------------

ClientStep ==
    \/ OpenCheck \/ OpenConnected \/ OpenConnecting \/ OpenDetach \/ OpenClose \/ OpenNew
    \/ OpenDefer \/ OpenImpl \/ CloseCheck \/ CloseCancel \/ CloseImpl
    \/ DestroyCancel \/ DestroyClose

HandlerStep(i) ==
    \/ Upgraded(i) \/ Connect(i) \/ Announce(i) \/ OnConnectedReturns(i) \/ Connected(i) \/ Arm(i)
    \/ Complete(i) \/ Report(i) \/ OnFailedReturns(i) \/ OnDisconnectedReturns(i)
    \/ Release(i) \/ OpenDeferred(i) \/ StartDeferred(i)
    \/ OnDataReturns(i) \/ OnReadErrorReturns(i) \/ ReadFailed(i) \/ ReadDown(i)
    \/ OnWriteErrorReturns(i) \/ OnCloseErrorReturns(i) \/ CloseDone(i) \/ OnClosedReturns(i)

Next ==
    \/ CallOpen \/ CallClose \/ Destroy
    \/ ClientStep
    \/ \E i \in Sessions :
        \/ HandlerStep(i)
        \/ SessionBegins(i) \/ NetworkAnswers(i) \/ RunClose(i) \/ OnClose(i)
        \/ ReadOk(i) \/ ReadFails(i) \/ WriteFails(i)

\* Calls and handlers run on, and posted handlers get their turn beside a stream
\* that keeps delivering.  The network answers: connecting and closing are under
\* a timeout, and the read of a connection that is no longer up ends.
Fairness ==
    /\ WF_vars(ClientStep)
    /\ \A i \in Sessions :
        /\ WF_vars(HandlerStep(i))
        /\ SF_vars(SessionBegins(i) \/ NetworkAnswers(i))
        /\ SF_vars(RunClose(i) \/ OnClose(i))
        /\ SF_vars(ses[i].status # CONNECTED /\ (ReadOk(i) \/ ReadFails(i)))

Spec == Init /\ [][Next]_vars /\ Fairness

-----------------------------------------------------------------------------
(* Properties.                                                             *)

\* Every variable keeps its range, and nothing happens to a session before it
\* is made.
TypeOK ==
    /\ shared \in BOOLEAN
    /\ impl \in 0..MaxSessions
    /\ cpc \in ClientSteps
    /\ cur \in 0..impl
    /\ step \in HandlerSteps
    /\ ses \in [Sessions -> Impl]
    /\ \A i \in Sessions : i > impl => ses[i] = NewImpl

\* One session at a time touches a shared read buffer: when a session has
\* started, every session before it has released the buffer or never started,
\* has no read outstanding and is not about to start one.
BufferExclusive ==
    shared =>
        \A i, j \in Sessions : i < j /\ ses[j].session_started =>
            /\ ses[i].release_state = "released" \/ ~ses[i].session_started
            /\ ~ses[i].reading
            /\ ~(cur = i /\ step \in {"connect", "announce", "connected", "arm", "onData"})

\* The caller sees each session's events in order: connected, then data, then
\* disconnected.
CallbackOrder ==
    \A i \in Sessions :
        /\ At(i, "onData") => ses[i].connects = 1 /\ ses[i].disconnects = 0
        /\ At(i, "onConnected") => ses[i].connects = 0 /\ ses[i].disconnects = 0

\* A session that was closed or has ended never comes back up, although close(),
\* the handshake, the read loop and the completion handler all write the status.
ClosedStaysClosed ==
    [][\A i \in Sessions :
        ses[i].session_started /\ ses[i].status >= DISCONNECTING
            => ses'[i].status >= ses[i].status]_vars

\* Callbacks of two sessions never mix: once a session has reported onConnected,
\* no callback of an earlier one runs.
NewestOnly ==
    \A i, j \in Sessions :
        i < j /\ ses[j].connects > 0 => ~(cur = i /\ step \in Callbacks)

\* A close that was accepted ends the session.
CloseEnds ==
    \A i \in Sessions : ses[i].status = DISCONNECTING ~> ses[i].status = DISCONNECTED

\* A session that reported onConnected and has ended reports onDisconnected as long
\* as the client lets it be.  Waiting for DISCONNECTED before the next open() is not
\* enough for that: EndReported.
EndReportedIfKept ==
    \A i \in Sessions :
        ses[i].connects = 1 /\ ses[i].status = DISCONNECTED
            ~> ses[i].disconnects >= 1 \/ ses[i].detached

\* "If you need a guaranteed disconnected notification for every session, wait for
\* status() == DISCONNECTED before calling open() again" (websocket.hpp:97-99, and
\* README.md:626): a session that is DISCONNECTED before the client calls open()
\* reports onDisconnected, unless the client destroys the object.
EndReported ==
    \A i \in Sessions :
        ses[i].connects = 1 /\ ses[i].status = DISCONNECTED /\ ~ses[i].detached /\ cpc = "idle"
            ~> ses[i].disconnects >= 1 \/ cpc \in {"destroyCancel", "destroyClose", "destroyed"}

\* The handoff is never wedged: a session that waits for the shared buffer starts
\* or is cancelled or abandoned.
HandoffHappens ==
    \A i \in Sessions :
        impl = i /\ ses[i].status = CONNECTING /\ ~ses[i].session_started
            ~> ses[i].session_started \/ Stopped(ses[i])

\* A session ends with one onDisconnected: "open, connected, close, disconnected"
\* (README.md:618), and the reconnect test counts three in three cycles
\* (websocket_tests.cpp:1436).
DisconnectedOnce == \A i \in Sessions : ses[i].disconnects <= 1

\* "Detached or superseded WebSocket sessions now suppress stale error and
\* disconnect callbacks during teardown" (CHANGELOG.md:128): a session begins no
\* onDisconnected once a later one has been made.
SupersededSilent ==
    [][\A i \in Sessions :
        i < impl /\ At(i, "onDisconnected")' => At(i, "onDisconnected")]_vars
=============================================================================
