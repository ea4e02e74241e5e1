----------------------------- MODULE HttpService ----------------------------
(***************************************************************************)
(* The callback-based requests of Http and the shared service they run on: *)
(* one I/O thread, which runs the exchanges and hands each response over,  *)
(* and the callback threads.  Any thread makes requests and calls          *)
(* shutdown(), which abandons what is in flight by bumping an epoch.       *)
(***************************************************************************)
EXTENDS HttpExchange, FiniteSets

CONSTANTS
    Requests,           \* callback-based requests
    TlsRequests,        \* those with a https URL
    Stoppers,           \* calls of shutdown()
    CallbackCounts      \* what set_callback_threads() may have been given

VARIABLES
    service_state, stopped, threads, call,  \* of SharedService
    service_epoch_,         \* service_epoch_
    inline_callbacks_,      \* inline_callbacks_
    request,                \* each request: where it is, and its response_delivery
    shutdowns,              \* calls of shutdown() that have been made
    abandoned               \* requests that a shutdown() found in flight

async_ioc_ == 1
callback_ioc_ == 2
Service == INSTANCE SharedService WITH Callers <- Requests \cup Stoppers, Contexts <- 2

deliveryVars == <<service_epoch_, inline_callbacks_, request, shutdowns, abandoned>>
vars == <<service_state, stopped, threads, call, deliveryVars>>

NewRequest == [at |-> "new", step |-> 0, response |-> "none", epoch |-> 0, executor |-> FALSE]

Init ==
    /\ Service!Init
    /\ service_epoch_ = 0
    /\ inline_callbacks_ = FALSE
    /\ request = [r \in Requests |-> NewRequest]
    /\ shutdowns = {}
    /\ abandoned = {}

At(r, places) == request[r].at \in places
Go(r, to) == request' = [request EXCEPT ![r].at = to]
InFlight == {"session", "deliver", "checked", "queued"}

-----------------------------------------------------------------------------
(* async_*(): start_service(), then the exchange is spawned.               *)

AsyncRequest(r) ==
    /\ At(r, {"new"})
    /\ \E x \in BOOLEAN :
        request' = [request EXCEPT ![r] = [@ EXCEPT !.at = "call", !.executor = x]]
    /\ call' = [call EXCEPT ![r] = "claim"]
    /\ UNCHANGED <<service_state, stopped, threads, service_epoch_, inline_callbacks_,
                   shutdowns, abandoned>>

\* The epoch is the one found after start_service().
Spawn(r) ==
    /\ At(r, {"call"}) /\ call[r] = "no"
    /\ request' = [request EXCEPT ![r] = [@ EXCEPT !.at = "session", !.step = 1, !.epoch = service_epoch_]]
    /\ UNCHANGED <<service_state, stopped, threads, call, service_epoch_, inline_callbacks_,
                   shutdowns, abandoned>>

\* A fault: callbacks go on as under the last start.
CreateStale(r) ==
    /\ \E n \in CallbackCounts : Service!Create(r, <<1, n>>)
    /\ UNCHANGED deliveryVars

\* The count of callback threads is read once, whatever it has been set to.
Create(r) ==
    /\ \E n \in CallbackCounts :
        /\ Service!Create(r, <<1, n>>)
        /\ inline_callbacks_' = (n = 0)
    /\ UNCHANGED <<service_epoch_, request, shutdowns, abandoned>>

StartStep(r) ==
    \/ Service!StartClaim(r) /\ UNCHANGED deliveryVars
    \/ Create(r)
    \/ Service!Running(r) /\ UNCHANGED deliveryVars

-----------------------------------------------------------------------------
(* The I/O thread: one handler at a time, and a delivery, with an inline   *)
(* callback, is one handler.                                               *)

Unmoved ==
    UNCHANGED <<service_state, stopped, threads, call, service_epoch_, inline_callbacks_,
                shutdowns, abandoned>>

IOFree == \A r \in Requests : ~At(r, {"checked", "inline"})
IOThreadTakes(r, place) == IOFree /\ Service!Runs(async_ioc_) /\ At(r, {place})

Exchange(r) ==
    /\ IOThreadTakes(r, "session")
    /\ \E o \in Outcomes(r \in TlsRequests, request[r].step, request[r].response) :
        request' = [request EXCEPT ![r] = [@ EXCEPT !.at = IF o.step = 0 THEN "deliver" ELSE "session",
                                                    !.step = o.step, !.response = o.response]]
    /\ Unmoved

Deliver(r) ==
    /\ IOThreadTakes(r, "deliver")
    /\ Go(r, IF request[r].epoch = service_epoch_ THEN "checked" ELSE "dropped")
    /\ Unmoved

\* A fault: every callback runs on the I/O thread.
DispatchInline(r) ==
    /\ At(r, {"checked"})
    /\ Go(r, IF request[r].executor THEN "posted" ELSE "inline")
    /\ Unmoved

\* The rest of response_delivery::operator().
Dispatch(r) ==
    /\ At(r, {"checked"})
    /\ Go(r, IF request[r].executor THEN "posted"
             ELSE IF inline_callbacks_ THEN "inline" ELSE "queued")
    /\ Unmoved

-----------------------------------------------------------------------------
(* The callback threads.                                                   *)

Calling == {r \in Requests : At(r, {"calling"})}
CallbackThreadTakes(r) ==
    At(r, {"queued"}) /\ Service!Runs(callback_ioc_) /\ Cardinality(Calling) < threads[callback_ioc_]

\* A fault: whatever is queued is called.
CallBlindly(r) ==
    /\ CallbackThreadTakes(r)
    /\ Go(r, "calling")
    /\ Unmoved

\* The callback of an earlier epoch is dropped.
Call(r) ==
    /\ CallbackThreadTakes(r)
    /\ Go(r, IF request[r].epoch = service_epoch_ THEN "calling" ELSE "dropped")
    /\ Unmoved

\* A callback that throws is caught by run_service_thread().
CallbackReturns(r) ==
    /\ At(r, {"inline", "calling"})
    /\ Go(r, "done")
    /\ Unmoved

-----------------------------------------------------------------------------
(* shutdown().                                                             *)

Shutdown(c) ==
    /\ c \notin shutdowns
    /\ shutdowns' = shutdowns \cup {c}
    /\ call' = [call EXCEPT ![c] = "stop"]
    /\ UNCHANGED <<service_state, stopped, threads, service_epoch_, inline_callbacks_,
                   request, abandoned>>

StopClaim(c) ==
    /\ Service!StopClaim(c, "bump")
    /\ abandoned' = abandoned \cup {r \in Requests : At(r, InFlight)}
    /\ UNCHANGED <<service_epoch_, inline_callbacks_, request, shutdowns>>

Bump(c) ==
    /\ Service!Step(c, "bump", "halt")
    /\ service_epoch_' = service_epoch_ + 1
    /\ UNCHANGED <<service_state, stopped, threads, inline_callbacks_,
                   request, shutdowns, abandoned>>

StopStep(c) ==
    \/ StopClaim(c) \/ Bump(c)
    \/ /\ Service!StopReturns(c) \/ Service!Halt(c) \/ Service!Join(c, IOFree /\ Calling = {})
       /\ UNCHANGED deliveryVars

-----------------------------------------------------------------------------

RequestStep(r) ==
    \/ Spawn(r) \/ StartStep(r) \/ Exchange(r) \/ Deliver(r) \/ Dispatch(r) \/ Call(r)

Next ==
    \/ \E r \in Requests : AsyncRequest(r) \/ RequestStep(r) \/ CallbackReturns(r)
    \/ \E c \in Stoppers : Shutdown(c) \/ StopStep(c)

\* Calls run on, and so do the service's threads: every step of an exchange has
\* a timeout, or, the look-up of the name, an end of its own.  Nothing is
\* assumed of the callbacks.
Fairness ==
    /\ \A r \in Requests : WF_vars(RequestStep(r))
    /\ \A c \in Stoppers : WF_vars(StopStep(c))

Spec == Init /\ [][Next]_vars /\ Fairness

-----------------------------------------------------------------------------
(* Properties.                                                             *)

\* service_threads_ has no lock: the one call that creates or joins its threads
\* is alone.
OneOwner == Service!OneOwner

\* The callback of a request that a shutdown() found in flight is never called or
\* posted once that shutdown() is over, even if a later request restarts the
\* service and resumes it.
AbandonedSilent ==
    service_state # "stopping" =>
        \A r \in abandoned : ~At(r, {"checked", "inline", "calling"})

StaysUp == <>[](service_state = "running")

\* Every request is answered through its callback, unless a shutdown() abandons
\* it: it is never left queued where no thread will call it.
CallbacksReturn == \A r \in Requests : []<>~At(r, {"inline", "calling"})
Reported(r) == At(r, {"posted", "done"}) \/ request[r].epoch # service_epoch_
RequestsReported ==
    StaysUp /\ CallbacksReturn =>
        \A r \in Requests : At(r, {"session"}) /\ service_state = "running" ~> Reported(r)

\* "A request made while shutdown() is stopping the service stays queued until a
\* later request starts it again." (http.cpp:362-363)
LateRequestsReported ==
    StaysUp /\ CallbacksReturn => \A r \in Requests : At(r, {"session"}) ~> Reported(r)

\* "so a slow callback holds up other callbacks at most, never another request's
\* I/O" (http.hpp:42-44): with callback threads, no callback that blocks for ever
\* keeps a response from being handed over.
NeverHeldUp ==
    StaysUp /\ <>[]~inline_callbacks_ =>
        \A r \in Requests : At(r, {"session"}) ~> ~At(r, {"session", "deliver", "checked"})
=============================================================================
