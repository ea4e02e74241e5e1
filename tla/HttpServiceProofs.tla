-------------------------- MODULE HttpServiceProofs --------------------------
(***************************************************************************)
(* For every number of requests, of shutdown()s and of callback threads,   *)
(* one call at a time owns the threads of the Http service, and no callback*)
(* of an abandoned request is called once the shutdown() is over.          *)
(***************************************************************************)
EXTENDS HttpService, TLAPS

Callers == Requests \cup Stoppers
Owning == {"create", "run", "bump", "halt", "join"}
Unspawned == {"new", "call"}
OnItsWay == {"session", "deliver", "queued"}
Acting == {"checked", "inline", "calling"}
Over == {"posted", "dropped", "done"}
RequestType == [at : Unspawned \cup OnItsWay \cup Acting \cup Over, step : Nat, epoch : Nat,
                response : {"none", "answer", "error"}, executor : BOOLEAN]

TypeOK ==
    /\ call \in [Callers -> Owning \cup {"no", "claim", "stop"}]
    /\ request \in [Requests -> RequestType]
    /\ service_epoch_ \in Nat
    /\ abandoned \subseteq Requests
    /\ shutdowns \subseteq Stoppers

\* No request is of an epoch to come, and one that is abandoned is of an earlier
\* epoch, or the shutdown() that abandoned it is about to bump it.
Bumping == \E c \in Callers : call[c] = "bump"
InShutdown == \A c \in Callers : call[c] \in {"stop", "bump"} => c \in shutdowns
Epochs == \A r \in Requests : request[r].epoch <= service_epoch_
AbandonedEarlier ==
    \A r \in abandoned :
        /\ request[r].at \notin Unspawned
        /\ request[r].epoch < service_epoch_ \/ Bumping

\* A thread is in async_*() or in shutdown().
Disjoint == Requests \cap Stoppers = {}

IInv == TypeOK /\ OneOwner /\ InShutdown /\ Epochs /\ AbandonedEarlier /\ AbandonedSilent

-----------------------------------------------------------------------------

LEMMA InitEstablishes == Init => IInv
<1>. SUFFICES ASSUME Init PROVE IInv
    OBVIOUS
<1>1. TypeOK
    <2>1. NewRequest \in RequestType
        BY DEF NewRequest, RequestType, Unspawned
    <2>. QED
        BY <2>1 DEF Init, Service!Init, TypeOK, Callers
<1>2. OneOwner
    BY DEF Init, Service!Init, OneOwner, Service!OneOwner, Service!Starting, Service!Stopping
<1>3. Epochs
    BY DEF Init, NewRequest, Epochs
<1>4. abandoned = {}
    BY DEF Init
<1>5. InShutdown
    BY DEF Init, Service!Init, InShutdown, Callers
<1>. QED
    BY <1>1, <1>2, <1>3, <1>4, <1>5 DEF IInv, AbandonedEarlier, AbandonedSilent

\* A step of a call that leaves the requests alone.
LEMMA CallMoves ==
    ASSUME IInv, NEW c \in Callers, NEW to \in Owning \cup {"no", "claim", "stop"},
           call' = [call EXCEPT ![c] = to], UNCHANGED <<request, service_epoch_, abandoned>>,
           OneOwner', call[c] # "bump", to # "bump",
           shutdowns \subseteq shutdowns', shutdowns' \subseteq Stoppers, to = "stop" => c \in shutdowns',
           service_state' # "stopping" =>
                service_state # "stopping" \/ \A r \in Requests : request[r].at \notin Acting
    PROVE  IInv'
<1>1. TypeOK'
    BY DEF IInv, TypeOK
<1>2. Epochs'
    BY DEF IInv, Epochs
<1>3. Bumping => Bumping'
    BY DEF Bumping, IInv, TypeOK
<1>4. AbandonedEarlier'
    BY <1>3 DEF IInv, AbandonedEarlier
<1>5. AbandonedSilent'
    BY DEF IInv, TypeOK, AbandonedSilent, At, Acting
<1>6. InShutdown'
    BY DEF IInv, TypeOK, InShutdown
<1>. QED
    BY <1>1, <1>2, <1>4, <1>5, <1>6 DEF IInv

Starting == Service!Starting
Stopping == Service!Stopping

\* A call moves on by itself, or takes a state that nobody owns, or gives up the one
\* it owns.
LEMMA OwnerMoves ==
    ASSUME TypeOK, OneOwner, NEW c \in Callers, NEW to, call' = [call EXCEPT ![c] = to],
           \/ UNCHANGED service_state /\ to \notin Starting \cup Stopping
           \/ UNCHANGED service_state /\ call[c] \in Starting /\ to \in Starting
           \/ UNCHANGED service_state /\ call[c] \in Stopping /\ to \in Stopping
           \/ service_state \notin {"starting", "stopping"} /\ to \in Starting /\ service_state' = "starting"
           \/ service_state \notin {"starting", "stopping"} /\ to \in Stopping /\ service_state' = "stopping"
           \/ call[c] \in Starting \cup Stopping /\ to \notin Starting \cup Stopping
    PROVE  OneOwner'
<1> DEFINE Own(x) == x \in Starting \cup Stopping
<1>1. /\ call'[c] = to
      /\ \A d \in Callers \ {c} : call'[d] = call[d]
    BY DEF TypeOK
<1>2. \A d, e \in Callers : Own(call[d]) /\ Own(call[e]) => d = e
    BY DEF OneOwner, Service!OneOwner, Callers, Starting, Stopping
<1>3. \A d \in Callers : /\ call[d] \in Starting => service_state = "starting"
                         /\ call[d] \in Stopping => service_state = "stopping"
    BY DEF OneOwner, Service!OneOwner, Callers, Starting, Stopping
<1>4. Starting \cap Stopping = {}
    BY DEF Starting, Stopping, Service!Starting, Service!Stopping
<1>5. \A d \in Callers : Own(call[d]) => service_state \in {"starting", "stopping"}
    BY <1>3
<1>6. \A d, e \in Callers : Own(call'[d]) /\ Own(call'[e]) => d = e
    BY <1>1, <1>2, <1>5
<1>7. \A d \in Callers : /\ call'[d] \in Starting => service_state' = "starting"
                         /\ call'[d] \in Stopping => service_state' = "stopping"
    BY <1>1, <1>2, <1>3, <1>4
<1>. QED
    BY <1>6, <1>7 DEF OneOwner, Service!OneOwner, Callers, Starting, Stopping, Service!Starting, Service!Stopping

\* Nobody owns a service that is stopped or running, and no shutdown() bumps the
\* epoch of one that is not stopping.
LEMMA Earlier ==
    ASSUME IInv, service_state # "stopping"
    PROVE  ~Bumping /\ \A r \in abandoned : request[r].epoch < service_epoch_
    BY DEF IInv, AbandonedEarlier, Bumping, OneOwner, Service!OneOwner, Callers, Service!Stopping

\* A step of a request that leaves the service alone.
LEMMA RequestMoves ==
    ASSUME IInv, NEW r \in Requests, NEW u \in RequestType, request' = [request EXCEPT ![r] = u],
           UNCHANGED <<service_state, service_epoch_, abandoned, shutdowns>>,
           call' \in [Callers -> Owning \cup {"no", "claim", "stop"}], Bumping => Bumping', OneOwner', InShutdown',
           u.epoch <= service_epoch_,
           r \in abandoned => u.at \notin Unspawned /\ u.epoch = request[r].epoch,
           r \in abandoned /\ service_state # "stopping" => u.at \notin Acting
    PROVE  IInv'
<1>1. /\ request'[r] = u
      /\ \A q \in Requests \ {r} : request'[q] = request[q]
    BY DEF IInv, TypeOK
<1>2. TypeOK'
    BY DEF IInv, TypeOK
<1>3. Epochs'
    BY <1>1 DEF IInv, Epochs
<1>4. AbandonedEarlier'
    BY <1>1 DEF IInv, TypeOK, AbandonedEarlier
<1>5. AbandonedSilent'
    BY <1>1 DEF IInv, TypeOK, AbandonedSilent, At, Acting
<1>. QED
    BY <1>2, <1>3, <1>4, <1>5 DEF IInv

\* async_*() up to the exchange's start.
LEMMA CallStep == ASSUME Disjoint, IInv, NEW r \in Requests, AsyncRequest(r) \/ Spawn(r) \/ StartStep(r) PROVE IInv'
<1>1. TypeOK /\ OneOwner /\ Epochs /\ AbandonedEarlier
    BY DEF IInv
<1>2. request[r] \in RequestType /\ r \in Callers /\ service_epoch_ \in Nat
    BY <1>1 DEF TypeOK, Callers
<1>3. CASE AsyncRequest(r)
    <2>1. PICK x \in BOOLEAN : request' = [request EXCEPT ![r] = [@ EXCEPT !.at = "call", !.executor = x]]
        BY <1>3 DEF AsyncRequest
    <2> DEFINE u == [request[r] EXCEPT !.at = "call", !.executor = x]
    <2>2. u \in RequestType /\ u.epoch = request[r].epoch
        BY <1>2 DEF RequestType, Unspawned
    <2>3. r \notin abandoned
        BY <1>1, <1>3 DEF AsyncRequest, At, AbandonedEarlier, Unspawned
    <2>4. /\ call' = [call EXCEPT ![r] = "claim"]
          /\ UNCHANGED <<service_state, service_epoch_, abandoned, shutdowns>>
        BY <1>3 DEF AsyncRequest
    <2>5. OneOwner'
        BY <1>1, <1>2, <2>4, OwnerMoves DEF Starting, Stopping, Service!Starting, Service!Stopping
    <2>6. call' \in [Callers -> Owning \cup {"no", "claim", "stop"}]
        BY <1>1, <2>4 DEF TypeOK
    <2>7. InShutdown' /\ (Bumping => Bumping')
        BY <1>1, <2>4 DEF Disjoint, IInv, TypeOK, Callers, InShutdown, Bumping
    <2>8. u.epoch <= service_epoch_
        BY <1>1, <2>2 DEF Epochs
    <2>. QED
        BY <2>1, <2>2, <2>3, <2>4, <2>5, <2>6, <2>7, <2>8, RequestMoves
<1>4. CASE Spawn(r)
    <2> DEFINE u == [request[r] EXCEPT !.at = "session", !.step = 1, !.epoch = service_epoch_]
    <2>1. u \in RequestType /\ u.epoch = service_epoch_
        BY <1>2 DEF RequestType, OnItsWay
    <2>2. r \notin abandoned
        BY <1>1, <1>4 DEF Spawn, At, AbandonedEarlier, Unspawned
    <2>3. /\ request' = [request EXCEPT ![r] = u]
          /\ UNCHANGED <<service_state, call, service_epoch_, abandoned, shutdowns>>
        BY <1>4 DEF Spawn
    <2>4. OneOwner' /\ call' \in [Callers -> Owning \cup {"no", "claim", "stop"}] /\ (Bumping => Bumping') /\ InShutdown'
        BY <1>1, <2>3 DEF IInv, InShutdown, OneOwner, Service!OneOwner, TypeOK, Bumping
    <2>5. u.epoch <= service_epoch_
        BY <1>2, <2>1
    <2>. QED
        BY <2>1, <2>2, <2>3, <2>4, <2>5, RequestMoves
<1>5. CASE StartStep(r)
    <2>1. UNCHANGED <<request, service_epoch_, abandoned>> /\ shutdowns' = shutdowns /\ shutdowns \subseteq Stoppers
        BY <1>1, <1>5 DEF TypeOK, StartStep, Create, deliveryVars
    <2>2. CASE Service!StartClaim(r)
        <3>1. \/ /\ service_state = "stopped" /\ call' = [call EXCEPT ![r] = "create"]
                 /\ service_state' = "starting"
              \/ call' = [call EXCEPT ![r] = "no"] /\ UNCHANGED service_state
            BY <2>2 DEF Service!StartClaim, Service!Step
        <3>2. OneOwner'
            BY <1>1, <1>2, <3>1, OwnerMoves DEF Starting, Stopping, Service!Starting, Service!Stopping
        <3>3. call[r] # "bump"
            BY <2>2 DEF Service!StartClaim, Service!Step
        <3>. QED
            BY <1>2, <2>1, <3>1, <3>2, <3>3, CallMoves DEF Owning
    <2>3. CASE Create(r)
        <3>1. call[r] = "create" /\ call' = [call EXCEPT ![r] = "run"] /\ UNCHANGED service_state
            BY <2>3 DEF Create, Service!Create, Service!Step
        <3>2. OneOwner'
            BY <1>1, <1>2, <3>1, OwnerMoves DEF Starting, Stopping, Service!Starting, Service!Stopping
        <3>. QED
            BY <1>2, <2>1, <3>1, <3>2, CallMoves DEF Owning
    <2>4. CASE Service!Running(r)
        <3>1. call[r] = "run" /\ call' = [call EXCEPT ![r] = "no"] /\ service_state' = "running"
            BY <2>4 DEF Service!Running, Service!Step
        <3>2. OneOwner'
            BY <1>1, <1>2, <3>1, OwnerMoves DEF Starting, Stopping, Service!Starting, Service!Stopping
        <3>3. service_state # "stopping"
            BY <1>1, <1>2, <3>1 DEF OneOwner, Service!OneOwner, Callers, Service!Starting
        <3>. QED
            BY <1>2, <2>1, <3>1, <3>2, <3>3, CallMoves DEF Owning
    <2>. QED
        BY <1>5, <2>2, <2>3, <2>4 DEF StartStep
<1>. QED
    BY <1>3, <1>4, <1>5

\* The I/O thread and the callback threads: what they hand over is of this epoch.
LEMMA HandlerStep ==
    ASSUME IInv, NEW r \in Requests, Exchange(r) \/ Deliver(r) \/ Dispatch(r) \/ Call(r) \/ CallbackReturns(r)
    PROVE  IInv'
<1>1. TypeOK /\ OneOwner /\ Epochs /\ AbandonedEarlier /\ AbandonedSilent
    BY DEF IInv
<1>2. request[r] \in RequestType /\ service_epoch_ \in Nat /\ request[r].epoch <= service_epoch_
    BY <1>1 DEF TypeOK, Epochs
<1>3. UNCHANGED <<service_state, call, service_epoch_, abandoned, shutdowns>>
    BY DEF Exchange, Deliver, Dispatch, Call, CallbackReturns, Unmoved
<1>4. OneOwner' /\ call' \in [Callers -> Owning \cup {"no", "claim", "stop"}] /\ (Bumping => Bumping') /\ InShutdown'
    BY <1>1, <1>3 DEF IInv, InShutdown, OneOwner, Service!OneOwner, TypeOK, Bumping
<1>5. ASSUME NEW u \in RequestType, request' = [request EXCEPT ![r] = u], u.epoch = request[r].epoch,
             u.at \notin Unspawned,
             service_state # "stopping" /\ r \in abandoned => u.at \notin Acting
      PROVE  IInv'
    BY <1>2, <1>3, <1>4, <1>5, RequestMoves
<1>6. CASE Exchange(r)
    <2>1. PICK o \in Outcomes(r \in TlsRequests, request[r].step, request[r].response) :
            request' = [request EXCEPT ![r] = [@ EXCEPT !.at = IF o.step = 0 THEN "deliver" ELSE "session",
                                                        !.step = o.step, !.response = o.response]]
        BY <1>6 DEF Exchange
    <2>2. o.step \in Nat /\ o.response \in {"none", "answer", "error"}
        <3>1. request[r].step \in Nat /\ request[r].response \in {"none", "answer", "error"}
            BY <1>2 DEF RequestType
        <3>. QED
            BY <2>1, <3>1 DEF Outcomes
    <2> DEFINE to == IF o.step = 0 THEN "deliver" ELSE "session"
    <2> DEFINE u == [request[r] EXCEPT !.at = to, !.step = o.step, !.response = o.response]
    <2>3. to \in OnItsWay
        BY DEF OnItsWay
    <2>4. u \in RequestType /\ u.epoch = request[r].epoch /\ u.at = to
        BY <1>2, <2>2, <2>3 DEF RequestType
    <2>5. to \notin Unspawned /\ to \notin Acting
        BY DEF Unspawned, Acting
    <2>. QED
        BY <1>5, <2>1, <2>4, <2>5
<1>7. ASSUME NEW to \in Acting \cup OnItsWay \cup Over, Go(r, to),
             service_state # "stopping" /\ r \in abandoned => to \notin Acting
      PROVE  IInv'
    <2> DEFINE u == [request[r] EXCEPT !.at = to]
    <2>1. u \in RequestType /\ u.epoch = request[r].epoch /\ u.at = to
        BY <1>2 DEF RequestType
    <2>2. to \notin Unspawned
        BY DEF Unspawned, Acting, OnItsWay, Over
    <2>. QED
        BY <1>5, <1>7, <2>1, <2>2 DEF Go
<1>8. service_state # "stopping" /\ r \in abandoned
        => request[r].epoch # service_epoch_ /\ request[r].at \notin Acting
    BY <1>1, <1>2, Earlier DEF AbandonedSilent, At, Acting
<1>9. CASE Deliver(r)
    <2>1. \/ Go(r, "checked") /\ request[r].epoch = service_epoch_
          \/ Go(r, "dropped")
        BY <1>9 DEF Deliver
    <2>. QED
        BY <1>7, <1>8, <2>1 DEF Acting, OnItsWay, Over
<1>10. CASE Dispatch(r)
    <2>1. PICK to \in {"posted", "inline", "queued"} : Go(r, to)
        BY <1>10 DEF Dispatch
    <2>2. request[r].at \in Acting
        BY <1>10 DEF Dispatch, At, Acting
    <2>. QED
        BY <1>7, <1>8, <2>1, <2>2 DEF Acting, OnItsWay, Over
<1>11. CASE Call(r)
    <2>1. \/ Go(r, "calling") /\ request[r].epoch = service_epoch_
          \/ Go(r, "dropped")
        BY <1>11 DEF Call
    <2>. QED
        BY <1>7, <1>8, <2>1 DEF Acting, OnItsWay, Over
<1>12. CASE CallbackReturns(r)
    BY <1>7, <1>12 DEF CallbackReturns, Acting, Over
<1>. QED
    BY <1>6, <1>9, <1>10, <1>11, <1>12

\* shutdown(): what it abandons is of an earlier epoch before it is over.
LEMMA ShutdownStep == ASSUME IInv, NEW c \in Stoppers, Shutdown(c) \/ StopStep(c) PROVE IInv'
<1>1. TypeOK /\ OneOwner /\ InShutdown /\ Epochs /\ AbandonedEarlier /\ c \in Callers
    BY DEF IInv, Callers
<1>2. shutdowns \subseteq Stoppers /\ service_epoch_ \in Nat
    BY <1>1 DEF TypeOK
<1>3. \A d \in Callers : call[d] \in {"bump", "halt", "join"} => service_state = "stopping"
    BY <1>1 DEF OneOwner, Service!OneOwner, Callers, Service!Stopping
<1>4. CASE Shutdown(c)
    <2>1. /\ call' = [call EXCEPT ![c] = "stop"] /\ shutdowns' = shutdowns \cup {c} /\ c \notin shutdowns
          /\ UNCHANGED <<service_state, request, service_epoch_, abandoned>>
        BY <1>4 DEF Shutdown
    <2>2. OneOwner'
        BY <1>1, <2>1, OwnerMoves DEF Starting, Stopping, Service!Starting, Service!Stopping
    <2>3. call[c] # "bump"
        BY <1>1, <2>1 DEF InShutdown
    <2>. QED
        BY <1>1, <1>2, <2>1, <2>2, <2>3, CallMoves
<1>5. CASE StopClaim(c)
    <2>1. /\ service_state = "running" /\ service_state' = "stopping"
          /\ call[c] = "stop" /\ call' = [call EXCEPT ![c] = "bump"]
          /\ abandoned' = abandoned \cup {r \in Requests : At(r, InFlight)}
          /\ UNCHANGED <<service_epoch_, request, shutdowns>>
        BY <1>5 DEF StopClaim, Service!StopClaim, Service!Step
    <2>2. OneOwner'
        BY <1>1, <2>1, OwnerMoves DEF Starting, Stopping, Service!Starting, Service!Stopping
    <2>3. TypeOK'
        BY <1>1, <2>1 DEF TypeOK, Owning
    <2>4. InShutdown' /\ Epochs'
        BY <1>1, <2>1 DEF TypeOK, InShutdown, Epochs
    <2>5. call'[c] = "bump"
        BY <1>1, <2>1 DEF TypeOK
    <2>6. AbandonedEarlier'
        BY <1>1, <2>1, <2>5 DEF AbandonedEarlier, Bumping, At, InFlight, Unspawned
    <2>7. AbandonedSilent'
        BY <2>1 DEF AbandonedSilent
    <2>. QED
        BY <2>2, <2>3, <2>4, <2>6, <2>7 DEF IInv
<1>6. CASE Bump(c)
    <2>1. /\ call[c] = "bump" /\ call' = [call EXCEPT ![c] = "halt"]
          /\ service_epoch_' = service_epoch_ + 1
          /\ UNCHANGED <<service_state, request, shutdowns, abandoned>>
        BY <1>6 DEF Bump, Service!Step
    <2>2. OneOwner'
        BY <1>1, <2>1, OwnerMoves DEF Starting, Stopping, Service!Starting, Service!Stopping
    <2>3. TypeOK'
        BY <1>1, <2>1 DEF TypeOK, Owning
    <2>4. InShutdown'
        BY <1>1, <2>1 DEF TypeOK, InShutdown
    <2>5. \A r \in Requests : request[r].epoch \in Nat
        BY <1>1 DEF TypeOK, RequestType
    <2>6. Epochs'
        BY <1>1, <1>2, <2>1, <2>5 DEF Epochs
    <2>7. AbandonedEarlier'
        BY <1>1, <1>2, <2>1, <2>5 DEF TypeOK, Epochs, AbandonedEarlier
    <2>8. AbandonedSilent'
        BY <1>1, <1>3, <2>1 DEF AbandonedSilent
    <2>. QED
        BY <2>2, <2>3, <2>4, <2>6, <2>7, <2>8 DEF IInv
<1>7. ASSUME UNCHANGED deliveryVars, NEW to \in {"no", "halt", "join"},
             call[c] \in {"stop", "halt", "join"}, call' = [call EXCEPT ![c] = to],
             to = "no" \/ (call[c] = "halt" /\ UNCHANGED service_state),
             UNCHANGED service_state \/ (call[c] = "join" /\ \A r \in Requests : request[r].at \notin Acting)
      PROVE  IInv'
    <2>1. OneOwner'
        BY <1>1, <1>7, OwnerMoves DEF Starting, Stopping, Service!Starting, Service!Stopping
    <2>. QED
        BY <1>1, <1>2, <1>7, <2>1, CallMoves DEF deliveryVars, Owning
<1>8. CASE UNCHANGED deliveryVars /\ Service!StopReturns(c)
    BY <1>7, <1>8 DEF Service!StopReturns, Service!Step
<1>9. CASE UNCHANGED deliveryVars /\ Service!Halt(c)
    <2>1. PICK to \in {"halt", "join"} : call' = [call EXCEPT ![c] = to]
        BY <1>9 DEF Service!Halt, Service!Step
    <2>. QED
        BY <1>7, <1>9, <2>1 DEF Service!Halt, Service!Step
<1>10. CASE UNCHANGED deliveryVars /\ Service!Join(c, IOFree /\ Calling = {})
    <2>1. \A r \in Requests : request[r].at \notin Acting
        BY <1>10 DEF Service!Join, IOFree, Calling, At, Acting
    <2>. QED
        BY <1>7, <1>10, <2>1 DEF Service!Join, Service!Step
<1>. QED
    BY <1>4, <1>5, <1>6, <1>8, <1>9, <1>10 DEF StopStep

\* The inductive invariant of the Http service: who owns its threads, and which
\* epoch a request is of.
THEOREM Invariance == ASSUME Disjoint PROVE Spec => []IInv
<1>1. ASSUME IInv, UNCHANGED vars PROVE IInv'
    <2>1. UNCHANGED <<service_state, call, request, service_epoch_, shutdowns, abandoned>>
        BY <1>1 DEF vars, deliveryVars
    <2>2. TypeOK' /\ InShutdown' /\ Epochs' /\ AbandonedEarlier' /\ AbandonedSilent'
        BY <1>1, <2>1 DEF IInv, TypeOK, InShutdown, Epochs, AbandonedEarlier, Bumping, AbandonedSilent, At
    <2>3. OneOwner'
        BY <1>1, <2>1 DEF IInv, OneOwner, Service!OneOwner
    <2>. QED
        BY <2>2, <2>3 DEF IInv
<1>2. IInv /\ [Next]_vars => IInv'
    BY <1>1, CallStep, HandlerStep, ShutdownStep DEF Next, RequestStep
<1>. QED
    BY InitEstablishes, <1>2, PTL DEF Spec

\* Only one call at a time, of those that make requests and those that shut down,
\* is creating or joining the threads (start_service(), shutdown()).
THEOREM OneOwnerAlways == ASSUME Disjoint PROVE Spec => []OneOwner
<1>1. IInv => OneOwner
    BY DEF IInv
<1>. QED
    BY Invariance, <1>1, PTL

\* A request that a shutdown() abandoned calls nobody back once the shutdown() is
\* over, however often the service is restarted (response_delivery).
THEOREM AbandonedNeverCalls == ASSUME Disjoint PROVE Spec => []AbandonedSilent
<1>1. IInv => AbandonedSilent
    BY DEF IInv
<1>. QED
    BY Invariance, <1>1, PTL

-----------------------------------------------------------------------------
(* The service keeps the promise of ThreadOwnership.                       *)

\* A service that is stopped, or claimed to be started, has no threads.
NoneLeft ==
    /\ service_state = "stopped" => threads = Service!NoThreads
    /\ \A c \in Callers : call[c] = "create" => threads = Service!NoThreads

\* A call that has not been made is nowhere in the service.
NotYetCalled ==
    /\ \A r \in Requests : request[r].at = "new" => call[r] = "no"
    /\ \A c \in Stoppers \ shutdowns : call[c] = "no"

OwnershipIInv == IInv /\ NoneLeft /\ NotYetCalled

Starter == {c \in Callers : call[c] \in Starting}
Stopper == {c \in Callers : call[c] \in Stopping}
Joinable == threads # Service!NoThreads
Ownership == INSTANCE ThreadOwnership WITH starter <- Starter, stopper <- Stopper, joinable <- Joinable

\* Who has the threads, where somebody has: that call and no other.
LEMMA OwnersAre ==
    ASSUME IInv, NEW c \in Callers
    PROVE  /\ call[c] \in Starting => Starter = {c} /\ Stopper = {} /\ service_state = "starting"
           /\ call[c] \in Stopping => Starter = {} /\ Stopper = {c} /\ service_state = "stopping"
           /\ service_state \notin {"starting", "stopping"} => Ownership!Unowned
<1>1. /\ \A d, e \in Callers : call[d] \in Starting \cup Stopping /\ call[e] \in Starting \cup Stopping => d = e
      /\ \A d \in Callers : /\ call[d] \in Starting => service_state = "starting"
                            /\ call[d] \in Stopping => service_state = "stopping"
    BY DEF IInv, OneOwner, Service!OneOwner, Callers, Starting, Stopping
<1>2. Starting \cap Stopping = {}
    BY DEF Starting, Stopping, Service!Starting, Service!Stopping
<1>. QED
    BY <1>1, <1>2 DEF Starter, Stopper, Ownership!Unowned

\* A step of a call says by itself who has the threads after it.
LEMMA OwnersMove ==
    ASSUME IInv, NEW c \in Callers, NEW to, call' = [call EXCEPT ![c] = to]
    PROVE  /\ Starter' = IF to \in Starting THEN Starter \cup {c} ELSE Starter \ {c}
           /\ Stopper' = IF to \in Stopping THEN Stopper \cup {c} ELSE Stopper \ {c}
<1>1. call'[c] = to /\ \A d \in Callers \ {c} : call'[d] = call[d]
    BY DEF IInv, TypeOK
<1>2. Starting' = Starting /\ Stopping' = Stopping
    BY DEF Starting, Stopping, Service!Starting, Service!Stopping
<1>. QED
    BY <1>1, <1>2 DEF Starter, Stopper

Unmoving == UNCHANGED <<Starter, Stopper, Joinable>>

\* A step that neither makes an owner nor ends one.
LEMMA OwnersStay ==
    ASSUME IInv, NEW c \in Callers, NEW to, call' = [call EXCEPT ![c] = to],
           to \in Starting <=> call[c] \in Starting, to \in Stopping <=> call[c] \in Stopping,
           UNCHANGED threads
    PROVE  Unmoving
<1>1. to \in Starting <=> c \in Starter
    BY DEF Starter
<1>2. to \in Stopping <=> c \in Stopper
    BY DEF Stopper
<1>3. /\ Starter' = IF to \in Starting THEN Starter \cup {c} ELSE Starter \ {c}
      /\ Stopper' = IF to \in Stopping THEN Stopper \cup {c} ELSE Stopper \ {c}
    BY OwnersMove
<1>4. Starter' = Starter
    BY <1>1, <1>3
<1>5. Stopper' = Stopper
    BY <1>2, <1>3
<1>. QED
    BY <1>4, <1>5 DEF Unmoving, Joinable, Service!NoThreads

\* The steps of start_service() and of shutdown().
LEMMA CallKeepsOwnership ==
    ASSUME OwnershipIInv, NEW c \in Callers,
           \/ Service!StartClaim(c) \/ (\E n \in CallbackCounts : Service!Create(c, <<1, n>>)) \/ Service!Running(c)
           \/ Service!StopReturns(c) \/ Service!StopClaim(c, "bump") \/ Service!Halt(c) \/ Service!Join(c, TRUE)
           \/ Service!Step(c, "bump", "halt") /\ UNCHANGED <<service_state, threads>>
    PROVE  (Ownership!Next \/ Unmoving) /\ NoneLeft'
<1> USE DEF Starting, Stopping, Service!Starting, Service!Stopping
<1>1. IInv /\ NoneLeft /\ call \in [Callers -> Owning \cup {"no", "claim", "stop"}]
    BY DEF OwnershipIInv, IInv, TypeOK
<1>2. (Service!NoThreads)' = Service!NoThreads
    BY DEF Service!NoThreads
<1>3. ASSUME NEW to, call' = [call EXCEPT ![c] = to], to # "create", UNCHANGED threads,
             service_state' = "stopped" => service_state = "stopped"
      PROVE  NoneLeft'
    BY <1>1, <1>2, <1>3 DEF NoneLeft
<1>4. CASE Service!StartClaim(c)
    <2>1. UNCHANGED threads
        BY <1>4 DEF Service!StartClaim
    <2>2. CASE service_state = "stopped"
        <3>1. call' = [call EXCEPT ![c] = "create"] /\ service_state' = "starting"
            BY <1>4, <2>2 DEF Service!StartClaim, Service!Step
        <3>2. Ownership!Unowned
            BY <1>1, <2>2, OwnersAre
        <3>3. Starter' = {c} /\ Stopper' = Stopper
            BY <1>1, <3>1, <3>2, OwnersMove DEF Ownership!Unowned
        <3>4. Ownership!StartClaims(c)
            BY <1>2, <2>1, <3>2, <3>3 DEF Ownership!StartClaims, Joinable
        <3>5. NoneLeft'
            BY <1>1, <1>2, <2>1, <2>2, <3>1 DEF NoneLeft
        <3>. QED
            BY <3>4, <3>5 DEF Ownership!Next
    <2>3. CASE service_state # "stopped"
        <3>1. call[c] = "claim" /\ call' = [call EXCEPT ![c] = "no"] /\ UNCHANGED service_state
            BY <1>4, <2>3 DEF Service!StartClaim, Service!Step
        <3>2. Unmoving
            BY <1>1, <2>1, <3>1, OwnersStay
        <3>. QED
            BY <1>3, <2>1, <3>1, <3>2
    <2>. QED
        BY <2>2, <2>3
<1>5. ASSUME NEW n \in CallbackCounts, Service!Create(c, <<1, n>>) PROVE (Ownership!Next \/ Unmoving) /\ NoneLeft'
    <2>1. call[c] = "create" /\ call' = [call EXCEPT ![c] = "run"] /\ UNCHANGED service_state
        BY <1>5 DEF Service!Create, Service!Step
    <2>2. Starter = {c} /\ Stopper = {} /\ service_state = "starting" /\ ~Joinable
        BY <1>1, <2>1, OwnersAre DEF Joinable, NoneLeft
    <2>3. UNCHANGED <<Starter, Stopper>>
        BY <1>1, <2>1, <2>2, OwnersMove
    <2>4. Ownership!Create(c) \/ Unmoving
        BY <2>2, <2>3 DEF Ownership!Create, Unmoving, Joinable
    <2>5. \A d \in Callers : call'[d] # "create"
        <3>1. \A d \in Callers : call[d] = "create" => d \in Starter
            BY DEF Starter
        <3>. QED
            BY <1>1, <2>1, <2>2, <3>1
    <2>6. NoneLeft'
        BY <2>1, <2>2, <2>5 DEF NoneLeft
    <2>. QED
        BY <2>4, <2>6 DEF Ownership!Next
<1>6. CASE Service!Running(c)
    <2>1. call[c] = "run" /\ call' = [call EXCEPT ![c] = "no"] /\ service_state' = "running" /\ UNCHANGED threads
        BY <1>6 DEF Service!Running, Service!Step
    <2>2. Starter = {c} /\ Stopper = {}
        BY <1>1, <2>1, OwnersAre
    <2>3. Starter' = {} /\ Stopper' = Stopper
        BY <1>1, <2>1, <2>2, OwnersMove
    <2>4. Ownership!StartOver(c)
        BY <1>2, <2>1, <2>2, <2>3 DEF Ownership!StartOver, Joinable
    <2>. QED
        BY <1>3, <2>1, <2>4 DEF Ownership!Next
<1>7. CASE Service!StopReturns(c)
    <2>1. call[c] = "stop" /\ call' = [call EXCEPT ![c] = "no"] /\ UNCHANGED <<service_state, threads>>
        BY <1>7 DEF Service!StopReturns, Service!Step
    <2>2. Unmoving
        BY <1>1, <2>1, OwnersStay
    <2>. QED
        BY <1>3, <2>1, <2>2
<1>8. CASE Service!StopClaim(c, "bump")
    <2>1. /\ call' = [call EXCEPT ![c] = "bump"] /\ service_state = "running" /\ service_state' = "stopping"
          /\ UNCHANGED threads
        BY <1>8 DEF Service!StopClaim, Service!Step
    <2>2. Ownership!Unowned
        BY <1>1, <2>1, OwnersAre
    <2>3. Stopper' = {c} /\ Starter' = Starter
        BY <1>1, <2>1, <2>2, OwnersMove DEF Ownership!Unowned
    <2>4. Ownership!StopClaims(c)
        BY <1>2, <2>1, <2>2, <2>3 DEF Ownership!StopClaims, Joinable
    <2>. QED
        BY <1>3, <2>1, <2>4 DEF Ownership!Next
<1>9. CASE Service!Halt(c) \/ (Service!Step(c, "bump", "halt") /\ UNCHANGED <<service_state, threads>>)
    <2>1. PICK to \in {"halt", "join"} :
            call[c] \in {"bump", "halt"} /\ call' = [call EXCEPT ![c] = to] /\ UNCHANGED <<service_state, threads>>
        BY <1>9 DEF Service!Halt, Service!Step
    <2>2. Unmoving
        BY <1>1, <2>1, OwnersStay
    <2>. QED
        BY <1>3, <2>1, <2>2
<1>10. CASE Service!Join(c, TRUE)
    <2>1. call[c] = "join" /\ call' = [call EXCEPT ![c] = "no"] /\ threads' = Service!NoThreads
        BY <1>10 DEF Service!Join, Service!Step
    <2>2. Starter = {} /\ Stopper = {c}
        BY <1>1, <2>1, OwnersAre
    <2>3. Stopper' = {} /\ Starter' = Starter
        BY <1>1, <2>1, <2>2, OwnersMove
    <2>4. Joinable' = FALSE
        BY <1>2, <2>1 DEF Joinable
    <2>5. Ownership!StopOver(c)
        BY <2>2, <2>3, <2>4 DEF Ownership!StopOver
    <2>6. NoneLeft'
        BY <1>2, <2>1 DEF NoneLeft
    <2>. QED
        BY <2>5, <2>6 DEF Ownership!Next
<1>. QED
    BY <1>4, <1>5, <1>6, <1>7, <1>8, <1>9, <1>10

LEMMA OwnershipStep ==
    ASSUME Disjoint, OwnershipIInv, IInv', [Next]_vars
    PROVE  [Ownership!Next]_<<Starter, Stopper, Joinable>> /\ OwnershipIInv'
<1> USE DEF Starting, Stopping, Service!Starting, Service!Stopping
<1>. SUFFICES (Ownership!Next \/ Unmoving) /\ NoneLeft' /\ NotYetCalled'
    BY DEF Unmoving, OwnershipIInv
<1>0. /\ IInv /\ NoneLeft /\ NotYetCalled /\ call \in [Callers -> Owning \cup {"no", "claim", "stop"}]
      /\ request \in [Requests -> RequestType] /\ Requests \subseteq Callers /\ Stoppers \subseteq Callers
    BY DEF OwnershipIInv, IInv, TypeOK, Callers
<1>1. ASSUME UNCHANGED <<service_state, threads, call>> PROVE Unmoving /\ NoneLeft'
    BY <1>0, <1>1 DEF Unmoving, Starter, Stopper, Joinable, NoneLeft, Service!NoThreads
<1>2. ASSUME NEW c \in Callers, NEW to \in {"claim", "stop"}, call[c] = "no", call' = [call EXCEPT ![c] = to],
             UNCHANGED <<service_state, threads>>
      PROVE  Unmoving /\ NoneLeft'
    <2>1. Unmoving
        BY <1>0, <1>2, OwnersStay
    <2>. QED
        BY <1>0, <1>2, <2>1 DEF NoneLeft, Service!NoThreads
<1>3. ASSUME NEW r \in Requests, AsyncRequest(r) PROVE (Ownership!Next \/ Unmoving) /\ NoneLeft' /\ NotYetCalled'
    <2>1. call[r] = "no" /\ call' = [call EXCEPT ![r] = "claim"] /\ UNCHANGED <<service_state, threads, shutdowns>>
        BY <1>0, <1>3 DEF AsyncRequest, At, NotYetCalled
    <2>2. /\ request'[r].at = "call"
          /\ \A q \in Requests \ {r} : request'[q] = request[q]
        BY <1>0, <1>3 DEF AsyncRequest, RequestType
    <2>3. \A d \in Callers \ {r} : call'[d] = call[d]
        BY <1>0, <2>1
    <2>4. NotYetCalled'
        BY <1>0, <2>1, <2>2, <2>3 DEF NotYetCalled, Disjoint
    <2>. QED
        BY <1>0, <1>2, <2>1, <2>4
<1>4. ASSUME NEW r \in Requests,
             \/ Spawn(r) \/ Exchange(r) \/ Deliver(r) \/ Dispatch(r) \/ Call(r) \/ CallbackReturns(r)
      PROVE  (Ownership!Next \/ Unmoving) /\ NoneLeft' /\ NotYetCalled'
    <2>1. UNCHANGED <<service_state, threads, call, shutdowns>>
        BY <1>4 DEF Spawn, Exchange, Deliver, Dispatch, Call, CallbackReturns, Unmoved
    <2>2. request[r].at # "new" /\ \E u : request' = [request EXCEPT ![r] = u]
        BY <1>4 DEF Spawn, Exchange, Deliver, Dispatch, Call, CallbackReturns, IOThreadTakes, CallbackThreadTakes, At, Go
    <2>3. \A q \in Requests : request'[q].at = "new" => q = r \/ request[q].at = "new"
        BY <1>0, <2>2
    <2>4. request'[r].at # "new"
        BY <1>0, <1>4 DEF Spawn, Exchange, Deliver, Dispatch, Call, CallbackReturns, Go, RequestType
    <2>5. NotYetCalled'
        BY <1>0, <2>1, <2>3, <2>4 DEF NotYetCalled
    <2>. QED
        BY <1>1, <2>1, <2>5
<1>5. ASSUME NEW r \in Requests, StartStep(r) PROVE (Ownership!Next \/ Unmoving) /\ NoneLeft' /\ NotYetCalled'
    <2>1. /\ Service!StartClaim(r) \/ (\E n \in CallbackCounts : Service!Create(r, <<1, n>>)) \/ Service!Running(r)
          /\ UNCHANGED <<request, shutdowns>>
        BY <1>5 DEF StartStep, Create, deliveryVars
    <2>2. call[r] # "no" /\ \E to : call' = [call EXCEPT ![r] = to]
        BY <2>1 DEF Service!StartClaim, Service!Create, Service!Running, Service!Step
    <2>3. NotYetCalled'
        BY <1>0, <2>1, <2>2 DEF NotYetCalled, Disjoint
    <2>. QED
        BY <1>0, <2>1, <2>3, CallKeepsOwnership
<1>6. ASSUME NEW c \in Stoppers, Shutdown(c) PROVE (Ownership!Next \/ Unmoving) /\ NoneLeft' /\ NotYetCalled'
    <2>1. /\ call[c] = "no" /\ call' = [call EXCEPT ![c] = "stop"] /\ shutdowns' = shutdowns \cup {c}
          /\ UNCHANGED <<service_state, threads, request>>
        BY <1>0, <1>6 DEF Shutdown, NotYetCalled
    <2>2. NotYetCalled'
        BY <1>0, <2>1 DEF NotYetCalled, Disjoint
    <2>. QED
        BY <1>0, <1>2, <2>1, <2>2
<1>7. ASSUME NEW c \in Stoppers, StopStep(c) PROVE (Ownership!Next \/ Unmoving) /\ NoneLeft' /\ NotYetCalled'
    <2>1. /\ \/ Service!StopReturns(c) \/ Service!StopClaim(c, "bump") \/ Service!Halt(c) \/ Service!Join(c, TRUE)
             \/ Service!Step(c, "bump", "halt") /\ UNCHANGED <<service_state, threads>>
          /\ UNCHANGED <<request, shutdowns>>
        BY <1>7 DEF StopStep, StopClaim, Bump, deliveryVars, Service!Join
    <2>2. call[c] # "no" /\ \E to : call' = [call EXCEPT ![c] = to]
        BY <2>1 DEF Service!StopReturns, Service!StopClaim, Service!Halt, Service!Join, Service!Step
    <2>3. NotYetCalled'
        BY <1>0, <2>1, <2>2 DEF NotYetCalled, Disjoint
    <2>. QED
        BY <1>0, <2>1, <2>3, CallKeepsOwnership
<1>8. CASE UNCHANGED vars
    <2>1. UNCHANGED <<service_state, threads, call, request, shutdowns>>
        BY <1>8 DEF vars, deliveryVars
    <2>2. NotYetCalled'
        BY <1>0, <2>1 DEF NotYetCalled
    <2>. QED
        BY <1>1, <2>1, <2>2
<1>. QED
    BY <1>3, <1>4, <1>5, <1>6, <1>7, <1>8 DEF Next, RequestStep

\* Whatever requests and shutdowns are made, the service creates its threads only
\* where none is left to be joined, by the one call that has them, and no shutdown()
\* that has them leaves any (start_service(), shutdown()).
THEOREM OwnershipKept == ASSUME Disjoint PROVE Spec => Ownership!Spec
<1>1. Init => Ownership!Init /\ OwnershipIInv
    <2>. SUFFICES ASSUME Init PROVE Ownership!Init /\ OwnershipIInv
        OBVIOUS
    <2>1. call = [c \in Callers |-> "no"] /\ threads = Service!NoThreads /\ shutdowns = {}
        BY DEF Init, Service!Init, Callers
    <2>2. Ownership!Init
        BY <2>1 DEF Ownership!Init, Starter, Stopper, Joinable, Starting, Stopping, Service!Starting, Service!Stopping
    <2>3. NoneLeft /\ NotYetCalled
        BY <2>1 DEF NoneLeft, NotYetCalled, Callers
    <2>. QED
        BY <2>2, <2>3, InitEstablishes DEF OwnershipIInv
<1>2. OwnershipIInv /\ IInv' /\ [Next]_vars => [Ownership!Next]_<<Starter, Stopper, Joinable>> /\ OwnershipIInv'
    BY OwnershipStep
<1>. QED
    BY <1>1, <1>2, Invariance, PTL DEF Spec, Ownership!Spec, Ownership!vars
=============================================================================
