----------------------- MODULE HttpStreamServiceProofs -----------------------
(***************************************************************************)
(* A stream on the shared service is a stream: every step of the two is a  *)
(* step of HttpStream or leaves it alone, so that what HttpStreamProofs    *)
(* proves holds there too.  And the service, once stopped, is silent.      *)
(***************************************************************************)
EXTENDS HttpStreamService, HttpStreamProofs

Calls == {"no", "claim", "stop"} \cup Service!Starting \cup Service!Stopping
ServiceTypeOK ==
    /\ call \in [Callers -> Calls]
    /\ service_state \in {"stopped", "starting", "running", "stopping"}

\* A service is stopped once its threads have been joined.
StoppedHasNoThreads == service_state = "stopped" => threads = Service!NoThreads

ServiceIInv ==
    /\ ServiceTypeOK /\ Service!OneOwner
    /\ StoppedHasNoThreads /\ QuietWhenStopped

-----------------------------------------------------------------------------

\* The strand's own steps, and what the service does beside them.
LEMMA StreamStep == [ServiceNext]_allVars => [Next]_vars
<1>. SUFFICES ASSUME [ServiceNext]_allVars PROVE [Next]_vars
    OBVIOUS
<1>1. CASE \E c \in Callers :
            OpenStream(c) \/ CloseStream(c) \/ PostStream(c) \/ OpenOther(c) \/ Shutdown(c) \/ ServiceStep(c)
    BY <1>1 DEF OpenStream, CloseStream, PostStream, OpenOther, Shutdown, ServiceStep, Next
<1>2. CASE Handler(RunServe) \/ Handler(RunCancel)
    BY <1>2 DEF Handler, Next
<1>3. CASE \E l \in Loops :
            Handler(LoopStep(l)) \/ Handler(Throw(l)) \/ Handler(Continue(l)) \/ Completion(Ready(l))
    BY <1>3 DEF Handler, Completion, Next
<1>4. CASE UNCHANGED allVars
    BY <1>4 DEF allVars
<1>. QED
    BY <1>1, <1>2, <1>3, <1>4 DEF ServiceNext

\* The stream on a service, or on the caller's executor, is a stream.
THEOREM StreamOnService == ServiceSpec => Safety
<1>1. ServiceInit => Init
    BY DEF ServiceInit
<1>. QED
    BY <1>1, StreamStep, PTL DEF ServiceSpec, Safety

-----------------------------------------------------------------------------
(* The service.                                                            *)

LEMMA ServiceInitEstablishes == ServiceInit => ServiceIInv
<1>. SUFFICES ASSUME ServiceInit PROVE ServiceIInv
    OBVIOUS
<1>1. ServiceTypeOK /\ StoppedHasNoThreads
    BY DEF ServiceInit, Service!Init, ServiceTypeOK, StoppedHasNoThreads, Calls
<1>2. Service!OneOwner
    BY DEF ServiceInit, Service!Init, Service!OneOwner, Service!Starting, Service!Stopping
<1>3. StrandFree
    BY DEF ServiceInit, Init, NoLoop, StrandFree
<1>. QED
    BY <1>1, <1>2, <1>3 DEF ServiceIInv, QuietWhenStopped

\* A call moves on by itself, or takes a state that nobody owns, or gives up the one
\* it owns.
LEMMA OwnerMoves ==
    ASSUME ServiceTypeOK, Service!OneOwner, NEW c \in Callers, NEW to, call' = [call EXCEPT ![c] = to],
           \/ UNCHANGED service_state /\ to \notin Service!Starting \cup Service!Stopping
           \/ UNCHANGED service_state /\ call[c] \in Service!Starting /\ to \in Service!Starting
           \/ UNCHANGED service_state /\ call[c] \in Service!Stopping /\ to \in Service!Stopping
           \/ service_state = "stopped" /\ to \in Service!Starting /\ service_state' = "starting"
           \/ service_state = "running" /\ to \in Service!Stopping /\ service_state' = "stopping"
           \/ call[c] \in Service!Starting \cup Service!Stopping /\ to \notin Service!Starting \cup Service!Stopping
    PROVE  Service!OneOwner'
<1> DEFINE Own(x) == x \in Service!Starting \cup Service!Stopping
<1>1. /\ call'[c] = to
      /\ \A d \in Callers \ {c} : call'[d] = call[d]
    BY DEF ServiceTypeOK
<1>2. \A d, e \in Callers : Own(call[d]) /\ Own(call[e]) => d = e
    BY DEF Service!OneOwner
<1>3. \A d \in Callers : /\ call[d] \in Service!Starting => service_state = "starting"
                         /\ call[d] \in Service!Stopping => service_state = "stopping"
    BY DEF Service!OneOwner
<1>4. Service!Starting \cap Service!Stopping = {}
    BY DEF Service!Starting, Service!Stopping
<1>5. \A d \in Callers : Own(call[d]) => service_state \in {"starting", "stopping"}
    BY <1>3
<1>6. \A d, e \in Callers : Own(call'[d]) /\ Own(call'[e]) => d = e
    BY <1>1, <1>2, <1>5
<1>7. \A d \in Callers : /\ call'[d] \in Service!Starting => service_state' = "starting"
                         /\ call'[d] \in Service!Stopping => service_state' = "stopping"
    BY <1>1, <1>2, <1>3, <1>4
<1>. QED
    BY <1>6, <1>7 DEF Service!OneOwner, Service!Starting, Service!Stopping

\* start_service() and shutdown(): the threads are created by the one that starts,
\* and the state is stopped only once they are joined.
LEMMA ServiceCallStep ==
    ASSUME ServiceIInv, NEW c \in Callers, ServiceStep(c)
    PROVE  ServiceIInv'
<1> USE DEF Service!Step, Service!Starting, Service!Stopping
<1>1. ServiceTypeOK /\ Service!OneOwner /\ StoppedHasNoThreads /\ QuietWhenStopped
    BY DEF ServiceIInv
<1>2. UNCHANGED <<use_service_, loop>>
    BY DEF ServiceStep, vars
<1>3. StrandFree' = StrandFree
    BY <1>2 DEF StrandFree
<1>4. CASE Service!StartClaim(c)
    <2>1. ServiceTypeOK' /\ Service!OneOwner'
        BY <1>1, <1>4, OwnerMoves DEF Service!StartClaim, ServiceTypeOK, Calls
    <2>2. StoppedHasNoThreads' /\ QuietWhenStopped'
        BY <1>1, <1>2, <1>3, <1>4 DEF Service!StartClaim, StoppedHasNoThreads, QuietWhenStopped
    <2>. QED
        BY <2>1, <2>2 DEF ServiceIInv
<1>5. ASSUME NEW n \in service_threads, Service!Create(c, <<n>>) PROVE ServiceIInv'
    <2>1. service_state = "starting"
        BY <1>1, <1>5 DEF Service!Create, Service!OneOwner
    <2>2. ServiceTypeOK' /\ Service!OneOwner'
        BY <1>1, <1>5, OwnerMoves DEF Service!Create, ServiceTypeOK, Calls
    <2>3. StoppedHasNoThreads' /\ QuietWhenStopped'
        BY <1>5, <2>1 DEF Service!Create, StoppedHasNoThreads, QuietWhenStopped
    <2>. QED
        BY <2>2, <2>3 DEF ServiceIInv
<1>6. CASE Service!Running(c)
    <2>1. ServiceTypeOK' /\ Service!OneOwner'
        BY <1>1, <1>6, OwnerMoves DEF Service!Running, ServiceTypeOK, Calls
    <2>2. StoppedHasNoThreads' /\ QuietWhenStopped'
        BY <1>6 DEF Service!Running, StoppedHasNoThreads, QuietWhenStopped
    <2>. QED
        BY <2>1, <2>2 DEF ServiceIInv
<1>7. CASE Service!StopReturns(c)
    <2>1. ServiceTypeOK' /\ Service!OneOwner'
        BY <1>1, <1>7, OwnerMoves DEF Service!StopReturns, ServiceTypeOK, Calls
    <2>2. StoppedHasNoThreads' /\ QuietWhenStopped'
        BY <1>1, <1>2, <1>3, <1>7 DEF Service!StopReturns, StoppedHasNoThreads, QuietWhenStopped
    <2>. QED
        BY <2>1, <2>2 DEF ServiceIInv
<1>8. CASE Service!StopClaim(c, "halt")
    <2>1. ServiceTypeOK' /\ Service!OneOwner'
        BY <1>1, <1>8, OwnerMoves DEF Service!StopClaim, ServiceTypeOK, Calls
    <2>2. StoppedHasNoThreads' /\ QuietWhenStopped'
        BY <1>8 DEF Service!StopClaim, StoppedHasNoThreads, QuietWhenStopped
    <2>. QED
        BY <2>1, <2>2 DEF ServiceIInv
<1>9. CASE Service!Halt(c)
    <2>1. ServiceTypeOK' /\ Service!OneOwner'
        BY <1>1, <1>9, OwnerMoves DEF Service!Halt, ServiceTypeOK, Calls
    <2>2. StoppedHasNoThreads' /\ QuietWhenStopped'
        BY <1>1, <1>2, <1>3, <1>9 DEF Service!Halt, StoppedHasNoThreads, QuietWhenStopped
    <2>. QED
        BY <2>1, <2>2 DEF ServiceIInv
<1>10. CASE Service!Join(c, StrandFree)
    <2>1. ServiceTypeOK' /\ Service!OneOwner'
        BY <1>1, <1>10, OwnerMoves DEF Service!Join, ServiceTypeOK, Calls
    <2>2. StoppedHasNoThreads'
        BY <1>10 DEF Service!Join, StoppedHasNoThreads, Service!NoThreads
    <2>3. QuietWhenStopped'
        BY <1>3, <1>10 DEF Service!Join, QuietWhenStopped
    <2>. QED
        BY <2>1, <2>2, <2>3 DEF ServiceIInv
<1>. QED
    BY <1>4, <1>5, <1>6, <1>7, <1>8, <1>9, <1>10 DEF ServiceStep

\* Calls of the stream leave the strand as it is; open() and shutdown() go on in the
\* service.
LEMMA StreamCallStep ==
    ASSUME ServiceIInv, NEW c \in Callers,
           OpenStream(c) \/ CloseStream(c) \/ PostStream(c) \/ OpenOther(c) \/ Shutdown(c)
    PROVE  ServiceIInv'
<1>1. UNCHANGED <<use_service_, service_state, threads, loop>>
    BY DEF OpenStream, CloseStream, PostStream, OpenOther, Shutdown, Enter, Open, Close, Post, serviceVars, vars
<1>2. StrandFree' = StrandFree /\ (Service!NoThreads)' = Service!NoThreads
    BY <1>1 DEF StrandFree, Service!NoThreads
<1>3. StoppedHasNoThreads' /\ QuietWhenStopped'
    BY <1>1, <1>2 DEF ServiceIInv, StoppedHasNoThreads, QuietWhenStopped
<1>4. UNCHANGED call \/ \E to \in {"claim", "stop"} : call' = [call EXCEPT ![c] = to]
    BY DEF OpenStream, CloseStream, PostStream, OpenOther, Shutdown, Enter, serviceVars
<1>5. ServiceTypeOK'
    BY <1>1, <1>4 DEF ServiceIInv, ServiceTypeOK, Calls
<1>6. Service!OneOwner'
    <2>1. CASE UNCHANGED call
        BY <1>1, <2>1 DEF ServiceIInv, Service!OneOwner
    <2>2. ASSUME NEW to \in {"claim", "stop"}, call' = [call EXCEPT ![c] = to] PROVE Service!OneOwner'
        <3>1. to \notin Service!Starting \cup Service!Stopping
            BY DEF Service!Starting, Service!Stopping
        <3>. QED
            BY <1>1, <2>2, <3>1, OwnerMoves DEF ServiceIInv
    <2>. QED
        BY <1>4, <2>1, <2>2
<1>. QED
    BY <1>3, <1>5, <1>6 DEF ServiceIInv

\* A handler of the stream begins on a thread that runs the executor, and a stopped
\* service has none.
LEMMA HandlerStep ==
    ASSUME ServiceIInv, UNCHANGED serviceVars, StrandFree => ExecutorRuns
    PROVE  ServiceIInv'
<1>1. UNCHANGED <<use_service_, service_state, stopped, threads, call>>
    BY DEF serviceVars
<1>2. ServiceTypeOK' /\ StoppedHasNoThreads' /\ Service!OneOwner'
    BY <1>1 DEF ServiceIInv, ServiceTypeOK, StoppedHasNoThreads, Service!OneOwner, Service!NoThreads
<1>3. ~(use_service_ /\ service_state = "stopped")
    <2>1. SUFFICES ASSUME use_service_, service_state = "stopped" PROVE FALSE
        OBVIOUS
    <2>2. StrandFree
        BY <2>1 DEF ServiceIInv, QuietWhenStopped
    <2>3. Service!Runs(1)
        BY <2>1, <2>2 DEF ExecutorRuns
    <2>4. threads = Service!NoThreads
        BY <2>1 DEF ServiceIInv, StoppedHasNoThreads
    <2>. QED
        BY <2>3, <2>4 DEF Service!Runs, Service!NoThreads
<1>. QED
    BY <1>1, <1>2, <1>3 DEF ServiceIInv, QuietWhenStopped

LEMMA ServiceNextStep == ServiceIInv /\ [ServiceNext]_allVars => ServiceIInv'
<1>. SUFFICES ASSUME ServiceIInv, [ServiceNext]_allVars PROVE ServiceIInv'
    OBVIOUS
<1>1. ASSUME NEW c \in Callers,
             \/ OpenStream(c) \/ CloseStream(c) \/ PostStream(c) \/ OpenOther(c) \/ Shutdown(c)
             \/ ServiceStep(c)
      PROVE  ServiceIInv'
    BY <1>1, StreamCallStep, ServiceCallStep
<1>2. CASE Handler(RunServe) \/ Handler(RunCancel)
    BY <1>2, HandlerStep DEF Handler
<1>3. ASSUME NEW l \in Loops,
             Handler(LoopStep(l)) \/ Handler(Throw(l)) \/ Handler(Continue(l)) \/ Completion(Ready(l))
      PROVE  ServiceIInv'
    BY <1>3, HandlerStep DEF Handler, Completion
<1>4. CASE UNCHANGED allVars
    <2>1. UNCHANGED <<use_service_, service_state, threads, call, loop>>
        BY <1>4 DEF allVars, vars, serviceVars
    <2>2. ServiceTypeOK' /\ StoppedHasNoThreads' /\ Service!OneOwner'
        BY <2>1 DEF ServiceIInv, ServiceTypeOK, StoppedHasNoThreads, Service!OneOwner, Service!NoThreads
    <2>3. QuietWhenStopped'
        BY <2>1 DEF ServiceIInv, QuietWhenStopped, StrandFree
    <2>. QED
        BY <2>2, <2>3 DEF ServiceIInv
<1>. QED
    BY <1>1, <1>2, <1>3, <1>4 DEF ServiceNext

\* One caller at a time creates or joins the threads, and a stopped service has none.
THEOREM ServiceInvariance == ServiceSpec => []ServiceIInv
    BY ServiceInitEstablishes, ServiceNextStep, PTL DEF ServiceSpec

\* Only one thread at a time is creating or joining the threads of the service
\* (start_service(), shutdown()).
THEOREM OneOwnerOnService == ServiceSpec => []Service!OneOwner
    BY ServiceInvariance, PTL DEF ServiceIInv

\* Once shutdown() has stopped the service no callback of a stream on it runs, until
\* an open() has started the service again.
THEOREM StoppedIsQuiet == ServiceSpec => []QuietWhenStopped
    BY ServiceInvariance, PTL DEF ServiceIInv

\* What HttpStreamProofs proves of a stream is true of one on the service.
THEOREM SafeOnService ==
    ServiceSpec =>
        /\ [](TypeOK /\ OneLoop /\ SessionsInOrder /\ EndedWhenReported /\ ConnectedHasSession)
        /\ EndsOwnGeneration /\ CancelSparesNext /\ OneCallbackAfterClose
    BY StreamOnService, TypeCorrect, SingleLoop, InOrder, EndedBeforeReported, ConnectedIsServed,
       OwnGenerationEnded, NextSpared, OneAfterClose, PTL

-----------------------------------------------------------------------------
(* The service keeps the promise of ThreadOwnership.                       *)

\* A service that is claimed to be started has no threads either.
NoneLeft == \A c \in Callers : call[c] = "create" => threads = Service!NoThreads

OwnershipIInv == ServiceIInv /\ NoneLeft

Starter == {c \in Callers : call[c] \in Service!Starting}
Stopper == {c \in Callers : call[c] \in Service!Stopping}
Joinable == threads # Service!NoThreads
Ownership == INSTANCE ThreadOwnership WITH starter <- Starter, stopper <- Stopper, joinable <- Joinable

Unmoving == UNCHANGED <<Starter, Stopper, Joinable>>

\* Who has the threads, where somebody has: that call and no other.
LEMMA OwnersAre ==
    ASSUME ServiceIInv, NEW c \in Callers
    PROVE  /\ call[c] \in Service!Starting => Starter = {c} /\ Stopper = {} /\ service_state = "starting"
           /\ call[c] \in Service!Stopping => Starter = {} /\ Stopper = {c} /\ service_state = "stopping"
           /\ service_state \notin {"starting", "stopping"} => Ownership!Unowned
<1>1. /\ \A d, e \in Callers :
            /\ call[d] \in Service!Starting \cup Service!Stopping
            /\ call[e] \in Service!Starting \cup Service!Stopping
            => d = e
      /\ \A d \in Callers : /\ call[d] \in Service!Starting => service_state = "starting"
                            /\ call[d] \in Service!Stopping => service_state = "stopping"
    BY DEF ServiceIInv, Service!OneOwner
<1>2. Service!Starting \cap Service!Stopping = {}
    BY DEF Service!Starting, Service!Stopping
<1>. QED
    BY <1>1, <1>2 DEF Starter, Stopper, Ownership!Unowned

\* A step of a call says by itself who has the threads after it.
LEMMA OwnersMove ==
    ASSUME ServiceIInv, NEW c \in Callers, NEW to, call' = [call EXCEPT ![c] = to]
    PROVE  /\ Starter' = IF to \in Service!Starting THEN Starter \cup {c} ELSE Starter \ {c}
           /\ Stopper' = IF to \in Service!Stopping THEN Stopper \cup {c} ELSE Stopper \ {c}
<1>1. call'[c] = to /\ \A d \in Callers \ {c} : call'[d] = call[d]
    BY DEF ServiceIInv, ServiceTypeOK
<1>. QED
    BY <1>1 DEF Starter, Stopper, Service!Starting, Service!Stopping

\* A step that neither makes an owner nor ends one.
LEMMA OwnersStay ==
    ASSUME ServiceIInv, NEW c \in Callers, NEW to, call' = [call EXCEPT ![c] = to],
           to \in Service!Starting <=> call[c] \in Service!Starting,
           to \in Service!Stopping <=> call[c] \in Service!Stopping,
           UNCHANGED threads
    PROVE  Unmoving
<1>1. to \in Service!Starting <=> c \in Starter
    BY DEF Starter
<1>2. to \in Service!Stopping <=> c \in Stopper
    BY DEF Stopper
<1>3. /\ Starter' = IF to \in Service!Starting THEN Starter \cup {c} ELSE Starter \ {c}
      /\ Stopper' = IF to \in Service!Stopping THEN Stopper \cup {c} ELSE Stopper \ {c}
    BY OwnersMove
<1>4. Starter' = Starter
    BY <1>1, <1>3
<1>5. Stopper' = Stopper
    BY <1>2, <1>3
<1>. QED
    BY <1>4, <1>5 DEF Unmoving, Joinable, Service!NoThreads

\* The steps of start_service() and of shutdown().
LEMMA CallKeepsOwnership ==
    ASSUME OwnershipIInv, NEW c \in Callers, ServiceStep(c)
    PROVE  (Ownership!Next \/ Unmoving) /\ NoneLeft'
<1> USE DEF Service!Starting, Service!Stopping
<1>1. ServiceIInv /\ NoneLeft /\ StoppedHasNoThreads /\ call \in [Callers -> Calls]
    BY DEF OwnershipIInv, ServiceIInv, ServiceTypeOK
<1>2. (Service!NoThreads)' = Service!NoThreads
    BY DEF Service!NoThreads
<1>3. ASSUME NEW to, call' = [call EXCEPT ![c] = to], to # "create", UNCHANGED threads
      PROVE  NoneLeft'
    BY <1>1, <1>2, <1>3 DEF NoneLeft
<1>4. CASE Service!StartClaim(c)
    <2>1. UNCHANGED threads
        BY <1>4 DEF Service!StartClaim
    <2>2. CASE service_state = "stopped"
        <3>1. call' = [call EXCEPT ![c] = "create"] /\ service_state' = "starting"
            BY <1>4, <2>2 DEF Service!StartClaim, Service!Step
        <3>2. Ownership!Unowned
            BY <1>1, <2>2, OwnersAre
        <3>3. Starter' = {c} /\ Stopper' = Stopper
            BY <1>1, <3>1, <3>2, OwnersMove DEF Ownership!Unowned
        <3>4. Ownership!StartClaims(c)
            BY <1>2, <2>1, <3>2, <3>3 DEF Ownership!StartClaims, Joinable
        <3>5. NoneLeft'
            BY <1>1, <1>2, <2>1, <2>2 DEF NoneLeft, StoppedHasNoThreads
        <3>. QED
            BY <3>4, <3>5 DEF Ownership!Next
    <2>3. CASE service_state # "stopped"
        <3>1. call[c] = "claim" /\ call' = [call EXCEPT ![c] = "no"] /\ UNCHANGED service_state
            BY <1>4, <2>3 DEF Service!StartClaim, Service!Step
        <3>2. Unmoving
            BY <1>1, <2>1, <3>1, OwnersStay
        <3>. QED
            BY <1>3, <2>1, <3>1, <3>2
    <2>. QED
        BY <2>2, <2>3
<1>5. ASSUME NEW n \in service_threads, Service!Create(c, <<n>>) PROVE (Ownership!Next \/ Unmoving) /\ NoneLeft'
    <2>1. call[c] = "create" /\ call' = [call EXCEPT ![c] = "run"] /\ UNCHANGED service_state
        BY <1>5 DEF Service!Create, Service!Step
    <2>2. Starter = {c} /\ Stopper = {} /\ service_state = "starting" /\ ~Joinable
        BY <1>1, <2>1, OwnersAre DEF Joinable, NoneLeft
    <2>3. UNCHANGED <<Starter, Stopper>>
        BY <1>1, <2>1, <2>2, OwnersMove
    <2>4. Ownership!Create(c) \/ Unmoving
        BY <2>2, <2>3 DEF Ownership!Create, Unmoving, Joinable
    <2>5. \A d \in Callers : call'[d] # "create"
        <3>1. \A d \in Callers : call[d] = "create" => d \in Starter
            BY DEF Starter
        <3>. QED
            BY <1>1, <2>1, <2>2, <3>1
    <2>6. NoneLeft'
        BY <2>1, <2>2, <2>5 DEF NoneLeft
    <2>. QED
        BY <2>4, <2>6 DEF Ownership!Next
<1>6. CASE Service!Running(c)
    <2>1. call[c] = "run" /\ call' = [call EXCEPT ![c] = "no"] /\ service_state' = "running" /\ UNCHANGED threads
        BY <1>6 DEF Service!Running, Service!Step
    <2>2. Starter = {c} /\ Stopper = {}
        BY <1>1, <2>1, OwnersAre
    <2>3. Starter' = {} /\ Stopper' = Stopper
        BY <1>1, <2>1, <2>2, OwnersMove
    <2>4. Ownership!StartOver(c)
        BY <1>2, <2>1, <2>2, <2>3 DEF Ownership!StartOver, Joinable
    <2>. QED
        BY <1>3, <2>1, <2>4 DEF Ownership!Next
<1>7. CASE Service!StopReturns(c)
    <2>1. call[c] = "stop" /\ call' = [call EXCEPT ![c] = "no"] /\ UNCHANGED <<service_state, threads>>
        BY <1>7 DEF Service!StopReturns, Service!Step
    <2>2. Unmoving
        BY <1>1, <2>1, OwnersStay
    <2>. QED
        BY <1>3, <2>1, <2>2
<1>8. CASE Service!StopClaim(c, "halt")
    <2>1. /\ call' = [call EXCEPT ![c] = "halt"] /\ service_state = "running" /\ service_state' = "stopping"
          /\ UNCHANGED threads
        BY <1>8 DEF Service!StopClaim, Service!Step
    <2>2. Ownership!Unowned
        BY <1>1, <2>1, OwnersAre
    <2>3. Stopper' = {c} /\ Starter' = Starter
        BY <1>1, <2>1, <2>2, OwnersMove DEF Ownership!Unowned
    <2>4. Ownership!StopClaims(c)
        BY <1>2, <2>1, <2>2, <2>3 DEF Ownership!StopClaims, Joinable
    <2>. QED
        BY <1>3, <2>1, <2>4 DEF Ownership!Next
<1>9. CASE Service!Halt(c)
    <2>1. PICK to \in {"halt", "join"} :
            call[c] = "halt" /\ call' = [call EXCEPT ![c] = to] /\ UNCHANGED <<service_state, threads>>
        BY <1>9 DEF Service!Halt, Service!Step
    <2>2. Unmoving
        BY <1>1, <2>1, OwnersStay
    <2>. QED
        BY <1>3, <2>1, <2>2
<1>10. CASE Service!Join(c, StrandFree)
    <2>1. call[c] = "join" /\ call' = [call EXCEPT ![c] = "no"] /\ threads' = Service!NoThreads
        BY <1>10 DEF Service!Join, Service!Step
    <2>2. Starter = {} /\ Stopper = {c}
        BY <1>1, <2>1, OwnersAre
    <2>3. Starter' = Starter \ {c} /\ Stopper' = Stopper \ {c}
        BY <1>1, <2>1, OwnersMove
    <2>4. Joinable' = FALSE
        BY <1>2, <2>1 DEF Joinable
    <2>5. Ownership!StopOver(c)
        BY <2>2, <2>3, <2>4 DEF Ownership!StopOver
    <2>6. NoneLeft'
        BY <1>2, <2>1 DEF NoneLeft
    <2>. QED
        BY <2>5, <2>6 DEF Ownership!Next
<1>. QED
    BY <1>4, <1>5, <1>6, <1>7, <1>8, <1>9, <1>10 DEF ServiceStep

LEMMA OwnershipStep ==
    ASSUME OwnershipIInv, [ServiceNext]_allVars
    PROVE  [Ownership!Next]_<<Starter, Stopper, Joinable>> /\ NoneLeft'
<1>. SUFFICES (Ownership!Next \/ Unmoving) /\ NoneLeft'
    BY DEF Unmoving
<1>0. ServiceIInv /\ NoneLeft /\ call \in [Callers -> Calls]
    BY DEF OwnershipIInv, ServiceIInv, ServiceTypeOK
<1>1. ASSUME UNCHANGED <<threads, call>> PROVE Unmoving /\ NoneLeft'
    BY <1>0, <1>1 DEF Unmoving, Starter, Stopper, Joinable, NoneLeft, Service!NoThreads, Service!Starting, Service!Stopping
<1>2. ASSUME NEW c \in Callers, NEW to \in {"claim", "stop"}, call[c] = "no", call' = [call EXCEPT ![c] = to],
             UNCHANGED threads
      PROVE  Unmoving /\ NoneLeft'
    <2>1. Unmoving
        BY <1>0, <1>2, OwnersStay DEF Service!Starting, Service!Stopping
    <2>. QED
        BY <1>0, <1>2, <2>1 DEF NoneLeft, Service!NoThreads
<1>3. ASSUME NEW c \in Callers,
             OpenStream(c) \/ CloseStream(c) \/ PostStream(c) \/ OpenOther(c) \/ Shutdown(c)
      PROVE  Unmoving /\ NoneLeft'
    <2>1. /\ UNCHANGED threads
          /\ \/ UNCHANGED call
             \/ \E to \in {"claim", "stop"} : call[c] = "no" /\ call' = [call EXCEPT ![c] = to]
        BY <1>3 DEF OpenStream, CloseStream, PostStream, OpenOther, Shutdown, Enter, Free, serviceVars
    <2>. QED
        BY <1>1, <1>2, <2>1
<1>4. ASSUME NEW c \in Callers, ServiceStep(c) PROVE (Ownership!Next \/ Unmoving) /\ NoneLeft'
    BY <1>4, CallKeepsOwnership
<1>5. CASE UNCHANGED serviceVars
    BY <1>1, <1>5 DEF serviceVars
<1>. QED
    BY <1>3, <1>4, <1>5 DEF ServiceNext, Handler, Completion, allVars

\* Whatever streams are opened and however often the service is shut down, it creates
\* its threads only where none is left to be joined, by the one call that has them,
\* and no shutdown() that has them leaves any (start_service(), shutdown()).
THEOREM OwnershipKept == ServiceSpec => Ownership!Spec
<1>1. ServiceInit => Ownership!Init /\ NoneLeft
    <2>. SUFFICES ASSUME ServiceInit PROVE Ownership!Init /\ NoneLeft
        OBVIOUS
    <2>1. call = [c \in Callers |-> "no"] /\ threads = Service!NoThreads
        BY DEF ServiceInit, Service!Init
    <2>. QED
        BY <2>1 DEF Ownership!Init, NoneLeft, Starter, Stopper, Joinable, Service!Starting, Service!Stopping
<1>2. OwnershipIInv /\ [ServiceNext]_allVars => [Ownership!Next]_<<Starter, Stopper, Joinable>> /\ NoneLeft'
    BY OwnershipStep
<1>. QED
    BY <1>1, <1>2, ServiceInvariance, PTL DEF ServiceSpec, OwnershipIInv, Ownership!Spec, Ownership!vars
=============================================================================
