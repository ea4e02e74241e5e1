-------------------------- MODULE WebsocketService ---------------------------
(***************************************************************************)
(* The one service thread that every Websocket shares: who may create,     *)
(* join and assign over the std::thread object, how open() brings the      *)
(* thread up, how shutdown() takes it down from any thread, a callback on  *)
(* the service thread included, and how the idle strategy is switched.     *)
(*                                                                         *)
(* A caller is a user thread, or a service thread while it runs a callback.*)
(* An identifier in Threads is free again once that thread is joined.      *)
(***************************************************************************)
EXTENDS Naturals

CONSTANTS
    Users,          \* application threads
    Threads,        \* identifiers of service threads
    NoThread,       \* a std::thread object that holds no thread
    MaxCalls        \* bound on the calls made to the interface

ASSUME ThreadsAssumption == NoThread \notin Threads /\ Users \cap Threads = {}
ASSUME MaxCallsAssumption == MaxCalls \in Nat

Callers == Users \cup Threads

VARIABLES
    service_state,  \* the atomic service_state_
    service_thread, \* the thread the object service_thread_ holds
    run,            \* run_
    busy_poll,      \* busy_poll_
    stopped,        \* ioc_.stopped()
    loc,            \* where each service thread is; "none" before and after its life
    pc,             \* where each caller is inside a call
    seen,           \* the caller's local copy of service_state_
    since,          \* threads not joined when the caller's shutdown() began, and not joined since
    calls

iocVars == <<busy_poll, stopped>>
callVars == <<pc, seen, since, calls>>
vars == <<service_state, service_thread, run, iocVars, loc, callVars>>

States == {"stopped", "starting", "running", "stop_requested", "stopping"}
InCallback == {"runCallback", "pollCallback"}
Locations ==
    {"none", "begin", "check", "choose", "run", "restart", "poll", "polled", "end", "exited"}
        \cup InCallback
\* A caller owns service_thread_ from the compare-and-swap that claims it to the
\* store that gives it up.
StartOwner == {"startJoin", "startClaimed", "startRun", "startCreate", "startDone"}
StopOwner == {"stopRequest", "stopIoc", "stopJoin", "stopDone"}
CallbackSteps == {"idle", "start", "stop", "stopReturn", "busyStop", "stopRequest", "stopIoc"}
CallSteps == {"idle", "start", "stop", "stopReturn", "busyStop"} \cup StartOwner \cup StopOwner

Alive(t) == loc[t] \notin {"none", "exited"}

Init ==
    /\ service_state = "stopped"
    /\ service_thread = NoThread
    /\ run = FALSE
    /\ busy_poll = FALSE
    /\ stopped = FALSE
    /\ loc = [t \in Threads |-> "none"]
    /\ pc = [c \in Callers |-> "idle"]
    /\ seen = [c \in Callers |-> "stopped"]
    /\ since = [c \in Callers |-> {}]
    /\ calls = 0

Goto(c, step) == pc' = [pc EXCEPT ![c] = step]
Reload(c) == seen' = [seen EXCEPT ![c] = service_state]

-----------------------------------------------------------------------------
(* The interface, called by a user or from a callback.                     *)

Call(c, step) ==
    /\ pc[c] = "idle"
    /\ c \in Threads => loc[c] \in InCallback
    /\ calls < MaxCalls
    /\ calls' = calls + 1
    /\ Goto(c, step)

Open(c) ==
    /\ Call(c, "start")
    /\ Reload(c)
    /\ UNCHANGED <<service_state, service_thread, run, iocVars, loc, since>>

Shutdown(c) ==
    /\ Call(c, "stop")
    /\ Reload(c)
    /\ since' = [since EXCEPT ![c] = {t \in Threads : loc[t] # "none"}]
    /\ UNCHANGED <<service_state, service_thread, run, iocVars, loc>>

\* A fault: the thread is not woken to start polling.
BusyOnNoWake(c) ==
    /\ Call(c, "idle")
    /\ busy_poll' = TRUE
    /\ UNCHANGED <<service_state, service_thread, run, stopped, loc, seen, since>>

BusyOn(c) ==
    /\ Call(c, IF busy_poll THEN "idle" ELSE "busyStop")
    /\ busy_poll' = TRUE
    /\ UNCHANGED <<service_state, service_thread, run, stopped, loc, seen, since>>

BusyStop(c) ==
    /\ pc[c] = "busyStop"
    /\ stopped' = TRUE
    /\ Goto(c, "idle")
    /\ UNCHANGED <<service_state, service_thread, run, busy_poll, loc, seen, since, calls>>

BusyOff(c) ==
    /\ Call(c, "idle")
    /\ busy_poll' = FALSE
    /\ UNCHANGED <<service_state, service_thread, run, stopped, loc, seen, since>>

\* std::thread::join: a thread that has not finished is waited for.
JoinThen(c, step) ==
    /\ \/ service_thread = NoThread /\ UNCHANGED <<service_thread, loc, since>>
       \/ /\ service_thread # NoThread
          /\ loc[service_thread] = "exited"
          /\ loc' = [loc EXCEPT ![service_thread] = "none"]
          /\ since' = [d \in Callers |-> since[d] \ {service_thread}]
          /\ service_thread' = NoThread
    /\ Goto(c, step)

-----------------------------------------------------------------------------
(* start_websocket_service()                                               *)

StartReturns(c) ==
    /\ pc[c] = "start"
    /\ seen[c] \in {"running", "starting"} \/ c \in Threads
    /\ Goto(c, "idle")
    /\ UNCHANGED <<service_state, service_thread, run, iocVars, loc, seen, since, calls>>

StartYield(c) ==
    /\ pc[c] = "start"
    /\ c \notin Threads
    /\ seen[c] = "stopping"
    /\ Reload(c)
    /\ UNCHANGED <<service_state, service_thread, run, iocVars, loc, pc, since, calls>>

\* A fault: starting is claimed for the join too.
StartClaimForgetsJoin(c) ==
    /\ pc[c] = "start"
    /\ c \notin Threads
    /\ seen[c] \in {"stopped", "stop_requested"}
    /\ \/ /\ service_state = seen[c]
          /\ service_state' = "starting"
          /\ Goto(c, IF seen[c] = "stopped" THEN "startRun" ELSE "startJoin")
          /\ UNCHANGED seen
       \/ service_state # seen[c] /\ Reload(c) /\ UNCHANGED <<service_state, pc>>
    /\ UNCHANGED <<service_thread, run, iocVars, loc, since, calls>>

\* A fault: a thread still to be joined is overlooked.
StartClaimNoJoin(c) ==
    /\ pc[c] = "start"
    /\ c \notin Threads
    /\ seen[c] \in {"stopped", "stop_requested"}
    /\ \/ service_state = seen[c] /\ service_state' = "starting" /\ Goto(c, "startRun") /\ UNCHANGED seen
       \/ service_state # seen[c] /\ Reload(c) /\ UNCHANGED <<service_state, pc>>
    /\ UNCHANGED <<service_thread, run, iocVars, loc, since, calls>>

\* The join of a stop_requested thread is done under stopping, because that
\* thread may itself be in a shutdown() that would wait out starting.
StartClaim(c) ==
    /\ pc[c] = "start"
    /\ c \notin Threads
    /\ \/ /\ seen[c] = "stopped" /\ service_state = "stopped"
          /\ service_state' = "starting"
          /\ Goto(c, "startRun")
          /\ UNCHANGED seen
       \/ /\ seen[c] = "stop_requested" /\ service_state = "stop_requested"
          /\ service_state' = "stopping"
          /\ Goto(c, "startJoin")
          /\ UNCHANGED seen
       \/ /\ seen[c] \in {"stopped", "stop_requested"} /\ service_state # seen[c]
          /\ Reload(c)
          /\ UNCHANGED <<service_state, pc>>
    /\ UNCHANGED <<service_thread, run, iocVars, loc, since, calls>>

StartJoin(c) ==
    /\ pc[c] = "startJoin"
    /\ JoinThen(c, "startClaimed")
    /\ UNCHANGED <<service_state, run, iocVars, seen, calls>>

StartClaimed(c) ==
    /\ pc[c] = "startClaimed"
    /\ service_state' = "starting"
    /\ Goto(c, "startRun")
    /\ UNCHANGED <<service_thread, run, iocVars, loc, seen, since, calls>>

StartRun(c) ==
    /\ pc[c] = "startRun"
    /\ run' = TRUE
    /\ Goto(c, "startCreate")
    /\ UNCHANGED <<service_state, service_thread, iocVars, loc, seen, since, calls>>

\* The std::thread constructor may throw, which nothing on the way out of open()
\* catches.
StartCreate(c) ==
    /\ pc[c] = "startCreate"
    /\ \/ \E t \in Threads :
            /\ loc[t] = "none"
            /\ loc' = [loc EXCEPT ![t] = "begin"]
            /\ service_thread' = t
            /\ Goto(c, "startDone")
       \/ Goto(c, "idle") /\ UNCHANGED <<loc, service_thread>>
    /\ UNCHANGED <<service_state, run, iocVars, seen, since, calls>>

StartDone(c) ==
    /\ pc[c] = "startDone"
    /\ service_state' = "running"
    /\ Goto(c, "idle")
    /\ UNCHANGED <<service_thread, run, iocVars, loc, seen, since, calls>>

-----------------------------------------------------------------------------
(* stop_websocket_service()                                                *)

StopNothing(c) ==
    /\ pc[c] = "stop"
    /\ seen[c] = "stopped"
    /\ Goto(c, "stopReturn")
    /\ UNCHANGED <<service_state, service_thread, run, iocVars, loc, seen, since, calls>>

\* A fault: only starting is waited out, a join in progress is taken for a stop.
StopYieldSkipsJoin(c) ==
    /\ pc[c] = "stop"
    /\ \/ seen[c] = "starting" /\ Reload(c) /\ UNCHANGED pc
       \/ seen[c] = "stopping" /\ c \notin Threads /\ Goto(c, "stopReturn") /\ UNCHANGED seen
    /\ UNCHANGED <<service_state, service_thread, run, iocVars, loc, since, calls>>

\* The service thread never waits out stopping: its owner waits for it.
StopYield(c) ==
    /\ pc[c] = "stop"
    /\ \/ seen[c] = "starting"
       \/ seen[c] = "stopping" /\ c \notin Threads
    /\ Reload(c)
    /\ UNCHANGED <<service_state, service_thread, run, iocVars, loc, pc, since, calls>>

StopOnService(c) ==
    /\ pc[c] = "stop"
    /\ c \in Threads
    /\ \/ /\ seen[c] \in {"stop_requested", "stopping"}
          /\ Goto(c, "stopRequest")
          /\ UNCHANGED <<service_state, seen>>
       \/ /\ seen[c] = "running" /\ service_state = "running"
          /\ service_state' = "stop_requested"
          /\ Goto(c, "stopRequest")
          /\ UNCHANGED seen
       \/ /\ seen[c] = "running" /\ service_state # "running"
          /\ Reload(c)
          /\ UNCHANGED <<service_state, pc>>
    /\ UNCHANGED <<service_thread, run, iocVars, loc, since, calls>>

\* A fault: the state is tested and then set, in place of the compare-and-swap.
StopClaimUnchecked(c) ==
    /\ pc[c] = "stop"
    /\ c \notin Threads
    /\ seen[c] \in {"running", "stop_requested"}
    /\ service_state' = "stopping"
    /\ Goto(c, "stopRequest")
    /\ UNCHANGED <<service_thread, run, iocVars, loc, seen, since, calls>>

StopClaim(c) ==
    /\ pc[c] = "stop"
    /\ c \notin Threads
    /\ seen[c] \in {"running", "stop_requested"}
    /\ \/ /\ service_state = seen[c]
          /\ service_state' = "stopping"
          /\ Goto(c, "stopRequest")
          /\ UNCHANGED seen
       \/ service_state # seen[c] /\ Reload(c) /\ UNCHANGED <<service_state, pc>>
    /\ UNCHANGED <<service_thread, run, iocVars, loc, since, calls>>

\* A fault: the service thread joins itself.
AfterRequestJoins(c) == "stopJoin"

AfterRequest(c) == IF c \in Threads THEN "stopReturn" ELSE "stopJoin"

\* A fault: the io_context is left to notice run_ by itself.
StopRequestNoWake(c) ==
    /\ pc[c] = "stopRequest"
    /\ run' = FALSE
    /\ Goto(c, AfterRequest(c))
    /\ UNCHANGED <<service_state, service_thread, iocVars, loc, seen, since, calls>>

\* request_service_stop(): whoever turns run_ off stops the io_context.
StopRequest(c) ==
    /\ pc[c] = "stopRequest"
    /\ run' = FALSE
    /\ Goto(c, IF run THEN "stopIoc" ELSE AfterRequest(c))
    /\ UNCHANGED <<service_state, service_thread, iocVars, loc, seen, since, calls>>

StopIoc(c) ==
    /\ pc[c] = "stopIoc"
    /\ stopped' = TRUE
    /\ Goto(c, AfterRequest(c))
    /\ UNCHANGED <<service_state, service_thread, run, busy_poll, loc, seen, since, calls>>

StopJoin(c) ==
    /\ pc[c] = "stopJoin"
    /\ JoinThen(c, "stopDone")
    /\ UNCHANGED <<service_state, run, iocVars, seen, calls>>

StopDone(c) ==
    /\ pc[c] = "stopDone"
    /\ service_state' = "stopped"
    /\ Goto(c, "stopReturn")
    /\ UNCHANGED <<service_thread, run, iocVars, loc, seen, since, calls>>

StopReturns(c) ==
    /\ pc[c] = "stopReturn"
    /\ since' = [since EXCEPT ![c] = {}]
    /\ Goto(c, "idle")
    /\ UNCHANGED <<service_state, service_thread, run, iocVars, loc, seen, calls>>

-----------------------------------------------------------------------------
(* The service thread's loop.                                              *)

Move(t, from, to) ==
    /\ loc[t] = from
    /\ loc' = [loc EXCEPT ![t] = to]

Restart(t) ==
    /\ Move(t, "begin", "check") \/ Move(t, "restart", "check")
    /\ stopped' = FALSE
    /\ UNCHANGED <<service_state, service_thread, run, busy_poll, callVars>>

Check(t) ==
    /\ Move(t, "check", IF run THEN "choose" ELSE "end")
    /\ UNCHANGED <<service_state, service_thread, run, iocVars, callVars>>

Choose(t) ==
    /\ Move(t, "choose", IF busy_poll THEN "poll" ELSE "run")
    /\ UNCHANGED <<service_state, service_thread, run, iocVars, callVars>>

\* run() returns once stopped, and blocks until then: the work guard is held.
RunReturns(t) ==
    /\ stopped
    /\ Move(t, "run", "restart")
    /\ UNCHANGED <<service_state, service_thread, run, iocVars, callVars>>

\* poll() returns when it ran a handler or found none ready.
PollReturns(t) ==
    /\ \/ Move(t, "poll", "polled")
       \/ ~stopped /\ Move(t, "poll", "check")
    /\ UNCHANGED <<service_state, service_thread, run, iocVars, callVars>>

Polled(t) ==
    /\ Move(t, "polled", IF stopped THEN "restart" ELSE "check")
    /\ UNCHANGED <<service_state, service_thread, run, iocVars, callVars>>

Dispatch(t) ==
    /\ ~stopped
    /\ Move(t, "run", "runCallback") \/ Move(t, "poll", "pollCallback")
    /\ UNCHANGED <<service_state, service_thread, run, iocVars, callVars>>

\* The callback returns into run() or poll(), or throws out of it.
CallbackReturns(t) ==
    /\ pc[t] = "idle"
    /\ \/ Move(t, "runCallback", "run") \/ Move(t, "runCallback", "check")
       \/ Move(t, "pollCallback", "poll") \/ Move(t, "pollCallback", "check")
    /\ UNCHANGED <<service_state, service_thread, run, iocVars, callVars>>

Exit(t) ==
    /\ Move(t, "end", "exited")
    /\ stopped' = TRUE
    /\ UNCHANGED <<service_state, service_thread, run, busy_poll, callVars>>

-----------------------------------------------------------------------------

CallStep(c) ==
    \/ BusyStop(c)
    \/ StartReturns(c) \/ StartYield(c) \/ StartClaim(c) \/ StartJoin(c) \/ StartClaimed(c)
    \/ StartRun(c) \/ StartCreate(c) \/ StartDone(c)
    \/ StopNothing(c) \/ StopYield(c) \/ StopOnService(c) \/ StopClaim(c) \/ StopRequest(c)
    \/ StopIoc(c) \/ StopJoin(c) \/ StopDone(c) \/ StopReturns(c)

LoopStep(t) ==
    \/ Restart(t) \/ Check(t) \/ Choose(t) \/ RunReturns(t) \/ PollReturns(t) \/ Polled(t)
    \/ CallbackReturns(t) \/ Exit(t)

Next ==
    \/ \E c \in Callers : Open(c) \/ Shutdown(c) \/ BusyOn(c) \/ BusyOff(c) \/ CallStep(c)
    \/ \E t \in Threads : LoopStep(t) \/ Dispatch(t)

\* Every thread that can run does; callbacks return; poll() does not find a
\* handler ready for ever, and run() checks for a stop between two handlers.
Fairness ==
    /\ \A c \in Callers : WF_vars(CallStep(c))
    /\ \A t \in Threads :
        /\ WF_vars(LoopStep(t))
        /\ SF_vars(RunReturns(t)) /\ SF_vars(PollReturns(t))

Spec == Init /\ [][Next]_vars /\ Fairness

-----------------------------------------------------------------------------
(* Properties.                                                             *)

\* Every variable keeps its range; a caller on the service thread never gets to
\* a step that owns, joins or assigns the thread object.
TypeOK ==
    /\ service_state \in States
    /\ service_thread \in Threads \cup {NoThread}
    /\ run \in BOOLEAN
    /\ busy_poll \in BOOLEAN
    /\ stopped \in BOOLEAN
    /\ loc \in [Threads -> Locations]
    /\ pc \in [Callers -> CallSteps]
    /\ \A t \in Threads : pc[t] \in CallbackSteps
    /\ seen \in [Callers -> States]
    /\ since \in [Callers -> SUBSET Threads]
    /\ calls \in 0..MaxCalls

Owns(c) == pc[c] \in StartOwner \/ (pc[c] \in StopOwner /\ c \notin Threads)

\* service_thread_ is inspected, joined and assigned by one caller at a time: the
\* one that moved the state to starting or stopping.
ExclusiveOwner ==
    /\ \A c, d \in Callers : Owns(c) /\ Owns(d) => c = d
    /\ \A c \in Callers : Owns(c) => service_state \in {"starting", "stopping"}

\* A new std::thread is never assigned over one still to be joined, which would
\* terminate the process, and a service thread never runs beside another: each
\* thread not joined is the one service_thread_ holds.
ThreadHeld ==
    /\ \A c \in Callers : pc[c] = "startCreate" => service_thread = NoThread
    /\ \A t \in Threads : loc[t] # "none" <=> t = service_thread

\* When shutdown() returns to a user thread, every service thread that existed
\* when it was called has finished and is joined, whoever joined it; and when it
\* returns to a callback, is_running() reads false.
ShutdownDone ==
    \A c \in Callers : pc[c] = "stopReturn" => IF c \in Threads THEN ~run ELSE since[c] = {}

\* Why these hold: the strengthening that every step preserves.

\* The state says which kind of owner there is.
OwnerState ==
    /\ \A c \in Callers : pc[c] \in {"startJoin", "startClaimed"} => service_state = "stopping"
    /\ \A c \in Callers :
        pc[c] \in {"startRun", "startCreate", "startDone"} => service_state = "starting"
    /\ \A c \in Users : pc[c] \in StopOwner => service_state = "stopping"
    /\ \A t \in Threads : pc[t] # "idle" => loc[t] \in InCallback

\* There is no thread where the state or an owner's progress says so.
NoThreadLeft ==
    /\ service_state = "stopped" => service_thread = NoThread
    /\ \A c \in Callers :
        pc[c] \in {"startClaimed", "startRun", "stopDone"} => service_thread = NoThread

\* What a shutdown() has still to see joined is a thread that exists, and nothing
\* once it has seen stopped or has done the join itself.
StillToJoin ==
    /\ \A c \in Callers : since[c] \subseteq {t \in Threads : loc[t] # "none"}
    /\ \A c \in Users : pc[c] = "stop" /\ seen[c] = "stopped" => since[c] = {}
    /\ \A c \in Users : pc[c] = "stopDone" => since[c] = {}
    /\ \A t \in Threads : pc[t] = "stop" => seen[t] # "stopped"
    /\ \A t \in Threads : pc[t] = "stopIoc" => ~run

\* The inductive invariant.
IInv ==
    TypeOK /\ ExclusiveOwner /\ OwnerState /\ ThreadHeld /\ NoThreadLeft /\ StillToJoin /\ ShutdownDone

\* A service thread that has been told to stop is never taken back: run_ stays
\* false until it has finished.
NoRevival == [][(\E t \in Threads : Alive(t)) /\ ~run => ~run']_vars

\* The thread could not be created: starting is left with no owner.
CreationFailed ==
    service_state = "starting" /\ \A c \in Callers : ~Owns(c)

\* Every shutdown() returns, although it may wait for a start, for another
\* shutdown()'s join and for a callback that itself calls shutdown() or open().
ShutdownReturns ==
    \A c \in Callers : pc[c] = "stop" ~> (pc[c] = "idle" \/ CreationFailed)

\* A shutdown() from a callback ends the service with no further call.
RequestedStopEnds ==
    \A t \in Threads : service_state = "stop_requested" /\ Alive(t) ~> ~Alive(t)

\* set_busy_poll(true) takes effect on a running service, although the thread may
\* be blocked, about to block, or about to clear a stop that was not for it.
BusyPollTakesEffect ==
    \A t \in Threads :
        busy_poll /\ Alive(t) ~> (loc[t] = "poll" \/ ~busy_poll \/ ~Alive(t))
=============================================================================
