---------------------------- MODULE SharedService ---------------------------
(***************************************************************************)
(* The lock-free life cycle of a shared service: start_service() and       *)
(* shutdown() called by any thread, the io_contexts the service runs, and  *)
(* the threads that run them.  HttpStream and Http have one each, written  *)
(* alike; what they do besides is in the modules that instantiate this one.*)
(***************************************************************************)
EXTENDS Naturals

CONSTANTS
    Callers,    \* calls of start_service() and shutdown()
    Contexts    \* how many io_contexts the service runs

VARIABLES
    service_state,  \* service_state_
    stopped,        \* the contexts 1..stopped are stopped, in the order shutdown() stops them
    threads,        \* service_threads_: how many run each context
    call            \* where each call is, "no" when it is in neither function

serviceVars == <<service_state, stopped, threads, call>>

Starting == {"create", "run"}
Stopping == {"bump", "halt", "join"}

NoThreads == [k \in 1..Contexts |-> 0]

Init ==
    /\ service_state = "stopped"
    /\ stopped = 0
    /\ threads = NoThreads
    /\ call = [c \in Callers |-> "no"]

\* A thread of context k takes its next handler.
Runs(k) == threads[k] > 0 /\ stopped < k

Step(c, from, to) ==
    /\ call[c] = from
    /\ call' = [call EXCEPT ![c] = to]

-----------------------------------------------------------------------------
(* start_service(), entered with call[c] = "claim".                        *)

\* A fault: a load and a store in place of the compare-and-swap.
StartClaimAnyway(c) ==
    /\ Step(c, "claim", "create")
    /\ service_state' = "starting"
    /\ UNCHANGED <<stopped, threads>>

StartClaim(c) ==
    /\ IF service_state = "stopped"
       THEN Step(c, "claim", "create") /\ service_state' = "starting"
       ELSE Step(c, "claim", "no") /\ UNCHANGED service_state
    /\ UNCHANGED <<stopped, threads>>

\* restart() clears the stop() of the last shutdown(), which no thread is there to
\* see.  The new threads run before the service says that it is running.
Create(c, counts) ==
    /\ Step(c, "create", "run")
    /\ stopped' = 0
    /\ threads' = counts
    /\ UNCHANGED service_state

Running(c) ==
    /\ Step(c, "run", "no")
    /\ service_state' = "running"
    /\ UNCHANGED <<stopped, threads>>

-----------------------------------------------------------------------------
(* shutdown(), entered with call[c] = "stop".  It waits for "starting" to  *)
(* pass.                                                                   *)

StopReturns(c) ==
    /\ service_state \in {"stopped", "stopping"}
    /\ Step(c, "stop", "no")
    /\ UNCHANGED <<service_state, stopped, threads>>

\* What follows the claim is for the service to say: "halt", or a step of its own.
StopClaim(c, next) ==
    /\ service_state = "running"
    /\ Step(c, "stop", next)
    /\ service_state' = "stopping"
    /\ UNCHANGED <<stopped, threads>>

Halt(c) ==
    /\ Step(c, "halt", IF stopped + 1 = Contexts THEN "join" ELSE "halt")
    /\ stopped' = stopped + 1
    /\ UNCHANGED <<service_state, threads>>

\* A fault: the threads are left to end when they like.
JoinNobody(c, idle) ==
    /\ Step(c, "join", "no")
    /\ threads' = NoThreads
    /\ service_state' = "stopped"
    /\ UNCHANGED stopped

\* A thread ends once the handler it is running, if any, has returned; with all
\* of them joined the service is stopped.
Join(c, idle) ==
    /\ idle
    /\ Step(c, "join", "no")
    /\ threads' = NoThreads
    /\ service_state' = "stopped"
    /\ UNCHANGED stopped

-----------------------------------------------------------------------------

TypeOK ==
    /\ service_state \in {"stopped", "starting", "running", "stopping"}
    /\ stopped \in 0..Contexts
    /\ threads \in [1..Contexts -> Nat]
    /\ call \in [Callers -> {"no", "claim", "stop"} \cup Starting \cup Stopping]

\* service_threads_ has no lock: whoever is creating or joining the threads is
\* alone, and the service says so.
OneOwner ==
    /\ \A c, d \in Callers : call[c] \in Starting \cup Stopping /\ call[d] \in Starting \cup Stopping => c = d
    /\ \A c \in Callers :
        /\ call[c] \in Starting => service_state = "starting"
        /\ call[c] \in Stopping => service_state = "stopping"
=============================================================================
