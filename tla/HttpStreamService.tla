-------------------------- MODULE HttpStreamService -------------------------
(***************************************************************************)
(* An HttpStream and the executor it runs on: one of the caller's, which   *)
(* runs throughout, or the shared service, which open() starts and any     *)
(* thread may shut down.  Every step is a step of HttpStream, or one of the*)
(* service that the stream does not see.                                   *)
(***************************************************************************)
EXTENDS HttpStream

CONSTANTS
    OpensOnService,     \* bound on the generations of a stream on the service
    MaxShutdowns,       \* bound on the calls of shutdown()
    ThreadCounts        \* what set_service_threads() may have been given

VARIABLES
    use_service_,           \* use_service_
    service_state, stopped, threads, call,  \* of SharedService
    shutdowns               \* calls of shutdown()

Service == INSTANCE SharedService WITH Contexts <- 1

serviceVars == <<use_service_, service_state, stopped, threads, call, shutdowns>>
allVars == <<vars, serviceVars>>

ServiceInit ==
    /\ Init
    /\ Service!Init
    /\ use_service_ \in BOOLEAN
    /\ shutdowns = 0

Free(c) == pc[c] = "idle" /\ call[c] = "no"

Enter(c, function) ==
    /\ call' = [call EXCEPT ![c] = function]
    /\ UNCHANGED <<use_service_, service_state, stopped, threads>>

\* A fault: the stream posts to a service it has not started.
OpenOnly(c) ==
    /\ Open(c)
    /\ call[c] = "no"
    /\ use_service_ => generation < OpensOnService
    /\ UNCHANGED serviceVars

\* open() of this stream: start_service() comes before the post.
OpenStream(c) ==
    /\ Open(c)
    /\ call[c] = "no"
    /\ IF use_service_
       THEN generation < OpensOnService /\ Enter(c, "claim") /\ UNCHANGED shutdowns
       ELSE UNCHANGED serviceVars

CloseStream(c) == call[c] = "no" /\ Close(c) /\ UNCHANGED serviceVars
PostStream(c) == call[c] = "no" /\ Post(c) /\ UNCHANGED serviceVars

\* open() of another stream on the service.
OpenOther(c) ==
    /\ use_service_ /\ Free(c)
    /\ service_state # "running"
    /\ Enter(c, "claim")
    /\ UNCHANGED <<vars, shutdowns>>

Shutdown(c) ==
    /\ use_service_ /\ Free(c)
    /\ shutdowns < MaxShutdowns
    /\ shutdowns' = shutdowns + 1
    /\ Enter(c, "stop")
    /\ UNCHANGED vars

\* A count of 0 is taken for 1; start_service() reads it once.
service_threads == {IF n = 0 THEN 1 ELSE n : n \in ThreadCounts}

ServiceStep(c) ==
    /\ \/ Service!StartClaim(c) \/ Service!Running(c)
       \/ \E n \in service_threads : Service!Create(c, <<n>>)
       \/ Service!StopReturns(c) \/ Service!StopClaim(c, "halt") \/ Service!Halt(c)
       \/ Service!Join(c, StrandFree)
    /\ UNCHANGED <<vars, use_service_, shutdowns>>

\* A handler begins on a thread that runs the executor, and then goes on.
ExecutorRuns == ~use_service_ \/ Service!Runs(1)
Handler(step) == (StrandFree => ExecutorRuns) /\ step /\ UNCHANGED serviceVars

\* The kernel completes an operation, and a thread of the executor takes note.
Completion(step) == ExecutorRuns /\ step /\ UNCHANGED serviceVars

ServiceNext ==
    \/ \E c \in Callers :
        OpenStream(c) \/ CloseStream(c) \/ PostStream(c) \/ OpenOther(c) \/ Shutdown(c) \/ ServiceStep(c)
    \/ Handler(RunServe) \/ Handler(RunCancel)
    \/ \E l \in Loops :
        Handler(LoopStep(l)) \/ Handler(Throw(l)) \/ Handler(Continue(l)) \/ Completion(Ready(l))

\* The fairness of HttpStream, as long as the executor runs, calls that return,
\* and a server that sends the rest of a header, a chunk or a TLS record it has
\* begun: HttpStreamLostCancel.cfg shows what happens with one that does not.
ServiceFairness ==
    /\ \A c \in Callers : WF_allVars(PostStream(c) \/ ServiceStep(c))
    /\ SF_allVars(Handler(RunServe \/ RunCancel))
    /\ WF_allVars(Handler(\E l \in Loops : LoopStep(l)))
    /\ WF_allVars(Completion(\E l \in Loops : loop[l].at \in Timed /\ Ready(l)))
    /\ WF_allVars(Completion(\E l \in Loops : loop[l].wait = "again" /\ Ready(l)))
    /\ SF_allVars(Handler(\E l \in Loops : SetUp(l) \/ ReadSome(l)))

ServiceSpec == ServiceInit /\ [][ServiceNext]_allVars /\ ServiceFairness

-----------------------------------------------------------------------------
(* Properties.                                                             *)

\* Once shutdown() has stopped the service no callback of a stream on it runs,
\* until an open() has started the service again.
QuietWhenStopped == use_service_ /\ service_state = "stopped" => StrandFree

\* open() is served, on a service it starts if nobody has.  One that meets a
\* shutdown() is only late: once a later open() has the service running again,
\* the stream is served.
StaysUp == <>[](~use_service_ \/ service_state = "running")
OpenServedLate == [](shutdowns = 0) \/ StaysUp => OpenServed

\* So is a close(), or the end of a session, except of one that an exception ended
\* which is no std::exception.
DisconnectFollowsLate == StaysUp => DisconnectFollows
=============================================================================
