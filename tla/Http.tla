-------------------------------- MODULE Http --------------------------------
(***************************************************************************)
(* A program that uses class Http: the calls it makes, callback-based and  *)
(* synchronous, and the shutdown()s, each on a thread of its own.          *)
(***************************************************************************)
EXTENDS HttpService, SyncRequest

CONSTANTS Programs  \* the sets of calls made: of Requests, Stoppers and Calls

ASSUME ProgramsAssumption == Programs \subseteq SUBSET (Requests \cup Stoppers \cup Calls)

VARIABLES program   \* the calls this program makes

HttpInit ==
    /\ program \in Programs
    /\ Init
    /\ SyncInit

\* The two kinds of request share nothing that changes.
AsyncCall(step) == step /\ UNCHANGED <<program, syncVars>>
SyncCall(step) == step /\ UNCHANGED <<program, vars>>

HttpNext ==
    \/ \E r \in program \cap Requests :
        AsyncCall(AsyncRequest(r)) \/ AsyncCall(RequestStep(r)) \/ AsyncCall(CallbackReturns(r))
    \/ \E c \in program \cap Stoppers : AsyncCall(Shutdown(c)) \/ AsyncCall(StopStep(c))
    \/ \E c \in program \cap Calls : SyncCall(Request(c)) \/ SyncCall(SyncStep(c))

HttpSpec ==
    /\ HttpInit
    /\ [][HttpNext]_<<program, vars, syncVars>>
    /\ Fairness
    /\ \A c \in Calls : WF_syncVars(SyncCall(SyncStep(c)))
=============================================================================
