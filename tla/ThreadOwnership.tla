--------------------------- MODULE ThreadOwnership ---------------------------
(***************************************************************************)
(* What the shared services, of Websocket, of HttpStream and of Http, keep *)
(* of the std::thread objects they hold, which no lock guards.  One call   *)
(* at a time has them, to start the service or to stop it.  New threads    *)
(* are created only where none is left to be joined, since one that is     *)
(* assigned over or destroyed unjoined ends the process, and a call that   *)
(* has them to stop the service leaves none.                               *)
(***************************************************************************)

CONSTANT Callers

VARIABLES
    starter,    \* the call that has the threads to start the service, if any does,
    stopper,    \* and the one that has them to stop it
    joinable    \* there are threads not joined

vars == <<starter, stopper, joinable>>

Init == starter = {} /\ stopper = {} /\ joinable = FALSE

Unowned == starter = {} /\ stopper = {}

StartClaims(c) == Unowned /\ starter' = {c} /\ UNCHANGED <<stopper, joinable>>
StopClaims(c) == Unowned /\ stopper' = {c} /\ UNCHANGED <<starter, joinable>>

Create(c) ==
    /\ starter = {c} /\ ~joinable
    /\ joinable' = TRUE
    /\ UNCHANGED <<starter, stopper>>

\* A start joins what a stop from the service's own thread could not.
Join(c) ==
    /\ starter = {c} \/ stopper = {c}
    /\ joinable' = FALSE
    /\ UNCHANGED <<starter, stopper>>

\* With threads, unless they could not be created.
StartOver(c) == starter = {c} /\ starter' = {} /\ UNCHANGED <<stopper, joinable>>

StopOver(c) == stopper = {c} /\ stopper' = {} /\ joinable' = FALSE /\ UNCHANGED starter

Next == \E c \in Callers :
    StartClaims(c) \/ StopClaims(c) \/ Create(c) \/ Join(c) \/ StartOver(c) \/ StopOver(c)

Spec == Init /\ [][Next]_vars
=============================================================================
