----------------------------- MODULE SyncRequest ----------------------------
(***************************************************************************)
(* The synchronous requests of Http: each runs an io_context of its own,   *)
(* which it takes from a lock-free pool of parked ones, or makes, and parks*)
(* again.  A context is named by the call that made it.                    *)
(***************************************************************************)
EXTENDS HttpExchange, FiniteSets

CONSTANTS
    Calls,      \* synchronous requests, each on a thread of its own
    TlsCalls,   \* those with a https URL
    Slots       \* size of the pool

ASSUME SlotsAssumption == Slots \in Nat

VARIABLES
    slots_,     \* slots_: the context parked in each slot, or none
    halted,     \* contexts that have run out of work, whose run() returns at once
    sync        \* each request: where it is, the slot it looks at, its context and response

syncVars == <<slots_, halted, sync>>

none == 0
ASSUME CallsAssumption == Calls \subseteq Nat \ {none}

NewCall == [at |-> "new", slot |-> 1, ioc |-> none, step |-> 0, response |-> "none"]

SyncInit ==
    /\ slots_ = [i \in 1..Slots |-> none]
    /\ halted = {}
    /\ sync = [c \in Calls |-> NewCall]

SyncAt(c, place) == sync[c].at = place
Slot(c) == sync[c].slot
SyncGo(c, to) == sync' = [sync EXCEPT ![c].at = to]
NextSlot(c, to) == sync' = [sync EXCEPT ![c] = [@ EXCEPT !.at = to, !.slot = Slot(c) + 1]]

-----------------------------------------------------------------------------
(* sync_context_pool::acquire().                                           *)

Request(c) == SyncAt(c, "new") /\ SyncGo(c, "acquire") /\ UNCHANGED <<slots_, halted>>

LookForContext(c) ==
    /\ SyncAt(c, "acquire") /\ Slot(c) <= Slots
    /\ IF slots_[Slot(c)] # none THEN SyncGo(c, "exchange") ELSE NextSlot(c, "acquire")
    /\ UNCHANGED <<slots_, halted>>

Taken(c) ==
    IF slots_[Slot(c)] # none
    THEN sync' = [sync EXCEPT ![c] = [@ EXCEPT !.at = "run", !.ioc = slots_[Slot(c)]]]
    ELSE NextSlot(c, "acquire")

\* A fault: the context is read, and left in the slot.
TakeByLoad(c) ==
    /\ SyncAt(c, "exchange")
    /\ Taken(c)
    /\ UNCHANGED <<slots_, halted>>

\* The exchange; another call may have taken the context since the look.
Take(c) ==
    /\ SyncAt(c, "exchange")
    /\ Taken(c)
    /\ slots_' = [slots_ EXCEPT ![Slot(c)] = none]
    /\ UNCHANGED halted

Make(c) ==
    /\ SyncAt(c, "acquire") /\ Slot(c) > Slots
    /\ sync' = [sync EXCEPT ![c] = [@ EXCEPT !.at = "run", !.ioc = c]]
    /\ UNCHANGED <<slots_, halted>>

-----------------------------------------------------------------------------
(* run_sync_request().                                                     *)

\* run() of a context that is halted returns with nothing done.
Run(c, unusable) ==
    /\ SyncAt(c, "run")
    /\ halted' = unusable
    /\ sync' = [sync EXCEPT ![c] = [@ EXCEPT !.at = IF sync[c].ioc \in unusable THEN "release" ELSE "session",
                                             !.step = 1, !.slot = 1]]
    /\ UNCHANGED slots_

\* A fault: the context is not restarted.
RunHalted(c) == Run(c, halted)

RunSyncRequest(c) == Run(c, halted \ {sync[c].ioc})

SyncExchange(c) ==
    /\ SyncAt(c, "session")
    /\ \E o \in Outcomes(c \in TlsCalls, sync[c].step, sync[c].response) :
        /\ sync' = [sync EXCEPT ![c] = [@ EXCEPT !.at = IF o.step = 0 THEN "release" ELSE "session",
                                                 !.step = o.step, !.response = o.response]]
        /\ halted' = IF o.step = 0 THEN halted \cup {sync[c].ioc} ELSE halted
    /\ UNCHANGED slots_

-----------------------------------------------------------------------------
(* sync_context_pool::release().                                           *)

LookForRoom(c) ==
    /\ SyncAt(c, "release") /\ Slot(c) <= Slots
    /\ IF slots_[Slot(c)] = none THEN SyncGo(c, "park") ELSE NextSlot(c, "release")
    /\ UNCHANGED <<slots_, halted>>

\* The compare-and-swap.
Park(c) ==
    /\ SyncAt(c, "park")
    /\ IF slots_[Slot(c)] = none
       THEN slots_' = [slots_ EXCEPT ![Slot(c)] = sync[c].ioc] /\ SyncGo(c, "done")
       ELSE NextSlot(c, "release") /\ UNCHANGED slots_
    /\ UNCHANGED halted

\* Every slot is taken: the context is destroyed.
Destroy(c) ==
    /\ SyncAt(c, "release") /\ Slot(c) > Slots
    /\ SyncGo(c, "done")
    /\ UNCHANGED <<slots_, halted>>

-----------------------------------------------------------------------------

SyncStep(c) ==
    \/ LookForContext(c) \/ Take(c) \/ Make(c) \/ RunSyncRequest(c) \/ SyncExchange(c)
    \/ LookForRoom(c) \/ Park(c) \/ Destroy(c)

SyncNext == \E c \in Calls : Request(c) \/ SyncStep(c)

SyncSpec == SyncInit /\ [][SyncNext]_syncVars /\ \A c \in Calls : WF_syncVars(SyncStep(c))

-----------------------------------------------------------------------------
(* Properties.                                                             *)

Holders == {c \in Calls : sync[c].at \in {"run", "session", "release", "park"}}
Parked == {i \in 1..Slots : slots_[i] # none}

\* An io_context is run by one call at a time, so that no call's run() returns
\* with, or waits for, another call's request: it is held by one call, or parked
\* in one slot.
ContextExclusive ==
    /\ \A c, d \in Holders : sync[c].ioc = sync[d].ioc => c = d
    /\ \A i, j \in Parked : slots_[i] = slots_[j] => i = j
    /\ \A c \in Holders, i \in Parked : sync[c].ioc # slots_[i]

\* Every call returns, with the answer or the error of its own exchange, on a
\* fresh context or on one that has been run before.
SyncAnswered ==
    \A c \in Calls :
        SyncAt(c, "acquire") ~> SyncAt(c, "done") /\ sync[c].response \in {"answer", "error"}
=============================================================================
