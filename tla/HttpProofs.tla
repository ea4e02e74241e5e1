------------------------------ MODULE HttpProofs ------------------------------
(***************************************************************************)
(* Class Http.  For every number of synchronous requests and of slots, an  *)
(* io_context has one user at a time; and a program that uses the class,   *)
(* whatever calls it makes, takes the steps of the asynchronous service    *)
(* and of the synchronous requests, and so has what is proved of each.     *)
(***************************************************************************)
EXTENDS Http, HttpServiceProofs, TLAPS

-----------------------------------------------------------------------------
(* Synchronous requests.                                                   *)

Before == {"new", "acquire", "exchange"}
Holding == {"run", "session", "release", "park"}
Places == Before \cup Holding \cup {"done"}
Responses == {"none", "answer", "error"}

CallType == [at : Places, slot : Nat \ {0}, ioc : Calls \cup {none}, step : Nat, response : Responses]

SyncTypeOK ==
    /\ slots_ \in [1..Slots -> Calls \cup {none}]
    /\ sync \in [Calls -> CallType]

\* A slot is looked at before it is taken from or parked into.
LooksAtSlot == \A c \in Calls : sync[c].at \in {"exchange", "park"} => sync[c].slot \in 1..Slots

\* A call that holds a context has one, and the context a call may yet make, which
\* bears its name, is nowhere so far.
HasContext == \A c \in Holders : sync[c].ioc \in Calls
NotYetMade ==
    \A c \in Calls : sync[c].at \in Before =>
        /\ \A d \in Holders : sync[d].ioc # c
        /\ \A i \in Parked : slots_[i] # c

SyncIInv == SyncTypeOK /\ LooksAtSlot /\ HasContext /\ NotYetMade /\ ContextExclusive

-----------------------------------------------------------------------------

\* A step of an exchange leaves a response or an error, whatever the network does.
LEMMA OutcomesType ==
    ASSUME NEW tls, NEW k \in Nat, NEW response \in Responses
    PROVE  Outcomes(tls, k, response) \subseteq [step : Nat, response : Responses]
<1> DEFINE next == [step |-> IF k = Len(Steps(tls)) THEN 0 ELSE k + 1,
                    response |-> IF Steps(tls)[k] = "response" THEN "answer" ELSE response]
<1>1. next \in [step : Nat, response : Responses]
    BY DEF Responses
<1>2. [step |-> 0, response |-> "error"] \in [step : Nat, response : Responses]
    BY DEF Responses
<1>. QED
    BY <1>1, <1>2 DEF Outcomes

LEMMA SyncInitEstablishes == SyncInit => SyncIInv
<1>. SUFFICES ASSUME SyncInit PROVE SyncIInv
    OBVIOUS
<1>1. SyncTypeOK
    BY SlotsAssumption DEF SyncInit, NewCall, SyncTypeOK, CallType, Places, Before, Responses
<1>2. Holders = {} /\ Parked = {}
    BY DEF SyncInit, NewCall, Holders, Parked
<1>3. LooksAtSlot
    BY DEF SyncInit, NewCall, LooksAtSlot
<1>. QED
    BY <1>1, <1>2, <1>3 DEF SyncIInv, HasContext, NotYetMade, ContextExclusive

\* Every step of a call keeps the ranges.
LEMMA TypeStep == ASSUME SyncIInv, NEW c \in Calls, Request(c) \/ SyncStep(c) PROVE SyncTypeOK'
<1>a. sync[c] \in CallType /\ sync \in [Calls -> CallType]
    BY DEF SyncIInv, SyncTypeOK
<1>b. ASSUME NEW u \in CallType, sync' = [sync EXCEPT ![c] = u],
             slots_' \in [1..Slots -> Calls \cup {none}]
      PROVE  SyncTypeOK'
    BY <1>a, <1>b DEF SyncTypeOK
<1>c. slots_ \in [1..Slots -> Calls \cup {none}]
    BY DEF SyncIInv, SyncTypeOK
<1>d. Slot(c) + 1 \in Nat \ {0} /\ 1 \in Nat \ {0}
    BY <1>a DEF CallType, Slot
<1>e. ASSUME NEW to \in Places, SyncGo(c, to) \/ NextSlot(c, to), UNCHANGED slots_
      PROVE  SyncTypeOK'
    <2>2. CASE SyncGo(c, to)
        <3>1. [sync[c] EXCEPT !.at = to] \in CallType
            BY <1>a DEF CallType
        <3>. QED
            BY <1>b, <1>c, <1>e, <2>2, <3>1 DEF SyncGo
    <2>3. CASE NextSlot(c, to)
        <3>1. [sync[c] EXCEPT !.at = to, !.slot = Slot(c) + 1] \in CallType
            BY <1>a, <1>d DEF CallType
        <3>. QED
            BY <1>b, <1>c, <1>e, <2>3, <3>1 DEF NextSlot
    <2>. QED
        BY <1>e, <2>2, <2>3
<1>1. CASE Request(c)
    BY <1>1, <1>e DEF Request, Places, Before
<1>2. CASE LookForContext(c)
    BY <1>2, <1>e DEF LookForContext, Places, Before
<1>3. CASE Take(c)
    <2>1. Slot(c) \in 1..Slots
        BY <1>3 DEF Take, SyncIInv, LooksAtSlot, SyncAt, Slot
    <2>2. slots_' \in [1..Slots -> Calls \cup {none}]
        BY <1>3, <1>c, <2>1 DEF Take
    <2>3. [sync[c] EXCEPT !.at = "run", !.ioc = slots_[Slot(c)]] \in CallType
        BY <1>a, <1>c, <2>1 DEF CallType, Places, Holding
    <2>4. [sync[c] EXCEPT !.at = "acquire", !.slot = Slot(c) + 1] \in CallType
        BY <1>a, <1>d DEF CallType, Places, Before
    <2>. QED
        BY <1>3, <1>b, <2>2, <2>3, <2>4 DEF Take, Taken, NextSlot
<1>4. CASE Make(c)
    <2>1. [sync[c] EXCEPT !.at = "run", !.ioc = c] \in CallType
        BY <1>a DEF CallType, Places, Holding
    <2>. QED
        BY <1>4, <1>b, <1>c, <2>1 DEF Make
<1>5. CASE RunSyncRequest(c)
    <2> DEFINE to == IF sync[c].ioc \in halted \ {sync[c].ioc} THEN "release" ELSE "session"
    <2>1. to \in Holding
        BY DEF Holding
    <2>2. [sync[c] EXCEPT !.at = to, !.step = 1, !.slot = 1] \in CallType
        BY <1>a, <1>d, <2>1 DEF CallType, Places
    <2>. QED
        BY <1>5, <1>b, <1>c, <2>2 DEF RunSyncRequest, Run
<1>6. CASE SyncExchange(c)
    <2>1. PICK o \in Outcomes(c \in TlsCalls, sync[c].step, sync[c].response) :
            sync' = [sync EXCEPT ![c] = [@ EXCEPT !.at = IF o.step = 0 THEN "release" ELSE "session",
                                                  !.step = o.step, !.response = o.response]]
        BY <1>6 DEF SyncExchange
    <2>2. sync[c].step \in Nat /\ sync[c].response \in Responses
        BY <1>a DEF CallType
    <2>3. o \in [step : Nat, response : Responses]
        BY <2>1, <2>2, OutcomesType
    <2> DEFINE to == IF o.step = 0 THEN "release" ELSE "session"
    <2>4. to \in Holding
        BY DEF Holding
    <2>5. [sync[c] EXCEPT !.at = to, !.step = o.step, !.response = o.response] \in CallType
        BY <1>a, <2>3, <2>4 DEF CallType, Places
    <2>. QED
        BY <1>6, <1>b, <1>c, <2>1, <2>5 DEF SyncExchange
<1>7. CASE LookForRoom(c)
    BY <1>7, <1>e DEF LookForRoom, Places, Holding
<1>8. CASE Park(c)
    <2>1. Slot(c) \in 1..Slots
        BY <1>8 DEF Park, SyncIInv, LooksAtSlot, SyncAt, Slot
    <2>2. [slots_ EXCEPT ![Slot(c)] = sync[c].ioc] \in [1..Slots -> Calls \cup {none}]
        BY <1>a, <1>c, <2>1 DEF CallType
    <2>3. [sync[c] EXCEPT !.at = "done"] \in CallType
        BY <1>a DEF CallType, Places
    <2>4. CASE slots_[Slot(c)] = none
        BY <1>8, <1>b, <2>2, <2>3, <2>4 DEF Park, SyncGo
    <2>5. CASE slots_[Slot(c)] # none
        BY <1>8, <1>e, <2>5 DEF Park, Places, Holding
    <2>. QED
        BY <2>4, <2>5
<1>9. CASE Destroy(c)
    BY <1>9, <1>e DEF Destroy, Places
<1>. QED
    BY <1>1, <1>2, <1>3, <1>4, <1>5, <1>6, <1>7, <1>8, <1>9 DEF SyncStep

\* A call that moves on among the places before it has a context, or among those
\* where it holds one, disturbs nobody's context.
LEMMA Keeps ==
    ASSUME SyncIInv, SyncTypeOK', NEW c \in Calls, UNCHANGED slots_,
           \A d \in Calls \ {c} : sync'[d] = sync[d],
           sync'[c].ioc = sync[c].ioc,
           sync'[c].at \in {"exchange", "park"} => sync'[c].slot \in 1..Slots,
           sync'[c].at \in Before => sync[c].at \in Before,
           sync'[c].at \in Holding => sync[c].at \in Holding
    PROVE  SyncIInv'
<1>1. Holders' \subseteq Holders /\ \A d \in Calls : sync'[d].ioc = sync[d].ioc
    BY DEF Holders, Holding
<1>2. Parked' = Parked
    BY DEF Parked
<1>3. LooksAtSlot'
    BY DEF SyncIInv, LooksAtSlot
<1>4. HasContext'
    BY <1>1 DEF SyncIInv, HasContext, Holders
<1>5. NotYetMade'
    BY <1>1, <1>2 DEF SyncIInv, NotYetMade, Holders
<1>6. ContextExclusive'
    BY <1>1, <1>2 DEF SyncIInv, ContextExclusive, Holders
<1>. QED
    BY <1>3, <1>4, <1>5, <1>6 DEF SyncIInv

\* A context goes from a slot to the call that takes it, from a call to the slot it
\* is parked in, and a made one is new.
LEMMA StepKeeps == ASSUME SyncIInv, NEW c \in Calls, Request(c) \/ SyncStep(c) PROVE SyncIInv'
<1>1. SyncTypeOK'
    BY TypeStep
<1>2. sync \in [Calls -> CallType] /\ slots_ \in [1..Slots -> Calls \cup {none}]
    BY DEF SyncIInv, SyncTypeOK
<1>3. none \notin Calls
    BY CallsAssumption
<1>4. ASSUME NEW to \in {"acquire", "exchange", "release", "park", "done"},
             SyncGo(c, to) \/ NextSlot(c, to), UNCHANGED slots_,
             to \in {"exchange", "park"} => SyncGo(c, to) /\ Slot(c) <= Slots,
             to \in Before => sync[c].at \in Before,
             to \in Holding => sync[c].at \in Holding
      PROVE  SyncIInv'
    <2>1. /\ \A d \in Calls \ {c} : sync'[d] = sync[d]
          /\ sync'[c].ioc = sync[c].ioc /\ sync'[c].at = to
        BY <1>2, <1>4 DEF SyncGo, NextSlot, CallType
    <2>2. ASSUME to \in {"exchange", "park"} PROVE sync'[c].slot \in 1..Slots
        <3>1. sync'[c].slot = sync[c].slot /\ sync[c].slot \in Nat \ {0} /\ sync[c].slot <= Slots
            BY <1>2, <1>4, <2>2 DEF SyncGo, Slot, CallType
        <3>. QED
            BY <3>1, SlotsAssumption
    <2>. QED
        BY <1>1, <1>4, <2>1, <2>2, Keeps
<1>5. CASE Request(c)
    BY <1>4, <1>5 DEF Request, SyncAt, Before, Holding
<1>6. CASE LookForContext(c)
    BY <1>4, <1>6 DEF LookForContext, SyncAt, Before, Holding
<1>7. CASE LookForRoom(c)
    BY <1>4, <1>7 DEF LookForRoom, SyncAt, Before, Holding
<1>8. CASE Destroy(c)
    BY <1>4, <1>8 DEF Destroy, SyncAt, Before, Holding
<1>9. CASE RunSyncRequest(c) \/ SyncExchange(c)
    <2>1. /\ UNCHANGED slots_ /\ sync[c].at \in {"run", "session"}
          /\ \A d \in Calls \ {c} : sync'[d] = sync[d]
          /\ sync'[c].ioc = sync[c].ioc /\ sync'[c].at \in {"session", "release"}
        <3>1. CASE RunSyncRequest(c)
            BY <1>2, <3>1 DEF RunSyncRequest, Run, SyncAt, CallType
        <3>2. CASE SyncExchange(c)
            BY <1>2, <3>2 DEF SyncExchange, SyncAt, CallType
        <3>. QED
            BY <1>9, <3>1, <3>2
    <2>. QED
        BY <1>1, <2>1, Keeps DEF Before, Holding
<1>10. CASE Take(c)
    <2>1. Slot(c) \in 1..Slots /\ sync[c].at = "exchange"
        BY <1>10 DEF Take, SyncIInv, LooksAtSlot, SyncAt, Slot
    <2>2. CASE slots_[Slot(c)] = none
        <3>1. UNCHANGED slots_ /\ NextSlot(c, "acquire")
            BY <1>2, <1>10, <2>1, <2>2 DEF Take, Taken
        <3>. QED
            BY <1>4, <2>1, <3>1 DEF Before, Holding
    <2>3. CASE slots_[Slot(c)] # none
        <3> DEFINE taken == slots_[Slot(c)]
        <3>1. /\ \A d \in Calls \ {c} : sync'[d] = sync[d]
              /\ sync'[c].ioc = taken /\ sync'[c].at = "run"
            BY <1>2, <1>10, <2>3 DEF Take, Taken, CallType
        <3>2. /\ \A i \in (1..Slots) \ {Slot(c)} : slots_'[i] = slots_[i]
              /\ slots_'[Slot(c)] = none
            BY <1>2, <1>10, <2>1 DEF Take
        <3>3. Holders' = Holders \cup {c} /\ c \notin Holders
            BY <2>1, <3>1 DEF Holders
        <3>4. Parked' = Parked \ {Slot(c)} /\ Slot(c) \in Parked
            BY <2>1, <2>3, <3>2 DEF Parked
        <3>5. taken \in Calls
            BY <1>2, <2>1, <2>3
        <3>6. LooksAtSlot'
            BY <3>1 DEF SyncIInv, LooksAtSlot
        <3>7. HasContext'
            BY <3>1, <3>3, <3>5 DEF SyncIInv, HasContext, Holders
        <3>8. NotYetMade'
            BY <3>1, <3>2, <3>3, <3>4, <2>1 DEF SyncIInv, NotYetMade, Before, Holders, Parked
        <3>9. ContextExclusive'
            BY <3>1, <3>2, <3>3, <3>4, <2>1 DEF SyncIInv, ContextExclusive, Holders, Parked
        <3>. QED
            BY <1>1, <3>6, <3>7, <3>8, <3>9 DEF SyncIInv
    <2>. QED
        BY <2>2, <2>3
<1>11. CASE Make(c)
    <2>1. /\ \A d \in Calls \ {c} : sync'[d] = sync[d]
          /\ sync'[c].ioc = c /\ sync'[c].at = "run" /\ sync[c].at = "acquire" /\ UNCHANGED slots_
        BY <1>2, <1>11 DEF Make, SyncAt, CallType
    <2>2. Holders' = Holders \cup {c} /\ c \notin Holders /\ Parked' = Parked
        BY <2>1 DEF Holders, Parked
    <2>3. LooksAtSlot'
        BY <2>1 DEF SyncIInv, LooksAtSlot
    <2>4. HasContext'
        BY <2>1, <2>2 DEF SyncIInv, HasContext, Holders
    <2>5. NotYetMade'
        BY <2>1, <2>2 DEF SyncIInv, NotYetMade, Before, Holders, Parked
    <2>6. ContextExclusive'
        BY <2>1, <2>2 DEF SyncIInv, NotYetMade, ContextExclusive, Before, Holders, Parked
    <2>. QED
        BY <1>1, <2>3, <2>4, <2>5, <2>6 DEF SyncIInv
<1>12. CASE Park(c)
    <2>1. Slot(c) \in 1..Slots /\ sync[c].at = "park"
        BY <1>12 DEF Park, SyncIInv, LooksAtSlot, SyncAt, Slot
    <2>2. CASE slots_[Slot(c)] # none
        BY <1>4, <1>12, <2>1, <2>2 DEF Park, Before, Holding
    <2>3. CASE slots_[Slot(c)] = none
        <3>1. /\ \A d \in Calls \ {c} : sync'[d] = sync[d]
              /\ sync'[c].at = "done"
            BY <1>2, <1>12, <2>3 DEF Park, SyncGo, CallType
        <3>2. /\ \A i \in (1..Slots) \ {Slot(c)} : slots_'[i] = slots_[i]
              /\ slots_'[Slot(c)] = sync[c].ioc
            BY <1>2, <1>12, <2>1, <2>3 DEF Park
        <3>3. Holders' = Holders \ {c} /\ c \in Holders
            BY <2>1, <3>1 DEF Holders
        <3>4. sync[c].ioc \in Calls
            BY <3>3 DEF SyncIInv, HasContext
        <3>5. Parked' = Parked \cup {Slot(c)} /\ Slot(c) \notin Parked
            BY <1>3, <2>1, <2>3, <3>2, <3>4 DEF Parked
        <3>6. LooksAtSlot'
            BY <3>1 DEF SyncIInv, LooksAtSlot
        <3>7. HasContext'
            BY <3>1, <3>3 DEF SyncIInv, HasContext, Holders
        <3>8. NotYetMade'
            BY <3>1, <3>2, <3>3, <3>5, <2>1 DEF SyncIInv, NotYetMade, Before, Holders, Parked
        <3>9. ContextExclusive'
            BY <3>1, <3>2, <3>3, <3>5, <2>1 DEF SyncIInv, ContextExclusive, Holders, Parked
        <3>. QED
            BY <1>1, <3>6, <3>7, <3>8, <3>9 DEF SyncIInv
    <2>. QED
        BY <2>2, <2>3
<1>. QED
    BY <1>5, <1>6, <1>7, <1>8, <1>9, <1>10, <1>11, <1>12 DEF SyncStep

\* What follows needs no fairness.
SyncSafety == SyncInit /\ [][SyncNext]_syncVars

\* The inductive invariant, on its way to the one below: run_sync_request() and
\* sync_context_pool, for any number of calls and slots.
THEOREM SyncInvariance == SyncSafety => []SyncIInv
<1>1. ASSUME SyncIInv, UNCHANGED syncVars PROVE SyncIInv'
    BY <1>1 DEF syncVars, SyncIInv, SyncTypeOK, LooksAtSlot, HasContext, NotYetMade, ContextExclusive, Holders, Parked
<1>2. SyncIInv /\ [SyncNext]_syncVars => SyncIInv'
    BY <1>1, StepKeeps DEF SyncNext
<1>. QED
    BY SyncInitEstablishes, <1>2, PTL DEF SyncSafety

\* Two synchronous requests never run, or park, the same io_context: whoever takes
\* it from a slot is the only one to have it (sync_context_pool).
THEOREM OneUser == SyncSpec => []ContextExclusive
<1>1. SyncIInv => ContextExclusive
    BY DEF SyncIInv
<1>. QED
    BY SyncInvariance, <1>1, PTL DEF SyncSpec, SyncSafety

-----------------------------------------------------------------------------
(* A program.                                                              *)

\* A step of a program is a step of one kind of request, which leaves what belongs
\* to the other alone.
LEMMA OneKindMoves ==
    ASSUME [HttpNext]_<<program, vars, syncVars>>
    PROVE  [Next]_vars /\ [SyncNext]_syncVars
<1>1. CASE UNCHANGED <<program, vars, syncVars>>
    BY <1>1
<1>2. ASSUME NEW r \in program \cap Requests,
             AsyncCall(AsyncRequest(r)) \/ AsyncCall(RequestStep(r)) \/ AsyncCall(CallbackReturns(r))
      PROVE  Next /\ UNCHANGED syncVars
    BY <1>2 DEF AsyncCall, Next
<1>3. ASSUME NEW c \in program \cap Stoppers, AsyncCall(Shutdown(c)) \/ AsyncCall(StopStep(c))
      PROVE  Next /\ UNCHANGED syncVars
    BY <1>3 DEF AsyncCall, Next
<1>4. ASSUME NEW c \in program \cap Calls, SyncCall(Request(c)) \/ SyncCall(SyncStep(c))
      PROVE  SyncNext /\ UNCHANGED vars
    BY <1>4 DEF SyncCall, SyncNext
<1>. QED
    BY <1>1, <1>2, <1>3, <1>4 DEF HttpNext

\* Whatever calls a program makes, its callback-based requests and its shutdown()s
\* behave as the asynchronous service says, and with its fairness (http.cpp).
THEOREM ImplementsService == HttpSpec => Spec
<1>1. HttpInit => Init
    BY DEF HttpInit
<1>2. [HttpNext]_<<program, vars, syncVars>> => [Next]_vars
    BY OneKindMoves
<1>. QED
    BY <1>1, <1>2, PTL DEF HttpSpec, Spec

\* Whatever calls a program makes, its synchronous requests behave as their
\* specification says, but for its fairness (run_sync_request()).
THEOREM ImplementsSync == HttpSpec => SyncSafety
<1>1. HttpInit => SyncInit
    BY DEF HttpInit
<1>2. [HttpNext]_<<program, vars, syncVars>> => [SyncNext]_syncVars
    BY OneKindMoves
<1>. QED
    BY <1>1, <1>2, PTL DEF HttpSpec, SyncSafety

\* In any program: one call at a time creates or joins the threads of the service,
\* which keeps the promise of ThreadOwnership, an abandoned request calls nobody back,
\* and an io_context has one user.
THEOREM SafeProgram ==
    ASSUME Disjoint PROVE HttpSpec => [](OneOwner /\ AbandonedSilent /\ ContextExclusive) /\ Ownership!Spec
<1>1. SyncIInv => ContextExclusive
    BY DEF SyncIInv
<1>. QED
    BY ImplementsService, ImplementsSync, OneOwnerAlways, AbandonedNeverCalls, OwnershipKept, SyncInvariance,
       <1>1, PTL
=============================================================================
