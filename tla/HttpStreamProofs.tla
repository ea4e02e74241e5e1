-------------------------- MODULE HttpStreamProofs --------------------------
(***************************************************************************)
(* For every number of threads, loops and generations: one loop serves the *)
(* stream, the generations are reported once each and in order, and every  *)
(* end, cancel and callback is of the generation it was decided for.       *)
(***************************************************************************)
EXTENDS HttpStream, TLAPS

InSession == Awaits \cup OpenCallbacks \cup
    {"begin", "announce", "body", "event", "readError", "finish", "caught", "end", "onDisconnected"}
\* The newest generation taken up has its onDisconnected still to come.
Reporting == InSession \cup {"missed"}

\* Which generation a loop has taken up, at which of its steps.
LoopServes ==
    \A l \in Loops :
        /\ loop[l].at = "owed" => served_generation < loop[l].generation
        /\ loop[l].at = "missed" => served_generation \in 1..(loop[l].generation - 1)
        /\ loop[l].at \in InSession => loop[l].generation = served_generation /\ served_generation >= 1

\* What has been reported: every generation taken up, but for one that is being
\* served, and those an exception kept from it.
Reported(g) == g < served_generation \/ (g = served_generation /\ \A l \in Loops : loop[l].at \notin Reporting)
ReportedOnce ==
    /\ \A g \in Generations : disconnects[g] = IF Reported(g) /\ g \notin escaped THEN 1 ELSE 0
    /\ \A l \in Loops : loop[l].at \in Reporting => served_generation \notin escaped

IInv ==
    /\ TypeOK /\ OneLoop /\ LoopServes /\ ReportedOnce
    /\ EndedWhenReported /\ ConnectedHasSession

-----------------------------------------------------------------------------

\* What TypeOK says of one loop.
LEMMA LoopTyped ==
    ASSUME TypeOK, NEW l \in Loops
    PROVE  loop[l].at \in LoopSteps /\ loop[l].generation \in 0..generation /\ loop[l].wait \in Waits
    BY DEF TypeOK, Waits

\* The next step of a loop, and the wait it begins with.
LEMMA MovedTyped ==
    ASSUME TypeOK, NEW l \in Loops, NEW to \in LoopSteps
    PROVE  /\ Moved(l, to) \in [Loops -> [at : LoopSteps, generation : 0..generation, wait : Waits]]
           /\ \A m \in Loops :
                /\ Moved(l, to)[m].at = IF m = l THEN to ELSE loop[m].at
                /\ Moved(l, to)[m].generation = loop[m].generation
    BY DEF TypeOK, Moved, Waits, Waiting

LEMMA InitEstablishes == Init => IInv
<1>. SUFFICES ASSUME Init PROVE IInv
    OBVIOUS
<1>1. TypeOK
    <2>1. NoLoop \in [at : LoopSteps, generation : 0..generation, wait : Waits]
        BY DEF Init, NoLoop, any_generation, LoopSteps, Waits
    <2>2. posted \in Seq({"serve", "cancel"})
        BY DEF Init
    <2>3. generation \in 0..MaxOpens /\ served_generation \in 0..generation /\ session_io \in 0..generation
        BY MaxOpensAssumption DEF Init, any_generation
    <2>4. disconnects \in [Generations -> Nat]
        BY DEF Init
    <2>. QED
        BY <2>1, <2>2, <2>3, <2>4 DEF Init, TypeOK
<1>2. OneLoop
    BY DEF Init, OneLoop, At, NoLoop
<1>3. LoopServes
    BY DEF Init, LoopServes, NoLoop, InSession, Awaits, Setup, OpenCallbacks
<1>4. ReportedOnce
    BY DEF Init, ReportedOnce, Reported, NoLoop, Generations, Reporting, InSession, Awaits, Setup, OpenCallbacks
<1>5. EndedWhenReported
    BY DEF Init, EndedWhenReported, NoLoop
<1>6. ConnectedHasSession
    BY DEF Init, ConnectedHasSession
<1>. QED
    BY <1>1, <1>2, <1>3, <1>4, <1>5, <1>6 DEF IInv

-----------------------------------------------------------------------------
(* The threads that call open() and close().                               *)

\* A call leaves the loops alone; only close() takes CONNECTED away, and open()
\* goes on to a generation nobody serves.
LEMMA CallStep == ASSUME IInv, NEW c \in Callers, Open(c) \/ Close(c) \/ Post(c) PROVE IInv'
<1>1. UNCHANGED <<serving, served_generation, session_io, loop, disconnects, escaped>>
    BY DEF Open, Close, Post, strandVars
<1>2. TypeOK /\ OneLoop /\ LoopServes /\ ReportedOnce /\ EndedWhenReported /\ ConnectedHasSession
    BY DEF IInv
<1>3. \/ generation' = generation + 1 /\ generation < MaxOpens /\ status' = "CONNECTING"
      \/ generation' = generation /\ status' = "DISCONNECTED"
      \/ UNCHANGED <<generation, status>>
    BY DEF Open, Close, Post, stateVars
<1>4. TypeOK'
    <2>1. generation \in Nat /\ generation' \in 0..MaxOpens /\ generation <= generation'
        BY <1>2, <1>3, MaxOpensAssumption DEF TypeOK
    <2>2. status' \in {"CONNECTING", "CONNECTED", "DISCONNECTED"}
        BY <1>2, <1>3 DEF TypeOK
    <2>3. pc' \in [Callers -> {"idle", "serve", "cancel"}]
        BY <1>2 DEF TypeOK, Open, Close, Post
    <2>4. posted' \in Seq({"serve", "cancel"})
        <3>1. CASE Post(c)
            BY <1>2, <3>1 DEF TypeOK, Post
        <3>2. CASE Open(c) \/ Close(c)
            BY <1>2, <3>2 DEF TypeOK, Open, Close
        <3>. QED
            BY <3>1, <3>2
    <2>5. 0..generation \subseteq 0..generation'
        BY <2>1
    <2>6. loop' \in [Loops -> [at : LoopSteps, generation : 0..generation', wait : Waits]]
        BY <1>1, <1>2, <2>5 DEF TypeOK
    <2>7. served_generation' \in 0..generation' /\ session_io' \in 0..generation'
        BY <1>1, <1>2, <2>5 DEF TypeOK
    <2>8. after_close' \subseteq 0..generation'
        <3>1. {loop[l].generation : l \in {m \in Loops : Running(m)}} \subseteq 0..generation
            BY <1>2, LoopTyped
        <3>. QED
            BY <1>2, <2>5, <3>1 DEF TypeOK, Open, Close, Post
    <2>. QED
        BY <1>1, <1>2, <2>1, <2>2, <2>3, <2>4, <2>6, <2>7, <2>8 DEF TypeOK
<1>5. OneLoop' /\ LoopServes' /\ ReportedOnce'
    BY <1>1, <1>2 DEF OneLoop, At, LoopServes, ReportedOnce, Reported
<1>6. EndedWhenReported'
    <2>1. SUFFICES ASSUME NEW l \in Loops, loop[l].at \in {"missed", "onDisconnected"}
                   PROVE  ~is_current(Latest(l))'
        BY <1>1 DEF EndedWhenReported
    <2>2. ~is_current(Latest(l)) /\ Latest(l)' = Latest(l)
        BY <1>1, <1>2, <2>1 DEF EndedWhenReported, Latest, At
    <2>3. Latest(l) \in 0..generation /\ generation \in Nat
        BY <1>2, LoopTyped DEF Latest, TypeOK
    <2>. QED
        BY <1>3, <2>2, <2>3 DEF is_current
<1>7. ConnectedHasSession'
    BY <1>1, <1>2, <1>3 DEF ConnectedHasSession
<1>. QED
    BY <1>4, <1>5, <1>6, <1>7 DEF IInv

-----------------------------------------------------------------------------
(* A session: the steps of a loop from begin to onDisconnected.            *)

LEMMA SessionSteps == InSession \subseteq LoopSteps /\ PastAnnounce \subseteq InSession
    BY DEF InSession, LoopSteps, PastAnnounce, Awaits

\* A step within a session is of the newest generation taken up.  It may unregister
\* the I/O, and changes the status of no other generation than its own.
LEMMA SessionMoves ==
    ASSUME IInv, NEW l \in Loops, NEW to \in InSession, loop[l].at \in InSession, loop' = Moved(l, to),
           UNCHANGED <<generation, pc, posted, serving, served_generation, disconnects, escaped>>,
           after_close' \subseteq after_close,
           session_io' \in {session_io, any_generation, loop[l].generation},
           status' \in {"CONNECTING", "CONNECTED", "DISCONNECTED"},
           to = "onDisconnected" => ~is_current(loop[l].generation)',
           \/ UNCHANGED status /\ (loop[l].at \in PastAnnounce => to \in PastAnnounce)
           \/ UNCHANGED status /\ generation # loop[l].generation
           \/ status' = "CONNECTED" /\ generation = loop[l].generation /\ to \in PastAnnounce
           \/ status' # "CONNECTED"
    PROVE  IInv'
<1>1. TypeOK /\ OneLoop /\ LoopServes /\ ReportedOnce /\ EndedWhenReported /\ ConnectedHasSession
    BY DEF IInv
<1>2. /\ loop' \in [Loops -> [at : LoopSteps, generation : 0..generation, wait : Waits]]
      /\ \A m \in Loops : /\ loop'[m].at = IF m = l THEN to ELSE loop[m].at
                          /\ loop'[m].generation = loop[m].generation
    BY <1>1, MovedTyped, SessionSteps
<1>3. loop[l].at # "none" /\ to # "none"
    BY DEF InSession, Awaits, Setup, OpenCallbacks
<1>4. \A m \in Loops \ {l} : loop[m].at = "none"
    BY <1>1, <1>3 DEF OneLoop, At
<1>5. loop[l].generation = served_generation /\ served_generation >= 1
    BY <1>1 DEF LoopServes
<1>6. TypeOK'
    <2>1. session_io' \in 0..generation
        BY <1>1, LoopTyped DEF TypeOK, any_generation
    <2>. QED
        BY <1>1, <1>2, <2>1 DEF TypeOK, Waits
<1>7. OneLoop'
    BY <1>1, <1>2, <1>3 DEF OneLoop, At
<1>8. LoopServes'
    <2>1. to # "owed" /\ to # "missed"
        BY DEF InSession, Awaits, Setup, OpenCallbacks
    <2>. QED
        BY <1>1, <1>2, <1>5, <2>1 DEF LoopServes
<1>9. ReportedOnce'
    <2>1. loop[l].at \in Reporting /\ to \in Reporting
        BY DEF Reporting
    <2>. QED
        BY <1>1, <1>2, <2>1 DEF ReportedOnce, Reported
<1>10. EndedWhenReported'
    <2>1. to # "missed"
        BY DEF InSession, Awaits, Setup, OpenCallbacks
    <2>. QED
        BY <1>1, <1>2, <1>4, <2>1 DEF EndedWhenReported, Latest, At, is_current
<1>11. ConnectedHasSession'
    <2>1. SUFFICES ASSUME status' = "CONNECTED", generation \notin escaped
                   PROVE  loop[l].generation = generation /\ to \in PastAnnounce
        BY <1>2 DEF ConnectedHasSession
    <2>2. CASE UNCHANGED status
        <3>1. PICK m \in Loops : loop[m].generation = generation /\ loop[m].at \in PastAnnounce
            BY <1>1, <2>1, <2>2 DEF ConnectedHasSession
        <3>2. m = l
            BY <1>4, <3>1 DEF PastAnnounce, OpenCallbacks
        <3>. QED
            BY <2>1, <2>2, <3>1, <3>2
    <2>. QED
        BY <2>1, <2>2
<1>. QED
    BY <1>6, <1>7, <1>8, <1>9, <1>10, <1>11 DEF IInv

\* Every step of a loop between begin and onDisconnected.
LEMMA SessionStep ==
    ASSUME IInv, NEW l \in Loops,
           \/ Begin(l) \/ SetUp(l) \/ Announce(l) \/ Body(l) \/ ReadSome(l) \/ OnDataReturns(l)
           \/ Event(l) \/ ReadError(l) \/ CallbackReturns(l) \/ Finish(l) \/ Caught(l) \/ End(l)
           \/ Throw(l) /\ Go(l, "caught") /\ UNCHANGED <<serving, session_io, escaped>>
    PROVE  IInv'
<1>1. TypeOK
    BY DEF IInv
<1>2. status \in {"CONNECTING", "CONNECTED", "DISCONNECTED"}
    BY <1>1 DEF TypeOK
<1>3. ASSUME UNCHANGED <<stateVars, pc, posted, serving, served_generation, disconnects, escaped, after_close>>,
             session_io' \in {session_io, any_generation, loop[l].generation},
             loop[l].at \in InSession, NEW to \in InSession \ {"onDisconnected"}, Go(l, to),
             loop[l].at \in PastAnnounce => to \in PastAnnounce
      PROVE  IInv'
    BY <1>2, <1>3, SessionMoves DEF Go, stateVars
<1> USE DEF InSession, PastAnnounce, Awaits, Setup, OpenCallbacks
<1>4. CASE Begin(l)
    <2>1. PICK to \in {"resolve", "caught"} : Go(l, to)
        BY <1>4 DEF Begin
    <2>. QED
        BY <1>3, <1>4, <2>1 DEF Begin, At
<1>5. CASE SetUp(l)
    <2>1. PICK to \in {"connect", "handshake", "request", "header", "announce", "onHttpError", "caught"} : Go(l, to)
        BY <1>5 DEF SetUp, After
    <2>. QED
        BY <1>3, <1>5, <2>1 DEF SetUp, Unchanged, strandVars, stateVars
<1>6. CASE Announce(l)
    <2>1. \/ /\ generation = loop[l].generation /\ status' = "CONNECTED" /\ Go(l, "onConnected")
          \/ Go(l, "finish") /\ UNCHANGED status
        BY <1>6 DEF Announce
    <2>. QED
        BY <1>2, <1>6, <2>1, SessionMoves DEF Announce, Go, At, strandVars
<1>7. CASE Body(l)
    BY <1>3, <1>7 DEF Body, At, Unchanged, strandVars
<1>8. CASE ReadSome(l)
    <2>1. PICK to \in {"onData", "body", "readError", "finish"} : Go(l, to)
        BY <1>8 DEF ReadSome
    <2>. QED
        BY <1>3, <1>8, <2>1 DEF ReadSome, At, Unchanged, strandVars
<1>9. CASE OnDataReturns(l)
    BY <1>3, <1>9 DEF OnDataReturns, At, Unchanged, strandVars
<1>10. CASE Event(l)
    BY <1>3, <1>10 DEF Event, At, Unchanged, strandVars
<1>11. CASE ReadError(l)
    <2>1. PICK to \in {"onReadError", "finish"} : Go(l, to)
        BY <1>11 DEF ReadError
    <2>. QED
        BY <1>3, <1>11, <2>1 DEF ReadError, At, Unchanged, strandVars
<1>12. CASE CallbackReturns(l)
    BY <1>3, <1>12 DEF CallbackReturns, At
<1>13. CASE Finish(l)
    BY <1>3, <1>13 DEF Finish, At
<1>14. CASE Caught(l)
    <2>1. PICK to \in {"onError", "end"} : Go(l, to)
        BY <1>14 DEF Caught
    <2>. QED
        BY <1>3, <1>14, <2>1 DEF Caught, At
<1>15. CASE End(l)
    <2>1. ~is_current(loop[l].generation)'
        BY <1>1, <1>15, MovedTyped, SessionSteps DEF End, Go, is_current
    <2>2. loop[l].at \in InSession /\ loop' = Moved(l, "onDisconnected")
        BY <1>15 DEF End, Go, At
    <2>3. /\ UNCHANGED <<generation, pc, posted, serving, served_generation, session_io, disconnects, escaped>>
          /\ after_close' \subseteq after_close
        BY <1>15 DEF End, strandVars
    <2>4. status' \in {"CONNECTING", "CONNECTED", "DISCONNECTED"}
        BY <1>2, <1>15 DEF End
    <2>5. status' # "CONNECTED" \/ (UNCHANGED status /\ generation # loop[l].generation)
        BY <1>15 DEF End, is_current
    <2>. QED
        BY <2>1, <2>2, <2>3, <2>4, <2>5, SessionMoves
<1>16. CASE Throw(l) /\ Go(l, "caught") /\ UNCHANGED <<serving, session_io, escaped>>
    BY <1>3, <1>16 DEF Throw, Running
<1>. QED
    BY <1>4, <1>5, <1>6, <1>7, <1>8, <1>9, <1>10, <1>11, <1>12, <1>13, <1>14, <1>15, <1>16

-----------------------------------------------------------------------------
(* The other steps of a loop, and the strand's handlers.                   *)

\* What a wait does to a loop leaves it where it is.
LEMMA WaitStep ==
    ASSUME IInv, loop' \in [Loops -> [at : LoopSteps, generation : 0..generation, wait : Waits]],
           \A l \in Loops : loop'[l].at = loop[l].at /\ loop'[l].generation = loop[l].generation,
           posted' \in Seq({"serve", "cancel"}), after_close' \subseteq 0..generation,
           UNCHANGED <<generation, status, pc, serving, served_generation, session_io, disconnects, escaped>>
    PROVE  IInv'
<1>1. TypeOK /\ OneLoop /\ LoopServes /\ ReportedOnce /\ EndedWhenReported /\ ConnectedHasSession
    BY DEF IInv
<1>2. TypeOK'
    BY <1>1 DEF TypeOK, Waits
<1>3. OneLoop'
    BY <1>1 DEF OneLoop, At
<1>4. ReportedOnce' /\ LoopServes'
    BY <1>1 DEF ReportedOnce, Reported, LoopServes
<1>5. EndedWhenReported'
    BY <1>1 DEF EndedWhenReported, Latest, At, is_current
<1>6. ConnectedHasSession'
    BY <1>1 DEF ConnectedHasSession
<1>. QED
    BY <1>2, <1>3, <1>4, <1>5, <1>6 DEF IInv

LEMMA WaitSteps ==
    ASSUME IInv, NEW l \in Loops, Ready(l) \/ Continue(l) \/ CallbackBegins(l)
    PROVE  IInv'
<1>1. PICK w \in {"ready", "again", "called"} : loop' = [loop EXCEPT ![l].wait = w]
    BY DEF Ready, Continue, CallbackBegins
<1>2. UNCHANGED <<generation, status, pc, posted, serving, served_generation, session_io, disconnects, escaped>>
    BY DEF Ready, Continue, CallbackBegins, Unchanged, stateVars, strandVars
<1>3. TypeOK
    BY DEF IInv
<1>4. loop' \in [Loops -> [at : LoopSteps, generation : 0..generation, wait : Waits]]
    BY <1>1, <1>3 DEF TypeOK, Waits, Waiting, Completed
<1>5. \A m \in Loops : loop'[m].at = loop[m].at /\ loop'[m].generation = loop[m].generation
    BY <1>1, <1>3 DEF TypeOK
<1>6. posted' \in Seq({"serve", "cancel"})
    BY <1>2, <1>3 DEF TypeOK
<1>7. after_close' \subseteq 0..generation
    BY <1>3, LoopTyped DEF Ready, Continue, CallbackBegins, Unchanged, TypeOK
<1>. QED
    BY <1>2, <1>4, <1>5, <1>6, <1>7, WaitStep

\* A posted handler, or what it leaves of the queue.
LEMMA HandlerTaken ==
    ASSUME TypeOK, NEW h, NextHandler(h)
    PROVE  posted' \in Seq({"serve", "cancel"})
    BY DEF TypeOK, NextHandler

LEMMA CancelStep == ASSUME IInv, RunCancel PROVE IInv'
<1>1. TypeOK
    BY DEF IInv
<1>2. UNCHANGED <<generation, status, pc, serving, served_generation, session_io, disconnects, escaped, after_close>>
    BY DEF RunCancel, stateVars, strandVars
<1>3. posted' \in Seq({"serve", "cancel"})
    BY <1>1, HandlerTaken DEF RunCancel
<1>4. CASE Cancel(session_io)
    <2>1. loop' \in [Loops -> [at : LoopSteps, generation : 0..generation, wait : Waits]]
        BY <1>1, <1>4 DEF Cancel, TypeOK, Waits, Completed
    <2>2. \A l \in Loops : loop'[l].at = loop[l].at /\ loop'[l].generation = loop[l].generation
        BY <1>1, <1>4 DEF Cancel, TypeOK
    <2>. QED
        BY <1>1, <1>2, <1>3, <2>1, <2>2, WaitStep DEF TypeOK
<1>5. CASE UNCHANGED loop
    BY <1>1, <1>2, <1>3, <1>5, WaitStep DEF TypeOK, Waits
<1>. QED
    BY <1>4, <1>5 DEF RunCancel

\* A loop is started while none runs.
LEMMA ServeHandlerStep == ASSUME IInv, RunServe PROVE IInv'
<1>1. TypeOK /\ OneLoop /\ LoopServes /\ ReportedOnce /\ EndedWhenReported /\ ConnectedHasSession
    BY DEF IInv
<1>2. UNCHANGED <<generation, status, pc, served_generation, session_io, disconnects, escaped, after_close>>
    BY DEF RunServe, stateVars
<1>3. posted' \in Seq({"serve", "cancel"})
    BY <1>1, HandlerTaken DEF RunServe
<1>4. CASE UNCHANGED <<serving, loop>>
    BY <1>1, <1>2, <1>3, <1>4, WaitStep DEF TypeOK, Waits
<1>5. CASE ~serving /\ Spawn
    <2>1. PICK l \in Loops : loop' = [loop EXCEPT ![l].at = "spawned"]
        BY <1>5 DEF Spawn
    <2>2. serving' = TRUE /\ \A m \in Loops : loop[m].at = "none"
        BY <1>1, <1>5 DEF Spawn, OneLoop, At
    <2>3. loop' \in [Loops -> [at : LoopSteps, generation : 0..generation, wait : Waits]]
        BY <1>1, <2>1 DEF TypeOK, LoopSteps, Waits
    <2>4. \A m \in Loops : loop'[m].at = IF m = l THEN "spawned" ELSE "none"
        BY <1>1, <2>1, <2>2 DEF TypeOK
    <2>5. TypeOK'
        BY <1>1, <1>2, <1>3, <2>2, <2>3 DEF TypeOK, Waits
    <2>6. OneLoop'
        BY <2>2, <2>4 DEF OneLoop, At
    <2>7. "spawned" \notin Reporting \cup PastAnnounce \cup {"owed", "missed"} /\ "none" \notin Reporting \cup PastAnnounce
        BY DEF Reporting, PastAnnounce, InSession, Awaits, Setup, OpenCallbacks
    <2>8. LoopServes' /\ ReportedOnce'
        BY <1>1, <1>2, <2>2, <2>4, <2>7 DEF LoopServes, ReportedOnce, Reported, Reporting
    <2>9. EndedWhenReported' /\ ConnectedHasSession'
        BY <1>1, <1>2, <2>2, <2>4, <2>7 DEF EndedWhenReported, ConnectedHasSession
    <2>. QED
        BY <2>5, <2>6, <2>8, <2>9 DEF IInv
<1>. QED
    BY <1>4, <1>5 DEF RunServe

\* The loop ends, or takes up the newest generation.
LEMMA ServeStep == ASSUME IInv, NEW l \in Loops, Serve(l) PROVE IInv'
<1>1. TypeOK /\ OneLoop /\ LoopServes /\ ReportedOnce /\ EndedWhenReported /\ ConnectedHasSession
    BY DEF IInv
<1>2. UNCHANGED <<generation, status, pc, posted, served_generation, session_io, disconnects, escaped, after_close>>
    BY DEF Serve, stateVars
<1>3. loop[l].at \in {"loop", "spawned"}
    BY DEF Serve, At
<1>4. serving /\ \A m \in Loops \ {l} : loop[m].at = "none"
    BY <1>1, <1>3 DEF OneLoop, At
<1> DEFINE Idle == {"none", "loop", "spawned", "owed"}
<1>5. Idle \cap (Reporting \cup PastAnnounce \cup {"missed"}) = {}
    BY DEF Reporting, PastAnnounce, InSession, Awaits, Setup, OpenCallbacks
<1>6. \A m \in Loops : loop[m].at \in Idle
    BY <1>3, <1>4
<1>7. /\ TypeOK' /\ OneLoop'
      /\ \A m \in Loops : loop'[m].at \in Idle
      /\ \A m \in Loops : loop'[m].at = "owed" => served_generation < loop'[m].generation
    <2>1. CASE serving' = FALSE /\ loop' = [loop EXCEPT ![l] = NoLoop]
        <3>1. NoLoop \in [at : LoopSteps, generation : 0..generation, wait : Waits]
            BY <1>1 DEF TypeOK, NoLoop, any_generation, LoopSteps, Waits
        <3>2. TypeOK'
            BY <1>1, <1>2, <2>1, <3>1 DEF TypeOK
        <3>3. \A m \in Loops : loop'[m].at = "none"
            BY <1>1, <1>4, <2>1 DEF TypeOK, NoLoop
        <3>. QED
            BY <2>1, <3>2, <3>3 DEF OneLoop, At
    <2>2. CASE /\ generation # served_generation /\ UNCHANGED serving
               /\ loop' = [loop EXCEPT ![l].at = "owed", ![l].generation = generation]
        <3>1. loop' \in [Loops -> [at : LoopSteps, generation : 0..generation, wait : Waits]]
            <4>1. generation \in 0..generation /\ "owed" \in LoopSteps
                BY <1>1, MaxOpensAssumption DEF TypeOK, LoopSteps
            <4>. QED
                BY <1>1, <2>2, <4>1 DEF TypeOK, Waits
        <3>2. TypeOK'
            BY <1>1, <1>2, <2>2, <3>1 DEF TypeOK, Waits
        <3>3. loop'[l].at = "owed" /\ loop'[l].generation = generation /\ served_generation < generation
            BY <1>1, <2>2 DEF TypeOK
        <3>4. \A m \in Loops \ {l} : loop'[m].at = "none"
            BY <1>1, <1>4, <2>2 DEF TypeOK
        <3>5. OneLoop'
            BY <1>4, <2>2, <3>3, <3>4 DEF OneLoop, At
        <3>. QED
            BY <3>2, <3>3, <3>4, <3>5
    <2>. QED
        BY <2>1, <2>2 DEF Serve
<1>8. LoopServes' /\ EndedWhenReported' /\ ConnectedHasSession'
    <2>1. LoopServes'
        BY <1>2, <1>5, <1>7 DEF LoopServes, Reporting
    <2>2. EndedWhenReported'
        BY <1>5, <1>7 DEF EndedWhenReported, Reporting, InSession
    <2>3. ConnectedHasSession'
        BY <1>1, <1>2, <1>5, <1>6 DEF ConnectedHasSession
    <2>. QED
        BY <2>1, <2>2, <2>3
<1>9. ReportedOnce'
    <2>1. \A m \in Loops : loop[m].at \notin Reporting /\ loop'[m].at \notin Reporting
        BY <1>5, <1>6, <1>7
    <2>. QED
        BY <1>1, <1>2, <2>1 DEF ReportedOnce, Reported
<1>. QED
    BY <1>7, <1>8, <1>9 DEF IInv

\* The next of the generations owed: passed over, or the one to serve.
LEMMA OweStep == ASSUME IInv, NEW l \in Loops, Owe(l) PROVE IInv'
<1>1. TypeOK /\ OneLoop /\ LoopServes /\ ReportedOnce /\ EndedWhenReported /\ ConnectedHasSession
    BY DEF IInv
<1>2. UNCHANGED <<generation, status, pc, posted, serving, session_io, disconnects, escaped, after_close>>
    BY DEF Owe, stateVars
<1>3. loop[l].at = "owed" /\ served_generation' = served_generation + 1
    BY DEF Owe, At
<1>4. /\ served_generation < loop[l].generation /\ loop[l].generation <= generation
      /\ served_generation \in Nat /\ generation \in Nat
    BY <1>1, <1>3, LoopTyped DEF LoopServes, TypeOK
<1>5. PICK to \in {"missed", "begin"} :
        /\ Go(l, to)
        /\ to = "missed" => served_generation' # loop[l].generation
        /\ to = "begin" => served_generation' = loop[l].generation
    BY DEF Owe
<1>6. /\ loop' \in [Loops -> [at : LoopSteps, generation : 0..generation, wait : Waits]]
      /\ \A m \in Loops : /\ loop'[m].at = IF m = l THEN to ELSE loop[m].at
                          /\ loop'[m].generation = loop[m].generation
    BY <1>1, <1>5, MovedTyped DEF LoopSteps, Go
<1>7. \A m \in Loops \ {l} : loop[m].at = "none"
    BY <1>1, <1>3 DEF OneLoop, At
<1>8. /\ "owed" \notin Reporting \cup PastAnnounce /\ "none" \notin Reporting \cup PastAnnounce
      /\ to \in Reporting /\ "missed" \notin InSession
    BY DEF Reporting, PastAnnounce, InSession, Awaits, Setup, OpenCallbacks
<1>9. TypeOK'
    BY <1>1, <1>2, <1>3, <1>4, <1>6 DEF TypeOK, Waits
<1>10. OneLoop'
    BY <1>1, <1>2, <1>3, <1>6 DEF OneLoop, At
<1>11. LoopServes'
    BY <1>3, <1>4, <1>5, <1>6, <1>7, <1>8 DEF LoopServes, Reporting
<1>12. ReportedOnce'
    <2>1. served_generation' \notin escaped
        BY <1>1, <1>3, <1>4 DEF TypeOK
    <2>2. \A g \in Generations : Reported(g) <=> g <= served_generation
        BY <1>3, <1>4, <1>7, <1>8 DEF Reported, Generations
    <2>3. \A g \in Generations : Reported(g)' <=> g <= served_generation
        BY <1>3, <1>4, <1>6, <1>8 DEF Reported, Generations
    <2>. QED
        BY <1>1, <1>2, <2>1, <2>2, <2>3 DEF ReportedOnce
<1>13. EndedWhenReported'
    <2>1. \A m \in Loops : loop'[m].at \in {"missed", "onDisconnected"} => m = l /\ to = "missed"
        BY <1>5, <1>6, <1>7
    <2>2. loop'[l].at = "missed" => Latest(l)' = served_generation' /\ served_generation' < generation'
        BY <1>2, <1>3, <1>4, <1>5, <1>6 DEF Latest, At
    <2>. QED
        BY <1>2, <1>6, <2>1, <2>2, <1>4, <1>3 DEF EndedWhenReported, is_current
<1>14. ConnectedHasSession'
    BY <1>1, <1>2, <1>3, <1>7, <1>8 DEF ConnectedHasSession
<1>. QED
    BY <1>9, <1>10, <1>11, <1>12, <1>13, <1>14 DEF IInv

\* onDisconnected returns, of a generation that was passed over or of the one
\* served.
LEMMA ReportedStep ==
    ASSUME IInv, NEW l \in Loops, MissedReturns(l) \/ OnDisconnectedReturns(l)
    PROVE  IInv'
<1>1. TypeOK /\ OneLoop /\ LoopServes /\ ReportedOnce /\ EndedWhenReported /\ ConnectedHasSession
    BY DEF IInv
<1>2. UNCHANGED <<generation, status, pc, posted, serving, served_generation, session_io, escaped, after_close>>
    BY DEF MissedReturns, OnDisconnectedReturns, stateVars, strandVars
<1>3. /\ loop[l].at \in Reporting /\ loop[l].at \notin PastAnnounce
      /\ {"owed", "loop", "none"} \cap (Reporting \cup PastAnnounce \cup {"missed"}) = {}
      /\ "missed" \notin InSession /\ "onDisconnected" \in InSession
    BY DEF MissedReturns, OnDisconnectedReturns, At, Reporting, PastAnnounce, InSession, Awaits, Setup, OpenCallbacks
<1>4. served_generation \in 1..MaxOpens /\ served_generation \notin escaped
    <2>1. served_generation \in Nat /\ served_generation <= MaxOpens
        BY <1>1, MaxOpensAssumption DEF TypeOK
    <2>2. served_generation >= 1
        BY <1>1, <1>3 DEF LoopServes, Reporting
    <2>. QED
        BY <1>1, <1>3, <2>1, <2>2, MaxOpensAssumption DEF ReportedOnce
<1>5. disconnects' = [disconnects EXCEPT ![served_generation] = @ + 1]
    BY <1>1, <1>3 DEF MissedReturns, OnDisconnectedReturns, At, LoopServes
<1>6. PICK to \in {"owed", "loop"} :
        /\ Go(l, to)
        /\ to = "owed" => loop[l].at = "missed"
    BY DEF MissedReturns, OnDisconnectedReturns, At
<1>7. /\ loop' \in [Loops -> [at : LoopSteps, generation : 0..generation, wait : Waits]]
      /\ \A m \in Loops : /\ loop'[m].at = IF m = l THEN to ELSE loop[m].at
                          /\ loop'[m].generation = loop[m].generation
    BY <1>1, <1>6, MovedTyped DEF LoopSteps, Go
<1>8. loop[l].at # "none" /\ \A m \in Loops \ {l} : loop[m].at = "none"
    BY <1>1, <1>3 DEF OneLoop, At
<1>9. TypeOK'
    <2>1. disconnects' \in [Generations -> Nat]
        BY <1>1, <1>4, <1>5 DEF TypeOK, Generations
    <2>. QED
        BY <1>1, <1>2, <1>7, <2>1 DEF TypeOK, Waits
<1>10. OneLoop'
    BY <1>1, <1>2, <1>6, <1>7, <1>8 DEF OneLoop, At
<1>11. LoopServes'
    <2>1. to = "owed" => served_generation < loop[l].generation
        BY <1>1, <1>4, <1>6, LoopTyped DEF LoopServes, TypeOK
    <2>. QED
        BY <1>2, <1>3, <1>7, <1>8, <2>1 DEF LoopServes, Reporting
<1>12. ReportedOnce'
    <2>1. \A m \in Loops : loop'[m].at \notin Reporting
        BY <1>3, <1>7, <1>8
    <2>2. ASSUME NEW g \in Generations
          PROVE  disconnects'[g] = IF Reported(g)' /\ g \notin escaped THEN 1 ELSE 0
        <3>1. disconnects[g] = IF Reported(g) /\ g \notin escaped THEN 1 ELSE 0
            BY <1>1 DEF ReportedOnce
        <3>2. Reported(g)' <=> g <= served_generation
            BY <1>2, <1>4, <2>1 DEF Reported, Generations
        <3>3. Reported(g) <=> g < served_generation
            BY <1>3 DEF Reported
        <3>4. disconnects'[g] = IF g = served_generation THEN disconnects[g] + 1 ELSE disconnects[g]
            BY <1>1, <1>5 DEF TypeOK
        <3>. QED
            BY <1>4, <3>1, <3>2, <3>3, <3>4 DEF Generations
    <2>. QED
        BY <1>2, <2>1, <2>2 DEF ReportedOnce
<1>13. EndedWhenReported'
    <2>1. \A m \in Loops : loop'[m].at \in {"owed", "loop", "none"}
        BY <1>7, <1>8
    <2>. QED
        BY <2>1 DEF EndedWhenReported
<1>14. ConnectedHasSession'
    BY <1>1, <1>2, <1>3, <1>8 DEF ConnectedHasSession
<1>. QED
    BY <1>9, <1>10, <1>11, <1>12, <1>13, <1>14 DEF IInv

\* What is no std::exception takes the loop with it, and its generation goes
\* unreported.
LEMMA EscapeStep ==
    ASSUME IInv, NEW l \in Loops, loop[l].at \in OpenCallbacks,
           loop' = [loop EXCEPT ![l] = NoLoop], serving' = FALSE, session_io' = any_generation,
           escaped' = escaped \cup {loop[l].generation},
           UNCHANGED <<generation, status, pc, posted, served_generation, disconnects, after_close>>
    PROVE  IInv'
<1>1. TypeOK /\ OneLoop /\ LoopServes /\ ReportedOnce /\ EndedWhenReported /\ ConnectedHasSession
    BY DEF IInv
<1>2. loop[l].at \in InSession /\ loop[l].at \in Reporting /\ loop[l].at # "none"
    BY DEF Reporting, InSession, OpenCallbacks
<1>3. loop[l].generation = served_generation /\ served_generation >= 1 /\ served_generation \in Nat
    BY <1>1, <1>2 DEF LoopServes, TypeOK
<1>4. \A m \in Loops \ {l} : loop[m].at = "none"
    BY <1>1, <1>2 DEF OneLoop, At
<1>5. \A m \in Loops : loop'[m].at = "none"
    BY <1>1, <1>4 DEF TypeOK, NoLoop
<1>6. "none" \notin Reporting \cup PastAnnounce \cup {"owed", "missed", "onDisconnected"}
    BY DEF Reporting, InSession, PastAnnounce, Awaits, Setup, OpenCallbacks
<1>7. TypeOK'
    <2>1. NoLoop \in [at : LoopSteps, generation : 0..generation, wait : Waits]
        BY <1>1 DEF TypeOK, NoLoop, any_generation, LoopSteps, Waits
    <2>2. escaped' \subseteq 1..served_generation
        BY <1>1, <1>3 DEF TypeOK
    <2>3. session_io' \in 0..generation
        BY <1>1 DEF TypeOK, any_generation
    <2>. QED
        BY <1>1, <2>1, <2>2, <2>3 DEF TypeOK
<1>8. OneLoop' /\ LoopServes' /\ EndedWhenReported'
    <2>1. OneLoop'
        BY <1>5 DEF OneLoop, At
    <2>2. LoopServes' /\ EndedWhenReported'
        BY <1>5, <1>6 DEF LoopServes, EndedWhenReported, Reporting
    <2>. QED
        BY <2>1, <2>2
<1>9. ReportedOnce'
    BY <1>1, <1>2, <1>3, <1>5, <1>6 DEF ReportedOnce, Reported, Generations
<1>10. ConnectedHasSession'
    <2>1. SUFFICES ASSUME status = "CONNECTED", generation \notin escaped PROVE generation = loop[l].generation
        BY DEF ConnectedHasSession
    <2>. QED
        BY <1>1, <1>4, <1>6, <2>1 DEF ConnectedHasSession
<1>. QED
    BY <1>7, <1>8, <1>9, <1>10 DEF IInv

-----------------------------------------------------------------------------
(* The theorems are about every behaviour whose steps are the stream's: Spec *)
(* has no others, and neither has a stream on the shared service.            *)

Safety == Init /\ [][Next]_vars

LEMMA NextStep == IInv /\ [Next]_vars => IInv'
<1>. SUFFICES ASSUME IInv, [Next]_vars PROVE IInv'
    OBVIOUS
<1>1. CASE \E c \in Callers : Open(c) \/ Close(c) \/ Post(c)
    BY <1>1, CallStep
<1>2. CASE RunServe \/ RunCancel
    BY <1>2, ServeHandlerStep, CancelStep
<1>3. ASSUME NEW l \in Loops, LoopStep(l) PROVE IInv'
    <2>1. CASE Serve(l)
        BY <2>1, ServeStep
    <2>2. CASE Owe(l)
        BY <2>2, OweStep
    <2>3. CASE MissedReturns(l) \/ OnDisconnectedReturns(l)
        BY <2>3, ReportedStep
    <2>4. CASE CallbackBegins(l)
        BY <2>4, WaitSteps
    <2>. QED
        BY <1>3, <2>1, <2>2, <2>3, <2>4, SessionStep DEF LoopStep
<1>4. ASSUME NEW l \in Loops, Throw(l) PROVE IInv'
    <2>1. CASE Go(l, "caught") /\ UNCHANGED <<serving, session_io, escaped>>
        BY <1>4, <2>1, SessionStep
    <2>2. CASE /\ loop' = [loop EXCEPT ![l] = NoLoop] /\ serving' = FALSE /\ session_io' = any_generation
               /\ escaped' = escaped \cup {loop[l].generation}
        BY <1>4, <2>2, EscapeStep DEF Throw, Running, stateVars
    <2>. QED
        BY <1>4, <2>1, <2>2 DEF Throw
<1>5. ASSUME NEW l \in Loops, Ready(l) \/ Continue(l) PROVE IInv'
    BY <1>5, WaitSteps
<1>6. CASE UNCHANGED vars
    BY <1>6, WaitStep DEF vars, stateVars, strandVars, IInv, TypeOK, Waits
<1>. QED
    BY <1>1, <1>2, <1>3, <1>4, <1>5, <1>6 DEF Next

\* The strengthening is an invariant of a stream, whatever its executor does.
THEOREM Invariance == Safety => []IInv
    BY InitEstablishes, NextStep, PTL DEF Safety

\* Spec is one such behaviour.
THEOREM StreamSafe == Spec => Safety
    BY PTL DEF Spec, Safety

\* Every variable keeps its range; served_generation_ never runs ahead of the
\* generation.
THEOREM TypeCorrect == Safety => []TypeOK
    BY Invariance, PTL DEF IInv

\* One serve_sessions() loop at a time serves the stream, and serving_ says so.
THEOREM SingleLoop == Safety => []OneLoop
    BY Invariance, PTL DEF IInv

\* When a callback of a generation runs, every earlier one has had its one
\* onDisconnected, and none later.
THEOREM InOrder == Safety => []SessionsInOrder
<1>1. IInv => SessionsInOrder
    <2>1. SUFFICES ASSUME IInv, NEW l \in Loops,
                          loop[l].at \in OpenCallbacks \cup {"missed", "onDisconnected"},
                          NEW g \in Generations
                   PROVE  disconnects[g] = IF g < Latest(l) /\ g \notin escaped THEN 1 ELSE 0
        BY DEF SessionsInOrder
    <2>2. loop[l].at \in Reporting
        BY <2>1 DEF Reporting, InSession
    <2>3. Latest(l) = served_generation
        BY <2>1, <2>2 DEF IInv, LoopServes, Latest, At, Reporting
    <2>. QED
        BY <2>1, <2>2, <2>3 DEF IInv, ReportedOnce, Reported
<1>. QED
    BY <1>1, Invariance, PTL

\* onDisconnected finds its generation ended, so that an open() from it
\* reconnects.
THEOREM EndedBeforeReported == Safety => []EndedWhenReported
    BY Invariance, PTL DEF IInv

\* CONNECTED has a session of that very generation, or one an exception tore down.
THEOREM ConnectedIsServed == Safety => []ConnectedHasSession
    BY Invariance, PTL DEF IInv

-----------------------------------------------------------------------------
(* What a step may never do.                                               *)

\* Only open(), close(), a session that announces itself and one that ends change
\* the generation or the status.
LEMMA StateMoves ==
    ASSUME [Next]_vars, ~UNCHANGED stateVars
    PROVE  \/ \E c \in Callers : Open(c) \/ Close(c)
           \/ \E l \in Loops : Announce(l) \/ End(l)
    BY DEF Next, LoopStep, vars, Post, RunServe, RunCancel, Serve, Owe, MissedReturns, Unchanged, Begin, Ready,
           Continue, SetUp, Body, ReadSome, CallbackBegins, OnDataReturns, Event, ReadError, CallbackReturns, Throw, Finish,
           Caught, OnDisconnectedReturns

\* A session never ends a later generation than its own, which a thread may have
\* opened since.
THEOREM OwnGenerationEnded == Safety => EndsOwnGeneration
<1>1. ASSUME TypeOK, [Next]_vars, NEW g \in Generations, is_current(g), ~is_current(g)'
      PROVE  \/ \E c \in Callers : pc[c] = "idle" /\ pc'[c] = "cancel"
             \/ \E l \in Loops : loop[l].at = "end" /\ loop[l].generation = g
    <2>1. ~UNCHANGED stateVars
        BY <1>1 DEF stateVars, is_current
    <2>2. ASSUME NEW c \in Callers, Open(c) PROVE FALSE
        BY <1>1, <2>2 DEF Open, is_current
    <2>3. ASSUME NEW c \in Callers, Close(c) PROVE pc[c] = "idle" /\ pc'[c] = "cancel"
        BY <1>1, <2>3 DEF Close, TypeOK
    <2>4. ASSUME NEW l \in Loops, Announce(l) PROVE FALSE
        BY <1>1, <2>4 DEF Announce, is_current
    <2>5. ASSUME NEW l \in Loops, End(l) PROVE loop[l].at = "end" /\ loop[l].generation = g
        BY <1>1, <2>5 DEF End, At, is_current
    <2>. QED
        BY <1>1, <2>1, <2>2, <2>3, <2>4, <2>5, StateMoves
<1>2. TypeOK /\ [Next]_vars =>
        [\A g \in Generations : is_current(g) /\ ~is_current(g)' =>
            \/ \E c \in Callers : pc[c] = "idle" /\ pc'[c] = "cancel"
            \/ \E l \in Loops : loop[l].at = "end" /\ loop[l].generation = g]_vars
    BY <1>1
<1>. QED
    BY <1>2, TypeCorrect, PTL DEF Safety, EndsOwnGeneration

\* A step of a loop opens no generation.
LEMMA LoopOpensNone ==
    ASSUME NEW l \in Loops, LoopStep(l) \/ Throw(l), NEW g, is_current(g)'
    PROVE  is_current(g)
<1>1. CASE Announce(l)
    BY <1>1 DEF Announce, is_current
<1>2. CASE End(l)
    BY <1>2 DEF End, is_current
<1>3. CASE UNCHANGED stateVars
    BY <1>3 DEF stateVars, is_current
<1>. QED
    BY <1>1, <1>2, <1>3 DEF LoopStep, Serve, Owe, MissedReturns, Unchanged, Begin, SetUp, Body, ReadSome,
       CallbackBegins, OnDataReturns, Event, ReadError, CallbackReturns, Throw, Finish, Caught,
       OnDisconnectedReturns, stateVars

\* The steps of a loop that take it elsewhere, of which only one that finds the
\* generation open decides a callback, and the begin of a callback.
LEMMA LoopMoves ==
    ASSUME NEW l \in Loops, LoopStep(l) \/ Throw(l)
    PROVE  \/ /\ after_close' \subseteq after_close
              /\ \/ \E to \in LoopSteps :
                        Go(l, to) /\ (to \in OpenCallbacks => is_current(loop[l].generation))
                 \/ loop' = [loop EXCEPT ![l] = NoLoop]
                 \/ loop' = [loop EXCEPT ![l].at = "owed", ![l].generation = generation]
           \/ CallbackBegins(l)
<1>. USE DEF LoopSteps, Awaits, Setup, OpenCallbacks
<1>1. CASE Serve(l)
    BY <1>1 DEF Serve
<1>2. CASE Owe(l) \/ MissedReturns(l) \/ OnDisconnectedReturns(l)
    BY <1>2 DEF Owe, MissedReturns, OnDisconnectedReturns
<1>3. CASE Begin(l) \/ Body(l) \/ OnDataReturns(l) \/ CallbackReturns(l) \/ Finish(l) \/ End(l)
    BY <1>3 DEF Begin, Body, OnDataReturns, CallbackReturns, Finish, End, Unchanged
<1>4. CASE SetUp(l)
    <2>1. \A s \in Setup : After[s] \subseteq LoopSteps
        BY DEF After
    <2>. QED
        BY <1>4, <2>1 DEF SetUp, Unchanged
<1>5. CASE Announce(l)
    BY <1>5 DEF Announce, is_current
<1>6. CASE ReadSome(l) \/ Event(l) \/ ReadError(l) \/ Caught(l)
    BY <1>6 DEF ReadSome, Event, ReadError, Caught, Unchanged
<1>7. CASE Throw(l)
    BY <1>7 DEF Throw
<1>. QED
    BY <1>1, <1>2, <1>3, <1>4, <1>5, <1>6, <1>7 DEF LoopStep

\* Where a step takes a loop other than by a step of its own.
LEMMA OthersMove ==
    ASSUME TypeOK, [Next]_vars, NEW l \in Loops, \A m \in Loops : ~LoopStep(m) /\ ~Throw(m)
    PROVE  \/ loop'[l] = loop[l]
           \/ loop'[l].at = "spawned"
           \/ /\ loop[l].wait \in Waiting \cup {"ready"} /\ loop'[l].wait # "called"
              /\ loop'[l].at = loop[l].at /\ loop'[l].generation = loop[l].generation
<1>1. CASE \E c \in Callers : Open(c) \/ Close(c) \/ Post(c)
    BY <1>1 DEF Open, Close, Post
<1>2. CASE RunServe
    <2>1. UNCHANGED loop \/ \E m \in Loops : loop' = [loop EXCEPT ![m].at = "spawned"]
        BY <1>2 DEF RunServe, Spawn
    <2>. QED
        BY <2>1 DEF TypeOK
<1>3. CASE RunCancel
    <2>1. Cancel(session_io) \/ UNCHANGED loop
        BY <1>3 DEF RunCancel
    <2>. QED
        BY <2>1 DEF Cancel, TypeOK
<1>4. ASSUME NEW m \in Loops, Ready(m) \/ Continue(m)
      PROVE  \/ loop'[l] = loop[l]
             \/ /\ loop[l].wait \in Waiting \cup {"ready"} /\ loop'[l].wait # "called"
                /\ loop'[l].at = loop[l].at /\ loop'[l].generation = loop[l].generation
    <2>1. PICK w \in {"ready", "again"} : loop' = [loop EXCEPT ![m].wait = w]
        BY <1>4 DEF Ready, Continue
    <2>2. loop[m].wait \in Waiting \cup {"ready"}
        BY <1>4 DEF Ready, Continue
    <2>. QED
        BY <2>1, <2>2 DEF TypeOK
<1>5. CASE UNCHANGED vars
    BY <1>5 DEF vars
<1>. QED
    BY <1>1, <1>2, <1>3, <1>4, <1>5 DEF Next

\* No callback is still to begin of a session that has had one run since its close().
NoneComes ==
    \A g \in after_close :
        /\ ~is_current(g)
        /\ \A l \in Loops : loop[l].generation = g /\ loop[l].at \in OpenCallbacks => Running(l)

\* The steps of a loop.
LEMMA LoopKeepsNoneComes ==
    ASSUME IInv, NoneComes, NEW m \in Loops, LoopStep(m) \/ Throw(m)
    PROVE  NoneComes'
<1>1. TypeOK /\ OneLoop
    BY DEF IInv
<1>2. \A g : is_current(g)' => is_current(g)
    BY LoopOpensNone
<1>3. {"none", "owed"} \cap OpenCallbacks = {}
    BY DEF OpenCallbacks
<1>4. CASE CallbackBegins(m)
    <2>1. /\ loop'[m].at = loop[m].at /\ loop'[m].generation = loop[m].generation /\ loop'[m].wait = "called"
          /\ \A l \in Loops \ {m} : loop'[l] = loop[l]
        BY <1>1, <1>4 DEF CallbackBegins, TypeOK
    <2>2. loop[m].at \in OpenCallbacks /\ \A l \in Loops \ {m} : loop[l].at \notin OpenCallbacks
        BY <1>1, <1>3, <1>4 DEF CallbackBegins, OneLoop, At
    <2>3. \A g \in after_close' : g \in after_close \/ (g = loop[m].generation /\ ~is_current(g))
        BY <1>4 DEF CallbackBegins
    <2>. QED
        BY <1>2, <2>1, <2>2, <2>3 DEF NoneComes, Running
<1>5. CASE ~CallbackBegins(m)
    <2>1. after_close' \subseteq after_close
        BY <1>5, LoopMoves
    <2>2. ASSUME NEW l \in Loops, loop'[l].generation \in after_close, loop'[l].at \in OpenCallbacks
          PROVE  loop'[l] = loop[l]
        <3>1. CASE loop' = [loop EXCEPT ![m] = NoLoop]
            BY <1>1, <1>3, <2>2, <3>1 DEF TypeOK, NoLoop
        <3>2. CASE loop' = [loop EXCEPT ![m].at = "owed", ![m].generation = generation]
            BY <1>1, <1>3, <2>2, <3>2 DEF TypeOK
        <3>3. ASSUME NEW to \in LoopSteps, Go(m, to), to \in OpenCallbacks => is_current(loop[m].generation)
              PROVE  loop'[l] = loop[l]
            <4>1. CASE l = m
                BY <1>1, <2>2, <3>3, <4>1, MovedTyped DEF Go, NoneComes
            <4>2. CASE l # m
                BY <1>1, <3>3, <4>2 DEF Go, Moved, TypeOK
            <4>. QED
                BY <4>1, <4>2
        <3>. QED
            BY <1>5, <3>1, <3>2, <3>3, LoopMoves
    <2>. QED
        BY <1>2, <2>1, <2>2 DEF NoneComes, Running
<1>. QED
    BY <1>4, <1>5

\* The other steps: those of the callers and of the strand.
LEMMA OthersKeepNoneComes ==
    ASSUME IInv, NoneComes, [Next]_vars, \A m \in Loops : ~LoopStep(m) /\ ~Throw(m)
    PROVE  NoneComes'
<1>1. TypeOK /\ OneLoop
    BY DEF IInv
<1>2. "called" \notin Waiting \cup {"ready"} /\ {"none", "spawned"} \cap OpenCallbacks = {}
    BY DEF Waiting, OpenCallbacks
<1>3. ASSUME NEW l \in Loops, loop'[l].generation \in after_close, loop'[l].at \in OpenCallbacks
      PROVE  Running(l)'
    <2>1. loop'[l] = loop[l] \/ (loop[l].wait \in Waiting \cup {"ready"} /\ loop'[l].at = loop[l].at
                                 /\ loop'[l].generation = loop[l].generation)
        BY <1>1, <1>2, <1>3, OthersMove
    <2>2. Running(l)
        BY <1>3, <2>1 DEF NoneComes
    <2>. QED
        BY <1>2, <2>1, <2>2 DEF Running
<1>4. CASE \E c \in Callers : Open(c)
    <2>1. generation' = generation + 1 /\ after_close' = after_close /\ loop' = loop
        BY <1>4 DEF Open
    <2>2. \A g \in after_close : g # generation + 1
        BY <1>1, MaxOpensAssumption DEF TypeOK
    <2>. QED
        BY <1>3, <2>1, <2>2 DEF NoneComes, is_current
<1>5. CASE \E c \in Callers : Close(c)
    <2>1. /\ status' = "DISCONNECTED" /\ loop' = loop
          /\ after_close' = after_close \cup {loop[l].generation : l \in {m \in Loops : Running(m)}}
        BY <1>5 DEF Close
    <2>2. ASSUME NEW m \in Loops, Running(m), NEW l \in Loops, loop[l].at \in OpenCallbacks
          PROVE  Running(l)
        <3>1. l = m
            BY <1>1, <1>2, <2>2 DEF OneLoop, At, Running
        <3>. QED
            BY <2>2, <3>1
    <2>. QED
        BY <1>3, <2>1, <2>2 DEF NoneComes, is_current, Running
<1>6. CASE UNCHANGED <<generation, status, after_close>>
    BY <1>3, <1>6 DEF NoneComes, is_current
<1>. QED
    BY <1>4, <1>5, <1>6 DEF Next, vars, stateVars, Post, RunServe, RunCancel, Ready, Continue, Unchanged

\* After close() at most one callback of the session runs, the one that had been
\* decided on before it.
THEOREM OneAfterClose == Safety => OneCallbackAfterClose
<1>1. Init => NoneComes
    BY DEF Init, NoneComes
<1>2. ASSUME IInv, NoneComes, [Next]_vars PROVE NoneComes'
    <2>1. CASE \E m \in Loops : LoopStep(m) \/ Throw(m)
        BY <1>2, <2>1, LoopKeepsNoneComes
    <2>2. CASE \A m \in Loops : ~LoopStep(m) /\ ~Throw(m)
        BY <1>2, <2>2, OthersKeepNoneComes
    <2>. QED
        BY <2>1, <2>2
<1>3. ASSUME IInv, NoneComes, [Next]_vars, NEW l \in Loops, ~Running(l), Running(l)'
      PROVE  loop[l].generation \notin after_close
    <2>1. TypeOK /\ {"none", "spawned", "owed"} \cap OpenCallbacks = {} /\ "called" \notin {"no", "pending"}
        BY <1>3 DEF IInv, OpenCallbacks
    <2>2. ASSUME NEW m \in Loops, LoopStep(m) \/ Throw(m) PROVE CallbackBegins(l)
        <3>1. CASE loop' = [loop EXCEPT ![m] = NoLoop]
            BY <1>3, <2>1, <3>1 DEF Running, TypeOK, NoLoop
        <3>2. CASE loop' = [loop EXCEPT ![m].at = "owed", ![m].generation = generation]
            BY <1>3, <2>1, <3>2 DEF Running, TypeOK
        <3>3. ASSUME NEW to \in LoopSteps, Go(m, to) PROVE FALSE
            BY <1>3, <2>1, <3>3 DEF Go, Moved, Running, TypeOK
        <3>4. CASE CallbackBegins(m)
            BY <1>3, <2>1, <3>4 DEF CallbackBegins, Running, TypeOK
        <3>. QED
            BY <2>2, <3>1, <3>2, <3>3, <3>4, LoopMoves
    <2>3. ASSUME \A m \in Loops : ~LoopStep(m) /\ ~Throw(m) PROVE FALSE
        BY <1>3, <2>1, <2>3, OthersMove DEF Running
    <2>4. CallbackBegins(l)
        BY <2>2, <2>3
    <2>. QED
        BY <1>3, <2>4 DEF NoneComes, CallbackBegins
<1>4. IInv /\ NoneComes /\ [Next]_vars =>
        [\A l \in Loops : ~Running(l) /\ Running(l)' => loop[l].generation \notin after_close]_vars
    BY <1>3
<1>5. IInv /\ NoneComes /\ [Next]_vars => NoneComes'
    BY <1>2
<1>. QED
    BY <1>1, <1>4, <1>5, Invariance, PTL DEF Safety, OneCallbackAfterClose

\* A cancel reaches a session only once its generation has ended.
THEOREM NextSpared == Safety => CancelSparesNext
<1>1. ASSUME TypeOK, [Next]_vars, NEW l \in Loops, loop'[l].wait = "aborted", loop[l].wait # "aborted"
      PROVE  ~is_current(loop[l].generation)
    <2>1. ASSUME NEW m \in Loops, LoopStep(m) \/ Throw(m) PROVE FALSE
        <3>1. CASE loop' = [loop EXCEPT ![m] = NoLoop]
            BY <1>1, <3>1 DEF TypeOK, NoLoop
        <3>2. CASE loop' = [loop EXCEPT ![m].at = "owed", ![m].generation = generation]
            BY <1>1, <3>2 DEF TypeOK
        <3>3. ASSUME NEW to \in LoopSteps, Go(m, to) PROVE FALSE
            BY <1>1, <3>3 DEF Go, Moved, TypeOK
        <3>4. CASE CallbackBegins(m)
            BY <1>1, <3>4 DEF CallbackBegins, TypeOK
        <3>. QED
            BY <2>1, <3>1, <3>2, <3>3, <3>4, LoopMoves
    <2>2. CASE \E c \in Callers : Open(c) \/ Close(c) \/ Post(c)
        BY <1>1, <2>2 DEF Open, Close, Post
    <2>3. CASE RunServe
        <3>1. UNCHANGED loop \/ \E m \in Loops : loop' = [loop EXCEPT ![m].at = "spawned"]
            BY <2>3 DEF RunServe, Spawn
        <3>. QED
            BY <1>1, <3>1 DEF TypeOK, Waits
    <2>4. CASE RunCancel
        BY <1>1, <2>4 DEF RunCancel, Cancel, TypeOK
    <2>5. CASE \E m \in Loops : Ready(m) \/ Continue(m)
        BY <1>1, <2>5 DEF Ready, Continue, TypeOK
    <2>6. CASE UNCHANGED vars
        BY <1>1, <2>6 DEF vars
    <2>. QED
        BY <1>1, <2>1, <2>2, <2>3, <2>4, <2>5, <2>6 DEF Next
<1>2. TypeOK /\ [Next]_vars =>
        [\A l \in Loops : loop'[l].wait = "aborted" /\ loop[l].wait # "aborted"
            => ~is_current(loop[l].generation)]_vars
    BY <1>1
<1>. QED
    BY <1>2, TypeCorrect, PTL DEF Safety, CancelSparesNext
=============================================================================
