------------------------------ MODULE HttpStream -----------------------------
(***************************************************************************)
(* One HttpStream.  Any thread calls open() and close(), which change the  *)
(* packed state_ (a generation and a status) in one compare-and-swap and   *)
(* then post a handler to the stream's strand.  On the strand the loop     *)
(* serve_sessions() runs the sessions of the generations one after another;*)
(* a session awaits its I/O, and every callback is decided by a look at    *)
(* the generation, which a thread may end right after that look.           *)
(*                                                                         *)
(* The executor runs throughout here; HttpStreamService adds the one that  *)
(* may be stopped.                                                         *)
(***************************************************************************)
EXTENDS Naturals, Sequences

CONSTANTS
    Callers,        \* threads that call open() and close()
    Loops,          \* identifiers of serve_sessions() coroutines, numbers; the least free one is used
    MaxOpens,       \* bound on the generations
    Exceptions      \* what a callback may throw: "std", "other"

ASSUME MaxOpensAssumption == MaxOpens \in Nat
ASSUME LoopsAssumption == Loops \subseteq Nat
ASSUME ExceptionsAssumption == Exceptions \subseteq {"std", "other"}

Generations == 1..MaxOpens
any_generation == 0

VARIABLES
    generation,         \* state_: the generation
    status,             \* state_: the status
    pc,                 \* where each caller is inside a call
    posted,             \* handlers posted to the strand: "serve", "cancel"
    serving,            \* serving_
    served_generation,  \* served_generation_
    session_io,         \* the generation of the I/O registered in session_io_, or none
    loop,               \* the serve_sessions() coroutines
    disconnects,        \* onDisconnected calls per generation
    escaped,            \* generations whose session an exception that is no std::exception ended
    after_close         \* the generation whose session runs on after close(), once one of its
                        \* OpenCallbacks has been running since

stateVars == <<generation, status>>
strandVars == <<serving, served_generation, session_io>>
vars == <<stateVars, pc, posted, strandVars, loop, disconnects, escaped, after_close>>

Setup == {"resolve", "connect", "handshake", "request", "header"}
Awaits == Setup \cup {"read", "shutdown"}
\* These end by themselves: the others may wait for the server for ever.
Timed == {"resolve", "connect", "handshake", "shutdown"}
Waiting == {"pending", "again"}
Completed == {"ready", "aborted"}
\* A callback is decided on with "no", and is then called.
Waits == {"no", "called"} \cup Waiting \cup Completed
\* Callbacks of a session whose generation was open when they were decided.
OpenCallbacks == {"onConnected", "onData", "onHttpError", "onReadError", "onError"}
LoopSteps == Awaits \cup OpenCallbacks \cup
    {"none", "spawned", "loop", "owed", "missed", "begin", "announce", "body", "event", "readError",
     "finish", "caught", "end", "onDisconnected"}

NoLoop == [at |-> "none", generation |-> any_generation, wait |-> "no"]

Init ==
    /\ generation = 0
    /\ status = "DISCONNECTED"
    /\ pc = [c \in Callers |-> "idle"]
    /\ posted = <<>>
    /\ serving = FALSE
    /\ served_generation = 0
    /\ session_io = any_generation
    /\ loop = [l \in Loops |-> NoLoop]
    /\ disconnects = [g \in Generations |-> 0]
    /\ escaped = {}
    /\ after_close = {}

is_current(g) == generation = g /\ status # "DISCONNECTED"

\* onConnected, onData or onError of the session has begun, and has not returned.
Running(l) == loop[l].at \in OpenCallbacks /\ loop[l].wait = "called"

-----------------------------------------------------------------------------
(* open() and close().  A compare-and-swap that fails is tried on the state*)
(* it found, so the one that succeeds, or the load that gives up, is the   *)
(* step.                                                                   *)

Open(c) ==
    /\ pc[c] = "idle"
    /\ generation < MaxOpens
    /\ status = "DISCONNECTED"
    /\ generation' = generation + 1
    /\ status' = "CONNECTING"
    /\ pc' = [pc EXCEPT ![c] = "serve"]
    /\ UNCHANGED <<posted, strandVars, loop, disconnects, escaped, after_close>>

Close(c) ==
    /\ pc[c] = "idle"
    /\ status # "DISCONNECTED"
    /\ status' = "DISCONNECTED"
    /\ pc' = [pc EXCEPT ![c] = "cancel"]
    /\ after_close' = after_close \cup {loop[l].generation : l \in {m \in Loops : Running(m)}}
    /\ UNCHANGED <<generation, posted, strandVars, loop, disconnects, escaped>>

\* A fault: close() leaves the session to notice.
PostServeOnly(c) ==
    /\ pc[c] # "idle"
    /\ posted' = IF pc[c] = "serve" THEN Append(posted, pc[c]) ELSE posted
    /\ pc' = [pc EXCEPT ![c] = "idle"]
    /\ UNCHANGED <<stateVars, strandVars, loop, disconnects, escaped, after_close>>

\* asio::post to the strand, the last step of either.
Post(c) ==
    /\ pc[c] # "idle"
    /\ posted' = Append(posted, pc[c])
    /\ pc' = [pc EXCEPT ![c] = "idle"]
    /\ UNCHANGED <<stateVars, strandVars, loop, disconnects, escaped, after_close>>

-----------------------------------------------------------------------------
(* The strand runs one handler at a time: a posted one, or a coroutine that*)
(* is resumed, until it awaits again.                                      *)

StrandFree == \A l \in Loops : loop[l].at \in Awaits \cup {"none", "spawned"}

At(l, s) == loop[l].at = s

Moved(l, to) ==
    [loop EXCEPT ![l].at = to, ![l].wait = IF to \in Awaits THEN "pending" ELSE "no"]
Go(l, to) == loop' = Moved(l, to)

NextHandler(h) ==
    /\ StrandFree
    /\ posted # <<>>
    /\ Head(posted) = h
    /\ posted' = Tail(posted)

Spawn ==
    \E l \in Loops :
        /\ At(l, "none")
        /\ \A m \in Loops : At(m, "none") => l <= m
        /\ loop' = [loop EXCEPT ![l].at = "spawned"]
        /\ serving' = TRUE

\* A fault: a loop is started although one is running.
RunServeAlways ==
    /\ NextHandler("serve")
    /\ IF generation = served_generation THEN UNCHANGED <<serving, loop>> ELSE Spawn
    /\ UNCHANGED <<stateVars, pc, served_generation, session_io, disconnects, escaped, after_close>>

RunServe ==
    /\ NextHandler("serve")
    /\ IF serving \/ generation = served_generation THEN UNCHANGED <<serving, loop>> ELSE Spawn
    /\ UNCHANGED <<stateVars, pc, served_generation, session_io, disconnects, escaped, after_close>>

\* cancel() reaches an operation that is waiting, not one whose completion has
\* been queued.
Cancel(g) ==
    loop' = [l \in Loops |->
                IF loop[l].generation = g /\ loop[l].wait \in Waiting
                THEN [loop[l] EXCEPT !.wait = "aborted"]
                ELSE loop[l]]

\* A fault: whatever session is running is cancelled.
RunCancelAny ==
    /\ NextHandler("cancel")
    /\ IF session_io # any_generation THEN Cancel(session_io) ELSE UNCHANGED loop
    /\ UNCHANGED <<stateVars, pc, strandVars, disconnects, escaped, after_close>>

RunCancel ==
    /\ NextHandler("cancel")
    /\ IF session_io # any_generation /\ ~is_current(session_io)
       THEN Cancel(session_io)
       ELSE UNCHANGED loop
    /\ UNCHANGED <<stateVars, pc, strandVars, disconnects, escaped, after_close>>

-----------------------------------------------------------------------------
(* serve_sessions().                                                       *)

Serve(l) ==
    /\ At(l, "loop") \/ (At(l, "spawned") /\ StrandFree)
    /\ \/ /\ generation = served_generation
          /\ serving' = FALSE
          /\ loop' = [loop EXCEPT ![l] = NoLoop]
       \/ /\ generation # served_generation
          /\ loop' = [loop EXCEPT ![l].at = "owed", ![l].generation = generation]
          /\ UNCHANGED serving
    /\ UNCHANGED <<stateVars, pc, posted, served_generation, session_io, disconnects, escaped, after_close>>

\* A fault: the generations that were closed before they began are skipped.
OweSkips(l) ==
    /\ At(l, "owed")
    /\ served_generation' = loop[l].generation
    /\ Go(l, "begin")
    /\ UNCHANGED <<stateVars, pc, posted, serving, session_io, disconnects, escaped, after_close>>

\* A fault: the loop over the owed generations goes round once too often.
OweOneMore(l) ==
    /\ At(l, "owed")
    /\ served_generation' = served_generation + 1
    /\ Go(l, IF served_generation <= loop[l].generation THEN "missed" ELSE "begin")
    /\ UNCHANGED <<stateVars, pc, posted, serving, session_io, disconnects, escaped, after_close>>

\* Each generation before the newest one is owed its onDisconnected.
Owe(l) ==
    /\ At(l, "owed")
    /\ served_generation' = served_generation + 1
    /\ Go(l, IF served_generation' # loop[l].generation THEN "missed" ELSE "begin")
    /\ UNCHANGED <<stateVars, pc, posted, serving, session_io, disconnects, escaped, after_close>>

MissedReturns(l) ==
    /\ At(l, "missed")
    /\ disconnects' = [disconnects EXCEPT ![served_generation] = @ + 1]
    /\ Go(l, "owed")
    /\ UNCHANGED <<stateVars, pc, posted, strandVars, escaped, after_close>>

-----------------------------------------------------------------------------
(* run_session() and stream_response().                                    *)

Unchanged == UNCHANGED <<stateVars, pc, posted, strandVars, disconnects, escaped, after_close>>

\* session_io is registered before the first look at the generation.
Begin(l) ==
    /\ At(l, "begin")
    /\ session_io' = loop[l].generation
    /\ Go(l, IF is_current(loop[l].generation) THEN "resolve" ELSE "caught")
    /\ UNCHANGED <<stateVars, pc, posted, serving, served_generation, disconnects, escaped, after_close>>

\* What the coroutine awaits has happened, or one read or write of it has.
Ready(l) ==
    /\ loop[l].wait \in Waiting
    /\ loop' = [loop EXCEPT ![l].wait = "ready"]
    /\ Unchanged

\* The operation's own handler, and not the coroutine, starts another read or
\* write of the socket.  What has a timeout ends all the same.
Continue(l) ==
    /\ StrandFree
    /\ loop[l].at \notin Timed
    /\ loop[l].wait = "ready"
    /\ loop' = [loop EXCEPT ![l].wait = "again"]
    /\ Unchanged

After == [
    resolve |-> {"connect"},
    connect |-> {"handshake", "request"},
    handshake |-> {"request"},
    request |-> {"header"},
    header |-> {"announce", "onHttpError"}]

\* co_await returns, and throw_if_closed() follows, or it throws.
SetUp(l) ==
    /\ StrandFree
    /\ loop[l].at \in Setup
    /\ \/ /\ loop[l].wait = "ready"
          /\ is_current(loop[l].generation)
          /\ \E to \in After[loop[l].at] : Go(l, to)
       \/ loop[l].wait \in Completed /\ Go(l, "caught")
    /\ Unchanged

\* A fault: CONNECTED is stored.
AnnounceStores(l) ==
    /\ At(l, "announce")
    /\ status' = "CONNECTED"
    /\ Go(l, "onConnected")
    /\ UNCHANGED <<generation, pc, posted, strandVars, disconnects, escaped, after_close>>

Announce(l) ==
    /\ At(l, "announce")
    /\ \/ /\ generation = loop[l].generation /\ status = "CONNECTING"
          /\ status' = "CONNECTED"
          /\ Go(l, "onConnected")
       \/ /\ generation # loop[l].generation \/ status # "CONNECTING"
          /\ Go(l, "finish")
          /\ UNCHANGED status
    /\ UNCHANGED <<generation, pc, posted, strandVars, disconnects, escaped, after_close>>

\* The body loop: the message may be complete.
Body(l) ==
    /\ At(l, "body")
    /\ Go(l, "finish") \/ (is_current(loop[l].generation) /\ Go(l, "read"))
    /\ Unchanged

\* A read may decode data, fail, do both or neither.
ReadSome(l) ==
    /\ StrandFree
    /\ At(l, "read")
    /\ loop[l].wait \in Completed
    /\ IF is_current(loop[l].generation)
       THEN \E to \in {"onData", "body", "readError"} :
                (loop[l].wait = "ready" \/ to = "readError") /\ Go(l, to)
       ELSE Go(l, "finish")
    /\ Unchanged

\* The callback that was decided on begins, whatever has been closed meanwhile.
CallbackBegins(l) ==
    /\ loop[l].at \in OpenCallbacks
    /\ loop[l].wait = "no"
    /\ loop' = [loop EXCEPT ![l].wait = "called"]
    /\ after_close' = IF is_current(loop[l].generation) THEN after_close
                      ELSE after_close \cup {loop[l].generation}
    /\ UNCHANGED <<stateVars, pc, posted, strandVars, disconnects, escaped>>

\* One read may complete several events, and may fail besides.
OnDataReturns(l) ==
    /\ At(l, "onData") /\ Running(l)
    /\ \E to \in {"event", "body", "readError"} : Go(l, to)
    /\ Unchanged

\* A fault: the rest of the events is delivered whatever the callback did.
EventBlind(l) ==
    /\ At(l, "event")
    /\ Go(l, "onData")
    /\ Unchanged

\* deliver_event: an event of a closed generation is dropped, and so is the next.
Event(l) ==
    /\ At(l, "event")
    /\ IF is_current(loop[l].generation)
       THEN Go(l, "onData")
       ELSE Go(l, "body") \/ Go(l, "readError")
    /\ Unchanged

ReadError(l) ==
    /\ At(l, "readError")
    /\ Go(l, IF is_current(loop[l].generation) THEN "onReadError" ELSE "finish")
    /\ Unchanged

\* onHttpError is the rejected request, which is not shut down gracefully.
CallbackReturns(l) ==
    /\ Running(l)
    /\ \/ At(l, "onConnected") /\ Go(l, "body")
       \/ At(l, "onHttpError") /\ Go(l, "end")
       \/ At(l, "onReadError") /\ Go(l, "finish")
       \/ At(l, "onError") /\ Go(l, "end")
    /\ session_io' = IF At(l, "onHttpError") THEN any_generation ELSE session_io
    /\ UNCHANGED <<stateVars, pc, posted, serving, served_generation, disconnects, escaped, after_close>>

\* run_session() catches what derives from std::exception; anything else ends
\* serve_sessions(), whose completion handler clears serving_.
Throw(l) ==
    /\ Running(l) /\ ~At(l, "onError")
    /\ \/ "std" \in Exceptions /\ Go(l, "caught") /\ UNCHANGED <<serving, session_io, escaped>>
       \/ /\ "other" \in Exceptions
          /\ loop' = [loop EXCEPT ![l] = NoLoop]
          /\ serving' = FALSE
          /\ session_io' = any_generation
          /\ escaped' = escaped \cup {loop[l].generation}
    /\ UNCHANGED <<stateVars, pc, posted, served_generation, disconnects, after_close>>

\* stream_response() returns: the I/O is unregistered, and a TLS stream shuts
\* down.
Finish(l) ==
    /\ At(l, "finish") \/ (StrandFree /\ At(l, "shutdown") /\ loop[l].wait = "ready")
    /\ session_io' = any_generation
    /\ Go(l, "end") \/ (At(l, "finish") /\ Go(l, "shutdown"))
    /\ UNCHANGED <<stateVars, pc, posted, serving, served_generation, disconnects, escaped, after_close>>

Caught(l) ==
    /\ At(l, "caught")
    /\ session_io' = any_generation
    /\ Go(l, IF is_current(loop[l].generation) THEN "onError" ELSE "end")
    /\ UNCHANGED <<stateVars, pc, posted, serving, served_generation, disconnects, escaped, after_close>>

\* A fault: whichever generation is open is ended.
EndAny(l) ==
    /\ At(l, "end")
    /\ status' = "DISCONNECTED"
    /\ Go(l, "onDisconnected")
    /\ UNCHANGED <<generation, pc, posted, strandVars, disconnects, escaped, after_close>>

\* A fault: the status is left to the next close().
EndReports(l) ==
    /\ At(l, "end")
    /\ Go(l, "onDisconnected")
    /\ UNCHANGED <<stateVars, pc, posted, strandVars, disconnects, escaped, after_close>>

\* end_generation(): a session that ended on its own ends its generation.
End(l) ==
    /\ At(l, "end")
    /\ status' = IF is_current(loop[l].generation) THEN "DISCONNECTED" ELSE status
    /\ Go(l, "onDisconnected")
    /\ after_close' = after_close \ {loop[l].generation}
    /\ UNCHANGED <<generation, pc, posted, strandVars, disconnects, escaped>>

OnDisconnectedReturns(l) ==
    /\ At(l, "onDisconnected")
    /\ disconnects' = [disconnects EXCEPT ![loop[l].generation] = @ + 1]
    /\ Go(l, "loop")
    /\ UNCHANGED <<stateVars, pc, posted, strandVars, escaped, after_close>>

-----------------------------------------------------------------------------

LoopStep(l) ==
    \/ Serve(l) \/ Owe(l) \/ MissedReturns(l) \/ Begin(l) \/ SetUp(l) \/ Announce(l) \/ Body(l)
    \/ ReadSome(l) \/ CallbackBegins(l) \/ OnDataReturns(l) \/ Event(l) \/ ReadError(l) \/ CallbackReturns(l)
    \/ Finish(l) \/ Caught(l) \/ End(l) \/ OnDisconnectedReturns(l)

Next ==
    \/ \E c \in Callers : Open(c) \/ Close(c) \/ Post(c)
    \/ RunServe \/ RunCancel
    \/ \E l \in Loops : LoopStep(l) \/ Throw(l) \/ Ready(l) \/ Continue(l)

\* Calls and coroutines run on, callbacks return and the strand gets to every
\* handler posted to it.  What has a timeout ends; nothing else is taken for
\* granted of the server.
Fairness ==
    /\ \A c \in Callers : WF_vars(Post(c))
    /\ SF_vars(RunServe \/ RunCancel)
    /\ \A l \in Loops :
        /\ WF_vars(LoopStep(l))
        /\ WF_vars(loop[l].at \in Timed /\ Ready(l))

Spec == Init /\ [][Next]_vars /\ Fairness

-----------------------------------------------------------------------------
(* Properties.                                                             *)

\* Every variable keeps its range; served_generation_ never runs ahead of the
\* generation.
TypeOK ==
    /\ generation \in 0..MaxOpens
    /\ status \in {"CONNECTING", "CONNECTED", "DISCONNECTED"}
    /\ pc \in [Callers -> {"idle", "serve", "cancel"}]
    /\ posted \in Seq({"serve", "cancel"})
    /\ serving \in BOOLEAN
    /\ served_generation \in 0..generation
    /\ session_io \in 0..generation
    /\ loop \in [Loops -> [at : LoopSteps, generation : 0..generation,
                           wait : Waits]]
    /\ disconnects \in [Generations -> Nat]
    /\ escaped \subseteq 1..served_generation
    /\ after_close \subseteq 0..generation

\* One loop at a time serves the stream, so no two sessions run at once and the
\* strand's own data is never shared between two of them.
OneLoop ==
    /\ \A l, m \in Loops : ~At(l, "none") /\ ~At(m, "none") => l = m
    /\ serving <=> \E l \in Loops : ~At(l, "none")

\* Callbacks of two generations never interleave and none is left out: when one
\* runs, every earlier generation has had its one onDisconnected, but for those that
\* an exception ended which is no std::exception: README.md:751 has one for each.
Latest(l) == IF At(l, "missed") THEN served_generation ELSE loop[l].generation
SessionsInOrder ==
    \A l \in Loops : loop[l].at \in OpenCallbacks \cup {"missed", "onDisconnected"} =>
        \A g \in Generations :
            disconnects[g] = IF g < Latest(l) /\ g \notin escaped THEN 1 ELSE 0

\* onDisconnected finds the stream DISCONNECTED, or open again already, so that
\* an open() from it reconnects.
EndedWhenReported ==
    \A l \in Loops : loop[l].at \in {"missed", "onDisconnected"} => ~is_current(Latest(l))

\* A session never ends a later generation than its own.
EndsOwnGeneration ==
    [][\A g \in Generations : is_current(g) /\ ~is_current(g)' =>
        \/ \E c \in Callers : pc[c] = "idle" /\ pc'[c] = "cancel"
        \/ \E l \in Loops : loop[l].at = "end" /\ loop[l].generation = g]_vars

\* A close() that is late never cancels the I/O of the session a later open()
\* started.
CancelSparesNext ==
    [][\A l \in Loops :
        loop'[l].wait = "aborted" /\ loop[l].wait # "aborted"
            => ~is_current(loop[l].generation)]_vars

\* A stream that reads CONNECTED has a session of that very generation, past its
\* handshake and not reported ended, unless an exception tore the session down:
\* close() and open() during the handshake of an older session do not leave the
\* status saying otherwise.
PastAnnounce == OpenCallbacks \cup {"body", "read", "event", "readError", "finish", "shutdown", "caught", "end"}
ConnectedHasSession ==
    status = "CONNECTED" /\ generation \notin escaped =>
        \E l \in Loops : loop[l].generation = generation /\ loop[l].at \in PastAnnounce

\* After close() at most one onConnected, onData or onError of the session runs: the
\* one that was running, or else one that was decided on before and begins although
\* close() may have returned.  README.md:751 and http_stream.hpp:68 allow the first
\* only; another read, event, error or throw brings no second one.
OneCallbackAfterClose ==
    [][\A l \in Loops : ~Running(l) /\ Running(l)' => loop[l].generation \notin after_close]_vars

\* A generation that was closed or has ended gets its onDisconnected, with no
\* help from a server that has fallen silent, unless an exception ended it that is
\* no std::exception.
DisconnectFollows ==
    \A g \in Generations :
        generation >= g /\ ~is_current(g) ~> disconnects[g] = 1 \/ g \in escaped

\* Every open() is taken up, or closed again.
OpenServed ==
    \A g \in Generations : is_current(g) ~> served_generation >= g \/ ~is_current(g)
=============================================================================
