----------------------------- MODULE WriteChain ------------------------------
(***************************************************************************)
(* The write path of one Websocket connection: any number of threads call  *)
(* send(), which copies a record into the lock-free queue w_buffer_ and    *)
(* asks write_chain_gate whether it has to wake the service thread; the    *)
(* service thread runs one chain of asynchronous writes that drains the    *)
(* queue and ends when it runs dry.                                        *)
(*                                                                         *)
(* The two sides meet only in the queue and in the gate's flag, and each   *)
(* stores to one and then loads the other.  The model keeps the machine's  *)
(* store buffers: a published record (stored) and the chain's              *)
(* running_ = false (ending) reach memory (visible, running) some time     *)
(* after the store, at the latest at the storing thread's seq_cst fence or *)
(* compare-and-swap.                                                       *)
(***************************************************************************)
EXTENDS Naturals, FiniteSets, Sequences

CONSTANTS
    Senders,        \* threads that call send(), the service thread among them
    Service,        \* the service thread: it sends from inside callbacks
    MaxRecords      \* bound on the records sent over the connection

ASSUME SendersAssumption == IsFiniteSet(Senders) /\ Service \in Senders
ASSUME MaxRecordsAssumption == MaxRecords \in Nat

CONNECTING == 0
CONNECTED == 1
DISCONNECTING == 2
DISCONNECTED == 3

Records == 1..MaxRecords
NoRecord == 0

VARIABLES
    status,         \* Impl::status_
    reserved,       \* records reserved in w_buffer_ so far
    stored,         \* records whose publish() has executed
    visible,        \* published records that have reached memory
    w_cursor,       \* next record the chain reads
    cursor,         \* next_queued_write()'s copy of it, NoRecord when not in use
    running,        \* write_chain_gate::running_, as memory has it
    ending,         \* the service thread's running_ = false is still in its store buffer
    pc,             \* where each sender is inside send()
    slot,           \* the record each sender is sending
    hpc,            \* where the service thread is: in which handler, at which step
    wakeups,        \* do_write() handlers posted to the executor and not yet run
    write_parked,   \* Impl::write_parked_
    inflight,       \* records handed to async_write whose on_write has not run
    written,        \* records the stream has written, in order
    failed          \* a write has failed, after which the stream writes no more

senderVars == <<pc, slot>>
queueVars == <<reserved, stored, visible>>
chainVars == <<w_cursor, cursor, hpc, wakeups, write_parked>>
gateVars == <<running, ending>>
streamVars == <<inflight, written, failed>>
vars == <<status, senderVars, queueVars, chainVars, gateVars, streamVars>>

Callbacks == {"onConnected", "onData", "onError", "onReadError"}
HandlerSteps ==
    {"idle", "doWrite", "read", "end", "fence", "probe", "reclaim"} \cup Callbacks
SendSteps == {"idle", "reserve", "publish", "fence", "load", "cas", "post"}

Init ==
    /\ status = CONNECTING
    /\ reserved = 0
    /\ stored = {}
    /\ visible = {}
    /\ w_cursor = 1
    /\ cursor = NoRecord
    /\ running = FALSE
    /\ ending = FALSE
    /\ pc = [p \in Senders |-> "idle"]
    /\ slot = [p \in Senders |-> NoRecord]
    /\ hpc = "idle"
    /\ wakeups = 0
    /\ write_parked = FALSE
    /\ inflight = {}
    /\ written = <<>>
    /\ failed = FALSE

-----------------------------------------------------------------------------
(* send(), on the caller's thread.                                         *)

\* The senders that are past send()'s check of the status and have no record yet.
Reserving == {q \in Senders : pc[q] = "reserve"}

\* send() from a callback runs on the service thread, which is then busy with it.
MaySend(p) == p = Service => hpc \in Callbacks

SendBegin(p) ==
    /\ pc[p] = "idle"
    /\ MaySend(p)
    /\ status <= CONNECTED
    /\ reserved + Cardinality(Reserving) < MaxRecords
    /\ pc' = [pc EXCEPT ![p] = "reserve"]
    /\ UNCHANGED <<status, slot, queueVars, chainVars, gateVars, streamVars>>

Reserve(p) ==
    /\ pc[p] = "reserve"
    /\ reserved' = reserved + 1
    /\ slot' = [slot EXCEPT ![p] = reserved + 1]
    /\ pc' = [pc EXCEPT ![p] = "publish"]
    /\ UNCHANGED <<status, stored, visible, chainVars, gateVars, streamVars>>

Publish(p) ==
    /\ pc[p] = "publish"
    /\ stored' = stored \cup {slot[p]}
    /\ pc' = [pc EXCEPT ![p] = "fence"]
    /\ UNCHANGED <<status, slot, reserved, visible, chainVars, gateVars, streamVars>>

\* The fence completes once the thread's own stores have reached memory.
ClaimFence(p) ==
    /\ pc[p] = "fence"
    /\ slot[p] \in visible
    /\ p = Service => ~ending
    /\ pc' = [pc EXCEPT ![p] = "load"]
    /\ UNCHANGED <<status, slot, queueVars, chainVars, gateVars, streamVars>>

SendEnd(p) ==
    /\ pc' = [pc EXCEPT ![p] = "idle"]
    /\ slot' = [slot EXCEPT ![p] = NoRecord]

ClaimLoad(p) ==
    /\ pc[p] = "load"
    /\ \/ running /\ SendEnd(p)
       \/ ~running /\ pc' = [pc EXCEPT ![p] = "cas"] /\ UNCHANGED slot
    /\ UNCHANGED <<status, queueVars, chainVars, gateVars, streamVars>>

ClaimCas(p) ==
    /\ pc[p] = "cas"
    /\ \/ running /\ SendEnd(p) /\ UNCHANGED running
       \/ /\ ~running
          /\ running' = TRUE
          /\ pc' = [pc EXCEPT ![p] = "post"]
          /\ UNCHANGED slot
    /\ UNCHANGED <<status, queueVars, chainVars, ending, streamVars>>

PostWakeup(p) ==
    /\ pc[p] = "post"
    /\ wakeups' = wakeups + 1
    /\ SendEnd(p)
    /\ UNCHANGED <<status, queueVars, w_cursor, cursor, hpc, write_parked, gateVars, streamVars>>

-----------------------------------------------------------------------------
(* Store buffers drain at any time.                                        *)

FlushRecord(r) ==
    /\ r \in stored \ visible
    /\ visible' = visible \cup {r}
    /\ UNCHANGED <<status, senderVars, reserved, stored, chainVars, gateVars, streamVars>>

FlushEnding ==
    /\ ending
    /\ running' = FALSE
    /\ ending' = FALSE
    /\ UNCHANGED <<status, senderVars, queueVars, chainVars, streamVars>>

-----------------------------------------------------------------------------
(* The chain, on the service thread.                                       *)

RunWakeup ==
    /\ hpc = "idle"
    /\ wakeups > 0
    /\ wakeups' = wakeups - 1
    /\ hpc' = "doWrite"
    /\ UNCHANGED <<status, senderVars, queueVars, w_cursor, cursor, write_parked, gateVars, streamVars>>

DoWrite ==
    /\ hpc = "doWrite"
    /\ \/ status # CONNECTED /\ write_parked' = TRUE /\ hpc' = "idle"
       \/ status = CONNECTED /\ hpc' = "read" /\ UNCHANGED write_parked
    /\ UNCHANGED <<status, senderVars, queueVars, w_cursor, cursor, wakeups, gateVars, streamVars>>

\* read() finds nothing while the record at the cursor is not published, even
\* when later ones are.
Read ==
    /\ hpc = "read"
    /\ \/ /\ w_cursor \in visible
          /\ inflight' = inflight \cup {w_cursor}
          /\ w_cursor' = w_cursor + 1
          /\ hpc' = "idle"
       \/ /\ w_cursor \notin visible
          /\ hpc' = "end"
          /\ UNCHANGED <<inflight, w_cursor>>
    /\ UNCHANGED <<status, senderVars, queueVars, cursor, wakeups, write_parked, gateVars, written, failed>>

EndStore ==
    /\ hpc = "end"
    /\ ending' = TRUE
    /\ hpc' = "fence"
    /\ UNCHANGED <<status, senderVars, queueVars, w_cursor, cursor, wakeups, write_parked, running, streamVars>>

\* A fault: a release store and an acquire load, with no fence between them.
EndFenceMissing ==
    /\ hpc = "fence"
    /\ hpc' = "probe"
    /\ UNCHANGED <<status, senderVars, queueVars, w_cursor, cursor, wakeups, write_parked, gateVars, streamVars>>

EndFence ==
    /\ hpc = "fence"
    /\ ~ending
    /\ hpc' = "probe"
    /\ UNCHANGED <<status, senderVars, queueVars, w_cursor, cursor, wakeups, write_parked, gateVars, streamVars>>

\* A fault: the probe commits the read, instead of probing off a copy.
EndProbeCommits ==
    /\ hpc = "probe"
    /\ \/ /\ w_cursor \in visible
          /\ w_cursor' = w_cursor + 1
          /\ cursor' = w_cursor + 1
          /\ hpc' = "reclaim"
       \/ w_cursor \notin visible /\ hpc' = "idle" /\ UNCHANGED <<w_cursor, cursor>>
    /\ UNCHANGED <<status, senderVars, queueVars, wakeups, write_parked, gateVars, streamVars>>

EndProbe ==
    /\ hpc = "probe"
    /\ \/ w_cursor \in visible /\ cursor' = w_cursor + 1 /\ hpc' = "reclaim"
       \/ w_cursor \notin visible /\ hpc' = "idle" /\ UNCHANGED cursor
    /\ UNCHANGED <<status, senderVars, queueVars, w_cursor, wakeups, write_parked, gateVars, streamVars>>

\* A fault: the cursor is advanced past the record the probe found.
EndReclaimSkips ==
    /\ hpc = "reclaim"
    /\ \/ /\ ~running
          /\ running' = TRUE
          /\ w_cursor' = cursor + 1
          /\ inflight' = inflight \cup {cursor - 1}
       \/ running /\ UNCHANGED <<running, w_cursor, inflight>>
    /\ cursor' = NoRecord
    /\ hpc' = "idle"
    /\ UNCHANGED <<status, senderVars, queueVars, wakeups, write_parked, ending, written, failed>>

\* The loser of the compare-and-swap leaves the record to the chain that won.
EndReclaim ==
    /\ hpc = "reclaim"
    /\ \/ /\ ~running
          /\ running' = TRUE
          /\ w_cursor' = cursor
          /\ inflight' = inflight \cup {cursor - 1}
       \/ running /\ UNCHANGED <<running, w_cursor, inflight>>
    /\ cursor' = NoRecord
    /\ hpc' = "idle"
    /\ UNCHANGED <<status, senderVars, queueVars, wakeups, write_parked, ending, written, failed>>

OnWriteOk(r) ==
    /\ hpc = "idle"
    /\ r \in inflight
    /\ ~failed
    /\ inflight' = inflight \ {r}
    /\ written' = Append(written, r)
    /\ hpc' = "doWrite"
    /\ UNCHANGED <<status, senderVars, queueVars, w_cursor, cursor, wakeups, write_parked, gateVars, failed>>

\* An expected error (closed, eof, aborted, truncated) ends the chain at once;
\* any other one is first reported when the connection is still CONNECTED.
OnWriteError(r) ==
    /\ hpc = "idle"
    /\ r \in inflight
    /\ inflight' = inflight \ {r}
    /\ failed' = TRUE
    /\ \/ ending' = TRUE /\ UNCHANGED hpc
       \/ status = CONNECTED /\ hpc' = "onError" /\ UNCHANGED ending
    /\ UNCHANGED <<status, senderVars, queueVars, w_cursor, cursor, wakeups, write_parked, running, written>>

\* on_error_ has returned: close() and abandon().
OnErrorReturns ==
    /\ hpc = "onError"
    /\ pc[Service] = "idle"
    /\ status' = IF status <= CONNECTED THEN DISCONNECTING ELSE status
    /\ ending' = TRUE
    /\ hpc' = "idle"
    /\ UNCHANGED <<senderVars, queueVars, w_cursor, cursor, wakeups, write_parked, running, streamVars>>

-----------------------------------------------------------------------------
(* The connection's life, as far as the write path sees it.                *)

HandshakeDone ==
    /\ hpc = "idle"
    /\ status = CONNECTING
    /\ status' = CONNECTED
    /\ hpc' = "onConnected"
    /\ UNCHANGED <<senderVars, queueVars, w_cursor, cursor, wakeups, write_parked, gateVars, streamVars>>

\* A fault: the chain is started whoever owns it.
OnConnectedReturnsAlwaysStarts ==
    /\ hpc = "onConnected"
    /\ pc[Service] = "idle"
    /\ hpc' = "idle"
    /\ \/ status = CONNECTED /\ wakeups' = wakeups + 1 /\ write_parked' = FALSE /\ UNCHANGED status
       \/ status # CONNECTED /\ status' = DISCONNECTED /\ UNCHANGED <<write_parked, wakeups>>
    /\ UNCHANGED <<senderVars, queueVars, w_cursor, cursor, gateVars, streamVars>>

\* A fault: a parked chain stays parked.
OnConnectedReturnsNoResume ==
    /\ hpc = "onConnected"
    /\ pc[Service] = "idle"
    /\ hpc' = "idle"
    /\ status' = IF status = CONNECTED THEN CONNECTED ELSE DISCONNECTED
    /\ UNCHANGED <<senderVars, queueVars, w_cursor, cursor, wakeups, write_parked, gateVars, streamVars>>

\* on_connected_ has returned: maybe_start_queued_write() resumes a parked
\* chain, unless the connection was closed meanwhile.  A callback that throws
\* ends the session whatever the status.
OnConnectedReturns ==
    /\ hpc = "onConnected"
    /\ pc[Service] = "idle"
    /\ hpc' = "idle"
    /\ \/ /\ status = CONNECTED
          /\ write_parked' = FALSE
          /\ wakeups' = IF write_parked THEN wakeups + 1 ELSE wakeups
          /\ UNCHANGED status
       \/ /\ status' = DISCONNECTED
          /\ UNCHANGED <<write_parked, wakeups>>
    /\ UNCHANGED <<senderVars, queueVars, w_cursor, cursor, gateVars, streamVars>>

\* The session fails before or after CONNECTED, or on_close runs.
SessionEnds ==
    /\ hpc = "idle"
    /\ status # DISCONNECTED
    /\ status' = DISCONNECTED
    /\ UNCHANGED <<senderVars, queueVars, chainVars, gateVars, streamVars>>

OnData ==
    /\ hpc = "idle"
    /\ status = CONNECTED
    /\ hpc' = "onData"
    /\ UNCHANGED <<status, senderVars, queueVars, w_cursor, cursor, wakeups, write_parked, gateVars, streamVars>>

OnDataReturns ==
    /\ hpc = "onData"
    /\ pc[Service] = "idle"
    /\ hpc' = "idle"
    /\ UNCHANGED <<status, senderVars, queueVars, w_cursor, cursor, wakeups, write_parked, gateVars, streamVars>>

\* on_read with an unexpected error reports it and closes.
OnReadError ==
    /\ hpc = "idle"
    /\ status = CONNECTED
    /\ hpc' = "onReadError"
    /\ UNCHANGED <<status, senderVars, queueVars, w_cursor, cursor, wakeups, write_parked, gateVars, streamVars>>

OnReadErrorReturns ==
    /\ hpc = "onReadError"
    /\ pc[Service] = "idle"
    /\ status' = IF status <= CONNECTED THEN DISCONNECTING ELSE status
    /\ hpc' = "idle"
    /\ UNCHANGED <<senderVars, queueVars, w_cursor, cursor, wakeups, write_parked, gateVars, streamVars>>

\* close(), by any thread at any time.
Close ==
    /\ status <= CONNECTED
    /\ status' = DISCONNECTING
    /\ UNCHANGED <<senderVars, queueVars, chainVars, gateVars, streamVars>>

-----------------------------------------------------------------------------

SendStep(p) ==
    \/ Reserve(p) \/ Publish(p) \/ ClaimFence(p) \/ ClaimLoad(p) \/ ClaimCas(p)
    \/ PostWakeup(p)

ChainStep ==
    \/ RunWakeup \/ DoWrite \/ Read \/ EndStore \/ EndFence \/ EndProbe \/ EndReclaim

CallbackReturns ==
    OnErrorReturns \/ OnReadErrorReturns \/ OnConnectedReturns \/ OnDataReturns

Flush == FlushEnding \/ \E r \in Records : FlushRecord(r)

Next ==
    \/ \E p \in Senders : SendBegin(p) \/ SendStep(p)
    \/ Flush
    \/ ChainStep
    \/ \E r \in Records : OnWriteOk(r) \/ OnWriteError(r)
    \/ CallbackReturns
    \/ HandshakeDone \/ SessionEnds \/ OnData \/ OnReadError \/ Close

\* Threads that are inside send() run on; store buffers drain; the service
\* thread runs what is posted to it, and a handshake or a write completes or
\* fails.  OnData competes with the posted handlers, hence the strong
\* fairness: the io_context runs ready handlers in order.
Fairness ==
    /\ \A p \in Senders : WF_vars(SendStep(p))
    /\ WF_vars(FlushEnding)
    /\ \A r \in Records : WF_vars(FlushRecord(r))
    /\ SF_vars(RunWakeup)
    /\ WF_vars(DoWrite \/ Read \/ EndStore \/ EndFence \/ EndProbe \/ EndReclaim)
    /\ SF_vars(\E r \in Records : OnWriteOk(r) \/ OnWriteError(r))
    /\ WF_vars(CallbackReturns)
    /\ WF_vars(HandshakeDone \/ (status = CONNECTING /\ SessionEnds))

Spec == Init /\ [][Next]_vars /\ Fairness

-----------------------------------------------------------------------------
(* Properties.                                                             *)

\* Every variable keeps its range; in particular w_cursor_ never runs past the
\* record after the last one reserved in w_buffer_.
TypeOK ==
    /\ status \in CONNECTING..DISCONNECTED
    /\ reserved \in 0..MaxRecords
    /\ stored \subseteq 1..reserved
    /\ visible \subseteq stored
    /\ w_cursor \in 1..reserved + 1
    /\ cursor \in 0..reserved + 1
    /\ running \in BOOLEAN
    /\ ending \in BOOLEAN
    /\ pc \in [Senders -> SendSteps]
    /\ slot \in [Senders -> 0..reserved]
    /\ hpc \in HandlerSteps
    /\ wakeups \in Nat
    /\ write_parked \in BOOLEAN
    /\ inflight \subseteq 1..reserved
    /\ written \in Seq(1..reserved)
    /\ failed \in BOOLEAN

\* The places a write chain can be.
Claimed == \E p \in Senders : pc[p] = "post"
Posted == wakeups > 0
Parked == write_parked
Draining == hpc \in {"doWrite", "read", "end", "onError"}
Writing == inflight # {}
Owned == Claimed \/ Posted \/ Parked \/ Draining \/ Writing

\* There is never a second write chain: a chain is in one place, claimed by one
\* send(), with one wakeup posted and one async_write outstanding (Beast allows
\* no second one).  The gate, the parked chain that maybe_start_queued_write()
\* resumes and the chain that reclaims itself must agree on this.
OneChain ==
    /\ \A p, q \in Senders : pc[p] = "post" /\ pc[q] = "post" => p = q
    /\ wakeups <= 1
    /\ \A r, s \in inflight : r = s
    /\ Claimed => ~(Posted \/ Parked \/ Draining \/ Writing)
    /\ Posted => ~(Parked \/ Draining \/ Writing)
    /\ Parked => ~(Draining \/ Writing)
    /\ Draining => ~Writing

\* Frames reach the stream in the order send() reserved them, each once and
\* with none skipped, although the chain probes off a copy of the cursor and
\* several senders fill the queue at once.
WrittenInOrder == \A i \in 1..Len(written) : written[i] = i

\* No record is left in the queue of a CONNECTED, healthy connection when
\* nobody is going to write it: once every send() has returned and the service
\* thread has nothing to do, everything sent has been written.  This is what
\* the two seq_cst fences of write_chain_gate are for.
NothingPending ==
    /\ \A p \in Senders : pc[p] = "idle"
    /\ hpc = "idle"
    /\ wakeups = 0
    /\ inflight = {}

NoStrandedRecord ==
    status = CONNECTED /\ ~failed /\ NothingPending => Len(written) = reserved

\* Why the two hold: the strengthening that every step preserves.

\* The bound on the records counts the sends that are about to reserve one.
Room == reserved + Cardinality(Reserving) <= MaxRecords

\* A reserved record that is not in memory yet is in the hands of the one
\* sender that will publish it and has still to pass its fence.
SlotsHeld ==
    /\ \A p \in Senders :
        /\ pc[p] \in {"idle", "reserve"} => slot[p] = NoRecord
        /\ pc[p] = "publish" => slot[p] \in 1..reserved \ stored
        /\ pc[p] = "fence" => slot[p] \in stored
        /\ pc[p] \in {"load", "cas", "post"} => slot[p] \in visible
    /\ \A p, q \in Senders : slot[p] = slot[q] /\ slot[p] # NoRecord => p = q
    /\ \A r \in 1..reserved \ stored : \E p \in Senders : pc[p] = "publish" /\ slot[p] = r
    /\ \A r \in stored \ visible : \E p \in Senders : pc[p] = "fence" /\ slot[p] = r
    /\ pc[Service] # "idle" => hpc \in Callbacks

\* The gate's flag is set exactly while there is a chain, but for the time the
\* chain's running_ = false spends in the store buffer; a chain that has reached
\* the queue has seen CONNECTED.
Ending == hpc \in {"fence", "probe", "reclaim"}
GateHeld ==
    /\ OneChain
    /\ Owned => running /\ ~ending
    /\ running => Owned \/ ending
    /\ ending => running /\ (failed \/ hpc = "fence")
    /\ Ending => ~Writing /\ ~Parked
    /\ hpc = "onError" => failed
    /\ Parked /\ status = CONNECTED => hpc = "onConnected"
    /\ Writing \/ Ending \/ hpc \in {"read", "end"} => status # CONNECTING

\* The chain has read every record before its cursor, and has written all of
\* them but the one in flight.
CursorHeld ==
    /\ 1..w_cursor - 1 \subseteq visible
    /\ inflight \subseteq {w_cursor - 1}
    /\ ~failed => Len(written) = w_cursor - 1 - (IF Writing THEN 1 ELSE 0)
    /\ WrittenInOrder
    /\ hpc = "reclaim" => cursor = w_cursor + 1 /\ w_cursor \in visible

\* While the record at the cursor can be read somebody is responsible for it: a
\* chain, a chain that is ending and has still to probe or to reclaim, or a
\* send() that has still to look at the gate.
Covered ==
    w_cursor \in visible /\ ~failed =>
        \/ Owned
        \/ Ending
        \/ \E p \in Senders : pc[p] \in {"fence", "load", "cas"}

\* The inductive invariant.
IInv == TypeOK /\ Room /\ SlotsHeld /\ GateHeld /\ CursorHeld /\ Covered

\* A record accepted by send() is written unless the connection breaks or is
\* closed: a chain that parked while CONNECTING is resumed, and a chain that a
\* slow publish() made end early is started again by that publish().
Gone == failed \/ status > CONNECTED
EveryRecordWritten ==
    \A r \in Records : reserved >= r ~> (Len(written) >= r \/ Gone)

\* The write path keeps the promises of SendQueue.
Queue == INSTANCE SendQueue WITH
    Capacity <- MaxRecords,
    accepted <- reserved,
    available <- stored,
    sent <- written,
    link <- IF Gone THEN "down" ELSE IF status = CONNECTING THEN "opening" ELSE "up"

ImplementsSendQueue == Queue!Spec
=============================================================================
