# Verification of slick-net

TLA+ models of the concurrent parts of slick-net, a C++20 networking library (WebSocket client,
HTTP client, HTTP streaming), with the TLC runs that check them and TLAPS proofs about them.
Paths below are relative to the repository (`impl.hpp` is
`include/slick/net/detail/websocket_impl.hpp`).

    tlc -workers 2 -config MCWriteChain.cfg MCWriteChain.tla      # one run
    tlapm WriteChainProofs.tla                                     # one proof module

`PROJECT.json` lists the runs, the seeded faults each property is tried against, the source lines
behind every definition, the hazards, the findings and the theorems.

## 1. Inventory

The library is lock-free: threads meet in atomics and in handlers posted to an `io_context`.

| component | source | state | operations |
|---|---|---|---|
| write chain | `detail/write_chain_gate.hpp`, `impl.hpp` 455-540, 647-677 | queue and its cursor, `running_`, `write_parked_` | `send`, `do_write`, `next_queued_write`, `maybe_start_queued_write`, `on_write` |
| WebSocket service | `src/websocket.cpp` | `service_state_`, `service_thread_`, `run_`, `busy_poll_`, the io_context's stop flag | `start_websocket_service`, `stop_websocket_service`, `set_websocket_busy_poll`, the thread's loop |
| WebSocket session and object | `impl.hpp` 99-400, 543-644, 719-782 | per `Impl`: `status_`, `detached_`, `open_cancelled_`, `session_started_`, `release_state_`, `read_started_`; `impl_` | `open`, `close`, `~Websocket`, the session coroutine, `on_read`, `on_close`, buffer handoff |
| HttpStream session | `src/http_stream.cpp` 98-158, 214-256, 284-551 | `state_` (generation and status), `serving_`, `served_generation_`, `session_io_` | `open`, `close`, `serve`, `serve_sessions`, `run_session`, `stream_response` |
| HttpStream service | `src/http_stream.cpp` 36-96, 202-208, 258-282 | `service_state_`, `service_threads_` | `start_service`, `shutdown` |
| Http asynchronous service | `src/http.cpp` 264-416, 526-568 | `service_state_`, `service_epoch_`, `inline_callbacks_`, threads | `start_service`, `spawn_async_request`, `response_delivery`, `shutdown` |
| Http synchronous requests | `src/http.cpp` 418-502 | 16 slots of parked io_contexts | `run_sync_request`, `acquire`, `release` |
| logging hooks | `src/logging.cpp`, `logging.hpp` | `g_hooks`, `g_retired` | `set_log_handler*`, `clear_log_handler`, `should_log`, `log_message_internal` |
| SSE parser | `detail/sse_parser.hpp` | partial line, partial event, `after_cr_` | `feed`, `reset` |
| TLS context | `src/tls.cpp` | `tls_context_` | `tls_context` |
| URL parsing, Http exchange, stream buffers | `detail/url.hpp`, `src/http.cpp` 30-262, `src/websocket_stream_buffer*.cpp` | none | pure, or one sequential exchange, or instantiations |

How they interact. `Websocket::open()` makes an `Impl`, spawns its coroutine on the shared
io_context and starts the service; every handler of every WebSocket runs on the one service
thread. `send()` on any thread meets that thread in the write chain. Callbacks run on the service
thread and may call anything: `open`, `close`, `send`, `shutdown`. Superseding a session hands its
read buffer to the next one through `release_state_`. An `HttpStream` runs on a strand, of its own
executor or of the shared service; `open` and `close` change `state_` and post to the strand. The
SSE parser is used by one session at a time, on the strand. An asynchronous `Http` request starts the
Http service, runs its exchange on the one I/O thread, and hands the response to a callback thread, to
the caller's executor or, with no callback threads, to the I/O thread itself; a synchronous one runs the
same exchange on the caller's thread and an io_context of the pool. The two HTTP services have the same
life cycle, written twice. All of them log through the hooks.

What is hard, and what makes each part correct:

- *Write chain.* Sender and chain each store to one location and load the other. At most one
  chain; no record left behind; each written once, in order.
- *Service.* Who may join and assign a `std::thread`, with calls arriving from the thread itself.
  One owner; no thread lost or joined twice; no deadlock; a shutdown that returns has joined.
- *Session.* `close` from any point of `open`, two handlers that may both end a session, a buffer
  that two sessions must not share. Closed stays closed; ends are reported; no mixing of
  sessions; the handoff is never wedged.
- *HttpStream.* A session's every decision may be about a generation that is no longer open. One
  session at a time; every end, cancel and callback meets its own generation; every open() is
  served and every session reported once.
- *HttpStream and Http service.* Threads kept in a vector without a lock; what an `io_context` keeps
  over a stop and a restart. One owner of the threads; nothing runs while the service is stopped; what
  was left is served by a later start, except the requests a shutdown abandoned, which must never call
  back.
- *Http requests.* Every request is reported once; a slow callback holds up no I/O; an io_context of
  the pool is run by one call at a time.
- *Logging.* A reader never pairs the handler of one installation with the level of another.
- *SSE.* The events do not depend on where the body was split.

## 2. Modules

| module | what it is |
|---|---|
| `SendQueue` | abstract: records are accepted, complete in any order, and are transmitted in the order of their slots while the link is up |
| `ThreadOwnership` | abstract: who has a service's threads, to start it or to stop it, and when there may be any |
| `WriteChain` | the write path of one connection; implements `SendQueue` |
| `WebsocketService` | the shared service thread and the ownership of its `std::thread` object |
| `WebsocketSession` | one Websocket object over several sessions |
| `HttpStream` | one stream over several generations, on an executor that keeps running |
| `SharedService` | the life cycle that the services of HttpStream and Http have in common |
| `HttpStreamService` | `HttpStream` composed with its executor: the caller's, or a `SharedService` |
| `HttpExchange` | the steps of one request and response, as operators |
| `HttpService` | callback-based requests on a `SharedService` of two contexts, with epochs |
| `SyncRequest` | synchronous requests and the pool of parked io_contexts |
| `Http` | programs that make either kind of request |
| `SseParser` | the incremental parser against a definition on the whole body |
| `LogHooks` | the log handler and its level getter, swapped under readers |
| `MC...` | the instances TLC checks |
| `WriteChainProofs`, `WebsocketServiceProofs`, `WebsocketSessionProofs`, `HttpStreamProofs`, `HttpServiceProofs`, `SseParserProofs` | theorems about the module of that name |
| `HttpStreamServiceProofs`, `HttpProofs` | the compositions take the steps of their parts, and keep what is proved of them; `HttpProofs` has the theorems of `SyncRequest` too |

Names follow the source. A definition whose comment begins with "A fault" is a seeded fault: it is
not part of the specification, and stands in for the definition after it when a property is tried.

### WriteChain

Records are numbered by their slot in the queue. `send()` is seven steps (`SendBegin` to
`PostWakeup`); the chain is `RunWakeup`, `DoWrite`, `Read` and, when the queue is dry, `EndStore`,
`EndFence`, `EndProbe`, `EndReclaim`, the four steps of `ended_or_reclaimed`. Memory is modelled
with store buffers: `publish` puts the record into `stored`, `FlushRecord` makes it `visible`;
`running_ = false` goes through `ending`. A seq_cst fence or a compare-and-swap waits for the
thread's own buffer. This is the one reordering (a store passing a later load) that x86 and the
fences' comment are about; the acquire and release orders of the rest are taken as given.
Handlers never overlap, because one service thread runs them, but every access to shared state in
a handler is a step of its own. Of the connection the model has the
status, the callbacks from which the service thread itself may send, writes that fail, and sessions that
end at any time. The ring's overrun is outside: `MaxRecords` stays below its capacity.

`ImplementsSendQueue` maps reserved slots to accepted records, memory-visible ones to available
ones and `written` to sent ones; it checks fairness too.

### WebsocketService

A caller is a user thread or a service thread inside a callback. `pc` is the step inside
`start_websocket_service()` or `stop_websocket_service()`; `seen` is the local copy of
`service_state_` that a failed compare-and-swap reloads; `loc` is the step of the service loop.
`since` is a ghost: the threads that existed when a shutdown() began and have not been joined.
`JoinThen` is `std::thread::join`. The constructor may throw (`StartCreate`), which leaves `starting`
for good (section 6). The service thread's
program counter visits every read of `run_`, `busy_poll_` and the stop flag separately.

### WebsocketSession

`ses[i]` is the i-th `Impl`; `impl` is `impl_`. `cpc` walks through `Websocket::open`, `close` and
the destructor, one step for each atomic access, so a call by the client falls between any
two steps of a handler. The service thread runs one handler (`cur`, `step`) at a time. The SSL and
the plain coroutine have the same control, and the map names lines of either. Whoever ends a session
stores `DISCONNECTED` in one step and looks whether it is detached in the next (`Report`), so an `open()`
may fall between the two. `shared` is chosen at the
start: a shared buffer is handed on through `release_state`, a flat one is not. Errors are the two
kinds the code tells apart, expected ends and others. The ghosts `connects` and `disconnects` count
callbacks.

### HttpStream

`generation` and `status` are the two halves of `state_`, changed by one compare-and-swap; a swap
that fails is retried on what it found, so only the successful one is a step. `posted` is the
strand's queue. A `serve_sessions()` coroutine is a record in `loop`: where it is, the generation it
serves, and whether what it awaits is pending. A composed operation (a handshake, a write, a header
read) is several reads or writes: `Ready` completes one, `Continue` starts the next from the
operation's own handler, and `RunCancel` reaches only what is pending. A callback is
decided by a look at the generation, begins in a step of its own (`CallbackBegins`) and returns in a
third, so other threads may close in between. The ghost `after_close` has the generation of a session
that runs on after its `close()`, once a callback of it has been running since. A callback may throw: a `std::exception` is caught by `run_session()`, anything else ends `serve_sessions()`
(`Throw`), and `escaped` remembers the generation, which gets no onDisconnected.

### SharedService, HttpStreamService

`call[c]` is where a thread is inside `start_service()` or `shutdown()`; `stopped` counts the contexts
that are stopped, in the order the code stops them, and `threads` the threads that run each.
`restart()` and the creation of the threads are one step (`Create`), and so are the joins and the store
of `stopped` (`Join`): nobody else acts on these between, which is what `OneOwner` says. A thread that
is being joined ends when the handler it is running has returned. How many threads there are is chosen
by `Create`, whatever `set_service_threads()` or `set_callback_threads()` has been given by then.

`HttpStreamService` puts the stream on one of the two executors (`use_service_`). Each of its actions is
one of `HttpStream`, allowed only while a thread runs the executor (`Handler`, `Completion`), or one of
the service. A stop leaves handlers, completions and suspended coroutines where they are. `OpenOther` is
another stream that starts the same service. A strand serializes whatever number of threads runs it, so
the model need not have several.

### HttpService, HttpExchange, SyncRequest, Http

`Outcomes` gives what a step of the exchange may lead to: the next step, the end, or an error. A request
in `HttpService` is a record that goes from `call` (inside `async_*()`) through `session`, `deliver`
(the exchange is over), `checked` (its epoch was compared) to where its callback is: `posted` to the
caller's executor, `inline` on the I/O thread, or `queued`, `calling` on a callback thread; `dropped`
and `done` are ends. The comparison of the epoch and what follows it are two steps, with a `shutdown()`
in between if it likes. The callback queue is a set: nothing here depends on the order in which
callback threads take from it. `abandoned` is a ghost: what a `shutdown()` found in flight.

`SyncRequest` has a step for every load, exchange and compare-and-swap on a slot, and `halted` for the
contexts that have run out of work. The pool has `Slots` slots, 16 in the code. `Http` runs both kinds
of request; `Programs` lists which calls a program makes, since the kinds share nothing that changes.

### SseParser

`rest` is what `feed()` has still to parse of the current piece, and a step is one round of its loop.
Characters are a constant, of which CR, LF, the space and those of the field's name are told apart;
TLC has those of `data:`, the space, CR, LF and another. `EventsMatch` defines the events on the whole
body, position by position and from the header's comment, not from the parser: `IsEnd` says where a line
ends, `LineUpTo` what has been read of the current one, `AddLine` what a line does to the event, and
`ParsedTo` is what the lines so far have come to.

### LogHooks

A node is named by the call that published it. `Publish` is the exchange, `Retire` and `Push` the
lock-free push of the replaced node; `ShouldLog` and `LogMessage` are the two loads of a macro.

## 3. Runs

| run | bounds | shows |
|---|---|---|
| `write_chain` | 3 senders, 3 records | one chain, order, no record stranded, every record written, implements SendQueue |
| `ws_service` | 2 users, 2 thread identifiers, 4 calls | exclusive ownership, no thread lost, no revival, shutdown returns and has joined, a requested stop ends, busy polling takes effect |
| `ws_session` | 2 sessions | buffer exclusive, callbacks ordered and not mixed, closed stays closed, a close ends, an end is reported to a client that lets it be, the handoff happens |
| `http_stream` | 2 callers; 3 generations on the caller's executor or 2 on the service, 1 shutdown; room for 2 loops | one loop, generations in order, ends and cancels meet their own session, one callback at most after a close, nothing runs on a stopped service, and what a shutdown left is served and reported once the service runs again |
| `http` | 2 asynchronous requests and a shutdown; 1 and two shutdowns; 3 synchronous requests, 2 slots; 0 or 1 callback threads | one owner of the threads, abandoned requests stay silent, every request reported, callbacks hold up no I/O, an io_context has one user |
| `sse_parser` | bodies of 5 pieces of up to 4 characters | the events do not depend on the split |
| `ws_disconnected_once`, `ws_end_reported`, `ws_superseded_silent`, `http_stream_lost_cancel`, `http_lost_callback`, `log_hooks` | as small as shows it | the findings of section 6 |

Why the bounds are enough. Three records: one left behind, one being written, one being published.
Three senders: two that race for the gate beside the service thread sending from a callback. Four
calls: an open, a shutdown from a callback, and two calls that meet over what it left behind. Two
thread identifiers: a second service thread would be seen. Two sessions: one superseded by
another, which waits for its buffer, and is closed or destroyed while it waits. A session that waits
behind one that was cancelled while it waited takes a third: the safety of any number is proved, and
liveness beyond two is neither checked nor proved. A client that calls `open()` once more gets as far as
the looks that may let it return (`OpenDetach`). Three generations: one closed before its session began
while another ends and a third is opened; on the service two, one that meets the shutdown and one that
may start the service again. Two asynchronous requests: one that is abandoned or late, and one that
restarts the service; two shutdowns that meet. Three synchronous requests: one that parks, two that
race for what it parked; two slots: a pool that is passed over and one that is full. Five pieces: a
line, its end split in two, and a blank line after it. `CHECK_DEADLOCK FALSE` everywhere, because
every model may stop: clients stop calling, bounds are reached, all is closed.

Fairness, and what in the code justifies it. A thread inside a call runs on, and a callback
returns (weak fairness). Handlers that are posted run although others keep arriving: the
io_context runs ready handlers in order (strong fairness, since another handler can be chosen
each time). Store buffers drain. The network: connecting, handshakes and
closing are under Beast's timeouts, so they end; a write completes or fails. `HttpStream` assumes
nothing else of the server in `Spec`; `ServiceFairness` adds that a server which has sent part of a
message sends the rest, which `http_stream` needs (section 6 shows why) and the code does not
guarantee. The steps of an HTTP exchange are under a timeout each, and the look-up of a name ends.
Nothing is assumed of a user's callback on the HTTP service: `RequestsReported` says itself that
callbacks return, and `NeverHeldUp` does without. Nothing forces a client to open, to close or to
restart a service: where a property is about a service that comes back, it says so (`StaysUp`).

## 4. Proofs

All of this holds for every number of senders, records, users, threads, sessions, loops, generations,
requests, slots and calls. Each `IInv` was first checked by TLC on the instance of its run.

**WriteChainProofs** (`Invariance`): `IInv` is `TypeOK` and five parts. `Room` bounds the slots.
`SlotsHeld`: each slot belongs to its sender, and is stored and visible as far as the sender's step
says. `GateHeld`: the flag is set exactly while somebody owns the chain (a claimed sender, a posted
wakeup, a parked chain, a draining handler, a write), of whom there is one. `CursorHeld`: what is
written and in flight is what lies before the cursor. `Covered`: a visible record with no owner has
a sender that has yet to look at the gate, or the chain's probe has yet to look at the queue. That
last part is the argument of the two fences, and the others are what it takes to make it inductive.
From it follow `TypeCorrect`, `SingleChain`, `OrderedWrites`, `NothingStranded`, and `Refinement`:
every step of `WriteChain` is a step of `SendQueue` or a stutter.

**WebsocketServiceProofs** (`Invariance`): `IInv` adds to the safety properties what the state says
about its owner (`OwnerState`), where there is no thread (`NoThreadLeft`), and what a shutdown has
still to see joined (`StillToJoin`). From it follow `TypeCorrect`, `OneOwner`, `NoThreadLost`,
`ShutdownKeepsPromise`, the action property `StopIsFinal`, and `OwnershipKept` (below).

**WebsocketSessionProofs** (`Invariance`): `IInv` says what a session is like by itself (`Lives`: it
reads only between its onConnected and its release, and nothing is counted before its network was up)
and at each step of the handler that the one service thread is running (`Handled`), and where the
client is in `open()` or `close()` (`Calls`). `Superseded`: a session before the current one was told
so, and was closed or will find out before it connects; with `NewestOnly` it makes an earlier session's
callback after a later onConnected impossible, although `open()` does not wait for anything. `Waits` and
`Handoff` are the chain of buffers: whoever has started, has released or is being run has every earlier
session's buffer released, and a released session neither reads nor runs. That is what
`BufferExclusive` needs to survive a session that is cancelled while it waits and hands on what it
never had. From it follow `TypeCorrect`, `OneReader`, `EventsInOrder`, `OnlyTheNewest`, and the action
property `ClosedForGood`.

**HttpStreamProofs** (`Invariance`): `LoopServes` says which generation a loop has taken up at which of
its steps, and `ReportedOnce` that a generation is reported exactly when it was taken up, is not the one
being served, and was not lost to an exception. With `OneLoop` these make the count of `disconnects`
follow from `served_generation`; `EndedWhenReported` and `ConnectedHasSession` are then inductive. From
it follow `TypeCorrect`, `SingleLoop`, `InOrder`, `EndedBeforeReported`, `ConnectedIsServed`, and the
action properties `OwnGenerationEnded`, `OneAfterClose`, `NextSpared`. `OneAfterClose` has an
invariant of its own beside `IInv`, `NoneComes`: a generation in `after_close` has ended, and no callback
of it has been decided that is still to begin. All need only `Safety`, the specification without its
fairness.

**HttpStreamServiceProofs**: every step of the composition is a step of `HttpStream` or leaves it alone
(`StreamOnService`), so all of the above holds of a stream on a service that stops and starts
(`SafeOnService`). `QuietWhenStopped` needs that a service is stopped only by the one owner of its
threads, and with all of them joined (`StoppedHasNoThreads`): `StoppedIsQuiet`, `OneOwnerOnService`.

**HttpServiceProofs** (`Invariance`): `OneOwner` is inductive with the types. `AbandonedSilent` is not:
it needs that no request is of an epoch to come (`Epochs`), and that one which was abandoned is of an
earlier epoch or the shutdown that abandoned it is about to bump it (`AbandonedEarlier`); with the join,
which waits for what runs, nothing of an earlier epoch is left acting once the shutdown is over, and
later comparisons drop it. From it follow `OneOwnerAlways` and `AbandonedNeverCalls`. The theorems
assume that calls of `async_*()` and of `shutdown()` are different calls (`Disjoint`).

**The promise of the three services** (`OwnershipKept` in `WebsocketServiceProofs`, `HttpServiceProofs`
and `HttpStreamServiceProofs`). The three keep their `std::thread` objects without a lock, each in code of
its own. `ThreadOwnership` says what that takes: one call at a time has the threads, it creates new ones
only where none is left to be joined, and a stop leaves none. Each service implements it, by a mapping
that reads `starter` and `stopper` off the place where its calls are, and `joinable` off its threads; the
WebSocket service's is the longest, with calls from its own thread that leave their join to the next
start. For the other two, `Create` needs that a service that is claimed has no threads left (`NoneLeft`),
and for Http that a call not yet made is nowhere in the service (`NotYetCalled`), or a claim could begin
in the middle of another. TLC was first made to check each refinement on the instance of its run; no run
of its own is kept for it, the theorem being about every instance.

**SseParserProofs** (`Invariance`, `SplitMakesNoDifference`): `EventsMatch` says nothing until a piece is
read to its end. `IInv` says it at every character. `RestLeft`: what is left to parse is the end of the
body so far. `CRLFSkipped`: `after_cr_` is set, from one piece to the next, exactly behind a CR, and
otherwise no round begins at the LF of a CRLF, so the second half of a line end is never taken for a
blank line. `LineSoFar`: the events are those of the lines before, and the state, the match count and the
data are what the characters of the line so far have to come to (`HasRead`). Then `FeedStep` says that a
longer body has the same `LineUpTo` and `ParsedTo` up to the old one's end (`LineExtended`,
`ParsedExtended`); `Consumes` that `consume_line_content()` keeps `HasRead`, wherever in the field's name
or its value the characters are cut, and `NoLineEnds` that the definition sees no end among them;
`LineAdded` that `end_line()` does to the event what `AddLine` does. The bodies, the splits, the
characters and the name of the field are arbitrary. `ParsedTo` is defined by recursion, and what is said
of it takes induction: `Induction` derives it from the least element of a set of numbers (`Least`), the
library's theorems being about predicates, which the provers cannot be given.

**HttpProofs**. Of `SyncRequest` (`SyncInvariance`): `ContextExclusive` needs that a call that holds a
context has one (`HasContext`) and that the context a call may yet make is nowhere so far (`NotYetMade`).
From it follows `OneUser`. Of the composition: a step of a program is a step of one kind of request and leaves the variables of the
other alone (`OneKindMoves`). So `HttpSpec` implies the `Spec` of `HttpService`, its fairness included
(`ImplementsService`), and the safety of `SyncRequest` (`ImplementsSync`; its fairness would take
ENABLED), and what is proved of the two holds of any program (`SafeProgram`).

The other assumptions are those on the constants, which TLC evaluates in the runs.

Every safety invariant and every action property of the passing runs is proved. Only model-checked: every
liveness property (fairness and ENABLED), and the liveness half of `ImplementsSendQueue`, whose safety
half is `Refinement`. The properties of section 6 do not hold.

## 5. Not modelled

Left out as components: the TLS context (one compare-and-swap between callers that each build a
context; loading trust roots is calls into OpenSSL), URL parsing (a pure function over strings), the
stream buffers (instantiations of an external template), examples and benchmarks.

Inside the modelled ones: logging and counters; the contents of messages; `send()` of an oversized
payload; callbacks other than onConnected that throw out of a WebSocket handler; a stop of the
WebSocket service under a session or a write chain (`websocket_running()` is taken to be true); an
HTTP callback that throws something other than a `std::exception`, which ends the program; a
`std::thread` constructor that throws in the HTTP services; the awaitable requests, which are one
exchange on the caller's executor; memory orders beyond the gate's; the lifetime of objects after
`shared_ptr` release; what is destroyed at program exit.

## 6. Where code and text disagree

- `impl.hpp:290`: a `close()` during onConnected reports onDisconnected twice
  (`ws_disconnected_once`).
- `impl.hpp:290`, `558`, `609`: a session stores `DISCONNECTED` and then looks whether it is detached
  (`291`, `559`, `610`). A client on another thread that waits for `DISCONNECTED`, as `websocket.hpp:97-99`
  and `README.md:626` tell it to, and calls `open()` in between silences the session it waited for
  (`ws_end_reported`). `EndReportedIfKept` is what does hold: a session that is not superseded before it
  has reported its end reports it.
- `impl.hpp:291`: a session superseded in its own onError still reports onDisconnected, where
  `CHANGELOG.md:128` says it is silent (`ws_superseded_silent`).
- `src/http_stream.cpp:252`: a cancel that falls between two reads of one operation is lost, and
  with a silent server onDisconnected does not follow (`http_stream_lost_cancel`).
- `src/http.cpp:328`: a request made while `shutdown()` is between its epoch and its stops completes at
  once, and its callback is queued for callback threads; a service restarted with none never calls it,
  where lines 362-363 say the request is queued until a later one restarts the service
  (`http_lost_callback`).
- `include/slick/net/logging.hpp:100`: the two loads of a log macro may meet two installations, where
  lines 27-28 say that a new handler is never paired with the previous getter (`log_hooks`).

- `src/http_stream.cpp:485`, `499`: the session looks at the generation, or swaps the status to
  `CONNECTED`, and then calls; a `close()` on another thread may return between the two, and the callback
  begins after it. `README.md:751` and `http_stream.hpp:68-69` say that after `close()` the session makes
  no more `onConnected`, `onData` or `onError` calls, "a callback already running finishes". What holds, and
  is checked and proved, is that at most one such callback runs after `close()`: the one that is running,
  or the one that was decided on (`OneCallbackAfterClose`). `CallbackBegins` with the generation closed is
  the step that disagrees, and `http_stream` reaches it; no run of its own is kept for it.

Seen without a run of their own: a `std::thread` constructor that throws (`src/websocket.cpp:129`,
`src/http_stream.cpp:80`, `src/http.cpp:377`) leaves the service `starting` for ever, and every
`shutdown()` waits for it; an exception that is no `std::exception` costs an HttpStream session its
onDisconnected (`src/http_stream.cpp:364`; the properties of `http_stream` except such a generation
through `escaped`) and, in an HTTP callback, ends the program (`src/http.cpp:355`); a stream that is
still CONNECTED when its service is shut down does nothing on `open()`; a `Websocket::close()` that finds a
deferred `open()` not started and sets its flag (`impl.hpp:775-777`) after the deferred session has looked
at it (`impl.hpp:239`) returns true and the session comes up, a window that `CHANGELOG.md:118` ("can now
cancel a pending deferred `open()` before the new session starts") does not speak of.

## 7. Plan

Done: the write chain, the WebSocket service and session, the stream and its service, the HTTP
requests, the parser and the hooks; the theorems of section 4, which leave none of the passing runs'
safety properties to TLC alone, and the one promise that the three services keep.

Left, in this order:

1. The list of retired log hooks: that no node is lost from it.
2. The WebSocket service composed with the write chain: wakeups that wait over a stop and a restart.
3. The TLS context.
