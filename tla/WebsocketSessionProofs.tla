----------------------- MODULE WebsocketSessionProofs ------------------------
(***************************************************************************)
(* For every number of sessions: one session at a time has a shared read   *)
(* buffer, the callbacks of a session come in order and those of two never *)
(* mix, and a session that was closed never comes back up.                 *)
(***************************************************************************)
EXTENDS WebsocketSession, TLAPS

CloseSteps == {"onCloseError", "closeDone", "reportClose", "onClosed"}
Waiting == {"open", "start"}
Up == {"upgraded", "connect", "announce", "onConnected"}
Ended == {"report", "reportFailed", "reportClose", "onFailed", "onDisconnected", "onClosed"}
Down(s) == s.status >= DISCONNECTING

\* A session by itself, before its network is up and after.
LifeOf(s) ==
    /\ s.session_started <=> s.net # "none"
    /\ s.net = "none" => s.closing = "none"
    /\ s.net # "over" => /\ ~s.reading /\ s.status # CONNECTED
                         /\ s.connects = 0 /\ s.disconnects = 0
                         /\ s.closing \notin {"frame", "closing"}
    /\ s.reading => s.connects = 1
    /\ s.disconnects > 0 => s.status = DISCONNECTED
    /\ s.release_state = "released" => ~s.reading /\ s.net \in {"none", "over"}
Lives == \A i \in Sessions : LifeOf(ses[i])

\* What the session s is like at step p of its handler.
HandlerOf(s, p) ==
    /\ p \in Waiting => s.net = "none"
    /\ p \notin Waiting \cup {"release"} => s.net = "over"
    /\ p = "release" => s.net \in {"none", "over"}
    /\ p \notin CloseSteps \cup {"onWriteError"} => ~s.reading /\ s.release_state # "released"
    /\ p \in Up => s.connects = 0 /\ s.disconnects = 0
    /\ p = "connected" => s.disconnects = 0 /\ (s.connects = 1 \/ s.detached)
    /\ p = "arm" => s.connects = 1
    /\ p = "onData" => s.connects = 1 /\ s.disconnects = 0
    /\ p \in Ended => s.status = DISCONNECTED
Handled ==
    /\ step = "idle" <=> cur = NoSession
    /\ cur # NoSession => HandlerOf(ses[cur], step)

\* The session that open() has made and has not let go of.
Made == cpc \in {"openDefer", "openImpl"}
Opening == {"openClose", "openNew"}
Calls ==
    /\ cpc \notin {"idle", "openNew"} => impl >= 1
    /\ cpc \in Opening => impl < MaxSessions
    /\ cpc = "openDefer" => shared /\ impl >= 2
    /\ Made => /\ ses[impl].net = "none" /\ ses[impl].release_state = "active" /\ cur # impl
               /\ impl >= 2 => ses[impl - 1].release_state # "callbackSet"
    /\ cpc \in {"openClose", "openNew"} /\ impl >= 1 => ses[impl].detached
    /\ cpc = "closeImpl" => ses[impl].session_started

\* A session that is superseded was closed, or finds itself detached before it
\* connects.
Gone(i) == i < impl \/ (i = impl /\ cpc = "openNew")
Superseded ==
    \A i \in Sessions : Gone(i) =>
        ses[i].detached /\ (Down(ses[i]) \/ ses[i].net \in {"none", "spawned"})

\* The handoff: a session waits for the release of the one before, and takes the
\* buffer once all before it have released it.
Waits ==
    \A i \in Sessions : ses[i].release_state = "callbackSet" =>
        /\ i < impl
        /\ ses[i + 1].net = "none" /\ ses[i + 1].release_state # "released"
        /\ cur # i + 1
        /\ ~(Made /\ impl = i + 1)
HasBuffer(j) ==
    \/ ses[j].session_started \/ ses[j].release_state = "released" \/ cur = j
    \/ (cpc = "openImpl" /\ impl = j)
Handoff ==
    /\ shared => \A i, j \in Sessions : i < j /\ HasBuffer(j) => ses[i].release_state = "released"
    /\ ~shared => \A i \in Sessions : ses[i].release_state = "active"

IInv ==
    /\ TypeOK /\ Lives /\ Handled /\ Calls
    /\ Superseded /\ Waits /\ Handoff /\ NewestOnly

-----------------------------------------------------------------------------

LEMMA InitEstablishes == Init => IInv
<1>. SUFFICES ASSUME Init PROVE IInv
    OBVIOUS
<1> USE MaxSessionsAssumption DEF Init, NewImpl, NoSession
<1>1. NewImpl \in Impl
    BY DEF Impl, CONNECTING, DISCONNECTED
<1>2. TypeOK
    BY <1>1 DEF TypeOK, ClientSteps, HandlerSteps
<1>3. Lives
    BY DEF Lives, LifeOf, CONNECTED, DISCONNECTED
<1>4. Handled /\ Calls
    BY DEF Handled, Calls, Made, Opening
<1>5. Superseded /\ Waits
    BY DEF Superseded, Gone, Waits, Sessions
<1>6. Handoff
    BY DEF Handoff, HasBuffer, Sessions
<1>7. NewestOnly
    BY DEF NewestOnly
<1>. QED
    BY <1>2, <1>3, <1>4, <1>5, <1>6, <1>7 DEF IInv

\* What TypeOK says of one session.
LEMMA Typed ==
    ASSUME TypeOK, NEW i \in Sessions
    PROVE  /\ ses[i] \in Impl
           /\ i > impl => ses[i] = NewImpl
           /\ ses[i].status \in 0..3 /\ ses[i].connects \in Nat /\ ses[i].disconnects \in Nat
    BY DEF TypeOK, Impl, CONNECTING, DISCONNECTED

\* close() of a session: the status is at least DISCONNECTING, and goes no lower
\* than it was.
LEMMA ClosedKeeps ==
    ASSUME NEW s \in Impl
    PROVE  /\ Closed(s) \in Impl
           /\ Down(Closed(s)) /\ Closed(s).status >= s.status
           /\ Down(s) => Closed(s) = s
           /\ LifeOf(s) /\ s.net # "none" => LifeOf(Closed(s))
           /\ Closed(s).net = s.net /\ Closed(s).detached = s.detached
           /\ Closed(s).session_started = s.session_started
           /\ Closed(s).release_state = s.release_state
           /\ Closed(s).reading = s.reading
           /\ Closed(s).connects = s.connects /\ Closed(s).disconnects = s.disconnects
<1> USE DEF Down, Impl, CONNECTING, CONNECTED, DISCONNECTING, DISCONNECTED
<1>1. CASE s.status >= DISCONNECTING
    BY <1>1 DEF Closed
<1>2. CASE ~(s.status >= DISCONNECTING)
    <2>1. s.status \in {CONNECTING, CONNECTED}
        BY <1>2
    <2>2. PICK to \in {"socket", "frame"} :
            /\ Closed(s) = [s EXCEPT !.status = DISCONNECTING, !.closing = to]
            /\ to = "frame" => s.status = CONNECTED
        <3>1. Closed(s) = [s EXCEPT !.status = DISCONNECTING,
                                    !.closing = IF s.status = CONNECTING THEN "socket" ELSE "frame"]
            BY <1>2 DEF Closed
        <3>2. CASE s.status = CONNECTING
            BY <3>1, <3>2
        <3>3. CASE s.status = CONNECTED
            BY <3>1, <3>3
        <3>. QED
            BY <2>1, <3>2, <3>3
    <2>3. Closed(s) \in Impl /\ Closed(s).status = DISCONNECTING
        <3>1. [s EXCEPT !.status = DISCONNECTING, !.closing = to] \in Impl
            <4>1. ASSUME NEW t \in Impl PROVE [t EXCEPT !.closing = to] \in Impl
                OBVIOUS
            <4>2. [s EXCEPT !.status = DISCONNECTING] \in Impl
                OBVIOUS
            <4>3. [[s EXCEPT !.status = DISCONNECTING] EXCEPT !.closing = to] \in Impl
                BY <4>1, <4>2
            <4>. QED
                BY <4>3
        <3>2. [s EXCEPT !.status = DISCONNECTING, !.closing = to].status = DISCONNECTING
            OBVIOUS
        <3>. QED
            BY <2>2, <3>1, <3>2
    <2>4. /\ Closed(s).net = s.net /\ Closed(s).detached = s.detached
          /\ Closed(s).session_started = s.session_started
          /\ Closed(s).release_state = s.release_state
          /\ Closed(s).reading = s.reading
          /\ Closed(s).connects = s.connects /\ Closed(s).disconnects = s.disconnects
          /\ Closed(s).closing = to
        BY <2>2
    <2>5. LifeOf(s) /\ s.net # "none" => LifeOf(Closed(s))
        BY <2>1, <2>2, <2>3, <2>4 DEF LifeOf
    <2>. QED
        BY <1>2, <2>1, <2>3, <2>4, <2>5
<1>. QED
    BY <1>1, <1>2

\* A session that gives up before it is connected.
LEMMA GaveUpKeeps ==
    ASSUME NEW s \in Impl
    PROVE  /\ GaveUp(s) \in Impl
           /\ GaveUp(s) = [s EXCEPT !.status = GaveUp(s).status]
           /\ GaveUp(s).status = IF s.status = CONNECTING THEN DISCONNECTED ELSE s.status
           /\ GaveUp(s).status >= s.status
           /\ LifeOf(s) => LifeOf(GaveUp(s))
    BY DEF GaveUp, LifeOf, Impl, CONNECTING, CONNECTED, DISCONNECTING, DISCONNECTED

\* A session that starts, which none but one that never did.
LEMMA StartedKeeps ==
    ASSUME NEW s \in Impl, LifeOf(s), s.net = "none", s.release_state # "released"
    PROVE  /\ Started(s) \in Impl /\ LifeOf(Started(s))
           /\ Started(s).net = "spawned"
           /\ Started(s).release_state = s.release_state /\ Started(s).detached = s.detached
<1>1. PICK t \in Impl : t = [s EXCEPT !.status = CONNECTING]
    <2>1. [s EXCEPT !.status = CONNECTING] \in Impl
        BY DEF Impl, CONNECTING, DISCONNECTED
    <2>. QED
        BY <2>1
<1>2. PICK u \in Impl : u = [t EXCEPT !.session_started = TRUE]
    BY DEF Impl
<1>3. PICK v \in Impl : v = [u EXCEPT !.net = "spawned"]
    BY DEF Impl
<1>4. Started(s) = v
    BY <1>1, <1>2, <1>3 DEF Started
<1>5. /\ v.status = CONNECTING /\ v.session_started = TRUE /\ v.net = "spawned"
      /\ v.release_state = s.release_state /\ v.detached = s.detached /\ v.reading = s.reading
      /\ v.connects = s.connects /\ v.disconnects = s.disconnects /\ v.closing = s.closing
    BY <1>1, <1>2, <1>3 DEF Impl
<1>. QED
    BY <1>4, <1>5 DEF LifeOf, CONNECTING, CONNECTED

-----------------------------------------------------------------------------
(* The service thread.                                                     *)

\* A session whose handler runs or may be taken has been made, holds the buffer,
\* and is neither waiting for it nor new to the client.
LEMMA Busy ==
    ASSUME IInv, NEW i \in Sessions, cur = i \/ ses[i].session_started
    PROVE  /\ i <= impl /\ HasBuffer(i)
           /\ ~(Made /\ impl = i)
           /\ \A k \in Sessions : ses[k].release_state = "callbackSet" => k + 1 # i
<1>1. TypeOK /\ Lives /\ Calls /\ Waits
    BY DEF IInv
<1>2. i <= impl
    BY <1>1, MaxSessionsAssumption DEF TypeOK, NewImpl, Sessions
<1>3. ses[i].session_started => ses[i].net # "none"
    BY <1>1 DEF Lives, LifeOf
<1>4. ~(Made /\ impl = i)
    BY <1>1, <1>3 DEF Calls
<1>5. \A k \in Sessions : ses[k].release_state = "callbackSet" => k + 1 # i
    BY <1>1, <1>3 DEF Waits
<1>. QED
    BY <1>2, <1>4, <1>5 DEF HasBuffer

\* A step of a handler of session i that leaves it as s, at step p.
LEMMA ServiceMoves ==
    ASSUME IInv, NEW i \in Sessions, NEW s \in Impl, NEW p \in HandlerSteps,
           cur = i \/ ses[i].session_started,
           step' = p, cur' = IF p = "idle" THEN NoSession ELSE i,
           ses' = [ses EXCEPT ![i] = s], UNCHANGED client,
           LifeOf(s), p # "idle" => HandlerOf(s, p), ses[i].net # "none" => s.net # "none",
           s.release_state = ses[i].release_state, s.detached = ses[i].detached,
           Gone(i) => Down(s) \/ s.net \in {"none", "spawned"},
           p \in Callbacks /\ i < impl => cur = i /\ step \in Callbacks
    PROVE  IInv'
<1>1. TypeOK /\ Lives /\ Handled /\ Calls /\ Superseded /\ Waits /\ Handoff /\ NewestOnly
    BY DEF IInv
<1>2. /\ i <= impl /\ HasBuffer(i)
      /\ ~(Made /\ impl = i)
      /\ \A k \in Sessions : ses[k].release_state = "callbackSet" => k + 1 # i
    BY Busy
<1>3. \A k \in Sessions : ses'[k] = IF k = i THEN s ELSE ses[k]
    BY <1>1 DEF TypeOK
<1>4. UNCHANGED <<shared, impl, cpc>>
    BY DEF client
<1>5. impl \in Nat /\ i \in Nat /\ i >= 1 /\ impl <= MaxSessions /\ cur' \in {NoSession, i}
    BY <1>1, MaxSessionsAssumption DEF TypeOK, Sessions
<1>6. TypeOK'
    <2>1. cur' \in 0..impl
        BY <1>2, <1>5 DEF NoSession
    <2>2. ses' \in [Sessions -> Impl]
        BY <1>1 DEF TypeOK
    <2>3. \A k \in Sessions : k > impl => ses'[k] = NewImpl
        BY <1>1, <1>2, <1>3, <1>5 DEF TypeOK, Sessions
    <2>. QED
        BY <1>1, <1>4, <2>1, <2>2, <2>3 DEF TypeOK
<1>7. Lives'
    BY <1>1, <1>3 DEF Lives
<1>8. Handled'
    BY <1>3, <1>5 DEF Handled, NoSession
<1>9. Calls'
    <2>1. Made => /\ ses'[impl] = ses[impl]
                  /\ impl >= 2 => ses'[impl - 1].release_state = ses[impl - 1].release_state
        BY <1>1, <1>2, <1>3, <1>5 DEF Calls, Made, Sessions
    <2>2. impl >= 1 => /\ ses'[impl].detached = ses[impl].detached
                       /\ ses[impl].session_started => ses'[impl].session_started
        BY <1>1, <1>3, <1>5 DEF Sessions, Lives, LifeOf
    <2>3. Made' = Made
        BY <1>4 DEF Made
    <2>4. Made => cur' # impl
        BY <1>1, <1>2, <1>5 DEF Calls, Made, NoSession
    <2>5. cpc = "closeImpl" => impl >= 1
        BY <1>1 DEF Calls
    <2>. QED
        BY <1>1, <1>4, <2>1, <2>2, <2>3, <2>4, <2>5 DEF Calls
<1>10. Superseded'
    BY <1>1, <1>3, <1>4 DEF Superseded, Gone
<1>11. Waits'
    <2>1. SUFFICES ASSUME NEW k \in Sessions, ses'[k].release_state = "callbackSet"
                   PROVE  /\ k < impl
                          /\ ses'[k + 1].net = "none" /\ ses'[k + 1].release_state # "released"
                          /\ cur' # k + 1
                          /\ ~(Made' /\ impl = k + 1)
        BY <1>4 DEF Waits
    <2>2. ses[k].release_state = "callbackSet"
        BY <1>3, <2>1
    <2>3. k < impl /\ k \in Nat /\ k + 1 \in Sessions /\ k + 1 # i /\ k + 1 # NoSession
        BY <1>1, <1>2, <1>5, <2>2, MaxSessionsAssumption DEF Waits, Sessions, NoSession
    <2>. QED
        BY <1>1, <1>3, <1>4, <1>5, <2>2, <2>3 DEF Waits, Made
<1>12. Handoff'
    <2>1. \A j \in Sessions : HasBuffer(j)' => HasBuffer(j)
        BY <1>2, <1>3, <1>4, <1>5 DEF HasBuffer, NoSession, Sessions
    <2>. QED
        BY <1>1, <1>3, <1>4, <2>1 DEF Handoff
<1>13. NewestOnly'
    <2>1. SUFFICES ASSUME NEW k \in Sessions, NEW j \in Sessions, k < j, ses'[j].connects > 0,
                          cur' = k, step' \in Callbacks
                   PROVE  FALSE
        BY DEF NewestOnly
    <2>2. k = i /\ ses'[j] = ses[j]
        BY <1>3, <1>5, <2>1 DEF NoSession, Sessions
    <2>3. CASE i < impl
        BY <1>1, <2>1, <2>2, <2>3 DEF NewestOnly
    <2>4. CASE ~(i < impl)
        <3>1. ses[j] = NewImpl
            BY <1>1, <1>2, <1>5, <2>1, <2>2, <2>4 DEF TypeOK, Sessions
        <3>. QED
            BY <2>1, <2>2, <3>1 DEF NewImpl
    <2>. QED
        BY <2>3, <2>4
<1>. QED
    BY <1>6, <1>7, <1>8, <1>9, <1>10, <1>11, <1>12, <1>13 DEF IInv

\* What is known of the session whose handler runs.
LEMMA Running ==
    ASSUME IInv, NEW i \in Sessions, NEW from, At(i, from)
    PROVE  /\ ses[i] \in Impl /\ LifeOf(ses[i]) /\ HandlerOf(ses[i], from)
           /\ ses[i].status \in 0..3 /\ ses[i].connects \in Nat /\ ses[i].disconnects \in Nat
<1>1. TypeOK /\ Lives /\ Handled
    BY DEF IInv
<1>2. cur = i /\ step = from /\ i # NoSession
    BY DEF At, Sessions, NoSession
<1>. QED
    BY <1>1, <1>2, Typed DEF Lives, Handled

\* A step within a handler.  A callback is decided while the session is not
\* detached, or follows another of the same handler.
LEMMA RunMoves ==
    ASSUME IInv, NEW i \in Sessions, NEW from, NEW p \in HandlerSteps, NEW s \in Impl, Run(i, from, p, s),
           LifeOf(s), p # "idle" => HandlerOf(s, p), ses[i].net # "none" => s.net # "none",
           s.release_state = ses[i].release_state, s.detached = ses[i].detached,
           Down(ses[i]) => Down(s), ses[i].net \in {"none", "spawned"} => s.net \in {"none", "spawned"},
           p \in Callbacks => from \in Callbacks \/ ~ses[i].detached
    PROVE  IInv'
<1>1. Gone(i) => ses[i].detached /\ (Down(ses[i]) \/ ses[i].net \in {"none", "spawned"})
    BY DEF IInv, Superseded
<1>2. i < impl => Gone(i)
    BY DEF Gone
<1>3. /\ cur = i /\ step = from /\ step' = p /\ cur' = IF p = "idle" THEN NoSession ELSE i
      /\ ses' = [ses EXCEPT ![i] = s] /\ UNCHANGED client
    BY DEF Run, At
<1>. QED
    BY <1>1, <1>2, <1>3, ServiceMoves

\* One that leaves the session as it is.
LEMMA Goes ==
    ASSUME IInv, NEW i \in Sessions, NEW from, NEW p \in HandlerSteps, Run(i, from, p, ses[i]),
           p # "idle" => HandlerOf(ses[i], p),
           p \in Callbacks => from \in Callbacks \/ ~ses[i].detached
    PROVE  IInv'
<1>1. ses[i] \in Impl /\ LifeOf(ses[i])
    BY Running DEF Run
<1>. QED
    BY <1>1, RunMoves

\* The steps from the end of the handshakes to the first read.
LEMMA UpStep ==
    ASSUME IInv, NEW i \in Sessions,
           Upgraded(i) \/ Connect(i) \/ Announce(i) \/ OnConnectedReturns(i) \/ Connected(i) \/ Arm(i)
    PROVE  IInv'
<1> USE DEF HandlerSteps, Callbacks, CloseSteps, Waiting, Up, Ended
<1>1. ASSUME NEW from, At(i, from)
      PROVE  /\ ses[i] \in Impl /\ LifeOf(ses[i]) /\ HandlerOf(ses[i], from)
             /\ ses[i].status \in 0..3 /\ ses[i].connects \in Nat /\ ses[i].disconnects \in Nat
    BY <1>1, Running
<1>2. CASE Upgraded(i)
    <2>1. ses[i] \in Impl /\ LifeOf(ses[i]) /\ HandlerOf(ses[i], "upgraded") /\ ses[i].status \in 0..3
        BY <1>1, <1>2 DEF Upgraded, Run
    <2>2. CASE Run(i, "upgraded", "completed", GaveUp(ses[i]))
        <3> DEFINE s == GaveUp(ses[i])
        <3>1. /\ s \in Impl /\ LifeOf(s) /\ s = [ses[i] EXCEPT !.status = s.status] /\ s.status >= ses[i].status
              /\ s.status \in 0..3
            BY <2>1, GaveUpKeeps DEF Impl, CONNECTING, DISCONNECTED
        <3>2. HandlerOf(s, "completed") /\ s.release_state = ses[i].release_state /\ s.detached = ses[i].detached
              /\ s.net = ses[i].net
            BY <2>1, <3>1 DEF HandlerOf, Impl
        <3>3. Down(ses[i]) => Down(s)
            BY <2>1, <3>1 DEF Down, DISCONNECTING
        <3> HIDE DEF s
        <3>. QED
            BY <2>2, <3>1, <3>2, <3>3, RunMoves DEF s
    <2>3. CASE Run(i, "upgraded", "connect", ses[i])
        BY <2>1, <2>3, Goes DEF HandlerOf
    <2>. QED
        BY <1>2, <2>2, <2>3 DEF Upgraded
<1>3. CASE Connect(i)
    <2>1. ses[i] \in Impl /\ LifeOf(ses[i]) /\ HandlerOf(ses[i], "connect") /\ ses[i].status \in 0..3
        BY <1>1, <1>3 DEF Connect, Run
    <2>2. CASE ses[i].status = CONNECTING /\ Run(i, "connect", "announce", [ses[i] EXCEPT !.status = CONNECTED])
        <3>1. PICK s : s = [ses[i] EXCEPT !.status = CONNECTED]
            OBVIOUS
        <3>2. s \in Impl /\ LifeOf(s) /\ HandlerOf(s, "announce") /\ s.release_state = ses[i].release_state
              /\ s.detached = ses[i].detached /\ s.net = ses[i].net
            BY <2>1, <2>2, <3>1 DEF HandlerOf, LifeOf, Impl, CONNECTING, CONNECTED, DISCONNECTED
        <3>3. ~Down(ses[i])
            BY <2>2 DEF Down, CONNECTING, DISCONNECTING
        <3>. QED
            BY <2>2, <3>1, <3>2, <3>3, RunMoves
    <2>3. CASE Run(i, "connect", "completed", ses[i])
        BY <2>1, <2>3, Goes DEF HandlerOf
    <2>. QED
        BY <1>3, <2>2, <2>3 DEF Connect
<1>4. CASE Announce(i)
    <2>1. HandlerOf(ses[i], "announce")
        BY <1>1, <1>4 DEF Announce, Run
    <2>2. CASE ses[i].detached
        BY <1>4, <2>1, <2>2, Goes DEF Announce, HandlerOf
    <2>3. CASE ~ses[i].detached
        BY <1>4, <2>1, <2>3, Goes DEF Announce, HandlerOf
    <2>. QED
        BY <2>2, <2>3
<1>5. CASE OnConnectedReturns(i)
    <2>1. PICK p \in {"connected", "failed"} : Run(i, "onConnected", p, [ses[i] EXCEPT !.connects = ses[i].connects + 1])
        BY <1>5 DEF OnConnectedReturns
    <2>2. ses[i] \in Impl /\ LifeOf(ses[i]) /\ HandlerOf(ses[i], "onConnected") /\ ses[i].connects \in Nat
        BY <1>1, <2>1 DEF Run
    <2>3. PICK s : s = [ses[i] EXCEPT !.connects = ses[i].connects + 1]
        OBVIOUS
    <2>4. s \in Impl /\ LifeOf(s) /\ HandlerOf(s, p) /\ s.release_state = ses[i].release_state
          /\ s.detached = ses[i].detached /\ s.net = ses[i].net /\ s.status = ses[i].status
        BY <2>2, <2>3 DEF HandlerOf, LifeOf, Impl
    <2>. QED
        BY <2>1, <2>3, <2>4, RunMoves DEF Down
<1>6. CASE Connected(i)
    <2>1. HandlerOf(ses[i], "connected")
        BY <1>1, <1>6 DEF Connected, Run
    <2>2. CASE Run(i, "connected", "completed", ses[i])
        BY <2>1, <2>2, Goes DEF HandlerOf
    <2>3. CASE ~ses[i].detached /\ Run(i, "connected", "arm", ses[i])
        BY <2>1, <2>3, Goes DEF HandlerOf
    <2>. QED
        BY <1>6, <2>2, <2>3 DEF Connected
<1>7. CASE Arm(i)
    <2>1. Run(i, "arm", "idle", [ses[i] EXCEPT !.reading = TRUE])
        BY <1>7 DEF Arm
    <2>2. ses[i] \in Impl /\ LifeOf(ses[i]) /\ HandlerOf(ses[i], "arm")
        BY <1>1, <2>1 DEF Run
    <2>3. PICK s : s = [ses[i] EXCEPT !.reading = TRUE]
        OBVIOUS
    <2>4. s \in Impl /\ LifeOf(s) /\ s.release_state = ses[i].release_state
          /\ s.detached = ses[i].detached /\ s.net = ses[i].net /\ s.status = ses[i].status
        BY <2>2, <2>3 DEF HandlerOf, LifeOf, Impl
    <2>. QED
        BY <2>1, <2>3, <2>4, RunMoves DEF Down
<1>. QED
    BY <1>2, <1>3, <1>4, <1>5, <1>6, <1>7

\* The last status a session takes.
LEMMA DownKeeps ==
    ASSUME NEW t \in Impl, LifeOf(t), NEW s, s = [t EXCEPT !.status = DISCONNECTED]
    PROVE  /\ s \in Impl /\ LifeOf(s) /\ Down(s) /\ s.status = DISCONNECTED
           /\ s.net = t.net /\ s.detached = t.detached /\ s.release_state = t.release_state
           /\ s.reading = t.reading /\ s.connects = t.connects /\ s.disconnects = t.disconnects
    BY DEF LifeOf, Down, Impl, CONNECTING, CONNECTED, DISCONNECTING, DISCONNECTED

\* One more onDisconnected, of a session that is DISCONNECTED.
LEMMA ReportKeeps ==
    ASSUME NEW t \in Impl, LifeOf(t), t.status = DISCONNECTED, t.net = "over",
           NEW s, s = [t EXCEPT !.disconnects = t.disconnects + 1]
    PROVE  /\ s \in Impl /\ LifeOf(s) /\ s.status = t.status
           /\ s.net = t.net /\ s.detached = t.detached /\ s.release_state = t.release_state
           /\ s.reading = t.reading /\ s.connects = t.connects
    BY DEF LifeOf, Impl

\* The completion handler of a session that never read, and the callbacks that tell
\* of its end.
LEMMA EndStep ==
    ASSUME IInv, NEW i \in Sessions,
           Complete(i) \/ Report(i) \/ OnFailedReturns(i) \/ OnDisconnectedReturns(i)
    PROVE  IInv'
<1> USE DEF HandlerSteps, Callbacks, CloseSteps, Waiting, Up, Ended
<1>1. ASSUME NEW from, At(i, from)
      PROVE  ses[i] \in Impl /\ LifeOf(ses[i]) /\ HandlerOf(ses[i], from)
    BY <1>1, Running
<1>2. CASE Complete(i)
    <2>1. PICK from \in {"completed", "failed"}, p \in {"report", "release", "reportFailed"} :
            Run(i, from, p, [ses[i] EXCEPT !.status = DISCONNECTED])
        BY <1>2 DEF Complete
    <2>2. PICK s : s = [ses[i] EXCEPT !.status = DISCONNECTED]
        OBVIOUS
    <2>3. ses[i] \in Impl /\ LifeOf(ses[i]) /\ HandlerOf(ses[i], from)
        BY <1>1, <2>1 DEF Run
    <2>4. /\ s \in Impl /\ LifeOf(s) /\ Down(s) /\ s.status = DISCONNECTED
          /\ s.net = ses[i].net /\ s.detached = ses[i].detached /\ s.release_state = ses[i].release_state
          /\ s.reading = ses[i].reading /\ s.connects = ses[i].connects /\ s.disconnects = ses[i].disconnects
        BY <2>2, <2>3, DownKeeps
    <2>5. HandlerOf(s, p)
        BY <2>3, <2>4 DEF HandlerOf
    <2>. QED
        BY <2>1, <2>2, <2>4, <2>5, RunMoves
<1>3. CASE Report(i)
    <2>1. PICK from \in {"report", "reportFailed", "reportClose"},
               p \in {"idle", "release", "onDisconnected", "onFailed", "onClosed"} :
            /\ Run(i, from, p, ses[i])
            /\ p \notin {"idle", "release"} => ~ses[i].detached
            /\ IF from = "reportClose" THEN p \in {"idle", "onClosed"} ELSE p \notin {"idle", "onClosed"}
        <3>1. CASE ses[i].detached
            BY <1>3, <3>1 DEF Report
        <3>2. CASE ~ses[i].detached
            BY <1>3, <3>2 DEF Report
        <3>. QED
            BY <3>1, <3>2
    <2>2. HandlerOf(ses[i], from)
        BY <1>1, <2>1 DEF Run
    <2>3. p # "idle" => HandlerOf(ses[i], p)
        BY <2>1, <2>2 DEF HandlerOf
    <2>. QED
        BY <2>1, <2>3, Goes
<1>4. CASE OnFailedReturns(i)
    <2>1. HandlerOf(ses[i], "onFailed")
        BY <1>1, <1>4 DEF OnFailedReturns, Run
    <2>2. HandlerOf(ses[i], "onDisconnected")
        BY <2>1 DEF HandlerOf
    <2>. QED
        BY <1>4, <2>2, Goes DEF OnFailedReturns
<1>5. CASE OnDisconnectedReturns(i)
    <2>1. Run(i, "onDisconnected", "release", [ses[i] EXCEPT !.disconnects = ses[i].disconnects + 1])
        BY <1>5 DEF OnDisconnectedReturns
    <2>2. PICK s : s = [ses[i] EXCEPT !.disconnects = ses[i].disconnects + 1]
        OBVIOUS
    <2>3. ses[i] \in Impl /\ LifeOf(ses[i]) /\ HandlerOf(ses[i], "onDisconnected")
        BY <1>1, <2>1 DEF Run
    <2>4. ses[i].status = DISCONNECTED /\ ses[i].net = "over"
        BY <2>3 DEF HandlerOf
    <2>5. /\ s \in Impl /\ LifeOf(s) /\ s.status = ses[i].status
          /\ s.net = ses[i].net /\ s.detached = ses[i].detached /\ s.release_state = ses[i].release_state
          /\ s.reading = ses[i].reading /\ s.connects = ses[i].connects
        BY <2>2, <2>3, <2>4, ReportKeeps
    <2>6. HandlerOf(s, "release")
        BY <2>3, <2>5 DEF HandlerOf
    <2>. QED
        BY <2>1, <2>2, <2>5, <2>6, RunMoves DEF Down
<1>. QED
    BY <1>2, <1>3, <1>4, <1>5

\* A session that waited for the buffer opens, or hands it on.
LEMMA DeferredStep ==
    ASSUME IInv, NEW i \in Sessions, OpenDeferred(i) \/ StartDeferred(i)
    PROVE  IInv'
<1> USE DEF HandlerSteps, Callbacks, CloseSteps, Waiting, Up, Ended
<1>1. ASSUME NEW from, At(i, from)
      PROVE  /\ ses[i] \in Impl /\ LifeOf(ses[i]) /\ HandlerOf(ses[i], from)
             /\ ses[i].status \in 0..3
    BY <1>1, Running
<1>2. CASE Run(i, "open", "release", GaveUp(ses[i]))
    <2>1. ses[i] \in Impl /\ LifeOf(ses[i]) /\ HandlerOf(ses[i], "open") /\ ses[i].status \in 0..3
        BY <1>1, <1>2 DEF Run
    <2>2. PICK s : s = GaveUp(ses[i])
        OBVIOUS
    <2>3. /\ s \in Impl /\ LifeOf(s) /\ s = [ses[i] EXCEPT !.status = s.status] /\ s.status >= ses[i].status
          /\ s.status \in 0..3
        BY <2>1, <2>2, GaveUpKeeps DEF Impl, CONNECTING, DISCONNECTED
    <2>4. HandlerOf(s, "release") /\ s.release_state = ses[i].release_state /\ s.detached = ses[i].detached
          /\ s.net = ses[i].net
        BY <2>1, <2>3 DEF HandlerOf, Impl
    <2>5. Down(ses[i]) => Down(s)
        BY <2>1, <2>3 DEF Down, DISCONNECTING
    <2>. QED
        BY <1>2, <2>2, <2>3, <2>4, <2>5, RunMoves
<1>3. CASE Run(i, "open", "start", ses[i])
    <2>1. HandlerOf(ses[i], "open")
        BY <1>1, <1>3 DEF Run
    <2>. QED
        BY <1>3, <2>1, Goes DEF HandlerOf
<1>4. CASE StartDeferred(i)
    <2>1. ses[i] \in Impl /\ LifeOf(ses[i]) /\ HandlerOf(ses[i], "start")
        BY <1>1, <1>4 DEF StartDeferred, Run
    <2>2. /\ cur = i /\ step' = "idle" /\ cur' = NoSession
          /\ ses' = [ses EXCEPT ![i] = Started(ses[i])] /\ UNCHANGED client
        BY <1>4 DEF StartDeferred, Run, At
    <2>3. ses[i].net = "none" /\ ses[i].release_state # "released"
        BY <2>1 DEF HandlerOf
    <2>. QED
        BY <2>1, <2>2, <2>3, ServiceMoves, StartedKeeps
<1>. QED
    BY <1>2, <1>3, <1>4 DEF OpenDeferred

\* on_read and on_write, past the callbacks they make.
LEMMA ReadStep ==
    ASSUME IInv, NEW i \in Sessions,
           OnDataReturns(i) \/ OnReadErrorReturns(i) \/ ReadFailed(i) \/ ReadDown(i) \/ OnWriteErrorReturns(i)
    PROVE  IInv'
<1> USE DEF HandlerSteps, Callbacks, CloseSteps, Waiting, Up, Ended
<1>1. ASSUME NEW from, At(i, from)
      PROVE  ses[i] \in Impl /\ LifeOf(ses[i]) /\ HandlerOf(ses[i], from)
    BY <1>1, Running
<1>2. CASE OnDataReturns(i)
    <2>1. ses[i] \in Impl /\ LifeOf(ses[i]) /\ HandlerOf(ses[i], "onData")
        BY <1>1, <1>2 DEF OnDataReturns, Run
    <2>2. PICK s : s = [ses[i] EXCEPT !.reading = TRUE]
        OBVIOUS
    <2>3. s \in Impl /\ LifeOf(s) /\ s.release_state = ses[i].release_state
          /\ s.detached = ses[i].detached /\ s.net = ses[i].net /\ s.status = ses[i].status
        BY <2>1, <2>2 DEF HandlerOf, LifeOf, Impl
    <2>. QED
        BY <1>2, <2>2, <2>3, RunMoves DEF OnDataReturns, Down
<1>3. ASSUME NEW from \in {"onReadError", "onWriteError"}, NEW p \in {"release", "idle"},
             Run(i, from, p, Closed(ses[i])), p = "release" => from = "onReadError"
      PROVE  IInv'
    <2>1. ses[i] \in Impl /\ LifeOf(ses[i]) /\ HandlerOf(ses[i], from)
        BY <1>1, <1>3 DEF Run
    <2>2. PICK s : s = Closed(ses[i])
        OBVIOUS
    <2>3. /\ s \in Impl /\ LifeOf(s) /\ Down(s)
          /\ s.net = ses[i].net /\ s.detached = ses[i].detached /\ s.release_state = ses[i].release_state
          /\ s.reading = ses[i].reading /\ s.connects = ses[i].connects /\ s.disconnects = ses[i].disconnects
        <3>1. ses[i].net # "none"
            BY <2>1 DEF HandlerOf
        <3>. QED
            BY <2>1, <2>2, <3>1, ClosedKeeps
    <2>4. p # "idle" => HandlerOf(s, p)
        BY <1>3, <2>1, <2>3 DEF HandlerOf
    <2>. QED
        BY <1>3, <2>2, <2>3, <2>4, RunMoves
<1>4. CASE ReadFailed(i)
    <2>1. PICK p \in {"readDown", "release"} : Run(i, "readFailed", p, ses[i])
        BY <1>4 DEF ReadFailed
    <2>2. HandlerOf(ses[i], "readFailed")
        BY <1>1, <2>1 DEF Run
    <2>3. HandlerOf(ses[i], p)
        BY <2>2 DEF HandlerOf
    <2>. QED
        BY <2>1, <2>3, Goes
<1>5. CASE ReadDown(i)
    <2>1. ses[i] \in Impl /\ LifeOf(ses[i]) /\ HandlerOf(ses[i], "readDown")
        BY <1>1, <1>5 DEF ReadDown, Run
    <2>2. PICK s : s = [ses[i] EXCEPT !.status = DISCONNECTED]
        OBVIOUS
    <2>3. /\ s \in Impl /\ LifeOf(s) /\ Down(s) /\ s.status = DISCONNECTED
          /\ s.net = ses[i].net /\ s.detached = ses[i].detached /\ s.release_state = ses[i].release_state
          /\ s.reading = ses[i].reading /\ s.connects = ses[i].connects /\ s.disconnects = ses[i].disconnects
        BY <2>1, <2>2, DownKeeps
    <2>4. HandlerOf(s, "report")
        BY <2>1, <2>3 DEF HandlerOf
    <2>. QED
        BY <1>5, <2>2, <2>3, <2>4, RunMoves DEF ReadDown
<1>. QED
    BY <1>2, <1>3, <1>4, <1>5 DEF OnReadErrorReturns, OnWriteErrorReturns

\* on_close.
LEMMA CloseStep ==
    ASSUME IInv, NEW i \in Sessions, OnCloseErrorReturns(i) \/ CloseDone(i) \/ OnClosedReturns(i)
    PROVE  IInv'
<1> USE DEF HandlerSteps, Callbacks, CloseSteps, Waiting, Up, Ended
<1>1. ASSUME NEW from, At(i, from)
      PROVE  ses[i] \in Impl /\ LifeOf(ses[i]) /\ HandlerOf(ses[i], from)
    BY <1>1, Running
<1>2. CASE OnCloseErrorReturns(i)
    <2>1. HandlerOf(ses[i], "onCloseError")
        BY <1>1, <1>2 DEF OnCloseErrorReturns, Run
    <2>2. HandlerOf(ses[i], "closeDone")
        BY <2>1 DEF HandlerOf
    <2>. QED
        BY <1>2, <2>2, Goes DEF OnCloseErrorReturns
<1>3. CASE CloseDone(i)
    <2>1. Run(i, "closeDone", "reportClose", [ses[i] EXCEPT !.status = DISCONNECTED])
        BY <1>3 DEF CloseDone
    <2>2. PICK s : s = [ses[i] EXCEPT !.status = DISCONNECTED]
        OBVIOUS
    <2>3. ses[i] \in Impl /\ LifeOf(ses[i]) /\ HandlerOf(ses[i], "closeDone")
        BY <1>1, <2>1 DEF Run
    <2>4. /\ s \in Impl /\ LifeOf(s) /\ Down(s) /\ s.status = DISCONNECTED
          /\ s.net = ses[i].net /\ s.detached = ses[i].detached /\ s.release_state = ses[i].release_state
        BY <2>2, <2>3, DownKeeps
    <2>5. HandlerOf(s, "reportClose")
        BY <2>3, <2>4 DEF HandlerOf
    <2>. QED
        BY <2>1, <2>2, <2>4, <2>5, RunMoves
<1>4. CASE OnClosedReturns(i)
    <2>1. Run(i, "onClosed", "idle", [ses[i] EXCEPT !.disconnects = ses[i].disconnects + 1])
        BY <1>4 DEF OnClosedReturns
    <2>2. PICK s : s = [ses[i] EXCEPT !.disconnects = ses[i].disconnects + 1]
        OBVIOUS
    <2>3. ses[i] \in Impl /\ LifeOf(ses[i]) /\ HandlerOf(ses[i], "onClosed")
        BY <1>1, <2>1 DEF Run
    <2>4. ses[i].status = DISCONNECTED /\ ses[i].net = "over"
        BY <2>3 DEF HandlerOf
    <2>5. /\ s \in Impl /\ LifeOf(s) /\ s.status = ses[i].status
          /\ s.net = ses[i].net /\ s.detached = ses[i].detached /\ s.release_state = ses[i].release_state
        BY <2>2, <2>3, <2>4, ReportKeeps
    <2>. QED
        BY <2>1, <2>2, <2>5, RunMoves DEF Down
<1>. QED
    BY <1>2, <1>3, <1>4

\* The service thread takes a handler of a session that has started.
LEMMA TakeMoves ==
    ASSUME IInv, NEW i \in Sessions, NEW p \in HandlerSteps, NEW s \in Impl, Take(i, p, s),
           ses[i].net # "none", s.net # "none", LifeOf(s), p # "idle" => HandlerOf(s, p),
           s.release_state = ses[i].release_state, s.detached = ses[i].detached,
           Gone(i) => Down(s) \/ s.net \in {"none", "spawned"},
           p \in Callbacks => ~ses[i].detached \/ ~Down(ses[i]), ses[i].net # "over" => p \notin Callbacks
    PROVE  IInv'
<1>1. Gone(i) => ses[i].detached /\ (Down(ses[i]) \/ ses[i].net \in {"none", "spawned"})
    BY DEF IInv, Superseded
<1>2. i < impl => Gone(i)
    BY DEF Gone
<1>3. ses[i].session_started
    BY DEF IInv, Lives, LifeOf
<1>4. /\ step' = p /\ cur' = IF p = "idle" THEN NoSession ELSE i
      /\ ses' = [ses EXCEPT ![i] = s] /\ UNCHANGED client
    BY DEF Take
<1>. QED
    BY <1>1, <1>2, <1>3, <1>4, ServiceMoves

\* The session coroutine begins, or is resumed by the network.
LEMMA NetworkStep ==
    ASSUME IInv, NEW i \in Sessions, SessionBegins(i) \/ NetworkAnswers(i)
    PROVE  IInv'
<1> USE DEF HandlerSteps, Callbacks, CloseSteps, Waiting, Up, Ended
<1>1. TypeOK /\ Lives /\ Superseded
    BY DEF IInv
<1>2. ses[i] \in Impl /\ LifeOf(ses[i]) /\ ses[i].status \in 0..3
    BY <1>1, Typed DEF Lives
<1>3. Gone(i) => ses[i].detached /\ (Down(ses[i]) \/ ses[i].net \in {"none", "spawned"})
    BY <1>1 DEF Superseded
<1>4. ASSUME NEW t \in Impl, LifeOf(t), t.net \in {"spawned", "connecting"},
             NEW s, s = [t EXCEPT !.net = "over"]
      PROVE  /\ s \in Impl /\ LifeOf(s) /\ s.status = t.status /\ s.net = "over"
             /\ s.detached = t.detached /\ s.release_state = t.release_state
             /\ \A p \in {"upgraded", "failed", "completed"} : HandlerOf(s, p)
    <2>1. s \in Impl /\ LifeOf(s) /\ s.status = t.status /\ s.net = "over"
          /\ s.detached = t.detached /\ s.release_state = t.release_state
          /\ ~s.reading /\ s.release_state # "released" /\ s.connects = 0 /\ s.disconnects = 0
        BY <1>4 DEF LifeOf, Impl
    <2>. QED
        BY <2>1 DEF HandlerOf
<1>5. CASE ses[i].net = "spawned" /\ Take(i, "completed", [GaveUp(ses[i]) EXCEPT !.net = "over"])
    <2>1. PICK t : t = GaveUp(ses[i])
        OBVIOUS
    <2>2. PICK s : s = [t EXCEPT !.net = "over"]
        OBVIOUS
    <2>3. /\ t \in Impl /\ LifeOf(t) /\ t = [ses[i] EXCEPT !.status = t.status]
          /\ t.status = IF ses[i].status = CONNECTING THEN DISCONNECTED ELSE ses[i].status
        BY <1>2, <2>1, GaveUpKeeps
    <2>4. t.net = "spawned" /\ t.detached = ses[i].detached /\ t.release_state = ses[i].release_state
        BY <1>2, <1>5, <2>3 DEF Impl
    <2>5. /\ s \in Impl /\ LifeOf(s) /\ s.status = t.status /\ s.net = "over"
          /\ s.detached = t.detached /\ s.release_state = t.release_state
          /\ HandlerOf(s, "completed")
        BY <1>4, <2>2, <2>3, <2>4
    <2>6. ses[i].status # CONNECTED
        BY <1>2, <1>5 DEF LifeOf
    <2>7. Down(s)
        BY <1>2, <2>3, <2>5, <2>6 DEF Down, CONNECTING, CONNECTED, DISCONNECTING, DISCONNECTED
    <2>. QED
        BY <1>5, <2>1, <2>2, <2>4, <2>5, <2>7, TakeMoves
<1>6. CASE /\ ses[i].net = "spawned" /\ ~Stopped(ses[i])
           /\ Take(i, "idle", [ses[i] EXCEPT !.net = "connecting"])
    <2>1. PICK s : s = [ses[i] EXCEPT !.net = "connecting"]
        OBVIOUS
    <2>2. /\ s \in Impl /\ LifeOf(s) /\ s.net = "connecting"
          /\ s.detached = ses[i].detached /\ s.release_state = ses[i].release_state
        <3>1. ses[i].release_state # "released" \/ ~ses[i].reading
            BY <1>2 DEF LifeOf
        <3>. QED
            BY <1>2, <1>6, <2>1 DEF LifeOf, Impl
    <2>3. ~Gone(i)
        BY <1>3, <1>6 DEF Stopped
    <2>. QED
        BY <1>6, <2>1, <2>2, <2>3, TakeMoves
<1>7. CASE NetworkAnswers(i)
    <2>1. PICK p \in {"upgraded", "failed", "completed"} :
            ses[i].net = "connecting" /\ Take(i, p, [ses[i] EXCEPT !.net = "over"])
        BY <1>7 DEF NetworkAnswers
    <2>2. PICK s : s = [ses[i] EXCEPT !.net = "over"]
        OBVIOUS
    <2>3. /\ s \in Impl /\ LifeOf(s) /\ s.status = ses[i].status /\ s.net = "over"
          /\ s.detached = ses[i].detached /\ s.release_state = ses[i].release_state
          /\ HandlerOf(s, p)
        BY <1>2, <1>4, <2>1, <2>2
    <2>4. Gone(i) => Down(s)
        BY <1>3, <2>1, <2>3 DEF Down
    <2>. QED
        BY <2>1, <2>2, <2>3, <2>4, TakeMoves
<1>. QED
    BY <1>5, <1>6, <1>7 DEF SessionBegins

\* A read or a write ends, and so does a close that was posted.
LEMMA SocketStep ==
    ASSUME IInv, NEW i \in Sessions,
           RunClose(i) \/ OnClose(i) \/ ReadOk(i) \/ ReadFails(i) \/ WriteFails(i)
    PROVE  IInv'
<1> USE DEF HandlerSteps, Callbacks, CloseSteps, Waiting, Up, Ended
<1>1. TypeOK /\ Lives /\ Superseded
    BY DEF IInv
<1>2. ses[i] \in Impl /\ LifeOf(ses[i]) /\ ses[i].status \in 0..3
    BY <1>1, Typed DEF Lives
<1>3. Gone(i) => Down(ses[i]) \/ ses[i].net \in {"none", "spawned"}
    BY <1>1 DEF Superseded
<1>4. ASSUME NEW t \in Impl, LifeOf(t), NEW c \in {"closing", "over"}, t.net # "none", t.net = "over" \/ c = "over",
             NEW s, s = [t EXCEPT !.closing = c]
      PROVE  /\ s \in Impl /\ LifeOf(s) /\ s.status = t.status /\ s.net = t.net
             /\ s.detached = t.detached /\ s.release_state = t.release_state
    BY <1>4 DEF LifeOf, Impl
<1>5. CASE RunClose(i)
    <2>1. PICK c \in {"closing", "over"} :
            /\ Take(i, "idle", [ses[i] EXCEPT !.closing = c])
            /\ c = "closing" => ses[i].closing = "frame"
            /\ ses[i].closing \in {"frame", "socket"}
        BY <1>5 DEF RunClose
    <2>2. CASE ses[i].net # "none"
        <3>1. PICK s : s = [ses[i] EXCEPT !.closing = c]
            OBVIOUS
        <3>2. ses[i].net = "over" \/ c = "over"
            BY <1>2, <2>1 DEF LifeOf
        <3>3. /\ s \in Impl /\ LifeOf(s) /\ s.status = ses[i].status /\ s.net = ses[i].net
              /\ s.detached = ses[i].detached /\ s.release_state = ses[i].release_state
            BY <1>2, <1>4, <2>2, <3>1, <3>2
        <3>. QED
            BY <1>3, <2>1, <2>2, <3>1, <3>3, TakeMoves DEF Down
    <2>. QED
        BY <1>2, <2>1, <2>2 DEF LifeOf
<1>6. CASE OnClose(i)
    <2>1. PICK p \in {"closeDone", "onCloseError"} :
            /\ Take(i, p, [ses[i] EXCEPT !.closing = "over"])
            /\ p = "onCloseError" => ~ses[i].detached
        BY <1>6 DEF OnClose
    <2>2. ses[i].net = "over"
        BY <1>2, <1>6 DEF OnClose, LifeOf
    <2>3. PICK s : s = [ses[i] EXCEPT !.closing = "over"]
        OBVIOUS
    <2>4. /\ s \in Impl /\ LifeOf(s) /\ s.status = ses[i].status /\ s.net = ses[i].net
          /\ s.detached = ses[i].detached /\ s.release_state = ses[i].release_state
        BY <1>2, <1>4, <2>2, <2>3
    <2>5. HandlerOf(s, p)
        BY <2>2, <2>4 DEF HandlerOf
    <2>. QED
        BY <1>3, <2>1, <2>2, <2>3, <2>4, <2>5, TakeMoves DEF Down
<1>7. ASSUME NEW p \in {"onData", "release", "readFailed", "onReadError"}, ses[i].reading,
             Take(i, p, [ses[i] EXCEPT !.reading = FALSE]),
             p \in {"onData", "onReadError"} => ses[i].status = CONNECTED
      PROVE  IInv'
    <2>1. PICK s : s = [ses[i] EXCEPT !.reading = FALSE]
        OBVIOUS
    <2>2. /\ ses[i].net = "over" /\ ses[i].connects = 1 /\ ses[i].release_state # "released"
          /\ p = "onData" => ses[i].disconnects = 0
        <3>1. p = "onData" => ~(ses[i].disconnects > 0)
            BY <1>2, <1>7 DEF LifeOf, CONNECTED, DISCONNECTED
        <3>. QED
            BY <1>1, <1>2, <1>7, <3>1, Typed DEF LifeOf
    <2>3. /\ s \in Impl /\ LifeOf(s) /\ s.status = ses[i].status /\ s.net = ses[i].net /\ ~s.reading
          /\ s.detached = ses[i].detached /\ s.release_state = ses[i].release_state
          /\ s.connects = ses[i].connects /\ s.disconnects = ses[i].disconnects
        BY <1>2, <2>1 DEF LifeOf, Impl
    <2>4. HandlerOf(s, p)
        BY <1>7, <2>2, <2>3 DEF HandlerOf
    <2>5. p \in Callbacks => ~Down(ses[i])
        BY <1>7 DEF Down, CONNECTED, DISCONNECTING
    <2>. QED
        BY <1>3, <1>7, <2>1, <2>2, <2>3, <2>4, <2>5, TakeMoves DEF Down
<1>8. CASE WriteFails(i)
    <2>1. ses[i].net = "over" /\ ~Down(ses[i])
        BY <1>2, <1>8 DEF WriteFails, LifeOf, Down, CONNECTED, DISCONNECTING
    <2>2. HandlerOf(ses[i], "onWriteError")
        BY <2>1 DEF HandlerOf
    <2>. QED
        BY <1>2, <1>3, <1>8, <2>1, <2>2, TakeMoves DEF WriteFails
<1>9. CASE ReadOk(i)
    <2>1. PICK p \in {"onData", "release"} :
            /\ ses[i].reading /\ Take(i, p, [ses[i] EXCEPT !.reading = FALSE])
            /\ p = "onData" => ses[i].status = CONNECTED
        <3>1. CASE ses[i].status = CONNECTED /\ ~ses[i].detached
            BY <1>9, <3>1 DEF ReadOk
        <3>2. CASE ~(ses[i].status = CONNECTED /\ ~ses[i].detached)
            BY <1>9, <3>2 DEF ReadOk
        <3>. QED
            BY <3>1, <3>2
    <2>. QED
        BY <1>7, <2>1
<1>10. CASE ReadFails(i)
    BY <1>7, <1>10 DEF ReadFails
<1>. QED
    BY <1>5, <1>6, <1>8, <1>9, <1>10

\* The buffer is handed on, to the session that waits for it if one does.
LEMMA ReleaseStep == ASSUME IInv, NEW i \in Sessions, Release(i) PROVE IInv'
<1>1. TypeOK /\ Lives /\ Handled /\ Calls /\ Superseded /\ Waits /\ Handoff /\ NewestOnly
    BY DEF IInv
<1>2. cur = i /\ step = "release" /\ UNCHANGED <<shared, impl, cpc>>
    BY DEF Release, At, client
<1>3. ses[i] \in Impl /\ LifeOf(ses[i]) /\ HandlerOf(ses[i], "release")
    BY Running DEF Release
<1>4. /\ i <= impl /\ HasBuffer(i)
      /\ ~(Made /\ impl = i)
      /\ \A k \in Sessions : ses[k].release_state = "callbackSet" => k + 1 # i
    BY <1>2, Busy
<1>5. PICK s : s = [ses[i] EXCEPT !.release_state = IF shared THEN "released" ELSE ses[i].release_state]
    OBVIOUS
<1>6. \A k \in Sessions : ses'[k] = IF k = i THEN s ELSE ses[k]
    BY <1>1, <1>5 DEF Release, TypeOK
<1>7. /\ s \in Impl /\ s.net = ses[i].net /\ s.reading = ses[i].reading /\ s.status = ses[i].status
      /\ s.detached = ses[i].detached /\ s.session_started = ses[i].session_started
      /\ s.connects = ses[i].connects /\ s.disconnects = ses[i].disconnects /\ s.closing = ses[i].closing
      /\ s.release_state = IF shared THEN "released" ELSE ses[i].release_state
    BY <1>3, <1>5 DEF Impl
<1>8. LifeOf(s) /\ s.release_state # "callbackSet"
    <2>1. ~shared => ses[i].release_state = "active"
        BY <1>1 DEF Handoff
    <2>. QED
        BY <1>3, <1>7, <2>1 DEF LifeOf, HandlerOf, Waiting, CloseSteps
<1>9. \/ cur' = NoSession /\ step' = "idle"
      \/ ses[i].release_state = "callbackSet" /\ shared /\ cur' = i + 1 /\ step' = "open"
    BY <1>1 DEF Release, Handoff
<1>10. /\ impl \in Nat /\ i \in Nat /\ i >= 1 /\ impl <= MaxSessions
       /\ cur' # i /\ step' \in {"idle", "open"}
    BY <1>1, <1>9, MaxSessionsAssumption DEF TypeOK, Sessions, NoSession
<1>11. cur' # NoSession =>
        /\ ses[i].release_state = "callbackSet" /\ shared /\ cur' = i + 1 /\ step' = "open"
        /\ i + 1 <= impl /\ i + 1 \in Sessions
        /\ ses[i + 1].net = "none" /\ ses[i + 1].release_state # "released"
        /\ ~(Made /\ impl = i + 1)
    BY <1>1, <1>9, <1>10, MaxSessionsAssumption DEF Waits, Sessions
<1>12. TypeOK'
    <2>1. cur' \in 0..impl
        BY <1>9, <1>10, <1>11 DEF NoSession
    <2>2. ses' \in [Sessions -> Impl]
        BY <1>1, <1>5, <1>7 DEF TypeOK, Release
    <2>3. \A k \in Sessions : k > impl => ses'[k] = NewImpl
        BY <1>1, <1>4, <1>6, <1>10 DEF TypeOK, Sessions
    <2>4. step' \in HandlerSteps
        BY <1>10 DEF HandlerSteps
    <2>. QED
        BY <1>1, <1>2, <2>1, <2>2, <2>3, <2>4 DEF TypeOK
<1>13. Lives'
    BY <1>1, <1>6, <1>8 DEF Lives
<1>14. Handled'
    <2>1. step' = "idle" <=> cur' = NoSession
        BY <1>9, <1>10 DEF NoSession
    <2>2. cur' # NoSession => HandlerOf(ses'[cur'], "open")
        BY <1>1, <1>6, <1>10, <1>11 DEF HandlerOf, Lives, LifeOf, Waiting, Up, Ended, CloseSteps
    <2>. QED
        BY <1>11, <2>1, <2>2 DEF Handled
<1>15. Calls'
    <2>1. Made' = Made
        BY <1>2 DEF Made
    <2>2. Made => /\ ses'[impl] = ses[impl] /\ cur' # impl
                  /\ impl >= 2 => ses'[impl - 1].release_state # "callbackSet"
        <3>1. Made => impl >= 1 /\ impl # i
            BY <1>1, <1>4 DEF Calls, Made
        <3>2. Made => ses'[impl] = ses[impl]
            BY <1>6, <1>10, <3>1 DEF Sessions
        <3>3. Made => cur' # impl
            BY <1>10, <1>11, <3>1 DEF NoSession
        <3>4. Made /\ impl >= 2 => ses'[impl - 1].release_state # "callbackSet"
            BY <1>1, <1>6, <1>8, <1>10, MaxSessionsAssumption DEF Calls, Sessions
        <3>. QED
            BY <3>2, <3>3, <3>4
    <2>3. impl >= 1 => /\ ses'[impl].detached = ses[impl].detached
                       /\ ses[impl].session_started => ses'[impl].session_started
        BY <1>6, <1>7, <1>10 DEF Sessions
    <2>4. cpc = "closeImpl" => impl >= 1
        BY <1>1 DEF Calls
    <2>. QED
        BY <1>1, <1>2, <2>1, <2>2, <2>3, <2>4 DEF Calls
<1>16. Superseded'
    BY <1>1, <1>2, <1>6, <1>7 DEF Superseded, Gone, Down
<1>17. Waits'
    <2>1. SUFFICES ASSUME NEW k \in Sessions, ses'[k].release_state = "callbackSet"
                   PROVE  /\ k < impl
                          /\ ses'[k + 1].net = "none" /\ ses'[k + 1].release_state # "released"
                          /\ cur' # k + 1
                          /\ ~(Made' /\ impl = k + 1)
        BY <1>2 DEF Waits
    <2>2. k # i /\ ses[k].release_state = "callbackSet"
        BY <1>6, <1>8, <2>1
    <2>3. k < impl /\ k \in Nat /\ k + 1 \in Sessions /\ k + 1 # i /\ k + 1 # NoSession
        BY <1>1, <1>4, <1>10, <2>2, MaxSessionsAssumption DEF Waits, Sessions, NoSession
    <2>4. cur' # k + 1
        BY <1>10, <1>11, <2>2, <2>3
    <2>. QED
        BY <1>1, <1>2, <1>6, <2>2, <2>3, <2>4 DEF Waits, Made
<1>18. Handoff'
    <2>1. ASSUME shared, NEW k \in Sessions, NEW j \in Sessions, k < j, HasBuffer(j)'
          PROVE  ses'[k].release_state = "released"
        <3>1. CASE HasBuffer(j)
            BY <1>1, <1>6, <1>7, <2>1, <3>1 DEF Handoff
        <3>2. CASE ~HasBuffer(j)
            <4>1. j = i + 1
                BY <1>2, <1>4, <1>6, <1>11, <2>1, <3>2 DEF HasBuffer, NoSession, Sessions
            <4>2. k < i \/ k = i
                BY <1>10, <2>1, <4>1 DEF Sessions
            <4>. QED
                BY <1>1, <1>4, <1>6, <1>7, <2>1, <4>2 DEF Handoff
        <3>. QED
            BY <3>1, <3>2
    <2>2. ~shared => \A k \in Sessions : ses'[k].release_state = "active"
        BY <1>1, <1>6, <1>7 DEF Handoff
    <2>. QED
        BY <1>2, <2>1, <2>2 DEF Handoff
<1>19. NewestOnly'
    BY <1>10 DEF NewestOnly, Callbacks
<1>. QED
    BY <1>12, <1>13, <1>14, <1>15, <1>16, <1>17, <1>18, <1>19 DEF IInv

-----------------------------------------------------------------------------
(* The client.                                                             *)

\* A step of a call that leaves the current session as s.  What the handler that
\* may be running knows of the session, the call does not take from it.
LEMMA ClientMoves ==
    ASSUME IInv, impl >= 1, NEW s \in Impl, NEW to \in ClientSteps \ {"openDefer", "openImpl"},
           cpc' = to, ses' = [ses EXCEPT ![impl] = s], UNCHANGED <<shared, impl, handler>>,
           LifeOf(s), s.release_state = ses[impl].release_state, s.reading = ses[impl].reading,
           s.connects = ses[impl].connects, s.disconnects = ses[impl].disconnects,
           \/ s.net = ses[impl].net /\ (ses[impl].status = DISCONNECTED => s.status = DISCONNECTED)
           \/ cpc = "openImpl",
           ses[impl].detached => s.detached,
           to \in Opening => impl < MaxSessions,
           to \in {"openClose", "openNew"} => s.detached,
           to = "openNew" => Down(s) \/ s.net \in {"none", "spawned"},
           to = "closeImpl" => s.session_started
    PROVE  IInv'
<1>1. TypeOK /\ Lives /\ Handled /\ Calls /\ Superseded /\ Waits /\ Handoff /\ NewestOnly
    BY DEF IInv
<1>2. impl \in Nat /\ impl <= MaxSessions /\ impl \in Sessions /\ UNCHANGED <<cur, step>>
    BY <1>1, MaxSessionsAssumption DEF TypeOK, Sessions, handler
<1>3. \A k \in Sessions : ses'[k] = IF k = impl THEN s ELSE ses[k]
    BY <1>1 DEF TypeOK
<1>4. ~Made'
    BY DEF Made
<1>5. TypeOK'
    <2>1. ses' \in [Sessions -> Impl]
        BY <1>1 DEF TypeOK
    <2>2. \A k \in Sessions : k > impl => ses'[k] = NewImpl
        BY <1>1, <1>2, <1>3 DEF TypeOK
    <2>. QED
        BY <1>1, <1>2, <2>1, <2>2 DEF TypeOK
<1>6. Lives'
    BY <1>1, <1>3 DEF Lives
<1>7. Handled'
    <2>1. ASSUME cur # NoSession, cur # impl PROVE HandlerOf(ses'[cur], step)
        <3>1. cur \in Sessions
            BY <1>1, <1>2, <2>1, MaxSessionsAssumption DEF TypeOK, Sessions, NoSession
        <3>. QED
            BY <1>1, <1>3, <2>1, <3>1 DEF Handled
    <2>2. ASSUME cur # NoSession, cur = impl PROVE HandlerOf(s, step)
        <3>1. HandlerOf(ses[impl], step)
            BY <1>1, <2>2 DEF Handled
        <3>2. s.net = ses[impl].net /\ (ses[impl].status = DISCONNECTED => s.status = DISCONNECTED)
            BY <1>1, <2>2 DEF Calls, Made
        <3>. QED
            BY <3>1, <3>2 DEF HandlerOf
    <2>. QED
        BY <1>1, <1>2, <1>3, <2>1, <2>2 DEF Handled
<1>8. Calls'
    BY <1>2, <1>3, <1>4 DEF Calls
<1>9. Superseded'
    BY <1>1, <1>2, <1>3 DEF Superseded, Gone
<1>10. Waits'
    <2>1. SUFFICES ASSUME NEW k \in Sessions, ses'[k].release_state = "callbackSet"
                   PROVE  /\ k < impl
                          /\ ses'[k + 1].net = "none" /\ ses'[k + 1].release_state # "released"
                          /\ cur # k + 1
        BY <1>2, <1>4 DEF Waits
    <2>2. ses[k].release_state = "callbackSet"
        BY <1>3, <2>1
    <2>3. /\ k < impl /\ k + 1 \in Sessions /\ cur # k + 1
          /\ ses[k + 1].net = "none" /\ ses[k + 1].release_state # "released"
          /\ ~(Made /\ impl = k + 1)
        BY <1>1, <1>2, <2>2, MaxSessionsAssumption DEF Waits, Sessions
    <2>. QED
        BY <1>3, <2>3 DEF Made
<1>11. Handoff'
    <2>1. \A j \in Sessions : HasBuffer(j)' => HasBuffer(j)
        <3>1. s.session_started => ses[impl].session_started \/ cpc = "openImpl"
            BY <1>1, <1>2 DEF Lives, LifeOf
        <3>. QED
            BY <1>2, <1>3, <1>4, <3>1 DEF HasBuffer, Made
    <2>. QED
        BY <1>1, <1>3, <2>1 DEF Handoff
<1>12. NewestOnly'
    BY <1>1, <1>2, <1>3 DEF NewestOnly
<1>. QED
    BY <1>5, <1>6, <1>7, <1>8, <1>9, <1>10, <1>11, <1>12 DEF IInv

\* The flags that calls of a session set.
LEMMA FlagKeeps ==
    ASSUME NEW t \in Impl, LifeOf(t),
           NEW s, s = [t EXCEPT !.detached = TRUE] \/ s = [t EXCEPT !.open_cancelled = TRUE] \/ s = t
    PROVE  /\ s \in Impl /\ LifeOf(s) /\ s.status = t.status /\ s.net = t.net /\ s.reading = t.reading
           /\ s.release_state = t.release_state /\ s.session_started = t.session_started
           /\ s.connects = t.connects /\ s.disconnects = t.disconnects
           /\ t.detached => s.detached
           /\ s = [t EXCEPT !.detached = TRUE] => s.detached
    BY DEF LifeOf, Impl

\* The calls on the current session.
LEMMA CallStep ==
    ASSUME IInv,
           \/ OpenCheck \/ OpenConnected \/ OpenConnecting \/ OpenDetach \/ OpenClose \/ OpenImpl
           \/ CallClose \/ CloseCheck \/ CloseCancel \/ CloseImpl
           \/ Destroy \/ DestroyCancel \/ DestroyClose
    PROVE  IInv'
<1> USE DEF ClientSteps, Opening
<1>1. TypeOK /\ Lives /\ Calls
    BY DEF IInv
<1>2. impl >= 1
    BY <1>1 DEF OpenCheck, OpenConnected, OpenConnecting, OpenDetach, OpenClose, OpenImpl, CallClose, CloseCheck,
                CloseCancel, CloseImpl, Destroy, DestroyCancel, DestroyClose, Call, Calls, TypeOK, NoSession
<1>3. impl \in Sessions /\ ses[impl] \in Impl /\ LifeOf(ses[impl])
    BY <1>1, <1>2, MaxSessionsAssumption, Typed DEF TypeOK, Sessions, Lives
<1>4. ASSUME NEW from, NEW to \in ClientSteps \ {"openDefer", "openImpl", "openNew"},
             NEW s \in {ses[impl], [ses[impl] EXCEPT !.detached = TRUE],
                        [ses[impl] EXCEPT !.open_cancelled = TRUE]},
             Call(from, to, s), to \in Opening => impl < MaxSessions,
             to = "openClose" => s = [ses[impl] EXCEPT !.detached = TRUE],
             to = "closeImpl" => ses[impl].session_started
      PROVE  IInv'
    <2>1. /\ s \in Impl /\ LifeOf(s) /\ s.status = ses[impl].status /\ s.net = ses[impl].net
          /\ s.reading = ses[impl].reading /\ s.release_state = ses[impl].release_state
          /\ s.session_started = ses[impl].session_started
          /\ s.connects = ses[impl].connects /\ s.disconnects = ses[impl].disconnects
          /\ ses[impl].detached => s.detached
          /\ s = [ses[impl] EXCEPT !.detached = TRUE] => s.detached
        BY <1>3, <1>4, FlagKeeps
    <2>. QED
        BY <1>2, <1>4, <2>1, ClientMoves DEF Call
<1>5. ASSUME NEW from, NEW to \in {"openNew", "idle", "destroyed"}, Call(from, to, Closed(ses[impl])),
             ses[impl].session_started, to = "openNew" => from = "openClose"
      PROVE  IInv'
    <2>1. PICK s : s = Closed(ses[impl])
        OBVIOUS
    <2>2. ses[impl].net # "none"
        BY <1>3, <1>5 DEF LifeOf
    <2>3. /\ s \in Impl /\ LifeOf(s) /\ Down(s)
          /\ Down(ses[impl]) => s = ses[impl]
          /\ s.net = ses[impl].net /\ s.detached = ses[impl].detached
          /\ s.reading = ses[impl].reading /\ s.release_state = ses[impl].release_state
          /\ s.connects = ses[impl].connects /\ s.disconnects = ses[impl].disconnects
        BY <1>3, <2>1, <2>2, ClosedKeeps
    <2>4. ses[impl].status = DISCONNECTED => s.status = DISCONNECTED
        BY <2>3 DEF Down, DISCONNECTED, DISCONNECTING
    <2>5. to = "openNew" => impl < MaxSessions /\ ses[impl].detached
        BY <1>1, <1>2, <1>5 DEF Calls, Call
    <2>. QED
        BY <1>2, <1>5, <2>1, <2>3, <2>4, <2>5, ClientMoves DEF Call
<1>6. CASE OpenCheck
    <2>1. PICK to \in {"openConnected", "openDetach", "idle"} : Call("openCheck", to, ses[impl])
        BY <1>6 DEF OpenCheck
    <2>. QED
        BY <1>4, <2>1
<1>7. CASE OpenConnected \/ OpenConnecting
    <2>1. PICK from \in {"openConnected", "openConnecting"}, to \in {"openConnecting", "openDetach", "idle"} : Call(from, to, ses[impl])
        BY <1>7 DEF OpenConnected, OpenConnecting
    <2>. QED
        BY <1>4, <2>1
<1>8. CASE OpenDetach
    <2>1. PICK s : s = [ses[impl] EXCEPT !.detached = TRUE]
        OBVIOUS
    <2>2. impl < MaxSessions /\ Call("openDetach", "openClose", s)
        BY <1>8, <2>1 DEF OpenDetach
    <2>. QED
        BY <1>4, <2>1, <2>2
<1>9. CASE OpenClose
    <2>1. CASE ses[impl].session_started
        BY <1>5, <1>9, <2>1 DEF OpenClose
    <2>2. CASE ~ses[impl].session_started
        <3>1. ses[impl].net = "none"
            BY <1>3, <2>2 DEF LifeOf
        <3>2. impl < MaxSessions /\ ses[impl].detached /\ Call("openClose", "openNew", ses[impl])
            BY <1>1, <1>2, <1>9, <2>2 DEF OpenClose, Calls, Call
        <3>3. PICK to \in {"openNew"}, s \in {ses[impl]} :
                cpc' = to /\ ses' = [ses EXCEPT ![impl] = s] /\ UNCHANGED <<shared, impl, handler>>
            BY <3>2 DEF Call
        <3>. QED
            BY <1>2, <1>3, <3>1, <3>2, <3>3, ClientMoves
    <2>. QED
        BY <2>1, <2>2
<1>10. CASE OpenImpl
    <2>1. ses[impl].net = "none" /\ ses[impl].release_state = "active" /\ cpc = "openImpl"
        BY <1>1, <1>10 DEF OpenImpl, Call, Calls, Made
    <2>2. PICK s : s = Started(ses[impl])
        OBVIOUS
    <2>3. /\ s \in Impl /\ LifeOf(s) /\ s.net = "spawned"
          /\ s.release_state = ses[impl].release_state /\ s.detached = ses[impl].detached
        BY <1>3, <2>1, <2>2, StartedKeeps
    <2>4. /\ s.reading = ses[impl].reading /\ s.connects = ses[impl].connects
          /\ s.disconnects = ses[impl].disconnects /\ ~s.reading /\ s.connects = 0 /\ s.disconnects = 0
        BY <1>3, <2>1, <2>3 DEF LifeOf, Impl
    <2>5. PICK to \in {"idle"} :
            cpc' = to /\ ses' = [ses EXCEPT ![impl] = s] /\ UNCHANGED <<shared, impl, handler>>
        BY <1>10, <2>2 DEF OpenImpl, Call
    <2>. QED
        BY <1>2, <2>1, <2>3, <2>4, <2>5, ClientMoves
<1>11. CASE CallClose
    BY <1>4, <1>11 DEF CallClose
<1>12. CASE CloseCheck
    <2>1. PICK to \in {"closeImpl", "closeCancel"} :
            Call("closeCheck", to, ses[impl]) /\ (to = "closeImpl" => ses[impl].session_started)
        BY <1>12 DEF CloseCheck
    <2>. QED
        BY <1>4, <2>1
<1>13. CASE CloseCancel \/ Destroy \/ DestroyCancel
    <2>1. PICK s : s = [ses[impl] EXCEPT !.detached = TRUE]
        OBVIOUS
    <2>2. PICK t : t = [ses[impl] EXCEPT !.open_cancelled = TRUE]
        OBVIOUS
    <2>3. \/ Call("idle", "destroyCancel", s)
          \/ Call("closeCancel", "idle", t) \/ Call("destroyCancel", "destroyClose", t)
        BY <1>13, <2>1, <2>2 DEF CloseCancel, Destroy, DestroyCancel
    <2>. QED
        BY <1>4, <2>1, <2>2, <2>3
<1>14. CASE CloseImpl
    BY <1>1, <1>5, <1>14 DEF CloseImpl, Call, Calls
<1>15. CASE DestroyClose
    <2>1. CASE ses[impl].session_started
        BY <1>5, <1>15, <2>1 DEF DestroyClose
    <2>2. CASE ~ses[impl].session_started
        BY <1>4, <1>15, <2>2 DEF DestroyClose
    <2>. QED
        BY <2>1, <2>2
<1>. QED
    BY <1>6, <1>7, <1>8, <1>9, <1>10, <1>11, <1>12, <1>13, <1>14, <1>15

\* open() is entered, or nothing happens.
LEMMA EnterStep ==
    ASSUME IInv, CallOpen \/ UNCHANGED vars
    PROVE  IInv'
<1>1. TypeOK /\ Lives /\ Handled /\ Calls /\ Superseded /\ Waits /\ Handoff /\ NewestOnly
    BY DEF IInv
<1>2. UNCHANGED <<shared, impl, ses, cur, step>>
    BY DEF CallOpen, vars, client, handler
<1>3. \/ UNCHANGED cpc
      \/ /\ cpc = "idle"
         /\ cpc' = IF impl = NoSession THEN "openNew" ELSE "openCheck"
    BY DEF CallOpen, vars, client
<1>4. impl \in Nat
    BY <1>1, MaxSessionsAssumption DEF TypeOK
<1>5. TypeOK'
    BY <1>1, <1>2, <1>3 DEF TypeOK, ClientSteps
<1>6. Lives' /\ Handled' /\ NewestOnly'
    BY <1>1, <1>2 DEF Lives, Handled, NewestOnly
<1>7. Made' = Made /\ (cpc' = "openImpl" <=> cpc = "openImpl")
    BY <1>3 DEF Made
<1>8. Calls'
    BY <1>1, <1>2, <1>3, <1>4, <1>7, MaxSessionsAssumption DEF Calls, Opening, NoSession
<1>9. Superseded'
    <2>1. \A i \in Sessions : Gone(i)' => Gone(i)
        BY <1>2, <1>3, <1>4 DEF Gone, NoSession, Sessions
    <2>. QED
        BY <1>1, <1>2, <2>1 DEF Superseded
<1>10. Waits' /\ Handoff'
    BY <1>1, <1>2, <1>7 DEF Waits, Handoff, HasBuffer
<1>. QED
    BY <1>5, <1>6, <1>8, <1>9, <1>10 DEF IInv

\* A session is made, after every other.
LEMMA NewStep == ASSUME IInv, OpenNew PROVE IInv'
<1>1. TypeOK /\ Lives /\ Handled /\ Calls /\ Superseded /\ Waits /\ Handoff /\ NewestOnly
    BY DEF IInv
<1>2. cpc = "openNew" /\ impl' = impl + 1 /\ UNCHANGED <<shared, cur, step>>
    BY DEF OpenNew, handler
<1>3. impl \in Nat /\ impl < MaxSessions /\ impl + 1 \in Sessions /\ cur <= impl /\ cur \in Nat
    BY <1>1, <1>2, MaxSessionsAssumption DEF TypeOK, Calls, Opening, Sessions
<1>4. \/ shared /\ impl >= 1 /\ cpc' = "openDefer"
      \/ (~shared \/ impl = 0) /\ cpc' = "openImpl"
    BY <1>3 DEF OpenNew, NoSession
<1>5. PICK s \in Impl :
        /\ \A k \in Sessions : ses'[k] = IF k = impl + 1 THEN s ELSE ses[k]
        /\ ses' \in [Sessions -> Impl]
        /\ LifeOf(s) /\ s.net = "none" /\ s.release_state = "active"
        /\ ~s.session_started /\ s.connects = 0
    <2>1. ses[impl + 1] = NewImpl /\ NewImpl \in Impl
        BY <1>1, <1>3 DEF TypeOK
    <2>2. PICK t : t = [NewImpl EXCEPT !.status = CONNECTING]
        OBVIOUS
    <2>3. \A s \in {t, NewImpl} :
            /\ s \in Impl /\ LifeOf(s) /\ s.net = "none" /\ s.release_state = "active"
            /\ ~s.session_started /\ s.connects = 0
        <3>1. /\ NewImpl.net = "none" /\ NewImpl.release_state = "active" /\ ~NewImpl.session_started
              /\ NewImpl.connects = 0 /\ NewImpl.status = DISCONNECTED /\ LifeOf(NewImpl)
            BY DEF NewImpl, LifeOf, CONNECTED, DISCONNECTED
        <3>2. t \in Impl /\ LifeOf(t) /\ t.net = "none" /\ t.release_state = "active"
              /\ ~t.session_started /\ t.connects = 0
            BY <2>1, <2>2, <3>1 DEF Impl, LifeOf, CONNECTING, CONNECTED, DISCONNECTED
        <3>. QED
            BY <2>1, <3>1, <3>2
    <2>4. CASE ses' = [ses EXCEPT ![impl + 1].status = CONNECTING]
        <3>1. ses' = [ses EXCEPT ![impl + 1] = t]
            BY <2>1, <2>2, <2>4
        <3>2. ses' \in [Sessions -> Impl] /\ \A k \in Sessions : ses'[k] = IF k = impl + 1 THEN t ELSE ses[k]
            BY <1>1, <2>3, <3>1 DEF TypeOK
        <3>. QED
            BY <2>3, <3>2
    <2>5. CASE UNCHANGED ses
        <3>1. ses' \in [Sessions -> Impl] /\ \A k \in Sessions : ses'[k] = IF k = impl + 1 THEN NewImpl ELSE ses[k]
            BY <1>1, <2>1, <2>5 DEF TypeOK
        <3>. QED
            BY <2>3, <3>1
    <2>. QED
        BY <2>4, <2>5 DEF OpenNew
<1>6. TypeOK'
    <2>1. impl' \in 0..MaxSessions /\ cur' \in 0..impl'
        BY <1>2, <1>3, MaxSessionsAssumption
    <2>2. \A k \in Sessions : k > impl' => ses'[k] = NewImpl
        BY <1>1, <1>2, <1>3, <1>5 DEF TypeOK, Sessions
    <2>3. cpc' \in ClientSteps
        BY <1>4 DEF ClientSteps
    <2>. QED
        BY <1>1, <1>2, <1>5, <2>1, <2>2, <2>3 DEF TypeOK
<1>7. Lives'
    BY <1>1, <1>5 DEF Lives
<1>8. Handled'
    <2>1. cur # NoSession => ses'[cur] = ses[cur]
        BY <1>3, <1>5, MaxSessionsAssumption DEF Sessions, NoSession
    <2>. QED
        BY <1>1, <1>2, <2>1 DEF Handled
<1>9. Calls'
    <2>1. impl >= 1 => impl \in Sessions /\ ses'[impl] = ses[impl] /\ ses[impl].release_state # "callbackSet"
        BY <1>1, <1>3, <1>5, MaxSessionsAssumption DEF Waits, Sessions
    <2>2. cpc' \notin Opening \cup {"closeImpl"}
        BY <1>4 DEF Opening
    <2>3. impl' - 1 = impl /\ ses'[impl'] = s /\ cur' # impl'
        BY <1>2, <1>3, <1>5
    <2>. QED
        BY <1>2, <1>3, <1>4, <1>5, <2>1, <2>2, <2>3 DEF Calls, Opening
<1>10. Superseded'
    <2>1. \A i \in Sessions : Gone(i)' => Gone(i) /\ i # impl + 1
        BY <1>2, <1>3, <1>4 DEF Gone, Sessions
    <2>. QED
        BY <1>1, <1>5, <2>1 DEF Superseded
<1>11. Waits'
    <2>1. SUFFICES ASSUME NEW k \in Sessions, ses'[k].release_state = "callbackSet"
                   PROVE  /\ k < impl + 1
                          /\ ses'[k + 1].net = "none" /\ ses'[k + 1].release_state # "released"
                          /\ cur # k + 1
                          /\ impl + 1 # k + 1
        BY <1>2 DEF Waits
    <2>2. ses[k].release_state = "callbackSet"
        BY <1>5, <2>1
    <2>3. k < impl /\ k \in Nat /\ k + 1 \in Sessions
        BY <1>1, <1>3, <2>2, MaxSessionsAssumption DEF Waits, Sessions
    <2>. QED
        BY <1>1, <1>3, <1>5, <2>2, <2>3 DEF Waits
<1>12. Handoff'
    <2>1. ASSUME shared, NEW j \in Sessions, HasBuffer(j)' PROVE HasBuffer(j) \/ j = 1
        <3>1. cpc' = "openImpl" => impl' = 1
            BY <1>2, <1>4, <2>1
        <3>2. j = impl + 1 => ~s.session_started /\ s.release_state # "released" /\ cur' # j
            BY <1>2, <1>3, <1>5
        <3>. QED
            BY <1>2, <1>5, <2>1, <3>1, <3>2 DEF HasBuffer
    <2>2. ses[impl + 1].release_state # "released"
        BY <1>1, <1>3 DEF TypeOK, NewImpl
    <2>3. ASSUME shared, NEW k \in Sessions, NEW j \in Sessions, k < j, HasBuffer(j)'
          PROVE  ses'[k].release_state = "released"
        <3>1. HasBuffer(j)
            BY <2>1, <2>3 DEF Sessions
        <3>2. ses[k].release_state = "released"
            BY <1>1, <2>3, <3>1 DEF Handoff
        <3>. QED
            BY <1>5, <2>2, <3>2
    <2>4. ~shared => \A k \in Sessions : ses'[k].release_state = "active"
        BY <1>1, <1>5 DEF Handoff
    <2>. QED
        BY <1>2, <2>3, <2>4 DEF Handoff
<1>13. NewestOnly'
    BY <1>1, <1>2, <1>5 DEF NewestOnly
<1>. QED
    BY <1>6, <1>7, <1>8, <1>9, <1>10, <1>11, <1>12, <1>13 DEF IInv

\* The session waits for the buffer, or finds it released.
LEMMA DeferStep == ASSUME IInv, OpenDefer PROVE IInv'
<1>1. TypeOK /\ Lives /\ Handled /\ Calls /\ Superseded /\ Waits /\ Handoff /\ NewestOnly
    BY DEF IInv
<1>2. /\ cpc = "openDefer" /\ Made /\ shared /\ UNCHANGED <<shared, impl, cur, step>>
      /\ impl \in Nat /\ impl >= 2 /\ impl <= MaxSessions /\ impl \in Sessions /\ impl - 1 \in Sessions
    BY <1>1, MaxSessionsAssumption DEF OpenDefer, Calls, Made, TypeOK, Sessions, handler
<1>3. ses[impl].net = "none" /\ ses[impl].release_state = "active" /\ cur # impl
    BY <1>1, <1>2 DEF Calls
<1>4. CASE ses[impl - 1].release_state = "released" /\ cpc' = "openImpl" /\ UNCHANGED ses
    <2>1. TypeOK'
        BY <1>1, <1>2, <1>4 DEF TypeOK, ClientSteps
    <2>2. Lives' /\ Handled' /\ NewestOnly'
        BY <1>1, <1>2, <1>4 DEF Lives, Handled, NewestOnly
    <2>3. Calls'
        BY <1>1, <1>2, <1>3, <1>4 DEF Calls, Opening
    <2>4. Superseded'
        BY <1>1, <1>2, <1>4 DEF Superseded, Gone
    <2>5. Waits'
        BY <1>1, <1>2, <1>4 DEF Waits
    <2>6. Handoff'
        <3>1. ASSUME NEW k \in Sessions, NEW j \in Sessions, k < j, HasBuffer(j)'
              PROVE  ses[k].release_state = "released"
            <4>1. CASE HasBuffer(j)
                BY <1>1, <1>2, <3>1, <4>1 DEF Handoff
            <4>2. CASE j = impl
                <5>1. HasBuffer(impl - 1)
                    BY <1>4 DEF HasBuffer
                <5>2. k = impl - 1 \/ k < impl - 1
                    BY <1>2, <3>1, <4>2 DEF Sessions
                <5>. QED
                    BY <1>1, <1>2, <1>4, <5>1, <5>2 DEF Handoff
            <4>. QED
                BY <1>2, <1>4, <3>1, <4>1, <4>2 DEF HasBuffer
        <3>. QED
            BY <1>2, <1>4, <3>1 DEF Handoff
    <2>. QED
        BY <2>1, <2>2, <2>3, <2>4, <2>5, <2>6 DEF IInv
<1>5. CASE /\ ses[impl - 1].release_state = "active" /\ cpc' = "idle"
           /\ ses' = [ses EXCEPT ![impl - 1].release_state = "callbackSet"]
    <2>1. PICK s : s = [ses[impl - 1] EXCEPT !.release_state = "callbackSet"]
        OBVIOUS
    <2>2. \A k \in Sessions : ses'[k] = IF k = impl - 1 THEN s ELSE ses[k]
        BY <1>1, <1>5, <2>1 DEF TypeOK
    <2>3. /\ s \in Impl /\ s.release_state = "callbackSet" /\ s.net = ses[impl - 1].net
          /\ s.status = ses[impl - 1].status /\ s.session_started = ses[impl - 1].session_started
          /\ s.detached = ses[impl - 1].detached /\ s.reading = ses[impl - 1].reading
          /\ s.connects = ses[impl - 1].connects /\ s.disconnects = ses[impl - 1].disconnects
          /\ s.closing = ses[impl - 1].closing
        BY <1>1, <1>2, <2>1, Typed DEF Impl
    <2>4. LifeOf(s) /\ \A p \in HandlerSteps : HandlerOf(ses[impl - 1], p) => HandlerOf(s, p)
        BY <1>1, <1>2, <2>3 DEF Lives, LifeOf, HandlerOf
    <2>5. TypeOK'
        <3>1. ses' \in [Sessions -> Impl]
            BY <1>1, <1>5, <2>1, <2>3 DEF TypeOK
        <3>2. \A k \in Sessions : k > impl => ses'[k] = NewImpl
            BY <1>1, <1>2, <2>2 DEF TypeOK, Sessions
        <3>. QED
            BY <1>1, <1>2, <1>5, <3>1, <3>2 DEF TypeOK, ClientSteps
    <2>6. Lives'
        BY <1>1, <2>2, <2>4 DEF Lives
    <2>7. Handled'
        <3>1. cur # NoSession => cur \in Sessions /\ step \in HandlerSteps
            BY <1>1, <1>2, MaxSessionsAssumption DEF TypeOK, Sessions, NoSession
        <3>. QED
            BY <1>1, <1>2, <2>2, <2>4, <3>1 DEF Handled
    <2>8. ~Made'
        BY <1>5 DEF Made
    <2>9. Calls'
        BY <1>2, <1>5, <2>8 DEF Calls, Opening
    <2>10. Superseded'
        BY <1>1, <1>2, <1>5, <2>2, <2>3 DEF Superseded, Gone, Down
    <2>11. Waits'
        <3>1. SUFFICES ASSUME NEW k \in Sessions, ses'[k].release_state = "callbackSet"
                       PROVE  /\ k < impl
                              /\ ses'[k + 1].net = "none" /\ ses'[k + 1].release_state # "released"
                              /\ cur # k + 1
            BY <1>2, <2>8 DEF Waits
        <3>2. CASE k = impl - 1
            BY <1>2, <1>3, <2>2, <3>2
        <3>3. CASE k # impl - 1
            <4>1. ses[k].release_state = "callbackSet"
                BY <2>2, <3>1, <3>3
            <4>2. /\ k < impl /\ k + 1 \in Sessions /\ cur # k + 1
                  /\ ses[k + 1].net = "none" /\ ses[k + 1].release_state # "released"
                BY <1>1, <1>2, <4>1, MaxSessionsAssumption DEF Waits, Sessions
            <4>. QED
                BY <2>2, <2>3, <4>2
        <3>. QED
            BY <3>2, <3>3
    <2>12. Handoff'
        <3>1. \A j \in Sessions : HasBuffer(j)' => HasBuffer(j)
            BY <1>2, <1>5, <2>2, <2>3 DEF HasBuffer
        <3>2. ASSUME NEW k \in Sessions, NEW j \in Sessions, k < j, HasBuffer(j)'
              PROVE  ses'[k].release_state = "released"
            <4>1. ses[k].release_state = "released"
                BY <1>1, <1>2, <3>1, <3>2 DEF Handoff
            <4>. QED
                BY <1>5, <2>2, <4>1
        <3>. QED
            BY <1>2, <3>2 DEF Handoff
    <2>13. NewestOnly'
        BY <1>1, <1>2, <2>2, <2>3 DEF NewestOnly
    <2>. QED
        BY <2>5, <2>6, <2>7, <2>9, <2>10, <2>11, <2>12, <2>13 DEF IInv
<1>. QED
    BY <1>4, <1>5 DEF OpenDefer

-----------------------------------------------------------------------------

LEMMA NextStep == IInv /\ [Next]_vars => IInv'
<1>. SUFFICES ASSUME IInv, [Next]_vars PROVE IInv'
    OBVIOUS
<1>1. CASE CallOpen \/ UNCHANGED vars
    BY <1>1, EnterStep
<1>2. CASE CallClose \/ Destroy \/ ClientStep
    BY <1>2, CallStep, NewStep, DeferStep DEF ClientStep
<1>3. ASSUME NEW i \in Sessions, HandlerStep(i) PROVE IInv'
    BY <1>3, UpStep, EndStep, DeferredStep, ReleaseStep, ReadStep, CloseStep DEF HandlerStep
<1>4. ASSUME NEW i \in Sessions,
             \/ SessionBegins(i) \/ NetworkAnswers(i) \/ RunClose(i) \/ OnClose(i)
             \/ ReadOk(i) \/ ReadFails(i) \/ WriteFails(i)
      PROVE  IInv'
    BY <1>4, NetworkStep, SocketStep
<1>. QED
    BY <1>1, <1>2, <1>3, <1>4 DEF Next

\* The strengthening is an invariant of the object.
THEOREM Invariance == Spec => []IInv
    BY InitEstablishes, NextStep, PTL DEF Spec

\* Every variable keeps its range, and nothing happens to a session before it is
\* made.
THEOREM TypeCorrect == Spec => []TypeOK
    BY Invariance, PTL DEF IInv

\* However many sessions a shared read buffer goes through, one at a time touches
\* it.
THEOREM OneReader == Spec => []BufferExclusive
<1>1. IInv => BufferExclusive
    <2>1. SUFFICES ASSUME IInv, shared, NEW i \in Sessions, NEW j \in Sessions, i < j, ses[j].session_started
                   PROVE  /\ ses[i].release_state = "released"
                          /\ ~ses[i].reading
                          /\ ~(cur = i /\ step \in {"connect", "announce", "connected", "arm", "onData"})
        BY DEF BufferExclusive
    <2>2. ses[i].release_state = "released"
        BY <2>1 DEF IInv, Handoff, HasBuffer
    <2>3. ~ses[i].reading
        BY <2>1, <2>2 DEF IInv, Lives, LifeOf
    <2>4. cur = i => step \in CloseSteps \cup {"onWriteError"}
        BY <2>1, <2>2 DEF IInv, Handled, HandlerOf, Sessions, NoSession
    <2>. QED
        BY <2>2, <2>3, <2>4 DEF CloseSteps
<1>. QED
    BY <1>1, Invariance, PTL

\* The caller sees the events of a session in order: connected, then data, then
\* disconnected.
THEOREM EventsInOrder == Spec => []CallbackOrder
<1>1. IInv => CallbackOrder
    <2>1. SUFFICES ASSUME IInv, NEW i \in Sessions
                   PROVE  /\ At(i, "onData") => ses[i].connects = 1 /\ ses[i].disconnects = 0
                          /\ At(i, "onConnected") => ses[i].connects = 0 /\ ses[i].disconnects = 0
        BY DEF CallbackOrder
    <2>2. ASSUME NEW p, At(i, p) PROVE HandlerOf(ses[i], p)
        BY <2>1, <2>2, Running
    <2>. QED
        BY <2>2 DEF HandlerOf, Up
<1>. QED
    BY <1>1, Invariance, PTL

\* Once a session has reported onConnected, no callback of an earlier one runs.
THEOREM OnlyTheNewest == Spec => []NewestOnly
    BY Invariance, PTL DEF IInv

-----------------------------------------------------------------------------
(* What a step may never do.                                               *)

\* How a step may leave a session that has ended or been closed.
Stays(t, s) == t.session_started /\ Down(t) => s.status >= t.status

\* The ways a session is changed, and the one that changes the status of another
\* kind of session only.
LEMMA Changes ==
    ASSUME NEW t \in Impl, LifeOf(t)
    PROVE  /\ Stays(t, t) /\ Stays(t, Closed(t))
           /\ Stays(t, GaveUp(t)) /\ Stays(t, [GaveUp(t) EXCEPT !.net = "over"])
           /\ Stays(t, [t EXCEPT !.status = DISCONNECTED])
           /\ t.status = CONNECTING => Stays(t, [t EXCEPT !.status = CONNECTED])
           /\ ~t.session_started => Stays(t, Started(t))
           /\ \A b \in BOOLEAN : Stays(t, [t EXCEPT !.reading = b])
           /\ \A n \in {"over", "connecting"} : Stays(t, [t EXCEPT !.net = n])
           /\ \A c \in {"over", "closing"} : Stays(t, [t EXCEPT !.closing = c])
           /\ Stays(t, [t EXCEPT !.detached = TRUE]) /\ Stays(t, [t EXCEPT !.open_cancelled = TRUE])
           /\ Stays(t, [t EXCEPT !.connects = t.connects + 1])
           /\ Stays(t, [t EXCEPT !.disconnects = t.disconnects + 1])
           /\ \A r : Stays(t, [t EXCEPT !.release_state = r])
<1>1. t.status \in 0..3
    BY DEF Impl, CONNECTING, DISCONNECTED
<1>2. Stays(t, t) /\ Stays(t, Closed(t))
    BY <1>1, ClosedKeeps DEF Stays
<1>3. GaveUp(t) \in Impl /\ GaveUp(t).status >= t.status
    BY GaveUpKeeps
<1>4. Stays(t, GaveUp(t)) /\ Stays(t, [GaveUp(t) EXCEPT !.net = "over"])
    BY <1>3 DEF Stays, Impl
<1>5. Stays(t, [t EXCEPT !.status = DISCONNECTED])
    BY <1>1 DEF Stays, Impl, DISCONNECTED
<1>6. t.status = CONNECTING => Stays(t, [t EXCEPT !.status = CONNECTED])
    BY DEF Stays, Down, Impl, CONNECTING, DISCONNECTING
<1>7. ~t.session_started => Stays(t, Started(t))
    BY DEF Stays
<1>8. /\ \A b \in BOOLEAN : Stays(t, [t EXCEPT !.reading = b])
      /\ \A n \in {"over", "connecting"} : Stays(t, [t EXCEPT !.net = n])
      /\ \A c \in {"over", "closing"} : Stays(t, [t EXCEPT !.closing = c])
    BY <1>1 DEF Stays, Impl
<1>9. /\ Stays(t, [t EXCEPT !.detached = TRUE]) /\ Stays(t, [t EXCEPT !.open_cancelled = TRUE])
      /\ Stays(t, [t EXCEPT !.connects = t.connects + 1])
      /\ Stays(t, [t EXCEPT !.disconnects = t.disconnects + 1])
      /\ \A r : Stays(t, [t EXCEPT !.release_state = r])
    BY <1>1 DEF Stays, Impl
<1>. QED
    BY <1>2, <1>4, <1>5, <1>6, <1>7, <1>8, <1>9

\* The status of a session that has ended or been closed never goes back, whoever
\* writes it.
THEOREM ClosedForGood == Spec => ClosedStaysClosed
<1> DEFINE Step(i) == \E s : ses' = [ses EXCEPT ![i] = s] /\ Stays(ses[i], s)
<1>1. ASSUME IInv, NEW i \in Sessions, HandlerStep(i) PROVE Step(i)
    <2>1. ses[i] \in Impl /\ LifeOf(ses[i])
        BY <1>1, Typed DEF IInv, Lives
    <2>2. CASE StartDeferred(i)
        <3>1. HandlerOf(ses[i], "start")
            BY <1>1, <2>2, Running DEF StartDeferred, Run
        <3>2. ~ses[i].session_started
            BY <2>1, <3>1 DEF HandlerOf, LifeOf, Waiting
        <3>. QED
            BY <2>1, <2>2, <3>2, Changes DEF StartDeferred, Run
    <2>3. CASE Release(i)
        <3>1. ses' = [ses EXCEPT ![i] =
                        [ses[i] EXCEPT !.release_state = IF shared THEN "released" ELSE ses[i].release_state]]
            BY <2>3 DEF Release
        <3>. QED
            BY <2>1, <3>1, Changes
    <2>4. CASE Upgraded(i) \/ Connect(i) \/ Announce(i) \/ OnConnectedReturns(i) \/ Connected(i) \/ Arm(i)
        BY <2>1, <2>4, Changes DEF Upgraded, Connect, Announce, OnConnectedReturns, Connected, Arm, Run
    <2>5. CASE Complete(i) \/ Report(i) \/ OnFailedReturns(i) \/ OnDisconnectedReturns(i) \/ OpenDeferred(i)
        BY <2>1, <2>5, Changes DEF Complete, Report, OnFailedReturns, OnDisconnectedReturns, OpenDeferred, Run
    <2>6. CASE OnDataReturns(i) \/ OnReadErrorReturns(i) \/ ReadFailed(i) \/ ReadDown(i) \/ OnWriteErrorReturns(i)
        BY <2>1, <2>6, Changes DEF OnDataReturns, OnReadErrorReturns, ReadFailed, ReadDown, OnWriteErrorReturns, Run
    <2>7. CASE OnCloseErrorReturns(i) \/ CloseDone(i) \/ OnClosedReturns(i)
        BY <2>1, <2>7, Changes DEF OnCloseErrorReturns, CloseDone, OnClosedReturns, Run
    <2>. QED
        BY <1>1, <2>2, <2>3, <2>4, <2>5, <2>6, <2>7 DEF HandlerStep
<1>2. ASSUME IInv, NEW i \in Sessions,
             \/ SessionBegins(i) \/ NetworkAnswers(i) \/ RunClose(i) \/ OnClose(i)
             \/ ReadOk(i) \/ ReadFails(i) \/ WriteFails(i)
      PROVE  Step(i)
    <2>1. ses[i] \in Impl /\ LifeOf(ses[i])
        BY <1>2, Typed DEF IInv, Lives
    <2>2. CASE SessionBegins(i) \/ NetworkAnswers(i)
        BY <2>1, <2>2, Changes DEF SessionBegins, NetworkAnswers, Take
    <2>3. CASE RunClose(i) \/ OnClose(i)
        BY <2>1, <2>3, Changes DEF RunClose, OnClose, Take
    <2>4. CASE ReadOk(i) \/ ReadFails(i) \/ WriteFails(i)
        BY <2>1, <2>4, Changes DEF ReadOk, ReadFails, WriteFails, Take
    <2>. QED
        BY <1>2, <2>2, <2>3, <2>4
<1>3. ASSUME IInv, CallClose \/ Destroy \/ ClientStep
      PROVE  \E i \in Sessions : Step(i)
    <2> DEFINE Calling ==
            \/ OpenCheck \/ OpenConnected \/ OpenConnecting \/ OpenDetach \/ OpenClose \/ OpenImpl
            \/ CallClose \/ CloseCheck \/ CloseCancel \/ CloseImpl
            \/ Destroy \/ DestroyCancel \/ DestroyClose
    <2>1. CASE Calling
        <3>1. impl \in Sessions
            BY <1>3, <2>1, MaxSessionsAssumption
            DEF IInv, TypeOK, Calls, OpenCheck, OpenConnected, OpenConnecting, OpenDetach, OpenClose, OpenImpl,
                CallClose, CloseCheck, CloseCancel, CloseImpl, Destroy, DestroyCancel, DestroyClose, Call,
                NoSession, Sessions
        <3>2. ses[impl] \in Impl /\ LifeOf(ses[impl])
            BY <1>3, <3>1, Typed DEF IInv, Lives
        <3>3. CASE OpenImpl
            <4>1. ~ses[impl].session_started
                BY <1>3, <3>2, <3>3 DEF IInv, Calls, Made, OpenImpl, Call, LifeOf
            <4>. QED
                BY <3>1, <3>2, <3>3, <4>1, Changes DEF OpenImpl, Call
        <3>4. CASE OpenCheck \/ OpenConnected \/ OpenConnecting \/ OpenDetach \/ OpenClose
            <4>1. Step(impl)
                BY <3>2, <3>4, Changes DEF OpenCheck, OpenConnected, OpenConnecting, OpenDetach, OpenClose, Call
            <4>. QED
                BY <3>1, <4>1
        <3>5. CASE CallClose \/ CloseCheck \/ CloseCancel \/ CloseImpl \/ Destroy \/ DestroyCancel \/ DestroyClose
            <4>1. Step(impl)
                BY <3>2, <3>5, Changes
                DEF CallClose, CloseCheck, CloseCancel, CloseImpl, Destroy, DestroyCancel, DestroyClose, Call
            <4>. QED
                BY <3>1, <4>1
        <3>. QED
            BY <2>1, <3>3, <3>4, <3>5
    <2>2. CASE OpenNew
        <3>1. impl + 1 \in Sessions /\ ses[impl + 1] = NewImpl /\ ses \in [Sessions -> Impl]
            BY <1>3, <2>2, MaxSessionsAssumption DEF IInv, TypeOK, Calls, Opening, OpenNew, Sessions
        <3>2. \A s : Stays(ses[impl + 1], s)
            BY <3>1 DEF Stays, NewImpl
        <3>3. \/ ses' = [ses EXCEPT ![impl + 1] = [ses[impl + 1] EXCEPT !.status = CONNECTING]]
              \/ ses' = [ses EXCEPT ![impl + 1] = ses[impl + 1]]
            BY <2>2, <3>1 DEF OpenNew
        <3>. QED
            BY <3>1, <3>2, <3>3
    <2>3. CASE OpenDefer
        <3>1. impl - 1 \in Sessions /\ ses \in [Sessions -> Impl]
            BY <1>3, <2>3, MaxSessionsAssumption DEF IInv, TypeOK, Calls, OpenDefer, Sessions
        <3>2. ses[impl - 1] \in Impl /\ LifeOf(ses[impl - 1])
            BY <1>3, <3>1, Typed DEF IInv, Lives
        <3>3. \/ ses' = [ses EXCEPT ![impl - 1] = [ses[impl - 1] EXCEPT !.release_state = "callbackSet"]]
              \/ ses' = [ses EXCEPT ![impl - 1] = ses[impl - 1]]
            BY <2>3, <3>1 DEF OpenDefer
        <3>4. Step(impl - 1)
            BY <3>2, <3>3, Changes
        <3>. QED
            BY <3>1, <3>4
    <2>. QED
        BY <1>3, <2>1, <2>2, <2>3 DEF ClientStep
<1>4. ASSUME IInv, [Next]_vars, NEW j \in Sessions, ses[j].session_started, Down(ses[j])
      PROVE  ses'[j].status >= ses[j].status
    <2>1. ses \in [Sessions -> Impl] /\ ses[j].status \in 0..3
        BY <1>4, Typed DEF IInv, TypeOK
    <2>2. ASSUME NEW i \in Sessions, Step(i) PROVE ses'[j].status >= ses[j].status
        <3>1. PICK s : ses' = [ses EXCEPT ![i] = s] /\ Stays(ses[i], s)
            BY <2>2
        <3>2. ses'[j] = IF j = i THEN s ELSE ses[j]
            BY <2>1, <3>1
        <3>. QED
            BY <1>4, <2>1, <3>1, <3>2 DEF Stays
    <2>3. CASE UNCHANGED ses
        BY <2>1, <2>3
    <2>4. CASE CallOpen \/ UNCHANGED vars
        BY <2>3, <2>4 DEF CallOpen, vars
    <2> HIDE DEF Step
    <2>. QED
        BY <1>1, <1>2, <1>3, <1>4, <2>2, <2>4 DEF Next
<1>5. IInv /\ [Next]_vars =>
        [\A i \in Sessions :
            ses[i].session_started /\ ses[i].status >= DISCONNECTING => ses'[i].status >= ses[i].status]_vars
    BY <1>4 DEF Down
<1>. QED
    BY <1>5, Invariance, PTL DEF Spec, ClosedStaysClosed
=============================================================================
