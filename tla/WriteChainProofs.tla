--------------------------- MODULE WriteChainProofs ---------------------------
(***************************************************************************)
(* Theorems about WriteChain, for any number of senders and records.  The  *)
(* inductive invariant is IInv of that module; each of its parts has a     *)
(* lemma that says every step preserves it, given all of them before.      *)
(***************************************************************************)
EXTENDS WriteChain, TLAPS, FiniteSetTheorems

\* The senders about to reserve a record can be counted.
LEMMA ReservingCount ==
    /\ IsFiniteSet(Reserving)
    /\ Cardinality(Reserving) \in Nat
    /\ Reserving # {} => Cardinality(Reserving) # 0
<1>1. Reserving \subseteq Senders
  BY DEF Reserving
<1>2. IsFiniteSet(Reserving)
  BY <1>1, FS_Subset, SendersAssumption
<1>3. QED
  BY <1>2, FS_CardinalityType, FS_EmptySet

\* A send that leaves the gate, with or without claiming it, disturbs no record.
LEMMA SlotsAtGate ==
    ASSUME IInv, NEW p \in Senders,
           pc[p] \in {"load", "cas"},
           UNCHANGED <<reserved, stored, visible, hpc>>,
           \A q \in Senders \ {p} : pc'[q] = pc[q] /\ slot'[q] = slot[q],
           \/ pc'[p] = "idle" /\ slot'[p] = NoRecord
           \/ pc'[p] \in {"cas", "post"} /\ slot'[p] = slot[p]
    PROVE  SlotsHeld'
<1> USE DEF IInv, SlotsHeld
<1>1. \A q \in Senders :
        /\ pc'[q] \in {"idle", "reserve"} => slot'[q] = NoRecord
        /\ pc'[q] = "publish" => slot'[q] \in 1..reserved \ stored
        /\ pc'[q] = "fence" => slot'[q] \in stored
        /\ pc'[q] \in {"load", "cas", "post"} => slot'[q] \in visible
  OBVIOUS
<1>2. \A q1, q2 \in Senders : slot'[q1] = slot'[q2] /\ slot'[q1] # NoRecord => q1 = q2
  OBVIOUS
<1>3. \A q \in Senders : pc[q] \in {"publish", "fence"} => pc'[q] = pc[q] /\ slot'[q] = slot[q]
  OBVIOUS
<1>4. pc'[Service] # "idle" => hpc' \in Callbacks
  BY SendersAssumption
<1>5. QED
  BY <1>1, <1>2, <1>3, <1>4

-----------------------------------------------------------------------------

\* Every step keeps every variable in its range.
LEMMA TypeStep == IInv /\ [Next]_vars => TypeOK'
<1> SUFFICES ASSUME IInv, [Next]_vars PROVE TypeOK'
  OBVIOUS
<1> USE DEF IInv, TypeOK, SendSteps, HandlerSteps, Callbacks, NoRecord, CONNECTING, CONNECTED, DISCONNECTING, DISCONNECTED, senderVars, queueVars, chainVars, gateVars, streamVars
<1>1. ASSUME NEW p \in Senders, SendBegin(p) PROVE TypeOK'
  BY <1>1 DEF SendBegin
<1>2. ASSUME NEW p \in Senders, Reserve(p) PROVE TypeOK'
  <2> USE <1>2 DEF Reserve
  <2>1. reserved' \in 0..MaxRecords
    <3>1. Cardinality(Reserving) \in Nat \ {0}
      BY ReservingCount DEF Reserving
    <3>2. QED
      BY <3>1, MaxRecordsAssumption DEF Room
  <2>2. slot' \in [Senders -> 0..reserved'] /\ pc' \in [Senders -> SendSteps]
    BY <2>1
  <2>3. 1..reserved \subseteq 1..reserved'
    BY <2>1
  <2>4. Seq(1..reserved) \subseteq Seq(1..reserved')
    BY <2>3
  <2>5. QED
    BY <2>1, <2>2, <2>3, <2>4
<1>3. ASSUME NEW p \in Senders, Publish(p) PROVE TypeOK'
  <2> USE <1>3 DEF Publish
  <2>1. slot[p] \in 1..reserved
    BY DEF SlotsHeld
  <2>2. stored' \subseteq 1..reserved' /\ visible' \subseteq stored'
    BY <2>1
  <2>3. pc' \in [Senders -> SendSteps]
    OBVIOUS
  <2>4. QED
    BY <2>2, <2>3
<1>4. ASSUME NEW p \in Senders, ClaimFence(p) PROVE TypeOK'
  BY <1>4 DEF ClaimFence
<1>5. ASSUME NEW p \in Senders, ClaimLoad(p) PROVE TypeOK'
  <2> USE <1>5 DEF ClaimLoad, SendEnd
  <2>1. pc' \in [Senders -> SendSteps]
    OBVIOUS
  <2>2. slot' \in [Senders -> 0..reserved']
    OBVIOUS
  <2>3. QED
    BY <2>1, <2>2
<1>6. ASSUME NEW p \in Senders, ClaimCas(p) PROVE TypeOK'
  <2> USE <1>6 DEF ClaimCas, SendEnd
  <2>1. pc' \in [Senders -> SendSteps]
    OBVIOUS
  <2>2. slot' \in [Senders -> 0..reserved']
    OBVIOUS
  <2>3. running' \in BOOLEAN
    OBVIOUS
  <2>4. QED
    BY <2>1, <2>2, <2>3
<1>7. ASSUME NEW p \in Senders, PostWakeup(p) PROVE TypeOK'
  BY <1>7 DEF PostWakeup, SendEnd
<1>8. ASSUME NEW r \in Records, FlushRecord(r) PROVE TypeOK'
  BY <1>8 DEF FlushRecord
<1>9. ASSUME FlushEnding PROVE TypeOK'
  BY <1>9 DEF FlushEnding
<1>10. ASSUME RunWakeup PROVE TypeOK'
  BY <1>10 DEF RunWakeup
<1>11. ASSUME DoWrite PROVE TypeOK'
  BY <1>11 DEF DoWrite
<1>12. ASSUME Read PROVE TypeOK'
  <2> USE <1>12 DEF Read
  <2>1. w_cursor' \in 1..reserved' + 1
    OBVIOUS
  <2>2. inflight' \subseteq 1..reserved'
    OBVIOUS
  <2>3. hpc' \in HandlerSteps
    OBVIOUS
  <2>4. written' \in Seq(1..reserved')
    OBVIOUS
  <2>5. QED
    BY <2>1, <2>2, <2>3, <2>4
<1>13. ASSUME EndStore PROVE TypeOK'
  BY <1>13 DEF EndStore
<1>14. ASSUME EndFence PROVE TypeOK'
  BY <1>14 DEF EndFence
<1>15. ASSUME EndProbe PROVE TypeOK'
  BY <1>15 DEF EndProbe
<1>16. ASSUME EndReclaim PROVE TypeOK'
  <2> USE <1>16 DEF EndReclaim
  <2>1. cursor = w_cursor + 1 /\ cursor - 1 \in 1..reserved
    BY DEF CursorHeld
  <2>2. w_cursor' \in 1..reserved' + 1
    BY <2>1
  <2>3. inflight' \subseteq 1..reserved'
    BY <2>1
  <2>4. hpc' \in HandlerSteps /\ cursor' \in 0..reserved' + 1
    OBVIOUS
  <2>5. QED
    BY <2>2, <2>3, <2>4
<1>17. ASSUME NEW r \in Records, OnWriteOk(r) PROVE TypeOK'
  BY <1>17 DEF OnWriteOk
<1>18. ASSUME NEW r \in Records, OnWriteError(r) PROVE TypeOK'
  BY <1>18 DEF OnWriteError
<1>19. ASSUME OnErrorReturns PROVE TypeOK'
  BY <1>19 DEF OnErrorReturns
<1>20. ASSUME OnConnectedReturns PROVE TypeOK'
  <2> USE <1>20 DEF OnConnectedReturns
  <2>1. wakeups' \in Nat
    OBVIOUS
  <2>2. status' \in CONNECTING..DISCONNECTED
    OBVIOUS
  <2>3. hpc' \in HandlerSteps /\ write_parked' \in BOOLEAN
    OBVIOUS
  <2>4. QED
    BY <2>1, <2>2, <2>3
<1>21. ASSUME OnReadErrorReturns PROVE TypeOK'
  BY <1>21 DEF OnReadErrorReturns
<1>22. ASSUME OnDataReturns PROVE TypeOK'
  BY <1>22 DEF OnDataReturns
<1>23. ASSUME HandshakeDone PROVE TypeOK'
  BY <1>23 DEF HandshakeDone
<1>24. ASSUME SessionEnds PROVE TypeOK'
  BY <1>24 DEF SessionEnds
<1>25. ASSUME OnData PROVE TypeOK'
  BY <1>25 DEF OnData
<1>26. ASSUME OnReadError PROVE TypeOK'
  BY <1>26 DEF OnReadError
<1>27. ASSUME Close PROVE TypeOK'
  BY <1>27 DEF Close
<1>28. CASE UNCHANGED vars
  BY <1>28 DEF vars
<1>29. QED
  BY <1>1, <1>2, <1>3, <1>4, <1>5, <1>6, <1>7, <1>8, <1>9, <1>10, <1>11, <1>12, <1>13, <1>14,
     <1>15, <1>16, <1>17, <1>18, <1>19, <1>20, <1>21, <1>22, <1>23, <1>24, <1>25, <1>26, <1>27, <1>28
  DEF Next, SendStep, ChainStep, CallbackReturns, Flush

\* A send that takes a record gives back its place among those about to.
LEMMA RoomStep == IInv /\ [Next]_vars => Room'
<1> SUFFICES ASSUME IInv, [Next]_vars PROVE Room'
  OBVIOUS
<1> USE DEF IInv, Reserving, senderVars, queueVars, chainVars, gateVars, streamVars
<1>0. ASSUME Reserving' \subseteq Reserving, reserved' = reserved PROVE Room'
  <2>1. Cardinality(Reserving') <= Cardinality(Reserving) /\ Cardinality(Reserving') \in Nat
    BY <1>0, ReservingCount, FS_Subset, FS_CardinalityType
  <2>2. QED
    BY <1>0, <2>1, ReservingCount, MaxRecordsAssumption DEF Room, TypeOK
<1>1. ASSUME NEW p \in Senders, SendBegin(p) PROVE Room'
  <2>1. Reserving' = Reserving \cup {p} /\ p \notin Reserving
    BY <1>1 DEF SendBegin, TypeOK
  <2>2. Cardinality(Reserving') = Cardinality(Reserving) + 1
    BY <2>1, ReservingCount, FS_AddElement
  <2>3. QED
    BY <1>1, <2>2, ReservingCount, MaxRecordsAssumption DEF SendBegin, Room, TypeOK
<1>2. ASSUME NEW p \in Senders, Reserve(p) PROVE Room'
  <2>1. Reserving' = Reserving \ {p} /\ p \in Reserving
    BY <1>2 DEF Reserve, TypeOK
  <2>2. Cardinality(Reserving') = Cardinality(Reserving) - 1
    BY <2>1, ReservingCount, FS_RemoveElement
  <2>3. QED
    BY <1>2, <2>2, ReservingCount, MaxRecordsAssumption DEF Reserve, Room, TypeOK
<1>3. ASSUME NEW p \in Senders, Publish(p) PROVE Room'
  BY <1>0, <1>3 DEF TypeOK, Publish
<1>4. ASSUME NEW p \in Senders, ClaimFence(p) PROVE Room'
  BY <1>0, <1>4 DEF TypeOK, ClaimFence
<1>5. ASSUME NEW p \in Senders, ClaimLoad(p) PROVE Room'
  BY <1>0, <1>5 DEF TypeOK, ClaimLoad, SendEnd
<1>6. ASSUME NEW p \in Senders, ClaimCas(p) PROVE Room'
  BY <1>0, <1>6 DEF TypeOK, ClaimCas, SendEnd
<1>7. ASSUME NEW p \in Senders, PostWakeup(p) PROVE Room'
  BY <1>0, <1>7 DEF TypeOK, PostWakeup, SendEnd
<1>8. ASSUME NEW r \in Records, FlushRecord(r) PROVE Room'
  BY <1>0, <1>8 DEF TypeOK, FlushRecord
<1>9. ASSUME FlushEnding PROVE Room'
  BY <1>0, <1>9 DEF TypeOK, FlushEnding
<1>10. ASSUME RunWakeup PROVE Room'
  BY <1>0, <1>10 DEF TypeOK, RunWakeup
<1>11. ASSUME DoWrite PROVE Room'
  BY <1>0, <1>11 DEF TypeOK, DoWrite
<1>12. ASSUME Read PROVE Room'
  BY <1>0, <1>12 DEF TypeOK, Read
<1>13. ASSUME EndStore PROVE Room'
  BY <1>0, <1>13 DEF TypeOK, EndStore
<1>14. ASSUME EndFence PROVE Room'
  BY <1>0, <1>14 DEF TypeOK, EndFence
<1>15. ASSUME EndProbe PROVE Room'
  BY <1>0, <1>15 DEF TypeOK, EndProbe
<1>16. ASSUME EndReclaim PROVE Room'
  BY <1>0, <1>16 DEF TypeOK, EndReclaim
<1>17. ASSUME NEW r \in Records, OnWriteOk(r) PROVE Room'
  BY <1>0, <1>17 DEF TypeOK, OnWriteOk
<1>18. ASSUME NEW r \in Records, OnWriteError(r) PROVE Room'
  BY <1>0, <1>18 DEF TypeOK, OnWriteError
<1>19. ASSUME OnErrorReturns PROVE Room'
  BY <1>0, <1>19 DEF TypeOK, OnErrorReturns
<1>20. ASSUME OnConnectedReturns PROVE Room'
  BY <1>0, <1>20 DEF TypeOK, OnConnectedReturns
<1>21. ASSUME OnReadErrorReturns PROVE Room'
  BY <1>0, <1>21 DEF TypeOK, OnReadErrorReturns
<1>22. ASSUME OnDataReturns PROVE Room'
  BY <1>0, <1>22 DEF TypeOK, OnDataReturns
<1>23. ASSUME HandshakeDone PROVE Room'
  BY <1>0, <1>23 DEF TypeOK, HandshakeDone
<1>24. ASSUME SessionEnds PROVE Room'
  BY <1>0, <1>24 DEF TypeOK, SessionEnds
<1>25. ASSUME OnData PROVE Room'
  BY <1>0, <1>25 DEF TypeOK, OnData
<1>26. ASSUME OnReadError PROVE Room'
  BY <1>0, <1>26 DEF TypeOK, OnReadError
<1>27. ASSUME Close PROVE Room'
  BY <1>0, <1>27 DEF TypeOK, Close
<1>28. CASE UNCHANGED vars
  BY <1>0, <1>28 DEF TypeOK, vars
<1>29. QED
  BY <1>1, <1>2, <1>3, <1>4, <1>5, <1>6, <1>7, <1>8, <1>9, <1>10, <1>11, <1>12, <1>13, <1>14,
     <1>15, <1>16, <1>17, <1>18, <1>19, <1>20, <1>21, <1>22, <1>23, <1>24, <1>25, <1>26, <1>27, <1>28
  DEF Next, SendStep, ChainStep, CallbackReturns, Flush

\* Records and the senders that hold them stay matched.
LEMMA SlotsStep == IInv /\ [Next]_vars => SlotsHeld'
<1> SUFFICES ASSUME IInv, [Next]_vars PROVE SlotsHeld'
  OBVIOUS
<1> USE DEF IInv, SlotsHeld, TypeOK, Callbacks, NoRecord, senderVars, queueVars, chainVars, gateVars, streamVars
<1>1. ASSUME NEW p \in Senders, SendBegin(p) PROVE SlotsHeld'
  BY <1>1 DEF SendBegin, MaySend
<1>2. ASSUME NEW p \in Senders, Reserve(p) PROVE SlotsHeld'
  BY <1>2 DEF Reserve
<1>3. ASSUME NEW p \in Senders, Publish(p) PROVE SlotsHeld'
  BY <1>3 DEF Publish
<1>4. ASSUME NEW p \in Senders, ClaimFence(p) PROVE SlotsHeld'
  BY <1>4 DEF ClaimFence
<1>5. ASSUME NEW p \in Senders, ClaimLoad(p) PROVE SlotsHeld'
  <2> HIDE DEF SlotsHeld
  <2>1. QED
    BY <1>5, SlotsAtGate DEF ClaimLoad, SendEnd
<1>6. ASSUME NEW p \in Senders, ClaimCas(p) PROVE SlotsHeld'
  <2> HIDE DEF SlotsHeld
  <2>1. QED
    BY <1>6, SlotsAtGate DEF ClaimCas, SendEnd
<1>7. ASSUME NEW p \in Senders, PostWakeup(p) PROVE SlotsHeld'
  BY <1>7 DEF PostWakeup, SendEnd
<1>8. ASSUME NEW r \in Records, FlushRecord(r) PROVE SlotsHeld'
  BY <1>8 DEF FlushRecord
<1>9. ASSUME FlushEnding PROVE SlotsHeld'
  BY <1>9 DEF FlushEnding
<1>10. ASSUME RunWakeup PROVE SlotsHeld'
  BY <1>10 DEF RunWakeup
<1>11. ASSUME DoWrite PROVE SlotsHeld'
  BY <1>11 DEF DoWrite
<1>12. ASSUME Read PROVE SlotsHeld'
  BY <1>12 DEF Read
<1>13. ASSUME EndStore PROVE SlotsHeld'
  BY <1>13 DEF EndStore
<1>14. ASSUME EndFence PROVE SlotsHeld'
  BY <1>14 DEF EndFence
<1>15. ASSUME EndProbe PROVE SlotsHeld'
  BY <1>15 DEF EndProbe
<1>16. ASSUME EndReclaim PROVE SlotsHeld'
  BY <1>16 DEF EndReclaim
<1>17. ASSUME NEW r \in Records, OnWriteOk(r) PROVE SlotsHeld'
  BY <1>17 DEF OnWriteOk
<1>18. ASSUME NEW r \in Records, OnWriteError(r) PROVE SlotsHeld'
  BY <1>18 DEF OnWriteError
<1>19. ASSUME OnErrorReturns PROVE SlotsHeld'
  BY <1>19 DEF OnErrorReturns
<1>20. ASSUME OnConnectedReturns PROVE SlotsHeld'
  BY <1>20 DEF OnConnectedReturns
<1>21. ASSUME OnReadErrorReturns PROVE SlotsHeld'
  BY <1>21 DEF OnReadErrorReturns
<1>22. ASSUME OnDataReturns PROVE SlotsHeld'
  BY <1>22 DEF OnDataReturns
<1>23. ASSUME HandshakeDone PROVE SlotsHeld'
  BY <1>23 DEF HandshakeDone
<1>24. ASSUME SessionEnds PROVE SlotsHeld'
  BY <1>24 DEF SessionEnds
<1>25. ASSUME OnData PROVE SlotsHeld'
  BY <1>25 DEF OnData
<1>26. ASSUME OnReadError PROVE SlotsHeld'
  BY <1>26 DEF OnReadError
<1>27. ASSUME Close PROVE SlotsHeld'
  BY <1>27 DEF Close
<1>28. CASE UNCHANGED vars
  BY <1>28 DEF vars
<1>29. QED
  BY <1>1, <1>2, <1>3, <1>4, <1>5, <1>6, <1>7, <1>8, <1>9, <1>10, <1>11, <1>12, <1>13, <1>14,
     <1>15, <1>16, <1>17, <1>18, <1>19, <1>20, <1>21, <1>22, <1>23, <1>24, <1>25, <1>26, <1>27, <1>28
  DEF Next, SendStep, ChainStep, CallbackReturns, Flush

\* The flag and the chain stay together, and the chain stays one.
LEMMA GateStep == IInv /\ [Next]_vars => GateHeld'
<1> SUFFICES ASSUME IInv, [Next]_vars PROVE GateHeld'
  OBVIOUS
<1> USE DEF IInv, TypeOK, SlotsHeld, GateHeld, OneChain, Owned, Ending, Claimed, Posted, Parked, Draining, Writing, Callbacks, CONNECTING, CONNECTED, DISCONNECTING, DISCONNECTED, senderVars, queueVars, chainVars, gateVars, streamVars
<1>1. ASSUME NEW p \in Senders, SendBegin(p) PROVE GateHeld'
  BY <1>1 DEF SendBegin
<1>2. ASSUME NEW p \in Senders, Reserve(p) PROVE GateHeld'
  BY <1>2 DEF Reserve
<1>3. ASSUME NEW p \in Senders, Publish(p) PROVE GateHeld'
  BY <1>3 DEF Publish
<1>4. ASSUME NEW p \in Senders, ClaimFence(p) PROVE GateHeld'
  BY <1>4 DEF ClaimFence
<1>5. ASSUME NEW p \in Senders, ClaimLoad(p) PROVE GateHeld'
  BY <1>5 DEF ClaimLoad, SendEnd
<1>6. ASSUME NEW p \in Senders, ClaimCas(p) PROVE GateHeld'
  BY <1>6 DEF ClaimCas, SendEnd
<1>7. ASSUME NEW p \in Senders, PostWakeup(p) PROVE GateHeld'
  BY <1>7 DEF PostWakeup, SendEnd
<1>8. ASSUME NEW r \in Records, FlushRecord(r) PROVE GateHeld'
  BY <1>8 DEF FlushRecord
<1>9. ASSUME FlushEnding PROVE GateHeld'
  BY <1>9 DEF FlushEnding
<1>10. ASSUME RunWakeup PROVE GateHeld'
  BY <1>10 DEF RunWakeup
<1>11. ASSUME DoWrite PROVE GateHeld'
  BY <1>11 DEF DoWrite
<1>12. ASSUME Read PROVE GateHeld'
  BY <1>12 DEF Read
<1>13. ASSUME EndStore PROVE GateHeld'
  BY <1>13 DEF EndStore
<1>14. ASSUME EndFence PROVE GateHeld'
  BY <1>14 DEF EndFence
<1>15. ASSUME EndProbe PROVE GateHeld'
  BY <1>15 DEF EndProbe
<1>16. ASSUME EndReclaim PROVE GateHeld'
  BY <1>16 DEF EndReclaim
<1>17. ASSUME NEW r \in Records, OnWriteOk(r) PROVE GateHeld'
  <2> USE <1>17 DEF OnWriteOk
  <2>1. inflight' = {}
    OBVIOUS
  <2>2. QED
    BY <2>1
<1>18. ASSUME NEW r \in Records, OnWriteError(r) PROVE GateHeld'
  <2> USE <1>18 DEF OnWriteError
  <2>1. inflight' = {}
    OBVIOUS
  <2>2. running
    OBVIOUS
  <2>3. CASE ending' = TRUE /\ UNCHANGED hpc
    BY <2>1, <2>2, <2>3
  <2>4. CASE status = CONNECTED /\ hpc' = "onError" /\ UNCHANGED ending
    BY <2>1, <2>2, <2>4
  <2>5. QED
    BY <2>3, <2>4
<1>19. ASSUME OnErrorReturns PROVE GateHeld'
  BY <1>19 DEF OnErrorReturns
<1>20. ASSUME OnConnectedReturns PROVE GateHeld'
  BY <1>20 DEF OnConnectedReturns
<1>21. ASSUME OnReadErrorReturns PROVE GateHeld'
  BY <1>21 DEF OnReadErrorReturns
<1>22. ASSUME OnDataReturns PROVE GateHeld'
  BY <1>22 DEF OnDataReturns
<1>23. ASSUME HandshakeDone PROVE GateHeld'
  BY <1>23 DEF HandshakeDone
<1>24. ASSUME SessionEnds PROVE GateHeld'
  BY <1>24 DEF SessionEnds
<1>25. ASSUME OnData PROVE GateHeld'
  BY <1>25 DEF OnData
<1>26. ASSUME OnReadError PROVE GateHeld'
  BY <1>26 DEF OnReadError
<1>27. ASSUME Close PROVE GateHeld'
  BY <1>27 DEF Close
<1>28. CASE UNCHANGED vars
  BY <1>28 DEF vars
<1>29. QED
  BY <1>1, <1>2, <1>3, <1>4, <1>5, <1>6, <1>7, <1>8, <1>9, <1>10, <1>11, <1>12, <1>13, <1>14,
     <1>15, <1>16, <1>17, <1>18, <1>19, <1>20, <1>21, <1>22, <1>23, <1>24, <1>25, <1>26, <1>27, <1>28
  DEF Next, SendStep, ChainStep, CallbackReturns, Flush

\* The cursor moves over a record exactly when it goes into flight.
LEMMA CursorStep == IInv /\ [Next]_vars => CursorHeld'
<1> SUFFICES ASSUME IInv, [Next]_vars PROVE CursorHeld'
  OBVIOUS
<1> USE DEF IInv, TypeOK, GateHeld, OneChain, Owned, Ending, Claimed, Posted, Parked, Draining, Writing, CursorHeld, WrittenInOrder, senderVars, queueVars, chainVars, gateVars, streamVars
<1>1. ASSUME NEW p \in Senders, SendBegin(p) PROVE CursorHeld'
  BY <1>1 DEF SendBegin
<1>2. ASSUME NEW p \in Senders, Reserve(p) PROVE CursorHeld'
  BY <1>2 DEF Reserve
<1>3. ASSUME NEW p \in Senders, Publish(p) PROVE CursorHeld'
  BY <1>3 DEF Publish
<1>4. ASSUME NEW p \in Senders, ClaimFence(p) PROVE CursorHeld'
  BY <1>4 DEF ClaimFence
<1>5. ASSUME NEW p \in Senders, ClaimLoad(p) PROVE CursorHeld'
  BY <1>5 DEF ClaimLoad, SendEnd
<1>6. ASSUME NEW p \in Senders, ClaimCas(p) PROVE CursorHeld'
  BY <1>6 DEF ClaimCas, SendEnd
<1>7. ASSUME NEW p \in Senders, PostWakeup(p) PROVE CursorHeld'
  BY <1>7 DEF PostWakeup, SendEnd
<1>8. ASSUME NEW r \in Records, FlushRecord(r) PROVE CursorHeld'
  BY <1>8 DEF FlushRecord
<1>9. ASSUME FlushEnding PROVE CursorHeld'
  BY <1>9 DEF FlushEnding
<1>10. ASSUME RunWakeup PROVE CursorHeld'
  BY <1>10 DEF RunWakeup
<1>11. ASSUME DoWrite PROVE CursorHeld'
  BY <1>11 DEF DoWrite
<1>12. ASSUME Read PROVE CursorHeld'
  BY <1>12 DEF Read
<1>13. ASSUME EndStore PROVE CursorHeld'
  BY <1>13 DEF EndStore
<1>14. ASSUME EndFence PROVE CursorHeld'
  BY <1>14 DEF EndFence
<1>15. ASSUME EndProbe PROVE CursorHeld'
  BY <1>15 DEF EndProbe
<1>16. ASSUME EndReclaim PROVE CursorHeld'
  BY <1>16 DEF EndReclaim
<1>17. ASSUME NEW r \in Records, OnWriteOk(r) PROVE CursorHeld'
  <2> USE <1>17 DEF OnWriteOk
  <2>1. inflight' = {} /\ r = w_cursor - 1
    OBVIOUS
  <2>2. Len(written) = w_cursor - 2 /\ Len(written') = w_cursor - 1
    OBVIOUS
  <2>3. WrittenInOrder'
    BY <2>1, <2>2
  <2>4. ~Writing' /\ w_cursor' = w_cursor /\ visible' = visible /\ hpc' # "reclaim"
    BY <2>1
  <2>5. QED
    BY <2>1, <2>2, <2>3, <2>4
<1>18. ASSUME NEW r \in Records, OnWriteError(r) PROVE CursorHeld'
  BY <1>18 DEF OnWriteError
<1>19. ASSUME OnErrorReturns PROVE CursorHeld'
  BY <1>19 DEF OnErrorReturns
<1>20. ASSUME OnConnectedReturns PROVE CursorHeld'
  BY <1>20 DEF OnConnectedReturns
<1>21. ASSUME OnReadErrorReturns PROVE CursorHeld'
  BY <1>21 DEF OnReadErrorReturns
<1>22. ASSUME OnDataReturns PROVE CursorHeld'
  BY <1>22 DEF OnDataReturns
<1>23. ASSUME HandshakeDone PROVE CursorHeld'
  BY <1>23 DEF HandshakeDone
<1>24. ASSUME SessionEnds PROVE CursorHeld'
  BY <1>24 DEF SessionEnds
<1>25. ASSUME OnData PROVE CursorHeld'
  BY <1>25 DEF OnData
<1>26. ASSUME OnReadError PROVE CursorHeld'
  BY <1>26 DEF OnReadError
<1>27. ASSUME Close PROVE CursorHeld'
  BY <1>27 DEF Close
<1>28. CASE UNCHANGED vars
  BY <1>28 DEF vars
<1>29. QED
  BY <1>1, <1>2, <1>3, <1>4, <1>5, <1>6, <1>7, <1>8, <1>9, <1>10, <1>11, <1>12, <1>13, <1>14,
     <1>15, <1>16, <1>17, <1>18, <1>19, <1>20, <1>21, <1>22, <1>23, <1>24, <1>25, <1>26, <1>27, <1>28
  DEF Next, SendStep, ChainStep, CallbackReturns, Flush

\* Responsibility for the record at the cursor is never dropped: the step that could
\* drop it, a load or a compare-and-swap that finds the gate taken, leaves the record
\* to the chain that GateHeld says is there.
LEMMA CoveredStep == IInv /\ [Next]_vars => Covered'
<1> SUFFICES ASSUME IInv, [Next]_vars PROVE Covered'
  OBVIOUS
<1> USE DEF IInv, TypeOK, SlotsHeld, GateHeld, OneChain, Owned, Ending, Claimed, Posted, Parked, Draining, Writing, CursorHeld, Covered, senderVars, queueVars, chainVars, gateVars, streamVars
<1>1. ASSUME NEW p \in Senders, SendBegin(p) PROVE Covered'
  BY <1>1 DEF SendBegin
<1>2. ASSUME NEW p \in Senders, Reserve(p) PROVE Covered'
  BY <1>2 DEF Reserve
<1>3. ASSUME NEW p \in Senders, Publish(p) PROVE Covered'
  BY <1>3 DEF Publish
<1>4. ASSUME NEW p \in Senders, ClaimFence(p) PROVE Covered'
  BY <1>4 DEF ClaimFence
<1>5. ASSUME NEW p \in Senders, ClaimLoad(p) PROVE Covered'
  BY <1>5 DEF ClaimLoad, SendEnd
<1>6. ASSUME NEW p \in Senders, ClaimCas(p) PROVE Covered'
  BY <1>6 DEF ClaimCas, SendEnd
<1>7. ASSUME NEW p \in Senders, PostWakeup(p) PROVE Covered'
  BY <1>7 DEF PostWakeup, SendEnd
<1>8. ASSUME NEW r \in Records, FlushRecord(r) PROVE Covered'
  BY <1>8 DEF FlushRecord
<1>9. ASSUME FlushEnding PROVE Covered'
  BY <1>9 DEF FlushEnding
<1>10. ASSUME RunWakeup PROVE Covered'
  BY <1>10 DEF RunWakeup
<1>11. ASSUME DoWrite PROVE Covered'
  BY <1>11 DEF DoWrite
<1>12. ASSUME Read PROVE Covered'
  BY <1>12 DEF Read
<1>13. ASSUME EndStore PROVE Covered'
  BY <1>13 DEF EndStore
<1>14. ASSUME EndFence PROVE Covered'
  BY <1>14 DEF EndFence
<1>15. ASSUME EndProbe PROVE Covered'
  BY <1>15 DEF EndProbe
<1>16. ASSUME EndReclaim PROVE Covered'
  BY <1>16 DEF EndReclaim
<1>17. ASSUME NEW r \in Records, OnWriteOk(r) PROVE Covered'
  BY <1>17 DEF OnWriteOk
<1>18. ASSUME NEW r \in Records, OnWriteError(r) PROVE Covered'
  BY <1>18 DEF OnWriteError
<1>19. ASSUME OnErrorReturns PROVE Covered'
  BY <1>19 DEF OnErrorReturns
<1>20. ASSUME OnConnectedReturns PROVE Covered'
  BY <1>20 DEF OnConnectedReturns
<1>21. ASSUME OnReadErrorReturns PROVE Covered'
  BY <1>21 DEF OnReadErrorReturns
<1>22. ASSUME OnDataReturns PROVE Covered'
  BY <1>22 DEF OnDataReturns
<1>23. ASSUME HandshakeDone PROVE Covered'
  BY <1>23 DEF HandshakeDone
<1>24. ASSUME SessionEnds PROVE Covered'
  BY <1>24 DEF SessionEnds
<1>25. ASSUME OnData PROVE Covered'
  BY <1>25 DEF OnData
<1>26. ASSUME OnReadError PROVE Covered'
  BY <1>26 DEF OnReadError
<1>27. ASSUME Close PROVE Covered'
  BY <1>27 DEF Close
<1>28. CASE UNCHANGED vars
  BY <1>28 DEF vars
<1>29. QED
  BY <1>1, <1>2, <1>3, <1>4, <1>5, <1>6, <1>7, <1>8, <1>9, <1>10, <1>11, <1>12, <1>13, <1>14,
     <1>15, <1>16, <1>17, <1>18, <1>19, <1>20, <1>21, <1>22, <1>23, <1>24, <1>25, <1>26, <1>27, <1>28
  DEF Next, SendStep, ChainStep, CallbackReturns, Flush

-----------------------------------------------------------------------------

\* The initial state has no sender, no chain and no record.
LEMMA InitInv == Init => IInv
<1> SUFFICES ASSUME Init PROVE IInv
  OBVIOUS
<1> USE DEF Init
<1>1. TypeOK
  <2>1. written \in Seq(1..reserved)
    OBVIOUS
  <2>2. pc \in [Senders -> SendSteps] /\ slot \in [Senders -> 0..reserved]
    BY DEF SendSteps, NoRecord
  <2>3. /\ status \in CONNECTING..DISCONNECTED
        /\ hpc \in HandlerSteps
        /\ cursor \in 0..reserved + 1
        /\ w_cursor \in 1..reserved + 1
    BY DEF CONNECTING, DISCONNECTED, HandlerSteps, NoRecord
  <2>4. /\ reserved \in 0..MaxRecords
        /\ stored \subseteq 1..reserved
        /\ inflight \subseteq 1..reserved
    BY MaxRecordsAssumption
  <2>5. QED
    BY <2>1, <2>2, <2>3, <2>4 DEF TypeOK
<1>2. Room
  <2>1. Reserving = {}
    BY DEF Reserving
  <2>2. QED
    BY <2>1, FS_EmptySet, MaxRecordsAssumption DEF Room
<1>3. SlotsHeld
  BY SendersAssumption DEF SlotsHeld
<1>4. GateHeld /\ CursorHeld /\ Covered
  BY DEF GateHeld, OneChain, Owned, Ending, Claimed, Posted, Parked, Draining, Writing,
         CursorHeld, WrittenInOrder, Covered
<1>5. QED
  BY <1>1, <1>2, <1>3, <1>4 DEF IInv

\* The strengthening is an invariant of the write path.
THEOREM Invariance == Spec => []IInv
<1>1. IInv /\ [Next]_vars => IInv'
  BY TypeStep, RoomStep, SlotsStep, GateStep, CursorStep, CoveredStep DEF IInv
<1>2. QED
  BY InitInv, <1>1, PTL DEF Spec

\* Every variable keeps its range, for any number of senders and records.
THEOREM TypeCorrect == Spec => []TypeOK
  BY Invariance, PTL DEF IInv

\* The gate, parking and reclaiming never let a second write chain start.
THEOREM SingleChain == Spec => []OneChain
<1>1. IInv => OneChain
  BY DEF IInv, GateHeld
<1>2. QED
  BY Invariance, <1>1, PTL

\* Frames go out in the order send() reserved them, none twice and none skipped.
THEOREM OrderedWrites == Spec => []WrittenInOrder
<1>1. IInv => WrittenInOrder
  BY DEF IInv, CursorHeld
<1>2. QED
  BY Invariance, <1>1, PTL

\* The gate never strands a record: a quiet CONNECTED connection has written all.
THEOREM NothingStranded == Spec => []NoStrandedRecord
<1>1. IInv => NoStrandedRecord
  <2> SUFFICES ASSUME IInv, status = CONNECTED, ~failed, NothingPending
               PROVE  Len(written) = reserved
    BY DEF NoStrandedRecord
  <2> USE DEF IInv, TypeOK, NothingPending
  <2>1. stored = 1..reserved /\ visible = stored
    BY DEF SlotsHeld
  <2>2. ~Owned /\ ~Ending /\ ~Writing
    BY DEF Owned, Ending, Claimed, Posted, Parked, Draining, Writing, GateHeld
  <2>3. w_cursor \notin visible
    BY <2>2 DEF Covered
  <2>4. w_cursor = reserved + 1
    BY <2>1, <2>3
  <2>5. QED
    BY <2>2, <2>4 DEF CursorHeld
<1>2. QED
  BY Invariance, <1>1, PTL

-----------------------------------------------------------------------------

\* Each step of the write path is a step of SendQueue or leaves it alone.
LEMMA QueueStep == IInv /\ IInv' /\ [Next]_vars => [Queue!Next]_Queue!vars
<1> SUFFICES ASSUME IInv, IInv', [Next]_vars PROVE [Queue!Next]_Queue!vars
  OBVIOUS
<1> DEFINE Link == IF Gone THEN "down" ELSE IF status = CONNECTING THEN "opening" ELSE "up"
<1> USE DEF Queue!Next, Queue!vars, Queue!LinkChange, IInv, TypeOK, Gone,
            CONNECTING, CONNECTED, DISCONNECTING, DISCONNECTED
<1>1. ASSUME NEW p \in Senders, Reserve(p) PROVE Queue!Accept
  <2>1. reserved < MaxRecords
    BY <1>1, MaxRecordsAssumption DEF Reserve
  <2>2. QED
    BY <1>1, <2>1 DEF Reserve, Queue!Accept, streamVars
<1>2. ASSUME NEW p \in Senders, Publish(p) PROVE \E r \in 1..MaxRecords : Queue!Complete(r)
  <2>1. slot[p] \in 1..reserved \ stored /\ slot[p] \in 1..MaxRecords
    BY <1>2, MaxRecordsAssumption DEF Publish, SlotsHeld
  <2>2. Queue!Complete(slot[p])
    BY <1>2, <2>1 DEF Publish, Queue!Complete, streamVars
  <2>3. QED
    BY <2>1, <2>2
<1>3. ASSUME NEW r \in Records, OnWriteOk(r) PROVE Queue!Transmit
  <2>1. status # CONNECTING /\ ~failed
    BY <1>3 DEF OnWriteOk, GateHeld, Writing
  <2>2. r = Len(written) + 1 /\ r \in stored
    BY <1>3 DEF OnWriteOk, CursorHeld, Writing
  <2>3. QED
    BY <1>3, <2>1, <2>2 DEF OnWriteOk, Queue!Transmit, queueVars
<1>4. ASSUME UNCHANGED <<reserved, stored, written>>,
             \/ UNCHANGED <<status, failed>>
             \/ status = CONNECTING /\ status' = CONNECTED /\ UNCHANGED failed
             \/ status' > CONNECTED /\ UNCHANGED failed
             \/ failed' /\ UNCHANGED status
      PROVE [Queue!LinkChange]_Queue!vars
  BY <1>4
<1>5. ASSUME NEW p \in Senders, SendBegin(p) \/ ClaimFence(p) \/ ClaimLoad(p) \/ ClaimCas(p) \/ PostWakeup(p)
      PROVE [Queue!LinkChange]_Queue!vars
  BY <1>4, <1>5 DEF SendBegin, ClaimFence, ClaimLoad, ClaimCas, PostWakeup, queueVars, streamVars
<1>6. ASSUME Flush \/ ChainStep PROVE [Queue!LinkChange]_Queue!vars
  BY <1>4, <1>6 DEF Flush, FlushRecord, FlushEnding, ChainStep, RunWakeup, DoWrite, Read, EndStore,
     EndFence, EndProbe, EndReclaim, queueVars, streamVars
<1>7. ASSUME NEW r \in Records, OnWriteError(r) PROVE [Queue!LinkChange]_Queue!vars
  BY <1>4, <1>7 DEF OnWriteError, queueVars
<1>8. ASSUME CallbackReturns \/ HandshakeDone \/ SessionEnds \/ OnData \/ OnReadError \/ Close
      PROVE [Queue!LinkChange]_Queue!vars
  BY <1>4, <1>8 DEF CallbackReturns, OnErrorReturns, OnReadErrorReturns, OnConnectedReturns,
     OnDataReturns, HandshakeDone, SessionEnds, OnData, OnReadError, Close, queueVars, streamVars
<1>9. CASE UNCHANGED vars
  BY <1>4, <1>9 DEF vars, queueVars, streamVars
<1>10. QED
  BY <1>1, <1>2, <1>3, <1>5, <1>6, <1>7, <1>8, <1>9 DEF Next, SendStep

\* The gate, the cursor copy and parking are invisible behind send(): the write
\* path implements the safety part of SendQueue.
THEOREM Refinement == Spec => Queue!Safety
<1>1. Init => Queue!Init
  BY DEF Init, Queue!Init, Gone, CONNECTING, CONNECTED
<1>2. QED
  BY Invariance, QueueStep, <1>1, PTL DEF Spec, Queue!Safety
=============================================================================
