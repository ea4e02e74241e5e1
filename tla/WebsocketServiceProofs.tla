------------------------ MODULE WebsocketServiceProofs ------------------------
(***************************************************************************)
(* Theorems about WebsocketService, for any number of users and of service *)
(* threads over time.  The inductive invariant is IInv of that module; the *)
(* lemmas say that every step preserves its parts.                         *)
(***************************************************************************)
EXTENDS WebsocketService, TLAPS

\* Every step keeps every variable in its range.
LEMMA TypeStep == IInv /\ [Next]_vars => TypeOK'
<1> SUFFICES ASSUME IInv, [Next]_vars PROVE TypeOK'
  OBVIOUS
<1> USE ThreadsAssumption DEF IInv, TypeOK, Callers, iocVars, callVars, Owns, StartOwner, StopOwner, ExclusiveOwner, OwnerState, States, Locations, InCallback, CallSteps, CallbackSteps
<1>1. ASSUME NEW c \in Callers, Open(c) PROVE TypeOK'
  BY <1>1, MaxCallsAssumption DEF Open, Call, Goto, Reload
<1>2. ASSUME NEW c \in Callers, Shutdown(c) PROVE TypeOK'
  BY <1>2, MaxCallsAssumption DEF Shutdown, Call, Goto, Reload
<1>3. ASSUME NEW c \in Callers, BusyOn(c) PROVE TypeOK'
  BY <1>3, MaxCallsAssumption DEF BusyOn, Call, Goto
<1>4. ASSUME NEW c \in Callers, BusyOff(c) PROVE TypeOK'
  <2> USE <1>4 DEF BusyOff, Call, Goto
  <2>1. pc' \in [Callers -> CallSteps] /\ \A t \in Threads : pc'[t] \in CallbackSteps
    OBVIOUS
  <2>2. calls' \in 0..MaxCalls
    BY MaxCallsAssumption
  <2>3. busy_poll' \in BOOLEAN
    OBVIOUS
  <2>4. QED
    BY <2>1, <2>2, <2>3
<1>5. ASSUME NEW c \in Callers, BusyStop(c) PROVE TypeOK'
  BY <1>5 DEF BusyStop, Goto
<1>6. ASSUME NEW c \in Callers, StartReturns(c) PROVE TypeOK'
  BY <1>6 DEF StartReturns, Goto
<1>7. ASSUME NEW c \in Callers, StartYield(c) PROVE TypeOK'
  BY <1>7 DEF StartYield, Reload
<1>8. ASSUME NEW c \in Callers, StartClaim(c) PROVE TypeOK'
  BY <1>8 DEF StartClaim, Goto, Reload
<1>9. ASSUME NEW c \in Callers, StartJoin(c) PROVE TypeOK'
  BY <1>9 DEF StartJoin, Goto, JoinThen
<1>10. ASSUME NEW c \in Callers, StartClaimed(c) PROVE TypeOK'
  BY <1>10 DEF StartClaimed, Goto
<1>11. ASSUME NEW c \in Callers, StartRun(c) PROVE TypeOK'
  BY <1>11 DEF StartRun, Goto
<1>12. ASSUME NEW c \in Callers, StartCreate(c) PROVE TypeOK'
  BY <1>12 DEF StartCreate, Goto
<1>13. ASSUME NEW c \in Callers, StartDone(c) PROVE TypeOK'
  BY <1>13 DEF StartDone, Goto
<1>14. ASSUME NEW c \in Callers, StopNothing(c) PROVE TypeOK'
  BY <1>14 DEF StopNothing, Goto
<1>15. ASSUME NEW c \in Callers, StopYield(c) PROVE TypeOK'
  BY <1>15 DEF StopYield, Reload
<1>16. ASSUME NEW c \in Callers, StopOnService(c) PROVE TypeOK'
  BY <1>16 DEF StopOnService, Goto, Reload
<1>17. ASSUME NEW c \in Callers, StopClaim(c) PROVE TypeOK'
  BY <1>17 DEF StopClaim, Goto, Reload
<1>18. ASSUME NEW c \in Callers, StopRequest(c) PROVE TypeOK'
  BY <1>18 DEF StopRequest, Goto, AfterRequest
<1>19. ASSUME NEW c \in Callers, StopIoc(c) PROVE TypeOK'
  BY <1>19 DEF StopIoc, Goto, AfterRequest
<1>20. ASSUME NEW c \in Callers, StopJoin(c) PROVE TypeOK'
  BY <1>20 DEF StopJoin, Goto, JoinThen
<1>21. ASSUME NEW c \in Callers, StopDone(c) PROVE TypeOK'
  BY <1>21 DEF StopDone, Goto
<1>22. ASSUME NEW c \in Callers, StopReturns(c) PROVE TypeOK'
  BY <1>22 DEF StopReturns, Goto
<1>23. ASSUME NEW t \in Threads, Restart(t) PROVE TypeOK'
  BY <1>23 DEF Restart, Move
<1>24. ASSUME NEW t \in Threads, Check(t) PROVE TypeOK'
  BY <1>24 DEF Check, Move
<1>25. ASSUME NEW t \in Threads, Choose(t) PROVE TypeOK'
  BY <1>25 DEF Choose, Move
<1>26. ASSUME NEW t \in Threads, RunReturns(t) PROVE TypeOK'
  BY <1>26 DEF RunReturns, Move
<1>27. ASSUME NEW t \in Threads, PollReturns(t) PROVE TypeOK'
  BY <1>27 DEF PollReturns, Move
<1>28. ASSUME NEW t \in Threads, Polled(t) PROVE TypeOK'
  BY <1>28 DEF Polled, Move
<1>29. ASSUME NEW t \in Threads, CallbackReturns(t) PROVE TypeOK'
  BY <1>29 DEF CallbackReturns, Move
<1>30. ASSUME NEW t \in Threads, Exit(t) PROVE TypeOK'
  BY <1>30 DEF Exit, Move
<1>31. ASSUME NEW t \in Threads, Dispatch(t) PROVE TypeOK'
  BY <1>31 DEF Dispatch, Move
<1>32. CASE UNCHANGED vars
  BY <1>32 DEF vars
<1>33. QED
  BY <1>1, <1>2, <1>3, <1>4, <1>5, <1>6, <1>7, <1>8, <1>9, <1>10, <1>11, <1>12, <1>13, <1>14,
     <1>15, <1>16, <1>17, <1>18, <1>19, <1>20, <1>21, <1>22, <1>23, <1>24, <1>25, <1>26, <1>27,
     <1>28, <1>29, <1>30, <1>31, <1>32
  DEF Next, CallStep, LoopStep

\* Only a compare-and-swap out of an unowned state makes an owner.
LEMMA OwnerStep == IInv /\ [Next]_vars => ExclusiveOwner' /\ OwnerState'
<1> SUFFICES ASSUME IInv, [Next]_vars PROVE ExclusiveOwner' /\ OwnerState'
  OBVIOUS
<1> USE ThreadsAssumption DEF IInv, TypeOK, Callers, iocVars, callVars, Owns, StartOwner, StopOwner, ExclusiveOwner, OwnerState, InCallback
<1>1. ASSUME NEW c \in Callers, Open(c) PROVE ExclusiveOwner' /\ OwnerState'
  BY <1>1 DEF Open, Call, Goto, Reload
<1>2. ASSUME NEW c \in Callers, Shutdown(c) PROVE ExclusiveOwner' /\ OwnerState'
  BY <1>2 DEF Shutdown, Call, Goto, Reload
<1>3. ASSUME NEW c \in Callers, BusyOn(c) PROVE ExclusiveOwner' /\ OwnerState'
  BY <1>3 DEF BusyOn, Call, Goto
<1>4. ASSUME NEW c \in Callers, BusyOff(c) PROVE ExclusiveOwner' /\ OwnerState'
  BY <1>4 DEF BusyOff, Call, Goto
<1>5. ASSUME NEW c \in Callers, BusyStop(c) PROVE ExclusiveOwner' /\ OwnerState'
  BY <1>5 DEF BusyStop, Goto
<1>6. ASSUME NEW c \in Callers, StartReturns(c) PROVE ExclusiveOwner' /\ OwnerState'
  BY <1>6 DEF StartReturns, Goto
<1>7. ASSUME NEW c \in Callers, StartYield(c) PROVE ExclusiveOwner' /\ OwnerState'
  BY <1>7 DEF StartYield, Reload
<1>8. ASSUME NEW c \in Callers, StartClaim(c) PROVE ExclusiveOwner' /\ OwnerState'
  BY <1>8 DEF StartClaim, Goto, Reload
<1>9. ASSUME NEW c \in Callers, StartJoin(c) PROVE ExclusiveOwner' /\ OwnerState'
  BY <1>9 DEF StartJoin, Goto, JoinThen
<1>10. ASSUME NEW c \in Callers, StartClaimed(c) PROVE ExclusiveOwner' /\ OwnerState'
  BY <1>10 DEF StartClaimed, Goto
<1>11. ASSUME NEW c \in Callers, StartRun(c) PROVE ExclusiveOwner' /\ OwnerState'
  BY <1>11 DEF StartRun, Goto
<1>12. ASSUME NEW c \in Callers, StartCreate(c) PROVE ExclusiveOwner' /\ OwnerState'
  BY <1>12 DEF StartCreate, Goto
<1>13. ASSUME NEW c \in Callers, StartDone(c) PROVE ExclusiveOwner' /\ OwnerState'
  BY <1>13 DEF StartDone, Goto
<1>14. ASSUME NEW c \in Callers, StopNothing(c) PROVE ExclusiveOwner' /\ OwnerState'
  BY <1>14 DEF StopNothing, Goto
<1>15. ASSUME NEW c \in Callers, StopYield(c) PROVE ExclusiveOwner' /\ OwnerState'
  BY <1>15 DEF StopYield, Reload
<1>16. ASSUME NEW c \in Callers, StopOnService(c) PROVE ExclusiveOwner' /\ OwnerState'
  BY <1>16 DEF StopOnService, Goto, Reload
<1>17. ASSUME NEW c \in Callers, StopClaim(c) PROVE ExclusiveOwner' /\ OwnerState'
  BY <1>17 DEF StopClaim, Goto, Reload
<1>18. ASSUME NEW c \in Callers, StopRequest(c) PROVE ExclusiveOwner' /\ OwnerState'
  BY <1>18 DEF StopRequest, Goto, AfterRequest
<1>19. ASSUME NEW c \in Callers, StopIoc(c) PROVE ExclusiveOwner' /\ OwnerState'
  BY <1>19 DEF StopIoc, Goto, AfterRequest
<1>20. ASSUME NEW c \in Callers, StopJoin(c) PROVE ExclusiveOwner' /\ OwnerState'
  BY <1>20 DEF StopJoin, Goto, JoinThen
<1>21. ASSUME NEW c \in Callers, StopDone(c) PROVE ExclusiveOwner' /\ OwnerState'
  BY <1>21 DEF StopDone, Goto, CallbackSteps
<1>22. ASSUME NEW c \in Callers, StopReturns(c) PROVE ExclusiveOwner' /\ OwnerState'
  BY <1>22 DEF StopReturns, Goto
<1>23. ASSUME NEW t \in Threads, Restart(t) PROVE ExclusiveOwner' /\ OwnerState'
  BY <1>23 DEF Restart, Move
<1>24. ASSUME NEW t \in Threads, Check(t) PROVE ExclusiveOwner' /\ OwnerState'
  BY <1>24 DEF Check, Move
<1>25. ASSUME NEW t \in Threads, Choose(t) PROVE ExclusiveOwner' /\ OwnerState'
  BY <1>25 DEF Choose, Move
<1>26. ASSUME NEW t \in Threads, RunReturns(t) PROVE ExclusiveOwner' /\ OwnerState'
  BY <1>26 DEF RunReturns, Move
<1>27. ASSUME NEW t \in Threads, PollReturns(t) PROVE ExclusiveOwner' /\ OwnerState'
  BY <1>27 DEF PollReturns, Move
<1>28. ASSUME NEW t \in Threads, Polled(t) PROVE ExclusiveOwner' /\ OwnerState'
  BY <1>28 DEF Polled, Move
<1>29. ASSUME NEW t \in Threads, CallbackReturns(t) PROVE ExclusiveOwner' /\ OwnerState'
  BY <1>29 DEF CallbackReturns, Move
<1>30. ASSUME NEW t \in Threads, Exit(t) PROVE ExclusiveOwner' /\ OwnerState'
  BY <1>30 DEF Exit, Move
<1>31. ASSUME NEW t \in Threads, Dispatch(t) PROVE ExclusiveOwner' /\ OwnerState'
  BY <1>31 DEF Dispatch, Move
<1>32. CASE UNCHANGED vars
  BY <1>32 DEF vars
<1>33. QED
  BY <1>1, <1>2, <1>3, <1>4, <1>5, <1>6, <1>7, <1>8, <1>9, <1>10, <1>11, <1>12, <1>13, <1>14,
     <1>15, <1>16, <1>17, <1>18, <1>19, <1>20, <1>21, <1>22, <1>23, <1>24, <1>25, <1>26, <1>27,
     <1>28, <1>29, <1>30, <1>31, <1>32
  DEF Next, CallStep, LoopStep

\* The object holds a thread exactly while one is alive or still to be joined.
LEMMA HeldStep == IInv /\ [Next]_vars => ThreadHeld' /\ NoThreadLeft'
<1> SUFFICES ASSUME IInv, [Next]_vars PROVE ThreadHeld' /\ NoThreadLeft'
  OBVIOUS
<1> USE ThreadsAssumption DEF IInv, TypeOK, Callers, iocVars, callVars, Owns, StartOwner, StopOwner, ExclusiveOwner, OwnerState, ThreadHeld, NoThreadLeft, InCallback
<1>1. ASSUME NEW c \in Callers, Open(c) PROVE ThreadHeld' /\ NoThreadLeft'
  BY <1>1 DEF Open, Call, Goto, Reload
<1>2. ASSUME NEW c \in Callers, Shutdown(c) PROVE ThreadHeld' /\ NoThreadLeft'
  BY <1>2 DEF Shutdown, Call, Goto, Reload
<1>3. ASSUME NEW c \in Callers, BusyOn(c) PROVE ThreadHeld' /\ NoThreadLeft'
  BY <1>3 DEF BusyOn, Call, Goto
<1>4. ASSUME NEW c \in Callers, BusyOff(c) PROVE ThreadHeld' /\ NoThreadLeft'
  BY <1>4 DEF BusyOff, Call, Goto
<1>5. ASSUME NEW c \in Callers, BusyStop(c) PROVE ThreadHeld' /\ NoThreadLeft'
  BY <1>5 DEF BusyStop, Goto
<1>6. ASSUME NEW c \in Callers, StartReturns(c) PROVE ThreadHeld' /\ NoThreadLeft'
  BY <1>6 DEF StartReturns, Goto
<1>7. ASSUME NEW c \in Callers, StartYield(c) PROVE ThreadHeld' /\ NoThreadLeft'
  BY <1>7 DEF StartYield, Reload
<1>8. ASSUME NEW c \in Callers, StartClaim(c) PROVE ThreadHeld' /\ NoThreadLeft'
  BY <1>8 DEF StartClaim, Goto, Reload
<1>9. ASSUME NEW c \in Callers, StartJoin(c) PROVE ThreadHeld' /\ NoThreadLeft'
  BY <1>9 DEF StartJoin, Goto, JoinThen
<1>10. ASSUME NEW c \in Callers, StartClaimed(c) PROVE ThreadHeld' /\ NoThreadLeft'
  BY <1>10 DEF StartClaimed, Goto
<1>11. ASSUME NEW c \in Callers, StartRun(c) PROVE ThreadHeld' /\ NoThreadLeft'
  BY <1>11 DEF StartRun, Goto
<1>12. ASSUME NEW c \in Callers, StartCreate(c) PROVE ThreadHeld' /\ NoThreadLeft'
  BY <1>12 DEF StartCreate, Goto
<1>13. ASSUME NEW c \in Callers, StartDone(c) PROVE ThreadHeld' /\ NoThreadLeft'
  BY <1>13 DEF StartDone, Goto
<1>14. ASSUME NEW c \in Callers, StopNothing(c) PROVE ThreadHeld' /\ NoThreadLeft'
  BY <1>14 DEF StopNothing, Goto
<1>15. ASSUME NEW c \in Callers, StopYield(c) PROVE ThreadHeld' /\ NoThreadLeft'
  BY <1>15 DEF StopYield, Reload
<1>16. ASSUME NEW c \in Callers, StopOnService(c) PROVE ThreadHeld' /\ NoThreadLeft'
  BY <1>16 DEF StopOnService, Goto, Reload
<1>17. ASSUME NEW c \in Callers, StopClaim(c) PROVE ThreadHeld' /\ NoThreadLeft'
  BY <1>17 DEF StopClaim, Goto, Reload
<1>18. ASSUME NEW c \in Callers, StopRequest(c) PROVE ThreadHeld' /\ NoThreadLeft'
  BY <1>18 DEF StopRequest, Goto, AfterRequest
<1>19. ASSUME NEW c \in Callers, StopIoc(c) PROVE ThreadHeld' /\ NoThreadLeft'
  BY <1>19 DEF StopIoc, Goto, AfterRequest
<1>20. ASSUME NEW c \in Callers, StopJoin(c) PROVE ThreadHeld' /\ NoThreadLeft'
  BY <1>20 DEF StopJoin, Goto, JoinThen
<1>21. ASSUME NEW c \in Callers, StopDone(c) PROVE ThreadHeld' /\ NoThreadLeft'
  BY <1>21 DEF StopDone, Goto
<1>22. ASSUME NEW c \in Callers, StopReturns(c) PROVE ThreadHeld' /\ NoThreadLeft'
  BY <1>22 DEF StopReturns, Goto
<1>23. ASSUME NEW t \in Threads, Restart(t) PROVE ThreadHeld' /\ NoThreadLeft'
  BY <1>23 DEF Restart, Move
<1>24. ASSUME NEW t \in Threads, Check(t) PROVE ThreadHeld' /\ NoThreadLeft'
  BY <1>24 DEF Check, Move
<1>25. ASSUME NEW t \in Threads, Choose(t) PROVE ThreadHeld' /\ NoThreadLeft'
  BY <1>25 DEF Choose, Move
<1>26. ASSUME NEW t \in Threads, RunReturns(t) PROVE ThreadHeld' /\ NoThreadLeft'
  BY <1>26 DEF RunReturns, Move
<1>27. ASSUME NEW t \in Threads, PollReturns(t) PROVE ThreadHeld' /\ NoThreadLeft'
  BY <1>27 DEF PollReturns, Move
<1>28. ASSUME NEW t \in Threads, Polled(t) PROVE ThreadHeld' /\ NoThreadLeft'
  BY <1>28 DEF Polled, Move
<1>29. ASSUME NEW t \in Threads, CallbackReturns(t) PROVE ThreadHeld' /\ NoThreadLeft'
  BY <1>29 DEF CallbackReturns, Move
<1>30. ASSUME NEW t \in Threads, Exit(t) PROVE ThreadHeld' /\ NoThreadLeft'
  BY <1>30 DEF Exit, Move
<1>31. ASSUME NEW t \in Threads, Dispatch(t) PROVE ThreadHeld' /\ NoThreadLeft'
  BY <1>31 DEF Dispatch, Move
<1>32. CASE UNCHANGED vars
  BY <1>32 DEF vars
<1>33. QED
  BY <1>1, <1>2, <1>3, <1>4, <1>5, <1>6, <1>7, <1>8, <1>9, <1>10, <1>11, <1>12, <1>13, <1>14,
     <1>15, <1>16, <1>17, <1>18, <1>19, <1>20, <1>21, <1>22, <1>23, <1>24, <1>25, <1>26, <1>27,
     <1>28, <1>29, <1>30, <1>31, <1>32
  DEF Next, CallStep, LoopStep

\* A shutdown() forgets no thread it has to see joined.
LEMMA JoinStep == IInv /\ [Next]_vars => StillToJoin' /\ ShutdownDone'
<1> SUFFICES ASSUME IInv, [Next]_vars PROVE StillToJoin' /\ ShutdownDone'
  OBVIOUS
<1> USE ThreadsAssumption DEF IInv, TypeOK, Callers, iocVars, callVars, Owns, StartOwner, StopOwner, ExclusiveOwner, OwnerState, ThreadHeld, NoThreadLeft, StillToJoin, ShutdownDone, InCallback
<1>1. ASSUME NEW c \in Callers, Open(c) PROVE StillToJoin' /\ ShutdownDone'
  BY <1>1 DEF Open, Call, Goto, Reload
<1>2. ASSUME NEW c \in Callers, Shutdown(c) PROVE StillToJoin' /\ ShutdownDone'
  BY <1>2 DEF Shutdown, Call, Goto, Reload
<1>3. ASSUME NEW c \in Callers, BusyOn(c) PROVE StillToJoin' /\ ShutdownDone'
  BY <1>3 DEF BusyOn, Call, Goto
<1>4. ASSUME NEW c \in Callers, BusyOff(c) PROVE StillToJoin' /\ ShutdownDone'
  BY <1>4 DEF BusyOff, Call, Goto
<1>5. ASSUME NEW c \in Callers, BusyStop(c) PROVE StillToJoin' /\ ShutdownDone'
  BY <1>5 DEF BusyStop, Goto
<1>6. ASSUME NEW c \in Callers, StartReturns(c) PROVE StillToJoin' /\ ShutdownDone'
  BY <1>6 DEF StartReturns, Goto
<1>7. ASSUME NEW c \in Callers, StartYield(c) PROVE StillToJoin' /\ ShutdownDone'
  BY <1>7 DEF StartYield, Reload
<1>8. ASSUME NEW c \in Callers, StartClaim(c) PROVE StillToJoin' /\ ShutdownDone'
  BY <1>8 DEF StartClaim, Goto, Reload
<1>9. ASSUME NEW c \in Callers, StartJoin(c) PROVE StillToJoin' /\ ShutdownDone'
  BY <1>9 DEF StartJoin, Goto, JoinThen
<1>10. ASSUME NEW c \in Callers, StartClaimed(c) PROVE StillToJoin' /\ ShutdownDone'
  BY <1>10 DEF StartClaimed, Goto
<1>11. ASSUME NEW c \in Callers, StartRun(c) PROVE StillToJoin' /\ ShutdownDone'
  BY <1>11 DEF StartRun, Goto
<1>12. ASSUME NEW c \in Callers, StartCreate(c) PROVE StillToJoin' /\ ShutdownDone'
  BY <1>12 DEF StartCreate, Goto
<1>13. ASSUME NEW c \in Callers, StartDone(c) PROVE StillToJoin' /\ ShutdownDone'
  BY <1>13 DEF StartDone, Goto
<1>14. ASSUME NEW c \in Callers, StopNothing(c) PROVE StillToJoin' /\ ShutdownDone'
  BY <1>14 DEF StopNothing, Goto
<1>15. ASSUME NEW c \in Callers, StopYield(c) PROVE StillToJoin' /\ ShutdownDone'
  BY <1>15 DEF StopYield, Reload
<1>16. ASSUME NEW c \in Callers, StopOnService(c) PROVE StillToJoin' /\ ShutdownDone'
  BY <1>16 DEF StopOnService, Goto, Reload
<1>17. ASSUME NEW c \in Callers, StopClaim(c) PROVE StillToJoin' /\ ShutdownDone'
  BY <1>17 DEF StopClaim, Goto, Reload
<1>18. ASSUME NEW c \in Callers, StopRequest(c) PROVE StillToJoin' /\ ShutdownDone'
  BY <1>18 DEF StopRequest, Goto, AfterRequest
<1>19. ASSUME NEW c \in Callers, StopIoc(c) PROVE StillToJoin' /\ ShutdownDone'
  BY <1>19 DEF StopIoc, Goto, AfterRequest
<1>20. ASSUME NEW c \in Callers, StopJoin(c) PROVE StillToJoin' /\ ShutdownDone'
  BY <1>20 DEF StopJoin, Goto, JoinThen
<1>21. ASSUME NEW c \in Callers, StopDone(c) PROVE StillToJoin' /\ ShutdownDone'
  BY <1>21 DEF StopDone, Goto
<1>22. ASSUME NEW c \in Callers, StopReturns(c) PROVE StillToJoin' /\ ShutdownDone'
  BY <1>22 DEF StopReturns, Goto
<1>23. ASSUME NEW t \in Threads, Restart(t) PROVE StillToJoin' /\ ShutdownDone'
  BY <1>23 DEF Restart, Move
<1>24. ASSUME NEW t \in Threads, Check(t) PROVE StillToJoin' /\ ShutdownDone'
  BY <1>24 DEF Check, Move
<1>25. ASSUME NEW t \in Threads, Choose(t) PROVE StillToJoin' /\ ShutdownDone'
  BY <1>25 DEF Choose, Move
<1>26. ASSUME NEW t \in Threads, RunReturns(t) PROVE StillToJoin' /\ ShutdownDone'
  BY <1>26 DEF RunReturns, Move
<1>27. ASSUME NEW t \in Threads, PollReturns(t) PROVE StillToJoin' /\ ShutdownDone'
  BY <1>27 DEF PollReturns, Move
<1>28. ASSUME NEW t \in Threads, Polled(t) PROVE StillToJoin' /\ ShutdownDone'
  BY <1>28 DEF Polled, Move
<1>29. ASSUME NEW t \in Threads, CallbackReturns(t) PROVE StillToJoin' /\ ShutdownDone'
  BY <1>29 DEF CallbackReturns, Move
<1>30. ASSUME NEW t \in Threads, Exit(t) PROVE StillToJoin' /\ ShutdownDone'
  BY <1>30 DEF Exit, Move
<1>31. ASSUME NEW t \in Threads, Dispatch(t) PROVE StillToJoin' /\ ShutdownDone'
  BY <1>31 DEF Dispatch, Move
<1>32. CASE UNCHANGED vars
  BY <1>32 DEF vars
<1>33. QED
  BY <1>1, <1>2, <1>3, <1>4, <1>5, <1>6, <1>7, <1>8, <1>9, <1>10, <1>11, <1>12, <1>13, <1>14,
     <1>15, <1>16, <1>17, <1>18, <1>19, <1>20, <1>21, <1>22, <1>23, <1>24, <1>25, <1>26, <1>27,
     <1>28, <1>29, <1>30, <1>31, <1>32
  DEF Next, CallStep, LoopStep

-----------------------------------------------------------------------------

\* Initially nobody is in a call and there is no thread.
LEMMA InitInv == Init => IInv
<1> SUFFICES ASSUME Init PROVE IInv
  OBVIOUS
<1> USE ThreadsAssumption DEF Init, Callers
<1>1. TypeOK
  <2>1. pc \in [Callers -> CallSteps] /\ \A t \in Threads : pc[t] \in CallbackSteps
    BY DEF CallSteps, CallbackSteps
  <2>2. loc \in [Threads -> Locations]
    BY DEF Locations
  <2>3. /\ service_state \in States
        /\ seen \in [Callers -> States]
        /\ since \in [Callers -> SUBSET Threads]
    BY DEF States
  <2>4. run \in BOOLEAN /\ busy_poll \in BOOLEAN /\ stopped \in BOOLEAN
    OBVIOUS
  <2>5. service_thread \in Threads \cup {NoThread} /\ calls \in 0..MaxCalls
    BY MaxCallsAssumption
  <2>6. QED
    BY <2>1, <2>2, <2>3, <2>4, <2>5 DEF TypeOK
<1>2. ExclusiveOwner /\ OwnerState
  BY DEF ExclusiveOwner, OwnerState, Owns, StartOwner, StopOwner
<1>3. ThreadHeld /\ NoThreadLeft
  BY DEF ThreadHeld, NoThreadLeft
<1>4. StillToJoin /\ ShutdownDone
  BY DEF StillToJoin, ShutdownDone
<1>5. QED
  BY <1>1, <1>2, <1>3, <1>4 DEF IInv

\* The strengthening is an invariant of the service.
THEOREM Invariance == Spec => []IInv
<1>1. IInv /\ [Next]_vars => IInv'
  BY TypeStep, OwnerStep, HeldStep, JoinStep DEF IInv
<1>2. QED
  BY InitInv, <1>1, PTL DEF Spec

\* Every variable keeps its range, and a callback never owns the thread object.
THEOREM TypeCorrect == Spec => []TypeOK
  BY Invariance, PTL DEF IInv

\* At most one caller at a time touches service_thread_.
THEOREM OneOwner == Spec => []ExclusiveOwner
  BY Invariance, PTL DEF IInv

\* A joinable thread is never assigned over, and no service thread is ever lost.
THEOREM NoThreadLost == Spec => []ThreadHeld
  BY Invariance, PTL DEF IInv

\* shutdown() keeps its promise to users and to callbacks when it returns.
THEOREM ShutdownKeepsPromise == Spec => []ShutdownDone
  BY Invariance, PTL DEF IInv

\* A start never takes back a thread that was told to stop.
THEOREM StopIsFinal == Spec => NoRevival
<1>1. IInv /\ [Next]_vars => [(\E t \in Threads : Alive(t)) /\ ~run => ~run']_vars
  <2> SUFFICES ASSUME IInv, Next, NEW t \in Threads, Alive(t), ~run PROVE ~run'
    OBVIOUS
  <2>1. ASSUME NEW c \in Callers, StartRun(c) PROVE FALSE
    BY <2>1, ThreadsAssumption DEF StartRun, IInv, NoThreadLeft, ThreadHeld, Alive
  <2>2. QED
    BY <2>1 DEF Next, CallStep, LoopStep, Open, Shutdown, BusyOn, BusyOff, BusyStop, StartReturns,
       StartYield, StartClaim, StartJoin, StartClaimed, StartCreate, StartDone, StopNothing,
       StopYield, StopOnService, StopClaim, StopRequest, StopIoc, StopJoin, StopDone, StopReturns,
       Restart, Check, Choose, RunReturns, PollReturns, Polled, CallbackReturns, Exit, Dispatch
<1>2. QED
  BY Invariance, <1>1, PTL DEF Spec, NoRevival
-----------------------------------------------------------------------------
(* The service keeps the promise of ThreadOwnership.                       *)

\* A shutdown() in a callback, on the service's own thread, never has the thread
\* object: it asks for a stop, and the next start or shutdown() joins.
Starter == {c \in Callers : pc[c] \in StartOwner}
Stopper == {c \in Users : pc[c] \in StopOwner}
Joinable == \E t \in Threads : loc[t] # "none"
Ownership == INSTANCE ThreadOwnership WITH starter <- Starter, stopper <- Stopper, joinable <- Joinable

Unmoved == UNCHANGED <<Starter, Stopper, Joinable>>

\* Who has the threads, where somebody has: that caller and no other.
LEMMA OwnersAre ==
    ASSUME IInv, NEW c \in Callers
    PROVE  /\ pc[c] \in StartOwner => Starter = {c} /\ Stopper = {}
           /\ c \in Users /\ pc[c] \in StopOwner => Starter = {} /\ Stopper = {c}
           /\ service_state \notin {"starting", "stopping"} => Ownership!Unowned
<1>1. \A d \in Callers : (d \in Starter \/ d \in Stopper) => Owns(d)
    BY ThreadsAssumption DEF Starter, Stopper, Owns, Callers
<1>2. \A d \in Callers : Owns(d) => service_state \in {"starting", "stopping"}
    BY DEF IInv, ExclusiveOwner
<1>3. \A d \in Callers : Owns(c) /\ Owns(d) => c = d
    BY DEF IInv, ExclusiveOwner
<1>4. Starter \subseteq Callers /\ Stopper \subseteq Callers
    BY DEF Starter, Stopper, Callers
<1>5. StartOwner \cap StopOwner = {}
    BY DEF StartOwner, StopOwner
<1>6. ASSUME pc[c] \in StartOwner PROVE Starter = {c} /\ Stopper = {}
    <2>1. Owns(c) /\ c \in Starter /\ c \notin Stopper
        BY <1>5, <1>6 DEF Owns, Starter, Stopper
    <2>. QED
        BY <1>1, <1>3, <1>4, <2>1
<1>7. ASSUME c \in Users, pc[c] \in StopOwner PROVE Starter = {} /\ Stopper = {c}
    <2>1. Owns(c) /\ c \in Stopper /\ c \notin Starter
        BY <1>5, <1>7, ThreadsAssumption DEF Owns, Starter, Stopper
    <2>. QED
        BY <1>1, <1>3, <1>4, <2>1
<1>8. ASSUME service_state \notin {"starting", "stopping"} PROVE Ownership!Unowned
    BY <1>1, <1>2, <1>4, <1>8 DEF Ownership!Unowned
<1>. QED
    BY <1>6, <1>7, <1>8

\* A step of a caller says by itself who has the threads after it.
LEMMA OwnersMove ==
    ASSUME IInv, NEW c \in Callers, NEW to, Goto(c, to)
    PROVE  /\ Starter' = IF to \in StartOwner THEN Starter \cup {c} ELSE Starter \ {c}
           /\ Stopper' = IF to \in StopOwner /\ c \in Users THEN Stopper \cup {c} ELSE Stopper \ {c}
<1>1. pc'[c] = to /\ \A d \in Callers \ {c} : pc'[d] = pc[d]
    BY DEF IInv, TypeOK, Goto
<1>. QED
    BY <1>1 DEF Starter, Stopper, Callers

\* A step that neither makes an owner nor ends one.
LEMMA OwnersStay ==
    ASSUME IInv, NEW c \in Callers, NEW to, Goto(c, to), to \in StartOwner <=> pc[c] \in StartOwner,
           c \in Users => (to \in StopOwner <=> pc[c] \in StopOwner)
    PROVE  UNCHANGED <<Starter, Stopper>>
<1>1. /\ Starter' = IF to \in StartOwner THEN Starter \cup {c} ELSE Starter \ {c}
      /\ Stopper' = IF to \in StopOwner /\ c \in Users THEN Stopper \cup {c} ELSE Stopper \ {c}
    BY OwnersMove
<1>2. to \in StartOwner <=> c \in Starter
    BY DEF Starter
<1>3. to \in StopOwner /\ c \in Users <=> c \in Stopper
    BY DEF Stopper
<1>. QED
    BY <1>1, <1>2, <1>3

\* A join leaves no thread.
LEMMA JoinsAll ==
    ASSUME IInv, NEW c \in Callers, NEW to, JoinThen(c, to)
    PROVE  Joinable' = FALSE /\ Goto(c, to)
<1>1. Goto(c, to)
    BY DEF JoinThen
<1>2. \A t \in Threads : loc'[t] = "none"
    BY ThreadsAssumption DEF JoinThen, IInv, ThreadHeld, TypeOK
<1>. QED
    BY <1>1, <1>2 DEF Joinable

\* No step but a start, a stop, a creation or a join changes any of the three.
LEMMA CallStaysOut ==
    ASSUME IInv, NEW c \in Callers,
           \/ Open(c) \/ Shutdown(c) \/ BusyOn(c) \/ BusyOff(c) \/ BusyStop(c)
           \/ StartReturns(c) \/ StartYield(c) \/ StartClaimed(c) \/ StartRun(c)
           \/ StopNothing(c) \/ StopYield(c) \/ StopOnService(c)
           \/ StopRequest(c) \/ StopIoc(c) \/ StopReturns(c)
    PROVE  Unmoved
<1> USE DEF StartOwner, StopOwner
<1>0. UNCHANGED loc
    BY DEF Open, Shutdown, BusyOn, BusyOff, BusyStop, StartReturns, StartYield, StartClaimed, StartRun,
       StopNothing, StopYield, StopOnService, StopRequest, StopIoc, StopReturns
<1>1. Joinable' = Joinable
    BY <1>0 DEF Joinable
<1>2. UNCHANGED pc => UNCHANGED <<Starter, Stopper>>
    BY DEF Starter, Stopper
<1>3. ASSUME NEW to \in {"start", "stop", "idle", "busyStop"}, Goto(c, to), pc[c] = "idle" PROVE UNCHANGED <<Starter, Stopper>>
    BY <1>3, OwnersStay
<1>4. CASE Open(c) \/ Shutdown(c) \/ BusyOn(c) \/ BusyOff(c)
    BY <1>1, <1>3, <1>4 DEF Open, Shutdown, BusyOn, BusyOff, Call, Unmoved
<1>5. CASE BusyStop(c) \/ StartReturns(c) \/ StopNothing(c) \/ StopReturns(c)
    <2>1. \E to \in {"idle", "stopReturn"} : Goto(c, to) /\ pc[c] \in {"busyStop", "start", "stop", "stopReturn"}
        BY <1>5 DEF BusyStop, StartReturns, StopNothing, StopReturns
    <2>. QED
        BY <1>1, <2>1, OwnersStay DEF Unmoved
<1>6. CASE StartYield(c) \/ StopYield(c)
    BY <1>1, <1>2, <1>6 DEF StartYield, StopYield, Unmoved
<1>7. CASE StartClaimed(c) \/ StartRun(c)
    <2>1. \E to \in {"startRun", "startCreate"} : Goto(c, to) /\ pc[c] \in {"startClaimed", "startRun"}
        BY <1>7 DEF StartClaimed, StartRun
    <2>. QED
        BY <1>1, <2>1, OwnersStay DEF Unmoved
<1>8. CASE StopOnService(c)
    <2>1. c \in Threads /\ c \notin Users /\ pc[c] = "stop" /\ (UNCHANGED pc \/ Goto(c, "stopRequest"))
        BY <1>8, ThreadsAssumption DEF StopOnService
    <2>. QED
        BY <1>1, <1>2, <2>1, OwnersStay DEF Unmoved
<1>9. CASE StopRequest(c) \/ StopIoc(c)
    <2>1. PICK to \in {"stopIoc", "stopReturn", "stopJoin"} :
            Goto(c, to) /\ pc[c] \in {"stopRequest", "stopIoc"} /\ (c \in Users => to # "stopReturn")
        BY <1>9, ThreadsAssumption DEF StopRequest, StopIoc, AfterRequest
    <2>. QED
        BY <1>1, <2>1, OwnersStay DEF Unmoved
<1>. QED
    BY <1>4, <1>5, <1>6, <1>7, <1>8, <1>9

\* The thread's own steps: it is there to be joined until it has been.
LEMMA LoopStaysOut ==
    ASSUME IInv, NEW t \in Threads, LoopStep(t) \/ Dispatch(t)
    PROVE  Unmoved
<1>1. PICK to \in Locations \ {"none"} : loc[t] # "none" /\ loc' = [loc EXCEPT ![t] = to]
    BY DEF LoopStep, Dispatch, Restart, Check, Choose, RunReturns, PollReturns, Polled, CallbackReturns, Exit,
       Move, Locations, InCallback
<1>2. UNCHANGED pc
    BY DEF LoopStep, Dispatch, Restart, Check, Choose, RunReturns, PollReturns, Polled, CallbackReturns, Exit,
       callVars
<1>3. Joinable' = Joinable
    BY <1>1 DEF Joinable, IInv, TypeOK
<1>. QED
    BY <1>2, <1>3 DEF Unmoved, Starter, Stopper

LEMMA OwnershipStep == IInv /\ [Next]_vars => [Ownership!Next]_<<Starter, Stopper, Joinable>>
<1>. SUFFICES ASSUME IInv, Next PROVE Ownership!Next \/ Unmoved
    <2>1. UNCHANGED vars => Unmoved
        BY DEF vars, callVars, Unmoved, Starter, Stopper, Joinable
    <2>. QED
        BY <2>1 DEF Unmoved
<1>1. ASSUME NEW c \in Callers, StartClaim(c) PROVE Ownership!StartClaims(c) \/ Unmoved
    <2>1. UNCHANGED loc
        BY <1>1 DEF StartClaim
    <2>2. CASE UNCHANGED pc
        BY <2>1, <2>2 DEF Unmoved, Starter, Stopper, Joinable
    <2>3. CASE pc' # pc
        <3>1. PICK to \in {"startRun", "startJoin"} : Goto(c, to) /\ service_state \in {"stopped", "stop_requested"}
            BY <1>1, <2>3 DEF StartClaim
        <3>2. Ownership!Unowned
            BY <3>1, OwnersAre
        <3>3. to \in StartOwner /\ to \notin StopOwner
            BY DEF StartOwner, StopOwner
        <3>4. Starter' = {c} /\ Stopper' = Stopper
            BY <3>1, <3>2, <3>3, OwnersMove DEF Ownership!Unowned
        <3>. QED
            BY <2>1, <3>2, <3>4 DEF Ownership!StartClaims, Joinable
    <2>. QED
        BY <2>2, <2>3
<1>2. ASSUME NEW c \in Callers, StopClaim(c) PROVE Ownership!StopClaims(c) \/ Unmoved
    <2>1. UNCHANGED loc /\ c \in Users
        BY <1>2 DEF StopClaim, Callers
    <2>2. CASE UNCHANGED pc
        BY <2>1, <2>2 DEF Unmoved, Starter, Stopper, Joinable
    <2>3. CASE pc' # pc
        <3>1. Goto(c, "stopRequest") /\ service_state \in {"running", "stop_requested"}
            BY <1>2, <2>3 DEF StopClaim
        <3>2. Ownership!Unowned
            BY <3>1, OwnersAre
        <3>3. "stopRequest" \notin StartOwner /\ "stopRequest" \in StopOwner
            BY DEF StartOwner, StopOwner
        <3>4. Starter' = Starter /\ Stopper' = {c}
            BY <2>1, <3>1, <3>2, <3>3, OwnersMove DEF Ownership!Unowned
        <3>. QED
            BY <2>1, <3>2, <3>4 DEF Ownership!StopClaims, Joinable
    <2>. QED
        BY <2>2, <2>3
<1>3. ASSUME NEW c \in Callers, StartJoin(c) \/ StopJoin(c) PROVE Ownership!Join(c) \/ Unmoved
    <2>1. CASE StartJoin(c)
        <3>1. pc[c] = "startJoin" /\ JoinThen(c, "startClaimed")
            BY <2>1 DEF StartJoin
        <3>2. Starter = {c}
            BY <3>1, OwnersAre DEF StartOwner
        <3>3. UNCHANGED <<Starter, Stopper>>
            BY <3>1, JoinsAll, OwnersStay DEF StartOwner, StopOwner
        <3>. QED
            BY <3>1, <3>2, <3>3, JoinsAll DEF Ownership!Join
    <2>2. CASE StopJoin(c)
        <3>1. pc[c] = "stopJoin" /\ JoinThen(c, "stopDone")
            BY <2>2 DEF StopJoin
        <3>2. c \in Users
            BY <3>1 DEF IInv, TypeOK, CallbackSteps, Callers
        <3>3. Stopper = {c}
            BY <3>1, <3>2, OwnersAre DEF StopOwner
        <3>4. UNCHANGED <<Starter, Stopper>>
            BY <3>1, JoinsAll, OwnersStay DEF StartOwner, StopOwner
        <3>. QED
            BY <3>1, <3>3, <3>4, JoinsAll DEF Ownership!Join
    <2>. QED
        BY <1>3, <2>1, <2>2
<1>4. ASSUME NEW c \in Callers, StartCreate(c) PROVE Ownership!Create(c) \/ Ownership!StartOver(c)
    <2>1. pc[c] = "startCreate" /\ service_thread = NoThread
        BY <1>4 DEF StartCreate, IInv, ThreadHeld
    <2>2. Starter = {c} /\ Stopper = {}
        BY <2>1, OwnersAre DEF StartOwner
    <2>3. ~Joinable
        BY <2>1, ThreadsAssumption DEF Joinable, IInv, ThreadHeld
    <2>4. ASSUME NEW t \in Threads, loc' = [loc EXCEPT ![t] = "begin"], Goto(c, "startDone") PROVE Ownership!Create(c)
        <3>1. Joinable'
            BY <2>4 DEF Joinable, IInv, TypeOK
        <3>2. UNCHANGED <<Starter, Stopper>>
            BY <2>1, <2>4, OwnersStay DEF StartOwner, StopOwner
        <3>3. Joinable' = TRUE
            BY <3>1 DEF Joinable
        <3>. QED
            BY <2>2, <2>3, <3>2, <3>3 DEF Ownership!Create
    <2>5. ASSUME UNCHANGED loc, Goto(c, "idle") PROVE Ownership!StartOver(c)
        <3>1. Starter' = {} /\ Stopper' = Stopper
            BY <2>2, <2>5, OwnersMove DEF StartOwner, StopOwner
        <3>. QED
            BY <2>2, <2>5, <3>1 DEF Ownership!StartOver, Joinable
    <2>. QED
        BY <1>4, <2>4, <2>5 DEF StartCreate
<1>5. ASSUME NEW c \in Callers, StartDone(c) PROVE Ownership!StartOver(c)
    <2>1. pc[c] = "startDone" /\ Goto(c, "idle") /\ UNCHANGED loc
        BY <1>5 DEF StartDone
    <2>2. Starter = {c} /\ Stopper = {}
        BY <2>1, OwnersAre DEF StartOwner
    <2>3. Starter' = {} /\ Stopper' = Stopper
        BY <2>1, <2>2, OwnersMove DEF StartOwner, StopOwner
    <2>. QED
        BY <2>1, <2>2, <2>3 DEF Ownership!StartOver, Joinable
<1>6. ASSUME NEW c \in Callers, StopDone(c) PROVE Ownership!StopOver(c)
    <2>1. pc[c] = "stopDone" /\ Goto(c, "stopReturn") /\ UNCHANGED loc
        BY <1>6 DEF StopDone
    <2>2. c \in Users
        BY <2>1 DEF IInv, TypeOK, CallbackSteps, Callers
    <2>3. Starter = {} /\ Stopper = {c}
        BY <2>1, <2>2, OwnersAre DEF StopOwner
    <2>4. Starter' = Starter /\ Stopper' = {}
        BY <2>1, <2>3, OwnersMove DEF StartOwner, StopOwner
    <2>5. Joinable' = FALSE
        BY <2>1, ThreadsAssumption DEF Joinable, IInv, NoThreadLeft, ThreadHeld
    <2>. QED
        BY <2>3, <2>4, <2>5 DEF Ownership!StopOver
<1>7. ASSUME NEW c \in Callers, Open(c) \/ Shutdown(c) \/ BusyOn(c) \/ BusyOff(c) \/ CallStep(c)
      PROVE  Ownership!Next \/ Unmoved
    BY <1>1, <1>2, <1>3, <1>4, <1>5, <1>6, <1>7, CallStaysOut DEF CallStep, Ownership!Next
<1>8. ASSUME NEW t \in Threads, LoopStep(t) \/ Dispatch(t) PROVE Unmoved
    BY <1>8, LoopStaysOut
<1>. QED
    BY <1>7, <1>8 DEF Next

\* Whatever calls are made, from users and from callbacks, the service creates its
\* thread only where none is left to be joined, by the one call that has it, and no
\* shutdown() that has it leaves one (start_websocket_service(), stop_websocket_service()).
THEOREM OwnershipKept == Spec => Ownership!Spec
<1>1. Init => Ownership!Init
    BY DEF Init, Ownership!Init, Starter, Stopper, Joinable, StartOwner, StopOwner, Callers
<1>. QED
    BY <1>1, OwnershipStep, Invariance, PTL DEF Spec, Ownership!Spec, Ownership!vars
=============================================================================
