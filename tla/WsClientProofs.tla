--------------------------- MODULE WsClientProofs ---------------------------
(***************************************************************************)
(* Proofs about WsClient for every set of tasks and application threads,   *)
(* every bound and every choice of calls: the safety properties the runs   *)
(* check on two tasks and two threads, and the refinement of WsSession.    *)
(*                                                                         *)
(* The inductive invariant Inv of WsClientInv is proved part by part: the  *)
(* types of the fields, the labels of the threads, the lock (LockInv), the *)
(* connection (OpenInv), the life of the tasks (LifeInv), the polls        *)
(* (FreshInv), the events (EventInv), the calls (CallInv), the end of the  *)
(* client (FreeInv) and the CLOSE frames (FrameInv).  Each part has one    *)
(* lemma per kind of step (an abort, a step of the task, a step of a call, *)
(* a new call), one case per action, and a lemma for the whole next-state  *)
(* relation.  The parts about sessions are kept by every step that does    *)
(* not start one too early.                                                *)
(***************************************************************************)
EXTENDS WsClientInv, TLAPS

-----------------------------------------------------------------------------
(* The fields keep their types.                                             *)

\* A step of esp_websocket_client_abort_connection(): the fields keep their types.
LEMMA FieldsAbort ==
    ASSUME TypeOK, NEW th \in Threads, Abort(th)
    PROVE  FieldsOK'
<1> USE ThreadsAssumption DEF TypeOK, FieldsOK, LabelsOK, Goto, Dispatch, ReportError, Enter,
           Return, flags, link, locals, session
<1>1. CASE AbortRefused(th)
  BY <1>1 DEF AbortRefused
<1>2. CASE AbortClose(th)
  BY <1>2 DEF AbortClose
<1>3. CASE AbortState(th)
  BY <1>3 DEF AbortState, States
<1>4. CASE AbortEvent(th)
  BY <1>4 DEF AbortEvent, Events
<1> QED  BY <1>1, <1>2, <1>3, <1>4 DEF Abort

\* A step of the client task: the fields keep their types.
LEMMA FieldsTask ==
    ASSUME TypeOK, NEW t \in Tasks, TaskStep(t)
    PROVE  FieldsOK'
<1> USE ThreadsAssumption DEF TypeOK, FieldsOK, LabelsOK, Goto, Dispatch, ReportError, Enter,
           Return, flags, link, locals, session
<1>1. CASE TaskEnter(t)
  BY <1>1 DEF TaskEnter
<1>2. CASE TaskNoTransport(t)
  BY <1>2 DEF TaskNoTransport
<1>3. CASE TaskInit(t)
  BY <1>3 DEF TaskInit, States
<1>4. CASE TaskClear(t)
  BY <1>4 DEF TaskClear
<1>5. CASE TaskLoop(t)
  BY <1>5 DEF TaskLoop
<1>6. CASE TaskLock(t)
  BY <1>6 DEF TaskLock, Threads
<1>7. CASE TaskUnlock(t)
  BY <1>7 DEF TaskUnlock
<1>8. CASE BeforeConnect(t)
  BY <1>8 DEF BeforeConnect, Events
<1>9. CASE Connected(t)
  <2>1. state' \in States /\ ev' \in Events /\ conn' \in Nat
    BY <1>9 DEF Connected, States, Events
  <2>2. open' \in BOOLEAN /\ wait_for_pong_resp' \in BOOLEAN
    BY <1>9 DEF Connected
  <2>3. ownCloses' \in 0..2 /\ echoes' \in 0..2
    BY <1>9 DEF Connected
  <2>4. UNCHANGED <<lock, flags, locals, started, heard, past>>
    BY <1>9 DEF Connected
  <2> QED  BY <2>1, <2>2, <2>3, <2>4
<1>10. CASE ConnectFailed(t)
  BY <1>10 DEF ConnectFailed, Events
<1>11. CASE ServeQuiet(t)
  BY <1>11 DEF ServeQuiet
<1>12. CASE ServePing(t)
  BY <1>12 DEF ServePing
<1>13. CASE ServePongTimeout(t)
  BY <1>13 DEF ServePongTimeout, Events
<1>14. CASE GiveUp(t)
  BY <1>14 DEF GiveUp
<1>15. CASE Reconnect(t)
  BY <1>15 DEF Reconnect, States
<1>16. CASE KeepWaiting(t)
  BY <1>16 DEF KeepWaiting
<1>17. CASE EchoClose(t)
  BY <1>17 DEF EchoClose, Bits, More
<1>18. CASE NothingToDo(t)
  BY <1>18 DEF NothingToDo
<1>19. CASE RecvFailed(t)
  BY <1>19 DEF RecvFailed, Events
<1>20. CASE RecvTimeout(t)
  BY <1>20 DEF RecvTimeout
<1>21. CASE RecvPart(t)
  BY <1>21 DEF RecvPart, Events
<1>22. CASE RecvFrame(t)
  BY <1>22 DEF RecvFrame, Events
<1>23. CASE RecvPong(t)
  BY <1>23 DEF RecvPong, Events
<1>24. CASE RecvClose(t)
  BY <1>24 DEF RecvClose, States, Events
<1>25. CASE TaskPost(t)
  BY <1>25 DEF TaskPost
<1>26. CASE TaskPoll(t)
  BY <1>26 DEF TaskPoll
<1>27. CASE TaskPollFailed(t)
  BY <1>27 DEF TaskPollFailed, Events
<1>28. CASE TaskDelay(t)
  BY <1>28 DEF TaskDelay
<1>29. CASE TaskPollClosed(t)
  BY <1>29 DEF TaskPollClosed
<1>30. CASE TaskClosedState(t)
  BY <1>30 DEF TaskClosedState, States
<1>31. CASE TaskClosedEvent(t)
  BY <1>31 DEF TaskClosedEvent, Events
<1>32. CASE TaskStillWaiting(t)
  BY <1>32 DEF TaskStillWaiting
<1>33. CASE TaskExit(t)
  BY <1>33 DEF TaskExit
<1>34. CASE TaskStopped(t)
  BY <1>34 DEF TaskStopped, Bits
<1>35. CASE TaskExitState(t)
  BY <1>35 DEF TaskExitState, States
<1>36. CASE TaskExitFree(t)
  BY <1>36 DEF TaskExitFree
<1>37. CASE Abort(t)
  BY <1>37, FieldsAbort DEF Threads
<1> QED  BY <1>1, <1>2, <1>3, <1>4, <1>5, <1>6, <1>7, <1>8, <1>9, <1>10, <1>11, <1>12, <1>13, <1>14,
           <1>15, <1>16, <1>17, <1>18, <1>19, <1>20, <1>21, <1>22, <1>23, <1>24, <1>25, <1>26,
           <1>27, <1>28, <1>29, <1>30, <1>31, <1>32, <1>33, <1>34, <1>35, <1>36, <1>37 DEF TaskStep, TaskWork

\* A step of a call in progress: the fields keep their types.
LEMMA FieldsApp ==
    ASSUME TypeOK, NEW a \in Apps, CallWork(a) \/ SendEnter(a)
    PROVE  FieldsOK'
<1> USE ThreadsAssumption DEF TypeOK, FieldsOK, LabelsOK, Goto, Dispatch, ReportError, Enter,
           Return, flags, link, locals, session
<1>1. CASE SendOk(a)
  BY <1>1 DEF SendOk, More
<1>2. CASE SendFailed(a)
  BY <1>2 DEF SendFailed, Events
<1>3. CASE SendUnlock(a)
  BY <1>3 DEF SendUnlock, Ops
<1>4. CASE SendLock(a)
  BY <1>4 DEF SendLock, Threads
<1>5. CASE SendRefused(a)
  BY <1>5 DEF SendRefused, Ops
<1>6. CASE StartClear
  BY <1>6 DEF StartClear, Ops, Past
<1>7. CASE StopWait
  BY <1>7 DEF StopWait
<1>8. CASE StopState
  BY <1>8 DEF StopState, States, Ops
<1>9. CASE StopStateDestroy
  BY <1>9 DEF StopStateDestroy, States
<1>10. CASE DestroyFree
  BY <1>10 DEF DestroyFree, Ops
<1>11. CASE CloseBit
  BY <1>11 DEF CloseBit, Bits
<1>12. CASE CloseDone
  BY <1>12 DEF CloseDone, Ops
<1>13. CASE CloseTimeout
  BY <1>13 DEF CloseTimeout
<1>14. CASE Abort(a)
  BY <1>14, FieldsAbort DEF Threads
<1> QED  BY <1>1, <1>2, <1>3, <1>4, <1>5, <1>6, <1>7, <1>8, <1>9, <1>10, <1>11, <1>12, <1>13, <1>14 DEF CallWork, SendEnter

\* A new call of the application: the fields keep their types.
LEMMA FieldsCall ==
    ASSUME TypeOK, NewCall
    PROVE  FieldsOK'
<1> USE ThreadsAssumption DEF TypeOK, FieldsOK, LabelsOK, Goto, Dispatch, ReportError, Enter,
           Return, flags, link, locals, session
<1>1. ASSUME NEW t \in Tasks, StartCreate(t)
      PROVE  FieldsOK'
  BY <1>1 DEF StartCreate, StartAllowed, Ops, Events, Past
<1>2. CASE StartFails
  BY <1>2 DEF StartFails, StartAllowed
<1>3. ASSUME NEW f \in {"stop", "destroy"}, StopCall(f)
      PROVE  FieldsOK'
  BY <1>3 DEF StopCall, Ops
<1>4. CASE CloseCall
  BY <1>4 DEF CloseCall, Ops
<1>5. CASE DestroyCall
  BY <1>5 DEF DestroyCall, Ops, Past
<1>6. CASE DestroyOnExit
  BY <1>6 DEF DestroyOnExit
<1>7. ASSUME NEW a \in Apps, SendCall(a)
      PROVE  FieldsOK'
  BY <1>7 DEF SendCall, Ops
<1> QED  BY <1>1, <1>2, <1>3, <1>4, <1>5, <1>6, <1>7 DEF NewCall

\* Any step: the fields keep their types.
LEMMA FieldsStep ==
    ASSUME TypeOK, [Next]_vars
    PROVE  FieldsOK'
<1>1. CASE Next
  BY <1>1, FieldsTask, FieldsApp, FieldsCall DEF Next
<1>2. CASE UNCHANGED vars
  BY <1>2 DEF vars, TypeOK, FieldsOK, LabelsOK, Goto, Dispatch, ReportError, Enter, Return, flags,
           link, locals, session
<1> QED  BY <1>1, <1>2
-----------------------------------------------------------------------------
(* Every thread stays at one of its labels.                                 *)

\* A task that moves to a label of a task leaves all labels well placed.
LEMMA GotoTask ==
    ASSUME LabelsOK, NEW t \in Tasks, NEW l, NEW m \in TaskLabels, Goto(t, l, m)
    PROVE  LabelsOK'
BY ThreadsAssumption DEF LabelsOK, Goto, Threads

\* The same for an application thread.
LEMMA GotoApp ==
    ASSUME LabelsOK, NEW a \in Apps, NEW l, NEW m \in AppLabels, Goto(a, l, m)
    PROVE  LabelsOK'
BY ThreadsAssumption DEF LabelsOK, Goto, Threads

\* A step of esp_websocket_client_abort_connection(): every thread stays at its labels.
LEMMA LabelsAbort ==
    ASSUME LabelsOK, NEW th \in Threads, Abort(th)
    PROVE  LabelsOK'
<1> USE ThreadsAssumption
<1>1. CASE AbortRefused(th)
  BY <1>1, GotoTask, GotoApp DEF AbortRefused, TaskLabels, AppLabels, AfterAbort, Threads
<1>2. CASE AbortClose(th)
  BY <1>2, GotoTask, GotoApp DEF AbortClose, TaskLabels, AppLabels, AfterAbort, Threads
<1>3. CASE AbortState(th)
  BY <1>3, GotoTask, GotoApp DEF AbortState, TaskLabels, AppLabels, AfterAbort, Threads
<1>4. CASE AbortEvent(th)
  BY <1>4, GotoTask, GotoApp DEF AbortEvent, TaskLabels, AppLabels, AfterAbort, Threads
<1> QED  BY <1>1, <1>2, <1>3, <1>4 DEF Abort

\* A step of the client task: every thread stays at its labels.
LEMMA LabelsTask ==
    ASSUME LabelsOK, NEW t \in Tasks, TaskStep(t)
    PROVE  LabelsOK'
<1> USE ThreadsAssumption
<1>1. CASE TaskEnter(t)
  BY <1>1, GotoTask DEF TaskEnter, TaskLabels
<1>2. CASE TaskNoTransport(t)
  BY <1>2, GotoTask DEF TaskNoTransport, TaskLabels
<1>3. CASE TaskInit(t)
  BY <1>3, GotoTask DEF TaskInit, TaskLabels
<1>4. CASE TaskClear(t)
  BY <1>4, GotoTask DEF TaskClear, TaskLabels
<1>5. CASE TaskLoop(t)
  BY <1>5, GotoTask DEF TaskLoop, TaskLabels
<1>6. CASE TaskLock(t)
  BY <1>6, GotoTask DEF TaskLock, TaskLabels
<1>7. CASE TaskUnlock(t)
  BY <1>7, GotoTask DEF TaskUnlock, TaskLabels
<1>8. CASE BeforeConnect(t)
  BY <1>8, GotoTask DEF BeforeConnect, TaskLabels
<1>9. CASE Connected(t)
  BY <1>9, GotoTask DEF Connected, TaskLabels
<1>10. CASE ConnectFailed(t)
  BY <1>10, GotoTask DEF ConnectFailed, TaskLabels
<1>11. CASE ServeQuiet(t)
  BY <1>11, GotoTask DEF ServeQuiet, TaskLabels
<1>12. CASE ServePing(t)
  BY <1>12, GotoTask DEF ServePing, TaskLabels
<1>13. CASE ServePongTimeout(t)
  BY <1>13, GotoTask DEF ServePongTimeout, TaskLabels
<1>14. CASE GiveUp(t)
  BY <1>14, GotoTask DEF GiveUp, TaskLabels
<1>15. CASE Reconnect(t)
  BY <1>15, GotoTask DEF Reconnect, TaskLabels
<1>16. CASE KeepWaiting(t)
  BY <1>16, GotoTask DEF KeepWaiting, TaskLabels
<1>17. CASE EchoClose(t)
  BY <1>17, GotoTask DEF EchoClose, TaskLabels
<1>18. CASE NothingToDo(t)
  BY <1>18, GotoTask DEF NothingToDo, TaskLabels
<1>19. CASE RecvFailed(t)
  BY <1>19, GotoTask DEF RecvFailed, TaskLabels
<1>20. CASE RecvTimeout(t)
  BY <1>20, GotoTask DEF RecvTimeout, TaskLabels
<1>21. CASE RecvPart(t)
  BY <1>21, GotoTask DEF RecvPart, TaskLabels
<1>22. CASE RecvFrame(t)
  BY <1>22, GotoTask DEF RecvFrame, TaskLabels
<1>23. CASE RecvPong(t)
  BY <1>23, GotoTask DEF RecvPong, TaskLabels
<1>24. CASE RecvClose(t)
  BY <1>24, GotoTask DEF RecvClose, TaskLabels
<1>25. CASE TaskPost(t)
  BY <1>25, GotoTask DEF TaskPost, TaskLabels
<1>26. CASE TaskPoll(t)
  BY <1>26, GotoTask DEF TaskPoll, TaskLabels
<1>27. CASE TaskPollFailed(t)
  BY <1>27, GotoTask DEF TaskPollFailed, TaskLabels
<1>28. CASE TaskDelay(t)
  BY <1>28, GotoTask DEF TaskDelay, TaskLabels
<1>29. CASE TaskPollClosed(t)
  BY <1>29, GotoTask DEF TaskPollClosed, TaskLabels
<1>30. CASE TaskClosedState(t)
  BY <1>30, GotoTask DEF TaskClosedState, TaskLabels
<1>31. CASE TaskClosedEvent(t)
  BY <1>31, GotoTask DEF TaskClosedEvent, TaskLabels
<1>32. CASE TaskStillWaiting(t)
  BY <1>32, GotoTask DEF TaskStillWaiting, TaskLabels
<1>33. CASE TaskExit(t)
  BY <1>33, GotoTask DEF TaskExit, TaskLabels
<1>34. CASE TaskStopped(t)
  BY <1>34, GotoTask DEF TaskStopped, TaskLabels
<1>35. CASE TaskExitState(t)
  BY <1>35, GotoTask DEF TaskExitState, TaskLabels
<1>36. CASE TaskExitFree(t)
  BY <1>36, GotoTask DEF TaskExitFree, TaskLabels
<1>37. CASE Abort(t)
  BY <1>37, LabelsAbort DEF Threads
<1> QED  BY <1>1, <1>2, <1>3, <1>4, <1>5, <1>6, <1>7, <1>8, <1>9, <1>10, <1>11, <1>12, <1>13, <1>14,
           <1>15, <1>16, <1>17, <1>18, <1>19, <1>20, <1>21, <1>22, <1>23, <1>24, <1>25, <1>26,
           <1>27, <1>28, <1>29, <1>30, <1>31, <1>32, <1>33, <1>34, <1>35, <1>36, <1>37 DEF TaskStep, TaskWork

\* A step of a call in progress: every thread stays at its labels.
LEMMA LabelsApp ==
    ASSUME LabelsOK, NEW a \in Apps, CallWork(a) \/ SendEnter(a)
    PROVE  LabelsOK'
<1> USE ThreadsAssumption
<1>1. CASE SendOk(a)
  BY <1>1, GotoApp DEF SendOk, AppLabels, Return
<1>2. CASE SendFailed(a)
  BY <1>2, GotoApp DEF SendFailed, AppLabels, Return
<1>3. CASE SendUnlock(a)
  BY <1>3, GotoApp DEF SendUnlock, AppLabels, Return
<1>4. CASE SendLock(a)
  BY <1>4, GotoApp DEF SendLock, AppLabels, Return
<1>5. CASE SendRefused(a)
  BY <1>5, GotoApp DEF SendRefused, AppLabels, Return
<1>6. CASE StartClear
  BY <1>6, GotoApp DEF StartClear, AppLabels, Return
<1>7. CASE StopWait
  BY <1>7, GotoApp DEF StopWait, AppLabels, Return
<1>8. CASE StopState
  BY <1>8, GotoApp DEF StopState, AppLabels, Return
<1>9. CASE StopStateDestroy
  BY <1>9, GotoApp DEF StopStateDestroy, AppLabels, Return
<1>10. CASE DestroyFree
  BY <1>10, GotoApp DEF DestroyFree, AppLabels, Return
<1>11. CASE CloseBit
  BY <1>11, GotoApp DEF CloseBit, AppLabels, Return
<1>12. CASE CloseDone
  BY <1>12, GotoApp DEF CloseDone, AppLabels, Return
<1>13. CASE CloseTimeout
  BY <1>13, GotoApp DEF CloseTimeout, AppLabels, Return
<1>14. CASE Abort(a)
  BY <1>14, LabelsAbort DEF Threads
<1> QED  BY <1>1, <1>2, <1>3, <1>4, <1>5, <1>6, <1>7, <1>8, <1>9, <1>10, <1>11, <1>12, <1>13, <1>14 DEF CallWork, SendEnter

\* A new call of the application: every thread stays at its labels.
LEMMA LabelsCall ==
    ASSUME LabelsOK, NewCall
    PROVE  LabelsOK'
<1> USE ThreadsAssumption
<1>1. ASSUME NEW t \in Tasks, StartCreate(t)
      PROVE  LabelsOK'
  BY <1>1 DEF StartCreate, StartAllowed, LabelsOK, TaskLabels, AppLabels, Threads
<1>2. CASE StartFails
  BY <1>2 DEF StartFails, LabelsOK
<1>3. ASSUME NEW f \in {"stop", "destroy"}, StopCall(f)
      PROVE  LabelsOK'
  BY <1>3, GotoApp DEF StopCall, AppLabels, Enter
<1>4. CASE CloseCall
  BY <1>4, GotoApp DEF CloseCall, AppLabels, Enter
<1>5. CASE DestroyCall
  BY <1>5, GotoApp DEF DestroyCall, AppLabels, Enter
<1>6. CASE DestroyOnExit
  BY <1>6 DEF DestroyOnExit, LabelsOK
<1>7. ASSUME NEW a \in Apps, SendCall(a)
      PROVE  LabelsOK'
  BY <1>7, GotoApp DEF SendCall, AppLabels, Enter
<1> QED  BY <1>1, <1>2, <1>3, <1>4, <1>5, <1>6, <1>7 DEF NewCall

\* Any step: every thread stays at its labels.
LEMMA LabelsStep ==
    ASSUME LabelsOK, [Next]_vars
    PROVE  LabelsOK'
<1>1. CASE Next
  BY <1>1, LabelsTask, LabelsApp, LabelsCall DEF Next
<1>2. CASE UNCHANGED vars
  BY <1>2 DEF vars, LabelsOK
<1> QED  BY <1>1, <1>2
-----------------------------------------------------------------------------
(* The lock is where LockInv says: only the owner of a locked section        *)
(* releases it, and a section is entered with the lock free.                 *)

\* A step of esp_websocket_client_abort_connection(): the lock stays with its owner.
LEMMA LockAbort ==
    ASSUME TypeOK, LockInv, NEW th \in Threads, Abort(th)
    PROVE  LockInv'
<1> USE ThreadsAssumption DEF TypeOK, FieldsOK, LabelsOK, LockInv, Locked, TaskLocked, AppLocked,
           Goto, Dispatch, ReportError, Enter, Return, AfterAbort, Threads
<1>1. CASE AbortRefused(th)
  BY <1>1 DEF AbortRefused
<1>2. CASE AbortClose(th)
  BY <1>2 DEF AbortClose
<1>3. CASE AbortState(th)
  BY <1>3 DEF AbortState
<1>4. CASE AbortEvent(th)
  BY <1>4 DEF AbortEvent
<1> QED  BY <1>1, <1>2, <1>3, <1>4 DEF Abort

\* A step of the client task: the lock stays with its owner.
LEMMA LockTask ==
    ASSUME TypeOK, LockInv, NEW t \in Tasks, TaskStep(t)
    PROVE  LockInv'
<1> USE ThreadsAssumption DEF TypeOK, FieldsOK, LabelsOK, LockInv, Locked, TaskLocked, AppLocked,
           Goto, Dispatch, ReportError, Enter, Return, AfterAbort, Threads
<1>1. CASE TaskEnter(t)
  BY <1>1 DEF TaskEnter
<1>2. CASE TaskNoTransport(t)
  BY <1>2 DEF TaskNoTransport
<1>3. CASE TaskInit(t)
  BY <1>3 DEF TaskInit
<1>4. CASE TaskClear(t)
  BY <1>4 DEF TaskClear
<1>5. CASE TaskLoop(t)
  BY <1>5 DEF TaskLoop
<1>6. CASE TaskLock(t)
  BY <1>6 DEF TaskLock
<1>7. CASE TaskUnlock(t)
  BY <1>7 DEF TaskUnlock
<1>8. CASE BeforeConnect(t)
  BY <1>8 DEF BeforeConnect
<1>9. CASE Connected(t)
  BY <1>9 DEF Connected
<1>10. CASE ConnectFailed(t)
  BY <1>10 DEF ConnectFailed
<1>11. CASE ServeQuiet(t)
  BY <1>11 DEF ServeQuiet
<1>12. CASE ServePing(t)
  BY <1>12 DEF ServePing
<1>13. CASE ServePongTimeout(t)
  BY <1>13 DEF ServePongTimeout
<1>14. CASE GiveUp(t)
  BY <1>14 DEF GiveUp
<1>15. CASE Reconnect(t)
  BY <1>15 DEF Reconnect
<1>16. CASE KeepWaiting(t)
  BY <1>16 DEF KeepWaiting
<1>17. CASE EchoClose(t)
  BY <1>17 DEF EchoClose
<1>18. CASE NothingToDo(t)
  BY <1>18 DEF NothingToDo
<1>19. CASE RecvFailed(t)
  BY <1>19 DEF RecvFailed
<1>20. CASE RecvTimeout(t)
  BY <1>20 DEF RecvTimeout
<1>21. CASE RecvPart(t)
  BY <1>21 DEF RecvPart
<1>22. CASE RecvFrame(t)
  BY <1>22 DEF RecvFrame
<1>23. CASE RecvPong(t)
  BY <1>23 DEF RecvPong
<1>24. CASE RecvClose(t)
  BY <1>24 DEF RecvClose
<1>25. CASE TaskPost(t)
  BY <1>25 DEF TaskPost
<1>26. CASE TaskPoll(t)
  BY <1>26 DEF TaskPoll
<1>27. CASE TaskPollFailed(t)
  BY <1>27 DEF TaskPollFailed
<1>28. CASE TaskDelay(t)
  BY <1>28 DEF TaskDelay
<1>29. CASE TaskPollClosed(t)
  BY <1>29 DEF TaskPollClosed
<1>30. CASE TaskClosedState(t)
  BY <1>30 DEF TaskClosedState
<1>31. CASE TaskClosedEvent(t)
  BY <1>31 DEF TaskClosedEvent
<1>32. CASE TaskStillWaiting(t)
  BY <1>32 DEF TaskStillWaiting
<1>33. CASE TaskExit(t)
  BY <1>33 DEF TaskExit
<1>34. CASE TaskStopped(t)
  BY <1>34 DEF TaskStopped
<1>35. CASE TaskExitState(t)
  BY <1>35 DEF TaskExitState
<1>36. CASE TaskExitFree(t)
  BY <1>36 DEF TaskExitFree
<1>37. CASE Abort(t)
  BY <1>37, LockAbort DEF Threads
<1> QED  BY <1>1, <1>2, <1>3, <1>4, <1>5, <1>6, <1>7, <1>8, <1>9, <1>10, <1>11, <1>12, <1>13, <1>14,
           <1>15, <1>16, <1>17, <1>18, <1>19, <1>20, <1>21, <1>22, <1>23, <1>24, <1>25, <1>26,
           <1>27, <1>28, <1>29, <1>30, <1>31, <1>32, <1>33, <1>34, <1>35, <1>36, <1>37 DEF TaskStep, TaskWork

\* A step of a call in progress: the lock stays with its owner.
LEMMA LockApp ==
    ASSUME TypeOK, LockInv, NEW a \in Apps, CallWork(a) \/ SendEnter(a)
    PROVE  LockInv'
<1> USE ThreadsAssumption DEF TypeOK, FieldsOK, LabelsOK, LockInv, Locked, TaskLocked, AppLocked,
           Goto, Dispatch, ReportError, Enter, Return, AfterAbort, Threads
<1>1. CASE SendOk(a)
  BY <1>1 DEF SendOk
<1>2. CASE SendFailed(a)
  BY <1>2 DEF SendFailed
<1>3. CASE SendUnlock(a)
  BY <1>3 DEF SendUnlock
<1>4. CASE SendLock(a)
  BY <1>4 DEF SendLock
<1>5. CASE SendRefused(a)
  BY <1>5 DEF SendRefused
<1>6. CASE StartClear
  BY <1>6 DEF StartClear
<1>7. CASE StopWait
  BY <1>7 DEF StopWait
<1>8. CASE StopState
  BY <1>8 DEF StopState
<1>9. CASE StopStateDestroy
  BY <1>9 DEF StopStateDestroy
<1>10. CASE DestroyFree
  BY <1>10 DEF DestroyFree
<1>11. CASE CloseBit
  BY <1>11 DEF CloseBit
<1>12. CASE CloseDone
  BY <1>12 DEF CloseDone
<1>13. CASE CloseTimeout
  BY <1>13 DEF CloseTimeout
<1>14. CASE Abort(a)
  BY <1>14, LockAbort DEF Threads
<1> QED  BY <1>1, <1>2, <1>3, <1>4, <1>5, <1>6, <1>7, <1>8, <1>9, <1>10, <1>11, <1>12, <1>13, <1>14 DEF CallWork, SendEnter

\* A new call of the application: the lock stays with its owner.
LEMMA LockCall ==
    ASSUME TypeOK, LockInv, NewCall
    PROVE  LockInv'
<1> USE ThreadsAssumption DEF TypeOK, FieldsOK, LabelsOK, LockInv, Locked, TaskLocked, AppLocked,
           Goto, Dispatch, ReportError, Enter, Return, AfterAbort, Threads
<1>1. ASSUME NEW t \in Tasks, StartCreate(t)
      PROVE  LockInv'
  BY <1>1 DEF StartCreate, StartAllowed
<1>2. CASE StartFails
  BY <1>2 DEF StartFails, StartAllowed
<1>3. ASSUME NEW f \in {"stop", "destroy"}, StopCall(f)
      PROVE  LockInv'
  BY <1>3 DEF StopCall
<1>4. CASE CloseCall
  BY <1>4 DEF CloseCall
<1>5. CASE DestroyCall
  BY <1>5 DEF DestroyCall
<1>6. CASE DestroyOnExit
  BY <1>6 DEF DestroyOnExit
<1>7. ASSUME NEW a \in Apps, SendCall(a)
      PROVE  LockInv'
  BY <1>7 DEF SendCall
<1> QED  BY <1>1, <1>2, <1>3, <1>4, <1>5, <1>6, <1>7 DEF NewCall

\* Any step: the lock stays with its owner.
LEMMA LockStep ==
    ASSUME TypeOK, LockInv, [Next]_vars
    PROVE  LockInv'
<1>1. CASE Next
  BY <1>1, LockTask, LockApp, LockCall DEF Next
<1>2. CASE UNCHANGED vars
  BY <1>2 DEF vars, TypeOK, FieldsOK, LabelsOK, LockInv, Locked, TaskLocked, AppLocked, Goto,
           Dispatch, ReportError, Enter, Return, AfterAbort, Threads
<1> QED  BY <1>1, <1>2
-----------------------------------------------------------------------------
(* Only a live task opens a connection, and the last to leave its loop has   *)
(* closed it.                                                                *)

\* A step of esp_websocket_client_abort_connection(): an open connection has a task to close it.
LEMMA OpenAbort ==
    ASSUME TypeOK, OpenInv, NEW th \in Threads, Abort(th)
    PROVE  OpenInv'
<1> USE ThreadsAssumption DEF TypeOK, FieldsOK, LabelsOK, OpenInv, Live, Goto, Dispatch,
           ReportError, Enter, Return, AfterAbort, Threads, link
<1>1. CASE AbortRefused(th)
  BY <1>1 DEF AbortRefused
<1>2. CASE AbortClose(th)
  BY <1>2 DEF AbortClose
<1>3. CASE AbortState(th)
  BY <1>3 DEF AbortState
<1>4. CASE AbortEvent(th)
  BY <1>4 DEF AbortEvent
<1> QED  BY <1>1, <1>2, <1>3, <1>4 DEF Abort

\* A step of the client task: an open connection has a task to close it.
LEMMA OpenTask ==
    ASSUME TypeOK, OpenInv, NEW t \in Tasks, TaskStep(t)
    PROVE  OpenInv'
<1> USE ThreadsAssumption DEF TypeOK, FieldsOK, LabelsOK, OpenInv, Live, Goto, Dispatch,
           ReportError, Enter, Return, AfterAbort, Threads, link
<1>1. CASE TaskEnter(t)
  BY <1>1 DEF TaskEnter
<1>2. CASE TaskNoTransport(t)
  BY <1>2 DEF TaskNoTransport
<1>3. CASE TaskInit(t)
  BY <1>3 DEF TaskInit
<1>4. CASE TaskClear(t)
  BY <1>4 DEF TaskClear
<1>5. CASE TaskLoop(t)
  BY <1>5 DEF TaskLoop
<1>6. CASE TaskLock(t)
  BY <1>6 DEF TaskLock
<1>7. CASE TaskUnlock(t)
  BY <1>7 DEF TaskUnlock
<1>8. CASE BeforeConnect(t)
  BY <1>8 DEF BeforeConnect
<1>9. CASE Connected(t)
  BY <1>9 DEF Connected
<1>10. CASE ConnectFailed(t)
  BY <1>10 DEF ConnectFailed
<1>11. CASE ServeQuiet(t)
  BY <1>11 DEF ServeQuiet
<1>12. CASE ServePing(t)
  BY <1>12 DEF ServePing
<1>13. CASE ServePongTimeout(t)
  BY <1>13 DEF ServePongTimeout
<1>14. CASE GiveUp(t)
  BY <1>14 DEF GiveUp
<1>15. CASE Reconnect(t)
  BY <1>15 DEF Reconnect
<1>16. CASE KeepWaiting(t)
  BY <1>16 DEF KeepWaiting
<1>17. CASE EchoClose(t)
  BY <1>17 DEF EchoClose
<1>18. CASE NothingToDo(t)
  BY <1>18 DEF NothingToDo
<1>19. CASE RecvFailed(t)
  BY <1>19 DEF RecvFailed
<1>20. CASE RecvTimeout(t)
  BY <1>20 DEF RecvTimeout
<1>21. CASE RecvPart(t)
  BY <1>21 DEF RecvPart
<1>22. CASE RecvFrame(t)
  BY <1>22 DEF RecvFrame
<1>23. CASE RecvPong(t)
  BY <1>23 DEF RecvPong
<1>24. CASE RecvClose(t)
  BY <1>24 DEF RecvClose
<1>25. CASE TaskPost(t)
  BY <1>25 DEF TaskPost
<1>26. CASE TaskPoll(t)
  BY <1>26 DEF TaskPoll
<1>27. CASE TaskPollFailed(t)
  BY <1>27 DEF TaskPollFailed
<1>28. CASE TaskDelay(t)
  BY <1>28 DEF TaskDelay
<1>29. CASE TaskPollClosed(t)
  BY <1>29 DEF TaskPollClosed
<1>30. CASE TaskClosedState(t)
  BY <1>30 DEF TaskClosedState
<1>31. CASE TaskClosedEvent(t)
  BY <1>31 DEF TaskClosedEvent
<1>32. CASE TaskStillWaiting(t)
  BY <1>32 DEF TaskStillWaiting
<1>33. CASE TaskExit(t)
  BY <1>33 DEF TaskExit
<1>34. CASE TaskStopped(t)
  BY <1>34 DEF TaskStopped
<1>35. CASE TaskExitState(t)
  BY <1>35 DEF TaskExitState
<1>36. CASE TaskExitFree(t)
  BY <1>36 DEF TaskExitFree
<1>37. CASE Abort(t)
  BY <1>37, OpenAbort DEF Threads
<1> QED  BY <1>1, <1>2, <1>3, <1>4, <1>5, <1>6, <1>7, <1>8, <1>9, <1>10, <1>11, <1>12, <1>13, <1>14,
           <1>15, <1>16, <1>17, <1>18, <1>19, <1>20, <1>21, <1>22, <1>23, <1>24, <1>25, <1>26,
           <1>27, <1>28, <1>29, <1>30, <1>31, <1>32, <1>33, <1>34, <1>35, <1>36, <1>37 DEF TaskStep, TaskWork

\* A step of a call in progress: an open connection has a task to close it.
LEMMA OpenApp ==
    ASSUME TypeOK, OpenInv, NEW a \in Apps, CallWork(a) \/ SendEnter(a)
    PROVE  OpenInv'
<1> USE ThreadsAssumption DEF TypeOK, FieldsOK, LabelsOK, OpenInv, Live, Goto, Dispatch,
           ReportError, Enter, Return, AfterAbort, Threads, link
<1>1. CASE SendOk(a)
  BY <1>1 DEF SendOk
<1>2. CASE SendFailed(a)
  BY <1>2 DEF SendFailed
<1>3. CASE SendUnlock(a)
  BY <1>3 DEF SendUnlock
<1>4. CASE SendLock(a)
  BY <1>4 DEF SendLock
<1>5. CASE SendRefused(a)
  BY <1>5 DEF SendRefused
<1>6. CASE StartClear
  BY <1>6 DEF StartClear
<1>7. CASE StopWait
  BY <1>7 DEF StopWait
<1>8. CASE StopState
  BY <1>8 DEF StopState
<1>9. CASE StopStateDestroy
  BY <1>9 DEF StopStateDestroy
<1>10. CASE DestroyFree
  BY <1>10 DEF DestroyFree
<1>11. CASE CloseBit
  BY <1>11 DEF CloseBit
<1>12. CASE CloseDone
  BY <1>12 DEF CloseDone
<1>13. CASE CloseTimeout
  BY <1>13 DEF CloseTimeout
<1>14. CASE Abort(a)
  BY <1>14, OpenAbort DEF Threads
<1> QED  BY <1>1, <1>2, <1>3, <1>4, <1>5, <1>6, <1>7, <1>8, <1>9, <1>10, <1>11, <1>12, <1>13, <1>14 DEF CallWork, SendEnter

\* A new call of the application: an open connection has a task to close it.
LEMMA OpenCall ==
    ASSUME TypeOK, OpenInv, NewCall
    PROVE  OpenInv'
<1> USE ThreadsAssumption DEF TypeOK, FieldsOK, LabelsOK, OpenInv, Live, Goto, Dispatch,
           ReportError, Enter, Return, AfterAbort, Threads, link
<1>1. ASSUME NEW t \in Tasks, StartCreate(t)
      PROVE  OpenInv'
  BY <1>1 DEF StartCreate, StartAllowed
<1>2. CASE StartFails
  BY <1>2 DEF StartFails, StartAllowed
<1>3. ASSUME NEW f \in {"stop", "destroy"}, StopCall(f)
      PROVE  OpenInv'
  BY <1>3 DEF StopCall
<1>4. CASE CloseCall
  BY <1>4 DEF CloseCall
<1>5. CASE DestroyCall
  BY <1>5 DEF DestroyCall
<1>6. CASE DestroyOnExit
  BY <1>6 DEF DestroyOnExit
<1>7. ASSUME NEW a \in Apps, SendCall(a)
      PROVE  OpenInv'
  BY <1>7 DEF SendCall
<1> QED  BY <1>1, <1>2, <1>3, <1>4, <1>5, <1>6, <1>7 DEF NewCall

\* Any step: an open connection has a task to close it.
LEMMA OpenStep ==
    ASSUME TypeOK, OpenInv, [Next]_vars
    PROVE  OpenInv'
<1>1. CASE Next
  BY <1>1, OpenTask, OpenApp, OpenCall DEF Next
<1>2. CASE UNCHANGED vars
  BY <1>2 DEF vars, TypeOK, FieldsOK, LabelsOK, OpenInv, Live, Goto, Dispatch, ReportError, Enter,
           Return, AfterAbort, Threads, link
<1> QED  BY <1>1, <1>2
-----------------------------------------------------------------------------
(* The life of the tasks: start() finds none alive, a task sets STOPPED_BIT *)
(* as it leaves, and stop() and close() wait for the bit.                   *)

\* A step of esp_websocket_client_abort_connection(): the bit and the live task stay in step.
LEMMA LifeAbort ==
    ASSUME TypeOK, LifeInv, "early" \notin past', NEW th \in Threads, Abort(th)
    PROVE  LifeInv'
<1> USE ThreadsAssumption DEF TypeOK, LabelsOK, LifeInv, NoneLive, Live, Goto, Dispatch,
           ReportError, Enter, Return, AfterAbort, Threads, flags, session
<1>1. CASE AbortRefused(th)
  BY <1>1 DEF AbortRefused
<1>2. CASE AbortClose(th)
  BY <1>2 DEF AbortClose
<1>3. CASE AbortState(th)
  BY <1>3 DEF AbortState
<1>4. CASE AbortEvent(th)
  BY <1>4 DEF AbortEvent
<1> QED  BY <1>1, <1>2, <1>3, <1>4 DEF Abort

\* A step of the client task: the bit and the live task stay in step.
LEMMA LifeTask ==
    ASSUME TypeOK, LifeInv, "early" \notin past', NEW t \in Tasks, TaskStep(t)
    PROVE  LifeInv'
<1> USE ThreadsAssumption DEF TypeOK, LabelsOK, LifeInv, NoneLive, Live, Goto, Dispatch,
           ReportError, Enter, Return, AfterAbort, Threads, flags, session
<1>1. CASE TaskEnter(t)
  BY <1>1 DEF TaskEnter
<1>2. CASE TaskNoTransport(t)
  BY <1>2 DEF TaskNoTransport
<1>3. CASE TaskInit(t)
  BY <1>3 DEF TaskInit
<1>4. CASE TaskClear(t)
  BY <1>4 DEF TaskClear
<1>5. CASE TaskLoop(t)
  BY <1>5 DEF TaskLoop
<1>6. CASE TaskLock(t)
  BY <1>6 DEF TaskLock
<1>7. CASE TaskUnlock(t)
  BY <1>7 DEF TaskUnlock
<1>8. CASE BeforeConnect(t)
  BY <1>8 DEF BeforeConnect
<1>9. CASE Connected(t)
  BY <1>9 DEF Connected
<1>10. CASE ConnectFailed(t)
  BY <1>10 DEF ConnectFailed
<1>11. CASE ServeQuiet(t)
  BY <1>11 DEF ServeQuiet
<1>12. CASE ServePing(t)
  BY <1>12 DEF ServePing
<1>13. CASE ServePongTimeout(t)
  BY <1>13 DEF ServePongTimeout
<1>14. CASE GiveUp(t)
  BY <1>14 DEF GiveUp
<1>15. CASE Reconnect(t)
  BY <1>15 DEF Reconnect
<1>16. CASE KeepWaiting(t)
  BY <1>16 DEF KeepWaiting
<1>17. CASE EchoClose(t)
  BY <1>17 DEF EchoClose
<1>18. CASE NothingToDo(t)
  BY <1>18 DEF NothingToDo
<1>19. CASE RecvFailed(t)
  BY <1>19 DEF RecvFailed
<1>20. CASE RecvTimeout(t)
  BY <1>20 DEF RecvTimeout
<1>21. CASE RecvPart(t)
  BY <1>21 DEF RecvPart
<1>22. CASE RecvFrame(t)
  BY <1>22 DEF RecvFrame
<1>23. CASE RecvPong(t)
  BY <1>23 DEF RecvPong
<1>24. CASE RecvClose(t)
  BY <1>24 DEF RecvClose
<1>25. CASE TaskPost(t)
  BY <1>25 DEF TaskPost
<1>26. CASE TaskPoll(t)
  BY <1>26 DEF TaskPoll
<1>27. CASE TaskPollFailed(t)
  BY <1>27 DEF TaskPollFailed
<1>28. CASE TaskDelay(t)
  BY <1>28 DEF TaskDelay
<1>29. CASE TaskPollClosed(t)
  BY <1>29 DEF TaskPollClosed
<1>30. CASE TaskClosedState(t)
  BY <1>30 DEF TaskClosedState
<1>31. CASE TaskClosedEvent(t)
  BY <1>31 DEF TaskClosedEvent
<1>32. CASE TaskStillWaiting(t)
  BY <1>32 DEF TaskStillWaiting
<1>33. CASE TaskExit(t)
  BY <1>33 DEF TaskExit
<1>34. CASE TaskStopped(t)
  BY <1>34 DEF TaskStopped
<1>35. CASE TaskExitState(t)
  BY <1>35 DEF TaskExitState
<1>36. CASE TaskExitFree(t)
  BY <1>36 DEF TaskExitFree
<1>37. CASE Abort(t)
  BY <1>37, LifeAbort DEF Threads
<1> QED  BY <1>1, <1>2, <1>3, <1>4, <1>5, <1>6, <1>7, <1>8, <1>9, <1>10, <1>11, <1>12, <1>13, <1>14,
           <1>15, <1>16, <1>17, <1>18, <1>19, <1>20, <1>21, <1>22, <1>23, <1>24, <1>25, <1>26,
           <1>27, <1>28, <1>29, <1>30, <1>31, <1>32, <1>33, <1>34, <1>35, <1>36, <1>37 DEF TaskStep, TaskWork

\* A step of a call in progress: the bit and the live task stay in step.
LEMMA LifeApp ==
    ASSUME TypeOK, LifeInv, "early" \notin past', NEW a \in Apps, CallWork(a) \/ SendEnter(a)
    PROVE  LifeInv'
<1> USE ThreadsAssumption DEF TypeOK, LabelsOK, LifeInv, NoneLive, Live, Goto, Dispatch,
           ReportError, Enter, Return, AfterAbort, Threads, flags, session
<1>1. CASE SendOk(a)
  BY <1>1 DEF SendOk
<1>2. CASE SendFailed(a)
  BY <1>2 DEF SendFailed
<1>3. CASE SendUnlock(a)
  BY <1>3 DEF SendUnlock
<1>4. CASE SendLock(a)
  BY <1>4 DEF SendLock
<1>5. CASE SendRefused(a)
  BY <1>5 DEF SendRefused
<1>6. CASE StartClear
  BY <1>6 DEF StartClear
<1>7. CASE StopWait
  BY <1>7 DEF StopWait
<1>8. CASE StopState
  BY <1>8 DEF StopState
<1>9. CASE StopStateDestroy
  BY <1>9 DEF StopStateDestroy
<1>10. CASE DestroyFree
  BY <1>10 DEF DestroyFree
<1>11. CASE CloseBit
  BY <1>11 DEF CloseBit
<1>12. CASE CloseDone
  BY <1>12 DEF CloseDone
<1>13. CASE CloseTimeout
  BY <1>13 DEF CloseTimeout
<1>14. CASE Abort(a)
  BY <1>14, LifeAbort DEF Threads
<1> QED  BY <1>1, <1>2, <1>3, <1>4, <1>5, <1>6, <1>7, <1>8, <1>9, <1>10, <1>11, <1>12, <1>13, <1>14 DEF CallWork, SendEnter

\* A new call of the application: the bit and the live task stay in step.
LEMMA LifeCall ==
    ASSUME TypeOK, LifeInv, "early" \notin past', NewCall
    PROVE  LifeInv'
<1> USE ThreadsAssumption DEF TypeOK, LabelsOK, LifeInv, NoneLive, Live, Goto, Dispatch,
           ReportError, Enter, Return, AfterAbort, Threads, flags, session
<1>1. ASSUME NEW t \in Tasks, StartCreate(t)
      PROVE  LifeInv'
  BY <1>1 DEF StartCreate, StartAllowed, TooEarly
<1>2. CASE StartFails
  BY <1>2 DEF StartFails, StartAllowed
<1>3. ASSUME NEW f \in {"stop", "destroy"}, StopCall(f)
      PROVE  LifeInv'
  BY <1>3 DEF StopCall
<1>4. CASE CloseCall
  BY <1>4 DEF CloseCall
<1>5. CASE DestroyCall
  BY <1>5 DEF DestroyCall
<1>6. CASE DestroyOnExit
  BY <1>6 DEF DestroyOnExit
<1>7. ASSUME NEW a \in Apps, SendCall(a)
      PROVE  LifeInv'
  BY <1>7 DEF SendCall
<1> QED  BY <1>1, <1>2, <1>3, <1>4, <1>5, <1>6, <1>7 DEF NewCall

\* Any step: the bit and the live task stay in step.
LEMMA LifeStep ==
    ASSUME TypeOK, LifeInv, "early" \notin past', [Next]_vars
    PROVE  LifeInv'
<1>1. CASE Next
  BY <1>1, LifeTask, LifeApp, LifeCall DEF Next
<1>2. CASE UNCHANGED vars
  BY <1>2 DEF vars, TypeOK, LabelsOK, LifeInv, NoneLive, Live, Goto, Dispatch, ReportError, Enter,
           Return, AfterAbort, Threads, flags, session
<1> QED  BY <1>1, <1>2
-----------------------------------------------------------------------------
(* Polls stay fresh: only the one live task makes connections, and after it  *)
(* has made one it polls before it reads.                                    *)

\* A step of esp_websocket_client_abort_connection(): the last poll stays that of the open connection.
LEMMA FreshAbort ==
    ASSUME TypeOK, LockInv, LifeInv, FreshInv, "early" \notin past', NEW th \in Threads, Abort(th)
    PROVE  FreshInv'
<1> USE ThreadsAssumption DEF TypeOK, FieldsOK, LabelsOK, LockInv, Locked, TaskLocked, AppLocked,
           LifeInv, NoneLive, Live, FreshInv, Polled, Aborting, Goto, Dispatch, ReportError, Enter,
           Return, AfterAbort, Threads, link, locals
<1>1. CASE AbortRefused(th)
  BY <1>1 DEF AbortRefused
<1>2. CASE AbortClose(th)
  BY <1>2 DEF AbortClose
<1>3. CASE AbortState(th)
  BY <1>3 DEF AbortState
<1>4. CASE AbortEvent(th)
  BY <1>4 DEF AbortEvent
<1> QED  BY <1>1, <1>2, <1>3, <1>4 DEF Abort

\* A step of the client task: the last poll stays that of the open connection.
LEMMA FreshTask ==
    ASSUME TypeOK, LockInv, LifeInv, FreshInv, "early" \notin past', NEW t \in Tasks, TaskStep(t)
    PROVE  FreshInv'
<1> USE ThreadsAssumption DEF TypeOK, FieldsOK, LabelsOK, LockInv, Locked, TaskLocked, AppLocked,
           LifeInv, NoneLive, Live, FreshInv, Polled, Aborting, Goto, Dispatch, ReportError, Enter,
           Return, AfterAbort, Threads, link, locals
<1>1. CASE TaskEnter(t)
  BY <1>1 DEF TaskEnter
<1>2. CASE TaskNoTransport(t)
  BY <1>2 DEF TaskNoTransport
<1>3. CASE TaskInit(t)
  BY <1>3 DEF TaskInit
<1>4. CASE TaskClear(t)
  BY <1>4 DEF TaskClear
<1>5. CASE TaskLoop(t)
  BY <1>5 DEF TaskLoop
<1>6. CASE TaskLock(t)
  BY <1>6 DEF TaskLock
<1>7. CASE TaskUnlock(t)
  BY <1>7 DEF TaskUnlock
<1>8. CASE BeforeConnect(t)
  BY <1>8 DEF BeforeConnect
<1>9. CASE Connected(t)
  BY <1>9 DEF Connected
<1>10. CASE ConnectFailed(t)
  BY <1>10 DEF ConnectFailed
<1>11. CASE ServeQuiet(t)
  BY <1>11 DEF ServeQuiet
<1>12. CASE ServePing(t)
  BY <1>12 DEF ServePing
<1>13. CASE ServePongTimeout(t)
  BY <1>13 DEF ServePongTimeout
<1>14. CASE GiveUp(t)
  BY <1>14 DEF GiveUp
<1>15. CASE Reconnect(t)
  BY <1>15 DEF Reconnect
<1>16. CASE KeepWaiting(t)
  BY <1>16 DEF KeepWaiting
<1>17. CASE EchoClose(t)
  BY <1>17 DEF EchoClose
<1>18. CASE NothingToDo(t)
  BY <1>18 DEF NothingToDo
<1>19. CASE RecvFailed(t)
  BY <1>19 DEF RecvFailed
<1>20. CASE RecvTimeout(t)
  BY <1>20 DEF RecvTimeout
<1>21. CASE RecvPart(t)
  BY <1>21 DEF RecvPart
<1>22. CASE RecvFrame(t)
  BY <1>22 DEF RecvFrame
<1>23. CASE RecvPong(t)
  BY <1>23 DEF RecvPong
<1>24. CASE RecvClose(t)
  BY <1>24 DEF RecvClose
<1>25. CASE TaskPost(t)
  BY <1>25 DEF TaskPost
<1>26. CASE TaskPoll(t)
  BY <1>26 DEF TaskPoll
<1>27. CASE TaskPollFailed(t)
  BY <1>27 DEF TaskPollFailed
<1>28. CASE TaskDelay(t)
  BY <1>28 DEF TaskDelay
<1>29. CASE TaskPollClosed(t)
  BY <1>29 DEF TaskPollClosed
<1>30. CASE TaskClosedState(t)
  BY <1>30 DEF TaskClosedState
<1>31. CASE TaskClosedEvent(t)
  BY <1>31 DEF TaskClosedEvent
<1>32. CASE TaskStillWaiting(t)
  BY <1>32 DEF TaskStillWaiting
<1>33. CASE TaskExit(t)
  BY <1>33 DEF TaskExit
<1>34. CASE TaskStopped(t)
  BY <1>34 DEF TaskStopped
<1>35. CASE TaskExitState(t)
  BY <1>35 DEF TaskExitState
<1>36. CASE TaskExitFree(t)
  BY <1>36 DEF TaskExitFree
<1>37. CASE Abort(t)
  BY <1>37, FreshAbort DEF Threads
<1> QED  BY <1>1, <1>2, <1>3, <1>4, <1>5, <1>6, <1>7, <1>8, <1>9, <1>10, <1>11, <1>12, <1>13, <1>14,
           <1>15, <1>16, <1>17, <1>18, <1>19, <1>20, <1>21, <1>22, <1>23, <1>24, <1>25, <1>26,
           <1>27, <1>28, <1>29, <1>30, <1>31, <1>32, <1>33, <1>34, <1>35, <1>36, <1>37 DEF TaskStep, TaskWork

\* A step of a call in progress: the last poll stays that of the open connection.
LEMMA FreshApp ==
    ASSUME TypeOK, LockInv, LifeInv, FreshInv, "early" \notin past', NEW a \in Apps, CallWork(a) \/ SendEnter(a)
    PROVE  FreshInv'
<1> USE ThreadsAssumption DEF TypeOK, FieldsOK, LabelsOK, LockInv, Locked, TaskLocked, AppLocked,
           LifeInv, NoneLive, Live, FreshInv, Polled, Aborting, Goto, Dispatch, ReportError, Enter,
           Return, AfterAbort, Threads, link, locals
<1>1. CASE SendOk(a)
  BY <1>1 DEF SendOk
<1>2. CASE SendFailed(a)
  BY <1>2 DEF SendFailed
<1>3. CASE SendUnlock(a)
  BY <1>3 DEF SendUnlock
<1>4. CASE SendLock(a)
  BY <1>4 DEF SendLock
<1>5. CASE SendRefused(a)
  BY <1>5 DEF SendRefused
<1>6. CASE StartClear
  BY <1>6 DEF StartClear
<1>7. CASE StopWait
  BY <1>7 DEF StopWait
<1>8. CASE StopState
  BY <1>8 DEF StopState
<1>9. CASE StopStateDestroy
  BY <1>9 DEF StopStateDestroy
<1>10. CASE DestroyFree
  BY <1>10 DEF DestroyFree
<1>11. CASE CloseBit
  BY <1>11 DEF CloseBit
<1>12. CASE CloseDone
  BY <1>12 DEF CloseDone
<1>13. CASE CloseTimeout
  BY <1>13 DEF CloseTimeout
<1>14. CASE Abort(a)
  BY <1>14, FreshAbort DEF Threads
<1> QED  BY <1>1, <1>2, <1>3, <1>4, <1>5, <1>6, <1>7, <1>8, <1>9, <1>10, <1>11, <1>12, <1>13, <1>14 DEF CallWork, SendEnter

\* A new call of the application: the last poll stays that of the open connection.
LEMMA FreshCall ==
    ASSUME TypeOK, LockInv, LifeInv, FreshInv, "early" \notin past', NewCall
    PROVE  FreshInv'
<1> USE ThreadsAssumption DEF TypeOK, FieldsOK, LabelsOK, LockInv, Locked, TaskLocked, AppLocked,
           LifeInv, NoneLive, Live, FreshInv, Polled, Aborting, Goto, Dispatch, ReportError, Enter,
           Return, AfterAbort, Threads, link, locals
<1>1. ASSUME NEW t \in Tasks, StartCreate(t)
      PROVE  FreshInv'
  BY <1>1 DEF StartCreate, StartAllowed, TooEarly
<1>2. CASE StartFails
  BY <1>2 DEF StartFails, StartAllowed
<1>3. ASSUME NEW f \in {"stop", "destroy"}, StopCall(f)
      PROVE  FreshInv'
  BY <1>3 DEF StopCall
<1>4. CASE CloseCall
  BY <1>4 DEF CloseCall
<1>5. CASE DestroyCall
  BY <1>5 DEF DestroyCall
<1>6. CASE DestroyOnExit
  BY <1>6 DEF DestroyOnExit
<1>7. ASSUME NEW a \in Apps, SendCall(a)
      PROVE  FreshInv'
  BY <1>7 DEF SendCall
<1> QED  BY <1>1, <1>2, <1>3, <1>4, <1>5, <1>6, <1>7 DEF NewCall

\* Any step: the last poll stays that of the open connection.
LEMMA FreshStep ==
    ASSUME TypeOK, LockInv, LifeInv, FreshInv, "early" \notin past', [Next]_vars
    PROVE  FreshInv'
<1>1. CASE Next
  BY <1>1, FreshTask, FreshApp, FreshCall DEF Next
<1>2. CASE UNCHANGED vars
  BY <1>2 DEF vars, TypeOK, FieldsOK, LabelsOK, LockInv, Locked, TaskLocked, AppLocked, LifeInv,
           NoneLive, Live, FreshInv, Polled, Aborting, Goto, Dispatch, ReportError, Enter, Return,
           AfterAbort, Threads, link, locals
<1> QED  BY <1>1, <1>2
-----------------------------------------------------------------------------
(* States and events agree: those who report errors hold the lock or are the *)
(* task itself, so that no event of an old connection follows a new one.     *)

\* A step of esp_websocket_client_abort_connection(): states and events stay in agreement.
LEMMA EventAbort ==
    ASSUME TypeOK, LockInv, LifeInv, EventInv, "early" \notin past', NEW th \in Threads, Abort(th)
    PROVE  EventInv'
<1> USE ThreadsAssumption DEF TypeOK, FieldsOK, LabelsOK, LockInv, Locked, TaskLocked, AppLocked,
           LifeInv, NoneLive, Live, EventInv, NoSender, Phase, Aborting, Goto, Dispatch,
           ReportError, Enter, Return, AfterAbort, Threads, session
<1>1. CASE AbortRefused(th)
  BY <1>1 DEF AbortRefused
<1>2. CASE AbortClose(th)
  BY <1>2 DEF AbortClose
<1>3. CASE AbortState(th)
  BY <1>3 DEF AbortState
<1>4. CASE AbortEvent(th)
  BY <1>4 DEF AbortEvent
<1> QED  BY <1>1, <1>2, <1>3, <1>4 DEF Abort

\* A step of the client task: states and events stay in agreement.
LEMMA EventTask ==
    ASSUME TypeOK, LockInv, LifeInv, EventInv, "early" \notin past', NEW t \in Tasks, TaskStep(t)
    PROVE  EventInv'
<1> USE ThreadsAssumption DEF TypeOK, FieldsOK, LabelsOK, LockInv, Locked, TaskLocked, AppLocked,
           LifeInv, NoneLive, Live, EventInv, NoSender, Phase, Aborting, Goto, Dispatch,
           ReportError, Enter, Return, AfterAbort, Threads, session
<1>1. CASE TaskEnter(t)
  BY <1>1 DEF TaskEnter
<1>2. CASE TaskNoTransport(t)
  BY <1>2 DEF TaskNoTransport
<1>3. CASE TaskInit(t)
  BY <1>3 DEF TaskInit
<1>4. CASE TaskClear(t)
  BY <1>4 DEF TaskClear
<1>5. CASE TaskLoop(t)
  BY <1>5 DEF TaskLoop
<1>6. CASE TaskLock(t)
  BY <1>6 DEF TaskLock
<1>7. CASE TaskUnlock(t)
  BY <1>7 DEF TaskUnlock
<1>8. CASE BeforeConnect(t)
  BY <1>8 DEF BeforeConnect
<1>9. CASE Connected(t)
  BY <1>9 DEF Connected
<1>10. CASE ConnectFailed(t)
  BY <1>10 DEF ConnectFailed
<1>11. CASE ServeQuiet(t)
  BY <1>11 DEF ServeQuiet
<1>12. CASE ServePing(t)
  BY <1>12 DEF ServePing
<1>13. CASE ServePongTimeout(t)
  BY <1>13 DEF ServePongTimeout
<1>14. CASE GiveUp(t)
  BY <1>14 DEF GiveUp
<1>15. CASE Reconnect(t)
  BY <1>15 DEF Reconnect
<1>16. CASE KeepWaiting(t)
  BY <1>16 DEF KeepWaiting
<1>17. CASE EchoClose(t)
  BY <1>17 DEF EchoClose
<1>18. CASE NothingToDo(t)
  BY <1>18 DEF NothingToDo
<1>19. CASE RecvFailed(t)
  BY <1>19 DEF RecvFailed
<1>20. CASE RecvTimeout(t)
  BY <1>20 DEF RecvTimeout
<1>21. CASE RecvPart(t)
  BY <1>21 DEF RecvPart
<1>22. CASE RecvFrame(t)
  BY <1>22 DEF RecvFrame
<1>23. CASE RecvPong(t)
  BY <1>23 DEF RecvPong
<1>24. CASE RecvClose(t)
  BY <1>24 DEF RecvClose
<1>25. CASE TaskPost(t)
  BY <1>25 DEF TaskPost
<1>26. CASE TaskPoll(t)
  BY <1>26 DEF TaskPoll
<1>27. CASE TaskPollFailed(t)
  BY <1>27 DEF TaskPollFailed
<1>28. CASE TaskDelay(t)
  BY <1>28 DEF TaskDelay
<1>29. CASE TaskPollClosed(t)
  BY <1>29 DEF TaskPollClosed
<1>30. CASE TaskClosedState(t)
  BY <1>30 DEF TaskClosedState
<1>31. CASE TaskClosedEvent(t)
  BY <1>31 DEF TaskClosedEvent
<1>32. CASE TaskStillWaiting(t)
  BY <1>32 DEF TaskStillWaiting
<1>33. CASE TaskExit(t)
  BY <1>33 DEF TaskExit
<1>34. CASE TaskStopped(t)
  BY <1>34 DEF TaskStopped
<1>35. CASE TaskExitState(t)
  BY <1>35 DEF TaskExitState
<1>36. CASE TaskExitFree(t)
  BY <1>36 DEF TaskExitFree
<1>37. CASE Abort(t)
  BY <1>37, EventAbort DEF Threads
<1> QED  BY <1>1, <1>2, <1>3, <1>4, <1>5, <1>6, <1>7, <1>8, <1>9, <1>10, <1>11, <1>12, <1>13, <1>14,
           <1>15, <1>16, <1>17, <1>18, <1>19, <1>20, <1>21, <1>22, <1>23, <1>24, <1>25, <1>26,
           <1>27, <1>28, <1>29, <1>30, <1>31, <1>32, <1>33, <1>34, <1>35, <1>36, <1>37 DEF TaskStep, TaskWork

\* A step of a call in progress: states and events stay in agreement.
LEMMA EventApp ==
    ASSUME TypeOK, LockInv, LifeInv, EventInv, "early" \notin past', NEW a \in Apps, CallWork(a) \/ SendEnter(a)
    PROVE  EventInv'
<1> USE ThreadsAssumption DEF TypeOK, FieldsOK, LabelsOK, LockInv, Locked, TaskLocked, AppLocked,
           LifeInv, NoneLive, Live, EventInv, NoSender, Phase, Aborting, Goto, Dispatch,
           ReportError, Enter, Return, AfterAbort, Threads, session
<1>1. CASE SendOk(a)
  BY <1>1 DEF SendOk
<1>2. CASE SendFailed(a)
  BY <1>2 DEF SendFailed
<1>3. CASE SendUnlock(a)
  BY <1>3 DEF SendUnlock
<1>4. CASE SendLock(a)
  BY <1>4 DEF SendLock
<1>5. CASE SendRefused(a)
  BY <1>5 DEF SendRefused
<1>6. CASE StartClear
  BY <1>6 DEF StartClear
<1>7. CASE StopWait
  BY <1>7 DEF StopWait
<1>8. CASE StopState
  BY <1>8 DEF StopState
<1>9. CASE StopStateDestroy
  BY <1>9 DEF StopStateDestroy
<1>10. CASE DestroyFree
  BY <1>10 DEF DestroyFree
<1>11. CASE CloseBit
  BY <1>11 DEF CloseBit
<1>12. CASE CloseDone
  BY <1>12 DEF CloseDone
<1>13. CASE CloseTimeout
  BY <1>13 DEF CloseTimeout
<1>14. CASE Abort(a)
  BY <1>14, EventAbort DEF Threads
<1> QED  BY <1>1, <1>2, <1>3, <1>4, <1>5, <1>6, <1>7, <1>8, <1>9, <1>10, <1>11, <1>12, <1>13, <1>14 DEF CallWork, SendEnter

\* A new call of the application: states and events stay in agreement.
LEMMA EventCall ==
    ASSUME TypeOK, LockInv, LifeInv, EventInv, "early" \notin past', NewCall
    PROVE  EventInv'
<1> USE ThreadsAssumption DEF TypeOK, FieldsOK, LabelsOK, LockInv, Locked, TaskLocked, AppLocked,
           LifeInv, NoneLive, Live, EventInv, NoSender, Phase, Aborting, Goto, Dispatch,
           ReportError, Enter, Return, AfterAbort, Threads, session
<1>1. ASSUME NEW t \in Tasks, StartCreate(t)
      PROVE  EventInv'
  BY <1>1 DEF StartCreate, StartAllowed, TooEarly
<1>2. CASE StartFails
  BY <1>2 DEF StartFails, StartAllowed
<1>3. ASSUME NEW f \in {"stop", "destroy"}, StopCall(f)
      PROVE  EventInv'
  BY <1>3 DEF StopCall
<1>4. CASE CloseCall
  BY <1>4 DEF CloseCall
<1>5. CASE DestroyCall
  BY <1>5 DEF DestroyCall
<1>6. CASE DestroyOnExit
  BY <1>6 DEF DestroyOnExit
<1>7. ASSUME NEW a \in Apps, SendCall(a)
      PROVE  EventInv'
  BY <1>7 DEF SendCall
<1> QED  BY <1>1, <1>2, <1>3, <1>4, <1>5, <1>6, <1>7 DEF NewCall

\* Any step: states and events stay in agreement.
LEMMA EventStep ==
    ASSUME TypeOK, LockInv, LifeInv, EventInv, "early" \notin past', [Next]_vars
    PROVE  EventInv'
<1>1. CASE Next
  BY <1>1, EventTask, EventApp, EventCall DEF Next
<1>2. CASE UNCHANGED vars
  BY <1>2 DEF vars, TypeOK, FieldsOK, LabelsOK, LockInv, Locked, TaskLocked, AppLocked, LifeInv,
           NoneLive, Live, EventInv, NoSender, Phase, Aborting, Goto, Dispatch, ReportError, Enter,
           Return, AfterAbort, Threads, session
<1> QED  BY <1>1, <1>2
-----------------------------------------------------------------------------
(* Each step is a step of the session or leaves it alone.                   *)

\* A thread's move between other labels begins no session.
LEMMA BegunSame ==
    ASSUME TypeOK, NEW th \in Threads, NEW l, NEW m, l # "unborn", m # "unborn", Goto(th, l, m)
    PROVE  Begun' = Begun
BY ThreadsAssumption DEF TypeOK, LabelsOK, Threads, Goto, Begun

\* A step of esp_websocket_client_abort_connection(): the session sees one of its own steps or nothing.
LEMMA SessionAbort ==
    ASSUME Inv, NEW th \in Threads, Abort(th)
    PROVE  [Session!Next]_(Session!vars)
<1> USE ThreadsAssumption DEF Inv, TypeOK, EventInv, FreshInv, Aborting, Goto, Dispatch,
           ReportError, Threads, locals, session, link, Session!Next, Session!StartedTooEarly,
           Session!Broken, Session!Connecting, Session!Opened, Session!Message, Session!Lost,
           Session!Closed, Session!NewSession, Session!vars
<1>1. CASE AbortRefused(th)
  BY <1>1, BegunSame DEF AbortRefused, AfterAbort, Phase
<1>2. CASE AbortClose(th)
  BY <1>2, BegunSame DEF AbortClose, Phase
<1>3. CASE AbortState(th)
  BY <1>3, BegunSame DEF AbortState, Phase
<1>4. CASE AbortEvent(th)
  BY <1>4, BegunSame DEF AbortEvent, AfterAbort, Phase
<1> QED  BY <1>1, <1>2, <1>3, <1>4 DEF Abort

\* A step of the client task: the session sees one of its own steps or nothing.
LEMMA SessionTask ==
    ASSUME Inv, NEW t \in Tasks, TaskStep(t)
    PROVE  [Session!Next]_(Session!vars)
<1> USE ThreadsAssumption DEF Inv, TypeOK, EventInv, FreshInv, Aborting, Goto, Dispatch,
           ReportError, Threads, locals, session, link, Session!Next, Session!StartedTooEarly,
           Session!Broken, Session!Connecting, Session!Opened, Session!Message, Session!Lost,
           Session!Closed, Session!NewSession, Session!vars
<1>1. CASE TaskEnter(t)
  BY <1>1, BegunSame DEF TaskEnter, Phase
<1>2. CASE TaskNoTransport(t)
  BY <1>2, BegunSame DEF TaskNoTransport, Phase
<1>3. CASE TaskInit(t)
  BY <1>3, BegunSame DEF TaskInit, Phase
<1>4. CASE TaskClear(t)
  BY <1>4, BegunSame DEF TaskClear, Phase
<1>5. CASE TaskLoop(t)
  BY <1>5, BegunSame DEF TaskLoop, Phase
<1>6. CASE TaskLock(t)
  BY <1>6, BegunSame DEF TaskLock, Phase
<1>7. CASE TaskUnlock(t)
  BY <1>7, BegunSame DEF TaskUnlock, Phase
<1>8. CASE BeforeConnect(t)
  BY <1>8, BegunSame DEF BeforeConnect, Phase
<1>9. CASE Connected(t)
  BY <1>9, BegunSame DEF Connected, Phase
<1>10. CASE ConnectFailed(t)
  BY <1>10, BegunSame DEF ConnectFailed, Phase
<1>11. CASE ServeQuiet(t)
  BY <1>11, BegunSame DEF ServeQuiet, Phase
<1>12. CASE ServePing(t)
  BY <1>12, BegunSame DEF ServePing, Phase
<1>13. CASE ServePongTimeout(t)
  BY <1>13, BegunSame DEF ServePongTimeout, Phase
<1>14. CASE GiveUp(t)
  BY <1>14, BegunSame DEF GiveUp, Phase
<1>15. CASE Reconnect(t)
  BY <1>15, BegunSame DEF Reconnect, Phase
<1>16. CASE KeepWaiting(t)
  BY <1>16, BegunSame DEF KeepWaiting, Phase
<1>17. CASE EchoClose(t)
  BY <1>17, BegunSame DEF EchoClose, Phase
<1>18. CASE NothingToDo(t)
  BY <1>18, BegunSame DEF NothingToDo, Phase
<1>19. CASE RecvFailed(t)
  BY <1>19, BegunSame DEF RecvFailed, Phase
<1>20. CASE RecvTimeout(t)
  BY <1>20, BegunSame DEF RecvTimeout, Phase
<1>21. CASE RecvPart(t)
  BY <1>21, BegunSame DEF RecvPart, Phase
<1>22. CASE RecvFrame(t)
  BY <1>22, BegunSame DEF RecvFrame, Phase
<1>23. CASE RecvPong(t)
  BY <1>23, BegunSame DEF RecvPong, Phase
<1>24. CASE RecvClose(t)
  BY <1>24, BegunSame DEF RecvClose, Phase
<1>25. CASE TaskPost(t)
  BY <1>25, BegunSame DEF TaskPost, Phase
<1>26. CASE TaskPoll(t)
  BY <1>26, BegunSame DEF TaskPoll, Phase
<1>27. CASE TaskPollFailed(t)
  BY <1>27, BegunSame DEF TaskPollFailed, Phase
<1>28. CASE TaskDelay(t)
  BY <1>28, BegunSame DEF TaskDelay, Phase
<1>29. CASE TaskPollClosed(t)
  BY <1>29, BegunSame DEF TaskPollClosed, Phase
<1>30. CASE TaskClosedState(t)
  BY <1>30, BegunSame DEF TaskClosedState, Phase
<1>31. CASE TaskClosedEvent(t)
  BY <1>31, BegunSame DEF TaskClosedEvent, Phase
<1>32. CASE TaskStillWaiting(t)
  BY <1>32, BegunSame DEF TaskStillWaiting, Phase
<1>33. CASE TaskExit(t)
  BY <1>33, BegunSame DEF TaskExit, Phase
<1>34. CASE TaskStopped(t)
  BY <1>34, BegunSame DEF TaskStopped, Phase
<1>35. CASE TaskExitState(t)
  BY <1>35, BegunSame DEF TaskExitState, Phase
<1>36. CASE TaskExitFree(t)
  BY <1>36, BegunSame DEF TaskExitFree, Phase
<1>37. CASE Abort(t)
  BY <1>37, SessionAbort DEF Threads
<1> QED  BY <1>1, <1>2, <1>3, <1>4, <1>5, <1>6, <1>7, <1>8, <1>9, <1>10, <1>11, <1>12, <1>13, <1>14,
           <1>15, <1>16, <1>17, <1>18, <1>19, <1>20, <1>21, <1>22, <1>23, <1>24, <1>25, <1>26,
           <1>27, <1>28, <1>29, <1>30, <1>31, <1>32, <1>33, <1>34, <1>35, <1>36, <1>37 DEF TaskStep, TaskWork

\* A step of a call in progress: the session sees one of its own steps or nothing.
LEMMA SessionApp ==
    ASSUME Inv, NEW a \in Apps, CallWork(a) \/ SendEnter(a)
    PROVE  [Session!Next]_(Session!vars)
<1> USE ThreadsAssumption DEF Inv, TypeOK, EventInv, FreshInv, Aborting, Goto, Dispatch,
           ReportError, Threads, locals, session, link, Session!Next, Session!StartedTooEarly,
           Session!Broken, Session!Connecting, Session!Opened, Session!Message, Session!Lost,
           Session!Closed, Session!NewSession, Session!vars
<1>1. CASE SendOk(a)
  BY <1>1, BegunSame DEF SendOk, Return, Enter, Phase
<1>2. CASE SendFailed(a)
  BY <1>2, BegunSame DEF SendFailed, NoSender, Phase
<1>3. CASE SendUnlock(a)
  BY <1>3, BegunSame DEF SendUnlock, Return, Enter, Phase
<1>4. CASE SendLock(a)
  BY <1>4, BegunSame DEF SendLock, Return, Enter, Phase
<1>5. CASE SendRefused(a)
  BY <1>5, BegunSame DEF SendRefused, Return, Enter, Phase
<1>6. CASE StartClear
  BY <1>6, BegunSame DEF StartClear, Return, Enter, Phase
<1>7. CASE StopWait
  BY <1>7, BegunSame DEF StopWait, Return, Enter, Phase
<1>8. CASE StopState
  BY <1>8, BegunSame DEF StopState, Return, Enter, Phase
<1>9. CASE StopStateDestroy
  BY <1>9, BegunSame DEF StopStateDestroy, Return, Enter, Phase
<1>10. CASE DestroyFree
  BY <1>10, BegunSame DEF DestroyFree, Return, Enter, Phase
<1>11. CASE CloseBit
  BY <1>11, BegunSame DEF CloseBit, Return, Enter, Phase
<1>12. CASE CloseDone
  BY <1>12, BegunSame DEF CloseDone, Return, Enter, Phase
<1>13. CASE CloseTimeout
  BY <1>13, BegunSame DEF CloseTimeout, Return, Enter, Phase
<1>14. CASE Abort(a)
  BY <1>14, SessionAbort DEF Threads
<1> QED  BY <1>1, <1>2, <1>3, <1>4, <1>5, <1>6, <1>7, <1>8, <1>9, <1>10, <1>11, <1>12, <1>13, <1>14 DEF CallWork, SendEnter

\* A new call of the application: the session sees one of its own steps or nothing.
LEMMA SessionCall ==
    ASSUME Inv, NewCall
    PROVE  [Session!Next]_(Session!vars)
<1> USE ThreadsAssumption DEF Inv, TypeOK, EventInv, FreshInv, Aborting, Goto, Dispatch,
           ReportError, Threads, locals, session, link, Session!Next, Session!StartedTooEarly,
           Session!Broken, Session!Connecting, Session!Opened, Session!Message, Session!Lost,
           Session!Closed, Session!NewSession, Session!vars
<1>1. ASSUME NEW t \in Tasks, StartCreate(t)
      PROVE  [Session!Next]_(Session!vars)
  BY <1>1 DEF StartCreate, StartAllowed, Begun, Phase, LabelsOK
<1>2. CASE StartFails
  BY <1>2 DEF StartFails, StartAllowed, Begun, Phase
<1>3. ASSUME NEW f \in {"stop", "destroy"}, StopCall(f)
      PROVE  [Session!Next]_(Session!vars)
  BY <1>3, BegunSame DEF StopCall, Return, Enter, Phase
<1>4. CASE CloseCall
  <2>1. PICK l \in {"send_lock", "close_bit"} : Enter(Ctl, "close", l)
    BY <1>4 DEF CloseCall
  <2>2. Ctl \notin Tasks /\ UNCHANGED <<ev, conn, heard, past>>
    BY <1>4 DEF CloseCall
  <2>3. \A t \in Tasks : pc'[t] = pc[t]
    BY <2>1, <2>2 DEF Enter, LabelsOK
  <2>4. Begun' = Begun
    BY <2>3 DEF Begun
  <2> QED  BY <2>2, <2>4 DEF Phase
<1>5. CASE DestroyCall
  BY <1>5, BegunSame DEF DestroyCall, Return, Enter, Phase
<1>6. CASE DestroyOnExit
  BY <1>6 DEF DestroyOnExit, Begun, Phase
<1>7. ASSUME NEW a \in Apps, SendCall(a)
      PROVE  [Session!Next]_(Session!vars)
  BY <1>7, BegunSame DEF SendCall, Return, Enter, Phase
<1> QED  BY <1>1, <1>2, <1>3, <1>4, <1>5, <1>6, <1>7 DEF NewCall

\* Any step: the session sees one of its own steps or nothing.
LEMMA SessionStep ==
    ASSUME Inv, [Next]_vars
    PROVE  [Session!Next]_(Session!vars)
<1>1. CASE Next
  BY <1>1, SessionTask, SessionApp, SessionCall DEF Next
<1>2. CASE UNCHANGED vars
  BY <1>2 DEF vars, session, link, Session!vars, Phase, Begun
<1> QED  BY <1>1, <1>2
-----------------------------------------------------------------------------
(* The controlling thread's place tells which call it is in.                 *)

\* A step of esp_websocket_client_abort_connection(): Ctl's call and its place agree.
LEMMA CtlAbort ==
    ASSUME TypeOK, CallInv, NEW th \in Threads, Abort(th)
    PROVE  CallInv'
<1> USE ThreadsAssumption DEF TypeOK, FieldsOK, LabelsOK, CallInv, Goto, Enter, Return, AfterAbort,
           Threads, locals
<1>1. CASE AbortRefused(th)
  BY <1>1 DEF AbortRefused
<1>2. CASE AbortClose(th)
  BY <1>2 DEF AbortClose
<1>3. CASE AbortState(th)
  BY <1>3 DEF AbortState
<1>4. CASE AbortEvent(th)
  BY <1>4 DEF AbortEvent
<1> QED  BY <1>1, <1>2, <1>3, <1>4 DEF Abort

\* A step of the client task: Ctl's call and its place agree.
LEMMA CtlTask ==
    ASSUME TypeOK, CallInv, NEW t \in Tasks, TaskStep(t)
    PROVE  CallInv'
<1> USE ThreadsAssumption DEF TypeOK, FieldsOK, LabelsOK, CallInv, Goto, Enter, Return, AfterAbort,
           Threads, locals
<1>1. CASE TaskEnter(t)
  BY <1>1 DEF TaskEnter
<1>2. CASE TaskNoTransport(t)
  BY <1>2 DEF TaskNoTransport
<1>3. CASE TaskInit(t)
  BY <1>3 DEF TaskInit
<1>4. CASE TaskClear(t)
  BY <1>4 DEF TaskClear
<1>5. CASE TaskLoop(t)
  BY <1>5 DEF TaskLoop
<1>6. CASE TaskLock(t)
  BY <1>6 DEF TaskLock
<1>7. CASE TaskUnlock(t)
  BY <1>7 DEF TaskUnlock
<1>8. CASE BeforeConnect(t)
  BY <1>8 DEF BeforeConnect
<1>9. CASE Connected(t)
  BY <1>9 DEF Connected
<1>10. CASE ConnectFailed(t)
  BY <1>10 DEF ConnectFailed
<1>11. CASE ServeQuiet(t)
  BY <1>11 DEF ServeQuiet
<1>12. CASE ServePing(t)
  BY <1>12 DEF ServePing
<1>13. CASE ServePongTimeout(t)
  BY <1>13 DEF ServePongTimeout
<1>14. CASE GiveUp(t)
  BY <1>14 DEF GiveUp
<1>15. CASE Reconnect(t)
  BY <1>15 DEF Reconnect
<1>16. CASE KeepWaiting(t)
  BY <1>16 DEF KeepWaiting
<1>17. CASE EchoClose(t)
  BY <1>17 DEF EchoClose
<1>18. CASE NothingToDo(t)
  BY <1>18 DEF NothingToDo
<1>19. CASE RecvFailed(t)
  BY <1>19 DEF RecvFailed
<1>20. CASE RecvTimeout(t)
  BY <1>20 DEF RecvTimeout
<1>21. CASE RecvPart(t)
  BY <1>21 DEF RecvPart
<1>22. CASE RecvFrame(t)
  BY <1>22 DEF RecvFrame
<1>23. CASE RecvPong(t)
  BY <1>23 DEF RecvPong
<1>24. CASE RecvClose(t)
  BY <1>24 DEF RecvClose
<1>25. CASE TaskPost(t)
  BY <1>25 DEF TaskPost
<1>26. CASE TaskPoll(t)
  BY <1>26 DEF TaskPoll
<1>27. CASE TaskPollFailed(t)
  BY <1>27 DEF TaskPollFailed
<1>28. CASE TaskDelay(t)
  BY <1>28 DEF TaskDelay
<1>29. CASE TaskPollClosed(t)
  BY <1>29 DEF TaskPollClosed
<1>30. CASE TaskClosedState(t)
  BY <1>30 DEF TaskClosedState
<1>31. CASE TaskClosedEvent(t)
  BY <1>31 DEF TaskClosedEvent
<1>32. CASE TaskStillWaiting(t)
  BY <1>32 DEF TaskStillWaiting
<1>33. CASE TaskExit(t)
  BY <1>33 DEF TaskExit
<1>34. CASE TaskStopped(t)
  BY <1>34 DEF TaskStopped
<1>35. CASE TaskExitState(t)
  BY <1>35 DEF TaskExitState
<1>36. CASE TaskExitFree(t)
  BY <1>36 DEF TaskExitFree
<1>37. CASE Abort(t)
  BY <1>37, CtlAbort DEF Threads
<1> QED  BY <1>1, <1>2, <1>3, <1>4, <1>5, <1>6, <1>7, <1>8, <1>9, <1>10, <1>11, <1>12, <1>13, <1>14,
           <1>15, <1>16, <1>17, <1>18, <1>19, <1>20, <1>21, <1>22, <1>23, <1>24, <1>25, <1>26,
           <1>27, <1>28, <1>29, <1>30, <1>31, <1>32, <1>33, <1>34, <1>35, <1>36, <1>37 DEF TaskStep, TaskWork

\* A step of a call in progress: Ctl's call and its place agree.
LEMMA CtlApp ==
    ASSUME TypeOK, CallInv, NEW a \in Apps, CallWork(a) \/ SendEnter(a)
    PROVE  CallInv'
<1> USE ThreadsAssumption DEF TypeOK, FieldsOK, LabelsOK, CallInv, Goto, Enter, Return, AfterAbort,
           Threads, locals
<1>1. CASE SendOk(a)
  BY <1>1 DEF SendOk
<1>2. CASE SendFailed(a)
  BY <1>2 DEF SendFailed
<1>3. CASE SendUnlock(a)
  BY <1>3 DEF SendUnlock
<1>4. CASE SendLock(a)
  BY <1>4 DEF SendLock
<1>5. CASE SendRefused(a)
  BY <1>5 DEF SendRefused
<1>6. CASE StartClear
  BY <1>6 DEF StartClear
<1>7. CASE StopWait
  BY <1>7 DEF StopWait
<1>8. CASE StopState
  BY <1>8 DEF StopState
<1>9. CASE StopStateDestroy
  BY <1>9 DEF StopStateDestroy
<1>10. CASE DestroyFree
  BY <1>10 DEF DestroyFree
<1>11. CASE CloseBit
  BY <1>11 DEF CloseBit
<1>12. CASE CloseDone
  BY <1>12 DEF CloseDone
<1>13. CASE CloseTimeout
  BY <1>13 DEF CloseTimeout
<1>14. CASE Abort(a)
  BY <1>14, CtlAbort DEF Threads
<1> QED  BY <1>1, <1>2, <1>3, <1>4, <1>5, <1>6, <1>7, <1>8, <1>9, <1>10, <1>11, <1>12, <1>13, <1>14 DEF CallWork, SendEnter

\* A new call of the application: Ctl's call and its place agree.
LEMMA CtlCall ==
    ASSUME TypeOK, CallInv, NewCall
    PROVE  CallInv'
<1> USE ThreadsAssumption DEF TypeOK, FieldsOK, LabelsOK, CallInv, Goto, Enter, Return, AfterAbort,
           Threads, locals
<1>1. ASSUME NEW t \in Tasks, StartCreate(t)
      PROVE  CallInv'
  BY <1>1 DEF StartCreate, StartAllowed
<1>2. CASE StartFails
  BY <1>2 DEF StartFails, StartAllowed
<1>3. ASSUME NEW f \in {"stop", "destroy"}, StopCall(f)
      PROVE  CallInv'
  BY <1>3 DEF StopCall
<1>4. CASE CloseCall
  BY <1>4 DEF CloseCall
<1>5. CASE DestroyCall
  BY <1>5 DEF DestroyCall
<1>6. CASE DestroyOnExit
  BY <1>6 DEF DestroyOnExit
<1>7. ASSUME NEW a \in Apps, SendCall(a)
      PROVE  CallInv'
  BY <1>7 DEF SendCall
<1> QED  BY <1>1, <1>2, <1>3, <1>4, <1>5, <1>6, <1>7 DEF NewCall

\* Any step: Ctl's call and its place agree.
LEMMA CtlStep ==
    ASSUME TypeOK, CallInv, [Next]_vars
    PROVE  CallInv'
<1>1. CASE Next
  BY <1>1, CtlTask, CtlApp, CtlCall DEF Next
<1>2. CASE UNCHANGED vars
  BY <1>2 DEF vars, TypeOK, FieldsOK, LabelsOK, CallInv, Goto, Enter, Return, AfterAbort, Threads,
           locals
<1> QED  BY <1>1, <1>2
-----------------------------------------------------------------------------
(* destroy() has waited for the task, or has not seen it run; a task frees   *)
(* the client behind its own loop.                                           *)

\* A step of esp_websocket_client_abort_connection(): the client is freed behind its task.
LEMMA FreeAbort ==
    ASSUME TypeOK, CallInv, FreeInv, "early" \notin past => LifeInv, NEW th \in Threads, Abort(th)
    PROVE  FreeInv'
<1> USE ThreadsAssumption DEF TypeOK, FieldsOK, LabelsOK, LifeInv, NoneLive, Live, CallInv, FreeInv,
           StartedTwice, Goto, Enter, Return, AfterAbort, Threads, flags, locals
<1>1. CASE AbortRefused(th)
  BY <1>1 DEF AbortRefused
<1>2. CASE AbortClose(th)
  BY <1>2 DEF AbortClose
<1>3. CASE AbortState(th)
  BY <1>3 DEF AbortState
<1>4. CASE AbortEvent(th)
  BY <1>4 DEF AbortEvent
<1> QED  BY <1>1, <1>2, <1>3, <1>4 DEF Abort

\* A step of the client task: the client is freed behind its task.
LEMMA FreeTask ==
    ASSUME TypeOK, CallInv, FreeInv, "early" \notin past => LifeInv, NEW t \in Tasks, TaskStep(t)
    PROVE  FreeInv'
<1> USE ThreadsAssumption DEF TypeOK, FieldsOK, LabelsOK, LifeInv, NoneLive, Live, CallInv, FreeInv,
           StartedTwice, Goto, Enter, Return, AfterAbort, Threads, flags, locals
<1>1. CASE TaskEnter(t)
  BY <1>1 DEF TaskEnter
<1>2. CASE TaskNoTransport(t)
  BY <1>2 DEF TaskNoTransport
<1>3. CASE TaskInit(t)
  BY <1>3 DEF TaskInit
<1>4. CASE TaskClear(t)
  BY <1>4 DEF TaskClear
<1>5. CASE TaskLoop(t)
  BY <1>5 DEF TaskLoop
<1>6. CASE TaskLock(t)
  BY <1>6 DEF TaskLock
<1>7. CASE TaskUnlock(t)
  BY <1>7 DEF TaskUnlock
<1>8. CASE BeforeConnect(t)
  BY <1>8 DEF BeforeConnect
<1>9. CASE Connected(t)
  BY <1>9 DEF Connected
<1>10. CASE ConnectFailed(t)
  BY <1>10 DEF ConnectFailed
<1>11. CASE ServeQuiet(t)
  BY <1>11 DEF ServeQuiet
<1>12. CASE ServePing(t)
  BY <1>12 DEF ServePing
<1>13. CASE ServePongTimeout(t)
  BY <1>13 DEF ServePongTimeout
<1>14. CASE GiveUp(t)
  BY <1>14 DEF GiveUp
<1>15. CASE Reconnect(t)
  BY <1>15 DEF Reconnect
<1>16. CASE KeepWaiting(t)
  BY <1>16 DEF KeepWaiting
<1>17. CASE EchoClose(t)
  BY <1>17 DEF EchoClose
<1>18. CASE NothingToDo(t)
  BY <1>18 DEF NothingToDo
<1>19. CASE RecvFailed(t)
  BY <1>19 DEF RecvFailed
<1>20. CASE RecvTimeout(t)
  BY <1>20 DEF RecvTimeout
<1>21. CASE RecvPart(t)
  BY <1>21 DEF RecvPart
<1>22. CASE RecvFrame(t)
  BY <1>22 DEF RecvFrame
<1>23. CASE RecvPong(t)
  BY <1>23 DEF RecvPong
<1>24. CASE RecvClose(t)
  BY <1>24 DEF RecvClose
<1>25. CASE TaskPost(t)
  BY <1>25 DEF TaskPost
<1>26. CASE TaskPoll(t)
  BY <1>26 DEF TaskPoll
<1>27. CASE TaskPollFailed(t)
  BY <1>27 DEF TaskPollFailed
<1>28. CASE TaskDelay(t)
  BY <1>28 DEF TaskDelay
<1>29. CASE TaskPollClosed(t)
  BY <1>29 DEF TaskPollClosed
<1>30. CASE TaskClosedState(t)
  BY <1>30 DEF TaskClosedState
<1>31. CASE TaskClosedEvent(t)
  BY <1>31 DEF TaskClosedEvent
<1>32. CASE TaskStillWaiting(t)
  BY <1>32 DEF TaskStillWaiting
<1>33. CASE TaskExit(t)
  BY <1>33 DEF TaskExit
<1>34. CASE TaskStopped(t)
  BY <1>34 DEF TaskStopped
<1>35. CASE TaskExitState(t)
  BY <1>35 DEF TaskExitState
<1>36. CASE TaskExitFree(t)
  BY <1>36 DEF TaskExitFree
<1>37. CASE Abort(t)
  BY <1>37, FreeAbort DEF Threads
<1> QED  BY <1>1, <1>2, <1>3, <1>4, <1>5, <1>6, <1>7, <1>8, <1>9, <1>10, <1>11, <1>12, <1>13, <1>14,
           <1>15, <1>16, <1>17, <1>18, <1>19, <1>20, <1>21, <1>22, <1>23, <1>24, <1>25, <1>26,
           <1>27, <1>28, <1>29, <1>30, <1>31, <1>32, <1>33, <1>34, <1>35, <1>36, <1>37 DEF TaskStep, TaskWork

\* A step of a call in progress: the client is freed behind its task.
LEMMA FreeApp ==
    ASSUME TypeOK, CallInv, FreeInv, "early" \notin past => LifeInv, NEW a \in Apps, CallWork(a) \/ SendEnter(a)
    PROVE  FreeInv'
<1> USE ThreadsAssumption DEF TypeOK, FieldsOK, LabelsOK, LifeInv, NoneLive, Live, CallInv, FreeInv,
           StartedTwice, Goto, Enter, Return, AfterAbort, Threads, flags, locals
<1>1. CASE SendOk(a)
  BY <1>1 DEF SendOk
<1>2. CASE SendFailed(a)
  BY <1>2 DEF SendFailed
<1>3. CASE SendUnlock(a)
  BY <1>3 DEF SendUnlock
<1>4. CASE SendLock(a)
  BY <1>4 DEF SendLock
<1>5. CASE SendRefused(a)
  BY <1>5 DEF SendRefused
<1>6. CASE StartClear
  BY <1>6 DEF StartClear
<1>7. CASE StopWait
  BY <1>7 DEF StopWait
<1>8. CASE StopState
  BY <1>8 DEF StopState
<1>9. CASE StopStateDestroy
  BY <1>9 DEF StopStateDestroy
<1>10. CASE DestroyFree
  BY <1>10 DEF DestroyFree
<1>11. CASE CloseBit
  BY <1>11 DEF CloseBit
<1>12. CASE CloseDone
  BY <1>12 DEF CloseDone
<1>13. CASE CloseTimeout
  BY <1>13 DEF CloseTimeout
<1>14. CASE Abort(a)
  BY <1>14, FreeAbort DEF Threads
<1> QED  BY <1>1, <1>2, <1>3, <1>4, <1>5, <1>6, <1>7, <1>8, <1>9, <1>10, <1>11, <1>12, <1>13, <1>14 DEF CallWork, SendEnter

\* A new call of the application: the client is freed behind its task.
LEMMA FreeCall ==
    ASSUME TypeOK, CallInv, FreeInv, "early" \notin past => LifeInv, NewCall
    PROVE  FreeInv'
<1> USE ThreadsAssumption DEF TypeOK, FieldsOK, LabelsOK, LifeInv, NoneLive, Live, CallInv, FreeInv,
           StartedTwice, Goto, Enter, Return, AfterAbort, Threads, flags, locals
<1>1. ASSUME NEW t \in Tasks, StartCreate(t)
      PROVE  FreeInv'
  BY <1>1 DEF StartCreate, StartAllowed, TooEarly
<1>2. CASE StartFails
  BY <1>2 DEF StartFails, StartAllowed
<1>3. ASSUME NEW f \in {"stop", "destroy"}, StopCall(f)
      PROVE  FreeInv'
  BY <1>3 DEF StopCall
<1>4. CASE CloseCall
  BY <1>4 DEF CloseCall
<1>5. CASE DestroyCall
  BY <1>5 DEF DestroyCall
<1>6. CASE DestroyOnExit
  BY <1>6 DEF DestroyOnExit
<1>7. ASSUME NEW a \in Apps, SendCall(a)
      PROVE  FreeInv'
  BY <1>7 DEF SendCall
<1> QED  BY <1>1, <1>2, <1>3, <1>4, <1>5, <1>6, <1>7 DEF NewCall

\* Any step: the client is freed behind its task.
LEMMA FreeStep ==
    ASSUME TypeOK, CallInv, FreeInv, "early" \notin past => LifeInv, [Next]_vars
    PROVE  FreeInv'
<1>1. CASE Next
  BY <1>1, FreeTask, FreeApp, FreeCall DEF Next
<1>2. CASE UNCHANGED vars
  BY <1>2 DEF vars, TypeOK, FieldsOK, LabelsOK, LifeInv, NoneLive, Live, CallInv, FreeInv,
           StartedTwice, Goto, Enter, Return, AfterAbort, Threads, flags, locals
<1> QED  BY <1>1, <1>2
-----------------------------------------------------------------------------
(* CLOSE frames: the connection's own, its echo, and none behind these.      *)

\* A step of esp_websocket_client_abort_connection(): no CLOSE frame is one too many.
LEMMA FrameAbort ==
    ASSUME TypeOK, LockInv, OpenInv, LifeInv, CallInv, FrameInv, "early" \notin past', NEW th \in Threads, Abort(th)
    PROVE  FrameInv'
<1> USE ThreadsAssumption DEF TypeOK, FieldsOK, LabelsOK, LockInv, Locked, TaskLocked, AppLocked,
           LifeInv, NoneLive, Live, OpenInv, CallInv, FrameInv, OwnCloseSent, Goto, Dispatch,
           ReportError, Enter, Return, AfterAbort, Threads, flags, link, locals
<1>1. CASE AbortRefused(th)
  BY <1>1 DEF AbortRefused
<1>2. CASE AbortClose(th)
  BY <1>2 DEF AbortClose
<1>3. CASE AbortState(th)
  BY <1>3 DEF AbortState
<1>4. CASE AbortEvent(th)
  BY <1>4 DEF AbortEvent
<1> QED  BY <1>1, <1>2, <1>3, <1>4 DEF Abort

\* A step of the client task: no CLOSE frame is one too many.
LEMMA FrameTask ==
    ASSUME TypeOK, LockInv, OpenInv, LifeInv, CallInv, FrameInv, "early" \notin past', NEW t \in Tasks, TaskStep(t)
    PROVE  FrameInv'
<1> USE ThreadsAssumption DEF TypeOK, FieldsOK, LabelsOK, LockInv, Locked, TaskLocked, AppLocked,
           LifeInv, NoneLive, Live, OpenInv, CallInv, FrameInv, OwnCloseSent, Goto, Dispatch,
           ReportError, Enter, Return, AfterAbort, Threads, flags, link, locals
<1>1. CASE TaskEnter(t)
  BY <1>1 DEF TaskEnter
<1>2. CASE TaskNoTransport(t)
  BY <1>2 DEF TaskNoTransport
<1>3. CASE TaskInit(t)
  BY <1>3 DEF TaskInit
<1>4. CASE TaskClear(t)
  BY <1>4 DEF TaskClear
<1>5. CASE TaskLoop(t)
  BY <1>5 DEF TaskLoop
<1>6. CASE TaskLock(t)
  BY <1>6 DEF TaskLock
<1>7. CASE TaskUnlock(t)
  BY <1>7 DEF TaskUnlock
<1>8. CASE BeforeConnect(t)
  BY <1>8 DEF BeforeConnect
<1>9. CASE Connected(t)
  BY <1>9 DEF Connected
<1>10. CASE ConnectFailed(t)
  BY <1>10 DEF ConnectFailed
<1>11. CASE ServeQuiet(t)
  BY <1>11 DEF ServeQuiet
<1>12. CASE ServePing(t)
  BY <1>12 DEF ServePing
<1>13. CASE ServePongTimeout(t)
  BY <1>13 DEF ServePongTimeout
<1>14. CASE GiveUp(t)
  BY <1>14 DEF GiveUp
<1>15. CASE Reconnect(t)
  BY <1>15 DEF Reconnect
<1>16. CASE KeepWaiting(t)
  BY <1>16 DEF KeepWaiting
<1>17. CASE EchoClose(t)
  BY <1>17 DEF EchoClose, More
<1>18. CASE NothingToDo(t)
  BY <1>18 DEF NothingToDo
<1>19. CASE RecvFailed(t)
  BY <1>19 DEF RecvFailed
<1>20. CASE RecvTimeout(t)
  BY <1>20 DEF RecvTimeout
<1>21. CASE RecvPart(t)
  BY <1>21 DEF RecvPart
<1>22. CASE RecvFrame(t)
  BY <1>22 DEF RecvFrame
<1>23. CASE RecvPong(t)
  BY <1>23 DEF RecvPong
<1>24. CASE RecvClose(t)
  BY <1>24 DEF RecvClose
<1>25. CASE TaskPost(t)
  BY <1>25 DEF TaskPost
<1>26. CASE TaskPoll(t)
  BY <1>26 DEF TaskPoll
<1>27. CASE TaskPollFailed(t)
  BY <1>27 DEF TaskPollFailed
<1>28. CASE TaskDelay(t)
  BY <1>28 DEF TaskDelay
<1>29. CASE TaskPollClosed(t)
  BY <1>29 DEF TaskPollClosed
<1>30. CASE TaskClosedState(t)
  BY <1>30 DEF TaskClosedState
<1>31. CASE TaskClosedEvent(t)
  BY <1>31 DEF TaskClosedEvent
<1>32. CASE TaskStillWaiting(t)
  BY <1>32 DEF TaskStillWaiting
<1>33. CASE TaskExit(t)
  BY <1>33 DEF TaskExit
<1>34. CASE TaskStopped(t)
  BY <1>34 DEF TaskStopped
<1>35. CASE TaskExitState(t)
  BY <1>35 DEF TaskExitState
<1>36. CASE TaskExitFree(t)
  BY <1>36 DEF TaskExitFree
<1>37. CASE Abort(t)
  BY <1>37, FrameAbort DEF Threads
<1> QED  BY <1>1, <1>2, <1>3, <1>4, <1>5, <1>6, <1>7, <1>8, <1>9, <1>10, <1>11, <1>12, <1>13, <1>14,
           <1>15, <1>16, <1>17, <1>18, <1>19, <1>20, <1>21, <1>22, <1>23, <1>24, <1>25, <1>26,
           <1>27, <1>28, <1>29, <1>30, <1>31, <1>32, <1>33, <1>34, <1>35, <1>36, <1>37 DEF TaskStep, TaskWork

\* A step of a call in progress: no CLOSE frame is one too many.
LEMMA FrameApp ==
    ASSUME TypeOK, LockInv, OpenInv, LifeInv, CallInv, FrameInv, "early" \notin past', NEW a \in Apps, CallWork(a) \/ SendEnter(a)
    PROVE  FrameInv'
<1> USE ThreadsAssumption DEF TypeOK, FieldsOK, LabelsOK, LockInv, Locked, TaskLocked, AppLocked,
           LifeInv, NoneLive, Live, OpenInv, CallInv, FrameInv, OwnCloseSent, Goto, Dispatch,
           ReportError, Enter, Return, AfterAbort, Threads, flags, link, locals
<1>1. CASE SendOk(a)
  BY <1>1 DEF SendOk, More
<1>2. CASE SendFailed(a)
  BY <1>2 DEF SendFailed
<1>3. CASE SendUnlock(a)
  BY <1>3 DEF SendUnlock
<1>4. CASE SendLock(a)
  BY <1>4 DEF SendLock
<1>5. CASE SendRefused(a)
  BY <1>5 DEF SendRefused
<1>6. CASE StartClear
  BY <1>6 DEF StartClear, Beginning
<1>7. CASE StopWait
  BY <1>7 DEF StopWait
<1>8. CASE StopState
  BY <1>8 DEF StopState
<1>9. CASE StopStateDestroy
  BY <1>9 DEF StopStateDestroy
<1>10. CASE DestroyFree
  BY <1>10 DEF DestroyFree
<1>11. CASE CloseBit
  BY <1>11 DEF CloseBit
<1>12. CASE CloseDone
  BY <1>12 DEF CloseDone
<1>13. CASE CloseTimeout
  BY <1>13 DEF CloseTimeout
<1>14. CASE Abort(a)
  BY <1>14, FrameAbort DEF Threads
<1> QED  BY <1>1, <1>2, <1>3, <1>4, <1>5, <1>6, <1>7, <1>8, <1>9, <1>10, <1>11, <1>12, <1>13, <1>14 DEF CallWork, SendEnter

\* A new call of the application: no CLOSE frame is one too many.
LEMMA FrameCall ==
    ASSUME TypeOK, LockInv, OpenInv, LifeInv, CallInv, FrameInv, "early" \notin past', NewCall
    PROVE  FrameInv'
<1> USE ThreadsAssumption DEF TypeOK, FieldsOK, LabelsOK, LockInv, Locked, TaskLocked, AppLocked,
           LifeInv, NoneLive, Live, OpenInv, CallInv, FrameInv, OwnCloseSent, Goto, Dispatch,
           ReportError, Enter, Return, AfterAbort, Threads, flags, link, locals
<1>1. ASSUME NEW t \in Tasks, StartCreate(t)
      PROVE  FrameInv'
  BY <1>1 DEF StartCreate, StartAllowed, TooEarly
<1>2. CASE StartFails
  BY <1>2 DEF StartFails, StartAllowed
<1>3. ASSUME NEW f \in {"stop", "destroy"}, StopCall(f)
      PROVE  FrameInv'
  BY <1>3 DEF StopCall
<1>4. CASE CloseCall
  BY <1>4 DEF CloseCall
<1>5. CASE DestroyCall
  BY <1>5 DEF DestroyCall
<1>6. CASE DestroyOnExit
  BY <1>6 DEF DestroyOnExit
<1>7. ASSUME NEW a \in Apps, SendCall(a)
      PROVE  FrameInv'
  BY <1>7 DEF SendCall
<1> QED  BY <1>1, <1>2, <1>3, <1>4, <1>5, <1>6, <1>7 DEF NewCall

\* Any step: no CLOSE frame is one too many.
LEMMA FrameStep ==
    ASSUME TypeOK, LockInv, OpenInv, LifeInv, CallInv, FrameInv, "early" \notin past', [Next]_vars
    PROVE  FrameInv'
<1>1. CASE Next
  BY <1>1, FrameTask, FrameApp, FrameCall DEF Next
<1>2. CASE UNCHANGED vars
  BY <1>2 DEF vars, TypeOK, FieldsOK, LabelsOK, LockInv, Locked, TaskLocked, AppLocked, LifeInv,
           NoneLive, Live, OpenInv, CallInv, FrameInv, OwnCloseSent, Goto, Dispatch, ReportError,
           Enter, Return, AfterAbort, Threads, flags, link, locals
<1> QED  BY <1>1, <1>2
-----------------------------------------------------------------------------
(* The theorems.                                                            *)

\* A client fresh from esp_websocket_client_init() satisfies the invariant.
LEMMA InvInit == Init => Inv
<1> SUFFICES ASSUME Init
             PROVE  Inv
  OBVIOUS
<1> USE ThreadsAssumption DEF Init, Threads
<1>1. FieldsOK
  <2>1. op \in [Apps -> Ops]  BY DEF Ops
  <2>2. read_select \in [Tasks -> {-1, 0, 1}] /\ pollConn \in [Tasks -> Nat]
    OBVIOUS
  <2>3. /\ {run, selected_for_destroying, wait_for_pong_resp, freed, open, started} \subseteq BOOLEAN
        /\ status_bits \subseteq Bits /\ past \subseteq Past
        /\ lock \in Threads \cup {NoThread}
    OBVIOUS
  <2>4. conn \in Nat /\ heard \in Nat /\ ownCloses \in 0..2 /\ echoes \in 0..2
    OBVIOUS
  <2>5. state \in States /\ ev \in Events
    BY DEF States, Events
  <2> HIDE DEF Init
  <2> QED  BY <2>1, <2>2, <2>3, <2>4, <2>5 DEF FieldsOK
<1>2. /\ \A t \in Tasks : pc[t] = "unborn"
      /\ \A a \in Apps : pc[a] = "idle"
  OBVIOUS
<1>3. LabelsOK  BY <1>2 DEF LabelsOK, TaskLabels, AppLabels
<1>4. LockInv   BY <1>2 DEF LockInv, Locked, TaskLocked, AppLocked
<1>5. OpenInv   BY DEF OpenInv
<1>6. LifeInv   BY <1>2 DEF LifeInv, NoneLive, Live
<1>7. FreshInv  BY <1>2 DEF FreshInv, Polled, Aborting
<1>8. EventInv  BY <1>2 DEF EventInv, NoSender, Aborting, Phase
<1>9. CallInv   BY <1>2 DEF CallInv
<1>10. FreeInv   BY <1>2 DEF FreeInv
<1>11. FrameInv  BY <1>2 DEF FrameInv
<1> QED  BY <1>1, <1>3, <1>4, <1>5, <1>6, <1>7, <1>8, <1>9, <1>10, <1>11 DEF Inv, TypeOK

\* A session that was started too early remains so.
LEMMA EarlyStays ==
    ASSUME [Next]_vars, "early" \in past
    PROVE  "early" \in past'
<1>1. CASE UNCHANGED vars
  BY <1>1 DEF vars
<1>2. CASE UNCHANGED past
  BY <1>2
<1>3. CASE \E t \in Tasks : StartCreate(t)
  BY <1>3 DEF StartCreate
<1>4. CASE StartClear
  BY <1>4 DEF StartClear
<1>5. CASE DestroyCall
  BY <1>5 DEF DestroyCall
<1>6. ASSUME NEW th \in Threads, Abort(th)
      PROVE  UNCHANGED past
  BY <1>6 DEF Abort, AbortRefused, AbortClose, AbortState, AbortEvent
<1>7. ASSUME NEW t \in Tasks, TaskStep(t)
      PROVE  UNCHANGED past
  <2>1. CASE Abort(t)
    BY <1>6, <2>1 DEF Threads
  <2>2. CASE TaskStep(t) /\ ~Abort(t)
    BY <2>2 DEF TaskStep, TaskWork, TaskEnter, TaskNoTransport, TaskInit, TaskClear, TaskLoop,
         TaskLock, TaskUnlock, BeforeConnect, Connected, ConnectFailed, ServeQuiet, ServePing,
         ServePongTimeout, GiveUp, Reconnect, KeepWaiting, EchoClose, NothingToDo, RecvFailed,
         RecvTimeout, RecvPart, RecvFrame, RecvPong, RecvClose, TaskPost, TaskPoll,
         TaskPollFailed, TaskDelay, TaskPollClosed, TaskClosedState, TaskClosedEvent,
         TaskStillWaiting, TaskExit, TaskStopped, TaskExitState, TaskExitFree
  <2> QED  BY <1>7, <2>1, <2>2
<1>8. ASSUME NEW a \in Apps, CallWork(a) \/ SendEnter(a), ~StartClear
      PROVE  UNCHANGED past
  BY <1>6, <1>8 DEF Threads, CallWork, SendEnter, SendOk, SendFailed, SendUnlock, SendLock,
     SendRefused, StopWait, StopState, StopStateDestroy, DestroyFree, CloseBit, CloseDone, CloseTimeout
<1>9. ASSUME NewCall, ~DestroyCall, ~\E t \in Tasks : StartCreate(t)
      PROVE  UNCHANGED past
  BY <1>9 DEF NewCall, StartFails, StopCall, CloseCall, DestroyOnExit, SendCall
<1> QED  BY <1>1, <1>2, <1>3, <1>4, <1>5, <1>7, <1>8, <1>9 DEF Next

\* Every step keeps the invariant.
LEMMA InvStep == Inv /\ [Next]_vars => Inv'
<1> SUFFICES ASSUME Inv, [Next]_vars
             PROVE  Inv'
  OBVIOUS
<1>1. TypeOK'    BY FieldsStep, LabelsStep DEF Inv, TypeOK
<1>2. LockInv'   BY LockStep DEF Inv
<1>3. OpenInv'   BY OpenStep DEF Inv
<1>4. CallInv'   BY CtlStep DEF Inv
<1>5. FreeInv'   BY FreeStep DEF Inv
<1>6. ASSUME "early" \notin past'
      PROVE  LifeInv' /\ FreshInv' /\ EventInv' /\ FrameInv'
  <2>1. "early" \notin past  BY <1>6, EarlyStays
  <2>2. LifeInv /\ FreshInv /\ EventInv /\ FrameInv  BY <2>1 DEF Inv
  <2>3. LifeInv'   BY <1>6, <2>2, LifeStep DEF Inv
  <2>4. FreshInv'  BY <1>6, <2>2, FreshStep DEF Inv
  <2>5. EventInv'  BY <1>6, <2>2, EventStep DEF Inv
  <2>6. FrameInv'  BY <1>6, <2>2, FrameStep DEF Inv
  <2> QED  BY <2>3, <2>4, <2>5, <2>6
<1> QED  BY <1>1, <1>2, <1>3, <1>4, <1>5, <1>6 DEF Inv

\* The inductive invariant holds in every behaviour of the client.
THEOREM InvHolds == Spec => []Inv
BY InvInit, InvStep, PTL DEF Spec

\* Every field of the client keeps a value of its type and every thread is at
\* one of its labels, whatever calls are made.
THEOREM TypeHolds == Spec => []TypeOK
<1>1. Inv => TypeOK  BY DEF Inv
<1> QED  BY <1>1, InvHolds, PTL

\* The task's turn and the senders' use of the connection exclude each other:
\* client->lock is held by each of them from its check to its last use.
THEOREM LockHolds == Spec => []MutualExclusion
<1>1. Inv => MutualExclusion  BY DEF Inv, LockInv, MutualExclusion
<1> QED  BY <1>1, InvHolds, PTL

\* Two client tasks never run at the same time, however often the client is
\* stopped, closed and started again, so long as it is not started while the
\* task of a session that was not stopped is in its loop: STOPPED_BIT is never a
\* leftover.
THEOREM OneTaskHolds == Spec => []OneTask
<1>1. Inv => OneTask  BY DEF Inv, LifeInv, OneTask
<1> QED  BY <1>1, InvHolds, PTL

\* A client without a live task has no open connection, so that stop() and
\* close() leave none behind.
THEOREM StoppedHolds == Spec => []StoppedIsClosed
<1>1. Inv => StoppedIsClosed  BY DEF Inv, OpenInv, StoppedIsClosed
<1> QED  BY <1>1, InvHolds, PTL

\* recv() reads from the connection that was polled, although the poll runs
\* without the lock and senders may abort the connection in between.
THEOREM FreshHolds == Spec => []ReadFresh
<1>1. Inv => ReadFresh  BY DEF Inv, FreshInv, ReadFresh
<1> QED  BY <1>1, InvHolds, PTL

\* On one connection close() sends one CLOSE frame at most and the task one echo,
\* unless start() cleared the bit of an echo that was out already.
THEOREM CloseHolds == Spec => []OneCloseEach
<1>1. Inv => OneCloseEach  BY DEF Inv, FrameInv, OneCloseEach
<1> QED  BY <1>1, InvHolds, PTL

\* A client with one session is not freed under its running task, whatever calls
\* are being made when destroy() or destroy_on_exit() is called, but by a destroy()
\* that found run clear before the task's end.
THEOREM FreedHolds == Spec => []FreedAfterLoop
<1>1. Inv => FreedAfterLoop  BY DEF Inv, FreeInv, FreedAfterLoop, StartedTwice, NoneLive
<1> QED  BY <1>1, InvHolds, PTL

\* The events of the client are those of a session: every behaviour of the
\* task and the application threads implements WsSession.
THEOREM SessionImplemented == Spec => ImplementsSession
<1>1. Init => Session!Init
  BY ThreadsAssumption DEF Init, Session!Init, Phase, Begun, Threads
<1>2. Inv /\ [Next]_vars => [Session!Next]_(Session!vars)
  BY SessionStep
<1> QED  BY <1>1, <1>2, InvHolds, PTL DEF Spec, ImplementsSession, Session!Spec
=============================================================================
