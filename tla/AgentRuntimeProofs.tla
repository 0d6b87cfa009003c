------------------------- MODULE AgentRuntimeProofs -------------------------
(***************************************************************************)
(* Theorems about AgentRuntime, for any sets of requests, activities and   *)
(* bodies and any bounds.                                                  *)
(***************************************************************************)
EXTENDS AgentRuntimeProps, RequestStoreProofs

(***************************************************************************)
(* The inductive invariant: the types, and what the slot stands for.       *)
(***************************************************************************)
IInv == TypeOK /\ SlotInv

\* The row of the slot, and the activity, are rows of the tables.
LEMMA SlotTypes ==
    ASSUME IInv
    PROVE  /\ current # NULL => current \in RequestId
           /\ TaskBusy \/ task = "turn" => taskAct \in ActivityId
BY DEF IInv, TypeOK, ProcessTypeOK, SlotInv, TaskBusy

\* No step takes a column of the store out of its type.
LEMMA StoreTypeStep ==
    ASSUME IInv, Next
    PROVE  StoreTypeOK'
<1> USE SlotTypes
<1>st. StoreTypeOK
  BY DEF IInv, TypeOK
<1> SUFFICES ASSUME ~ UNCHANGED storeVars
             PROVE  StoreTypeOK'
  BY <1>st, StoreUnchangedType
<1>1. CASE BootStep
  <2>1. ASSUME NEW r \in RequestId, RecoverInFlight(r)
        PROVE  StoreTypeOK'
    BY <1>st, <2>1, RequeueRequestType DEF RecoverInFlight, StoreTypeOK
  <2>2. ASSUME NEW r \in RequestId, RecoverCancelled(r)
        PROVE  StoreTypeOK'
    BY <1>st, <2>2, FinalizeCancelledType DEF RecoverCancelled
  <2>3. ASSUME NEW a \in ActivityId, RecoverActivity(a)
        PROVE  StoreTypeOK'
    BY <1>st, <2>3, UpdateActivityType DEF RecoverActivity, ActivityStatus
  <2>4. CASE Start
    BY <2>4 DEF Start
  <2>5. CASE BootDone
    BY <2>5 DEF BootDone
  <2> QED
    BY <1>1, <2>1, <2>2, <2>3, <2>4, <2>5 DEF BootStep
<1>2. CASE ApiStep
  <2>1. ASSUME NEW r \in RequestId, CancelRequest(r)
        PROVE  StoreTypeOK'
    BY <1>st, <2>1, StoreCancelType DEF CancelRequest
  <2>2. ASSUME NEW r \in RequestId, NEW p \in Payload, CreateRequest(r, p)
        PROVE  StoreTypeOK'
    BY <1>st, <2>2, InsertRequestType DEF CreateRequest
  <2>3. ASSUME NEW p \in Payload, CreateRepeat(p)
        PROVE  StoreTypeOK'
    BY <2>3 DEF CreateRepeat
  <2> QED
    BY <1>2, <2>1, <2>2, <2>3 DEF ApiStep
<1>3. CASE LoopStep
  <2>1. ASSUME NEW r \in RequestId, LoopLease(r)
        PROVE  StoreTypeOK'
    BY <1>st, <2>1, LeaseRequestType DEF LoopLease
  <2>2. CASE LoopReclaim
    BY <1>st, <2>2, ReclaimExpiredLeasesType DEF LoopReclaim
  <2>3. CASE LoopStart \/ LoopExit \/ LoopWake \/ LoopBackoffEnds
    BY <2>3 DEF LoopStart, LoopExit, LoopWake, LoopBackoffEnds, LoopMoves
  <2>4. CASE LoopSpawnTask \/ LoopFreeTime \/ LoopIdle \/ LoopResume
    BY <2>4 DEF LoopSpawnTask, LoopFreeTime, LoopIdle, LoopResume, TaskCollected
  <2> QED
    BY <1>3, <2>1, <2>2, <2>3, <2>4 DEF LoopStep
<1>4. CASE TaskStep
  <2>1. ASSUME NEW a \in ActivityId, TaskCreateActivity(a)
        PROVE  StoreTypeOK'
    BY <1>st, <2>1, InsertActivityType DEF TaskCreateActivity
  <2>2. ASSUME NEW a \in ActivityId, QuantumCreateActivity(a)
        PROVE  StoreTypeOK'
    BY <1>st, <2>2, InsertActivityType DEF QuantumCreateActivity
  <2>3. CASE TaskBind
    BY <1>st, <2>3, BindActivityRequestType DEF TaskBind, TaskBusy, IInv, SlotInv
  <2>4. CASE TaskMarkRunning
    BY <1>st, <2>4, MarkRequestRunningType DEF TaskMarkRunning, TaskBusy, IInv, SlotInv
  <2>5. CASE TaskActivate
    BY <1>st, <2>5, UpdateActivityType DEF TaskActivate, TaskBusy, ActivityStatus
  <2>6. CASE TaskSettle
    BY <1>st, <2>6, FinalizeCancelledType, CompleteRequestType, RequeueRequestType,
       FailRequestType DEF TaskSettle, SettleCancelled, SettleAnswered, TaskBusy
  <2>7. CASE TaskWrapUp
    BY <1>st, <2>7, UpdateActivityType DEF TaskWrapUp, WrapStatus, TaskBusy, ActivityStatus
  <2>8. CASE QuantumSettle
    BY <1>st, <2>8, UpdateActivityType DEF QuantumSettle, TaskBusy, ActivityStatus
  <2>9. CASE TaskKilledAtBirth \/ TaskReuseActivity
    BY <2>9 DEF TaskKilledAtBirth, TaskReuseActivity
  <2> QED
    BY <1>4, <2>1, <2>2, <2>3, <2>4, <2>5, <2>6, <2>7, <2>8, <2>9 DEF TaskStep
<1>5. CASE TurnStep
  <2>1. ASSUME NEW code \in TurnCode, NEW s \in Session \cup {NULL}, TurnAnswers(code, s)
        PROVE  StoreTypeOK'
    BY <1>st, <2>1, UpdateActivityType DEF TurnAnswers
  <2>2. CASE TurnCancelled
    BY <1>st, <2>2, FinalizeCancelledType, RequeueRequestType
       DEF TurnCancelled, SettleCancelled
  <2>3. CASE QuantumCancelled
    BY <1>st, <2>3, UpdateActivityType DEF QuantumCancelled, ActivityStatus
  <2> QED
    BY <1>5, <2>1, <2>2, <2>3 DEF TurnStep
<1>6. CASE Tick
  BY <1>st, <1>6 DEF Tick, StoreTypeOK, requestVars, activityVars
<1>7. CASE Outage \/ LoopRaises \/ TaskRaises
  BY <1>7 DEF Outage, ShutdownBegin, ShutdownEnd, Crash, LoopRaises, LoopBodyRaises,
     LoopResumeRaises, TaskCollected, TaskRaises, Fault
<1> QED
  BY <1>1, <1>2, <1>3, <1>4, <1>5, <1>6, <1>7 DEF Next

\* The runtime files hold a status and a request.
LEMMA RuntimeFileType ==
    ASSUME NEW st \in AgentStatus, NEW r \in RequestId \cup {NULL}, WriteRuntimeState(st, r)
    PROVE  runtimeFile' \in [status : AgentStatus, request : RequestId \cup {NULL}]
BY DEF WriteRuntimeState

\* Nor a variable of the process.
LEMMA ProcessTypeStep ==
    ASSUME IInv, Next
    PROVE  ProcessTypeOK'
<1> USE SlotTypes DEF ProcessTypeOK, procVars, slotVars, reportVars, bounds
<1>pt. ProcessTypeOK
  BY DEF IInv, TypeOK
<1>1. CASE BootStep
  BY <1>pt, <1>1 DEF BootStep, Start, BootRepair, RecoverInFlight, RecoverCancelled,
     RecoverActivity, BootDone, WriteRuntimeState, AgentStatus, LoopPc
<1>2. CASE ApiStep
  BY <1>pt, <1>2 DEF ApiStep, Handler, CancelRequest, CreateRequest, CreateRepeat, CancelTask
<1>3. CASE LoopStep
  <2>1. CASE LoopStart \/ LoopExit \/ LoopWake \/ LoopBackoffEnds
    BY <1>pt, <2>1 DEF LoopStart, LoopExit, LoopWake, LoopBackoffEnds, LoopMoves, LoopPc
  <2>2. CASE LoopReclaim
    BY <1>pt, <2>2 DEF LoopReclaim, LoopPc
  <2>3. ASSUME NEW r \in RequestId, LoopLease(r)
        PROVE  ProcessTypeOK'
    BY <1>pt, <2>3 DEF LoopLease, LoopPc
  <2>4. CASE LoopSpawnTask \/ LoopFreeTime
    BY <1>pt, <2>4 DEF LoopSpawnTask, LoopFreeTime, LoopPc, TaskPc, AgentStatus
  <2>5. CASE LoopIdle
    <3>1. runtimeFile' \in [status : AgentStatus, request : RequestId \cup {NULL}]
      BY <1>pt, <2>5, RuntimeFileType DEF LoopIdle, AgentStatus
    <3> QED
      BY <1>pt, <2>5, <3>1 DEF LoopIdle, LoopPc, AgentStatus
  <2>6. CASE LoopResume
    <3>1. runtimeFile' \in [status : AgentStatus, request : RequestId \cup {NULL}]
      BY <2>6, RuntimeFileType DEF LoopResume, TaskCollected, AgentStatus
    <3> QED
      BY <1>pt, <2>6, <3>1 DEF LoopResume, TaskCollected, LoopPc, TaskPc, AgentStatus,
         Verdict
  <2> QED
    BY <1>3, <2>1, <2>2, <2>3, <2>4, <2>5, <2>6 DEF LoopStep
<1>4. CASE TaskStep
  BY <1>pt, <1>4 DEF TaskStep, TaskGoes, TaskKilledAtBirth, TaskReuseActivity, TaskBind,
     TaskMarkRunning, TaskActivate, TaskSettle, SettleCancelled, SettleAnswered, TaskWrapUp,
     QuantumSettle, TaskCreateActivity, QuantumCreateActivity, TaskPc, Verdict, IInv, TypeOK,
     StoreTypeOK
<1>5. CASE TurnStep
  BY <1>pt, <1>5 DEF TurnStep, TaskGoes, TurnAnswers, TurnCancelled, SettleCancelled,
     QuantumCancelled, TaskPc, Verdict
<1>6. CASE Tick
  BY <1>pt, <1>6 DEF Tick
<1>7. CASE LoopRaises \/ TaskRaises
  <2>1. CASE LoopBodyRaises \/ TaskRaises
    BY <1>pt, <2>1 DEF LoopBodyRaises, TaskRaises, Fault, TaskGoes, LoopPc, TaskPc
  <2>2. CASE LoopResumeRaises
    <3>1. runtimeFile' = runtimeFile /\ stranded' = stranded
      BY <2>2 DEF LoopResumeRaises
    <3>2. faults' \in Nat
      BY <1>pt, <2>2 DEF LoopResumeRaises
    <3> QED
      BY <1>pt, <2>2, <3>1, <3>2 DEF LoopResumeRaises, TaskCollected, LoopPc, TaskPc,
         Verdict, AgentStatus
  <2> QED
    BY <1>7, <2>1, <2>2 DEF LoopRaises
<1>8. CASE ShutdownBegin
  BY <1>pt, <1>8 DEF ShutdownBegin, CancelTask
<1>9. CASE ShutdownEnd
  <2>1. runtimeFile' \in [status : AgentStatus, request : RequestId \cup {NULL}]
    BY <1>pt, <1>9, RuntimeFileType DEF ShutdownEnd, AgentStatus
  <2> QED
    BY <1>pt, <1>9, <2>1 DEF ShutdownEnd, ProcessGone, LoopPc, TaskPc, AgentStatus, Verdict
<1>10. CASE Crash
  <2>1. runtimeFile' = runtimeFile /\ stranded' = stranded
    BY <1>10 DEF Crash
  <2>2. outages' \in Nat /\ faults' \in Nat /\ retries' \in Nat /\ quanta' \in Nat
    BY <1>pt, <1>10 DEF Crash
  <2> QED
    BY <1>pt, <1>10, <2>1, <2>2 DEF Crash, ProcessGone, LoopPc, TaskPc, AgentStatus, Verdict
<1> QED
  BY <1>1, <1>2, <1>3, <1>4, <1>5, <1>6, <1>7, <1>8, <1>9, <1>10 DEF Next, Outage

\* The slot keeps its meaning: one step per coroutine segment, whoever moves.
LEMMA SlotStep ==
    ASSUME IInv, Next
    PROVE  SlotInv'
<1> USE SlotTypes DEF SlotInv, TaskBusy, RequestCancelled
<1>inv. StoreTypeOK /\ ProcessTypeOK /\ SlotInv
  BY DEF IInv, TypeOK
<1>1. CASE BootStep
  <2>1. loop = "off" => task = "none" /\ current = NULL
    BY <1>inv DEF ProcessTypeOK
  <2>2. CASE Start \/ BootDone
    BY <1>inv, <2>1, <2>2 DEF Start, BootDone, slotVars, storeVars, requestVars
  <2>3. CASE BootRepair
    BY <1>inv, <2>1, <2>3 DEF BootRepair, procVars, slotVars
  <2> QED
    BY <1>1, <2>2, <2>3 DEF BootStep, RecoverInFlight, RecoverCancelled, RecoverActivity
<1>2. CASE ApiStep
  <2>1. ASSUME NEW r \in RequestId, CancelRequest(r)
        PROVE  SlotInv'
    BY <1>inv, <2>1 DEF CancelRequest, Handler, Serving, LoopBusy, StoreCancel, RunsNow,
       CancelTask, procVars, StoreTypeOK, ProcessTypeOK, TaskPc
  <2>2. ASSUME NEW r \in RequestId, NEW p \in Payload, CreateRequest(r, p)
        PROVE  SlotInv'
    BY <1>inv, <2>2 DEF CreateRequest, Handler, Serving, InsertRequest, procVars, StoreTypeOK
  <2>3. ASSUME NEW p \in Payload, CreateRepeat(p)
        PROVE  SlotInv'
    BY <1>inv, <2>3 DEF CreateRepeat, Handler, procVars, storeVars, requestVars
  <2> QED
    BY <1>2, <2>1, <2>2, <2>3 DEF ApiStep
<1>3. CASE LoopStep
  <2> USE DEF procVars, slotVars, storeVars, requestVars
  <2>1. CASE LoopStart \/ LoopExit \/ LoopWake \/ LoopBackoffEnds
    BY <1>inv, <2>1 DEF LoopStart, LoopExit, LoopWake, LoopBackoffEnds, LoopMoves
  <2>2. CASE LoopReclaim
    BY <1>inv, <2>2 DEF LoopReclaim
  <2>3. ASSUME NEW r \in RequestId, LoopLease(r)
        PROVE  SlotInv'
    BY <1>inv, <2>3, NullAssumption DEF LoopLease, LeaseRequest, StoreTypeOK
  <2>4. CASE LoopSpawnTask \/ LoopFreeTime \/ LoopIdle \/ LoopResume
    BY <1>inv, <2>4 DEF LoopSpawnTask, LoopFreeTime, LoopIdle, LoopResume, TaskCollected
  <2> QED
    BY <1>3, <2>1, <2>2, <2>3, <2>4 DEF LoopStep
<1>4. CASE TaskStep
  <2> USE NullAssumption DEF TaskGoes, procVars, StoreTypeOK
  <2>1. CASE TaskKilledAtBirth \/ TaskReuseActivity
    BY <1>inv, <2>1 DEF TaskKilledAtBirth, TaskReuseActivity, storeVars, requestVars
  <2>2. ASSUME NEW a \in ActivityId, TaskCreateActivity(a) \/ QuantumCreateActivity(a)
        PROVE  SlotInv'
    BY <1>inv, <2>2 DEF TaskCreateActivity, QuantumCreateActivity, InsertActivity, requestVars
  <2>3. CASE TaskBind \/ TaskMarkRunning
    BY <1>inv, <2>3 DEF TaskBind, BindActivityRequest, TaskMarkRunning, MarkRequestRunning
  <2>4. CASE TaskActivate \/ TaskWrapUp \/ QuantumSettle
    BY <1>inv, <2>4 DEF TaskActivate, TaskWrapUp, QuantumSettle, UpdateActivity, requestVars
  <2>5. CASE TaskSettle
    BY <1>inv, <2>5 DEF TaskSettle
  <2> QED
    BY <1>4, <2>1, <2>2, <2>3, <2>4, <2>5 DEF TaskStep
<1>5. CASE TurnStep
  BY <1>inv, <1>5 DEF TurnStep, TaskGoes, TurnAnswers, TurnCancelled, QuantumCancelled,
     UpdateActivity, requestVars, procVars
<1>6. CASE Tick
  BY <1>inv, <1>6 DEF Tick, procVars, slotVars, requestVars
<1>7. CASE LoopRaises \/ TaskRaises
  BY <1>inv, <1>7 DEF LoopRaises, LoopBodyRaises, LoopResumeRaises, TaskCollected, LoopBusy,
     TaskRaises, Fault, TaskGoes, procVars
<1>8. CASE Outage
  BY <1>inv, <1>8 DEF Outage, ShutdownBegin, Serving, ShutdownEnd, Crash, ProcessGone,
     CancelTask, storeVars, requestVars
<1> QED
  BY <1>1, <1>2, <1>3, <1>4, <1>5, <1>6, <1>7, <1>8 DEF Next

\* The invariant holds before the first start ...
LEMMA InvInit == Init => IInv
<1> SUFFICES ASSUME Init PROVE IInv
  OBVIOUS
<1>1. StoreTypeOK
  BY StoreInitType DEF Init
<1>2. ProcessTypeOK
  BY DEF Init, ProcessTypeOK, LoopPc, TaskPc, Verdict, AgentStatus
<1>3. SlotInv
  BY DEF Init, SlotInv, TaskBusy
<1> QED
  BY <1>1, <1>2, <1>3 DEF IInv, TypeOK

\* ... and no step breaks it ...
LEMMA InvStep == IInv /\ [Next]_vars => IInv'
<1> SUFFICES ASSUME IInv, [Next]_vars PROVE IInv'
  OBVIOUS
<1>1. CASE Next
  BY <1>1, StoreTypeStep, ProcessTypeStep, SlotStep DEF IInv, TypeOK
<1>2. CASE UNCHANGED vars
  BY <1>2, StoreUnchangedType
     DEF IInv, TypeOK, ProcessTypeOK, SlotInv, TaskBusy, RequestCancelled, vars, storeVars,
         requestVars, procVars, slotVars, reportVars, bounds
<1> QED
  BY <1>1, <1>2

\* ... so it always holds.
THEOREM Invariant == Spec => []IInv
BY InvInit, InvStep, PTL DEF Spec

\* Every variable of the runtime and every column of its tables keeps its
\* type: statuses are statuses, links are between ids, deadlines are instants.
THEOREM TypeCorrect == Spec => []TypeOK
BY Invariant, PTL DEF IInv

\* Wherever the scheduler and its task stand, the row of the request in hand
\* says what they rely on, although no write of theirs tests it.
THEOREM SlotCorrect == Spec => []SlotInv
BY Invariant, PTL DEF IInv
=============================================================================
