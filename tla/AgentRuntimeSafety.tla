------------------------- MODULE AgentRuntimeSafety -------------------------
(***************************************************************************)
(* The safety and action properties of AgentRuntime, for any instance,     *)
(* from the invariant of AgentRuntimeProofs.                               *)
(*                                                                         *)
(* The first part says what one step may do to one row of the requests     *)
(* table: the transitions the code really makes, found by looking at every *)
(* action once.  Most properties follow from those transitions alone.      *)
(***************************************************************************)
EXTENDS AgentRuntimeProofs, FiniteSetTheorems

\* What the step does to row r besides its status.
LeaseSame(r) == leasedUntil'[r] = leasedUntil[r]
LeaseCleared(r) == leasedUntil'[r] = NULL
OutputSame(r) == output'[r] = output[r]

RowSame(r) == status'[r] = status[r] /\ LeaseSame(r) /\ OutputSame(r)

\* Why an attempt gives its request back to the queue.
GivenBack(r) ==
    \/ status[r] = "leased"
    \/ proc = "booting"
    \/ r = current /\ task = "settle" /\ verdict = "recoverable"
    \/ r = current /\ task = "turn" /\ cancelled

Inserted(r) ==
    status[r] = "absent" /\ status'[r] = "queued" /\ LeaseSame(r) /\ OutputSame(r)
Leased(r) ==
    status[r] = "queued" /\ status'[r] = "leased" /\ leasedUntil'[r] \in Nat /\ OutputSame(r)
Withdrawn(r) ==
    status[r] = "queued" /\ status'[r] = "cancelled" /\ LeaseSame(r) /\ OutputSame(r)
Asked(r) ==
    /\ status[r] \notin {"absent", "queued"} /\ status'[r] = "cancellation_requested"
    /\ LeaseSame(r) /\ OutputSame(r)
Started(r) ==
    status[r] = "leased" /\ status'[r] = "running" /\ LeaseSame(r) /\ OutputSame(r)
Requeued(r) ==
    /\ status[r] \in InFlight /\ status'[r] = "queued" /\ GivenBack(r)
    /\ LeaseCleared(r) /\ OutputSame(r)
Settled(r) ==
    /\ RequestCancelled(r) /\ status'[r] = "cancelled"
    /\ LeaseCleared(r) /\ OutputSame(r)
Answered(r) ==
    /\ r = current /\ status[r] = "running" /\ status'[r] \in {"completed", "failed"}
    /\ LeaseCleared(r)

RowMoves(r) ==
    \/ RowSame(r) \/ Inserted(r) \/ Leased(r) \/ Withdrawn(r) \/ Asked(r)
    \/ Started(r) \/ Requeued(r) \/ Settled(r) \/ Answered(r)

\* No step moves a row in any other way.
LEMMA RowStep ==
    ASSUME IInv, [Next]_vars, NEW r \in RequestId
    PROVE  RowMoves(r)
<1> USE SlotTypes DEF RowMoves, RowSame, LeaseSame, LeaseCleared, OutputSame, RequestCancelled
<1>inv. StoreTypeOK /\ SlotInv
  BY DEF IInv, TypeOK
<1>0. CASE UNCHANGED requestVars
  BY <1>0 DEF requestVars
<1>1. ASSUME NEW s \in RequestId, RecoverInFlight(s) \/ RecoverCancelled(s)
      PROVE  RowMoves(r)
  BY <1>inv, <1>1 DEF RecoverInFlight, RecoverCancelled, RequeueRequest, FinalizeCancelled,
     Interrupted, Requeued, GivenBack, Settled, BootRepair, StoreTypeOK
<1>2. ASSUME NEW s \in RequestId, CancelRequest(s)
      PROVE  RowMoves(r)
  BY <1>inv, <1>2 DEF CancelRequest, StoreCancel, Withdrawn, Asked, StoreTypeOK
<1>3. ASSUME NEW s \in RequestId, NEW p \in Payload, CreateRequest(s, p)
      PROVE  RowMoves(r)
  BY <1>inv, <1>3 DEF CreateRequest, InsertRequest, Inserted, StoreTypeOK
<1>4. ASSUME NEW s \in RequestId, LoopLease(s)
      PROVE  RowMoves(r)
  BY <1>inv, <1>4, DeadlineType DEF LoopLease, LeaseRequest, HeadOfQueue, Queued, Leased,
     StoreTypeOK
<1>5. CASE LoopReclaim
  BY <1>inv, <1>5 DEF LoopReclaim, ReclaimExpiredLeases, Expired, Requeued, GivenBack, InFlight
<1>6. CASE TaskBind
  BY <1>6 DEF TaskBind, BindActivityRequest
<1>7. CASE TaskMarkRunning
  BY <1>inv, <1>7 DEF TaskMarkRunning, MarkRequestRunning, Started, SlotInv, StoreTypeOK
<1>8. CASE TaskSettle
  BY <1>inv, <1>8 DEF TaskSettle, SettleCancelled, SettleAnswered, FinalizeCancelled,
     CompleteRequest, RequeueRequest, FailRequest, Settled, Requeued, GivenBack, Answered,
     InFlight, SlotInv, StoreTypeOK
<1>9. CASE TurnCancelled
  BY <1>inv, <1>9 DEF TurnCancelled, SettleCancelled, FinalizeCancelled, RequeueRequest,
     Settled, Requeued, GivenBack, InFlight, SlotInv, StoreTypeOK
<1>10. ASSUME NEW a \in ActivityId, \/ RecoverActivity(a) \/ TaskCreateActivity(a)
                                   \/ QuantumCreateActivity(a)
       PROVE  UNCHANGED requestVars
  BY <1>10 DEF RecoverActivity, UpdateActivity, TaskCreateActivity, QuantumCreateActivity,
     InsertActivity
<1>11. ASSUME NEW code \in TurnCode, NEW s \in Session \cup {NULL}, TurnAnswers(code, s)
       PROVE  UNCHANGED requestVars
  BY <1>11 DEF TurnAnswers, UpdateActivity
<1>12. CASE TaskActivate \/ TaskWrapUp \/ QuantumSettle \/ QuantumCancelled
  BY <1>0, <1>12 DEF TaskActivate, TaskWrapUp, QuantumSettle, QuantumCancelled, UpdateActivity
<1>13. CASE Start \/ BootDone \/ LoopRaises \/ TaskRaises \/ Tick \/ Outage
  BY <1>0, <1>13 DEF Start, BootDone, LoopRaises, LoopBodyRaises, LoopResumeRaises,
     TaskCollected, TaskRaises, Fault, Tick, Outage, ShutdownBegin, ShutdownEnd, Crash,
     storeVars
<1>14. CASE \/ LoopStart \/ LoopExit \/ LoopSpawnTask \/ LoopFreeTime \/ LoopIdle
            \/ LoopResume \/ LoopWake \/ LoopBackoffEnds
  BY <1>0, <1>14 DEF LoopStart, LoopExit, LoopSpawnTask, LoopFreeTime, LoopIdle, LoopResume,
     TaskCollected, LoopWake, LoopBackoffEnds, LoopMoves, storeVars
<1>15. CASE TaskKilledAtBirth \/ TaskReuseActivity
  BY <1>0, <1>15 DEF TaskKilledAtBirth, TaskReuseActivity, storeVars
<1>16. ASSUME NEW p \in Payload, CreateRepeat(p)
       PROVE  UNCHANGED requestVars
  BY <1>16 DEF CreateRepeat, storeVars
<1>17. CASE UNCHANGED vars
  BY <1>0, <1>17 DEF vars, storeVars
<1>18. CASE BootStep \/ ApiStep
  BY <1>0, <1>1, <1>2, <1>3, <1>10, <1>13, <1>16, <1>18 DEF BootStep, ApiStep
<1>19. CASE LoopStep
  BY <1>4, <1>5, <1>14, <1>19 DEF LoopStep
<1>20. CASE TaskStep \/ TurnStep
  BY <1>0, <1>6, <1>7, <1>8, <1>9, <1>10, <1>11, <1>12, <1>15, <1>20 DEF TaskStep, TurnStep
<1> QED
  BY <1>13, <1>17, <1>18, <1>19, <1>20 DEF Next

-----------------------------------------------------------------------------
(* What follows from the transitions alone                                 *)

\* No step takes an answered request up again.
LEMMA AnswerStep == IInv /\ AnswerKept /\ [Next]_vars => AnswerKept'
<1> SUFFICES ASSUME IInv, AnswerKept, [Next]_vars, NEW r \in RequestId,
                    output'[r] # {}
             PROVE  status'[r] \in Terminal \cup {"cancellation_requested"}
  BY DEF AnswerKept
<1> QED
  BY RowStep DEF AnswerKept, Terminal, InFlight, RowMoves, RowSame, LeaseSame, LeaseCleared,
     OutputSame, RequestCancelled, Inserted, Leased, Withdrawn, Asked, Started, Requeued,
     Settled, Answered

\* A request that was answered is never worked on again.
THEOREM AnswersKept == Spec => []AnswerKept
<1>1. Init => AnswerKept
  BY DEF Init, StoreInit, AnswerKept
<1> QED
  BY <1>1, AnswerStep, Invariant, PTL DEF Spec

\* A request without a row has no lease either.
LeaseInv ==
    /\ LeaseColumns
    /\ \A r \in RequestId : status[r] = "absent" => leasedUntil[r] = NULL

\* Leases are on work in progress, and on all of it that is leased.
THEOREM LeasesKept == Spec => []LeaseColumns
<1>1. Init => LeaseInv
  BY DEF Init, StoreInit, LeaseInv, LeaseColumns, Terminal
<1>2. IInv /\ LeaseInv /\ [Next]_vars => LeaseInv'
  <2> SUFFICES ASSUME IInv, LeaseInv, [Next]_vars, NEW r \in RequestId
               PROVE  /\ status'[r] \in Terminal \cup {"queued", "absent"} =>
                             leasedUntil'[r] = NULL
                      /\ status'[r] = "leased" => leasedUntil'[r] # NULL
    BY DEF LeaseInv, LeaseColumns
  <2> QED
    BY RowStep, NullAssumption
       DEF LeaseInv, LeaseColumns, Terminal, InFlight, RowMoves, RowSame, LeaseSame,
           LeaseCleared, RequestCancelled, Inserted, Leased, Withdrawn, Asked, Started,
           Requeued, Settled, Answered
<1>3. LeaseInv => LeaseColumns
  BY DEF LeaseInv
<1> QED
  BY <1>1, <1>2, <1>3, Invariant, PTL DEF Spec

\* No write overwrites a recorded cancellation.
THEOREM CancellationsStick == Spec => CancellationSticks
<1>1. IInv /\ [Next]_vars =>
        [\A r \in RequestId :
            RequestCancelled(r) => status'[r] \in {"cancellation_requested", "cancelled"}]_vars
  BY RowStep DEF RequestCancelled, InFlight, RowMoves, RowSame, Inserted, Leased, Withdrawn,
     Asked, Started, Requeued, Settled, Answered
<1> QED
  BY <1>1, Invariant, PTL DEF Spec, CancellationSticks

-----------------------------------------------------------------------------
(* Cancelling the task                                                     *)

\* Where a cancellation of the task can come from.
CancelInv ==
    /\ task \in {"none", "bind", "mark", "activate"} => ~cancelled
    /\ cancelled /\ task \in {"created", "turn"} =>
           stopping \/ (current # NULL /\ RequestCancelled(current))

\* No step cancels a task for another reason.
LEMMA CancelStep == IInv /\ CancelInv /\ [Next]_vars => CancelInv'
<1> SUFFICES ASSUME IInv, CancelInv, [Next]_vars PROVE CancelInv'
  OBVIOUS
<1> USE SlotTypes DEF CancelInv, RequestCancelled
<1>inv. StoreTypeOK /\ ProcessTypeOK /\ SlotInv
  BY DEF IInv, TypeOK
<1>1. CASE BootStep
  <2>1. loop = "off" => task = "none" /\ current = NULL
    BY <1>inv DEF ProcessTypeOK, SlotInv
  <2>2. task = "none" /\ ~cancelled /\ task' = task /\ cancelled' = cancelled
    BY <1>inv, <1>1, <2>1 DEF BootStep, Start, BootRepair, RecoverInFlight, RecoverCancelled,
       RecoverActivity, BootDone, slotVars, SlotInv
  <2> QED
    BY <2>2
<1>2. CASE ApiStep
  <2>1. ASSUME NEW r \in RequestId, CancelRequest(r)
        PROVE  CancelInv'
    <3>1. UNCHANGED <<task, current, stopping>> /\ ~TaskBusy
      BY <2>1 DEF CancelRequest, Handler, Serving, procVars
    <3>2. CASE RunsNow(r)
      <4>1. task \in {"created", "turn"} => status[r] # "queued"
        BY <1>inv, <3>2, NullAssumption DEF RunsNow, SlotInv
      <4> QED
        BY <1>inv, <2>1, <3>1, <3>2, <4>1, NullAssumption DEF CancelRequest, StoreCancel,
           RunsNow, CancelTask, TaskBusy, StoreTypeOK, ProcessTypeOK, TaskPc
    <3>3. CASE ~RunsNow(r)
      BY <1>inv, <2>1, <3>1, <3>3 DEF CancelRequest, StoreCancel, RunsNow, TaskBusy, StoreTypeOK
    <3> QED
      BY <3>2, <3>3
  <2>2. ASSUME NEW r \in RequestId, NEW p \in Payload, CreateRequest(r, p)
        PROVE  CancelInv'
    BY <1>inv, <2>2 DEF CreateRequest, Handler, InsertRequest, procVars, StoreTypeOK
  <2>3. ASSUME NEW p \in Payload, CreateRepeat(p)
        PROVE  CancelInv'
    BY <1>inv, <2>3 DEF CreateRepeat, Handler, procVars, storeVars, requestVars
  <2> QED
    BY <1>2, <2>1, <2>2, <2>3 DEF ApiStep
<1>3. CASE LoopStep
  <2> USE DEF procVars, slotVars, storeVars, requestVars
  <2>1. CASE LoopStart \/ LoopExit \/ LoopWake \/ LoopBackoffEnds
    BY <1>inv, <2>1 DEF LoopStart, LoopExit, LoopWake, LoopBackoffEnds, LoopMoves
  <2>2. CASE LoopReclaim \/ \E r \in RequestId : LoopLease(r)
    BY <1>inv, <2>2 DEF LoopReclaim, LoopLease, SlotInv
  <2>3. CASE LoopSpawnTask \/ LoopFreeTime \/ LoopIdle \/ LoopResume
    BY <1>inv, <2>3 DEF LoopSpawnTask, LoopFreeTime, LoopIdle, LoopResume, TaskCollected,
       SlotInv
  <2> QED
    BY <1>3, <2>1, <2>2, <2>3 DEF LoopStep
<1>4. CASE TaskStep \/ TurnStep
  BY <1>inv, <1>4 DEF TaskStep, TurnStep, TaskGoes, TaskKilledAtBirth, TaskReuseActivity,
     TaskCreateActivity, QuantumCreateActivity, TaskBind, TaskMarkRunning, TaskActivate,
     TaskSettle, TaskWrapUp, QuantumSettle, TurnAnswers, TurnCancelled, QuantumCancelled
<1>5. CASE Tick \/ LoopRaises \/ TaskRaises
  BY <1>inv, <1>5 DEF Tick, LoopRaises, LoopBodyRaises, LoopResumeRaises, TaskCollected,
     LoopBusy, TaskRaises, Fault, TaskGoes, procVars, slotVars, storeVars, requestVars,
     SlotInv
<1>6. CASE Outage
  BY <1>inv, <1>6 DEF Outage, ShutdownBegin, Serving, TaskBusy, ShutdownEnd, Crash,
     ProcessGone, CancelTask, SlotInv
<1>7. CASE UNCHANGED vars
  BY <1>7 DEF vars, storeVars, requestVars, procVars, slotVars
<1> QED
  BY <1>1, <1>2, <1>3, <1>4, <1>5, <1>6, <1>7 DEF Next

\* It holds throughout.
LEMMA CancelInvariant == Spec => []CancelInv
<1>1. Init => CancelInv
  BY DEF Init, CancelInv
<1> QED
  BY <1>1, CancelStep, Invariant, PTL DEF Spec

\* Only its own cancellation or a shutdown interrupts a turn.
THEOREM InterruptsJustified == Spec => []InterruptJustified
<1>1. CancelInv => InterruptJustified
  BY DEF CancelInv, InterruptJustified
<1> QED
  BY <1>1, CancelInvariant, PTL

\* A running request is put back by the recovery, by a shutdown, or for the
\* recoverable failure of its own turn.
THEOREM RequeuesJustified == Spec => RequeueJustified
<1>1. IInv /\ CancelInv /\ [Next]_vars =>
        [\A r \in RequestId : status[r] = "running" /\ status'[r] = "queued" =>
            proc = "booting" \/ stopping \/ verdict = "recoverable"]_vars
  BY RowStep DEF CancelInv, RequestCancelled, RowMoves, RowSame, Inserted, Leased, Withdrawn,
     Asked, Started, Requeued, GivenBack, Settled, Answered
<1> QED
  BY <1>1, Invariant, CancelInvariant, PTL DEF Spec, RequeueJustified

-----------------------------------------------------------------------------
(* Nothing in flight is forgotten                                          *)

\* When the loop lets go of a request, its row is no longer in flight, or an
\* exception broke the attempt off.
CoverInv ==
    /\ InFlightOwned
    /\ current # NULL /\ ~stopping =>
          /\ task \in {"wrap", "done"} => status[current] \notin InFlight
          /\ task = "raised" => current \in stranded

\* No step lets go of a request in flight silently.
LEMMA CoverStep == IInv /\ CancelInv /\ CoverInv /\ [Next]_vars => CoverInv'
<1> SUFFICES ASSUME IInv, CancelInv, CoverInv, [Next]_vars PROVE CoverInv'
  OBVIOUS
<1> USE SlotTypes, NullAssumption DEF CoverInv, InFlightOwned, InFlight
<1>inv. StoreTypeOK /\ ProcessTypeOK /\ SlotInv
  BY DEF IInv, TypeOK
<1>1. CASE BootStep
  <2>1. proc # "up" /\ loop = "off" /\ task = "none" /\ current = NULL
    BY <1>inv, <1>1 DEF BootStep, Start, BootRepair, RecoverInFlight, RecoverCancelled,
       RecoverActivity, BootDone, SlotInv
  <2>2. current' = NULL
    BY <1>1, <2>1 DEF BootStep, Start, BootRepair, RecoverInFlight, RecoverCancelled,
       RecoverActivity, BootDone, slotVars
  <2>3. CASE BootDone
    <3>1. \A r \in RequestId : status[r] \notin {"leased", "running", "checkpointing"}
      BY <2>3 DEF BootDone, RequestsRecovered, Interrupted
    <3> QED
      BY <2>2, <2>3, <3>1 DEF BootDone, storeVars, requestVars
  <2>4. CASE ~BootDone
    <3>1. proc' # "up"
      BY <1>1, <2>1, <2>4 DEF BootStep, Start, BootRepair, RecoverInFlight, RecoverCancelled,
         RecoverActivity, procVars
    <3> QED
      BY <2>2, <3>1
  <2> QED
    BY <2>3, <2>4
<1>2. CASE ApiStep
  <2> USE DEF Handler, procVars
  <2>1. ASSUME NEW r \in RequestId, CancelRequest(r)
        PROVE  CoverInv'
    BY <1>inv, <2>1 DEF CancelRequest, StoreCancel, StoreTypeOK
  <2>2. ASSUME NEW r \in RequestId, NEW p \in Payload, CreateRequest(r, p)
        PROVE  CoverInv'
    BY <1>inv, <2>2 DEF CreateRequest, InsertRequest, StoreTypeOK
  <2>3. ASSUME NEW p \in Payload, CreateRepeat(p)
        PROVE  CoverInv'
    BY <2>3 DEF CreateRepeat, storeVars, requestVars
  <2> QED
    BY <1>2, <2>1, <2>2, <2>3 DEF ApiStep
<1>3. CASE LoopStep
  <2> USE DEF procVars, slotVars, storeVars, requestVars
  <2>1. CASE LoopStart \/ LoopExit \/ LoopWake \/ LoopBackoffEnds
    BY <2>1 DEF LoopStart, LoopExit, LoopWake, LoopBackoffEnds, LoopMoves
  <2>2. CASE LoopReclaim
    BY <1>inv, <2>2 DEF LoopReclaim, ReclaimExpiredLeases, SlotInv
  <2>3. ASSUME NEW r \in RequestId, LoopLease(r)
        PROVE  CoverInv'
    BY <1>inv, <2>3 DEF LoopLease, LeaseRequest, SlotInv, StoreTypeOK
  <2>4. CASE LoopSpawnTask \/ LoopFreeTime \/ LoopIdle
    BY <1>inv, <2>4 DEF LoopSpawnTask, LoopFreeTime, LoopIdle, SlotInv
  <2>5. CASE LoopResume
    BY <1>inv, <2>5 DEF LoopResume, TaskCollected, SlotInv
  <2> QED
    BY <1>3, <2>1, <2>2, <2>3, <2>4, <2>5 DEF LoopStep
<1>4. CASE TaskStep
  <2> USE DEF TaskGoes, procVars
  <2>1. CASE TaskKilledAtBirth
    BY <1>inv, <2>1 DEF TaskKilledAtBirth, CancelInv, RequestCancelled, storeVars, requestVars
  <2>2. CASE TaskReuseActivity
    BY <2>2 DEF TaskReuseActivity, storeVars, requestVars
  <2>3. ASSUME NEW a \in ActivityId, TaskCreateActivity(a) \/ QuantumCreateActivity(a)
        PROVE  CoverInv'
    BY <2>3 DEF TaskCreateActivity, QuantumCreateActivity, InsertActivity, requestVars
  <2>4. CASE TaskBind \/ TaskActivate \/ TaskWrapUp \/ QuantumSettle
    BY <2>4 DEF TaskBind, BindActivityRequest, TaskActivate, TaskWrapUp, QuantumSettle,
       UpdateActivity, requestVars
  <2>5. CASE TaskMarkRunning
    BY <1>inv, <2>5 DEF TaskMarkRunning, MarkRequestRunning, SlotInv, StoreTypeOK
  <2>6. CASE TaskSettle
    BY <1>inv, <2>6 DEF TaskSettle, SettleCancelled, SettleAnswered, FinalizeCancelled,
       CompleteRequest, RequeueRequest, FailRequest, StoreTypeOK
  <2> QED
    BY <1>4, <2>1, <2>2, <2>3, <2>4, <2>5, <2>6 DEF TaskStep
<1>5. CASE TurnStep
  <2> USE DEF TaskGoes, procVars
  <2>1. CASE TurnCancelled
    BY <1>inv, <2>1 DEF TurnCancelled, SettleCancelled, FinalizeCancelled, RequeueRequest,
       StoreTypeOK
  <2>2. CASE QuantumCancelled \/ \E code \in TurnCode, s \in Session \cup {NULL} :
                                     TurnAnswers(code, s)
    BY <2>2 DEF QuantumCancelled, TurnAnswers, UpdateActivity, requestVars
  <2> QED
    BY <1>5, <2>1, <2>2 DEF TurnStep
<1>6. CASE Tick
  BY <1>6 DEF Tick, requestVars, procVars, slotVars
<1>7. CASE LoopRaises \/ TaskRaises
  BY <1>inv, <1>7 DEF LoopRaises, LoopBodyRaises, LoopResumeRaises, TaskCollected, LoopBusy,
     TaskRaises, Fault, TaskGoes, procVars, storeVars, requestVars, SlotInv
<1>8. CASE Outage
  BY <1>8 DEF Outage, ShutdownBegin, ShutdownEnd, Crash, ProcessGone
<1>9. CASE UNCHANGED vars
  BY <1>9 DEF vars, storeVars, requestVars, procVars, slotVars
<1> QED
  BY <1>1, <1>2, <1>3, <1>4, <1>5, <1>6, <1>7, <1>8, <1>9 DEF Next

\* While a process schedules, whatever is in flight is in its hand or was
\* broken off by an exception: the recovery left nothing behind.
THEOREM NothingForgotten == Spec => []InFlightOwned
<1>1. Init => CoverInv
  BY DEF Init, CoverInv, InFlightOwned
<1>2. CoverInv => InFlightOwned
  BY DEF CoverInv
<1> QED
  BY <1>1, <1>2, CoverStep, Invariant, CancelInvariant, PTL DEF Spec

-----------------------------------------------------------------------------
(* Activities                                                              *)

\* The activity of the slot is bound to its request and has a row, and it is
\* active during the turn; only rows carry bindings and sessions.
ActivityInv ==
    /\ \A r \in RequestId : status[r] = "absent" => activityId[r] = NULL
    /\ \A a \in ActivityId : actStatus[a] = "absent" => actSession[a] = NULL
    /\ task = "bind" => activityId[current] \in {NULL, taskAct}
    /\ current # NULL /\ task \in {"mark", "activate", "turn", "settle", "wrap"} =>
           activityId[current] = taskAct
    /\ TaskBusy \/ task = "turn" => actStatus[taskAct] # "absent"
    /\ task \in {"turn", "settle"} => actStatus[taskAct] = "active"

\* No step separates a request from its activity or an activity from its row.
LEMMA ActivityStep == IInv /\ ActivityInv /\ [Next]_vars => ActivityInv'
<1> SUFFICES ASSUME IInv, ActivityInv, [Next]_vars PROVE ActivityInv'
  OBVIOUS
<1> USE SlotTypes, NullAssumption DEF ActivityInv, TaskBusy
<1>inv. StoreTypeOK /\ ProcessTypeOK /\ SlotInv
  BY DEF IInv, TypeOK
<1>1. CASE BootStep
  <2>1. loop = "off" => task = "none"
    BY <1>inv DEF ProcessTypeOK, SlotInv
  <2>2. task' = "none"
    BY <1>inv, <1>1, <2>1 DEF BootStep, Start, BootRepair, RecoverInFlight, RecoverCancelled,
       RecoverActivity, BootDone, slotVars, SlotInv
  <2>3. ASSUME NEW r \in RequestId, RecoverInFlight(r) \/ RecoverCancelled(r)
        PROVE  ActivityInv'
    BY <1>inv, <2>2, <2>3 DEF RecoverInFlight, RecoverCancelled, RequeueRequest,
       FinalizeCancelled, Interrupted, InFlight, RequestCancelled, activityVars, StoreTypeOK
  <2>4. ASSUME NEW a \in ActivityId, RecoverActivity(a)
        PROVE  ActivityInv'
    BY <1>inv, <2>2, <2>4 DEF RecoverActivity, LeftActive, UpdateActivity, requestVars,
       StoreTypeOK
  <2>5. CASE Start \/ BootDone
    BY <2>2, <2>5 DEF Start, BootDone, storeVars, requestVars, activityVars
  <2> QED
    BY <1>1, <2>3, <2>4, <2>5 DEF BootStep
<1>2. CASE ApiStep
  <2> USE DEF Handler, activityVars
  <2>1. ASSUME NEW r \in RequestId, CancelRequest(r)
        PROVE  ActivityInv'
    BY <1>inv, <2>1 DEF CancelRequest, StoreCancel, StoreTypeOK
  <2>2. ASSUME NEW r \in RequestId, NEW p \in Payload, CreateRequest(r, p)
        PROVE  ActivityInv'
    BY <1>inv, <2>2 DEF CreateRequest, InsertRequest, SlotInv, Serving, StoreTypeOK
  <2>3. ASSUME NEW p \in Payload, CreateRepeat(p)
        PROVE  ActivityInv'
    BY <2>3 DEF CreateRepeat, storeVars, requestVars
  <2> QED
    BY <1>2, <2>1, <2>2, <2>3 DEF ApiStep
<1>3. CASE LoopStep
  <2> USE DEF slotVars, storeVars, requestVars, activityVars
  <2>1. CASE LoopStart \/ LoopExit \/ LoopWake \/ LoopBackoffEnds
    BY <2>1 DEF LoopStart, LoopExit, LoopWake, LoopBackoffEnds, LoopMoves
  <2>2. CASE LoopReclaim
    BY <1>inv, <2>2 DEF LoopReclaim, ReclaimExpiredLeases, Expired, SlotInv
  <2>3. ASSUME NEW r \in RequestId, LoopLease(r)
        PROVE  ActivityInv'
    BY <1>inv, <2>3 DEF LoopLease, LeaseRequest, HeadOfQueue, Queued, SlotInv, StoreTypeOK
  <2>4. CASE LoopSpawnTask \/ LoopFreeTime \/ LoopIdle \/ LoopResume
    BY <2>4 DEF LoopSpawnTask, LoopFreeTime, LoopIdle, LoopResume, TaskCollected
  <2> QED
    BY <1>3, <2>1, <2>2, <2>3, <2>4 DEF LoopStep
<1>4. CASE TaskStep
  <2> USE DEF TaskGoes, activityVars, requestVars
  <2>1. CASE TaskKilledAtBirth \/ TaskReuseActivity
    BY <1>inv, <2>1 DEF TaskKilledAtBirth, TaskReuseActivity, storeVars
  <2>2. ASSUME NEW a \in ActivityId, TaskCreateActivity(a)
        PROVE  ActivityInv'
    BY <1>inv, <2>2 DEF TaskCreateActivity, NewActivityFor, FreshActivities, InsertActivity,
       StoreTypeOK
  <2>3. ASSUME NEW a \in ActivityId, QuantumCreateActivity(a)
        PROVE  ActivityInv'
    BY <1>inv, <2>3 DEF QuantumCreateActivity, FreshActivities, InsertActivity, StoreTypeOK
  <2>4. CASE TaskBind
    BY <1>inv, <2>4 DEF TaskBind, BindActivityRequest, SlotInv, StoreTypeOK
  <2>5. CASE TaskMarkRunning
    BY <1>inv, <2>5 DEF TaskMarkRunning, MarkRequestRunning, SlotInv, StoreTypeOK
  <2>6. CASE TaskActivate
    BY <1>inv, <2>6, StatusAssumption DEF TaskActivate, UpdateActivity, ActivityStatus,
       StoreTypeOK
  <2>7. CASE TaskWrapUp \/ QuantumSettle
    <3>1. /\ actSession' = actSession /\ UNCHANGED <<requestVars, current>>
          /\ \A a \in ActivityId : actStatus'[a] = "absent" => actStatus[a] = "absent"
      <4>1. WrapStatus # "absent"
        BY DEF WrapStatus
      <4> QED
        BY <1>inv, <2>7, <4>1 DEF TaskWrapUp, QuantumSettle, UpdateActivity, StoreTypeOK
    <3> QED
      BY <2>7, <3>1 DEF TaskWrapUp, QuantumSettle
  <2>8. CASE TaskSettle
    BY <1>inv, <2>8 DEF TaskSettle, SettleCancelled, SettleAnswered, FinalizeCancelled,
       CompleteRequest, RequeueRequest, FailRequest, RequestCancelled, SlotInv, StoreTypeOK
  <2> QED
    BY <1>4, <2>1, <2>2, <2>3, <2>4, <2>5, <2>6, <2>7, <2>8 DEF TaskStep
<1>5. CASE TurnStep
  <2> USE DEF TaskGoes, activityVars, requestVars
  <2>1. ASSUME NEW code \in TurnCode, NEW s \in Session \cup {NULL}, TurnAnswers(code, s)
        PROVE  ActivityInv'
    BY <1>inv, <2>1 DEF TurnAnswers, UpdateActivity, StoreTypeOK
  <2>2. CASE TurnCancelled
    BY <1>inv, <2>2 DEF TurnCancelled, SettleCancelled, FinalizeCancelled, RequeueRequest,
       RequestCancelled, SlotInv, StoreTypeOK
  <2>3. CASE QuantumCancelled
    BY <1>inv, <2>3 DEF QuantumCancelled, UpdateActivity, StoreTypeOK
  <2> QED
    BY <1>5, <2>1, <2>2, <2>3 DEF TurnStep
<1>6. CASE Tick
  BY <1>6 DEF Tick, requestVars, activityVars, slotVars
<1>7. CASE LoopRaises \/ TaskRaises
  BY <1>inv, <1>7 DEF LoopRaises, LoopBodyRaises, LoopResumeRaises, TaskCollected, LoopBusy,
     TaskRaises, Fault, TaskGoes, storeVars, requestVars, activityVars, SlotInv
<1>8. CASE Outage
  BY <1>8 DEF Outage, ShutdownBegin, ShutdownEnd, Crash, ProcessGone, storeVars, requestVars,
     activityVars
<1>9. CASE UNCHANGED vars
  BY <1>9 DEF vars, storeVars, requestVars, activityVars, slotVars
<1> QED
  BY <1>1, <1>2, <1>3, <1>4, <1>5, <1>6, <1>7, <1>8, <1>9 DEF Next

\* It holds throughout.
LEMMA ActivityInvariant == Spec => []ActivityInv
<1>1. Init => ActivityInv
  BY DEF Init, StoreInit, ActivityInv, TaskBusy
<1> QED
  BY <1>1, ActivityStep, Invariant, PTL DEF Spec

\* During a turn the request is running, or asked to be cancelled, and bound
\* to the one activity that is active for it.
THEOREM SlotStaysIntact == Spec => []SlotIntact
<1>1. IInv /\ ActivityInv => SlotIntact
  BY DEF IInv, SlotInv, ActivityInv, SlotIntact, TaskBusy
<1> QED
  BY <1>1, Invariant, ActivityInvariant, PTL

\* Only the insert of a request and the binding of a new activity write an
\* activity id that was not there; the other writes repeat the one of the slot.
LEMMA ActivityIdStep ==
    ASSUME IInv, ActivityInv, [Next]_vars, ~TaskBind,
           ~ \E r \in RequestId, p \in Payload : CreateRequest(r, p)
    PROVE  activityId' = activityId
<1> USE SlotTypes DEF ActivityInv, activityVars, requestVars, storeVars, TaskBusy
<1>inv. StoreTypeOK /\ SlotInv
  BY DEF IInv, TypeOK
<1>1. CASE BootStep
  BY <1>inv, <1>1 DEF BootStep, Start, RecoverInFlight, RecoverCancelled, RecoverActivity,
     BootDone, RequeueRequest, FinalizeCancelled, UpdateActivity, StoreTypeOK
<1>2. CASE ApiStep
  BY <1>2 DEF ApiStep, CancelRequest, StoreCancel, CreateRepeat
<1>3. CASE LoopStep
  BY <1>3 DEF LoopStep, LoopStart, LoopExit, LoopWake, LoopBackoffEnds, LoopMoves,
     LoopReclaim, ReclaimExpiredLeases, LoopLease, LeaseRequest, LoopSpawnTask,
     LoopFreeTime, LoopIdle, LoopResume, TaskCollected
<1>4. CASE TaskStep
  <2>1. CASE TaskMarkRunning
    BY <1>inv, <2>1 DEF TaskMarkRunning, MarkRequestRunning, SlotInv, StoreTypeOK
  <2>2. CASE TaskSettle
    BY <1>inv, <2>2 DEF TaskSettle, SettleCancelled, SettleAnswered, FinalizeCancelled,
       CompleteRequest, RequeueRequest, FailRequest, StoreTypeOK
  <2>3. CASE ~(TaskMarkRunning \/ TaskSettle)
    BY <1>4, <2>3 DEF TaskStep, TaskKilledAtBirth, TaskReuseActivity, TaskCreateActivity,
       QuantumCreateActivity, InsertActivity, TaskActivate, TaskWrapUp, QuantumSettle,
       UpdateActivity
  <2> QED
    BY <2>1, <2>2, <2>3
<1>5. CASE TurnStep
  BY <1>inv, <1>5 DEF TurnStep, TurnAnswers, UpdateActivity, TurnCancelled,
     SettleCancelled, FinalizeCancelled, RequeueRequest, QuantumCancelled, StoreTypeOK
<1>6. CASE Outage \/ Tick \/ LoopRaises \/ TaskRaises \/ UNCHANGED vars
  BY <1>6 DEF Outage, ShutdownBegin, ShutdownEnd, Crash, Tick, LoopRaises, LoopBodyRaises,
     LoopResumeRaises, TaskCollected, TaskRaises, Fault, vars
<1> QED
  BY <1>1, <1>2, <1>3, <1>4, <1>5, <1>6 DEF Next

\* A request stays with its activity once it has one.
LEMMA ActivityKeptStep ==
    ASSUME IInv, ActivityInv, [Next]_vars, NEW r \in RequestId, activityId[r] # NULL
    PROVE  activityId'[r] = activityId[r]
<1>inv. StoreTypeOK /\ SlotInv
  BY DEF IInv, TypeOK
<1>1. CASE TaskBind
  BY <1>inv, <1>1 DEF ActivityInv, TaskBind, BindActivityRequest, SlotInv, StoreTypeOK
<1>2. ASSUME NEW s \in RequestId, NEW p \in Payload, CreateRequest(s, p)
      PROVE  activityId'[r] = activityId[r]
  BY <1>inv, <1>2 DEF ActivityInv, CreateRequest, InsertRequest, StoreTypeOK
<1> QED
  BY <1>1, <1>2, ActivityIdStep

\* A request keeps its first activity.
THEOREM ActivitiesKept == Spec => ActivityKept
<1>1. IInv /\ ActivityInv /\ [Next]_vars =>
        [\A r \in RequestId : activityId[r] # NULL => activityId'[r] = activityId[r]]_vars
  BY ActivityKeptStep
<1> QED
  BY <1>1, Invariant, ActivityInvariant, PTL DEF Spec, ActivityKept

\* A session that is known stays known.
THEOREM SessionsKept == Spec => SessionKept
<1>1. IInv /\ ActivityInv /\ [Next]_vars =>
        [\A a \in ActivityId : actSession[a] # NULL => actSession'[a] # NULL]_vars
  <2> SUFFICES ASSUME IInv, ActivityInv, Next, NEW a \in ActivityId, actSession[a] # NULL
               PROVE  actSession'[a] # NULL
    OBVIOUS
  <2> USE DEF ActivityInv, activityVars, requestVars, storeVars
  <2>inv. StoreTypeOK
    BY DEF IInv, TypeOK
  <2>1. CASE BootStep
    BY <2>inv, <2>1 DEF BootStep, Start, RecoverInFlight, RecoverCancelled, RecoverActivity,
       BootDone, RequeueRequest, FinalizeCancelled, UpdateActivity, StoreTypeOK
  <2>2. CASE ApiStep
    BY <2>2 DEF ApiStep, CancelRequest, StoreCancel, CreateRequest, InsertRequest, CreateRepeat
  <2>3. CASE LoopStep
    BY <2>3 DEF LoopStep, LoopStart, LoopExit, LoopWake, LoopBackoffEnds, LoopMoves,
       LoopReclaim, ReclaimExpiredLeases, LoopLease, LeaseRequest, LoopSpawnTask,
       LoopFreeTime, LoopIdle, LoopResume, TaskCollected
  <2>4. CASE TaskStep
    BY <2>inv, <2>4 DEF TaskStep, TaskKilledAtBirth, TaskReuseActivity, TaskCreateActivity,
       NewActivityFor, FreshActivities, QuantumCreateActivity, InsertActivity, TaskBind,
       BindActivityRequest, TaskMarkRunning, MarkRequestRunning, TaskActivate, TaskWrapUp,
       QuantumSettle, UpdateActivity, TaskSettle, SettleCancelled, SettleAnswered,
       FinalizeCancelled, CompleteRequest, RequeueRequest, FailRequest, StoreTypeOK
  <2>5. CASE TurnStep
    BY <2>inv, <2>5 DEF TurnStep, TurnAnswers, UpdateActivity, TurnCancelled,
       SettleCancelled, FinalizeCancelled, RequeueRequest, QuantumCancelled, StoreTypeOK
  <2>6. CASE Outage \/ Tick \/ LoopRaises \/ TaskRaises
    BY <2>6 DEF Outage, ShutdownBegin, ShutdownEnd, Crash, Tick, LoopRaises, LoopBodyRaises,
       LoopResumeRaises, TaskCollected, TaskRaises, Fault
  <2> QED
    BY <2>1, <2>2, <2>3, <2>4, <2>5, <2>6 DEF Next
<1> QED
  BY <1>1, Invariant, ActivityInvariant, PTL DEF Spec, SessionKept

\* With no exception so far the active activity is the slot's, and an attempt
\* leaves none behind.
OneActiveInv ==
    /\ task \in {"none", "created"} => taskAct = NULL
    /\ proc = "up" /\ faults = 0 =>
          /\ \A a \in ActivityId : actStatus[a] = "active" => a = taskAct
          /\ task # "raised"
          /\ task = "done" => \A a \in ActivityId : actStatus[a] # "active"

\* No step but a raise leaves an activity active behind it.
LEMMA OneActiveStep == IInv /\ OneActiveInv /\ [Next]_vars => OneActiveInv'
<1> SUFFICES ASSUME IInv, OneActiveInv, [Next]_vars PROVE OneActiveInv'
  OBVIOUS
<1> USE SlotTypes, NullAssumption DEF OneActiveInv, TaskBusy
<1>inv. StoreTypeOK /\ ProcessTypeOK /\ SlotInv
  BY DEF IInv, TypeOK
<1>1. CASE BootStep
  <2>1. proc # "up" /\ task = "none" /\ taskAct = NULL
    BY <1>inv, <1>1 DEF BootStep, Start, BootRepair, RecoverInFlight, RecoverCancelled,
       RecoverActivity, BootDone, SlotInv
  <2>2. task' = task /\ taskAct' = taskAct
    BY <1>1 DEF BootStep, Start, BootRepair, RecoverInFlight, RecoverCancelled,
       RecoverActivity, BootDone, slotVars
  <2>3. CASE BootDone
    <3>1. actStatus' = actStatus /\ \A a \in ActivityId : actStatus[a] # "active"
      BY <2>3 DEF BootDone, LeftActive, storeVars, activityVars
    <3> QED
      BY <2>1, <2>2, <3>1
  <2>4. CASE ~BootDone
    <3>1. proc' # "up"
      BY <1>1, <2>1, <2>4 DEF BootStep, Start, BootRepair, RecoverInFlight, RecoverCancelled,
         RecoverActivity, procVars
    <3> QED
      BY <2>1, <2>2, <3>1
  <2> QED
    BY <2>3, <2>4
<1>2. CASE ApiStep
  BY <1>2 DEF ApiStep, Handler, procVars, bounds, CancelRequest, StoreCancel, CreateRequest,
     InsertRequest, CreateRepeat, storeVars, activityVars
<1>3. CASE LoopStep
  <2> USE DEF procVars, slotVars, storeVars, activityVars, bounds
  <2>1. CASE LoopStart \/ LoopExit \/ LoopWake \/ LoopBackoffEnds
    BY <2>1 DEF LoopStart, LoopExit, LoopWake, LoopBackoffEnds, LoopMoves
  <2>2. CASE LoopReclaim \/ \E r \in RequestId : LoopLease(r)
    BY <2>2 DEF LoopReclaim, ReclaimExpiredLeases, LoopLease, LeaseRequest
  <2>3. CASE LoopSpawnTask \/ LoopFreeTime
    BY <1>inv, <2>3 DEF LoopSpawnTask, LoopFreeTime, SlotInv
  <2>4. CASE LoopIdle \/ LoopResume
    BY <1>inv, <2>4 DEF LoopIdle, LoopResume, TaskCollected, SlotInv
  <2> QED
    BY <1>3, <2>1, <2>2, <2>3, <2>4 DEF LoopStep
<1>4. CASE TaskStep
  <2> USE DEF TaskGoes, procVars, bounds, storeVars, activityVars
  <2>1. CASE TaskKilledAtBirth \/ TaskReuseActivity
    BY <1>inv, <2>1 DEF TaskKilledAtBirth, TaskReuseActivity, StoreTypeOK
  <2>2. ASSUME NEW a \in ActivityId, TaskCreateActivity(a) \/ QuantumCreateActivity(a)
        PROVE  OneActiveInv'
    BY <1>inv, <2>2 DEF TaskCreateActivity, QuantumCreateActivity, InsertActivity, StoreTypeOK
  <2>3. CASE TaskBind \/ TaskMarkRunning
    BY <2>3 DEF TaskBind, BindActivityRequest, TaskMarkRunning, MarkRequestRunning
  <2>4. CASE TaskActivate
    BY <1>inv, <2>4, StatusAssumption DEF TaskActivate, UpdateActivity, ActivityStatus,
       StoreTypeOK
  <2>5. CASE TaskSettle
    BY <2>5 DEF TaskSettle, SettleCancelled, SettleAnswered, FinalizeCancelled,
       CompleteRequest, RequeueRequest, FailRequest
  <2>6. CASE TaskWrapUp
    <3>1. WrapStatus \in ActivityStatus \ {"active"}
      BY DEF WrapStatus, ActivityStatus
    <3> QED
      BY <1>inv, <2>6, <3>1, StatusAssumption DEF TaskWrapUp, UpdateActivity, StoreTypeOK
  <2>7. CASE QuantumSettle
    BY <1>inv, <2>7, StatusAssumption DEF QuantumSettle, UpdateActivity, ActivityStatus,
       StoreTypeOK
  <2> QED
    BY <1>4, <2>1, <2>2, <2>3, <2>4, <2>5, <2>6, <2>7 DEF TaskStep
<1>5. CASE TurnStep
  <2> USE DEF TaskGoes, procVars, bounds, activityVars
  <2>1. ASSUME NEW code \in TurnCode, NEW s \in Session \cup {NULL}, TurnAnswers(code, s)
        PROVE  OneActiveInv'
    BY <2>1 DEF TurnAnswers, UpdateActivity
  <2>2. CASE TurnCancelled
    BY <2>2 DEF TurnCancelled, SettleCancelled, FinalizeCancelled, RequeueRequest
  <2>3. CASE QuantumCancelled
    BY <1>inv, <2>3, StatusAssumption DEF QuantumCancelled, UpdateActivity, ActivityStatus,
       StoreTypeOK
  <2> QED
    BY <1>5, <2>1, <2>2, <2>3 DEF TurnStep
<1>6. CASE Tick
  BY <1>6 DEF Tick, activityVars, procVars, slotVars, bounds
<1>7. CASE LoopRaises \/ TaskRaises
  BY <1>inv, <1>7 DEF LoopRaises, LoopBodyRaises, LoopResumeRaises, TaskCollected, LoopBusy,
     TaskRaises, Fault, TaskGoes, procVars, storeVars, activityVars, ProcessTypeOK
<1>8. CASE Outage
  BY <1>8 DEF Outage, ShutdownBegin, ShutdownEnd, Crash, ProcessGone, storeVars, activityVars
<1>9. CASE UNCHANGED vars
  BY <1>9 DEF vars, storeVars, activityVars, procVars, slotVars, bounds
<1> QED
  BY <1>1, <1>2, <1>3, <1>4, <1>5, <1>6, <1>7, <1>8, <1>9 DEF Next

\* At most one activity is active, the slot's.
THEOREM OneActivityActive == Spec => []OneActive
<1>1. Init => OneActiveInv
  BY DEF Init, OneActiveInv
<1>2. OneActiveInv => OneActive
  BY DEF OneActiveInv, OneActive
<1> QED
  BY <1>1, <1>2, OneActiveStep, Invariant, PTL DEF Spec

-----------------------------------------------------------------------------
(* Folders                                                                 *)

\* An activity that has a row keeps one: INSERT OR REPLACE and UPDATE write
\* statuses, and nothing deletes.
LEMMA ActivityRowStep ==
    ASSUME IInv, [Next]_vars, NEW a \in ActivityId, actStatus[a] # "absent"
    PROVE  actStatus'[a] # "absent"
<1> USE SlotTypes, StatusAssumption DEF storeVars, activityVars
<1>inv. StoreTypeOK
  BY DEF IInv, TypeOK
<1>1. CASE BootStep \/ ApiStep
  BY <1>inv, <1>1 DEF BootStep, Start, RecoverInFlight, RecoverCancelled, RecoverActivity,
     BootDone, RequeueRequest, FinalizeCancelled, UpdateActivity, ApiStep, CancelRequest,
     StoreCancel, CreateRequest, InsertRequest, CreateRepeat, ActivityStatus, StoreTypeOK
<1>2. CASE LoopStep
  BY <1>2 DEF LoopStep, LoopStart, LoopExit, LoopWake, LoopBackoffEnds, LoopMoves,
     LoopReclaim, ReclaimExpiredLeases, LoopLease, LeaseRequest, LoopSpawnTask,
     LoopFreeTime, LoopIdle, LoopResume, TaskCollected
<1>3. CASE TaskStep
  <2>1. CASE TaskWrapUp
    <3>1. WrapStatus # "absent"
      BY DEF WrapStatus
    <3> QED
      BY <1>inv, <2>1, <3>1 DEF TaskWrapUp, UpdateActivity, StoreTypeOK
  <2>2. CASE ~TaskWrapUp
    BY <1>inv, <1>3, <2>2 DEF TaskStep, TaskKilledAtBirth, TaskReuseActivity,
       TaskCreateActivity, QuantumCreateActivity, InsertActivity, TaskBind,
       BindActivityRequest, TaskMarkRunning, MarkRequestRunning, TaskActivate, QuantumSettle,
       UpdateActivity, TaskSettle, SettleCancelled, SettleAnswered, FinalizeCancelled,
       CompleteRequest, RequeueRequest, FailRequest, StoreTypeOK
  <2> QED
    BY <2>1, <2>2
<1>4. CASE TurnStep
  BY <1>inv, <1>4 DEF TurnStep, TurnAnswers, UpdateActivity, TurnCancelled, SettleCancelled,
     FinalizeCancelled, RequeueRequest, QuantumCancelled, StoreTypeOK
<1>5. CASE Outage \/ Tick \/ LoopRaises \/ TaskRaises \/ UNCHANGED vars
  BY <1>5 DEF Outage, ShutdownBegin, ShutdownEnd, Crash, Tick, LoopRaises, LoopBodyRaises,
     LoopResumeRaises, TaskCollected, TaskRaises, Fault, vars
<1> QED
  BY <1>1, <1>2, <1>3, <1>4, <1>5 DEF Next

\* Only making and binding an activity writes links.
LEMMA LinkStep ==
    ASSUME IInv, [Next]_vars, ~TaskBind, ~ \E a \in ActivityId : TaskCreateActivity(a)
    PROVE  links' = links
<1> USE DEF storeVars, activityVars
<1>1. CASE BootStep \/ ApiStep
  BY <1>1 DEF BootStep, Start, RecoverInFlight, RecoverCancelled, RecoverActivity, BootDone,
     RequeueRequest, FinalizeCancelled, UpdateActivity, ApiStep, CancelRequest, StoreCancel,
     CreateRequest, InsertRequest, CreateRepeat
<1>2. CASE LoopStep
  BY <1>2 DEF LoopStep, LoopStart, LoopExit, LoopWake, LoopBackoffEnds, LoopMoves,
     LoopReclaim, ReclaimExpiredLeases, LoopLease, LeaseRequest, LoopSpawnTask,
     LoopFreeTime, LoopIdle, LoopResume, TaskCollected
<1>3. CASE TaskStep \/ TurnStep
  BY <1>3 DEF TaskStep, TaskKilledAtBirth, TaskReuseActivity, QuantumCreateActivity,
     InsertActivity, TaskMarkRunning, MarkRequestRunning, TaskActivate, TaskWrapUp,
     QuantumSettle, UpdateActivity, TaskSettle, SettleCancelled, SettleAnswered,
     FinalizeCancelled, CompleteRequest, RequeueRequest, FailRequest, TurnStep, TurnAnswers,
     TurnCancelled, QuantumCancelled
<1>4. CASE Outage \/ Tick \/ LoopRaises \/ TaskRaises \/ UNCHANGED vars
  BY <1>4 DEF Outage, ShutdownBegin, ShutdownEnd, Crash, Tick, LoopRaises, LoopBodyRaises,
     LoopResumeRaises, TaskCollected, TaskRaises, Fault, vars
<1> QED
  BY <1>1, <1>2, <1>3, <1>4 DEF Next

\* An attempt that made its activity binds it, unless an outage or an
\* exception is counted.
LEMMA UnboundStep ==
    ASSUME IInv, [Next]_vars, ~TaskBind, ~ \E a \in ActivityId : TaskCreateActivity(a)
    PROVE  /\ outages' \in Nat /\ faults' \in Nat
           /\ outages <= outages' /\ faults <= faults'
           /\ task' = "bind" => task = "bind" /\ UNCHANGED <<current, taskAct>>
           /\ task = "bind" => task' = "bind" \/ outages < outages' \/ faults < faults'
<1> USE DEF bounds, slotVars, TaskBusy
<1>inv. ProcessTypeOK /\ SlotInv
  BY DEF IInv, TypeOK
<1>nat. outages \in Nat /\ faults \in Nat
  BY <1>inv DEF ProcessTypeOK
<1>1. CASE BootStep
  <2>1. task = "none"
    BY <1>inv, <1>1 DEF BootStep, Start, BootRepair, RecoverInFlight, RecoverCancelled,
       RecoverActivity, BootDone, SlotInv
  <2> QED
    BY <1>nat, <1>1, <2>1 DEF BootStep, Start, BootRepair, RecoverInFlight, RecoverCancelled,
       RecoverActivity, BootDone
<1>2. CASE ApiStep
  BY <1>nat, <1>2 DEF ApiStep, Handler, Serving, CancelRequest, CreateRequest, CreateRepeat
<1>3. CASE LoopStep
  BY <1>nat, <1>inv, <1>3 DEF LoopStep, LoopStart, LoopExit, LoopWake, LoopBackoffEnds,
     LoopMoves, LoopReclaim, LoopLease, LoopSpawnTask, LoopFreeTime, LoopIdle, LoopResume,
     TaskCollected, SlotInv
<1>4. CASE TaskStep \/ TurnStep
  BY <1>nat, <1>4 DEF TaskStep, TaskGoes, TaskKilledAtBirth, TaskReuseActivity,
     QuantumCreateActivity, TaskMarkRunning, TaskActivate, TaskWrapUp, QuantumSettle,
     TaskSettle, TurnStep, TurnAnswers, TurnCancelled, QuantumCancelled
<1>5. CASE Tick \/ UNCHANGED vars
  BY <1>nat, <1>5 DEF Tick, vars
<1>6. CASE LoopRaises \/ TaskRaises
  BY <1>nat, <1>inv, <1>6 DEF LoopRaises, LoopBodyRaises, LoopResumeRaises, TaskCollected,
     LoopBusy, TaskRaises, Fault, TaskGoes, SlotInv
<1>7. CASE Outage
  BY <1>nat, <1>inv, <1>7 DEF Outage, ShutdownBegin, Serving, ShutdownEnd, Crash,
     ProcessGone, SlotInv
<1> QED
  BY <1>1, <1>2, <1>3, <1>4, <1>5, <1>6, <1>7 DEF Next

\* The folders a request was given.
LinksOf(r) == {l \in links : l[2] = r}

\* Every link of a request but one is what a broken attempt left: a request
\* without an activity has only such links, and while a new activity is not
\* yet bound it is the one more.  An activity that is named but was never made
\* is linked to nothing, so that making it does not add a second folder.
FolderInv ==
    /\ task = "bind" => <<taskAct, current>> \in links
    /\ \A r \in RequestId :
          /\ IsFiniteSet(LinksOf(r))
          /\ Cardinality(LinksOf(r)) <= 1 + outages + faults
          /\ activityId[r] = NULL /\ ~(task = "bind" /\ current = r) =>
                 Cardinality(LinksOf(r)) <= outages + faults
          /\ status[r] = "absent" => LinksOf(r) = {}
          /\ activityId[r] # NULL =>
                 actStatus[activityId[r]] # "absent" \/ LinksOf(r) = {}

\* No step gives a request a folder that nothing accounts for.
LEMMA FolderStep == IInv /\ ActivityInv /\ FolderInv /\ [Next]_vars => FolderInv'
<1> SUFFICES ASSUME IInv, ActivityInv, FolderInv, [Next]_vars PROVE FolderInv'
  OBVIOUS
<1> USE SlotTypes, NullAssumption
<1>inv. StoreTypeOK /\ ProcessTypeOK /\ SlotInv
  BY DEF IInv, TypeOK
<1>nat. /\ outages \in Nat /\ faults \in Nat
        /\ \A r \in RequestId : Cardinality(LinksOf(r)) \in Nat
  BY <1>inv, FS_CardinalityType DEF ProcessTypeOK, FolderInv
<1>1. ASSUME NEW a \in ActivityId, TaskCreateActivity(a)
      PROVE  FolderInv'
  <2>1. /\ current \in RequestId /\ task = "created" /\ task' = "bind"
        /\ taskAct' = a /\ current' = current
        /\ links' = links \cup {<<a, current>>}
        /\ UNCHANGED <<status, activityId, outages, faults>>
        /\ actStatus' = [actStatus EXCEPT ![a] = "pending"]
        /\ activityId[current] # NULL => /\ a = activityId[current]
                                         /\ actStatus[a] = "absent"
    BY <1>1 DEF TaskCreateActivity, TaskGoes, NewActivityFor, InsertActivity, requestVars,
       bounds
  <2>2. status[current] # "absent"
    BY <1>inv, <1>1, <2>1 DEF TaskCreateActivity, SlotInv, RequestCancelled
  <2>3. ASSUME NEW r \in RequestId, r # current
        PROVE  LinksOf(r)' = LinksOf(r)
    BY <2>1, <2>3 DEF LinksOf
  <2>4. /\ LinksOf(current)' = LinksOf(current) \cup {<<a, current>>}
        /\ Cardinality(LinksOf(current)) <= outages + faults
    <3>1. LinksOf(current)' = LinksOf(current) \cup {<<a, current>>}
      BY <2>1 DEF LinksOf
    <3>2. CASE activityId[current] = NULL
      BY <2>1, <3>1, <3>2 DEF FolderInv
    <3>3. CASE activityId[current] # NULL
      <4>1. LinksOf(current) = {}
        BY <2>1, <3>3 DEF FolderInv
      <4> QED
        BY <1>nat, <3>1, <4>1, FS_EmptySet
    <3> QED
      BY <3>2, <3>3
  <2>5. /\ IsFiniteSet(LinksOf(current)')
        /\ Cardinality(LinksOf(current)') <= 1 + outages + faults
    <3>1. IsFiniteSet(LinksOf(current))
      BY <2>1 DEF FolderInv
    <3>2. LET more == LinksOf(current) \cup {<<a, current>>}
          IN  /\ IsFiniteSet(more)
              /\ Cardinality(more) \in {Cardinality(LinksOf(current)),
                                       Cardinality(LinksOf(current)) + 1}
      BY <3>1, FS_AddElement
    <3>3. Cardinality(LinksOf(current)) \in Nat
      BY <1>nat, <2>1
    <3> QED
      BY <1>nat, <2>4, <3>2, <3>3
  <2>6. ASSUME NEW r \in RequestId
        PROVE  /\ IsFiniteSet(LinksOf(r)')
               /\ Cardinality(LinksOf(r)') <= 1 + outages' + faults'
               /\ activityId'[r] = NULL /\ ~(task' = "bind" /\ current' = r) =>
                      Cardinality(LinksOf(r)') <= outages' + faults'
               /\ status'[r] = "absent" => LinksOf(r)' = {}
               /\ activityId'[r] # NULL =>
                      actStatus'[activityId'[r]] # "absent" \/ LinksOf(r)' = {}
    <3>1. CASE r = current
      BY <1>inv, <2>1, <2>2, <2>5, <3>1 DEF StoreTypeOK
    <3>2. CASE r # current
      BY <1>inv, <2>1, <2>3, <3>2 DEF FolderInv, StoreTypeOK
    <3> QED
      BY <3>1, <3>2
  <2> QED
    BY <2>1, <2>6 DEF FolderInv
<1>2. CASE TaskBind
  <2>1. /\ current \in RequestId /\ task' = "mark"
        /\ links' = links /\ activityId' = [activityId EXCEPT ![current] = taskAct]
        /\ UNCHANGED <<status, actStatus, outages, faults>>
        /\ taskAct \in ActivityId /\ actStatus[taskAct] # "absent"
    BY <1>inv, <1>2 DEF TaskBind, TaskGoes, BindActivityRequest, FolderInv, ActivityInv,
       TaskBusy, SlotInv, bounds
  <2>2. ASSUME NEW r \in RequestId
        PROVE  /\ LinksOf(r)' = LinksOf(r)
               /\ activityId'[r] # NULL =>
                      actStatus'[activityId'[r]] # "absent" \/ LinksOf(r)' = {}
               /\ activityId'[r] = NULL => activityId[r] = NULL /\ r # current
    <3>1. LinksOf(r)' = LinksOf(r)
      BY <2>1 DEF LinksOf
    <3> QED
      BY <1>inv, <2>1, <3>1 DEF FolderInv, StoreTypeOK
  <2> QED
    BY <2>1, <2>2 DEF FolderInv
<1>3. ASSUME NEW r \in RequestId, NEW p \in Payload, CreateRequest(r, p)
      PROVE  FolderInv'
  <2>1. /\ status[r] = "absent" /\ status' = [status EXCEPT ![r] = "queued"]
        /\ activityId' = [activityId EXCEPT ![r] = p.activity]
        /\ task # "bind"
        /\ UNCHANGED <<links, actStatus, task, current, taskAct, outages, faults>>
    BY <1>3 DEF CreateRequest, InsertRequest, Handler, Serving, TaskBusy, activityVars, bounds
  <2>2. LinksOf(r) = {} /\ Cardinality(LinksOf(r)) = 0
    BY <2>1, FS_EmptySet DEF FolderInv
  <2>3. ASSUME NEW s \in RequestId
        PROVE  /\ LinksOf(s)' = LinksOf(s)
               /\ status'[s] = "absent" => status[s] = "absent"
               /\ s = r \/ activityId'[s] = activityId[s]
    BY <1>inv, <2>1 DEF LinksOf, StoreTypeOK
  <2>4. ASSUME NEW s \in RequestId
        PROVE  /\ Cardinality(LinksOf(s)) <= 1 + outages + faults
               /\ activityId'[s] = NULL => Cardinality(LinksOf(s)) <= outages + faults
    <3>1. CASE s = r
      <4>1. 0 <= outages + faults /\ 0 <= 1 + outages + faults
        BY <1>nat
      <4> QED
        BY <2>2, <3>1, <4>1
    <3>2. CASE s # r
      <4>1. activityId'[s] = activityId[s] /\ task # "bind"
        BY <2>1, <2>3, <3>2
      <4> QED
        BY <4>1 DEF FolderInv
    <3> QED
      BY <3>1, <3>2
  <2>5. ASSUME NEW s \in RequestId
        PROVE  /\ IsFiniteSet(LinksOf(s)')
               /\ Cardinality(LinksOf(s)') <= 1 + outages' + faults'
               /\ activityId'[s] = NULL => Cardinality(LinksOf(s)') <= outages' + faults'
               /\ status'[s] = "absent" => LinksOf(s)' = {}
               /\ activityId'[s] # NULL =>
                      actStatus'[activityId'[s]] # "absent" \/ LinksOf(s)' = {}
    BY <2>1, <2>2, <2>3, <2>4 DEF FolderInv
  <2> QED
    BY <2>1, <2>5 DEF FolderInv
<1>4. CASE /\ ~TaskBind /\ ~ \E a \in ActivityId : TaskCreateActivity(a)
           /\ ~ \E r \in RequestId, p \in Payload : CreateRequest(r, p)
  <2>1. links' = links /\ activityId' = activityId
    BY <1>4, LinkStep, ActivityIdStep
  <2>2. ASSUME NEW r \in RequestId
        PROVE  status'[r] = "absent" => status[r] = "absent"
    BY <2>2, RowStep DEF RowMoves, RowSame, Inserted, Leased, Withdrawn, Asked, Started,
       Requeued, Settled, Answered
  <2>3. ASSUME NEW r \in RequestId, activityId[r] # NULL
        PROVE  actStatus[activityId[r]] # "absent" => actStatus'[activityId[r]] # "absent"
    BY <1>inv, <2>3, ActivityRowStep DEF StoreTypeOK
  <2>4. /\ outages' \in Nat /\ faults' \in Nat
        /\ outages <= outages' /\ faults <= faults'
        /\ task' = "bind" => task = "bind" /\ UNCHANGED <<current, taskAct>>
        /\ task = "bind" => task' = "bind" \/ outages < outages' \/ faults < faults'
    BY <1>4, UnboundStep
  <2>5. ASSUME NEW r \in RequestId
        PROVE  /\ LinksOf(r)' = LinksOf(r)
               /\ Cardinality(LinksOf(r)) <= 1 + outages' + faults'
               /\ activityId[r] = NULL /\ ~(task' = "bind" /\ current' = r) =>
                      Cardinality(LinksOf(r)) <= outages' + faults'
    <3>1. LinksOf(r)' = LinksOf(r)
      BY <2>1 DEF LinksOf
    <3>2. Cardinality(LinksOf(r)) <= 1 + outages' + faults'
      <4>1. Cardinality(LinksOf(r)) <= 1 + outages + faults
        BY DEF FolderInv
      <4> QED
        BY <1>nat, <2>4, <4>1
    <3>3. ASSUME activityId[r] = NULL, ~(task' = "bind" /\ current' = r)
          PROVE  Cardinality(LinksOf(r)) <= outages' + faults'
      <4>1. CASE task = "bind" /\ current = r
        BY <1>nat, <2>4, <3>3, <4>1 DEF FolderInv
      <4>2. CASE ~(task = "bind" /\ current = r)
        BY <1>nat, <2>4, <3>3, <4>2 DEF FolderInv
      <4> QED
        BY <4>1, <4>2
    <3> QED
      BY <3>1, <3>2, <3>3
  <2> QED
    BY <2>1, <2>2, <2>3, <2>4, <2>5 DEF FolderInv
<1> QED
  BY <1>1, <1>2, <1>3, <1>4

\* A request has one folder, and one more for each attempt that broke off.
THEOREM FoldersAreFew == Spec => []FewFolders
<1>1. Init => FolderInv
  <2> SUFFICES ASSUME Init PROVE FolderInv
    OBVIOUS
  <2>1. \A r \in RequestId : LinksOf(r) = {}
    BY DEF Init, StoreInit, LinksOf
  <2> QED
    BY <2>1, FS_EmptySet DEF Init, StoreInit, FolderInv
<1>2. FolderInv => FewFolders
  BY DEF FolderInv, FewFolders, LinksOf
<1> QED
  BY <1>1, <1>2, FolderStep, Invariant, ActivityInvariant, PTL DEF Spec

-----------------------------------------------------------------------------
(* Intake and the wakeup event                                             *)

\* Only an insert gives a request its body and its row.
LEMMA BodyStep ==
    ASSUME IInv, [Next]_vars, ~ \E r \in RequestId, p \in Payload : CreateRequest(r, p)
    PROVE  /\ payload' = payload
           /\ \A r \in RequestId : status[r] = "absent" => status'[r] = "absent"
<1> USE SlotTypes, NullAssumption DEF storeVars, requestVars, TaskBusy
<1>inv. StoreTypeOK /\ SlotInv
  BY DEF IInv, TypeOK
<1>1. CASE BootStep
  BY <1>inv, <1>1 DEF BootStep, Start, RecoverInFlight, RecoverCancelled, RecoverActivity,
     BootDone, RequeueRequest, FinalizeCancelled, UpdateActivity, Interrupted, InFlight,
     RequestCancelled, StoreTypeOK
<1>2. CASE ApiStep
  BY <1>inv, <1>2 DEF ApiStep, CancelRequest, StoreCancel, CreateRepeat, StoreTypeOK
<1>3. CASE LoopStep
  BY <1>inv, <1>3 DEF LoopStep, LoopStart, LoopExit, LoopWake, LoopBackoffEnds, LoopMoves,
     LoopReclaim, ReclaimExpiredLeases, Expired, LoopLease, LeaseRequest, HeadOfQueue,
     Queued, LoopSpawnTask, LoopFreeTime, LoopIdle, LoopResume, TaskCollected, StoreTypeOK
<1>4. CASE TaskStep
  <2>1. CASE TaskMarkRunning
    BY <1>inv, <2>1 DEF TaskMarkRunning, MarkRequestRunning, SlotInv, StoreTypeOK
  <2>2. CASE TaskSettle
    BY <1>inv, <2>2 DEF TaskSettle, SettleCancelled, SettleAnswered, FinalizeCancelled,
       CompleteRequest, RequeueRequest, FailRequest, SlotInv, StoreTypeOK
  <2>3. CASE ~(TaskMarkRunning \/ TaskSettle)
    BY <1>4, <2>3 DEF TaskStep, TaskKilledAtBirth, TaskReuseActivity, TaskCreateActivity,
       QuantumCreateActivity, InsertActivity, TaskBind, BindActivityRequest, TaskActivate,
       TaskWrapUp, QuantumSettle, UpdateActivity
  <2> QED
    BY <2>1, <2>2, <2>3
<1>5. CASE TurnStep
  BY <1>inv, <1>5 DEF TurnStep, TurnAnswers, UpdateActivity, TurnCancelled, SettleCancelled,
     FinalizeCancelled, RequeueRequest, QuantumCancelled, SlotInv, StoreTypeOK
<1>6. CASE Outage \/ Tick \/ LoopRaises \/ TaskRaises
  BY <1>6 DEF Outage, ShutdownBegin, ShutdownEnd, Crash, Tick, LoopRaises, LoopBodyRaises,
     LoopResumeRaises, TaskCollected, TaskRaises, Fault
<1>7. CASE UNCHANGED vars
  BY <1>7 DEF vars
<1> QED
  BY <1>1, <1>2, <1>3, <1>4, <1>5, <1>6, <1>7 DEF Next

\* No two accepted requests share an idempotency key.
THEOREM AcceptedOnlyOnce == Spec => []AcceptedOnce
<1>1. Init => AcceptedOnce
  BY DEF Init, StoreInit, AcceptedOnce
<1>2. IInv /\ AcceptedOnce /\ [Next]_vars => AcceptedOnce'
  <2> SUFFICES ASSUME IInv, AcceptedOnce, [Next]_vars PROVE AcceptedOnce'
    OBVIOUS
  <2>1. ASSUME NEW r \in RequestId, NEW p \in Payload, CreateRequest(r, p)
        PROVE  AcceptedOnce'
    BY <2>1 DEF CreateRequest, InsertRequest, KeyHolders, AcceptedOnce, IInv, TypeOK,
       StoreTypeOK
  <2>2. CASE ~ \E r \in RequestId, p \in Payload : CreateRequest(r, p)
    BY <2>2, BodyStep DEF AcceptedOnce
  <2> QED
    BY <2>1, <2>2
<1> QED
  BY <1>1, <1>2, Invariant, PTL DEF Spec

\* Every row of the queue has the body it was inserted with.
LEMMA BodiesStep == IInv /\ Bodies /\ [Next]_vars => Bodies'
<1> SUFFICES ASSUME IInv, Bodies, [Next]_vars PROVE Bodies'
  OBVIOUS
<1>1. ASSUME NEW r \in RequestId, NEW p \in Payload, CreateRequest(r, p)
      PROVE  Bodies'
  BY <1>1 DEF CreateRequest, InsertRequest, Bodies, IInv, TypeOK, StoreTypeOK
<1>2. CASE ~ \E r \in RequestId, p \in Payload : CreateRequest(r, p)
  BY <1>2, BodyStep DEF Bodies
<1> QED
  BY <1>1, <1>2

\* It has one wherever the process died.
LEMMA BodiesInvariant == Spec => []Bodies
<1>1. Init => Bodies
  BY DEF Init, StoreInit, Bodies
<1> QED
  BY <1>1, BodiesStep, Invariant, PTL DEF Spec

\* Although deadlines are compared as texts, a lease is reclaimed at most a
\* second early, and is there to be reclaimed from a second after its deadline.
THEOREM LeasesEndOnTime == Spec => []LeaseTiming
<1>1. IInv => LeaseTiming
  BY LeasesTimed DEF IInv, TypeOK
<1> QED
  BY <1>1, Invariant, PTL

\* What the loop may lease next comes first by priority, and no request of its
\* priority that waits is more than a second older.
THEOREM QueueKeepsOrder == Spec => []QueueOrder
<1>1. IInv /\ Bodies => QueueOrder
  BY QueueOrdered DEF IInv, TypeOK
<1> QED
  BY <1>1, Invariant, BodiesInvariant, PTL

\* While priorities are bounded (models.py admits 0 to 100), a loop that finds
\* something queued can always lease it: no tie of texts leaves it without a
\* first row, however many requests there are.
THEOREM QueueNeverStuck ==
    ASSUME NEW CONSTANT most \in Nat, \A p \in Payload : p.priority <= most
    PROVE  Spec => [](Queued # {} => HeadOfQueue # {})
<1>1. IInv /\ Bodies => (Queued # {} => HeadOfQueue # {})
  BY QueueHasHead DEF IInv, TypeOK
<1> QED
  BY <1>1, Invariant, BodiesInvariant, PTL

\* With free time off every task works on a request, so the loop goes to
\* sleep only with an empty queue.
WakeInv ==
    /\ NoMissedWakeup
    /\ task # "none" => current # NULL

\* The event is cleared with an empty queue only.
LEMMA WakeStep ==
    ASSUME MaxQuanta = 0
    PROVE  IInv /\ WakeInv /\ [Next]_vars => WakeInv'
<1> SUFFICES ASSUME IInv, WakeInv, [Next]_vars PROVE WakeInv'
  OBVIOUS
<1> USE SlotTypes, NullAssumption DEF WakeInv, NoMissedWakeup, Queued
<1>inv. StoreTypeOK /\ ProcessTypeOK /\ SlotInv
  BY DEF IInv, TypeOK
<1>1. CASE BootStep
  BY <1>inv, <1>1 DEF BootStep, Start, BootRepair, RecoverInFlight, RecoverCancelled,
     RecoverActivity, BootDone, slotVars, procVars, SlotInv
<1>2. CASE ApiStep
  <2>1. ASSUME NEW r \in RequestId, CancelRequest(r)
        PROVE  WakeInv'
    BY <2>1 DEF CancelRequest, Handler
  <2>2. CASE ~ \E r \in RequestId : CancelRequest(r)
    BY <1>2, <2>2 DEF ApiStep, Handler, CreateRequest, CreateRepeat
  <2> QED
    BY <2>1, <2>2
<1>3. CASE LoopStep
  <2> USE DEF slotVars, storeVars, requestVars
  <2>1. CASE LoopStart \/ LoopExit \/ LoopWake \/ LoopBackoffEnds
    BY <2>1 DEF LoopStart, LoopExit, LoopWake, LoopBackoffEnds, LoopMoves
  <2>2. CASE LoopReclaim \/ \E r \in RequestId : LoopLease(r)
    BY <1>inv, <2>2 DEF LoopReclaim, LoopLease, SlotInv
  <2>3. CASE LoopSpawnTask \/ LoopFreeTime
    BY <1>inv, <2>3 DEF LoopSpawnTask, LoopFreeTime, SlotInv, ProcessTypeOK
  <2>4. CASE LoopIdle \/ LoopResume
    BY <1>inv, <2>4 DEF LoopIdle, LoopResume, TaskCollected, SlotInv
  <2> QED
    BY <1>3, <2>1, <2>2, <2>3, <2>4 DEF LoopStep
<1>4. CASE TaskStep \/ TurnStep
  <2>1. task # "none" /\ current' = current /\ loop' = loop
    BY <1>4 DEF TaskStep, TurnStep, TaskGoes, TaskKilledAtBirth, TaskReuseActivity,
       TaskCreateActivity, QuantumCreateActivity, TaskBind, TaskMarkRunning, TaskActivate,
       TaskSettle, TaskWrapUp, QuantumSettle, TurnAnswers, TurnCancelled, QuantumCancelled
  <2>2. loop # "sleep"
    BY <1>inv, <2>1 DEF SlotInv
  <2> QED
    BY <2>1, <2>2
<1>5. CASE Tick
  BY <1>5 DEF Tick, requestVars, slotVars
<1>6. CASE LoopRaises \/ TaskRaises
  BY <1>inv, <1>6 DEF LoopRaises, LoopBodyRaises, LoopResumeRaises, TaskCollected, LoopBusy,
     TaskRaises, TaskBusy, Fault, TaskGoes, storeVars, requestVars, SlotInv
<1>7. CASE Outage
  BY <1>7 DEF Outage, ShutdownBegin, ShutdownEnd, Crash, ProcessGone
<1>8. CASE UNCHANGED vars
  BY <1>8 DEF vars, storeVars, requestVars, slotVars
<1> QED
  BY <1>1, <1>2, <1>3, <1>4, <1>5, <1>6, <1>7, <1>8 DEF Next

\* With free time off no request waits for the poll interval: the wakeup event
\* of its arrival is still set when the loop sleeps.
THEOREM WakeupNotMissed ==
    ASSUME MaxQuanta = 0
    PROVE  Spec => []NoMissedWakeup
<1>1. Init => WakeInv
  BY DEF Init, WakeInv, NoMissedWakeup
<1>2. WakeInv => NoMissedWakeup
  BY DEF WakeInv
<1> QED
  BY <1>1, <1>2, WakeStep, Invariant, PTL DEF Spec
=============================================================================
