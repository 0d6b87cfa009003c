----------------------- MODULE AgentRuntimeRefinement -----------------------
(***************************************************************************)
(* AgentRuntime implements RequestLifecycle: with the phase of a request   *)
(* read off its status and the hand off _current_request_id, every step of *)
(* the runtime is a step of the lifecycle or changes nothing in it.        *)
(***************************************************************************)
EXTENDS AgentRuntimeSafety

\* The phase of every status a row can have.
LEMMA PhaseValues ==
    /\ PhaseOf("absent") = "absent"
    /\ PhaseOf("queued") = "waiting"
    /\ PhaseOf("leased") = "working"
    /\ PhaseOf("running") = "working"
    /\ PhaseOf("checkpointing") = "working"
    /\ PhaseOf("cancellation_requested") = "asked"
    /\ PhaseOf("cancelled") = "cancelled"
    /\ PhaseOf("completed") = "finished"
    /\ PhaseOf("failed") = "finished"
BY DEF PhaseOf, InFlight

\* A write to one status is a move of one phase ...
LEMMA PhaseMove ==
    ASSUME StoreTypeOK, NEW r \in RequestId, NEW st, NEW from,
           status' = [status EXCEPT ![r] = st], PhaseOf(status[r]) \in from
    PROVE  Lifecycle!Goes(r, from, PhaseOf(st))
BY DEF StoreTypeOK, Lifecycle!Goes

\* ... and none when both statuses have the same phase.
LEMMA PhaseStays ==
    ASSUME StoreTypeOK, NEW r \in RequestId, NEW st,
           status' = [status EXCEPT ![r] = st], PhaseOf(status[r]) = PhaseOf(st),
           current' = current
    PROVE  UNCHANGED Lifecycle!vars
BY DEF StoreTypeOK, Lifecycle!vars

\* Every step of the runtime is a step of the lifecycle or a stutter.
LEMMA RefinementStep ==
    ASSUME IInv, [Next]_vars
    PROVE  [Lifecycle!Next]_(Lifecycle!vars)
<1> USE SlotTypes, NullAssumption
<1>inv. StoreTypeOK /\ ProcessTypeOK /\ SlotInv
  BY DEF IInv, TypeOK
<1>1. ASSUME NEW r \in RequestId, NEW p \in Payload, CreateRequest(r, p)
      PROVE  Lifecycle!Accept(r)
  BY <1>1, <1>inv, PhaseMove, PhaseValues
     DEF CreateRequest, InsertRequest, Handler, Lifecycle!Accept
<1>2. ASSUME NEW r \in RequestId, CancelRequest(r)
      PROVE  Lifecycle!Withdraw(r) \/ Lifecycle!Ask(r)
  <2>1. current' = current
    BY <1>2 DEF CancelRequest, Handler
  <2>2. CASE status[r] = "queued"
    <3>1. status' = [status EXCEPT ![r] = "cancelled"]
      BY <1>2, <2>2 DEF CancelRequest, StoreCancel
    <3> QED
      BY <1>inv, <2>1, <2>2, <3>1, PhaseMove, PhaseValues DEF Lifecycle!Withdraw
  <2>3. CASE status[r] # "queued"
    <3>1. status' = [status EXCEPT ![r] = "cancellation_requested"]
      BY <1>2, <2>3 DEF CancelRequest, StoreCancel
    <3>2. status[r] \in RequestStatus \ {"queued"}
      BY <1>2, <1>inv, <2>3 DEF CancelRequest, StoreCancel, StoreTypeOK
    <3> QED
      BY <1>inv, <2>1, <3>1, <3>2, PhaseMove, PhaseValues DEF Lifecycle!Ask, RequestStatus
  <2> QED
    BY <2>2, <2>3
<1>3. ASSUME NEW r \in RequestId, RecoverInFlight(r)
      PROVE  Lifecycle!Return({r})
  <2>1. current = NULL /\ current' = current
    BY <1>inv, <1>3 DEF RecoverInFlight, BootRepair, slotVars, SlotInv
  <2>2. status[r] \in InFlight /\ status' = [status EXCEPT ![r] = "queued"]
    BY <1>3 DEF RecoverInFlight, Interrupted, RequeueRequest
  <2> QED
    BY <1>inv, <2>1, <2>2, PhaseValues DEF InFlight, StoreTypeOK, Lifecycle!Return
<1>4. ASSUME NEW r \in RequestId, RecoverCancelled(r)
      PROVE  Lifecycle!Settle(r)
  BY <1>inv, <1>4, PhaseMove, PhaseValues
     DEF RecoverCancelled, RequestCancelled, FinalizeCancelled, BootRepair, slotVars,
         Lifecycle!Settle
<1>5. ASSUME NEW r \in RequestId, LoopLease(r)
      PROVE  Lifecycle!Take(r)
  BY <1>inv, <1>5, PhaseMove, PhaseValues
     DEF LoopLease, LeaseRequest, HeadOfQueue, Queued, SlotInv, Lifecycle!Take
<1>6. CASE LoopReclaim
  <2>1. current = NULL /\ current' = current
    BY <1>inv, <1>6 DEF LoopReclaim, slotVars, SlotInv
  <2>2. status' = [r \in RequestId |-> IF r \in Expired THEN "queued" ELSE status[r]]
    BY <1>6 DEF LoopReclaim, ReclaimExpiredLeases
  <2>3. Expired \in SUBSET RequestId /\ \A r \in Expired : status[r] = "leased"
    BY DEF Expired
  <2>4. Lifecycle!Return(Expired)
    BY <2>1, <2>2, <2>3, PhaseValues DEF Lifecycle!Return
  <2> QED
    BY <2>3, <2>4 DEF Lifecycle!Next
<1>7. CASE LoopResume \/ LoopRaises \/ ShutdownEnd \/ Crash
  BY <1>7 DEF LoopResume, LoopRaises, LoopBodyRaises, LoopResumeRaises, TaskCollected,
     Fault, ShutdownEnd, Crash, ProcessGone, storeVars, requestVars, Lifecycle!LetGo,
     Lifecycle!Next
<1>8. CASE TaskMarkRunning
  <2>1. status[current] = "leased" /\ current \in RequestId /\ current' = current
    BY <1>inv, <1>8 DEF TaskMarkRunning, TaskGoes, SlotInv
  <2>2. status' = [status EXCEPT ![current] = "running"]
    BY <1>8 DEF TaskMarkRunning, MarkRequestRunning
  <2> QED
    BY <1>inv, <2>1, <2>2, PhaseStays, PhaseValues
<1>9. CASE TaskSettle \/ TurnCancelled
  <2>1. current \in RequestId /\ current' = current
    BY <1>9 DEF TaskSettle, TurnCancelled, TaskGoes
  <2>2. CASE SettleCancelled("cancelled") \/ SettleCancelled("stopped")
    <3>1. Lifecycle!Settle(current)
      BY <1>inv, <2>1, <2>2, PhaseMove, PhaseValues
         DEF SettleCancelled, FinalizeCancelled, RequestCancelled, Lifecycle!Settle
    <3> QED
      BY <2>1, <3>1 DEF Lifecycle!Next
  <2>3. CASE ~SettleCancelled("cancelled") /\ ~SettleCancelled("stopped")
    <3>1. status[current] = "running"
      BY <1>9, <1>inv, <2>1, <2>3 DEF TaskSettle, SettleAnswered, TurnCancelled,
         RequestCancelled, SlotInv
    <3>2. \/ status' = [status EXCEPT ![current] = "completed"]
          \/ status' = [status EXCEPT ![current] = "failed"]
          \/ status' = [status EXCEPT ![current] = "queued"]
      BY <1>9, <2>3 DEF TaskSettle, SettleAnswered, TurnCancelled, CompleteRequest,
         FailRequest, RequeueRequest
    <3>3. Lifecycle!Finish(current) \/ Lifecycle!PutBack(current)
      BY <1>inv, <2>1, <3>1, <3>2, PhaseMove, PhaseValues
         DEF Lifecycle!Finish, Lifecycle!PutBack
    <3> QED
      BY <2>1, <3>3 DEF Lifecycle!Next
  <2> QED
    BY <2>2, <2>3
<1>10. ASSUME UNCHANGED <<status, current>>
       PROVE  UNCHANGED Lifecycle!vars
  BY <1>10 DEF Lifecycle!vars
<1>11. CASE BootStep \/ ApiStep
  <2>1. \/ \E r \in RequestId : \/ RecoverInFlight(r) \/ RecoverCancelled(r)
                                \/ CancelRequest(r) \/ \E p \in Payload : CreateRequest(r, p)
        \/ UNCHANGED <<status, current>>
    BY <1>11 DEF BootStep, ApiStep, Start, BootDone, RecoverActivity, UpdateActivity,
       BootRepair, CreateRepeat, Handler, storeVars, requestVars, slotVars
  <2> QED
    BY <1>1, <1>2, <1>3, <1>4, <1>10, <2>1 DEF Lifecycle!Next
<1>12. CASE LoopStep
  <2>1. \/ \E r \in RequestId : LoopLease(r)
        \/ LoopReclaim \/ LoopResume
        \/ UNCHANGED <<status, current>>
    BY <1>12 DEF LoopStep, LoopStart, LoopExit, LoopWake, LoopBackoffEnds, LoopMoves,
       LoopSpawnTask, LoopFreeTime, LoopIdle, storeVars, requestVars, slotVars
  <2> QED
    BY <1>5, <1>6, <1>7, <1>10, <2>1 DEF Lifecycle!Next
<1>13. CASE TaskStep \/ TurnStep
  <2>1. \/ TaskMarkRunning \/ TaskSettle \/ TurnCancelled
        \/ UNCHANGED <<status, current>>
    BY <1>13 DEF TaskStep, TurnStep, TaskGoes, TaskKilledAtBirth, TaskReuseActivity,
       TaskCreateActivity, QuantumCreateActivity, InsertActivity, TaskBind,
       BindActivityRequest, TaskActivate, TaskWrapUp, QuantumSettle, TurnAnswers,
       QuantumCancelled, UpdateActivity, storeVars, requestVars
  <2> QED
    BY <1>8, <1>9, <1>10, <2>1
<1>14. CASE Outage \/ LoopRaises
  BY <1>7, <1>10, <1>14 DEF Outage, ShutdownBegin, storeVars, requestVars
<1>15. CASE Tick \/ TaskRaises
  BY <1>10, <1>15 DEF Tick, TaskRaises, Fault, TaskGoes, storeVars, requestVars, slotVars
<1>16. CASE UNCHANGED vars
  BY <1>10, <1>16 DEF vars, storeVars, requestVars, slotVars
<1> QED
  BY <1>11, <1>12, <1>13, <1>14, <1>15, <1>16 DEF Next

\* An empty store is an empty lifecycle.
LEMMA RefinementInit == Init => Lifecycle!Init
BY PhaseValues DEF Init, StoreInit, Lifecycle!Init

\* The runtime keeps the promise of RequestLifecycle.
THEOREM LifecycleImplemented == Spec => ImplementsLifecycle
<1>1. IInv /\ [Next]_vars => [Lifecycle!Next]_(Lifecycle!vars)
  BY RefinementStep
<1> QED
  BY <1>1, RefinementInit, Invariant, PTL DEF Spec, ImplementsLifecycle, Lifecycle!Spec
=============================================================================
