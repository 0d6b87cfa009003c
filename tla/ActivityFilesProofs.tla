------------------------ MODULE ActivityFilesProofs ------------------------
(***************************************************************************)
(* Theorems about ActivityFiles, for any instance: the files and the rows  *)
(* keep their order whatever the process dies in.                          *)
(*                                                                         *)
(* A step of ActivityFiles moves the runtime by a step of AgentRuntime, or *)
(* not at all, or breaks the attempt off because of a file.  The last is   *)
(* no step of AgentRuntime, so its invariants are taken over here first.   *)
(***************************************************************************)
EXTENDS ActivityFiles, AgentRuntimeRefinement

-----------------------------------------------------------------------------
(* The invariant                                                           *)

\* A task that has not begun has no activity.
SlotEmpty == task \in {"none", "created"} => taskAct = NULL

\* A request in hand has no answer until its attempt is settled, and then the
\* one the verdict says; its attempt ends with the activity it is bound to.
AttemptInv ==
    /\ current # NULL =>
          /\ task \notin {"wrap", "done", "raised"} => output[current] = {}
          /\ task = "done" /\ taskAct # NULL => activityId[current] = taskAct
    /\ task = "wrap" => /\ verdict = "ok" => "result" \in output[current]
                        /\ verdict = "fatal" => "error" \in output[current]

\* An answered request has an activity, and an activity a request is bound to
\* has a row unless the body named it.
RowsInv ==
    \A r \in RequestId :
        /\ output[r] # {} => activityId[r] # NULL
        /\ activityId[r] # NULL => \/ actStatus[activityId[r]] # "absent"
                                   \/ payload[r].activity = activityId[r]

\* The activity of a free-time quantum belongs to no request.
QuantumAlone ==
    current = NULL /\ taskAct # NULL =>
        \A r \in RequestId : ~(OwnActivity(r) /\ activityId[r] = taskAct)

HandInv == AnswerKept /\ SlotEmpty /\ AttemptInv /\ RowsInv /\ QuantumAlone

\* A folder is being made: its files are written one after the other.
FolderOwed ==
    /\ prepared = [Nothing EXCEPT !.act = prepared.act]
    /\ prepared.act \in ActivityId
    /\ task = "created"
    /\ \/ owed = Scaffold
       \/ owed = <<Op("checkpoint", "scaffold")>> /\ summary[prepared.act] = "scaffold"
       \/ /\ owed = <<>>
          /\ summary[prepared.act] = "scaffold" /\ checkpoint[prepared.act] = "scaffold"

\* A turn has answered: its artifacts are written before the answer is stored.
AnswerOwed ==
    /\ prepared.act = NULL
    /\ prepared \in [act : {NULL}, code : TurnCode, session : Session \cup {NULL}]
    /\ task = "turn"
    /\ \/ owed = <<Op("artifacts", prepared.code)>>
       \/ owed = <<>> /\ artifacts[taskAct] = prepared.code

\* The attempt is over; it reports an end only if the row has one.
ReportOwed ==
    /\ prepared = Nothing
    /\ task = "done" /\ taskAct # NULL
    /\ \E v, w \in Report :
          /\ \/ owed = <<Op("summary", v)>> \/ owed = <<Op("checkpoint", w)>>
             \/ owed = <<Op("summary", v), Op("checkpoint", w)>>
          /\ current # NULL /\ {v, w} \cap {"done", "failed"} # {} => output[current] # {}

\* One operation on a file that belongs to no request, or a read.
OtherOwed ==
    /\ prepared = Nothing
    /\ \E f \in {"read", "sessionMap", "layout"} : owed = <<Op(f, "session")>>

FolderTypes ==
    /\ summary \in Folder(Report)
    /\ checkpoint \in Folder(Report)
    /\ artifacts \in Folder(TurnCode)
    /\ sessionMap \in {"absent", "torn", "session"}

Owing == AtEase \/ FolderOwed \/ AnswerOwed \/ ReportOwed \/ OtherOwed

\* What is on the disk where the slot stands: the folder of an activity that
\* is about to be bound is new, and the artifacts are the verdict's.
PlaceInv ==
    /\ task = "bind" => summary[taskAct] = "scaffold" /\ checkpoint[taskAct] = "scaffold"
    /\ task = "settle" => artifacts[taskAct] = verdict

FilesInv == FolderTypes /\ Owing /\ PlaceInv /\ FilesInOrder

-----------------------------------------------------------------------------
(* The steps of the runtime under the files                                *)

\* What AttemptBreaks does to the runtime.
BrokenAttempt ==
    /\ task # "none"
    /\ TaskGoes("raised")
    /\ stranded' = stranded \cup ({current} \ {NULL})
    /\ faults' \in {faults, faults + 1}
    /\ UNCHANGED <<storeVars, taskAct, cancelled, verdict, outages, retries, quanta>>

\* What is prepared is an activity or an answer.
PreparedOK ==
    prepared \in [act : ActivityId \cup {NULL}, code : TurnCode \cup {NULL},
                  session : Session \cup {NULL}]

\* Nothing else is ever prepared.
LEMMA PreparedStep == PreparedOK /\ [FilesNext]_filesVars => PreparedOK'
<1> SUFFICES ASSUME PreparedOK, [FilesNext]_filesVars PROVE PreparedOK'
  OBVIOUS
<1> USE DEF PreparedOK, Nothing
<1>1. CASE BootAndFiles
  BY <1>1 DEF BootAndFiles, StartWithLayout, Plain, Owes
<1>2. CASE TaskAndFiles
  <2>1. ASSUME NEW a \in ActivityId, PrepareActivity(a)
        PROVE  PreparedOK'
    BY <2>1 DEF PrepareActivity
  <2>2. ASSUME NEW code \in TurnCode, NEW s \in Session \cup {NULL}, TurnReturns(code, s)
        PROVE  PreparedOK'
    BY <2>2 DEF TurnReturns
  <2>3. CASE InsertPrepared \/ StoreAnswer
    BY <2>3 DEF InsertPrepared, StoreAnswer
  <2>4. CASE ~ (\/ \E a \in ActivityId : PrepareActivity(a)
                \/ \E code \in TurnCode, s \in Session \cup {NULL} : TurnReturns(code, s)
                \/ InsertPrepared \/ StoreAnswer)
    BY <1>2, <2>4 DEF TaskAndFiles, Plain, Owes, ActivateAndRead, WrapUpAndReport,
       QuantumSettlesAndReports, QuantumCancelledReports
  <2> QED
    BY <2>1, <2>2, <2>3, <2>4
<1>3. CASE FileStep \/ WriteFails
  BY <1>3 DEF FileStep, DoNext, ReadFails, WriteFails, AttemptBreaks
<1>4. CASE DieWriting
  BY <1>4 DEF DieWriting
<1>5. CASE \/ Plain(ApiStep) \/ Plain(LoopStep) \/ Plain(ShutdownBegin) \/ Plain(ShutdownEnd)
           \/ Plain(Tick) \/ Plain(LoopRaises) \/ Plain(TaskRaises)
  BY <1>5 DEF Plain, Owes
<1>6. CASE UNCHANGED filesVars
  BY <1>6 DEF filesVars
<1> QED
  BY <1>1, <1>2, <1>3, <1>4, <1>5, <1>6 DEF FilesNext

\* The runtime moves as it does without the files, or an attempt breaks.
LEMMA RuntimeMoves ==
    ASSUME PreparedOK, [FilesNext]_filesVars
    PROVE  [Next]_vars \/ BrokenAttempt
<1>1. CASE BootAndFiles
  BY <1>1 DEF BootAndFiles, StartWithLayout, Plain, Next, BootStep
<1>2. CASE TaskAndFiles
  <2>1. CASE \/ Plain(TaskKilledAtBirth) \/ Plain(TaskReuseActivity) \/ Plain(TaskBind)
             \/ Plain(TaskMarkRunning) \/ Plain(TaskSettle) \/ Plain(TurnCancelled)
    BY <2>1 DEF Plain, Next, TaskStep, TurnStep
  <2>2. CASE \/ \E a \in ActivityId : PrepareActivity(a)
             \/ \E code \in TurnCode, s \in Session \cup {NULL} : TurnReturns(code, s)
    BY <2>2 DEF PrepareActivity, TurnReturns
  <2>3. CASE InsertPrepared
    BY <2>3 DEF InsertPrepared, PreparedOK, Next, TaskStep
  <2>4. CASE StoreAnswer
    BY <2>4 DEF StoreAnswer, PreparedOK, Next, TurnStep
  <2>5. CASE \/ ActivateAndRead \/ WrapUpAndReport \/ QuantumSettlesAndReports
             \/ QuantumCancelledReports
    BY <2>5 DEF ActivateAndRead, WrapUpAndReport, QuantumSettlesAndReports,
       QuantumCancelledReports, Next, TaskStep, TurnStep
  <2> QED
    BY <1>2, <2>1, <2>2, <2>3, <2>4, <2>5 DEF TaskAndFiles
<1>3. CASE FileStep \/ WriteFails
  BY <1>3 DEF FileStep, DoNext, ReadFails, WriteFails, AttemptBreaks, BrokenAttempt
<1>4. CASE DieWriting
  BY <1>4 DEF DieWriting, Next, Outage
<1>5. CASE \/ Plain(ApiStep) \/ Plain(LoopStep) \/ Plain(ShutdownBegin) \/ Plain(ShutdownEnd)
           \/ Plain(Tick) \/ Plain(LoopRaises) \/ Plain(TaskRaises)
  BY <1>5 DEF Plain, Next, Outage
<1>6. CASE UNCHANGED filesVars
  BY <1>6 DEF filesVars
<1> QED
  BY <1>1, <1>2, <1>3, <1>4, <1>5, <1>6 DEF FilesNext

\* A broken attempt keeps what the slot stands for ...
LEMMA BrokenInv == IInv /\ BrokenAttempt => IInv'
<1> SUFFICES ASSUME IInv, BrokenAttempt PROVE IInv'
  OBVIOUS
<1>inv. StoreTypeOK /\ ProcessTypeOK /\ SlotInv
  BY DEF IInv, TypeOK
<1>1. StoreTypeOK'
  BY <1>inv, StoreUnchangedType DEF BrokenAttempt
<1>2. ProcessTypeOK'
  <2>1. stranded' \in SUBSET RequestId
    BY <1>inv DEF BrokenAttempt, ProcessTypeOK
  <2>2. faults' \in Nat
    BY <1>inv DEF BrokenAttempt, ProcessTypeOK
  <2> QED
    BY <1>inv, <2>1, <2>2 DEF BrokenAttempt, TaskGoes, ProcessTypeOK, TaskPc, procVars,
       reportVars
<1>3. SlotInv'
  BY <1>inv DEF BrokenAttempt, TaskGoes, SlotInv, TaskBusy, RequestCancelled, procVars,
     storeVars, requestVars
<1> QED
  BY <1>1, <1>2, <1>3 DEF IInv, TypeOK

\* ... and which activity it has.
LEMMA BrokenActivity == ActivityInv /\ BrokenAttempt => ActivityInv'
BY DEF BrokenAttempt, TaskGoes, ActivityInv, TaskBusy, storeVars, requestVars, activityVars

\* So the invariants of the runtime hold under the files.
RuntimeInv == IInv /\ ActivityInv /\ PreparedOK

\* A step with files keeps them ...
LEMMA RuntimeInvStep == RuntimeInv /\ [FilesNext]_filesVars => RuntimeInv'
BY RuntimeMoves, PreparedStep, InvStep, ActivityStep, BrokenInv, BrokenActivity DEF RuntimeInv

\* ... so they hold throughout.
LEMMA RuntimeInvariant == FilesSpec => []RuntimeInv
<1>1. FilesInit => RuntimeInv
  BY InvInit DEF FilesInit, Init, StoreInit, ActivityInv, TaskBusy, RuntimeInv, PreparedOK,
     Nothing
<1> QED
  BY <1>1, RuntimeInvStep, PTL DEF FilesSpec

-----------------------------------------------------------------------------
(* What a step of the runtime may do to the rows                           *)

\* Only the settling of an attempt writes an answer.
LEMMA OutputStep ==
    ASSUME IInv, [Next]_vars, ~TaskSettle
    PROVE  output' = output
<1> USE DEF storeVars, requestVars
<1>1. CASE BootStep \/ ApiStep
  BY <1>1 DEF BootStep, Start, RecoverInFlight, RecoverCancelled, RecoverActivity, BootDone,
     RequeueRequest, FinalizeCancelled, UpdateActivity, ApiStep, CancelRequest, StoreCancel,
     CreateRequest, InsertRequest, CreateRepeat
<1>2. CASE LoopStep
  BY <1>2 DEF LoopStep, LoopStart, LoopExit, LoopWake, LoopBackoffEnds, LoopMoves,
     LoopReclaim, ReclaimExpiredLeases, LoopLease, LeaseRequest, LoopSpawnTask,
     LoopFreeTime, LoopIdle, LoopResume, TaskCollected
<1>3. CASE TaskStep \/ TurnStep
  BY <1>3 DEF TaskStep, TaskKilledAtBirth, TaskReuseActivity, TaskCreateActivity,
     QuantumCreateActivity, InsertActivity, TaskBind, BindActivityRequest, TaskMarkRunning,
     MarkRequestRunning, TaskActivate, TaskWrapUp, QuantumSettle, UpdateActivity, TurnStep,
     TurnAnswers, TurnCancelled, SettleCancelled, FinalizeCancelled, RequeueRequest,
     QuantumCancelled
<1>4. CASE Outage \/ Tick \/ LoopRaises \/ TaskRaises \/ UNCHANGED vars
  BY <1>4 DEF Outage, ShutdownBegin, ShutdownEnd, Crash, Tick, LoopRaises, LoopBodyRaises,
     LoopResumeRaises, TaskCollected, TaskRaises, Fault, vars
<1> QED
  BY <1>1, <1>2, <1>3, <1>4 DEF Next

\* Only making an activity gives it a row.
LEMMA NewRowStep ==
    ASSUME IInv, ActivityInv, [Next]_vars, NEW a \in ActivityId, actStatus[a] = "absent",
           ~TaskCreateActivity(a), ~QuantumCreateActivity(a)
    PROVE  actStatus'[a] = "absent"
<1> USE SlotTypes DEF ActivityInv, storeVars, activityVars
<1>inv. StoreTypeOK
  BY DEF IInv, TypeOK
<1>1. CASE BootStep \/ ApiStep
  BY <1>inv, <1>1 DEF BootStep, Start, RecoverInFlight, RecoverCancelled, RecoverActivity,
     LeftActive, BootDone, RequeueRequest, FinalizeCancelled, UpdateActivity, ApiStep,
     CancelRequest, StoreCancel, CreateRequest, InsertRequest, CreateRepeat, StoreTypeOK
<1>2. CASE LoopStep
  BY <1>2 DEF LoopStep, LoopStart, LoopExit, LoopWake, LoopBackoffEnds, LoopMoves,
     LoopReclaim, ReclaimExpiredLeases, LoopLease, LeaseRequest, LoopSpawnTask,
     LoopFreeTime, LoopIdle, LoopResume, TaskCollected
<1>3. CASE TaskStep
  <2>1. ASSUME NEW b \in ActivityId, TaskCreateActivity(b) \/ QuantumCreateActivity(b)
        PROVE  actStatus'[a] = "absent"
    BY <1>inv, <2>1 DEF TaskCreateActivity, QuantumCreateActivity, InsertActivity, StoreTypeOK
  <2>2. CASE TaskActivate \/ TaskWrapUp \/ QuantumSettle
    BY <1>inv, <2>2 DEF TaskActivate, TaskWrapUp, QuantumSettle, UpdateActivity, TaskBusy,
       StoreTypeOK
  <2>3. CASE \/ TaskKilledAtBirth \/ TaskReuseActivity \/ TaskBind \/ TaskMarkRunning
             \/ TaskSettle
    BY <2>3 DEF TaskKilledAtBirth, TaskReuseActivity, TaskBind, BindActivityRequest,
       TaskMarkRunning, MarkRequestRunning, TaskSettle, SettleCancelled, SettleAnswered,
       FinalizeCancelled, CompleteRequest, RequeueRequest, FailRequest
  <2> QED
    BY <1>3, <2>1, <2>2, <2>3 DEF TaskStep
<1>4. CASE TurnStep
  BY <1>inv, <1>4 DEF TurnStep, TurnAnswers, UpdateActivity, TurnCancelled, SettleCancelled,
     FinalizeCancelled, RequeueRequest, QuantumCancelled, StoreTypeOK
<1>5. CASE Outage \/ Tick \/ LoopRaises \/ TaskRaises \/ UNCHANGED vars
  BY <1>5 DEF Outage, ShutdownBegin, ShutdownEnd, Crash, Tick, LoopRaises, LoopBodyRaises,
     LoopResumeRaises, TaskCollected, TaskRaises, Fault, vars
<1> QED
  BY <1>1, <1>2, <1>3, <1>4, <1>5 DEF Next

\* A request comes to an activity of its own only by the binding of the one
\* its attempt has made; it never gets back to one it shares.
LEMMA OwnStep ==
    ASSUME IInv, ActivityInv, [Next]_vars, NEW r \in RequestId,
           OwnActivity(r)', activityId'[r] # NULL
    PROVE  \/ OwnActivity(r) /\ activityId[r] = activityId'[r]
           \/ /\ TaskBind /\ r = current
              /\ activityId[r] = NULL /\ activityId'[r] = taskAct
<1>inv. StoreTypeOK
  BY DEF IInv, TypeOK
<1>1. CASE activityId[r] # NULL
  <2>1. activityId'[r] = activityId[r]
    BY <1>1, ActivityKeptStep
  <2>2. status[r] # "absent"
    BY <1>1 DEF ActivityInv
  <2>3. payload[r].activity = NULL
    <3>1. ASSUME NEW s \in RequestId, NEW p \in Payload, CreateRequest(s, p)
          PROVE  payload'[r] = payload[r]
      BY <1>inv, <2>2, <3>1 DEF CreateRequest, InsertRequest, StoreTypeOK
    <3> QED
      BY <3>1, BodyStep DEF OwnActivity
  <2>4. \A q \in RequestId \ {r} : activityId[q] # activityId[r]
    BY <1>1, <2>1, ActivityKeptStep DEF OwnActivity
  <2> QED
    BY <2>1, <2>2, <2>3, <2>4 DEF OwnActivity
<1>2. CASE activityId[r] = NULL
  <2>1. ~ \E s \in RequestId, p \in Payload : CreateRequest(s, p)
    <3> SUFFICES ASSUME NEW s \in RequestId, NEW p \in Payload, CreateRequest(s, p)
                 PROVE  FALSE
      OBVIOUS
    <3>1. /\ activityId' = [activityId EXCEPT ![s] = p.activity]
          /\ payload' = [payload EXCEPT ![s] = p]
      BY DEF CreateRequest, InsertRequest
    <3> QED
      BY <1>inv, <1>2, <3>1 DEF OwnActivity, StoreTypeOK
  <2>2. TaskBind
    BY <1>2, <2>1, ActivityIdStep
  <2>3. activityId' = [activityId EXCEPT ![current] = taskAct]
    BY <2>2 DEF TaskBind, BindActivityRequest
  <2> QED
    BY <1>inv, <1>2, <2>2, <2>3 DEF StoreTypeOK
<1> QED
  BY <1>1, <1>2

-----------------------------------------------------------------------------
(* What the slot knows of the rows                                         *)

\* A task has an activity only once it has begun.
LEMMA SlotEmptyStep == IInv /\ SlotEmpty /\ [Next]_vars => SlotEmpty'
<1> SUFFICES ASSUME IInv, SlotEmpty, [Next]_vars PROVE SlotEmpty'
  OBVIOUS
<1> USE DEF SlotEmpty, slotVars
<1>inv. SlotInv
  BY DEF IInv
<1>1. CASE BootStep
  BY <1>1 DEF BootStep, Start, BootRepair, RecoverInFlight, RecoverCancelled, RecoverActivity,
     BootDone
<1>2. CASE ApiStep
  BY <1>2 DEF ApiStep, Handler, CancelRequest, CreateRequest, CreateRepeat
<1>3. CASE LoopStep
  BY <1>inv, <1>3 DEF LoopStep, LoopStart, LoopExit, LoopWake, LoopBackoffEnds, LoopMoves,
     LoopReclaim, LoopLease, LoopSpawnTask, LoopFreeTime, LoopIdle, LoopResume,
     TaskCollected, SlotInv
<1>4. CASE TaskStep \/ TurnStep
  BY <1>4 DEF TaskStep, TaskGoes, TaskKilledAtBirth, TaskReuseActivity, TaskCreateActivity,
     QuantumCreateActivity, TaskBind, TaskMarkRunning, TaskActivate, TaskWrapUp,
     QuantumSettle, TaskSettle, TurnStep, TurnAnswers, TurnCancelled, QuantumCancelled
<1>5. CASE Tick \/ LoopRaises \/ TaskRaises \/ UNCHANGED vars
  BY <1>5 DEF Tick, LoopRaises, LoopBodyRaises, LoopResumeRaises, TaskCollected, TaskRaises,
     Fault, TaskGoes, vars
<1>6. CASE Outage
  BY <1>6 DEF Outage, ShutdownBegin, ShutdownEnd, Crash, ProcessGone
<1> QED
  BY <1>1, <1>2, <1>3, <1>4, <1>5, <1>6 DEF Next

\* An attempt starts without an answer and keeps its activity to the end.
LEMMA AttemptStep ==
    IInv /\ ActivityInv /\ AnswerKept /\ SlotEmpty /\ AttemptInv /\ [Next]_vars => AttemptInv'
<1> SUFFICES ASSUME IInv, ActivityInv, AnswerKept, SlotEmpty, AttemptInv, [Next]_vars
             PROVE  AttemptInv'
  OBVIOUS
<1> USE SlotTypes, NullAssumption DEF AttemptInv, TaskBusy
<1>inv. StoreTypeOK /\ ProcessTypeOK /\ SlotInv
  BY DEF IInv, TypeOK
<1>1. CASE BootStep
  <2>1. task = "none" /\ current = NULL
    BY <1>inv, <1>1 DEF BootStep, Start, BootRepair, RecoverInFlight, RecoverCancelled,
       RecoverActivity, BootDone, SlotInv
  <2>2. task' = task /\ current' = current
    BY <1>1 DEF BootStep, Start, BootRepair, RecoverInFlight, RecoverCancelled,
       RecoverActivity, BootDone, slotVars
  <2> QED
    BY <2>1, <2>2
<1>2. CASE ApiStep
  <2>1. UNCHANGED <<task, current, taskAct, verdict>> /\ task # "wrap"
    BY <1>2 DEF ApiStep, CancelRequest, CreateRequest, CreateRepeat, Handler, Serving
  <2>2. output' = output
    BY <1>2, OutputStep DEF ApiStep, CancelRequest, StoreCancel, CreateRequest, InsertRequest,
       CreateRepeat, storeVars, requestVars
  <2>3. current # NULL /\ task = "done" /\ taskAct # NULL =>
            activityId'[current] = activityId[current]
    BY ActivityKeptStep
  <2> QED
    BY <2>1, <2>2, <2>3
<1>3. CASE LoopStep
  <2> USE DEF slotVars, storeVars, requestVars
  <2>1. CASE LoopStart \/ LoopExit \/ LoopWake \/ LoopBackoffEnds
    BY <2>1 DEF LoopStart, LoopExit, LoopWake, LoopBackoffEnds, LoopMoves
  <2>2. CASE LoopReclaim
    BY <1>inv, <2>2 DEF LoopReclaim, SlotInv
  <2>3. ASSUME NEW r \in RequestId, LoopLease(r)
        PROVE  AttemptInv'
    <3>1. output[r] = {} /\ output' = output
      BY <2>3 DEF LoopLease, LeaseRequest, HeadOfQueue, Queued, AnswerKept, Terminal
    <3> QED
      BY <1>inv, <2>3, <3>1 DEF LoopLease, SlotInv
  <2>4. CASE LoopSpawnTask \/ LoopFreeTime \/ LoopIdle
    BY <1>inv, <2>4 DEF LoopSpawnTask, LoopFreeTime, LoopIdle, SlotInv
  <2>5. CASE LoopResume
    BY <2>5 DEF LoopResume, TaskCollected
  <2> QED
    BY <1>3, <2>1, <2>2, <2>3, <2>4, <2>5 DEF LoopStep
<1>4. CASE TaskStep
  <2> USE DEF TaskGoes
  <2>1. CASE TaskSettle
    BY <1>inv, <2>1 DEF TaskSettle, SettleCancelled, SettleAnswered, CompleteRequest,
       RequeueRequest, FailRequest, StoreTypeOK
  <2>2. CASE TaskKilledAtBirth
    BY <2>2 DEF TaskKilledAtBirth, SlotEmpty, storeVars, requestVars
  <2>3. CASE TaskWrapUp \/ QuantumSettle
    BY <2>3 DEF TaskWrapUp, QuantumSettle, UpdateActivity, ActivityInv, requestVars
  <2>4. CASE ~(TaskSettle \/ TaskKilledAtBirth \/ TaskWrapUp \/ QuantumSettle)
    <3>1. /\ task \in {"created", "bind", "mark", "activate"} /\ current' = current
          /\ task' \in {"bind", "mark", "activate", "turn"}
      BY <1>4, <2>4 DEF TaskStep, TaskReuseActivity, TaskCreateActivity,
         QuantumCreateActivity, TaskBind, TaskMarkRunning, TaskActivate
    <3> QED
      BY <2>4, <3>1, OutputStep
  <2> QED
    BY <2>1, <2>2, <2>3, <2>4
<1>5. CASE TurnStep
  <2> USE DEF TaskGoes
  <2>1. ASSUME NEW code \in TurnCode, NEW s \in Session \cup {NULL}, TurnAnswers(code, s)
        PROVE  AttemptInv'
    BY <2>1 DEF TurnAnswers, UpdateActivity, requestVars
  <2>2. CASE TurnCancelled
    BY <2>2 DEF TurnCancelled, SettleCancelled
  <2>3. CASE QuantumCancelled
    BY <2>3 DEF QuantumCancelled
  <2> QED
    BY <1>5, <2>1, <2>2, <2>3 DEF TurnStep
<1>6. CASE Tick \/ UNCHANGED vars
  BY <1>6 DEF Tick, vars, storeVars, requestVars, slotVars
<1>7. CASE LoopRaises \/ TaskRaises
  BY <1>inv, <1>7 DEF LoopRaises, LoopBodyRaises, LoopResumeRaises, TaskCollected, LoopBusy,
     TaskRaises, Fault, TaskGoes, SlotInv
<1>8. CASE Outage
  BY <1>8 DEF Outage, ShutdownBegin, ShutdownEnd, Crash, ProcessGone, storeVars, requestVars
<1> QED
  BY <1>1, <1>2, <1>3, <1>4, <1>5, <1>6, <1>7, <1>8 DEF Next

\* An answer and a binding are backed by rows.
LEMMA RowsStep == IInv /\ ActivityInv /\ RowsInv /\ [Next]_vars => RowsInv'
<1> SUFFICES ASSUME IInv, ActivityInv, RowsInv, [Next]_vars, NEW r \in RequestId
             PROVE  /\ output'[r] # {} => activityId'[r] # NULL
                    /\ activityId'[r] # NULL => \/ actStatus'[activityId'[r]] # "absent"
                                                \/ payload'[r].activity = activityId'[r]
  BY DEF RowsInv
<1> USE SlotTypes, NullAssumption
<1>inv. StoreTypeOK /\ SlotInv
  BY DEF IInv, TypeOK
<1>1. output'[r] # {} => activityId'[r] # NULL
  <2>1. CASE TaskSettle /\ r = current
    <3>1. activityId[r] = taskAct /\ taskAct \in ActivityId
      BY <2>1 DEF TaskSettle, ActivityInv, TaskBusy
    <3> QED
      BY <3>1, ActivityKeptStep
  <2>2. CASE ~(TaskSettle /\ r = current)
    <3>1. output'[r] = output[r]
      <4>1. CASE TaskSettle
        BY <1>inv, <2>2, <4>1 DEF TaskSettle, SettleCancelled, SettleAnswered,
           FinalizeCancelled, CompleteRequest, RequeueRequest, FailRequest, StoreTypeOK
      <4> QED
        BY <4>1, OutputStep
    <3> QED
      BY <3>1, ActivityKeptStep DEF RowsInv
  <2> QED
    BY <2>1, <2>2
<1>2. CASE activityId[r] # NULL
  <2>1. activityId'[r] = activityId[r] /\ activityId[r] \in ActivityId
    BY <1>inv, <1>2, ActivityKeptStep DEF StoreTypeOK
  <2>2. payload'[r] = payload[r]
    <3>1. ASSUME NEW s \in RequestId, NEW p \in Payload, CreateRequest(s, p)
          PROVE  payload'[r] = payload[r]
      BY <1>inv, <1>2, <3>1 DEF ActivityInv, CreateRequest, InsertRequest, StoreTypeOK
    <3> QED
      BY <3>1, BodyStep
  <2> QED
    BY <1>1, <1>2, <2>1, <2>2, ActivityRowStep DEF RowsInv
<1>3. CASE activityId[r] = NULL /\ activityId'[r] # NULL
  <2>1. ASSUME NEW s \in RequestId, NEW p \in Payload, CreateRequest(s, p)
        PROVE  payload'[r].activity = activityId'[r]
    BY <1>inv, <1>3, <2>1 DEF CreateRequest, InsertRequest, StoreTypeOK
  <2>2. CASE TaskBind
    BY <1>inv, <1>3, <2>2 DEF TaskBind, BindActivityRequest, ActivityInv, TaskBusy, StoreTypeOK
  <2> QED
    BY <1>1, <1>3, <2>1, <2>2, ActivityIdStep
<1> QED
  BY <1>1, <1>2, <1>3

\* The slot is without a request and with an activity only during a quantum.
LEMMA QuantumSlotStep ==
    ASSUME IInv, SlotEmpty, [Next]_vars, current' = NULL, taskAct' # NULL
    PROVE  \/ current = NULL /\ taskAct' = taskAct
           \/ \E a \in ActivityId : QuantumCreateActivity(a) /\ taskAct' = a
<1> USE NullAssumption DEF slotVars
<1>inv. SlotInv
  BY DEF IInv
<1>1. CASE BootStep
  BY <1>1 DEF BootStep, Start, BootRepair, RecoverInFlight, RecoverCancelled, RecoverActivity,
     BootDone
<1>2. CASE ApiStep
  BY <1>2 DEF ApiStep, Handler, CancelRequest, CreateRequest, CreateRepeat
<1>3. CASE LoopStep
  BY <1>3 DEF LoopStep, LoopStart, LoopExit, LoopWake, LoopBackoffEnds, LoopMoves,
     LoopReclaim, LoopLease, LoopSpawnTask, LoopFreeTime, LoopIdle, LoopResume,
     TaskCollected
<1>4. CASE TaskStep \/ TurnStep
  BY <1>4 DEF TaskStep, TaskGoes, TaskKilledAtBirth, TaskReuseActivity, TaskCreateActivity,
     QuantumCreateActivity, TaskBind, TaskMarkRunning, TaskActivate, TaskWrapUp,
     QuantumSettle, TaskSettle, TurnStep, TurnAnswers, TurnCancelled, QuantumCancelled
<1>5. CASE Tick \/ TaskRaises \/ UNCHANGED vars
  BY <1>5 DEF Tick, TaskRaises, TaskGoes, vars
<1>6. CASE LoopRaises
  BY <1>inv, <1>6 DEF LoopRaises, LoopBodyRaises, LoopResumeRaises, TaskCollected, LoopBusy,
     SlotInv, SlotEmpty
<1>7. CASE Outage
  BY <1>7 DEF Outage, ShutdownBegin, ShutdownEnd, Crash, ProcessGone
<1> QED
  BY <1>1, <1>2, <1>3, <1>4, <1>5, <1>6, <1>7 DEF Next

\* No request comes to the activity of a quantum as to its own.
LEMMA QuantumAloneStep ==
    IInv /\ ActivityInv /\ SlotEmpty /\ RowsInv /\ QuantumAlone /\ [Next]_vars
        => QuantumAlone'
<1> SUFFICES ASSUME IInv, ActivityInv, SlotEmpty, RowsInv, QuantumAlone, [Next]_vars,
                    NEW r \in RequestId, current' = NULL, taskAct' # NULL,
                    OwnActivity(r)', activityId'[r] = taskAct'
             PROVE  FALSE
  BY DEF QuantumAlone
<1>inv. SlotInv
  BY DEF IInv
<1>1. CASE current = NULL /\ taskAct' = taskAct
  BY <1>inv, <1>1, OwnStep DEF QuantumAlone, TaskBind, SlotInv
<1>2. ASSUME NEW a \in ActivityId, QuantumCreateActivity(a), taskAct' = a
      PROVE  FALSE
  <2>1. OwnActivity(r) /\ activityId[r] = a
    BY <1>inv, <1>2, OwnStep DEF TaskBind, QuantumCreateActivity
  <2>2. actStatus[a] = "absent"
    BY <1>2 DEF QuantumCreateActivity, FreshActivities
  <2> QED
    BY <2>1, <2>2, NullAssumption DEF RowsInv, OwnActivity
<1> QED
  BY <1>1, <1>2, QuantumSlotStep

\* A broken attempt changes none of it.
LEMMA BrokenHand == HandInv /\ BrokenAttempt => HandInv'
<1> SUFFICES ASSUME HandInv, BrokenAttempt PROVE HandInv'
  OBVIOUS
<1>1. /\ task' = "raised"
      /\ UNCHANGED <<status, payload, activityId, output, actStatus, current, taskAct, verdict>>
  BY DEF BrokenAttempt, TaskGoes, storeVars, requestVars, activityVars
<1>2. AnswerKept' /\ SlotEmpty' /\ AttemptInv'
  BY <1>1 DEF HandInv, AnswerKept, SlotEmpty, AttemptInv
<1>3. RowsInv' /\ QuantumAlone'
  BY <1>1 DEF HandInv, RowsInv, QuantumAlone, OwnActivity
<1> QED
  BY <1>2, <1>3 DEF HandInv

\* So it holds under the files.
LEMMA HandStep == RuntimeInv /\ HandInv /\ [FilesNext]_filesVars => HandInv'
<1> SUFFICES ASSUME RuntimeInv, HandInv, [FilesNext]_filesVars PROVE HandInv'
  OBVIOUS
<1>1. CASE [Next]_vars
  BY <1>1, AnswerStep, SlotEmptyStep, AttemptStep, RowsStep, QuantumAloneStep
     DEF RuntimeInv, HandInv
<1>2. CASE BrokenAttempt
  BY <1>2, BrokenHand
<1> QED
  BY <1>1, <1>2, RuntimeMoves DEF RuntimeInv

\* What the slot knows of the rows, it knows throughout.
LEMMA HandInvariant == FilesSpec => []HandInv
<1>1. FilesInit => HandInv
  BY DEF FilesInit, Init, StoreInit, HandInv, AnswerKept, SlotEmpty, AttemptInv, RowsInv,
     QuantumAlone
<1> QED
  BY <1>1, HandStep, RuntimeInvariant, PTL DEF FilesSpec

-----------------------------------------------------------------------------
(* Steps that write no file                                                *)

\* What the settling of an attempt adds to the answers.
LEMMA SettleAdds ==
    ASSUME IInv, TaskSettle, NEW r \in RequestId
    PROVE  \/ output'[r] = output[r]
           \/ r = current /\ verdict = "ok" /\ output'[r] = output[r] \cup {"result"}
           \/ r = current /\ verdict = "fatal" /\ output'[r] = output[r] \cup {"error"}
<1>inv. StoreTypeOK
  BY DEF IInv, TypeOK
<1> QED
  BY <1>inv DEF TaskSettle, SettleCancelled, SettleAnswered, FinalizeCancelled,
     CompleteRequest, RequeueRequest, FailRequest, StoreTypeOK

\* The order of files and rows survives any step of the runtime, given that an
\* activity is made only when its folder is.
LEMMA OrderStep ==
    ASSUME RuntimeInv, HandInv, FilesInv, [Next]_vars, UNCHANGED files,
           \A a \in ActivityId :
               TaskCreateActivity(a) \/ QuantumCreateActivity(a) =>
                   summary[a] # "absent" /\ checkpoint[a] # "absent"
    PROVE  FilesInOrder'
<1> USE NullAssumption DEF RuntimeInv, HandInv, FilesInv, files
<1>1. ASSUME NEW a \in ActivityId, actStatus'[a] # "absent"
      PROVE  summary'[a] # "absent" /\ checkpoint'[a] # "absent"
  BY <1>1, NewRowStep DEF FilesInOrder, RowsHaveFiles
<1>2. ASSUME NEW r \in RequestId
      PROVE  \/ output'[r] = output[r]
             \/ /\ TaskSettle /\ r = current
                /\ \/ verdict = "ok" /\ output'[r] = output[r] \cup {"result"}
                   \/ verdict = "fatal" /\ output'[r] = output[r] \cup {"error"}
  BY <1>2, OutputStep, SettleAdds
<1>3. ASSUME NEW r \in RequestId, OwnActivity(r)', activityId'[r] # NULL
      PROVE  \/ OwnActivity(r) /\ activityId[r] = activityId'[r]
             \/ /\ TaskBind /\ r = current /\ activityId'[r] = taskAct
                /\ output'[r] = {}
  <2>1. CASE OwnActivity(r) /\ activityId[r] = activityId'[r]
    BY <2>1
  <2>2. CASE TaskBind /\ r = current /\ activityId'[r] = taskAct
    BY <1>3, <2>2 DEF TaskBind, BindActivityRequest, AttemptInv
  <2> QED
    BY <1>3, <2>1, <2>2, OwnStep
<1>4. ASSUME NEW r \in RequestId, TaskSettle, r = current
      PROVE  /\ activityId'[r] = taskAct /\ artifacts'[taskAct] = verdict
             /\ output[r] = {}
  <2>1. activityId[r] = taskAct /\ output[r] = {} /\ artifacts[taskAct] = verdict
    BY <1>4 DEF TaskSettle, ActivityInv, AttemptInv, PlaceInv
  <2>2. activityId[r] # NULL
    BY <1>4, <2>1, SlotTypes DEF TaskSettle, TaskBusy
  <2> QED
    BY <2>1, <2>2, ActivityKeptStep
<1>5. ASSUME NEW r \in RequestId, OwnActivity(r)'
      PROVE  /\ "result" \in output'[r] => artifacts'[activityId'[r]] = "ok"
             /\ "error" \in output'[r] => artifacts'[activityId'[r]] = "fatal"
  <2>1. CASE TaskSettle /\ r = current
    <3>1. /\ activityId'[r] = taskAct /\ artifacts'[taskAct] = verdict
          /\ output[r] = {}
      BY <1>4, <2>1
    <3> QED
      BY <1>2, <3>1
  <2>2. CASE ~(TaskSettle /\ r = current)
    <3>1. output'[r] = output[r]
      BY <1>2, <2>2
    <3>2. output'[r] # {} => activityId'[r] # NULL
      BY RowsStep DEF RowsInv
    <3> QED
      BY <1>3, <1>5, <3>1, <3>2 DEF FilesInOrder, RowsHaveFiles
  <2> QED
    BY <2>1, <2>2
<1>6. ASSUME NEW r \in RequestId, activityId'[r] # NULL, OwnActivity(r)',
             \/ checkpoint'[activityId'[r]] = "done"
             \/ summary'[activityId'[r]] \in {"done", "failed"}
      PROVE  output'[r] # {}
  <2>1. CASE OwnActivity(r) /\ activityId[r] = activityId'[r]
    BY <1>2, <1>6, <2>1 DEF FilesInOrder, ReportsFollowRows
  <2>2. CASE TaskBind /\ activityId'[r] = taskAct
    BY <1>6, <2>2 DEF TaskBind, PlaceInv
  <2> QED
    BY <1>3, <1>6, <2>1, <2>2
<1> QED
  BY <1>1, <1>5, <1>6 DEF FilesInOrder, RowsHaveFiles, ReportsFollowRows

\* A verdict is given by the turn's answer and stays until it is settled.
LEMMA VerdictStep ==
    ASSUME [Next]_vars, task' = "settle", ~(task = "turn")
    PROVE  UNCHANGED <<task, taskAct, verdict>>
<1> USE DEF slotVars
<1>1. CASE BootStep
  BY <1>1 DEF BootStep, Start, BootRepair, RecoverInFlight, RecoverCancelled, RecoverActivity,
     BootDone
<1>2. CASE ApiStep
  BY <1>2 DEF ApiStep, Handler, CancelRequest, CreateRequest, CreateRepeat
<1>3. CASE LoopStep
  BY <1>3 DEF LoopStep, LoopStart, LoopExit, LoopWake, LoopBackoffEnds, LoopMoves,
     LoopReclaim, LoopLease, LoopSpawnTask, LoopFreeTime, LoopIdle, LoopResume,
     TaskCollected
<1>4. CASE TaskStep \/ TurnStep
  BY <1>4 DEF TaskStep, TaskGoes, TaskKilledAtBirth, TaskReuseActivity, TaskCreateActivity,
     QuantumCreateActivity, TaskBind, TaskMarkRunning, TaskActivate, TaskWrapUp,
     QuantumSettle, TaskSettle, TurnStep, TurnAnswers, TurnCancelled, QuantumCancelled
<1>5. CASE Tick \/ LoopRaises \/ TaskRaises \/ UNCHANGED vars
  BY <1>5 DEF Tick, LoopRaises, LoopBodyRaises, LoopResumeRaises, TaskCollected, TaskRaises,
     Fault, TaskGoes, vars
<1>6. CASE Outage
  BY <1>6 DEF Outage, ShutdownBegin, ShutdownEnd, Crash, ProcessGone
<1> QED
  BY <1>1, <1>2, <1>3, <1>4, <1>5, <1>6 DEF Next

\* A step that makes no activity and stores no answer leaves files and rows in
\* order.
LEMMA QuietStep ==
    ASSUME RuntimeInv, HandInv, FilesInv, [Next]_vars, UNCHANGED files,
           task = "created" => task' \notin {"bind", "activate"},
           task = "turn" => task' # "settle"
    PROVE  FolderTypes' /\ PlaceInv' /\ FilesInOrder'
<1>1. \A a \in ActivityId : ~TaskCreateActivity(a) /\ ~QuantumCreateActivity(a)
  BY DEF TaskCreateActivity, QuantumCreateActivity, TaskGoes
<1>2. FilesInOrder'
  BY <1>1, OrderStep
<1>3. FolderTypes'
  BY DEF FilesInv, FolderTypes, files
<1>4. ASSUME task' = "bind"
      PROVE  task = "bind" /\ taskAct' = taskAct
  <2>1. ~TaskBind
    BY <1>4 DEF TaskBind, TaskGoes
  <2> QED
    BY <1>1, <1>4, <2>1, UnboundStep DEF RuntimeInv
<1>5. PlaceInv'
  BY <1>4, VerdictStep DEF FilesInv, PlaceInv, files
<1> QED
  BY <1>2, <1>3, <1>5

-----------------------------------------------------------------------------
(* Steps that write a file                                                 *)

\* What may be written to a file: its type, and what the rows ask for.
ContentFits(f, v) ==
    /\ f \in {"summary", "checkpoint"} => v \in Report \cup {"torn"}
    /\ f = "artifacts" => v \in TurnCode \cup {"torn"}
    /\ f \in {"sessionMap", "layout"} => v \in {"session", "torn"}

AnswersFit(f, v) ==
    \A r \in RequestId :
        OwnActivity(r) /\ activityId[r] = Writing =>
            /\ f \in {"summary", "checkpoint"} /\ v \in {"done", "failed"} => output[r] # {}
            /\ f = "artifacts" => output[r] = {}

\* The operation that is owed first fits, and so does tearing its file.
LEMMA HeadFits ==
    ASSUME RuntimeInv, HandInv, FilesInv, owed # <<>>
    PROVE  LET f == Head(owed).file
               v == Head(owed).for
           IN  /\ ContentFits(f, v) /\ AnswersFit(f, v)
               /\ ContentFits(f, "torn") /\ AnswersFit(f, "torn")
<1> DEFINE f == Head(owed).file
           v == Head(owed).for
<1> USE NullAssumption, CodeAssumption
<1>own. ASSUME NEW r \in RequestId, OwnActivity(r), activityId[r] = Writing, taskAct # NULL,
               current # NULL => current \in RequestId /\ activityId[current] = taskAct
        PROVE  r = current
  BY <1>own DEF HandInv, QuantumAlone, OwnActivity, Writing
<1>cur. current # NULL => current \in RequestId
  BY SlotTypes DEF RuntimeInv
<1>1. CASE FolderOwed
  <2>1. f \in {"summary", "checkpoint"} /\ v = "scaffold"
    BY <1>1 DEF FolderOwed, Scaffold, Op
  <2> QED
    BY <2>1 DEF ContentFits, AnswersFit, Report
<1>2. CASE AnswerOwed
  <2>1. f = "artifacts" /\ v \in TurnCode /\ task = "turn"
    BY <1>2 DEF AnswerOwed, Op
  <2>2. /\ taskAct # NULL
        /\ current # NULL => activityId[current] = taskAct /\ output[current] = {}
    BY <2>1, SlotTypes DEF RuntimeInv, ActivityInv, HandInv, AttemptInv
  <2>3. ASSUME NEW r \in RequestId, OwnActivity(r), activityId[r] = Writing
        PROVE  output[r] = {}
    BY <1>own, <1>cur, <2>2, <2>3
  <2> QED
    BY <2>1, <2>3 DEF ContentFits, AnswersFit
<1>3. CASE ReportOwed
  <2>0. PICK x, y \in Report :
            /\ \/ owed = <<Op("summary", x)>> \/ owed = <<Op("checkpoint", y)>>
               \/ owed = <<Op("summary", x), Op("checkpoint", y)>>
            /\ current # NULL /\ {x, y} \cap {"done", "failed"} # {} => output[current] # {}
    BY <1>3 DEF ReportOwed
  <2>1. PICK w \in {x, y} : f \in {"summary", "checkpoint"} /\ v = w
    <3>1. CASE owed = <<Op("checkpoint", y)>>
      BY <3>1 DEF Op
    <3>2. CASE \/ owed = <<Op("summary", x)>>
               \/ owed = <<Op("summary", x), Op("checkpoint", y)>>
      BY <3>2 DEF Op
    <3> QED
      BY <2>0, <3>1, <3>2
  <2>a. current # NULL /\ w \in {"done", "failed"} => output[current] # {}
    BY <2>0
  <2>2. taskAct # NULL /\ (current # NULL => activityId[current] = taskAct)
    BY <1>3 DEF ReportOwed, HandInv, AttemptInv
  <2>3. ASSUME NEW r \in RequestId, OwnActivity(r), activityId[r] = Writing,
               v \in {"done", "failed"}
        PROVE  output[r] # {}
    BY <1>own, <1>cur, <2>1, <2>a, <2>2, <2>3
  <2> QED
    BY <2>1, <2>3 DEF ContentFits, AnswersFit
<1>4. CASE OtherOwed
  <2>1. f \in {"read", "sessionMap", "layout"} /\ v = "session"
    BY <1>4 DEF OtherOwed, Op
  <2> QED
    BY <2>1 DEF ContentFits, AnswersFit
<1>5. ~AtEase
  BY DEF AtEase
<1> QED
  BY <1>1, <1>2, <1>3, <1>4, <1>5 DEF FilesInv, Owing

\* A write that fits keeps the types and the order.
LEMMA PutStep ==
    ASSUME NEW f, NEW v, Put(f, v), ContentFits(f, v), AnswersFit(f, v),
           FolderTypes, FilesInOrder, activityId \in [RequestId -> ActivityId \cup {NULL}],
           UNCHANGED <<status, payload, activityId, output, actStatus>>
    PROVE  FolderTypes' /\ FilesInOrder'
<1>1. /\ summary' \in Folder(Report) /\ checkpoint' \in Folder(Report)
      /\ artifacts' \in Folder(TurnCode) /\ sessionMap' \in {"absent", "torn", "session"}
  BY DEF Put, ContentFits, FolderTypes, Folder
<1>2. ASSUME NEW a \in ActivityId
      PROVE  /\ summary[a] # "absent" => summary'[a] # "absent"
             /\ checkpoint[a] # "absent" => checkpoint'[a] # "absent"
  BY DEF Put, ContentFits, FolderTypes, Folder, Report
<1>3. ASSUME NEW r \in RequestId, OwnActivity(r), output[r] # {}
      PROVE  artifacts'[activityId[r]] = artifacts[activityId[r]]
  BY <1>3 DEF Put, AnswersFit, FolderTypes, Folder
<1>4. ASSUME NEW r \in RequestId, OwnActivity(r), activityId[r] \in ActivityId, output[r] = {},
             ~ (checkpoint[activityId[r]] = "done"),
             summary[activityId[r]] \notin {"done", "failed"}
      PROVE  /\ ~ (checkpoint'[activityId[r]] = "done")
             /\ summary'[activityId[r]] \notin {"done", "failed"}
  BY <1>4 DEF Put, AnswersFit, FolderTypes, Folder
<1>5. ASSUME NEW r \in RequestId
      PROVE  OwnActivity(r)' <=> OwnActivity(r)
  BY DEF OwnActivity
<1>6. RowsHaveFiles'
  <2>1. ASSUME NEW r \in RequestId, OwnActivity(r)'
        PROVE  /\ "result" \in output'[r] => artifacts'[activityId'[r]] = "ok"
               /\ "error" \in output'[r] => artifacts'[activityId'[r]] = "fatal"
    BY <1>3, <1>5, <2>1 DEF FilesInOrder, RowsHaveFiles
  <2> QED
    BY <1>2, <2>1 DEF FilesInOrder, RowsHaveFiles
<1>7. ASSUME NEW r \in RequestId, activityId'[r] # NULL, OwnActivity(r)',
             \/ checkpoint'[activityId'[r]] = "done"
             \/ summary'[activityId'[r]] \in {"done", "failed"}
      PROVE  output'[r] # {}
  <2>1. OwnActivity(r) /\ activityId[r] \in ActivityId
    BY <1>5, <1>7
  <2>2. SUFFICES ASSUME output[r] = {} PROVE FALSE
    OBVIOUS
  <2>3. /\ ~ (checkpoint[activityId[r]] = "done")
        /\ summary[activityId[r]] \notin {"done", "failed"}
    BY <1>7, <2>1, <2>2 DEF FilesInOrder, ReportsFollowRows
  <2> QED
    BY <1>4, <1>7, <2>1, <2>2, <2>3
<1> QED
  BY <1>1, <1>6, <1>7 DEF FolderTypes, FilesInOrder, ReportsFollowRows

\* The operation that is owed first is done, and the rest is owed.
LEMMA DoNextStep == RuntimeInv /\ HandInv /\ FilesInv /\ DoNext => FilesInv'
<1> SUFFICES ASSUME RuntimeInv, HandInv, FilesInv, DoNext PROVE FilesInv'
  OBVIOUS
<1> USE NullAssumption
<1> DEFINE f == Head(owed).file
           v == Head(owed).for
<1>inv. StoreTypeOK /\ FolderTypes /\ FilesInOrder /\ PlaceInv /\ SlotEmpty
  BY DEF RuntimeInv, IInv, TypeOK, FilesInv, HandInv
<1>do. Put(f, v) /\ owed # <<>> /\ owed' = Tail(owed)
  BY DEF DoNext
<1>same. UNCHANGED <<status, payload, activityId, output, actStatus, task, current, taskAct,
                     verdict, prepared>>
  BY DEF DoNext, vars, storeVars, requestVars, activityVars, slotVars
<1>1. FolderTypes' /\ FilesInOrder'
  BY <1>inv, <1>do, <1>same, HeadFits, PutStep DEF StoreTypeOK
<1>2. CASE FolderOwed
  <2>1. Writing = prepared.act /\ prepared.act \in ActivityId /\ v = "scaffold"
    BY <1>2, <1>inv, <1>do DEF FolderOwed, SlotEmpty, Writing, Scaffold, Op
  <2>2. ASSUME owed = Scaffold
        PROVE  FolderOwed'
    <3>1. f = "summary" /\ owed' = <<Op("checkpoint", "scaffold")>>
      BY <1>do, <2>2 DEF Scaffold, Op
    <3>2. summary'[prepared.act] = "scaffold"
      BY <1>do, <1>inv, <2>1, <3>1 DEF Put, FolderTypes, Folder
    <3> QED
      BY <1>2, <1>same, <3>1, <3>2 DEF FolderOwed, Nothing
  <2>3. ASSUME owed = <<Op("checkpoint", "scaffold")>>, summary[prepared.act] = "scaffold"
        PROVE  FolderOwed'
    <3>1. f = "checkpoint" /\ owed' = <<>>
      BY <1>do, <2>3 DEF Op
    <3>2. checkpoint'[prepared.act] = "scaffold" /\ summary'[prepared.act] = "scaffold"
      BY <1>do, <1>inv, <2>1, <2>3, <3>1 DEF Put, FolderTypes, Folder
    <3> QED
      BY <1>2, <1>same, <3>1, <3>2 DEF FolderOwed, Nothing
  <2>4. FolderOwed'
    BY <1>2, <1>do, <2>2, <2>3 DEF FolderOwed
  <2> QED
    BY <1>1, <2>4 DEF FilesInv, Owing, FolderOwed, PlaceInv
<1>3. CASE AnswerOwed
  <2>0. owed = <<Op("artifacts", prepared.code)>>
    BY <1>do, <1>3 DEF AnswerOwed
  <2>1. f = "artifacts" /\ v = prepared.code /\ owed' = <<>>
    BY <1>do, <2>0 DEF Op
  <2>2. taskAct # NULL /\ taskAct \in ActivityId
    BY <1>3, SlotTypes DEF AnswerOwed, RuntimeInv, ActivityInv
  <2>3. artifacts'[taskAct] = prepared.code
    BY <1>do, <1>inv, <2>1, <2>2 DEF Put, Writing, FolderTypes, Folder
  <2>4. AnswerOwed'
    BY <1>3, <1>same, <2>1, <2>3 DEF AnswerOwed
  <2> QED
    BY <1>1, <2>4 DEF FilesInv, Owing, AnswerOwed, PlaceInv
<1>4. CASE ReportOwed
  <2>0. PICK x, y \in Report :
            /\ \/ owed = <<Op("summary", x)>> \/ owed = <<Op("checkpoint", y)>>
               \/ owed = <<Op("summary", x), Op("checkpoint", y)>>
            /\ current # NULL /\ {x, y} \cap {"done", "failed"} # {} => output[current] # {}
    BY <1>4 DEF ReportOwed
  <2>1. owed' = <<>> \/ owed' = <<Op("checkpoint", y)>>
    <3>1. ASSUME NEW o, owed = <<o>>
          PROVE  owed' = <<>>
      BY <1>do, <3>1
    <3>2. ASSUME NEW o, NEW q, owed = <<o, q>>
          PROVE  owed' = <<q>>
      BY <1>do, <3>2
    <3> QED
      BY <2>0, <3>1, <3>2
  <2>2. prepared' = Nothing /\ task' = "done" /\ taskAct' # NULL
    BY <1>4, <1>same DEF ReportOwed, Nothing
  <2>3. Owing'
    <3>1. CASE owed' = <<>>
      BY <2>2, <3>1 DEF Owing, AtEase, Nothing
    <3>2. CASE owed' = <<Op("checkpoint", y)>>
      <4>1. current' # NULL /\ {x, y} \cap {"done", "failed"} # {} => output'[current'] # {}
        BY <1>same, <2>0
      <4>2. ReportOwed'
        BY <2>2, <3>2, <4>1 DEF ReportOwed, Op, Nothing
      <4> QED
        BY <4>2 DEF Owing
    <3> QED
      BY <2>1, <3>1, <3>2
  <2> QED
    BY <1>1, <2>2, <2>3 DEF FilesInv, PlaceInv
<1>5. CASE OtherOwed
  <2>1. f \in {"read", "sessionMap", "layout"} /\ owed' = <<>>
    BY <1>do, <1>5 DEF OtherOwed, Op
  <2>2. UNCHANGED <<summary, checkpoint, artifacts>>
    BY <1>do, <2>1 DEF Put
  <2>3. AtEase'
    BY <1>5, <1>same, <2>1 DEF OtherOwed, AtEase, Nothing
  <2>4. PlaceInv'
    BY <1>inv, <1>same, <2>2 DEF PlaceInv
  <2> QED
    BY <1>1, <2>3, <2>4 DEF FilesInv, Owing
<1>6. ~AtEase
  BY <1>do DEF AtEase
<1> QED
  BY <1>2, <1>3, <1>4, <1>5, <1>6 DEF FilesInv, Owing

\* A file is torn, or missing, and the attempt or the process is gone.
LEMMA TornStep ==
    RuntimeInv /\ HandInv /\ FilesInv /\ (ReadFails \/ WriteFails \/ DieWriting) => FilesInv'
<1> SUFFICES ASSUME RuntimeInv, HandInv, FilesInv, ReadFails \/ WriteFails \/ DieWriting
             PROVE  FilesInv'
  OBVIOUS
<1>inv. StoreTypeOK /\ FolderTypes /\ FilesInOrder
  BY DEF RuntimeInv, IInv, TypeOK, FilesInv
<1>1. /\ UNCHANGED <<status, payload, activityId, output, actStatus>>
      /\ task' \in {"raised", "none"} /\ AtEase'
  BY DEF ReadFails, WriteFails, AttemptBreaks, TaskGoes, DieWriting, Crash, ProcessGone,
     storeVars, requestVars, activityVars, AtEase, Nothing
<1>2. FolderTypes' /\ FilesInOrder'
  <2>1. CASE UNCHANGED files
    BY <1>inv, <1>1, <2>1 DEF files, FolderTypes, FilesInOrder, RowsHaveFiles,
       ReportsFollowRows, OwnActivity
  <2>2. CASE owed # <<>> /\ Put(Head(owed).file, "torn")
    BY <1>inv, <1>1, <2>2, HeadFits, PutStep DEF StoreTypeOK
  <2> QED
    BY <2>1, <2>2 DEF ReadFails, WriteFails, DieWriting
<1> QED
  BY <1>1, <1>2 DEF FilesInv, Owing, PlaceInv

-----------------------------------------------------------------------------
(* Steps between the files                                                 *)

\* The coroutine turns to its files before it commits.
LEMMA PrepareStep ==
    ASSUME FilesInv, UNCHANGED <<vars, files>>, FolderOwed' \/ AnswerOwed'
    PROVE  FilesInv'
BY DEF FilesInv, FolderTypes, Owing, PlaceInv, FilesInOrder, RowsHaveFiles, ReportsFollowRows,
   OwnActivity, vars, files, storeVars, requestVars, activityVars, slotVars

\* The row of an activity is inserted when its folder is there.
LEMMA InsertStep == RuntimeInv /\ HandInv /\ FilesInv /\ InsertPrepared => FilesInv'
<1> SUFFICES ASSUME RuntimeInv, HandInv, FilesInv, InsertPrepared PROVE FilesInv'
  OBVIOUS
<1> USE NullAssumption DEF files
<1>1. /\ owed = <<>> /\ prepared.act \in ActivityId
      /\ summary[prepared.act] = "scaffold" /\ checkpoint[prepared.act] = "scaffold"
  BY DEF InsertPrepared, FilesInv, Owing, AtEase, FolderOwed, AnswerOwed, ReportOwed,
     OtherOwed, Nothing, Scaffold, Op
<1>2. [Next]_vars
  BY <1>1 DEF InsertPrepared, Next, TaskStep
<1>3. /\ taskAct' = prepared.act /\ task' \in {"bind", "activate"} /\ task = "created"
      /\ actStatus[prepared.act] = "absent" /\ actStatus' # actStatus
  <2>1. StoreTypeOK
    BY DEF RuntimeInv, IInv, TypeOK
  <2>2. CASE TaskCreateActivity(prepared.act)
    BY <1>1, <2>1, <2>2 DEF TaskCreateActivity, TaskGoes, NewActivityFor, FreshActivities,
       InsertActivity, StoreTypeOK
  <2>3. CASE QuantumCreateActivity(prepared.act)
    BY <1>1, <2>1, <2>3 DEF QuantumCreateActivity, TaskGoes, FreshActivities,
       InsertActivity, StoreTypeOK
  <2> QED
    BY <2>2, <2>3 DEF InsertPrepared
<1>4. ASSUME NEW a \in ActivityId, TaskCreateActivity(a) \/ QuantumCreateActivity(a)
      PROVE  a = prepared.act
  BY <1>3, <1>4 DEF TaskCreateActivity, QuantumCreateActivity
<1>5. FilesInOrder'
  BY <1>1, <1>2, <1>4, OrderStep DEF InsertPrepared
<1>6. FolderTypes' /\ PlaceInv' /\ AtEase'
  BY <1>1, <1>3 DEF FilesInv, FolderTypes, PlaceInv, AtEase, InsertPrepared, Nothing
<1> QED
  BY <1>5, <1>6 DEF FilesInv, Owing

\* The answer is stored when its artifacts are there.
LEMMA StoreStep == RuntimeInv /\ HandInv /\ FilesInv /\ StoreAnswer => FilesInv'
<1> SUFFICES ASSUME RuntimeInv, HandInv, FilesInv, StoreAnswer PROVE FilesInv'
  OBVIOUS
<1> USE NullAssumption DEF files
<1>1. /\ owed = <<>> /\ prepared.code \in TurnCode /\ prepared.session \in Session \cup {NULL}
      /\ artifacts[taskAct] = prepared.code /\ task = "turn"
  BY DEF StoreAnswer, FilesInv, Owing, AtEase, FolderOwed, AnswerOwed, ReportOwed,
     OtherOwed, Nothing, Op
<1>2. TurnAnswers(prepared.code, prepared.session)
  BY DEF StoreAnswer
<1>3. [Next]_vars
  BY <1>1, <1>2 DEF Next, TurnStep
<1>4. task' = "settle" /\ taskAct' = taskAct /\ verdict' = prepared.code
  BY <1>2 DEF TurnAnswers, TaskGoes
<1>5. FilesInOrder'
  BY <1>1, <1>3, OrderStep DEF StoreAnswer, TaskCreateActivity, QuantumCreateActivity
<1>6. FolderTypes' /\ PlaceInv'
  BY <1>1, <1>4 DEF FilesInv, FolderTypes, PlaceInv, StoreAnswer
<1>7. AtEase' \/ OtherOwed'
  BY DEF StoreAnswer, AtEase, OtherOwed, Op, Nothing
<1> QED
  BY <1>5, <1>6, <1>7 DEF FilesInv, Owing

\* The attempt is over: a report of an end is owed only with its answer stored.
LEMMA ReportStep ==
    /\ RuntimeInv /\ HandInv /\ FilesInv
    /\ WrapUpAndReport \/ QuantumSettlesAndReports \/ QuantumCancelledReports
    => FilesInv'
<1> SUFFICES ASSUME RuntimeInv, HandInv, FilesInv,
                    WrapUpAndReport \/ QuantumSettlesAndReports \/ QuantumCancelledReports
             PROVE  FilesInv'
  OBVIOUS
<1> DEFINE Reported(x, y) ==
        /\ \/ owed' = <<Op("summary", x)>> \/ owed' = <<Op("checkpoint", y)>>
           \/ owed' = <<Op("summary", x), Op("checkpoint", y)>>
        /\ current # NULL /\ {x, y} \cap {"done", "failed"} # {} => output[current] # {}
<1>1. /\ [Next]_vars /\ task \in {"wrap", "settle", "turn"} /\ task' = "done"
      /\ current' = current /\ taskAct' = taskAct /\ output' = output
      /\ prepared = Nothing /\ prepared' = Nothing /\ UNCHANGED files
  BY DEF WrapUpAndReport, QuantumSettlesAndReports, QuantumCancelledReports, AtEase, Owes,
     TaskWrapUp, QuantumSettle, QuantumCancelled, UpdateActivity, TaskGoes, Next, TaskStep,
     TurnStep, requestVars, Nothing
<1>2. taskAct # NULL
  BY <1>1, SlotTypes, NullAssumption DEF RuntimeInv, TaskBusy
<1>3. FolderTypes' /\ PlaceInv' /\ FilesInOrder'
  BY <1>1, QuietStep
<1>4. ASSUME NEW x \in Report, NEW y \in Report, Reported(x, y)
      PROVE  ReportOwed'
  BY <1>1, <1>2, <1>4 DEF ReportOwed, Op, Nothing
<1>5. ReportOwed' \/ AtEase'
  <2>1. CASE WrapUpAndReport
    <3>0. task = "wrap" /\ owed' = Reports
      BY <2>1 DEF WrapUpAndReport, TaskWrapUp, Owes
    <3>1. CASE verdict = "ok"
      <4>1. Reported("done", "done")
        BY <3>0, <3>1 DEF Reports, HandInv, AttemptInv
      <4> QED
        BY <1>4, <4>1 DEF Report
    <3>2. CASE verdict = "recoverable"
      <4>1. Reported("retry", "retry")
        BY <3>0, <3>2 DEF Reports
      <4> QED
        BY <1>4, <4>1 DEF Report
    <3>3. CASE verdict = "fatal"
      <4>1. Reported("failed", "failed")
        BY <3>0, <3>3 DEF Reports, HandInv, AttemptInv
      <4> QED
        BY <1>4, <4>1 DEF Report
    <3>4. CASE verdict = "interrupted"
      <4>1. Reported("interrupted", "interrupted")
        BY <3>0, <3>4 DEF Reports
      <4> QED
        BY <1>4, <4>1 DEF Report
    <3>5. CASE verdict = "cancelled"
      <4>1. Reported("cancelled", "cancelled")
        BY <3>0, <3>5 DEF Reports
      <4> QED
        BY <1>4, <4>1 DEF Report
    <3>6. CASE verdict \notin {"ok", "recoverable", "fatal", "interrupted", "cancelled"}
      BY <1>1, <3>0, <3>6 DEF Reports, AtEase, Nothing
    <3> QED
      BY <3>1, <3>2, <3>3, <3>4, <3>5, <3>6
  <2>2. CASE QuantumSettlesAndReports
    <3>0. /\ current = NULL
          /\ owed' = IF Queued # {}
                     THEN <<Op("summary", "yielded"), Op("checkpoint", "yielded")>>
                     ELSE <<Op("summary", "done")>>
      BY <2>2 DEF QuantumSettlesAndReports, QuantumSettle, Owes
    <3>1. Reported("yielded", "yielded") \/ Reported("done", "done")
      BY <3>0
    <3> QED
      BY <1>4, <3>1 DEF Report
  <2>3. CASE QuantumCancelledReports
    <3>1. Reported("interrupted", "interrupted")
      BY <2>3 DEF QuantumCancelledReports, QuantumCancelled, Owes
    <3> QED
      BY <1>4, <3>1 DEF Report
  <2> QED
    BY <2>1, <2>2, <2>3
<1> QED
  BY <1>3, <1>5 DEF FilesInv, Owing

\* Steps that owe nothing, a read or the layout.
LEMMA EaseStep ==
    ASSUME RuntimeInv, HandInv, FilesInv, [Next]_vars, UNCHANGED files, AtEase' \/ OtherOwed',
           task = "created" => task' \notin {"bind", "activate"},
           task = "turn" => task' # "settle"
    PROVE  FilesInv'
BY QuietStep DEF FilesInv, Owing

\* All of them together.
LEMMA FilesStep == RuntimeInv /\ HandInv /\ FilesInv /\ [FilesNext]_filesVars => FilesInv'
<1> SUFFICES ASSUME RuntimeInv, HandInv, FilesInv, [FilesNext]_filesVars PROVE FilesInv'
  OBVIOUS
<1> USE DEF slotVars
<1>eased. ASSUME Owes(<<>>), AtEase
          PROVE  AtEase' /\ UNCHANGED files
  BY <1>eased DEF Owes, AtEase, Nothing
<1>1. CASE BootAndFiles
  <2>1. UNCHANGED files /\ (AtEase' \/ OtherOwed')
    <3>1. CASE StartWithLayout
      BY <3>1 DEF StartWithLayout, Owes, AtEase, OtherOwed, Op, Nothing
    <3>2. CASE ~StartWithLayout
      BY <1>1, <1>eased, <3>2 DEF BootAndFiles, Plain
    <3> QED
      BY <3>1, <3>2
  <2>2. BootStep
    BY <1>1 DEF BootAndFiles, StartWithLayout, Plain, BootStep
  <2>3. task' = task
    BY <2>2 DEF BootStep, Start, BootRepair, RecoverInFlight, RecoverCancelled,
       RecoverActivity, BootDone
  <2> QED
    BY <2>1, <2>2, <2>3, EaseStep DEF Next
<1>2. CASE TaskAndFiles
  <2>1. CASE \/ Plain(TaskKilledAtBirth) \/ Plain(TaskReuseActivity) \/ Plain(TaskBind)
             \/ Plain(TaskMarkRunning) \/ Plain(TaskSettle) \/ Plain(TurnCancelled)
    <3>1. AtEase' /\ UNCHANGED files
      BY <1>eased, <2>1 DEF Plain
    <3>2. TaskStep \/ TurnStep
      BY <2>1 DEF Plain, TaskStep, TurnStep
    <3>3. /\ task' \in {"done", "mark", "activate", "wrap"}
          /\ task' = "activate" => task = "mark"
      BY <2>1 DEF Plain, TaskKilledAtBirth, TaskReuseActivity, TaskBind, TaskMarkRunning,
         TaskSettle, TurnCancelled, TaskGoes
    <3> QED
      BY <3>1, <3>2, <3>3, EaseStep DEF Next
  <2>2. ASSUME NEW a \in ActivityId, PrepareActivity(a)
        PROVE  FilesInv'
    <3>1. FolderOwed'
      BY <2>2 DEF PrepareActivity, FolderOwed, Nothing, Scaffold, Op, vars
    <3> QED
      BY <2>2, <3>1, PrepareStep DEF PrepareActivity
  <2>3. ASSUME NEW code \in TurnCode, NEW s \in Session \cup {NULL}, TurnReturns(code, s)
        PROVE  FilesInv'
    <3>1. AnswerOwed'
      BY <2>3 DEF TurnReturns, AnswerOwed, Nothing, Op, vars
    <3> QED
      BY <2>3, <3>1, PrepareStep DEF TurnReturns
  <2>4. CASE ActivateAndRead
    <3>1. task = "activate" /\ task' = "turn" /\ TaskStep
      BY <2>4 DEF ActivateAndRead, TaskActivate, TaskGoes, TaskStep
    <3>2. OtherOwed' /\ UNCHANGED files
      BY <2>4 DEF ActivateAndRead, Owes, AtEase, OtherOwed, Op, Nothing
    <3> QED
      BY <3>1, <3>2, EaseStep DEF Next
  <2> QED
    BY <1>2, <2>1, <2>2, <2>3, <2>4, InsertStep, StoreStep, ReportStep DEF TaskAndFiles
<1>3. CASE FileStep \/ WriteFails \/ DieWriting
  BY <1>3, DoNextStep, TornStep DEF FileStep
<1>4. CASE \/ Plain(ApiStep) \/ Plain(LoopStep) \/ Plain(ShutdownBegin) \/ Plain(ShutdownEnd)
           \/ Plain(Tick) \/ Plain(LoopRaises) \/ Plain(TaskRaises)
  <2>1. AtEase' /\ UNCHANGED files
    BY <1>4, <1>eased DEF Plain
  <2>2. [Next]_vars
    BY <1>4 DEF Plain, Next, Outage
  <2>3. task' = task \/ task' \in {"created", "none", "raised"}
    <3>1. CASE Plain(ApiStep)
      BY <3>1 DEF Plain, ApiStep, Handler, CancelRequest, CreateRequest, CreateRepeat
    <3>2. CASE Plain(LoopStep)
      BY <3>2 DEF Plain, LoopStep, LoopStart, LoopExit, LoopWake, LoopBackoffEnds,
         LoopMoves, LoopReclaim, LoopLease, LoopSpawnTask, LoopFreeTime, LoopIdle,
         LoopResume, TaskCollected
    <3>3. CASE \/ Plain(ShutdownBegin) \/ Plain(ShutdownEnd) \/ Plain(Tick)
               \/ Plain(LoopRaises) \/ Plain(TaskRaises)
      BY <3>3 DEF Plain, ShutdownBegin, ShutdownEnd, ProcessGone, Tick, LoopRaises,
         LoopBodyRaises, LoopResumeRaises, TaskCollected, TaskRaises, TaskGoes
    <3> QED
      BY <1>4, <3>1, <3>2, <3>3
  <2> QED
    BY <2>1, <2>2, <2>3, EaseStep
<1>5. CASE UNCHANGED filesVars
  <2>1. UNCHANGED <<vars, files, owed, prepared>>
    BY <1>5 DEF filesVars
  <2> QED
    BY <2>1 DEF FilesInv, FolderTypes, Owing, PlaceInv, FilesInOrder, RowsHaveFiles,
       ReportsFollowRows, OwnActivity, vars, files, storeVars, requestVars, activityVars,
       AtEase, FolderOwed, AnswerOwed, ReportOwed, OtherOwed
<1> QED
  BY <1>1, <1>2, <1>3, <1>4, <1>5 DEF FilesNext

\* The invariant under the files, and with it the two theorems.
LEMMA FilesInvariant == FilesSpec => [](RuntimeInv /\ HandInv /\ FilesInv)
<1>1. FilesInit => FilesInv
  BY DEF FilesInit, Init, StoreInit, FilesInv, FolderTypes, Folder, Owing, AtEase, Nothing,
     PlaceInv, FilesInOrder, RowsHaveFiles, ReportsFollowRows
<1> QED
  BY <1>1, FilesStep, RuntimeInvariant, HandInvariant, PTL DEF FilesSpec

\* What is owed is a sequence of file operations.
LEMMA OwedTypes ==
    ASSUME Owing
    PROVE  owed \in Seq(Operation)
<1>nil. <<>> \in Seq(Operation)
  OBVIOUS
<1>one. ASSUME NEW o \in Operation
        PROVE  <<o>> \in Seq(Operation)
  OBVIOUS
<1>two. ASSUME NEW o \in Operation, NEW q \in Operation
        PROVE  <<o, q>> \in Seq(Operation)
  OBVIOUS
<1>op. ASSUME NEW f \in {"summary", "checkpoint", "artifacts", "sessionMap", "layout", "read"},
              NEW v \in Report \cup TurnCode \cup {"session"}
       PROVE  Op(f, v) \in Operation
  BY DEF Op, Operation
<1>1. CASE AtEase
  BY <1>1 DEF AtEase
<1>2. CASE FolderOwed
  <2>1. "scaffold" \in Report
    BY DEF Report
  <2>2. Op("summary", "scaffold") \in Operation /\ Op("checkpoint", "scaffold") \in Operation
    BY <1>op, <2>1
  <2> QED
    BY <1>nil, <1>one, <1>two, <1>2, <2>2 DEF FolderOwed, Scaffold
<1>3. CASE AnswerOwed
  <2>1. prepared.code \in TurnCode
    BY <1>3 DEF AnswerOwed
  <2> QED
    BY <1>nil, <1>one, <1>op, <1>3, <2>1 DEF AnswerOwed
<1>4. CASE ReportOwed
  <2>1. PICK x, y \in Report :
            \/ owed = <<Op("summary", x)>> \/ owed = <<Op("checkpoint", y)>>
            \/ owed = <<Op("summary", x), Op("checkpoint", y)>>
    BY <1>4 DEF ReportOwed
  <2>2. Op("summary", x) \in Operation /\ Op("checkpoint", y) \in Operation
    BY <1>op
  <2> QED
    BY <1>one, <1>two, <2>1, <2>2
<1>5. CASE OtherOwed
  BY <1>one, <1>op, <1>5 DEF OtherOwed
<1> QED
  BY <1>1, <1>2, <1>3, <1>4, <1>5 DEF Owing

\* The files and what is owed to them keep their types: a folder holds what one
\* of its reports wrote, or a torn file, and nothing else is ever owed.
THEOREM FilesTypes == FilesSpec => []FilesTypeOK
<1>1. RuntimeInv /\ FilesInv => FilesTypeOK
  BY OwedTypes DEF RuntimeInv, PreparedOK, FilesInv, FolderTypes, FilesTypeOK
<1> QED
  BY <1>1, FilesInvariant, PTL

\* Whatever the process dies in and whichever write raises: an activity has its
\* folder before its row, an answered request has the artifacts of the turn
\* that answered it, and no folder reports an end that its row does not know.
THEOREM FilesStayInOrder == FilesSpec => []FilesInOrder
<1>1. FilesInv => FilesInOrder
  BY DEF FilesInv
<1> QED
  BY <1>1, FilesInvariant, PTL

-----------------------------------------------------------------------------
(* What the runtime promises, it promises with its files                   *)

\* The runtime keeps its types, and a turn has its running request and its
\* active activity, also where a torn file breaks attempts off.
THEOREM FilesKeepSlot == FilesSpec => [](TypeOK /\ SlotIntact)
<1>1. RuntimeInv => TypeOK /\ SlotIntact
  BY DEF RuntimeInv, IInv, SlotInv, ActivityInv, SlotIntact, TaskBusy
<1> QED
  BY <1>1, RuntimeInvariant, PTL

\* An answered request is never worked on again, although every restart meets
\* the torn file once more.
THEOREM FilesKeepAnswers == FilesSpec => []AnswerKept
<1>1. HandInv => AnswerKept
  BY DEF HandInv
<1> QED
  BY <1>1, HandInvariant, PTL

\* A recorded cancellation is not lost to an attempt that a file breaks off.
THEOREM FilesKeepCancellations == FilesSpec => CancellationSticks
<1>1. RuntimeInv /\ [FilesNext]_filesVars =>
        [\A r \in RequestId :
            RequestCancelled(r) => status'[r] \in {"cancellation_requested", "cancelled"}]_vars
  <2> SUFFICES ASSUME RuntimeInv, [FilesNext]_filesVars,
                      NEW r \in RequestId, RequestCancelled(r)
               PROVE  status'[r] \in {"cancellation_requested", "cancelled"}
    OBVIOUS
  <2>1. CASE [Next]_vars
    BY <2>1, RowStep DEF RuntimeInv, RequestCancelled, InFlight, RowMoves, RowSame, Inserted,
       Leased, Withdrawn, Asked, Started, Requeued, Settled, Answered
  <2>2. CASE BrokenAttempt
    BY <2>2 DEF BrokenAttempt, RequestCancelled, storeVars, requestVars
  <2> QED
    BY <2>1, <2>2, RuntimeMoves DEF RuntimeInv
<1> QED
  BY <1>1, RuntimeInvariant, PTL DEF FilesSpec, CancellationSticks

\* A request keeps its activity, whose folder it finds again, however its
\* attempts end.
THEOREM FilesKeepActivities == FilesSpec => ActivityKept
<1>1. RuntimeInv /\ [FilesNext]_filesVars =>
        [\A r \in RequestId : activityId[r] # NULL => activityId'[r] = activityId[r]]_vars
  <2> SUFFICES ASSUME RuntimeInv, [FilesNext]_filesVars,
                      NEW r \in RequestId, activityId[r] # NULL
               PROVE  activityId'[r] = activityId[r]
    OBVIOUS
  <2>1. CASE [Next]_vars
    BY <2>1, ActivityKeptStep DEF RuntimeInv
  <2>2. CASE BrokenAttempt
    BY <2>2 DEF BrokenAttempt, storeVars, requestVars
  <2> QED
    BY <2>1, <2>2, RuntimeMoves DEF RuntimeInv
<1> QED
  BY <1>1, RuntimeInvariant, PTL DEF FilesSpec, ActivityKept

\* The runtime with its files keeps the promise of RequestLifecycle: what a
\* torn file does to an attempt is a stutter there.
THEOREM FilesImplementLifecycle == FilesSpec => ImplementsLifecycle
<1>1. RuntimeInv /\ [FilesNext]_filesVars => [Lifecycle!Next]_(Lifecycle!vars)
  <2> SUFFICES ASSUME RuntimeInv, [FilesNext]_filesVars
               PROVE  [Lifecycle!Next]_(Lifecycle!vars)
    OBVIOUS
  <2>1. CASE [Next]_vars
    BY <2>1, RefinementStep DEF RuntimeInv
  <2>2. CASE BrokenAttempt
    <3>1. UNCHANGED <<status, current>>
      BY <2>2 DEF BrokenAttempt, TaskGoes, storeVars, requestVars
    <3> QED
      BY <3>1 DEF Lifecycle!vars
  <2> QED
    BY <2>1, <2>2, RuntimeMoves DEF RuntimeInv
<1>2. FilesInit => Lifecycle!Init
  BY RefinementInit DEF FilesInit
<1> QED
  BY <1>1, <1>2, RuntimeInvariant, PTL DEF FilesSpec, ImplementsLifecycle, Lifecycle!Spec

=============================================================================
