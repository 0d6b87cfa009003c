---------------------------- MODULE AgentRuntime ----------------------------
(***************************************************************************)
(* One agent process: the supervisor (supervisor.py) with its scheduler    *)
(* loop and the one task it runs at a time, the API handlers (app.py) that *)
(* share the event loop with it, process start, shutdown and death.        *)
(*                                                                         *)
(* All of it runs on one asyncio event loop.  A coroutine keeps the loop   *)
(* until it really suspends, which it does in four places only: the        *)
(* scheduler waits for its task (loop = "await"), for a wakeup or the poll *)
(* timeout ("sleep"), or backs off after an error ("backoff"); the task    *)
(* waits for the Codex turn (task = "turn").  Between two suspensions a    *)
(* coroutine makes several commits one after the other; each is a step of  *)
(* the model, no other coroutine moves in between (Busy), but the process  *)
(* may die there, or the call may raise.                                   *)
(***************************************************************************)
EXTENDS RequestStore

CONSTANTS
    LateAnswer,   \* an adapter may answer although its turn was cancelled
    MaxTime,      \* bound: the clock stops here unless a lease has to expire
    MaxOutages,   \* bound: process deaths and shutdowns
    MaxFaults,    \* bound: exceptions raised by a task or by the scheduler
    MaxRetries,   \* bound: recoverable failures of turns
    MaxQuanta     \* bound: free-time quanta; then as if enable_free_time = False

ASSUME BoundAssumption ==
    /\ LateAnswer \in BOOLEAN
    /\ MaxTime \in Nat /\ MaxOutages \in Nat /\ MaxFaults \in Nat
    /\ MaxRetries \in Nat /\ MaxQuanta \in Nat

VARIABLES
    proc,          \* "down", "booting" (in start), "up"
    stopping,      \* _stopping: shutdown() was called
    loop,          \* where the scheduler coroutine _run_loop stands
    wakeup,        \* the _wakeup event
    task,          \* where _current_run_task stands
    current,       \* _current_request_id (NULL during a free-time quantum)
    taskAct,       \* _current_activity_id
    cancelled,     \* the task has a cancellation to deliver or delivered
    verdict,       \* how the turn ended, as its task sees it
    agentStatus,   \* _status
    runtimeFile,   \* runtime/agent_state.json and scheduler_state.json
    stranded,      \* history: requests whose attempt was ended by an exception
    outages, faults, retries, quanta   \* what is used of each bound

procVars == <<proc, stopping>>
slotVars == <<task, current, taskAct, cancelled, verdict>>
reportVars == <<agentStatus, runtimeFile>>
bounds == <<outages, faults, retries, quanta>>
vars == <<storeVars, procVars, loop, wakeup, slotVars, reportVars, stranded, bounds>>

AgentStatus == {"boot", "idle", "handling_request", "free_time"}
TurnCode == {"ok", "recoverable", "fatal"}
Verdict == TurnCode \cup {"none", "cancelled", "stopped", "interrupted"}

LoopPc == {"off", "spawned", "top", "lease", "announce", "await", "sleep", "backoff", "exit"}
TaskPc == {"none", "created", "bind", "mark", "activate", "turn", "settle", "wrap",
           "done", "raised"}

ProcessTypeOK ==
    /\ proc \in {"down", "booting", "up"}
    /\ stopping \in BOOLEAN
    /\ loop \in LoopPc
    /\ wakeup \in BOOLEAN
    /\ task \in TaskPc
    /\ current \in RequestId \cup {NULL}
    /\ taskAct \in ActivityId \cup {NULL}
    /\ cancelled \in BOOLEAN
    /\ verdict \in Verdict
    /\ agentStatus \in AgentStatus
    /\ runtimeFile \in [status : AgentStatus, request : RequestId \cup {NULL}]
    /\ stranded \in SUBSET RequestId
    /\ outages \in Nat /\ faults \in Nat /\ retries \in Nat /\ quanta \in Nat

TypeOK == StoreTypeOK /\ ProcessTypeOK

\* No runtime object, or one that __init__ has just made.
Init ==
    /\ StoreInit
    /\ proc = "down" /\ stopping = FALSE /\ loop = "off" /\ wakeup = FALSE
    /\ task = "none" /\ current = NULL /\ taskAct = NULL /\ cancelled = FALSE
    /\ verdict = "none" /\ agentStatus = "boot"
    /\ runtimeFile = [status |-> "boot", request |-> NULL]
    /\ stranded = {}
    /\ outages = 0 /\ faults = 0 /\ retries = 0 /\ quanta = 0

WriteRuntimeState(st, r) == runtimeFile' = [status |-> st, request |-> r]

-----------------------------------------------------------------------------
(* Process start: start() and _recover_state(), before any request is      *)
(* served.  Each row is repaired by a commit of its own.                   *)

Start ==
    /\ proc = "down"
    /\ proc' = "booting"
    /\ UNCHANGED <<storeVars, stopping, loop, wakeup, slotVars, reportVars, stranded, bounds>>

BootRepair ==
    /\ proc = "booting"
    /\ UNCHANGED <<procVars, loop, wakeup, slotVars, reportVars, stranded, bounds>>

\* Deviation: whatever is not waiting is taken for interrupted work.
Interrupted_All(r) == status[r] \notin {"absent", "queued"}

Interrupted(r) == status[r] \in InFlight

RecoverInFlight(r) ==
    /\ Interrupted(r)
    /\ RequeueRequest(r, activityId[r])
    /\ BootRepair

\* Deviation: an interrupted cancellation is treated like interrupted work.
RecoverCancelled_Requeues(r) ==
    /\ \A s \in RequestId : ~Interrupted(s)
    /\ RequestCancelled(r)
    /\ RequeueRequest(r, activityId[r])
    /\ BootRepair

RecoverCancelled(r) ==
    /\ \A s \in RequestId : ~Interrupted(s)
    /\ RequestCancelled(r)
    /\ FinalizeCancelled(r)
    /\ BootRepair

\* Deviation: the next stage does not wait for the rows to be repaired.
RequestsRecovered_Ignored == TRUE

RequestsRecovered == \A r \in RequestId : ~Interrupted(r) /\ ~RequestCancelled(r)

LeftActive == {a \in ActivityId : actStatus[a] \in {"active", "checkpointing"}}

\* (The code looks at the 500 activities updated last; the model has fewer.)
RecoverActivity(a) ==
    /\ RequestsRecovered
    /\ a \in LeftActive
    /\ UpdateActivity(a, "pending", NULL)
    /\ BootRepair

BootDone ==
    /\ proc = "booting"
    /\ RequestsRecovered
    /\ LeftActive = {}
    /\ WriteRuntimeState("boot", NULL)
    /\ proc' = "up"
    /\ loop' = "spawned"
    /\ stranded' = {}
    /\ UNCHANGED <<storeVars, stopping, wakeup, slotVars, agentStatus, bounds>>

-----------------------------------------------------------------------------
(* The event loop                                                          *)

\* A coroutine is between two suspensions.
LoopBusy == loop \in {"top", "lease", "announce"}
TaskBusy == task \in {"bind", "mark", "activate", "settle", "wrap"}
Serving == proc = "up" /\ ~stopping /\ ~LoopBusy /\ ~TaskBusy

\* Task.cancel(): nothing happens to a task that has ended.
CancelTask == cancelled' = (cancelled \/ task \in {"created", "turn"})

Tick ==
    /\ \/ now < MaxTime
       \/ \E r \in stranded : status[r] = "leased" /\ r \notin Expired
    /\ now' = now + 1
    /\ UNCHANGED <<requestVars, activityVars, procVars, loop, wakeup, slotVars, reportVars,
                   stranded, bounds>>

-----------------------------------------------------------------------------
(* The API handlers                                                        *)

\* What a handler leaves alone: all but the store, wakeup and cancelled.
Handler ==
    /\ Serving
    /\ UNCHANGED <<procVars, loop, task, current, taskAct, verdict, reportVars, stranded, bounds>>

\* Deviation: the scheduler is not woken.
CreateRequest_NoWakeup(r, p) ==
    /\ InsertRequest(r, p)
    /\ UNCHANGED <<wakeup, cancelled>>
    /\ Handler

CreateRequest(r, p) ==
    /\ InsertRequest(r, p)
    /\ wakeup' = TRUE
    /\ UNCHANGED cancelled
    /\ Handler

\* A retry of an accepted submission finds its row by the idempotency key.
CreateRepeat(p) ==
    /\ InsertIsRepeat(p)
    /\ wakeup' = TRUE
    /\ UNCHANGED <<storeVars, cancelled>>
    /\ Handler

\* Deviation: whatever task runs is taken for the request's.
RunsNow_Any(r) == task # "none"

RunsNow(r) == current = r /\ task # "none"

CancelRequest(r) ==
    /\ StoreCancel(r)
    /\ IF RunsNow(r) THEN CancelTask ELSE UNCHANGED cancelled
    /\ wakeup' = TRUE
    /\ Handler

-----------------------------------------------------------------------------
(* The scheduler coroutine: _run_loop and _sleep_until_wakeup              *)

LoopMoves(from, to) ==
    /\ loop = from
    /\ loop' = to
    /\ UNCHANGED <<storeVars, procVars, wakeup, slotVars, reportVars, stranded, bounds>>

LoopStart == LoopMoves("spawned", "top")

LoopExit == stopping /\ LoopMoves("top", "exit")

\* Deviation: the loop does not look at _stopping.
LoopReclaim_IgnoresStop ==
    /\ loop = "top"
    /\ ReclaimExpiredLeases
    /\ stranded' = stranded \ Expired
    /\ loop' = "lease"
    /\ UNCHANGED <<procVars, wakeup, slotVars, reportVars, bounds>>

\* Deviation: expired leases are reclaimed at start only.
LoopReclaim_Skips == ~stopping /\ LoopMoves("top", "lease")

LoopReclaim ==
    /\ loop = "top"
    /\ ~stopping
    /\ ReclaimExpiredLeases
    /\ stranded' = stranded \ Expired
    /\ loop' = "lease"
    /\ UNCHANGED <<procVars, wakeup, slotVars, reportVars, bounds>>

\* (_current_request_id is assigned after the "request.leased" event is
\* logged, at "announce"; nothing reads it in between.)
LoopLease(r) ==
    /\ loop = "lease"
    /\ LeaseRequest(r)
    /\ current' = r
    /\ loop' = "announce"
    /\ UNCHANGED <<procVars, wakeup, task, taskAct, cancelled, verdict, reportVars,
                   stranded, bounds>>

LoopSpawnTask ==
    /\ loop = "announce"
    /\ agentStatus' = "handling_request"
    /\ task' = "created"
    /\ loop' = "await"
    /\ UNCHANGED <<storeVars, procVars, wakeup, current, taskAct, cancelled, verdict,
                   runtimeFile, stranded, bounds>>

LoopFreeTime ==
    /\ loop = "lease"
    /\ Queued = {}
    /\ quanta < MaxQuanta
    /\ quanta' = quanta + 1
    /\ agentStatus' = "free_time"
    /\ task' = "created"
    /\ loop' = "await"
    /\ UNCHANGED <<storeVars, procVars, wakeup, current, taskAct, cancelled, verdict,
                   runtimeFile, stranded, outages, faults, retries>>

LoopIdle ==
    /\ loop = "lease"
    /\ Queued = {}
    /\ quanta = MaxQuanta
    /\ agentStatus' = "idle"
    /\ WriteRuntimeState("idle", current)
    /\ wakeup' = FALSE
    /\ loop' = "sleep"
    /\ UNCHANGED <<storeVars, procVars, slotVars, stranded, bounds>>

\* The task is over; its exception, if any, is printed and dropped, and the
\* slot is cleared (the finally blocks).
TaskCollected ==
    /\ loop = "await"
    /\ task \in {"done", "raised"}
    /\ task' = "none" /\ current' = NULL /\ taskAct' = NULL
    /\ cancelled' = FALSE /\ verdict' = "none"
    /\ agentStatus' = "idle"

\* After a request the loop goes on at once, after a quantum it clears the
\* wakeup event and waits.
LoopResume ==
    /\ TaskCollected
    /\ WriteRuntimeState("idle", NULL)
    /\ IF current # NULL
          THEN loop' = "top" /\ UNCHANGED wakeup
          ELSE loop' = "sleep" /\ wakeup' = FALSE
    /\ UNCHANGED <<storeVars, procVars, stranded, bounds>>

\* Deviation: the wait has no timeout.
LoopWake_NoTimeout == wakeup /\ LoopMoves("sleep", "top")

\* The event is set, or the poll interval is over.
LoopWake == LoopMoves("sleep", "top")

\* An attempt at the request in hand ends with an exception.
Fault ==
    /\ faults < MaxFaults
    /\ faults' = faults + 1
    /\ stranded' = stranded \cup ({current} \ {NULL})
    /\ UNCHANGED <<storeVars, outages, retries, quanta>>

\* A store or log call of the loop body raises; the request it had leased, if
\* any, keeps its LEASED row and gets no task.
LoopBodyRaises ==
    /\ LoopBusy
    /\ loop = "top" => ~stopping
    /\ Fault
    /\ current' = NULL
    /\ loop' = "backoff"
    /\ UNCHANGED <<procVars, wakeup, task, taskAct, cancelled, verdict, reportVars>>

\* The slot is cleared after the task, but writing the runtime state raises:
\* nothing is stranded by that, the loop backs off before it goes on.
LoopResumeRaises ==
    /\ TaskCollected
    /\ faults < MaxFaults
    /\ faults' = faults + 1
    /\ loop' = "backoff"
    /\ UNCHANGED <<storeVars, procVars, wakeup, runtimeFile, stranded, outages, retries,
                   quanta>>

LoopRaises == LoopBodyRaises \/ LoopResumeRaises

LoopBackoffEnds == LoopMoves("backoff", "top")

-----------------------------------------------------------------------------
(* The task: _execute_request (current # NULL) and _execute_free_time      *)

TaskGoes(pc) ==
    /\ task' = pc
    /\ UNCHANGED <<procVars, loop, wakeup, current, reportVars>>

\* A task cancelled before its first step never runs any of its code.
TaskKilledAtBirth ==
    /\ task = "created" /\ cancelled
    /\ TaskGoes("done")
    /\ UNCHANGED <<storeVars, taskAct, cancelled, verdict, stranded, bounds>>

\* _ensure_request_activity finds the activity the row names ...
TaskReuseActivity ==
    /\ task = "created" /\ ~cancelled /\ current # NULL
    /\ activityId[current] # NULL
    /\ actStatus[activityId[current]] # "absent"
    /\ taskAct' = activityId[current]
    /\ TaskGoes("mark")
    /\ UNCHANGED <<storeVars, cancelled, verdict, stranded, bounds>>

\* Deviation: every attempt makes an activity of its own.
NewActivityFor_Always(r) == FreshActivities

\* ... or makes one, under the id the row names if it names one.
NewActivityFor(r) ==
    IF activityId[r] = NULL THEN FreshActivities
    ELSE {a \in {activityId[r]} : actStatus[a] = "absent"}

TaskCreateActivity(a) ==
    /\ task = "created" /\ ~cancelled /\ current # NULL
    /\ a \in NewActivityFor(current)
    /\ InsertActivity(a, {current})
    /\ taskAct' = a
    /\ TaskGoes("bind")
    /\ UNCHANGED <<cancelled, verdict, stranded, bounds>>

\* Deviation: the request is bound but never marked running.
TaskBind_SkipsMark ==
    /\ task = "bind"
    /\ BindActivityRequest(taskAct, current)
    /\ TaskGoes("activate")
    /\ UNCHANGED <<taskAct, cancelled, verdict, stranded, bounds>>

TaskBind ==
    /\ task = "bind"
    /\ BindActivityRequest(taskAct, current)
    /\ TaskGoes("mark")
    /\ UNCHANGED <<taskAct, cancelled, verdict, stranded, bounds>>

TaskMarkRunning ==
    /\ task = "mark"
    /\ MarkRequestRunning(current, taskAct)
    /\ TaskGoes("activate")
    /\ UNCHANGED <<taskAct, cancelled, verdict, stranded, bounds>>

QuantumCreateActivity(a) ==
    /\ task = "created" /\ ~cancelled /\ current = NULL
    /\ a \in FreshActivities
    /\ InsertActivity(a, {})
    /\ taskAct' = a
    /\ TaskGoes("activate")
    /\ UNCHANGED <<cancelled, verdict, stranded, bounds>>

TaskActivate ==
    /\ task = "activate"
    /\ UpdateActivity(taskAct, "active", NULL)
    /\ TaskGoes("turn")
    /\ UNCHANGED <<taskAct, cancelled, verdict, stranded, bounds>>

\* The adapter answers with a code and, maybe, a session to remember.
TurnAnswers(code, s) ==
    /\ task = "turn"
    /\ cancelled => LateAnswer
    /\ code = "recoverable" => retries < MaxRetries
    /\ retries' = IF code = "recoverable" THEN retries + 1 ELSE retries
    /\ UpdateActivity(taskAct, NULL, s)
    /\ verdict' = code
    /\ TaskGoes("settle")
    /\ UNCHANGED <<taskAct, cancelled, stranded, outages, faults, quanta>>

\* A request found cancelled becomes terminal, whatever its turn did: it
\* answered ("cancelled") or was cut short ("stopped").
SettleCancelled(v) ==
    /\ RequestCancelled(current)
    /\ FinalizeCancelled(current)
    /\ verdict' = v

\* Deviation: every failure is retried.
SettleAnswered_RetriesAll ==
    /\ ~RequestCancelled(current)
    /\ \/ verdict = "ok" /\ CompleteRequest(current)
       \/ verdict # "ok" /\ RequeueRequest(current, taskAct)
    /\ UNCHANGED verdict

SettleAnswered ==
    /\ ~RequestCancelled(current)
    /\ \/ verdict = "ok" /\ CompleteRequest(current)
       \/ verdict = "recoverable" /\ RequeueRequest(current, taskAct)
       \/ verdict = "fatal" /\ FailRequest(current)
    /\ UNCHANGED verdict

TaskSettle ==
    /\ task = "settle" /\ current # NULL
    /\ SettleCancelled("cancelled") \/ SettleAnswered
    /\ TaskGoes("wrap")
    /\ UNCHANGED <<taskAct, cancelled, stranded, bounds>>

\* Deviation: the interrupted request is requeued without asking why.
TurnCancelled_Requeues ==
    /\ task = "turn" /\ cancelled /\ current # NULL
    /\ RequeueRequest(current, taskAct)
    /\ verdict' = "interrupted"
    /\ TaskGoes("wrap")
    /\ UNCHANGED <<taskAct, cancelled, stranded, bounds>>

\* CancelledError at the turn: _checkpoint_request.
TurnCancelled ==
    /\ task = "turn" /\ cancelled /\ current # NULL
    /\ \/ SettleCancelled("stopped")
       \/ /\ ~RequestCancelled(current)
          /\ RequeueRequest(current, taskAct)
          /\ verdict' = "interrupted"
    /\ TaskGoes("wrap")
    /\ UNCHANGED <<taskAct, cancelled, stranded, bounds>>

\* Deviation: an activity is given a status only requests have.
WrapStatus_Cancelled ==
    CASE verdict = "ok" -> "completed"
      [] verdict \in {"recoverable", "interrupted"} -> "pending"
      [] OTHER -> "cancelled"

\* Deviation: the activity of an interrupted turn is left as it is.
WrapStatus_StaysActive ==
    CASE verdict = "ok" -> "completed"
      [] verdict = "recoverable" -> "pending"
      [] verdict = "interrupted" -> "active"
      [] OTHER -> "failed"

WrapStatus ==
    CASE verdict = "ok" -> "completed"
      [] verdict \in {"recoverable", "interrupted"} -> "pending"
      [] OTHER -> "failed"

TaskWrapUp ==
    /\ task = "wrap"
    /\ UpdateActivity(taskAct, WrapStatus, NULL)
    /\ TaskGoes("done")
    /\ UNCHANGED <<taskAct, cancelled, verdict, stranded, bounds>>

\* A quantum yields when a request is queued, whatever its turn returned.
QuantumSettle ==
    /\ task = "settle" /\ current = NULL
    /\ UpdateActivity(taskAct, IF Queued # {} THEN "pending" ELSE "completed", NULL)
    /\ TaskGoes("done")
    /\ UNCHANGED <<taskAct, cancelled, verdict, stranded, bounds>>

QuantumCancelled ==
    /\ task = "turn" /\ cancelled /\ current = NULL
    /\ UpdateActivity(taskAct, "pending", NULL)
    /\ verdict' = "interrupted"
    /\ TaskGoes("done")
    /\ UNCHANGED <<taskAct, cancelled, stranded, bounds>>

\* Any call of the task raises: a file or store write, the adapter (a turn
\* that cannot be decoded, a child that exits while it is being killed).
TaskRaises ==
    /\ task \in {"created", "turn"} \/ TaskBusy
    /\ task = "created" => ~cancelled
    /\ Fault
    /\ TaskGoes("raised")
    /\ UNCHANGED <<taskAct, cancelled, verdict>>

-----------------------------------------------------------------------------
(* Shutdown and death of the process                                       *)

ShutdownBegin ==
    /\ Serving
    /\ outages < MaxOutages
    /\ outages' = outages + 1
    /\ stopping' = TRUE
    /\ wakeup' = TRUE
    /\ CancelTask
    /\ UNCHANGED <<storeVars, proc, loop, task, current, taskAct, verdict, reportVars,
                   stranded, faults, retries, quanta>>

ProcessGone ==
    /\ proc' = "down" /\ stopping' = FALSE /\ loop' = "off" /\ wakeup' = FALSE
    /\ task' = "none" /\ current' = NULL /\ taskAct' = NULL /\ cancelled' = FALSE
    /\ verdict' = "none" /\ agentStatus' = "boot"

\* The loop is over and the runtime state is written; or the run task that
\* shutdown awaits has raised, which ends shutdown before both.
ShutdownEnd ==
    /\ stopping
    /\ \/ loop = "exit" /\ WriteRuntimeState("idle", current)
       \/ task = "raised" /\ UNCHANGED runtimeFile
    /\ ProcessGone
    /\ UNCHANGED <<storeVars, stranded, bounds>>

\* The process is killed at any point, between two commits included.
Crash ==
    /\ proc # "down"
    /\ outages < MaxOutages
    /\ outages' = outages + 1
    /\ ProcessGone
    /\ UNCHANGED <<storeVars, runtimeFile, stranded, faults, retries, quanta>>

-----------------------------------------------------------------------------
BootStep ==
    \/ Start
    \/ \E r \in RequestId : RecoverInFlight(r) \/ RecoverCancelled(r)
    \/ \E a \in ActivityId : RecoverActivity(a)
    \/ BootDone

ApiStep ==
    \/ \E r \in RequestId : CancelRequest(r) \/ \E p \in Payload : CreateRequest(r, p)
    \/ \E p \in Payload : CreateRepeat(p)

LoopStep ==
    \/ LoopStart \/ LoopExit \/ LoopReclaim \/ LoopSpawnTask \/ LoopFreeTime \/ LoopIdle
    \/ LoopResume \/ LoopWake \/ LoopBackoffEnds
    \/ \E r \in RequestId : LoopLease(r)

TurnStep ==
    \/ \E code \in TurnCode, s \in Session \cup {NULL} : TurnAnswers(code, s)
    \/ TurnCancelled \/ QuantumCancelled

TaskStep ==
    \/ TaskKilledAtBirth \/ TaskReuseActivity \/ TaskBind \/ TaskMarkRunning \/ TaskActivate
    \/ TaskSettle \/ TaskWrapUp \/ QuantumSettle
    \/ \E a \in ActivityId : TaskCreateActivity(a) \/ QuantumCreateActivity(a)

Outage == ShutdownBegin \/ ShutdownEnd \/ Crash

Next ==
    \/ BootStep \/ ApiStep \/ LoopStep \/ TaskStep \/ TurnStep \/ Outage
    \/ Tick \/ LoopRaises \/ TaskRaises

Spec == Init /\ [][Next]_vars
\* The event loop runs what is ready and time passes; an adapter's turn ends
\* (the Codex subprocess is killed after 30 seconds); a process that stopped
\* is started again.  Clients, faults and outages are never owed.
FairSpec ==
    /\ Spec
    /\ WF_vars(BootStep)
    /\ WF_vars(LoopStep)
    /\ WF_vars(TaskStep \/ TurnStep)
    /\ WF_vars(ShutdownEnd)
    /\ WF_vars(Tick)
=============================================================================
