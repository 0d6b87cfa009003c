# Agent Ludens: verification project

TLA+ models, model-checking runs and machine-checked proofs for the agent
runtime in `src/agent_ludens`. An agent is one process: an HTTP API that
accepts work, a SQLite store that keeps it, and a supervisor that works on one
request at a time by running turns of a Codex command.

## 1. Inventory

| Part | Code | State | Operations |
|---|---|---|---|
| Request store | `store.py` | tables `requests`, `activities`, `activity_requests`, `request_events`, `peers` | insert, lease, reclaim, mark running, requeue, cancel, finalize, complete, fail; create, update and bind activity; reads |
| Supervisor | `supervisor.py` | status, current request, activity and task, stop flag, wakeup event | start, recover, loop, execute request, execute free time, checkpoint, cancel, shutdown |
| Request intake API | `app.py` | none of its own | create and cancel request, register peer, reads |
| Codex adapters | `adapters.py` | the subprocess of a turn | run turn (start, wait 30 s, kill, parse) |
| Activity files | `activity_manager.py` | folder, `state.json`, `summary.md`, `checkpoint.json`, `session_map.json`, `runtime/*.json` | create, write, read |
| Supervisor lock | `supervisor.py:564-626` | `runtime/supervisor.lock` | acquire, clear stale, release |
| Event log | `activity_manager.py:232-241` | `event-log.jsonl` | append, read tail |
| Peer client | `peer_client.py` | none | send, get, wait for completion |
| Owner UI | `ui/index.html` | polled requests, feed | submit, poll |
| Prompt assembly | `prompting.py` | none | format |
| Models, settings, utilities, command line | `models.py`, `config.py`, `utils.py`, `cli.py` | none | enumerations, ids, timestamps |

How they interact:

* The API handlers, the scheduler loop and the task of the current request or
  free-time quantum are coroutines of **one asyncio event loop**. They call the
  store directly; every store method is one SQLite transaction, and none of
  them suspends. Handlers tell the supervisor about new work through the
  wakeup event and about a cancellation through `Task.cancel()`.
* What survives the process is the database and the files under
  `.task-memory`. A start reads them back and repairs them (`_recover_state`)
  before the first request is served.
* The supervisor sees the Codex command only as an awaitable turn that
  answers, raises, or is cancelled.

What is hard to get right:

* **Interleaving at suspension points.** Handlers run while the task waits for
  its turn, before its first step, after it ended and before the loop noticed.
* **Writes that test nothing.** `mark_request_running`, `requeue_request`,
  `complete_request`, `finalize_cancelled_request` overwrite any status. They
  are right only because of where they are called.
* **Death between two commits.** An attempt is six to nine commits long.
* **Exceptions.** The loop prints and drops them.
* **Time.** Leases expire by comparing ISO texts whose length varies.
* **Several processes** over one root, arbitrated by a lock file.

What makes each part correct:

* *store*: a lease column is set exactly on work in progress; an idempotency
  key names one request forever; a session once known is kept;
* *supervisor*: nothing in flight is forgotten, recorded cancellations are not
  overwritten, an answer is never thrown away by running the request again,
  only its own cancellation or a shutdown interrupts a request, a request keeps
  its activity, at most one activity is active, no wakeup is missed, every
  accepted request is eventually settled, every shutdown ends;
* *adapters*: a turn ends and leaves no child process; the answer is the child's;
* *activity files*: a row never promises files that are not there, no folder
  reports an end the row does not have, and a death between two writes does not
  stop the request for good;
* *lock*: at most one process schedules; a dead owner does not block the next;
* *peer client and UI*: a retried submission is accepted once, what a wait
  returned stands, and every wait ends.

## 2. Modules

| Module | What it is |
|---|---|
| `RequestStore` | the tables of `store.py` as functions over row ids, one operator per method |
| `AgentRuntime` | the process: boot and recovery, event loop, scheduler, task, handlers, shutdown, death |
| `AgentRuntimeProps` | its safety, action and liveness properties, and the refinement mapping |
| `RequestLifecycle` | the abstract promise: the life of every request and the one hand that works on them |
| `AgentRuntimeClaims`, `CodexAdapterClaims` | statements of documents and tests that the code does not keep |
| `MCAgentRuntime` | instances for TLC |
| `RequestStoreProofs` | lemmas: each store method keeps the column types; what the queries over times return |
| `AgentRuntimeProofs` | the inductive invariant `TypeOK /\ SlotInv` |
| `AgentRuntimeSafety` | the safety and action properties, from that invariant |
| `AgentRuntimeRefinement` | the runtime implements `RequestLifecycle` |
| `ActivityFilesProofs` | files and rows stay in order; the runtime with its files keeps its properties |
| `SupervisorLock` | several processes over one root and the lock file between them |
| `CodexTurn` | the abstract promise of a turn |
| `CodexAdapter` | the two adapters, the child process and its pipe; implements `CodexTurn` |
| `ActivityFiles` | `AgentRuntime` composed with the files it keeps beside the store |
| `PeerExchange` | callers of the peer client, a lossy network, and a server that keeps `RequestLifecycle` |
| `MCSupervisorLock`, `MCCodexAdapter`, `MCActivityFiles`, `MCPeerExchange` | their instances for TLC |
| `SupervisorLockProofs`, `CodexAdapterProofs`, `PeerExchangeProofs` | their theorems |

How they fit together: `AgentRuntime` takes a turn for something that answers,
raises or is stopped, which is `CodexTurn`, which `CodexAdapter` implements;
`ActivityFiles` adds file operations to the steps of `AgentRuntime` without
changing them; `PeerExchange` takes the server for `RequestLifecycle`, which
`AgentRuntime` implements; and `SupervisorLock` is about how many
`AgentRuntime`s there are.

### RequestStore

State: one function per column that a decision reads (`status`, `payload`,
`createdAt`, `activityId`, `leasedUntil`, `output`, `actStatus`, `actSession`),
the link table `links`, and the wall clock `now`. `status[r] = "absent"` means
there is no row. `lease_owner` is written and cleared together with
`leased_until` everywhere, so one variable stands for both; `output` records
which of `result_json` and `error_json` are set. A body (`Payload`) keeps its
priority, its idempotency key and the activity it names; the fingerprint is
equality of bodies.

Timestamps are compared as text in the queries. `isoformat()` omits the
fraction of a second when it is zero, which puts a whole second *after* the
other instants of its own second: `TextRank` is that order over ticks, with
`TicksPerSecond` ticks in a second.

Left out: `request_events` (written, never read), `peers`, the columns no
decision depends on, and the read methods that only format rows.

### AgentRuntime

`loop` and `task` say where the two coroutines stand. Between two suspensions
a coroutine makes several commits one after the other. Each is an action, so
that a crash or an exception can come between them, and `Serving` keeps the
handlers out until the coroutine suspends, as the event loop does.

| Code | Actions |
|---|---|
| `start`, `_recover_state` | `Start`, `RecoverInFlight`, `RecoverCancelled`, `RecoverActivity`, `BootDone` |
| `POST /v1/requests`, `.../cancel` | `CreateRequest`, `CreateRepeat`, `CancelRequest` |
| `_run_loop`, `_sleep_until_wakeup` | `LoopStart`, `LoopExit`, `LoopReclaim`, `LoopLease`, `LoopSpawnTask`, `LoopFreeTime`, `LoopIdle`, `LoopResume`, `LoopWake`, `LoopRaises` (in the body, or when the runtime state is written after a task), `LoopBackoffEnds` |
| `_execute_request`, `_ensure_request_activity`, `_checkpoint_request` | `TaskKilledAtBirth`, `TaskReuseActivity`, `TaskCreateActivity`, `TaskBind`, `TaskMarkRunning`, `TaskActivate`, `TurnAnswers`, `TurnCancelled`, `TaskSettle`, `TaskWrapUp`, `TaskRaises` |
| `_execute_free_time` | `QuantumCreateActivity`, `TaskActivate`, `TurnAnswers`, `QuantumSettle`, `QuantumCancelled` |
| `shutdown` | `ShutdownBegin`, `ShutdownEnd` |
| the process is killed | `Crash` |

Decisions worth knowing:

* A task cancelled between `create_task` and its first step never runs any of
  its code (`TaskKilledAtBirth`); one cancelled during the turn gets a
  `CancelledError` there (`TurnCancelled`). With `LateAnswer` an adapter may
  also answer although it was cancelled, which is what the check after the
  turn (`supervisor.py:298`) is for; the two adapters of the repository do not
  do that (`CodexAdapter` implements `CodexTurn`), an injected one may.
* While `stopping`, no handler is served: the ASGI server drains its requests
  before it runs the lifespan's shutdown.
* `current` becomes the leased request with the lease; the code assigns it
  after logging one event, and nothing reads it in between.
* `MaxQuanta` bounds the free-time quanta; once used up the loop takes the
  branch of `enable_free_time = False`, and `MaxQuanta = 0` is that setting.
* `shutdown` awaits the run task. If that raises, shutdown ends there
  (`supervisor.py:93`), without runtime state and with the lock in place: the
  second alternative of `ShutdownEnd`, and `Die` of `SupervisorLock`.
* New activity ids are random: `FreshActivities` are the ids without a row that
  no request carries. A body may name any id, one the system made before for a
  request or a quantum included.
* `stranded` is a history variable: the requests whose attempt an exception
  broke off in this process.
* The `checkpointing` statuses are read by the recovery and written by nothing.
* The recovery looks at 500 activities; the model has fewer.

### Planted faults

Some definitions have a second form next to them whose comment starts with
"Deviation" (`Interrupted_All`, `LoopWake_NoTimeout`, ...). No action uses
them. Each is the definition as a plausible mistake would have it; substituted
for the right one it makes TLC find a violation of the property it is paired
with in `PROJECT.json` ("mutants"), which shows that the property can fail.

### RequestLifecycle

Six phases per request and one `hand`. Every request is accepted once, taken by
the empty hand, and finished or put back only by the hand that holds it;
requests whose attempt broke off return to waiting only while the hand is
empty; a recorded cancellation can only be settled. There is no process, no
crash, no lease and no activity in it. `AgentRuntimeProps!Lifecycle` maps
statuses to phases and `_current_request_id` to the hand.

### SupervisorLock

One action per file operation of `_acquire_supervisor_lock`,
`_clear_stale_supervisor_lock` and `_release_supervisor_lock`, for any number
of processes.

| Code | Actions |
|---|---|
| `os.open(O_CREAT \| O_EXCL)`, and its `FileExistsError` | `CreateLock`, `LockExists`, `Refused` |
| `handle.write` of the payload | `WriteLock` |
| `_read_supervisor_lock_owner`, `_pid_is_alive` | `ReadOwner`, `FindOwnerDead`, `Refused` |
| `unlink` of a stale lock, and the second attempt | `ClearLock`, then `CreateLock` or `Refused` |
| recovery in `start`, `shutdown`, `_release_supervisor_lock` | `Recovered`, `RecoveryRaises`, `Shutdown`, `Release` |
| a process starts with a free pid, is killed | `Start`, `Die` |

The file is known by who created it and the pid in it, so that a write into a
file that was unlinked meanwhile is lost, as it is with an open descriptor. A
lock is empty between its creation and the write; an empty one has no pid and is
never cleared. `UserOf` gives the user of each program: `os.kill(pid, 0)` of
another user's process fails like that of a dead one. `ApiOnly` programs
(`enable_supervisor` off) touch no lock. `overlapped` is a history variable: one
start began while another was deciding.

### CodexAdapter and CodexTurn

`CodexTurn` says what the supervisor may rely on: one turn at a time, which
answers, raises, or stops when it was asked to, and never answers after that.
`CodexAdapter` is `run_turn` of both adapters as a coroutine with its
suspension points (`pc`), the child process, its output, and a cancellation
that is thrown where the coroutine is resumed.

| Code (`adapters.py`) | Actions |
|---|---|
| 104-110 the child is started | `Spawn`, `SpawnDone`, `SpawnFails` (118-128), `SpawnCancelled` (`process` is unbound at 130) |
| 110-117 wait 30 s, kill, read on | `TimeOut`, `DrainCancelled` |
| 129-132 cancelled while waiting | `WaitCancelled`, `WaitCancelledRaises` (the child had exited), `Reaped` |
| 134-172 decode, parse, answer | `Answer`, `AnswerRaises` |
| 35-85 the fake adapter | `FakeAnswers`, `FakeCancelled` |
| `supervisor.py:107`, `:293-296` | `Cancel`, `Remember` |

The child writes what it likes, forks a descendant that keeps the pipe open, and
exits when it likes or never. `communicate` returns when the pipe is closed
(`Collected`); what a first `communicate` had read when the time ran out is lost
(`lost`). A line is a thread id, an item of type `message`, which the parser
takes for the agent's message, an item of type `agent_message`, which it skips
(`adapters.py:198`), anything else it skips, or something that makes it raise.
That a pending cancellation wins over an answer that is ready is
`asyncio.wait_for` since Python 3.12 (`requires-python` in `pyproject.toml`).
stderr, the error codes derived from it and the command line are left out.

### ActivityFiles

The steps of `AgentRuntime` stay as they are. What a coroutine has to read or
write before its next commit is a sequence `owed`; each entry is one
`write_text` or read, done by `DoNext`, and nobody else moves while anything is
owed. `prepared` is what is committed then: a new activity (`PrepareActivity`,
then the scaffold, then `InsertPrepared`) or a turn's answer (`TurnReturns`,
then the artifacts, then `StoreAnswer`). Deaths (`DieWriting`) and failed writes
(`WriteFails`) may tear the file that is being written, since `write_text`
truncates it first; a read of a torn or missing file ends the attempt
(`ReadFails`). Of each file the model keeps what it was last written for
(scaffold, done, failed, retry, interrupted, cancelled, yielded). A new activity
id is one that a body may name later or one that none names; within each kind
they are interchangeable, so `NewFolder` picks one. Left out: `state.json` and
`inbox.md` (written with the scaffold, never read or changed), the runtime
files, the event log.

### PeerExchange

The server is `RequestLifecycle`, instantiated, plus the body each row was
inserted with and `insert_request`'s answer to a submission: `InsertNew`,
`InsertRepeat`, `InsertRefused`. An empty key is not looked up
(`store.py:118`) but is unique in the table, so its repetition is refused. Each
caller runs `send_request` (`Send`, `Accepted`, `SendFails`), then
`wait_for_completion` (`Polls`, `ServerTellsStatus`, `SeesEnd`, `SeesNoEnd`,
`Wakes`, `TimesOut`, `PollFails`), and may call either again (`CallsAgain`).
Submissions are delayed and lost; the answer to a submission reaches only the
call that made it. Whatever ends a call with an exception is one case.

## 3. Runs

| Run | Question | Instance |
|---|---|---|
| `safety` | does any interleaving break the store, the slot, the recovery or the promised lifecycle? | 2 requests, 2 bodies (one that names activity a1, so two requests may share it; an urgent one with key k1), 4 activity ids, 1 outage, 1 exception, 1 recoverable failure, lease time 1 s, late answers |
| `liveness` | is accepted work settled, is none lost to free time, and does shutdown end? | 2 requests with plain bodies, 4 activity ids, 1 outage, 1 recoverable failure, 1 quantum, no exceptions, no sessions, under fairness |
| `lock` | does the lock exclude, and does a dead owner let the next one in? | 3 programs of one user, one without a supervisor, 4 pids, 2 deaths, 1 failed recovery, under fairness |
| `adapter` | does every turn end, without an orphan and not before its output? | 2 thread ids, 3 lines of output per turn, any number of turns, both adapters, under fairness |
| `files` | do files and rows keep their order, what stops a request for good, and do leases end? | 1 request (plain, or naming an activity), 4 activity ids, 1 session, 1 outage, 1 exception, 1 quantum, lease time 1 s of 2 ticks, under fairness |
| `peers` | one row per key, answers that stand, waits that end? | 2 callers, 2 submissions each, 2 rows; same body, two tasks under one key, or an empty key; under fairness |
| `terminal`, `cancel_lost`, `raise`, `lock_race` | one statement of the documents each, which the code violates | 1 request; 2 programs |
| `resumed_first` | the same, for the order of the queue | 2 requests, of either of two priorities, one after the other if the clock ticks (once), 1 outage, 1 recoverable failure |
| `message` | a statement of a test, which the code violates | as `adapter` |

Why the bounds are enough. Two requests are what order, idempotency, sharing an
activity and cancelling the wrong task need. One outage can come at any commit,
the commits of the recovery included when the fault budget has already left
rows in flight; a second one would repeat the recovery from a state the first
already covers, and the proofs hold for any number. One exception and one
recoverable failure exercise each of the paths back to the queue. The activity
ids suffice for every attempt (`EnoughActivityIds` is checked). In `liveness` a
lease is expired the moment it is made, the hardest case for reclaiming; in
`safety` it expires after a tick; in `files` it does so with two ticks per
second, so that text order and time order differ.

For the lock, two programs race and the third reads what they leave; two deaths
leave a stale lock and then a torn one; with four pids for three programs the
pid of a dead owner is not always in use again, so `RestartSucceeds` is not
excused by that forever. Three lines are a thread id, a second thread id or a
message of either kind, and something lost to the timeout. In `files` one outage
and one exception can each tear a file, in either order, before a quantum
begins; recoverable failures add no kind of file operation (their summary is one
of the reports) and are left to `safety`. Two submissions per caller give a
retry whose first copy is still on its way.

Request ids and unnamed activity ids are interchangeable, and only `safety`,
which has no liveness property, uses symmetry. `liveness` draws the unused ids
in a fixed order instead (`NextUnused`): no body names one there, each step left
out has a twin of the same action with another id, and no property mentions ids,
so nothing is lost under fairness either. `files` lets the first new id be one
that a body may name (`NameableFirst`). This does bound the run: a body names an
activity the system made, if it made one, and an unused id otherwise; that it
names an unused id after the system made another activity is left to `safety`
and to the proofs. Once the quantum has begun, it also admits an outage or an
exception only if the other has not come before (`TwoTroubles`). No run turns
the deadlock check off.

**Fairness.** `FairSpec`: the event loop runs what is ready
(`WF(LoopStep)`, `WF(TaskStep \/ TurnStep)`, `WF(ShutdownEnd)`, `WF(BootStep)`;
the last also says that a process that died is started again) and time passes
(`WF(Tick)`). That a turn ends is `TurnEnds` of `CodexAdapter`. Nothing is
assumed of clients, and crashes, exceptions and recoverable failures are bounded
but never owed. Weak fairness suffices: each of these steps, once enabled, stays
enabled until it, or the end of the process, happens. `FilesFairSpec` is the
same, with the file operations among the steps of the task. `LockFairSpec`: a
process that runs goes on, and programs that are down are started again; no
shutdown and no death is owed. `AdapterFairSpec`: the event loop resumes the
coroutine, its timer included, and a descendant that holds the pipe ends one
day; the child owes nothing. The descendant is needed: after the kill,
`adapters.py:117` waits for the pipe without a limit. `ExchangeFairSpec`: time
passes and a poll is answered or fails (httpx has a timeout of its own).

**What the runs show.** The properties of the passing runs hold. Six
statements of the documents and tests do not; each is one violation run:

* `terminal`: cancelling a request that is over makes it
  `cancellation_requested` (`store.py:304`), and the next start makes it
  `cancelled`; its result stays in the row (`AnswerKept` holds) but its status
  lies.
* `cancel_lost`: a cancellation that reaches the task before its first step is
  never settled while the process lives (`supervisor.py:201-205`).
* `raise`: an attempt that raises leaves its request running until a restart
  (`supervisor.py:206-209`).
* `resumed_first`: a request of a higher priority, created after the restart, is
  leased before the older one the restart interrupted, which has an activity
  (`store.py:224`).
* `message`: the parser's test and the fake adapter let the child report an
  `agent_message` item; the parser takes `message` items only
  (`adapters.py:198`), so the turn is a success without a message.
* `lock_race`: two programs that start together on the lock of a dead one both
  own the root: the slower one's unlink removes the lock the faster one has just
  created (`supervisor.py:591-597`). `OneHolder` says what remains true: starts
  that do not overlap exclude each other.

What the passing runs say besides: after a death between the creation of the
lock and the write of its pid, and only then or while its pid is in use again,
nobody can start (`RestartSucceeds`). An answer that was cut off by the timeout
may miss the first part of the output; any other comes when the child and all
its descendants have closed the pipe, with nothing read thrown away
(`AnswerAtEnd`). A request whose checkpoint was torn by a death never finishes,
and neither does one whose turn reports a session when the session map is torn:
every attempt raises and every restart tries again (`SettledUnlessTorn` excuses
these two cases, and calls that raise, which `raise` is about). A caller of the
peer client that is told of a timeout or an error may ask again and gets the
same request (`AnswersHold`), although the request may have finished in the
meantime.

Two more disagreements were met and are recorded as hazards rather than runs:
`agent_state.json` and `scheduler_state.json` never describe the request being
handled, because they are written with an empty slot only; and "one accepted
request creates one inspectable activity folder"
(`docs/implementation_plan.md:61`) fails when the process dies between
inserting and binding the activity (`FewFolders` states what remains true).

## 4. Proofs

All theorems are about specifications without fairness (`Spec`, `FilesSpec`,
`LockSpec`, `AdapterSpec`, `ExchangeSpec`), for any values of the constants and
any bounds. They rest on the named assumptions of the modules that declare the
constants: `PayloadAssumption` and `NullAssumption` (a body's fields have their
types; `NULL` is not an id, a session or a number), `StatusAssumption` (nor a
status), `ClockAssumption` (leases and ticks are integers), `BoundAssumption`
(the bounds are naturals), `CodeAssumption` (what a turn answers is never
`NULL`), `ProcessAssumption`, `LockBoundAssumption`, `AdapterAssumption` and
`ExchangeAssumption` (the same for the other modules: markers are not ids,
bounds are naturals). The runs evaluate them.

| Theorem | Module | What it says for every instance |
|---|---|---|
| `TypeCorrect`, `SlotCorrect` | `AgentRuntimeProofs` | `TypeOK`; `SlotInv` |
| `AnswersKept`, `LeasesKept` | `AgentRuntimeSafety` | an answer is never run again; leases are on work in progress |
| `CancellationsStick`, `RequeuesJustified`, `InterruptsJustified` | `AgentRuntimeSafety` | what may overwrite a cancellation, requeue running work, interrupt a turn |
| `NothingForgotten` | `AgentRuntimeSafety` | work in flight is in the hand or was stranded by an exception |
| `SlotStaysIntact`, `ActivitiesKept`, `SessionsKept`, `OneActivityActive` | `AgentRuntimeSafety` | the pairing of requests, activities and sessions |
| `AcceptedOnlyOnce` | `AgentRuntimeSafety` | no key is accepted twice |
| `FoldersAreFew` | `AgentRuntimeSafety` | a request has one activity, and one more for each death or exception at most |
| `LeasesEndOnTime`, `QueueKeepsOrder` | `AgentRuntimeSafety` | comparing times as texts is right to within a second, for leases and for the queue |
| `QueueNeverStuck` | `AgentRuntimeSafety` | a non-empty queue has a first row, if priorities are bounded |
| `WakeupNotMissed` | `AgentRuntimeSafety` | the wakeup event is set when the loop sleeps on a queued request, if `MaxQuanta = 0` |
| `LifecycleImplemented` | `AgentRuntimeRefinement` | `Spec => Lifecycle!Spec` |
| `FilesTypes`, `FilesStayInOrder` | `ActivityFilesProofs` | types; folders before rows, artifacts before answers, no report ahead of its row |
| `FilesKeepSlot`, `FilesKeepAnswers`, `FilesKeepCancellations`, `FilesKeepActivities` | `ActivityFilesProofs` | `TypeOK`, `SlotIntact`, `AnswerKept`, `CancellationSticks`, `ActivityKept` under `FilesSpec` |
| `FilesImplementLifecycle` | `ActivityFilesProofs` | `FilesSpec => Lifecycle!Spec` |
| `LockTypes`, `LockExcludes` | `SupervisorLockProofs` | types; starts that do not overlap never hold the lock together |
| `AdapterTypes`, `NoChildLeft`, `AnswersComeAtEnd`, `RealSessionsStay` | `CodexAdapterProofs` | types; no orphan; no answer before the end of the output, success only for status 0; what may replace a session |
| `TurnImplemented` | `CodexAdapterProofs` | `AdapterSpec => Turn!Spec` |
| `ExchangeTypes`, `AnswersStand` | `PeerExchangeProofs` | types; one row per key, and answers that stand |

**The inductive invariant** of the runtime is `IInv == TypeOK /\ SlotInv`.
`TypeOK` alone is not inductive: `mark_request_running`, `complete_request`,
`bind_activity_request` write the row of the request in hand without looking
whether there is one, and only `SlotInv` says there is, and which statuses it
may have at each point of the task. `SlotInv` in turn is what the atomic
segments between two suspensions establish: a handler can change the row in hand
only where the task is suspended, which is before its first step and during its
turn, and those are the two places where `SlotInv` allows a cancelled row.
`RequestStoreProofs` has one lemma per store method; the step lemmas cite it,
one case per action.

**The transitions of a row.** `RowStep` looks at every action once and lists
what it may do to one row: nothing, or one of eight moves (`Inserted`, `Leased`,
`Withdrawn`, `Asked`, `Started`, `Requeued`, `Settled`, `Answered`), each with its
guard and its effect on lease and output. `AnswerKept`, `LeaseColumns` and
`CancellationSticks` then follow without looking at the actions again. The other
properties each need a strengthening, proved relative to `IInv`:

* `CancelInv`: the task's cancel flag is up only where it has a reason
  (`InterruptsJustified`, `RequeuesJustified`);
* `CoverInv`: a task that ended has settled its request or stranded it
  (`NothingForgotten`);
* `ActivityInv`: the activity in the slot is the one the row is bound to, and
  rows that do not exist have neither activity nor session
  (`SlotStaysIntact`, `ActivitiesKept`, `SessionsKept`);
* `OneActiveInv`: with no exception so far, a task that is over left no active
  activity (`OneActivityActive`);
* `FolderInv`: the activities linked to a request are the one it is bound to, the
  one its attempt is about to bind, and one for each attempt that broke off in
  between; as long as the request is unbound there is one fewer
  (`FoldersAreFew`). A raise and a death each use up the unit of budget that
  their orphan costs. An activity that a body names and that was never made has no
  link, so that making it does not count twice;
* `Bodies`: a row that waits has a body (`QueueKeepsOrder`, `QueueNeverStuck`);
* `WakeInv`: with free time off, a task is always a request's
  (`WakeupNotMissed`).

**Times as texts.** `TextRankBounds` says how far the text of an instant is from
the instant: less than a second. From it follow both halves of `LeaseTiming` (no
lease is reclaimed more than a second early, none outlives its deadline by
more), and `QueueOrder`. That `lease_next_request` always finds a row needs
more: `Precedes` has to have a first element among the rows that wait.
`QueueHasHead` takes the highest priority, then the lowest text, each the least
element of a set of naturals (`LeastOf`). The loop decides between leasing and
free time by one query, and the model by `Queued = {}` and `HeadOfQueue`: this
is the proof that the two agree. Without a bound on priorities an infinite queue
could have no first row; `models.py:77` admits 0 to 100.

`WakeupNotMissed` and `QueueNeverStuck` are the theorems with an extra
assumption. `WakeupNotMissed` needs its own: after a quantum the loop goes
straight to `_sleep_until_wakeup`, which clears the event (`supervisor.py:252`)
without looking at the queue, so a request accepted during the quantum can find
the loop asleep with the event down. It waits for the poll interval, which is
what `QueuedIsServed` checks in `liveness`.

**The refinement** maps each action to one step of the lifecycle or a stutter:

| Runtime | Lifecycle |
|---|---|
| `CreateRequest` | `Accept` |
| `CancelRequest` of a queued request, of any other | `Withdraw`, `Ask` |
| `LoopLease` | `Take` |
| `TaskSettle`, `TurnCancelled`: complete or fail; requeue; finalize a cancellation | `Finish`; `PutBack`; `Settle` |
| `RecoverInFlight`, `LoopReclaim`; `RecoverCancelled` | `Return`; `Settle` |
| `LoopResume`, `LoopRaises`, `ShutdownEnd`, `Crash` | `LetGo` when the hand holds something |

**The files.** A step of `ActivityFiles` moves the runtime by a step of
`AgentRuntime`, or not at all, or breaks an attempt off at a file that cannot be
read or written (`RuntimeMoves`). A broken attempt is no step of `AgentRuntime`:
a missing file costs no unit of the fault budget, and an attempt can break off
after it ended. So the invariants of the runtime are carried over first, one
lemma for `BrokenAttempt` next to the step lemma there was (`RuntimeInv`).
`FoldersAreFew` is not among them, nor are the properties that count exceptions.

`FilesInOrder` is not inductive. What the order of the commits guarantees is
only visible between them, so two invariants say what is true there:

* `HandInv`, of the runtime alone: a request in hand has no answer until its
  attempt is settled (`AttemptInv`), and then the one the verdict says; an answered
  request has an activity, and a bound activity has a row (`RowsInv`); a quantum
  works on nobody's activity (`QuantumAlone`). Without the first a turn could
  overwrite the artifacts of an answer; without the last a quantum could
  report "done" into the folder of a request.
* `FilesInv`: whatever is owed is one of four things (`Owing`): the folder of an
  activity about to be inserted, the artifacts of an answer about to be stored, a
  report that says an end only if the row has one, or an operation on a file of
  no request; and an activity about to be bound is freshly made, while an
  attempt about to be settled has the artifacts of its verdict (`PlaceInv`).

`OwnStep` is the lemma about sharing: a request comes to an activity of its own
only by binding the one its attempt has made, so that nothing that is said of
the files of an activity becomes false because another request appears. Then
each kind of step has its lemma: one that writes nothing (`OrderStep`,
`QuietStep`), one that writes what is owed (`HeadFits`: it fits the rows;
`PutStep`: what fits keeps the order), one that tears it (`TornStep`: a torn
file fits too), and the commits in between (`InsertStep`, `StoreStep`,
`ReportStep`).

**The lock.** `LockInv` is the argument: as long as no two starts overlapped,
at most one process is deciding; the holder's file is the one that is there, with
its pid in it as soon as it is written; what a process is about to probe is the
pid of every holder; and when it is about to unlink there is no holder. The step
that needs all of it is `FindOwnerDead`: the owner that was read is the pid of
any holder, a holder is alive, and a process of the same user is seen alive.
Without `~overlapped` the second part breaks between `FindOwnerDead` and
`ClearLock`, which is what `lock_race` shows.

**The turn.** Four facts are inductive together: a child runs only at the two
points that wait for it (`ChildInv`); a cancellation is pending exactly where it
is still to be thrown (`CancelInv`), which gives the refinement its guard
"not asked" for an answer; nothing is lost before the timeout (`OutputInv`); and
every thread id in the output was announced (`AnnouncedInv`). `ThreadFound` is
the lemma about the parser: what it returns is one of the lines. It takes the
existence of a first line from the well-foundedness of `<`.

**The exchange.** `RowInv` adds to `OneRowPerKey` that every answer on its way
has its caller's body and that a row that is not there has none, without which
an insert could replace the body of a row a caller was given. `WaitInv` carries
the status in a poll's answer to the result; `ServerMoves` is the one lemma about
the server: finished, cancelled and asked are never left for work.

## 5. Only model-checked

* The liveness properties: the prover has neither fairness nor `ENABLED`.
* `SettledUnlessTorn` of `ActivityFiles`, for the same reason: that only torn files
  and exceptions keep a request from its end is a liveness property.
* The six violated statements: a counterexample is a run, not a theorem.

## 6. Not modelled, and why

* Lines of parts that are modelled: the `request_events` and `peers` tables
  (written or listed, no decision reads them); the read endpoints; texts, paths,
  prompts and result bodies; the 500-activity limit of the recovery; stderr
  and the error codes made from it.
* The polling of the owner's page. Two overlapping polls report a reply twice,
  and the later one to end drops the ids that were pushed meanwhile
  (`ui/index.html:1122`); nothing of the runtime depends on it.
* A program with `enable_supervisor` off that repairs the store under a running
  supervisor (`supervisor.py:78`): it takes two `AgentRuntime`s over one store,
  more states than TLC can explore. It is listed as a hazard.
* Parts left out for good: prompt assembly (formatting), the command line
  (argument parsing), the event log (append-only, read by people), peer
  registration (one row, no decision).

## 7. Plan

Done: the store and the runtime, the lock, the adapters, the activity files, the
peer exchange, and proofs of every safety and action property that a passing run
checks. Left, in this order:

1. Proofs: the other safety properties of the runtime under `FilesSpec` (leases,
   interrupts, requeues), with `BrokenAttempt` as one more case; that the store
   alone, whatever its callers do, keeps the facts that need no slot; what is
   left to the lock when starts do overlap.
2. A store shared by a supervisor and an `ApiOnly` program, with an abstract
   runtime (`RequestLifecycle`) in the place of one of the two.
