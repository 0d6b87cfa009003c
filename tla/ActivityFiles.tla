--------------------------- MODULE ActivityFiles ---------------------------
(***************************************************************************)
(* The runtime of AgentRuntime together with the files it keeps beside the *)
(* store (activity_manager.py): the folder of every activity, the Codex    *)
(* artifacts and session_map.json.                                         *)
(*                                                                         *)
(* The files are written by write_text, which truncates and then writes,   *)
(* between the commits of the store.  What a coroutine has to read or      *)
(* write before its next commit, or before it ends, is owed; while         *)
(* anything is owed no other coroutine moves, but the process may die or   *)
(* the write may raise, which leaves a torn file.                          *)
(*                                                                         *)
(* Of the contents the model keeps what the file was last written for.     *)
(* Left out: state.json and inbox.md, which are written with the scaffold  *)
(* and never read or changed, the runtime files and the event log.         *)
(***************************************************************************)
EXTENDS AgentRuntime, Sequences

\* What a turn answers is never None.
ASSUME CodeAssumption == NULL \notin TurnCode

VARIABLES
    summary,      \* summary.md of each activity
    checkpoint,   \* checkpoint.json of each activity
    artifacts,    \* codex/<activity>: the code of the turn it was written for
    sessionMap,   \* session_map.json, its entries left out
    owed,         \* file operations of the running coroutine, in order
    prepared      \* what it commits then: a new activity, or a turn's answer

files == <<summary, checkpoint, artifacts, sessionMap>>
filesVars == <<vars, files, owed, prepared>>

Nothing == [act |-> NULL, code |-> NULL, session |-> NULL]

Report == {"scaffold", "done", "failed", "retry", "interrupted", "cancelled", "yielded"}

Folder(content) == [ActivityId -> content \cup {"absent", "torn"}]

Operation ==
    [file : {"summary", "checkpoint", "artifacts", "sessionMap", "layout", "read"},
     for : Report \cup TurnCode \cup {"session"}]

FilesTypeOK ==
    /\ summary \in Folder(Report)
    /\ checkpoint \in Folder(Report)
    /\ artifacts \in Folder(TurnCode)
    /\ sessionMap \in {"absent", "torn", "session"}
    /\ owed \in Seq(Operation)
    /\ prepared \in [act : ActivityId \cup {NULL}, code : TurnCode \cup {NULL},
                     session : Session \cup {NULL}]

FilesInit ==
    /\ Init
    /\ summary = [a \in ActivityId |-> "absent"]
    /\ checkpoint = [a \in ActivityId |-> "absent"]
    /\ artifacts = [a \in ActivityId |-> "absent"]
    /\ sessionMap = "absent"
    /\ owed = <<>>
    /\ prepared = Nothing

-----------------------------------------------------------------------------
(* File operations                                                         *)

Op(f, v) == [file |-> f, for |-> v]

\* The activity whose folder the coroutine works on.
Writing == IF taskAct = NULL THEN prepared.act ELSE taskAct

\* The file f is written, or torn when v is "torn".
Put(f, v) ==
    /\ summary' = IF f = "summary" THEN [summary EXCEPT ![Writing] = v] ELSE summary
    /\ checkpoint' = IF f = "checkpoint" THEN [checkpoint EXCEPT ![Writing] = v]
                                         ELSE checkpoint
    /\ artifacts' = IF f = "artifacts" THEN [artifacts EXCEPT ![Writing] = v]
                                       ELSE artifacts
    /\ sessionMap' = IF f \in {"sessionMap", "layout"} THEN v ELSE sessionMap

\* The file to be read is missing or no JSON: read_checkpoint raises, or
\* update_session_map before it writes.
Unreadable(f) ==
    \/ f = "read" /\ checkpoint[Writing] \in {"absent", "torn"}
    \/ f = "sessionMap" /\ sessionMap \in {"absent", "torn"}

DoNext ==
    /\ owed # <<>>
    /\ ~Unreadable(Head(owed).file)
    /\ Put(Head(owed).file, Head(owed).for)
    /\ owed' = Tail(owed)
    /\ UNCHANGED <<vars, prepared>>

\* The attempt ends with an exception; what it owed stays undone.
AttemptBreaks ==
    /\ task # "none"
    /\ TaskGoes("raised")
    /\ stranded' = stranded \cup ({current} \ {NULL})
    /\ owed' = <<>> /\ prepared' = Nothing
    /\ UNCHANGED <<storeVars, taskAct, cancelled, verdict, outages, retries, quanta>>

ReadFails ==
    /\ owed # <<>>
    /\ Unreadable(Head(owed).file)
    /\ AttemptBreaks
    /\ UNCHANGED <<files, faults>>

\* The disk is full, or the file cannot be opened.
WriteFails ==
    /\ owed # <<>>
    /\ faults < MaxFaults
    /\ faults' = faults + 1
    /\ AttemptBreaks
    /\ Put(Head(owed).file, "torn") \/ UNCHANGED files

-----------------------------------------------------------------------------
(* The steps of AgentRuntime, with the file operations between them        *)

AtEase == owed = <<>> /\ prepared = Nothing

Owes(ops) == owed' = ops /\ UNCHANGED <<files, prepared>>

\* Steps that touch none of these files.
Plain(Step) == AtEase /\ Step /\ Owes(<<>>)

\* Deviation: the session map is left to the first turn that needs it.
StartWithLayout_NoMap == AtEase /\ Start /\ Owes(<<>>)

\* ensure_layout makes an empty session map if there is none.
StartWithLayout ==
    /\ AtEase
    /\ Start
    /\ Owes(IF sessionMap = "absent" THEN <<Op("layout", "session")>> ELSE <<>>)

Scaffold == <<Op("summary", "scaffold"), Op("checkpoint", "scaffold")>>

\* The ids whose folder and row are yet to be made.  A new id is random: the
\* model picks one that a body may name later or one that none names, and
\* which of its kind it is makes no difference.
NewFolder(a) ==
    LET Unused == {b \in FreshActivities : checkpoint[b] = "absent" /\ summary[b] = "absent"}
        Nameable == {p.activity : p \in Payload}
    IN IF current # NULL /\ activityId[current] # NULL
       THEN a \in NewActivityFor(current)
       ELSE /\ a \in Unused
            /\ a = CHOOSE b \in Unused : b \in Nameable <=> a \in Nameable

\* create_activity writes the folder before the row is inserted.
PrepareActivity(a) ==
    /\ AtEase
    /\ task = "created" /\ ~cancelled
    /\ NewFolder(a)
    /\ prepared' = [Nothing EXCEPT !.act = a]
    /\ owed' = Scaffold
    /\ UNCHANGED <<vars, files>>

\* Deviation: the row is inserted first, the folder is written then.
InsertPrepared_First ==
    /\ prepared.act # NULL
    /\ TaskCreateActivity(prepared.act) \/ QuantumCreateActivity(prepared.act)
    /\ prepared' = Nothing
    /\ UNCHANGED <<files, owed>>

InsertPrepared ==
    /\ owed = <<>> /\ prepared.act # NULL
    /\ TaskCreateActivity(prepared.act) \/ QuantumCreateActivity(prepared.act)
    /\ prepared' = Nothing
    /\ UNCHANGED <<files, owed>>

ActivateAndRead ==
    /\ AtEase
    /\ TaskActivate
    /\ Owes(<<Op("read", "session")>>)

\* Deviation: the answer is stored before its artifacts are written.
TurnReturns_NoArtifacts(code, s) ==
    /\ AtEase
    /\ task = "turn"
    /\ cancelled => LateAnswer
    /\ code = "recoverable" => retries < MaxRetries
    /\ prepared' = [Nothing EXCEPT !.code = code, !.session = s]
    /\ UNCHANGED <<vars, files, owed>>

\* persist_codex_artifacts, before anything is stored.
TurnReturns(code, s) ==
    /\ AtEase
    /\ task = "turn"
    /\ cancelled => LateAnswer
    /\ code = "recoverable" => retries < MaxRetries
    /\ prepared' = [Nothing EXCEPT !.code = code, !.session = s]
    /\ owed' = <<Op("artifacts", code)>>
    /\ UNCHANGED <<vars, files>>

\* Deviation: the session is written in the place of the map.
StoreAnswer_BareSession ==
    /\ owed = <<>> /\ prepared.code # NULL
    /\ TurnAnswers(prepared.code, prepared.session)
    /\ prepared' = Nothing
    /\ owed' = IF prepared.session = NULL THEN <<>>
               ELSE <<Op("sessionMap", prepared.session)>>
    /\ UNCHANGED files

\* The session is committed, then update_session_map.
StoreAnswer ==
    /\ owed = <<>> /\ prepared.code # NULL
    /\ TurnAnswers(prepared.code, prepared.session)
    /\ prepared' = Nothing
    /\ owed' = IF prepared.session = NULL THEN <<>> ELSE <<Op("sessionMap", "session")>>
    /\ UNCHANGED files

\* What is written when a request's attempt is over.  A turn cut short by the
\* cancellation of its request reports nothing; one that answered although its
\* request was cancelled meanwhile reports the cancellation.
Reports ==
    CASE verdict = "ok" -> <<Op("summary", "done"), Op("checkpoint", "done")>>
      [] verdict = "recoverable" -> <<Op("summary", "retry")>>
      [] verdict = "fatal" -> <<Op("summary", "failed")>>
      [] verdict = "interrupted" ->
             <<Op("summary", "interrupted"), Op("checkpoint", "interrupted")>>
      [] verdict = "cancelled" -> <<Op("summary", "cancelled")>>
      [] OTHER -> <<>>

WrapUpAndReport == AtEase /\ TaskWrapUp /\ Owes(Reports)

QuantumSettlesAndReports ==
    /\ AtEase
    /\ QuantumSettle
    /\ Owes(IF Queued # {} THEN <<Op("summary", "yielded"), Op("checkpoint", "yielded")>>
                           ELSE <<Op("summary", "done")>>)

QuantumCancelledReports ==
    AtEase /\ QuantumCancelled /\ Owes(<<Op("summary", "interrupted")>>)

\* The process dies; the file it was writing is torn, or not begun.
DieWriting ==
    /\ Crash
    /\ owed' = <<>> /\ prepared' = Nothing
    /\ \/ UNCHANGED files
       \/ owed # <<>> /\ Put(Head(owed).file, "torn")

-----------------------------------------------------------------------------
BootAndFiles ==
    \/ StartWithLayout
    \/ \E r \in RequestId : Plain(RecoverInFlight(r)) \/ Plain(RecoverCancelled(r))
    \/ \E a \in ActivityId : Plain(RecoverActivity(a))
    \/ Plain(BootDone)

TaskAndFiles ==
    \/ Plain(TaskKilledAtBirth) \/ Plain(TaskReuseActivity) \/ Plain(TaskBind)
    \/ Plain(TaskMarkRunning) \/ Plain(TaskSettle) \/ Plain(TurnCancelled)
    \/ \E a \in ActivityId : PrepareActivity(a)
    \/ InsertPrepared \/ ActivateAndRead \/ StoreAnswer
    \/ \E code \in TurnCode, s \in Session \cup {NULL} : TurnReturns(code, s)
    \/ WrapUpAndReport \/ QuantumSettlesAndReports \/ QuantumCancelledReports

FileStep == DoNext \/ ReadFails

FilesNext ==
    \/ BootAndFiles \/ Plain(ApiStep) \/ Plain(LoopStep) \/ TaskAndFiles \/ FileStep
    \/ Plain(ShutdownBegin) \/ Plain(ShutdownEnd) \/ Plain(Tick)
    \/ Plain(LoopRaises) \/ Plain(TaskRaises)
    \/ WriteFails \/ DieWriting

FilesSpec == FilesInit /\ [][FilesNext]_filesVars

FilesFairSpec ==
    /\ FilesSpec
    /\ WF_filesVars(BootAndFiles)
    /\ WF_filesVars(Plain(LoopStep))
    /\ WF_filesVars(TaskAndFiles \/ FileStep)
    /\ WF_filesVars(Plain(ShutdownEnd))
    /\ WF_filesVars(Plain(Tick))

-----------------------------------------------------------------------------
(* How the files follow the rows                                           *)

\* The activity of r was made for it, and no other request has it.  A client
\* may name an activity that exists; whoever comes later then writes over the
\* files of the earlier one.
OwnActivity(r) ==
    /\ status[r] # "absent" /\ payload[r].activity = NULL
    /\ \A q \in RequestId \ {r} : activityId[q] # activityId[r]

\* What a row promises is on the disk before it: an activity has its folder,
\* and a request with a result or an error has the artifacts of the turn that
\* earned it, whenever the process died or a write raised.
RowsHaveFiles ==
    /\ \A a \in ActivityId :
          actStatus[a] # "absent" => summary[a] # "absent" /\ checkpoint[a] # "absent"
    /\ \A r \in RequestId :
          OwnActivity(r) =>
              /\ "result" \in output[r] => artifacts[activityId[r]] = "ok"
              /\ "error" \in output[r] => artifacts[activityId[r]] = "fatal"

\* A folder that reports an end is never ahead of the row: a request that
\* resumes its own activity never finds a checkpoint that says "done".
ReportsFollowRows ==
    \A r \in RequestId :
        LET a == activityId[r]
        IN /\ a # NULL /\ OwnActivity(r)
           /\ checkpoint[a] = "done" \/ summary[a] \in {"done", "failed"}
           => output[r] # {}

FilesInOrder == RowsHaveFiles /\ ReportsFollowRows

\* A file that stops every later attempt: the checkpoint of the request's
\* activity, or the session map, was torn by a death or a failed write.
Poisoned(r) ==
    \/ sessionMap = "torn"
    \/ activityId[r] # NULL /\ checkpoint[activityId[r]] = "torn"

\* Unless a file it needs was torn or a call raised, an accepted request is
\* finished or asked to be cancelled, whatever the process died in.
SettledUnlessTorn ==
    \A r \in RequestId :
        status[r] \in InFlight \cup {"queued"} ~>
            \/ status[r] \in Terminal \cup {"cancellation_requested"}
            \/ Poisoned(r) \/ faults > 0
=============================================================================
