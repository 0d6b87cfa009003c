---------------------------- MODULE CodexAdapter ----------------------------
(***************************************************************************)
(* The turns of one activity through a Codex adapter (adapters.py): the    *)
(* coroutine RealCodexAdapter.run_turn with the child process it starts,   *)
(* its output pipe, the 30 second limit and the cancellation of its task;  *)
(* and FakeCodexAdapter, which only sleeps.                                *)
(*                                                                         *)
(* The coroutine suspends at "spawn" (the pipes are being connected),      *)
(* "wait" (the first communicate), "drain" (the one after the timeout),    *)
(* "reap" (the one after a cancellation) and, in the fake adapter,         *)
(* "sleep".  A cancellation that is pending when it is resumed is thrown   *)
(* there, whatever else happened meanwhile (asyncio of Python 3.12).       *)
(*                                                                         *)
(* A line of output is a thread id, an item of type "message" (with role   *)
(* agent) or "agent_message", "junk" (not JSON, cut off, or another event) *)
(* or "odd" (not UTF-8, or JSON that is no object).  stderr is left out.   *)
(***************************************************************************)
EXTENDS Integers, Sequences, FiniteSets

CONSTANTS
    Thread,      \* thread ids children announce
    MADE_UP,     \* "failed-<activity>" or "fake-session-<activity>"
    NULL,
    MaxLines     \* bound: lines of output of a turn

OtherLine == {"message", "agent_message", "junk", "odd"}

ASSUME AdapterAssumption ==
    /\ MADE_UP \notin Thread /\ NULL \notin Thread /\ NULL # MADE_UP
    /\ Thread \cap OtherLine = {}
    /\ MaxLines \in Nat

VARIABLES
    mode,        \* settings.adapter_mode
    session,     \* session_id of the activity's row
    pc,          \* where run_turn stands; "idle" between two turns
    cancelReq,   \* a cancellation to be thrown
    cancelSeen,  \* history: the task was cancelled during this turn
    timedOut,    \* timed_out
    child,       \* the codex process of this turn
    code,        \* its exit status
    helper,      \* a descendant of it holds the output pipe
    out,         \* the lines written into the pipe in this turn
    lost,        \* how many of them were read and thrown away
    outcome,     \* how the last turn ended
    messages,    \* final_message of an answer: how many messages it joins
    announced    \* history: thread ids announced by any child

adapterVars == <<mode, session, pc, cancelReq, cancelSeen, timedOut, child, code, helper,
                 out, lost, outcome, messages, announced>>

Line == Thread \cup OtherLine
TurnCode == {"ok", "recoverable", "fatal"}
ExitCode == {0, 1, -9}
Suspended == {"spawn", "wait", "drain", "reap", "sleep"}

AdapterTypeOK ==
    /\ mode \in {"real", "fake"}
    /\ session \in Thread \cup {MADE_UP, NULL}
    /\ pc \in Suspended \cup {"idle", "begin"}
    /\ cancelReq \in BOOLEAN /\ cancelSeen \in BOOLEAN /\ timedOut \in BOOLEAN
    /\ child \in {"none", "running", "over"}
    /\ code \in ExitCode
    /\ helper \in BOOLEAN
    /\ out \in Seq(Line)
    /\ lost \in 0..Len(out)
    /\ outcome \in TurnCode \cup {"none", "cancelled", "raised"}
    /\ messages \in Nat
    /\ announced \in SUBSET Thread

AdapterInit ==
    /\ mode \in {"real", "fake"}
    /\ session = NULL
    /\ pc = "idle"
    /\ cancelReq = FALSE /\ cancelSeen = FALSE /\ timedOut = FALSE
    /\ child = "none" /\ code = 0 /\ helper = FALSE
    /\ out = <<>> /\ lost = 0
    /\ outcome = "none" /\ messages = 0
    /\ announced = {}

-----------------------------------------------------------------------------
(* parse_codex_events                                                      *)

\* Deviation: the first event names the thread, whatever it is about.
ThreadIn_FirstEvent(lines) == IF lines = <<>> THEN NULL ELSE lines[1]

ThreadIn(lines) ==
    LET At == {i \in DOMAIN lines : lines[i] \in Thread}
    IN IF At = {} THEN NULL
       ELSE lines[CHOOSE i \in At : \A j \in At : i <= j]

\* Items of type message only; an agent_message is skipped like any event.
MessagesIn(lines) == Cardinality({i \in DOMAIN lines : lines[i] = "message"})

Undecodable(lines) == \E i \in DOMAIN lines : lines[i] = "odd"

-----------------------------------------------------------------------------
(* The child and what it leaves behind; external to the runtime            *)

ChildVars == <<child, code, helper, out>>

Writes(l) ==
    /\ child = "running" \/ helper
    /\ Len(out) < MaxLines
    /\ out' = Append(out, l)
    /\ announced' = announced \cup ({l} \cap Thread)
    /\ UNCHANGED <<mode, session, pc, cancelReq, cancelSeen, timedOut, child, code, helper,
                   lost, outcome, messages>>

ChildMoves ==
    UNCHANGED <<mode, session, pc, cancelReq, cancelSeen, timedOut, out, lost, outcome,
                messages, announced>>

ChildForks ==
    /\ child = "running" /\ ~helper
    /\ helper' = TRUE
    /\ ChildMoves /\ UNCHANGED <<child, code>>

HelperEnds ==
    /\ helper
    /\ helper' = FALSE
    /\ ChildMoves /\ UNCHANGED <<child, code>>

ChildExits(c) ==
    /\ child = "running"
    /\ child' = "over" /\ code' = c
    /\ ChildMoves /\ UNCHANGED helper

\* process.kill(): SIGKILL, which its descendants do not get.
Kill ==
    /\ IF child = "running" THEN child' = "over" /\ code' = -9
                            ELSE UNCHANGED <<child, code>>
    /\ UNCHANGED <<helper, out>>

\* communicate() returns at the end of the pipe, when nobody holds it open.
Collected == child = "over" /\ ~helper

-----------------------------------------------------------------------------
(* run_turn                                                                *)

\* A turn of the same activity, or of a later attempt at it.
BeginTurn ==
    /\ pc = "idle"
    /\ pc' = IF mode = "real" THEN "begin" ELSE "sleep"
    /\ cancelSeen' = FALSE /\ timedOut' = FALSE
    /\ child' = "none" /\ code' = 0 /\ helper' = FALSE
    /\ out' = <<>> /\ lost' = 0
    /\ outcome' = "none" /\ messages' = 0
    /\ UNCHANGED <<mode, session, cancelReq, announced>>

\* Task.cancel() while the coroutine is suspended.
Cancel ==
    /\ pc \in Suspended
    /\ cancelReq' = TRUE /\ cancelSeen' = TRUE
    /\ UNCHANGED <<mode, session, pc, timedOut, ChildVars, lost, outcome, messages, announced>>

Continues(from, to) ==
    /\ pc = from
    /\ pc' = to
    /\ UNCHANGED <<mode, session, cancelSeen, outcome, messages, announced>>

\* The turn is over; its task dies with the exception or goes on without one,
\* and a cancellation still pending dies with it.
EndsTurn(o) ==
    /\ pc' = "idle"
    /\ outcome' = o
    /\ cancelReq' = FALSE
    /\ UNCHANGED <<mode, cancelSeen, timedOut, lost, announced>>

EndsWithout(o) == EndsTurn(o) /\ UNCHANGED <<session, messages>>

\* What the supervisor stores of an answer: the session, if there is one.
Remember(s) == session' = IF s # NULL THEN s ELSE session

\* The command is launched before the coroutine suspends.
Spawn ==
    /\ Continues("begin", "spawn")
    /\ child' = "running"
    /\ UNCHANGED <<cancelReq, timedOut, code, helper, out, lost>>

\* Deviation: the session the activity has is not looked at.
SpawnFails_NewSession ==
    /\ pc = "begin"
    /\ Remember(MADE_UP)
    /\ messages' = 0
    /\ EndsTurn("fatal")
    /\ UNCHANGED ChildVars

\* OSError: an answer, with the code adapter_exec_failed.
SpawnFails ==
    /\ pc = "begin"
    /\ Remember(IF session # NULL THEN session ELSE MADE_UP)
    /\ messages' = 0
    /\ EndsTurn("fatal")
    /\ UNCHANGED ChildVars

SpawnDone ==
    /\ ~cancelReq
    /\ Continues("spawn", "wait")
    /\ UNCHANGED <<cancelReq, timedOut, ChildVars, lost>>

\* asyncio kills the child it has no transport for yet; the handler finds no
\* "process" and raises UnboundLocalError.
SpawnCancelled ==
    /\ pc = "spawn" /\ cancelReq
    /\ Kill
    /\ EndsWithout("raised")

\* Deviation: the wait has no limit.
TimeOut_Never == FALSE /\ UNCHANGED adapterVars

\* 30 seconds are over.  What the first communicate has read is lost.
TimeOut ==
    /\ ~cancelReq
    /\ Continues("wait", "drain")
    /\ timedOut' = TRUE
    /\ lost' \in 0..Len(out)
    /\ Kill
    /\ UNCHANGED cancelReq

\* Deviation: the child is not killed.
WaitCancelled_NoKill ==
    /\ cancelReq
    /\ cancelReq' = FALSE
    /\ Continues("wait", "reap")
    /\ UNCHANGED <<timedOut, ChildVars, lost>>

WaitCancelled ==
    /\ cancelReq
    /\ cancelReq' = FALSE
    /\ Continues("wait", "reap")
    /\ Kill
    /\ UNCHANGED <<timedOut, lost>>

\* The child has exited by itself: kill() may raise ProcessLookupError.
WaitCancelledRaises ==
    /\ pc = "wait" /\ cancelReq
    /\ child = "over"
    /\ EndsWithout("raised")
    /\ UNCHANGED ChildVars

DrainCancelled ==
    /\ pc = "drain" /\ cancelReq
    /\ EndsWithout("cancelled")
    /\ UNCHANGED ChildVars

\* The child is gone, or a second cancellation does not wait for it.
Reaped ==
    /\ pc = "reap"
    /\ cancelReq \/ Collected
    /\ EndsWithout("cancelled")
    /\ UNCHANGED ChildVars

Output == SubSeq(out, lost + 1, Len(out))

\* Deviation: the child's exit is enough, its pipe may still be open.
Answer_AtExit ==
    /\ pc \in {"wait", "drain"}
    /\ ~cancelReq /\ child = "over"
    /\ ~Undecodable(Output)
    /\ Remember(ThreadIn(Output))
    /\ messages' = MessagesIn(Output)
    /\ EndsTurn(IF code = 0 THEN "ok" ELSE "fatal")
    /\ UNCHANGED ChildVars

\* Deviation: a cancellation that comes when the child is done is swallowed,
\* as asyncio.wait_for did before Python 3.12.
Answer_Late ==
    /\ pc \in {"wait", "drain"}
    /\ Collected
    /\ ~Undecodable(Output)
    /\ Remember(ThreadIn(Output))
    /\ messages' = MessagesIn(Output)
    /\ EndsTurn(IF code = 0 THEN "ok" ELSE "fatal")
    /\ UNCHANGED ChildVars

\* The output is decoded, the lines that are no JSON are skipped.  A timeout
\* is no error by itself: the killed child's status is one.
Answer ==
    /\ pc \in {"wait", "drain"}
    /\ ~cancelReq /\ Collected
    /\ ~Undecodable(Output)
    /\ Remember(ThreadIn(Output))
    /\ messages' = MessagesIn(Output)
    /\ EndsTurn(IF code = 0 THEN "ok" ELSE "fatal")
    /\ UNCHANGED ChildVars

AnswerRaises ==
    /\ pc \in {"wait", "drain"}
    /\ ~cancelReq /\ Collected
    /\ Undecodable(Output)
    /\ EndsWithout("raised")
    /\ UNCHANGED ChildVars

-----------------------------------------------------------------------------
(* FakeCodexAdapter                                                        *)

FakeAnswers(c) ==
    /\ pc = "sleep" /\ ~cancelReq
    /\ Remember(IF session # NULL THEN session ELSE MADE_UP)
    /\ messages' = IF c = "ok" THEN 1 ELSE 0
    /\ EndsTurn(c)
    /\ UNCHANGED ChildVars

FakeCancelled ==
    /\ pc = "sleep" /\ cancelReq
    /\ EndsWithout("cancelled")
    /\ UNCHANGED ChildVars

-----------------------------------------------------------------------------
AdapterStep ==
    \/ Spawn \/ SpawnFails \/ SpawnDone \/ SpawnCancelled
    \/ TimeOut \/ WaitCancelled \/ WaitCancelledRaises \/ DrainCancelled \/ Reaped
    \/ Answer \/ AnswerRaises
    \/ FakeCancelled \/ \E c \in TurnCode : FakeAnswers(c)

ChildStep == ChildForks \/ (\E l \in Line : Writes(l)) \/ \E c \in {0, 1} : ChildExits(c)

AdapterNext == BeginTurn \/ Cancel \/ AdapterStep \/ ChildStep \/ HelperEnds

AdapterSpec == AdapterInit /\ [][AdapterNext]_adapterVars

\* The event loop resumes what is ready, the timer included, and whoever holds
\* the pipe lets go of it one day.  The child itself owes nothing.
AdapterFairSpec ==
    /\ AdapterSpec
    /\ WF_adapterVars(AdapterStep)
    /\ WF_adapterVars(HelperEnds)

-----------------------------------------------------------------------------
(* What a turn guarantees                                                  *)

\* No codex process outlives its turn, however the turn ended: answered,
\* timed out, cancelled in any of its waits, or raised.  (Its descendants may.)
NoOrphan == pc = "idle" => child # "running"

\* An answer is given at the end of the output: unless time ran out, nobody is
\* left who could write more and nothing of what was read was thrown away; and
\* it is a success only if the child exited by itself, with status 0.  (What
\* the parser makes of the lines is another matter: CodexAdapterClaims.)
AnswerAtEnd ==
    pc = "idle" /\ mode = "real" /\ outcome \in TurnCode /\ child # "none" =>
        /\ ~timedOut => ~helper /\ lost = 0
        /\ child = "over"
        /\ outcome = "ok" <=> code = 0

\* A session that a child announced is only given up for another that a child
\* announced: neither a failed start nor a timeout replaces or forgets it.
RealSessionStays ==
    [][(session \in announced => session' \in announced')]_adapterVars

\* The promise: CodexTurn.
Turn == INSTANCE CodexTurn WITH running <- pc # "idle", asked <- cancelSeen

ImplementsTurn == Turn!Spec

\* Every turn ends, even when the child does nothing at all.
TurnEnds == pc # "idle" ~> pc = "idle"
=============================================================================
