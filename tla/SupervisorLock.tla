--------------------------- MODULE SupervisorLock ---------------------------
(***************************************************************************)
(* The lock file that keeps a second supervisor away from a task-memory    *)
(* root: AgentRuntime.start and shutdown of several processes, one action  *)
(* per file operation.                                                     *)
(*                                                                         *)
(* A file is known by the process that created it, as an open descriptor   *)
(* knows its inode: what a process writes into a file that was unlinked    *)
(* meanwhile is lost.                                                      *)
(***************************************************************************)
EXTENDS Naturals

CONSTANTS
    Process,     \* agent programs over one root; each may be started again
    ApiOnly,     \* those with enable_supervisor = False
    Pid,         \* process ids of the machine
    UserOf,      \* the user each program runs as
    NULL,
    MaxDeaths,   \* bound: processes killed
    MaxFaults    \* bound: exceptions during recovery

ASSUME ProcessAssumption ==
    /\ ApiOnly \subseteq Process
    /\ NULL \notin Process
    /\ NULL \notin Pid

ASSUME LockBoundAssumption == MaxDeaths \in Nat /\ MaxFaults \in Nat

VARIABLES
    pc,          \* where start or shutdown of each process stands
    pid,         \* the id of a running process
    retried,     \* the second of the two attempts to open the lock
    owner,       \* the pid the process read in the lock
    lock,        \* supervisor.lock: who created the file, and the pid in it
    overlapped,  \* history: two processes tried to take the lock at one time
    deaths, faults

lockVars == <<pc, pid, retried, owner, lock, overlapped, deaths, faults>>

NoFile == [by |-> NULL, pid |-> NULL]

LockTypeOK ==
    /\ pc \in [Process -> {"off", "open", "write", "read", "probe", "unlink",
                           "recover", "up", "release"}]
    /\ pid \in [Process -> Pid \cup {NULL}]
    /\ retried \in [Process -> BOOLEAN]
    /\ owner \in [Process -> Pid \cup {NULL}]
    /\ lock \in [by : Process \cup {NULL}, pid : Pid \cup {NULL}]
    /\ overlapped \in BOOLEAN
    /\ deaths \in 0..MaxDeaths
    /\ faults \in 0..MaxFaults

LockInit ==
    /\ pc = [p \in Process |-> "off"]
    /\ pid = [p \in Process |-> NULL]
    /\ retried = [p \in Process |-> FALSE]
    /\ owner = [p \in Process |-> NULL]
    /\ lock = NoFile
    /\ overlapped = FALSE
    /\ deaths = 0
    /\ faults = 0

-----------------------------------------------------------------------------
Alive(p) == pc[p] # "off"

\* Between the call of _acquire_supervisor_lock and its decision.
Acquiring(p) == pc[p] \in {"open", "read", "probe", "unlink"}

\* _supervisor_lock_held, or about to be: the process created the lock.
Holds(p) == pc[p] \in {"write", "recover", "up", "release"} /\ p \notin ApiOnly

\* The process schedules, or repairs the store in order to.
Owns(p) == pc[p] \in {"recover", "up"} /\ p \notin ApiOnly

Goes(p, from, to) == pc[p] = from /\ pc' = [pc EXCEPT ![p] = to]

\* A process that is gone keeps nothing.
Ends(p) ==
    /\ pc' = [pc EXCEPT ![p] = "off"]
    /\ pid' = [pid EXCEPT ![p] = NULL]
    /\ retried' = [retried EXCEPT ![p] = FALSE]
    /\ owner' = [owner EXCEPT ![p] = NULL]

\* os.kill(x, 0) succeeds: the process exists and may be signalled.
PidIsAlive(p, x) ==
    \E q \in Process : Alive(q) /\ pid[q] = x /\ UserOf[q] = UserOf[p]

-----------------------------------------------------------------------------
(* start: _acquire_supervisor_lock and _clear_stale_supervisor_lock        *)

Start(p) ==
    /\ Goes(p, "off", IF p \in ApiOnly THEN "recover" ELSE "open")
    /\ \E x \in Pid : /\ \A q \in Process : pid[q] # x
                      /\ pid' = [pid EXCEPT ![p] = x]
    /\ overlapped' = (overlapped \/ (p \notin ApiOnly /\ \E q \in Process : Acquiring(q)))
    /\ UNCHANGED <<retried, owner, lock, deaths, faults>>

\* O_CREAT | O_EXCL: the file is there, and empty.
CreateLock(p) ==
    /\ lock = NoFile
    /\ Goes(p, "open", "write")
    /\ lock' = [by |-> p, pid |-> NULL]
    /\ UNCHANGED <<pid, retried, owner, overlapped, deaths, faults>>

\* FileExistsError: the first time the process looks whether it is stale.
LockExists(p) ==
    /\ lock # NoFile
    /\ ~retried[p]
    /\ Goes(p, "open", "read")
    /\ UNCHANGED <<pid, retried, owner, lock, overlapped, deaths, faults>>

\* Deviation: another field of the payload is stored as the pid.
WriteLock_AgentId(p) ==
    /\ Goes(p, "write", "recover")
    /\ lock' = IF lock.by = p THEN [by |-> p, pid |-> p] ELSE lock
    /\ UNCHANGED <<pid, retried, owner, overlapped, deaths, faults>>

WriteLock(p) ==
    /\ Goes(p, "write", "recover")
    /\ lock' = IF lock.by = p THEN [by |-> p, pid |-> pid[p]] ELSE lock
    /\ UNCHANGED <<pid, retried, owner, overlapped, deaths, faults>>

ReadOwner(p) ==
    /\ lock.pid # NULL
    /\ Goes(p, "read", "probe")
    /\ owner' = [owner EXCEPT ![p] = lock.pid]
    /\ UNCHANGED <<pid, retried, lock, overlapped, deaths, faults>>

\* Deviation: any answer of the probe counts as a dead owner.
FindOwnerDead_Always(p) ==
    /\ Goes(p, "probe", "unlink")
    /\ UNCHANGED <<pid, retried, owner, lock, overlapped, deaths, faults>>

\* Deviation: a dead owner is respected.
FindOwnerDead_Never(p) ==
    /\ FALSE
    /\ UNCHANGED lockVars

FindOwnerDead(p) ==
    /\ ~PidIsAlive(p, owner[p])
    /\ Goes(p, "probe", "unlink")
    /\ UNCHANGED <<pid, retried, owner, lock, overlapped, deaths, faults>>

\* The unlink removes whatever file has the name by now.
ClearLock(p) ==
    /\ Goes(p, "unlink", "open")
    /\ lock' = NoFile
    /\ retried' = [retried EXCEPT ![p] = TRUE]
    /\ owner' = [owner EXCEPT ![p] = NULL]
    /\ UNCHANGED <<pid, overlapped, deaths, faults>>

\* RuntimeError, and the program exits: the lock is there the second time; it
\* is gone, or has no pid in it, when it is read; or its pid is alive.
Refused(p) ==
    /\ \/ pc[p] = "open" /\ lock # NoFile /\ retried[p]
       \/ pc[p] = "read" /\ lock.pid = NULL
       \/ pc[p] = "probe" /\ PidIsAlive(p, owner[p])
    /\ Ends(p)
    /\ UNCHANGED <<lock, overlapped, deaths, faults>>

-----------------------------------------------------------------------------
(* The rest of start, shutdown, and death                                  *)

Recovered(p) ==
    /\ Goes(p, "recover", "up")
    /\ UNCHANGED <<pid, retried, owner, lock, overlapped, deaths, faults>>

RecoveryRaises(p) ==
    /\ faults < MaxFaults
    /\ faults' = faults + 1
    /\ Goes(p, "recover", "release")
    /\ UNCHANGED <<pid, retried, owner, lock, overlapped, deaths>>

Shutdown(p) ==
    /\ Goes(p, "up", "release")
    /\ UNCHANGED <<pid, retried, owner, lock, overlapped, deaths, faults>>

\* Deviation: the lock is removed whether it was taken or not.
Release_NotHeld(p) ==
    /\ pc[p] = "release"
    /\ lock' = NoFile
    /\ Ends(p)
    /\ UNCHANGED <<overlapped, deaths, faults>>

\* _release_supervisor_lock unlinks by name, too; then the program exits.
Release(p) ==
    /\ pc[p] = "release"
    /\ lock' = IF p \in ApiOnly THEN lock ELSE NoFile
    /\ Ends(p)
    /\ UNCHANGED <<overlapped, deaths, faults>>

\* Killed; or the write into the lock fails (at "write"); or the run task that
\* shutdown awaits has raised (at "up"), and the program ends without Release.
Die(p) ==
    /\ Alive(p)
    /\ deaths < MaxDeaths
    /\ deaths' = deaths + 1
    /\ Ends(p)
    /\ UNCHANGED <<lock, overlapped, faults>>

Step(p) ==
    \/ CreateLock(p) \/ LockExists(p) \/ WriteLock(p)
    \/ ReadOwner(p) \/ FindOwnerDead(p) \/ ClearLock(p) \/ Refused(p)
    \/ Recovered(p) \/ RecoveryRaises(p) \/ Release(p)

LockNext == \E p \in Process : Start(p) \/ Step(p) \/ Shutdown(p) \/ Die(p)

LockSpec == LockInit /\ [][LockNext]_lockVars

\* A running process goes on, and programs that are down are started again.
LockFairSpec ==
    /\ LockSpec
    /\ \A p \in Process : WF_lockVars(Step(p)) /\ WF_lockVars(Start(p))

-----------------------------------------------------------------------------
(* What the lock guarantees                                                *)

\* As long as starts did not overlap, two processes never hold the lock at
\* once, whatever died or was shut down in between, provided one user runs
\* them: a process that is not allowed to signal the owner takes it for dead.
OneHolder ==
    ~overlapped /\ (\A p, q \in Process : UserOf[p] = UserOf[q]) =>
        \A p, q \in Process : Holds(p) /\ Holds(q) => p = q

\* The bookkeeping behind it: the holder's file is the one that is there, and
\* a process that is about to unlink unlinks nobody's.
LockInv ==
    ~overlapped /\ (\A p, q \in Process : UserOf[p] = UserOf[q]) =>
        /\ \A p, q \in Process : Acquiring(p) /\ Acquiring(q) => p = q
        /\ \A p \in Process :
              /\ Holds(p) => lock.by = p /\ lock.pid = IF pc[p] = "write" THEN NULL ELSE pid[p]
              /\ pc[p] = "probe" =>
                    \A q \in Process : Holds(q) => pid[q] = owner[p] /\ pc[q] # "write"
              /\ pc[p] = "unlink" => \A q \in Process : ~Holds(q)

-----------------------------------------------------------------------------
\* The lock of a process that died between creating it and writing its pid:
\* nobody clears it.
Torn == lock # NoFile /\ lock.pid = NULL /\ ~\E p \in Process : lock.by = p /\ pc[p] = "write"

\* The pid of a dead owner is in use again.
PidTaken == \E p, q \in Process : lock.by = p /\ ~Holds(p) /\ Alive(q) /\ pid[q] = lock.pid

\* After the last death a restart succeeds: some process gets to schedule
\* again and again, unless the lock was torn or pids recur.
RestartSucceeds ==
    \/ []<>(\E p \in Process : Owns(p))
    \/ <>[]Torn
    \/ []<>PidTaken

-----------------------------------------------------------------------------
(* What the documents say of it and it does not keep                       *)

\* "prevent two runtimes from owning the same persistence root at once"
\* (docs/architecture.md:101).
OneRuntimeOwns ==
    \A p, q \in Process : Owns(p) /\ Owns(q) => p = q
=============================================================================
