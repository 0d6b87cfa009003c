------------------------- MODULE AgentRuntimeProps -------------------------
(***************************************************************************)
(* What AgentRuntime must satisfy.                                         *)
(***************************************************************************)
EXTENDS AgentRuntime

-----------------------------------------------------------------------------
(* Safety                                                                  *)

\* A request that waits or is over carries no lease, and a leased one always
\* carries a deadline, so that no row is leased forever or reclaimed while it
\* waits (store.py clears the columns in five different methods).
LeaseColumns ==
    \A r \in RequestId :
        /\ status[r] \in Terminal \cup {"queued"} => leasedUntil[r] = NULL
        /\ status[r] = "leased" => leasedUntil[r] # NULL

\* While a process schedules, every request in flight is the one its slot is
\* working on, unless an exception broke its attempt off: nothing that was
\* in flight when an earlier process died is forgotten (_recover_state).
InFlightOwned ==
    proc = "up" /\ ~stopping =>
        \A r \in RequestId : status[r] \in InFlight => r = current \/ r \in stranded

\* A turn is interrupted only for a shutdown or because its own request was
\* asked to be cancelled (request_cancellation compares the ids).
InterruptJustified ==
    task = "turn" /\ cancelled =>
        stopping \/ (current # NULL /\ RequestCancelled(current))

\* What every step of the slot relies on: where the loop and the task stand
\* tells which request is in hand and what its row may say.  The atomicity of
\* the segments between two suspensions is what makes it hold.
SlotInv ==
    /\ proc = "up" <=> loop # "off"
    /\ loop = "await" <=> task # "none"
    /\ current # NULL => loop \in {"announce", "await"}
    /\ loop = "announce" => current # NULL /\ status[current] = "leased"
    /\ TaskBusy \/ task = "turn" => taskAct # NULL
    /\ task \in {"bind", "mark", "wrap"} => current # NULL
    /\ task = "settle" => verdict \in TurnCode
    /\ current # NULL =>
          /\ task = "created" => \/ status[current] = "leased"
                                 \/ cancelled /\ RequestCancelled(current)
          /\ task \in {"bind", "mark"} => status[current] = "leased"
          /\ task = "activate" => status[current] = "running"
          /\ task \in {"turn", "settle"} =>
                 status[current] \in {"running", "cancellation_requested"}

\* During a turn the slot's request is running, or asked to be cancelled, and
\* bound to an active activity, however the row was requeued, reclaimed or
\* cancelled before.
SlotIntact ==
    task \in {"turn", "settle"} =>
        /\ actStatus[taskAct] = "active"
        /\ current # NULL => /\ status[current] \in {"running", "cancellation_requested"}
                             /\ activityId[current] = taskAct

\* Unless something raised, at most one activity is active while the process
\* schedules, the one in the slot: an earlier life leaves none behind.
OneActive ==
    proc = "up" /\ faults = 0 =>
        \A a \in ActivityId : actStatus[a] = "active" => a = taskAct

\* A request that has a result or an error is over: it never waits or runs
\* again, whatever crash, recovery, cancellation or reclaim comes after.
AnswerKept ==
    \A r \in RequestId :
        output[r] # {} => status[r] \in Terminal \cup {"cancellation_requested"}

\* Two accepted requests never share an idempotency key, across restarts.
AcceptedOnce ==
    \A r, s \in RequestId :
        status[r] # "absent" /\ status[s] # "absent" /\ r # s =>
            payload[r].key = NULL \/ payload[r].key # payload[s].key

\* A request is served by one activity; only an attempt that broke off, by a
\* crash or an exception between the insert of the activity and its binding,
\* can leave it with another.
FewFolders ==
    \A r \in RequestId :
        Cardinality({l \in links : l[2] = r}) <= 1 + outages + faults

\* With free time off, the scheduler does not sleep on a request: when one is
\* queued while it sleeps, the wakeup event is set (_sleep_until_wakeup clears
\* the event after the queue was read).
NoMissedWakeup ==
    loop = "sleep" /\ Queued # {} => wakeup

-----------------------------------------------------------------------------
(* What a step never does                                                  *)

\* Once a cancellation is recorded the request only becomes cancelled: no
\* task, recovery or reclaim overwrites it, though mark_request_running,
\* requeue_request and complete_request test no previous status.
CancellationSticks ==
    [][\A r \in RequestId :
          RequestCancelled(r) => status'[r] \in {"cancellation_requested", "cancelled"}]_vars

\* A request stays with its first activity through requeues and restarts
\* ("existing activity_id values are reused").
ActivityKept ==
    [][\A r \in RequestId :
          activityId[r] # NULL => activityId'[r] = activityId[r]]_vars

\* A known session is never forgotten: the next turn can always resume.
SessionKept ==
    [][\A a \in ActivityId : actSession[a] # NULL => actSession'[a] # NULL]_vars

\* A running request goes back to the queue only because of its turn's
\* recoverable failure, a shutdown, or the recovery of a new process.
RequeueJustified ==
    [][\A r \in RequestId :
          status[r] = "running" /\ status'[r] = "queued" =>
              proc = "booting" \/ stopping \/ verdict = "recoverable"]_vars

-----------------------------------------------------------------------------
(* The promise this module keeps: RequestLifecycle                         *)

PhaseOf(st) ==
    CASE st = "absent" -> "absent"
      [] st = "queued" -> "waiting"
      [] st \in InFlight -> "working"
      [] st = "cancellation_requested" -> "asked"
      [] st = "cancelled" -> "cancelled"
      [] OTHER -> "finished"

Lifecycle ==
    INSTANCE RequestLifecycle WITH phase <- [r \in RequestId |-> PhaseOf(status[r])],
                                   hand <- current

\* Every step of the runtime is a step of the lifecycle or changes nothing in
\* it.
ImplementsLifecycle == Lifecycle!Spec

-----------------------------------------------------------------------------
(* Liveness, under FairSpec                                                *)

\* An accepted request is finished, or the client asked for its cancellation.
AcceptedIsSettled ==
    \A r \in RequestId :
        status[r] \in InFlight \cup {"queued"} ~>
            status[r] \in Terminal \cup {"cancellation_requested"}

\* A queued request does not wait forever: a free-time quantum ends and clears
\* the wakeup event, but the poll interval brings the scheduler back.
QueuedIsServed == \A r \in RequestId : status[r] = "queued" ~> status[r] # "queued"

\* A lease ends: it turns into work or, when its attempt broke off, expires.
LeaseEnds == \A r \in RequestId : status[r] = "leased" ~> status[r] # "leased"

\* A cancellation that finds the turn running is settled.
CancelSettles ==
    \A r \in RequestId :
        task = "turn" /\ current = r /\ RequestCancelled(r) ~> status[r] = "cancelled"

\* A shutdown that began comes to its end.
ShutdownCompletes == stopping ~> proc = "down"
=============================================================================
