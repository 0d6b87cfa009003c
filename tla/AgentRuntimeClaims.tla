------------------------- MODULE AgentRuntimeClaims -------------------------
(***************************************************************************)
(* Statements the documents make about the runtime that its code does not  *)
(* keep.  Each is checked alone, by a run that ends in a counterexample.   *)
(***************************************************************************)
EXTENDS AgentRuntimeProps

\* The lifecycle diagram has no edge out of completed, failed or cancelled
\* (docs/architecture.md:108-121); cancel_request makes any row that is not
\* queued cancellation_requested, a completed one too.
TerminalIsFinal ==
    [][\A r \in RequestId : status[r] \in Terminal => status'[r] = status[r]]_vars

\* "the supervisor performs final checkpoint/cleanup and then records terminal
\* state" (docs/api_spec.md:172), for a request that was not over when it was
\* cancelled.  A task cancelled before its first step does neither.
CancellationEnds ==
    \A r \in RequestId :
        RequestCancelled(r) /\ output[r] = {} ~> status[r] = "cancelled"

\* "finalize the request as completed, failed, cancelled, or requeued"
\* (docs/runtime_loop.md:71).  A task that raises leaves its request running.
AttemptIsFinalized ==
    \A r \in RequestId : status[r] = "running" ~> status[r] # "running"

\* Queued work that already has a persisted activity comes before newly queued
\* requests (docs/runtime_loop.md:44-45): none of these is leased while an older
\* request waits whose activity is there.  The lease query looks at priority and
\* creation time only.
ResumedFirst ==
    [][\A r, s \in RequestId :
          /\ status[r] = "queued" /\ status'[r] = "leased" /\ activityId[r] = NULL
          /\ s \in Queued /\ activityId[s] # NULL /\ actStatus[activityId[s]] # "absent"
          => createdAt[r] <= createdAt[s]]_vars
=============================================================================
