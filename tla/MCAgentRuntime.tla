--------------------------- MODULE MCAgentRuntime ---------------------------
(* Small instances of AgentRuntime for TLC.                                *)
EXTENDS AgentRuntimeClaims, TLC

CONSTANTS r1, r2, a1, a2, a3, a4, k1, s1

\* A body without a key that names the activity to continue, so that two
\* requests may share it, and an urgent one with a key.
MCPayload ==
    {[priority |-> 0, key |-> NULL, activity |-> a1],
     [priority |-> 1, key |-> k1, activity |-> NULL]}

\* One body, without a key.
MCPlainPayload == {[priority |-> 0, key |-> NULL, activity |-> NULL]}

\* An urgent body and one that is not.
MCPriorities == MCPlainPayload \cup {[priority |-> 1, key |-> NULL, activity |-> NULL]}

\* Enough activity ids for every request (its body names one, or it is given
\* one), and for one more attempt after each outage or fault and each quantum:
\* the model never runs out of fresh ones.
ASSUME EnoughActivityIds ==
    Cardinality(ActivityId) >= Cardinality(RequestId) + MaxOutages + MaxFaults + MaxQuanta

\* Request ids are interchangeable, and so are the activity ids no body names.
MCSymmetry == Permutations({r1, r2}) \cup Permutations({a2, a3, a4})

\* Where no body names an activity, the unused ids are interchangeable and one
\* stands for all.  Every step this leaves out is a step of the same action up
\* to the name of the id, which no property mentions, so that fairness and the
\* liveness properties keep their meaning; TLC's symmetry would not be sound
\* for these.
NextUnused ==
    \A a \in FreshActivities :
        actStatus'[a] # "absent" => a = CHOOSE b \in FreshActivities : TRUE
=============================================================================
