-------------------------- MODULE MCActivityFiles --------------------------
(* Small instances of ActivityFiles for TLC.                               *)
EXTENDS ActivityFiles, AgentRuntimeProps

CONSTANTS r1, r2, a1, a2, a3, a4, s1

\* A body without a key, and one that names an activity; it may be one that a
\* free-time quantum made.
MCFilesPayload ==
    {[priority |-> 0, key |-> NULL, activity |-> NULL],
     [priority |-> 0, key |-> NULL, activity |-> a1]}

\* Enough activity ids for every request, quantum and attempt that broke off.
ASSUME EnoughActivityIds ==
    Cardinality(ActivityId) >= Cardinality(RequestId) + MaxOutages + MaxFaults + MaxQuanta

\* A bound of this instance: the first new id the system draws is one that a
\* body may name, so that a body names an activity of the system if it made
\* one before, and an unused id otherwise.
NameableFirst ==
    LET Nameable == {p.activity : p \in Payload}
    IN prepared' # prepared /\ prepared'.act \notin Nameable \cup {NULL} =>
           \A a \in Nameable \cap FreshActivities : summary[a] # "absent"

\* Another: once the quantum has begun, an outage or an exception comes only if
\* the other has not come before.  Neither is owed by fairness.
TwoTroubles ==
    outages' + faults' > outages + faults => outages' + faults' + quanta' <= 2
=============================================================================
