---------------------------- MODULE RequestStore ----------------------------
(***************************************************************************)
(* The SQLite store of one agent (store.py): its tables as functions over  *)
(* row identifiers, and one operator per store method.                     *)
(*                                                                         *)
(* Every method runs under the store's re-entrant lock and ends with one   *)
(* commit, so a method is one step: it happens entirely or, when the       *)
(* process dies before the commit, not at all.  The operators below give   *)
(* the next value of every column they may write and leave the others      *)
(* alone; the modules that EXTEND this one decide who calls them and when. *)
(*                                                                         *)
(* Left out: request_events (an audit log nothing reads back), peers, and  *)
(* the columns no decision depends on (kind, source, summary, details,     *)
(* deadline, namespace, file paths, updated_at).  lease_owner is always    *)
(* written and cleared together with leased_until: one variable.           *)
(***************************************************************************)
EXTENDS Integers, FiniteSets

CONSTANTS
    RequestId,       \* primary keys of the requests table
    ActivityId,      \* primary keys of the activities table
    Payload,         \* request bodies a client may submit
    Key,             \* idempotency keys
    Session,         \* Codex session ids
    NULL,            \* SQL NULL and Python None
    LeaseTtl,        \* request_lease_ttl_seconds
    TicksPerSecond   \* clock ticks in a second

ASSUME PayloadAssumption ==
    \A p \in Payload : /\ p.priority \in Nat
                       /\ p.key \in Key \cup {NULL}
                       /\ p.activity \in ActivityId \cup {NULL}

ASSUME NullAssumption ==
    /\ NULL \notin RequestId
    /\ NULL \notin ActivityId
    /\ NULL \notin Payload
    /\ NULL \notin Key
    /\ NULL \notin Session
    /\ NULL \notin Nat

ASSUME ClockAssumption == LeaseTtl \in Int /\ TicksPerSecond \in Nat \ {0}

VARIABLES
    status,       \* requests.status, "absent" when there is no row
    payload,      \* the columns insert_request writes once
    createdAt,    \* requests.created_at, in ticks
    activityId,   \* requests.activity_id
    leasedUntil,  \* requests.leased_until (and lease_owner)
    output,       \* which of result_json and error_json are set
    actStatus,    \* activities.status, "absent" when there is no row
    actSession,   \* activities.session_id
    links,        \* the activity_requests table
    now           \* the wall clock, in ticks

requestVars == <<status, payload, createdAt, activityId, leasedUntil, output>>
activityVars == <<actStatus, actSession, links>>
storeVars == <<requestVars, activityVars, now>>

RequestStatus == {"queued", "leased", "running", "checkpointing", "completed",
                  "failed", "cancelled", "cancellation_requested"}

ActivityStatus == {"pending", "active", "checkpointing", "completed", "failed",
                   "cancellation_requested"}

ASSUME StatusAssumption == NULL \notin ActivityStatus

Terminal == {"completed", "failed", "cancelled"}
InFlight == {"leased", "running", "checkpointing"}

StoreTypeOK ==
    /\ status \in [RequestId -> RequestStatus \cup {"absent"}]
    /\ payload \in [RequestId -> Payload \cup {NULL}]
    /\ createdAt \in [RequestId -> Nat]
    /\ activityId \in [RequestId -> ActivityId \cup {NULL}]
    /\ leasedUntil \in [RequestId -> Nat \cup {NULL}]
    /\ output \in [RequestId -> SUBSET {"result", "error"}]
    /\ actStatus \in [ActivityId -> ActivityStatus \cup {"absent"}]
    /\ actSession \in [ActivityId -> Session \cup {NULL}]
    /\ links \in SUBSET (ActivityId \X RequestId)
    /\ now \in Nat

\* The empty database that _initialize creates.
StoreInit ==
    /\ status = [r \in RequestId |-> "absent"]
    /\ payload = [r \in RequestId |-> NULL]
    /\ createdAt = [r \in RequestId |-> 0]
    /\ activityId = [r \in RequestId |-> NULL]
    /\ leasedUntil = [r \in RequestId |-> NULL]
    /\ output = [r \in RequestId |-> {}]
    /\ actStatus = [a \in ActivityId |-> "absent"]
    /\ actSession = [a \in ActivityId |-> NULL]
    /\ links = {}
    /\ now = 0

-----------------------------------------------------------------------------
(***************************************************************************)
(* Timestamps are compared as text.  utc_now_iso drops the fraction of a   *)
(* second when it is zero, so "12:00:05Z" sorts after "12:00:05.9Z": a     *)
(* whole second ranks last among the instants of its own second.           *)
(***************************************************************************)
TextRank(t) ==
    IF t % TicksPerSecond = 0 THEN t + TicksPerSecond - 1 ELSE t - 1

LeaseDeadline ==
    now + (IF LeaseTtl < 0 THEN 0 ELSE LeaseTtl) * TicksPerSecond

-----------------------------------------------------------------------------
(* Queries                                                                 *)

Queued == {r \in RequestId : status[r] = "queued"}

\* ORDER BY priority DESC, created_at ASC
Precedes(r, s) ==
    \/ payload[r].priority > payload[s].priority
    \/ /\ payload[r].priority = payload[s].priority
       /\ TextRank(createdAt[r]) < TextRank(createdAt[s])

\* What LIMIT 1 may return; SQLite is free to break a tie either way.
HeadOfQueue == {r \in Queued : \A s \in Queued : ~Precedes(s, r)}

\* Rows whose text deadline is at or before the text of the current time.
Expired == {r \in RequestId : /\ status[r] = "leased"
                              /\ leasedUntil[r] # NULL
                              /\ TextRank(leasedUntil[r]) <= TextRank(now)}

\* Deviation: only requests that still wait are looked at.
KeyHolders_Waiting(k) == {r \in Queued : payload[r].key = k}

\* The row that holds idempotency key k (the column is UNIQUE).
KeyHolders(k) == {r \in RequestId : status[r] # "absent" /\ payload[r].key = k}

RequestCancelled(r) == status[r] = "cancellation_requested"

-----------------------------------------------------------------------------
(* Writes to the requests table                                            *)

\* A new row; when the body carries a key no row may hold it yet.
InsertRequest(r, p) ==
    /\ status[r] = "absent"
    /\ p.key = NULL \/ KeyHolders(p.key) = {}
    /\ status' = [status EXCEPT ![r] = "queued"]
    /\ payload' = [payload EXCEPT ![r] = p]
    /\ createdAt' = [createdAt EXCEPT ![r] = now]
    /\ activityId' = [activityId EXCEPT ![r] = p.activity]
    /\ UNCHANGED <<leasedUntil, output, activityVars, now>>

\* The idempotent hit: a row with this key and this fingerprint is returned.
\* (The same key with another fingerprint is refused and changes nothing.)
InsertIsRepeat(p) ==
    p.key # NULL /\ \E r \in KeyHolders(p.key) : payload[r] = p

LeaseRequest(r) ==
    /\ r \in HeadOfQueue
    /\ status' = [status EXCEPT ![r] = "leased"]
    /\ leasedUntil' = [leasedUntil EXCEPT ![r] = LeaseDeadline]
    /\ UNCHANGED <<payload, createdAt, activityId, output, activityVars, now>>

ReclaimExpiredLeases ==
    /\ status' = [r \in RequestId |-> IF r \in Expired THEN "queued" ELSE status[r]]
    /\ leasedUntil' = [r \in RequestId |-> IF r \in Expired THEN NULL ELSE leasedUntil[r]]
    /\ UNCHANGED <<payload, createdAt, activityId, output, activityVars, now>>

\* The UPDATE names no previous status: it overwrites whatever is there.
MarkRequestRunning(r, a) ==
    /\ status' = [status EXCEPT ![r] = "running"]
    /\ activityId' = [activityId EXCEPT ![r] = a]
    /\ UNCHANGED <<payload, createdAt, leasedUntil, output, activityVars, now>>

\* Deviation: the lease columns are not cleared.
RequeueRequest_KeepsLease(r, a) ==
    /\ status' = [status EXCEPT ![r] = "queued"]
    /\ activityId' = IF a = NULL THEN activityId ELSE [activityId EXCEPT ![r] = a]
    /\ UNCHANGED <<payload, createdAt, leasedUntil, output, activityVars, now>>

\* COALESCE(activity_id): a NULL argument keeps the bound activity.
RequeueRequest(r, a) ==
    /\ status' = [status EXCEPT ![r] = "queued"]
    /\ activityId' = IF a = NULL THEN activityId ELSE [activityId EXCEPT ![r] = a]
    /\ leasedUntil' = [leasedUntil EXCEPT ![r] = NULL]
    /\ UNCHANGED <<payload, createdAt, output, activityVars, now>>

\* Deviation: a queued row waits for the supervisor like any other.
StoreCancel_AlwaysAsks(r) ==
    /\ status[r] # "absent"
    /\ status' = [status EXCEPT ![r] = "cancellation_requested"]
    /\ UNCHANGED <<payload, createdAt, activityId, leasedUntil, output, activityVars, now>>

\* Only a queued row is cancelled at once; any other row, a terminal one
\* included, becomes cancellation_requested and keeps its lease columns.
StoreCancel(r) ==
    /\ status[r] # "absent"
    /\ status' = [status EXCEPT ![r] = IF @ = "queued" THEN "cancelled"
                                       ELSE "cancellation_requested"]
    /\ UNCHANGED <<payload, createdAt, activityId, leasedUntil, output, activityVars, now>>

FinalizeCancelled(r) ==
    /\ status' = [status EXCEPT ![r] = "cancelled"]
    /\ leasedUntil' = [leasedUntil EXCEPT ![r] = NULL]
    /\ UNCHANGED <<payload, createdAt, activityId, output, activityVars, now>>

CompleteRequest(r) ==
    /\ status' = [status EXCEPT ![r] = "completed"]
    /\ leasedUntil' = [leasedUntil EXCEPT ![r] = NULL]
    /\ output' = [output EXCEPT ![r] = @ \cup {"result"}]
    /\ UNCHANGED <<payload, createdAt, activityId, activityVars, now>>

FailRequest(r) ==
    /\ status' = [status EXCEPT ![r] = "failed"]
    /\ leasedUntil' = [leasedUntil EXCEPT ![r] = NULL]
    /\ output' = [output EXCEPT ![r] = @ \cup {"error"}]
    /\ UNCHANGED <<payload, createdAt, activityId, activityVars, now>>

-----------------------------------------------------------------------------
(* Writes to the activities tables                                         *)

\* INSERT OR REPLACE with the PENDING status and no session, plus the links
\* to the requests it was made for: one commit.
InsertActivity(a, rs) ==
    /\ actStatus' = [actStatus EXCEPT ![a] = "pending"]
    /\ actSession' = [actSession EXCEPT ![a] = NULL]
    /\ links' = links \cup {<<a, r>> : r \in rs}
    /\ UNCHANGED <<requestVars, now>>

\* Deviation: the session is written as given, None included.
UpdateActivity_ForgetsSession(a, st, s) ==
    /\ actStatus' = IF st = NULL THEN actStatus ELSE [actStatus EXCEPT ![a] = st]
    /\ actSession' = [actSession EXCEPT ![a] = s]
    /\ UNCHANGED <<links, requestVars, now>>

\* A None session keeps the stored one, a None status the stored status.
UpdateActivity(a, st, s) ==
    /\ actStatus' = IF st = NULL THEN actStatus ELSE [actStatus EXCEPT ![a] = st]
    /\ actSession' = IF s = NULL THEN actSession ELSE [actSession EXCEPT ![a] = s]
    /\ UNCHANGED <<links, requestVars, now>>

BindActivityRequest(a, r) ==
    /\ links' = links \cup {<<a, r>>}
    /\ activityId' = [activityId EXCEPT ![r] = a]
    /\ UNCHANGED <<status, payload, createdAt, leasedUntil, output,
                   actStatus, actSession, now>>

\* Activity ids are random: a new one is an id without a row that no request
\* carries.  A body may name it later.
FreshActivities ==
    {a \in ActivityId : actStatus[a] = "absent" /\ \A r \in RequestId : activityId[r] # a}
=============================================================================
