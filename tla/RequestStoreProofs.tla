------------------------- MODULE RequestStoreProofs -------------------------
(***************************************************************************)
(* Every store method keeps the columns in their types, whatever row it    *)
(* writes and whoever calls it; and what its two queries over times return *)
(* although they compare texts.                                            *)
(***************************************************************************)
EXTENDS RequestStore, WellFoundedInduction, TLAPS

\* The empty database is well typed.
LEMMA StoreInitType == StoreInit => StoreTypeOK
BY NullAssumption DEF StoreInit, StoreTypeOK

\* So is a store nobody writes.
LEMMA StoreUnchangedType ==
    ASSUME StoreTypeOK, UNCHANGED storeVars
    PROVE  StoreTypeOK'
BY DEF StoreTypeOK, storeVars, requestVars, activityVars

\* A lease deadline is an instant.
LEMMA DeadlineType ==
    ASSUME StoreTypeOK
    PROVE  LeaseDeadline \in Nat
BY ClockAssumption DEF StoreTypeOK, LeaseDeadline

\* insert_request keeps the columns in their types.
LEMMA InsertRequestType ==
    ASSUME StoreTypeOK, NEW r \in RequestId, NEW p \in Payload, InsertRequest(r, p)
    PROVE  StoreTypeOK'
BY PayloadAssumption DEF StoreTypeOK, InsertRequest, RequestStatus, activityVars

\* lease_next_request keeps the columns in their types.
LEMMA LeaseRequestType ==
    ASSUME StoreTypeOK, NEW r \in RequestId, LeaseRequest(r)
    PROVE  StoreTypeOK'
BY DeadlineType DEF StoreTypeOK, LeaseRequest, RequestStatus, activityVars

\* reclaim_expired_leases keeps the columns in their types.
LEMMA ReclaimExpiredLeasesType ==
    ASSUME StoreTypeOK, ReclaimExpiredLeases
    PROVE  StoreTypeOK'
BY DEF StoreTypeOK, ReclaimExpiredLeases, RequestStatus, activityVars

\* mark_request_running keeps the columns in their types.
LEMMA MarkRequestRunningType ==
    ASSUME StoreTypeOK, NEW r \in RequestId, NEW a \in ActivityId, MarkRequestRunning(r, a)
    PROVE  StoreTypeOK'
BY DEF StoreTypeOK, MarkRequestRunning, RequestStatus, activityVars

\* requeue_request keeps the columns in their types.
LEMMA RequeueRequestType ==
    ASSUME StoreTypeOK, NEW r \in RequestId, NEW a \in ActivityId \cup {NULL},
           RequeueRequest(r, a)
    PROVE  StoreTypeOK'
BY DEF StoreTypeOK, RequeueRequest, RequestStatus, activityVars

\* cancel_request keeps the columns in their types.
LEMMA StoreCancelType ==
    ASSUME StoreTypeOK, NEW r \in RequestId, StoreCancel(r)
    PROVE  StoreTypeOK'
BY DEF StoreTypeOK, StoreCancel, RequestStatus, activityVars

\* finalize_cancelled_request keeps the columns in their types.
LEMMA FinalizeCancelledType ==
    ASSUME StoreTypeOK, NEW r \in RequestId, FinalizeCancelled(r)
    PROVE  StoreTypeOK'
BY DEF StoreTypeOK, FinalizeCancelled, RequestStatus, activityVars

\* complete_request keeps the columns in their types.
LEMMA CompleteRequestType ==
    ASSUME StoreTypeOK, NEW r \in RequestId, CompleteRequest(r)
    PROVE  StoreTypeOK'
BY DEF StoreTypeOK, CompleteRequest, RequestStatus, activityVars

\* fail_request keeps the columns in their types.
LEMMA FailRequestType ==
    ASSUME StoreTypeOK, NEW r \in RequestId, FailRequest(r)
    PROVE  StoreTypeOK'
BY DEF StoreTypeOK, FailRequest, RequestStatus, activityVars

\* create_activity keeps the columns in their types.
LEMMA InsertActivityType ==
    ASSUME StoreTypeOK, NEW a \in ActivityId, NEW rs \in SUBSET RequestId,
           InsertActivity(a, rs)
    PROVE  StoreTypeOK'
BY DEF StoreTypeOK, InsertActivity, ActivityStatus, requestVars

\* update_activity keeps the columns in their types.
LEMMA UpdateActivityType ==
    ASSUME StoreTypeOK, NEW a \in ActivityId, NEW st \in ActivityStatus \cup {NULL},
           NEW s \in Session \cup {NULL}, UpdateActivity(a, st, s)
    PROVE  StoreTypeOK'
BY DEF StoreTypeOK, UpdateActivity, requestVars

\* bind_activity_request keeps the columns in their types.
LEMMA BindActivityRequestType ==
    ASSUME StoreTypeOK, NEW a \in ActivityId, NEW r \in RequestId,
           BindActivityRequest(a, r)
    PROVE  StoreTypeOK'
BY DEF StoreTypeOK, BindActivityRequest

-----------------------------------------------------------------------------
(* Queries that compare times                                              *)

\* The text of an instant is off by less than a second: it is at least the
\* instant before, and at most the last one of its second.
LEMMA TextRankBounds ==
    ASSUME NEW t \in Nat
    PROVE  /\ TextRank(t) \in Int
           /\ t - 1 <= TextRank(t) /\ TextRank(t) <= t + TicksPerSecond - 1
<1>1. t % TicksPerSecond \in Nat
  BY ClockAssumption
<1> QED
  BY <1>1, ClockAssumption DEF TextRank

\* A lease is never reclaimed more than a second before its deadline, and from
\* a second after its deadline it can always be reclaimed.
LeaseTiming ==
    \A r \in RequestId :
        status[r] = "leased" /\ leasedUntil[r] # NULL =>
            /\ r \in Expired => leasedUntil[r] <= now + TicksPerSecond
            /\ leasedUntil[r] + TicksPerSecond <= now => r \in Expired

\* reclaim_expired_leases compares texts and is right to within a second.
LEMMA LeasesTimed == StoreTypeOK => LeaseTiming
<1> SUFFICES ASSUME StoreTypeOK, NEW r \in RequestId,
                    status[r] = "leased", leasedUntil[r] # NULL
             PROVE  /\ r \in Expired => leasedUntil[r] <= now + TicksPerSecond
                    /\ leasedUntil[r] + TicksPerSecond <= now => r \in Expired
  BY DEF LeaseTiming
<1>1. leasedUntil[r] \in Nat /\ now \in Nat
  BY DEF StoreTypeOK
<1>2. /\ TextRank(leasedUntil[r]) \in Int /\ TextRank(now) \in Int
      /\ leasedUntil[r] - 1 <= TextRank(leasedUntil[r])
      /\ TextRank(leasedUntil[r]) <= leasedUntil[r] + TicksPerSecond - 1
      /\ now - 1 <= TextRank(now) /\ TextRank(now) <= now + TicksPerSecond - 1
  BY <1>1, TextRankBounds
<1>3. r \in Expired <=> TextRank(leasedUntil[r]) <= TextRank(now)
  BY DEF Expired
<1> QED
  BY <1>1, <1>2, <1>3, ClockAssumption

\* Every waiting row has a body.
Bodies == \A r \in RequestId : status[r] # "absent" => payload[r] \in Payload

\* The queue is served by priority, and within one in the order of arrival, as
\* far as the texts tell: nobody overtakes a request more than a second older.
QueueOrder ==
    \A r \in HeadOfQueue, s \in Queued :
        /\ payload[r].priority >= payload[s].priority
        /\ payload[r].priority = payload[s].priority =>
               createdAt[r] <= createdAt[s] + TicksPerSecond

\* ORDER BY priority DESC, created_at ASC is right to within a second.
LEMMA QueueOrdered == StoreTypeOK /\ Bodies => QueueOrder
<1> SUFFICES ASSUME StoreTypeOK, Bodies, NEW r \in HeadOfQueue, NEW s \in Queued
             PROVE  /\ payload[r].priority >= payload[s].priority
                    /\ payload[r].priority = payload[s].priority =>
                           createdAt[r] <= createdAt[s] + TicksPerSecond
  BY DEF QueueOrder
<1>1. r \in RequestId /\ s \in RequestId /\ ~Precedes(s, r)
  BY DEF HeadOfQueue, Queued
<1>2. payload[r].priority \in Nat /\ payload[s].priority \in Nat
  BY PayloadAssumption DEF Bodies, HeadOfQueue, Queued
<1>3. createdAt[r] \in Nat /\ createdAt[s] \in Nat
  BY <1>1 DEF StoreTypeOK
<1>4. /\ TextRank(createdAt[r]) \in Int /\ TextRank(createdAt[s]) \in Int
      /\ createdAt[r] - 1 <= TextRank(createdAt[r])
      /\ TextRank(createdAt[s]) <= createdAt[s] + TicksPerSecond - 1
  BY <1>3, TextRankBounds
<1> QED
  BY <1>1, <1>2, <1>3, <1>4, ClockAssumption DEF Precedes

\* A set of naturals has a least element.
LEMMA LeastOf ==
    ASSUME NEW S, S \subseteq Nat, S # {}
    PROVE  \E x \in S : \A y \in S : x <= y
<1> DEFINE Less == {p \in Nat \X Nat : p[1] < p[2]}
<1>1. IsWellFoundedOn(Less, Nat)
  BY NatLessThanWellFounded, Zenon DEF OpToRel
<1>2. PICK x \in S : \A y \in S : ~(<<y, x>> \in Less)
  BY <1>1, WFMin
<1>3. ASSUME NEW y \in S
      PROVE  x <= y
  <2>1. x \in Nat /\ y \in Nat
    OBVIOUS
  <2>2. ~(y < x)
    BY <1>2, <2>1
  <2> QED
    BY <2>1, <2>2
<1> QED
  BY <1>3

\* If anything waits, lease_next_request finds a row, whatever ties there are.
LEMMA QueueHasHead ==
    ASSUME NEW most \in Nat, \A p \in Payload : p.priority <= most,
           StoreTypeOK, Bodies, Queued # {}
    PROVE  HeadOfQueue # {}
<1>1. ASSUME NEW r \in Queued
      PROVE  /\ payload[r].priority \in Nat /\ payload[r].priority <= most
             /\ createdAt[r] \in Nat /\ TextRank(createdAt[r]) + 1 \in Nat
  <2>1. r \in RequestId /\ payload[r] \in Payload
    BY DEF Bodies, Queued
  <2>2. createdAt[r] \in Nat
    BY <2>1 DEF StoreTypeOK
  <2> QED
    BY <2>1, <2>2, PayloadAssumption, TextRankBounds
<1> DEFINE Lacks == {most - payload[r].priority : r \in Queued}
<1>2. Lacks \subseteq Nat /\ Lacks # {}
  BY <1>1
<1>3. PICK top \in Queued : \A s \in Queued : payload[s].priority <= payload[top].priority
  <2>1. PICK x \in Lacks : \A y \in Lacks : x <= y
    BY <1>2, LeastOf
  <2>2. PICK top \in Queued : x = most - payload[top].priority
    OBVIOUS
  <2>3. ASSUME NEW s \in Queued
        PROVE  payload[s].priority <= payload[top].priority
    <3>1. most - payload[top].priority <= most - payload[s].priority
      BY <2>1, <2>2
    <3> QED
      BY <1>1, <3>1
  <2> QED
    BY <2>3
<1> DEFINE Front == {r \in Queued : payload[r].priority = payload[top].priority}
           Ages == {TextRank(createdAt[r]) + 1 : r \in Front}
<1>4. Ages \subseteq Nat /\ Ages # {}
  BY <1>1
<1>5. PICK r \in Front : \A s \in Front : TextRank(createdAt[r]) <= TextRank(createdAt[s])
  <2>1. PICK x \in Ages : \A y \in Ages : x <= y
    BY <1>4, LeastOf
  <2>2. PICK r \in Front : x = TextRank(createdAt[r]) + 1
    OBVIOUS
  <2>3. ASSUME NEW s \in Front
        PROVE  TextRank(createdAt[r]) <= TextRank(createdAt[s])
    <3>1. TextRank(createdAt[r]) + 1 <= TextRank(createdAt[s]) + 1
      BY <2>1, <2>2
    <3>2. TextRank(createdAt[r]) \in Int /\ TextRank(createdAt[s]) \in Int
      BY <1>1, TextRankBounds
    <3> QED
      BY <3>1, <3>2
  <2> QED
    BY <2>3
<1>6. ASSUME NEW s \in Queued
      PROVE  ~Precedes(s, r)
  <2>1. payload[s].priority <= payload[r].priority
    BY <1>3
  <2>2. CASE s \in Front
    <3>1. TextRank(createdAt[r]) <= TextRank(createdAt[s])
      BY <1>5, <2>2
    <3>2. TextRank(createdAt[r]) \in Int /\ TextRank(createdAt[s]) \in Int
      BY <1>1, TextRankBounds
    <3> QED
      BY <1>1, <2>1, <3>1, <3>2 DEF Precedes
  <2>3. CASE s \notin Front
    BY <1>1, <2>1, <2>3 DEF Precedes
  <2> QED
    BY <2>2, <2>3
<1> QED
  BY <1>6 DEF HeadOfQueue
=============================================================================
