-------------------------- MODULE RequestLifecycle --------------------------
(***************************************************************************)
(* What the runtime promises about a request, without the process, its     *)
(* scheduler or its failures: the life of every request and the one hand   *)
(* that works on them.                                                     *)
(*                                                                         *)
(* A request is "working" from the moment it is claimed until it is        *)
(* finished or put back, also while nobody holds it because the attempt    *)
(* broke off.  Only the hand that took a request finishes it, a finished   *)
(* request is never worked on again, and a cancellation that was recorded  *)
(* is never lost: it can only be settled.  (The store accepts a            *)
(* cancellation of a request that is over; the promise says so too.)       *)
(***************************************************************************)
CONSTANTS RequestId, NULL

VARIABLES phase, hand

vars == <<phase, hand>>

Phase == {"absent", "waiting", "working", "asked", "finished", "cancelled"}

TypeOK ==
    /\ phase \in [RequestId -> Phase]
    /\ hand \in RequestId \cup {NULL}

Init ==
    /\ phase = [r \in RequestId |-> "absent"]
    /\ hand = NULL

Goes(r, from, to) ==
    /\ phase[r] \in from
    /\ phase' = [phase EXCEPT ![r] = to]

Accept(r) == Goes(r, {"absent"}, "waiting") /\ UNCHANGED hand

Withdraw(r) == Goes(r, {"waiting"}, "cancelled") /\ UNCHANGED hand

Take(r) == hand = NULL /\ Goes(r, {"waiting"}, "working") /\ hand' = r

PutBack(r) == hand = r /\ Goes(r, {"working"}, "waiting") /\ UNCHANGED hand

Finish(r) == hand = r /\ Goes(r, {"working"}, "finished") /\ UNCHANGED hand

Ask(r) ==
    /\ Goes(r, {"working", "asked", "finished", "cancelled"}, "asked")
    /\ UNCHANGED hand

Settle(r) == Goes(r, {"asked"}, "cancelled") /\ UNCHANGED hand

\* Requests whose attempt broke off wait again; none of them is held.
Return(rs) ==
    /\ hand = NULL
    /\ \A r \in rs : phase[r] = "working"
    /\ phase' = [r \in RequestId |-> IF r \in rs THEN "waiting" ELSE phase[r]]
    /\ UNCHANGED hand

LetGo == hand' = NULL /\ UNCHANGED phase

Next ==
    \/ \E r \in RequestId : \/ Accept(r) \/ Withdraw(r) \/ Take(r) \/ PutBack(r)
                            \/ Finish(r) \/ Ask(r) \/ Settle(r)
    \/ \E rs \in SUBSET RequestId : Return(rs)
    \/ LetGo

Spec == Init /\ [][Next]_vars
=============================================================================
