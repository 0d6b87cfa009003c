----------------------------- MODULE CodexTurn -----------------------------
(***************************************************************************)
(* What the supervisor may expect of CodexAdapter.run_turn: one turn at a  *)
(* time, and every turn ends.  A turn that was asked to stop stops or      *)
(* raises, it never answers; this is what AgentRuntime takes for granted   *)
(* with LateAnswer = FALSE.                                                *)
(***************************************************************************)
CONSTANT TurnCode   \* what an answer says: ok, worth a retry, failed

VARIABLES running, asked, outcome

Outcome == TurnCode \cup {"none", "cancelled", "raised"}

Init == running = FALSE /\ asked = FALSE /\ outcome = "none"

Begin == ~running /\ running' = TRUE /\ asked' = FALSE /\ outcome' = "none"

Ask == running /\ asked' = TRUE /\ UNCHANGED <<running, outcome>>

Ends(o) == running /\ running' = FALSE /\ outcome' = o /\ UNCHANGED asked

Answers == ~asked /\ \E code \in TurnCode : Ends(code)

Stops == asked /\ Ends("cancelled")

Raises == Ends("raised")

Next == Begin \/ Ask \/ Answers \/ Stops \/ Raises

Spec == Init /\ [][Next]_<<running, asked, outcome>>
=============================================================================
