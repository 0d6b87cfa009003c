-------------------------- MODULE CodexAdapterClaims --------------------------
(***************************************************************************)
(* A statement a test makes about the adapter that its code does not keep. *)
(* It is checked alone, by a run that ends in a counterexample.            *)
(***************************************************************************)
EXTENDS CodexAdapter

\* The test of the parser feeds it one agent_message item with the text "hello"
\* and asserts message == "hello" (tests/unit/test_adapters.py:21-30), and the
\* fake adapter reports its messages in such items too (adapters.py:77).
\* parse_codex_events takes items of type message only, so the successful
\* answer of a child that spoke so, read to its end, has no message.
AgentMessagesTold ==
    /\ pc = "idle" /\ mode = "real" /\ outcome = "ok" /\ ~timedOut
    /\ \E i \in DOMAIN out : out[i] = "agent_message"
    => messages > 0
=============================================================================
