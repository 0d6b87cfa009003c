--------------------------- MODULE MCPeerExchange ---------------------------
(* Small instances of PeerExchange for TLC.                                *)
EXTENDS PeerExchange

CONSTANTS c1, c2, r1, r2, k1, x, y

MCTask == [key |-> k1, task |-> x]
MCOther == [key |-> k1, task |-> y]
MCNameless == [key |-> EMPTY, task |-> x]

MCBody == {MCTask, MCOther, MCNameless}

Pair(b, d) == [c \in Caller |-> IF c = c1 THEN b ELSE d]

\* Two callers with the same body, with two tasks under one key, and with the
\* empty key: in all of them the server should make one row.
MCWants == {Pair(MCTask, MCTask), Pair(MCTask, MCOther), Pair(MCNameless, MCNameless)}
=============================================================================
