--------------------------- MODULE MCCodexAdapter ---------------------------
(* Small instances of CodexAdapter for TLC.                                *)
EXTENDS CodexAdapterClaims

CONSTANTS t1, t2
=============================================================================
