--------------------------- MODULE MCVaultSessions ---------------------------
(* Instances of VaultSessions for TLC.                                     *)
EXTENDS VaultSessions

CONSTANTS p1, p2

MCProcess == {p1, p2}
\* The first call's process is called p1.
MCHome == [c \in 1 .. 3 |-> IF c = 1 THEN {p1} ELSE {p1, p2}]
MCLevel == {"view", "admin"}
MCLife == {"fresh", "near"}
=============================================================================
