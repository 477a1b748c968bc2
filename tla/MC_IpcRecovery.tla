-------------------------- MODULE MC_IpcRecovery ---------------------------
(* R with one child, and one other remote node.                           *)
EXTENDS IpcRecovery

CONSTANTS r, q

MCChildren1 == {1}
MCOthers == {q}
=============================================================================
