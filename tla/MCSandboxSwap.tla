---------------------------- MODULE MCSandboxSwap ----------------------------
(* Small instances of SandboxSwap for TLC. *)
EXTENDS SandboxSwap

CONSTANTS t1, t2

\* One small document.
MCOld == [i \in Slots |-> IF i = 1 THEN 1 ELSE 0]
=============================================================================
