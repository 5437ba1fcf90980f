---------------------------- MODULE MCChatTitle ----------------------------
(* Small instances of ChatTitle for TLC. *)
EXTENDS ChatTitle, TLC

CONSTANTS t1, t2
=============================================================================
