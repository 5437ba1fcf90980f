--------------------------- MODULE MCChatRuntime ---------------------------
(* Small instances of ChatRuntime for TLC. *)
EXTENDS ChatRuntime, TLC

CONSTANTS c1, c2, t1, t2, t3, m1, m2, m3, a, b, f1

\* The first Chat holds one Turn of a version without context snapshots.
ImportedTurns == [c \in Chats |-> IF c = c1 THEN <<[id |-> m1, text |-> a]>>
                                            ELSE <<>>]
=============================================================================
