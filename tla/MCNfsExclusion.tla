--------------------------- MODULE MCNfsExclusion ---------------------------
(* Three starts, two of them with flock: two sessions and a store in one     *)
(* server, a session and a store in another.                                 *)
EXTENDS NfsExclusion

MCServers == {"p", "q", "r"}
MCSessions == {"p1", "p2", "q1"}
MCUsers == MCSessions \cup {"pm", "qm"}
MCHome == [u \in MCUsers |-> IF u \in {"q1", "qm"} THEN "q" ELSE "p"]
MCDatabase == [u \in MCUsers |-> IF u \in MCSessions THEN "chainlit" ELSE "checkpoints"]
=============================================================================
