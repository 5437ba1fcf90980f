----------------------------- MODULE SqliteGate -----------------------------
(***************************************************************************)
(* The databases in NFS mode (sqlite_storage.py), where SQLite takes no    *)
(* locks: in every server a gate for each database file, a thread lock,    *)
(* goes around each session of Chainlit's data layer, whose coroutine      *)
(* polls for it and hands its statements to a worker thread, and around    *)
(* each use by a synchronous store, which blocks the event loop until it   *)
(* has the gate.                                                           *)
(***************************************************************************)
CONSTANTS
    Users, NoUser,
    Sessions,       \* the users that are coroutines; the others are stores
    Home, Database  \* the server and the database of each user

ASSUME GateAssumption == Sessions \subseteq Users /\ NoUser \notin Users

\* chainlit.sqlite3 is used by sessions; runtime-history.sqlite3 and
\* checkpoints.sqlite3 are used by stores (app.py).
ASSUME SeparateAssumption ==
    \A u, v \in Users : Database[u] = Database[v] => (u \in Sessions <=> v \in Sessions)

VARIABLES
    gate,   \* who holds each server's gate of each database
    user    \* where each user is, and whether its worker runs a statement

gating == <<gate, user>>

Gate(u) == <<Home[u], Database[u]>>
Gates == {Gate(u) : u \in Users}

Inside == {"open", "awaiting", "leaving"}

Absent == [pc |-> "idle", busy |-> FALSE, cancelled |-> FALSE]

GateTypeOK ==
    /\ gate \in [Gates -> Users \cup {NoUser}]
    /\ user \in [Users -> [pc : Inside \cup {"idle", "polling", "blocking"},
                           busy : BOOLEAN, cancelled : BOOLEAN]]

GateInit ==
    /\ gate = [g \in Gates |-> NoUser]
    /\ user = [u \in Users |-> Absent]

\* A store keeps the event loop of its server to itself.
LoopIsFree(u) ==
    \A v \in Users \ Sessions : Home[v] = Home[u] => user[v].pc = "idle"

Put(u, record) == user' = [user EXCEPT ![u] = record]

Close(u) == gate' = [gate EXCEPT ![Gate(u)] = NoUser] /\ Put(u, Absent)
-----------------------------------------------------------------------------
(* Sessions.                                                               *)

Ask(u) ==
    /\ u \in Sessions /\ user[u].pc = "idle" /\ LoopIsFree(u)
    /\ Put(u, [Absent EXCEPT !.pc = "polling"])
    /\ UNCHANGED gate

\* acquire(blocking=False); who finds the gate taken sleeps.
Poll(u) ==
    /\ user[u].pc = "polling" /\ LoopIsFree(u)
    /\ gate[Gate(u)] = NoUser
    /\ gate' = [gate EXCEPT ![Gate(u)] = u]
    /\ Put(u, [Absent EXCEPT !.pc = "open"])

ToWorker(u, pc) ==
    Put(u, [pc |-> pc, busy |-> TRUE, cancelled |-> user[u].cancelled])

Execute(u) ==
    /\ u \in Sessions /\ user[u].pc = "open" /\ LoopIsFree(u)
    /\ ToWorker(u, "awaiting")
    /\ UNCHANGED gate

\* The end of the transaction and of the session.
End(u) ==
    /\ u \in Sessions /\ user[u].pc = "open" /\ LoopIsFree(u)
    /\ ToWorker(u, "leaving")
    /\ UNCHANGED gate

\* The worker thread needs no loop.
WorkerDone(u) ==
    /\ user[u].busy
    /\ Put(u, [user[u] EXCEPT !.busy = FALSE])
    /\ UNCHANGED gate

\* _finish_io hands over the result, or the cancellation it has kept: the
\* session then rolls back and closes.
Resume(u) ==
    /\ user[u].pc = "awaiting" /\ ~user[u].busy /\ LoopIsFree(u)
    /\ IF user[u].cancelled
       THEN ToWorker(u, "leaving")
       ELSE Put(u, [user[u] EXCEPT !.pc = "open"])
    /\ UNCHANGED gate

\* Fault: a cancelled session leaves without its gate.
Leave_CancelledKeeps(u) ==
    /\ user[u].pc = "leaving" /\ ~user[u].busy /\ LoopIsFree(u)
    /\ IF user[u].cancelled THEN Put(u, Absent) /\ UNCHANGED gate ELSE Close(u)

\* The connection is closed, then the gate opened.
Leave(u) ==
    /\ user[u].pc = "leaving" /\ ~user[u].busy /\ LoopIsFree(u)
    /\ Close(u)

\* Fault: the cancellation does not wait for the worker.
Cancel_Abandons(u) ==
    /\ u \in Sessions /\ LoopIsFree(u)
    /\ \/ user[u].pc = "polling" /\ Put(u, Absent) /\ UNCHANGED gate
       \/ /\ user[u].pc \in {"awaiting", "leaving"}
          /\ gate' = [gate EXCEPT ![Gate(u)] = NoUser]
          /\ Put(u, [user[u] EXCEPT !.pc = "idle"])

\* Once or again.  A poller is gone at once; a statement runs to its end.
Cancel(u) ==
    /\ u \in Sessions /\ LoopIsFree(u)
    /\ \/ user[u].pc = "polling" /\ Put(u, Absent)
       \/ /\ user[u].pc \in {"awaiting", "leaving"}
          /\ Put(u, [user[u] EXCEPT !.cancelled = TRUE])
    /\ UNCHANGED gate
-----------------------------------------------------------------------------
(* Stores: from here to the end of connect the event loop stands still.    *)

Connect(u) ==
    /\ u \notin Sessions /\ user[u].pc = "idle" /\ LoopIsFree(u)
    /\ Put(u, [Absent EXCEPT !.pc = "blocking"])
    /\ UNCHANGED gate

Connected(u) ==
    /\ user[u].pc = "blocking"
    /\ gate[Gate(u)] = NoUser
    /\ gate' = [gate EXCEPT ![Gate(u)] = u]
    /\ Put(u, [Absent EXCEPT !.pc = "open"])

Disconnect(u) ==
    /\ u \notin Sessions /\ user[u].pc = "open"
    /\ Close(u)
-----------------------------------------------------------------------------
\* What goes on once it was asked for.
Progress(u) ==
    \/ WorkerDone(u) \/ Resume(u) \/ Leave(u)
    \/ Connected(u) \/ Disconnect(u)

Use(u) ==
    \/ Ask(u) \/ Poll(u) \/ Execute(u) \/ End(u) \/ Cancel(u)
    \/ Connect(u) \/ Progress(u)

\* The process of the server ends, its workers with it.
Vanish(p) ==
    /\ user' = [u \in Users |-> IF Home[u] = p THEN Absent ELSE user[u]]
    /\ gate' = [g \in Gates |-> IF g[1] = p THEN NoUser ELSE gate[g]]

\* Whether u's connection to its database is in use, from the journal check to
\* the close; the worker of a session may run on after the session.
Using(u) == user[u].pc \in Inside \/ user[u].busy
=============================================================================
