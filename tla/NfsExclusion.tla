---------------------------- MODULE NfsExclusion ----------------------------
(***************************************************************************)
(* The databases on a file system without locks: the locks of the          *)
(* instances and the gates within each server together stand in for the    *)
(* locks of SQLite (docs/adr/0015).  A server uses its databases while it  *)
(* runs, whether or not its launcher still does.                           *)
(***************************************************************************)
EXTENDS InstanceLock, SqliteGate

ASSUME HomeAssumption == Home \in [Users -> Servers]

vars == <<instances, gating>>

TypeOK ==
    /\ InstanceTypeOK
    /\ GateTypeOK
    /\ \A u \in Users : ~server[Home[u]] => user[u] = Absent

Init == InstanceInit /\ GateInit

\* Fault: a server that no launcher started.
UseDatabase_Direct(u) == Use(u) /\ UNCHANGED instances

UseDatabase(u) == server[Home[u]] /\ Use(u) /\ UNCHANGED instances

ManageInstance(p) ==
    /\ Launch(p) \/ Kill(p) \/ Forget(p)
    /\ UNCHANGED gating

StopServer(p) == ServerEnds(p) /\ Vanish(p)

ReclaimGuard == RemoveStale /\ UNCHANGED gating

Next ==
    \/ \E u \in Users : UseDatabase(u)
    \/ \E p \in Servers : ManageInstance(p) \/ StopServer(p)
    \/ ReclaimGuard

Spec == Init /\ [][Next]_vars

\* Threads run on, the event loop runs what is ready in its order whenever no
\* store blocks it, and a session has finitely many statements.  Nothing is said
\* of which poller finds the gate open.
FairSpec ==
    /\ Spec
    /\ \A u \in Sessions :
         /\ SF_vars(server[Home[u]] /\ Progress(u) /\ UNCHANGED instances)
         /\ SF_vars(server[Home[u]] /\ End(u) /\ UNCHANGED instances)
    /\ \A u \in Users \ Sessions :
         WF_vars(server[Home[u]] /\ Progress(u) /\ UNCHANGED instances)
-----------------------------------------------------------------------------
(* Properties.                                                             *)

\* Over all servers that were ever started on the data, also one whose
\* launcher was killed, a database has one user at a time.
OneUserPerDatabase ==
    \A u, v \in Users :
        Database[u] = Database[v] /\ Using(u) /\ Using(v) => u = v

\* Who has a gate gives it back, after any cancellations; and since no store
\* shares a database with a session, a store never waits on the event loop for
\* a session that needs it.
EveryGateIsFreed ==
    \A u \in Users :
        /\ gate[Gate(u)] = u ~> gate[Gate(u)] # u
        /\ user[u].pc = "blocking" ~> user[u].pc # "blocking"
=============================================================================
