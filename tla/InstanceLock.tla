---------------------------- MODULE InstanceLock ----------------------------
(***************************************************************************)
(* Which process may use the data: runtime_workspace (installation.py) and *)
(* the launcher around it (run in cli.py), which starts the server         *)
(* (server.py) as a child in a session of its own.  A launcher takes the   *)
(* flock of the lock file, where the file system has one, and always makes *)
(* the guard directory; a process that is killed leaves the directory and, *)
(* if it was the launcher, its server behind.  The operator removes a      *)
(* stale directory by hand (README.md).                                    *)
(***************************************************************************)
CONSTANTS
    Servers,    \* starts of the program: a launcher and its server
    NoServer,
    Flocking,   \* those whose file system supports flock
    Hasty       \* those that a Ctrl+C may reach before they forward signals

ASSUME ServerAssumption == NoServer \notin Servers /\ Flocking \subseteq Servers

VARIABLES
    flock,      \* who holds the lock of .localchat.lock
    guard,      \* .localchat.lock.d exists
    launcher,   \* where each launcher is
    server,     \* whether its child runs
    stale       \* history: the guard's owner was killed

instances == <<flock, guard, launcher, server, stale>>

Owning == {"owner", "starting", "serving", "stopping"}

InstanceTypeOK ==
    /\ flock \in Flocking \cup {NoServer}
    /\ guard \in BOOLEAN /\ stale \in BOOLEAN
    /\ launcher \in [Servers -> Owning \cup {"none", "flocked", "unlocking", "killed"}]
    /\ server \in [Servers -> BOOLEAN]

InstanceInit ==
    /\ flock = NoServer
    /\ guard = FALSE /\ stale = FALSE
    /\ launcher = [p \in Servers |-> "none"]
    /\ server = [p \in Servers |-> FALSE]

At(p, pc) == launcher[p] = pc
Goto(p, pc) == launcher' = [launcher EXCEPT ![p] = pc]
-----------------------------------------------------------------------------
\* LOCK_NB: who finds the lock taken gives up, and nothing has changed.
TakeFlock(p) ==
    /\ At(p, "none")
    /\ Goto(p, "flocked")
    /\ IF p \in Flocking
       THEN flock = NoServer /\ flock' = p
       ELSE UNCHANGED flock
    /\ UNCHANGED <<guard, server, stale>>

\* Fault: a launcher without flock does not make the directory.
MakeGuard_FlockOnly(p) ==
    /\ At(p, "flocked")
    /\ \/ guard /\ p \in Flocking /\ Goto(p, "unlocking") /\ UNCHANGED guard
       \/ (~guard \/ p \notin Flocking) /\ Goto(p, "owner") /\ guard' = TRUE
    /\ UNCHANGED <<flock, server, stale>>

\* Fault: a refused launcher removes the directory on its way out.
MakeGuard_RefusedRemoves(p) ==
    /\ At(p, "flocked")
    /\ \/ guard /\ Goto(p, "stopping") /\ UNCHANGED guard
       \/ ~guard /\ Goto(p, "owner") /\ guard' = TRUE
    /\ UNCHANGED <<flock, server, stale>>

\* An existing directory is somebody's: the launcher gives up and leaves it.
MakeGuard(p) ==
    /\ At(p, "flocked")
    /\ \/ guard /\ Goto(p, "unlocking") /\ UNCHANGED guard
       \/ ~guard /\ Goto(p, "owner") /\ guard' = TRUE
    /\ UNCHANGED <<flock, server, stale>>

StartServer(p) ==
    /\ At(p, "owner")
    /\ Goto(p, "starting")
    /\ server' = [server EXCEPT ![p] = TRUE]
    /\ UNCHANGED <<flock, guard, stale>>

\* From now on the launcher forwards SIGINT and SIGTERM to its child.
ForwardSignals(p) ==
    /\ At(p, "starting")
    /\ Goto(p, "serving")
    /\ UNCHANGED <<flock, guard, server, stale>>

\* No port, no room for the workspace, no interpreter; or a Ctrl+C, which until
\* signals are forwarded ends the launcher only, with no wait for its child.
StartFails(p) ==
    /\ At(p, "owner") \/ (At(p, "starting") /\ p \in Hasty)
    /\ Goto(p, "stopping")
    /\ UNCHANGED <<flock, guard, server, stale>>

\* The server stops at a forwarded signal or dies, with a launcher or without.
ServerEnds(p) ==
    /\ server[p]
    /\ server' = [server EXCEPT ![p] = FALSE]
    /\ UNCHANGED <<flock, guard, launcher, stale>>

\* The launcher waits for its child, and kills it before it goes itself.
ServerReaped(p) ==
    /\ At(p, "serving") /\ ~server[p]
    /\ Goto(p, "stopping")
    /\ UNCHANGED <<flock, guard, server, stale>>

RemoveGuard(p) ==
    /\ At(p, "stopping")
    /\ Goto(p, "unlocking")
    /\ guard' = FALSE
    /\ UNCHANGED <<flock, server, stale>>

Unlock(p) ==
    /\ At(p, "unlocking")
    /\ Goto(p, "none")
    /\ flock' = IF flock = p THEN NoServer ELSE flock
    /\ UNCHANGED <<guard, server, stale>>

\* The kernel drops the flock, nobody the directory; the child runs on.
Kill(p) ==
    /\ launcher[p] \notin {"none", "killed"}
    /\ Goto(p, "killed")
    /\ flock' = IF flock = p THEN NoServer ELSE flock
    /\ stale' = (stale \/ launcher[p] \in Owning)
    /\ UNCHANGED <<guard, server>>

\* Nothing is left of this start.
Forget(p) ==
    /\ At(p, "killed") /\ ~server[p]
    /\ Goto(p, "none")
    /\ UNCHANGED <<flock, guard, server, stale>>

\* README.md:66: only when the launchers and their servers have stopped.
RemoveStale ==
    /\ guard
    /\ \A p \in Servers : launcher[p] \in {"none", "killed"} /\ ~server[p]
    /\ guard' = FALSE /\ stale' = FALSE
    /\ UNCHANGED <<flock, launcher, server>>
-----------------------------------------------------------------------------
Launch(p) ==
    \/ TakeFlock(p) \/ MakeGuard(p) \/ StartServer(p) \/ ForwardSignals(p)
    \/ StartFails(p) \/ ServerReaped(p) \/ RemoveGuard(p) \/ Unlock(p)

InstanceNext ==
    \/ \E p \in Servers : Launch(p) \/ ServerEnds(p) \/ Kill(p) \/ Forget(p)
    \/ RemoveStale

InstanceSpec == InstanceInit /\ [][InstanceNext]_instances
-----------------------------------------------------------------------------
(* Properties.                                                             *)

\* However processes are killed and with any mix of file systems that have
\* flock and that have not, two servers never use the same data.
OneServer == \A p, q \in Servers : server[p] /\ server[q] => p = q

\* Only a killed launcher leaves the guard behind: every other end, a refused
\* or failed start too, leaves the data free for the next start, and nobody
\* removes the guard of another.
GuardHasOwner ==
    /\ guard => stale \/ \E p \in Servers : launcher[p] \in Owning
    /\ \A p \in Servers : launcher[p] \in Owning => guard
=============================================================================
