------------------------ MODULE NfsExclusionProofs ------------------------
(***************************************************************************)
(* Proofs about NfsExclusion for any number of starts, with flock and      *)
(* without, and any sessions and stores.  The guard directory is there     *)
(* whenever somebody claims the data (Claims), and only who claims it      *)
(* removes it; a session or a store that uses its connection has the gate  *)
(* (UserHasGate).  OneUserPerDatabase joins the two.                       *)
(***************************************************************************)
EXTENDS NfsExclusion, TLAPS

Claims(p) == launcher[p] \in Owning \/ server[p]

OneClaim ==
    /\ \A p \in Servers : Claims(p) => guard
    /\ \A p, q \in Servers : Claims(p) /\ Claims(q) => p = q
    /\ \A p \in Servers : server[p] => launcher[p] \in {"starting", "serving", "killed"}

LockInv == InstanceTypeOK /\ OneClaim

UserHasGate == \A u \in Users : Using(u) => gate[Gate(u)] = u

GateInv == GateTypeOK /\ UserHasGate
-----------------------------------------------------------------------------
(* The lock of the instances.                                              *)

InstanceStep == InstanceNext \/ UNCHANGED instances

LEMMA LockTyped ==
    InstanceTypeOK /\ InstanceStep => InstanceTypeOK'
<1> SUFFICES ASSUME InstanceTypeOK, InstanceStep PROVE InstanceTypeOK'
    OBVIOUS
<1> USE DEF InstanceTypeOK, Owning, Goto, At
<1>1. ASSUME NEW p \in Servers, Launch(p) PROVE InstanceTypeOK'
    <2>1. CASE TakeFlock(p) BY <2>1 DEF TakeFlock
    <2>2. CASE MakeGuard(p) BY <2>2 DEF MakeGuard
    <2>3. CASE StartServer(p) BY <2>3 DEF StartServer
    <2>4. CASE ForwardSignals(p) BY <2>4 DEF ForwardSignals
    <2>5. CASE StartFails(p) BY <2>5 DEF StartFails
    <2>6. CASE ServerReaped(p) BY <2>6 DEF ServerReaped
    <2>7. CASE RemoveGuard(p) BY <2>7 DEF RemoveGuard
    <2>8. CASE Unlock(p) BY <2>8 DEF Unlock
    <2> QED BY <1>1, <2>1, <2>2, <2>3, <2>4, <2>5, <2>6, <2>7, <2>8 DEF Launch
<1>2. ASSUME NEW p \in Servers, ServerEnds(p) PROVE InstanceTypeOK'
    BY <1>2 DEF ServerEnds
<1>3. ASSUME NEW p \in Servers, Kill(p) PROVE InstanceTypeOK'
    BY <1>3 DEF Kill
<1>4. ASSUME NEW p \in Servers, Forget(p) PROVE InstanceTypeOK'
    BY <1>4 DEF Forget
<1>5. CASE RemoveStale BY <1>5 DEF RemoveStale
<1>6. CASE UNCHANGED instances BY <1>6 DEF instances
<1> QED BY <1>1, <1>2, <1>3, <1>4, <1>5, <1>6 DEF InstanceStep, InstanceNext

LEMMA LockStep ==
    ASSUME Hasty = {}
    PROVE  LockInv /\ InstanceStep => LockInv'
<1> SUFFICES ASSUME LockInv, InstanceStep PROVE OneClaim'
    BY LockTyped DEF LockInv
<1> USE DEF LockInv, InstanceTypeOK, OneClaim, Claims, Owning, Goto, At
<1>1. ASSUME NEW p \in Servers, Launch(p) PROVE OneClaim'
    <2>1. CASE TakeFlock(p) BY <2>1 DEF TakeFlock
    <2>2. CASE MakeGuard(p) BY <2>2 DEF MakeGuard
    <2>3. CASE StartServer(p) BY <2>3 DEF StartServer
    <2>4. CASE ForwardSignals(p) BY <2>4 DEF ForwardSignals
    <2>5. CASE StartFails(p) BY <2>5 DEF StartFails
    <2>6. CASE ServerReaped(p) BY <2>6 DEF ServerReaped
    <2>7. CASE RemoveGuard(p) BY <2>7 DEF RemoveGuard
    <2>8. CASE Unlock(p) BY <2>8 DEF Unlock
    <2> QED BY <1>1, <2>1, <2>2, <2>3, <2>4, <2>5, <2>6, <2>7, <2>8 DEF Launch
<1>2. ASSUME NEW p \in Servers, ServerEnds(p) PROVE OneClaim'
    BY <1>2 DEF ServerEnds
<1>3. ASSUME NEW p \in Servers, Kill(p) PROVE OneClaim'
    BY <1>3 DEF Kill
<1>4. ASSUME NEW p \in Servers, Forget(p) PROVE OneClaim'
    BY <1>4 DEF Forget
<1>5. CASE RemoveStale BY <1>5 DEF RemoveStale
<1>6. CASE UNCHANGED instances BY <1>6 DEF instances
<1> QED BY <1>1, <1>2, <1>3, <1>4, <1>5, <1>6 DEF InstanceStep, InstanceNext

LEMMA OwnerStep ==
    InstanceTypeOK /\ GuardHasOwner /\ InstanceStep /\ OneClaim => GuardHasOwner'
<1> SUFFICES ASSUME InstanceTypeOK, GuardHasOwner, OneClaim, InstanceStep
             PROVE  GuardHasOwner'
    OBVIOUS
<1> USE DEF InstanceTypeOK, GuardHasOwner, OneClaim, Claims, Owning, Goto, At
<1>1. ASSUME NEW p \in Servers, Launch(p) PROVE GuardHasOwner'
    <2>1. CASE TakeFlock(p) BY <2>1 DEF TakeFlock
    <2>2. CASE MakeGuard(p) BY <2>2 DEF MakeGuard
    <2>3. CASE StartServer(p) BY <2>3 DEF StartServer
    <2>4. CASE ForwardSignals(p) BY <2>4 DEF ForwardSignals
    <2>5. CASE StartFails(p) BY <2>5 DEF StartFails
    <2>6. CASE ServerReaped(p) BY <2>6 DEF ServerReaped
    <2>7. CASE RemoveGuard(p) BY <2>7 DEF RemoveGuard
    <2>8. CASE Unlock(p) BY <2>8 DEF Unlock
    <2> QED BY <1>1, <2>1, <2>2, <2>3, <2>4, <2>5, <2>6, <2>7, <2>8 DEF Launch
<1>2. ASSUME NEW p \in Servers, ServerEnds(p) PROVE GuardHasOwner'
    BY <1>2 DEF ServerEnds
<1>3. ASSUME NEW p \in Servers, Kill(p) PROVE GuardHasOwner'
    BY <1>3 DEF Kill
<1>4. ASSUME NEW p \in Servers, Forget(p) PROVE GuardHasOwner'
    BY <1>4 DEF Forget
<1>5. CASE RemoveStale BY <1>5 DEF RemoveStale
<1>6. CASE UNCHANGED instances BY <1>6 DEF instances
<1> QED BY <1>1, <1>2, <1>3, <1>4, <1>5, <1>6 DEF InstanceStep, InstanceNext
-----------------------------------------------------------------------------
(* The gates of the servers.                                               *)

LEMMA GateUse ==
    ASSUME NEW u \in Users, GateInv, Use(u)
    PROVE  GateInv'
<1> USE GateAssumption
    DEF GateInv, GateTypeOK, UserHasGate, Using, Put, Inside
<1> DEFINE Record == [pc : Inside \cup {"idle", "polling", "blocking"},
                      busy : BOOLEAN, cancelled : BOOLEAN]
<1>t. user[u] \in Record /\ Absent \in Record
    BY DEF Absent
<1>g. \A v \in Users : Gate(v) \in Gates
    BY DEF Gates
<1>1. CASE Ask(u) BY <1>1 DEF Ask, Absent
<1>2. CASE Poll(u) BY <1>2, <1>t, <1>g DEF Poll, Absent
<1>3. CASE Execute(u) BY <1>3 DEF Execute, ToWorker
<1>4. CASE End(u) BY <1>4 DEF End, ToWorker
<1>5. CASE Cancel(u)
    <2>1. CASE user[u].pc = "polling" /\ Put(u, Absent)
        BY <1>5, <2>1 DEF Cancel, Absent
    <2>2. CASE Put(u, [user[u] EXCEPT !.cancelled = TRUE])
        <3> DEFINE r == [user[u] EXCEPT !.cancelled = TRUE]
        <3>1. r \in Record /\ r.pc = user[u].pc /\ r.busy = user[u].busy
            BY <1>t
        <3>2. gate' = gate /\ user' = [user EXCEPT ![u] = r]
            BY <1>5, <2>2 DEF Cancel
        <3> HIDE DEF r
        <3> QED BY <3>1, <3>2
    <2> QED BY <1>5, <2>1, <2>2 DEF Cancel
<1>6. CASE Connect(u) BY <1>6 DEF Connect, Absent
<1>7. CASE WorkerDone(u) BY <1>7 DEF WorkerDone
<1>8. CASE Resume(u)
    <2> DEFINE r == [user[u] EXCEPT !.pc = "open"]
               d == [pc |-> "leaving", busy |-> TRUE, cancelled |-> user[u].cancelled]
    <2>1. r \in Record /\ d \in Record /\ Using(u)
        BY <1>8, <1>t DEF Resume
    <2>2. gate' = gate /\ \E x \in {r, d} : user' = [user EXCEPT ![u] = x]
        BY <1>8 DEF Resume, ToWorker
    <2> HIDE DEF r, d
    <2> QED BY <2>1, <2>2
<1>9. CASE Leave(u) BY <1>9, <1>t, <1>g DEF Leave, Close, Absent
<1>10. CASE Connected(u) BY <1>10, <1>t, <1>g DEF Connected, Absent
<1>11. CASE Disconnect(u) BY <1>11, <1>t, <1>g DEF Disconnect, Close, Absent
<1> QED BY <1>1, <1>2, <1>3, <1>4, <1>5, <1>6, <1>7, <1>8, <1>9, <1>10, <1>11
        DEF Use, Progress

LEMMA GateVanish ==
    ASSUME NEW p \in Servers, GateInv, Vanish(p)
    PROVE  GateInv'
BY DEF GateInv, GateTypeOK, UserHasGate, Using, Absent, Inside, Gates, Gate, Vanish
-----------------------------------------------------------------------------
(* The composition.                                                        *)

Inv == LockInv /\ GuardHasOwner /\ GateInv /\ TypeOK

LEMMA Initially == Init => Inv
<1> SUFFICES ASSUME Init PROVE Inv
    OBVIOUS
<1>1. LockInv /\ GuardHasOwner
    BY DEF Init, InstanceInit, LockInv, InstanceTypeOK, OneClaim, Claims, Owning,
           GuardHasOwner
<1>2. GateTypeOK /\ \A u \in Users : user[u] = Absent
    BY DEF Init, GateInit, GateTypeOK, Absent
<1>3. UserHasGate
    BY <1>2 DEF UserHasGate, Using, Inside, Absent
<1> QED BY <1>1, <1>2, <1>3 DEF Inv, LockInv, GateInv, TypeOK

LEMMA Step ==
    ASSUME Hasty = {}
    PROVE  Inv /\ [Next]_vars => Inv'
<1> SUFFICES ASSUME Inv, [Next]_vars PROVE Inv'
    OBVIOUS
<1>1. InstanceStep
    BY DEF Next, UseDatabase, ManageInstance, StopServer, ReclaimGuard, vars,
           InstanceStep, InstanceNext, instances
<1>2. LockInv' /\ GuardHasOwner'
    BY <1>1, LockStep, OwnerStep DEF Inv, LockInv
<1>3. GateInv'
    <2>1. ASSUME NEW u \in Users, UseDatabase(u) PROVE GateInv'
        BY <2>1, GateUse DEF UseDatabase, Inv
    <2>2. ASSUME NEW p \in Servers, StopServer(p) PROVE GateInv'
        BY <2>2, GateVanish DEF StopServer, Inv
    <2>3. CASE UNCHANGED gating
        BY <2>3 DEF gating, Inv, GateInv, GateTypeOK, UserHasGate, Using
    <2> QED BY <2>1, <2>2, <2>3 DEF Next, ManageInstance, ReclaimGuard, vars
<1>4. (\A u \in Users : ~server[Home[u]] => user[u] = Absent)'
    <2> USE HomeAssumption DEF Inv, TypeOK, InstanceTypeOK, GateTypeOK
    <2>1. ASSUME NEW u \in Users, UseDatabase(u)
          PROVE  (\A v \in Users : ~server[Home[v]] => user[v] = Absent)'
        <3>1. \A v \in Users \ {u} : user'[v] = user[v]
            BY <2>1 DEF UseDatabase, Use, Progress, Ask, Poll, Execute, End, Cancel,
                        Connect, WorkerDone, Resume, Leave, Connected, Disconnect,
                        Close, ToWorker, Put
        <3>2. server[Home[u]] /\ server' = server
            BY <2>1 DEF UseDatabase, instances
        <3> QED BY <3>1, <3>2
    <2>2. ASSUME NEW p \in Servers, StopServer(p)
          PROVE  (\A v \in Users : ~server[Home[v]] => user[v] = Absent)'
        BY <2>2 DEF StopServer, ServerEnds, Vanish, Absent
    <2>3. ASSUME NEW p \in Servers, ManageInstance(p)
          PROVE  (\A v \in Users : ~server[Home[v]] => user[v] = Absent)'
        <3>1. user' = user /\ \A q \in Servers : server[q] => server'[q]
            BY <2>3 DEF ManageInstance, gating, Launch, TakeFlock, MakeGuard,
                        StartServer, ForwardSignals, StartFails, ServerReaped,
                        RemoveGuard, Unlock, Kill, Forget
        <3> QED BY <3>1 DEF Absent
    <2>4. CASE ReclaimGuard
        BY <2>4 DEF ReclaimGuard, RemoveStale, gating, Absent
    <2>5. CASE UNCHANGED vars
        BY <2>5 DEF vars, instances, gating, Absent
    <2> QED BY <2>1, <2>2, <2>3, <2>4, <2>5 DEF Next
<1> QED BY <1>2, <1>3, <1>4 DEF Inv, LockInv, GateInv, TypeOK

LEMMA Invariance ==
    ASSUME Hasty = {}
    PROVE  Spec => []Inv
BY Initially, Step, PTL DEF Spec

\* Users of a server that has ended are gone with it: no session, statement of
\* a worker or blocking store outlives its process, whatever else happens.
THEOREM NfsTypeCorrect ==
    ASSUME Hasty = {}
    PROVE  Spec => []TypeOK
<1>1. Inv => TypeOK
    BY DEF Inv
<1> QED BY <1>1, Invariance, PTL

\* runtime_workspace and run: the flock where there is one, the directory and
\* the wait for the child keep two servers apart, whoever is killed, if no
\* Ctrl+C reaches a launcher between Popen and its signal handlers.
THEOREM TwoServersNeverMeet ==
    ASSUME Hasty = {}
    PROVE  Spec => []OneServer
<1>1. Inv => OneServer
    BY DEF Inv, LockInv, OneClaim, Claims, OneServer
<1> QED BY <1>1, Invariance, PTL

\* runtime_workspace: the directory stays behind only after a kill, and nobody
\* removes that of another.
THEOREM NoGuardIsLeft ==
    ASSUME Hasty = {}
    PROVE  Spec => []GuardHasOwner
<1>1. Inv => GuardHasOwner
    BY DEF Inv
<1> QED BY <1>1, Invariance, PTL

\* SQLiteDatabase and the launcher's lock: without any lock of SQLite's, a
\* database has one user at a time over all servers that ever ran.
THEOREM DatabasesAreExclusive ==
    ASSUME Hasty = {}
    PROVE  Spec => []OneUserPerDatabase
<1>1. Inv => OneUserPerDatabase
    <2> SUFFICES ASSUME Inv, NEW u \in Users, NEW v \in Users,
                        Database[u] = Database[v], Using(u), Using(v)
                 PROVE  u = v
        BY DEF OneUserPerDatabase
    <2>1. server[Home[u]] /\ server[Home[v]]
        BY DEF Inv, TypeOK, Using, Absent, Inside
    <2>2. Home[u] = Home[v]
        BY <2>1, HomeAssumption DEF Inv, LockInv, OneClaim, Claims
    <2> QED BY <2>2 DEF Inv, GateInv, UserHasGate, Gate
<1> QED BY <1>1, Invariance, PTL
=============================================================================
