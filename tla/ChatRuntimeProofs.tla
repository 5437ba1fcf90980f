------------------------- MODULE ChatRuntimeProofs -------------------------
(***************************************************************************)
(* What holds of ChatRuntime for every set of Chats, tasks, messages,      *)
(* texts and documents, and with or without file faults.                   *)
(***************************************************************************)
EXTENDS ChatRuntime, SequenceTheorems, TLAPS

ActivePcs == Pcs \ {"idle", "queued"}

\* A task that is past a suspension point has the request that led there.
Served ==
    \A t \in Tasks :
        /\ pc[t] = "idle" => job[t] = NoJob
        /\ pc[t] = "queued" => job[t] \in DeleteJob \cup TurnJob
        /\ pc[t] \in DeletePcs \cup {"closing"} => job[t] \in DeleteJob
        /\ pc[t] \in TurnPcs \cup {"admitted"} => job[t] \in TurnJob

\* A task holds a lock exactly while it is where the code holds it.
LocksHeld ==
    /\ \A t \in Tasks : turnLock = t <=> pc[t] \in TurnPcs
    /\ \A t \in Tasks, c \in Chats :
         /\ appLock[c] = t <=> pc[t] \in ActivePcs /\ job[t].chat = c
         /\ chatLock[c] = t <=> pc[t] \in TurnPcs \cup DeletePcs /\ job[t].chat = c

\* What only a Revision passes through.
EditPcs == {"ready", "rewinding", "attaching", "view"}

\* The Turn an edit names is there from its admission to its rollback.
Target(t) ==
    /\ pc[t] \in {"admitted", "snapshot"} /\ job[t].kind = "edit" =>
         job[t].id \in Ids(history[job[t].chat])
    /\ pc[t] \in TurnPcs \ {"snapshot", "restoring"} /\ job[t].kind = "edit" =>
         job[t].at \in 1 .. Len(history[job[t].chat])
    /\ pc[t] # "idle" /\ job[t].kind = "message" =>
         job[t].at = 0 /\ ~job[t].replaced
    /\ pc[t] \in EditPcs => job[t].kind = "edit"

Targets == \A t \in Tasks : Target(t)

\* Only these transactions wait for a worker thread.
Quiet ==
    \A t \in Tasks :
        pc[t] \in TurnPcs \ {"snapshot", "rewinding", "restoring"} =>
            restoring[job[t].chat] = None

IInv == TypeOK /\ Served /\ LocksHeld /\ Targets /\ Quiet
-----------------------------------------------------------------------------
\* The phases of a Turn, a deletion and an idle or waiting task are distinct.
LEMMA PcFacts ==
    /\ TurnPcs \subseteq ActivePcs
    /\ DeletePcs \subseteq ActivePcs
    /\ TurnPcs \cap DeletePcs = {}
    /\ ActivePcs = TurnPcs \cup DeletePcs \cup {"admitted", "closing"}
    /\ "admitted" \notin TurnPcs \cup DeletePcs
    /\ "closing" \notin TurnPcs \cup DeletePcs
    /\ {"idle", "queued"} \cap ActivePcs = {}
BY DEF ActivePcs, Pcs, TurnPcs, DeletePcs

\* The texts of a history form a sequence of requests.
LEMMA TextsIsSeq ==
    ASSUME NEW h \in Seq(Turn)
    PROVE  /\ Texts(h) \in Seq(Requests)
           /\ Len(Texts(h)) = Len(h)
           /\ DOMAIN h = 1 .. Len(h)
<1>1. DOMAIN h = 1 .. Len(h) /\ Len(h) \in Nat
  BY LenProperties
<1>2. \A k \in 1 .. Len(h) : h[k].text \in Requests
  <2> SUFFICES ASSUME NEW k \in 1 .. Len(h) PROVE h[k].text \in Requests
    OBVIOUS
  <2>1. h[k] \in Turn
    BY ElementOfSeq
  <2> QED
    BY <2>1 DEF Turn
<1>3. Texts(h) \in [1 .. Len(h) -> Requests]
  BY <1>1, <1>2 DEF Texts
<1> QED
  BY <1>1, <1>3, SeqDef, LenProperties

\* What AgentExecution._messages returns is a sequence of requests.
LEMMA MessagesIsSeq ==
    ASSUME TypeOK, NEW c \in Chats
    PROVE  Messages(c) \in Seq(Requests)
<1>1. history[c] \in Seq(Turn) /\ memory[c] \in Seq(Seq(Requests))
  BY DEF TypeOK
<1>2. CASE memory[c] = None
  BY <1>1, <1>2, TextsIsSeq DEF Messages
<1>3. CASE memory[c] # None
  BY <1>1, <1>3, HeadTailProperties DEF Messages, None
<1> QED
  BY <1>2, <1>3

\* A prefix of a history is a history.
LEMMA BeforeIsSeq ==
    ASSUME NEW h \in Seq(Turn), NEW k \in Nat, k \in 0 .. Len(h)
    PROVE  /\ Before(h, k) \in Seq(Turn)
           /\ k > 0 => Len(Before(h, k)) = k - 1
           /\ k > 0 => \A i \in 1 .. k - 1 : Before(h, k)[i] = h[i]
<1>1. \A i \in 1 .. k - 1 : h[i] \in Turn
  BY ElementOfSeq, LenProperties
<1> QED
  BY <1>1, SubSeqProperties, LenProperties DEF Before
-----------------------------------------------------------------------------
\* A task that only moves on inside its transaction.
LEMMA MoveOn ==
    ASSUME IInv, NEW t \in Tasks, NEW next \in TurnPcs,
           pc[t] \in TurnPcs \ {"snapshot", "restoring"}, next # "snapshot",
           next \in EditPcs => job[t].kind = "edit",
           next \notin {"rewinding", "restoring"} => restoring[job[t].chat] = None,
           pc' = [pc EXCEPT ![t] = next],
           UNCHANGED <<job, appLock, turnLock, chatLock, flags, history,
                       restoring, memSnaps, fileSnaps>>,
           memory' \in [Chats -> Seq(Seq(Requests))],
           files' \in [Chats -> SUBSET Files]
    PROVE  IInv'
<1> USE PcFacts DEF IInv
<1>1. TypeOK'
  BY DEF TypeOK, flags, Pcs, ActivePcs
<1>2. Served'
  BY DEF TypeOK, Served
<1>3. LocksHeld'
  BY DEF TypeOK, LocksHeld
<1>4. Targets'
  BY DEF TypeOK, Targets, Target
<1>5. Quiet'
  BY DEF TypeOK, Quiet
<1> QED
  BY <1>1, <1>2, <1>3, <1>4, <1>5

\* A task that ends, having written at most to the Chat whose lock it held.
LEMMA LeaveStep ==
    ASSUME IInv, NEW t \in Tasks, Leave(t), pc[t] # "idle",
           marked' = marked, deleting' = deleting, restoring' = restoring,
           history' \in [Chats -> Seq(Turn)],
           \A c \in Chats : appLock[c] # t => history'[c] = history[c],
           memory' \in [Chats -> Seq(Seq(Requests))], memSnaps' = memSnaps,
           files' \in [Chats -> SUBSET Files], fileSnaps' \subseteq Chats
    PROVE  IInv'
<1> USE PcFacts DEF IInv
<1>1. TypeOK'
  BY DEF TypeOK, Leave, Pcs
<1>2. Served'
  BY DEF TypeOK, Served, Leave
<1>3. LocksHeld'
  BY SentinelAssumption DEF TypeOK, LocksHeld, Leave
<1>4. Targets'
  <2>1. pc'[t] = "idle"
    BY DEF TypeOK, Leave
  <2>2. ASSUME NEW u \in Tasks, u # t, pc[u] \in TurnPcs \cup {"admitted"}
        PROVE  history'[job[u].chat] = history[job[u].chat]
    <3>1. job[u].chat \in Chats
      BY <2>2 DEF Served, TurnJob
    <3>2. appLock[job[u].chat] = u
      BY <2>2, <3>1 DEF LocksHeld
    <3> QED
      BY <2>2, <3>1, <3>2
  <2>3. \A u \in Tasks : u # t => pc'[u] = pc[u] /\ job'[u] = job[u]
    BY DEF TypeOK, Leave
  <2> SUFFICES ASSUME NEW u \in Tasks PROVE Target(u)'
    BY DEF Targets
  <2>4. CASE u = t
    BY <2>1, <2>4 DEF EditPcs, Target
  <2>5. CASE u # t
    BY <2>2, <2>3, <2>5 DEF Targets, Target, TurnPcs
  <2> QED
    BY <2>4, <2>5
<1>5. Quiet'
  BY DEF TypeOK, Quiet, Leave
<1> QED
  BY <1>1, <1>2, <1>3, <1>4, <1>5

\* A task that takes up a request.
LEMMA ReceiveStep ==
    ASSUME IInv, NEW t \in Tasks, pc[t] = "idle",
           NEW j \in TurnJob \cup DeleteJob,
           j.kind = "message" => j.at = 0 /\ ~j.replaced,
           job' = [job EXCEPT ![t] = j], Goto(t, "queued"),
           marked' \subseteq Chats,
           UNCHANGED <<deleting, history, agentState, sandbox>>
    PROVE  IInv'
<1> USE PcFacts DEF IInv
<1>1. TypeOK'
  BY DEF TypeOK, Goto, Pcs, agentState, sandbox
<1>2. Served'
  BY DEF TypeOK, Served, Goto
<1>3. LocksHeld'
  BY DEF TypeOK, LocksHeld, Goto
<1>4. Targets'
  BY DEF TypeOK, EditPcs, Targets, Target, Goto
<1>5. Quiet'
  BY DEF TypeOK, Quiet, Goto, sandbox
<1> QED
  BY <1>1, <1>2, <1>3, <1>4, <1>5

\* Two tasks that are past the Chat's lock in app.py serve different Chats.
LEMMA Apart ==
    ASSUME IInv, NEW t \in Tasks, NEW u \in Tasks, t # u,
           pc[t] \in ActivePcs, pc[u] \in ActivePcs
    PROVE  job[t].chat # job[u].chat /\ job[t].chat \in Chats
BY PcFacts DEF IInv, LocksHeld, Served, TurnJob, DeleteJob

\* The locks of an active task, and the other tasks it leaves alone.
LEMMA Holds ==
    ASSUME IInv, NEW t \in Tasks, pc[t] \in ActivePcs
    PROVE  /\ job[t].chat \in Chats
           /\ appLock[job[t].chat] = t
           /\ \A c \in Chats : c # job[t].chat => appLock[c] # t
           /\ pc[t] \in TurnPcs => turnLock = t /\ job[t] \in TurnJob
           /\ pc[t] \in TurnPcs \cup DeletePcs => chatLock[job[t].chat] = t
BY PcFacts DEF IInv, LocksHeld, Served, TurnJob, DeleteJob
-----------------------------------------------------------------------------
\* on_message, on_edit_message and cleanup_chat take up a request.
LEMMA ArriveStep ==
    ASSUME IInv, NEW t \in Tasks, Arrive(t)
    PROVE  IInv'
<1>1. PICK c \in Chats :
        \/ \E id \in TurnIds, text \in Requests, up \in SUBSET Files :
              ReceiveMessage(t, c, id, text, up) \/ ReceiveEdit(t, c, id, text, up)
        \/ ReceiveDelete(t, c)
  BY DEF Arrive
<1>2. CASE \E id \in TurnIds, text \in Requests, up \in SUBSET Files :
             ReceiveMessage(t, c, id, text, up) \/ ReceiveEdit(t, c, id, text, up)
  <2>1. PICK id \in TurnIds, text \in Requests, up \in SUBSET Files,
             kind \in {"message", "edit"} :
          /\ pc[t] = "idle"
          /\ job' = [job EXCEPT ![t] = NewJob(c, kind, id, text, up)]
          /\ Goto(t, "queued")
          /\ UNCHANGED <<flags, history, agentState, sandbox>>
    BY <1>2 DEF ReceiveMessage, ReceiveEdit
  <2>2. NewJob(c, kind, id, text, up) \in TurnJob
    BY EmptySeq DEF NewJob, TurnJob
  <2>3. /\ NewJob(c, kind, id, text, up).at = 0
        /\ ~NewJob(c, kind, id, text, up).replaced
    BY DEF NewJob
  <2>4. marked' \subseteq Chats /\ deleting' = deleting
    BY <2>1 DEF IInv, TypeOK, flags
  <2> QED
    BY <2>1, <2>2, <2>3, <2>4, ReceiveStep
<1>3. CASE ReceiveDelete(t, c)
  <2>1. [chat |-> c, kind |-> "delete"] \in DeleteJob
    BY DEF DeleteJob
  <2>2. marked' \subseteq Chats
    BY <1>3 DEF ReceiveDelete, IInv, TypeOK
  <2> QED
    BY <1>3, <2>1, <2>2, ReceiveStep DEF ReceiveDelete
<1> QED
  BY <1>1, <1>2, <1>3

\* A handler takes the Chat's lock in app.py.
LEMMA AdmitStep ==
    ASSUME IInv, NEW t \in Tasks, Admit(t)
    PROVE  IInv'
<1> USE PcFacts DEF IInv
<1>1. job[t] \in TurnJob /\ job[t].chat \in Chats
  BY DEF Served, Admit, DeleteJob, TurnJob
<1>2. TypeOK'
  BY <1>1 DEF TypeOK, Admit, Pcs, agentState, sandbox, flags
<1>3. Served'
  BY <1>1 DEF TypeOK, Served, Admit
<1>4. LocksHeld'
  BY <1>1, SentinelAssumption DEF TypeOK, LocksHeld, Admit
<1>5. Targets'
  BY <1>1 DEF TypeOK, EditPcs, Targets, Target, Admit, Accepted, TurnPcs
<1>6. Quiet'
  BY DEF TypeOK, Quiet, Admit, sandbox
<1> QED
  BY <1>2, <1>3, <1>4, <1>5, <1>6

\* cleanup_chat takes that lock and closes the Chat to new Turns.
LEMMA AdmitDeleteStep ==
    ASSUME IInv, NEW t \in Tasks, AdmitDelete(t)
    PROVE  IInv'
<1> USE PcFacts DEF IInv
<1>1. job[t] \in DeleteJob /\ job[t].chat \in Chats
  BY DEF Served, AdmitDelete, DeleteJob, TurnJob
<1>2. TypeOK'
  BY <1>1 DEF TypeOK, AdmitDelete, Pcs, agentState, sandbox
<1>3. Served'
  BY <1>1 DEF TypeOK, Served, AdmitDelete
<1>4. LocksHeld'
  BY <1>1, SentinelAssumption DEF TypeOK, LocksHeld, AdmitDelete
<1>5. Targets'
  BY <1>1 DEF TypeOK, EditPcs, Targets, Target, AdmitDelete, TurnPcs, DeleteJob
<1>6. Quiet'
  BY DEF TypeOK, Quiet, AdmitDelete, sandbox
<1> QED
  BY <1>2, <1>3, <1>4, <1>5, <1>6

\* SandboxFiles.upload adds one document.
LEMMA UploadStep ==
    ASSUME IInv, NEW t \in Tasks, NEW f \in Files, Upload(t, f)
    PROVE  IInv'
<1> USE PcFacts DEF IInv
<1>1. pc[t] \in TurnPcs \cup {"admitted"}
  BY DEF Upload, Uploading, TurnPcs
<1>2. job[t] \in TurnJob /\ job[t].chat \in Chats
  BY <1>1 DEF Served, TurnJob
<1> DEFINE j == [job[t] EXCEPT !.pending = @ \ {f}]
<1>3. /\ j \in TurnJob /\ j.chat = job[t].chat /\ j.kind = job[t].kind
      /\ j.id = job[t].id /\ j.at = job[t].at /\ j.replaced = job[t].replaced
  BY <1>2 DEF TurnJob
<1>4. job' = [job EXCEPT ![t] = j] /\ pc' = pc /\ history' = history
  BY DEF Upload
<1> HIDE DEF j
<1>5. TypeOK'
  BY <1>2, <1>3, <1>4 DEF TypeOK, Upload, agentState, flags
<1>6. Served'
  BY <1>1, <1>3, <1>4 DEF TypeOK, Served
<1>7. LocksHeld'
  BY <1>3, <1>4 DEF TypeOK, LocksHeld, Upload
<1>8. Targets'
  BY <1>3, <1>4 DEF TypeOK, Targets, Target
<1>9. Quiet'
  BY <1>3, <1>4 DEF TypeOK, Quiet, Upload
<1> QED
  BY <1>5, <1>6, <1>7, <1>8, <1>9

\* _enter_chat gives both locks of the runtime to one task.
LEMMA EnterStep ==
    ASSUME IInv, NEW t \in Tasks, EnterChat(t)
    PROVE  IInv'
<1> USE PcFacts DEF IInv
<1> DEFINE c == job[t].chat
           j == [job[t] EXCEPT !.context = Messages(c)]
<1>1. pc[t] = "admitted" /\ job[t] \in TurnJob /\ c \in Chats
  BY DEF EnterChat, Ready, Served, TurnJob
<1>2. Messages(c) \in Seq(Requests) /\ <<Messages(c)>> \in Seq(Seq(Requests))
  <2>1. Messages(c) \in Seq(Requests)
    BY <1>1, MessagesIsSeq
  <2> QED
    BY <2>1
<1>3. /\ j \in TurnJob /\ j.chat = c /\ j.kind = job[t].kind
      /\ j.id = job[t].id /\ j.at = job[t].at /\ j.replaced = job[t].replaced
  BY <1>1, <1>2 DEF TurnJob
<1>4. /\ job' = [job EXCEPT ![t] = j] /\ history' = history /\ restoring' = restoring
      /\ pc' = [pc EXCEPT ![t] = "snapshot"]
      /\ memory' = [memory EXCEPT ![c] = <<Messages(c)>>]
      /\ turnLock = NoTask /\ chatLock[c] = NoTask /\ turnLock' = t
      /\ chatLock' = [chatLock EXCEPT ![c] = t] /\ appLock' = appLock
      /\ UNCHANGED <<marked, deleting, memSnaps, files, fileSnaps>>
  BY DEF EnterChat, MayEnter, sandbox, flags
<1>5. "snapshot" \in TurnPcs \cap Pcs
  BY DEF TurnPcs, Pcs
<1> HIDE DEF j
<1>6. TypeOK'
  <2>1. job' \in [Tasks -> {NoJob} \cup DeleteJob \cup TurnJob]
    BY <1>3, <1>4 DEF TypeOK
  <2>2. memory' \in [Chats -> Seq(Seq(Requests))]
    BY <1>1, <1>2, <1>4 DEF TypeOK
  <2> QED
    BY <1>1, <1>4, <1>5, <2>1, <2>2 DEF TypeOK
<1>7. Served'
  BY <1>3, <1>4, <1>5 DEF TypeOK, Served
<1>8. LocksHeld'
  BY <1>1, <1>3, <1>4, <1>5, SentinelAssumption DEF TypeOK, LocksHeld
<1>9. Targets'
  BY <1>1, <1>3, <1>4 DEF TypeOK, EditPcs, Targets, Target
<1>10. Quiet'
  BY <1>3, <1>4 DEF TypeOK, Quiet
<1> QED
  BY <1>6, <1>7, <1>8, <1>9, <1>10

\* A Turn that is in a history has a position in it.
LEMMA PositionFound ==
    ASSUME NEW h \in Seq(Turn), NEW id \in Ids(h)
    PROVE  /\ Position(h, id) \in 1 .. Len(h)
           /\ h[Position(h, id)].id = id
BY LenProperties DEF Position, Ids

\* The request and the place of one task change, inside its transaction.
LEMMA JobStep ==
    ASSUME IInv, NEW t \in Tasks, NEW j \in TurnJob, NEW next \in TurnPcs,
           pc[t] \in TurnPcs, next # "snapshot",
           next \in EditPcs => job[t].kind = "edit",
           job' = [job EXCEPT ![t] = j], pc' = [pc EXCEPT ![t] = next],
           j.chat = job[t].chat, j.kind = job[t].kind,
           j.kind = "message" => j.at = 0 /\ ~j.replaced,
           j.kind = "edit" /\ next # "restoring" =>
             j.at \in 1 .. Len(history'[job[t].chat]),
           next \notin {"rewinding", "restoring"} => restoring[job[t].chat] = None,
           UNCHANGED <<appLock, turnLock, chatLock, flags, memSnaps, fileSnaps,
                       restoring>>,
           history' \in [Chats -> Seq(Turn)],
           \A c \in Chats : c # job[t].chat => history'[c] = history[c],
           memory' \in [Chats -> Seq(Seq(Requests))],
           files' \in [Chats -> SUBSET Files]
    PROVE  IInv'
<1> USE PcFacts DEF IInv
<1>1. TypeOK'
  BY DEF TypeOK, flags, Pcs, ActivePcs
<1>2. Served'
  BY DEF TypeOK, Served
<1>3. LocksHeld'
  BY DEF TypeOK, LocksHeld
<1>4. Targets'
  <2> SUFFICES ASSUME NEW u \in Tasks PROVE Target(u)'
    BY DEF Targets
  <2>1. CASE u = t
    BY <2>1 DEF TypeOK, Target
  <2>2. CASE u # t
    <3>1. pc'[u] = pc[u] /\ job'[u] = job[u]
      BY <2>2 DEF TypeOK
    <3>2. pc[u] \in ActivePcs =>
            job[u].chat \in Chats /\ history'[job[u].chat] = history[job[u].chat]
      BY <2>2, Apart
    <3> QED
      BY <3>1, <3>2 DEF Targets, Target, TurnPcs
  <2> QED
    BY <2>1, <2>2
<1>5. Quiet'
  BY DEF TypeOK, Quiet
<1> QED
  BY <1>1, <1>2, <1>3, <1>4, <1>5

\* The rollback snapshot exists; a Revision keeps its continuation.
LEMMA SnapshotStep ==
    ASSUME IInv, NEW t \in Tasks, TakeSnapshot(t)
    PROVE  IInv'
<1> DEFINE c == job[t].chat
           h == history[c]
           k == Position(h, job[t].id)
<1>1. pc[t] = "snapshot" /\ pc[t] \in TurnPcs /\ job[t] \in TurnJob /\ c \in Chats
  BY DEF TakeSnapshot, IInv, Served, TurnJob, TurnPcs
<1>2. /\ h \in Seq(Turn) /\ files[c] \in SUBSET Files
      /\ restoring[c] = None
      /\ UNCHANGED <<appLock, turnLock, chatLock, flags, memSnaps, fileSnaps,
                     restoring>>
      /\ history' = history /\ history' \in [Chats -> Seq(Turn)]
      /\ memory' \in [Chats -> Seq(Seq(Requests))]
      /\ files' \in [Chats -> SUBSET Files]
  BY <1>1 DEF IInv, TypeOK, TakeSnapshot, Goto, agentState, sandbox
<1>3. CASE job[t].kind = "message"
  <2> DEFINE j == [job[t] EXCEPT !.kept = files[c]]
  <2>1. /\ j \in TurnJob /\ j.chat = c /\ j.kind = "message"
        /\ j.at = job[t].at /\ j.replaced = job[t].replaced
    BY <1>1, <1>2, <1>3 DEF TurnJob
  <2>2. job[t].at = 0 /\ ~job[t].replaced
    BY <1>1, <1>3 DEF IInv, Targets, Target
  <2>3. job' = [job EXCEPT ![t] = j] /\ pc' = [pc EXCEPT ![t] = "starting"]
    BY <1>3 DEF TakeSnapshot, Goto
  <2>4. "starting" \in TurnPcs \ EditPcs
    BY DEF TurnPcs, EditPcs
  <2> HIDE DEF j
  <2> QED
    BY <1>1, <1>2, <1>3, <2>1, <2>2, <2>3, <2>4, JobStep
<1>4. CASE job[t].kind = "edit"
  <2> DEFINE j == [job[t] EXCEPT !.kept = files[c], !.at = k,
                                 !.cont = SubSeq(h, k, Len(h))]
  <2>1. k \in 1 .. Len(h)
    BY <1>1, <1>2, <1>4, PositionFound DEF IInv, Targets, Target
  <2>2. SubSeq(h, k, Len(h)) \in Seq(Turn)
    <3>1. \A i \in k .. Len(h) : h[i] \in Turn
      BY <1>2, <2>1, ElementOfSeq, LenProperties
    <3> QED
      BY <1>2, <2>1, <3>1, SubSeqProperties, LenProperties
  <2>3. k \in Nat
    BY <1>2, <2>1, LenProperties
  <2>4. j \in TurnJob /\ j.chat = c /\ j.kind = "edit" /\ j.at = k
    <3> HIDE DEF k, h
    <3> QED
      BY <1>1, <1>2, <1>4, <2>2, <2>3 DEF TurnJob
  <2>5. job' = [job EXCEPT ![t] = j] /\ pc' = [pc EXCEPT ![t] = "ready"]
    BY <1>4 DEF TakeSnapshot, Goto
  <2>6. "ready" \in TurnPcs
    BY DEF TurnPcs
  <2>7. j.at \in 1 .. Len(history'[job[t].chat])
    BY <1>2, <2>1, <2>4
  <2> HIDE DEF j, k, h
  <2> QED
    BY <1>1, <1>2, <1>4, <2>4, <2>5, <2>6, <2>7, JobStep
<1> QED
  BY <1>1, <1>3, <1>4 DEF TurnJob
-----------------------------------------------------------------------------
\* The handler's locals are typed: the pieces a Turn is made of.
LEMMA TurnLocals ==
    ASSUME IInv, NEW t \in Tasks, pc[t] \in TurnPcs
    PROVE  /\ job[t] \in TurnJob /\ job[t].chat \in Chats
           /\ job[t].kind \in {"message", "edit"}
           /\ job[t].text \in Requests /\ job[t].id \in TurnIds
           /\ job[t].context \in Seq(Requests) /\ job[t].loaded \in Seq(Requests)
           /\ job[t].kept \in SUBSET Files /\ job[t].pending \in SUBSET Files
           /\ job[t].cont \in Seq(Turn) /\ job[t].at \in Nat
           /\ history[job[t].chat] \in Seq(Turn)
           /\ files[job[t].chat] \in SUBSET Files
           /\ job[t].kind = "message" => job[t].at = 0 /\ ~job[t].replaced
<1>1. job[t] \in TurnJob
  BY DEF IInv, Served
<1>2. job[t].chat \in Chats
  BY <1>1 DEF TurnJob
<1>3. pc[t] # "idle"
  BY DEF TurnPcs
<1> QED
  BY <1>1, <1>2, <1>3 DEF TurnJob, IInv, TypeOK, Targets, Target

\* The context that Agent.run stores is a sequence of requests.
LEMMA AnswerIsSeq ==
    ASSUME IInv, NEW t \in Tasks, Answered(t)
    PROVE  memory' \in [Chats -> Seq(Seq(Requests))]
<1>1. pc[t] \in TurnPcs
  BY DEF Answered, TurnPcs
<1>2. Append(job[t].loaded, job[t].text) \in Seq(Requests)
  BY <1>1, TurnLocals, AppendProperties
<1>3. <<Append(job[t].loaded, job[t].text)>> \in Seq(Seq(Requests))
  BY <1>2
<1> QED
  BY <1>3 DEF Answered, IInv, TypeOK

\* submit appends a well-formed row.
LEMMA NewTurnIsTurn ==
    ASSUME IInv, NEW t \in Tasks, pc[t] \in TurnPcs
    PROVE  NewTurn(t) \in Turn
<1>1. [chat |-> job[t].chat, texts |-> job[t].context] \in MemSnap
  BY TurnLocals DEF MemSnap
<1> QED
  BY <1>1, TurnLocals DEF NewTurn, Turn
-----------------------------------------------------------------------------
\* The steps that end a handler.
LEMMA EndStep ==
    ASSUME IInv, NEW t \in Tasks,
           \/ Drop(t) \/ Refuse(t) \/ CommitTurn(t) \/ CommitRevision(t)
           \/ RolledBack(t) \/ CancelEarly(t) \/ CancelRollback(t)
           \/ DeleteFilesFails(t) \/ DeleteHistory(t)
           \/ (UploadRejected(t) /\ pc[t] # "attaching")
    PROVE  IInv'
<1>1. CASE Drop(t) \/ Refuse(t) \/ CommitRevision(t) \/ RolledBack(t)
           \/ CancelRollback(t) \/ (UploadRejected(t) /\ pc[t] # "attaching")
  <2>1. /\ Leave(t) /\ pc[t] # "idle"
        /\ UNCHANGED <<flags, history, agentState, sandbox>>
    BY <1>1 DEF Drop, Refuse, Ready, CommitRevision, RolledBack, CancelRollback,
                UploadRejected, Uploading
  <2> QED
    BY <2>1, LeaveStep DEF IInv, TypeOK, flags, agentState, sandbox
<1>2. CASE CommitTurn(t)
  <2>1. pc[t] = "running" /\ pc[t] \in TurnPcs /\ pc[t] # "idle"
    BY <1>2 DEF CommitTurn, Answered, TurnPcs
  <2>2. Append(history[job[t].chat], NewTurn(t)) \in Seq(Turn)
    BY <2>1, NewTurnIsTurn, TurnLocals, AppendProperties
  <2>3. /\ Leave(t)
        /\ history' = [history EXCEPT ![job[t].chat] =
                          Append(history[job[t].chat], NewTurn(t))]
        /\ UNCHANGED <<flags, memSnaps, sandbox>>
    BY <1>2 DEF CommitTurn
  <2>4. /\ history' \in [Chats -> Seq(Turn)]
        /\ \A c \in Chats : c # job[t].chat => history'[c] = history[c]
    BY <2>2, <2>3 DEF IInv, TypeOK
  <2>5. \A c \in Chats : appLock[c] # t => history'[c] = history[c]
    BY <2>1, <2>4, Holds, PcFacts
  <2>6. memory' \in [Chats -> Seq(Seq(Requests))]
    BY <1>2, AnswerIsSeq DEF CommitTurn
  <2> QED
    BY <2>1, <2>3, <2>4, <2>5, <2>6, LeaveStep DEF IInv, TypeOK, flags, sandbox
<1>3. CASE CancelEarly(t)
  <2>1. /\ Leave(t) /\ pc[t] # "idle" /\ pc[t] \in {"queued", "admitted", "snapshot"}
        /\ UNCHANGED <<flags, history, agentState, fileSnaps, restoring>>
    BY <1>3 DEF CancelEarly, Cancellable
  <2>2. files' \in [Chats -> SUBSET Files]
    <3>1. CASE UNCHANGED files
      BY <3>1 DEF IInv, TypeOK
    <3>2. CASE ~ UNCHANGED files
      <4>1. /\ pc[t] = "admitted"
            /\ \E f \in job[t].pending :
                 files' = [files EXCEPT ![job[t].chat] = @ \cup {f}]
        BY <1>3, <3>2 DEF CancelEarly, Uploading
      <4>2. job[t].pending \in SUBSET Files
        BY <4>1 DEF IInv, Served, TurnJob
      <4>3. PICK f \in Files :
              files' = [files EXCEPT ![job[t].chat] = files[job[t].chat] \cup {f}]
        BY <4>1, <4>2
      <4> QED
        BY <4>3 DEF IInv, TypeOK
    <3> QED
      BY <3>1, <3>2
  <2> QED
    BY <2>1, <2>2, LeaveStep DEF IInv, TypeOK, flags, agentState
<1>4. CASE DeleteFilesFails(t)
  <2>1. /\ Leave(t) /\ pc[t] # "idle"
        /\ UNCHANGED <<flags, history, agentState, restoring>>
        /\ \E left \in SUBSET files[job[t].chat] :
              files' = [files EXCEPT ![job[t].chat] = left]
        /\ fileSnaps' \subseteq Chats
    BY <1>4 DEF DeleteFilesFails, IInv, TypeOK
  <2>2. files' \in [Chats -> SUBSET Files]
    BY <2>1 DEF IInv, TypeOK
  <2> QED
    BY <2>1, <2>2, LeaveStep DEF IInv, TypeOK, flags, agentState
<1>5. CASE DeleteHistory(t)
  <2>1. /\ Leave(t) /\ pc[t] # "idle" /\ pc[t] \in ActivePcs
        /\ history' = [history EXCEPT ![job[t].chat] = <<>>]
        /\ UNCHANGED <<flags, agentState, sandbox>>
    BY <1>5 DEF DeleteHistory, ActivePcs, Pcs, DeletePcs
  <2>2. /\ history' \in [Chats -> Seq(Turn)]
        /\ \A c \in Chats : c # job[t].chat => history'[c] = history[c]
    BY <2>1, EmptySeq DEF IInv, TypeOK
  <2>3. \A c \in Chats : appLock[c] # t => history'[c] = history[c]
    BY <2>1, <2>2, Holds
  <2> QED
    BY <2>1, <2>2, <2>3, LeaveStep DEF IInv, TypeOK, flags, agentState, sandbox
<1> QED
  BY <1>1, <1>2, <1>3, <1>4, <1>5

\* The steps that move on with the same locals.
LEMMA MoveOnStep ==
    ASSUME IInv, NEW t \in Tasks,
           \/ RewindImpossible(t) \/ Rewound(t) \/ Attached(t) \/ RunFails(t)
           \/ HistoryFails(t) \/ ViewFails(t)
           \/ (UploadRejected(t) /\ pc[t] = "attaching")
    PROVE  IInv'
<1>1. /\ pc[t] \in TurnPcs \ {"snapshot", "restoring"}
      /\ restoring[job[t].chat] = None
      /\ UNCHANGED <<job, flags, history, memSnaps, sandbox>>
      /\ memory' \in [Chats -> Seq(Seq(Requests))]
      /\ \E next \in {"rollback", "attaching", "starting"} :
           Goto(t, next) /\ (next = "attaching" => pc[t] = "rewinding")
  BY AnswerIsSeq DEF IInv, TypeOK, Quiet, RewindImpossible, Rewound, Attached, RunFails,
         HistoryFails, Answered, ViewFails, UploadRejected, TurnPcs, agentState
<1>2. PICK next \in {"rollback", "attaching", "starting"} :
        Goto(t, next) /\ (next = "attaching" => pc[t] = "rewinding")
  BY <1>1
<1>3. /\ next \in TurnPcs /\ next # "snapshot"
      /\ next \in EditPcs => job[t].kind = "edit"
  BY <1>2 DEF TurnPcs, EditPcs, IInv, Targets, Target
<1>4. files' \in [Chats -> SUBSET Files] /\ UNCHANGED <<fileSnaps, restoring>>
  BY <1>1 DEF sandbox, IInv, TypeOK
<1> QED
  BY <1>1, <1>2, <1>3, <1>4, MoveOn DEF Goto

\* Agent.run reads the context.
LEMMA StartRunStep ==
    ASSUME IInv, NEW t \in Tasks, StartRun(t)
    PROVE  IInv'
<1> DEFINE c == job[t].chat
           j == [job[t] EXCEPT !.loaded = Messages(c)]
<1>1. pc[t] = "starting" /\ pc[t] \in TurnPcs /\ "running" \in TurnPcs \ EditPcs
  BY DEF StartRun, TurnPcs, EditPcs
<1>2. /\ job[t] \in TurnJob /\ c \in Chats
      /\ job[t].kind = "message" => job[t].at = 0 /\ ~job[t].replaced
  BY <1>1, TurnLocals
<1>3. Messages(c) \in Seq(Requests)
  BY <1>2, MessagesIsSeq DEF IInv
<1>4. /\ j \in TurnJob /\ j.chat = c /\ j.kind = job[t].kind
      /\ j.at = job[t].at /\ j.replaced = job[t].replaced
  BY <1>2, <1>3 DEF TurnJob
<1>5. /\ job' = [job EXCEPT ![t] = j] /\ pc' = [pc EXCEPT ![t] = "running"]
      /\ history' = history
      /\ UNCHANGED <<appLock, turnLock, chatLock, flags, memSnaps, files,
                     fileSnaps, restoring>>
      /\ memory' = [memory EXCEPT ![c] = <<Messages(c)>>]
  BY DEF StartRun, Goto, sandbox
<1>6. memory' \in [Chats -> Seq(Seq(Requests))]
  <2>1. <<Messages(c)>> \in Seq(Seq(Requests))
    BY <1>3
  <2> QED
    BY <1>5, <2>1 DEF IInv, TypeOK
<1>7. restoring[c] = None /\ (job[t].kind = "edit" => job[t].at \in 1 .. Len(history[c]))
  BY <1>1 DEF IInv, Quiet, Targets, Target
<1>8. history' \in [Chats -> Seq(Turn)] /\ files' \in [Chats -> SUBSET Files]
  BY <1>5 DEF IInv, TypeOK
<1> HIDE DEF j
<1> QED
  BY <1>1, <1>2, <1>4, <1>5, <1>6, <1>7, <1>8, JobStep

\* A Revision replaces the history from the edited Turn on.
LEMMA ReplaceStep ==
    ASSUME IInv, NEW t \in Tasks, ReplaceTurns(t)
    PROVE  IInv'
<1> DEFINE c == job[t].chat
           k == job[t].at
           h == history[c]
           turn == [h[k] EXCEPT !.text = job[t].text]
           new == Append(Before(h, k), turn)
           j == [job[t] EXCEPT !.replaced = TRUE]
<1>1. pc[t] = "running" /\ pc[t] \in TurnPcs /\ "view" \in TurnPcs
  BY DEF ReplaceTurns, Answered, TurnPcs
<1>2. job[t] \in TurnJob /\ c \in Chats /\ h \in Seq(Turn) /\ job[t].kind = "edit"
  BY <1>1, TurnLocals DEF ReplaceTurns
<1>3. k \in 1 .. Len(h) /\ restoring[c] = None /\ k \in Nat /\ k > 0
  BY <1>1, <1>2, LenProperties DEF IInv, Quiet, Targets, Target
<1>4. turn \in Turn
  <2>1. h[k] \in Turn /\ job[t].text \in Requests
    BY <1>1, <1>2, <1>3, ElementOfSeq, TurnLocals
  <2> QED
    BY <2>1 DEF Turn
<1>5. Before(h, k) \in Seq(Turn) /\ Len(Before(h, k)) = k - 1
  BY <1>2, <1>3, BeforeIsSeq
<1>6. new \in Seq(Turn) /\ Len(new) = k
  <2> HIDE DEF turn, k, h
  <2> QED
    BY <1>3, <1>4, <1>5, AppendProperties
<1>7. /\ j \in TurnJob /\ j.chat = c /\ j.kind = "edit" /\ j.at = k
  BY <1>2 DEF TurnJob
<1>8. /\ job' = [job EXCEPT ![t] = j] /\ pc' = [pc EXCEPT ![t] = "view"]
      /\ history' = [history EXCEPT ![c] = new]
      /\ UNCHANGED <<appLock, turnLock, chatLock, flags, memSnaps, files,
                     fileSnaps, restoring>>
  BY DEF ReplaceTurns, Goto, sandbox
<1>9. memory' \in [Chats -> Seq(Seq(Requests))] /\ files' \in [Chats -> SUBSET Files]
  BY <1>8, AnswerIsSeq DEF ReplaceTurns, IInv, TypeOK
<1> HIDE DEF new, j
<1>10. /\ history' \in [Chats -> Seq(Turn)] /\ history'[c] = new
       /\ \A d \in Chats : d # c => history'[d] = history[d]
  BY <1>2, <1>6, <1>8 DEF IInv, TypeOK
<1>11. j.at \in 1 .. Len(history'[c])
  BY <1>3, <1>6, <1>7, <1>10
<1> HIDE DEF k, h
<1> QED
  BY <1>1, <1>2, <1>3, <1>7, <1>8, <1>9, <1>10, <1>11, JobStep

\* Stop inside the transaction leads to its rollback.
LEMMA CancelTurnStep ==
    ASSUME IInv, NEW t \in Tasks, CancelTurn(t)
    PROVE  IInv'
<1> DEFINE c == job[t].chat
           j == [job[t] EXCEPT !.cancelled = TRUE]
           next == IF pc[t] = "rewinding" THEN "rewinding" ELSE "rollback"
<1>1. pc[t] \in TurnPcs \ {"snapshot", "restoring"} /\ next \in TurnPcs
  BY DEF CancelTurn, TurnPcs
<1>2. /\ job[t] \in TurnJob /\ c \in Chats /\ job[t].pending \in SUBSET Files
      /\ job[t].kind = "message" => job[t].at = 0 /\ ~job[t].replaced
  BY <1>1, TurnLocals
<1>3. /\ j \in TurnJob /\ j.chat = c /\ j.kind = job[t].kind
      /\ j.at = job[t].at /\ j.replaced = job[t].replaced
  BY <1>2 DEF TurnJob
<1>4. /\ job' = [job EXCEPT ![t] = j] /\ pc' = [pc EXCEPT ![t] = next]
      /\ history' = history /\ memory' = memory
      /\ UNCHANGED <<appLock, turnLock, chatLock, flags, memSnaps, fileSnaps,
                     restoring>>
  BY DEF CancelTurn, Goto, agentState
<1>5. files' \in [Chats -> SUBSET Files]
  <2>1. CASE UNCHANGED files
    BY <2>1 DEF IInv, TypeOK
  <2>2. CASE ~ UNCHANGED files
    <3>1. PICK f \in Files : files' = [files EXCEPT ![c] = files[c] \cup {f}]
      BY <1>2, <2>2 DEF CancelTurn
    <3> QED
      BY <3>1 DEF IInv, TypeOK
  <2> QED
    BY <2>1, <2>2
<1>6. next \notin {"rewinding", "restoring"} => restoring[c] = None
  BY <1>1 DEF IInv, Quiet, CancelTurn
<1>7. job[t].kind = "edit" => job[t].at \in 1 .. Len(history[c])
  BY <1>1 DEF IInv, Targets, Target
<1>8. history' \in [Chats -> Seq(Turn)] /\ memory' \in [Chats -> Seq(Seq(Requests))]
  BY <1>4 DEF IInv, TypeOK
<1>9. next # "snapshot" /\ (next \in EditPcs => job[t].kind = "edit")
  BY DEF EditPcs, IInv, Targets, Target
<1> HIDE DEF j, next
<1> QED
  BY <1>1, <1>2, <1>3, <1>4, <1>5, <1>6, <1>7, <1>8, <1>9, JobStep
-----------------------------------------------------------------------------
\* A transaction hands its files to a worker thread.
LEMMA HandOver ==
    ASSUME IInv, NEW t \in Tasks, NEW next \in {"rewinding", "restoring"},
           NEW wanted \in SUBSET Files,
           pc[t] \in TurnPcs \ {"snapshot", "restoring"},
           next \in EditPcs => job[t].kind = "edit",
           pc' = [pc EXCEPT ![t] = next],
           restoring' = [restoring EXCEPT ![job[t].chat] = <<wanted>>],
           UNCHANGED <<job, appLock, turnLock, chatLock, flags, memSnaps, files,
                       fileSnaps>>,
           history' \in [Chats -> Seq(Turn)],
           next = "rewinding" => history' = history,
           \A c \in Chats : c # job[t].chat => history'[c] = history[c],
           memory' \in [Chats -> Seq(Seq(Requests))]
    PROVE  IInv'
<1> USE PcFacts DEF IInv
<1>1. next \in TurnPcs \cap Pcs
  BY DEF TurnPcs, Pcs
<1>2. TypeOK'
  <2>1. <<wanted>> \in Seq(SUBSET Files)
    OBVIOUS
  <2> QED
    BY <1>1, <2>1 DEF TypeOK, flags
<1>3. Served'
  BY <1>1 DEF TypeOK, Served
<1>4. LocksHeld'
  BY <1>1 DEF TypeOK, LocksHeld
<1>5. Targets'
  <2> SUFFICES ASSUME NEW u \in Tasks PROVE Target(u)'
    BY DEF Targets
  <2>1. CASE u = t
    <3>1. Target(t)
      BY DEF Targets
    <3>2. pc'[t] = next /\ pc[t] # "idle" /\ job' = job
      BY DEF TypeOK
    <3> QED
      BY <2>1, <3>1, <3>2 DEF Target
  <2>2. CASE u # t
    <3>1. pc'[u] = pc[u] /\ job'[u] = job[u]
      BY <2>2 DEF TypeOK
    <3>2. pc[u] \in ActivePcs =>
            job[u].chat \in Chats /\ history'[job[u].chat] = history[job[u].chat]
      BY <2>2, Apart
    <3> QED
      BY <3>1, <3>2 DEF Targets, Target, TurnPcs
  <2> QED
    BY <2>1, <2>2
<1>6. Quiet'
  <2> SUFFICES ASSUME NEW u \in Tasks,
                      pc'[u] \in TurnPcs \ {"snapshot", "rewinding", "restoring"}
               PROVE  restoring'[job'[u].chat] = None
    BY DEF Quiet
  <2>1. u # t /\ pc'[u] = pc[u] /\ job'[u] = job[u]
    BY DEF TypeOK
  <2>2. job[u].chat # job[t].chat /\ job[u].chat \in Chats
    BY <2>1, Apart
  <2> QED
    BY <2>1, <2>2 DEF Quiet, TypeOK
<1> QED
  BY <1>2, <1>3, <1>4, <1>5, <1>6

\* What AgentExecution.restore stores is a sequence of requests.
LEMMA RestoredIsSeq ==
    ASSUME TypeOK, NEW c \in Chats, NEW k \in 1 .. Len(history[c])
    PROVE  /\ Restored(c, k, history[c][k].before) \in Seq(Requests)
           /\ history[c][k].given \in SUBSET Files
<1>1. history[c] \in Seq(Turn)
  BY DEF TypeOK
<1>2. history[c][k] \in Turn
  BY <1>1, ElementOfSeq
<1>3. k \in Nat /\ k \in 0 .. Len(history[c])
  BY <1>1, LenProperties
<1>4. Texts(Before(history[c], k)) \in Seq(Requests)
  <2>1. Before(history[c], k) \in Seq(Turn)
    BY <1>1, <1>3, BeforeIsSeq
  <2> QED
    BY <2>1, TextsIsSeq
<1>5. history[c][k].before # Legacy => history[c][k].before.texts \in Seq(Requests)
  BY <1>2 DEF Turn, MemSnap
<1> QED
  BY <1>2, <1>4, <1>5 DEF Restored, Turn

\* A Revision restores the context and the files of the edited Turn.
LEMMA RewindStep ==
    ASSUME IInv, NEW t \in Tasks, Rewind(t)
    PROVE  IInv'
<1> DEFINE c == job[t].chat
           texts == Restored(c, job[t].at, Edited(t).before)
<1>1. pc[t] = "ready" /\ pc[t] \in TurnPcs /\ pc[t] \in EditPcs
  BY DEF Rewind, TurnPcs, EditPcs
<1>2. c \in Chats /\ job[t].kind \in {"message", "edit"}
  BY <1>1, TurnLocals
<1>3. job[t].kind = "edit"
  BY <1>1 DEF IInv, Targets, Target, EditPcs
<1>4. job[t].at \in 1 .. Len(history[c])
  BY <1>1, <1>3 DEF IInv, Targets, Target
<1>5. texts \in Seq(Requests) /\ Edited(t).given \in SUBSET Files
  BY <1>2, <1>4, RestoredIsSeq DEF Edited, IInv
<1>6. memory' \in [Chats -> Seq(Seq(Requests))]
  <2>1. <<texts>> \in Seq(Seq(Requests))
    BY <1>5
  <2> QED
    BY <2>1 DEF Rewind, IInv, TypeOK
<1>7. /\ pc' = [pc EXCEPT ![t] = "rewinding"]
      /\ restoring' = [restoring EXCEPT ![c] = <<Edited(t).given>>]
      /\ UNCHANGED <<job, appLock, turnLock, chatLock, flags, memSnaps, files,
                     fileSnaps>>
      /\ history' = history
  BY DEF Rewind, Goto
<1>8. history' \in [Chats -> Seq(Turn)]
  BY <1>7 DEF IInv, TypeOK
<1> QED
  BY <1>1, <1>2, <1>3, <1>5, <1>6, <1>7, <1>8, HandOver

\* A rollback restores context, history and files.
LEMMA RollbackStep ==
    ASSUME IInv, NEW t \in Tasks, Rollback(t)
    PROVE  IInv'
<1> DEFINE c == job[t].chat
           k == job[t].at
           h == history[c]
           cont == job[t].cont
<1>1. pc[t] = "rollback" /\ pc[t] \in TurnPcs /\ "restoring" \notin EditPcs
  BY DEF Rollback, TurnPcs, EditPcs
<1>2. /\ c \in Chats /\ job[t].kind \in {"message", "edit"} /\ h \in Seq(Turn)
      /\ cont \in Seq(Turn) /\ k \in Nat /\ job[t].kept \in SUBSET Files
      /\ job[t].context \in Seq(Requests)
      /\ job[t].kind = "message" => ~job[t].replaced
  BY <1>1, TurnLocals
<1>3. memory' \in [Chats -> Seq(Seq(Requests))]
  <2>1. <<job[t].context>> \in Seq(Seq(Requests))
    BY <1>2
  <2>2. \/ memory' = [memory EXCEPT ![c] = <<job[t].context>>]
        \/ memory' = memory
    BY DEF Rollback
  <2> QED
    BY <2>1, <2>2 DEF IInv, TypeOK
<1>4. \/ history' = history
      \/ /\ job[t].replaced
         /\ history' = [history EXCEPT ![c] = Before(h, k) \o cont]
  BY DEF Rollback
<1>5. job[t].replaced => Before(h, k) \o cont \in Seq(Turn)
  <2> SUFFICES ASSUME job[t].replaced PROVE Before(h, k) \o cont \in Seq(Turn)
    OBVIOUS
  <2>1. k \in 0 .. Len(h)
    BY <1>1, <1>2, LenProperties DEF IInv, Targets, Target
  <2>2. Before(h, k) \in Seq(Turn)
    BY <1>2, <2>1, BeforeIsSeq
  <2> QED
    BY <1>2, <2>2, ConcatProperties
<1>6. /\ history' \in [Chats -> Seq(Turn)]
      /\ \A d \in Chats : d # c => history'[d] = history[d]
  BY <1>4, <1>5 DEF IInv, TypeOK
<1>7. /\ pc' = [pc EXCEPT ![t] = "restoring"]
      /\ restoring' = [restoring EXCEPT ![c] = <<job[t].kept>>]
      /\ UNCHANGED <<job, appLock, turnLock, chatLock, flags, memSnaps, files,
                     fileSnaps>>
  BY DEF Rollback, Goto
<1> HIDE DEF k, h, cont
<1> QED
  BY <1>1, <1>2, <1>3, <1>6, <1>7, HandOver
-----------------------------------------------------------------------------
\* The deletion's own steps leave Turns of other Chats alone.
LEMMA DeleteContextStep ==
    ASSUME IInv, NEW t \in Tasks, DeleteContext(t)
    PROVE  IInv'
<1> USE PcFacts DEF IInv
<1>1. pc[t] = "closing" /\ job[t] \in DeleteJob /\ job[t].chat \in Chats
  BY DEF DeleteContext, Served, DeleteJob
<1>2. "removeFiles" \in DeletePcs \cap Pcs /\ "removeFiles" \notin {"idle", "queued"}
  BY DEF DeletePcs, Pcs
<1>3. TypeOK'
  <2>1. None \in Seq(Seq(Requests))
    BY DEF None
  <2> QED
    BY <1>1, <1>2, <2>1 DEF TypeOK, DeleteContext, flags, sandbox
<1>4. Served'
  BY <1>1, <1>2 DEF TypeOK, Served, DeleteContext
<1>5. LocksHeld'
  BY <1>1, <1>2, SentinelAssumption DEF TypeOK, LocksHeld, DeleteContext
<1>6. Targets'
  BY <1>1, <1>2 DEF TypeOK, EditPcs, Targets, Target, DeleteContext, DeleteJob
<1>7. Quiet'
  BY <1>2 DEF TypeOK, Quiet, DeleteContext, sandbox
<1> QED
  BY <1>3, <1>4, <1>5, <1>6, <1>7

\* SandboxFiles.delete_chat succeeds.
LEMMA DeleteFilesStep ==
    ASSUME IInv, NEW t \in Tasks, DeleteFiles(t)
    PROVE  IInv'
<1> USE PcFacts DEF IInv
<1>1. pc[t] = "removeFiles" /\ "removeFiles" \in DeletePcs
  BY DEF DeleteFiles, DeletePcs
<1>2. "removeHistory" \in DeletePcs \cap Pcs
  BY DEF DeletePcs, Pcs
<1>3. job[t] \in DeleteJob
  BY <1>1 DEF Served
<1>4. TypeOK'
  BY <1>2 DEF TypeOK, DeleteFiles, Goto, flags, agentState
<1>5. Served'
  BY <1>2, <1>3 DEF TypeOK, Served, DeleteFiles, Goto
<1>6. LocksHeld'
  BY <1>1, <1>2 DEF TypeOK, LocksHeld, DeleteFiles, Goto
<1>7. Targets'
  BY <1>2, <1>3 DEF TypeOK, EditPcs, Targets, Target, DeleteFiles, Goto, DeleteJob
<1>8. Quiet'
  BY <1>2 DEF TypeOK, Quiet, DeleteFiles, Goto
<1> QED
  BY <1>4, <1>5, <1>6, <1>7, <1>8

\* A worker thread finishes a restoration of files, or fails.
LEMMA WorkerStep ==
    ASSUME IInv, NEW c \in Chats, Worker(c)
    PROVE  IInv'
<1> USE PcFacts DEF IInv
<1>1. restoring' = [restoring EXCEPT ![c] = None] /\ restoring[c] # None
  BY DEF Worker, FilesRestored, FilesNotRestored
<1>2. None \in Seq(SUBSET Files)
  BY DEF None
<1>3. CASE FilesRestored(c)
  <2>1. Head(restoring[c]) \in SUBSET Files
    BY <1>1, HeadTailProperties DEF TypeOK, None
  <2>2. /\ UNCHANGED <<pc, job, appLock, turnLock, chatLock, flags, history,
                       agentState, fileSnaps>>
        /\ files' = [files EXCEPT ![c] = Head(restoring[c])]
    BY <1>3 DEF FilesRestored, control
  <2>3. TypeOK'
    BY <1>1, <1>2, <2>1, <2>2 DEF TypeOK, flags, agentState
  <2>4. Served' /\ LocksHeld' /\ Targets'
    BY <2>2 DEF Served, LocksHeld, Targets, Target
  <2>5. Quiet'
    BY <1>1, <2>2 DEF TypeOK, Quiet
  <2> QED
    BY <2>3, <2>4, <2>5
<1>4. CASE FilesNotRestored(c)
  <2>1. /\ UNCHANGED <<job, appLock, turnLock, chatLock, flags, history, agentState,
                       files, fileSnaps>>
        /\ pc' \in [Tasks -> Pcs]
        /\ \A t \in Tasks :
             \/ pc'[t] = pc[t]
             \/ /\ pc[t] = "rewinding" /\ pc'[t] = "rollback"
                /\ job[t].chat = c
    BY <1>4 DEF FilesNotRestored, TypeOK, Pcs, TurnPcs
  <2>2. {"rewinding", "rollback"} \subseteq TurnPcs
    BY DEF TurnPcs
  <2>3. TypeOK'
    BY <1>1, <1>2, <2>1 DEF TypeOK, flags, agentState
  <2>4. Served' /\ LocksHeld'
    BY <2>1, <2>2 DEF Served, LocksHeld
  <2>5. Targets'
    BY <2>1, <2>2 DEF Targets, Target, EditPcs
  <2>6. Quiet'
    BY <1>1, <2>1, <2>2 DEF TypeOK, Quiet
  <2> QED
    BY <2>3, <2>4, <2>5, <2>6
<1> QED
  BY <1>3, <1>4 DEF Worker
-----------------------------------------------------------------------------
\* The imported Turns form a history.
LEMMA ImportedIsSeq ==
    ASSUME NEW c \in Chats
    PROVE  [k \in DOMAIN Imported[c] |-> ImportedTurn(Imported[c][k])] \in Seq(Turn)
<1> DEFINE rows == Imported[c]
           new == [k \in DOMAIN rows |-> ImportedTurn(rows[k])]
<1>1. rows \in Seq([id : TurnIds, text : Requests])
  BY ImportedAssumption
<1>2. DOMAIN rows = 1 .. Len(rows) /\ Len(rows) \in Nat
  BY <1>1, LenProperties
<1>3. ASSUME NEW k \in 1 .. Len(rows) PROVE ImportedTurn(rows[k]) \in Turn
  <2>1. rows[k] \in [id : TurnIds, text : Requests]
    BY <1>1, ElementOfSeq
  <2> QED
    BY <2>1 DEF ImportedTurn, Turn
<1>4. new \in [1 .. Len(rows) -> Turn]
  <2> HIDE DEF rows
  <2> QED
    BY <1>2, <1>3
<1> QED
  BY <1>2, <1>4, SeqDef

\* The initial states satisfy the inductive invariant.
LEMMA InitIInv == Init => IInv
<1> SUFFICES ASSUME Init PROVE IInv
  OBVIOUS
<1>1. /\ pc = [t \in Tasks |-> "idle"] /\ job = [t \in Tasks |-> NoJob]
      /\ appLock = [c \in Chats |-> NoTask] /\ chatLock = [c \in Chats |-> NoTask]
      /\ turnLock = NoTask /\ restoring = [c \in Chats |-> None]
  BY DEF Init
<1>2. history \in [Chats -> Seq(Turn)]
  BY ImportedIsSeq DEF Init
<1>3. TypeOK
  <2>1. None \in Seq(Seq(Requests)) /\ None \in Seq(SUBSET Files)
    BY DEF None
  <2>2. /\ memory \in [Chats -> Seq(Seq(Requests))]
        /\ restoring \in [Chats -> Seq(SUBSET Files)]
    BY <2>1 DEF Init
  <2> QED
    BY <1>2, <2>2 DEF Init, TypeOK, Pcs
<1>4. Served
  BY <1>1 DEF Served, DeletePcs, TurnPcs
<1>5. LocksHeld
  BY <1>1, SentinelAssumption DEF LocksHeld, ActivePcs, DeletePcs, TurnPcs
<1>6. Targets
  BY <1>1 DEF Targets, Target, EditPcs, TurnPcs
<1>7. Quiet
  BY <1>1 DEF Quiet, TurnPcs
<1> QED
  BY <1>3, <1>4, <1>5, <1>6, <1>7 DEF IInv

\* Every step of a handler preserves the inductive invariant.
LEMMA ServeStep ==
    ASSUME IInv, NEW t \in Tasks, Serve(t)
    PROVE  IInv'
<1>1. CASE Admit(t) \/ AdmitDelete(t) \/ (\E f \in Files : Upload(t, f))
  BY <1>1, AdmitStep, AdmitDeleteStep, UploadStep
<1>2. CASE \/ Drop(t) \/ Refuse(t) \/ CommitTurn(t) \/ CommitRevision(t)
           \/ RolledBack(t) \/ DeleteFilesFails(t) \/ DeleteHistory(t)
  BY <1>2, EndStep
<1>3. CASE UploadRejected(t)
  BY <1>3, EndStep, MoveOnStep
<1>4. CASE \/ RewindImpossible(t) \/ Rewound(t) \/ Attached(t) \/ RunFails(t)
           \/ HistoryFails(t) \/ ViewFails(t)
  BY <1>4, MoveOnStep
<1>5. CASE EnterChat(t) \/ TakeSnapshot(t) \/ StartRun(t) \/ ReplaceTurns(t)
  BY <1>5, EnterStep, SnapshotStep, StartRunStep, ReplaceStep
<1>6. CASE Rewind(t) \/ Rollback(t) \/ DeleteContext(t) \/ DeleteFiles(t)
  BY <1>6, RewindStep, RollbackStep, DeleteContextStep, DeleteFilesStep
<1> QED
  BY <1>1, <1>2, <1>3, <1>4, <1>5, <1>6 DEF Serve

\* Every effect of Stop preserves the inductive invariant.
LEMMA StopStep ==
    ASSUME IInv, NEW t \in Tasks, Stop(t)
    PROVE  IInv'
<1>1. CASE CancelEarly(t) \/ CancelRollback(t)
  BY <1>1, EndStep
<1>2. CASE CancelTurn(t)
  BY <1>2, CancelTurnStep
<1> QED
  BY <1>1, <1>2 DEF Stop

\* The inductive invariant is inductive.
LEMMA NextIInv == IInv /\ [Next]_vars => IInv'
<1> SUFFICES ASSUME IInv, [Next]_vars PROVE IInv'
  OBVIOUS
<1>1. CASE UNCHANGED vars
  BY <1>1 DEF IInv, vars, control, flags, agentState, sandbox, TypeOK, Served,
              LocksHeld, Targets, Target, Quiet
<1>2. CASE \E t \in Tasks : Arrive(t) \/ Serve(t) \/ Stop(t)
  BY <1>2, ArriveStep, ServeStep, StopStep
<1>3. CASE \E c \in Chats : Worker(c)
  BY <1>3, WorkerStep
<1> QED
  BY <1>1, <1>2, <1>3 DEF Next

(***************************************************************************)
(* The invariant that makes exclusion inductive holds in every reachable   *)
(* state: a task in the transaction of runtime.py owns both of its locks,  *)
(* one that deletes owns the Chat's, a request's locals are those of its   *)
(* kind and phase, and no file restoration is in flight under an Agent.    *)
(***************************************************************************)
THEOREM Inductive == Spec => []IInv
BY InitIInv, NextIInv, PTL DEF Spec
-----------------------------------------------------------------------------
(***************************************************************************)
(* Every variable keeps its type: whatever is interleaved, stopped or      *)
(* deleted, a task is at one of its suspension points with the locals that *)
(* belong there, and history, context and files are well formed.           *)
(***************************************************************************)
THEOREM TypeCorrect == Spec => []TypeOK
<1>1. IInv => TypeOK
  BY DEF IInv
<1> QED
  BY <1>1, Inductive, PTL

\* Owning the two locks is what excludes other Turns.
LEMMA LocksExclude == IInv => Exclusion
<1> SUFFICES ASSUME IInv, NEW t \in Tasks, pc[t] \in TurnPcs
             PROVE  /\ \A u \in Tasks \ {t} :
                         /\ pc[u] \notin TurnPcs
                         /\ pc[u] \in DeletePcs => job[u].chat # job[t].chat
                    /\ pc[t] \notin {"snapshot", "rewinding", "restoring"} =>
                         restoring[job[t].chat] = None
  BY DEF Exclusion
<1>1. turnLock = t
  BY DEF IInv, LocksHeld
<1>2. \A u \in Tasks \ {t} : pc[u] \notin TurnPcs
  BY <1>1 DEF IInv, LocksHeld
<1>3. \A u \in Tasks \ {t} : pc[u] \in DeletePcs => job[u].chat # job[t].chat
  BY Apart, PcFacts
<1>4. pc[t] \notin {"snapshot", "rewinding", "restoring"} =>
        restoring[job[t].chat] = None
  BY DEF IInv, Quiet
<1> QED
  BY <1>2, <1>3, <1>4

(***************************************************************************)
(* Turns and Revisions never overlap, deletion never overlaps a Turn of    *)
(* its Chat, and the Agent never runs while a worker thread puts files     *)
(* back: the two locks of _enter_chat and the Sandbox lock are enough.     *)
(***************************************************************************)
THEOREM TurnsExclude == Spec => []Exclusion
BY LocksExclude, Inductive, PTL
=============================================================================
