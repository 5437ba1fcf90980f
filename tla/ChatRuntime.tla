---------------------------- MODULE ChatRuntime ----------------------------
(***************************************************************************)
(* The transaction a Turn is: runtime.ChatRuntime over the Agent's context *)
(* (AgentExecution, AgentMemory), the Sandbox files (SandboxFiles) and the *)
(* Turn history (SQLiteHistory), as app.py drives it for messages, edits,  *)
(* Stop and the deletion of a Chat.                                        *)
(*                                                                         *)
(* Everything runs on one asyncio event loop: a step of this module is the *)
(* code between two suspension points, or a file operation that a worker   *)
(* thread finishes.  The SQLite stores are called without suspending.      *)
(***************************************************************************)
EXTENDS Integers, Sequences

CONSTANTS
    Chats,          \* Chat (thread) identifiers
    Tasks,          \* asyncio tasks that serve a message, an edit or a delete
    TurnIds,        \* message identifiers; bounds the messages ever sent
    Requests,       \* request texts
    Files,          \* documents a message may attach
    Imported,       \* by Chat: Turns of a version without context snapshots
    FaultyFiles,    \* may restoring or removing the Sandbox files fail?
    NoTask,         \* the owner of a free lock
    NoJob,          \* a task that serves nothing
    Legacy          \* a memory checkpoint of version None, 2 or 3

ASSUME ImportedAssumption ==
    Imported \in [Chats -> Seq([id : TurnIds, text : Requests])]
ASSUME FaultAssumption == FaultyFiles \in BOOLEAN
ASSUME SentinelAssumption == NoTask \notin Tasks

VARIABLES
    pc,         \* by task: the suspension point it is at
    job,        \* by task: the request it serves and the locals of its transaction
    appLock,    \* by Chat: owner of app.chat_turn_locks
    turnLock,   \* owner of ChatRuntime._turn_lock
    chatLock,   \* by Chat: owner of ChatRuntime._locks
    marked,     \* app.deleting_chats and ChatBindings._deleting
    deleting,   \* ChatRuntime._deleting
    history,    \* by Chat: the rows of turns, in sequence order
    memory,     \* by Chat: its agent_context row, none or the sequence of the
                \* requests its messages come from
    memSnaps,   \* the Chats that still have their rows of agent_snapshots
    files,      \* by Chat: the documents in its files directory
    fileSnaps,  \* the Chats that still have their snapshots directory
    restoring   \* by Chat: none, or the documents a worker thread is putting
                \* back while it holds the Sandbox lock of the Chat

control == <<pc, job, appLock, turnLock, chatLock>>
flags == <<marked, deleting>>
agentState == <<memory, memSnaps>>
sandbox == <<files, fileSnaps, restoring>>
vars == <<control, flags, history, agentState, sandbox>>
-----------------------------------------------------------------------------
None == <<>>

\* A checkpoint is immutable, so a token stands for what it holds.
MemSnap == [chat : Chats, texts : Seq(Requests)]
Turn == [id : TurnIds, text : Requests, before : MemSnap \cup {Legacy},
         given : SUBSET Files]

TurnJob ==
    [chat : Chats, kind : {"message", "edit"}, id : TurnIds, text : Requests,
     uploads : SUBSET Files, pending : SUBSET Files,
     context : Seq(Requests),   \* what the rollback checkpoint holds
     kept : SUBSET Files,       \* what the rollback snapshot holds
     at : Nat,                  \* an edit: position of the edited Turn
     cont : Seq(Turn),          \* an edit: the continuation it replaces
     loaded : Seq(Requests),    \* the messages Agent.run read
     replaced : BOOLEAN,        \* history_replaced
     cancelled : BOOLEAN]       \* Task.cancelling()

DeleteJob == [chat : Chats, kind : {"delete"}]

\* In a Turn or Revision: the task holds both locks of the runtime.
TurnPcs == {"snapshot", "ready", "rewinding", "attaching", "starting",
            "running", "view", "rollback", "restoring"}
DeletePcs == {"removeFiles", "removeHistory"}
Pcs == TurnPcs \cup DeletePcs \cup {"idle", "queued", "admitted", "closing"}

TypeOK ==
    /\ pc \in [Tasks -> Pcs]
    /\ job \in [Tasks -> {NoJob} \cup DeleteJob \cup TurnJob]
    /\ appLock \in [Chats -> Tasks \cup {NoTask}]
    /\ turnLock \in Tasks \cup {NoTask}
    /\ chatLock \in [Chats -> Tasks \cup {NoTask}]
    /\ marked \subseteq Chats
    /\ deleting \subseteq Chats
    /\ history \in [Chats -> Seq(Turn)]
    /\ memory \in [Chats -> Seq(Seq(Requests))]
    /\ memSnaps \subseteq Chats
    /\ files \in [Chats -> SUBSET Files]
    /\ fileSnaps \subseteq Chats
    /\ restoring \in [Chats -> Seq(SUBSET Files)]
-----------------------------------------------------------------------------
Texts(h) == [k \in DOMAIN h |-> h[k].text]

Ids(h) == {h[k].id : k \in DOMAIN h}

Position(h, id) == CHOOSE k \in DOMAIN h : h[k].id = id

Before(h, k) == SubSeq(h, 1, k - 1)

\* The context an older version left: nothing is stored until the first use.
ImportedTurn(row) ==
    [id |-> row.id, text |-> row.text, before |-> Legacy, given |-> {}]

Init ==
    /\ pc = [t \in Tasks |-> "idle"]
    /\ job = [t \in Tasks |-> NoJob]
    /\ appLock = [c \in Chats |-> NoTask]
    /\ turnLock = NoTask
    /\ chatLock = [c \in Chats |-> NoTask]
    /\ marked = {}
    /\ deleting = {}
    /\ history = [c \in Chats |->
                    [k \in DOMAIN Imported[c] |-> ImportedTurn(Imported[c][k])]]
    /\ memory = [c \in Chats |-> None]
    /\ memSnaps = Chats
    /\ files = [c \in Chats |-> {}]
    /\ fileSnaps = Chats
    /\ restoring = [c \in Chats |-> None]

\* Fault: the stored row is used as it is.
Messages_Undecoded(c) == IF memory[c] = None THEN Texts(history[c]) ELSE memory[c]

\* AgentExecution._messages: the stored context, or else the visible history.
Messages(c) == IF memory[c] = None THEN Texts(history[c]) ELSE Head(memory[c])

\* AgentExecution.restore can find the checkpoint of the Turn, and may use it.
CanRestore(c, before) ==
    /\ c \notin marked
    /\ before # Legacy => before.chat = c /\ c \in memSnaps

\* Fault: the prefix ends with the edited Turn.
Restored_Inclusive(c, k, before) ==
    IF before = Legacy THEN Texts(SubSeq(history[c], 1, k)) ELSE before.texts

\* The context it restores: the snapshot, or for a legacy checkpoint the
\* requests of the Turns ahead of the one that owns it.
Restored(c, k, before) ==
    IF before = Legacy THEN Texts(Before(history[c], k)) ELSE before.texts

\* Give every lock back and forget the request: the end of the handler.
Leave(t) ==
    /\ pc' = [pc EXCEPT ![t] = "idle"]
    /\ job' = [job EXCEPT ![t] = NoJob]
    /\ appLock' = [c \in Chats |-> IF appLock[c] = t THEN NoTask ELSE appLock[c]]
    /\ turnLock' = IF turnLock = t THEN NoTask ELSE turnLock
    /\ chatLock' = [c \in Chats |-> IF chatLock[c] = t THEN NoTask ELSE chatLock[c]]

Goto(t, next) ==
    /\ pc' = [pc EXCEPT ![t] = next]
    /\ UNCHANGED <<appLock, turnLock, chatLock>>
-----------------------------------------------------------------------------
(***************************************************************************)
(* A request arrives.  A message has a fresh identifier; an edit names the *)
(* message it changes; a delete marks the Chat at once.                    *)
(***************************************************************************)
NewJob(c, kind, id, text, up) ==
    [chat |-> c, kind |-> kind, id |-> id, text |-> text,
     uploads |-> up, pending |-> up, context |-> <<>>, kept |-> {},
     at |-> 0, cont |-> <<>>, loaded |-> <<>>,
     replaced |-> FALSE, cancelled |-> FALSE]

\* A new identifier; one whose Turn is gone for good may stand for it.
Fresh(id) ==
    /\ \A c \in Chats : id \notin Ids(history[c])
    /\ \A t \in Tasks :
         pc[t] # "idle" /\ job[t].kind # "delete" =>
           job[t].id # id /\ id \notin Ids(job[t].cont)

ReceiveMessage(t, c, id, text, up) ==
    /\ pc[t] = "idle"
    /\ c \notin marked
    /\ Fresh(id)
    /\ job' = [job EXCEPT ![t] = NewJob(c, "message", id, text, up)]
    /\ Goto(t, "queued")
    /\ UNCHANGED <<flags, history, agentState, sandbox>>

ReceiveEdit(t, c, id, text, up) ==
    /\ pc[t] = "idle"
    /\ id \in Ids(history[c])
    /\ job' = [job EXCEPT ![t] = NewJob(c, "edit", id, text, up)]
    /\ Goto(t, "queued")
    /\ UNCHANGED <<flags, history, agentState, sandbox>>

ReceiveDelete(t, c) ==
    /\ pc[t] = "idle"
    /\ job' = [job EXCEPT ![t] = [chat |-> c, kind |-> "delete"]]
    /\ marked' = marked \cup {c}
    /\ Goto(t, "queued")
    /\ UNCHANGED <<deleting, history, agentState, sandbox>>

\* The handler has the Chat's lock in app.py.  A message or an edit is dropped
\* when the Chat was marked while it waited; an edit also when its message has
\* no Turn any more, or the text did not change.
Accepted(t) ==
    LET j == job[t]
        h == history[j.chat] IN
    /\ j.chat \notin marked
    /\ j.kind = "edit" =>
         /\ j.id \in Ids(h)
         /\ h[Position(h, j.id)].text # j.text

Admit(t) ==
    /\ pc[t] = "queued"
    /\ job[t].kind # "delete"
    /\ appLock[job[t].chat] = NoTask
    /\ Accepted(t)
    /\ pc' = [pc EXCEPT ![t] = "admitted"]
    /\ appLock' = [appLock EXCEPT ![job[t].chat] = t]
    /\ UNCHANGED <<job, turnLock, chatLock, flags, history, agentState, sandbox>>

Drop(t) ==
    /\ pc[t] = "queued"
    /\ job[t].kind # "delete"
    /\ appLock[job[t].chat] = NoTask
    /\ ~Accepted(t)
    /\ Leave(t)
    /\ UNCHANGED <<flags, history, agentState, sandbox>>
-----------------------------------------------------------------------------
(***************************************************************************)
(* Documents.  A message uploads before its Turn, an edit inside it.       *)
(***************************************************************************)
Uploading(t) ==
    \/ pc[t] = "admitted" /\ job[t].kind = "message"
    \/ pc[t] = "attaching"

Upload(t, f) ==
    /\ Uploading(t)
    /\ f \in job[t].pending
    /\ restoring[job[t].chat] = None
    /\ files' = [files EXCEPT ![job[t].chat] = @ \cup {f}]
    /\ job' = [job EXCEPT ![t].pending = @ \ {f}]
    /\ UNCHANGED <<pc, appLock, turnLock, chatLock, flags, history, agentState,
                   fileSnaps, restoring>>

\* A limit is exceeded or the copy fails: earlier documents stay uploaded.
UploadRejected(t) ==
    /\ Uploading(t)
    /\ job[t].pending # {}
    /\ restoring[job[t].chat] = None
    /\ IF pc[t] = "attaching" THEN Goto(t, "rollback") /\ UNCHANGED job ELSE Leave(t)
    /\ UNCHANGED <<flags, history, agentState, sandbox>>
-----------------------------------------------------------------------------
(***************************************************************************)
(* Entering the transaction: _enter_chat takes both locks or refuses, and  *)
(* nothing suspends before the snapshot of the files is requested.         *)
(***************************************************************************)
\* Fault: only Turns of one Chat exclude each other.
MayEnter_PerChat(c) == c \notin deleting /\ chatLock[c] = NoTask

MayEnter(c) ==
    /\ c \notin deleting
    /\ turnLock = NoTask
    /\ chatLock[c] = NoTask

Ready(t) ==
    /\ pc[t] = "admitted"
    /\ job[t].kind = "edit" \/ job[t].pending = {}

EnterChat(t) ==
    LET c == job[t].chat IN
    /\ Ready(t)
    /\ MayEnter(c)
    /\ c \notin marked
    /\ turnLock' = t
    /\ chatLock' = [chatLock EXCEPT ![c] = t]
    /\ memory' = [memory EXCEPT ![c] = <<Messages(c)>>]
    /\ job' = [job EXCEPT ![t].context = Messages(c)]
    /\ pc' = [pc EXCEPT ![t] = "snapshot"]
    /\ UNCHANGED <<appLock, flags, history, memSnaps, sandbox>>

\* Busy or being deleted; for a marked Chat it is the checkpoint that raises.
Refuse(t) ==
    /\ Ready(t)
    /\ ~MayEnter(job[t].chat) \/ job[t].chat \in marked
    /\ Leave(t)
    /\ UNCHANGED <<flags, history, agentState, sandbox>>

\* Fault: the copy does not wait for the Chat's file operations.
TakeSnapshot_Unlocked(t) ==
    LET c == job[t].chat
        h == history[c]
        k == Position(h, job[t].id) IN
    /\ pc[t] = "snapshot"
    /\ IF job[t].kind = "message"
         THEN /\ job' = [job EXCEPT ![t].kept = files[c]]
              /\ Goto(t, "starting")
         ELSE /\ job' = [job EXCEPT ![t].kept = files[c], ![t].at = k,
                                   ![t].cont = SubSeq(h, k, Len(h))]
              /\ Goto(t, "ready")
    /\ UNCHANGED <<flags, history, agentState, sandbox>>

\* The snapshot exists.  A Revision also captures the continuation it will
\* replace, and hands its operation to the caller.
TakeSnapshot(t) ==
    LET c == job[t].chat
        h == history[c]
        k == Position(h, job[t].id) IN
    /\ pc[t] = "snapshot"
    /\ restoring[c] = None
    /\ \/ /\ job[t].kind = "message"
          /\ job' = [job EXCEPT ![t].kept = files[c]]
          /\ Goto(t, "starting")
       \/ /\ job[t].kind = "edit"
          /\ job' = [job EXCEPT ![t].kept = files[c], ![t].at = k,
                                ![t].cont = SubSeq(h, k, Len(h))]
          /\ Goto(t, "ready")
    /\ UNCHANGED <<flags, history, agentState, sandbox>>
-----------------------------------------------------------------------------
(***************************************************************************)
(* A Revision first puts the context and the files of the edited Turn back.*)
(***************************************************************************)
Edited(t) == history[job[t].chat][job[t].at]

Rewind(t) ==
    LET c == job[t].chat IN
    /\ pc[t] = "ready"
    /\ CanRestore(c, Edited(t).before)
    /\ restoring[c] = None
    /\ memory' = [memory EXCEPT ![c] = <<Restored(c, job[t].at, Edited(t).before)>>]
    /\ restoring' = [restoring EXCEPT ![c] = <<Edited(t).given>>]
    /\ Goto(t, "rewinding")
    /\ UNCHANGED <<job, flags, history, memSnaps, files, fileSnaps>>

\* Agent.restore raises, because the Chat was marked for deletion meanwhile.
RewindImpossible(t) ==
    /\ pc[t] = "ready"
    /\ ~CanRestore(job[t].chat, Edited(t).before)
    /\ Goto(t, "rollback")
    /\ UNCHANGED <<job, flags, history, agentState, sandbox>>

\* The worker thread is done; a Stop meanwhile was held back until now.
Rewound(t) ==
    /\ pc[t] = "rewinding"
    /\ restoring[job[t].chat] = None
    /\ Goto(t, IF job[t].cancelled THEN "rollback" ELSE "attaching")
    /\ UNCHANGED <<job, flags, history, agentState, sandbox>>

Attached(t) ==
    /\ pc[t] = "attaching"
    /\ job[t].pending = {}
    /\ Goto(t, "starting")
    /\ UNCHANGED <<job, flags, history, agentState, sandbox>>
-----------------------------------------------------------------------------
(***************************************************************************)
(* Agent.run reads the context, suspends for the model and its tools, and  *)
(* stores the longer context as its last act.                              *)
(***************************************************************************)
StartRun(t) ==
    LET c == job[t].chat IN
    /\ pc[t] = "starting"
    /\ c \notin marked
    /\ memory' = [memory EXCEPT ![c] = <<Messages(c)>>]
    /\ job' = [job EXCEPT ![t].loaded = Messages(c)]
    /\ Goto(t, "running")
    /\ UNCHANGED <<flags, history, memSnaps, sandbox>>

\* Agent.run of a marked Chat raises; a running one may fail at any time.
RunFails(t) ==
    /\ \/ pc[t] = "starting" /\ job[t].chat \in marked
       \/ pc[t] = "running"
    /\ Goto(t, "rollback")
    /\ UNCHANGED <<job, flags, history, agentState, sandbox>>

Answered(t) ==
    /\ pc[t] = "running"
    /\ memory' = [memory EXCEPT ![job[t].chat] = <<Append(job[t].loaded, job[t].text)>>]

\* Fault: the Turn is stored with the context after it, not before it.
NewTurn_After(t) ==
    [id |-> job[t].id, text |-> job[t].text,
     before |-> [chat |-> job[t].chat, texts |-> Append(job[t].loaded, job[t].text)],
     given |-> job[t].kept]

NewTurn(t) ==
    [id |-> job[t].id, text |-> job[t].text,
     before |-> [chat |-> job[t].chat, texts |-> job[t].context],
     given |-> job[t].kept]

\* submit: the answer and the history row, with no suspension in between.
CommitTurn(t) ==
    /\ Answered(t)
    /\ job[t].kind = "message"
    /\ history' = [history EXCEPT ![job[t].chat] = Append(@, NewTurn(t))]
    /\ Leave(t)
    /\ UNCHANGED <<flags, memSnaps, sandbox>>

\* Revision: the replacement keeps the edited Turn's checkpoint and snapshot.
ReplaceTurns(t) ==
    LET k == job[t].at IN
    /\ Answered(t)
    /\ job[t].kind = "edit"
    /\ history' = [history EXCEPT ![job[t].chat] =
                     Append(Before(@, k), [@[k] EXCEPT !.text = job[t].text])]
    /\ job' = [job EXCEPT ![t].replaced = TRUE]
    /\ Goto(t, "view")
    /\ UNCHANGED <<flags, memSnaps, sandbox>>

\* Fault: only the Agent's own failure is rolled back.
HistoryFails_NoRollback(t) ==
    /\ Answered(t)
    /\ Leave(t)
    /\ UNCHANGED <<flags, history, memSnaps, sandbox>>

\* The context is stored, but the history write raises.
HistoryFails(t) ==
    /\ Answered(t)
    /\ Goto(t, "rollback")
    /\ UNCHANGED <<job, flags, history, memSnaps, sandbox>>

\* The caller's part of a Revision, the UI continuation, commits or fails.
CommitRevision(t) ==
    /\ pc[t] = "view"
    /\ Leave(t)
    /\ UNCHANGED <<flags, history, agentState, sandbox>>

ViewFails(t) ==
    /\ pc[t] \in {"ready", "view"}
    /\ Goto(t, "rollback")
    /\ UNCHANGED <<job, flags, history, agentState, sandbox>>
-----------------------------------------------------------------------------
(***************************************************************************)
(* Rollback.  The restorations run in tasks of their own: context and      *)
(* history change in the same turn of the loop, the files in a thread.     *)
(***************************************************************************)
Rollback(t) ==
    LET c == job[t].chat IN
    /\ pc[t] = "rollback"
    /\ restoring[c] = None
    /\ IF CanRestore(c, [chat |-> c, texts |-> job[t].context])
         THEN memory' = [memory EXCEPT ![c] = <<job[t].context>>]
         ELSE UNCHANGED memory
    /\ IF job[t].replaced
         THEN history' = [history EXCEPT ![c] = Before(@, job[t].at) \o job[t].cont]
         ELSE UNCHANGED history
    /\ restoring' = [restoring EXCEPT ![c] = <<job[t].kept>>]
    /\ Goto(t, "restoring")
    /\ UNCHANGED <<job, flags, memSnaps, files, fileSnaps>>

RolledBack(t) ==
    /\ pc[t] = "restoring"
    /\ restoring[job[t].chat] = None
    /\ Leave(t)
    /\ UNCHANGED <<flags, history, agentState, sandbox>>

\* A worker thread has swapped the restored files in.
FilesRestored(c) ==
    /\ restoring[c] # None
    /\ files' = [files EXCEPT ![c] = Head(restoring[c])]
    /\ restoring' = [restoring EXCEPT ![c] = None]
    /\ UNCHANGED <<control, flags, history, agentState, fileSnaps>>

\* Fault: a rollback whose files could not be put back is tried again.
FilesNotRestored_Retried(c) ==
    /\ FaultyFiles
    /\ restoring[c] # None
    /\ restoring' = [restoring EXCEPT ![c] = None]
    /\ pc' = [t \in Tasks |->
                IF pc[t] \in {"rewinding", "restoring"} /\ job[t].chat = c
                  THEN "rollback" ELSE pc[t]]
    /\ UNCHANGED <<job, appLock, turnLock, chatLock, flags, history, agentState,
                   files, fileSnaps>>

\* It failed and left the files as they were: a Revision that was putting the
\* files back rolls back, a rollback reports the error and ends.
FilesNotRestored(c) ==
    /\ FaultyFiles
    /\ restoring[c] # None
    /\ restoring' = [restoring EXCEPT ![c] = None]
    /\ pc' = [t \in Tasks |->
                IF pc[t] = "rewinding" /\ job[t].chat = c THEN "rollback" ELSE pc[t]]
    /\ UNCHANGED <<job, appLock, turnLock, chatLock, flags, history, agentState,
                   files, fileSnaps>>
-----------------------------------------------------------------------------
(***************************************************************************)
(* Stop cancels the task of a message or an edit, once.                    *)
(***************************************************************************)
Cancellable(t) ==
    /\ pc[t] # "idle"
    /\ job[t].kind # "delete"
    /\ ~job[t].cancelled

\* Before the transaction can be rolled back: the handler just ends.  A file
\* operation its thread had begun is finished first.
CancelEarly(t) ==
    LET c == job[t].chat IN
    /\ Cancellable(t)
    /\ pc[t] \in {"queued", "admitted", "snapshot"}
    /\ \/ UNCHANGED files
       \/ /\ Uploading(t)
          /\ restoring[c] = None
          /\ \E f \in job[t].pending : files' = [files EXCEPT ![c] = @ \cup {f}]
    /\ Leave(t)
    /\ UNCHANGED <<flags, history, agentState, fileSnaps, restoring>>

\* Inside the transaction: roll back, at once or when the thread is done.
CancelTurn(t) ==
    LET c == job[t].chat IN
    /\ Cancellable(t)
    /\ pc[t] \in {"ready", "rewinding", "attaching", "starting", "running", "view"}
    /\ \/ UNCHANGED files
       \/ /\ pc[t] = "attaching"
          /\ \E f \in job[t].pending : files' = [files EXCEPT ![c] = @ \cup {f}]
    /\ job' = [job EXCEPT ![t].cancelled = TRUE]
    /\ Goto(t, IF pc[t] = "rewinding" THEN "rewinding" ELSE "rollback")
    /\ UNCHANGED <<flags, history, agentState, fileSnaps, restoring>>

\* While a failed Turn waits for its shielded rollback: the wait ends and the
\* locks are given back, the worker thread goes on.
CancelRollback(t) ==
    /\ Cancellable(t)
    /\ pc[t] = "restoring"
    /\ Leave(t)
    /\ UNCHANGED <<flags, history, agentState, sandbox>>
-----------------------------------------------------------------------------
(***************************************************************************)
(* Deletion.  cleanup_chat waits for the handler of the Chat, then         *)
(* delete_chat for the runtime's lock; then context, files and history go. *)
(***************************************************************************)
AdmitDelete(t) ==
    LET c == job[t].chat IN
    /\ pc[t] = "queued"
    /\ job[t].kind = "delete"
    /\ appLock[c] = NoTask
    /\ appLock' = [appLock EXCEPT ![c] = t]
    /\ deleting' = deleting \cup {c}
    /\ pc' = [pc EXCEPT ![t] = "closing"]
    /\ UNCHANGED <<job, turnLock, chatLock, marked, history, agentState, sandbox>>

DeleteContext(t) ==
    LET c == job[t].chat IN
    /\ pc[t] = "closing"
    /\ chatLock[c] = NoTask
    /\ chatLock' = [chatLock EXCEPT ![c] = t]
    /\ memory' = [memory EXCEPT ![c] = None]
    /\ memSnaps' = memSnaps \ {c}
    /\ pc' = [pc EXCEPT ![t] = "removeFiles"]
    /\ UNCHANGED <<job, appLock, turnLock, flags, history, sandbox>>

\* Fault: the tree is removed under a worker thread that restores it.
DeleteFiles_Unlocked(t) ==
    LET c == job[t].chat IN
    /\ pc[t] = "removeFiles"
    /\ files' = [files EXCEPT ![c] = {}]
    /\ fileSnaps' = fileSnaps \ {c}
    /\ Goto(t, "removeHistory")
    /\ UNCHANGED <<job, flags, history, agentState, restoring>>

DeleteFiles(t) ==
    LET c == job[t].chat IN
    /\ pc[t] = "removeFiles"
    /\ restoring[c] = None
    /\ files' = [files EXCEPT ![c] = {}]
    /\ fileSnaps' = fileSnaps \ {c}
    /\ Goto(t, "removeHistory")
    /\ UNCHANGED <<job, flags, history, agentState, restoring>>

\* Removing the tree stops half way: the history is not reached.
DeleteFilesFails(t) ==
    LET c == job[t].chat IN
    /\ FaultyFiles
    /\ pc[t] = "removeFiles"
    /\ restoring[c] = None
    /\ \E left \in SUBSET files[c] : files' = [files EXCEPT ![c] = left]
    /\ fileSnaps' \in {fileSnaps, fileSnaps \ {c}}
    /\ Leave(t)
    /\ UNCHANGED <<flags, history, agentState, restoring>>

DeleteHistory(t) ==
    /\ pc[t] = "removeHistory"
    /\ history' = [history EXCEPT ![job[t].chat] = <<>>]
    /\ Leave(t)
    /\ UNCHANGED <<flags, agentState, sandbox>>
-----------------------------------------------------------------------------
Arrive(t) ==
    \E c \in Chats :
        \/ \E id \in TurnIds, text \in Requests, up \in SUBSET Files :
              ReceiveMessage(t, c, id, text, up) \/ ReceiveEdit(t, c, id, text, up)
        \/ ReceiveDelete(t, c)

Serve(t) ==
    \/ Admit(t) \/ Drop(t) \/ AdmitDelete(t)
    \/ (\E f \in Files : Upload(t, f)) \/ UploadRejected(t)
    \/ EnterChat(t) \/ Refuse(t) \/ TakeSnapshot(t)
    \/ Rewind(t) \/ RewindImpossible(t) \/ Rewound(t) \/ Attached(t)
    \/ StartRun(t) \/ RunFails(t)
    \/ CommitTurn(t) \/ ReplaceTurns(t) \/ HistoryFails(t)
    \/ CommitRevision(t) \/ ViewFails(t)
    \/ Rollback(t) \/ RolledBack(t)
    \/ DeleteContext(t) \/ DeleteFiles(t) \/ DeleteFilesFails(t) \/ DeleteHistory(t)

Stop(t) == CancelEarly(t) \/ CancelTurn(t) \/ CancelRollback(t)

Worker(c) == FilesRestored(c) \/ FilesNotRestored(c)

Next ==
    \/ \E t \in Tasks : Arrive(t) \/ Serve(t) \/ Stop(t)
    \/ \E c \in Chats : Worker(c)

Spec == Init /\ [][Next]_vars

\* asyncio resumes every task whose wait is over, and asyncio.Lock serves its
\* waiters in order; the model's retries are finite, so a run ends.
Fairness ==
    /\ \A t \in Tasks :
         /\ WF_vars(Serve(t))
         /\ SF_vars(Admit(t) \/ Drop(t) \/ AdmitDelete(t))
    /\ \A c \in Chats : WF_vars(Worker(c))

FairSpec == Spec /\ Fairness
-----------------------------------------------------------------------------
(***************************************************************************)
(* A Turn runs alone: no second Turn or Revision in any Chat, and no       *)
(* deletion in its own Chat, overlaps its transaction, and no worker       *)
(* thread changes the files under a running Agent.                         *)
(***************************************************************************)
Exclusion ==
    \A t \in Tasks : pc[t] \in TurnPcs =>
        /\ \A u \in Tasks \ {t} :
             /\ pc[u] \notin TurnPcs
             /\ pc[u] \in DeletePcs => job[u].chat # job[t].chat
        /\ pc[t] \notin {"snapshot", "rewinding", "restoring"} =>
             restoring[job[t].chat] = None

(***************************************************************************)
(* When no transaction is open in a Chat, the context the next Turn will   *)
(* be given is the Chat's history: a failed, stopped or superseded request *)
(* leaves no trace in it.                                                  *)
(***************************************************************************)
ContextMatchesHistory ==
    \A c \in Chats \ marked :
        chatLock[c] = NoTask => Messages(c) = Texts(history[c])

(***************************************************************************)
(* Every completed Turn can be revised: its checkpoint and its snapshot    *)
(* exist, and the checkpoint is the context of the Turns ahead of it,      *)
(* whatever was revised or rolled back since it was taken.                 *)
(***************************************************************************)
EveryTurnRevisable ==
    \A c \in Chats \ marked : \A k \in DOMAIN history[c] :
        LET turn == history[c][k] IN
        /\ CanRestore(c, turn.before)
        /\ Restored(c, k, turn.before) = Texts(Before(history[c], k))
        /\ c \in fileSnaps

(***************************************************************************)
(* The Agent answers a request from the context of the Turns ahead of it   *)
(* and from the documents of that moment, plus those the request attached: *)
(* an edit sees nothing of the continuation it discards.                   *)
(***************************************************************************)
RunSeesItsPast ==
    \A t \in Tasks : pc[t] = "running" =>
        LET j == job[t]
            h == history[j.chat] IN
        IF j.kind = "message"
          THEN j.loaded = Texts(h) /\ files[j.chat] = j.kept
          ELSE /\ j.loaded = Texts(Before(h, j.at))
               /\ files[j.chat] = h[j.at].given \cup j.uploads

(***************************************************************************)
(* What the deletion of a Chat has removed stays removed: no late Turn,    *)
(* rollback or worker thread brings its context, files or Turns back.      *)
(***************************************************************************)
NothingRevived ==
    [][\A c \in Chats :
         /\ c \in deleting => history'[c] \in {history[c], <<>>}
         /\ c \notin memSnaps => memory'[c] = memory[c]
         /\ c \notin fileSnaps => files'[c] \subseteq files[c]]_vars

(***************************************************************************)
(* Every request ends: its handler returns and gives its locks back,       *)
(* however it is interleaved with other Chats, Stop and deletion.          *)
(***************************************************************************)
EveryRequestEnds == \A t \in Tasks : pc[t] # "idle" ~> pc[t] = "idle"
-----------------------------------------------------------------------------
(***************************************************************************)
(* The refinement: an open transaction has not happened yet, so its Chat   *)
(* is read as its rollback data says, and a Chat marked for deletion is    *)
(* gone at once.                                                           *)
(***************************************************************************)
InTurn(c) == chatLock[c] # NoTask /\ pc[chatLock[c]] \in TurnPcs

LedgerHistory(c) ==
    IF InTurn(c) /\ job[chatLock[c]].replaced
      THEN Before(history[c], job[chatLock[c]].at) \o job[chatLock[c]].cont
      ELSE history[c]

LedgerContext(c) == IF InTurn(c) THEN job[chatLock[c]].context ELSE Messages(c)

LedgerFiles(c) ==
    IF InTurn(c) /\ pc[chatLock[c]] # "snapshot"
      THEN job[chatLock[c]].kept
      ELSE IF restoring[c] # None THEN Head(restoring[c]) ELSE files[c]

Seen(turn) == [id |-> turn.id, text |-> turn.text, given |-> turn.given]

Ledger == INSTANCE TurnLedger WITH
    open <- Chats \ marked,
    turns <- [c \in Chats |->
                IF c \in marked THEN <<>>
                ELSE [k \in DOMAIN LedgerHistory(c) |-> Seen(LedgerHistory(c)[k])]],
    context <- [c \in Chats |-> IF c \in marked THEN <<>> ELSE LedgerContext(c)],
    sandbox <- [c \in Chats |-> IF c \in marked THEN {} ELSE LedgerFiles(c)]

(***************************************************************************)
(* Every behaviour of the runtime is one of the ledger: a Turn or Revision *)
(* takes effect at one instant, with all its parts, or not at all.         *)
(***************************************************************************)
ImplementsLedger == Ledger!Spec
=============================================================================
