-------------------------- MODULE ChatTitleProofs --------------------------
(***************************************************************************)
(* Proofs about ChatTitle, for any number of title tasks and any faults.   *)
(***************************************************************************)
EXTENDS ChatTitle, TLAPS

\* What a deletion relies on when nothing may overlap with it: no handler is
\* about to write the Chat's row or its title, and no title task is left in the
\* table.
DeletionAlone ==
    (Overlap = {} /\ deleting) =>
        /\ request \in Apart /\ resume = "idle" /\ ~naming
        /\ slot = NoTask

IInv == TypeOK /\ TitleTaskIsKnown /\ DeletionAlone

\* The steps of a title task other than its start and its callback: one task
\* moves on, and neither the table nor anything but the row changes.
TaskStep(t) == PublishChatTitle(t) \/ TitleFails(t) \/ TitleCancelled(t)

\* A task that moves was not free, is not free after, and is live only if it
\* was: only StartChatTitle brings a task to life.
LEMMA TaskMoves ==
    ASSUME TypeOK, NEW t \in Tasks, TaskStep(t)
    PROVE  \E pc \in Live \cup {"ended"} :
             /\ tasks' = [tasks EXCEPT ![t] = pc]
             /\ tasks[t] # "free"
             /\ pc \in Live => tasks[t] \in Live
  <1> USE DEF At, Live, Unsettled
  <1>1. CASE TitleFails(t)  BY <1>1 DEF TitleFails
  <1>2. CASE TitleCancelled(t)  BY <1>2 DEF TitleCancelled
  <1>3. CASE WaitForInitialName(t)  BY <1>3 DEF WaitForInitialName
  <1>4. CASE BeginChatTitle(t)  BY <1>4 DEF BeginChatTitle
  <1>5. CASE EmitFallback(t)  BY <1>5 DEF EmitFallback
  <1>6. CASE AcquireModel(t)  BY <1>6 DEF AcquireModel
  <1>7. CASE DescribeChat(t)  BY <1>7 DEF DescribeChat
  <1>8. CASE CompleteChatTitle(t)  BY <1>8 DEF CompleteChatTitle
  <1>9. CASE EmitTitle(t)  BY <1>9 DEF EmitTitle
  <1> QED  BY <1>1, <1>2, <1>3, <1>4, <1>5, <1>6, <1>7, <1>8, <1>9
           DEF TaskStep, PublishChatTitle

\* What the title operations leave in a row.
LEMMA RowOperations ==
    ASSUME NEW r \in Titles \cup {"absent"}, NEW title \in Titles
    PROVE  /\ Upserted(r) \in Titles
           /\ Begun(r) \in Titles \cup {"absent"}
           /\ Completed(r, title) \in Titles \cup {"absent"}
           /\ InitiallyNamed(r) \in Titles
           /\ Renamed(r) \in Titles
  BY DEF Upserted, State, Begun, Claimable, Completed, InitiallyNamed, Renamed,
         Titles

\* A new task takes the table's entry, and only when the old one has ended.
LEMMA StartKeepsTasks ==
    ASSUME TypeOK, TitleTaskIsKnown, StartChatTitle
    PROVE  /\ tasks' \in [Tasks -> Live \cup {"free", "cancelled", "ended"}]
           /\ slot' \in Tasks \cup {NoTask}
           /\ slot' # NoTask => tasks'[slot'] # "free"
           /\ \A t \in Tasks : tasks'[t] \in Live => slot' = t
  <1>1. CASE UNCHANGED titling
    BY <1>1 DEF titling, TypeOK, TitleTaskIsKnown
  <1>2. CASE ~(slot # NoTask /\ tasks[slot] \in Live)
    <2>1. PICK t \in Tasks : /\ tasks' = [tasks EXCEPT ![t] = "waiting"]
                             /\ slot' = t
      BY <1>2 DEF StartChatTitle, At
    <2>2. \A u \in Tasks : tasks[u] \notin Live
      BY <1>2, TaskAssumption DEF TitleTaskIsKnown
    <2> QED  BY <2>1, <2>2 DEF TypeOK, Live, Unsettled
  <1> QED  BY <1>1, <1>2 DEF StartChatTitle

LEMMA InitInv == Init => IInv
  BY TaskAssumption DEF Init, IInv, TypeOK, TitleTaskIsKnown, DeletionAlone,
     Titles, Live, Unsettled, Apart

\* A title task moves on.
LEMMA TaskInv ==
    ASSUME IInv, NEW t \in Tasks, TaskStep(t)
    PROVE  IInv'
  <1> USE DEF IInv
  <1>1. PICK pc \in Live \cup {"ended"} :
          /\ tasks' = [tasks EXCEPT ![t] = pc]
          /\ tasks[t] # "free"
          /\ pc \in Live => tasks[t] \in Live
    BY TaskMoves
  <1>2. UNCHANGED <<asked, known, naming, enabled, slot, request, resume,
                    deletion, deleting>>
    BY DEF TaskStep, PublishChatTitle, TitleFails, TitleCancelled, stored
  <1>3. row' \in Titles \cup {"absent"}
    <2>1. row' \in {row, Begun(row), Completed(row, "generated"),
                    Completed(row, "fallback")}
      BY DEF TaskStep, PublishChatTitle, TitleFails, TitleCancelled, stored,
             WaitForInitialName, BeginChatTitle, EmitFallback, AcquireModel,
             DescribeChat, CompleteChatTitle, EmitTitle
    <2> QED  BY <2>1, RowOperations DEF TypeOK, Titles
  <1>4. TypeOK'
    BY <1>1, <1>2, <1>3 DEF TypeOK, Live, Unsettled
  <1>5. TitleTaskIsKnown'
    BY <1>1, <1>2 DEF TitleTaskIsKnown, TypeOK
  <1>6. DeletionAlone'
    BY <1>2 DEF DeletionAlone
  <1> QED  BY <1>4, <1>5, <1>6

\* The callback of an ended task clears the entry only when it is its own.
LEMMA FinishedInv ==
    ASSUME IInv, NEW t \in Tasks, TitleTaskFinished(t)
    PROVE  IInv'
  <1> USE DEF IInv
  <1>1. /\ tasks' = [tasks EXCEPT ![t] = "free"]
        /\ tasks[t] = "ended"
        /\ slot' = IF slot = t THEN NoTask ELSE slot
        /\ UNCHANGED <<row, asked, known, naming, enabled, request, resume,
                       deletion, deleting>>
    BY DEF TitleTaskFinished, At, stored
  <1>2. TypeOK'
    BY <1>1, TaskAssumption DEF TypeOK
  <1>3. TitleTaskIsKnown'
    BY <1>1 DEF TitleTaskIsKnown, TypeOK, Live, Unsettled
  <1>4. DeletionAlone'
    BY <1>1 DEF DeletionAlone
  <1> QED  BY <1>2, <1>3, <1>4

\* The steps that neither start nor stop a title task nor mark the Chat.
LEMMA OtherInv ==
    ASSUME IInv,
           \/ SendMessage \/ OnMessage \/ SyncConfiguration \/ ReadTitle
           \/ Infer \/ EndTurn \/ StopMessage \/ FirstInteraction \/ Rename
           \/ OnChatResume \/ ResumeReadsTitle \/ ResumeSyncs
           \/ TitleStopped \/ LockForDeletion \/ DeleteState \/ DeleteRow
    PROVE  IInv'
  <1> USE DEF IInv
  <1>1. UNCHANGED titling /\ UNCHANGED <<enabled, deleting>>
    BY DEF SendMessage, OnMessage, SyncConfiguration, ReadTitle, Infer, EndTurn,
           StopMessage, FirstInteraction, Rename, OnChatResume, ResumeReadsTitle,
           ResumeSyncs, TitleStopped, LockForDeletion, DeleteState, DeleteRow,
           titling
  <1>2. row' \in {row, Upserted(row), InitiallyNamed(row), Renamed(row), "absent"}
    BY DEF SendMessage, OnMessage, SyncConfiguration, ReadTitle, Infer, EndTurn,
           StopMessage, FirstInteraction, Rename, OnChatResume, ResumeReadsTitle,
           ResumeSyncs, TitleStopped, LockForDeletion, DeleteState, DeleteRow,
           stored
  <1>3. row' \in Titles \cup {"absent"}
    BY <1>2, RowOperations DEF TypeOK, Titles
  <1>4. TypeOK'
    <2> USE DEF TypeOK, stored
    <2>1. /\ asked' \in BOOLEAN /\ known' \in BOOLEAN /\ naming' \in BOOLEAN
      <3>1. CASE SendMessage \/ EndTurn  BY <3>1 DEF SendMessage, EndTurn
      <3>2. CASE ~(SendMessage \/ EndTurn)
        BY <3>2 DEF OnMessage, SyncConfiguration, ReadTitle, Infer, StopMessage,
               FirstInteraction, Rename, OnChatResume, ResumeReadsTitle,
               ResumeSyncs, TitleStopped, LockForDeletion, DeleteState, DeleteRow
      <3> QED  BY <3>1, <3>2
    <2>2. request' \in {"idle", "sent", "opened", "reading", "claimingFirst",
                       "claiming", "sourcing", "turn", "inferring"}
      BY DEF SendMessage, OnMessage, SyncConfiguration, ReadTitle, Infer, EndTurn,
             StopMessage, FirstInteraction, Rename, OnChatResume,
             ResumeReadsTitle, ResumeSyncs, TitleStopped, LockForDeletion,
             DeleteState, DeleteRow
    <2>3. /\ resume' \in {"idle", "reading", "sourcing", "syncing"}
          /\ deletion' \in {"none", "stopping", "locking", "state", "row"}
          /\ deletion' # "none" => deleting
      BY DEF SendMessage, OnMessage, SyncConfiguration, ReadTitle, Infer, EndTurn,
             StopMessage, FirstInteraction, Rename, OnChatResume,
             ResumeReadsTitle, ResumeSyncs, TitleStopped, LockForDeletion,
             DeleteState, DeleteRow
    <2> QED  BY <1>1, <1>3, <2>1, <2>2, <2>3 DEF titling
  <1>5. TitleTaskIsKnown'
    BY <1>1 DEF TitleTaskIsKnown, titling
  <1>6. DeletionAlone'
    BY <1>1 DEF Apart, DeletionAlone, titling, MayUse, SendMessage, OnMessage,
           SyncConfiguration, ReadTitle, Infer, EndTurn, StopMessage,
           FirstInteraction, Rename, OnChatResume, ResumeReadsTitle, ResumeSyncs,
           TitleStopped, LockForDeletion, DeleteState, DeleteRow, stored
  <1> QED  BY <1>4, <1>5, <1>6

\* A handler starts a title task, or finds that there is nothing to name.
LEMMA StartInv ==
    ASSUME IInv, ClaimTitle \/ StartLaterTitle \/ ResumeStartsTitle
    PROVE  IInv'
  <1> USE DEF IInv
  <1>1. StartChatTitle \/ UNCHANGED titling
    BY DEF ClaimTitle, StartLaterTitle, ResumeStartsTitle
  <1>2. /\ tasks' \in [Tasks -> Live \cup {"free", "cancelled", "ended"}]
        /\ slot' \in Tasks \cup {NoTask}
        /\ slot' # NoTask => tasks'[slot'] # "free"
        /\ \A t \in Tasks : tasks'[t] \in Live => slot' = t
    <2>1. CASE StartChatTitle  BY <2>1, StartKeepsTasks
    <2>2. CASE UNCHANGED titling
      BY <2>2 DEF titling, TypeOK, TitleTaskIsKnown
    <2> QED  BY <1>1, <2>1, <2>2
  <1>3. row' \in Titles \cup {"absent"}
    BY RowOperations
       DEF ClaimTitle, StartLaterTitle, ResumeStartsTitle, stored, TypeOK, Titles
  <1>4. TypeOK'
    BY <1>2, <1>3
       DEF ClaimTitle, StartLaterTitle, ResumeStartsTitle, stored, TypeOK
  <1>5. TitleTaskIsKnown'
    BY <1>2 DEF TitleTaskIsKnown
  <1>6. DeletionAlone'
    BY DEF Apart, ClaimTitle, StartLaterTitle, ResumeStartsTitle, DeletionAlone
  <1> QED  BY <1>4, <1>5, <1>6

\* A deletion takes the task out of the table and cancels it.
LEMMA MarkInv ==
    ASSUME IInv, MarkDeleting
    PROVE  IInv'
  <1> USE DEF IInv
  <1>1. /\ slot' = NoTask
        /\ tasks' \in [Tasks -> Live \cup {"free", "cancelled", "ended"}]
        /\ \A t \in Tasks : tasks'[t] \notin Live
    <2>1. CASE slot # NoTask /\ tasks[slot] \in Live
      BY <2>1 DEF MarkDeleting, At, TypeOK, TitleTaskIsKnown, Live, Unsettled
    <2>2. CASE ~(slot # NoTask /\ tasks[slot] \in Live)
      BY <2>2, TaskAssumption DEF MarkDeleting, TypeOK, TitleTaskIsKnown
    <2> QED  BY <2>1, <2>2
  <1>2. TypeOK'
    BY <1>1 DEF MarkDeleting, TypeOK, stored
  <1>3. TitleTaskIsKnown'
    BY <1>1 DEF TitleTaskIsKnown
  <1>4. DeletionAlone'
    BY <1>1 DEF MarkDeleting, Unused, DeletionAlone
  <1> QED  BY <1>2, <1>3, <1>4

\* Nothing but the rows survives the process.
LEMMA CrashInv ==
    ASSUME IInv, Crash
    PROVE  IInv'
  BY DEF IInv, TypeOK, TitleTaskIsKnown, DeletionAlone, Crash, stored, Titles,
         Live, Unsettled, Apart

LEMMA NextInv == IInv /\ [Next]_vars => IInv'
  <1> SUFFICES ASSUME IInv, [Next]_vars PROVE IInv'
    OBVIOUS
  <1>1. ASSUME NEW t \in Tasks, TaskStep(t) PROVE IInv'
    BY <1>1, TaskInv
  <1>2. ASSUME NEW t \in Tasks, TitleTaskFinished(t) PROVE IInv'
    BY <1>2, FinishedInv
  <1>3. CASE SendMessage \/ OnMessage \/ SyncConfiguration \/ ReadTitle
             \/ Infer \/ EndTurn \/ StopMessage \/ FirstInteraction \/ Rename
             \/ OnChatResume \/ ResumeReadsTitle \/ ResumeSyncs \/ Delete
    BY <1>3, OtherInv DEF Delete
  <1>4. CASE ClaimTitle \/ StartLaterTitle \/ ResumeStartsTitle
    BY <1>4, StartInv
  <1>5. CASE MarkDeleting  BY <1>5, MarkInv
  <1>6. CASE Crash  BY <1>6, CrashInv
  <1>7. CASE UNCHANGED vars
    BY <1>7 DEF vars, IInv, TypeOK, TitleTaskIsKnown, DeletionAlone
  <1> QED
    BY <1>1, <1>2, <1>3, <1>4, <1>5, <1>6, <1>7
       DEF Next, TaskStep, HandleMessage, HandleResume
-----------------------------------------------------------------------------
LEMMA TitleInductive == Spec => []IInv
  BY InitInv, NextInv, PTL DEF Spec

\* Every variable keeps its type: in particular the table's entry never names
\* a task whose callback has run.
THEOREM TitleTypeCorrect == Spec => []TypeOK
  BY TitleInductive, PTL DEF IInv

\* Every title task that still runs can be found, and so cancelled, through
\* chat_title_tasks; as the table has one entry, at most one task runs.
THEOREM TaskCanBeCancelled == Spec => []TitleTaskIsKnown
  BY TitleInductive, PTL DEF IInv

\* What a step may do to the row of a Chat that has a title for good.
SavedStays ==
    /\ row = "manual" => row' \in {"manual", "absent"}
    /\ row = "generated" => row' \in {"generated", "manual", "absent"}

\* Everything that writes the row looks at the title state first, except a
\* rename and the end of a deletion.
LEMMA StepKeepsSaved == [Next]_vars => SavedStays
  <1> SUFFICES ASSUME [Next]_vars PROVE SavedStays
    OBVIOUS
  <1>1. row' \in {row, Upserted(row), Begun(row), Completed(row, "generated"),
                  Completed(row, "fallback"), InitiallyNamed(row),
                  Renamed(row), "absent"}
    <2>1. ASSUME NEW t \in Tasks, TaskStep(t) \/ TitleTaskFinished(t)
          PROVE  row' \in {row, Begun(row), Completed(row, "generated"),
                           Completed(row, "fallback")}
      BY <2>1 DEF TaskStep, PublishChatTitle, TitleFails, TitleCancelled,
           TitleTaskFinished, stored, WaitForInitialName, BeginChatTitle,
           EmitFallback, AcquireModel, DescribeChat, CompleteChatTitle,
           EmitTitle
    <2>2. CASE SendMessage \/ HandleMessage \/ Infer \/ EndTurn
               \/ StopMessage \/ FirstInteraction \/ Rename
      BY <2>2 DEF SendMessage, HandleMessage, OnMessage, SyncConfiguration,
           ReadTitle, ClaimTitle, StartLaterTitle, Infer, EndTurn,
           StopMessage, FirstInteraction, Rename, stored
    <2>3. CASE OnChatResume \/ HandleResume \/ MarkDeleting \/ Delete \/ Crash
      BY <2>3 DEF OnChatResume, HandleResume, ResumeReadsTitle,
           ResumeStartsTitle, ResumeSyncs, MarkDeleting, Delete, TitleStopped,
           LockForDeletion, DeleteState, DeleteRow, Crash, stored
    <2>4. CASE UNCHANGED vars  BY <2>4 DEF vars
    <2> QED  BY <2>1, <2>2, <2>3, <2>4 DEF Next, TaskStep
  <1> QED
    BY <1>1 DEF SavedStays, Upserted, State, Begun, Claimable, Completed,
           InitiallyNamed, Renamed

\* No step replaces a manual title, or a generated one except by renaming.
THEOREM TitleIsFinal == Spec => SavedTitleStays
  <1>1. [Next]_vars => [SavedStays]_vars
    BY StepKeepsSaved
  <1> QED  BY <1>1, PTL DEF Spec, SavedTitleStays, SavedStays

\* A task that only has to announce its title has saved it, unless something
\* used the Chat while it was deleted.
Announced ==
    Overlap = {} =>
        \A t \in Tasks : tasks[t] = "announcing" => row \in {"generated", "manual"}

LEMMA NextAnnounced == IInv /\ Announced /\ [Next]_vars => Announced'
  <1> SUFFICES ASSUME IInv, Announced, [Next]_vars, Overlap = {},
                      NEW u \in Tasks, tasks'[u] = "announcing"
               PROVE  row' \in {"generated", "manual"}
    BY DEF Announced
  <1> USE DEF IInv
  \* A step that leaves u announcing only has to spare the row.
  <1>1. ASSUME tasks[u] = "announcing", row' # "absent"
        PROVE  row' \in {"generated", "manual"}
    BY <1>1, StepKeepsSaved DEF Announced, SavedStays
  <1>2. ASSUME NEW t \in Tasks, TaskStep(t)
        PROVE  row' \in {"generated", "manual"}
    <2>1. CASE t = u
      \* Only complete_chat_title leaves a task with a title to announce.
      <3>1. CompleteChatTitle(u) /\ row = "pending" /\ row' = "generated"
        BY <2>1, <1>2 DEF TaskStep, PublishChatTitle, TitleFails,
             TitleCancelled, WaitForInitialName, BeginChatTitle, EmitFallback,
             AcquireModel, DescribeChat, CompleteChatTitle, EmitTitle, At,
             TypeOK, Completed
      <3> QED  BY <3>1
    <2>2. CASE t # u
      \* Two tasks are never live, so t is a cancelled one.
      <3>1. tasks[u] = "announcing"
        BY <1>2, <2>2, TaskMoves DEF TypeOK
      <3>2. tasks[t] \notin Live
        BY <3>1, <2>2 DEF TitleTaskIsKnown, Live
      <3>3. TitleCancelled(t)
        BY <3>2, <1>2 DEF TaskStep, PublishChatTitle, TitleFails,
             WaitForInitialName, BeginChatTitle, EmitFallback, AcquireModel,
             DescribeChat, CompleteChatTitle, EmitTitle, Live, Unsettled
      <3> QED  BY <3>1, <3>3 DEF TitleCancelled, stored, Announced
    <2> QED  BY <2>1, <2>2
  <1>3. ASSUME NEW t \in Tasks, TitleTaskFinished(t)
        PROVE  row' \in {"generated", "manual"}
    BY <1>3 DEF TitleTaskFinished, At, stored, TypeOK, Announced
  <1>4. CASE SendMessage \/ OnMessage \/ SyncConfiguration \/ ReadTitle
             \/ Infer \/ EndTurn \/ StopMessage \/ FirstInteraction \/ Rename
             \/ OnChatResume \/ ResumeReadsTitle \/ ResumeSyncs
             \/ TitleStopped \/ LockForDeletion \/ DeleteState
    <2>1. tasks' = tasks
      BY <1>4 DEF SendMessage, OnMessage, SyncConfiguration, ReadTitle, Infer,
           EndTurn, StopMessage, FirstInteraction, Rename, OnChatResume,
           ResumeReadsTitle, ResumeSyncs, TitleStopped, LockForDeletion,
           DeleteState, titling
    <2>2. row' \in {row, Upserted(row), InitiallyNamed(row), Renamed(row)}
      BY <1>4 DEF SendMessage, OnMessage, SyncConfiguration, ReadTitle, Infer,
           EndTurn, StopMessage, FirstInteraction, Rename, OnChatResume,
           ResumeReadsTitle, ResumeSyncs, TitleStopped, LockForDeletion,
           DeleteState, stored
    <2> QED
      BY <2>1, <2>2 DEF Announced, Upserted, State, InitiallyNamed, Renamed
  <1>5. CASE DeleteRow
    <2>1. tasks' = tasks /\ slot = NoTask
      BY <1>5 DEF DeleteRow, titling, TypeOK, DeletionAlone
    <2> QED  BY <2>1, TaskAssumption DEF TitleTaskIsKnown, Live
  <1>6. CASE ClaimTitle \/ StartLaterTitle \/ ResumeStartsTitle
    <2>1. tasks[u] = "announcing"
      <3>1. StartChatTitle \/ UNCHANGED titling
        BY <1>6 DEF ClaimTitle, StartLaterTitle, ResumeStartsTitle
      <3> QED  BY <3>1 DEF StartChatTitle, At, titling, TypeOK
    <2>2. row' \in {row, Begun(row)}
      BY <1>6 DEF ClaimTitle, StartLaterTitle, ResumeStartsTitle, stored
    <2> QED  BY <2>1, <2>2 DEF Announced, Begun, Claimable, State
  <1>7. CASE MarkDeleting
    BY <1>7 DEF MarkDeleting, At, stored, TypeOK, Announced
  <1>8. CASE Crash
    BY <1>8 DEF Crash
  <1>9. CASE UNCHANGED vars
    BY <1>9 DEF vars, Announced
  <1> QED
    BY <1>2, <1>3, <1>4, <1>5, <1>6, <1>7, <1>8, <1>9
       DEF Next, TaskStep, HandleMessage, HandleResume, Delete

\* In a Chat that nobody uses while it is deleted, a claimed title has a task
\* that will settle it: _start_chat_title may find an older task at work, but
\* not one that has only its announcement left.
THEOREM ClaimsAreServed ==
    ASSUME Overlap = {} PROVE Spec => ClaimIsServed
  <1> DEFINE Kept == (Claims /\ row' = "pending") => Served'
  <1>1. ASSUME IInv, Announced, [Next]_vars PROVE Kept
    <2> SUFFICES ASSUME Claims, row' = "pending" PROVE Served'
      OBVIOUS
    <2> USE <1>1 DEF IInv
    <2>1. \/ ClaimTitle /\ request = "claimingFirst" /\ request' = "turn"
          \/ StartLaterTitle
          \/ ResumeStartsTitle /\ asked
      <3>1. ~\E t \in Tasks : TaskStep(t) \/ TitleTaskFinished(t)
        BY DEF Claims, TaskStep, PublishChatTitle, TitleFails, TitleCancelled,
             TitleTaskFinished
      <3>2. ~(SendMessage \/ OnMessage \/ SyncConfiguration \/ ReadTitle
              \/ Infer \/ EndTurn \/ StopMessage \/ FirstInteraction \/ Rename
              \/ OnChatResume \/ ResumeReadsTitle \/ ResumeSyncs
              \/ MarkDeleting \/ Delete \/ Crash \/ UNCHANGED vars)
        BY DEF Claims, SendMessage, OnMessage, SyncConfiguration, ReadTitle,
             Infer, EndTurn, StopMessage, FirstInteraction, Rename,
             OnChatResume, ResumeReadsTitle, ResumeSyncs, MarkDeleting, Delete,
             TitleStopped, LockForDeletion, DeleteState, DeleteRow, Crash, vars
      <3>3. ClaimTitle \/ StartLaterTitle \/ ResumeStartsTitle
        BY <3>1, <3>2 DEF Next, TaskStep, HandleMessage, HandleResume
      <3> QED  BY <3>3 DEF Claims, ClaimTitle, StartLaterTitle, ResumeStartsTitle
    <2>2. StartChatTitle /\ row \notin {"generated", "manual"}
      BY <2>1 DEF ClaimTitle, StartLaterTitle, ResumeStartsTitle, stored, Begun,
           Claimable, State
    <2>3. CASE slot # NoTask /\ tasks[slot] \in Live
      <3>1. slot \in Tasks /\ tasks' = tasks
        BY <2>2, <2>3 DEF StartChatTitle, titling, TypeOK
      <3>2. tasks[slot] # "announcing"
        BY <2>2, <3>1 DEF Announced
      <3> QED  BY <2>3, <3>1, <3>2 DEF Served, Live
    <2>4. CASE ~(slot # NoTask /\ tasks[slot] \in Live)
      <3>1. PICK t \in Tasks : tasks' = [tasks EXCEPT ![t] = "waiting"]
        BY <2>2, <2>4 DEF StartChatTitle, At
      <3> QED  BY <3>1 DEF Served, Unsettled, TypeOK
    <2> QED  BY <2>3, <2>4
  <1>2. Init => Announced
    BY DEF Init, Announced
  <1>3. IInv /\ Announced /\ [Next]_vars => [Kept]_vars
    BY <1>1
  <1> QED
    BY <1>2, <1>3, NextAnnounced, TitleInductive, PTL DEF Spec, ClaimIsServed

\* In a Chat that nobody uses while it is deleted, no title task and no later
\* step brings the row back: the task in the table was cancelled.
THEOREM DeletionIsFinal ==
    ASSUME Overlap = {} PROVE Spec => DeletedStaysDeleted
  <1> DEFINE Stays ==
        deleting /\ deletion = "none" /\ row = "absent" => row' = "absent"
  <1>1. ASSUME IInv, [Next]_vars PROVE Stays
    <2> SUFFICES ASSUME deleting, deletion = "none", row = "absent"
                 PROVE  row' = "absent"
      OBVIOUS
    <2>1. /\ request \in Apart /\ resume = "idle" /\ ~naming
          /\ \A t \in Tasks : tasks[t] \notin Live
      BY <1>1, TaskAssumption DEF IInv, DeletionAlone, TitleTaskIsKnown
    <2>2. ~MayUse
      BY DEF MayUse
    <2>3. ASSUME NEW t \in Tasks, TaskStep(t) \/ TitleTaskFinished(t)
          PROVE  row' = "absent"
      BY <2>1, <2>3 DEF TaskStep, PublishChatTitle, TitleFails, TitleCancelled,
           TitleTaskFinished, stored, WaitForInitialName, BeginChatTitle,
           EmitFallback, AcquireModel, DescribeChat, CompleteChatTitle,
           EmitTitle, Live, Unsettled
    <2>4. CASE SendMessage \/ HandleMessage \/ Infer \/ EndTurn
               \/ StopMessage \/ FirstInteraction \/ Rename
      BY <2>1, <2>2, <2>4 DEF Apart, SendMessage, HandleMessage, OnMessage,
           SyncConfiguration, ReadTitle, ClaimTitle, StartLaterTitle, Infer,
           EndTurn, StopMessage, FirstInteraction, Rename, stored
    <2>5. CASE OnChatResume \/ HandleResume \/ MarkDeleting \/ Delete \/ Crash
      BY <2>1, <2>5 DEF OnChatResume, HandleResume, ResumeReadsTitle,
           ResumeStartsTitle, ResumeSyncs, MarkDeleting, Delete, TitleStopped,
           LockForDeletion, DeleteState, DeleteRow, Crash, stored
    <2>6. CASE UNCHANGED vars  BY <2>6 DEF vars
    <2> QED  BY <1>1, <2>3, <2>4, <2>5, <2>6 DEF Next, TaskStep
  <1>2. IInv /\ [Next]_vars => [Stays]_vars
    BY <1>1
  <1> QED  BY <1>2, TitleInductive, PTL DEF Spec, DeletedStaysDeleted
=============================================================================
