----------------------------- MODULE ChatTitle -----------------------------
(***************************************************************************)
(* The title of one Chat and the deletion of the Chat: the background task *)
(* that names it (app.py's _publish_chat_title), the handlers that start   *)
(* this task, a rename by the user, Chainlit's late first-interaction      *)
(* write, and cleanup_chat, which must stop all of them.                   *)
(*                                                                         *)
(* The data layer's title operations read and write the row of threads     *)
(* under the thread lock, so each is one step.  What follows an await is a *)
(* step of its own: a handler decides from a state it read before.         *)
(***************************************************************************)
EXTENDS FiniteSets

CONSTANTS
    Tasks,      \* asyncio tasks that may publish a title
    NoTask,     \* no entry in chat_title_tasks
    Faults,     \* what may go wrong: {"task", "stop", "crash"} or less
    Overlap     \* what may overlap with a deletion: {"message", "resume"} or less

ASSUME TaskAssumption == NoTask \notin Tasks
ASSUME FaultAssumption == Faults \subseteq {"task", "stop", "crash"}
ASSUME OverlapAssumption == Overlap \subseteq {"message", "resume"}

VARIABLES
    row,        \* chat_title_state in the row of threads, or "absent"
    asked,      \* is a user message stored?
    known,      \* does the runtime's history have the Chat?
    naming,     \* is Chainlit's first-interaction write still to come?
    enabled,    \* settings.generate_chat_titles
    tasks,      \* what each title task waits for
    slot,       \* the Chat's entry in chat_title_tasks
    request,    \* what the handler of a message waits for
    resume,     \* what on_chat_resume waits for
    deletion,   \* what delete_thread waits for
    deleting    \* is the Chat in deleting_chats?

stored == <<row, asked, known>>
titling == <<tasks, slot>>
vars == <<row, asked, known, naming, enabled, tasks, slot, request, resume,
          deletion, deleting>>

Titles == {"none", "pending", "generated", "fallback", "manual"}

\* A task that has not reached its end, and one that still has to complete.
Unsettled == {"waiting", "claiming", "emitting", "queued", "asking",
              "titled", "untitled"}
Live == Unsettled \cup {"announcing"}

TypeOK ==
    /\ row \in Titles \cup {"absent"}
    /\ asked \in BOOLEAN /\ known \in BOOLEAN /\ naming \in BOOLEAN
    /\ enabled \in BOOLEAN /\ deleting \in BOOLEAN
    /\ tasks \in [Tasks -> Live \cup {"free", "cancelled", "ended"}]
    /\ slot \in Tasks \cup {NoTask}
    /\ slot # NoTask => tasks[slot] # "free"
    /\ request \in {"idle", "sent", "opened", "reading", "claimingFirst",
                    "claiming", "sourcing", "turn", "inferring"}
    /\ resume \in {"idle", "reading", "sourcing", "syncing"}
    /\ deletion \in {"none", "stopping", "locking", "state", "row"}
    /\ deletion # "none" => deleting

Init ==
    /\ row = "absent"
    /\ asked = FALSE
    /\ known = FALSE
    /\ naming = FALSE
    /\ enabled \in BOOLEAN
    /\ tasks = [t \in Tasks |-> "free"]
    /\ slot = NoTask
    /\ request = "idle"
    /\ resume = "idle"
    /\ deletion = "none"
    /\ deleting = FALSE
-----------------------------------------------------------------------------
(* The data layer's title operations.                                      *)

\* What chat_title_state returns for a row, present or not.
State(r) == IF r = "absent" THEN "none" ELSE r

\* Any update of a thread inserts its row when it is missing.
Upserted(r) == State(r)

Claimable(r) == State(r) \in {"none", "pending", "fallback"}

\* begin_chat_title.
Begun(r) == IF Claimable(r) THEN "pending" ELSE r

\* Fault: the title is applied without looking at the state again.
Completed_Unchecked(r, title) == title

\* complete_chat_title: only the placeholder is replaced.
Completed(r, title) == IF r = "pending" THEN title ELSE r

\* update_thread with Chainlit's raw first request as the name.
InitiallyNamed(r) ==
    IF r \in {"generated", "fallback", "manual"} THEN r ELSE "pending"

\* update_thread with a name only: the user renames the Chat.
Renamed(r) == "manual"
-----------------------------------------------------------------------------
(* The title task.                                                         *)

At(t, pc) == tasks' = [tasks EXCEPT ![t] = pc]

\* _start_chat_title: one task at a time.
StartChatTitle ==
    IF slot # NoTask /\ tasks[slot] \in Live
    THEN UNCHANGED titling
    ELSE \E t \in Tasks :
            /\ tasks[t] = "free"
            /\ At(t, "waiting")
            /\ slot' = t

\* Fault: the wait for Chainlit's name has no deadline.
WaitForInitialName_NoTimeout(t) ==
    /\ tasks[t] = "waiting" /\ ~naming
    /\ At(t, "claiming")
    /\ UNCHANGED row

\* wait_for_initial_name returns at the event, and after a second without it.
WaitForInitialName(t) ==
    /\ tasks[t] = "waiting"
    /\ At(t, "claiming")
    /\ UNCHANGED row

BeginChatTitle(t) ==
    /\ tasks[t] = "claiming"
    /\ row' = Begun(row)
    /\ At(t, IF Claimable(row) THEN "emitting" ELSE "ended")

EmitFallback(t) ==
    /\ tasks[t] = "emitting"
    /\ At(t, IF enabled THEN "queued" ELSE "untitled")
    /\ UNCHANGED row

\* The inference lock: a Turn's call or another title's may hold it.
InferenceLocked ==
    request = "inferring" \/ \E t \in Tasks : tasks[t] = "asking"

AcquireModel(t) ==
    /\ tasks[t] = "queued"
    /\ ~InferenceLocked
    /\ At(t, "asking")
    /\ UNCHANGED row

\* A failure, the deadline and an unusable answer all give no title.
DescribeChat(t) ==
    /\ tasks[t] = "asking"
    /\ \E pc \in {"titled", "untitled"} : At(t, pc)
    /\ UNCHANGED row

\* Fault: the fallback is emitted again as well.
CompleteChatTitle_Emits(t) ==
    \E pc \in {"titled", "untitled"} :
        /\ tasks[t] = pc
        /\ row' = Completed(row, IF pc = "titled" THEN "generated" ELSE "fallback")
        /\ At(t, IF row = "pending" THEN "announcing" ELSE "ended")

\* The title is emitted once more when the model gave it and it was applied;
\* otherwise the task returns without another await, so it ends in this step.
CompleteChatTitle(t) ==
    \/ /\ tasks[t] = "titled"
       /\ row' = Completed(row, "generated")
       /\ At(t, IF row = "pending" THEN "announcing" ELSE "ended")
    \/ /\ tasks[t] = "untitled"
       /\ row' = Completed(row, "fallback")
       /\ At(t, "ended")

EmitTitle(t) ==
    /\ tasks[t] = "announcing"
    /\ At(t, "ended")
    /\ UNCHANGED row

PublishChatTitle(t) ==
    /\ \/ WaitForInitialName(t) \/ BeginChatTitle(t) \/ EmitFallback(t)
       \/ AcquireModel(t) \/ DescribeChat(t) \/ CompleteChatTitle(t)
       \/ EmitTitle(t)
    /\ UNCHANGED <<asked, known, naming, enabled, slot, request, resume,
                   deletion, deleting>>

\* An emission or a statement fails: the title is given up, silently.
TitleFails(t) ==
    /\ "task" \in Faults
    /\ tasks[t] \in Live
    /\ At(t, "ended")
    /\ UNCHANGED <<stored, naming, enabled, slot, request, resume, deletion,
                   deleting>>

TitleCancelled(t) ==
    /\ tasks[t] = "cancelled"
    /\ At(t, "ended")
    /\ UNCHANGED <<stored, naming, enabled, slot, request, resume, deletion,
                   deleting>>

\* Fault: the callback clears the entry, whichever task it names.
TitleTaskFinished_AnyEntry(t) ==
    /\ tasks[t] = "ended"
    /\ At(t, "free")
    /\ slot' = NoTask
    /\ UNCHANGED <<stored, naming, enabled, request, resume, deletion, deleting>>

\* Fault: the entry stays when its task is over.
TitleTaskFinished_NoEntry(t) ==
    /\ tasks[t] = "ended"
    /\ At(t, "free")
    /\ UNCHANGED slot
    /\ UNCHANGED <<stored, naming, enabled, request, resume, deletion, deleting>>

\* The done callback comes later and may find a newer task in the entry.
TitleTaskFinished(t) ==
    /\ tasks[t] = "ended"
    /\ At(t, "free")
    /\ slot' = IF slot = t THEN NoTask ELSE slot
    /\ UNCHANGED <<stored, naming, enabled, request, resume, deletion, deleting>>
-----------------------------------------------------------------------------
(* A message.                                                              *)

\* The Chat's lock in chat_turn_locks.
TurnLocked == request \notin {"idle", "sent"} \/ deletion = "state"

\* A use that may not overlap with a deletion is neither begun in a Chat that
\* is being deleted nor writing its row or its title when the deletion begins.
MayUse == "message" \in Overlap \/ ~deleting

\* A message that waits for its handler, and a Turn, touch neither.
Apart == {"idle", "sent", "turn", "inferring"}

Unused ==
    /\ "message" \in Overlap \/ (request \in Apart /\ ~naming)
    /\ "resume" \in Overlap \/ resume = "idle"

\* Chainlit accepts a message when the guard lets it through, and stores it:
\* a step brings the thread's row along.
SendMessage ==
    /\ MayUse
    /\ request = "idle" /\ ~InferenceLocked
    /\ request' = "sent"
    /\ row' = Upserted(row)
    /\ asked' = TRUE
    /\ naming' = (naming \/ ~asked)
    /\ UNCHANGED <<known, enabled, titling, resume, deletion, deleting>>

\* on_message ignores a Chat that is being deleted, before and in the lock.
OnMessage ==
    /\ request = "sent"
    /\ \/ deleting /\ request' = "idle"
       \/ ~deleting /\ ~TurnLocked /\ request' = "opened"
    /\ UNCHANGED <<stored, naming, enabled, titling, resume, deletion, deleting>>

SyncConfiguration ==
    /\ request = "opened"
    /\ request' = "reading"
    /\ row' = Upserted(row)
    /\ UNCHANGED <<asked, known, naming, enabled, titling, resume, deletion,
                   deleting>>

Retried(state) == state = "pending" \/ (enabled /\ state = "fallback")

ReadTitle ==
    /\ request = "reading"
    /\ request' = IF ~known THEN "claimingFirst"
                  ELSE IF Retried(State(row)) THEN "claiming" ELSE "turn"
    /\ UNCHANGED <<stored, naming, enabled, titling, resume, deletion, deleting>>

\* The title may have changed since it was read.  Only the first Turn knows
\* its request; a later one reads it, so the task starts a step later.
ClaimTitle ==
    /\ row' = Begun(row)
    /\ \/ /\ request = "claimingFirst" /\ Claimable(row)
          /\ request' = "turn"
          /\ StartChatTitle
       \/ /\ request = "claiming" /\ Claimable(row)
          /\ request' = "sourcing"
          /\ UNCHANGED titling
       \/ /\ request \in {"claimingFirst", "claiming"} /\ ~Claimable(row)
          /\ request' = "turn"
          /\ UNCHANGED titling
    /\ UNCHANGED <<asked, known, naming, enabled, resume, deletion, deleting>>

StartLaterTitle ==
    /\ request = "sourcing"
    /\ request' = "turn"
    /\ StartChatTitle
    /\ UNCHANGED <<stored, naming, enabled, resume, deletion, deleting>>

\* The Turn calls the model any number of times.
Infer ==
    /\ \/ request = "turn" /\ ~InferenceLocked /\ request' = "inferring"
       \/ request = "inferring" /\ request' = "turn"
    /\ UNCHANGED <<stored, naming, enabled, titling, resume, deletion, deleting>>

\* Only a Turn that completes enters the runtime's history.
EndTurn ==
    /\ request \in {"turn", "inferring"}
    /\ request' = "idle"
    /\ known' \in {known, TRUE}
    /\ UNCHANGED <<row, asked, naming, enabled, titling, resume, deletion,
                   deleting>>

\* Stop or an error ends the handler wherever it waits.
StopMessage ==
    /\ "stop" \in Faults
    /\ request \notin {"idle", "turn", "inferring"}
    /\ request' = "idle"
    /\ UNCHANGED <<stored, naming, enabled, titling, resume, deletion, deleting>>

\* Chainlit's own task names the thread after its first message.
FirstInteraction ==
    /\ naming
    /\ naming' = FALSE
    /\ row' = InitiallyNamed(row)
    /\ UNCHANGED <<asked, known, enabled, titling, request, resume, deletion,
                   deleting>>

Rename ==
    /\ MayUse
    /\ row # "absent"
    /\ row' = Renamed(row)
    /\ UNCHANGED <<asked, known, naming, enabled, titling, request, resume,
                   deletion, deleting>>
-----------------------------------------------------------------------------
(* The Chat is opened again.  This handler does not take the Chat's lock.  *)

OnChatResume ==
    /\ resume = "idle" /\ row # "absent"
    /\ ~deleting                            \* ChatBindings.open raises
    /\ resume' = "reading"
    /\ UNCHANGED <<stored, naming, enabled, titling, request, deletion, deleting>>

ResumeReadsTitle ==
    /\ resume = "reading"
    /\ resume' = IF Retried(State(row)) THEN "sourcing" ELSE "syncing"
    /\ UNCHANGED <<stored, naming, enabled, titling, request, deletion, deleting>>

ResumeStartsTitle ==
    /\ resume = "sourcing"
    /\ resume' = "syncing"
    /\ IF asked THEN StartChatTitle ELSE UNCHANGED titling
    /\ UNCHANGED <<stored, naming, enabled, request, deletion, deleting>>

ResumeSyncs ==
    /\ resume = "syncing"
    /\ resume' = "idle"
    /\ row' = Upserted(row)
    /\ UNCHANGED <<asked, known, naming, enabled, titling, request, deletion,
                   deleting>>
-----------------------------------------------------------------------------
(* The Chat is deleted, or the process.                                    *)

\* Fault: the entry is cleared and its task goes on.
MarkDeleting_NoCancel ==
    /\ deletion = "none" /\ row # "absent"
    /\ Unused
    /\ deletion' = "stopping"
    /\ deleting' = TRUE
    /\ slot' = NoTask
    /\ UNCHANGED tasks
    /\ UNCHANGED <<stored, naming, enabled, request, resume>>

\* cleanup_chat takes the task out of the table and cancels it.
MarkDeleting ==
    /\ deletion = "none" /\ row # "absent"
    /\ Unused
    /\ deletion' = "stopping"
    /\ deleting' = TRUE
    /\ slot' = NoTask
    /\ IF slot # NoTask /\ tasks[slot] \in Live
       THEN At(slot, "cancelled")
       ELSE UNCHANGED tasks
    /\ UNCHANGED <<stored, naming, enabled, request, resume>>

\* It waits for the task to be over, and then for the Chat's lock.
TitleStopped ==
    /\ deletion = "stopping"
    /\ \A t \in Tasks : tasks[t] # "cancelled"
    /\ deletion' = "locking"
    /\ UNCHANGED <<stored, naming, enabled, titling, request, resume, deleting>>

LockForDeletion ==
    /\ deletion = "locking" /\ ~TurnLocked
    /\ deletion' = "state"
    /\ UNCHANGED <<stored, naming, enabled, titling, request, resume, deleting>>

DeleteState ==
    /\ deletion = "state"
    /\ deletion' = "row"
    /\ known' = FALSE
    /\ UNCHANGED <<row, asked, naming, enabled, titling, request, resume, deleting>>

\* The rows go after the lock was released.
DeleteRow ==
    /\ deletion = "row"
    /\ deletion' = "none"
    /\ row' = "absent"
    /\ asked' = FALSE
    /\ UNCHANGED <<known, naming, enabled, titling, request, resume, deleting>>

\* A restart may come with another setting.
Crash ==
    /\ "crash" \in Faults
    /\ naming' = FALSE
    /\ enabled' \in BOOLEAN
    /\ tasks' = [t \in Tasks |-> "free"]
    /\ slot' = NoTask
    /\ request' = "idle"
    /\ resume' = "idle"
    /\ deletion' = "none"
    /\ deleting' = FALSE
    /\ UNCHANGED stored
-----------------------------------------------------------------------------
HandleMessage ==
    OnMessage \/ SyncConfiguration \/ ReadTitle \/ ClaimTitle \/ StartLaterTitle

HandleResume == ResumeReadsTitle \/ ResumeStartsTitle \/ ResumeSyncs

Delete == TitleStopped \/ LockForDeletion \/ DeleteState \/ DeleteRow

Next ==
    \/ \E t \in Tasks : \/ PublishChatTitle(t) \/ TitleFails(t)
                        \/ TitleCancelled(t) \/ TitleTaskFinished(t)
    \/ SendMessage \/ HandleMessage \/ Infer \/ EndTurn \/ StopMessage
    \/ FirstInteraction \/ Rename
    \/ OnChatResume \/ HandleResume
    \/ MarkDeleting \/ Delete
    \/ Crash

Spec == Init /\ [][Next]_vars

\* What was started goes on.  asyncio.Lock serves its waiters in turn, so a
\* title that waits for the model is not passed over for ever.
Fairness ==
    /\ \A t \in Tasks : /\ WF_vars(PublishChatTitle(t))
                        /\ SF_vars(PublishChatTitle(t) /\ tasks[t] = "queued")
                        /\ WF_vars(TitleCancelled(t))
                        /\ WF_vars(TitleTaskFinished(t))
    /\ WF_vars(HandleMessage)
    /\ WF_vars(request = "inferring" /\ Infer)
    /\ WF_vars(HandleResume)

FairSpec == Spec /\ Fairness
-----------------------------------------------------------------------------
(* Properties.                                                             *)

\* A title task that still runs is the Chat's entry in chat_title_tasks: only
\* what is there can be cancelled by a deletion or a shutdown, and keeps
\* _start_chat_title from starting a second one.
TitleTaskIsKnown == \A t \in Tasks : tasks[t] \in Live => slot = t

\* A title the user gave or the model generated stays until the Chat is
\* deleted, whatever a title task, a retry or Chainlit's late write does: a
\* manual one is never replaced, a generated one only by the user.
SavedTitleStays ==
    [][/\ row = "manual" => row' \in {"manual", "absent"}
       /\ row = "generated" => row' \in {"generated", "manual", "absent"}]_vars

\* Some task has yet to settle the title.
Served == \E t \in Tasks : tasks[t] \in Unsettled

\* A handler or a resume has decided that the title needs a task.
Claims ==
    \/ request \in {"claimingFirst", "sourcing"} /\ request' = "turn"
    \/ resume = "sourcing" /\ resume' = "syncing" /\ asked /\ ~deleting

\* A handler that claimed a title, or a resume that found it unsettled in a
\* Chat that is not being deleted, leaves a task that has yet to settle it, also
\* when an earlier task was just about to end: begin_chat_title and
\* _start_chat_title do not lose the retry between them.
ClaimIsServed == [][(Claims /\ row' = "pending") => Served']_vars

\* A title task settles a pending title in the end, or is over because of a
\* fault or a deletion: neither Chainlit's missing name nor Turns that hold the
\* model keep it waiting for ever.
PendingEnds == (row = "pending" /\ Served) ~> (row # "pending" \/ ~Served)

\* Once delete_thread has returned, nothing brings the row of the Chat back.
DeletedStaysDeleted ==
    [][deleting /\ deletion = "none" /\ row = "absent"
       => row' = "absent"]_vars
=============================================================================
