# LocalChat: a verification development

LocalChat (`local_agent_chat/`) is a single-user Chainlit application around a
ReAct agent. A user talks to a model in *Chats*; a request with its answer is a
*Turn*; editing an old request is a *Revision*, which discards that Turn and
everything after it and answers again from the state before it. The state of a
Chat is spread over three SQLite databases, a directory tree and a blob
directory, none of which share a transaction; the program makes them change
together with locks, snapshots and compensation on one asyncio event loop, with
worker threads for file operations. That is what this project is about.

Paths below are relative to `src/local_agent_chat/`.

## 1. Inventory

| Part | State | Operations | Talks to |
|---|---|---|---|
| Chat runtime (`runtime.py`) | one `_turn_lock`, a lock per Chat, the set of Chats being deleted | `submit`, `revise`, `revision_transaction`, `has_turn`, `delete_chat` | calls Agent, Sandbox, History; called by `app.py` |
| Agent context (`agent_execution.py`, `agent_memory.py`) | `agent_context` row and `agent_snapshots` rows per Chat, a lock per Chat | `checkpoint`, `restore`, `run`, `delete_chat` | history (import of old Chats), bindings, model |
| Turn history (`sqlite_history.py`) | table `turns` with a `sequence` per Chat | `append`, `replace_from`, `snapshot_from`, `restore_snapshot`, `get`, `has_chat`, `context_messages`, `delete_chat` | none |
| Sandbox files (`sandbox_files.py`) | per Chat `files/`, `artifacts/`, `snapshots/`, `staging/`, a lock | `upload`, `snapshot`, `restore`, `delete_chat`, each in a worker thread | none |
| Handlers (`app.py`) | a lock per Chat, `deleting_chats`, title tasks | `on_message`, `on_edit_message`, `cleanup_chat`, `on_chat_resume`, titles | all of the above |
| UI timeline (`chainlit_data.py`) | `threads`, `steps` with `stepOrder`, `elements`, `feedbacks` and their `*_revisions` archives | `create_step`, `update_step`, `revision` (stage, truncate, commit, restore), titles, `delete_thread` | blobs (`local_storage.py`) |
| Background writes (`chainlit_persistence.py`) | the write tasks of the current Turn | `track_step_write`, `step_writes` | timeline |
| Turn view (`chainlit_ui.py`) | the root step, the tools, the open answer | `start`, `handle`, `complete`, `fail`, `cancel` | schedules background writes |
| Edit, Stop, request guard (`chainlit_revision.py`, `chainlit_stop.py`, `chainlit_requests.py`) | `session.current_task`, one `reserved` flag | one edit task per session, one cancellation per task, one request over all sockets | handlers |
| Titles (`chat_titles.py`, `auxiliary_labels.py`) | title state in the thread's metadata | begin, complete, rename | timeline, inference |
| Inference (`llm_retry.py`, `providers.py`, `retry_policy.py`) | one inference lock, retry counters | `run_streaming_model`, `run_auxiliary`, `_agenerate`, `_astream` | provider |
| Context budget (`agent_context.py`) | the message list of a run | summary, guard | inference |
| Bindings (`chat_bindings.py`) | Chat to model profile, Chats being deleted | `open`, `delete`, `mark_deleting` | none |
| SQLite gate (`sqlite_storage.py`) | one thread lock per database file (NFS mode) | `connect`, sessions | the stores |
| Launcher (`cli.py`, `installation.py`, `server.py`) | `flock`, lock directory, child process | start, signals, clean-up | operating system |
| Tools, uploads, proxy, settings, prompts | none that lasts | read-only file tools, HTTP adapters, parsing | none |

What is hard here:

* **Concurrency.** Requests of several sockets, Stop, deletion of a Chat, title
  tasks and background writes of steps interleave at every `await`; a worker
  thread outlives the cancelled `await` that started it.
* **Partial failure.** A Turn changes context, files, history and timeline one
  after the other, each of which may fail after the others have committed.
* **Cancellation.** Stop raises `CancelledError` at whatever the task awaits, a
  rollback and a commit included.
* **Crashes.** Nothing replays or undoes a half-done edit when the process starts.
* **Deletion.** A Chat may be deleted while its Turn runs, rolls back or waits.

What makes each part correct:

* runtime, context, history, files: a Turn or Revision takes effect in all its
  parts or in none; Turns do not overlap; every Turn stays revisable; the model
  is reminded of exactly the Turns in the history; a deleted Chat stays empty;
  every handler ends.
* timeline: it shows the runtime's Turns in their order; an edit is atomic; no
  late write outlives its request; documents that something still names stay in
  the storage; archives do not outlive their edit; the order of steps is total.
* titles: a rename by the user is final; one title task per Chat; nothing brings
  a deleted thread's row back.
* inference: one provider call at a time; nothing that has produced output is
  replayed; both retry budgets are bounded; every call ends.
* guard, gate, launcher: mutual exclusion without a lost slot, a deadlock or two
  instances over one data directory.

## 2. Modules

| Module | Models | Checked by |
|---|---|---|
| `TurnLedger` | the abstract promise of the runtime: atomic Turns, Revisions, deletion | refined by `ChatRuntime` |
| `ChatRuntime` | `runtime.py` over `agent_execution.py`, `agent_memory.py`, `sqlite_history.py`, `sandbox_files.py`, driven by `app.py` | `runtime_*` runs, `ChatRuntimeProofs`, `ChatRuntimeLedgerProofs` |
| `ChatRuntimeProofs` | theorems about `ChatRuntime`: types, locks, exclusion | TLAPS |
| `ChatRuntimeLedgerProofs` | theorems about `ChatRuntime`: deletion, contents, the refinement of `TurnLedger` | TLAPS |
| `ChainlitHistory` | the stored timeline: tables, archives, blobs, one operator per SQL transaction | through `EditTransaction` |
| `EditTransaction` | a request as the UI sees it: `on_message`, `on_edit_message`, the view's background writes, Stop, crash | `edit_*` and `stop_*` runs, `EditTransactionProofs` |
| `EditTransactionProofs` | theorems about `EditTransaction` and `ChainlitHistory` | TLAPS |
| `ChatTitle` | the title of a Chat and its deletion: `_publish_chat_title`, the handlers that start it, rename, resume, `cleanup_chat`, `delete_thread` | `chat_title*` runs, `ChatTitleProofs` |
| `ChatTitleProofs` | theorems about `ChatTitle` | TLAPS |
| `Inference` | one call of a model: the inference lock, the nested retry budgets, timeouts (`llm_retry.py`, `providers.py`) | through `RequestGuard`, `InferenceProofs` |
| `ContextSummary` | the batches of a summary and the token budgets (`agent_context.py`, `AgentConfig`) | through `RequestGuard`, `RequestGuardProofs` |
| `RequestGuard` | the requests of all tabs: guard, task, Stop, ReAct loop and title tasks, composed with the two above | `requests`, `RequestGuardProofs` |
| `InferenceProofs` | theorems about `Inference` | TLAPS |
| `RequestGuardProofs` | theorems about `ContextSummary` and `RequestGuard` | TLAPS |
| `SandboxStore` | what the rest takes `sandbox_files.py` for: atomic uploads, snapshots, restorations | refined by `SandboxSwap` |
| `SandboxSwap` | `sandbox_files.py` operation by operation, in its worker threads, with file errors | `sandbox_swap`, `SandboxSwapProofs` |
| `SandboxSwapProofs` | theorems about `SandboxSwap`: exclusion, limits, the refinement of `SandboxStore` | TLAPS |
| `InstanceLock` | `runtime_workspace`, the launcher and its child (`installation.py`, `cli.py`, `server.py`) | through `NfsExclusion` |
| `SqliteGate` | the gates around databases without locks (`sqlite_storage.py`) | through `NfsExclusion` |
| `NfsExclusion` | both locks together: who uses a database | `nfs_exclusion`, `interrupted_start`, `NfsExclusionProofs` |
| `NfsExclusionProofs` | theorems about `NfsExclusion` | TLAPS |
| `MCChatRuntime`, `MCEditTransaction`, `MCChatTitle`, `MCRequestGuard`, `MCSandboxSwap`, `MCNfsExclusion` | values of the constants for TLC | |

Operators whose comment begins with *Fault:* are not part of a specification.
Each is a definition as a plausible bug would have it; putting it in the place
of the definition below it breaks the property named in `PROJECT.json`, which
shows that the property depends on that piece of code.

### ChatRuntime

A task (`Tasks`) serves one message, edit or deletion. Its `pc` names the
suspension point it is at, so a step is the code between two `await`s that
really suspend. The SQLite stores are `async` in name only: they do not suspend,
and their calls merge with the code around them. File operations suspend until
their worker thread is done; `restoring[c]` is such a thread at work, holding the
Sandbox lock of the Chat, and `FilesRestored` / `FilesNotRestored` are its end.

| pc | the task is | holds |
|---|---|---|
| `queued` | waiting for `app.chat_turn_locks[c]` | nothing |
| `admitted` | in `_handle_message`, uploading | `appLock` |
| `snapshot` | in `_enter_chat`..`sandbox.snapshot` | `appLock`, `turnLock`, `chatLock` |
| `ready`, `rewinding`, `attaching` | a Revision, before `agent.run` | the same |
| `starting`, `running` | in `agent.run` | the same |
| `view` | the caller's part of `revision_transaction` | the same |
| `rollback`, `restoring` | in `_restore_state` or `_restore_revision_state` | the same |
| `closing` | a deletion waiting for `_locks[c]` | `appLock` |
| `removeFiles`, `removeHistory` | inside `delete_state` | `appLock`, `chatLock` |

Abstractions:

* A context is the sequence of the requests its messages come from: answers and
  summaries are functions of those as far as the properties can tell.
* A checkpoint is immutable, so the token stands for its content; `memSnaps` and
  `fileSnaps` say whether the rows and the directory still exist. A `Legacy` token
  belongs to a Turn of an older version and stands for the Turns ahead of it.
* A message identifier is never used again while something remembers it.
* The guard (`RequestGuard`) would let only one message or edit through; the model does not
  rely on it, because the runtime rejects overlap by itself and its tests call it
  concurrently. `EditTransaction` does rely on it.
* The post-commit part of a handler (the last view writes) belongs to
  `EditTransaction`; `CommitTurn` gives back all the locks at once.
* `uploads` of an edit: `revision_transaction` takes a `before_run` that uploads
  the message's documents, and the model lets an edit have some.
* A task is cancelled at most once (`chainlit_stop.py:33`).
* SQLite errors inside a rollback's `agent.restore` are not modelled; those of the
  history write (`HistoryFails`) and of the files (`FaultyFiles`) are.

Refinement: `Ledger` reads an open transaction through its rollback data, as not
having happened yet, and takes a Chat for empty from the moment it is marked.

### ChainlitHistory and EditTransaction

`steps` maps an identifier to its `stepOrder` and text; `elements` and `blobs`
are the documents' rows and contents; `archive` is what `_stage_revision` copied.
Feedback rows follow the same path as elements and are left out.

`pc` is where the one request in progress is: `sent`, `running`, `entering`, `draining` and
`failing` are a Turn; an edit goes through `staging` (`update_step`), `opening`
(`revision_transaction` and `_wait_for_revision`), `running`, `draining`,
`committing` and `cleaning`, or after a failure through `restoring` and `undoing`.
`writes[o]` are the background writes of one step in their order (each step has a
lock); different steps land in any order. `late` are writes that nobody waits for
any more, and `adrift` the edits whose shielded restoration nobody waits for any
more. `Stops` selects where a Stop may arrive. Seven places (`sent`, `running`,
`draining`, `staging`, `opening`, `committing`, `undoing`) are suspension points
whose code handles the cancellation. Six are not:

* `staged`: `update_step` has committed and is about to return (`app.py:442`);
* `committed`: `_commit_revision` has committed and is about to return;
* `entering`: the drain after an answered Turn is at its `sleep(0)`
  (`chainlit_persistence.py:18`), which comes before it gathers the writes and is
  not shielded (line 59). Nothing is cancelled or awaited: the request ends, or its
  rollback begins, and the writes go on. In `draining`, where the writes have been
  gathered, a Stop cancels them and waits for their end;
* `failing`: the shielded drain of a Turn that failed by itself (line 56);
* `restoring`: the shielded `_restore_revision` inside `revision()`
  (`chainlit_data.py:409`, `414`), after such a failure;
* `undone`: the one in `on_edit_message` (`app.py:446`), with the runtime already
  rolled back. At the last two the restoration goes on alone, during what is left of
  its request or after it, perhaps into the next one.

The restorations of the last two are put in `adrift` once per message at most. A
Stop in the runtime's own rollback (`undoing`) waits for it, as `ChatRuntime` shows
in detail.

Of the runtime only the Turns are kept, because `ChatRuntime` shows that its
parts change together.

### ChatTitle

One Chat. `row` is the title state in the thread's metadata (`chat_titles.py`), or
`absent`; every `update_thread` inserts a missing row. `tasks[t]` is what a title
task waits for, in the order of `_publish_chat_title`: `waiting` (the first
interaction, one second at most), `claiming`, `emitting`, `queued` (for the
inference lock), `asking` (the model), `titled` or `untitled`, `announcing`.
`slot` is the Chat's entry in `chat_title_tasks`, which the done callback of an
`ended` task clears a step later. `request` is a message in `_handle_message`: it
reads the title state, claims the title and starts the task in separate steps.
`resume` is `on_chat_resume`, which takes no lock, and `deletion` is
`delete_thread` with `cleanup_chat` inside.

* `begin_chat_title`, `complete_chat_title` and `update_thread` hold the thread
  lock while they read and write, so each is a step. `delete_thread` does not take
  this lock: `chat_title` keeps the Chat unused while it is deleted
  (`Overlap = {}`); what a use that races with the deletion does is told in section 3.
* After `complete_chat_title` applied a fallback the task returns without another
  `await`; that is why `CompleteChatTitle` ends it in the same step, and
  `ClaimIsServed` depends on it.
* A failure of the model, its deadline and an unusable answer are one outcome.
* A cancelled task does nothing more: a statement it was executing counts as done
  before the cancellation or as not done.
* Chainlit's own writes (the message's step, the name of the first interaction)
  are external; tests call them as the model does.
* `Faults` selects what may go wrong: a failing emission or statement, a Stop or
  error in the handler, a restart. `Overlap` selects which uses may be under way or
  begin while the Chat is deleted.
* `enabled` is the setting `APP_GENERATE_CHAT_TITLES`; a restart may change it.

### Inference, ContextSummary and RequestGuard

`Inference` and `ContextSummary` are written without their callers; `RequestGuard`
takes both with EXTENDS and gives every step of theirs to a task that makes it, so
their theorems carry over to the whole.

`call[c]` is the call of a task: `queued` for the lock, `requesting` an answer,
`backoff` in the inner loop's pause (`_agenerate`, `_astream`) or `pausing` in the
outer one's (`run_streaming_model`), both with the lock held. `attempt` and
`retries` are the counters of the loops, `chunks` the one a stream starts with; the
history variables `asked` and `shown` say what the provider and the caller have seen.
Time is left out: a timeout may pass whenever one is set. The kinds of call are
those of the code: a streamed or plain call of the answer, a plain one for a summary,
both in `run_streaming_model`, and a title in `run_auxiliary`, whose deadline covers
its attempts but not its wait for the lock.

A `compaction` is `_acreate_summary` at work: texts are numbers of characters,
`start` and `fragment` are the code's, and `folded` records which characters the
summary stands for. `AgentConfigAccepted` is what `AgentConfig.__post_init__` checks.

`handler[s]` is the socket handler of a tab (`refusing`, or `calling` Chainlit's
own handler, which may return without a task or fail), `task[s]` its
`session.current_task`: `running`, `summarizing`, `deciding` (in the guards ahead of
a call), `asking`, `closing` (commit or rollback, with the view's last writes), and
`over` until the done callback has run. The guard reads and claims the slot in
one step because no `await` lies between. Left out:

* the task of Chainlit's `on_chat_start`, which is a current task as well, but calls
  no model and is not guarded;
* the suspensions of tools, which end like any other; LangChain's choice of the
  messages a summary replaces (it aims at `keep_tokens`, or the last message, and may keep more so that no tool
  result loses its call; `CompactedContextFits` speaks of contexts within the budget).

### SandboxSwap and SandboxStore

One Chat. `task[t]` is where a caller is in `_mutate`, `work[t]` what its thread
does next; a thread goes on after its caller was cancelled. Each step is one
operation on the file system, and each may fail (`IoError`, at most `MaxErrors` in an
operation). A tree maps the candidates `name`, `name (2)`, ... for one name to the
size of the file, so that quota and collisions are real and contents are not. `disk`
holds the trees `files/` and `artifacts/`, `Gone` where there is no directory.
`revisions`, `backups`, `moved` and `installed` are the staging area of `_restore`.

`ImplementsStore` reads a swap that is not complete as not begun: `Counted` shows
the backup while a tree is moved. A deletion may stop half-way, in the abstract
store too: `rmtree` removes one file or empty directory after the other
(`DiscardPart`), and an error leaves whatever is left, also a snapshot that has lost
a document or its `snapshot.json` and so reads as one of version 1 (`LessOf`).
`deleting` is the mark that `cleanup_chat` and `ChatRuntime.delete_chat` set first
and never take back: no upload, snapshot or restoration begins after it, so nothing
reads what a failed deletion has left, and `SandboxStore` lets it be any part of
what there was.

There is no crash action: a process that dies leaves the disk of some
state of the model behind, and nothing puts a half-done swap right at the next
start (`docs/adr/0015` says that files are not crash-atomic with the databases).
Nor does the mark outlive the process: whether the Chat of a deletion that failed is
still there to be used then depends on Chainlit's row, which is not in this model.
The rollback's `_remove_path` is one step: an error in it would be the second of the
operation.
`replace=True` of `upload` has no caller.

### InstanceLock, SqliteGate and NfsExclusion

`launcher[p]` is where a start of the program is: `flocked`, `owner` (of the lock
directory), `starting` and `serving` (around the installation of the signal
handlers), `stopping`, `unlocking`, or `killed`. `server[p]` says that its child
runs, which it may do without the launcher. `Flocking` are the starts whose file
system has `flock`; the others go on with the directory alone. `RemoveStale` is the
operator who follows `README.md:66`. `Hasty` are the starts that a Ctrl+C may
reach before the signal handlers are set.

A *user* of a database is a session of Chainlit's data layer or a synchronous store
of a server. A session polls for the gate, hands statements to the worker thread
of its connection, and closes; a cancellation, or several, waits for the worker. A
store blocks the event loop of its server from the wait for the gate to the end of
`connect`. `SeparateAssumption` holds by the construction of the stores in `app.py`:
`chainlit.sqlite3` is used by sessions only (the one synchronous connection, of the
schema set-up, ends before the server serves), the other databases by stores only.
Polling is unfair, so nothing is claimed of a poller; what is claimed is that a gate
is given back.

## 3. Runs

| Run | Instance | Shows |
|---|---|---|
| `runtime_ledger` | 1 Chat with one imported Turn, 2 tasks, 3 identifiers, 2 texts, 1 document | `TypeOK`, `EveryTurnRevisable`, `RunSeesItsPast`, `ImplementsLedger`, `NothingRevived` |
| `runtime_locks` | 2 Chats, 2 tasks, 2 identifiers, file faults; fairness | `Exclusion`, `ContextMatchesHistory`, `EveryRequestEnds` |
| `edit_transaction` | 2 messages, 3 outputs, 2 texts, Stop at the seven protected places | `EditIsAtomic`, `TimelineShowsTurns`, `DocumentsKept`, `ArchivesAreTemporary`, `NoLateWrites`, `TypeOK` |
| `edit_interrupted` | 1 message, 2 outputs, Stop at the six unprotected places, crashes | `OrderIsTotal` |
| `stop_unprotected` | Stop at `staged` and `committed` | a disagreement, below |
| `edit_after_crash` | a crash at any point | a disagreement, below |
| `stop_in_drain` | Stop at `entering` | a disagreement, below |
| `chat_title` | 2 title tasks; failures, Stop, restart; the Chat is not used while it is deleted; fairness | `TitleTaskIsKnown`, `SavedTitleStays`, `ClaimIsServed`, `PendingEnds`, `DeletedStaysDeleted`, `TypeOK` |
| `requests` | 2 tabs, 2 title tasks, one retry in each loop, 1 chunk, 2 model calls; contexts below and at the trigger, texts of one and of several fragments, summaries that are empty, short, as long as is accepted, and too long; fairness | `SlotIsOwned`, `OneCallAtATime`, `RequestsBounded`, `NeverReplayed`, `SummaryRequestFits`, `NothingSkipped`, `CompactedContextFits`, `RequestEnds`, `TypeOK` |
| `sandbox_swap` | 2 tasks, 3 names, sizes below, at and above the limits, 2 snapshots, one file error in an operation; fairness | `ThreadHasLock`, `QuotaKept`, `ImplementsStore`, `EveryMutationEnds`, `TypeOK` |
| `nfs_exclusion` | 3 starts, 2 of them with flock; 3 sessions and 2 stores in two servers, 2 databases; kills; fairness | `OneServer`, `GuardHasOwner`, `OneUserPerDatabase`, `EveryGateIsFreed`, `TypeOK` |
| `interrupted_start` | the same, with a Ctrl+C during one start | a disagreement, below |

Why the bounds are enough. Two tasks in one Chat are a Turn and whatever
competes with it: a second request, a deletion, or a Turn that starts while the
first one's rollback is still in its thread; `runtime_locks` puts the competitor in
another Chat as well, and `TurnsExclude` is proved for any number of them. Three identifiers give an imported Turn, a
current one and a later one, so an edit has a prefix, a target and a
continuation to discard. Two texts are what an edit needs to change something.
One document can be present, absent, attached by the request, or brought back by
a snapshot. In `EditTransaction` three outputs let a Turn show two steps beside
one of another Turn, so that writes land out of order. The unprotected Stops and
crashes multiply what may be under way at once: `edit_interrupted` has one message,
which is sent once and edited over and over, and two outputs, so a late write or a
restoration that goes on alone meets a later edit; `TimelineIsOrdered` is proved for
any number of messages. `runtime_ledger` has no file
faults because an error while files are put back is reported to the user as a
rollback that did not succeed, which the ledger does not promise to hide.

Two title tasks are an ended one whose callback is due, or a cancelled one, beside a
new one. The table has one entry, so there is never more to tell apart; a start
waits in the model while neither is free.

In `requests` two tabs and two titles are a holder, a waiter and one who comes
later for the lock, and an owner and a rival for the slot. One retry in each loop
lets the budgets nest; one chunk tells an empty stream from one that has begun. The
limits are the smallest that pass `AgentConfig`'s checks and still tell its cases
apart; the proofs cover all others. In `sandbox_swap` the second task is the one a
lock given back too early would let in. A second file error of one operation, in
its rollback, is not in the run: with `MaxErrors = 2` `ImplementsStore` fails,
because the rollback is not tried again and its `finally` removes the backups.
In `nfs_exclusion` a third start finds the directory of the second and the flock of
the first, and each server has rivals for a gate and a store that blocks the loop.

`CHECK_DEADLOCK FALSE` is used for `EditTransaction`, whose messages are bounded, so
once all of them are sent and refused the model stops, and for `ChatTitle`, where
nothing happens any more in a deleted Chat. The other models are checked for
deadlock.

Fairness. asyncio resumes a task whose wait is over (weak fairness of each task's
steps and of each worker thread), and `asyncio.Lock` serves its waiters in order
(strong fairness of taking a lock, which a task gets although others take it in
between): this is assumed in `runtime_locks`, `chat_title`, `requests` and
`sandbox_swap`. A model call ends, with an answer or an error: a plain call has a
timeout, every pause a limit, and a stream a deadline for each chunk but none in
all, so that `RequestEnds` rests on a stream having finitely many chunks
(`MaxChunks`). In `nfs_exclusion` the loop's steps are
strongly fair, because a store may block the loop again and again without keeping
what is ready from its turn, and a session has finitely many statements (strong
fairness of `End`); threads are weakly fair. No fairness is assumed of users,
launchers, kills or pollers: requests, Stop and signals need not come, and a poller
may never find the gate open. In `chat_title` a Turn need not end.

### Disagreements with the documentation

`docs/architecture.md:50` says: "Failure or cancellation restores context
(including its prior summary), files, runtime Turns and UI steps. UI recovery
archives are temporary." Two runs find a behaviour that does not:

* `stop_unprotected`: `update_step` is called ahead of the `try` that undoes it,
  so a Stop that is raised as it returns leaves the new text in the timeline; and a
  cancellation raised after `_commit_revision` has committed finds no archive to
  restore, and the runtime alone goes back. (`Stops` with one of the two places
  shows each by itself.)
* `edit_after_crash`: an archive left by a crash is kept by the next edit of that
  message, and a failure of that edit restores the timeline before the crash.

One more run is about what a Stop leaves running. `chainlit_persistence.py:47`
says "Finish Chainlit's background writes before deciding a Turn transaction" and
lines 54-55 "Drain before rollback so a late UI write cannot resurrect a discarded
continuation".

* `stop_in_drain`: the drain of an answered Turn begins with a bare `sleep(0)`. A
  Stop delivered there is raised before any write is gathered. In the trace it ends a
  message, and one of its writes lands while a later edit is being served and then
  given up. If it hits an edit, a write may land after `_restore_revision`, and a step
  of the discarded Turn stays in the timeline.

`README.md:53` says that a second instance on the same data does not start.
`interrupted_start`: the child is started before the launcher's signal handlers are
set and outside of the `try` that ends it (`cli.py:290-303`). A Ctrl+C in between
ends the launcher, which removes the lock directory; the child, in a session of its
own, goes on, and the next start runs a second server over the same data. (The
launcher also removes the directory the child was started in; a child that has not
read its files by then fails, which narrows the window. A Ctrl+C between the creation
of the lock directory and its `try`, `installation.py:67-73`, would leave the
directory behind; that window of one bytecode is not modelled.)

Three further behaviours are in the modules, outside the constants of the runs that
pass, and have no run of their own:

* `"undone"` among the `Stops` violates `NoLateWrites`. When an edit fails by itself,
  the first Stop may hit the shielded wait for its restoration (`app.py:446`; likewise
  `chainlit_data.py:409` and `414`) and end the request; the restoration changes the
  timeline after it. It then has put back what it should, unless another request came
  in between; that it takes its archive away is proved (`ArchivesAreRemoved`).
* `"failing"` among them violates it as well: the same Stop during the shielded drain
  of a Turn that failed by itself leaves its writes behind.
* `Overlap = {"resume"}` violates `DeletedStaysDeleted`. `on_chat_resume` looks at the
  deletion mark once and stores the Chat's profile several awaits later
  (`app.py:239-245`); `update_thread` inserts the row that is gone. It passes no user,
  so no user's list of Chats shows the row: what is left in the database is an orphan
  with the Chat's identifier and its profile. A message sent from another tab has the
  same effect through `create_step`.

## 4. Proofs

Every theorem holds for all values of the constants that satisfy the `ASSUME`s of
the modules; what it needs beyond them stands in its own `ASSUME` and below. The
invariants it rests on were checked by TLC on the runs' instances before they were
proved.

### The runtime: `ChatRuntimeProofs`, `ChatRuntimeLedgerProofs`

For every set of Chats, tasks, identifiers, texts and documents, every imported
history, and with or without file faults:

| Theorem | States |
|---|---|
| `TypeCorrect` | `Spec => []TypeOK` |
| `TurnsExclude` | `Spec => []Exclusion` |
| `DeletionIsFinal` | `Spec => NothingRevived` |
| `ContextAndHistoryAgree` | `Spec => []ContextMatchesHistory` |
| `TurnsStayRevisable` | `Spec => []EveryTurnRevisable` |
| `RunsSeeTheirPast` | `Spec => []RunSeesItsPast` |
| `TurnsAreAtomic` | `Spec => ImplementsLedger`, if `~FaultyFiles` |

None of these is inductive. `Inductive` proves `IInv`, about control: `Exclusion`
speaks of pcs, and what makes it true is who owns which lock.

* `Served`: an idle task has no request, a deletion is at a deletion's pcs and a
  Turn at a Turn's;
* `LocksHeld`: each pc owns the locks of the table above, and a lock is owned by
  the task whose pc says so;
* `Targets`: from the snapshot on, an edit's Turn is in the history at `at`;
* `Quiet`: no file restoration is in flight in a Chat whose Turn is past its
  snapshot, except those it waits for.

`DeletionInductive` adds `Gone`: who may still work in a Chat that is being
deleted, and what the deletion has removed. `ContentInductive` adds `Content`, about
data, in terms of the history a transaction began with (`Entry`):

* `Kept`: what a transaction holds for its rollback is what it began with;
* `Reminded`, `Replaced`, `Provided`: what context, history and files are at each
  pc, compared with it;
* `RowsGood`: each checkpoint in a history is the context of the Turns ahead;
* `NewId`: the identifier of a message without a Turn is its own, which is what
  keeps `replace_from` from finding another Turn.

By the locks of `IInv` a step leaves other Chats and other tasks' locals alone
(`Alone`), so each action has to restore the invariant of its own Chat only.
`TurnsAreAtomic` then maps each action to a step of `TurnLedger` or to none: the
ledger changes when a Turn's history write ends `submit`, when the view of a
Revision is accepted, when a document outside a transaction arrives, and when a Chat
is marked; everything else, the rollback and its worker threads included, changes
nothing in it. `~FaultyFiles` is needed, and is that of the run: a restoration that
fails leaves files behind that no ledger explains, which the code reports to the
user.

### The timeline: `EditTransactionProofs`

For any messages, outputs and texts and any number of requests, with every Stop and
crash of the model:

* `EditTypeCorrect == Spec => []TypeOK`
* `TimelineIsOrdered == Spec => []OrderIsTotal`

`OrderInv` has to speak of the archives as well: a restoration brings rows back, and
their orders are new because what is left of the timeline comes before the root of
the archive (`IsEnd`). `_next_order` takes the largest order and one more; that there
is one follows from a bound of the orders, as the smallest such bound
(`NextOrderIsLast`).

Under `Unstaged` (no crash and no Stop at `staged`; the other twelve places, failing
writes and failing Turns are in):

* `ArchivesAreRemoved`: `Spec => []ArchivesAreTemporary`

Under `Protected` (no crash, and no Stop at the six unprotected places; the seven
protected ones, failing writes and failing Turns are in):

* `EditsAreAtomic`: `Spec => EditIsAtomic`
* `TurnsAreShown`: `Spec => []TimelineShowsTurns`
* `DocumentsAreKept`: `Spec => []DocumentsKept`
* `NothingIsLate`: `Spec => NoLateWrites`

`stop_unprotected` and `stop_in_drain` refute `TimelineShowsTurns` and `EditIsAtomic`
otherwise, and a Stop at `undone` or `failing` refutes `NoLateWrites` (section 3). `SafeInv` says for
each phase of an edit what the timeline is compared with the one it began with
(`job.was`): unchanged; or with the rows ahead of the edited message as they were
(`SameHead`), the rest in the archive (`Replaced`), the message with its new text at
its old place (`Edited`), and after it only what the new Turn shows or will show when
its background writes have landed (`Shown`, `Complete`).

### Titles: `ChatTitleProofs`

For any number of title tasks, any faults and any overlap:

* `TitleTypeCorrect == Spec => []TypeOK`
* `TaskCanBeCancelled == Spec => []TitleTaskIsKnown`
* `TitleIsFinal == Spec => SavedTitleStays`

If `Overlap = {}`, as in the run (`Overlap = {"resume"}` refutes the second):

* `ClaimsAreServed`: `Spec => ClaimIsServed`
* `DeletionIsFinal`: `Spec => DeletedStaysDeleted`

The invariant adds `DeletionAlone` to the first two: a Chat that nothing may use
while it is deleted is unused from the mark on, and its entry is empty. With
`TitleTaskIsKnown` no task is live then, and only a live task or a handler writes
the row. The entry is what makes `TitleTaskIsKnown` inductive: a task starts only
when the entry's task has ended (`StartKeepsTasks`), a callback clears only its own
(`FinishedInv`). `ClaimsAreServed` needs `Announced` as well: a task that is live
and has nothing left but its announcement has saved its title, so the row is not
one that a handler can claim.

### Inference, summary and guard: `InferenceProofs`, `RequestGuardProofs`

For any number of callers, tabs and titles, any budgets, any limits that
`AgentConfig` accepts and texts of any length:

* `CallsAreSequential`, `RetriesAreBounded`, `OutputIsNeverReplayed` of `InferenceSpec`.
  `RequestsBounded` is not inductive: the invariant says how many requests the two
  counters stand for (`retries` full rounds of the inner loop and `attempt` more),
  and that a call that has shown a chunk is never in a pause.
* `EverySummaryRequestFits`, `NoTextIsSkipped` of `SummarySpec`: the invariant says
  that a fragment under way has the size it was given for the summary of that time.
* All five of the composition (`ProgramCallsAreSequential`,
  `ProgramRetriesAreBounded`, `ProgramReplaysNothing`, `ProgramSummaryRequestsFit`,
  `ProgramSkipsNothing`): every step of `RequestGuard` is a step of `InferenceSpec`
  and of `SummarySpec` or leaves them alone (`StepOfInference`, `StepOfSummary`).
* `OneRequestAtATime == Spec => []SlotIsOwned`: one owner of the slot, whose refusal
  of all others follows from the slot alone.
* `CompactionSuffices == Spec => []CompactedContextFits`: an accepted summary is
  within the budget `InBudget` compared it with until the context is replaced.
* `RequestsTypeCorrect == Spec => []TypeOK`, which bounds the calls of a request by
  `max_model_calls` and gives each summary a request that makes it.

### Files: `SandboxSwapProofs`

For any number of tasks, names and snapshots and any sizes and limits:

* `ThreadsAreExclusive == Spec => []ThreadHasLock`
* `SandboxTypeCorrect == Spec => []TypeOK`
* `LimitsAreKept == Spec => []QuotaKept`, with any number of file errors
* `StoreIsKept`: `Spec => ImplementsStore`, if `MaxErrors <= 1`; a deletion may stop
  at any file

A thread that works has a caller that still waits, cancelled or not, and who waits
has the lock; so one thread works at a time (`OneWorks`) and its record can be
related to the disk. `SwapInductive` says of each step what has been measured,
staged, moved and installed (`Placed`, `Captured`, `Staged`, `Swapped`), and that the
Chat, its snapshots, backups and staged trees are within the limits (`Sized`).
`TreeAssumption` takes the trees of an older release (`Old`) to be within them too;
they were filled under the same checks. `DeletionIsLast` adds what the refinement
needs besides: a thread that deletes has the mark set, and any other one was started
before it. What a tree holds is a sum over its names,
defined by a recursion; where a proof would use induction over the set of names, it
takes a smallest counterexample instead, which is first-order (`Smallest`;
the sum over a set is that over the rest and any one element).

`StoreIsKept` needs `MaxErrors <= 1` because a second error of one operation, inside
its rollback, loses backups: TLC finds the counterexample with `MaxErrors = 2`.

### Locks of databases and data: `NfsExclusionProofs`

For any number of starts, sessions and stores and under the hypothesis
`Hasty = {}` (no Ctrl+C between `Popen` and the signal handlers), without which
`interrupted_start` refutes the second:

* `NfsTypeCorrect`: `Spec => []TypeOK`
* `TwoServersNeverMeet`: `Spec => []OneServer`
* `NoGuardIsLeft`: `Spec => []GuardHasOwner`
* `DatabasesAreExclusive`: `Spec => []OneUserPerDatabase`

`OneServer` alone is not inductive: a server whose launcher was killed is protected
by the directory only. The invariant says that whoever claims the data, as launcher
or as a server left behind, finds the directory there and is the only one. In a
server, who uses a connection has its gate (`UserHasGate`).

### Left to TLC

`EveryRequestEnds`, `PendingEnds`, `RequestEnds`, `EveryMutationEnds` and
`EveryGateIsFreed` are liveness under fairness, which this prover does not reach;
the runs check them. The other invariants and action properties of the passing runs
and both refinements are theorems, under the conditions named above. Outside these
conditions nothing is claimed: what a second file error, a failing file restoration
or an unprotected Stop leaves behind is described in section 3.

## 5. Plan

Theorems that may come: what still holds of the ledger with file faults (a Chat
whose restoration failed differs from it in its files only), and of the timeline
after a crash (`TimelineShowsTurns` up to the interrupted edit), both of which need
weaker properties first.

Modules that may come: which model profile a Chat is bound to
(`chat_bindings.py`, `on_chat_start`, `on_settings_update`), and the choice of a
port by the launcher.

## 6. Not modelled

The texts of answers, summaries and titles (the model's business) and LangChain's
graph around the ReAct loop; the tools (`sandbox_tools.py`), which read and change
nothing that lasts; the length of delays (`retry_policy.py`); provider protocols,
HTTP, WebSocket, upload and proxy handling; reading of settings and the command
line, and the set-up dialogue of `localchat init`; rendering and translations;
schema migrations; the scripts that check a distribution.
