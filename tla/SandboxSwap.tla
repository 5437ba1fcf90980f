----------------------------- MODULE SandboxSwap -----------------------------
(***************************************************************************)
(* SandboxFiles (sandbox_files.py) step by step, for one Chat: _mutate,    *)
(* whose lock is held until the worker thread has finished, also after a   *)
(* cancellation, and in the thread every operation on the file system,     *)
(* each of which may fail.  A restoration copies both trees, then swaps    *)
(* them one after the other, and takes the swap back when one step fails.  *)
(*                                                                         *)
(* A process that dies leaves the disk of any of these states behind.      *)
(***************************************************************************)
EXTENDS Naturals, FiniteSets, Functions

CONSTANTS
    Tasks, NoTask,
    Gone,               \* no such directory
    Slots,              \* the candidates "name", "name (2)", ... in this order
    MaxFile, MaxChat,   \* max_file_bytes, max_chat_bytes
    Sizes,              \* of the sources of uploads
    Old,                \* a tree that older releases have left
    MaxErrors,          \* bound on the file errors of one operation
    MaxSnapshots        \* bound on the snapshots of the Chat

ASSUME TaskAssumption == NoTask \notin Tasks
ASSUME LimitAssumption ==
    /\ Slots \subseteq Nat /\ IsFiniteSet(Slots)
    /\ MaxFile \in Nat /\ MaxChat \in Nat /\ MaxErrors \in Nat
    /\ Sizes \subseteq Nat \ {0}
    /\ Cardinality(Slots) > MaxChat

VARIABLES
    lock,       \* the Chat's asyncio.Lock
    task,       \* where each task is in _mutate
    work,       \* what each task's thread is doing
    disk,       \* the trees files/ and artifacts/
    snapshots,  \* what is in snapshots/
    deleting    \* has a deletion of the Chat begun?

vars == <<lock, task, work, disk, snapshots, deleting>>

Dirs == <<"files", "artifacts">>
Names == {"files", "artifacts"}

Trees == [Slots -> Nat]
Nothing == [i \in Slots |-> 0]
Nowhere == [n \in Names |-> Gone]

\* A missing directory reads as an empty one.
Contents(tree) == IF tree = Gone THEN Nothing ELSE tree

Total(tree) == FoldFunction(+, 0, Contents(tree))

\* The trees of older releases were filled under the same limits.
ASSUME TreeAssumption ==
    /\ Gone \notin Trees
    /\ Old \in Trees /\ Total(Old) <= MaxChat
    /\ \A i \in Slots : Old[i] <= MaxFile

Places == [Names -> Trees \cup {Gone}]

Steps == {"measure", "copy", "publish",             \* _upload
          "read", "seal",                           \* _snapshot
          "stage", "move", "install",               \* _restore
          "remove", "recover",                      \*   and its rollback
          "discard"}                                \* _delete_chat

Idle ==
    [step |-> "none", dir |-> 1, size |-> 0, slot |-> 0, used |-> 0,
     source |-> Nowhere, revisions |-> Nowhere, backups |-> Nowhere,
     moved |-> {}, installed |-> {}, errors |-> 0]

Snapshot == [version : 1 .. 2, files : Trees, artifacts : Trees]

TypeOK ==
    /\ lock \in Tasks \cup {NoTask}
    /\ task \in [Tasks -> {"idle", "queued", "waiting", "cancelled"}]
    /\ work \in
         [Tasks ->
            [step : Steps \cup {"none", "done"}, dir : 1 .. 2,
             size : Nat, slot : Nat, used : Nat,
             source : Places, revisions : Places, backups : Places,
             moved : SUBSET Names, installed : SUBSET Names,
             errors : 0 .. MaxErrors]]
    /\ disk \in Places
    /\ snapshots \subseteq Snapshot
    /\ deleting \in BOOLEAN
    /\ \A t \in Tasks : work[t].step # "none" <=> task[t] \in {"waiting", "cancelled"}

Init ==
    /\ lock = NoTask
    /\ task = [t \in Tasks |-> "idle"]
    /\ work = [t \in Tasks |-> Idle]
    /\ disk \in {Nowhere, [Nowhere EXCEPT !["artifacts"] = Old]}
    /\ snapshots \in {{}, {[version |-> 1, files |-> Old, artifacts |-> Nothing]}}
    /\ deleting = FALSE
-----------------------------------------------------------------------------
(* _mutate, on the event loop.                                             *)

At(t, step) == work[t].step = step

Do(t, record) == work' = [work EXCEPT ![t] = record]

\* The thread starts with the first step of its operation; a restoration is
\* given the snapshot that its caller knows.
Begin(t) ==
    \/ Do(t, [Idle EXCEPT !.step = "measure"])
    \/ /\ Cardinality(snapshots) < MaxSnapshots
       /\ Do(t, [Idle EXCEPT !.step = "read"])
    \/ \E s \in snapshots :
         Do(t, [Idle EXCEPT !.step = "stage",
                  !.source = [files |-> s.files,
                              artifacts |-> IF s.version = 2 THEN s.artifacts
                                                             ELSE Nothing]])

\* The callers never take back that they are deleting a Chat: whatever comes of
\* it, they ask for nothing else but the deletion again.
Start(t) ==
    \/ ~deleting /\ Begin(t) /\ UNCHANGED deleting
    \/ Do(t, [Idle EXCEPT !.step = "discard"]) /\ deleting' = TRUE

Call(t) ==
    /\ task[t] = "idle"
    /\ task' = [task EXCEPT ![t] = "queued"]
    /\ UNCHANGED <<lock, work, disk, snapshots, deleting>>

Acquire(t) ==
    /\ task[t] = "queued"
    /\ lock = NoTask
    /\ lock' = t
    /\ task' = [task EXCEPT ![t] = "waiting"]
    /\ Start(t)
    /\ UNCHANGED <<disk, snapshots>>

\* Fault: a cancelled caller does not wait for its thread.
Cancel_NotAwaited(t) ==
    /\ task[t] \in {"queued", "waiting"}
    /\ task' = [task EXCEPT ![t] = "idle"]
    /\ lock' = IF lock = t THEN NoTask ELSE lock
    /\ UNCHANGED <<work, disk, snapshots, deleting>>

\* One cancellation: the caller then waits for its thread.
Cancel(t) ==
    /\ \/ task[t] = "queued" /\ task' = [task EXCEPT ![t] = "idle"]
       \/ task[t] = "waiting" /\ task' = [task EXCEPT ![t] = "cancelled"]
    /\ UNCHANGED <<lock, work, disk, snapshots, deleting>>

\* Fault: only a caller that was not cancelled gives the lock back.
Return_Cancelled(t) ==
    /\ At(t, "done")
    /\ Do(t, Idle)
    /\ task' = [task EXCEPT ![t] = "idle"]
    /\ lock' = IF task[t] = "waiting" THEN NoTask ELSE lock
    /\ UNCHANGED <<disk, snapshots, deleting>>

Return(t) ==
    /\ At(t, "done")
    /\ Do(t, Idle)
    /\ task' = [task EXCEPT ![t] = "idle"]
    /\ lock' = NoTask
    /\ UNCHANGED <<disk, snapshots, deleting>>
-----------------------------------------------------------------------------
(* The thread.                                                             *)

loop == <<lock, task, deleting>>

\* The operation is over; what it had staged is removed.
Finish(t) == Do(t, [Idle EXCEPT !.step = "done"])

Fail(t) == Finish(t) /\ UNCHANGED <<disk, snapshots>>

FreeSlot(i) ==
    /\ Contents(disk["files"])[i] = 0
    /\ \A j \in Slots : j < i => Contents(disk["files"])[j] # 0

\* The source is measured, and a name and room are found for it.
Measure(t) ==
    /\ At(t, "measure")
    /\ \E size \in Sizes, i \in Slots :
         /\ FreeSlot(i)
         /\ IF size > MaxFile
            THEN Fail(t)
            ELSE /\ disk' = [disk EXCEPT !["files"] = Contents(@)]
                 /\ IF Total(disk["files"]) + size > MaxChat
                    THEN Finish(t)
                    ELSE Do(t, [work[t] EXCEPT !.step = "copy", !.slot = i,
                                  !.used = Total(disk["files"])])
                 /\ UNCHANGED snapshots
    /\ UNCHANGED loop

\* The source may have grown, or shrunk, since it was measured.
Copy(t) ==
    /\ At(t, "copy")
    /\ \E size \in Sizes :
         Do(t, [work[t] EXCEPT !.step = "publish", !.size = size])
    /\ UNCHANGED <<loop, disk, snapshots>>

\* Fault: the copy is not measured again.
Publish_Unmeasured(t) ==
    /\ At(t, "publish")
    /\ Finish(t)
    /\ disk' = [disk EXCEPT !["files"][work[t].slot] = work[t].size]
    /\ UNCHANGED <<loop, snapshots>>

Publish(t) ==
    /\ At(t, "publish")
    /\ Finish(t)
    /\ IF work[t].size > MaxFile \/ work[t].used + work[t].size > MaxChat
       THEN UNCHANGED disk
       ELSE disk' = [disk EXCEPT !["files"][work[t].slot] = work[t].size]
    /\ UNCHANGED <<loop, snapshots>>

\* The next directory of a loop over both, or the step after the loop.
NextDir(t, record, step) ==
    Do(t, IF work[t].dir = 1 THEN [record EXCEPT !.dir = 2]
                             ELSE [record EXCEPT !.dir = 1, !.step = step])

Read(t) ==
    /\ At(t, "read")
    /\ LET n == Dirs[work[t].dir]
       IN NextDir(t, [work[t] EXCEPT !.revisions[n] = Contents(disk[n])], "seal")
    /\ UNCHANGED <<loop, disk, snapshots>>

\* A snapshot with its version counts; without it, nobody learns its name.
Seal(t) ==
    /\ At(t, "seal")
    /\ Finish(t)
    /\ snapshots' = snapshots \cup
         {[version |-> 2, files |-> work[t].revisions["files"],
           artifacts |-> work[t].revisions["artifacts"]]}
    /\ UNCHANGED <<loop, disk>>

Stage(t) ==
    /\ At(t, "stage")
    /\ LET n == Dirs[work[t].dir]
       IN NextDir(t, [work[t] EXCEPT !.revisions[n] = work[t].source[n]], "move")
    /\ UNCHANGED <<loop, disk, snapshots>>

\* The current tree, if there is one, goes to the backups.
Move(t) ==
    /\ At(t, "move")
    /\ LET n == Dirs[work[t].dir]
       IN /\ Do(t, [work[t] EXCEPT !.step = "install", !.backups[n] = disk[n],
                                   !.moved = @ \cup {n}])
          /\ disk' = [disk EXCEPT ![n] = Gone]
    /\ UNCHANGED <<loop, snapshots>>

\* The staged tree takes its place.  With the second one, all is done.
Install(t) ==
    /\ At(t, "install")
    /\ LET n == Dirs[work[t].dir]
       IN /\ disk' = [disk EXCEPT ![n] = work[t].revisions[n]]
          /\ IF work[t].dir = 1
             THEN Do(t, [work[t] EXCEPT !.step = "move", !.dir = 2,
                           !.revisions[n] = Gone, !.installed = {n}])
             ELSE Finish(t)
    /\ UNCHANGED <<loop, snapshots>>

\* The rollback, in reverse order: what was installed is removed ...
Remove(t) ==
    /\ At(t, "remove")
    /\ LET n == Dirs[work[t].dir]
       IN /\ Do(t, [work[t] EXCEPT !.step = "recover"])
          /\ disk' = IF n \in work[t].installed
                     THEN [disk EXCEPT ![n] = Gone] ELSE disk
    /\ UNCHANGED <<loop, snapshots>>

\* ... and the backup put back.  Then the staging area is removed.
Recover(t) ==
    /\ At(t, "recover")
    /\ LET n == Dirs[work[t].dir]
       IN /\ disk' = IF work[t].backups[n] # Gone
                     THEN [disk EXCEPT ![n] = work[t].backups[n]] ELSE disk
          /\ IF work[t].dir = 2
             THEN Do(t, [work[t] EXCEPT !.step = "remove", !.dir = 1,
                           !.backups[n] = Gone, !.moved = @ \ {n}])
             ELSE Finish(t)
    /\ UNCHANGED <<loop, snapshots>>

\* A tree without one of its files.
Smaller(tree) == {[tree EXCEPT ![i] = 0] : i \in {j \in Slots : tree[j] # 0}}

\* A snapshot without one file, or without the one that says its version.
LessOf(s) ==
    {[s EXCEPT !.files = tree] : tree \in Smaller(s.files)}
      \cup {[s EXCEPT !.artifacts = tree] : tree \in Smaller(s.artifacts)}
      \cup {[s EXCEPT !.version = v] : v \in {1} \ {s.version}}

\* rmtree of the Chat's directory: one file or empty directory after the other.
DiscardPart(t) ==
    /\ At(t, "discard")
    /\ \/ \E n \in Names :
            /\ disk[n] # Gone
            /\ \E left \in IF disk[n] = Nothing THEN {Gone} ELSE Smaller(disk[n]) :
                 disk' = [disk EXCEPT ![n] = left]
            /\ UNCHANGED snapshots
       \/ \E s \in snapshots :
            /\ \/ \E less \in LessOf(s) : snapshots' = (snapshots \ {s}) \cup {less}
               \/ LessOf(s) = {} /\ snapshots' = snapshots \ {s}
            /\ UNCHANGED disk
    /\ UNCHANGED <<loop, work>>

Discarded(t) ==
    /\ At(t, "discard")
    /\ disk = Nowhere /\ snapshots = {}
    /\ Finish(t)
    /\ UNCHANGED <<loop, disk, snapshots>>

\* Fault: the staging area is dropped without a rollback.
IoError_NoRollback(t) ==
    /\ work[t].step \in Steps /\ work[t].errors < MaxErrors
    /\ Finish(t)
    /\ UNCHANGED <<loop, disk, snapshots>>

\* A call of the file system fails.  While trees are being copied or swapped
\* the rollback begins; in the rollback itself nothing is tried again.
IoError(t) ==
    /\ work[t].step \in Steps /\ work[t].errors < MaxErrors
    /\ IF work[t].step \in {"move", "install"}
       THEN Do(t, [work[t] EXCEPT !.step = "remove", !.dir = 2, !.errors = @ + 1])
       ELSE Finish(t)
    /\ UNCHANGED <<loop, disk, snapshots>>
-----------------------------------------------------------------------------
Thread(t) ==
    \/ Measure(t) \/ Copy(t) \/ Publish(t)
    \/ Read(t) \/ Seal(t)
    \/ Stage(t) \/ Move(t) \/ Install(t) \/ Remove(t) \/ Recover(t)
    \/ DiscardPart(t) \/ Discarded(t)
    \/ IoError(t)

Next ==
    \E t \in Tasks :
        Call(t) \/ Acquire(t) \/ Cancel(t) \/ Return(t) \/ Thread(t)

Spec == Init /\ [][Next]_vars

\* A thread runs on, the loop resumes who waits for it, and asyncio.Lock wakes
\* its waiters in order.
Fairness ==
    \A t \in Tasks :
        WF_vars(Thread(t)) /\ WF_vars(Return(t)) /\ SF_vars(Acquire(t))

FairSpec == Spec /\ Fairness
-----------------------------------------------------------------------------
(* Properties.                                                             *)

\* A thread, also one whose caller was cancelled, works under the Chat's lock,
\* so that no two of them ever change one Chat's files at the same time.
ThreadHasLock ==
    \A t \in Tasks : work[t].step \notin {"none", "done"} => lock = t

\* The documents of a Chat and each of them stay within their limits, although
\* a source can grow after it was measured, and restored trees come on top.
QuotaKept ==
    /\ Total(disk["files"]) <= MaxChat
    /\ \A i \in Slots : Contents(disk["files"])[i] <= MaxFile

\* The tree of the Chat that counts: until the second tree is installed, and
\* again once the rollback has put it back, the one before the restoration.
Counted(n) ==
    LET swapping == {t \in Tasks : n \in work[t].moved}
    IN Contents(IF swapping = {} THEN disk[n]
                ELSE work[CHOOSE t \in swapping : TRUE].backups[n])

Store == INSTANCE SandboxStore
    WITH files <- Counted("files"), artifacts <- Counted("artifacts")

\* A restoration takes effect as a whole or not at all, an upload never takes
\* the place of another, a snapshot is what the Chat was at one time, and an
\* error or a cancellation in between leaves no trace (SandboxStore).
ImplementsStore == Store!StoreSpec

\* Every operation comes back to its caller and gives the lock back.
EveryMutationEnds == \A t \in Tasks : task[t] # "idle" ~> task[t] = "idle"
=============================================================================
