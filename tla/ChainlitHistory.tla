-------------------------- MODULE ChainlitHistory --------------------------
(***************************************************************************)
(* The stored UI timeline of one Chat: SQLiteChainlitDataLayer's tables    *)
(* steps, elements, step_revisions and element_revisions, and the blobs of *)
(* LocalStorageClient.  Each action here is one SQL transaction.           *)
(***************************************************************************)
EXTENDS Integers, FiniteSets

CONSTANTS
    Messages,   \* identifiers of user_message steps
    Outputs,    \* identifiers of the steps and messages a Turn shows
    Texts       \* what a step may say

ASSUME StepAssumption == Messages \cap Outputs = {}

VARIABLES
    steps,      \* the rows of steps: identifier to stepOrder and text
    elements,   \* the messages whose attached document has a row in elements
    blobs,      \* the messages whose attached document is in the storage
    archive     \* step_revisions and element_revisions: root to what it replaced

timeline == <<steps, elements, blobs, archive>>

StepIds == Messages \cup Outputs
Row == [order : Nat \ {0}, text : Texts]

IsTimeline(s) == DOMAIN s \subseteq StepIds /\ s \in [DOMAIN s -> Row]

HistoryTypeOK ==
    /\ IsTimeline(steps)
    /\ elements \subseteq Messages
    /\ blobs \subseteq Messages
    /\ DOMAIN archive \subseteq Messages
    /\ \A r \in DOMAIN archive :
         IsTimeline(archive[r].steps) /\ archive[r].elements \subseteq Messages

HistoryInit ==
    /\ steps = [i \in {} |-> 0]
    /\ elements = {}
    /\ blobs = {}
    /\ archive = [r \in {} |-> 0]
-----------------------------------------------------------------------------
Only(f, ids) == [i \in DOMAIN f \cap ids |-> f[i]]

Without(f, ids) == [i \in DOMAIN f \ ids |-> f[i]]

NextOrder(s) ==
    1 + CHOOSE n \in {0} \cup {s[i].order : i \in DOMAIN s} :
          \A i \in DOMAIN s : s[i].order <= n

\* A step that exists keeps its order, and a new one comes last.
Upserted(s, id, text) ==
    [i \in DOMAIN s \cup {id} |->
        IF i # id THEN s[i]
        ELSE [order |-> IF id \in DOMAIN s THEN s[id].order ELSE NextOrder(s),
              text |-> text]]

\* The continuation that starts at an order, and what comes after it.
From(s, n) == {i \in DOMAIN s : s[i].order >= n}

Beyond(s, n) == {i \in DOMAIN s : s[i].order > n}

\* An archive that is already there is kept.
Staged(id) ==
    LET replaced == From(steps, steps[id].order) IN
    [r \in DOMAIN archive \cup {id} |->
        IF r \in DOMAIN archive THEN archive[r]
        ELSE [steps |-> Only(steps, replaced), elements |-> elements \cap replaced]]

\* update_step of a user message whose text changes: archive, then upsert.
\* A row that is gone, or says so already, gives no archive.
UpdateMessage(id, text) ==
    /\ \/ id \in DOMAIN steps /\ archive' = Staged(id)
       \/ (id \in DOMAIN steps => steps[id].text = text) /\ UNCHANGED archive
    /\ steps' = Upserted(steps, id, text)
    /\ UNCHANGED <<elements, blobs>>

WriteStep(id, text) ==
    /\ steps' = Upserted(steps, id, text)
    /\ UNCHANGED <<elements, blobs, archive>>

\* Chainlit stores a new message and its document.
StoreMessage(id, text, attached) ==
    /\ steps' = Upserted(steps, id, text)
    /\ elements' = elements \cup attached
    /\ blobs' = blobs \cup attached
    /\ UNCHANGED archive

\* None if the archive is gone.
ArchivedElements(root) == UNION {archive[r].elements : r \in DOMAIN archive \cap {root}}

ArchivedOrder(root) == archive[root].steps[root].order

TruncateRevision(root) ==
    LET gone == Beyond(steps, ArchivedOrder(root)) IN
    /\ steps' = Without(steps, gone)
    /\ elements' = elements \ gone
    /\ UNCHANGED <<blobs, archive>>

\* Fault: every document of the replaced continuation is removed.
Unreferenced_Any(keys, kept) == keys

\* The documents that no row of elements names.
Unreferenced(keys, kept) == keys \ kept

\* Fault: the archive of a committed Revision stays.
DropArchive_Kept(root) == UNCHANGED <<steps, elements, blobs, archive>>

\* Commit: the archive goes, and its documents are cleaned up afterwards.
DropArchive(root) ==
    /\ archive' = Without(archive, {root})
    /\ UNCHANGED <<steps, elements, blobs>>

CleanUp(keys) ==
    /\ blobs' = blobs \ Unreferenced(keys, elements)
    /\ UNCHANGED <<steps, elements, archive>>

\* Fault: the archived rows are put back beside the present continuation.
RestoreRevision_Merged(root) ==
    IF root \notin DOMAIN archive THEN UNCHANGED timeline
    ELSE LET old == archive[root] IN
         /\ steps' = [i \in DOMAIN steps \cup DOMAIN old.steps |->
                        IF i \in DOMAIN old.steps THEN old.steps[i] ELSE steps[i]]
         /\ elements' = elements \cup old.elements
         /\ archive' = Without(archive, {root})
         /\ UNCHANGED blobs

\* Put the archived continuation back in place of the present one; documents
\* that only the present one had are removed.  Nothing archived: nothing to do.
RestoreRevision(root) ==
    IF root \notin DOMAIN archive THEN UNCHANGED timeline
    ELSE LET old == archive[root]
             gone == From(steps, ArchivedOrder(root)) IN
         /\ steps' = [i \in (DOMAIN steps \ gone) \cup DOMAIN old.steps |->
                        IF i \in DOMAIN old.steps THEN old.steps[i] ELSE steps[i]]
         /\ elements' = (elements \ gone) \cup old.elements
         /\ archive' = Without(archive, {root})
         /\ blobs' = blobs \ Unreferenced(elements \cap gone, elements')
-----------------------------------------------------------------------------
(***************************************************************************)
(* The timeline has one order: no two steps share a stepOrder, whatever    *)
(* was truncated, restored or written late.                                *)
(***************************************************************************)
OrderIsTotal ==
    \A i, j \in DOMAIN steps : i # j => steps[i].order # steps[j].order

(***************************************************************************)
(* A document in the timeline, or in an archive that may be restored, is   *)
(* still in the storage.                                                   *)
(***************************************************************************)
DocumentsKept ==
    /\ elements \subseteq blobs
    /\ \A r \in DOMAIN archive : archive[r].elements \subseteq blobs
=============================================================================
