-------------------------- MODULE EditTransaction --------------------------
(***************************************************************************)
(* Messages and edits of one Chat as the UI sees them: app.py's            *)
(* _handle_message and on_edit_message around the two transactions of a    *)
(* Revision, the runtime's (runtime.revision_transaction) and the stored   *)
(* timeline's (SQLiteChainlitDataLayer.revision), with the background      *)
(* writes of the Turn view (chainlit_persistence) and Stop.                *)
(*                                                                         *)
(* The request guard lets one request run at a time.  Of the runtime only  *)
(* its Turns are kept: ChatRuntime shows that its parts change together.   *)
(***************************************************************************)
EXTENDS ChainlitHistory, Sequences

CONSTANTS
    Stops,      \* the phases in which a Stop may arrive
    MayCrash    \* may the process die and restart?

VARIABLES
    pc,         \* what the task of the request waits for
    job,        \* the request, its rollback data, what its view has shown
    turns,      \* the runtime's history: its completed Turns
    writes,     \* by output: its background writes in flight, in their order
    late,       \* the same, of requests that no longer wait for them
    adrift      \* the edits whose shielded restoration nobody waits for

vars == <<pc, job, turns, writes, late, adrift, timeline>>

Pcs == {"idle", "sent", "running", "entering", "draining", "failing",
        "staging", "opening", "restoring", "undoing", "committing", "cleaning"}

\* Phases a Stop may hit.  Those of the last line are between the end of a
\* transaction and the code that acts on it, or break off a wait.
Phases == {"sent", "running", "draining", "staging", "opening", "committing",
           "undoing",
           "staged", "committed", "entering", "failing", "restoring", "undone"}

ASSUME StopAssumption == Stops \subseteq Phases
ASSUME CrashAssumption == MayCrash \in BOOLEAN

Turn == [id : Messages, text : Texts]

\* No request is served.
NoJob == [kind |-> "none"]

IsRequest(j) ==
    /\ j \in [kind : {"message", "edit"}, id : Messages, text : Texts, was : {j.was},
              shown : SUBSET Outputs, lost : BOOLEAN, caught : BOOLEAN,
              stopped : BOOLEAN, keys : SUBSET Messages]
    /\ IsTimeline(j.was.steps) /\ j.was.elements \subseteq Messages
    /\ j.was.turns \in Seq(Turn)

TypeOK ==
    /\ HistoryTypeOK
    /\ pc \in Pcs
    /\ IF pc = "idle" THEN job = NoJob ELSE IsRequest(job)
    /\ turns \in Seq(Turn)
    /\ writes \in [Outputs -> Seq(Texts)]
    /\ late \in [Outputs -> Seq(Texts)]
    /\ adrift \subseteq Messages

NoWrites == [o \in Outputs |-> <<>>]

Init ==
    /\ HistoryInit
    /\ pc = "idle"
    /\ job = NoJob
    /\ turns = <<>>
    /\ writes = NoWrites
    /\ late = NoWrites
    /\ adrift = {}

Request(kind, id, text) ==
    [kind |-> kind, id |-> id, text |-> text,
     was |-> [steps |-> steps, elements |-> elements, turns |-> turns],
     shown |-> {},      \* the outputs its view has started to show
     lost |-> FALSE,    \* a background write of its view failed
     caught |-> FALSE,  \* the view told of a failure that goes no further
     stopped |-> FALSE, \* Task.cancelling()
     keys |-> {}]       \* documents to clean up after the commit

HasTurn(id) == \E k \in DOMAIN turns : turns[k].id = id

Position(id) == CHOOSE k \in DOMAIN turns : turns[k].id = id

Goto(next) == pc' = next /\ UNCHANGED job

\* Fault: the handler ends and the request guard still holds its request.
Finish_KeepsJob == pc' = "idle" /\ UNCHANGED job

Finish == pc' = "idle" /\ job' = NoJob

\* Where a failure leads once no write of the view is in flight.
Fail == IF job.kind = "edit" THEN Goto("restoring") ELSE Finish

MayStop(phase) ==
    /\ phase \in Stops
    /\ pc # "idle"
    /\ ~job.stopped
-----------------------------------------------------------------------------
(***************************************************************************)
(* Requests.                                                               *)
(***************************************************************************)
Archived(i) == \E r \in DOMAIN archive : i \in DOMAIN archive[r].steps

Send(id, text, attached) ==
    /\ pc = "idle"
    /\ id \notin DOMAIN steps /\ ~Archived(id) /\ ~HasTurn(id)
    /\ StoreMessage(id, text, attached)
    /\ job' = Request("message", id, text)
    /\ pc' = "sent"
    /\ UNCHANGED <<turns, writes, late, adrift>>

\* A new text for a message that has a completed Turn.
Edit(id, text) ==
    /\ pc = "idle"
    /\ id \in DOMAIN steps
    /\ steps[id].text # text
    /\ HasTurn(id)
    /\ job' = Request("edit", id, text)
    /\ pc' = "staging"
    /\ UNCHANGED <<turns, writes, late, adrift, timeline>>

\* The upload of a document is refused, or the runtime is busy.
Reject ==
    /\ pc = "sent"
    /\ Finish
    /\ UNCHANGED <<turns, writes, late, adrift, timeline>>

Start ==
    /\ pc = "sent"
    /\ Goto("running")
    /\ UNCHANGED <<turns, writes, late, adrift, timeline>>

\* update_step archives the continuation and stores the new text, or fails.
Stage ==
    /\ pc = "staging"
    /\ UpdateMessage(job.id, job.text)
    /\ Goto("opening")
    /\ UNCHANGED <<turns, writes, late, adrift>>

StageFails ==
    /\ pc = "staging"
    /\ Finish
    /\ UNCHANGED <<turns, writes, late, adrift, timeline>>

\* The runtime's transaction is open; the timeline's begins once there is an
\* archive.
Truncate ==
    /\ pc = "opening"
    /\ job.id \in DOMAIN archive
    /\ TruncateRevision(job.id)
    /\ Goto("running")
    /\ UNCHANGED <<turns, writes, late, adrift>>

OpenFails ==
    /\ pc = "opening"
    /\ \/ Goto("undoing")       \* before the timeline's transaction
       \/ Goto("restoring")     \* in it
    /\ UNCHANGED <<turns, writes, late, adrift, timeline>>
-----------------------------------------------------------------------------
(***************************************************************************)
(* The Turn: the view schedules writes and does not wait for them.         *)
(***************************************************************************)
Free(o) ==
    /\ o \notin DOMAIN steps /\ ~Archived(o)
    /\ writes[o] = <<>> /\ late[o] = <<>>

Schedule(o, text) == writes' = [writes EXCEPT ![o] = Append(@, text)]

\* start, or a tool call: one more step is shown.
Show(o, text) ==
    /\ pc = "running"
    /\ Free(o) /\ o \notin job.shown
    /\ Schedule(o, text)
    /\ job' = [job EXCEPT !.shown = @ \cup {o}]
    /\ UNCHANGED <<pc, turns, late, adrift, timeline>>

\* complete, fail or cancel: the last word about something shown.
Close(o, text) == o \in job.shown /\ Schedule(o, text)

\* The runtime commits the Turn, for a Revision subject to its rollback.
Answer(o, text) ==
    /\ pc = "running"
    /\ Close(o, text)
    /\ turns' = IF job.kind = "message"
                  THEN Append(turns, [id |-> job.id, text |-> job.text])
                  ELSE Append(SubSeq(turns, 1, Position(job.id) - 1),
                              [id |-> job.id, text |-> job.text])
    /\ Goto("entering")
    /\ UNCHANGED <<late, adrift, timeline>>

\* drain's sleep(0): the writes enter the data layer, and are waited for next.
Enter ==
    /\ pc = "entering"
    /\ Goto("draining")
    /\ UNCHANGED <<turns, writes, late, adrift, timeline>>

RunFails(o, text) ==
    /\ pc = "running"
    /\ Close(o, text)
    /\ pc' = "failing"
    /\ job' = [job EXCEPT !.caught = TRUE]
    /\ UNCHANGED <<turns, late, adrift, timeline>>

\* A background write ends: in the table, or with an error.
Land(o) ==
    /\ writes[o] # <<>>
    /\ WriteStep(o, Head(writes[o]))
    /\ writes' = [writes EXCEPT ![o] = Tail(@)]
    /\ UNCHANGED <<pc, job, turns, late, adrift>>

WriteFails(o) ==
    /\ writes[o] # <<>>
    /\ writes' = [writes EXCEPT ![o] = Tail(@)]
    /\ job' = [job EXCEPT !.lost = TRUE]
    /\ UNCHANGED <<pc, turns, late, adrift, timeline>>

LandLate(o) ==
    /\ late[o] # <<>>
    /\ WriteStep(o, Head(late[o]))
    /\ late' = [late EXCEPT ![o] = Tail(@)]
    /\ UNCHANGED <<pc, job, turns, writes, adrift>>

\* step_writes: every write has ended, and one that failed fails the request.
Drained ==
    /\ pc = "draining"
    /\ writes = NoWrites
    /\ IF job.lost THEN Fail
       ELSE IF job.kind = "edit" THEN Goto("committing") ELSE Finish
    /\ UNCHANGED <<turns, writes, late, adrift, timeline>>

\* Fault: a failed Turn is rolled back while its writes are in flight.
FailureDrained_NoWait ==
    /\ pc = "failing"
    /\ Fail
    /\ late' = [o \in Outputs |-> late[o] \o writes[o]]
    /\ writes' = NoWrites
    /\ UNCHANGED <<turns, adrift, timeline>>

FailureDrained ==
    /\ pc = "failing"
    /\ writes = NoWrites
    /\ Fail
    /\ UNCHANGED <<turns, writes, late, adrift, timeline>>
-----------------------------------------------------------------------------
(***************************************************************************)
(* The end of a Revision.                                                  *)
(***************************************************************************)
Commit ==
    /\ pc = "committing"
    /\ DropArchive(job.id)
    /\ job' = [job EXCEPT !.keys = ArchivedElements(job.id)]
    /\ pc' = "cleaning"
    /\ UNCHANGED <<turns, writes, late, adrift>>

CommitFails ==
    /\ pc = "committing"
    /\ Goto("restoring")
    /\ UNCHANGED <<turns, writes, late, adrift, timeline>>

\* The decision is made.  Blobs are removed one by one: one that cannot be
\* removed is left behind, and a Stop leaves the rest.
Clean ==
    /\ pc = "cleaning"
    /\ \E done \in SUBSET job.keys : CleanUp(done)
    /\ Finish
    /\ UNCHANGED <<turns, writes, late, adrift>>

Restore ==
    /\ pc = "restoring"
    /\ RestoreRevision(job.id)
    /\ Goto("undoing")
    /\ UNCHANGED <<turns, writes, late, adrift>>

\* Fault: the runtime's Turns stay as the Revision made them.
Undo_KeepsTurns ==
    /\ pc = "undoing"
    /\ RestoreRevision(job.id)
    /\ Finish
    /\ UNCHANGED <<turns, writes, late, adrift>>

\* Fault: a failure ahead of the timeline's transaction leaves the new text.
Undo_KeepsText ==
    /\ pc = "undoing"
    /\ turns' = job.was.turns
    /\ Finish
    /\ UNCHANGED <<writes, late, adrift, timeline>>

\* The runtime rolls back, and on_edit_message restores what is still archived.
Undo ==
    /\ pc = "undoing"
    /\ turns' = job.was.turns
    /\ RestoreRevision(job.id)
    /\ Finish
    /\ UNCHANGED <<writes, late, adrift>>
-----------------------------------------------------------------------------
(***************************************************************************)
(* Stop cancels the task once, at the suspension point it is at.           *)
(***************************************************************************)
Stopped(next) == pc' = next /\ job' = [job EXCEPT !.stopped = TRUE]

\* The request goes on, and its writes as well.
LeaveWrites ==
    /\ IF job.kind = "edit" THEN Stopped("restoring") ELSE Finish
    /\ late' = [o \in Outputs |-> late[o] \o writes[o]]
    /\ writes' = NoWrites

\* Nothing to undo, or the code around the suspension point undoes it.
StopEarly ==
    /\ \/ pc = "sent" /\ MayStop("sent") /\ Finish
       \/ pc = "staging" /\ MayStop("staging") /\ Finish
       \/ pc = "opening" /\ MayStop("opening") /\
            (Stopped("undoing") \/ Stopped("restoring"))
    /\ UNCHANGED <<turns, writes, late, adrift, timeline>>

\* view.cancel shows it, and the writes are drained before the rollback.
StopRun ==
    /\ pc = "running" /\ MayStop("running")
    /\ Stopped("failing")
    /\ IF job.shown = {} THEN UNCHANGED writes
       ELSE \E o \in job.shown, text \in Texts : Schedule(o, text)
    /\ UNCHANGED <<turns, late, adrift, timeline>>

\* Nothing is cancelled yet and nothing awaited: the request goes on to its
\* rollback, or ends, with its writes in flight.
StopEntering ==
    /\ pc = "entering" /\ MayStop("entering")
    /\ LeaveWrites
    /\ UNCHANGED <<turns, adrift, timeline>>

\* The drain has gathered the writes: it cancels them and waits for their end.
StopDrain ==
    /\ pc = "draining" /\ MayStop("draining")
    /\ pc' = pc
    /\ job' = [job EXCEPT !.stopped = TRUE, !.lost = TRUE]
    /\ UNCHANGED <<turns, writes, late, adrift, timeline>>

StopCommit ==
    /\ pc = "committing" /\ MayStop("committing")
    /\ Stopped("restoring")
    /\ UNCHANGED <<turns, writes, late, adrift, timeline>>

\* update_step has committed, but the cancellation is raised in it, ahead of
\* the try block of on_edit_message.
StopStaged ==
    /\ pc = "staging" /\ MayStop("staged")
    /\ UpdateMessage(job.id, job.text)
    /\ Finish
    /\ UNCHANGED <<turns, writes, late, adrift>>

\* _commit_revision has committed, but the cancellation is raised in it.
StopCommitted ==
    /\ pc = "committing" /\ MayStop("committed")
    /\ DropArchive(job.id)
    /\ Stopped("restoring")
    /\ UNCHANGED <<turns, writes, late, adrift>>

\* The first Stop comes after a failure: the shielded drain is left alone.
StopFailing ==
    /\ pc = "failing" /\ MayStop("failing")
    /\ LeaveWrites
    /\ UNCHANGED <<turns, adrift, timeline>>

\* The first Stop comes during the rollback of a failed edit: a restoration
\* that is shielded from it goes on alone.  At most one per message does.
SetAdrift(id) == id \notin adrift /\ adrift' = adrift \cup {id}

StopRestoring ==
    /\ pc = "restoring" /\ MayStop("restoring")
    /\ Stopped("undoing")
    /\ SetAdrift(job.id)
    /\ UNCHANGED <<turns, writes, late, timeline>>

\* The runtime's own rollback finishes before the Stop is raised.
StopUndoing ==
    /\ pc = "undoing" /\ MayStop("undoing")
    /\ Stopped("undoing")
    /\ UNCHANGED <<turns, writes, late, adrift, timeline>>

\* The restoration of on_edit_message is broken off, with the runtime already
\* back: after a failure that _handle_message has not caught.
StopUndone ==
    /\ pc = "undoing" /\ MayStop("undone")
    /\ ~job.caught
    /\ turns' = job.was.turns
    /\ SetAdrift(job.id)
    /\ Finish
    /\ UNCHANGED <<writes, late, timeline>>

RestoreAdrift(id) ==
    /\ id \in adrift
    /\ RestoreRevision(id)
    /\ adrift' = adrift \ {id}
    /\ UNCHANGED <<pc, job, turns, writes, late>>

Crash ==
    /\ MayCrash
    /\ Finish
    /\ writes' = NoWrites
    /\ late' = NoWrites
    /\ adrift' = {}
    /\ UNCHANGED <<turns, timeline>>
-----------------------------------------------------------------------------
Receive ==
    \E id \in Messages, text \in Texts :
        (\E attached \in SUBSET {id} : Send(id, text, attached)) \/ Edit(id, text)

Work ==
    \/ Reject \/ Start \/ Stage \/ StageFails \/ Truncate \/ OpenFails
    \/ \E o \in Outputs, text \in Texts :
         Show(o, text) \/ Answer(o, text) \/ RunFails(o, text)
    \/ Enter \/ Drained \/ FailureDrained
    \/ Commit \/ CommitFails \/ Clean \/ Restore \/ Undo

Stop ==
    \/ StopEarly \/ StopRun \/ StopDrain \/ StopCommit
    \/ StopStaged \/ StopCommitted \/ StopEntering \/ StopFailing
    \/ StopRestoring \/ StopUndoing \/ StopUndone

Background ==
    \/ \E o \in Outputs : Land(o) \/ WriteFails(o) \/ LandLate(o)
    \/ \E id \in Messages : RestoreAdrift(id)

Next == Receive \/ Work \/ Stop \/ Background \/ Crash

Spec == Init /\ [][Next]_vars
-----------------------------------------------------------------------------
(***************************************************************************)
(* An edit ends in one of two ways.  Either the runtime's Turns are what   *)
(* they were, and so is the timeline, row by row; or the edited message is *)
(* the last one, says the new text, and only what its new Turn showed      *)
(* comes after it.                                                         *)
(***************************************************************************)
EditIsAtomic ==
    [][pc # "idle" /\ pc' = "idle" /\ job.kind = "edit" =>
         \/ /\ turns' = job.was.turns
            /\ steps' = job.was.steps
            /\ elements' = job.was.elements
         \/ /\ turns'[Len(turns')] = [id |-> job.id, text |-> job.text]
            /\ steps'[job.id].text = job.text
            /\ Beyond(steps', steps'[job.id].order) = job.shown]_vars

(***************************************************************************)
(* An edit that fails or is stopped takes no step and no document away:    *)
(* after its rollback the timeline has those it had when the edit began.   *)
(***************************************************************************)
FailureKeepsSteps ==
    [][Undo => /\ DOMAIN steps' = DOMAIN job.was.steps
               /\ elements' = job.was.elements]_vars

(***************************************************************************)
(* Between requests the timeline shows every completed Turn's request, in  *)
(* the order of the runtime's history and with its text.                   *)
(***************************************************************************)
TimelineShowsTurns ==
    pc = "idle" =>
        \A k \in DOMAIN turns :
            /\ turns[k].id \in DOMAIN steps
            /\ steps[turns[k].id].text = turns[k].text
            /\ k > 1 => steps[turns[k - 1].id].order < steps[turns[k].id].order

(***************************************************************************)
(* Recovery archives are temporary: one outlives its request only as long  *)
(* as a restoration that a Stop broke off is still to put it back.         *)
(***************************************************************************)
ArchivesAreTemporary == pc = "idle" => DOMAIN archive \subseteq adrift

(***************************************************************************)
(* Nothing is written to the timeline when no request is being served: no  *)
(* late write brings a discarded step back.                                *)
(***************************************************************************)
NoLateWrites == [][pc = "idle" /\ pc' = "idle" => UNCHANGED timeline]_vars
=============================================================================
