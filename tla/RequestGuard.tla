---------------------------- MODULE RequestGuard ----------------------------
(***************************************************************************)
(* The requests of all browser sessions and the models they call: the      *)
(* guard that lets one request in (chainlit_requests.py), the task each    *)
(* request runs in (chainlit_revision.py and Chainlit), Stop               *)
(* (chainlit_stop.py), the ReAct loop with its summary and its limits      *)
(* (agent_context.py, agent_execution.py) and the title tasks, which share *)
(* the inference lock (Inference) but not the guard.                       *)
(*                                                                         *)
(* A step is what runs between two awaits.  A session has one current      *)
(* task, which calls models in the session's name here.  The task of       *)
(* Chainlit's on_chat_start is left out.                                   *)
(***************************************************************************)
EXTENDS Inference, ContextSummary

CONSTANTS
    Sessions,       \* WebSocket sessions: tabs
    Titles,         \* title tasks
    MaxModelCalls,  \* max_model_calls of AgentConfig
    Contexts,       \* sizes of the messages ahead of a call, in tokens
    Texts,          \* lengths of the older part of the messages
    Summaries,      \* lengths of a summary
    SystemTokens    \* tokens of the system prompt

ASSUME SessionAssumption ==
    /\ Callers = Sessions \cup Titles /\ Sessions \cap Titles = {}
    /\ MaxModelCalls \in Nat \ {0}
ASSUME SizeAssumption ==
    /\ Contexts \subseteq Nat /\ Texts \subseteq Nat \ {0}
    /\ Summaries \subseteq Nat
    /\ SystemTokens \in 0 .. Allowance

VARIABLES
    reserved,   \* the guard's slot
    handler,    \* what each session's socket handler waits for
    task,       \* session.current_task: where it is in its request
    turn        \* the request's model calls so far, the size of its messages

guarding == <<reserved, handler>>
vars == <<inference, compaction, guarding, task, turn>>

\* A task that is "over" is done, but its callback has not run yet.
Running == {"running", "summarizing", "deciding", "asking", "closing"}

NewTurn == [calls |-> 0, tokens |-> 0, kept |-> 0]

TypeOK ==
    /\ InferenceTypeOK
    /\ SummaryTypeOK
    /\ reserved \in BOOLEAN
    /\ handler \in [Sessions -> {"idle", "refusing", "calling"}]
    /\ task \in [Sessions -> Running \cup {"none", "over"}]
    /\ turn \in [Sessions -> [calls : 0 .. MaxModelCalls, tokens : Nat, kept : Nat]]
    /\ compaction # NoSummary => \E s \in Sessions : task[s] = "summarizing"

Init ==
    /\ InferenceInit
    /\ SummaryInit
    /\ reserved = FALSE
    /\ handler = [s \in Sessions |-> "idle"]
    /\ task = [s \in Sessions |-> "none"]
    /\ turn = [s \in Sessions |-> NewTurn]

Goto(s, pc) == task' = [task EXCEPT ![s] = pc]

SessionBusy(s) == task[s] \in Running
-----------------------------------------------------------------------------
(* The socket handlers of messages and edits.                              *)

Handler(s, pc) == handler' = [handler EXCEPT ![s] = pc]

\* Fault: a request in another tab is not looked at.
Refused_OwnTabOnly(s) == Busy \/ SessionBusy(s)

Refused(s) == reserved \/ Busy \/ SessionBusy(s)

\* The slot is claimed in the step that found it free.
Receive(s) ==
    /\ handler[s] = "idle"
    /\ IF Refused(s)
       THEN Handler(s, "refusing") /\ UNCHANGED reserved
       ELSE Handler(s, "calling") /\ reserved' = TRUE
    /\ UNCHANGED <<inference, compaction, task, turn>>

\* The visible history is restored and the user told.
Refuse(s) ==
    /\ handler[s] = "refusing"
    /\ Handler(s, "idle")
    /\ UNCHANGED <<inference, compaction, reserved, task, turn>>

\* Chainlit's handler, or the Revision's, has started the task of the request.
TaskCreated(s) ==
    /\ handler[s] = "calling"
    /\ Handler(s, "idle")
    /\ Goto(s, "running")
    /\ turn' = [turn EXCEPT ![s] = NewTurn]
    /\ UNCHANGED <<inference, compaction, reserved>>

\* It returned without a new task, raised or was cancelled.
NoTaskCreated(s) ==
    /\ handler[s] = "calling"
    /\ Handler(s, "idle")
    /\ reserved' = FALSE
    /\ UNCHANGED <<inference, compaction, task, turn>>

\* The done callback.
Release(s) ==
    /\ task[s] = "over"
    /\ Goto(s, "none")
    /\ reserved' = FALSE
    /\ UNCHANGED <<inference, compaction, handler, turn>>
-----------------------------------------------------------------------------
(* The task of a request: the model node of the ReAct loop and its hooks.  *)

Measured(s, tokens, kept) ==
    turn' = [turn EXCEPT ![s].tokens = tokens, ![s].kept = kept]

\* Ahead of a call, messages that have reached the trigger are summarized.
MeasureContext(s) ==
    /\ task[s] = "running"
    /\ \E tokens \in Contexts :
         \/ /\ tokens < TriggerTokens
            /\ Measured(s, tokens, 0)
            /\ Goto(s, "deciding")
            /\ UNCHANGED compaction
         \/ /\ tokens >= TriggerTokens
            /\ \E text \in Texts : BeginSummary(text)
            /\ Goto(s, "summarizing")
            /\ UNCHANGED turn
    /\ UNCHANGED <<inference, guarding>>

AskForSummary(s) ==
    /\ task[s] = "summarizing"
    /\ NextFragment
    /\ Begin(s, "plain")
    /\ UNCHANGED <<guarding, task, turn>>

TakeSummary(s) ==
    /\ task[s] = "summarizing"
    /\ Take(s, "returned")
    /\ \/ (\E size \in Summaries : Fold(size)) /\ UNCHANGED task
       \/ SummaryFails /\ Goto(s, "closing")
    /\ UNCHANGED <<guarding, turn>>

\* The call failed, or there was no room for one.
SummaryEnds(s) ==
    /\ task[s] = "summarizing"
    /\ \/ Take(s, "raised") /\ SummaryFails
       \/ NoRoom /\ UNCHANGED inference
    /\ Goto(s, "closing")
    /\ UNCHANGED <<guarding, turn>>

\* The summary and the messages that were kept: they are within KeepTokens,
\* unless the last message alone is longer.
ReplaceContext(s) ==
    /\ task[s] = "summarizing"
    /\ Summarized
    /\ \E kept \in Contexts :
         Measured(s, Tokens(compaction.summary) + kept, kept)
    /\ Goto(s, "deciding")
    /\ UNCHANGED <<inference, guarding>>

\* Fault: the limit of model calls is checked one call too late.
MayCall_OneMore(s) ==
    /\ turn[s].calls <= MaxModelCalls
    /\ Fits(SystemTokens + turn[s].tokens)

\* The limits of model calls and of the context; both raise.
MayCall(s) ==
    /\ turn[s].calls < MaxModelCalls
    /\ Fits(SystemTokens + turn[s].tokens)

\* Fault: a loop of tool calls is not limited.
CallModel_Unlimited(s) ==
    /\ task[s] = "deciding"
    /\ MayCall(s)
    /\ \E kind \in {"streamed", "plain"} : Begin(s, kind)
    /\ Goto(s, "asking")
    /\ turn' = [turn EXCEPT ![s] = NewTurn]
    /\ UNCHANGED <<compaction, guarding>>

CallModel(s) ==
    /\ task[s] = "deciding"
    /\ MayCall(s)
    /\ \E kind \in {"streamed", "plain"} : Begin(s, kind)
    /\ Goto(s, "asking")
    /\ turn' = [turn EXCEPT ![s] = [NewTurn EXCEPT !.calls = turn[s].calls + 1]]
    /\ UNCHANGED <<compaction, guarding>>

RefuseCall(s) ==
    /\ task[s] = "deciding"
    /\ ~MayCall(s)
    /\ Goto(s, "closing")
    /\ UNCHANGED <<inference, compaction, guarding, turn>>

\* Tool calls lead back to the model; an answer or an error ends the Turn.
TakeAnswer(s) ==
    /\ task[s] = "asking"
    /\ \/ Take(s, "returned") /\ \E pc \in {"running", "closing"} : Goto(s, pc)
       \/ Take(s, "raised") /\ Goto(s, "closing")
    /\ UNCHANGED <<compaction, guarding, turn>>

\* Commit or rollback, and the last writes of the view.
Close(s) ==
    /\ task[s] = "closing"
    /\ Goto(s, "over")
    /\ turn' = [turn EXCEPT ![s] = NewTurn]
    /\ UNCHANGED <<inference, compaction, guarding>>

\* Stop cancels the current task once, so never in its rollback.
Stop(s) ==
    /\ \/ /\ task[s] \in {"running", "deciding"}
          /\ Goto(s, "closing")
          /\ UNCHANGED inference
       \/ /\ task[s] \in {"summarizing", "asking"}
          /\ Interrupt(s)
          /\ UNCHANGED task
    /\ UNCHANGED <<compaction, guarding, turn>>
-----------------------------------------------------------------------------
(* The title tasks, and the answers of the models to all tasks.            *)

AskForTitle(u) ==
    /\ Begin(u, "title")
    /\ UNCHANGED <<compaction, guarding, task, turn>>

TakeTitle(u) ==
    /\ Take(u, "returned") \/ Take(u, "raised")
    /\ UNCHANGED <<compaction, guarding, task, turn>>

\* A deletion or the shutdown.
CancelTitle(u) ==
    /\ Interrupt(u)
    /\ UNCHANGED <<compaction, guarding, task, turn>>

Served(step) == step /\ UNCHANGED <<compaction, guarding, task, turn>>
-----------------------------------------------------------------------------
Handle(s) == TaskCreated(s) \/ NoTaskCreated(s)

Work(s) ==
    \/ MeasureContext(s)
    \/ AskForSummary(s) \/ TakeSummary(s) \/ SummaryEnds(s) \/ ReplaceContext(s)
    \/ CallModel(s) \/ RefuseCall(s) \/ TakeAnswer(s)
    \/ Close(s)

Next ==
    \/ \E s \in Sessions :
         \/ Receive(s) \/ Refuse(s) \/ Handle(s)
         \/ Work(s) \/ Stop(s) \/ Release(s)
    \/ \E u \in Titles : AskForTitle(u) \/ TakeTitle(u) \/ CancelTitle(u)
    \/ \E c \in Callers : Served(Serve(c))

Spec == Init /\ [][Next]_vars

\* The event loop runs every task that is ready, asyncio.Lock wakes its waiters
\* in order, a pause is finite, and the adapters' deadlines end every request.
Fairness ==
    /\ \A s \in Sessions :
         WF_vars(Handle(s)) /\ WF_vars(Work(s)) /\ WF_vars(Release(s))
    /\ \A u \in Titles : WF_vars(TakeTitle(u))
    /\ \A c \in Callers :
         /\ WF_vars(Served(Outcome(c) \/ Resume(c)))
         /\ SF_vars(Served(Wake(c)))

FairSpec == Spec /\ Fairness
-----------------------------------------------------------------------------
(* Properties.                                                             *)

\* The session whose handler or task answers for the slot.
Owner(s) == handler[s] = "calling" \/ task[s] # "none"

\* The slot is taken exactly while one request owns it: its handler, then its
\* task until the done callback.  No request of another tab runs beside it,
\* and no failed or stopped request leaves the program busy for good.
SlotIsOwned ==
    /\ reserved <=> \E s \in Sessions : Owner(s)
    /\ \A r, s \in Sessions : Owner(r) /\ Owner(s) => r = s
    /\ \A s \in Sessions : handler[s] = "calling" => task[s] = "none"

\* A Turn whose last messages are within the budget to keep is never refused
\* for its context: after a summary of any accepted length, and with none, the
\* messages, the system prompt and the output fit (AgentConfig).
CompactedContextFits ==
    \A s \in Sessions :
        task[s] = "deciding" /\ turn[s].kept <= KeepTokens =>
            Fits(SystemTokens + turn[s].tokens)

\* Every request ends and gives the slot back, whatever the models, the tools
\* and the titles do: neither the retries nor the loop go on for ever.
RequestEnds == reserved ~> ~reserved
=============================================================================
