------------------------------ MODULE Inference ------------------------------
(***************************************************************************)
(* The calls of the models: RetryBlock (llm_retry.py), whose lock is held  *)
(* by one call with all its attempts and pauses, around the adapters of    *)
(* the providers (providers.py), which retry one request.  The two budgets *)
(* nest: a stream that timed out before its first chunk is asked for again *)
(* by the outer loop, every other transient failure by the inner one.      *)
(*                                                                         *)
(* Time is left out: a deadline may pass whenever it is set, and a pause   *)
(* ends in a step of its own.                                              *)
(***************************************************************************)
EXTENDS Naturals

CONSTANTS
    Callers,            \* the tasks that call a model
    NoCaller,           \* nobody holds the inference lock
    InferenceRetries,   \* LLM_MAX_RETRIES
    StreamRetries,      \* LLM_STREAM_RETRIES
    MaxChunks           \* bound on the chunks of one answer

ASSUME CallerAssumption == NoCaller \notin Callers
ASSUME RetryAssumption ==
    InferenceRetries \in Nat /\ StreamRetries \in Nat /\ MaxChunks \in Nat

VARIABLES
    lock,   \* who holds _inference_lock
    call    \* the call of each task, with what it has asked and shown so far

inference == <<lock, call>>

\* The Turn's model streams or not; the summary's and the title's do not.
Kinds == {"streamed", "plain", "title"}

Resting == {"idle", "returned", "raised"}
Holding == {"requesting", "backoff", "pausing"}

CallType ==
    [kind : Kinds, pc : Resting \cup Holding \cup {"queued"},
     retries : Nat,     \* of the outer loop, in run_streaming_model
     attempt : Nat,     \* of the inner loop, in _agenerate or _astream
     chunks : Nat,      \* chunks_received of the current _astream
     asked : Nat,       \* history: requests sent to the provider
     shown : Nat]       \* history: chunks the caller has got

InferenceTypeOK ==
    /\ lock \in Callers \cup {NoCaller}
    /\ call \in [Callers -> CallType]

NewCall(kind, pc) ==
    [kind |-> kind, pc |-> pc, retries |-> 0, attempt |-> 0, chunks |-> 0,
     asked |-> IF pc = "requesting" THEN 1 ELSE 0, shown |-> 0]

InferenceInit ==
    /\ lock = NoCaller
    /\ call = [c \in Callers |-> NewCall("plain", "idle")]

Busy == lock # NoCaller

Put(c, record) == call' = [call EXCEPT ![c] = record]

Request(record) == [record EXCEPT !.pc = "requesting", !.asked = @ + 1]
-----------------------------------------------------------------------------
(* The lock.                                                               *)

\* A free lock is taken at once; who must wait is woken in turn.
Begin(c, kind) ==
    /\ call[c].pc = "idle"
    /\ IF ~Busy /\ \A d \in Callers : call[d].pc # "queued"
       THEN lock' = c /\ Put(c, NewCall(kind, "requesting"))
       ELSE UNCHANGED lock /\ Put(c, NewCall(kind, "queued"))

\* Fault: a summary or a title does not wait for the answer of the Turn.
Wake_Unserialized(c) ==
    /\ call[c].pc = "queued"
    /\ lock' = c
    /\ Put(c, Request(call[c]))

Wake(c) ==
    /\ call[c].pc = "queued"
    /\ ~Busy
    /\ lock' = c
    /\ Put(c, Request(call[c]))

\* Leaving the block releases the lock, with a result or an exception.
Leave(c, result) ==
    /\ lock' = NoCaller
    /\ Put(c, [call[c] EXCEPT !.pc = result])

Pause(c, pc) ==
    /\ UNCHANGED lock
    /\ Put(c, [call[c] EXCEPT !.pc = pc])
-----------------------------------------------------------------------------
(* What a request to the provider comes to.                                *)

Requesting(c) == call[c].pc = "requesting"

Chunk(c) ==
    /\ Requesting(c)
    /\ call[c].kind = "streamed" /\ call[c].chunks < MaxChunks
    /\ UNCHANGED lock
    /\ Put(c, [call[c] EXCEPT !.chunks = @ + 1, !.shown = @ + 1])

Answer(c) == Requesting(c) /\ Leave(c, "returned")

\* Fault: a stream that broke off after its first chunks is asked for again.
StreamTimeout_Replays(c) ==
    /\ Requesting(c) /\ call[c].kind = "streamed"
    /\ IF call[c].retries < StreamRetries
       THEN Pause(c, "pausing")
       ELSE Leave(c, "raised")

\* No chunk in time: the adapter leaves it to run_streaming_model.
StreamTimeout(c) ==
    /\ Requesting(c) /\ call[c].kind = "streamed"
    /\ IF call[c].chunks = 0 /\ call[c].retries < StreamRetries
       THEN Pause(c, "pausing")
       ELSE Leave(c, "raised")

\* Fault: the attempts are counted from one.
TransientFailure_OneMore(c) ==
    /\ Requesting(c)
    /\ IF call[c].chunks = 0 /\ call[c].attempt <= InferenceRetries
       THEN Pause(c, "backoff")
       ELSE Leave(c, "raised")

\* A transport error, HTTP 408, 409, 429 or 5xx, or a request's own deadline.
TransientFailure(c) ==
    /\ Requesting(c)
    /\ IF call[c].chunks = 0 /\ call[c].attempt < InferenceRetries
       THEN Pause(c, "backoff")
       ELSE Leave(c, "raised")

PermanentFailure(c) == Requesting(c) /\ Leave(c, "raised")

\* The delay is over.  A new handler starts its own attempts and its own count.
Resume(c) ==
    /\ UNCHANGED lock
    /\ \/ /\ call[c].pc = "backoff"
          /\ Put(c, Request([call[c] EXCEPT !.attempt = @ + 1]))
       \/ /\ call[c].pc = "pausing"
          /\ Put(c, Request([call[c] EXCEPT !.retries = @ + 1, !.attempt = 0,
                                            !.chunks = 0]))

\* The total budget of a title covers its attempts and pauses, not its wait
\* for the lock.
Deadline(c) ==
    /\ call[c].kind = "title" /\ call[c].pc \in Holding
    /\ Leave(c, "raised")

\* CancelledError, in the queue or under the lock.
Interrupt(c) ==
    \/ /\ call[c].pc = "queued"
       /\ UNCHANGED lock
       /\ Put(c, [call[c] EXCEPT !.pc = "raised"])
    \/ /\ call[c].pc \in Holding
       /\ Leave(c, "raised")

\* The caller goes on with the result.
Take(c, result) ==
    /\ call[c].pc = result
    /\ UNCHANGED lock
    /\ Put(c, NewCall("plain", "idle"))
-----------------------------------------------------------------------------
Outcome(c) ==
    \/ Chunk(c) \/ Answer(c)
    \/ StreamTimeout(c) \/ TransientFailure(c) \/ PermanentFailure(c)

Serve(c) == Outcome(c) \/ Resume(c) \/ Deadline(c) \/ Wake(c)

InferenceNext ==
    \E c \in Callers :
        \/ \E kind \in Kinds : Begin(c, kind)
        \/ Serve(c) \/ Interrupt(c)
        \/ Take(c, "returned") \/ Take(c, "raised")

InferenceSpec == InferenceInit /\ [][InferenceNext]_inference
-----------------------------------------------------------------------------
(* Properties.                                                             *)

\* Providers are called sequentially: while a call has the inference lock, in
\* a pause before a retry as well, no other call is under way.
OneCallAtATime ==
    \A c \in Callers : call[c].pc \in Holding <=> lock = c

\* Once an answer has begun to reach the caller, nothing is asked again: no
\* text is shown twice, whichever of the two loops sees the failure.
NeverReplayed ==
    [][\A c \in Callers : call'[c].asked > call[c].asked => call[c].shown = 0]_inference

\* The two budgets bound the requests of one call, also when they alternate:
\* an empty stream starts the inner one anew.
RequestsBounded ==
    \A c \in Callers :
        call[c].asked <= (StreamRetries + 1) * (InferenceRetries + 1)
=============================================================================
