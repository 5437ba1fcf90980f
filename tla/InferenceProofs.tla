--------------------------- MODULE InferenceProofs ---------------------------
(***************************************************************************)
(* What Inference promises for every number of callers and every budget.   *)
(* InferenceInv says how far a call has used up its two budgets in each    *)
(* place it can be in: the bound on its requests is not inductive alone.   *)
(***************************************************************************)
EXTENDS Inference, TLAPS

\* Before its first request a call has neither asked nor shown anything.
NotBegun(r) ==
    r.retries = 0 /\ r.attempt = 0 /\ r.chunks = 0 /\ r.asked = 0 /\ r.shown = 0

\* All requests of a call that is at this retry and this attempt.
Spent(r) == r.retries * (InferenceRetries + 1) + r.attempt + 1

InBudgets(r) ==
    /\ r.retries <= StreamRetries /\ r.attempt <= InferenceRetries
    /\ r.asked <= Spent(r)
    /\ r.shown = r.chunks
    /\ r.pc = "backoff" => r.chunks = 0 /\ r.attempt < InferenceRetries
    /\ r.pc = "pausing" => r.chunks = 0 /\ r.retries < StreamRetries

CallInv(r) ==
    /\ r.pc \in {"idle", "queued"} => NotBegun(r)
    /\ r.pc \in Holding => InBudgets(r)
    /\ r.asked <= (StreamRetries + 1) * (InferenceRetries + 1)

InferenceInv ==
    /\ InferenceTypeOK
    /\ OneCallAtATime
    /\ \A c \in Callers : CallInv(call[c])
-----------------------------------------------------------------------------
\* A call within its budgets has not asked more often than they allow.
LEMMA SpentIsBounded ==
    ASSUME NEW retries \in Nat, NEW attempt \in Nat,
           retries <= StreamRetries, attempt <= InferenceRetries
    PROVE  retries * (InferenceRetries + 1) + attempt + 1
               <= (StreamRetries + 1) * (InferenceRetries + 1)
<1> DEFINE n == InferenceRetries + 1
<1>1. StreamRetries \in Nat /\ InferenceRetries \in Nat
  BY RetryAssumption
<1>2. PICK d \in Nat : StreamRetries = retries + d
  <2>1. StreamRetries - retries \in Nat /\ StreamRetries = retries + (StreamRetries - retries)
    BY <1>1
  <2> QED  BY <2>1
<1>3. n \in Nat /\ attempt + 1 <= n
  BY <1>1
<1>4. (StreamRetries + 1) * n = retries * n + d * n + n
  BY <1>1, <1>2, <1>3
<1>5. retries * n \in Nat /\ d * n \in Nat
  BY <1>2, <1>3
<1> HIDE DEF n
<1>6. retries * n + attempt + 1 <= (StreamRetries + 1) * n
  BY <1>3, <1>4, <1>5
<1> QED  BY <1>6 DEF n

\* Nothing has been called yet.
LEMMA InferenceInvInit == InferenceInit => InferenceInv
<1> SUFFICES ASSUME InferenceInit PROVE InferenceInv
  OBVIOUS
<1>1. RetryAssumption
  BY RetryAssumption
<1>2. 0 <= (StreamRetries + 1) * (InferenceRetries + 1)
  BY SpentIsBounded, RetryAssumption
<1> QED
  BY CallerAssumption, <1>2
     DEF InferenceInit, InferenceInv, InferenceTypeOK, CallType, NewCall, Kinds,
         OneCallAtATime, CallInv, NotBegun, InBudgets, Resting, Holding
-----------------------------------------------------------------------------
\* One call changes: the others keep their place and their right to the lock.
LEMMA PutKeeps ==
    ASSUME InferenceInv, NEW c \in Callers, NEW r \in CallType,
           Put(c, r), CallInv(r),
           lock' \in Callers \cup {NoCaller},
           r.pc \in Holding <=> lock' = c,
           \A d \in Callers \ {c} : lock' = d <=> lock = d
    PROVE  InferenceInv'
<1>1. call' \in [Callers -> CallType] /\ call'[c] = r
  BY DEF InferenceInv, InferenceTypeOK, Put
<1>2. \A d \in Callers \ {c} : call'[d] = call[d]
  BY DEF InferenceInv, InferenceTypeOK, Put
<1>3. InferenceTypeOK'
  BY <1>1 DEF InferenceTypeOK
<1>4. OneCallAtATime'
  <2> SUFFICES ASSUME NEW d \in Callers
               PROVE  call'[d].pc \in Holding <=> lock' = d
    BY DEF OneCallAtATime, Holding
  <2>1. CASE d = c
    BY <1>1, <2>1
  <2>2. CASE d # c
    BY <1>2, <2>2 DEF InferenceInv, OneCallAtATime
  <2> QED  BY <2>1, <2>2
<1>5. \A d \in Callers : CallInv(call'[d])
  <2> SUFFICES ASSUME NEW d \in Callers PROVE CallInv(call'[d])
    OBVIOUS
  <2>1. CASE d = c
    BY <1>1, <2>1
  <2>2. CASE d # c
    BY <1>2, <2>2 DEF InferenceInv
  <2> QED  BY <2>1, <2>2
<1>6. (\A d \in Callers : CallInv(call[d]))'
  BY <1>5 DEF CallInv, NotBegun, InBudgets, Spent
<1> QED  BY <1>3, <1>4, <1>6 DEF InferenceInv

\* A record within its budgets has asked no more than a call may.
LEMMA BudgetsBound ==
    ASSUME NEW r \in CallType, InBudgets(r)
    PROVE  r.asked <= (StreamRetries + 1) * (InferenceRetries + 1)
<1>1. r.retries \in Nat /\ r.attempt \in Nat /\ r.asked \in Nat
  BY DEF CallType
<1>2. Spent(r) <= (StreamRetries + 1) * (InferenceRetries + 1)
  BY <1>1, SpentIsBounded DEF InBudgets, Spent
<1>3. Spent(r) \in Nat /\ (StreamRetries + 1) * (InferenceRetries + 1) \in Nat
  BY <1>1, RetryAssumption DEF Spent
<1> QED
  BY <1>1, <1>2, <1>3 DEF InBudgets

\* The first request of a call, with or without a wait for the lock.
LEMMA FirstRequest ==
    ASSUME NEW r \in CallType, r.pc = "requesting",
           r.retries = 0, r.attempt = 0, r.chunks = 0, r.shown = 0, r.asked = 1
    PROVE  CallInv(r)
<1>1. InBudgets(r)
  <2>1. 0 * (InferenceRetries + 1) = 0
    BY RetryAssumption
  <2> QED  BY <2>1, RetryAssumption DEF InBudgets, Spent
<1> QED  BY <1>1, BudgetsBound DEF CallInv, Holding

\* A call that is over, or a new one that waits, needs no more of the lock.
LEMMA BeginKeeps ==
    ASSUME InferenceInv, NEW c \in Callers, NEW kind \in Kinds, Begin(c, kind)
    PROVE  InferenceInv'
<1>1. /\ NewCall(kind, "requesting") \in CallType
      /\ NewCall(kind, "queued") \in CallType
  BY DEF NewCall, CallType, Holding
<1>2. CallInv(NewCall(kind, "requesting"))
  BY <1>1, FirstRequest DEF NewCall
<1>3. CallInv(NewCall(kind, "queued"))
  <2>1. 0 <= (StreamRetries + 1) * (InferenceRetries + 1)
    BY SpentIsBounded, RetryAssumption
  <2> QED  BY <2>1 DEF CallInv, NotBegun, NewCall, Holding
<1>4. call[c].pc = "idle" /\ lock # c
  BY CallerAssumption DEF Begin, InferenceInv, OneCallAtATime, Holding
<1>5. CASE lock' = c /\ lock = NoCaller /\ Put(c, NewCall(kind, "requesting"))
  <2>1. \A d \in Callers \ {c} : lock' = d <=> lock = d
    BY <1>5, CallerAssumption
  <2> QED  BY <1>1, <1>2, <1>5, <2>1, PutKeeps DEF NewCall, Holding
<1>6. CASE UNCHANGED lock /\ Put(c, NewCall(kind, "queued"))
  <2>1. lock' \in Callers \cup {NoCaller} /\ lock' # c
    BY <1>4, <1>6 DEF InferenceInv, InferenceTypeOK
  <2> QED  BY <1>1, <1>3, <1>6, <2>1, PutKeeps DEF NewCall, Holding
<1> QED  BY <1>5, <1>6 DEF Begin, Busy

\* Leaving the block keeps the call's counts and frees the lock.
LEMMA LeaveKeeps ==
    ASSUME InferenceInv, NEW c \in Callers, call[c].pc \in Holding,
           NEW result \in {"returned", "raised"}, Leave(c, result)
    PROVE  InferenceInv'
<1> DEFINE r == [call[c] EXCEPT !.pc = result]
<1>1. r \in CallType /\ r.pc = result /\ r.asked = call[c].asked
  BY DEF InferenceInv, InferenceTypeOK, CallType, Resting
<1>2. CallInv(r)
  BY <1>1 DEF CallInv, InferenceInv, Holding
<1>3. lock = c /\ lock' = NoCaller
  BY DEF Leave, InferenceInv, OneCallAtATime
<1>4. \A d \in Callers \ {c} : lock' = d <=> lock = d
  BY <1>3, CallerAssumption
<1>5. Put(c, r)
  BY DEF Leave
<1> HIDE DEF r
<1> QED  BY <1>1, <1>2, <1>3, <1>4, <1>5, PutKeeps, CallerAssumption DEF Holding

\* Under the lock a call goes on within its budgets.
LEMMA HoldKeeps ==
    ASSUME InferenceInv, NEW c \in Callers, call[c].pc \in Holding,
           NEW r \in CallType, r.pc \in Holding, InBudgets(r),
           UNCHANGED lock, Put(c, r)
    PROVE  InferenceInv'
<1>1. CallInv(r)
  BY BudgetsBound DEF CallInv, Holding
<1>2. lock' = c /\ lock = c
  BY DEF InferenceInv, OneCallAtATime
<1> QED  BY <1>1, <1>2, PutKeeps

\* The records that a chunk, a request and a new stream make of a call's.
LEMMA ChunkTyped ==
    ASSUME NEW r \in CallType
    PROVE  LET s == [r EXCEPT !.chunks = @ + 1, !.shown = @ + 1]
           IN s \in CallType /\ s.asked = r.asked
<1> DEFINE q == [r EXCEPT !.chunks = @ + 1]
           s == [q EXCEPT !.shown = @ + 1]
<1>1. q \in CallType /\ q.asked = r.asked
  BY DEF CallType
<1>2. s \in CallType /\ s.asked = r.asked
  <2> HIDE DEF q
  <2> QED  BY <1>1 DEF CallType
<1> QED  BY <1>2

LEMMA RequestTyped ==
    ASSUME NEW r \in CallType
    PROVE  /\ Request(r) \in CallType
           /\ Request(r).pc = "requesting" /\ Request(r).asked = r.asked + 1
           /\ Request(r).retries = r.retries /\ Request(r).attempt = r.attempt
           /\ Request(r).chunks = r.chunks /\ Request(r).shown = r.shown
           /\ Request(r).kind = r.kind
<1> DEFINE q == [r EXCEPT !.pc = "requesting"]
<1>1. q \in CallType
  BY DEF CallType, Holding
<1>2. Request(r) = [q EXCEPT !.asked = @ + 1]
  BY DEF Request, CallType
<1>3. [q EXCEPT !.asked = @ + 1] \in CallType
  <2> HIDE DEF q
  <2> QED  BY <1>1 DEF CallType
<1>4. Request(r) \in CallType
  BY <1>2, <1>3
<1> QED  BY <1>4 DEF Request, CallType

LEMMA RetryTyped ==
    ASSUME NEW r \in CallType
    PROVE  [r EXCEPT !.retries = @ + 1, !.attempt = 0, !.chunks = 0] \in CallType
<1> DEFINE q == [r EXCEPT !.retries = @ + 1]
           p == [q EXCEPT !.attempt = 0]
<1>1. q \in CallType
  BY DEF CallType
<1>2. p \in CallType
  <2> HIDE DEF q
  <2> QED  BY <1>1 DEF CallType
<1>3. [p EXCEPT !.chunks = 0] \in CallType
  <2> HIDE DEF p
  <2> QED  BY <1>2 DEF CallType
<1> QED  BY <1>3

\* What a request comes to.
LEMMA OutcomeKeeps ==
    ASSUME InferenceInv, NEW c \in Callers, Outcome(c)
    PROVE  InferenceInv'
<1>1. /\ call[c] \in CallType
      /\ call[c].pc = "requesting" /\ call[c].pc \in Holding
      /\ InBudgets(call[c])
  BY DEF Outcome, Chunk, Answer, StreamTimeout, TransientFailure,
         PermanentFailure, Requesting, InferenceInv, InferenceTypeOK, CallInv,
         Holding
<1>2. CASE Chunk(c)
  <2> DEFINE r == [call[c] EXCEPT !.chunks = @ + 1, !.shown = @ + 1]
  <2>1. r \in CallType /\ r.pc \in Holding
    BY <1>1, ChunkTyped DEF CallType
  <2>2. InBudgets(r)
    BY <1>1 DEF InBudgets, Spent, CallType
  <2> QED  BY <1>1, <1>2, <2>1, <2>2, HoldKeeps DEF Chunk
<1>3. CASE \E result \in {"returned", "raised"} : Leave(c, result)
  BY <1>1, <1>3, LeaveKeeps
<1>4. CASE /\ call[c].chunks = 0 /\ call[c].retries < StreamRetries
           /\ Pause(c, "pausing")
  <2> DEFINE r == [call[c] EXCEPT !.pc = "pausing"]
  <2>1. r \in CallType /\ r.pc \in Holding
    BY <1>1 DEF CallType, Holding
  <2>2. InBudgets(r)
    BY <1>1, <1>4 DEF InBudgets, Spent, CallType
  <2> QED  BY <1>1, <1>4, <2>1, <2>2, HoldKeeps DEF Pause
<1>5. CASE /\ call[c].chunks = 0 /\ call[c].attempt < InferenceRetries
           /\ Pause(c, "backoff")
  <2> DEFINE r == [call[c] EXCEPT !.pc = "backoff"]
  <2>1. r \in CallType /\ r.pc \in Holding
    BY <1>1 DEF CallType, Holding
  <2>2. InBudgets(r)
    BY <1>1, <1>5 DEF InBudgets, Spent, CallType
  <2> QED  BY <1>1, <1>5, <2>1, <2>2, HoldKeeps DEF Pause
<1> QED
  BY <1>2, <1>3, <1>4, <1>5
     DEF Outcome, Answer, StreamTimeout, TransientFailure, PermanentFailure

\* A retry counts the attempt, or begins the attempts of the next stream.
LEMMA ResumeKeeps ==
    ASSUME InferenceInv, NEW c \in Callers, Resume(c)
    PROVE  InferenceInv'
<1>1. /\ call[c] \in CallType /\ call[c].pc \in Holding
      /\ InBudgets(call[c])
  BY DEF Resume, InferenceInv, InferenceTypeOK, CallInv, Holding
<1>2. CASE call[c].pc = "backoff"
  <2> DEFINE q == [call[c] EXCEPT !.attempt = @ + 1]
             r == Request(q)
  <2>0. /\ q \in CallType
        /\ q.retries = call[c].retries /\ q.attempt = call[c].attempt + 1
        /\ q.asked = call[c].asked
        /\ q.shown = call[c].shown /\ q.chunks = call[c].chunks
    BY <1>1 DEF CallType
  <2> HIDE DEF q
  <2>1. r \in CallType /\ r.pc \in Holding
    BY <2>0, RequestTyped DEF Holding
  <2>2. /\ r.retries = call[c].retries /\ r.attempt = call[c].attempt + 1
        /\ r.asked = call[c].asked + 1 /\ r.pc = "requesting"
        /\ r.shown = call[c].shown /\ r.chunks = call[c].chunks
    BY <2>0, RequestTyped
  <2>3. call[c].retries * (InferenceRetries + 1) \in Nat
    BY <1>1, RetryAssumption DEF CallType
  <2>4. InBudgets(r)
    BY <1>1, <1>2, <2>2, <2>3, RetryAssumption DEF InBudgets, Spent, CallType
  <2>5. Put(c, r) /\ UNCHANGED lock
    BY <1>2 DEF Resume, q
  <2> HIDE DEF r
  <2> QED  BY <1>1, <2>1, <2>4, <2>5, HoldKeeps
<1>3. CASE call[c].pc = "pausing"
  <2> DEFINE q == [call[c] EXCEPT !.retries = @ + 1, !.attempt = 0, !.chunks = 0]
             r == Request(q)
  <2>0. /\ q \in CallType
        /\ q.retries = call[c].retries + 1 /\ q.attempt = 0
        /\ q.asked = call[c].asked /\ q.shown = call[c].shown /\ q.chunks = 0
    BY <1>1, RetryTyped DEF CallType
  <2> HIDE DEF q
  <2>1. r \in CallType /\ r.pc \in Holding
    BY <2>0, RequestTyped DEF Holding
  <2>2. /\ r.retries = call[c].retries + 1 /\ r.attempt = 0
        /\ r.asked = call[c].asked + 1 /\ r.pc = "requesting"
        /\ r.shown = call[c].shown /\ r.chunks = 0
    BY <2>0, RequestTyped
  <2>3. Spent(r) >= Spent(call[c]) + 1
    <3> DEFINE n == InferenceRetries + 1
    <3>1. /\ call[c].retries \in Nat /\ call[c].attempt \in Nat
          /\ call[c].attempt + 1 <= n /\ n \in Nat
      BY <1>1, RetryAssumption DEF InBudgets, CallType
    <3>2. (call[c].retries + 1) * n = call[c].retries * n + n
      BY <3>1
    <3>3. call[c].retries * n \in Nat
      BY <3>1
    <3> HIDE DEF n
    <3>4. (call[c].retries + 1) * n + 0 + 1 >= call[c].retries * n + call[c].attempt + 1 + 1
      BY <3>1, <3>2, <3>3
    <3> QED  BY <3>4, <2>2 DEF Spent, n
  <2>4. Spent(r) \in Nat /\ Spent(call[c]) \in Nat
    BY <1>1, <2>1, RetryAssumption DEF Spent, CallType
  <2>5. InBudgets(r)
    BY <1>1, <1>3, <2>2, <2>3, <2>4, RetryAssumption DEF InBudgets, CallType
  <2>6. Put(c, r) /\ UNCHANGED lock
    BY <1>3 DEF Resume, q
  <2> HIDE DEF r
  <2> QED  BY <1>1, <2>1, <2>5, <2>6, HoldKeeps
<1> QED  BY <1>2, <1>3 DEF Resume

\* A waiting call gets the lock when nobody has it.
LEMMA WakeKeeps ==
    ASSUME InferenceInv, NEW c \in Callers, Wake(c)
    PROVE  InferenceInv'
<1>1. call[c] \in CallType /\ NotBegun(call[c]) /\ lock = NoCaller
  BY DEF Wake, Busy, InferenceInv, InferenceTypeOK, CallInv
<1> DEFINE r == Request(call[c])
<1>2. /\ r \in CallType /\ r.pc = "requesting" /\ r.asked = 1
      /\ r.retries = 0 /\ r.attempt = 0 /\ r.chunks = 0 /\ r.shown = 0
  BY <1>1, RequestTyped DEF NotBegun
<1>3. Put(c, r) /\ lock' = c
  BY DEF Wake
<1> HIDE DEF r
<1>4. CallInv(r)
  BY <1>2, FirstRequest
<1>5. \A d \in Callers \ {c} : lock' = d <=> lock = d
  BY <1>1, <1>3, CallerAssumption
<1> QED  BY <1>2, <1>3, <1>4, <1>5, PutKeeps DEF Holding

\* A call outside the lock that is given up, or taken by its caller.
LEMMA RestKeeps ==
    ASSUME InferenceInv, NEW c \in Callers, call[c].pc \notin Holding,
           NEW r \in CallType, r.pc \in Resting, CallInv(r),
           UNCHANGED lock, Put(c, r)
    PROVE  InferenceInv'
<1>1. lock # c /\ lock' = lock /\ lock \in Callers \cup {NoCaller}
  BY DEF InferenceInv, OneCallAtATime, InferenceTypeOK
<1>2. r.pc \notin Holding
  BY DEF Resting, Holding
<1> QED  BY <1>1, <1>2, PutKeeps

LEMMA TakeKeeps ==
    ASSUME InferenceInv, NEW c \in Callers,
           NEW result \in {"returned", "raised"}, Take(c, result)
    PROVE  InferenceInv'
<1>1. NewCall("plain", "idle") \in CallType /\ NewCall("plain", "idle").pc = "idle"
  BY DEF NewCall, CallType, Kinds, Resting
<1>2. CallInv(NewCall("plain", "idle"))
  <2>1. 0 <= (StreamRetries + 1) * (InferenceRetries + 1)
    BY SpentIsBounded, RetryAssumption
  <2> QED  BY <2>1 DEF CallInv, NotBegun, NewCall, Holding
<1>3. call[c].pc \notin Holding
  BY DEF Take, Holding
<1> QED  BY <1>1, <1>2, <1>3, RestKeeps DEF Take, Resting

LEMMA InterruptKeeps ==
    ASSUME InferenceInv, NEW c \in Callers, Interrupt(c)
    PROVE  InferenceInv'
<1>1. CASE call[c].pc = "queued"
  <2> DEFINE r == [call[c] EXCEPT !.pc = "raised"]
  <2>1. call[c] \in CallType /\ NotBegun(call[c]) /\ CallInv(call[c])
    BY <1>1 DEF InferenceInv, InferenceTypeOK, CallInv
  <2>2. r \in CallType /\ r.pc = "raised" /\ r.asked = call[c].asked
    BY <2>1 DEF CallType, Resting
  <2>3. UNCHANGED lock /\ Put(c, r) /\ call[c].pc \notin Holding
    BY <1>1 DEF Interrupt, Holding
  <2> HIDE DEF r
  <2>4. CallInv(r)
    BY <2>1, <2>2 DEF CallInv, Holding
  <2> QED  BY <2>2, <2>3, <2>4, RestKeeps DEF Resting
<1>2. CASE call[c].pc \in Holding /\ Leave(c, "raised")
  BY <1>2, LeaveKeeps
<1> QED  BY <1>1, <1>2 DEF Interrupt

\* Every step keeps the invariant.
LEMMA InferenceInvStep == InferenceInv /\ [InferenceNext]_inference => InferenceInv'
<1> SUFFICES ASSUME InferenceInv, [InferenceNext]_inference PROVE InferenceInv'
  OBVIOUS
<1>1. CASE UNCHANGED inference
  BY <1>1 DEF inference, InferenceInv, InferenceTypeOK, OneCallAtATime, CallInv,
              NotBegun, InBudgets, Spent
<1>2. ASSUME NEW c \in Callers, NEW kind \in Kinds, Begin(c, kind)
      PROVE  InferenceInv'
  BY <1>2, BeginKeeps
<1>3. ASSUME NEW c \in Callers, Serve(c) PROVE InferenceInv'
  BY <1>3, OutcomeKeeps, ResumeKeeps, WakeKeeps, LeaveKeeps DEF Serve, Deadline
<1>4. ASSUME NEW c \in Callers, Interrupt(c) PROVE InferenceInv'
  BY <1>4, InterruptKeeps
<1>5. ASSUME NEW c \in Callers, Take(c, "returned") \/ Take(c, "raised")
      PROVE  InferenceInv'
  BY <1>5, TakeKeeps
<1> QED  BY <1>1, <1>2, <1>3, <1>4, <1>5 DEF InferenceNext
-----------------------------------------------------------------------------
\* A request that is made again finds nothing shown: an attempt and a retry
\* follow an answer without a chunk.
LEMMA NothingReplayed ==
    ASSUME InferenceInv, [InferenceNext]_inference, NEW c \in Callers,
           call'[c].asked > call[c].asked
    PROVE  call[c].shown = 0
<1>1. /\ call \in [Callers -> CallType]
      /\ \A d \in Callers : call[d].asked \in Nat
  BY DEF InferenceInv, InferenceTypeOK, CallType
<1>2. \A d \in Callers : Put(d, call'[d]) => c = d \/ call'[c] = call[c]
  BY <1>1 DEF Put
<1>3. \A d \in Callers : \A r : Put(d, r) => call'[d] = r /\ (c # d => call'[c] = call[c])
  BY <1>1 DEF Put
<1>4. ASSUME NEW kind \in Kinds, Begin(c, kind) PROVE call[c].shown = 0
  BY <1>4 DEF Begin, InferenceInv, CallInv, NotBegun
<1>5. CASE call[c].pc = "queued"
  BY <1>5 DEF InferenceInv, CallInv, NotBegun
<1>6. CASE call[c].pc \in {"backoff", "pausing"}
  BY <1>6 DEF InferenceInv, CallInv, InBudgets, Holding
<1>7. ASSUME NEW p, Put(c, [call[c] EXCEPT !.pc = p]) PROVE FALSE
  BY <1>1, <1>3, <1>7 DEF CallType
<1>8. CASE Chunk(c)
  <2> DEFINE s == [call[c] EXCEPT !.chunks = @ + 1, !.shown = @ + 1]
  <2>1. s.asked = call[c].asked
    BY <1>1, ChunkTyped
  <2>2. Put(c, s)
    BY <1>8 DEF Chunk
  <2> HIDE DEF s
  <2>3. call'[c].asked = call[c].asked
    BY <1>3, <2>1, <2>2
  <2> QED  BY <1>1, <2>3
<1>9. ASSUME NEW result, Take(c, result) PROVE FALSE
  BY <1>1, <1>3, <1>9 DEF Take, NewCall
<1>10. ASSUME NEW result, Leave(c, result) \/ Pause(c, result) PROVE FALSE
  BY <1>7, <1>10 DEF Leave, Pause
<1>11. CASE Serve(c) \/ Interrupt(c)
  BY <1>5, <1>6, <1>7, <1>8, <1>10, <1>11
     DEF Serve, Outcome, Answer, StreamTimeout, TransientFailure,
         PermanentFailure, Resume, Deadline, Wake, Interrupt
<1>12. ASSUME NEW d \in Callers, d # c, NEW kind \in Kinds,
              Begin(d, kind) \/ Serve(d) \/ Interrupt(d)
                  \/ Take(d, "returned") \/ Take(d, "raised")
       PROVE  FALSE
  <2>1. \E r : Put(d, r)
    BY <1>12
       DEF Begin, Serve, Outcome, Chunk, Answer, StreamTimeout, TransientFailure,
           PermanentFailure, Resume, Deadline, Wake, Interrupt, Take, Leave, Pause
  <2> QED  BY <1>1, <1>3, <1>12, <2>1
<1>13. CASE UNCHANGED inference
  BY <1>1, <1>13 DEF inference
<1>14. ASSUME NEW d \in Callers, NEW kind \in Kinds,
              Begin(d, kind) \/ Serve(d) \/ Interrupt(d)
                  \/ Take(d, "returned") \/ Take(d, "raised")
       PROVE  call[c].shown = 0
  <2>1. CASE d = c
    <3>1. \/ Begin(c, kind) \/ Serve(c) \/ Interrupt(c)
          \/ Take(c, "returned") \/ Take(c, "raised")
      BY <1>14, <2>1
    <3>2. CASE Begin(c, kind)
      BY <1>4, <3>2
    <3>3. CASE Take(c, "returned") \/ Take(c, "raised")
      BY <1>9, <3>3
    <3> QED  BY <1>11, <3>1, <3>2, <3>3
  <2>2. CASE d # c
    BY <1>12, <1>14, <2>2
  <2> QED  BY <2>1, <2>2
<1>15. "plain" \in Kinds
  BY DEF Kinds
<1> QED
  BY <1>13, <1>14, <1>15 DEF InferenceNext
-----------------------------------------------------------------------------
\* The providers are called one at a time, for any number of callers.
THEOREM CallsAreSequential == InferenceSpec => []OneCallAtATime
<1>1. InferenceInv => OneCallAtATime
  BY DEF InferenceInv
<1> QED  BY <1>1, InferenceInvInit, InferenceInvStep, PTL DEF InferenceSpec

\* For any two budgets, no call asks the provider more often than their
\* product, however the two kinds of failure alternate.
THEOREM RetriesAreBounded == InferenceSpec => []RequestsBounded
<1>1. InferenceInv => RequestsBounded
  BY DEF InferenceInv, CallInv, RequestsBounded
<1> QED  BY <1>1, InferenceInvInit, InferenceInvStep, PTL DEF InferenceSpec

\* No loop asks again once a chunk has reached the caller.
THEOREM OutputIsNeverReplayed == InferenceSpec => NeverReplayed
<1>1. InferenceInv /\ [InferenceNext]_inference =>
        [\A c \in Callers : call'[c].asked > call[c].asked => call[c].shown = 0]_inference
  BY NothingReplayed
<1> QED
  BY <1>1, InferenceInvInit, InferenceInvStep, PTL DEF InferenceSpec, NeverReplayed
=============================================================================
