------------------------- MODULE RequestGuardProofs -------------------------
(***************************************************************************)
(* The guard, the model calls and the summary together: every step of a    *)
(* request or a title is a step of Inference and of ContextSummary or      *)
(* leaves them alone, so that what was proved of them holds of the whole;  *)
(* the slot has one owner; and what a summary leaves fits the model.       *)
(***************************************************************************)
EXTENDS RequestGuard, InferenceProofs

-----------------------------------------------------------------------------
(* ContextSummary, for every configuration that AgentConfig accepts and for  *)
(* texts and summaries of any length.  A fragment that has been asked for    *)
(* keeps the size it was given, since the summary it was measured against is *)
(* only replaced by the answer: SummaryInv says so.                          *)

BatchInv(c) ==
    /\ c \in CompactionType
    /\ c.folded = 0 .. (c.start - 1)
    /\ c.start + c.fragment <= c.text
    /\ c.fragment > 0 => c.fragment = Piece(c)

SummaryInv == compaction # NoSummary => BatchInv(compaction)
-----------------------------------------------------------------------------
\* The room that is left is a number, and so is every piece of a text.
LEMMA AvailableIsInteger ==
    ASSUME NEW size \in Nat
    PROVE  Available(size) \in Int /\ Tokens(size) \in Nat
BY ConfigAssumption, PromptAssumption DEF Available, Tokens, Limits, AgentConfigAccepted

LEMMA PieceFits ==
    ASSUME NEW c \in CompactionType, Available(c.summary) > 0, c.start <= c.text
    PROVE  /\ Piece(c) \in Nat
           /\ c.start + Piece(c) <= c.text
           /\ Piece(c) <= 2 * Available(c.summary)
           /\ c.start < c.text => Piece(c) > 0
<1>1. c.text \in Nat /\ c.start \in Nat /\ c.summary \in Nat
  BY DEF CompactionType
<1>2. Available(c.summary) \in Int
  BY <1>1, AvailableIsInteger
<1> QED  BY <1>1, <1>2 DEF Piece

\* Two characters a token: a fragment of the room's size takes all of it.
LEMMA FragmentFits ==
    ASSUME NEW size \in Nat, NEW fragment \in Nat,
           fragment <= 2 * Available(size)
    PROVE  Instructions + Tokens(size + fragment) + SummaryTokens + Allowance
               <= ContextTokens
<1> DEFINE a == Available(size)
<1>1. a \in Int /\ Tokens(size) \in Nat
  BY AvailableIsInteger
<1>2. Tokens(size + fragment) <= Tokens(size) + a
  <2> HIDE DEF a
  <2>1. fragment <= 2 * a
    BY DEF a
  <2> QED  BY <1>1, <2>1 DEF Tokens
<1>3. a = ContextTokens - SummaryTokens - (Instructions + Tokens(size)) - Allowance
  BY DEF Available
<1>4. Tokens(size + fragment) \in Nat
  BY AvailableIsInteger
<1> HIDE DEF a
<1> QED
  BY <1>1, <1>2, <1>3, <1>4, ConfigAssumption, PromptAssumption DEF Limits, AgentConfigAccepted

LEMMA SummaryInvStep == SummaryInv /\ [SummaryNext]_compaction => SummaryInv'
<1> SUFFICES ASSUME SummaryInv, [SummaryNext]_compaction, compaction' # NoSummary
             PROVE  BatchInv(compaction')
  BY DEF SummaryInv, BatchInv, Piece, Available, Tokens
<1>1. CASE UNCHANGED compaction
  BY <1>1 DEF SummaryInv
<1>2. ASSUME NEW text \in Nat \ {0}, BeginSummary(text)
      PROVE  BatchInv(compaction')
  <2>1. compaction' = [text |-> text, start |-> 0, summary |-> 0,
                       fragment |-> 0, folded |-> {}]
    BY <1>2 DEF BeginSummary
  <2>2. compaction' \in CompactionType
    BY <2>1 DEF CompactionType
  <2> QED  BY <2>1, <2>2 DEF BatchInv
<1>3. CASE NextFragment
  <2> DEFINE p == Piece(compaction)
  <2>1. /\ compaction \in CompactionType
        /\ compaction.folded = 0 .. (compaction.start - 1)
        /\ compaction.start < compaction.text
    BY <1>3 DEF NextFragment, Unread, SummaryInv, BatchInv
  <2>2. p \in Nat /\ compaction.start + p <= compaction.text
    BY <1>3, <2>1, PieceFits DEF NextFragment, CompactionType
  <2>3. compaction' = [compaction EXCEPT !.fragment = p]
    BY <1>3 DEF NextFragment
  <2>4. Piece(compaction') = p
    BY <2>1, <2>3 DEF Piece, CompactionType
  <2> HIDE DEF p
  <2> QED  BY <2>1, <2>2, <2>3, <2>4 DEF BatchInv, CompactionType
<1>4. ASSUME NEW size \in Nat, Fold(size) PROVE BatchInv(compaction')
  <2> DEFINE c == compaction
             folded == c.folded \cup (c.start .. c.start + c.fragment - 1)
             n == [text |-> c.text, start |-> c.start + c.fragment,
                   summary |-> size, fragment |-> 0, folded |-> folded]
  <2>1. /\ c \in CompactionType /\ c.folded = 0 .. (c.start - 1)
        /\ c.start + c.fragment <= c.text /\ c.fragment > 0
    BY <1>4 DEF Fold, SummaryInv, BatchInv
  <2>2. c.start \in Nat /\ c.fragment \in Nat /\ c.text \in Nat
    BY <2>1 DEF CompactionType
  <2>3. folded = 0 .. (c.start + c.fragment - 1)
    BY <2>1, <2>2
  <2>4. folded \in SUBSET Nat
    BY <2>2, <2>3
  <2>5. c' = [c EXCEPT !.start = @ + c.fragment, !.summary = size,
                       !.fragment = 0, !.folded = folded]
    BY <1>4 DEF Fold
  <2> HIDE DEF folded
  <2>6. n \in CompactionType
    BY <2>2, <2>4 DEF CompactionType
  <2>7. c' = n
    BY <2>1, <2>5 DEF CompactionType
  <2> QED  BY <2>1, <2>2, <2>3, <2>6, <2>7 DEF BatchInv
<1> QED
  BY <1>1, <1>2, <1>3, <1>4 DEF SummaryNext, NoRoom, SummaryFails, Summarized
-----------------------------------------------------------------------------
\* No request for a summary is larger than the context, whatever the limits,
\* the length of the text and the lengths of the summaries on the way.
THEOREM EverySummaryRequestFits == SummarySpec => []SummaryRequestFits
<1>1. SummaryInit => SummaryInv
  BY DEF SummaryInit, SummaryInv
<1>2. SummaryInv => SummaryRequestFits
  <2> SUFFICES ASSUME BatchInv(compaction), compaction.fragment > 0
               PROVE  Instructions + Tokens(compaction.summary + compaction.fragment)
                          + SummaryTokens + Allowance <= ContextTokens
    BY DEF SummaryInv, SummaryRequestFits
  <2>1. /\ compaction.summary \in Nat /\ compaction.fragment \in Nat
        /\ compaction.text \in Nat /\ compaction.start \in Nat
    BY DEF BatchInv, CompactionType
  <2>2. compaction.fragment <= 2 * Available(compaction.summary)
    <3> DEFINE a == Available(compaction.summary)
    <3>1. a \in Int
      BY <2>1, AvailableIsInteger
    <3>2. compaction.fragment = Piece(compaction)
      BY DEF BatchInv
    <3> HIDE DEF a
    <3> QED  BY <2>1, <3>1, <3>2 DEF Piece, a
  <2> QED  BY <2>1, <2>2, FragmentFits
<1> QED  BY <1>1, <1>2, SummaryInvStep, PTL DEF SummarySpec

\* The summary stands for exactly the text that was read, from its beginning
\* and without a gap, also when summaries change their length between batches.
THEOREM NoTextIsSkipped == SummarySpec => []NothingSkipped
<1>1. SummaryInit => SummaryInv
  BY DEF SummaryInit, SummaryInv
<1>2. SummaryInv => NothingSkipped
  BY DEF SummaryInv, BatchInv, NothingSkipped, CompactionType
<1> QED  BY <1>1, <1>2, SummaryInvStep, PTL DEF SummarySpec
-----------------------------------------------------------------------------
(* The composition. *)

\* Each step asks the models as Inference allows.
LEMMA StepOfInference == [Next]_vars => [InferenceNext]_inference
<1> SUFFICES ASSUME [Next]_vars PROVE [InferenceNext]_inference
  OBVIOUS
<1>1. Sessions \subseteq Callers /\ Titles \subseteq Callers
  BY SessionAssumption
<1>2. CASE UNCHANGED vars
  BY <1>2 DEF vars
<1>3. ASSUME NEW s \in Sessions,
             Receive(s) \/ Refuse(s) \/ Handle(s) \/ Release(s)
      PROVE  UNCHANGED inference
  BY <1>3 DEF Receive, Refuse, Handle, TaskCreated, NoTaskCreated, Release
<1>4. ASSUME NEW s \in Sessions, Work(s) PROVE [InferenceNext]_inference
  <2>1. CASE MeasureContext(s) \/ ReplaceContext(s) \/ RefuseCall(s) \/ Close(s)
    BY <2>1 DEF MeasureContext, ReplaceContext, RefuseCall, Close
  <2>2. CASE AskForSummary(s) \/ CallModel(s)
    BY <1>1, <2>2 DEF AskForSummary, CallModel, InferenceNext, Kinds
  <2>3. CASE TakeSummary(s) \/ SummaryEnds(s) \/ TakeAnswer(s)
    BY <1>1, <2>3 DEF TakeSummary, SummaryEnds, TakeAnswer, InferenceNext
  <2> QED  BY <1>4, <2>1, <2>2, <2>3 DEF Work
<1>5. ASSUME NEW s \in Sessions, Stop(s) PROVE [InferenceNext]_inference
  BY <1>1, <1>5 DEF Stop, InferenceNext
<1>6. ASSUME NEW u \in Titles, AskForTitle(u) \/ TakeTitle(u) \/ CancelTitle(u)
      PROVE  [InferenceNext]_inference
  BY <1>1, <1>6 DEF AskForTitle, TakeTitle, CancelTitle, InferenceNext, Kinds
<1>7. ASSUME NEW c \in Callers, Served(Serve(c)) PROVE [InferenceNext]_inference
  BY <1>7 DEF Served, InferenceNext
<1> QED  BY <1>2, <1>3, <1>4, <1>5, <1>6, <1>7 DEF Next

\* Each step makes a summary as ContextSummary allows.
LEMMA StepOfSummary == [Next]_vars => [SummaryNext]_compaction
<1> SUFFICES ASSUME [Next]_vars PROVE [SummaryNext]_compaction
  OBVIOUS
<1>1. ASSUME NEW s \in Sessions, Work(s) PROVE [SummaryNext]_compaction
  <2>1. CASE MeasureContext(s)
    BY <2>1, SizeAssumption DEF MeasureContext, SummaryNext
  <2>2. CASE TakeSummary(s)
    BY <2>2, SizeAssumption DEF TakeSummary, SummaryNext
  <2>3. CASE AskForSummary(s) \/ SummaryEnds(s) \/ ReplaceContext(s)
    BY <2>3 DEF AskForSummary, SummaryEnds, ReplaceContext, SummaryNext
  <2>4. CASE CallModel(s) \/ RefuseCall(s) \/ TakeAnswer(s) \/ Close(s)
    BY <2>4 DEF CallModel, RefuseCall, TakeAnswer, Close
  <2> QED  BY <1>1, <2>1, <2>2, <2>3, <2>4 DEF Work
<1> QED
  BY <1>1 DEF Next, vars, Receive, Refuse, Handle, TaskCreated, NoTaskCreated,
              Release, Stop, AskForTitle, TakeTitle, CancelTitle, Served
-----------------------------------------------------------------------------
\* The requests and titles of the whole program call the models one at a time.
THEOREM ProgramCallsAreSequential == Spec => []OneCallAtATime
<1>1. Init => InferenceInit
  BY DEF Init
<1>2. Spec => InferenceSpec
  BY <1>1, StepOfInference, PTL DEF Spec, InferenceSpec
<1> QED  BY <1>2, CallsAreSequential, PTL

\* In the whole program too no failure has the same text shown twice.
THEOREM ProgramReplaysNothing == Spec => NeverReplayed
<1>1. Init => InferenceInit
  BY DEF Init
<1>2. Spec => InferenceSpec
  BY <1>1, StepOfInference, PTL DEF Spec, InferenceSpec
<1> QED  BY <1>2, OutputIsNeverReplayed, PTL

\* Neither Stop nor the titles that take turns with a request give one call of
\* a model more attempts than its two budgets allow.
THEOREM ProgramRetriesAreBounded == Spec => []RequestsBounded
<1>1. Init => InferenceInit
  BY DEF Init
<1>2. Spec => InferenceSpec
  BY <1>1, StepOfInference, PTL DEF Spec, InferenceSpec
<1> QED  BY <1>2, RetriesAreBounded, PTL

\* Whatever the request does between the batches of a summary, each request for
\* one fits the context of the model.
THEOREM ProgramSummaryRequestsFit == Spec => []SummaryRequestFits
<1>1. Init => SummaryInit
  BY DEF Init
<1>2. Spec => SummarySpec
  BY <1>1, StepOfSummary, PTL DEF Spec, SummarySpec
<1> QED  BY <1>2, EverySummaryRequestFits, PTL

\* No Stop, failure or title between two batches makes the summary skip text.
THEOREM ProgramSkipsNothing == Spec => []NothingSkipped
<1>1. Init => SummaryInit
  BY DEF Init
<1>2. Spec => SummarySpec
  BY <1>1, StepOfSummary, PTL DEF Spec, SummarySpec
<1> QED  BY <1>2, NoTextIsSkipped, PTL
-----------------------------------------------------------------------------
(* The slot.                                                               *)

SlotInv ==
    /\ reserved \in BOOLEAN
    /\ handler \in [Sessions -> {"idle", "refusing", "calling"}]
    /\ task \in [Sessions -> Running \cup {"none", "over"}]
    /\ SlotIsOwned

\* Only the handler and the task of one session change, and no owner joins another.
LEMMA SlotStep == SlotInv /\ [Next]_vars => SlotInv'
<1> SUFFICES ASSUME SlotInv, [Next]_vars PROVE SlotInv'
  OBVIOUS
<1>1. CASE UNCHANGED <<guarding, task>>
  BY <1>1 DEF guarding, SlotInv, SlotIsOwned, Owner, Running
<1>2. ASSUME NEW s \in Sessions, Receive(s) PROVE SlotInv'
  BY <1>2 DEF Receive, Refused, Handler, SlotInv, SlotIsOwned, Owner, Running
<1>3. ASSUME NEW s \in Sessions, Refuse(s) PROVE SlotInv'
  BY <1>3 DEF Refuse, Handler, SlotInv, SlotIsOwned, Owner, Running
<1>4. ASSUME NEW s \in Sessions, TaskCreated(s) PROVE SlotInv'
  BY <1>4 DEF TaskCreated, Handler, Goto, SlotInv, SlotIsOwned, Owner, Running
<1>5. ASSUME NEW s \in Sessions, NoTaskCreated(s) PROVE SlotInv'
  BY <1>5 DEF NoTaskCreated, Handler, SlotInv, SlotIsOwned, Owner, Running
<1>6. ASSUME NEW s \in Sessions, Release(s) PROVE SlotInv'
  BY <1>6 DEF Release, Goto, SlotInv, SlotIsOwned, Owner, Running
<1>7. ASSUME NEW s \in Sessions, NEW pc \in Running \cup {"over"},
             task[s] # "none", Goto(s, pc), UNCHANGED guarding
      PROVE  SlotInv'
  BY <1>7 DEF guarding, Goto, SlotInv, SlotIsOwned, Owner, Running
<1>8. ASSUME NEW s \in Sessions, Work(s) \/ Stop(s) PROVE SlotInv'
  <2>1. /\ task[s] # "none" /\ UNCHANGED guarding
        /\ UNCHANGED task \/ \E pc \in Running \cup {"over"} : Goto(s, pc)
    BY <1>8
       DEF Work, Stop, MeasureContext, AskForSummary, TakeSummary, SummaryEnds,
           ReplaceContext, CallModel, RefuseCall, TakeAnswer, Close, Running
  <2> QED  BY <1>1, <1>7, <2>1
<1> QED
  BY <1>1, <1>2, <1>3, <1>4, <1>5, <1>6, <1>8
     DEF Next, vars, Handle, AskForTitle, TakeTitle, CancelTitle, Served

\* For any number of tabs and titles, the slot has one owner or is free.
THEOREM OneRequestAtATime == Spec => []SlotIsOwned
<1>1. Init => SlotInv
  BY DEF Init, SlotInv, SlotIsOwned, Owner, Running
<1>2. SlotInv => SlotIsOwned
  BY DEF SlotInv
<1> QED  BY <1>1, <1>2, SlotStep, PTL DEF Spec
-----------------------------------------------------------------------------
(* The types of the whole, with the limit of model calls.                  *)

\* What the request's own variables range over, and who makes a summary.
RequestTypeOK ==
    /\ turn \in [Sessions -> [calls : 0 .. MaxModelCalls, tokens : Nat, kept : Nat]]
    /\ compaction # NoSummary => \E s \in Sessions : task[s] = "summarizing"

RequestInv == SlotInv /\ SummaryInv /\ RequestTypeOK

\* A step that counts no call and leaves every summary to its task.
LEMMA SameTurn ==
    ASSUME RequestInv, NEW s \in Sessions,
           NEW pc \in Running \cup {"none", "over"}, Goto(s, pc) \/ UNCHANGED task,
           UNCHANGED turn \/ turn' = [turn EXCEPT ![s] = NewTurn],
           \/ compaction' = NoSummary
           \/ compaction' = compaction /\ (Goto(s, pc) => task[s] # "summarizing")
           \/ UNCHANGED task /\ compaction # NoSummary
           \/ Goto(s, "summarizing")
    PROVE  RequestTypeOK'
<1>1. task \in [Sessions -> Running \cup {"none", "over"}]
  BY DEF RequestInv, SlotInv
<1>2. turn' \in [Sessions -> [calls : 0 .. MaxModelCalls, tokens : Nat, kept : Nat]]
  BY SessionAssumption DEF RequestInv, RequestTypeOK, NewTurn
<1>3. compaction' # NoSummary => \E r \in Sessions : task'[r] = "summarizing"
  BY <1>1 DEF RequestInv, RequestTypeOK, Goto
<1> QED  BY <1>2, <1>3 DEF RequestTypeOK

\* The sizes that a context is found to have are numbers.
LEMMA MeasuredTyped ==
    ASSUME RequestInv, NEW s \in Sessions, NEW tokens \in Nat, NEW kept \in Nat,
           Measured(s, tokens, kept)
    PROVE  turn' \in [Sessions -> [calls : 0 .. MaxModelCalls, tokens : Nat, kept : Nat]]
<1> DEFINE r == [turn[s] EXCEPT !.tokens = tokens]
           q == [r EXCEPT !.kept = kept]
<1>1. turn \in [Sessions -> [calls : 0 .. MaxModelCalls, tokens : Nat, kept : Nat]]
  BY DEF RequestInv, RequestTypeOK
<1>2. r \in [calls : 0 .. MaxModelCalls, tokens : Nat, kept : Nat]
  BY <1>1
<1>3. q \in [calls : 0 .. MaxModelCalls, tokens : Nat, kept : Nat]
  <2> HIDE DEF r
  <2> QED  BY <1>2
<1>4. turn' = [turn EXCEPT ![s] = q]
  BY <1>1 DEF Measured
<1> HIDE DEF q
<1> QED  BY <1>1, <1>3, <1>4

LEMMA RequestTypeStep == RequestInv /\ [Next]_vars => RequestTypeOK'
<1> SUFFICES ASSUME RequestInv, [Next]_vars PROVE RequestTypeOK'
  OBVIOUS
<1>1. task \in [Sessions -> Running \cup {"none", "over"}]
  BY DEF RequestInv, SlotInv
<1>2. CASE UNCHANGED <<compaction, task, turn>>
  BY <1>2 DEF RequestInv, RequestTypeOK
<1>3. ASSUME NEW s \in Sessions, Handle(s) \/ Release(s) PROVE RequestTypeOK'
  <2>1. CASE TaskCreated(s)
    <3>1. task[s] = "none"
      BY <2>1 DEF TaskCreated, RequestInv, SlotInv, SlotIsOwned
    <3> QED  BY <2>1, <3>1, SameTurn DEF TaskCreated, Running
  <2>2. CASE NoTaskCreated(s)
    BY <1>2, <2>2 DEF NoTaskCreated
  <2>3. CASE Release(s)
    BY <2>3, SameTurn DEF Release
  <2> QED  BY <1>3, <2>1, <2>2, <2>3 DEF Handle
<1>4. ASSUME NEW s \in Sessions, MeasureContext(s) PROVE RequestTypeOK'
  <2>1. PICK tokens \in Contexts :
           \/ Measured(s, tokens, 0) /\ Goto(s, "deciding") /\ UNCHANGED compaction
           \/ Goto(s, "summarizing") /\ UNCHANGED turn
    BY <1>4 DEF MeasureContext
  <2>2. CASE Goto(s, "summarizing") /\ UNCHANGED turn
    BY <2>2, SameTurn DEF Running
  <2>3. CASE Measured(s, tokens, 0) /\ Goto(s, "deciding") /\ UNCHANGED compaction
    <3>1. turn' \in [Sessions -> [calls : 0 .. MaxModelCalls, tokens : Nat, kept : Nat]]
      BY <2>3, MeasuredTyped, SizeAssumption
    <3>2. task[s] # "summarizing"
      BY <1>4 DEF MeasureContext
    <3> QED  BY <1>1, <2>3, <3>1, <3>2 DEF RequestInv, RequestTypeOK, Goto
  <2> QED  BY <2>1, <2>2, <2>3
<1>5. ASSUME NEW s \in Sessions, ReplaceContext(s) PROVE RequestTypeOK'
  <2>1. compaction.summary \in Nat /\ compaction' = NoSummary
    BY <1>5 DEF ReplaceContext, Summarized, RequestInv, SummaryInv, BatchInv, CompactionType
  <2>2. PICK kept \in Contexts :
           Measured(s, Tokens(compaction.summary) + kept, kept)
    BY <1>5 DEF ReplaceContext
  <2>3. kept \in Nat /\ Tokens(compaction.summary) + kept \in Nat
    BY <2>1, SizeAssumption, AvailableIsInteger
  <2> QED  BY <2>1, <2>2, <2>3, MeasuredTyped DEF RequestTypeOK
<1>6. ASSUME NEW s \in Sessions, CallModel(s) PROVE RequestTypeOK'
  <2>1. turn[s].calls \in 0 .. MaxModelCalls /\ turn[s].calls < MaxModelCalls
    BY <1>6 DEF CallModel, MayCall, RequestInv, RequestTypeOK
  <2>2. [NewTurn EXCEPT !.calls = turn[s].calls + 1]
          \in [calls : 0 .. MaxModelCalls, tokens : Nat, kept : Nat]
    BY <2>1, SessionAssumption DEF NewTurn
  <2> QED
    BY <1>1, <1>6, <2>2 DEF CallModel, RequestInv, RequestTypeOK, Goto
<1>7. ASSUME NEW s \in Sessions, AskForSummary(s) \/ TakeSummary(s) \/ SummaryEnds(s)
      PROVE  RequestTypeOK'
  <2>1. CASE AskForSummary(s)
    BY <2>1, SameTurn DEF AskForSummary, NextFragment, Unread, Running
  <2>2. CASE TakeSummary(s)
    BY <2>2, SameTurn DEF TakeSummary, Fold, SummaryFails, Running
  <2>3. CASE SummaryEnds(s)
    BY <2>3, SameTurn DEF SummaryEnds, SummaryFails, NoRoom, Running
  <2> QED  BY <1>7, <2>1, <2>2, <2>3
<1>8. ASSUME NEW s \in Sessions,
             RefuseCall(s) \/ TakeAnswer(s) \/ Close(s) \/ Stop(s)
      PROVE  RequestTypeOK'
  BY <1>8, SameTurn DEF RefuseCall, TakeAnswer, Close, Stop, Running
<1> QED
  BY <1>2, <1>3, <1>4, <1>5, <1>6, <1>7, <1>8
     DEF Next, vars, Work, Receive, Refuse, AskForTitle, TakeTitle, CancelTitle, Served

\* No request calls the model more often than max_model_calls, a summary has a
\* request that makes it, and every other variable keeps its type, for any
\* number of tabs and titles and whatever is stopped, refused or fails.
THEOREM RequestsTypeCorrect == Spec => []TypeOK
<1> DEFINE All == InferenceInv /\ RequestInv
<1>1. Init => All
  <2> SUFFICES ASSUME Init PROVE All
    OBVIOUS
  <2>1. SlotInv
    BY DEF Init, SlotInv, SlotIsOwned, Owner, Running
  <2>2. InferenceInv /\ SummaryInv
    BY InferenceInvInit DEF Init, SummaryInit, SummaryInv
  <2>3. RequestTypeOK
    BY SessionAssumption DEF Init, SummaryInit, RequestTypeOK, NewTurn
  <2> QED  BY <2>1, <2>2, <2>3 DEF RequestInv
<1>2. All /\ [Next]_vars => All'
  BY StepOfInference, StepOfSummary, InferenceInvStep, SummaryInvStep, SlotStep,
     RequestTypeStep DEF RequestInv
<1>3. All => TypeOK
  BY DEF InferenceInv, RequestInv, RequestTypeOK, SlotInv, SlotIsOwned, SummaryInv,
         BatchInv, SummaryTypeOK, TypeOK
<1> QED  BY <1>1, <1>2, <1>3, PTL DEF Spec
-----------------------------------------------------------------------------
(* The size of a context after a summary.                                  *)

\* The summary so far was accepted, or there is none yet.
AcceptedSummary ==
    compaction # NoSummary => Tokens(compaction.summary) + KeepTokens < TriggerTokens

SmallEnough(s) ==
    task[s] = "deciding" /\ turn[s].kept <= KeepTokens =>
        turn[s].tokens < TriggerTokens

Turns == [calls : Nat, tokens : Nat, kept : Nat]

ContextInv ==
    /\ SummaryInv
    /\ AcceptedSummary
    /\ task \in [Sessions -> Running \cup {"none", "over"}]
    /\ turn \in [Sessions -> Turns]
    /\ \A s \in Sessions : SmallEnough(s)

\* A summary is replaced only by one that was accepted.
LEMMA AcceptedStep ==
    ASSUME SummaryInv, AcceptedSummary, [SummaryNext]_compaction
    PROVE  AcceptedSummary'
<1> SUFFICES ASSUME compaction' # NoSummary
             PROVE  Tokens(compaction'.summary) + KeepTokens < TriggerTokens
  BY DEF AcceptedSummary, Tokens
<1>1. CASE UNCHANGED compaction
  BY <1>1 DEF AcceptedSummary
<1>2. ASSUME NEW text \in Nat \ {0}, BeginSummary(text)
      PROVE  Tokens(compaction'.summary) + KeepTokens < TriggerTokens
  BY <1>2, ConfigAssumption DEF BeginSummary, Tokens, Limits, AgentConfigAccepted
<1>3. CASE NextFragment
  <2>1. compaction \in CompactionType
    BY <1>3 DEF NextFragment, Unread, SummaryInv, BatchInv
  <2>2. compaction'.summary = compaction.summary
    BY <1>3, <2>1 DEF NextFragment, CompactionType
  <2> QED  BY <1>3, <2>2 DEF NextFragment, Unread, AcceptedSummary
<1>4. ASSUME NEW size \in Nat, Fold(size)
      PROVE  Tokens(compaction'.summary) + KeepTokens < TriggerTokens
  <2>1. compaction \in CompactionType
    BY <1>4 DEF Fold, SummaryInv, BatchInv
  <2>2. compaction'.summary = size
    BY <1>4, <2>1 DEF Fold, CompactionType
  <2> QED  BY <1>4, <2>2 DEF Fold, InBudget
<1> QED
  BY <1>1, <1>2, <1>3, <1>4 DEF SummaryNext, NoRoom, SummaryFails, Summarized

\* Only a step that begins to decide measures a context, and it is small.
LEMMA ContextStep == ContextInv /\ [Next]_vars => ContextInv'
<1> SUFFICES ASSUME ContextInv, [Next]_vars PROVE ContextInv'
  OBVIOUS
<1>1. SummaryInv' /\ AcceptedSummary'
  BY StepOfSummary, SummaryInvStep, AcceptedStep DEF ContextInv
<1> DEFINE Sizes ==
      /\ task' \in [Sessions -> Running \cup {"none", "over"}]
      /\ turn' \in [Sessions -> Turns]
      /\ \A r \in Sessions : SmallEnough(r)'
<1>2. CASE UNCHANGED <<task, turn>>
  BY <1>1, <1>2 DEF ContextInv, SmallEnough
<1>3. ASSUME NEW s \in Sessions,
             NEW pc \in (Running \ {"deciding"}) \cup {"none", "over"},
             Goto(s, pc),
             NEW t \in Turns, UNCHANGED turn \/ turn' = [turn EXCEPT ![s] = t]
      PROVE  Sizes
  BY <1>3 DEF ContextInv, SmallEnough, Goto
<1>4. ASSUME NEW s \in Sessions, Goto(s, "deciding"),
             NEW tokens \in Nat, NEW kept \in Nat, Measured(s, tokens, kept),
             kept <= KeepTokens => tokens < TriggerTokens
      PROVE  Sizes
  <2> DEFINE t == [turn[s] EXCEPT !.tokens = tokens]
             u == [t EXCEPT !.kept = kept]
  <2>1. t \in Turns /\ t.tokens = tokens
    BY DEF ContextInv, Turns
  <2>2. u \in Turns /\ u.tokens = tokens /\ u.kept = kept
    <3> HIDE DEF t
    <3> QED  BY <2>1 DEF Turns
  <2>3. turn' = [turn EXCEPT ![s] = u]
    BY <1>4 DEF Measured, ContextInv, Turns
  <2> HIDE DEF u
  <2> QED  BY <1>4, <2>2, <2>3 DEF ContextInv, SmallEnough, Goto, Running
<1>5. NewTurn \in Turns
  BY DEF NewTurn, Turns
<1>6. ASSUME NEW s \in Sessions, Handle(s) \/ Release(s) PROVE Sizes
  <2>1. CASE TaskCreated(s)
    BY <1>3, <1>5, <2>1 DEF TaskCreated, Running
  <2>2. CASE Release(s)
    BY <1>3, <1>5, <2>2 DEF Release
  <2>3. CASE NoTaskCreated(s)
    BY <2>3 DEF NoTaskCreated, ContextInv, SmallEnough
  <2> QED  BY <1>6, <2>1, <2>2, <2>3 DEF Handle
<1>7. ASSUME NEW s \in Sessions, MeasureContext(s) PROVE Sizes
  <2>1. PICK tokens \in Contexts :
           \/ /\ tokens < TriggerTokens
              /\ Measured(s, tokens, 0) /\ Goto(s, "deciding")
           \/ Goto(s, "summarizing") /\ UNCHANGED turn
    BY <1>7 DEF MeasureContext
  <2>2. tokens \in Nat
    BY SizeAssumption
  <2>3. CASE Goto(s, "summarizing") /\ UNCHANGED turn
    BY <1>3, <1>5, <2>3 DEF Running
  <2>4. CASE tokens < TriggerTokens /\ Measured(s, tokens, 0) /\ Goto(s, "deciding")
    BY <1>4, <2>2, <2>4
  <2> QED  BY <2>1, <2>3, <2>4
<1>8. ASSUME NEW s \in Sessions, ReplaceContext(s) PROVE Sizes
  <2>1. PICK kept \in Contexts :
           Measured(s, Tokens(compaction.summary) + kept, kept)
    BY <1>8 DEF ReplaceContext
  <2>2. kept \in Nat /\ Tokens(compaction.summary) \in Nat
    <3>1. compaction.summary \in Nat
      BY <1>8 DEF ReplaceContext, Summarized, ContextInv, SummaryInv, BatchInv,
                  CompactionType
    <3> QED  BY <3>1, SizeAssumption, AvailableIsInteger
  <2>3. Tokens(compaction.summary) + KeepTokens < TriggerTokens
    BY <1>8 DEF ReplaceContext, Summarized, ContextInv, AcceptedSummary
  <2>4. kept <= KeepTokens => Tokens(compaction.summary) + kept < TriggerTokens
    BY <2>2, <2>3, ConfigAssumption DEF Limits, AgentConfigAccepted
  <2>5. Goto(s, "deciding")
    BY <1>8 DEF ReplaceContext
  <2> QED  BY <1>4, <2>1, <2>2, <2>4, <2>5
<1>9. ASSUME NEW s \in Sessions, CallModel(s) PROVE Sizes
  <2>1. [NewTurn EXCEPT !.calls = turn[s].calls + 1] \in Turns
    BY DEF NewTurn, Turns, ContextInv
  <2> QED  BY <1>3, <1>9, <2>1 DEF CallModel, Running
<1>10. ASSUME NEW s \in Sessions, Work(s) \/ Stop(s)
       PROVE  Sizes \/ UNCHANGED <<task, turn>>
  <2>1. CASE MeasureContext(s) \/ ReplaceContext(s) \/ CallModel(s)
    BY <1>7, <1>8, <1>9, <2>1
  <2>2. CASE AskForSummary(s) \/ TakeSummary(s) \/ SummaryEnds(s)
    BY <1>3, <1>5, <2>2 DEF AskForSummary, TakeSummary, SummaryEnds, Running
  <2>3. CASE RefuseCall(s) \/ TakeAnswer(s) \/ Close(s)
    BY <1>3, <1>5, <2>3 DEF RefuseCall, TakeAnswer, Close, Running
  <2>4. CASE Stop(s)
    BY <1>3, <1>5, <2>4 DEF Stop, Running
  <2> QED  BY <1>10, <2>1, <2>2, <2>3, <2>4 DEF Work
<1>11. Sizes \/ UNCHANGED <<task, turn>>
  BY <1>6, <1>10
     DEF Next, vars, Receive, Refuse, AskForTitle, TakeTitle, CancelTitle, Served
<1> QED  BY <1>1, <1>2, <1>11 DEF ContextInv

\* With every accepted configuration, messages that keep to their budget fit
\* the model after a summary of any accepted length.
THEOREM CompactionSuffices == Spec => []CompactedContextFits
<1>1. Init => ContextInv
  BY DEF Init, SummaryInit, ContextInv, SummaryInv, AcceptedSummary, SmallEnough,
         Turns, NewTurn, Running
<1>2. ContextInv => CompactedContextFits
  BY ConfigAssumption, PromptAssumption, SizeAssumption
     DEF ContextInv, SmallEnough, Turns, CompactedContextFits, Fits, Limits,
         AgentConfigAccepted
<1> QED  BY <1>1, <1>2, ContextStep, PTL DEF Spec
=============================================================================
