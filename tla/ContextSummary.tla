--------------------------- MODULE ContextSummary ---------------------------
(***************************************************************************)
(* The budgets of one Turn's context: AgentConfig's checks (settings.py),  *)
(* the summary of older messages in bounded batches (ContextSummary, in    *)
(* agent_context.py) and the guard ahead of every call of the model        *)
(* (ModelGuardrails).  Texts are counts of characters.                     *)
(***************************************************************************)
EXTENDS Integers

CONSTANTS
    ContextTokens, TriggerTokens, KeepTokens, SummaryTokens,
    MaxOutputTokens,    \* the limits of AgentConfig
    Allowance,          \* the fixed reserve, 1000 tokens
    Instructions,       \* tokens of the summary's prompt, without its texts
    NoSummary           \* no summary is being made

Limits == {ContextTokens, TriggerTokens, KeepTokens, SummaryTokens,
           MaxOutputTokens}

\* AgentConfig.__post_init__ refuses any other limits.
AgentConfigAccepted ==
    /\ Limits \subseteq Nat \ {0}
    /\ SummaryTokens * 3 + 2 * Allowance < ContextTokens
    /\ KeepTokens + SummaryTokens < TriggerTokens
    /\ TriggerTokens + MaxOutputTokens + 2 * Allowance <= ContextTokens

ASSUME ConfigAssumption == AgentConfigAccepted

\* The texts of the prompts are short; the sizes are in prompts.py.
ASSUME PromptAssumption ==
    /\ Allowance \in Nat /\ Instructions \in 1..Allowance

VARIABLE compaction     \* the summary being made

CompactionType ==
    [text : Nat,        \* len(text), all older messages
     start : Nat,
     summary : Nat,     \* len(summary)
     fragment : Nat,    \* the part of the text in the request under way
     folded : SUBSET Nat]   \* history: the characters the summary stands for

SummaryTypeOK == compaction \in CompactionType \cup {NoSummary}

\* count_tokens: two characters a token; what a message adds besides its
\* text is in Instructions.
Tokens(chars) == (chars + 1) \div 2

Available(summary) ==
    ContextTokens - SummaryTokens - (Instructions + Tokens(summary)) - Allowance

\* Fault: the room for the next fragment ignores the summary before it.
Piece_AssumedSummary(c) ==
    LET room == 2 * Available(0)
        left == c.text - c.start
    IN IF room < left THEN room ELSE left

\* text[start : start + available * 2]
Piece(c) ==
    LET room == 2 * Available(c.summary)
        left == c.text - c.start
    IN IF room < left THEN room ELSE left

\* ModelGuardrails: the whole request and its answer must fit.
Fits(tokens) == tokens + MaxOutputTokens + Allowance <= ContextTokens
-----------------------------------------------------------------------------
BeginSummary(text) ==
    /\ compaction = NoSummary
    /\ compaction' = [text |-> text, start |-> 0, summary |-> 0,
                      fragment |-> 0, folded |-> {}]

Unread ==
    /\ compaction # NoSummary
    /\ compaction.fragment = 0 /\ compaction.start < compaction.text

NextFragment ==
    /\ Unread
    /\ Available(compaction.summary) > 0
    /\ compaction' = [compaction EXCEPT !.fragment = Piece(compaction)]

\* Every error leaves the context as it was.
NoRoom ==
    /\ Unread
    /\ Available(compaction.summary) <= 0
    /\ compaction' = NoSummary

\* Fault: the budget of the summary alone is compared.
InBudget_AloneFits(size) == Tokens(size) <= TriggerTokens

InBudget(size) == Tokens(size) + KeepTokens < TriggerTokens

\* Fault: the next start is computed from the room the new summary leaves.
Fold_FromNewRoom(size) ==
    /\ compaction # NoSummary /\ compaction.fragment > 0
    /\ size > 0 /\ InBudget(size)
    /\ compaction' =
         [compaction EXCEPT
            !.start = @ + Piece([compaction EXCEPT !.summary = size]),
            !.summary = size, !.fragment = 0,
            !.folded = @ \cup (compaction.start ..
                               compaction.start + compaction.fragment - 1)]

\* A usable answer: the new summary stands for the old one and the fragment.
Fold(size) ==
    /\ compaction # NoSummary /\ compaction.fragment > 0
    /\ size > 0 /\ InBudget(size)
    /\ compaction' =
         [compaction EXCEPT
            !.start = @ + compaction.fragment,
            !.summary = size, !.fragment = 0,
            !.folded = @ \cup (compaction.start ..
                               compaction.start + compaction.fragment - 1)]

\* An empty, truncated or too long answer, or none at all.
SummaryFails ==
    /\ compaction # NoSummary /\ compaction.fragment > 0
    /\ compaction' = NoSummary

\* The older messages are replaced by the summary.
Summarized ==
    /\ compaction # NoSummary
    /\ compaction.fragment = 0 /\ compaction.start >= compaction.text
    /\ compaction' = NoSummary
-----------------------------------------------------------------------------
SummaryInit == compaction = NoSummary

SummaryNext ==
    \/ \E text \in Nat \ {0} : BeginSummary(text)
    \/ NextFragment \/ NoRoom \/ SummaryFails \/ Summarized
    \/ \E size \in Nat : Fold(size)

SummarySpec == SummaryInit /\ [][SummaryNext]_compaction
-----------------------------------------------------------------------------
(* Properties.                                                             *)

\* A request for a summary fits into the context with the instructions, the
\* actual previous summary, the fragment and the room for its output.
SummaryRequestFits ==
    compaction # NoSummary /\ compaction.fragment > 0 =>
        Instructions + Tokens(compaction.summary + compaction.fragment)
            + SummaryTokens + Allowance <= ContextTokens

\* No older message is trimmed: whatever lengths the summaries have, the text
\* ahead of start, and at the end all of it, is in the summary, each part once.
NothingSkipped ==
    compaction # NoSummary =>
        /\ compaction.folded = 0 .. (compaction.start - 1)
        /\ compaction.start <= compaction.text
=============================================================================
