--------------------------- MODULE MCRequestGuard ---------------------------
(* Two tabs and two title tasks; sizes small enough to meet every limit.   *)
EXTENDS RequestGuard

CONSTANTS s1, s2, u1, u2

MCSessions == {s1, s2}
MCTitles == {u1, u2}
MCCallers == MCSessions \cup MCTitles

\* Below and at the trigger, and a last message that nothing can shorten.
MCContexts == {1, 15}
\* Read in one request, and in several.
MCTexts == {2, 44}
\* Empty, short, and as long as is accepted, which leaves no room, and longer.
MCSummaries == {0, 8, 26, 30}
=============================================================================
