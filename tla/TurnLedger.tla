----------------------------- MODULE TurnLedger -----------------------------
(***************************************************************************)
(* What the chat runtime promises, with no locks, checkpoints or rollback: *)
(* every Chat is a ledger of completed Turns, the model's context is the   *)
(* sequence of requests in that ledger, and a Turn or a Revision happens   *)
(* in one step or not at all.  ChatRuntime is shown to implement this.     *)
(***************************************************************************)
EXTENDS Integers, Sequences

CONSTANTS
    Chats,      \* Chat identifiers
    TurnIds,    \* Turn identifiers, which are message identifiers
    Requests,   \* request texts
    Files,      \* documents a user may attach
    Imported    \* the Turns an older version of the program left, by Chat

VARIABLES
    open,       \* the Chats that are not being deleted
    turns,      \* by Chat: its completed Turns, oldest first
    context,    \* by Chat: the requests the model is reminded of
    sandbox     \* by Chat: the documents its tools can read

vars == <<open, turns, context, sandbox>>

Texts(h) == [k \in DOMAIN h |-> h[k].text]

Ids(h) == {h[k].id : k \in DOMAIN h}

Init ==
    /\ open = Chats
    /\ turns = [c \in Chats |->
                  [k \in DOMAIN Imported[c] |->
                     [id |-> Imported[c][k].id, text |-> Imported[c][k].text,
                      given |-> {}]]]
    /\ context = [c \in Chats |-> Texts(Imported[c])]
    /\ sandbox = [c \in Chats |-> {}]

Attach(c, f) ==
    /\ c \in open
    /\ sandbox' = [sandbox EXCEPT ![c] = @ \cup {f}]
    /\ UNCHANGED <<open, turns, context>>

\* A completed Turn enters the ledger and the context together.
Submit(c, id, text) ==
    /\ c \in open
    /\ id \notin Ids(turns[c])
    /\ turns' = [turns EXCEPT ![c] =
                   Append(@, [id |-> id, text |-> text, given |-> sandbox[c]])]
    /\ context' = [context EXCEPT ![c] = Append(@, text)]
    /\ UNCHANGED <<open, sandbox>>

\* A Revision discards the Turns from the k-th on, and the new k-th Turn starts
\* from what the old one started from, plus what the edited message attaches.
Revise(c, k, text, attached) ==
    /\ c \in open
    /\ k \in DOMAIN turns[c]
    /\ turns' = [turns EXCEPT ![c] =
                   Append(SubSeq(@, 1, k - 1), [@[k] EXCEPT !.text = text])]
    /\ context' = [context EXCEPT ![c] = Append(SubSeq(@, 1, k - 1), text)]
    /\ sandbox' = [sandbox EXCEPT ![c] = turns[c][k].given \cup attached]
    /\ UNCHANGED open

\* From the request to delete it on, a Chat has nothing and receives nothing.
Close(c) ==
    /\ c \in open
    /\ open' = open \ {c}
    /\ turns' = [turns EXCEPT ![c] = <<>>]
    /\ context' = [context EXCEPT ![c] = <<>>]
    /\ sandbox' = [sandbox EXCEPT ![c] = {}]

Next ==
    \E c \in Chats :
        \/ \E f \in Files : Attach(c, f)
        \/ \E id \in TurnIds, text \in Requests : Submit(c, id, text)
        \/ \E k \in DOMAIN turns[c], text \in Requests, attached \in SUBSET Files :
               Revise(c, k, text, attached)
        \/ Close(c)

Spec == Init /\ [][Next]_vars
=============================================================================
