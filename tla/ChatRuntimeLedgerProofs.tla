---------------------- MODULE ChatRuntimeLedgerProofs ----------------------
(***************************************************************************)
(* What a Turn leaves in a Chat, for every set of Chats, tasks, messages,  *)
(* texts and documents: the context is the history, each Turn can be       *)
(* revised, the Agent sees the Turns ahead of it and no others, and the    *)
(* whole implements TurnLedger.                                            *)
(*                                                                         *)
(* The invariant IInv of ChatRuntimeProofs says who may change what.       *)
(* Content says what is there: in each phase of a transaction the context, *)
(* the history and the files, and what the rollback data would make of     *)
(* them.                                                                   *)
(***************************************************************************)
EXTENDS ChatRuntimeProofs

\* Each checkpoint of a history is the context of the Turns ahead of its owner.
RowsGood(h, c) ==
    \A k \in DOMAIN h : h[k].before # Legacy =>
        /\ h[k].before.chat = c
        /\ h[k].before.texts = Texts(Before(h, k))

\* The history the transaction of a task began with.
Entry(t) ==
    LET j == job[t] IN
    IF j.replaced THEN Before(history[j.chat], j.at) \o j.cont ELSE history[j.chat]

\* What a Turn or Revision keeps for its rollback is what it began with.
Kept(t) ==
    LET j == job[t] IN
    /\ j.context = Texts(Entry(t))
    /\ RowsGood(Entry(t), j.chat)
    /\ j.kind = "edit" /\ pc[t] # "snapshot" =>
         /\ j.at \in 1 .. Len(Entry(t))
         /\ j.cont = SubSeq(Entry(t), j.at, Len(Entry(t)))

\* What the Agent is given: the context of the Turns ahead.
Ahead(t) ==
    LET j == job[t] IN
    IF j.kind = "edit" THEN Texts(Before(history[j.chat], j.at)) ELSE j.context

\* The context of a Chat in a transaction.
Reminded(t) ==
    LET j == job[t]
        stored == memory[j.chat] IN
    /\ pc[t] \in {"snapshot", "ready"} => stored = <<j.context>>
    /\ pc[t] \in {"rewinding", "attaching", "starting"} => stored = <<Ahead(t)>>
    /\ pc[t] = "running" => j.loaded = Ahead(t)
    /\ pc[t] = "view" => stored = <<Texts(history[j.chat])>>
    /\ pc[t] = "restoring" /\ j.chat \notin marked => stored = <<j.context>>

\* How far a Revision has come with the history.
Replaced(t) ==
    LET j == job[t]
        h == history[j.chat] IN
    /\ pc[t] \notin {"view", "rollback", "restoring"} => ~j.replaced
    /\ pc[t] = "view" =>
         /\ j.replaced
         /\ Len(h) = j.at
         /\ h[j.at] = [j.cont[1] EXCEPT !.text = j.text]
    /\ pc[t] = "restoring" => Entry(t) = h

\* The documents a Chat has in a transaction.
Provided(t) ==
    LET j == job[t]
        c == j.chat
        given == history[c][j.at].given IN
    /\ j.kind = "message" /\ pc[t] \in {"starting", "running"} => files[c] = j.kept
    /\ j.kind = "edit" /\ pc[t] \in {"snapshot", "ready", "rewinding"} =>
         j.pending = j.uploads
    /\ pc[t] = "rewinding" =>
         IF restoring[c] = None THEN files[c] = given ELSE restoring[c] = <<given>>
    /\ pc[t] = "attaching" =>
         j.pending \subseteq j.uploads /\ files[c] = given \cup (j.uploads \ j.pending)
    /\ j.kind = "edit" /\ pc[t] \in {"starting", "running", "view"} =>
         files[c] = given \cup j.uploads
    /\ pc[t] = "restoring" /\ ~FaultyFiles =>
         IF restoring[c] = None THEN files[c] = j.kept ELSE restoring[c] = <<j.kept>>

OpenTurn(t) ==
    pc[t] \in TurnPcs => Kept(t) /\ Reminded(t) /\ Replaced(t) /\ Provided(t)

\* A request that has not begun its transaction.
Waiting(t) ==
    pc[t] \in {"queued", "admitted"} /\ job[t].kind # "delete" =>
        /\ ~job[t].replaced
        /\ job[t].kind = "edit" => job[t].pending = job[t].uploads

\* A Chat with no open transaction that nobody has asked to delete.
AtRest(c) ==
    /\ RowsGood(history[c], c)
    /\ c \notin marked /\ chatLock[c] = NoTask => Messages(c) = Texts(history[c])

IsMessage(t) == pc[t] # "idle" /\ job[t].kind = "message"
IsRequest(t) == pc[t] # "idle" /\ job[t].kind # "delete"

\* An identifier some history has, or would have after a rollback.
InUse(id) ==
    \/ \E c \in Chats : id \in Ids(history[c])
    \/ \E u \in Tasks : IsRequest(u) /\ id \in Ids(job[u].cont)

\* The identifier of a message that has no Turn yet is its own.
NewId(t) ==
    IsMessage(t) =>
        /\ ~InUse(job[t].id)
        /\ \A u \in Tasks \ {t} : IsMessage(u) => job[t].id # job[u].id

Content ==
    /\ \A t \in Tasks : OpenTurn(t) /\ Waiting(t) /\ NewId(t)
    /\ \A c \in Chats : AtRest(c)

\* Deletion: who may still work in the Chat, and what it has removed.
Gone ==
    /\ deleting \subseteq marked
    /\ \A t \in Tasks :
         /\ pc[t] # "idle" /\ job[t].kind = "delete" => job[t].chat \in marked
         /\ pc[t] \in DeletePcs \cup {"closing"} => job[t].chat \in deleting
         /\ pc[t] \in TurnPcs \cup {"admitted"} => job[t].chat \notin deleting
    /\ \A c \in Chats :
         /\ c \notin deleting => c \in memSnaps \cap fileSnaps
         /\ c \notin memSnaps => memory[c] = None
         /\ c \notin fileSnaps => restoring[c] = None
-----------------------------------------------------------------------------
(* Histories as sequences.                                                 *)

\* The part ahead of a position, also of the position after the last.
LEMMA BeforeFacts ==
    ASSUME NEW h \in Seq(Turn), NEW k \in 1 .. Len(h) + 1
    PROVE  /\ Before(h, k) \in Seq(Turn)
           /\ Len(Before(h, k)) = k - 1
           /\ \A i \in 1 .. k - 1 : Before(h, k)[i] = h[i]
<1>1. Len(h) \in Nat
  BY LenProperties
<1>2. k \in Nat /\ k - 1 \in Int /\ 1 \in Int
  BY <1>1
<1>3. \A i \in 1 .. k - 1 : h[i] \in Turn
  BY <1>1, ElementOfSeq
<1>4. /\ SubSeq(h, 1, k - 1) \in Seq(Turn)
      /\ Len(SubSeq(h, 1, k - 1)) = IF 1 <= k - 1 THEN k - 1 - 1 + 1 ELSE 0
      /\ \A i \in 1 .. k - 1 - 1 + 1 : SubSeq(h, 1, k - 1)[i] = h[1 + i - 1]
  BY <1>2, <1>3, SubSeqProperties
<1>5. k - 1 - 1 + 1 = k - 1 /\ \A i \in 1 .. k - 1 : 1 + i - 1 = i
  BY <1>2
<1> QED  BY <1>1, <1>2, <1>4, <1>5 DEF Before

\* The texts of a history, one by one.
LEMMA TextsFacts ==
    ASSUME NEW h \in Seq(Turn)
    PROVE  /\ Texts(h) \in Seq(Requests)
           /\ Len(Texts(h)) = Len(h)
           /\ Len(h) \in Nat
           /\ \A i \in 1 .. Len(h) : Texts(h)[i] = h[i].text
BY TextsIsSeq, LenProperties DEF Texts

\* Histories with the same Turns in the same places are the same.
LEMMA SameTurns ==
    ASSUME NEW g \in Seq(Turn), NEW h \in Seq(Turn), Len(g) = Len(h),
           \A i \in 1 .. Len(g) : g[i] = h[i]
    PROVE  g = h
BY SeqEqual

LEMMA SameTexts ==
    ASSUME NEW g \in Seq(Turn), NEW h \in Seq(Turn), Len(g) = Len(h),
           \A i \in 1 .. Len(g) : g[i].text = h[i].text
    PROVE  Texts(g) = Texts(h)
<1>1. \A i \in 1 .. Len(Texts(g)) : Texts(g)[i] = Texts(h)[i]
  BY TextsFacts
<1> QED  BY <1>1, TextsFacts, SeqEqual

LEMMA TextsOfAppend ==
    ASSUME NEW h \in Seq(Turn), NEW turn \in Turn
    PROVE  Texts(Append(h, turn)) = Append(Texts(h), turn.text)
<1>1. /\ Append(h, turn) \in Seq(Turn) /\ Len(Append(h, turn)) = Len(h) + 1
      /\ \A i \in 1 .. Len(h) : Append(h, turn)[i] = h[i]
      /\ Append(h, turn)[Len(h) + 1] = turn
  BY AppendProperties
<1>2. turn.text \in Requests
  BY DEF Turn
<1>3. /\ Append(Texts(h), turn.text) \in Seq(Requests)
      /\ Len(Append(Texts(h), turn.text)) = Len(h) + 1
      /\ \A i \in 1 .. Len(h) : Append(Texts(h), turn.text)[i] = Texts(h)[i]
      /\ Append(Texts(h), turn.text)[Len(h) + 1] = turn.text
  BY <1>2, TextsFacts, AppendProperties
<1>4. /\ Texts(Append(h, turn)) \in Seq(Requests)
      /\ Len(Texts(Append(h, turn))) = Len(h) + 1
      /\ \A i \in 1 .. Len(h) + 1 :
           Texts(Append(h, turn))[i] = Append(h, turn)[i].text
  BY <1>1, TextsFacts
<1>5. \A i \in 1 .. Len(h) + 1 :
        Texts(Append(h, turn))[i] = Append(Texts(h), turn.text)[i]
  BY <1>1, <1>3, <1>4, TextsFacts
<1> QED  BY <1>3, <1>4, <1>5, SeqEqual

\* A Turn appended to a history has that history ahead of it.
LEMMA BeforeOfAppend ==
    ASSUME NEW h \in Seq(Turn), NEW turn \in Turn
    PROVE  \A k \in 1 .. Len(h) + 1 : Before(Append(h, turn), k) = Before(h, k)
<1>1. /\ Append(h, turn) \in Seq(Turn) /\ Len(Append(h, turn)) = Len(h) + 1
      /\ \A i \in 1 .. Len(h) : Append(h, turn)[i] = h[i]
      /\ Len(h) \in Nat
  BY AppendProperties, LenProperties
<1> SUFFICES ASSUME NEW k \in 1 .. Len(h) + 1
             PROVE  Before(Append(h, turn), k) = Before(h, k)
  OBVIOUS
<1> DEFINE g == Append(h, turn)
<1>2. g \in Seq(Turn) /\ k \in 1 .. Len(g) + 1 /\ \A i \in 1 .. k - 1 : g[i] = h[i]
  BY <1>1
<1> HIDE DEF g
<1>3. /\ Before(g, k) \in Seq(Turn) /\ Len(Before(g, k)) = k - 1
      /\ \A i \in 1 .. k - 1 : Before(g, k)[i] = g[i]
  BY <1>2, BeforeFacts
<1>4. /\ Before(h, k) \in Seq(Turn) /\ Len(Before(h, k)) = k - 1
      /\ \A i \in 1 .. k - 1 : Before(h, k)[i] = h[i]
  BY BeforeFacts
<1>5. \A i \in 1 .. k - 1 : Before(g, k)[i] = Before(h, k)[i]
  BY <1>2, <1>3, <1>4
<1>6. Before(g, k) = Before(h, k)
  BY <1>3, <1>4, <1>5, SameTurns
<1> QED  BY <1>6 DEF g

LEMMA BeforeAll ==
    ASSUME NEW h \in Seq(Turn)
    PROVE  Before(h, Len(h) + 1) = h
<1>1. Len(h) \in Nat
  BY LenProperties
<1> DEFINE k == Len(h) + 1
<1>2. k - 1 = Len(h) /\ k \in 1 .. Len(h) + 1
  BY <1>1
<1> HIDE DEF k
<1>3. /\ Before(h, k) \in Seq(Turn) /\ Len(Before(h, k)) = k - 1
      /\ \A i \in 1 .. k - 1 : Before(h, k)[i] = h[i]
  BY <1>2, BeforeFacts
<1>4. Before(h, k) = h
  BY <1>2, <1>3, SameTurns
<1> QED  BY <1>4 DEF k

\* A prefix of a prefix.
LEMMA BeforeOfBefore ==
    ASSUME NEW h \in Seq(Turn), NEW k \in 1 .. Len(h) + 1
    PROVE  \A i \in 1 .. k : Before(Before(h, k), i) = Before(h, i)
<1>1. Len(h) \in Nat
  BY LenProperties
<1> SUFFICES ASSUME NEW i \in 1 .. k
             PROVE  Before(Before(h, k), i) = Before(h, i)
  OBVIOUS
<1> DEFINE b == Before(h, k)
<1>2. b \in Seq(Turn) /\ Len(b) = k - 1 /\ \A j \in 1 .. k - 1 : b[j] = h[j]
  BY BeforeFacts
<1>3. i \in 1 .. Len(b) + 1 /\ i \in 1 .. Len(h) + 1
  BY <1>1, <1>2
<1> HIDE DEF b
<1>4. /\ Before(b, i) \in Seq(Turn) /\ Len(Before(b, i)) = i - 1
      /\ \A j \in 1 .. i - 1 : Before(b, i)[j] = b[j]
  BY <1>2, <1>3, BeforeFacts
<1>5. /\ Before(h, i) \in Seq(Turn) /\ Len(Before(h, i)) = i - 1
      /\ \A j \in 1 .. i - 1 : Before(h, i)[j] = h[j]
  BY <1>3, BeforeFacts
<1>6. \A j \in 1 .. i - 1 : Before(b, i)[j] = Before(h, i)[j]
  BY <1>1, <1>2, <1>4, <1>5
<1>7. Before(b, i) = Before(h, i)
  BY <1>4, <1>5, <1>6, SameTurns
<1> QED  BY <1>7 DEF b

\* A history is what is ahead of a Turn and the continuation from it.
LEMMA Continuation ==
    ASSUME NEW h \in Seq(Turn), NEW k \in 1 .. Len(h)
    PROVE  /\ SubSeq(h, k, Len(h)) \in Seq(Turn)
           /\ Len(SubSeq(h, k, Len(h))) = Len(h) - k + 1
           /\ \A i \in 1 .. Len(h) - k + 1 : SubSeq(h, k, Len(h))[i] = h[k + i - 1]
           /\ Before(h, k) \o SubSeq(h, k, Len(h)) = h
<1> DEFINE b == Before(h, k)
           s == SubSeq(h, k, Len(h))
<1>1. Len(h) \in Nat /\ k \in Nat /\ k >= 1 /\ k <= Len(h)
  BY LenProperties
<1>2. \A i \in k .. Len(h) : h[i] \in Turn
  BY <1>1, ElementOfSeq
<1>3. /\ s \in Seq(Turn) /\ Len(s) = Len(h) - k + 1
      /\ \A i \in 1 .. Len(h) - k + 1 : s[i] = h[k + i - 1]
  BY <1>1, <1>2, SubSeqProperties
<1>4. b \in Seq(Turn) /\ Len(b) = k - 1 /\ \A i \in 1 .. k - 1 : b[i] = h[i]
  BY <1>1, BeforeFacts
<1> HIDE DEF b, s
<1>5. /\ b \o s \in Seq(Turn) /\ Len(b \o s) = Len(b) + Len(s)
      /\ \A i \in 1 .. Len(b) + Len(s) :
           (b \o s)[i] = IF i <= Len(b) THEN b[i] ELSE s[i - Len(b)]
  BY <1>3, <1>4, ConcatProperties
<1>6. Len(b \o s) = Len(h)
  BY <1>1, <1>3, <1>4, <1>5
<1>7. \A i \in 1 .. Len(h) : (b \o s)[i] = h[i]
  <2> SUFFICES ASSUME NEW i \in 1 .. Len(h) PROVE (b \o s)[i] = h[i]
    OBVIOUS
  <2>1. (b \o s)[i] = IF i <= Len(b) THEN b[i] ELSE s[i - Len(b)]
    BY <1>1, <1>3, <1>4, <1>5
  <2>2. CASE i <= k - 1
    BY <1>1, <1>4, <2>1, <2>2
  <2>3. CASE i > k - 1
    <3>1. i - Len(b) \in 1 .. Len(h) - k + 1 /\ k + (i - Len(b)) - 1 = i
      BY <1>1, <1>4, <2>3
    <3>2. s[i - Len(b)] = h[i]
      BY <1>3, <3>1
    <3> QED  BY <1>1, <1>4, <2>1, <2>3, <3>2
  <2>4. i <= k - 1 \/ i > k - 1
    BY <1>1
  <2> QED  BY <2>2, <2>3, <2>4
<1>8. b \o s = h
  BY <1>5, <1>6, <1>7, SameTurns
<1> QED  BY <1>3, <1>8 DEF b, s

\* Ahead of a continuation is what it continues.
LEMMA BeforeOfConcat ==
    ASSUME NEW b \in Seq(Turn), NEW s \in Seq(Turn), NEW k \in Nat,
           Len(b) = k - 1, Len(s) >= 1
    PROVE  /\ b \o s \in Seq(Turn)
           /\ k \in 1 .. Len(b \o s)
           /\ Before(b \o s, k) = b
           /\ SubSeq(b \o s, k, Len(b \o s)) = s
           /\ (b \o s)[k] = s[1]
<1>1. Len(b) \in Nat /\ Len(s) \in Nat
  BY LenProperties
<1>2. /\ b \o s \in Seq(Turn) /\ Len(b \o s) = Len(b) + Len(s)
      /\ \A i \in 1 .. Len(b) + Len(s) :
           (b \o s)[i] = IF i <= Len(b) THEN b[i] ELSE s[i - Len(b)]
  BY ConcatProperties
<1>3. k \in 1 .. Len(b \o s)
  BY <1>1, <1>2
<1>4. Before(b \o s, k) = b
  <2> DEFINE h == b \o s
  <2>1. h \in Seq(Turn) /\ k \in 1 .. Len(h) + 1
    BY <1>1, <1>2, <1>3
  <2>2. \A i \in 1 .. k - 1 : h[i] = b[i]
    <3> SUFFICES ASSUME NEW i \in 1 .. k - 1 PROVE h[i] = b[i]
      OBVIOUS
    <3>1. i \in 1 .. Len(b) + Len(s) /\ i <= Len(b)
      BY <1>1
    <3> QED  BY <1>2, <3>1
  <2> HIDE DEF h
  <2>3. /\ Before(h, k) \in Seq(Turn) /\ Len(Before(h, k)) = k - 1
        /\ \A i \in 1 .. k - 1 : Before(h, k)[i] = h[i]
    BY <2>1, BeforeFacts
  <2>4. \A i \in 1 .. k - 1 : Before(h, k)[i] = b[i]
    BY <2>2, <2>3
  <2>5. Before(h, k) = b
    BY <2>3, <2>4, SameTurns
  <2> QED  BY <2>5 DEF h
<1>5. SubSeq(b \o s, k, Len(b \o s)) = s
  <2> DEFINE h == b \o s
             q == SubSeq(h, k, Len(h))
  <2>1. h \in Seq(Turn) /\ k \in 1 .. Len(h)
    BY <1>2, <1>3
  <2> HIDE DEF h
  <2>2. /\ q \in Seq(Turn) /\ Len(q) = Len(h) - k + 1
        /\ \A i \in 1 .. Len(h) - k + 1 : q[i] = h[k + i - 1]
    BY <2>1, Continuation
  <2> HIDE DEF q
  <2>3. Len(q) = Len(s)
    BY <1>1, <1>2, <2>2 DEF h
  <2>4. \A i \in 1 .. Len(s) : q[i] = s[i]
    <3> SUFFICES ASSUME NEW i \in 1 .. Len(s) PROVE q[i] = s[i]
      OBVIOUS
    <3>1. q[i] = h[k + i - 1]
      BY <2>2, <2>3
    <3>2. k + i - 1 \in 1 .. Len(b) + Len(s) /\ ~(k + i - 1 <= Len(b))
          /\ k + i - 1 - Len(b) = i
      BY <1>1
    <3>3. h[k + i - 1] = s[i]
      BY <1>2, <3>2 DEF h
    <3> QED  BY <3>1, <3>3
  <2>5. q = s
    BY <2>2, <2>3, <2>4, SameTurns
  <2> QED  BY <2>5 DEF h, q
<1>6. (b \o s)[k] = s[1]
  <2>1. k \in 1 .. Len(b) + Len(s) /\ ~(k <= Len(b)) /\ k - Len(b) = 1
    BY <1>1
  <2> QED  BY <1>2, <2>1
<1> QED  BY <1>2, <1>3, <1>4, <1>5, <1>6
-----------------------------------------------------------------------------
(* What a step leaves alone. *)

Untouched(c) ==
    /\ history'[c] = history[c] /\ memory'[c] = memory[c]
    /\ files'[c] = files[c] /\ restoring'[c] = restoring[c]
    /\ chatLock'[c] = chatLock[c]

\* The step of a task: the others stay where they are, and only the Chat it
\* serves is touched.
Alone(t) ==
    /\ \A u \in Tasks \ {t} : pc'[u] = pc[u] /\ job'[u] = job[u]
    /\ \A c \in Chats \ {job[t].chat} : Untouched(c)

\* The locks a handler gives back are those of its own Chat.
LEMMA LeaveLocks ==
    ASSUME IInv, NEW t \in Tasks, pc[t] # "idle", Leave(t)
    PROVE  /\ \A u \in Tasks \ {t} : pc'[u] = pc[u] /\ job'[u] = job[u]
           /\ \A c \in Chats \ {job[t].chat} : chatLock'[c] = chatLock[c]
           /\ pc'[t] = "idle"
           /\ pc[t] \in {"queued", "admitted", "closing"} => chatLock' = chatLock
           /\ pc[t] \in TurnPcs \cup DeletePcs =>
                job[t].chat \in Chats /\ chatLock'[job[t].chat] = NoTask
BY PcFacts, Holds DEF IInv, TypeOK, Leave, LocksHeld

LEMMA GotoLocks ==
    ASSUME IInv, NEW t \in Tasks, NEW next, Goto(t, next)
    PROVE  /\ \A u \in Tasks \ {t} : pc'[u] = pc[u]
           /\ pc'[t] = next /\ chatLock' = chatLock
BY DEF IInv, TypeOK, Goto

LEMMA ServeAlone ==
    ASSUME IInv, NEW t \in Tasks, Serve(t)
    PROVE  Alone(t)
<1> USE DEF Alone, Untouched, IInv, TypeOK
<1>1. CASE \/ Drop(t) \/ Refuse(t) \/ CommitTurn(t) \/ CommitRevision(t)
           \/ RolledBack(t) \/ DeleteFilesFails(t) \/ DeleteHistory(t)
  <2>1. pc[t] # "idle" /\ Leave(t)
    BY <1>1 DEF Drop, Refuse, Ready, CommitTurn, Answered, CommitRevision,
                RolledBack, DeleteFilesFails, DeleteHistory
  <2> QED
    BY <1>1, <2>1, LeaveLocks
       DEF Drop, Refuse, CommitTurn, Answered, CommitRevision, RolledBack,
           DeleteFilesFails, DeleteHistory, agentState, sandbox
<1>2. CASE Admit(t) \/ AdmitDelete(t)
  BY <1>2 DEF Admit, AdmitDelete, agentState, sandbox
<1>3. CASE \E f \in Files : Upload(t, f)
  BY <1>3 DEF Upload, agentState
<1>4. CASE UploadRejected(t)
  <2>1. pc[t] # "idle"
    BY <1>4 DEF UploadRejected, Uploading
  <2>2. CASE pc[t] = "attaching"
    BY <1>4, <2>2, GotoLocks DEF UploadRejected, agentState, sandbox
  <2>3. CASE pc[t] # "attaching"
    BY <1>4, <2>1, <2>3, LeaveLocks DEF UploadRejected, agentState, sandbox
  <2> QED  BY <2>2, <2>3
<1>5. CASE EnterChat(t) \/ TakeSnapshot(t)
  BY <1>5 DEF EnterChat, TakeSnapshot, Goto, agentState, sandbox
<1>6. CASE \/ RewindImpossible(t) \/ Rewound(t) \/ Attached(t) \/ RunFails(t)
           \/ HistoryFails(t) \/ ViewFails(t)
  BY <1>6 DEF RewindImpossible, Rewound, Attached, RunFails, HistoryFails, Answered,
              ViewFails, Goto, agentState, sandbox
<1>7. CASE Rewind(t) \/ StartRun(t) \/ ReplaceTurns(t) \/ Rollback(t)
  BY <1>7 DEF Rewind, StartRun, ReplaceTurns, Answered, Rollback, Goto, agentState,
              sandbox
<1>8. CASE DeleteContext(t) \/ DeleteFiles(t)
  BY <1>8 DEF DeleteContext, DeleteFiles, Goto, agentState, sandbox
<1> QED
  BY <1>1, <1>2, <1>3, <1>4, <1>5, <1>6, <1>7, <1>8 DEF Serve

LEMMA StopAlone ==
    ASSUME IInv, NEW t \in Tasks, Stop(t)
    PROVE  Alone(t)
<1> USE DEF Alone, Untouched, IInv, TypeOK
<1>1. CASE CancelEarly(t) \/ CancelRollback(t)
  <2>1. pc[t] # "idle" /\ Leave(t)
    BY <1>1 DEF CancelEarly, CancelRollback, Cancellable
  <2> QED
    BY <1>1, <2>1, LeaveLocks DEF CancelEarly, CancelRollback, agentState, sandbox
<1>2. CASE CancelTurn(t)
  BY <1>2 DEF CancelTurn, Goto, agentState
<1> QED
  BY <1>1, <1>2 DEF Stop

\* A request that arrives touches no Chat.
LEMMA ArriveAlone ==
    ASSUME IInv, NEW t \in Tasks, Arrive(t)
    PROVE  /\ pc[t] = "idle" /\ pc'[t] = "queued"
           /\ \A u \in Tasks \ {t} : pc'[u] = pc[u] /\ job'[u] = job[u]
           /\ \A c \in Chats : Untouched(c)
           /\ UNCHANGED <<deleting, memSnaps, fileSnaps>>
BY DEF Arrive, ReceiveMessage, ReceiveEdit, ReceiveDelete, Goto, flags, agentState,
       sandbox, Untouched, IInv, TypeOK
-----------------------------------------------------------------------------
(* Deletion. *)

LEMMA InitGone == Init => Gone
BY DEF Init, Gone, DeletePcs, TurnPcs

\* A step inside a Turn, of the handler before it, or of its end.
LEMMA TurnGone ==
    ASSUME IInv, Gone, NEW t \in Tasks, Alone(t),
           pc[t] \in TurnPcs \cup {"admitted"},
           pc'[t] \in TurnPcs \cup {"admitted", "idle"},
           pc'[t] # "idle" => job'[t].chat = job[t].chat /\ job'[t].kind # "delete",
           UNCHANGED <<marked, deleting, memSnaps, fileSnaps>>
    PROVE  Gone'
<1> USE DEF Gone
<1>1. job[t].chat \notin deleting /\ job[t].chat \in memSnaps \cap fileSnaps
  BY Holds, PcFacts
<1>2. deleting' \subseteq marked'
  OBVIOUS
<1>3. ASSUME NEW u \in Tasks
      PROVE  /\ pc'[u] # "idle" /\ job'[u].kind = "delete" => job'[u].chat \in marked'
             /\ pc'[u] \in DeletePcs \cup {"closing"} => job'[u].chat \in deleting'
             /\ pc'[u] \in TurnPcs \cup {"admitted"} => job'[u].chat \notin deleting'
  BY <1>1, PcFacts DEF Alone, DeletePcs
<1>4. ASSUME NEW c \in Chats
      PROVE  /\ c \notin deleting' => c \in memSnaps' \cap fileSnaps'
             /\ c \notin memSnaps' => memory'[c] = None
             /\ c \notin fileSnaps' => restoring'[c] = None
  BY <1>1 DEF Alone, Untouched
<1> QED
  BY <1>2, <1>3, <1>4

\* A step of a deletion or of a request that has not been admitted.
LEMMA DeleteGone ==
    ASSUME IInv, Gone, NEW t \in Tasks, Alone(t),
           pc[t] \in DeletePcs \cup {"queued", "closing"},
           pc'[t] \in DeletePcs \cup {"admitted", "closing", "idle"},
           pc'[t] # "idle" => job'[t] = job[t],
           pc'[t] = "admitted" => job[t].chat \notin deleting' /\ job[t].kind # "delete",
           pc'[t] \in DeletePcs \cup {"closing"} => job[t].chat \in deleting',
           marked' = marked, deleting' \subseteq marked,
           deleting \subseteq deleting', deleting' \subseteq deleting \cup {job[t].chat},
           job[t].chat \in deleting' \ deleting =>
             \A u \in Tasks \ {t} :
               pc[u] \in TurnPcs \cup {"admitted"} => job[u].chat # job[t].chat,
           memSnaps' = memSnaps \/ memSnaps' = memSnaps \ {job[t].chat},
           fileSnaps' = fileSnaps \/ fileSnaps' = fileSnaps \ {job[t].chat},
           job[t].chat \notin deleting' => memSnaps' = memSnaps /\ fileSnaps' = fileSnaps,
           \/ memory'[job[t].chat] = memory[job[t].chat] /\ memSnaps' = memSnaps
           \/ memory'[job[t].chat] = None,
           restoring'[job[t].chat] = restoring[job[t].chat],
           fileSnaps' # fileSnaps => restoring[job[t].chat] = None
    PROVE  Gone'
<1> USE DEF Gone
<1>1. deleting' \subseteq marked'
  OBVIOUS
<1>2. ASSUME NEW u \in Tasks, u # t
      PROVE  /\ pc'[u] # "idle" /\ job'[u].kind = "delete" => job'[u].chat \in marked'
             /\ pc'[u] \in DeletePcs \cup {"closing"} => job'[u].chat \in deleting'
             /\ pc'[u] \in TurnPcs \cup {"admitted"} => job'[u].chat \notin deleting'
  BY <1>2, PcFacts DEF Alone
<1>3. /\ pc'[t] # "idle" /\ job'[t].kind = "delete" => job'[t].chat \in marked'
      /\ pc'[t] \in DeletePcs \cup {"closing"} => job'[t].chat \in deleting'
      /\ pc'[t] \in TurnPcs \cup {"admitted"} => job'[t].chat \notin deleting'
  BY PcFacts DEF DeletePcs, TurnPcs
<1>4. ASSUME NEW c \in Chats
      PROVE  /\ c \notin deleting' => c \in memSnaps' \cap fileSnaps'
             /\ c \notin memSnaps' => memory'[c] = None
             /\ c \notin fileSnaps' => restoring'[c] = None
  BY DEF Alone, Untouched
<1> QED
  BY <1>1, <1>2, <1>3, <1>4

LEMMA ServeGone ==
    ASSUME IInv, Gone, NEW t \in Tasks, Serve(t)
    PROVE  Gone'
<1>1. Alone(t)
  BY ServeAlone
<1> DEFINE c == job[t].chat
<1>2. CASE Drop(t) \/ Admit(t)
  <2>1. pc[t] = "queued" /\ pc'[t] \in {"idle", "admitted"}
        /\ UNCHANGED <<flags, agentState, sandbox>>
        /\ (pc'[t] = "admitted" => job' = job /\ job[t].kind # "delete" /\ c \notin marked)
    BY <1>2 DEF Drop, Admit, Accepted, Leave, IInv, TypeOK
  <2> QED
    BY <1>1, <2>1, DeleteGone DEF Gone, flags, agentState, sandbox, DeletePcs
<1>3. CASE AdmitDelete(t)
  <2>1. pc[t] = "queued" /\ pc'[t] = "closing" /\ job' = job /\ job[t].kind = "delete"
        /\ marked' = marked /\ deleting' = deleting \cup {c} /\ appLock[c] = NoTask
        /\ UNCHANGED <<agentState, sandbox>>
    BY <1>3 DEF AdmitDelete, IInv, TypeOK
  <2>2. c \in marked
    BY <2>1 DEF Gone
  <2>3. \A u \in Tasks : pc[u] \in TurnPcs \cup {"admitted"} => job[u].chat # c
    BY <2>1, Holds, PcFacts, SentinelAssumption
  <2> QED
    BY <1>1, <2>1, <2>2, <2>3, DeleteGone DEF Gone, agentState, sandbox, DeletePcs
<1>4. CASE DeleteContext(t) \/ DeleteFiles(t) \/ DeleteFilesFails(t) \/ DeleteHistory(t)
  <2>1. /\ pc[t] \in DeletePcs \cup {"closing"}
        /\ pc'[t] \in DeletePcs \cup {"idle"} /\ (pc'[t] # "idle" => job' = job)
        /\ marked' = marked /\ deleting' = deleting
    BY <1>4 DEF DeleteContext, DeleteFiles, DeleteFilesFails, DeleteHistory, DeletePcs,
                Goto, Leave, IInv, TypeOK, flags
  <2>2. c \in deleting /\ c \in Chats
    BY <2>1, Holds, PcFacts DEF Gone
  <2>3. /\ memSnaps' = memSnaps \/ memSnaps' = memSnaps \ {c}
        /\ fileSnaps' = fileSnaps \/ fileSnaps' = fileSnaps \ {c}
        /\ (memory'[c] = memory[c] /\ memSnaps' = memSnaps) \/ memory'[c] = None
        /\ restoring' = restoring
        /\ fileSnaps' # fileSnaps => restoring[c] = None
    BY <1>4, <2>2 DEF DeleteContext, DeleteFiles, DeleteFilesFails, DeleteHistory,
                IInv, TypeOK, flags, agentState, sandbox
  <2> HIDE DEF c
  <2> QED
    BY <1>1, <2>1, <2>2, <2>3, DeleteGone DEF Gone, DeletePcs, c
<1>5. CASE \/ Refuse(t) \/ CommitTurn(t) \/ CommitRevision(t) \/ RolledBack(t)
           \/ UploadRejected(t)
  <2>1. /\ pc[t] \in TurnPcs \cup {"admitted"} /\ pc'[t] \in TurnPcs \cup {"idle"}
        /\ (pc'[t] # "idle" => job' = job)
        /\ UNCHANGED <<marked, deleting, memSnaps, fileSnaps>>
    BY <1>5 DEF Refuse, Ready, CommitTurn, Answered, CommitRevision, RolledBack, TurnPcs,
                UploadRejected, Uploading, Goto, Leave, IInv, TypeOK, flags, agentState,
                sandbox
  <2>2. job[t].kind # "delete"
    BY <2>1 DEF IInv, Served, TurnJob
  <2> QED
    BY <1>1, <2>1, <2>2, TurnGone
<1>6. CASE \/ EnterChat(t) \/ TakeSnapshot(t) \/ StartRun(t) \/ ReplaceTurns(t)
           \/ (\E f \in Files : Upload(t, f))
  <2>1. /\ pc[t] \in TurnPcs \cup {"admitted"} /\ pc'[t] \in TurnPcs \cup {"admitted"}
        /\ UNCHANGED <<marked, deleting, memSnaps, fileSnaps>>
    BY <1>6 DEF EnterChat, Ready, TakeSnapshot, StartRun, ReplaceTurns, Answered,
                Upload, Uploading, TurnPcs, Goto, IInv, TypeOK, flags, agentState,
                sandbox
  <2>2. job[t] \in TurnJob /\ job[t].kind # "delete"
    BY <2>1 DEF IInv, Served, TurnJob
  <2>3. job'[t].chat = job[t].chat /\ job'[t].kind = job[t].kind
    BY <1>6, <2>2 DEF EnterChat, TakeSnapshot, StartRun, ReplaceTurns, Upload, TurnJob,
                IInv, TypeOK
  <2> QED
    BY <1>1, <2>1, <2>2, <2>3, TurnGone
<1>7. CASE \/ Rewind(t) \/ RewindImpossible(t) \/ Rewound(t) \/ Attached(t)
           \/ RunFails(t) \/ HistoryFails(t) \/ ViewFails(t) \/ Rollback(t)
  <2>1. /\ pc[t] \in TurnPcs /\ pc'[t] \in TurnPcs /\ job' = job
        /\ UNCHANGED <<marked, deleting, memSnaps, fileSnaps>>
    BY <1>7 DEF Rewind, RewindImpossible, Rewound, Attached, RunFails, HistoryFails,
                Answered, ViewFails, Rollback, TurnPcs, Goto, IInv, TypeOK, flags,
                agentState, sandbox
  <2>2. job[t].kind # "delete"
    BY <2>1 DEF IInv, Served, TurnJob
  <2> QED
    BY <1>1, <2>1, <2>2, TurnGone
<1> QED
  BY <1>2, <1>3, <1>4, <1>5, <1>6, <1>7 DEF Serve

LEMMA StopGone ==
    ASSUME IInv, Gone, NEW t \in Tasks, Stop(t)
    PROVE  Gone'
<1>1. Alone(t)
  BY StopAlone
<1>2. CASE pc[t] = "queued"
  <2>1. pc'[t] = "idle" /\ UNCHANGED <<flags, agentState, fileSnaps, restoring>>
    BY <1>2 DEF Stop, CancelEarly, CancelTurn, CancelRollback, Leave, IInv, TypeOK
  <2> QED
    BY <1>1, <1>2, <2>1, DeleteGone DEF Gone, flags, agentState, DeletePcs
<1>3. CASE pc[t] # "queued"
  <2>1. /\ pc[t] \in TurnPcs \cup {"admitted"} /\ pc'[t] \in TurnPcs \cup {"idle"}
        /\ UNCHANGED <<marked, deleting, memSnaps, fileSnaps>>
    BY <1>3 DEF Stop, CancelEarly, CancelTurn, CancelRollback, TurnPcs, Goto, Leave, IInv,
                TypeOK, flags, agentState, sandbox
  <2>2. job[t] \in TurnJob /\ job[t].kind # "delete"
    BY <2>1 DEF IInv, Served, TurnJob
  <2>3. pc'[t] # "idle" => job'[t].chat = job[t].chat /\ job'[t].kind = job[t].kind
    BY <1>3, <2>2 DEF Stop, CancelEarly, CancelTurn, CancelRollback, Leave, TurnJob,
                IInv, TypeOK
  <2> QED
    BY <1>1, <2>1, <2>2, <2>3, TurnGone
<1> QED
  BY <1>2, <1>3

LEMMA NextGone == IInv /\ Gone /\ [Next]_vars => Gone'
<1> SUFFICES ASSUME IInv, Gone, [Next]_vars PROVE Gone'
  OBVIOUS
<1>1. CASE UNCHANGED vars
  BY <1>1 DEF Gone, vars, control, flags, agentState, sandbox
<1>2. ASSUME NEW t \in Tasks, Arrive(t) PROVE Gone'
  <2>1. job'[t].kind = "delete" => job'[t].chat \in marked'
    BY <1>2 DEF Arrive, ReceiveMessage, ReceiveEdit, ReceiveDelete, NewJob, IInv, TypeOK
  <2>2. marked \subseteq marked'
    BY <1>2 DEF Arrive, ReceiveMessage, ReceiveEdit, ReceiveDelete, flags
  <2> QED
    BY <1>2, <2>1, <2>2, ArriveAlone DEF Gone, Untouched, DeletePcs, TurnPcs
<1>3. CASE \E t \in Tasks : Serve(t) \/ Stop(t)
  BY <1>3, ServeGone, StopGone
<1>4. CASE \E c \in Chats : Worker(c)
  BY <1>4 DEF Worker, FilesRestored, FilesNotRestored, control, flags, agentState, Gone,
              IInv, TypeOK, DeletePcs, TurnPcs
<1> QED
  BY <1>1, <1>2, <1>3, <1>4 DEF Next

THEOREM DeletionInductive == Spec => [](IInv /\ Gone)
BY InitIInv, InitGone, NextIInv, NextGone, PTL DEF Spec

\* Outside a Turn, what a task does to its Chat only removes from it.
LEMMA RemovesOnly ==
    ASSUME IInv, Gone, NEW t \in Tasks, Serve(t) \/ Stop(t),
           job[t].chat \in deleting
    PROVE  /\ history'[job[t].chat] \in {history[job[t].chat], <<>>}
           /\ memory'[job[t].chat] \in {memory[job[t].chat], None}
           /\ files'[job[t].chat] \subseteq files[job[t].chat]
<1>1. pc[t] \notin TurnPcs \cup {"admitted"} /\ job[t].chat \in Chats
  BY DEF Gone, IInv, TypeOK
<1>2. CASE Serve(t)
  <2>1. \/ Drop(t) \/ Admit(t) \/ AdmitDelete(t) \/ DeleteContext(t) \/ DeleteFiles(t)
        \/ DeleteFilesFails(t) \/ DeleteHistory(t)
    BY <1>1, <1>2 DEF Serve, Refuse, Ready, CommitTurn, Answered, CommitRevision,
                      RolledBack, UploadRejected, Uploading, Upload, EnterChat,
                      TakeSnapshot, StartRun, ReplaceTurns, Rewind, RewindImpossible,
                      Rewound, Attached, RunFails, HistoryFails, ViewFails, Rollback,
                      TurnPcs
  <2> QED
    BY <1>1, <2>1 DEF Drop, Admit, AdmitDelete, DeleteContext, DeleteFiles, IInv,
                      TypeOK, DeleteFilesFails, DeleteHistory, agentState, sandbox
<1>3. CASE Stop(t)
  BY <1>1, <1>3 DEF Stop, CancelEarly, Uploading, CancelTurn, CancelRollback, TurnPcs,
                    agentState, sandbox
<1> QED
  BY <1>2, <1>3

LEMMA StepRevivesNothing ==
    ASSUME IInv, Gone, [Next]_vars, NEW c \in Chats
    PROVE  /\ c \in deleting => history'[c] \in {history[c], <<>>}
           /\ c \notin memSnaps => memory'[c] = memory[c]
           /\ c \notin fileSnaps => files'[c] \subseteq files[c]
<1>1. CASE UNCHANGED vars
  BY <1>1 DEF vars, agentState, sandbox
<1>2. CASE \E t \in Tasks : Arrive(t)
  BY <1>2, ArriveAlone DEF Untouched
<1>3. ASSUME NEW t \in Tasks, Serve(t) \/ Stop(t)
      PROVE  /\ c \in deleting => history'[c] \in {history[c], <<>>}
             /\ c \notin memSnaps => memory'[c] = memory[c]
             /\ c \notin fileSnaps => files'[c] \subseteq files[c]
  <2>1. CASE c # job[t].chat
    BY <1>3, <2>1, ServeAlone, StopAlone DEF Alone, Untouched
  <2>2. CASE c = job[t].chat /\ c \in deleting
    BY <1>3, <2>2, RemovesOnly DEF Gone
  <2>3. CASE c \notin deleting
    BY <2>3 DEF Gone
  <2> QED
    BY <2>1, <2>2, <2>3
<1>4. CASE \E d \in Chats : Worker(d)
  BY <1>4 DEF Worker, FilesRestored, FilesNotRestored, Gone, agentState, IInv, TypeOK
<1> QED
  BY <1>1, <1>2, <1>3, <1>4 DEF Next

(***************************************************************************)
(* What delete_chat has removed stays removed: at every step a Chat that   *)
(* is being deleted keeps its Turns or loses them all, and a context or    *)
(* file tree whose snapshots are gone never grows again.  The argument is  *)
(* Gone: no handler is past its admission in a Chat that runtime.py is     *)
(* deleting, and no worker thread is restoring files there.                *)
(***************************************************************************)
THEOREM DeletionIsFinal == Spec => NothingRevived
<1>1. IInv /\ Gone /\ [Next]_vars =>
        [\A c \in Chats :
           /\ c \in deleting => history'[c] \in {history[c], <<>>}
           /\ c \notin memSnaps => memory'[c] = memory[c]
           /\ c \notin fileSnaps => files'[c] \subseteq files[c]]_vars
  BY StepRevivesNothing
<1> QED
  BY <1>1, DeletionInductive, PTL DEF Spec, NothingRevived
-----------------------------------------------------------------------------
(* Checkpoints and identifiers of a history that changes. *)

LEMMA RowsOfAppend ==
    ASSUME NEW h \in Seq(Turn), NEW c, RowsGood(h, c), NEW turn \in Turn,
           turn.before # Legacy => turn.before.chat = c /\ turn.before.texts = Texts(h)
    PROVE  RowsGood(Append(h, turn), c)
<1> DEFINE g == Append(h, turn)
<1>1. /\ g \in Seq(Turn) /\ Len(g) = Len(h) + 1 /\ Len(h) \in Nat
      /\ \A i \in 1 .. Len(h) : g[i] = h[i]
      /\ g[Len(h) + 1] = turn
  BY AppendProperties, LenProperties
<1>2. \A k \in 1 .. Len(h) + 1 : Before(g, k) = Before(h, k)
  BY BeforeOfAppend
<1>3. Before(h, Len(h) + 1) = h
  BY BeforeAll
<1>4. DOMAIN g = 1 .. Len(h) + 1 /\ DOMAIN h = 1 .. Len(h)
  BY <1>1, LenProperties
<1> HIDE DEF g
<1>5. ASSUME NEW k \in DOMAIN g, g[k].before # Legacy
      PROVE  g[k].before.chat = c /\ g[k].before.texts = Texts(Before(g, k))
  <2>1. k \in 1 .. Len(h) + 1 /\ Before(g, k) = Before(h, k)
    BY <1>2, <1>4
  <2>2. CASE k = Len(h) + 1
    <3>1. g[k] = turn /\ Before(g, k) = h
      BY <1>1, <1>3, <2>1, <2>2
    <3> QED  BY <1>5, <3>1
  <2>3. CASE k # Len(h) + 1
    <3>1. k \in 1 .. Len(h)
      BY <1>1, <2>1, <2>3
    <3>2. g[k] = h[k] /\ k \in DOMAIN h
      BY <1>1, <1>4, <3>1
    <3> QED  BY <1>5, <2>1, <3>2 DEF RowsGood
  <2> QED  BY <2>2, <2>3
<1> QED  BY <1>5 DEF RowsGood, g

LEMMA RowsOfBefore ==
    ASSUME NEW h \in Seq(Turn), NEW c, RowsGood(h, c), NEW k \in 1 .. Len(h) + 1
    PROVE  RowsGood(Before(h, k), c)
<1> DEFINE b == Before(h, k)
<1>1. b \in Seq(Turn) /\ Len(b) = k - 1 /\ \A i \in 1 .. k - 1 : b[i] = h[i]
  BY BeforeFacts
<1>2. \A i \in 1 .. k : Before(b, i) = Before(h, i)
  BY BeforeOfBefore
<1>3. Len(h) \in Nat /\ DOMAIN h = 1 .. Len(h)
  BY LenProperties
<1>4. DOMAIN b = 1 .. k - 1
  BY <1>1, LenProperties
<1> HIDE DEF b
<1>5. ASSUME NEW i \in DOMAIN b, b[i].before # Legacy
      PROVE  b[i].before.chat = c /\ b[i].before.texts = Texts(Before(b, i))
  <2>1. i \in 1 .. k - 1 /\ i \in 1 .. k /\ i \in DOMAIN h
    BY <1>3, <1>4
  <2>2. b[i] = h[i] /\ Before(b, i) = Before(h, i)
    BY <1>1, <1>2, <2>1
  <2> QED  BY <1>5, <2>1, <2>2 DEF RowsGood
<1> QED  BY <1>5 DEF RowsGood, b

\* What replace_turns makes of a history.
Revised(h, k, turn) == Append(Before(h, k), turn)

LEMMA RevisedFacts ==
    ASSUME NEW h \in Seq(Turn), NEW k \in 1 .. Len(h), NEW turn \in Turn,
           turn.before = h[k].before,
           NEW g, g = Revised(h, k, turn)
    PROVE  /\ g \in Seq(Turn) /\ Len(g) = k
           /\ g[k] = turn
           /\ Before(g, k) = Before(h, k)
           /\ Texts(g) = Append(Texts(Before(h, k)), turn.text)
           /\ \A c : RowsGood(h, c) => RowsGood(g, c)
<1> DEFINE b == Before(h, k)
<1>1. Len(h) \in Nat /\ k \in Nat /\ k >= 1 /\ k \in 1 .. Len(h) + 1 /\ k \in DOMAIN h
  BY LenProperties
<1>4. b \in Seq(Turn) /\ Len(b) = k - 1
  BY <1>1, BeforeFacts
<1>5. Before(b, k) = b
  BY <1>1, BeforeOfBefore
<1>6. \A c : RowsGood(h, c) => RowsGood(b, c)
  BY <1>1, RowsOfBefore
<1>7. ASSUME NEW c, RowsGood(h, c)
      PROVE  h[k].before # Legacy =>
               h[k].before.chat = c /\ h[k].before.texts = Texts(b)
  BY <1>1, <1>7 DEF RowsGood
<1> HIDE DEF b
<1>8. g = Append(b, turn)
  BY DEF b, Revised
<1>9. g \in Seq(Turn) /\ Len(g) = Len(b) + 1 /\ g[Len(b) + 1] = turn
  <2>1. /\ Append(b, turn) \in Seq(Turn) /\ Len(Append(b, turn)) = Len(b) + 1
        /\ Append(b, turn)[Len(b) + 1] = turn
    BY <1>4, AppendProperties
  <2> QED  BY <1>8, <2>1
<1>10. Len(g) = k /\ k \in 1 .. Len(g) /\ g[k] = turn
  BY <1>1, <1>4, <1>9
<1>11. k \in 1 .. Len(b) + 1
  BY <1>1, <1>4
<1>12. Before(g, k) = b
  BY <1>4, <1>5, <1>8, <1>11, BeforeOfAppend
<1>13. Texts(g) = Append(Texts(b), turn.text)
  BY <1>4, <1>8, TextsOfAppend
<1>14. ASSUME NEW c, RowsGood(h, c) PROVE RowsGood(g, c)
  BY <1>4, <1>6, <1>7, <1>8, <1>14, RowsOfAppend
<1> QED  BY <1>9, <1>10, <1>12, <1>13, <1>14 DEF b

LEMMA IdsOfAppend ==
    ASSUME NEW h \in Seq(Turn), NEW turn \in Turn, NEW id \in Ids(Append(h, turn))
    PROVE  id \in Ids(h) \/ id = turn.id
<1>1. /\ Len(Append(h, turn)) = Len(h) + 1 /\ Len(h) \in Nat
      /\ \A i \in 1 .. Len(h) : Append(h, turn)[i] = h[i]
      /\ Append(h, turn)[Len(h) + 1] = turn
      /\ DOMAIN Append(h, turn) = 1 .. Len(h) + 1 /\ DOMAIN h = 1 .. Len(h)
  BY AppendProperties, LenProperties
<1>2. PICK i \in 1 .. Len(h) + 1 : Append(h, turn)[i].id = id
  BY <1>1 DEF Ids
<1>3. i = Len(h) + 1 \/ i \in 1 .. Len(h)
  BY <1>1
<1> QED  BY <1>1, <1>2, <1>3 DEF Ids

LEMMA IdsOfBefore ==
    ASSUME NEW h \in Seq(Turn), NEW k \in 1 .. Len(h) + 1, NEW id \in Ids(Before(h, k))
    PROVE  id \in Ids(h)
<1>1. /\ Before(h, k) \in Seq(Turn) /\ Len(Before(h, k)) = k - 1
      /\ \A i \in 1 .. k - 1 : Before(h, k)[i] = h[i]
  BY BeforeFacts
<1>2. /\ DOMAIN Before(h, k) = 1 .. k - 1 /\ DOMAIN h = 1 .. Len(h)
      /\ Len(h) \in Nat
  BY <1>1, LenProperties
<1>3. PICK i \in 1 .. k - 1 : Before(h, k)[i].id = id
  BY <1>2 DEF Ids
<1>4. i \in DOMAIN h /\ h[i].id = id
  BY <1>1, <1>2, <1>3
<1> QED  BY <1>4 DEF Ids

LEMMA IdsOfContinuation ==
    ASSUME NEW h \in Seq(Turn), NEW k \in 1 .. Len(h),
           NEW id \in Ids(SubSeq(h, k, Len(h)))
    PROVE  id \in Ids(h)
<1> DEFINE s == SubSeq(h, k, Len(h))
<1>1. /\ s \in Seq(Turn) /\ Len(s) = Len(h) - k + 1
      /\ \A i \in 1 .. Len(h) - k + 1 : s[i] = h[k + i - 1]
  BY Continuation
<1> HIDE DEF s
<1>2. DOMAIN s = 1 .. Len(h) - k + 1 /\ DOMAIN h = 1 .. Len(h) /\ Len(h) \in Nat
  BY <1>1, LenProperties
<1>3. PICK i \in 1 .. Len(h) - k + 1 : s[i].id = id
  BY <1>2 DEF Ids, s
<1>4. k + i - 1 \in DOMAIN h
  BY <1>2
<1>5. h[k + i - 1].id = id
  BY <1>1, <1>3
<1> QED  BY <1>4, <1>5 DEF Ids

LEMMA IdsOfConcat ==
    ASSUME NEW g \in Seq(Turn), NEW h \in Seq(Turn), NEW id \in Ids(g \o h)
    PROVE  id \in Ids(g) \/ id \in Ids(h)
<1>1. /\ g \o h \in Seq(Turn) /\ Len(g \o h) = Len(g) + Len(h)
      /\ \A i \in 1 .. Len(g) + Len(h) :
           (g \o h)[i] = IF i <= Len(g) THEN g[i] ELSE h[i - Len(g)]
  BY ConcatProperties
<1>2. /\ DOMAIN (g \o h) = 1 .. Len(g) + Len(h)
      /\ DOMAIN g = 1 .. Len(g) /\ DOMAIN h = 1 .. Len(h)
      /\ Len(g) \in Nat /\ Len(h) \in Nat
  BY <1>1, LenProperties
<1>3. PICK i \in 1 .. Len(g) + Len(h) : (g \o h)[i].id = id
  BY <1>2 DEF Ids
<1>4. CASE i <= Len(g)
  <2>1. i \in DOMAIN g /\ g[i].id = id
    BY <1>1, <1>2, <1>3, <1>4
  <2> QED  BY <2>1 DEF Ids
<1>5. CASE ~(i <= Len(g))
  <2>1. i - Len(g) \in DOMAIN h /\ h[i - Len(g)].id = id
    BY <1>1, <1>2, <1>3, <1>5
  <2> QED  BY <2>1 DEF Ids
<1> QED  BY <1>4, <1>5
-----------------------------------------------------------------------------
(* The content of a Chat, and who keeps it. *)

\* The history a Revision began with, and where the edited Turn is in it.
LEMMA EditFacts ==
    ASSUME IInv, NEW t \in Tasks, pc[t] \in TurnPcs \ {"snapshot"}, OpenTurn(t),
           job[t].kind = "edit"
    PROVE  /\ Entry(t) \in Seq(Turn)
           /\ job[t].at \in 1 .. Len(history[job[t].chat])
           /\ job[t].at \in 1 .. Len(Entry(t))
           /\ Before(Entry(t), job[t].at) = Before(history[job[t].chat], job[t].at)
           /\ Before(history[job[t].chat], job[t].at) \o job[t].cont = Entry(t)
           /\ job[t].cont[1] = Entry(t)[job[t].at]
<1> DEFINE j == job[t]
           e == Entry(t)
           h == history[j.chat]
           k == j.at
<1>1. h \in Seq(Turn) /\ j.cont \in Seq(Turn) /\ k \in Nat /\ Len(h) \in Nat
  BY TurnLocals, LenProperties
<1>2. k \in 1 .. Len(e) /\ j.cont = SubSeq(e, k, Len(e))
  BY DEF OpenTurn, Kept
<1>3. CASE ~j.replaced
  <2>1. e = h
    BY <1>3 DEF Entry
  <2>2. /\ Len(j.cont) = Len(h) - k + 1
        /\ \A i \in 1 .. Len(h) - k + 1 : j.cont[i] = h[k + i - 1]
        /\ Before(h, k) \o j.cont = h
    <3>1. k \in 1 .. Len(h) /\ j.cont = SubSeq(h, k, Len(h))
      BY <1>2, <2>1
    <3>2. /\ Len(SubSeq(h, k, Len(h))) = Len(h) - k + 1
          /\ \A i \in 1 .. Len(h) - k + 1 : SubSeq(h, k, Len(h))[i] = h[k + i - 1]
          /\ Before(h, k) \o SubSeq(h, k, Len(h)) = h
      BY <1>1, <3>1, Continuation
    <3> HIDE DEF j
    <3> QED  BY <3>1, <3>2
  <2>3. 1 \in 1 .. Len(h) - k + 1 /\ k + 1 - 1 = k
    BY <1>1, <1>2, <2>1
  <2>4. j.cont[1] = h[k + 1 - 1]
    BY <2>2, <2>3
  <2> QED
    BY <1>1, <1>2, <2>1, <2>2, <2>3, <2>4
<1>4. CASE j.replaced
  <2>1. e = Before(h, k) \o j.cont
    BY <1>4 DEF Entry
  <2>2. k \in 1 .. Len(h)
    <3>1. CASE pc[t] = "restoring"
      BY <1>2, <3>1 DEF OpenTurn, Replaced
    <3>2. CASE pc[t] # "restoring"
      BY <3>2 DEF IInv, Targets, Target
    <3> QED  BY <3>1, <3>2
  <2>3. Before(h, k) \in Seq(Turn) /\ Len(Before(h, k)) = k - 1
    <3>1. k \in 1 .. Len(h) + 1
      BY <1>1, <2>2
    <3> QED  BY <1>1, <3>1, BeforeFacts
  <2>4. e \in Seq(Turn)
    BY <1>1, <2>1, <2>3, ConcatProperties
  <2>5. Len(j.cont) >= 1
    <3>1. Len(j.cont) = Len(e) - k + 1
      BY <1>2, <2>4, Continuation
    <3>2. Len(e) \in Nat
      BY <2>4, LenProperties
    <3> QED  BY <1>1, <1>2, <3>1, <3>2
  <2>6. Before(e, k) = Before(h, k) /\ e[k] = j.cont[1]
    <3> DEFINE b == Before(h, k)
               s == j.cont
    <3>1. /\ b \in Seq(Turn) /\ s \in Seq(Turn) /\ k \in Nat
          /\ Len(b) = k - 1 /\ Len(s) >= 1
      BY <1>1, <2>3, <2>5
    <3> HIDE DEF b, s
    <3>2. Before(b \o s, k) = b /\ (b \o s)[k] = s[1]
      BY <3>1, BeforeOfConcat
    <3> QED  BY <2>1, <3>2 DEF b, s
  <2> QED
    BY <1>2, <2>1, <2>2, <2>4, <2>6
<1> QED  BY <1>3, <1>4

\* A Turn or a snapshot of a Revision began with the history as it is.
LEMMA EntryOfMessage ==
    ASSUME IInv, NEW t \in Tasks, pc[t] \in TurnPcs, OpenTurn(t),
           job[t].kind = "message" \/ pc[t] \notin {"view", "rollback", "restoring"}
    PROVE  Entry(t) = history[job[t].chat] /\ ~job[t].replaced
BY TurnLocals DEF OpenTurn, Replaced, Entry

\* A task whose Chat is left alone keeps what it relies on.
LEMMA OthersKeep ==
    ASSUME NEW u \in Tasks, OpenTurn(u), Waiting(u),
           pc'[u] = pc[u], job'[u] = job[u], marked \subseteq marked',
           pc[u] \in TurnPcs => Untouched(job[u].chat)
    PROVE  OpenTurn(u)' /\ Waiting(u)'
<1>1. Waiting(u)'
  BY DEF Waiting
<1>2. ASSUME pc[u] \in TurnPcs PROVE Kept(u)'
  BY <1>2 DEF OpenTurn, Kept, Entry, Untouched
<1>3. ASSUME pc[u] \in TurnPcs PROVE Reminded(u)'
  BY <1>3 DEF OpenTurn, Reminded, Ahead, Untouched
<1>4. ASSUME pc[u] \in TurnPcs PROVE Replaced(u)'
  BY <1>4 DEF OpenTurn, Replaced, Entry, Untouched
<1>5. ASSUME pc[u] \in TurnPcs PROVE Provided(u)'
  BY <1>5 DEF OpenTurn, Provided, Untouched
<1> QED
  BY <1>1, <1>2, <1>3, <1>4, <1>5 DEF OpenTurn

LEMMA RestKept ==
    ASSUME NEW c \in Chats, AtRest(c), Untouched(c), marked \subseteq marked'
    PROVE  AtRest(c)'
BY DEF AtRest, Untouched, Messages, RowsGood

\* What is left to show of the step of a task.
LEMMA TaskContent ==
    ASSUME IInv, Content, NEW t \in Tasks, NEW own, own = job[t].chat,
           Alone(t), marked \subseteq marked',
           pc[t] \in ActivePcs \/ (\A c \in Chats : Untouched(c)),
           pc[t] \in ActivePcs => AtRest(own)',
           OpenTurn(t)', Waiting(t)', \A u \in Tasks : NewId(u)'
    PROVE  Content'
<1>1. ASSUME NEW u \in Tasks, u # t PROVE OpenTurn(u)' /\ Waiting(u)'
  <2>1. pc[u] \in TurnPcs => job[u].chat \in Chats
    BY DEF IInv, Served, TurnJob
  <2>2. pc[u] \in TurnPcs /\ pc[t] \in ActivePcs => job[u].chat # job[t].chat
    BY <1>1, Apart, PcFacts
  <2>3. pc[u] \in TurnPcs => Untouched(job[u].chat)
    BY <2>1, <2>2 DEF Alone
  <2>4. OpenTurn(u) /\ Waiting(u)
    BY DEF Content
  <2> QED
    BY <1>1, <2>3, <2>4, OthersKeep DEF Alone
<1>2. ASSUME NEW c \in Chats PROVE AtRest(c)'
  <2>1. CASE Untouched(c)
    <3>1. AtRest(c)
      BY DEF Content
    <3> QED  BY <2>1, <3>1, RestKept
  <2>2. CASE ~Untouched(c)
    BY <2>2 DEF Alone
  <2> QED  BY <2>1, <2>2
<1> QED
  BY <1>1, <1>2 DEF Content

\* A step of a handler that has its identifier already.
LEMMA SameIds ==
    ASSUME IInv, Content, NEW t \in Tasks, Alone(t), pc[t] # "idle",
           pc'[t] # "idle" => job'[t].kind = job[t].kind,
           IsMessage(t)' => job'[t].id = job[t].id,
           \A c \in Chats : \A id \in Ids(history'[c]) : InUse(id),
           IsRequest(t)' => \A id \in Ids(job'[t].cont) : InUse(id)
    PROVE  \A u \in Tasks : NewId(u)'
<1>1. \A u \in Tasks : IsMessage(u)' => IsMessage(u) /\ job'[u].id = job[u].id
  BY DEF Alone, IsMessage
<1>2. ASSUME NEW id, InUse(id)' PROVE InUse(id)
  <2>1. CASE \E c \in Chats : id \in Ids(history'[c])
    BY <2>1
  <2>2. CASE \E u \in Tasks : IsRequest(u)' /\ id \in Ids(job'[u].cont)
    <3>1. PICK u \in Tasks : IsRequest(u)' /\ id \in Ids(job'[u].cont)
      BY <2>2
    <3>2. CASE u = t
      BY <3>1, <3>2
    <3>3. CASE u # t
      BY <3>1, <3>3 DEF Alone, IsRequest, InUse
    <3> QED  BY <3>2, <3>3
  <2> QED  BY <1>2, <2>1, <2>2 DEF InUse
<1> QED
  BY <1>1, <1>2 DEF Content, NewId
-----------------------------------------------------------------------------
(* Each step keeps the content. *)

\* A handler ends and leaves its Chat as it is.
LEMMA LeaveContent ==
    ASSUME IInv, Content, NEW t \in Tasks, pc[t] # "idle", Leave(t), Alone(t),
           NEW own, own = job[t].chat, own \in Chats,
           pc[t] \in ActivePcs \/ (\A c \in Chats : Untouched(c)),
           marked' = marked, history' = history, memory' = memory,
           pc[t] \in TurnPcs /\ own \notin marked =>
             Messages(own) = Texts(history[own]),
           pc[t] \in DeletePcs => own \in marked
    PROVE  Content'
<1>1. pc'[t] = "idle"
  BY LeaveLocks
<1>2. OpenTurn(t)' /\ Waiting(t)'
  BY <1>1 DEF OpenTurn, Waiting, TurnPcs
<1>3. AtRest(own)'
  <2>1. AtRest(own)
    BY DEF Content
  <2>2. pc[t] \notin TurnPcs \cup DeletePcs => chatLock' = chatLock
    BY LeaveLocks, PcFacts DEF IInv, TypeOK, Pcs
  <2> QED
    BY <2>1, <2>2 DEF AtRest, Messages, RowsGood
<1>4. \A c \in Chats : \A id \in Ids(history'[c]) : InUse(id)
  BY DEF InUse
<1>5. \A u \in Tasks : NewId(u)'
  BY <1>1, <1>4, SameIds DEF IsMessage, IsRequest
<1> QED
  BY <1>2, <1>3, <1>5, TaskContent

\* A handler stays in its transaction and the history stays as it is.
LEMMA StayContent ==
    ASSUME IInv, Content, NEW t \in Tasks, Alone(t),
           pc[t] \in TurnPcs, pc'[t] \in TurnPcs,
           UNCHANGED <<marked, chatLock, history>>,
           job'[t].kind = job[t].kind, job'[t].id = job[t].id,
           job'[t].cont = job[t].cont,
           OpenTurn(t)'
    PROVE  Content'
<1>0. PICK own \in Chats : own = job[t].chat
  BY TurnLocals
<1>1. chatLock[own] = t /\ t # NoTask /\ pc[t] \in ActivePcs
      /\ pc[t] # "idle" /\ job[t].kind # "delete"
  BY <1>0, Holds, PcFacts, SentinelAssumption, TurnLocals
<1>2. Waiting(t)'
  BY DEF Waiting, TurnPcs
<1>3. AtRest(own)'
  BY <1>1 DEF Content, AtRest, RowsGood
<1>4. \A c \in Chats : \A id \in Ids(history'[c]) : InUse(id)
  BY DEF InUse
<1>5. IsRequest(t)' => \A id \in Ids(job'[t].cont) : InUse(id)
  BY <1>1 DEF InUse, IsRequest
<1>6. \A u \in Tasks : NewId(u)'
  BY <1>1, <1>4, <1>5, SameIds
<1> QED
  BY <1>0, <1>1, <1>2, <1>3, <1>6, TaskContent

\* What the rollback data make of the Chat is still what it began with.
LEMMA KeepsEntry ==
    ASSUME NEW t \in Tasks, pc[t] \in TurnPcs, OpenTurn(t),
           pc[t] # "snapshot" \/ job[t].kind = "message",
           history'[job[t].chat] = history[job[t].chat],
           job'[t].chat = job[t].chat, job'[t].kind = job[t].kind,
           job'[t].at = job[t].at, job'[t].cont = job[t].cont,
           job'[t].context = job[t].context, job'[t].replaced = job[t].replaced
    PROVE  Kept(t)' /\ Entry(t)' = Entry(t)
<1>1. Entry(t)' = Entry(t)
  BY DEF Entry
<1> QED
  BY <1>1 DEF OpenTurn, Kept, RowsGood

\* Giving up: the rollback data are all that matters.
LEMMA GiveUpContent ==
    ASSUME IInv, Content, NEW t \in Tasks, Alone(t),
           pc[t] \in TurnPcs \ {"snapshot"}, pc'[t] = "rollback",
           UNCHANGED <<marked, chatLock, history>>,
           job'[t] = job[t] \/ job'[t] = [job[t] EXCEPT !.cancelled = TRUE]
    PROVE  Content'
<1>1. job[t] \in TurnJob /\ OpenTurn(t)
  BY TurnLocals DEF Content
<1>2. /\ job'[t].chat = job[t].chat /\ job'[t].kind = job[t].kind
      /\ job'[t].at = job[t].at /\ job'[t].cont = job[t].cont
      /\ job'[t].context = job[t].context /\ job'[t].replaced = job[t].replaced
      /\ job'[t].id = job[t].id
  BY <1>1 DEF TurnJob
<1>3. Kept(t)'
  BY <1>1, <1>2, KeepsEntry
<1>4. OpenTurn(t)'
  BY <1>3 DEF OpenTurn, Reminded, Replaced, Provided
<1> QED
  BY <1>2, <1>4, StayContent DEF TurnPcs

\* A request that arrives: a message brings an identifier of its own.
LEMMA ArriveContent ==
    ASSUME IInv, Content, NEW t \in Tasks, Arrive(t)
    PROVE  Content'
<1>1. /\ pc[t] = "idle" /\ pc'[t] = "queued"
      /\ \A u \in Tasks \ {t} : pc'[u] = pc[u] /\ job'[u] = job[u]
      /\ \A c \in Chats : Untouched(c)
  BY ArriveAlone
<1>2. marked \subseteq marked'
  BY DEF Arrive, ReceiveMessage, ReceiveEdit, ReceiveDelete, flags
<1>3. \/ /\ job'[t].kind \in {"message", "edit"}
         /\ job'[t].replaced = FALSE /\ job'[t].pending = job'[t].uploads
         /\ job'[t].cont = <<>>
         /\ job'[t].kind = "message" => Fresh(job'[t].id)
      \/ job'[t].kind = "delete"
  <2>1. PICK c \in Chats :
          \/ \E id \in TurnIds, text \in Requests, up \in SUBSET Files :
               ReceiveMessage(t, c, id, text, up) \/ ReceiveEdit(t, c, id, text, up)
          \/ ReceiveDelete(t, c)
    BY DEF Arrive
  <2>2. CASE ReceiveDelete(t, c)
    BY <2>2 DEF ReceiveDelete, IInv, TypeOK
  <2>3. CASE \E id \in TurnIds, text \in Requests, up \in SUBSET Files :
               ReceiveMessage(t, c, id, text, up) \/ ReceiveEdit(t, c, id, text, up)
    <3>1. PICK id \in TurnIds, text \in Requests, up \in SUBSET Files :
            ReceiveMessage(t, c, id, text, up) \/ ReceiveEdit(t, c, id, text, up)
      BY <2>3
    <3>2. CASE ReceiveMessage(t, c, id, text, up)
      <4>1. job'[t] = NewJob(c, "message", id, text, up) /\ Fresh(id)
        BY <3>2 DEF ReceiveMessage, IInv, TypeOK
      <4> QED  BY <4>1 DEF NewJob
    <3>3. CASE ReceiveEdit(t, c, id, text, up)
      <4>1. job'[t] = NewJob(c, "edit", id, text, up)
        BY <3>3 DEF ReceiveEdit, IInv, TypeOK
      <4> QED  BY <4>1 DEF NewJob
    <3> QED  BY <3>1, <3>2, <3>3
  <2> QED  BY <2>1, <2>2, <2>3
<1>4. Waiting(t)'
  BY <1>3 DEF Waiting
<1>5. OpenTurn(t)'
  BY <1>1 DEF OpenTurn, TurnPcs
<1>6. IsRequest(t)' => Ids(job'[t].cont) = {}
  BY <1>3 DEF IsRequest, Ids
<1>7. ASSUME NEW id, InUse(id)' PROVE InUse(id)
  <2>1. \A c \in Chats : history'[c] = history[c]
    BY <1>1 DEF Untouched
  <2>2. ASSUME NEW u \in Tasks, IsRequest(u)', id \in Ids(job'[u].cont)
        PROVE  IsRequest(u) /\ id \in Ids(job[u].cont)
    BY <1>1, <1>6, <2>2 DEF IsRequest
  <2> QED  BY <1>7, <2>1, <2>2 DEF InUse
<1>8. IsMessage(t)' => Fresh(job'[t].id)
  BY <1>3 DEF IsMessage
<1>9. IsMessage(t)' => ~InUse(job'[t].id)
                       /\ \A u \in Tasks \ {t} : IsMessage(u) => job[u].id # job'[t].id
  BY <1>8 DEF Fresh, InUse, IsMessage, IsRequest
<1>10. \A u \in Tasks \ {t} : IsMessage(u)' = IsMessage(u) /\ job'[u].id = job[u].id
  BY <1>1 DEF IsMessage
<1>11. \A u \in Tasks : NewId(u)'
  <2>1. NewId(t)'
    BY <1>7, <1>9, <1>10 DEF NewId
  <2>2. \A u \in Tasks \ {t} : NewId(u)'
    BY <1>7, <1>9, <1>10 DEF NewId, Content
  <2> QED  BY <2>1, <2>2
<1>12. PICK own : own = job[t].chat
  OBVIOUS
<1>13. Alone(t) /\ pc[t] \notin ActivePcs
  BY <1>1, PcFacts DEF Alone
<1> QED
  BY <1>1, <1>2, <1>4, <1>5, <1>11, <1>12, <1>13, TaskContent

\* Steps that change nothing in any Chat, of requests not in a transaction.
LEMMA AdmitContent ==
    ASSUME IInv, Gone, Content, NEW t \in Tasks,
           Admit(t) \/ AdmitDelete(t) \/ Drop(t) \/ Refuse(t)
           \/ (UploadRejected(t) /\ pc[t] # "attaching")
    PROVE  Content'
<1>1. Alone(t) /\ pc[t] \in {"queued", "admitted"} /\ job[t].chat \in Chats
  BY ServeAlone DEF Serve, Admit, AdmitDelete, Drop, Refuse, Ready, UploadRejected,
                    Uploading, IInv, Served, TurnJob, DeleteJob
<1>2. PICK own \in Chats : own = job[t].chat
  BY <1>1
<1>3. UNCHANGED <<history, memory, files, restoring, marked>>
  BY DEF Admit, AdmitDelete, Drop, Refuse, UploadRejected, Goto, flags, agentState, sandbox
<1>4. chatLock' = chatLock
  BY LeaveLocks DEF Admit, AdmitDelete, Drop, Refuse, Ready, UploadRejected, Uploading
<1>5. \A c \in Chats : Untouched(c)
  BY <1>3, <1>4 DEF Untouched
<1>6. CASE Admit(t) \/ AdmitDelete(t)
  <2>1. /\ pc'[t] \in {"admitted", "closing"} /\ job'[t] = job[t]
        /\ pc'[t] = "admitted" \/ job[t].kind = "delete"
    BY <1>6 DEF Admit, AdmitDelete, IInv, TypeOK
  <2>2. OpenTurn(t)' /\ Waiting(t)'
    BY <1>1, <2>1 DEF OpenTurn, Waiting, TurnPcs, Content
  <2>3. \A c \in Chats : \A id \in Ids(history'[c]) : InUse(id)
    BY <1>3 DEF InUse
  <2>4. IsRequest(t)' => \A id \in Ids(job'[t].cont) : InUse(id)
    BY <1>1, <2>1 DEF InUse, IsRequest
  <2>5. \A u \in Tasks : NewId(u)'
    BY <1>1, <2>1, <2>3, <2>4, SameIds
  <2>6. AtRest(own)'
    BY <1>3, <1>5, RestKept DEF Content
  <2> QED
    BY <1>1, <1>2, <1>3, <1>5, <2>2, <2>5, <2>6, TaskContent
<1>7. CASE ~(Admit(t) \/ AdmitDelete(t))
  <2>1. Leave(t) /\ pc[t] # "idle"
    BY <1>1, <1>7 DEF Drop, Refuse, UploadRejected
  <2> QED
    BY <1>1, <1>2, <1>3, <1>5, <2>1, LeaveContent, PcFacts DEF DeletePcs, TurnPcs
<1> QED  BY <1>6, <1>7

\* A document is uploaded before a Turn, or inside a Revision.
LEMMA UploadContent ==
    ASSUME IInv, Content, NEW t \in Tasks, NEW f \in Files, Upload(t, f)
    PROVE  Content'
<1>1. Alone(t)
  BY ServeAlone DEF Serve
<1>2. PICK own : own = job[t].chat
  OBVIOUS
<1>3. /\ pc[t] \in TurnPcs \cup {"admitted"} /\ pc[t] \in ActivePcs /\ pc[t] # "idle"
      /\ job[t] \in TurnJob /\ own \in Chats /\ job[t].kind # "delete"
  BY <1>2, PcFacts DEF Upload, Uploading, IInv, Served, TurnJob, TurnPcs
<1>4. /\ UNCHANGED <<pc, chatLock, marked, history, memory, restoring>>
      /\ job' = [job EXCEPT ![t] = [job[t] EXCEPT !.pending = @ \ {f}]]
      /\ files' = [files EXCEPT ![own] = @ \cup {f}]
      /\ f \in job[t].pending
  BY <1>2 DEF Upload, flags, agentState
<1>5. /\ job'[t].chat = own /\ job'[t].kind = job[t].kind /\ job'[t].id = job[t].id
      /\ job'[t].at = job[t].at /\ job'[t].cont = job[t].cont
      /\ job'[t].context = job[t].context /\ job'[t].replaced = job[t].replaced
      /\ job'[t].uploads = job[t].uploads /\ job'[t].pending = job[t].pending \ {f}
      /\ job'[t].loaded = job[t].loaded /\ job'[t].text = job[t].text
      /\ job'[t].kept = job[t].kept
  BY <1>2, <1>3, <1>4 DEF TurnJob, IInv, TypeOK
<1>6. CASE pc[t] = "attaching"
  <2>1. OpenTurn(t) /\ pc[t] \in TurnPcs /\ job[t].kind = "edit"
    BY <1>6, PcFacts DEF Content, IInv, Targets, Target, TurnPcs, EditPcs
  <2>2. Kept(t)'
    BY <1>2, <1>4, <1>5, <1>6, <2>1, KeepsEntry
  <2>3. Provided(t)'
    <3>1. /\ job[t].pending \subseteq job[t].uploads
          /\ files[own] = history[own][job[t].at].given \cup (job[t].uploads \ job[t].pending)
      BY <1>2, <1>6, <2>1 DEF OpenTurn, Provided
    <3>2. files'[own] = files[own] \cup {f}
      BY <1>3, <1>4 DEF IInv, TypeOK
    <3>3. /\ job'[t].pending \subseteq job'[t].uploads
          /\ files'[own] = history'[own][job'[t].at].given
                             \cup (job'[t].uploads \ job'[t].pending)
      BY <1>4, <1>5, <3>1, <3>2
    <3> QED
      BY <1>4, <1>5, <1>6, <3>3 DEF Provided
  <2>4. Reminded(t)' /\ Replaced(t)'
    BY <1>2, <1>4, <1>5, <1>6, <2>1 DEF OpenTurn, Reminded, Ahead, Replaced
  <2>5. OpenTurn(t)'
    BY <2>2, <2>3, <2>4 DEF OpenTurn
  <2> QED
    BY <1>1, <1>4, <1>5, <2>1, <2>5, StayContent
<1>7. CASE pc[t] # "attaching"
  <2>1. pc[t] = "admitted" /\ job[t].kind = "message"
    BY <1>7 DEF Upload, Uploading
  <2>2. OpenTurn(t)' /\ Waiting(t)'
    BY <1>4, <1>5, <2>1 DEF OpenTurn, Waiting, TurnPcs, Content
  <2>3. AtRest(own)'
    BY <1>3, <1>4 DEF Content, AtRest, RowsGood, Messages
  <2>4. \A c \in Chats : \A id \in Ids(history'[c]) : InUse(id)
    BY <1>4 DEF InUse
  <2>5. IsRequest(t)' => \A id \in Ids(job'[t].cont) : InUse(id)
    BY <1>3, <1>4, <1>5 DEF InUse, IsRequest
  <2>6. \A u \in Tasks : NewId(u)'
    BY <1>1, <1>3, <1>5, <2>4, <2>5, SameIds
  <2> QED
    BY <1>1, <1>2, <1>3, <1>4, <2>2, <2>3, <2>6, TaskContent
<1> QED  BY <1>6, <1>7

\* _enter_chat and the checkpoint: the context is the history's.
LEMMA EnterContent ==
    ASSUME IInv, Content, NEW t \in Tasks, EnterChat(t)
    PROVE  Content'
<1>1. Alone(t)
  BY ServeAlone DEF Serve
<1>2. PICK own : own = job[t].chat
  OBVIOUS
<1>3. /\ pc[t] = "admitted" /\ pc[t] \in ActivePcs
      /\ job[t] \in TurnJob /\ own \in Chats /\ job[t].kind # "delete"
  BY <1>2, PcFacts DEF EnterChat, Ready, IInv, Served, TurnJob
<1>4. /\ UNCHANGED <<marked, history>>
      /\ pc'[t] = "snapshot" /\ chatLock'[own] = t
      /\ job' = [job EXCEPT ![t] = [job[t] EXCEPT !.context = Messages(own)]]
      /\ memory'[own] = <<Messages(own)>>
      /\ own \notin marked /\ chatLock[own] = NoTask
  BY <1>2, <1>3 DEF EnterChat, MayEnter, flags, IInv, TypeOK
<1>5. /\ job'[t].chat = own /\ job'[t].kind = job[t].kind /\ job'[t].id = job[t].id
      /\ job'[t].cont = job[t].cont /\ job'[t].replaced = job[t].replaced
      /\ job'[t].uploads = job[t].uploads /\ job'[t].pending = job[t].pending
      /\ job'[t].context = Messages(own)
  BY <1>2, <1>3, <1>4 DEF TurnJob, IInv, TypeOK
<1>6. Messages(own) = Texts(history[own]) /\ RowsGood(history[own], own)
  BY <1>3, <1>4 DEF Content, AtRest
<1>7. ~job[t].replaced /\ (job[t].kind = "edit" => job[t].pending = job[t].uploads)
  BY <1>3 DEF Content, Waiting
<1>8. Entry(t)' = history[own]
  BY <1>4, <1>5, <1>7 DEF Entry
<1>9. Kept(t)'
  BY <1>4, <1>5, <1>6, <1>8 DEF Kept, RowsGood
<1>10. Reminded(t)' /\ Replaced(t)' /\ Provided(t)'
  BY <1>4, <1>5, <1>7 DEF Reminded, Replaced, Provided
<1>11. OpenTurn(t)' /\ Waiting(t)'
  BY <1>4, <1>9, <1>10 DEF OpenTurn, Waiting
<1>12. AtRest(own)'
  BY <1>4, <1>6, SentinelAssumption DEF AtRest, RowsGood
<1>13. \A c \in Chats : \A id \in Ids(history'[c]) : InUse(id)
  BY <1>4 DEF InUse
<1>14. IsRequest(t)' => \A id \in Ids(job'[t].cont) : InUse(id)
  BY <1>3, <1>5 DEF InUse, IsRequest
<1>15. \A u \in Tasks : NewId(u)'
  BY <1>1, <1>3, <1>5, <1>13, <1>14, SameIds
<1> QED
  BY <1>1, <1>2, <1>3, <1>4, <1>11, <1>12, <1>15, TaskContent

\* The snapshot of the files, and the continuation a Revision will replace.
LEMMA SnapshotContent ==
    ASSUME IInv, Content, NEW t \in Tasks, TakeSnapshot(t)
    PROVE  Content'
<1>1. Alone(t)
  BY ServeAlone DEF Serve
<1> DEFINE own == job[t].chat
           h == history[own]
           k == Position(h, job[t].id)
<1>2. /\ pc[t] = "snapshot" /\ pc[t] \in TurnPcs /\ pc[t] # "idle" /\ pc[t] \in ActivePcs
      /\ job[t] \in TurnJob /\ own \in Chats /\ job[t].kind \in {"message", "edit"}
      /\ h \in Seq(Turn) /\ OpenTurn(t)
  BY PcFacts, TurnLocals DEF TakeSnapshot, TurnPcs, Content
<1>3. Entry(t) = h /\ ~job[t].replaced
  BY <1>2, EntryOfMessage
<1>4. /\ UNCHANGED <<marked, chatLock, history, memory, restoring, files>>
      /\ job'[t].chat = own /\ job'[t].kind = job[t].kind /\ job'[t].id = job[t].id
      /\ job'[t].context = job[t].context /\ job'[t].replaced = job[t].replaced
      /\ job'[t].uploads = job[t].uploads /\ job'[t].pending = job[t].pending
      /\ job'[t].kept = files[own]
  BY <1>2 DEF TakeSnapshot, Goto, flags, agentState, sandbox, TurnJob, IInv, TypeOK
<1>5. CASE job[t].kind = "message"
  <2>1. pc'[t] = "starting" /\ job'[t].at = job[t].at /\ job'[t].cont = job[t].cont
    BY <1>2, <1>5 DEF TakeSnapshot, Goto, TurnJob, IInv, TypeOK
  <2>2. Kept(t)'
    BY <1>2, <1>4, <1>5, <2>1, KeepsEntry
  <2>3. Reminded(t)' /\ Replaced(t)' /\ Provided(t)'
    BY <1>2, <1>3, <1>4, <1>5, <2>1 DEF OpenTurn, Reminded, Ahead, Replaced, Provided
  <2>4. OpenTurn(t)'
    BY <2>2, <2>3 DEF OpenTurn
  <2> QED
    BY <1>1, <1>2, <1>4, <2>1, <2>4, StayContent DEF TurnPcs
<1>6. CASE job[t].kind = "edit"
  <2>1. pc'[t] = "ready" /\ job'[t].at = k /\ job'[t].cont = SubSeq(h, k, Len(h))
    BY <1>2, <1>6 DEF TakeSnapshot, Goto, TurnJob, IInv, TypeOK
  <2>2. k \in 1 .. Len(h)
    BY <1>2, <1>6, PositionFound DEF IInv, Targets, Target
  <2>3. Entry(t)' = h
    BY <1>3, <1>4 DEF Entry
  <2>4. job[t].context = Texts(h) /\ RowsGood(h, own)
    BY <1>2, <1>3 DEF OpenTurn, Kept
  <2>5. Kept(t)'
    BY <1>4, <2>1, <2>2, <2>3, <2>4 DEF Kept, RowsGood
  <2>6. Reminded(t)' /\ Replaced(t)' /\ Provided(t)'
    BY <1>2, <1>3, <1>4, <1>6, <2>1 DEF OpenTurn, Reminded, Replaced, Provided
  <2>7. OpenTurn(t)' /\ Waiting(t)'
    BY <2>1, <2>5, <2>6 DEF OpenTurn, Waiting
  <2>8. PICK chat \in Chats : chat = own
    BY <1>2
  <2>9. AtRest(chat)'
    BY <1>2, <1>4, <2>4, <2>8, Holds, SentinelAssumption DEF AtRest, RowsGood
  <2>10. \A c \in Chats : \A id \in Ids(history'[c]) : InUse(id)
    BY <1>4 DEF InUse
  <2>11. \A id \in Ids(job'[t].cont) : InUse(id)
    BY <1>2, <2>1, <2>2, IdsOfContinuation DEF InUse
  <2>12. \A u \in Tasks : NewId(u)'
    BY <1>1, <1>2, <1>4, <2>10, <2>11, SameIds
  <2> QED
    BY <1>1, <1>2, <1>4, <2>7, <2>8, <2>9, <2>12, TaskContent
<1> QED  BY <1>2, <1>5, <1>6

\* A Revision puts the context and the files of the edited Turn back.
LEMMA RewindContent ==
    ASSUME IInv, Content, NEW t \in Tasks, Rewind(t)
    PROVE  Content'
<1>1. Alone(t)
  BY ServeAlone DEF Serve
<1> DEFINE own == job[t].chat
           h == history[own]
           k == job[t].at
<1>2. /\ pc[t] = "ready" /\ pc[t] \in TurnPcs /\ pc[t] # "idle"
      /\ own \in Chats /\ h \in Seq(Turn) /\ OpenTurn(t)
      /\ job[t].kind = "edit" /\ k \in 1 .. Len(h)
  BY TurnLocals DEF Rewind, TurnPcs, Content, IInv, Targets, Target, EditPcs
<1>3. /\ UNCHANGED <<job, marked, chatLock, history, files>>
      /\ pc'[t] = "rewinding"
      /\ memory'[own] = <<Restored(own, k, h[k].before)>>
      /\ restoring'[own] = <<h[k].given>>
  BY <1>2 DEF Rewind, Edited, Goto, flags, IInv, TypeOK
<1>4. Entry(t) = h /\ ~job[t].replaced
  BY <1>2, EntryOfMessage
<1>5. Restored(own, k, h[k].before) = Texts(Before(h, k))
  <2>1. RowsGood(h, own) /\ k \in DOMAIN h
    BY <1>2, <1>4, LenProperties DEF OpenTurn, Kept
  <2> QED  BY <2>1 DEF RowsGood, Restored
<1>6. Kept(t)'
  BY <1>2, <1>3, KeepsEntry
<1>7. Reminded(t)'
  BY <1>2, <1>3, <1>5 DEF Reminded, Ahead
<1>8. Replaced(t)'
  BY <1>3, <1>4 DEF Replaced
<1>9. Provided(t)'
  <2>1. restoring'[own] # None
    BY <1>3 DEF None
  <2>2. job[t].pending = job[t].uploads
    BY <1>2 DEF OpenTurn, Provided
  <2> QED  BY <1>2, <1>3, <2>1, <2>2 DEF Provided
<1>10. OpenTurn(t)'
  BY <1>6, <1>7, <1>8, <1>9 DEF OpenTurn
<1> QED
  BY <1>1, <1>2, <1>3, <1>10, StayContent DEF TurnPcs

\* A Revision goes on with the files of the edited Turn, then with all of them.
LEMMA MoveContent ==
    ASSUME IInv, Content, NEW t \in Tasks,
           (Rewound(t) /\ ~job[t].cancelled) \/ Attached(t)
    PROVE  Content'
<1>1. Alone(t)
  BY ServeAlone DEF Serve
<1> DEFINE own == job[t].chat
<1>2. /\ pc[t] \in {"rewinding", "attaching"} /\ pc[t] \in TurnPcs
      /\ own \in Chats /\ OpenTurn(t) /\ job[t].kind = "edit"
  BY TurnLocals DEF Rewound, Attached, TurnPcs, Content, IInv, Targets, Target, EditPcs
<1>3. /\ UNCHANGED <<job, marked, chatLock, history, memory, files, restoring>>
      /\ \/ /\ pc[t] = "rewinding" /\ pc'[t] = "attaching" /\ restoring[own] = None
         \/ /\ pc[t] = "attaching" /\ pc'[t] = "starting" /\ job[t].pending = {}
  BY <1>2 DEF Rewound, Attached, Goto, flags, agentState, sandbox, IInv, TypeOK
<1>4. Kept(t)'
  BY <1>2, <1>3, KeepsEntry
<1>5. Reminded(t)' /\ Replaced(t)'
  BY <1>2, <1>3 DEF OpenTurn, Reminded, Ahead, Replaced
<1>6. Provided(t)'
  BY <1>2, <1>3 DEF OpenTurn, Provided
<1>7. OpenTurn(t)'
  BY <1>4, <1>5, <1>6 DEF OpenTurn
<1> QED
  BY <1>1, <1>2, <1>3, <1>7, StayContent DEF TurnPcs

\* Agent.run reads the context of the Turns ahead.
LEMMA StartContent ==
    ASSUME IInv, Content, NEW t \in Tasks, StartRun(t)
    PROVE  Content'
<1>1. Alone(t)
  BY ServeAlone DEF Serve
<1> DEFINE own == job[t].chat
<1>2. /\ pc[t] = "starting" /\ pc[t] \in TurnPcs /\ job[t] \in TurnJob
      /\ own \in Chats /\ OpenTurn(t) /\ job[t].kind \in {"message", "edit"}
  BY TurnLocals DEF StartRun, TurnPcs, Content
<1>3. memory[own] = <<Ahead(t)>> /\ Messages(own) = Ahead(t)
  <2>1. memory[own] = <<Ahead(t)>>
    BY <1>2 DEF OpenTurn, Reminded
  <2>2. <<Ahead(t)>> # None /\ Head(<<Ahead(t)>>) = Ahead(t)
    BY DEF None
  <2> QED  BY <2>1, <2>2 DEF Messages
<1>4. /\ UNCHANGED <<marked, chatLock, history, files, restoring>>
      /\ pc'[t] = "running"
      /\ job' = [job EXCEPT ![t] = [job[t] EXCEPT !.loaded = Messages(own)]]
  BY <1>2 DEF StartRun, Goto, flags, sandbox, IInv, TypeOK
<1>5. /\ job'[t].chat = own /\ job'[t].kind = job[t].kind /\ job'[t].id = job[t].id
      /\ job'[t].at = job[t].at /\ job'[t].cont = job[t].cont
      /\ job'[t].context = job[t].context /\ job'[t].replaced = job[t].replaced
      /\ job'[t].uploads = job[t].uploads /\ job'[t].pending = job[t].pending
      /\ job'[t].kept = job[t].kept /\ job'[t].loaded = Messages(own)
  BY <1>2, <1>4 DEF TurnJob, IInv, TypeOK
<1>6. Kept(t)'
  BY <1>2, <1>4, <1>5, KeepsEntry
<1>7. Reminded(t)'
  BY <1>3, <1>4, <1>5 DEF Reminded, Ahead
<1>8. Replaced(t)' /\ Provided(t)'
  BY <1>2, <1>4, <1>5 DEF OpenTurn, Replaced, Provided
<1>9. OpenTurn(t)'
  BY <1>6, <1>7, <1>8 DEF OpenTurn
<1> QED
  BY <1>1, <1>2, <1>4, <1>5, <1>9, StayContent DEF TurnPcs

\* What fails or is stopped inside a transaction.
LEMMA FailContent ==
    ASSUME IInv, Content, NEW t \in Tasks,
           \/ RewindImpossible(t) \/ RunFails(t) \/ HistoryFails(t) \/ ViewFails(t)
           \/ (Rewound(t) /\ job[t].cancelled)
           \/ (UploadRejected(t) /\ pc[t] = "attaching")
    PROVE  Content'
<1>1. Alone(t)
  BY ServeAlone DEF Serve
<1>2. /\ pc[t] \in TurnPcs \ {"snapshot"} /\ pc'[t] = "rollback"
      /\ UNCHANGED <<job, marked, chatLock, history>>
  BY DEF RewindImpossible, RunFails, HistoryFails, Answered, ViewFails, Rewound,
         UploadRejected, Goto, TurnPcs, flags, IInv, TypeOK
<1> QED
  BY <1>1, <1>2, GiveUpContent

LEMMA CancelTurnContent ==
    ASSUME IInv, Content, NEW t \in Tasks, CancelTurn(t)
    PROVE  Content'
<1>1. Alone(t)
  BY StopAlone DEF Stop
<1>2. /\ pc[t] \in TurnPcs \ {"snapshot"} /\ job[t] \in TurnJob
      /\ UNCHANGED <<marked, chatLock, history, memory, restoring>>
      /\ job'[t] = [job[t] EXCEPT !.cancelled = TRUE]
  BY TurnLocals DEF CancelTurn, TurnPcs, Goto, flags, agentState, IInv, TypeOK
<1>3. CASE pc[t] # "rewinding"
  <2>1. pc'[t] = "rollback"
    BY <1>3 DEF CancelTurn, Goto, IInv, TypeOK
  <2> QED
    BY <1>1, <1>2, <2>1, GiveUpContent
<1>4. CASE pc[t] = "rewinding"
  <2>1. pc'[t] = "rewinding" /\ files' = files /\ OpenTurn(t)
    BY <1>4 DEF CancelTurn, Goto, IInv, TypeOK, Content
  <2>2. /\ job'[t].chat = job[t].chat /\ job'[t].kind = job[t].kind
        /\ job'[t].id = job[t].id /\ job'[t].at = job[t].at
        /\ job'[t].cont = job[t].cont /\ job'[t].context = job[t].context
        /\ job'[t].replaced = job[t].replaced /\ job'[t].uploads = job[t].uploads
        /\ job'[t].pending = job[t].pending
    BY <1>2 DEF TurnJob
  <2>3. Kept(t)'
    BY <1>2, <2>1, <2>2, KeepsEntry
  <2>4. Reminded(t)' /\ Replaced(t)'
    BY <1>2, <1>4, <2>1, <2>2 DEF OpenTurn, Reminded, Ahead, Replaced
  <2>5. Provided(t)'
    BY <1>2, <1>4, <2>1, <2>2 DEF OpenTurn, Provided
  <2>6. OpenTurn(t)'
    BY <2>3, <2>4, <2>5 DEF OpenTurn
  <2> QED
    BY <1>1, <1>2, <1>4, <2>1, <2>2, <2>6, StayContent
<1> QED  BY <1>3, <1>4

\* A completed Turn: the history and the context grow by the same request.
LEMMA CommitContent ==
    ASSUME IInv, Content, NEW t \in Tasks, CommitTurn(t)
    PROVE  Content'
<1>1. Alone(t)
  BY ServeAlone DEF Serve
<1>2. PICK own : own = job[t].chat
  OBVIOUS
<1> DEFINE h == history[own]
           turn == NewTurn(t)
           next == Append(h, turn)
<1>3. /\ pc[t] = "running" /\ pc[t] \in TurnPcs /\ pc[t] # "idle" /\ pc[t] \in ActivePcs
      /\ own \in Chats /\ h \in Seq(Turn) /\ OpenTurn(t)
      /\ job[t].kind = "message" /\ job[t].text \in Requests /\ turn \in Turn
  BY <1>2, PcFacts, TurnLocals, NewTurnIsTurn
     DEF CommitTurn, Answered, TurnPcs, Content
<1>4. /\ marked' = marked /\ pc'[t] = "idle"
      /\ history'[own] = next /\ (\A c \in Chats : c # own => history'[c] = history[c])
      /\ memory'[own] = <<Append(job[t].loaded, job[t].text)>>
  BY <1>2, <1>3 DEF CommitTurn, Answered, Leave, flags, IInv, TypeOK
<1>5. job[t].context = Texts(h) /\ RowsGood(h, own) /\ job[t].loaded = Texts(h)
  <2>1. Entry(t) = h
    BY <1>2, <1>3, EntryOfMessage
  <2> QED
    BY <1>2, <1>3, <2>1 DEF OpenTurn, Kept, Reminded, Ahead
<1>6. /\ turn.before.chat = own /\ turn.before.texts = Texts(h) /\ turn.id = job[t].id
      /\ turn.text = job[t].text
  BY <1>2, <1>5 DEF NewTurn
<1> HIDE DEF turn, h
<1>7. RowsGood(next, own)
  BY <1>3, <1>5, <1>6, RowsOfAppend
<1>8. Texts(next) = Append(Texts(h), job[t].text)
  BY <1>3, <1>6, TextsOfAppend
<1>9. AtRest(own)'
  <2>1. memory'[own] = <<Texts(next)>>
    BY <1>4, <1>5, <1>8
  <2>2. <<Texts(next)>> # None /\ Head(<<Texts(next)>>) = Texts(next)
    BY DEF None
  <2>3. Messages(own)' = Texts(history'[own])
    BY <1>4, <2>1, <2>2 DEF Messages
  <2> QED
    BY <1>4, <1>7, <2>3 DEF AtRest, RowsGood
<1>10. OpenTurn(t)' /\ Waiting(t)'
  BY <1>4 DEF OpenTurn, Waiting, TurnPcs
<1>11. \A id : InUse(id)' => InUse(id) \/ id = job[t].id
  <2> SUFFICES ASSUME NEW id, InUse(id)' PROVE InUse(id) \/ id = job[t].id
    OBVIOUS
  <2>1. CASE \E c \in Chats : id \in Ids(history'[c])
    <3>1. PICK c \in Chats : id \in Ids(history'[c])
      BY <2>1
    <3>2. CASE c = own
      <4>1. id \in Ids(next)
        BY <1>4, <3>1, <3>2
      <4>2. id \in Ids(h) \/ id = job[t].id
        BY <1>3, <1>6, <4>1, IdsOfAppend
      <4> QED  BY <1>3, <4>2 DEF InUse, h
    <3>3. CASE c # own
      BY <1>4, <3>1, <3>3 DEF InUse
    <3> QED  BY <3>2, <3>3
  <2>2. CASE \E u \in Tasks : IsRequest(u)' /\ id \in Ids(job'[u].cont)
    BY <1>1, <1>4, <2>2 DEF InUse, IsRequest, Alone
  <2> QED  BY <2>1, <2>2 DEF InUse
<1>12. \A u \in Tasks : IsMessage(u)' => u # t /\ IsMessage(u) /\ job'[u].id = job[u].id
  BY <1>1, <1>4 DEF Alone, IsMessage
<1>13. \A u \in Tasks : NewId(u)'
  <2>1. \A u \in Tasks \ {t} : IsMessage(u) => job[u].id # job[t].id
    BY <1>3 DEF Content, NewId, IsMessage
  <2> QED
    BY <1>11, <1>12, <2>1 DEF Content, NewId
<1> QED
  BY <1>1, <1>2, <1>3, <1>4, <1>9, <1>10, <1>13, TaskContent

\* Agent.run and replace_turns: the edited Turn ends the history and the context.
LEMMA ReplaceContent ==
    ASSUME IInv, Content, NEW t \in Tasks, ReplaceTurns(t)
    PROVE  Content' /\ Entry(t)' = Entry(t)
<1>1. Alone(t)
  BY ServeAlone DEF Serve
<1>2. PICK own, h, k, text : /\ own = job[t].chat /\ h = history[own]
                             /\ k = job[t].at /\ text = job[t].text
  OBVIOUS
<1>3. /\ pc[t] = "running" /\ pc[t] \in TurnPcs /\ pc[t] # "idle" /\ pc[t] \in ActivePcs
      /\ own \in Chats /\ h \in Seq(Turn) /\ OpenTurn(t) /\ job[t] \in TurnJob
      /\ job[t].kind = "edit" /\ text \in Requests /\ k \in 1 .. Len(h)
  BY <1>2, PcFacts, TurnLocals
     DEF ReplaceTurns, Answered, TurnPcs, Content, IInv, Targets, Target
<1>3a. PICK turn : turn = [h[k] EXCEPT !.text = text]
  OBVIOUS
<1>4. PICK g : g = Revised(h, k, turn)
  OBVIOUS
<1>4a. /\ turn \in Turn /\ turn.before = h[k].before /\ turn.given = h[k].given
       /\ turn.id = h[k].id /\ turn.text = text
  <2>1. h[k] \in Turn
    BY <1>3, ElementOfSeq
  <2> QED  BY <1>3, <1>3a, <2>1 DEF Turn
<1>5. /\ UNCHANGED <<marked, chatLock, files, restoring>> /\ pc'[t] = "view"
      /\ history'[own] = g /\ (\A c \in Chats : c # own => history'[c] = history[c])
      /\ memory'[own] = <<Append(job[t].loaded, text)>>
      /\ job' = [job EXCEPT ![t] = [job[t] EXCEPT !.replaced = TRUE]]
  BY <1>2, <1>3, <1>3a, <1>4 DEF Revised, ReplaceTurns, Answered, Goto, flags,
                                 sandbox, IInv, TypeOK
<1>6. /\ job'[t].chat = own /\ job'[t].kind = "edit" /\ job'[t].id = job[t].id
      /\ job'[t].at = k /\ job'[t].cont = job[t].cont
      /\ job'[t].context = job[t].context /\ job'[t].replaced = TRUE
      /\ job'[t].uploads = job[t].uploads /\ job'[t].text = text
  BY <1>2, <1>3, <1>5 DEF TurnJob, IInv, TypeOK
<1>7. /\ g \in Seq(Turn) /\ Len(g) = k
      /\ g[k] = turn
      /\ Before(g, k) = Before(h, k)
      /\ Texts(g) = Append(Texts(Before(h, k)), text)
      /\ \A c : RowsGood(h, c) => RowsGood(g, c)
  <2>1. h \in Seq(Turn) /\ k \in 1 .. Len(h) /\ text \in Requests
    BY <1>3
  <2> QED  BY <1>4, <1>4a, <2>1, RevisedFacts
<1>8. Entry(t) = h
  BY <1>2, <1>3, EntryOfMessage
<1>9. Before(h, k) \o job[t].cont = h /\ job[t].cont[1] = h[k]
  <2>1. pc[t] \in TurnPcs \ {"snapshot"} /\ OpenTurn(t) /\ job[t].kind = "edit"
    BY <1>3
  <2>2. /\ Before(history[job[t].chat], job[t].at) \o job[t].cont = Entry(t)
        /\ job[t].cont[1] = Entry(t)[job[t].at]
    BY <2>1, EditFacts
  <2> QED  BY <1>2, <1>8, <2>2
<1>10. Entry(t)' = h
  BY <1>5, <1>6, <1>7, <1>9 DEF Entry
<1>11. Kept(t)'
  BY <1>2, <1>3, <1>5, <1>6, <1>8, <1>10 DEF OpenTurn, Kept, RowsGood
<1>12. Reminded(t)'
  <2>1. job[t].loaded = Texts(Before(h, k))
    BY <1>2, <1>3 DEF OpenTurn, Reminded, Ahead
  <2> QED
    BY <1>5, <1>6, <1>7, <2>1 DEF Reminded
<1>13. Replaced(t)'
  <2>1. g[k] = [job'[t].cont[1] EXCEPT !.text = job'[t].text]
    BY <1>6, <1>7, <1>9, <1>3a
  <2>2. history'[job'[t].chat] = g /\ job'[t].at = k /\ job'[t].replaced /\ Len(g) = k
    BY <1>5, <1>6, <1>7
  <2> QED  BY <1>5, <2>1, <2>2 DEF Replaced
<1>14. Provided(t)'
  <2>1. g[k].given = h[k].given
    BY <1>7, <1>4a
  <2>2. files[own] = h[k].given \cup job[t].uploads
    BY <1>2, <1>3 DEF OpenTurn, Provided
  <2> QED
    BY <1>5, <1>6, <2>1, <2>2 DEF Provided
<1>15. OpenTurn(t)' /\ Waiting(t)'
  BY <1>5, <1>11, <1>12, <1>13, <1>14 DEF OpenTurn, Waiting
<1>16. AtRest(own)'
  <2>1. RowsGood(g, own)
    BY <1>2, <1>3, <1>7, <1>8 DEF OpenTurn, Kept
  <2>2. chatLock[own] = t
    BY <1>2, <1>3, Holds
  <2> QED
    BY <1>5, <2>1, <2>2, SentinelAssumption DEF AtRest, RowsGood
<1>17. \A c \in Chats : \A id \in Ids(history'[c]) : InUse(id)
  <2> SUFFICES ASSUME NEW c \in Chats, NEW id \in Ids(history'[c]) PROVE InUse(id)
    OBVIOUS
  <2>1. CASE c # own
    BY <1>5, <2>1 DEF InUse
  <2>2. CASE c = own
    <3>1. k \in 1 .. Len(h) + 1 /\ Before(h, k) \in Seq(Turn) /\ k \in DOMAIN h
      BY <1>3, LenProperties, BeforeFacts
    <3>2. id \in Ids(Append(Before(h, k), turn))
      BY <1>4, <1>5, <2>2 DEF Revised
    <3>3. id \in Ids(Before(h, k)) \/ id = h[k].id
      BY <1>4a, <3>1, <3>2, IdsOfAppend
    <3>4. id \in Ids(h)
      BY <1>3, <3>1, <3>3, IdsOfBefore DEF Ids
    <3> QED  BY <1>2, <1>3, <3>4 DEF InUse
  <2> QED  BY <2>1, <2>2
<1>18. \A id \in Ids(job'[t].cont) : InUse(id)
  BY <1>3, <1>6 DEF InUse, IsRequest
<1>19. \A u \in Tasks : NewId(u)'
  <2>1. job'[t].kind = job[t].kind /\ job'[t].id = job[t].id
    BY <1>3, <1>6
  <2> QED
    BY <1>1, <1>3, <1>17, <1>18, <2>1, SameIds
<1> QED
  BY <1>1, <1>2, <1>3, <1>5, <1>8, <1>10, <1>15, <1>16, <1>19, TaskContent

\* The rollback puts history and context back as the transaction found them.
LEMMA RollbackContent ==
    ASSUME IInv, Gone, Content, NEW t \in Tasks, Rollback(t)
    PROVE  Content' /\ Entry(t)' = Entry(t)
<1>1. Alone(t)
  BY ServeAlone DEF Serve
<1>2. PICK own, e : own = job[t].chat /\ e = Entry(t)
  OBVIOUS
<1>3. /\ pc[t] = "rollback" /\ pc[t] \in TurnPcs \ {"snapshot"} /\ pc[t] # "idle"
      /\ pc[t] \in ActivePcs /\ own \in Chats /\ job[t].kind \in {"message", "edit"}
      /\ OpenTurn(t) /\ history[own] \in Seq(Turn) /\ job[t].cont \in Seq(Turn)
      /\ job[t].replaced => job[t].kind = "edit"
  BY <1>2, PcFacts, TurnLocals DEF Rollback, TurnPcs, Content
<1>4. /\ UNCHANGED <<job, marked, chatLock, files>> /\ pc'[t] = "restoring"
      /\ restoring'[own] = <<job[t].kept>>
      /\ \A c \in Chats : c # own => history'[c] = history[c]
  BY <1>1, <1>2, <1>3 DEF Rollback, Goto, flags, IInv, TypeOK, Alone, Untouched
<1>5. history'[own] = e
  BY <1>2, <1>3 DEF Rollback, Entry, IInv, TypeOK
<1>6. own \notin marked => memory'[own] = <<job[t].context>>
  <2>1. own \notin marked => CanRestore(own, [chat |-> own, texts |-> job[t].context])
    BY <1>3 DEF Gone, CanRestore
  <2> QED
    BY <1>2, <1>3, <2>1 DEF Rollback, IInv, TypeOK
<1>7. Entry(t)' = e
  <2>1. CASE job[t].replaced
    <3>1. /\ Before(e, job[t].at) = Before(history[own], job[t].at)
          /\ Before(history[own], job[t].at) \o job[t].cont = e
      BY <1>2, <1>3, <2>1, EditFacts
    <3> QED
      BY <1>2, <1>4, <1>5, <2>1, <3>1 DEF Entry
  <2>2. CASE ~job[t].replaced
    BY <1>2, <1>4, <1>5, <2>2 DEF Entry
  <2> QED  BY <2>1, <2>2
<1>8. job[t].context = Texts(e) /\ RowsGood(e, own)
  BY <1>2, <1>3 DEF OpenTurn, Kept
<1>9. Kept(t)'
  BY <1>2, <1>3, <1>4, <1>7 DEF OpenTurn, Kept, RowsGood
<1>10. Reminded(t)'
  BY <1>2, <1>4, <1>6 DEF Reminded
<1>11. Replaced(t)'
  BY <1>2, <1>4, <1>5, <1>7 DEF Replaced
<1>12. Provided(t)'
  <2>1. restoring'[own] # None
    BY <1>4 DEF None
  <2> QED
    BY <1>2, <1>4, <2>1 DEF Provided
<1>13. OpenTurn(t)' /\ Waiting(t)'
  BY <1>4, <1>9, <1>10, <1>11, <1>12 DEF OpenTurn, Waiting
<1>14. AtRest(own)'
  <2>1. chatLock[own] = t
    BY <1>2, <1>3, Holds
  <2> QED
    BY <1>4, <1>5, <1>8, <2>1, SentinelAssumption DEF AtRest, RowsGood
<1>15. \A c \in Chats : \A id \in Ids(history'[c]) : InUse(id)
  <2> SUFFICES ASSUME NEW c \in Chats, NEW id \in Ids(history'[c]) PROVE InUse(id)
    OBVIOUS
  <2>1. CASE c # own \/ ~job[t].replaced
    BY <1>2, <1>4, <1>5, <2>1 DEF InUse, Entry
  <2>2. CASE c = own /\ job[t].replaced
    <3> DEFINE h == history[own]
               k == job[t].at
               b == Before(h, k)
    <3>1. k \in 1 .. Len(h) /\ b \o job[t].cont = e
      BY <1>2, <1>3, <2>2, EditFacts
    <3>2. k \in 1 .. Len(h) + 1 /\ b \in Seq(Turn)
      BY <1>3, <3>1, LenProperties, BeforeFacts
    <3>3. id \in Ids(b) \/ id \in Ids(job[t].cont)
      <4>1. id \in Ids(b \o job[t].cont)
        BY <1>5, <2>2, <3>1
      <4> HIDE DEF b
      <4> QED  BY <1>3, <3>2, <4>1, IdsOfConcat
    <3>4. id \in Ids(b) => id \in Ids(h)
      BY <1>3, <3>2, IdsOfBefore
    <3> QED
      BY <1>3, <3>3, <3>4 DEF InUse, IsRequest
  <2> QED  BY <2>1, <2>2
<1>16. \A id \in Ids(job'[t].cont) : InUse(id)
  BY <1>3, <1>4 DEF InUse, IsRequest
<1>17. \A u \in Tasks : NewId(u)'
  BY <1>1, <1>3, <1>4, <1>15, <1>16, SameIds
<1> QED
  BY <1>1, <1>2, <1>3, <1>4, <1>7, <1>13, <1>14, <1>17, TaskContent

\* A Revision is accepted; a rollback ends, or its handler is stopped first;
\* a handler is stopped before its transaction can be rolled back.
LEMMA EndContent ==
    ASSUME IInv, Gone, Content, NEW t \in Tasks,
           CommitRevision(t) \/ RolledBack(t) \/ CancelRollback(t) \/ CancelEarly(t)
    PROVE  Content'
<1>1. Alone(t)
  BY ServeAlone, StopAlone DEF Serve, Stop
<1>2. PICK own : own = job[t].chat
  OBVIOUS
<1>3. /\ Leave(t) /\ pc[t] # "idle" /\ own \in Chats
      /\ UNCHANGED <<marked, history, memory, restoring>>
      /\ pc[t] \in {"queued", "admitted", "snapshot", "view", "restoring"}
  BY <1>2 DEF CommitRevision, RolledBack, CancelRollback, CancelEarly, Cancellable,
              flags, agentState, sandbox, IInv, Served, TurnJob, DeleteJob, TurnPcs
<1>4. ASSUME pc[t] \in TurnPcs, own \notin marked
      PROVE  Messages(own) = Texts(history[own])
  <2>1. pc[t] \in {"snapshot", "view", "restoring"} /\ OpenTurn(t)
    BY <1>3, <1>4, PcFacts DEF TurnPcs, Content
  <2>2. memory[own] = <<Texts(history[own])>>
    <3>1. CASE pc[t] = "view"
      BY <1>2, <1>4, <2>1, <3>1 DEF OpenTurn, Reminded
    <3>2. CASE pc[t] # "view"
      <4>1. memory[own] = <<job[t].context>> /\ job[t].context = Texts(Entry(t))
        BY <1>2, <1>4, <2>1, <3>2 DEF OpenTurn, Reminded, Kept
      <4>2. Entry(t) = history[own]
        <5>1. CASE pc[t] = "snapshot"
          BY <1>2, <1>4, <2>1, <5>1, EntryOfMessage
        <5>2. CASE pc[t] = "restoring"
          BY <1>2, <1>4, <2>1, <5>2 DEF OpenTurn, Replaced
        <5> QED  BY <2>1, <3>2, <5>1, <5>2
      <4> QED  BY <4>1, <4>2
    <3> QED  BY <3>1, <3>2
  <2>3. <<Texts(history[own])>> # None
        /\ Head(<<Texts(history[own])>>) = Texts(history[own])
    BY DEF None
  <2> QED  BY <2>2, <2>3 DEF Messages
<1>5. pc[t] \in ActivePcs \/ (\A c \in Chats : Untouched(c))
  <2>1. CASE pc[t] = "queued"
    <3>1. files' = files
      BY <2>1 DEF CommitRevision, RolledBack, CancelRollback, CancelEarly, Uploading,
                  sandbox
    <3>2. chatLock' = chatLock
      BY <1>3, <2>1, LeaveLocks
    <3> QED  BY <1>3, <3>1, <3>2 DEF Untouched
  <2>2. CASE pc[t] # "queued"
    BY <1>3, <2>2, PcFacts DEF ActivePcs, Pcs, TurnPcs
  <2> QED  BY <2>1, <2>2
<1>6. pc[t] \notin DeletePcs
  BY <1>3 DEF DeletePcs
<1> QED
  BY <1>1, <1>2, <1>3, <1>4, <1>5, <1>6, LeaveContent

\* A deletion removes the context, the files and the Turns.
LEMMA DeleteContent ==
    ASSUME IInv, Gone, Content, NEW t \in Tasks,
           DeleteContext(t) \/ DeleteFiles(t) \/ DeleteFilesFails(t) \/ DeleteHistory(t)
    PROVE  Content'
<1>1. Alone(t)
  BY ServeAlone DEF Serve
<1>2. PICK own : own = job[t].chat
  OBVIOUS
<1>3. /\ pc[t] \in DeletePcs \cup {"closing"} /\ pc[t] \in ActivePcs /\ pc[t] # "idle"
      /\ pc'[t] \in DeletePcs \cup {"idle"} /\ (pc'[t] # "idle" => job'[t] = job[t])
      /\ marked' = marked
  BY PcFacts DEF DeleteContext, DeleteFiles, DeleteFilesFails, DeleteHistory, DeletePcs,
                 Goto, Leave, flags, IInv, TypeOK, ActivePcs, Pcs
<1>4. own \in Chats /\ own \in marked /\ job[t].kind = "delete"
  BY <1>2, <1>3, Holds DEF Gone, IInv, Served, DeleteJob
<1>5. history'[own] \in {history[own], <<>>}
  BY <1>2, <1>4 DEF DeleteContext, DeleteFiles, DeleteFilesFails, DeleteHistory,
                    agentState, IInv, TypeOK
<1>6. AtRest(own)'
  <2>1. RowsGood(history'[own], own)
    BY <1>4, <1>5 DEF Content, AtRest, RowsGood
  <2> QED
    BY <1>3, <1>4, <2>1 DEF AtRest, RowsGood
<1>7. OpenTurn(t)' /\ Waiting(t)'
  BY <1>3, PcFacts DEF OpenTurn, Waiting, TurnPcs, DeletePcs
<1>8. \A c \in Chats : \A id \in Ids(history'[c]) : InUse(id)
  BY <1>1, <1>2, <1>5 DEF Alone, Untouched, InUse, Ids
<1>9. ~IsRequest(t)' /\ ~IsMessage(t)'
  BY <1>3, <1>4 DEF IsRequest, IsMessage
<1>10. \A u \in Tasks : NewId(u)'
  BY <1>1, <1>3, <1>8, <1>9, SameIds
<1> QED
  BY <1>1, <1>2, <1>3, <1>6, <1>7, <1>10, TaskContent

\* A worker thread has put the files back, or could not.
LEMMA WorkerContent ==
    ASSUME IInv, Content, NEW c \in Chats, Worker(c)
    PROVE  Content'
<1>1. /\ UNCHANGED <<job, marked, chatLock, history, memory>>
      /\ restoring[c] # None /\ restoring' = [restoring EXCEPT ![c] = None]
      /\ \A d \in Chats : d # c => files'[d] = files[d]
      /\ \/ pc' = pc /\ files'[c] = Head(restoring[c])
         \/ /\ FaultyFiles /\ files' = files
            /\ pc' = [t \in Tasks |->
                        IF pc[t] = "rewinding" /\ job[t].chat = c
                          THEN "rollback" ELSE pc[t]]
  BY DEF Worker, FilesRestored, FilesNotRestored, control, flags, agentState, IInv, TypeOK
<1>2. \A t \in Tasks : pc'[t] = pc[t] \/ (pc[t] = "rewinding" /\ pc'[t] = "rollback")
  BY <1>1
<1>3. ASSUME NEW t \in Tasks PROVE OpenTurn(t)'
  <2> SUFFICES ASSUME pc'[t] \in TurnPcs
               PROVE  Kept(t)' /\ Reminded(t)' /\ Replaced(t)' /\ Provided(t)'
    BY DEF OpenTurn
  <2>1. pc[t] \in TurnPcs /\ OpenTurn(t) /\ job[t].chat \in Chats
    BY <1>2, TurnLocals DEF TurnPcs, Content
  <2>2. Kept(t)'
    BY <1>1, <1>2, <2>1 DEF OpenTurn, Kept, Entry, RowsGood
  <2>3. Reminded(t)' /\ Replaced(t)'
    BY <1>1, <1>2, <2>1 DEF OpenTurn, Reminded, Ahead, Replaced, Entry
  <2>4. Provided(t)'
    <3>1. CASE job[t].chat # c
      <4>1. /\ pc'[t] = pc[t] /\ files'[job[t].chat] = files[job[t].chat]
            /\ restoring'[job[t].chat] = restoring[job[t].chat]
        BY <1>1, <2>1, <3>1 DEF IInv, TypeOK
      <4> QED  BY <1>1, <2>1, <4>1 DEF OpenTurn, Provided
    <3>2. CASE job[t].chat = c
      <4>1. pc[t] \in {"snapshot", "rewinding", "restoring"}
        BY <1>1, <2>1, <3>2 DEF IInv, Quiet
      <4>2. restoring'[c] = None
        BY <1>1 DEF IInv, TypeOK
      <4>3. CASE pc'[t] = "rollback" \/ pc[t] = "snapshot"
        BY <1>1, <1>2, <2>1, <4>1, <4>3 DEF OpenTurn, Provided
      <4>4. CASE pc[t] = "rewinding" /\ pc'[t] = "rewinding"
        <5>1. files'[c] = Head(restoring[c])
          BY <1>1, <3>2, <4>4
        <5>2. /\ restoring[c] = <<history[c][job[t].at].given>>
              /\ job[t].kind = "edit" => job[t].pending = job[t].uploads
          BY <1>1, <2>1, <3>2, <4>4 DEF OpenTurn, Provided
        <5>3. files'[c] = history[c][job[t].at].given
          BY <5>1, <5>2
        <5> QED  BY <1>1, <3>2, <4>2, <4>4, <5>2, <5>3 DEF Provided
      <4>5. CASE pc[t] = "restoring"
        <5>1. ~FaultyFiles => files'[c] = Head(restoring[c])
          BY <1>1
        <5>2. ~FaultyFiles => restoring[c] = <<job[t].kept>>
          BY <1>1, <2>1, <3>2, <4>5 DEF OpenTurn, Provided
        <5>3. ~FaultyFiles => files'[c] = job[t].kept
          BY <5>1, <5>2
        <5> QED  BY <1>1, <1>2, <3>2, <4>2, <4>5, <5>3 DEF Provided
      <4> QED  BY <1>2, <4>1, <4>3, <4>4, <4>5
    <3> QED  BY <3>1, <3>2
  <2> QED  BY <2>2, <2>3, <2>4
<1>4. ASSUME NEW t \in Tasks PROVE Waiting(t)' /\ NewId(t)'
  <2>1. \A u \in Tasks : /\ IsMessage(u)' = IsMessage(u)
                         /\ IsRequest(u)' = IsRequest(u)
    BY <1>1, <1>2 DEF IsMessage, IsRequest
  <2>2. \A id : InUse(id)' => InUse(id)
    BY <1>1, <2>1 DEF InUse
  <2>3. Waiting(t)'
    BY <1>1, <1>2 DEF Content, Waiting
  <2>4. NewId(t)'
    BY <1>1, <2>1, <2>2 DEF Content, NewId
  <2> QED  BY <2>3, <2>4
<1>5. \A d \in Chats : AtRest(d)'
  BY <1>1 DEF Content, AtRest, RowsGood, Messages
<1> QED
  BY <1>3, <1>4, <1>5 DEF Content
-----------------------------------------------------------------------------
(* The content invariant is inductive. *)

LEMMA InitContent == Init => Content
<1> SUFFICES ASSUME Init PROVE Content
  OBVIOUS
<1>1. \A t \in Tasks : pc[t] = "idle"
  BY DEF Init
<1>2. \A t \in Tasks : OpenTurn(t) /\ Waiting(t) /\ NewId(t)
  BY <1>1 DEF OpenTurn, TurnPcs, Waiting, NewId, IsMessage
<1>3. ASSUME NEW c \in Chats PROVE AtRest(c)
  <2>1. \A k \in DOMAIN history[c] : history[c][k].before = Legacy
    BY DEF Init, ImportedTurn
  <2>2. memory[c] = None
    BY DEF Init
  <2> QED
    BY <2>1, <2>2 DEF AtRest, RowsGood, Messages
<1> QED
  BY <1>2, <1>3 DEF Content

LEMMA ServeContent ==
    ASSUME IInv, Gone, Content, NEW t \in Tasks, Serve(t)
    PROVE  Content'
<1>1. CASE Admit(t) \/ AdmitDelete(t) \/ Drop(t) \/ Refuse(t)
  BY <1>1, AdmitContent
<1>2. CASE (\E f \in Files : Upload(t, f)) \/ EnterChat(t) \/ TakeSnapshot(t)
  BY <1>2, UploadContent, EnterContent, SnapshotContent
<1>3. CASE UploadRejected(t)
  BY <1>3, AdmitContent, FailContent
<1>4. CASE Rewind(t) \/ Attached(t) \/ StartRun(t)
  BY <1>4, RewindContent, MoveContent, StartContent
<1>5. CASE Rewound(t)
  BY <1>5, MoveContent, FailContent
<1>6. CASE RewindImpossible(t) \/ RunFails(t) \/ HistoryFails(t) \/ ViewFails(t)
  BY <1>6, FailContent
<1>7. CASE CommitTurn(t) \/ ReplaceTurns(t) \/ Rollback(t)
  BY <1>7, CommitContent, ReplaceContent, RollbackContent
<1>8. CASE CommitRevision(t) \/ RolledBack(t)
  BY <1>8, EndContent
<1>9. CASE DeleteContext(t) \/ DeleteFiles(t) \/ DeleteFilesFails(t) \/ DeleteHistory(t)
  BY <1>9, DeleteContent
<1> QED
  BY <1>1, <1>2, <1>3, <1>4, <1>5, <1>6, <1>7, <1>8, <1>9 DEF Serve

LEMMA NextContent == IInv /\ Gone /\ Content /\ [Next]_vars => Content'
<1> SUFFICES ASSUME IInv, Gone, Content, [Next]_vars PROVE Content'
  OBVIOUS
<1>1. CASE UNCHANGED vars
  <2>1. UNCHANGED <<pc, job, chatLock, marked, history, memory, files, restoring>>
    BY <1>1 DEF vars, control, flags, agentState, sandbox
  <2>2. ASSUME NEW t \in Tasks PROVE OpenTurn(t)' /\ Waiting(t)' /\ NewId(t)'
    <3>1. OpenTurn(t)' /\ Waiting(t)'
      BY <2>1, OthersKeep DEF Content, Untouched
    <3>2. NewId(t)'
      BY <2>1 DEF Content, NewId, InUse, IsMessage, IsRequest
    <3> QED  BY <3>1, <3>2
  <2>3. ASSUME NEW c \in Chats PROVE AtRest(c)'
    BY <2>1 DEF Content, AtRest, RowsGood, Messages
  <2> QED  BY <2>2, <2>3 DEF Content
<1>2. CASE \E t \in Tasks : Arrive(t) \/ Serve(t)
  BY <1>2, ArriveContent, ServeContent
<1>3. CASE \E t \in Tasks : Stop(t)
  BY <1>3, EndContent, CancelTurnContent DEF Stop
<1>4. CASE \E c \in Chats : Worker(c)
  BY <1>4, WorkerContent
<1> QED
  BY <1>1, <1>2, <1>3, <1>4 DEF Next

(***************************************************************************)
(* In every phase of a transaction the context, the history, the files and *)
(* the rollback data of a Chat are what Content says, and every checkpoint *)
(* a row keeps is the context of the Turns ahead of it.                    *)
(***************************************************************************)
THEOREM ContentInductive == Spec => [](IInv /\ Gone /\ Content)
BY InitIInv, InitGone, InitContent, NextIInv, NextGone, NextContent, PTL DEF Spec

LEMMA ContentMatches == Content => ContextMatchesHistory
BY DEF Content, AtRest, ContextMatchesHistory

LEMMA ContentRevisable == Gone /\ Content => EveryTurnRevisable
<1> SUFFICES ASSUME Gone, Content, NEW c \in Chats \ marked, NEW k \in DOMAIN history[c]
             PROVE  LET turn == history[c][k] IN
                    /\ CanRestore(c, turn.before)
                    /\ Restored(c, k, turn.before) = Texts(Before(history[c], k))
                    /\ c \in fileSnaps
  BY DEF EveryTurnRevisable
<1>1. c \in memSnaps \cap fileSnaps
  BY DEF Gone
<1>2. history[c][k].before # Legacy =>
        /\ history[c][k].before.chat = c
        /\ history[c][k].before.texts = Texts(Before(history[c], k))
  BY DEF Content, AtRest, RowsGood
<1> QED
  BY <1>1, <1>2 DEF CanRestore, Restored

LEMMA ContentOfRun == IInv /\ Content => RunSeesItsPast
<1> SUFFICES ASSUME IInv, Content, NEW t \in Tasks, pc[t] = "running"
             PROVE  LET j == job[t]
                        h == history[j.chat] IN
                    IF j.kind = "message"
                      THEN j.loaded = Texts(h) /\ files[j.chat] = j.kept
                      ELSE /\ j.loaded = Texts(Before(h, j.at))
                           /\ files[j.chat] = h[j.at].given \cup j.uploads
  BY DEF RunSeesItsPast
<1>1. pc[t] \in TurnPcs /\ OpenTurn(t) /\ job[t].kind \in {"message", "edit"}
  BY TurnLocals DEF TurnPcs, Content
<1>2. job[t].loaded = Ahead(t)
  BY <1>1 DEF OpenTurn, Reminded
<1>3. CASE job[t].kind = "message"
  <2>1. job[t].context = Texts(history[job[t].chat])
    <3>1. Entry(t) = history[job[t].chat]
      BY <1>1, <1>3, EntryOfMessage
    <3> QED  BY <1>1, <3>1 DEF OpenTurn, Kept
  <2>2. files[job[t].chat] = job[t].kept
    BY <1>1, <1>3 DEF OpenTurn, Provided
  <2> QED
    BY <1>2, <1>3, <2>1, <2>2 DEF Ahead
<1>4. CASE job[t].kind = "edit"
  BY <1>1, <1>2, <1>4 DEF Ahead, OpenTurn, Provided
<1> QED
  BY <1>1, <1>3, <1>4

(***************************************************************************)
(* Between transactions the context the next Turn will be given is the     *)
(* Chat's history: Turns, Revisions, failures, Stop and rollback (with the *)
(* HistoryFails path that has stored the longer context already) all leave *)
(* the two in step.                                                        *)
(***************************************************************************)
THEOREM ContextAndHistoryAgree == Spec => []ContextMatchesHistory
BY ContentMatches, ContentInductive, PTL

(***************************************************************************)
(* Every row of the history of a Chat that is not being deleted can be     *)
(* revised: its checkpoint exists, belongs to the Chat and is the context  *)
(* of the rows ahead of it, although Revisions have since replaced rows    *)
(* and rollbacks put a discarded continuation back.                        *)
(***************************************************************************)
THEOREM TurnsStayRevisable == Spec => []EveryTurnRevisable
BY ContentRevisable, ContentInductive, PTL

(***************************************************************************)
(* The Agent runs on the context of the Turns ahead of the request and on  *)
(* the documents of that moment: a Revision sees nothing of what it will   *)
(* discard.                                                                *)
(***************************************************************************)
THEOREM RunsSeeTheirPast == Spec => []RunSeesItsPast
BY ContentOfRun, ContentInductive, PTL
-----------------------------------------------------------------------------
(* The refinement of TurnLedger. *)

Shown(h) == [k \in DOMAIN h |-> Seen(h[k])]

\* In the ledger the context is the history, in a transaction and outside.
ContextIsHistory ==
    \A c \in Chats \ marked : LedgerContext(c) = Texts(LedgerHistory(c))

\* The ledger of a Chat as a step leaves it.
SameLedger(c) ==
    LedgerHistory(c)' = LedgerHistory(c) /\ LedgerFiles(c)' = LedgerFiles(c)

\* The transaction that is open in a Chat.
LEMMA OpenLedger ==
    ASSUME IInv, NEW t \in Tasks, pc[t] \in TurnPcs
    PROVE  /\ LedgerHistory(job[t].chat) = Entry(t)
           /\ LedgerContext(job[t].chat) = job[t].context
           /\ pc[t] # "snapshot" => LedgerFiles(job[t].chat) = job[t].kept
           /\ pc[t] = "snapshot" =>
                LedgerFiles(job[t].chat) =
                  IF restoring[job[t].chat] # None
                    THEN Head(restoring[job[t].chat]) ELSE files[job[t].chat]
<1>1. chatLock[job[t].chat] = t /\ t # NoTask
  BY Holds, PcFacts, SentinelAssumption
<1>2. InTurn(job[t].chat)
  BY <1>1 DEF InTurn
<1> QED
  BY <1>1, <1>2 DEF LedgerHistory, LedgerContext, LedgerFiles, Entry

LEMMA ClosedLedger ==
    ASSUME NEW c, ~InTurn(c)
    PROVE  /\ LedgerHistory(c) = history[c] /\ LedgerContext(c) = Messages(c)
           /\ LedgerFiles(c) =
                IF restoring[c] # None THEN Head(restoring[c]) ELSE files[c]
BY DEF LedgerHistory, LedgerContext, LedgerFiles

LEMMA ContextOfLedger == IInv /\ Gone /\ Content => ContextIsHistory
<1> SUFFICES ASSUME IInv, Gone, Content, NEW c \in Chats \ marked
             PROVE  LedgerContext(c) = Texts(LedgerHistory(c))
  BY DEF ContextIsHistory
<1>1. CASE InTurn(c)
  <2>1. PICK t \in Tasks : t = chatLock[c] /\ pc[t] \in TurnPcs
    BY <1>1 DEF InTurn, IInv, TypeOK
  <2>2. job[t].chat = c
    BY <2>1 DEF IInv, LocksHeld
  <2>3. job[t].context = Texts(Entry(t))
    BY <2>1 DEF Content, OpenTurn, Kept
  <2> QED
    BY <2>1, <2>2, <2>3, OpenLedger
<1>2. CASE ~InTurn(c)
  <2>1. chatLock[c] = NoTask
    <3> SUFFICES ASSUME chatLock[c] # NoTask PROVE FALSE
      OBVIOUS
    <3>1. PICK t \in Tasks : t = chatLock[c]
      BY DEF IInv, TypeOK
    <3>2. pc[t] \in DeletePcs /\ job[t].chat = c
      BY <1>2, <3>1, PcFacts DEF InTurn, IInv, LocksHeld
    <3> QED  BY <3>2 DEF Gone
  <2> QED
    BY <1>2, <2>1, ClosedLedger DEF Content, AtRest
<1> QED  BY <1>1, <1>2

\* Nothing happens in the ledger.
LEMMA LedgerStutters ==
    ASSUME ContextIsHistory, ContextIsHistory', marked' = marked,
           \A c \in Chats \ marked : SameLedger(c)
    PROVE  UNCHANGED Ledger!vars
<1>1. \A c \in Chats \ marked : LedgerContext(c)' = LedgerContext(c)
  BY DEF ContextIsHistory, SameLedger, Texts
<1> QED
  BY <1>1 DEF SameLedger, Ledger!vars

SeenTurn == [id : TurnIds, text : Requests, given : SUBSET Files]

LEMMA ShownFacts ==
    ASSUME NEW h \in Seq(Turn)
    PROVE  /\ Shown(h) \in Seq(SeenTurn) /\ Len(Shown(h)) = Len(h) /\ Len(h) \in Nat
           /\ \A i \in 1 .. Len(h) : Shown(h)[i] = Seen(h[i])
           /\ DOMAIN Shown(h) = 1 .. Len(h)
<1>1. DOMAIN h = 1 .. Len(h) /\ Len(h) \in Nat
  BY LenProperties
<1>2. ASSUME NEW i \in 1 .. Len(h) PROVE Seen(h[i]) \in SeenTurn
  <2>1. h[i] \in Turn
    BY ElementOfSeq
  <2> QED  BY <2>1 DEF Seen, SeenTurn, Turn
<1>3. Shown(h) \in [1 .. Len(h) -> SeenTurn]
  BY <1>1, <1>2 DEF Shown
<1>4. Shown(h) \in Seq(SeenTurn)
  BY <1>1, <1>3, SeqDef
<1>5. DOMAIN Shown(h) = 1 .. Len(h)
  BY <1>3
<1>6. Len(Shown(h)) = Len(h)
  BY <1>1, <1>4, <1>5, LenProperties
<1>7. \A i \in 1 .. Len(h) : Shown(h)[i] = Seen(h[i])
  BY <1>1 DEF Shown
<1> QED  BY <1>1, <1>4, <1>5, <1>6, <1>7

LEMMA SameShown ==
    ASSUME NEW g \in Seq(SeenTurn), NEW h \in Seq(SeenTurn), Len(g) = Len(h),
           \A i \in 1 .. Len(g) : g[i] = h[i]
    PROVE  g = h
BY SeqEqual

LEMMA ShownOfAppend ==
    ASSUME NEW h \in Seq(Turn), NEW turn \in Turn
    PROVE  Shown(Append(h, turn)) = Append(Shown(h), Seen(turn))
<1> DEFINE g == Append(h, turn)
           s == Append(Shown(h), Seen(turn))
<1>1. /\ g \in Seq(Turn) /\ Len(g) = Len(h) + 1
      /\ \A i \in 1 .. Len(h) : g[i] = h[i]
      /\ g[Len(h) + 1] = turn
  BY AppendProperties
<1>2. Seen(turn) \in SeenTurn
  BY DEF Seen, SeenTurn, Turn
<1>3. /\ Shown(h) \in Seq(SeenTurn) /\ Len(Shown(h)) = Len(h) /\ Len(h) \in Nat
      /\ \A i \in 1 .. Len(h) : Shown(h)[i] = Seen(h[i])
  BY ShownFacts
<1>4. /\ s \in Seq(SeenTurn) /\ Len(s) = Len(h) + 1
      /\ \A i \in 1 .. Len(h) : s[i] = Shown(h)[i]
      /\ s[Len(h) + 1] = Seen(turn)
  BY <1>2, <1>3, AppendProperties
<1> HIDE DEF g, s
<1>5. /\ Shown(g) \in Seq(SeenTurn) /\ Len(Shown(g)) = Len(h) + 1
      /\ \A i \in 1 .. Len(h) + 1 : Shown(g)[i] = Seen(g[i])
  BY <1>1, ShownFacts
<1>6. \A i \in 1 .. Len(h) + 1 : Shown(g)[i] = s[i]
  BY <1>1, <1>3, <1>4, <1>5
<1>7. Shown(g) = s
  BY <1>4, <1>5, <1>6, SameShown
<1> QED  BY <1>7 DEF g, s

\* What is ahead of a Turn, in the ledger.
LEMMA ShownOfBefore ==
    ASSUME NEW h \in Seq(Turn), NEW k \in 1 .. Len(h)
    PROVE  /\ Shown(Before(h, k)) = SubSeq(Shown(h), 1, k - 1)
           /\ Texts(Before(h, k)) = SubSeq(Texts(h), 1, k - 1)
<1> DEFINE b == Before(h, k)
<1>1. Len(h) \in Nat /\ k \in 1 .. Len(h) + 1 /\ k \in Nat /\ k <= Len(h) /\ k >= 1
  BY LenProperties
<1>2. b \in Seq(Turn) /\ Len(b) = k - 1 /\ \A i \in 1 .. k - 1 : b[i] = h[i]
  BY <1>1, BeforeFacts
<1> HIDE DEF b
<1>3. /\ Shown(h) \in Seq(SeenTurn) /\ Len(Shown(h)) = Len(h)
      /\ \A i \in 1 .. Len(h) : Shown(h)[i] = Seen(h[i])
  BY ShownFacts
<1>4. /\ Shown(b) \in Seq(SeenTurn) /\ Len(Shown(b)) = k - 1
      /\ \A i \in 1 .. k - 1 : Shown(b)[i] = Seen(b[i])
  BY <1>2, ShownFacts
<1>5. k - 1 \in Nat /\ k - 1 <= Len(h)
  BY <1>1
<1>6. Shown(b) = SubSeq(Shown(h), 1, k - 1)
  <2> DEFINE q == SubSeq(Shown(h), 1, k - 1)
  <2>1. \A i \in 1 .. k - 1 : Shown(h)[i] \in SeenTurn
    BY <1>1, <1>3, ElementOfSeq
  <2>2. /\ q \in Seq(SeenTurn)
        /\ Len(q) = IF 1 <= k - 1 THEN k - 1 - 1 + 1 ELSE 0
        /\ \A i \in 1 .. k - 1 - 1 + 1 : q[i] = Shown(h)[1 + i - 1]
    BY <1>5, <2>1, SubSeqProperties
  <2> HIDE DEF q
  <2>3. Len(q) = k - 1
    BY <1>1, <2>2
  <2>4. \A i \in 1 .. k - 1 : q[i] = Shown(b)[i]
    <3> SUFFICES ASSUME NEW i \in 1 .. k - 1 PROVE q[i] = Shown(b)[i]
      OBVIOUS
    <3>1. i \in 1 .. k - 1 - 1 + 1 /\ 1 + i - 1 = i /\ i \in 1 .. Len(h)
      BY <1>1
    <3>2. q[i] = Shown(h)[i]
      BY <2>2, <3>1
    <3> QED  BY <1>2, <1>3, <1>4, <3>1, <3>2
  <2>5. q = Shown(b)
    BY <1>4, <2>2, <2>3, <2>4, SameShown
  <2> QED  BY <2>5 DEF q
<1>7. Texts(b) = SubSeq(Texts(h), 1, k - 1)
  <2> DEFINE q == SubSeq(Texts(h), 1, k - 1)
  <2>1. /\ Texts(h) \in Seq(Requests) /\ Len(Texts(h)) = Len(h)
        /\ \A i \in 1 .. Len(h) : Texts(h)[i] = h[i].text
    BY TextsFacts
  <2>2. \A i \in 1 .. k - 1 : Texts(h)[i] \in Requests
    BY <1>1, <2>1, ElementOfSeq
  <2>3. /\ q \in Seq(Requests)
        /\ Len(q) = IF 1 <= k - 1 THEN k - 1 - 1 + 1 ELSE 0
        /\ \A i \in 1 .. k - 1 - 1 + 1 : q[i] = Texts(h)[1 + i - 1]
    BY <1>5, <2>2, SubSeqProperties
  <2> HIDE DEF q
  <2>4. Len(q) = k - 1
    BY <1>1, <2>3
  <2>5. /\ Texts(b) \in Seq(Requests) /\ Len(Texts(b)) = k - 1
        /\ \A i \in 1 .. k - 1 : Texts(b)[i] = b[i].text
    BY <1>2, TextsFacts
  <2>6. \A i \in 1 .. k - 1 : q[i] = Texts(b)[i]
    <3> SUFFICES ASSUME NEW i \in 1 .. k - 1 PROVE q[i] = Texts(b)[i]
      OBVIOUS
    <3>1. i \in 1 .. k - 1 - 1 + 1 /\ 1 + i - 1 = i /\ i \in 1 .. Len(h)
      BY <1>1
    <3>2. q[i] = Texts(h)[i]
      BY <2>3, <3>1
    <3> QED  BY <1>2, <2>1, <2>5, <3>1, <3>2
  <2>7. q = Texts(b)
    BY <2>3, <2>4, <2>5, <2>6, SeqEqual
  <2> QED  BY <2>7 DEF q
<1> QED  BY <1>6, <1>7 DEF b

\* The variables of the ledger.
LTurns == [c \in Chats |-> IF c \in marked THEN <<>> ELSE Shown(LedgerHistory(c))]
LContext == [c \in Chats |-> IF c \in marked THEN <<>> ELSE LedgerContext(c)]
LSandbox == [c \in Chats |-> IF c \in marked THEN {} ELSE LedgerFiles(c)]

\* Of a Chat nobody deletes they say what its Turns and files are.
LEMMA LedgerValues ==
    ASSUME NEW c \in Chats, c \notin marked, ContextIsHistory
    PROVE  /\ LTurns[c] = Shown(LedgerHistory(c))
           /\ LContext[c] = Texts(LedgerHistory(c))
           /\ LSandbox[c] = LedgerFiles(c)
BY DEF LTurns, LContext, LSandbox, ContextIsHistory

LEMMA LedgerValuesNext ==
    ASSUME NEW c \in Chats, c \notin marked', ContextIsHistory'
    PROVE  /\ LTurns'[c] = Shown(LedgerHistory(c)')
           /\ LContext'[c] = Texts(LedgerHistory(c)')
           /\ LSandbox'[c] = LedgerFiles(c)'
BY DEF LTurns, LContext, LSandbox, ContextIsHistory, Texts, Shown

\* Only one Chat changes in the ledger.
LEMMA LedgerChanges ==
    ASSUME ContextIsHistory, ContextIsHistory', marked' = marked,
           NEW own \in Chats, own \notin marked,
           \A c \in Chats \ marked : c # own => SameLedger(c)
    PROVE  /\ LTurns' = [LTurns EXCEPT ![own] = Shown(LedgerHistory(own)')]
           /\ LContext' = [LContext EXCEPT ![own] = Texts(LedgerHistory(own)')]
           /\ LSandbox' = [LSandbox EXCEPT ![own] = LedgerFiles(own)']
<1>1. \A c \in Chats : c # own => LTurns'[c] = LTurns[c]
  BY DEF SameLedger, LTurns, Shown
<1>2. \A c \in Chats : c # own => LContext'[c] = LContext[c]
  BY DEF SameLedger, LContext, ContextIsHistory, Texts
<1>3. \A c \in Chats : c # own => LSandbox'[c] = LSandbox[c]
  BY DEF SameLedger, LSandbox
<1>4. /\ LTurns'[own] = Shown(LedgerHistory(own)')
      /\ LContext'[own] = Texts(LedgerHistory(own)')
      /\ LSandbox'[own] = LedgerFiles(own)'
  BY LedgerValuesNext
<1>5. LTurns' = [LTurns EXCEPT ![own] = Shown(LedgerHistory(own)')]
  BY <1>1, <1>4 DEF LTurns
<1>6. LContext' = [LContext EXCEPT ![own] = Texts(LedgerHistory(own)')]
  BY <1>2, <1>4 DEF LContext
<1>7. LSandbox' = [LSandbox EXCEPT ![own] = LedgerFiles(own)']
  BY <1>3, <1>4 DEF LSandbox
<1> QED  BY <1>5, <1>6, <1>7

LEMMA LedgerSubmits ==
    ASSUME ContextIsHistory, ContextIsHistory', marked' = marked,
           NEW own \in Chats, own \notin marked,
           \A c \in Chats \ marked : c # own => SameLedger(c),
           NEW h \in Seq(Turn), h = LedgerHistory(own), NEW turn \in Turn,
           LedgerHistory(own)' = Append(h, turn),
           LedgerFiles(own)' = LedgerFiles(own), turn.given = LedgerFiles(own),
           turn.id \notin Ids(h)
    PROVE  Ledger!Next
<1>1. /\ LTurns[own] = Shown(h) /\ LContext[own] = Texts(h)
      /\ LSandbox[own] = turn.given
  BY LedgerValues
<1>2. Shown(Append(h, turn)) = Append(Shown(h), Seen(turn))
  BY ShownOfAppend
<1>3. Texts(Append(h, turn)) = Append(Texts(h), turn.text)
  BY TextsOfAppend
<1>4. LTurns' = [LTurns EXCEPT ![own] = Append(LTurns[own], Seen(turn))]
  <2>1. LTurns' = [LTurns EXCEPT ![own] = Shown(LedgerHistory(own)')]
    BY LedgerChanges
  <2>2. Shown(LedgerHistory(own)') = Append(LTurns[own], Seen(turn))
    BY <1>1, <1>2
  <2> QED  BY <2>1, <2>2
<1>5. LContext' = [LContext EXCEPT ![own] = Append(LContext[own], turn.text)]
  <2>1. LContext' = [LContext EXCEPT ![own] = Texts(LedgerHistory(own)')]
    BY LedgerChanges
  <2>2. Texts(LedgerHistory(own)') = Append(LContext[own], turn.text)
    BY <1>1, <1>3
  <2> QED  BY <2>1, <2>2
<1>6. LSandbox' = LSandbox
  <2>1. LSandbox' = [LSandbox EXCEPT ![own] = LSandbox[own]]
    BY <1>1, LedgerChanges
  <2> QED  BY <2>1 DEF LSandbox
<1>7. Seen(turn) = [id |-> turn.id, text |-> turn.text, given |-> LSandbox[own]]
  BY <1>1 DEF Seen
<1>8. turn.id \notin Ledger!Ids(LTurns[own])
  <2>1. Ledger!Ids(Shown(h)) = Ids(h)
    BY DEF Ledger!Ids, Ids, Shown, Seen
  <2> QED  BY <1>1, <2>1
<1>9. turn.id \in TurnIds /\ turn.text \in Requests
  BY DEF Turn
<1>10. Ledger!Submit(own, turn.id, turn.text)
  BY <1>4, <1>5, <1>6, <1>7, <1>8
     DEF Ledger!Submit, LTurns, LContext, LSandbox, Shown
<1> QED  BY <1>9, <1>10 DEF Ledger!Next

LEMMA LedgerRevises ==
    ASSUME ContextIsHistory, ContextIsHistory', marked' = marked,
           NEW own \in Chats, own \notin marked,
           \A c \in Chats \ marked : c # own => SameLedger(c),
           NEW h \in Seq(Turn), h = LedgerHistory(own), NEW k \in 1 .. Len(h),
           NEW turn \in Turn, turn.before = h[k].before, turn.given = h[k].given,
           turn.id = h[k].id, NEW attached \in SUBSET Files,
           LedgerHistory(own)' = Revised(h, k, turn),
           LedgerFiles(own)' = h[k].given \cup attached
    PROVE  Ledger!Next
<1>1. LTurns[own] = Shown(h) /\ LContext[own] = Texts(h)
  BY LedgerValues
<1>2. /\ Len(h) \in Nat /\ k \in 1 .. Len(h) + 1 /\ DOMAIN Shown(h) = 1 .. Len(h)
      /\ Shown(h)[k] = Seen(h[k])
  BY ShownFacts
<1>3. Before(h, k) \in Seq(Turn)
  BY <1>2, BeforeFacts
<1>4. /\ Shown(Before(h, k)) = SubSeq(Shown(h), 1, k - 1)
      /\ Texts(Before(h, k)) = SubSeq(Texts(h), 1, k - 1)
  BY ShownOfBefore
<1>5. Shown(Revised(h, k, turn)) = Append(SubSeq(Shown(h), 1, k - 1), Seen(turn))
  <2>1. Shown(Append(Before(h, k), turn)) = Append(Shown(Before(h, k)), Seen(turn))
    BY <1>3, ShownOfAppend
  <2> QED  BY <1>4, <2>1 DEF Revised
<1>6. Texts(Revised(h, k, turn)) = Append(SubSeq(Texts(h), 1, k - 1), turn.text)
  <2>1. Texts(Append(Before(h, k), turn)) = Append(Texts(Before(h, k)), turn.text)
    BY <1>3, TextsOfAppend
  <2> QED  BY <1>4, <2>1 DEF Revised
<1>7. Seen(turn) = [LTurns[own][k] EXCEPT !.text = turn.text]
  BY <1>1, <1>2 DEF Seen
<1>8. LTurns' = [LTurns EXCEPT ![own] =
                   Append(SubSeq(LTurns[own], 1, k - 1),
                          [LTurns[own][k] EXCEPT !.text = turn.text])]
  <2>1. LTurns' = [LTurns EXCEPT ![own] = Shown(LedgerHistory(own)')]
    BY LedgerChanges
  <2>2. Shown(LedgerHistory(own)') = Append(SubSeq(LTurns[own], 1, k - 1), Seen(turn))
    BY <1>1, <1>5
  <2> QED  BY <1>7, <2>1, <2>2
<1>9. LContext' = [LContext EXCEPT ![own] =
                     Append(SubSeq(LContext[own], 1, k - 1), turn.text)]
  <2>1. LContext' = [LContext EXCEPT ![own] = Texts(LedgerHistory(own)')]
    BY LedgerChanges
  <2>2. Texts(LedgerHistory(own)') = Append(SubSeq(LContext[own], 1, k - 1), turn.text)
    BY <1>1, <1>6
  <2> QED  BY <2>1, <2>2
<1>10. LSandbox' = [LSandbox EXCEPT ![own] = LTurns[own][k].given \cup attached]
  <2>1. LTurns[own][k].given = h[k].given
    BY <1>1, <1>2 DEF Seen
  <2>2. LSandbox' = [LSandbox EXCEPT ![own] = LedgerFiles(own)']
    BY LedgerChanges
  <2> QED  BY <2>1, <2>2
<1>11. k \in DOMAIN LTurns[own] /\ turn.text \in Requests
  BY <1>1, <1>2 DEF Turn
<1>12. Ledger!Revise(own, k, turn.text, attached)
  BY <1>8, <1>9, <1>10, <1>11
     DEF Ledger!Revise, LTurns, LContext, LSandbox, Shown
<1>13. \E n \in DOMAIN LTurns[own], text \in Requests, some \in SUBSET Files :
         Ledger!Revise(own, n, text, some)
  BY <1>11, <1>12
<1> QED  BY <1>13 DEF Ledger!Next, LTurns, Shown

LEMMA LedgerAttaches ==
    ASSUME ContextIsHistory, ContextIsHistory', marked' = marked,
           NEW own \in Chats, own \notin marked, NEW f \in Files,
           \A c \in Chats \ marked : c # own => SameLedger(c),
           LedgerHistory(own)' = LedgerHistory(own),
           LedgerFiles(own)' = LedgerFiles(own) \cup {f}
    PROVE  Ledger!Next
<1>1. /\ LTurns[own] = Shown(LedgerHistory(own))
      /\ LContext[own] = Texts(LedgerHistory(own))
      /\ LSandbox[own] = LedgerFiles(own)
  BY LedgerValues
<1>2. LTurns' = LTurns
  <2>1. LTurns' = [LTurns EXCEPT ![own] = Shown(LedgerHistory(own)')]
    BY LedgerChanges
  <2>2. Shown(LedgerHistory(own)') = LTurns[own]
    BY <1>1
  <2> QED  BY <2>1, <2>2 DEF LTurns
<1>3. LContext' = LContext
  <2>1. LContext' = [LContext EXCEPT ![own] = Texts(LedgerHistory(own)')]
    BY LedgerChanges
  <2>2. Texts(LedgerHistory(own)') = LContext[own]
    BY <1>1
  <2> QED  BY <2>1, <2>2 DEF LContext
<1>4. LSandbox' = [LSandbox EXCEPT ![own] = LSandbox[own] \cup {f}]
  <2>1. LSandbox' = [LSandbox EXCEPT ![own] = LedgerFiles(own)']
    BY LedgerChanges
  <2> QED  BY <1>1, <2>1
<1>5. Ledger!Attach(own, f)
  BY <1>2, <1>3, <1>4 DEF Ledger!Attach, LTurns, LContext, LSandbox, Shown
<1> QED  BY <1>5 DEF Ledger!Next

LEMMA LedgerCloses ==
    ASSUME ContextIsHistory, ContextIsHistory',
           NEW own \in Chats, own \notin marked, marked' = marked \cup {own},
           \A c \in Chats \ marked : c # own => SameLedger(c)
    PROVE  Ledger!Next
<1>1. \A c \in Chats : c # own => LTurns'[c] = LTurns[c]
  BY DEF SameLedger, LTurns, Shown
<1>2. \A c \in Chats : c # own => LContext'[c] = LContext[c]
  BY DEF SameLedger, LContext, ContextIsHistory, Texts
<1>3. \A c \in Chats : c # own => LSandbox'[c] = LSandbox[c]
  BY DEF SameLedger, LSandbox
<1>4. /\ LTurns'[own] = <<>> /\ LContext'[own] = <<>> /\ LSandbox'[own] = {}
  BY DEF LTurns, LContext, LSandbox
<1>5. /\ LTurns' = [LTurns EXCEPT ![own] = <<>>]
      /\ LContext' = [LContext EXCEPT ![own] = <<>>]
      /\ LSandbox' = [LSandbox EXCEPT ![own] = {}]
  BY <1>1, <1>2, <1>3, <1>4 DEF LTurns, LContext, LSandbox
<1>6. Chats \ marked' = (Chats \ marked) \ {own}
  OBVIOUS
<1>7. Ledger!Close(own)
  BY <1>5, <1>6 DEF Ledger!Close, LTurns, LContext, LSandbox, Shown
<1> QED  BY <1>7 DEF Ledger!Next

\* A Chat that a step leaves alone, or that only its handler's locks protect.
LEMMA UntouchedLedger ==
    ASSUME IInv, NEW t \in Tasks, NEW c \in Chats, Untouched(c), chatLock[c] # t,
           \A u \in Tasks \ {t} : pc'[u] = pc[u] /\ job'[u] = job[u]
    PROVE  SameLedger(c)
<1>1. CASE chatLock[c] = NoTask
  BY <1>1 DEF SameLedger, LedgerHistory, LedgerFiles, InTurn, Untouched
<1>2. CASE chatLock[c] # NoTask
  <2>1. PICK u \in Tasks \ {t} : u = chatLock[c]
    BY <1>2 DEF IInv, TypeOK
  <2>2. chatLock'[c] = u /\ pc'[u] = pc[u] /\ job'[u] = job[u]
    BY <2>1 DEF Untouched
  <2> QED
    BY <2>1, <2>2 DEF SameLedger, LedgerHistory, LedgerFiles, InTurn, Untouched
<1> QED  BY <1>1, <1>2

LEMMA OtherLedger ==
    ASSUME IInv, NEW t \in Tasks, Alone(t), NEW c \in Chats, c # job[t].chat
    PROVE  SameLedger(c)
<1>1. chatLock[c] # t
  BY DEF IInv, LocksHeld
<1> QED
  BY <1>1, UntouchedLedger DEF Alone

\* A transaction goes on: the ledger keeps what it began with.
LEMMA StayLedger ==
    ASSUME IInv, IInv', NEW t \in Tasks,
           pc[t] \in TurnPcs \ {"snapshot"}, pc'[t] \in TurnPcs \ {"snapshot"},
           NEW own, own = job[t].chat, job'[t].chat = own,
           Entry(t)' = Entry(t), job'[t].kept = job[t].kept
    PROVE  SameLedger(own)
<1>1. chatLock[own] = t /\ own \in Chats /\ t # NoTask
  BY Holds, PcFacts, SentinelAssumption
<1>2. chatLock'[own] = t
  BY <1>1 DEF IInv, LocksHeld
<1> QED
  BY <1>1, <1>2 DEF SameLedger, LedgerHistory, LedgerFiles, InTurn, Entry

LEMMA TaskStutters ==
    ASSUME IInv, ContextIsHistory, ContextIsHistory', NEW t \in Tasks, Alone(t),
           marked' = marked, NEW own, own = job[t].chat,
           own \in marked \/ SameLedger(own)
    PROVE  UNCHANGED Ledger!vars
<1>1. \A c \in Chats \ marked : SameLedger(c)
  BY OtherLedger
<1> QED
  BY <1>1, LedgerStutters

\* Steps in a transaction that neither commit nor end it.
LEMMA InsideLedger ==
    ASSUME IInv, IInv', Gone, Content, NEW t \in Tasks,
           \/ Rewind(t) \/ RewindImpossible(t) \/ Rewound(t) \/ Attached(t)
           \/ StartRun(t) \/ RunFails(t) \/ ReplaceTurns(t) \/ HistoryFails(t)
           \/ ViewFails(t) \/ Rollback(t) \/ CancelTurn(t)
           \/ (pc[t] = "attaching" /\ (UploadRejected(t) \/ \E f \in Files : Upload(t, f))),
           NEW own, own = job[t].chat
    PROVE  SameLedger(own) /\ marked' = marked
<1>1. pc[t] \in TurnPcs \ {"snapshot"} /\ pc'[t] \in TurnPcs \ {"snapshot"}
  BY DEF Rewind, RewindImpossible, Rewound, Attached, StartRun, RunFails, ReplaceTurns,
         HistoryFails, ViewFails, Rollback, CancelTurn, UploadRejected, Upload, Answered,
         Goto, TurnPcs, IInv, TypeOK
<1>2. marked' = marked
  BY DEF Rewind, RewindImpossible, Rewound, Attached, StartRun, RunFails, ReplaceTurns,
         HistoryFails, ViewFails, Rollback, CancelTurn, UploadRejected, Upload, flags
<1>3. job[t] \in TurnJob
  BY <1>1, TurnLocals
<1>4. job'[t].chat = own /\ job'[t].kept = job[t].kept
  BY <1>3 DEF Rewind, RewindImpossible, Rewound, Attached, StartRun, RunFails,
              ReplaceTurns, HistoryFails, ViewFails, Rollback, CancelTurn,
              UploadRejected, Upload, TurnJob, IInv, TypeOK
<1>5. Entry(t)' = Entry(t)
  <2>1. CASE ReplaceTurns(t) \/ Rollback(t)
    BY <2>1, ReplaceContent, RollbackContent
  <2>2. CASE ~(ReplaceTurns(t) \/ Rollback(t))
    <3>1. history' = history
      BY <2>2 DEF Rewind, RewindImpossible, Rewound, Attached, StartRun, RunFails,
                  HistoryFails, ViewFails, CancelTurn, UploadRejected, Upload
    <3>2. /\ job'[t].at = job[t].at /\ job'[t].cont = job[t].cont
          /\ job'[t].replaced = job[t].replaced
      BY <1>3, <2>2 DEF Rewind, RewindImpossible, Rewound, Attached, StartRun, RunFails,
                        HistoryFails, ViewFails, CancelTurn, UploadRejected, Upload,
                        TurnJob, IInv, TypeOK
    <3> QED  BY <1>4, <3>1, <3>2 DEF Entry
  <2> QED  BY <2>1, <2>2
<1> QED
  BY <1>1, <1>2, <1>4, <1>5, StayLedger

\* Outside a transaction the ledger is the Chat's own history and documents.
LEMMA ClosedLedgerNext ==
    ASSUME NEW c, chatLock'[c] = NoTask
    PROVE  /\ LedgerHistory(c)' = history'[c]
           /\ LedgerFiles(c)' =
                IF restoring'[c] # None THEN Head(restoring'[c]) ELSE files'[c]
BY DEF LedgerHistory, LedgerFiles, InTurn

\* A handler that has only the lock of app.py is the only one in its Chat.
LEMMA NobodyInside ==
    ASSUME IInv, NEW t \in Tasks, pc[t] = "admitted"
    PROVE  job[t].chat \in Chats /\ chatLock[job[t].chat] = NoTask
<1>1. pc[t] \in ActivePcs /\ pc[t] \notin TurnPcs \cup DeletePcs
  BY PcFacts
<1>2. job[t].chat \in Chats
  BY <1>1, Holds
<1>3. SUFFICES ASSUME chatLock[job[t].chat] # NoTask PROVE FALSE
  BY <1>2
<1>4. PICK u \in Tasks : u = chatLock[job[t].chat]
  BY <1>2, <1>3 DEF IInv, TypeOK
<1>5. pc[u] \in TurnPcs \cup DeletePcs /\ job[u].chat = job[t].chat
  BY <1>2, <1>4 DEF IInv, LocksHeld
<1> QED
  BY <1>1, <1>5, PcFacts, Apart

\* Waiting for the Chat, being refused, or giving up while waiting.
LEMMA OutsideLedger ==
    ASSUME IInv, NEW t \in Tasks,
           \/ Admit(t) \/ Drop(t) \/ AdmitDelete(t) \/ Refuse(t)
           \/ (pc[t] # "attaching" /\ UploadRejected(t))
           \/ (pc[t] # "snapshot" /\ CancelEarly(t) /\ UNCHANGED files)
    PROVE  marked' = marked /\ \A c \in Chats : SameLedger(c)
<1>1. pc[t] \in {"queued", "admitted"}
  BY DEF Admit, Drop, AdmitDelete, Refuse, Ready, UploadRejected, Uploading, CancelEarly
<1>2. UNCHANGED <<history, memory, files, restoring, marked>>
  BY DEF Admit, Drop, AdmitDelete, Refuse, UploadRejected, CancelEarly, flags,
         agentState, sandbox
<1>3. chatLock' = chatLock
  <2>1. CASE Leave(t)
    BY <1>1, <2>1, LeaveLocks
  <2>2. CASE Admit(t) \/ AdmitDelete(t)
    BY <2>2 DEF Admit, AdmitDelete
  <2> QED
    BY <2>1, <2>2 DEF Drop, Refuse, UploadRejected, CancelEarly
<1>4. \A u \in Tasks \ {t} : pc'[u] = pc[u] /\ job'[u] = job[u]
  BY ServeAlone, StopAlone DEF Serve, Stop, Alone
<1>5. \A c \in Chats : chatLock[c] # t
  BY <1>1, PcFacts DEF IInv, LocksHeld
<1> QED
  BY <1>2, <1>3, <1>4, <1>5, UntouchedLedger DEF Untouched

\* A message attaches a document ahead of its Turn.
LEMMA AttachLedger ==
    ASSUME IInv, ContextIsHistory, ContextIsHistory', NEW t \in Tasks, Alone(t),
           pc[t] = "admitted", NEW own, own = job[t].chat,
           marked' = marked, history' = history, restoring' = restoring,
           chatLock' = chatLock, restoring[own] = None,
           NEW f \in Files, files' = [files EXCEPT ![own] = @ \cup {f}]
    PROVE  Ledger!Next \/ UNCHANGED Ledger!vars
<1>1. own \in Chats /\ chatLock[own] = NoTask
  BY NobodyInside
<1>2. files'[own] = files[own] \cup {f}
  BY <1>1 DEF IInv, TypeOK
<1>3. ~InTurn(own)
  BY <1>1 DEF InTurn
<1>4. LedgerHistory(own) = history[own] /\ LedgerFiles(own) = files[own]
  BY <1>3, ClosedLedger
<1>5. LedgerHistory(own)' = history'[own] /\ LedgerFiles(own)' = files'[own]
  BY <1>1, ClosedLedgerNext
<1>6. \A c \in Chats : c # own => SameLedger(c)
  BY OtherLedger
<1>7. CASE own \in marked
  BY <1>7, TaskStutters
<1>8. CASE own \notin marked
  <2>1. LedgerHistory(own)' = LedgerHistory(own)
    BY <1>4, <1>5
  <2>2. LedgerFiles(own)' = LedgerFiles(own) \cup {f}
    BY <1>2, <1>4, <1>5
  <2> QED
    BY <1>1, <1>6, <1>8, <2>1, <2>2, LedgerAttaches
<1> QED  BY <1>7, <1>8

\* The locks are taken and the rollback data captured: it has not happened yet.
LEMMA EnterLedger ==
    ASSUME IInv, IInv', Gone, Content, NEW t \in Tasks,
           EnterChat(t) \/ TakeSnapshot(t), NEW own, own = job[t].chat
    PROVE  SameLedger(own) /\ marked' = marked
<1>1. CASE EnterChat(t)
  <2>1. pc[t] = "admitted" /\ job[t] \in TurnJob /\ ~job[t].replaced /\ own \in Chats
    <3>1. pc[t] = "admitted"
      BY <1>1 DEF EnterChat, Ready
    <3>2. job[t] \in TurnJob
      BY <3>1 DEF IInv, Served
    <3> QED  BY <3>1, <3>2 DEF Content, Waiting, TurnJob
  <2>2. /\ UNCHANGED <<history, files, restoring, marked>>
        /\ pc'[t] = "snapshot" /\ chatLock'[own] = t
        /\ job'[t] = [job[t] EXCEPT !.context = Messages(own)]
    BY <1>1, <2>1 DEF EnterChat, flags, sandbox, IInv, TypeOK
  <2>3. ~job'[t].replaced /\ job'[t].chat = own
    BY <2>1, <2>2 DEF TurnJob
  <2>4. ~InTurn(own)
    BY <2>1, NobodyInside DEF InTurn
  <2>5. /\ LedgerHistory(own) = history[own]
        /\ LedgerFiles(own) =
             IF restoring[own] # None THEN Head(restoring[own]) ELSE files[own]
    BY <2>4, ClosedLedger
  <2>6. LedgerHistory(own)' = history[own]
    BY <2>2, <2>3 DEF LedgerHistory
  <2>7. LedgerFiles(own)' =
          IF restoring[own] # None THEN Head(restoring[own]) ELSE files[own]
    BY <2>2 DEF LedgerFiles
  <2> QED  BY <2>2, <2>5, <2>6, <2>7 DEF SameLedger
<1>2. CASE TakeSnapshot(t)
  <2>1. /\ pc[t] = "snapshot" /\ restoring[own] = None /\ pc[t] \in TurnPcs
        /\ job[t] \in TurnJob /\ own \in Chats /\ t # NoTask
    BY <1>2, TurnLocals, SentinelAssumption DEF TakeSnapshot, TurnPcs
  <2>2. /\ UNCHANGED <<history, files, restoring, marked, chatLock>>
        /\ pc'[t] \in {"starting", "ready"}
        /\ job'[t].kept = files[own] /\ job'[t].chat = own
        /\ job'[t].replaced = job[t].replaced
    BY <1>2, <2>1 DEF TakeSnapshot, Goto, flags, sandbox, TurnJob, IInv, TypeOK
  <2>3. chatLock[own] = t /\ OpenTurn(t) /\ ~job[t].replaced
    <3>1. pc[t] \in ActivePcs
      BY <2>1, PcFacts
    <3>2. OpenTurn(t)
      BY DEF Content
    <3> QED  BY <2>1, <3>1, <3>2, Holds DEF OpenTurn, Replaced
  <2>4. LedgerHistory(own) = history[own] /\ LedgerFiles(own) = files[own]
    BY <2>1, <2>3 DEF LedgerHistory, LedgerFiles
  <2>5. LedgerHistory(own)' = history[own]
    BY <2>2, <2>3 DEF LedgerHistory
  <2>6. LedgerFiles(own)' = files[own]
    <3>1. InTurn(own)'
      BY <2>1, <2>2, <2>3 DEF InTurn, TurnPcs
    <3> QED  BY <2>2, <2>3, <3>1 DEF LedgerFiles
  <2> QED  BY <2>2, <2>4, <2>5, <2>6 DEF SameLedger
<1> QED  BY <1>1, <1>2

\* A transaction that ends with nothing done: the Chat is, or a worker thread is
\* about to make it, what the rollback data say.
LEMMA EndLedger ==
    ASSUME ~FaultyFiles, IInv, Content, NEW t \in Tasks,
           \/ RolledBack(t) \/ CancelRollback(t)
           \/ (pc[t] = "snapshot" /\ CancelEarly(t)),
           NEW own, own = job[t].chat
    PROVE  SameLedger(own) /\ marked' = marked
<1>1. /\ pc[t] \in {"restoring", "snapshot"} /\ pc[t] \in TurnPcs /\ Leave(t)
      /\ UNCHANGED <<history, files, restoring, marked>>
  BY DEF RolledBack, CancelRollback, CancelEarly, Uploading, TurnPcs, flags, sandbox
<1>2. own \in Chats /\ OpenTurn(t) /\ pc[t] # "idle"
  BY <1>1, TurnLocals DEF Content
<1>3. chatLock'[own] = NoTask
  BY <1>1, <1>2, LeaveLocks
<1>4. LedgerHistory(own) = history[own]
  <2>1. LedgerHistory(own) = Entry(t)
    BY <1>1, OpenLedger
  <2>2. Entry(t) = history[own]
    BY <1>1, <1>2 DEF OpenTurn, Replaced, Entry
  <2> QED  BY <2>1, <2>2
<1>5. LedgerFiles(own) =
        IF restoring[own] # None THEN Head(restoring[own]) ELSE files[own]
  <2>1. CASE pc[t] = "snapshot"
    BY <1>1, <2>1, OpenLedger
  <2>2. CASE pc[t] = "restoring"
    <3>1. LedgerFiles(own) = job[t].kept
      BY <1>1, <2>2, OpenLedger
    <3>2. IF restoring[own] = None THEN files[own] = job[t].kept
          ELSE restoring[own] = <<job[t].kept>>
      BY <1>1, <1>2, <2>2 DEF OpenTurn, Provided
    <3> QED  BY <3>1, <3>2
  <2> QED  BY <1>1, <2>1, <2>2
<1> QED
  BY <1>1, <1>3, <1>4, <1>5, ClosedLedgerNext DEF SameLedger

\* submit: the Turn enters the ledger.
LEMMA CommitLedger ==
    ASSUME IInv, Content, ContextIsHistory, ContextIsHistory', NEW t \in Tasks,
           CommitTurn(t)
    PROVE  Ledger!Next \/ UNCHANGED Ledger!vars
<1>0. Alone(t)
  BY ServeAlone DEF Serve
<1>1. PICK own, h, turn : own = job[t].chat /\ h = history[own] /\ turn = NewTurn(t)
  OBVIOUS
<1>2. /\ pc[t] = "running" /\ pc[t] \in TurnPcs /\ job[t].kind = "message"
      /\ pc[t] # "idle" /\ Leave(t)
  BY DEF CommitTurn, Answered, TurnPcs
<1>3. /\ own \in Chats /\ h \in Seq(Turn) /\ turn \in Turn /\ OpenTurn(t)
      /\ turn.id = job[t].id /\ turn.given = job[t].kept
  BY <1>1, <1>2, TurnLocals, NewTurnIsTurn DEF NewTurn, Content
<1>4. /\ UNCHANGED <<files, restoring, marked>>
      /\ history'[own] = Append(h, turn)
  BY <1>1, <1>3 DEF CommitTurn, flags, sandbox, IInv, TypeOK
<1>5. chatLock'[own] = NoTask
  BY <1>1, <1>2, LeaveLocks
<1>6. LedgerHistory(own) = h /\ LedgerFiles(own) = turn.given
  <2>1. Entry(t) = history[own]
    BY <1>1, <1>2, <1>3, EntryOfMessage
  <2> QED  BY <1>1, <1>2, <1>3, <2>1, OpenLedger
<1>7. LedgerHistory(own)' = Append(h, turn)
  BY <1>4, <1>5, ClosedLedgerNext
<1>8. LedgerFiles(own)' = turn.given
  <2>1. restoring[own] = None
    BY <1>1, <1>2 DEF IInv, Quiet
  <2>2. files[own] = turn.given
    BY <1>1, <1>2, <1>3 DEF OpenTurn, Provided
  <2> QED  BY <1>4, <1>5, <2>1, <2>2, ClosedLedgerNext
<1>9. turn.id \notin Ids(h)
  <2>1. ~InUse(job[t].id)
    BY <1>2 DEF Content, NewId, IsMessage
  <2> QED  BY <1>1, <1>3, <2>1 DEF InUse
<1>10. \A c \in Chats : c # own => SameLedger(c)
  BY <1>0, <1>1, OtherLedger
<1>11. CASE own \in marked
  BY <1>0, <1>1, <1>4, <1>11, TaskStutters
<1>12. CASE own \notin marked
  BY <1>3, <1>4, <1>6, <1>7, <1>8, <1>9, <1>10, <1>12, LedgerSubmits
<1> QED  BY <1>11, <1>12

\* A history that ends with its k-th Turn.
LEMMA LastRevised ==
    ASSUME NEW h \in Seq(Turn), NEW k \in 1 .. Len(h), Len(h) = k
    PROVE  h = Revised(h, k, h[k])
<1>1. Len(h) \in Nat /\ k \in 1 .. Len(h) + 1
  BY LenProperties
<1>2. /\ Before(h, k) \in Seq(Turn) /\ Len(Before(h, k)) = k - 1
      /\ \A i \in 1 .. k - 1 : Before(h, k)[i] = h[i]
  BY <1>1, BeforeFacts
<1>3. h[k] \in Turn
  BY ElementOfSeq
<1>4. PICK b, turn : b = Before(h, k) /\ turn = h[k]
  OBVIOUS
<1>5. /\ Append(b, turn) \in Seq(Turn) /\ Len(Append(b, turn)) = k - 1 + 1
      /\ \A i \in 1 .. k - 1 : Append(b, turn)[i] = b[i]
      /\ Append(b, turn)[k - 1 + 1] = turn
  BY <1>2, <1>3, <1>4, AppendProperties
<1>6. k - 1 + 1 = k /\ \A i \in 1 .. k : i \in 1 .. k - 1 \/ i = k
  BY <1>1
<1>7. \A i \in 1 .. k : Append(b, turn)[i] = h[i]
  BY <1>2, <1>4, <1>5, <1>6
<1>8. Append(b, turn) = h
  BY <1>5, <1>6, <1>7, SeqEqual
<1> QED  BY <1>4, <1>8 DEF Revised

\* The UI continuation is committed: the Revision enters the ledger.
LEMMA RevisionLedger ==
    ASSUME IInv, Content, ContextIsHistory, ContextIsHistory', NEW t \in Tasks,
           CommitRevision(t)
    PROVE  Ledger!Next \/ UNCHANGED Ledger!vars
<1>0. Alone(t)
  BY ServeAlone DEF Serve
<1>1. PICK own, h, e, k : /\ own = job[t].chat /\ h = history[own]
                          /\ e = Entry(t) /\ k = job[t].at
  OBVIOUS
<1>2. /\ pc[t] = "view" /\ pc[t] \in TurnPcs /\ pc[t] # "idle" /\ Leave(t)
      /\ UNCHANGED <<history, files, restoring, marked>>
  BY DEF CommitRevision, TurnPcs, flags, sandbox
<1>3. own \in Chats /\ h \in Seq(Turn) /\ OpenTurn(t) /\ job[t] \in TurnJob
  BY <1>1, <1>2, TurnLocals DEF Content
<1>4. job[t].kind = "edit"
  BY <1>2 DEF IInv, Targets, Target, EditPcs
<1>5. /\ e \in Seq(Turn) /\ k \in 1 .. Len(h) /\ k \in 1 .. Len(e)
      /\ Before(e, k) = Before(h, k) /\ job[t].cont[1] = e[k]
  BY <1>1, <1>2, <1>3, <1>4, EditFacts
<1>6. Len(h) = k /\ h[k] = [e[k] EXCEPT !.text = job[t].text]
  BY <1>1, <1>2, <1>3, <1>5 DEF OpenTurn, Replaced
<1>7. PICK turn : turn = h[k]
  OBVIOUS
<1>8. /\ turn \in Turn /\ turn.id = e[k].id /\ turn.before = e[k].before
      /\ turn.given = e[k].given
  <2>1. h[k] \in Turn /\ e[k] \in Turn
    BY <1>3, <1>5, ElementOfSeq
  <2> QED  BY <1>6, <1>7, <2>1 DEF Turn
<1>9. h = Revised(e, k, turn)
  <2>1. h = Revised(h, k, h[k])
    BY <1>3, <1>5, <1>6, LastRevised
  <2> QED  BY <1>5, <1>7, <2>1 DEF Revised
<1>10. LedgerHistory(own) = e
  BY <1>1, <1>2, OpenLedger
<1>11. chatLock'[own] = NoTask
  BY <1>1, <1>2, LeaveLocks
<1>12. LedgerHistory(own)' = Revised(e, k, turn)
  BY <1>1, <1>2, <1>9, <1>11, ClosedLedgerNext
<1>13. job[t].uploads \in SUBSET Files
  BY <1>3 DEF TurnJob
<1>14. LedgerFiles(own)' = e[k].given \cup job[t].uploads
  <2>1. restoring[own] = None
    BY <1>1, <1>2 DEF IInv, Quiet
  <2>2. files[own] = h[k].given \cup job[t].uploads
    BY <1>1, <1>2, <1>3, <1>4 DEF OpenTurn, Provided
  <2> QED  BY <1>2, <1>7, <1>8, <1>11, <2>1, <2>2, ClosedLedgerNext
<1>15. \A c \in Chats : c # own => SameLedger(c)
  BY <1>0, <1>1, OtherLedger
<1>16. CASE own \in marked
  BY <1>0, <1>1, <1>2, <1>16, TaskStutters
<1>17. CASE own \notin marked
  BY <1>2, <1>3, <1>5, <1>8, <1>10, <1>12, <1>13, <1>14, <1>15, <1>17, LedgerRevises
<1> QED  BY <1>16, <1>17

\* A worker thread does what the ledger has long been told.
LEMMA WorkerLedger ==
    ASSUME ~FaultyFiles, NEW d \in Chats, Worker(d), NEW c \in Chats, TypeOK
    PROVE  SameLedger(c) /\ marked' = marked
<1>1. FilesRestored(d)
  BY DEF Worker, FilesNotRestored
<1>2. /\ UNCHANGED <<pc, job, chatLock, history, marked>> /\ restoring[d] # None
      /\ files' = [files EXCEPT ![d] = Head(restoring[d])]
      /\ restoring' = [restoring EXCEPT ![d] = None]
  BY <1>1 DEF FilesRestored, control, flags
<1>3. LedgerHistory(c)' = LedgerHistory(c)
  BY <1>2 DEF LedgerHistory, InTurn
<1>4. LedgerFiles(c)' = LedgerFiles(c)
  <2>1. CASE c = d
    <3>1. files'[c] = Head(restoring[c]) /\ restoring'[c] = None /\ restoring[c] # None
      BY <1>2, <2>1 DEF TypeOK
    <3> QED  BY <1>2, <3>1 DEF LedgerFiles, InTurn
  <2>2. CASE c # d
    <3>1. files'[c] = files[c] /\ restoring'[c] = restoring[c]
      BY <1>2, <2>2 DEF TypeOK
    <3> QED  BY <1>2, <3>1 DEF LedgerFiles, InTurn
  <2> QED  BY <2>1, <2>2
<1> QED  BY <1>2, <1>3, <1>4 DEF SameLedger

\* A request that arrives does nothing to a ledger, or closes it.
LEMMA ArriveLedger ==
    ASSUME IInv, ContextIsHistory, ContextIsHistory', NEW t \in Tasks, Arrive(t)
    PROVE  Ledger!Next \/ UNCHANGED Ledger!vars
<1>1. \A c \in Chats : SameLedger(c)
  <2> SUFFICES ASSUME NEW c \in Chats PROVE SameLedger(c)
    OBVIOUS
  <2>1. /\ pc[t] = "idle" /\ \A u \in Tasks \ {t} : pc'[u] = pc[u] /\ job'[u] = job[u]
        /\ Untouched(c)
    BY ArriveAlone
  <2>2. chatLock[c] # t
    BY <2>1, PcFacts DEF IInv, LocksHeld
  <2> QED  BY <2>1, <2>2, UntouchedLedger
<1>2. marked' = marked \/ \E c \in Chats : marked' = marked \cup {c}
  BY DEF Arrive, ReceiveMessage, ReceiveEdit, ReceiveDelete, flags
<1>3. CASE marked' = marked
  BY <1>1, <1>3, LedgerStutters
<1>4. CASE marked' # marked
  <2>1. PICK c \in Chats : marked' = marked \cup {c} /\ c \notin marked
    BY <1>2, <1>4
  <2> QED  BY <1>1, <2>1, LedgerCloses
<1> QED  BY <1>3, <1>4

\* The step of a handler is a step of the ledger or none.
LEMMA ServeLedger ==
    ASSUME ~FaultyFiles, IInv, IInv', Gone, Content, ContextIsHistory,
           ContextIsHistory', NEW t \in Tasks, Serve(t)
    PROVE  Ledger!Next \/ UNCHANGED Ledger!vars
<1>0. Alone(t)
  BY ServeAlone
<1>1. PICK own : own = job[t].chat
  OBVIOUS
<1>2. CASE Admit(t) \/ Drop(t) \/ AdmitDelete(t) \/ Refuse(t)
  BY <1>2, OutsideLedger, LedgerStutters
<1>3. CASE \E f \in Files : Upload(t, f)
  <2>1. PICK f \in Files : Upload(t, f)
    BY <1>3
  <2>2. CASE pc[t] = "attaching"
    BY <1>0, <1>1, <2>1, <2>2, InsideLedger, TaskStutters
  <2>3. CASE pc[t] = "admitted"
    BY <1>0, <1>1, <2>1, <2>3, AttachLedger DEF Upload, flags
  <2> QED  BY <2>1, <2>2, <2>3 DEF Upload, Uploading
<1>4. CASE UploadRejected(t)
  <2>1. CASE pc[t] = "attaching"
    BY <1>0, <1>1, <1>4, <2>1, InsideLedger, TaskStutters
  <2>2. CASE pc[t] # "attaching"
    BY <1>4, <2>2, OutsideLedger, LedgerStutters
  <2> QED  BY <2>1, <2>2
<1>5. CASE EnterChat(t) \/ TakeSnapshot(t)
  BY <1>0, <1>1, <1>5, EnterLedger, TaskStutters
<1>6. CASE \/ Rewind(t) \/ RewindImpossible(t) \/ Rewound(t) \/ Attached(t)
           \/ StartRun(t) \/ RunFails(t) \/ ReplaceTurns(t) \/ HistoryFails(t)
           \/ ViewFails(t) \/ Rollback(t)
  <2>1. SameLedger(own) /\ marked' = marked
    BY <1>1, <1>6, InsideLedger
  <2> QED  BY <1>0, <1>1, <2>1, TaskStutters
<1>7. CASE CommitTurn(t)
  BY <1>7, CommitLedger
<1>8. CASE CommitRevision(t)
  BY <1>8, RevisionLedger
<1>9. CASE RolledBack(t)
  BY <1>0, <1>1, <1>9, EndLedger, TaskStutters
<1>10. CASE \/ DeleteContext(t) \/ DeleteFiles(t) \/ DeleteFilesFails(t)
            \/ DeleteHistory(t)
  <2>1. pc[t] \in DeletePcs \cup {"closing"} /\ marked' = marked
    BY <1>10 DEF DeleteContext, DeleteFiles, DeleteFilesFails, DeleteHistory,
                 DeletePcs, flags
  <2>2. own \in marked
    BY <1>1, <2>1 DEF Gone
  <2> QED  BY <1>0, <1>1, <2>1, <2>2, TaskStutters
<1> QED
  BY <1>2, <1>3, <1>4, <1>5, <1>6, <1>7, <1>8, <1>9, <1>10 DEF Serve

LEMMA StopLedger ==
    ASSUME ~FaultyFiles, IInv, IInv', Gone, Content, ContextIsHistory,
           ContextIsHistory', NEW t \in Tasks, Stop(t)
    PROVE  Ledger!Next \/ UNCHANGED Ledger!vars
<1>0. Alone(t)
  BY StopAlone
<1>1. PICK own : own = job[t].chat
  OBVIOUS
<1>2. CASE CancelEarly(t)
  <2>1. CASE pc[t] = "snapshot"
    BY <1>0, <1>1, <1>2, <2>1, EndLedger, TaskStutters
  <2>2. CASE pc[t] # "snapshot" /\ UNCHANGED files
    BY <1>2, <2>2, OutsideLedger, LedgerStutters
  <2>3. CASE pc[t] # "snapshot" /\ ~UNCHANGED files
    <3>1. /\ pc[t] = "admitted" /\ restoring[own] = None /\ Leave(t)
          /\ UNCHANGED <<history, restoring, marked>> /\ job[t].kind = "message"
          /\ \E f \in job[t].pending : files' = [files EXCEPT ![own] = @ \cup {f}]
      BY <1>1, <1>2, <2>3 DEF CancelEarly, Uploading, flags
    <3>2. chatLock' = chatLock
      BY <3>1, LeaveLocks
    <3>3. job[t].pending \subseteq Files
      BY <3>1 DEF IInv, Served, TurnJob
    <3>4. PICK f \in Files : files' = [files EXCEPT ![own] = @ \cup {f}]
      BY <3>1, <3>3
    <3> QED  BY <1>0, <1>1, <3>1, <3>2, <3>4, AttachLedger
  <2> QED  BY <2>1, <2>2, <2>3
<1>3. CASE CancelTurn(t)
  BY <1>0, <1>1, <1>3, InsideLedger, TaskStutters
<1>4. CASE CancelRollback(t)
  BY <1>0, <1>1, <1>4, EndLedger, TaskStutters
<1> QED  BY <1>2, <1>3, <1>4 DEF Stop

LEMMA StepLedger ==
    ASSUME ~FaultyFiles, IInv, IInv', Gone, Content, ContextIsHistory,
           ContextIsHistory', [Next]_vars
    PROVE  Ledger!Next \/ UNCHANGED Ledger!vars
<1>1. CASE \E t \in Tasks : Arrive(t)
  BY <1>1, ArriveLedger
<1>2. CASE \E t \in Tasks : Serve(t)
  BY <1>2, ServeLedger
<1>3. CASE \E t \in Tasks : Stop(t)
  BY <1>3, StopLedger
<1>4. CASE \E c \in Chats : Worker(c)
  <2>1. (\A c \in Chats : SameLedger(c)) /\ marked' = marked
    BY <1>4, WorkerLedger DEF IInv
  <2> QED  BY <2>1, LedgerStutters
<1>5. CASE UNCHANGED vars
  <2>1. (\A c \in Chats : SameLedger(c)) /\ marked' = marked
    BY <1>5 DEF vars, control, flags, sandbox, SameLedger, LedgerHistory, LedgerFiles,
                InTurn
  <2> QED  BY <2>1, LedgerStutters
<1> QED  BY <1>1, <1>2, <1>3, <1>4, <1>5 DEF Next

\* What the ledger shows of the rows of an older version.
LEMMA ShownOfImported ==
    ASSUME NEW rows, NEW h, h = [k \in DOMAIN rows |-> ImportedTurn(rows[k])]
    PROVE  /\ Shown(h) = [k \in DOMAIN rows |->
                             [id |-> rows[k].id, text |-> rows[k].text, given |-> {}]]
           /\ Texts(h) = [k \in DOMAIN rows |-> rows[k].text]
<1>1. DOMAIN h = DOMAIN rows
  OBVIOUS
<1>2. ASSUME NEW k \in DOMAIN rows
      PROVE  /\ h[k].text = rows[k].text
             /\ Seen(h[k]) = [id |-> rows[k].id, text |-> rows[k].text, given |-> {}]
  BY DEF Seen, ImportedTurn
<1>3. Texts(h) = [k \in DOMAIN rows |-> rows[k].text]
  BY <1>1, <1>2 DEF Texts
<1>4. Shown(h) = [k \in DOMAIN rows |-> Seen(h[k])]
  BY <1>1 DEF Shown
<1>5. [k \in DOMAIN rows |-> Seen(h[k])] =
        [k \in DOMAIN rows |-> [id |-> rows[k].id, text |-> rows[k].text, given |-> {}]]
  BY <1>2, Zenon
<1> QED  BY <1>3, <1>4, <1>5

\* The Turns of an older version are in the ledger from the start.
LEMMA InitLedger == Init => Ledger!Init
<1> SUFFICES ASSUME Init PROVE Ledger!Init
  OBVIOUS
<1>1. marked = {} /\ Chats \ marked = Chats
  BY DEF Init
<1>2. ASSUME NEW c \in Chats
      PROVE  /\ ~InTurn(c) /\ restoring[c] = None /\ files[c] = {} /\ memory[c] = None
             /\ history[c] = [k \in DOMAIN Imported[c] |-> ImportedTurn(Imported[c][k])]
  BY DEF Init, InTurn
<1>3. ASSUME NEW c \in Chats
      PROVE  /\ LedgerHistory(c) = history[c] /\ LedgerContext(c) = Messages(c)
             /\ LedgerFiles(c) = {} /\ c \notin marked
  BY <1>1, <1>2, ClosedLedger
<1>4. ASSUME NEW c \in Chats
      PROVE  Shown(LedgerHistory(c)) =
               [k \in DOMAIN Imported[c] |->
                  [id |-> Imported[c][k].id, text |-> Imported[c][k].text, given |-> {}]]
  <2>1. PICK rows, h : rows = Imported[c] /\ h = history[c]
    OBVIOUS
  <2>2. h = [k \in DOMAIN rows |-> ImportedTurn(rows[k])]
    BY <1>2, <2>1
  <2>3. Shown(h) = [k \in DOMAIN rows |->
                      [id |-> rows[k].id, text |-> rows[k].text, given |-> {}]]
    BY <2>2, ShownOfImported
  <2>4. Shown(LedgerHistory(c)) = Shown(h)
    BY <1>3, <2>1
  <2> QED  BY <2>1, <2>3, <2>4
<1>5. ASSUME NEW c \in Chats
      PROVE  LedgerContext(c) = [k \in DOMAIN Imported[c] |-> Imported[c][k].text]
  <2>1. LedgerContext(c) = Texts(history[c])
    BY <1>2, <1>3 DEF Messages
  <2>2. Texts(history[c]) = [k \in DOMAIN Imported[c] |-> Imported[c][k].text]
    BY <1>2, ShownOfImported
  <2> QED  BY <2>1, <2>2
<1>6. LTurns = [c \in Chats |->
                 [k \in DOMAIN Imported[c] |->
                    [id |-> Imported[c][k].id, text |-> Imported[c][k].text, given |-> {}]]]
  BY <1>3, <1>4 DEF LTurns
<1>7. LContext = [c \in Chats |-> [k \in DOMAIN Imported[c] |-> Imported[c][k].text]]
  BY <1>3, <1>5 DEF LContext
<1>8. LSandbox = [c \in Chats |-> {}]
  BY <1>3 DEF LSandbox
<1> QED
  BY <1>1, <1>6, <1>7, <1>8 DEF Ledger!Init, Ledger!Texts, LTurns, LContext, LSandbox, Shown

\* Every behaviour of ChatRuntime in which the file operations do not fail is one
\* of TurnLedger: a Turn or Revision takes effect in one step with all its parts,
\* or not at all, whatever is stopped, refused, rolled back or deleted.
THEOREM TurnsAreAtomic == ASSUME ~FaultyFiles PROVE Spec => ImplementsLedger
<1> DEFINE Good == IInv /\ Gone /\ Content /\ ContextIsHistory
<1>1. Spec => []Good
  <2>1. IInv /\ Gone /\ Content => Good
    BY ContextOfLedger
  <2> QED  BY <2>1, ContentInductive, PTL
<1>2. Good /\ Good' /\ [Next]_vars => [Ledger!Next]_(Ledger!vars)
  BY StepLedger
<1> QED
  BY <1>1, <1>2, InitLedger, PTL DEF Spec, ImplementsLedger, Ledger!Spec
=============================================================================
