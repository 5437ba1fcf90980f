----------------------- MODULE EditTransactionProofs -----------------------
(***************************************************************************)
(* Proofs about EditTransaction for any messages, outputs and texts, and   *)
(* any number of requests.                                                 *)
(*                                                                         *)
(* OrderInv holds whatever a Stop or a crash interrupts: the rows of the   *)
(* timeline and of every archive have one order.                           *)
(***************************************************************************)
EXTENDS EditTransaction, SequenceTheorems, WellFoundedInduction, TLAPS

(* The rows of a timeline. *)

Distinct(s) == \A i, j \in DOMAIN s : i # j => s[i].order # s[j].order

Bounded(s) == \E n \in Nat : \A i \in DOMAIN s : s[i].order <= n

\* What an archive holds: the rows of a timeline from its root on.
IsEnd(old, root) ==
    /\ root \in DOMAIN old.steps
    /\ Distinct(old.steps)
    /\ \A i \in DOMAIN old.steps : old.steps[i].order >= old.steps[root].order
    /\ old.elements \subseteq DOMAIN old.steps

Ordered ==
    /\ HistoryTypeOK
    /\ Distinct(steps) /\ Bounded(steps)
    /\ elements \subseteq DOMAIN steps
    /\ \A r \in DOMAIN archive : IsEnd(archive[r], r) /\ Bounded(archive[r].steps)

Editing == pc # "idle" /\ job.kind = "edit"

Served ==
    /\ pc = "sent" => job.kind = "message"
    /\ pc \in {"staging", "opening", "restoring", "undoing", "committing", "cleaning"} =>
         job.kind = "edit"
    /\ Editing /\ pc \in {"staging", "opening", "running"} =>
         turns = job.was.turns /\ HasTurn(job.id)
    /\ pc \notin {"running", "entering", "draining", "failing"} => writes = NoWrites

OrderInv == TypeOK /\ Ordered /\ Served
-----------------------------------------------------------------------------
(* Orders.  A bounded set of orders has a largest one: the smallest bound. *)

LEMMA SmallestBound ==
    ASSUME NEW B \in SUBSET Nat, B # {}
    PROVE  \E m \in B : \A n \in B : m <= n
<1>1. \E m \in B : \A n \in B : ~(<<n, m>> \in OpToRel(<, Nat))
    BY NatLessThanWellFounded, WFMin
<1>2. \A m, n \in Nat : <<n, m>> \in OpToRel(<, Nat) <=> n < m
    BY DEF OpToRel
<1>3. \A m, n \in Nat : ~(n < m) => m <= n
    OBVIOUS
<1> QED BY <1>1, <1>2, <1>3

LEMMA NextOrderIsLast ==
    ASSUME NEW s, IsTimeline(s), Bounded(s)
    PROVE  /\ NextOrder(s) \in Nat \ {0}
           /\ \A i \in DOMAIN s : s[i].order < NextOrder(s)
<1> DEFINE B == {n \in Nat : \A i \in DOMAIN s : s[i].order <= n}
           O == {0} \cup {s[i].order : i \in DOMAIN s}
<1>1. \A i \in DOMAIN s : s[i].order \in Nat \ {0}
    BY DEF IsTimeline, Row
<1>2. B \in SUBSET Nat /\ B # {}
    BY DEF Bounded
<1>3. PICK m \in B : \A n \in B : m <= n
    BY <1>2, SmallestBound
<1>4. m \in Nat /\ \A i \in DOMAIN s : s[i].order <= m
    BY <1>3
<1>5. m \in O
    <2>1. CASE m = 0 BY <2>1
    <2>2. CASE m # 0
        <3>1. m - 1 \in Nat /\ ~(m <= m - 1)
            BY <1>4, <2>2
        <3>2. m - 1 \notin B
            BY <1>3, <3>1
        <3>3. PICK i \in DOMAIN s : ~(s[i].order <= m - 1)
            BY <3>1, <3>2
        <3>4. s[i].order = m
            BY <1>1, <1>4, <3>3
        <3> QED BY <3>3, <3>4
    <2> QED BY <2>1, <2>2
<1> HIDE DEF B
<1>6. \E n \in O : \A i \in DOMAIN s : s[i].order <= n
    BY <1>4, <1>5
<1>7. PICK c : c = CHOOSE n \in O : \A i \in DOMAIN s : s[i].order <= n
    OBVIOUS
<1>8. c \in O /\ \A i \in DOMAIN s : s[i].order <= c
    BY <1>6, <1>7
<1>9. c \in Nat
    BY <1>1, <1>8
<1>10. NextOrder(s) = 1 + c
    BY <1>7 DEF NextOrder
<1> QED BY <1>1, <1>8, <1>9, <1>10

\* A write turns the rows s into t: it changes one row's text, or adds one row
\* after the others.
Written(s, id, text, t) ==
    /\ DOMAIN t = DOMAIN s \cup {id}
    /\ \A i \in DOMAIN s : t[i].order = s[i].order
    /\ \A i \in DOMAIN s : i # id => t[i] = s[i]
    /\ t[id].text = text
    /\ id \notin DOMAIN s => \A i \in DOMAIN s : t[i].order < t[id].order

LEMMA UpsertedRows ==
    ASSUME NEW s, IsTimeline(s), Bounded(s), NEW id \in StepIds, NEW text \in Texts,
           NEW t, t = Upserted(s, id, text)
    PROVE  IsTimeline(t) /\ Written(s, id, text, t)
<1> DEFINE n == NextOrder(s)
<1>1. n \in Nat \ {0} /\ \A i \in DOMAIN s : s[i].order < n
    BY NextOrderIsLast
<1> HIDE DEF n
<1>2. t = [i \in DOMAIN s \cup {id} |->
              IF i # id THEN s[i]
              ELSE [order |-> IF id \in DOMAIN s THEN s[id].order ELSE n, text |-> text]]
    BY DEF Upserted, n
<1>3. DOMAIN s \subseteq StepIds /\ \A i \in DOMAIN s : s[i] \in Row
    BY DEF IsTimeline
<1>4. /\ DOMAIN t = DOMAIN s \cup {id}
      /\ \A i \in DOMAIN s : i # id => t[i] = s[i]
      /\ t[id] = [order |-> IF id \in DOMAIN s THEN s[id].order ELSE n, text |-> text]
    BY <1>2
<1>5. \A i \in DOMAIN s : s[i].order \in Nat \ {0}
    BY <1>3 DEF Row
<1>6. t[id] \in Row
    BY <1>1, <1>4, <1>5 DEF Row
<1>7. IsTimeline(t)
    BY <1>2, <1>3, <1>4, <1>6 DEF IsTimeline
<1> QED BY <1>1, <1>4, <1>5, <1>7 DEF Written

LEMMA UpsertedOrdered ==
    ASSUME NEW s, IsTimeline(s), Bounded(s), Distinct(s),
           NEW id \in StepIds, NEW text \in Texts,
           NEW t, t = Upserted(s, id, text)
    PROVE  IsTimeline(t) /\ Distinct(t) /\ Bounded(t)
<1>1. /\ IsTimeline(t)
      /\ DOMAIN t = DOMAIN s \cup {id}
      /\ \A i \in DOMAIN s : t[i].order = s[i].order
      /\ id \notin DOMAIN s => \A i \in DOMAIN s : t[i].order < t[id].order
    BY UpsertedRows DEF Written
<1>2. \A i \in DOMAIN s : s[i].order \in Nat
    BY DEF IsTimeline, Row
<1>3. \A i \in DOMAIN t : t[i].order \in Nat
    BY <1>1 DEF IsTimeline, Row
<1>4. Distinct(t)
    <2> SUFFICES ASSUME NEW i \in DOMAIN t, NEW j \in DOMAIN t, i # j
                 PROVE  t[i].order # t[j].order
        BY DEF Distinct
    <2>1. CASE i \in DOMAIN s /\ j \in DOMAIN s BY <1>1, <2>1 DEF Distinct
    <2>2. CASE i \in DOMAIN s /\ j \notin DOMAIN s BY <1>1, <1>3, <2>2
    <2>3. CASE i \notin DOMAIN s /\ j \in DOMAIN s BY <1>1, <1>3, <2>3
    <2> QED BY <1>1, <2>1, <2>2, <2>3
<1>5. Bounded(t)
    <2>1. PICK n \in Nat : \A i \in DOMAIN s : s[i].order <= n
        BY DEF Bounded
    <2>2. t[id].order \in Nat
        BY <1>1, <1>3
    <2>3. PICK k \in Nat : n <= k /\ t[id].order <= k
        <3>1. CASE n <= t[id].order BY <2>2, <3>1
        <3>2. CASE t[id].order <= n BY <2>1, <3>2
        <3> QED BY <2>1, <2>2, <3>1, <3>2
    <2>4. \A i \in DOMAIN s : t[i].order <= k
        BY <1>1, <1>2, <2>1, <2>3
    <2> QED BY <1>1, <2>3, <2>4 DEF Bounded
<1> QED BY <1>1, <1>4, <1>5

\* Part of a timeline is one.
LEMMA PartOrdered ==
    ASSUME NEW s, IsTimeline(s), NEW ids, NEW t, t = [i \in ids |-> s[i]],
           ids \subseteq DOMAIN s
    PROVE  /\ IsTimeline(t)
           /\ Distinct(s) => Distinct(t)
           /\ Bounded(s) => Bounded(t)
<1>1. DOMAIN t = ids /\ \A i \in ids : t[i] = s[i]
    OBVIOUS
<1>2. IsTimeline(t)
    BY <1>1 DEF IsTimeline
<1>3. Distinct(s) => Distinct(t)
    BY <1>1 DEF Distinct
<1>4. Bounded(s) => Bounded(t)
    BY <1>1 DEF Bounded
<1> QED BY <1>2, <1>3, <1>4

\* The rows of two timelines, of which one comes after the other.
LEMMA JoinOrdered ==
    ASSUME NEW s, IsTimeline(s), Distinct(s), Bounded(s),
           NEW old, IsTimeline(old), Distinct(old), Bounded(old),
           NEW n \in Nat,
           \A i \in DOMAIN s : s[i].order < n,
           \A i \in DOMAIN old : old[i].order >= n,
           NEW t, t = [i \in DOMAIN s \cup DOMAIN old |->
                         IF i \in DOMAIN old THEN old[i] ELSE s[i]]
    PROVE  IsTimeline(t) /\ Distinct(t) /\ Bounded(t)
<1>1. /\ DOMAIN t = DOMAIN s \cup DOMAIN old
      /\ \A i \in DOMAIN old : t[i] = old[i]
      /\ \A i \in DOMAIN s : i \notin DOMAIN old => t[i] = s[i]
    OBVIOUS
<1>2. /\ \A i \in DOMAIN s : s[i] \in Row /\ s[i].order \in Nat
      /\ \A i \in DOMAIN old : old[i] \in Row /\ old[i].order \in Nat
    BY DEF IsTimeline, Row
<1>3. IsTimeline(t)
    BY <1>1, <1>2 DEF IsTimeline
<1>4. Distinct(t)
    <2> SUFFICES ASSUME NEW i \in DOMAIN t, NEW j \in DOMAIN t, i # j
                 PROVE  t[i].order # t[j].order
        BY DEF Distinct
    <2>1. CASE i \in DOMAIN old /\ j \in DOMAIN old
        BY <1>1, <2>1 DEF Distinct
    <2>2. CASE i \in DOMAIN old /\ j \notin DOMAIN old
        <3>1. t[i].order = old[i].order /\ t[j].order = s[j].order /\ j \in DOMAIN s
            BY <1>1, <2>2
        <3> QED BY <1>2, <2>2, <3>1
    <2>3. CASE i \notin DOMAIN old /\ j \in DOMAIN old
        <3>1. t[i].order = s[i].order /\ t[j].order = old[j].order /\ i \in DOMAIN s
            BY <1>1, <2>3
        <3> QED BY <1>2, <2>3, <3>1
    <2>4. CASE i \notin DOMAIN old /\ j \notin DOMAIN old
        BY <1>1, <2>4 DEF Distinct
    <2> QED BY <2>1, <2>2, <2>3, <2>4
<1>5. Bounded(t)
    <2>1. PICK k \in Nat : \A i \in DOMAIN old : old[i].order <= k
        BY DEF Bounded
    <2>2. k + n \in Nat
        BY <2>1
    <2>3. \A i \in DOMAIN old : t[i].order <= k + n
        BY <1>1, <1>2, <2>1
    <2>4. \A i \in DOMAIN s : i \notin DOMAIN old => t[i].order <= k + n
        BY <1>1, <1>2, <2>1
    <2> QED BY <1>1, <2>2, <2>3, <2>4 DEF Bounded
<1> QED BY <1>3, <1>4, <1>5
-----------------------------------------------------------------------------
(* Every transaction of the data layer keeps the timeline ordered.         *)

LEMMA UnchangedOrdered == ASSUME Ordered, UNCHANGED timeline PROVE Ordered'
<1>1. steps' = steps /\ elements' = elements /\ blobs' = blobs /\ archive' = archive
    BY DEF timeline
<1> QED BY <1>1 DEF Ordered, HistoryTypeOK

LEMMA WriteOrdered ==
    ASSUME Ordered, NEW id \in StepIds, NEW text \in Texts, WriteStep(id, text)
    PROVE  Ordered'
<1>1. steps' = Upserted(steps, id, text) /\ UNCHANGED <<elements, blobs, archive>>
    BY DEF WriteStep
<1>2. IsTimeline(steps) /\ Distinct(steps) /\ Bounded(steps)
    BY DEF Ordered, HistoryTypeOK
<1>3. IsTimeline(steps') /\ Distinct(steps') /\ Bounded(steps')
    BY <1>1, <1>2, UpsertedOrdered
<1>4. DOMAIN steps' = DOMAIN steps \cup {id}
    BY <1>1, <1>2, UpsertedRows DEF Written
<1> QED BY <1>1, <1>3, <1>4 DEF Ordered, HistoryTypeOK

LEMMA StoreOrdered ==
    ASSUME Ordered, NEW id \in Messages, NEW text \in Texts,
           NEW attached \in SUBSET {id}, StoreMessage(id, text, attached)
    PROVE  Ordered' /\ id \in DOMAIN steps'
<1>1. steps' = Upserted(steps, id, text) /\ UNCHANGED archive
    BY DEF StoreMessage
<1>2. IsTimeline(steps) /\ Distinct(steps) /\ Bounded(steps)
    BY DEF Ordered, HistoryTypeOK
<1>3. id \in StepIds
    BY DEF StepIds
<1>4. IsTimeline(steps') /\ Distinct(steps') /\ Bounded(steps')
    BY <1>1, <1>2, <1>3, UpsertedOrdered
<1>5. DOMAIN steps' = DOMAIN steps \cup {id}
    BY <1>1, <1>2, <1>3, UpsertedRows DEF Written
<1>6. elements' \subseteq Messages /\ elements' \subseteq DOMAIN steps'
      /\ blobs' \subseteq Messages
    BY <1>5 DEF StoreMessage, Ordered, HistoryTypeOK
<1> QED BY <1>1, <1>4, <1>5, <1>6 DEF Ordered, HistoryTypeOK

\* What an edit would archive.
End(id) == [steps |-> Only(steps, From(steps, steps[id].order)),
            elements |-> elements \cap From(steps, steps[id].order)]

LEMMA EndOrdered ==
    ASSUME Ordered, NEW id \in DOMAIN steps, NEW old, old = End(id)
    PROVE  /\ IsEnd(old, id) /\ Bounded(old.steps)
           /\ IsTimeline(old.steps) /\ old.elements \subseteq Messages
<1> DEFINE n == steps[id].order
<1>1. IsTimeline(steps) /\ Distinct(steps) /\ Bounded(steps) /\ elements \subseteq DOMAIN steps
    BY DEF Ordered, HistoryTypeOK
<1>2. \A i \in DOMAIN steps : steps[i].order \in Nat
    BY <1>1 DEF IsTimeline, Row
<1>3. From(steps, n) \subseteq DOMAIN steps
    BY DEF From
<1>4. old.steps = [i \in From(steps, n) |-> steps[i]] /\ old.elements = elements \cap From(steps, n)
    BY <1>3 DEF End, Only
<1>5. IsTimeline(old.steps) /\ Distinct(old.steps) /\ Bounded(old.steps)
    BY <1>1, <1>3, <1>4, PartOrdered
<1>6. DOMAIN old.steps = From(steps, n) /\ \A i \in From(steps, n) : old.steps[i] = steps[i]
    BY <1>4
<1>7. id \in From(steps, n)
    BY <1>2 DEF From
<1>8. \A i \in DOMAIN old.steps : old.steps[i].order >= old.steps[id].order
    BY <1>6, <1>7 DEF From
<1>9. old.elements \subseteq DOMAIN old.steps /\ old.elements \subseteq Messages
    BY <1>4, <1>6 DEF Ordered, HistoryTypeOK
<1> QED BY <1>5, <1>6, <1>7, <1>8, <1>9 DEF IsEnd

LEMMA UpdateOrdered ==
    ASSUME Ordered, NEW id \in Messages, NEW text \in Texts, UpdateMessage(id, text)
    PROVE  /\ Ordered'
           /\ DOMAIN archive' \subseteq DOMAIN archive \cup {id}
           /\ id \in DOMAIN steps /\ steps[id].text # text =>
                /\ DOMAIN archive' = DOMAIN archive \cup {id}
                /\ id \notin DOMAIN archive => archive'[id] = End(id)
<1>1. steps' = Upserted(steps, id, text) /\ UNCHANGED <<elements, blobs>>
    BY DEF UpdateMessage
<1>2. IsTimeline(steps) /\ Distinct(steps) /\ Bounded(steps)
    BY DEF Ordered, HistoryTypeOK
<1>3. id \in StepIds
    BY DEF StepIds
<1>4. IsTimeline(steps') /\ Distinct(steps') /\ Bounded(steps')
    BY <1>1, <1>2, <1>3, UpsertedOrdered
<1>5. DOMAIN steps' = DOMAIN steps \cup {id}
    BY <1>1, <1>2, <1>3, UpsertedRows DEF Written
<1>6. \/ /\ Ordered'
         /\ DOMAIN archive' = DOMAIN archive \cup {id}
         /\ id \notin DOMAIN archive => archive'[id] = End(id)
      \/ /\ Ordered'
         /\ UNCHANGED archive
         /\ ~(id \in DOMAIN steps /\ steps[id].text # text)
    <2>1. CASE id \in DOMAIN steps /\ archive' = Staged(id)
        <3>1. archive' = [r \in DOMAIN archive \cup {id} |->
                            IF r \in DOMAIN archive THEN archive[r] ELSE End(id)]
            BY <2>1 DEF Staged, End
        <3>2. /\ DOMAIN archive' = DOMAIN archive \cup {id}
              /\ \A r \in DOMAIN archive : archive'[r] = archive[r]
              /\ id \notin DOMAIN archive => archive'[id] = End(id)
            BY <3>1
        <3>3. \A r \in DOMAIN archive' :
                /\ IsEnd(archive'[r], r) /\ Bounded(archive'[r].steps)
                /\ IsTimeline(archive'[r].steps) /\ archive'[r].elements \subseteq Messages
            <4>1. \A r \in DOMAIN archive :
                    /\ IsEnd(archive[r], r) /\ Bounded(archive[r].steps)
                    /\ IsTimeline(archive[r].steps) /\ archive[r].elements \subseteq Messages
                BY DEF Ordered, HistoryTypeOK
            <4>2. PICK old : old = End(id)
                OBVIOUS
            <4>3. /\ IsEnd(old, id) /\ Bounded(old.steps)
                  /\ IsTimeline(old.steps) /\ old.elements \subseteq Messages
                BY <2>1, <4>2, EndOrdered
            <4> QED BY <3>2, <4>1, <4>2, <4>3
        <3>4. DOMAIN archive' \subseteq Messages
            BY <3>2 DEF Ordered, HistoryTypeOK
        <3>5. HistoryTypeOK'
            BY <1>1, <1>4, <3>3, <3>4 DEF Ordered, HistoryTypeOK
        <3>6. Ordered'
            BY <1>1, <1>4, <1>5, <3>3, <3>5 DEF Ordered
        <3> QED BY <3>2, <3>6
    <2>2. CASE (id \in DOMAIN steps => steps[id].text = text) /\ UNCHANGED archive
        BY <1>1, <1>4, <1>5, <2>2 DEF Ordered, HistoryTypeOK
    <2> QED BY <2>1, <2>2 DEF UpdateMessage
<1> QED BY <1>6

\* The order at which an archive begins.
LEMMA ArchiveFacts ==
    ASSUME Ordered, NEW root \in DOMAIN archive
    PROVE  /\ ArchivedOrder(root) \in Nat
           /\ IsTimeline(archive[root].steps) /\ Distinct(archive[root].steps)
           /\ Bounded(archive[root].steps)
           /\ \A i \in DOMAIN archive[root].steps :
                archive[root].steps[i].order >= ArchivedOrder(root)
           /\ archive[root].elements \subseteq DOMAIN archive[root].steps
           /\ archive[root].elements \subseteq Messages
<1>1. /\ IsEnd(archive[root], root) /\ Bounded(archive[root].steps)
      /\ IsTimeline(archive[root].steps) /\ archive[root].elements \subseteq Messages
    BY DEF Ordered, HistoryTypeOK
<1>2. ArchivedOrder(root) \in Nat
    BY <1>1 DEF ArchivedOrder, IsEnd, IsTimeline, Row
<1> QED BY <1>1, <1>2 DEF IsEnd, ArchivedOrder

LEMMA TruncateOrdered ==
    ASSUME Ordered, NEW root, TruncateRevision(root)
    PROVE  Ordered'
<1> DEFINE gone == Beyond(steps, ArchivedOrder(root))
<1>1. steps' = Without(steps, gone) /\ elements' = elements \ gone /\ UNCHANGED <<blobs, archive>>
    BY DEF TruncateRevision
<1>2. IsTimeline(steps) /\ Distinct(steps) /\ Bounded(steps) /\ elements \subseteq DOMAIN steps
    BY DEF Ordered, HistoryTypeOK
<1> HIDE DEF gone
<1>3. steps' = [i \in DOMAIN steps \ gone |-> steps[i]]
    BY <1>1 DEF Without
<1>4. IsTimeline(steps') /\ Distinct(steps') /\ Bounded(steps')
    BY <1>2, <1>3, PartOrdered
<1>5. elements' \subseteq DOMAIN steps' /\ elements' \subseteq Messages
    BY <1>1, <1>2, <1>3 DEF Ordered, HistoryTypeOK
<1> QED BY <1>1, <1>4, <1>5 DEF Ordered, HistoryTypeOK

LEMMA WithoutArchive ==
    ASSUME Ordered, NEW root, archive' = Without(archive, {root})
    PROVE  /\ DOMAIN archive' = DOMAIN archive \ {root}
           /\ \A r \in DOMAIN archive' :
                /\ archive'[r] = archive[r]
                /\ IsEnd(archive'[r], r) /\ Bounded(archive'[r].steps)
                /\ IsTimeline(archive'[r].steps) /\ archive'[r].elements \subseteq Messages
<1>1. DOMAIN archive' = DOMAIN archive \ {root} /\ \A r \in DOMAIN archive' : archive'[r] = archive[r]
    BY DEF Without
<1>2. \A r \in DOMAIN archive :
        /\ IsEnd(archive[r], r) /\ Bounded(archive[r].steps)
        /\ IsTimeline(archive[r].steps) /\ archive[r].elements \subseteq Messages
    BY DEF Ordered, HistoryTypeOK
<1> QED BY <1>1, <1>2

LEMMA DropOrdered ==
    ASSUME Ordered, NEW root, DropArchive(root)
    PROVE  Ordered'
<1>1. archive' = Without(archive, {root}) /\ UNCHANGED <<steps, elements, blobs>>
    BY DEF DropArchive
<1>2. /\ DOMAIN archive' = DOMAIN archive \ {root}
      /\ \A r \in DOMAIN archive' :
           /\ IsEnd(archive'[r], r) /\ Bounded(archive'[r].steps)
           /\ IsTimeline(archive'[r].steps) /\ archive'[r].elements \subseteq Messages
    BY <1>1, WithoutArchive
<1>3. DOMAIN archive' \subseteq Messages
    BY <1>2 DEF Ordered, HistoryTypeOK
<1> QED BY <1>1, <1>2, <1>3 DEF Ordered, HistoryTypeOK

LEMMA CleanOrdered ==
    ASSUME Ordered, NEW keys, CleanUp(keys)
    PROVE  Ordered'
<1>1. blobs' \subseteq blobs /\ UNCHANGED <<steps, elements, archive>>
    BY DEF CleanUp
<1> QED BY <1>1 DEF Ordered, HistoryTypeOK

\* The rows and documents of a restored Revision.
LEMMA RestoredRows ==
    ASSUME Ordered, NEW root \in DOMAIN archive, RestoreRevision(root),
           NEW old, old = archive[root],
           NEW gone, gone = From(steps, ArchivedOrder(root))
    PROVE  /\ DOMAIN steps' = (DOMAIN steps \ gone) \cup DOMAIN old.steps
           /\ \A i \in DOMAIN old.steps : steps'[i] = old.steps[i]
           /\ \A i \in DOMAIN steps \ gone : i \notin DOMAIN old.steps => steps'[i] = steps[i]
           /\ elements' = (elements \ gone) \cup old.elements
           /\ archive' = Without(archive, {root})
           /\ blobs' = blobs \ ((elements \cap gone) \ elements')
           /\ IsTimeline(steps') /\ Distinct(steps') /\ Bounded(steps')
<1>1. /\ steps' = [i \in (DOMAIN steps \ gone) \cup DOMAIN old.steps |->
                     IF i \in DOMAIN old.steps THEN old.steps[i] ELSE steps[i]]
      /\ elements' = (elements \ gone) \cup old.elements
      /\ archive' = Without(archive, {root})
      /\ blobs' = blobs \ ((elements \cap gone) \ elements')
    BY DEF RestoreRevision, Unreferenced
<1>2. IsTimeline(steps) /\ Distinct(steps) /\ Bounded(steps)
    BY DEF Ordered, HistoryTypeOK
<1>3. PICK n : n = ArchivedOrder(root)
    OBVIOUS
<1>4. /\ n \in Nat
      /\ IsTimeline(old.steps) /\ Distinct(old.steps) /\ Bounded(old.steps)
      /\ \A i \in DOMAIN old.steps : old.steps[i].order >= n
    BY <1>3, ArchiveFacts
<1>5. gone = {i \in DOMAIN steps : steps[i].order >= n}
    BY <1>3 DEF From
<1>6. PICK front : front = [i \in DOMAIN steps \ gone |-> steps[i]]
    OBVIOUS
<1>7. IsTimeline(front) /\ Distinct(front) /\ Bounded(front)
    <2>1. DOMAIN steps \ gone \subseteq DOMAIN steps
        OBVIOUS
    <2> QED BY <1>2, <1>6, <2>1, PartOrdered
<1>8. DOMAIN front = DOMAIN steps \ gone /\ \A i \in DOMAIN front : front[i] = steps[i]
    BY <1>6
<1>9. \A i \in DOMAIN front : front[i].order < n
    <2>1. \A i \in DOMAIN steps : steps[i].order \in Nat
        BY <1>2 DEF IsTimeline, Row
    <2> QED BY <1>4, <1>5, <1>8, <2>1
<1>10. PICK rows : rows = old.steps
    OBVIOUS
<1>11. steps' = [i \in DOMAIN front \cup DOMAIN rows |->
                   IF i \in DOMAIN rows THEN rows[i] ELSE front[i]]
    BY <1>1, <1>8, <1>10
<1>12. IsTimeline(steps') /\ Distinct(steps') /\ Bounded(steps')
    BY <1>4, <1>7, <1>9, <1>10, <1>11, JoinOrdered
<1>13. /\ DOMAIN steps' = (DOMAIN steps \ gone) \cup DOMAIN old.steps
       /\ \A i \in DOMAIN old.steps : steps'[i] = old.steps[i]
       /\ \A i \in DOMAIN steps \ gone : i \notin DOMAIN old.steps => steps'[i] = steps[i]
    BY <1>8, <1>10, <1>11
<1> QED BY <1>1, <1>12, <1>13

LEMMA RestoreOrdered ==
    ASSUME Ordered, NEW root, RestoreRevision(root)
    PROVE  Ordered'
<1>1. CASE root \notin DOMAIN archive
    BY <1>1, UnchangedOrdered DEF RestoreRevision
<1>2. CASE root \in DOMAIN archive
    <2>1. PICK old, gone : old = archive[root] /\ gone = From(steps, ArchivedOrder(root))
        OBVIOUS
    <2>2. /\ DOMAIN steps' = (DOMAIN steps \ gone) \cup DOMAIN old.steps
          /\ elements' = (elements \ gone) \cup old.elements
          /\ archive' = Without(archive, {root})
          /\ blobs' = blobs \ ((elements \cap gone) \ elements')
          /\ IsTimeline(steps') /\ Distinct(steps') /\ Bounded(steps')
        BY <1>2, <2>1, RestoredRows
    <2>3. old.elements \subseteq DOMAIN old.steps /\ old.elements \subseteq Messages
        BY <1>2, <2>1, ArchiveFacts
    <2>4. /\ DOMAIN archive' \subseteq Messages
          /\ \A r \in DOMAIN archive' :
               /\ IsEnd(archive'[r], r) /\ Bounded(archive'[r].steps)
               /\ IsTimeline(archive'[r].steps) /\ archive'[r].elements \subseteq Messages
        <3>1. /\ DOMAIN archive' = DOMAIN archive \ {root}
              /\ \A r \in DOMAIN archive' :
                   /\ IsEnd(archive'[r], r) /\ Bounded(archive'[r].steps)
                   /\ IsTimeline(archive'[r].steps) /\ archive'[r].elements \subseteq Messages
            BY <2>2, WithoutArchive
        <3> QED BY <3>1 DEF Ordered, HistoryTypeOK
    <2>5. elements' \subseteq DOMAIN steps' /\ elements' \subseteq Messages /\ blobs' \subseteq Messages
        BY <2>2, <2>3 DEF Ordered, HistoryTypeOK
    <2> QED BY <2>2, <2>4, <2>5 DEF Ordered, HistoryTypeOK
<1> QED BY <1>1, <1>2
-----------------------------------------------------------------------------
(* The request and its writes keep their types.                            *)

RequestTyped ==
    /\ pc \in Pcs
    /\ IF pc = "idle" THEN job = NoJob ELSE IsRequest(job)
    /\ turns \in Seq(Turn)

QueuesTyped == writes \in [Outputs -> Seq(Texts)] /\ late \in [Outputs -> Seq(Texts)]

LEMMA TypeParts ==
    TypeOK <=> HistoryTypeOK /\ RequestTyped /\ QueuesTyped /\ adrift \subseteq Messages
BY DEF TypeOK, RequestTyped, QueuesTyped

\* The same request, of which more is known.
SameRequest(j, k) == k.kind = j.kind /\ k.id = j.id /\ k.text = j.text /\ k.was = j.was

LEMMA RequestFacts ==
    ASSUME NEW j, IsRequest(j)
    PROVE  /\ j.kind \in {"message", "edit"} /\ j.id \in Messages /\ j.text \in Texts
           /\ j.shown \subseteq Outputs /\ j.keys \subseteq Messages
           /\ j.lost \in BOOLEAN /\ j.stopped \in BOOLEAN
           /\ j.was.turns \in Seq(Turn) /\ IsTimeline(j.was.steps)
           /\ j.was.elements \subseteq Messages
BY DEF IsRequest

LEMMA RequestStopped ==
    ASSUME NEW j, IsRequest(j), NEW k, k = [j EXCEPT !.stopped = TRUE]
    PROVE  /\ IsRequest(k) /\ SameRequest(j, k)
           /\ k.shown = j.shown /\ k.lost = j.lost /\ k.keys = j.keys
BY DEF IsRequest, SameRequest

LEMMA RequestLost ==
    ASSUME NEW j, IsRequest(j), NEW k, k = [j EXCEPT !.lost = TRUE]
    PROVE  /\ IsRequest(k) /\ SameRequest(j, k)
           /\ k.shown = j.shown /\ k.lost = TRUE /\ k.keys = j.keys
BY DEF IsRequest, SameRequest

LEMMA RequestCaught ==
    ASSUME NEW j, IsRequest(j), NEW k, k = [j EXCEPT !.caught = TRUE]
    PROVE  /\ IsRequest(k) /\ SameRequest(j, k)
           /\ k.shown = j.shown /\ k.lost = j.lost /\ k.keys = j.keys
BY DEF IsRequest, SameRequest

LEMMA RequestStoppedAndLost ==
    ASSUME NEW j, IsRequest(j), NEW k, k = [j EXCEPT !.stopped = TRUE, !.lost = TRUE]
    PROVE  /\ IsRequest(k) /\ SameRequest(j, k)
           /\ k.shown = j.shown /\ k.lost = TRUE /\ k.keys = j.keys
BY DEF IsRequest, SameRequest

LEMMA RequestShows ==
    ASSUME NEW j, IsRequest(j), NEW o \in Outputs, NEW k, k = [j EXCEPT !.shown = @ \cup {o}]
    PROVE  /\ IsRequest(k) /\ SameRequest(j, k)
           /\ k.shown = j.shown \cup {o} /\ k.lost = j.lost /\ k.keys = j.keys
BY DEF IsRequest, SameRequest

LEMMA RequestCleans ==
    ASSUME NEW j, IsRequest(j), NEW keys \in SUBSET Messages, NEW k, k = [j EXCEPT !.keys = keys]
    PROVE  /\ IsRequest(k) /\ SameRequest(j, k)
           /\ k.shown = j.shown /\ k.lost = j.lost /\ k.keys = keys
BY DEF IsRequest, SameRequest

LEMMA RequestBegins ==
    ASSUME TypeOK, NEW kind \in {"message", "edit"}, NEW id \in Messages, NEW text \in Texts,
           NEW j, j = Request(kind, id, text)
    PROVE  /\ IsRequest(j)
           /\ j.kind = kind /\ j.id = id /\ j.text = text /\ j.shown = {} /\ j.keys = {}
           /\ j.lost = FALSE
           /\ j.was.steps = steps /\ j.was.elements = elements /\ j.was.turns = turns
BY DEF Request, IsRequest, TypeOK, HistoryTypeOK

\* The Turns ahead of an edited one, and what they become with the new one.
Ahead(h, id) == SubSeq(h, 1, (CHOOSE k \in DOMAIN h : h[k].id = id) - 1)

LEMMA AheadFacts ==
    ASSUME NEW h \in Seq(Turn), NEW id, \E k \in DOMAIN h : h[k].id = id
    PROVE  /\ Ahead(h, id) \in Seq(Turn)
           /\ \E p \in DOMAIN h :
                /\ h[p].id = id
                /\ Len(Ahead(h, id)) = p - 1
                /\ \A k \in 1..(p - 1) : k \in DOMAIN h /\ Ahead(h, id)[k] = h[k]
<1>1. PICK p : p = CHOOSE k \in DOMAIN h : h[k].id = id
    OBVIOUS
<1>2. p \in DOMAIN h /\ h[p].id = id
    BY <1>1
<1>3. Len(h) \in Nat /\ DOMAIN h = 1..Len(h) /\ \A k \in 1..Len(h) : h[k] \in Turn
    BY LenProperties, ElementOfSeq
<1>4. p \in Nat \ {0} /\ p <= Len(h)
    BY <1>2, <1>3
<1>5. p - 1 \in Int /\ \A k \in 1..(p - 1) : k \in DOMAIN h /\ h[k] \in Turn
    BY <1>3, <1>4
<1>6. /\ SubSeq(h, 1, p - 1) \in Seq(Turn)
      /\ Len(SubSeq(h, 1, p - 1)) = IF 1 <= p - 1 THEN p - 1 - 1 + 1 ELSE 0
      /\ \A k \in 1..(p - 1 - 1 + 1) : SubSeq(h, 1, p - 1)[k] = h[1 + k - 1]
    BY <1>5, SubSeqProperties
<1>7. Len(SubSeq(h, 1, p - 1)) = p - 1
    BY <1>4, <1>6
<1>8. \A k \in 1..(p - 1) : SubSeq(h, 1, p - 1)[k] = h[k]
    BY <1>4, <1>6
<1>9. Ahead(h, id) = SubSeq(h, 1, p - 1)
    BY <1>1 DEF Ahead
<1> QED BY <1>2, <1>5, <1>6, <1>7, <1>8, <1>9

LEMMA RequestOfTask == ASSUME TypeOK, pc # "idle" PROVE IsRequest(job)
BY DEF TypeOK

LEMMA ArchivedElementsTyped ==
    ASSUME Ordered, NEW id
    PROVE  ArchivedElements(id) \in SUBSET Messages
BY DEF ArchivedElements, Ordered, HistoryTypeOK

LEMMA HeadOfQueue ==
    ASSUME NEW q \in [Outputs -> Seq(Texts)], NEW o \in Outputs, q[o] # <<>>
    PROVE  Head(q[o]) \in Texts /\ [q EXCEPT ![o] = Tail(@)] \in [Outputs -> Seq(Texts)]
<1>1. q[o] \in Seq(Texts)
    OBVIOUS
<1>2. Head(q[o]) \in Texts /\ Tail(q[o]) \in Seq(Texts)
    BY <1>1, HeadTailProperties
<1> QED BY <1>2

LEMMA ScheduledTyped ==
    ASSUME writes \in [Outputs -> Seq(Texts)], NEW o \in Outputs, NEW text \in Texts,
           Schedule(o, text)
    PROVE  /\ writes' \in [Outputs -> Seq(Texts)]
           /\ writes'[o] # <<>>
           /\ \A p \in Outputs : p # o => writes'[p] = writes[p]
<1>1. writes[o] \in Seq(Texts)
    OBVIOUS
<1>2. Append(writes[o], text) \in Seq(Texts) /\ Append(writes[o], text) # <<>>
    BY <1>1, AppendProperties
<1>3. writes' = [writes EXCEPT ![o] = Append(writes[o], text)]
    BY DEF Schedule
<1> QED BY <1>2, <1>3

LEMMA NoWritesTyped == NoWrites \in [Outputs -> Seq(Texts)]
<1>1. <<>> \in Seq(Texts)
    OBVIOUS
<1> QED BY <1>1 DEF NoWrites

LEMMA LeftTyped ==
    ASSUME QueuesTyped, NEW q, q = [o \in Outputs |-> late[o] \o writes[o]]
    PROVE  q \in [Outputs -> Seq(Texts)]
<1>1. \A o \in Outputs : late[o] \in Seq(Texts) /\ writes[o] \in Seq(Texts)
    BY DEF QueuesTyped
<1>2. \A o \in Outputs : late[o] \o writes[o] \in Seq(Texts)
    BY <1>1, ConcatProperties
<1> QED BY <1>2
-----------------------------------------------------------------------------
(* Every step keeps the timeline ordered. *)

LEMMA OrderedNext == ASSUME OrderInv, Next PROVE Ordered'
<1>1. Ordered /\ TypeOK /\ HistoryTypeOK /\ writes \in [Outputs -> Seq(Texts)]
      /\ late \in [Outputs -> Seq(Texts)] /\ Outputs \subseteq StepIds
    BY DEF OrderInv, TypeOK, StepIds
<1>2. ASSUME NEW id \in Messages, NEW text \in Texts, NEW attached \in SUBSET {id},
             Send(id, text, attached)
      PROVE  Ordered'
    BY <1>1, <1>2, StoreOrdered DEF Send
<1>3. ASSUME NEW id \in Messages, NEW text \in Texts, Edit(id, text) PROVE Ordered'
    BY <1>1, <1>3, UnchangedOrdered DEF Edit
<1>4. CASE Receive
    BY <1>2, <1>3, <1>4 DEF Receive
<1>5. CASE UNCHANGED timeline
    BY <1>1, <1>5, UnchangedOrdered
<1>6. ASSUME pc = "staging", UpdateMessage(job.id, job.text) PROVE Ordered'
    <2>1. IsRequest(job)
        BY <1>1, <1>6, RequestOfTask
    <2>2. job.id \in Messages /\ job.text \in Texts
        BY <2>1, RequestFacts
    <2> QED BY <1>1, <1>6, <2>2, UpdateOrdered
<1>7. CASE Stage BY <1>6, <1>7 DEF Stage
<1>8. CASE Truncate BY <1>1, <1>8, TruncateOrdered DEF Truncate
<1>9. CASE Commit BY <1>1, <1>9, DropOrdered DEF Commit
<1>10. CASE Clean
    <2>1. PICK done \in SUBSET job.keys : CleanUp(done)
        BY <1>10 DEF Clean
    <2> QED BY <1>1, <2>1, CleanOrdered
<1>11. CASE Restore BY <1>1, <1>11, RestoreOrdered DEF Restore
<1>12. CASE Undo BY <1>1, <1>12, RestoreOrdered DEF Undo
<1>13. CASE Work
    <2>1. CASE \E o \in Outputs, text \in Texts : Show(o, text) \/ Answer(o, text) \/ RunFails(o, text)
        BY <1>5, <2>1 DEF Show, Answer, RunFails
    <2>2. CASE \/ Reject \/ Start \/ StageFails \/ OpenFails \/ Enter \/ Drained \/ FailureDrained
               \/ CommitFails
        BY <1>5, <2>2 DEF Reject, Start, StageFails, OpenFails, Enter, Drained, FailureDrained, CommitFails
    <2> QED BY <1>7, <1>8, <1>9, <1>10, <1>11, <1>12, <1>13, <2>1, <2>2 DEF Work
<1>14. CASE Stop
    <2>1. CASE StopStaged BY <1>6, <2>1 DEF StopStaged
    <2>2. CASE StopCommitted BY <1>1, <2>2, DropOrdered DEF StopCommitted
    <2>3. CASE \/ StopEarly \/ StopRun \/ StopDrain \/ StopCommit \/ StopEntering \/ StopFailing
               \/ StopRestoring \/ StopUndoing \/ StopUndone
        BY <1>5, <2>3 DEF StopEarly, StopRun, StopDrain, StopCommit, StopEntering, StopFailing,
            StopRestoring, StopUndoing, StopUndone
    <2> QED BY <1>14, <2>1, <2>2, <2>3 DEF Stop
<1>15. ASSUME NEW o \in Outputs, Land(o) PROVE Ordered'
    <2>1. writes[o] # <<>> /\ WriteStep(o, Head(writes[o]))
        BY <1>15 DEF Land
    <2>2. Head(writes[o]) \in Texts
        BY <1>1, <2>1, HeadOfQueue
    <2> QED BY <1>1, <2>1, <2>2, WriteOrdered
<1>16. ASSUME NEW o \in Outputs, LandLate(o) PROVE Ordered'
    <2>1. late[o] # <<>> /\ WriteStep(o, Head(late[o]))
        BY <1>16 DEF LandLate
    <2>2. Head(late[o]) \in Texts
        BY <1>1, <2>1, HeadOfQueue
    <2> QED BY <1>1, <2>1, <2>2, WriteOrdered
<1>17. CASE Background
    <2>1. CASE \E o \in Outputs : Land(o) \/ WriteFails(o) \/ LandLate(o)
        <3>1. PICK o \in Outputs : Land(o) \/ WriteFails(o) \/ LandLate(o)
            BY <2>1
        <3>2. CASE WriteFails(o) BY <1>5, <3>2 DEF WriteFails
        <3> QED BY <1>15, <1>16, <3>1, <3>2
    <2>2. CASE \E id \in Messages : RestoreAdrift(id)
        BY <1>1, <2>2, RestoreOrdered DEF RestoreAdrift
    <2> QED BY <1>17, <2>1, <2>2 DEF Background
<1>18. CASE Crash BY <1>5, <1>18 DEF Crash
<1> QED BY <1>4, <1>13, <1>14, <1>17, <1>18 DEF Next

(* Every step keeps the types. *)

LEMMA TypedNext == ASSUME OrderInv, Next PROVE RequestTyped' /\ QueuesTyped'
<1>1. TypeOK /\ RequestTyped /\ QueuesTyped /\ Served
    BY TypeParts DEF OrderInv
<1>2. turns \in Seq(Turn) /\ writes \in [Outputs -> Seq(Texts)] /\ late \in [Outputs -> Seq(Texts)]
    BY <1>1 DEF RequestTyped, QueuesTyped
<1>3. pc # "idle" => IsRequest(job)
    BY <1>1, RequestOfTask
<1>4. ASSUME Finish, turns' \in Seq(Turn) PROVE RequestTyped'
    BY <1>4 DEF Finish, RequestTyped, Pcs
<1>5. ASSUME pc' \in Pcs \ {"idle"}, IsRequest(job'), turns' \in Seq(Turn) PROVE RequestTyped'
    BY <1>5 DEF RequestTyped
<1>6. ASSUME pc # "idle", NEW x \in Pcs \ {"idle"}, Goto(x), turns' \in Seq(Turn) PROVE RequestTyped'
    BY <1>3, <1>5, <1>6 DEF Goto
<1>7. ASSUME pc # "idle", NEW x \in Pcs \ {"idle"}, Stopped(x), turns' \in Seq(Turn)
      PROVE  RequestTyped'
    <2>1. pc' = x /\ job' = [job EXCEPT !.stopped = TRUE]
        BY <1>7 DEF Stopped
    <2>2. IsRequest(job')
        BY <1>3, <1>7, <2>1, RequestStopped
    <2> QED BY <1>5, <1>7, <2>1, <2>2
<1>8. ASSUME UNCHANGED <<writes, late>> PROVE QueuesTyped'
    BY <1>1, <1>8 DEF QueuesTyped
<1>9. ASSUME UNCHANGED <<pc, job, turns>> PROVE RequestTyped'
    BY <1>1, <1>9 DEF RequestTyped, IsRequest
<1>10. ASSUME pc # "idle", Fail, turns' \in Seq(Turn) PROVE RequestTyped'
    <2>1. CASE job.kind = "edit"
        BY <1>6, <1>10, <2>1 DEF Fail, Pcs
    <2>2. CASE job.kind # "edit"
        BY <1>4, <1>10, <2>2 DEF Fail
    <2> QED BY <2>1, <2>2
<1>11. CASE Receive
    <2>1. PICK id \in Messages, text \in Texts :
            (\E attached \in SUBSET {id} : Send(id, text, attached)) \/ Edit(id, text)
        BY <1>11 DEF Receive
    <2>2. PICK kind \in {"message", "edit"} :
            job' = Request(kind, id, text) /\ pc' \in {"sent", "staging"}
        BY <2>1 DEF Send, Edit
    <2>3. UNCHANGED <<turns, writes, late>>
        BY <2>1 DEF Send, Edit
    <2>4. IsRequest(job')
        BY <1>1, <2>2, RequestBegins
    <2> QED BY <1>2, <1>5, <1>8, <2>2, <2>3, <2>4 DEF Pcs
<1>12. CASE Work
    <2>1. CASE Reject \/ StageFails
        BY <1>2, <1>4, <1>8, <2>1 DEF Reject, StageFails
    <2>2. CASE Start \/ Stage \/ Truncate \/ Enter \/ CommitFails \/ Restore
        <3>1. pc # "idle" /\ UNCHANGED <<turns, writes, late>>
            BY <2>2 DEF Start, Stage, Truncate, Enter, CommitFails, Restore
        <3>2. PICK x \in Pcs \ {"idle"} : Goto(x)
            BY <2>2 DEF Start, Stage, Truncate, Enter, CommitFails, Restore, Pcs
        <3> QED BY <1>2, <1>6, <1>8, <3>1, <3>2
    <2>3. CASE OpenFails
        <3>1. pc # "idle" /\ UNCHANGED <<turns, writes, late>>
            BY <2>3 DEF OpenFails
        <3>2. PICK x \in Pcs \ {"idle"} : Goto(x)
            BY <2>3 DEF OpenFails, Pcs
        <3> QED BY <1>2, <1>6, <1>8, <3>1, <3>2
    <2>4. ASSUME NEW o \in Outputs, NEW text \in Texts, Show(o, text)
          PROVE  RequestTyped' /\ QueuesTyped'
        <3>1. /\ pc = "running" /\ Schedule(o, text) /\ job' = [job EXCEPT !.shown = @ \cup {o}]
              /\ UNCHANGED <<pc, turns, late>>
            BY <2>4 DEF Show
        <3>2. IsRequest(job')
            BY <1>3, <3>1, RequestShows
        <3>3. writes' \in [Outputs -> Seq(Texts)]
            BY <1>2, <3>1, ScheduledTyped
        <3> QED BY <1>2, <1>5, <3>1, <3>2, <3>3 DEF QueuesTyped, Pcs
    <2>5. ASSUME NEW o \in Outputs, NEW text \in Texts, Answer(o, text) \/ RunFails(o, text)
          PROVE  RequestTyped' /\ QueuesTyped'
        <3>1. pc = "running" /\ Schedule(o, text) /\ UNCHANGED late
            BY <2>5 DEF Answer, RunFails, Close
        <3>2. writes' \in [Outputs -> Seq(Texts)]
            BY <1>2, <3>1, ScheduledTyped
        <3>3. IsRequest(job)
            BY <1>3, <3>1
        <3>4. pc' \in Pcs \ {"idle"} /\ IsRequest(job')
            BY <2>5, <3>3, RequestCaught DEF Answer, RunFails, Goto, Pcs
        <3>5. PICK new : new = [id |-> job.id, text |-> job.text]
            OBVIOUS
        <3>6. new \in Turn /\ job.kind \in {"message", "edit"}
            BY <3>3, <3>5, RequestFacts DEF Turn
        <3>7. turns' \in Seq(Turn)
            <4>1. CASE RunFails(o, text)
                BY <1>2, <4>1 DEF RunFails
            <4>2. CASE Answer(o, text) /\ job.kind = "message"
                <5>1. turns' = Append(turns, new)
                    BY <3>5, <4>2 DEF Answer
                <5> QED BY <1>2, <3>6, <5>1, AppendProperties
            <4>3. CASE Answer(o, text) /\ job.kind = "edit"
                <5>1. HasTurn(job.id)
                    BY <1>1, <3>1, <4>3 DEF Served, Editing
                <5>2. Ahead(turns, job.id) \in Seq(Turn)
                    BY <1>2, <5>1, AheadFacts DEF HasTurn
                <5>3. turns' = Append(Ahead(turns, job.id), new)
                    BY <3>5, <4>3 DEF Answer, Ahead, Position
                <5> QED BY <3>6, <5>2, <5>3, AppendProperties
            <4> QED BY <2>5, <3>6, <4>1, <4>2, <4>3
        <3> QED BY <1>2, <1>5, <3>1, <3>2, <3>4, <3>7 DEF QueuesTyped
    <2>6. CASE Drained
        <3>1. pc # "idle" /\ UNCHANGED <<turns, writes, late>>
            BY <2>6 DEF Drained
        <3>2. Fail \/ Goto("committing") \/ Finish
            BY <2>6 DEF Drained
        <3> QED BY <1>2, <1>4, <1>6, <1>8, <1>10, <3>1, <3>2 DEF Pcs
    <2>7. CASE FailureDrained
        BY <1>2, <1>8, <1>10, <2>7 DEF FailureDrained
    <2>8. CASE Commit
        <3>1. pc = "committing" /\ IsRequest(job)
            BY <1>3, <2>8 DEF Commit
        <3>2. /\ job' = [job EXCEPT !.keys = ArchivedElements(job.id)]
              /\ pc' = "cleaning" /\ UNCHANGED <<turns, writes, late>>
            BY <2>8 DEF Commit
        <3>3. ArchivedElements(job.id) \in SUBSET Messages
            BY ArchivedElementsTyped DEF OrderInv
        <3>4. IsRequest(job')
            BY <3>1, <3>2, <3>3, RequestCleans
        <3> QED BY <1>2, <1>5, <1>8, <3>2, <3>4 DEF Pcs
    <2>9. CASE Clean
        BY <1>2, <1>4, <1>8, <2>9 DEF Clean
    <2>10. CASE Undo
        <3>1. IsRequest(job) /\ turns' = job.was.turns /\ Finish /\ UNCHANGED <<writes, late>>
            BY <1>3, <2>10 DEF Undo
        <3>2. turns' \in Seq(Turn)
            BY <3>1, RequestFacts
        <3> QED BY <1>4, <1>8, <3>1, <3>2
    <2> QED BY <1>12, <2>1, <2>2, <2>3, <2>4, <2>5, <2>6, <2>7, <2>8, <2>9, <2>10 DEF Work
<1>13. CASE Stop
    <2>1. CASE StopEarly
        <3>1. pc # "idle" /\ UNCHANGED <<turns, writes, late>>
            BY <2>1 DEF StopEarly
        <3>2. Finish \/ Stopped("undoing") \/ Stopped("restoring")
            BY <2>1 DEF StopEarly
        <3> QED BY <1>2, <1>4, <1>7, <1>8, <3>1, <3>2 DEF Pcs
    <2>2. CASE StopRun
        <3>1. pc # "idle" /\ Stopped("failing") /\ UNCHANGED <<turns, late>> /\ IsRequest(job)
            BY <1>3, <2>2 DEF StopRun
        <3>2. writes' \in [Outputs -> Seq(Texts)]
            <4>1. CASE UNCHANGED writes BY <1>2, <4>1
            <4>2. CASE ~UNCHANGED writes
                <5>1. PICK o \in job.shown, text \in Texts : Schedule(o, text)
                    BY <2>2, <4>2 DEF StopRun
                <5>2. o \in Outputs
                    BY <3>1, <5>1, RequestFacts
                <5> QED BY <1>2, <5>1, <5>2, ScheduledTyped
            <4> QED BY <4>1, <4>2
        <3> QED BY <1>2, <1>7, <3>1, <3>2 DEF QueuesTyped, Pcs
    <2>3. CASE StopDrain
        <3>1. /\ pc = "draining" /\ pc' = "draining" /\ UNCHANGED <<turns, writes, late>>
              /\ job' = [job EXCEPT !.stopped = TRUE, !.lost = TRUE]
            BY <2>3 DEF StopDrain
        <3>2. IsRequest(job')
            BY <1>3, <3>1, RequestStoppedAndLost
        <3> QED BY <1>2, <1>5, <1>8, <3>1, <3>2 DEF Pcs
    <2>4. CASE StopCommit \/ StopCommitted
        <3>1. pc # "idle" /\ Stopped("restoring") /\ UNCHANGED <<turns, writes, late>>
            BY <2>4 DEF StopCommit, StopCommitted
        <3> QED BY <1>2, <1>7, <1>8, <3>1 DEF Pcs
    <2>5. CASE StopStaged
        BY <1>2, <1>4, <1>8, <2>5 DEF StopStaged
    <2>6. CASE StopEntering \/ StopFailing
        <3>1. pc # "idle" /\ UNCHANGED turns /\ writes' = NoWrites
              /\ late' = [o \in Outputs |-> late[o] \o writes[o]]
            BY <2>6 DEF StopEntering, StopFailing, LeaveWrites
        <3>2. Stopped("restoring") \/ Finish
            BY <2>6 DEF StopEntering, StopFailing, LeaveWrites
        <3>3. late' \in [Outputs -> Seq(Texts)] /\ writes' \in [Outputs -> Seq(Texts)]
            BY <1>1, <3>1, LeftTyped, NoWritesTyped
        <3> QED BY <1>2, <1>4, <1>7, <3>1, <3>2, <3>3 DEF QueuesTyped, Pcs
    <2>7. CASE StopRestoring \/ StopUndoing
        <3>1. pc # "idle" /\ Stopped("undoing") /\ UNCHANGED <<turns, writes, late>>
            BY <2>7 DEF StopRestoring, StopUndoing
        <3> QED BY <1>2, <1>7, <1>8, <3>1 DEF Pcs
    <2>8. CASE StopUndone
        <3>1. IsRequest(job) /\ turns' = job.was.turns /\ Finish /\ UNCHANGED <<writes, late>>
            BY <1>3, <2>8 DEF StopUndone
        <3>2. turns' \in Seq(Turn)
            BY <3>1, RequestFacts
        <3> QED BY <1>4, <1>8, <3>1, <3>2
    <2> QED BY <1>13, <2>1, <2>2, <2>3, <2>4, <2>5, <2>6, <2>7, <2>8 DEF Stop
<1>14. ASSUME NEW id \in Messages, RestoreAdrift(id) PROVE RequestTyped' /\ QueuesTyped'
    BY <1>8, <1>9, <1>14 DEF RestoreAdrift
<1>15. CASE \E o \in Outputs : Land(o) \/ WriteFails(o) \/ LandLate(o)
    <2>1. PICK o \in Outputs : Land(o) \/ WriteFails(o) \/ LandLate(o)
        BY <1>15
    <2>2. CASE Land(o)
        <3>1. writes[o] # <<>> /\ writes' = [writes EXCEPT ![o] = Tail(@)]
              /\ UNCHANGED <<pc, job, turns, late>>
            BY <2>2 DEF Land
        <3>2. writes' \in [Outputs -> Seq(Texts)]
            BY <1>2, <3>1, HeadOfQueue
        <3> QED BY <1>2, <1>9, <3>1, <3>2 DEF QueuesTyped
    <2>3. CASE LandLate(o)
        <3>1. late[o] # <<>> /\ late' = [late EXCEPT ![o] = Tail(@)]
              /\ UNCHANGED <<pc, job, turns, writes>>
            BY <2>3 DEF LandLate
        <3>2. late' \in [Outputs -> Seq(Texts)]
            BY <1>2, <3>1, HeadOfQueue
        <3> QED BY <1>2, <1>9, <3>1, <3>2 DEF QueuesTyped
    <2>4. CASE WriteFails(o)
        <3>1. writes[o] # <<>> /\ writes' = [writes EXCEPT ![o] = Tail(@)]
              /\ job' = [job EXCEPT !.lost = TRUE] /\ UNCHANGED <<pc, turns, late>>
            BY <2>4 DEF WriteFails
        <3>2. writes' \in [Outputs -> Seq(Texts)]
            BY <1>2, <3>1, HeadOfQueue
        <3>3. pc # "idle"
            <4>1. writes # NoWrites
                BY <3>1 DEF NoWrites
            <4> QED BY <1>1, <4>1 DEF Served
        <3>4. IsRequest(job')
            BY <1>3, <3>1, <3>3, RequestLost
        <3> QED BY <1>1, <1>2, <1>5, <3>1, <3>2, <3>3, <3>4 DEF QueuesTyped, RequestTyped
    <2> QED BY <2>1, <2>2, <2>3, <2>4
<1>16. CASE Crash
    BY <1>2, <1>4, <1>16, NoWritesTyped DEF Crash, QueuesTyped
<1> QED BY <1>11, <1>12, <1>13, <1>14, <1>15, <1>16 DEF Next, Background

LEMMA AdriftNext == ASSUME OrderInv, Next PROVE adrift' \subseteq Messages
<1>1. adrift \subseteq Messages /\ (pc # "idle" => job.id \in Messages)
    BY RequestOfTask, RequestFacts DEF OrderInv, TypeOK
<1>2. CASE Receive
    BY <1>1, <1>2 DEF Receive, Send, Edit
<1>3. CASE Work
    BY <1>1, <1>3 DEF Work, Reject, Start, Stage, StageFails, Truncate, OpenFails, Show, Answer,
        RunFails, Enter, Drained, FailureDrained, Commit, CommitFails, Clean, Restore, Undo
<1>4. CASE Stop
    <2>1. CASE StopRestoring \/ StopUndone
        BY <1>1, <2>1 DEF StopRestoring, StopUndone, SetAdrift
    <2>2. CASE ~StopRestoring /\ ~StopUndone
        BY <1>1, <1>4, <2>2 DEF Stop, StopEarly, StopRun, StopDrain, StopCommit, StopStaged,
            StopCommitted, StopEntering, StopFailing, StopUndoing
    <2> QED BY <2>1, <2>2
<1>5. CASE Background
    BY <1>1, <1>5 DEF Background, Land, WriteFails, LandLate, RestoreAdrift
<1>6. CASE Crash
    BY <1>6 DEF Crash
<1> QED BY <1>2, <1>3, <1>4, <1>5, <1>6 DEF Next

(* Every step leaves the request what its phase relies on. *)

LEMMA ServedNext == ASSUME OrderInv, Next PROVE Served'
<1>1. TypeOK /\ Ordered /\ Served /\ writes \in [Outputs -> Seq(Texts)]
    BY DEF OrderInv, TypeOK
<1>2. pc # "idle" => IsRequest(job)
    BY <1>1, RequestOfTask
<1>3. ASSUME Finish, writes' = NoWrites PROVE Served'
    BY <1>3 DEF Finish, Served, Editing
<1>4. CASE Receive
    <2>1. PICK id \in Messages, text \in Texts :
            (\E attached \in SUBSET {id} : Send(id, text, attached)) \/ Edit(id, text)
        BY <1>4 DEF Receive
    <2>2. writes' = NoWrites
        BY <1>1, <2>1 DEF Send, Edit, Served
    <2>3. CASE Edit(id, text)
        <3>1. /\ pc' = "staging" /\ id \in DOMAIN steps /\ HasTurn(id) /\ turns' = turns /\ steps' = steps
              /\ job' = Request("edit", id, text)
            BY <2>3 DEF Edit, timeline
        <3>2. job'.kind = "edit" /\ job'.id = id /\ job'.was.turns = turns
            BY <3>1 DEF Request
        <3> QED BY <2>2, <3>1, <3>2 DEF Served, Editing, HasTurn
    <2>4. ASSUME NEW attached \in SUBSET {id}, Send(id, text, attached) PROVE Served'
        <3>1. pc' = "sent" /\ job' = Request("message", id, text)
            BY <2>4 DEF Send
        <3>2. job'.kind = "message"
            BY <3>1 DEF Request
        <3> QED BY <2>2, <3>1, <3>2 DEF Served, Editing
    <2> QED BY <2>1, <2>3, <2>4
<1>5. CASE Work
    <2>1. CASE Reject \/ StageFails \/ Clean \/ Undo
        <3>1. pc \notin {"running", "entering", "draining", "failing"} /\ Finish /\ writes' = writes
            BY <2>1 DEF Reject, StageFails, Clean, Undo
        <3> QED BY <1>1, <1>3, <3>1 DEF Served
    <2>2. CASE Start
        <3>1. pc = "sent" /\ pc' = "running" /\ job' = job /\ UNCHANGED <<turns, writes>>
            BY <2>2 DEF Start, Goto
        <3>2. job.kind = "message"
            BY <1>1, <3>1 DEF Served
        <3> QED BY <3>1, <3>2 DEF Served, Editing
    <2>4. CASE Stage
        <3>1. pc = "staging" /\ pc' = "opening" /\ job' = job /\ UNCHANGED <<turns, writes>>
            BY <2>4 DEF Stage, Goto
        <3> QED BY <1>1, <3>1 DEF Served, Editing, HasTurn
    <2>5. CASE Truncate
        <3>1. pc = "opening" /\ pc' = "running" /\ job' = job /\ UNCHANGED <<turns, writes, archive>>
            BY <2>5 DEF Truncate, TruncateRevision, Goto
        <3> QED BY <1>1, <3>1 DEF Served, Editing, HasTurn
    <2>6. CASE OpenFails \/ CommitFails \/ Restore
        <3>1. /\ pc \in {"opening", "committing", "restoring"} /\ pc' \in {"undoing", "restoring"}
              /\ job' = job /\ writes' = writes
            BY <2>6 DEF OpenFails, CommitFails, Restore, Goto
        <3> QED BY <1>1, <3>1 DEF Served, Editing
    <2>7. ASSUME NEW o \in Outputs, NEW text \in Texts, Show(o, text) PROVE Served'
        <3>1. /\ pc = "running" /\ job' = [job EXCEPT !.shown = @ \cup {o}]
              /\ UNCHANGED <<pc, turns, timeline>>
            BY <2>7 DEF Show
        <3>2. SameRequest(job, job')
            BY <1>2, <3>1, RequestShows
        <3> QED BY <1>1, <3>1, <3>2 DEF Served, Editing, HasTurn, SameRequest, timeline
    <2>8. ASSUME NEW o \in Outputs, NEW text \in Texts, Answer(o, text) \/ RunFails(o, text)
          PROVE  Served'
        <3>1. pc = "running" /\ pc' \in {"entering", "failing"} /\ job'.kind = job.kind
            BY <1>2, <2>8, RequestCaught DEF Answer, RunFails, Goto, SameRequest
        <3> QED BY <1>1, <3>1 DEF Served, Editing
    <2>3. CASE Enter
        BY <1>1, <2>3 DEF Enter, Goto, Served, Editing
    <2>9. ASSUME pc \in {"draining", "failing"}, writes = NoWrites, writes' = writes, Fail PROVE Served'
        <3>1. CASE job.kind = "edit"
            BY <2>9, <3>1 DEF Fail, Goto, Served, Editing
        <3>2. CASE job.kind # "edit"
            BY <1>3, <2>9, <3>2 DEF Fail
        <3> QED BY <3>1, <3>2
    <2>10. CASE Drained
        <3>1. pc = "draining" /\ writes = NoWrites /\ UNCHANGED <<writes, archive>>
            BY <2>10 DEF Drained, timeline
        <3>2. CASE Fail BY <2>9, <3>1, <3>2
        <3>3. CASE Finish BY <1>3, <3>1, <3>3
        <3>4. CASE Goto("committing") /\ job.kind = "edit"
            BY <1>1, <3>1, <3>4 DEF Goto, Served, Editing
        <3> QED BY <2>10, <3>2, <3>3, <3>4 DEF Drained
    <2>11. CASE FailureDrained
        BY <2>9, <2>11 DEF FailureDrained
    <2>12. CASE Commit
        <3>1. /\ pc = "committing" /\ pc' = "cleaning" /\ writes' = writes
              /\ job' = [job EXCEPT !.keys = ArchivedElements(job.id)]
            BY <2>12 DEF Commit
        <3>2. ArchivedElements(job.id) \in SUBSET Messages
            BY <1>1, ArchivedElementsTyped
        <3>3. SameRequest(job, job')
            BY <1>2, <3>1, <3>2, RequestCleans
        <3> QED BY <1>1, <3>1, <3>3 DEF Served, Editing, SameRequest
    <2> QED BY <1>5, <2>1, <2>2, <2>3, <2>4, <2>5, <2>6, <2>7, <2>8, <2>10, <2>11, <2>12 DEF Work
<1>6. CASE Stop
    <2>1. ASSUME pc # "idle", NEW x, Stopped(x) PROVE SameRequest(job, job') /\ pc' = x
        <3>1. pc' = x /\ job' = [job EXCEPT !.stopped = TRUE]
            BY <2>1 DEF Stopped
        <3> QED BY <1>2, <2>1, <3>1, RequestStopped
    <2>2. CASE StopEarly \/ StopStaged
        <3>1. pc \in {"sent", "staging", "opening"} /\ writes' = writes
            BY <2>2 DEF StopEarly, StopStaged
        <3>2. Finish \/ (pc = "opening" /\ (Stopped("undoing") \/ Stopped("restoring")))
            BY <2>2 DEF StopEarly, StopStaged
        <3>3. writes' = NoWrites
            BY <1>1, <3>1 DEF Served
        <3>4. CASE Finish BY <1>3, <3>3, <3>4
        <3>5. CASE pc = "opening" /\ (Stopped("undoing") \/ Stopped("restoring"))
            <4>1. SameRequest(job, job') /\ pc' \in {"undoing", "restoring"}
                BY <2>1, <3>5
            <4> QED BY <1>1, <3>3, <3>5, <4>1 DEF Served, Editing, SameRequest
        <3> QED BY <3>2, <3>4, <3>5
    <2>3. CASE StopRun
        <3>1. pc = "running" /\ Stopped("failing") /\ UNCHANGED archive
            BY <2>3 DEF StopRun, timeline
        <3>2. SameRequest(job, job') /\ pc' = "failing"
            BY <2>1, <3>1
        <3> QED BY <1>1, <3>1, <3>2 DEF Served, Editing, SameRequest
    <2>4. CASE StopDrain
        <3>1. /\ pc = "draining" /\ pc' = "draining" /\ UNCHANGED archive
              /\ job' = [job EXCEPT !.stopped = TRUE, !.lost = TRUE]
            BY <2>4 DEF StopDrain, timeline
        <3>2. SameRequest(job, job')
            BY <1>2, <3>1, RequestStoppedAndLost
        <3> QED BY <1>1, <3>1, <3>2 DEF Served, Editing, SameRequest
    <2>5. CASE StopCommit \/ StopCommitted
        <3>1. pc = "committing" /\ Stopped("restoring") /\ UNCHANGED writes
            BY <2>5 DEF StopCommit, StopCommitted
        <3>2. SameRequest(job, job') /\ pc' = "restoring"
            BY <2>1, <3>1
        <3> QED BY <1>1, <3>1, <3>2 DEF Served, Editing, SameRequest
    <2>6. CASE StopEntering \/ StopFailing
        <3>1. pc \in {"entering", "failing"} /\ writes' = NoWrites
            BY <2>6 DEF StopEntering, StopFailing, LeaveWrites
        <3>2. CASE Finish BY <1>3, <3>1, <3>2
        <3>3. CASE job.kind = "edit" /\ Stopped("restoring")
            <4>1. SameRequest(job, job') /\ pc' = "restoring"
                BY <2>1, <3>1, <3>3
            <4> QED BY <3>1, <3>3, <4>1 DEF Served, Editing, SameRequest
        <3> QED BY <2>6, <3>2, <3>3 DEF StopEntering, StopFailing, LeaveWrites
    <2>7. CASE StopRestoring \/ StopUndoing
        <3>1. pc \in {"restoring", "undoing"} /\ Stopped("undoing") /\ UNCHANGED writes
            BY <2>7 DEF StopRestoring, StopUndoing
        <3>2. SameRequest(job, job') /\ pc' = "undoing"
            BY <2>1, <3>1
        <3> QED BY <1>1, <3>1, <3>2 DEF Served, Editing, SameRequest
    <2>8. CASE StopUndone
        <3>1. pc = "undoing" /\ Finish /\ UNCHANGED writes
            BY <2>8 DEF StopUndone
        <3> QED BY <1>1, <1>3, <3>1 DEF Served
    <2> QED BY <1>6, <2>2, <2>3, <2>4, <2>5, <2>6, <2>7, <2>8 DEF Stop
<1>7. CASE Background
    <2>1. CASE \E o \in Outputs : Land(o)
        <3>1. pc \in {"running", "entering", "draining", "failing"} /\ UNCHANGED <<pc, job, turns>>
            BY <1>1, <2>1 DEF Land, Served, NoWrites
        <3> QED BY <1>1, <3>1 DEF Served, Editing, HasTurn
    <2>2. ASSUME NEW o \in Outputs, WriteFails(o) PROVE Served'
        <3>1. /\ writes[o] # <<>> /\ job' = [job EXCEPT !.lost = TRUE]
              /\ UNCHANGED <<pc, turns>>
            BY <2>2 DEF WriteFails
        <3>2. pc \in {"running", "entering", "draining", "failing"}
            BY <1>1, <3>1 DEF Served, NoWrites
        <3>3. SameRequest(job, job')
            BY <1>2, <3>1, <3>2, RequestLost
        <3> QED BY <1>1, <3>1, <3>2, <3>3 DEF Served, Editing, HasTurn, SameRequest
    <2>3. CASE (\E o \in Outputs : LandLate(o)) \/ (\E id \in Messages : RestoreAdrift(id))
        <3>1. UNCHANGED <<pc, job, turns, writes>> /\ NoWrites' = NoWrites
            BY <2>3 DEF LandLate, RestoreAdrift, NoWrites
        <3> QED BY <1>1, <3>1 DEF Served, Editing, HasTurn
    <2> QED BY <1>7, <2>1, <2>2, <2>3 DEF Background
<1>8. CASE Crash
    BY <1>3, <1>8 DEF Crash
<1> QED BY <1>4, <1>5, <1>6, <1>7, <1>8 DEF Next
-----------------------------------------------------------------------------
(* The timeline's order, whatever is interrupted. *)

\* The invariant behind TimelineIsOrdered: the types, one order in the timeline
\* and in every archive, and what each phase of a request relies on.
THEOREM OrderInductive == Spec => []OrderInv
<1>1. Init => OrderInv
    <2> SUFFICES ASSUME Init PROVE OrderInv
        OBVIOUS
    <2>1. /\ DOMAIN steps = {} /\ elements = {} /\ blobs = {} /\ DOMAIN archive = {}
          /\ steps \in [DOMAIN steps -> Row]
          /\ pc = "idle" /\ job = NoJob /\ turns = <<>> /\ writes = NoWrites /\ late = NoWrites
          /\ adrift = {}
        BY DEF Init, HistoryInit
    <2>2. HistoryTypeOK
        BY <2>1 DEF HistoryTypeOK, IsTimeline
    <2>3. Ordered
        BY <2>1, <2>2 DEF Ordered, Distinct, Bounded
    <2>4. TypeOK
        BY <2>1, <2>2, NoWritesTyped DEF TypeOK, Pcs
    <2>5. Served
        BY <2>1 DEF Served, Editing
    <2> QED BY <2>3, <2>4, <2>5 DEF OrderInv
<1>2. OrderInv /\ [Next]_vars => OrderInv'
    <2> SUFFICES ASSUME OrderInv, [Next]_vars PROVE OrderInv'
        OBVIOUS
    <2>1. CASE Next
        <3>1. Ordered' /\ RequestTyped' /\ QueuesTyped' /\ Served' /\ adrift' \subseteq Messages
            BY <2>1, OrderedNext, TypedNext, ServedNext, AdriftNext
        <3> QED BY <3>1 DEF OrderInv, Ordered, TypeOK, RequestTyped, QueuesTyped
    <2>2. CASE UNCHANGED vars
        <3>1. UNCHANGED <<pc, job, turns, writes, late, adrift>> /\ UNCHANGED timeline
            BY <2>2 DEF vars
        <3>2. Ordered'
            BY <3>1, UnchangedOrdered DEF OrderInv
        <3>3. RequestTyped' /\ QueuesTyped' /\ adrift' \subseteq Messages
            BY <3>1, TypeParts DEF OrderInv, RequestTyped, QueuesTyped, IsRequest
        <3>4. Served'
            BY <3>1 DEF OrderInv, Served, Editing, HasTurn, timeline, NoWrites
        <3> QED BY <3>2, <3>3, <3>4 DEF OrderInv, Ordered, TypeOK, RequestTyped, QueuesTyped
    <2> QED BY <2>1, <2>2
<1> QED BY <1>1, <1>2, PTL DEF Spec

\* Every variable keeps its type, whatever a Stop or a crash interrupts.
THEOREM EditTypeCorrect == Spec => []TypeOK
<1>1. OrderInv => TypeOK
    BY DEF OrderInv
<1> QED BY <1>1, OrderInductive, PTL

\* No two steps share a place in the timeline, whatever a Stop or a crash
\* interrupts, and whatever archive it leaves behind.
THEOREM TimelineIsOrdered == Spec => []OrderIsTotal
<1>1. OrderInv => OrderIsTotal
    BY DEF OrderInv, Ordered, Distinct, OrderIsTotal
<1> QED BY <1>1, OrderInductive, PTL
-----------------------------------------------------------------------------
(***************************************************************************)
(* Archives, wherever a Stop arrives but at "staged", and no crash.        *)
(***************************************************************************)
Unstaged == "staged" \notin Stops /\ ~MayCrash

\* Besides the archives that a broken off restoration is still to put back,
\* there is only the one of the edit in progress.
ArchiveInv ==
    DOMAIN archive \ adrift \subseteq
        IF Editing /\ pc \notin {"staging", "cleaning"} THEN {job.id} ELSE {}

\* The archive of one message goes.
LEMMA ArchiveGoes ==
    ASSUME NEW id, RestoreRevision(id) \/ DropArchive(id)
    PROVE  DOMAIN archive' = DOMAIN archive \ {id}
<1>1. CASE archive' = Without(archive, {id})
    BY <1>1 DEF Without
<1>2. CASE RestoreRevision(id)
    <2>1. CASE id \in DOMAIN archive BY <1>1, <1>2, <2>1 DEF RestoreRevision
    <2>2. CASE id \notin DOMAIN archive BY <1>2, <2>2 DEF RestoreRevision, timeline
    <2> QED BY <2>1, <2>2
<1> QED BY <1>1, <1>2 DEF DropArchive

LEMMA ArchiveNext ==
    ASSUME OrderInv, ArchiveInv, Unstaged, Next
    PROVE  ArchiveInv'
<1>1. /\ TypeOK /\ Ordered /\ Served /\ adrift \subseteq Messages
      /\ pc # "idle" => IsRequest(job)
    BY RequestOfTask DEF OrderInv, TypeOK
<1>2. ~StopStaged /\ ~Crash
    BY DEF Unstaged, StopStaged, MayStop, Crash
<1>3. ASSUME archive' = archive, adrift' = adrift,
             pc \in {"idle", "sent", "staging"} \/ job.kind = "message"
      PROVE  ArchiveInv'
    <2>1. DOMAIN archive \ adrift = {}
        <3>1. CASE Editing
            BY <1>1, <1>3, <3>1 DEF ArchiveInv, Editing, Served
        <3>2. CASE ~Editing BY <3>2 DEF ArchiveInv
        <3> QED BY <3>1, <3>2
    <2> QED BY <1>3, <2>1 DEF ArchiveInv
<1>4. ASSUME archive' = archive, adrift' = adrift, pc # "idle", job.kind = "edit",
             pc' \notin {"idle", "staging", "cleaning"}, SameRequest(job, job')
      PROVE  ArchiveInv'
    BY <1>4 DEF ArchiveInv, Editing, SameRequest
<1>5. ASSUME NEW x, pc # "idle", Stopped(x) PROVE SameRequest(job, job') /\ pc' = x
    BY <1>1, <1>5, RequestStopped DEF Stopped
<1>6. ASSUME pc # "idle", Goto(pc') PROVE SameRequest(job, job')
    BY <1>6 DEF Goto, SameRequest
<1>7. ASSUME NEW id, adrift' = adrift, RestoreRevision(id) \/ DropArchive(id), Editing, id = job.id
      PROVE  ArchiveInv'
    BY <1>7, ArchiveGoes DEF ArchiveInv
<1>8. CASE Receive
    BY <1>3, <1>8 DEF Receive, Send, Edit, StoreMessage, timeline
<1>9. ASSUME pc # "idle", archive' = archive, adrift' = adrift,
             job.kind = "message" \/ (pc' \notin {"idle", "staging", "cleaning"} /\ SameRequest(job, job'))
      PROVE  ArchiveInv'
    BY <1>1, <1>3, <1>4, <1>9, RequestFacts
<1>10. CASE Work
    <2>1. CASE Reject \/ Start \/ StageFails
        BY <1>3, <2>1 DEF Reject, Start, StageFails, timeline
    <2>2. CASE Stage
        <3>1. /\ pc = "staging" /\ pc' = "opening" /\ job' = job /\ adrift' = adrift
              /\ job.id \in Messages /\ job.text \in Texts /\ job.kind = "edit"
              /\ UpdateMessage(job.id, job.text)
            BY <1>1, <2>2, RequestFacts DEF Stage, Goto, Served
        <3>2. DOMAIN archive' \subseteq DOMAIN archive \cup {job.id}
            BY <1>1, <3>1, UpdateOrdered
        <3>3. DOMAIN archive \ adrift = {}
            BY <3>1 DEF ArchiveInv
        <3> QED BY <3>1, <3>2, <3>3 DEF ArchiveInv, Editing
    <2>3. CASE Truncate
        BY <1>6, <1>9, <2>3 DEF Truncate, TruncateRevision, Goto
    <2>4. CASE OpenFails \/ Enter \/ CommitFails
        <3>1. /\ pc # "idle" /\ archive' = archive /\ adrift' = adrift /\ Goto(pc')
              /\ pc' \in {"undoing", "restoring", "draining"}
            BY <2>4 DEF OpenFails, Enter, CommitFails, Goto, timeline
        <3> QED BY <1>6, <1>9, <3>1
    <2>5. ASSUME NEW o \in Outputs, NEW text \in Texts,
                 Show(o, text) \/ Answer(o, text) \/ RunFails(o, text)
          PROVE  ArchiveInv'
        <3>1. /\ pc = "running" /\ pc' \in {"running", "entering", "failing"}
              /\ archive' = archive /\ adrift' = adrift
            BY <2>5 DEF Show, Answer, RunFails, Goto, timeline
        <3>2. SameRequest(job, job')
            <4>1. CASE Show(o, text) BY <1>1, <3>1, <4>1, RequestShows DEF Show
            <4>2. CASE Answer(o, text) BY <4>2 DEF Answer, Goto, SameRequest
            <4>3. CASE RunFails(o, text) BY <1>1, <3>1, <4>3, RequestCaught DEF RunFails
            <4> QED BY <2>5, <4>1, <4>2, <4>3
        <3> QED BY <1>9, <3>1, <3>2
    <2>6. ASSUME pc # "idle", Fail, archive' = archive, adrift' = adrift PROVE ArchiveInv'
        <3>1. CASE job.kind = "edit"
            BY <1>6, <1>9, <2>6, <3>1 DEF Fail, Goto
        <3>2. CASE job.kind # "edit"
            BY <1>1, <1>9, <2>6, <3>2, RequestFacts
        <3> QED BY <3>1, <3>2
    <2>7. CASE Drained
        <3>1. pc = "draining" /\ archive' = archive /\ adrift' = adrift
            BY <2>7 DEF Drained, timeline
        <3>2. CASE Fail BY <2>6, <3>1, <3>2
        <3>3. CASE Goto("committing")
            BY <1>6, <1>9, <3>1, <3>3 DEF Goto
        <3>4. CASE Finish /\ job.kind # "edit"
            BY <1>1, <1>9, <3>1, <3>4, RequestFacts
        <3> QED BY <2>7, <3>2, <3>3, <3>4 DEF Drained
    <2>8. CASE FailureDrained
        BY <2>6, <2>8 DEF FailureDrained, timeline
    <2>9. CASE Commit \/ Restore \/ Undo
        <3>1. Editing /\ adrift' = adrift
            BY <1>1, <2>9 DEF Commit, Restore, Undo, Editing, Served
        <3>2. RestoreRevision(job.id) \/ DropArchive(job.id)
            BY <2>9 DEF Commit, Restore, Undo
        <3> QED BY <1>7, <3>1, <3>2
    <2>10. CASE Clean
        <3>1. pc = "cleaning" /\ archive' = archive /\ adrift' = adrift
            BY <2>10 DEF Clean, CleanUp
        <3> QED BY <3>1 DEF ArchiveInv
    <2> QED BY <1>10, <2>1, <2>2, <2>3, <2>4, <2>5, <2>7, <2>8, <2>9, <2>10 DEF Work
<1>11. CASE Stop
    <2>1. CASE StopEarly
        <3>1. archive' = archive /\ adrift' = adrift
            BY <2>1 DEF StopEarly, timeline
        <3>2. CASE pc \in {"sent", "staging"} BY <1>3, <3>1, <3>2
        <3>3. CASE pc = "opening" /\ (Stopped("undoing") \/ Stopped("restoring"))
            BY <1>5, <1>9, <3>1, <3>3
        <3> QED BY <2>1, <3>2, <3>3 DEF StopEarly
    <2>2. CASE StopRun \/ StopCommit \/ StopUndoing
        <3>1. /\ pc # "idle" /\ archive' = archive /\ adrift' = adrift
              /\ Stopped("failing") \/ Stopped("restoring") \/ Stopped("undoing")
            BY <2>2 DEF StopRun, StopCommit, StopUndoing, timeline
        <3> QED BY <1>5, <1>9, <3>1
    <2>3. CASE StopDrain
        <3>1. /\ pc = "draining" /\ pc' = "draining" /\ archive' = archive /\ adrift' = adrift
              /\ job' = [job EXCEPT !.stopped = TRUE, !.lost = TRUE]
            BY <2>3 DEF StopDrain, timeline
        <3> QED BY <1>1, <1>9, <3>1, RequestStoppedAndLost
    <2>4. CASE StopCommitted
        <3>1. Editing /\ adrift' = adrift /\ DropArchive(job.id)
            BY <1>1, <2>4 DEF StopCommitted, Editing, Served
        <3> QED BY <1>7, <3>1
    <2>5. CASE StopEntering \/ StopFailing
        <3>1. /\ pc # "idle" /\ archive' = archive /\ adrift' = adrift
              /\ IF job.kind = "edit" THEN Stopped("restoring") ELSE Finish
            BY <2>5 DEF StopEntering, StopFailing, LeaveWrites, timeline
        <3> QED BY <1>1, <1>5, <1>9, <3>1, RequestFacts
    <2>6. CASE StopRestoring \/ StopUndone
        <3>1. Editing /\ archive' = archive /\ adrift' = adrift \cup {job.id}
            BY <1>1, <2>6 DEF StopRestoring, StopUndone, SetAdrift, Editing, Served, timeline
        <3> QED BY <3>1 DEF ArchiveInv
    <2> QED BY <1>2, <1>11, <2>1, <2>2, <2>3, <2>4, <2>5, <2>6 DEF Stop
<1>12. CASE Background
    <2>1. ASSUME NEW id \in Messages, RestoreAdrift(id) PROVE ArchiveInv'
        <3>1. DOMAIN archive' = DOMAIN archive \ {id} /\ adrift' = adrift \ {id}
              /\ pc' = pc /\ job' = job
            BY <2>1, ArchiveGoes DEF RestoreAdrift
        <3> QED BY <3>1 DEF ArchiveInv, Editing
    <2>2. ASSUME NEW o \in Outputs, Land(o) \/ WriteFails(o) \/ LandLate(o) PROVE ArchiveInv'
        <3>1. archive' = archive /\ adrift' = adrift /\ pc' = pc
            BY <2>2 DEF Land, WriteFails, LandLate, WriteStep, timeline
        <3>2. job'.kind = job.kind /\ job'.id = job.id
            <4>1. CASE job' = job BY <4>1
            <4>2. CASE WriteFails(o)
                <5>1. writes # NoWrites
                    BY <4>2 DEF WriteFails, NoWrites
                <5>2. pc # "idle"
                    BY <1>1, <5>1 DEF Served
                <5> QED BY <1>1, <4>2, <5>2, RequestLost DEF WriteFails, SameRequest
            <4> QED BY <2>2, <4>1, <4>2 DEF Land, LandLate
        <3> QED BY <3>1, <3>2 DEF ArchiveInv, Editing
    <2> QED BY <1>12, <2>1, <2>2 DEF Background
<1> QED BY <1>2, <1>8, <1>10, <1>11, <1>12 DEF Next

\* No archive outlives its request but one that a restoration, broken off by a
\* Stop, is still to put back.
THEOREM ArchivesAreRemoved == ASSUME Unstaged PROVE Spec => []ArchivesAreTemporary
<1>1. Init => ArchiveInv
    BY DEF Init, HistoryInit, ArchiveInv
<1>2. OrderInv /\ ArchiveInv /\ [Next]_vars => ArchiveInv'
    <2>1. ASSUME ArchiveInv, UNCHANGED vars PROVE ArchiveInv'
        BY <2>1 DEF vars, timeline, ArchiveInv, Editing
    <2> QED BY <2>1, ArchiveNext
<1>3. ArchiveInv => ArchivesAreTemporary
    BY DEF ArchiveInv, Editing, ArchivesAreTemporary
<1> QED BY <1>1, <1>2, <1>3, OrderInductive, PTL DEF Spec
-----------------------------------------------------------------------------
(***************************************************************************)
(* What holds when no Stop arrives in the six unprotected places and the   *)
(* process does not die.  The runs stop_unprotected, stop_in_drain and     *)
(* edit_after_crash show that it fails otherwise.                          *)
(***************************************************************************)
Protected ==
    /\ Stops \cap {"staged", "committed", "entering", "failing", "restoring", "undone"} = {}
    /\ ~MayCrash

\* The timeline s shows the Turns of the history h, in their order.
Shows(h, s) ==
    /\ \A k \in DOMAIN h : h[k].id \in DOMAIN s /\ s[h[k].id].text = h[k].text
    /\ \A i, k \in DOMAIN h : i < k => s[h[i].id].order < s[h[k].id].order

Settled == DOMAIN archive = {} /\ Shows(turns, steps)

\* A message, and the Turn it begins, come after everything else.
Sent ==
    /\ Settled
    /\ job.id \in DOMAIN steps /\ steps[job.id].text = job.text
    /\ pc \in {"sent", "running"} =>
         \A k \in DOMAIN turns : steps[turns[k].id].order < steps[job.id].order

\* Where the edit j cuts the timeline.
Root(j) == j.was.steps[j.id].order

\* What the edit j may go back to.
Kept(j, b) ==
    /\ j.id \in DOMAIN j.was.steps /\ j.was.steps[j.id].text # j.text
    /\ j.was.elements \subseteq DOMAIN j.was.steps
    /\ j.was.elements \subseteq b
    /\ Shows(j.was.turns, j.was.steps)
    /\ \E k \in DOMAIN j.was.turns : j.was.turns[k].id = j.id

Unchanged(j, s, e) == s = j.was.steps /\ e = j.was.elements

\* The archive holds the rows from the edited message on.
Replaced(j, a) ==
    /\ DOMAIN a = {j.id}
    /\ a[j.id].steps = Only(j.was.steps, From(j.was.steps, Root(j)))
    /\ a[j.id].elements = j.was.elements \cap From(j.was.steps, Root(j))

\* The rows ahead of the edited message are as they were.
SameHead(j, s, e) ==
    /\ \A i \in DOMAIN j.was.steps :
         j.was.steps[i].order < Root(j) => i \in DOMAIN s /\ s[i] = j.was.steps[i]
    /\ \A i \in DOMAIN s :
         s[i].order < Root(j) => i \in DOMAIN j.was.steps /\ s[i] = j.was.steps[i]
    /\ e \subseteq j.was.elements
    /\ \A i \in j.was.elements : j.was.steps[i].order < Root(j) => i \in e

\* The message has its place and its new text.
Edited(j, s) ==
    j.id \in DOMAIN s /\ s[j.id].order = Root(j) /\ s[j.id].text = j.text

\* What comes after the message is what the new Turn shows.
Shown(j, s, w) ==
    /\ Beyond(s, Root(j)) \subseteq j.shown
    /\ j.shown \cap DOMAIN s \subseteq Beyond(s, Root(j))
    /\ \A o \in Outputs : w[o] # <<>> => o \in j.shown

\* All of it is stored, or will be, unless a write failed.
Complete(j, s, w) == \A o \in j.shown : o \in DOMAIN s \/ w[o] # <<>>

NewTurns(j, h) == h = Append(Ahead(j.was.turns, j.id), [id |-> j.id, text |-> j.text])

EditInv ==
    /\ Kept(job, blobs)
    /\ pc = "staging" => Unchanged(job, steps, elements) /\ DOMAIN archive = {}
    /\ pc \in {"staging", "opening"} => job.shown = {}
    /\ pc \in {"opening", "running", "entering", "draining", "failing", "committing", "restoring"} =>
         Replaced(job, archive) /\ SameHead(job, steps, elements)
    /\ pc \in {"opening", "running", "entering", "draining", "failing", "committing", "cleaning"} =>
         Edited(job, steps)
    /\ pc \in {"running", "entering", "draining", "failing", "committing", "cleaning"} =>
         Shown(job, steps, writes)
    /\ pc \in {"running", "entering", "draining"} => job.lost \/ Complete(job, steps, writes)
    /\ pc \in {"committing", "cleaning"} => Complete(job, steps, writes)
    /\ pc \in {"entering", "draining", "committing", "cleaning"} => NewTurns(job, turns)
    /\ pc = "cleaning" => SameHead(job, steps, elements) /\ DOMAIN archive = {}
    /\ pc = "undoing" =>
         \/ Unchanged(job, steps, elements) /\ DOMAIN archive = {}
         \/ Replaced(job, archive) /\ SameHead(job, steps, elements)

SafeInv ==
    /\ late = NoWrites
    /\ elements \subseteq blobs
    /\ pc = "idle" => Settled
    /\ pc # "idle" => IF job.kind = "edit" THEN EditInv ELSE Sent
-----------------------------------------------------------------------------
(* What the transactions do to the timeline of an edit. *)

LEMMA OrdersAreNumbers ==
    ASSUME NEW s, IsTimeline(s)
    PROVE  \A i \in DOMAIN s : s[i].order \in Nat /\ s[i] \in Row
BY DEF IsTimeline, Row

LEMMA RootIsNumber ==
    ASSUME NEW j, IsTimeline(j.was.steps), j.id \in DOMAIN j.was.steps
    PROVE  Root(j) \in Nat
BY OrdersAreNumbers DEF Root

\* The same request is the same edit.
LEMMA SameEdit ==
    ASSUME NEW j, NEW k, SameRequest(j, k), NEW s, NEW e, NEW a, NEW b, NEW h
    PROVE  /\ Kept(j, b) => Kept(k, b)
           /\ Unchanged(j, s, e) => Unchanged(k, s, e)
           /\ Replaced(j, a) => Replaced(k, a)
           /\ SameHead(j, s, e) => SameHead(k, s, e)
           /\ Edited(j, s) => Edited(k, s)
           /\ NewTurns(j, h) => NewTurns(k, h)
           /\ Root(j) = Root(k)
<1>1. j.id = k.id /\ j.text = k.text /\ j.was = k.was
    BY DEF SameRequest
<1>2. Root(j) = Root(k)
    BY <1>1 DEF Root
<1>3. Kept(j, b) => Kept(k, b)
    BY <1>1 DEF Kept
<1>4. Unchanged(j, s, e) => Unchanged(k, s, e)
    BY <1>1 DEF Unchanged
<1>5. Replaced(j, a) => Replaced(k, a)
    BY <1>1, <1>2 DEF Replaced
<1>6. SameHead(j, s, e) => SameHead(k, s, e)
    BY <1>1, <1>2 DEF SameHead
<1>7. Edited(j, s) => Edited(k, s)
    BY <1>1, <1>2 DEF Edited
<1>8. NewTurns(j, h) => NewTurns(k, h)
    BY <1>1 DEF NewTurns
<1> QED BY <1>2, <1>3, <1>4, <1>5, <1>6, <1>7, <1>8

\* The new text leaves the rows ahead alone.
LEMMA StageHead ==
    ASSUME NEW j, NEW s, NEW e, IsTimeline(s), Bounded(s), Unchanged(j, s, e),
           j.id \in DOMAIN s, j.id \in StepIds, j.text \in Texts,
           NEW t, t = Upserted(s, j.id, j.text)
    PROVE  SameHead(j, t, e) /\ Edited(j, t)
<1>1. s = j.was.steps /\ e = j.was.elements
    BY DEF Unchanged
<1>2. /\ DOMAIN t = DOMAIN s \cup {j.id}
      /\ \A i \in DOMAIN s : t[i].order = s[i].order
      /\ \A i \in DOMAIN s : i # j.id => t[i] = s[i]
      /\ t[j.id].text = j.text
    <2>1. IsTimeline(t) /\ Written(s, j.id, j.text, t)
        BY UpsertedRows
    <2> QED BY <2>1 DEF Written
<1>3. DOMAIN t = DOMAIN s
    BY <1>2
<1>4. Root(j) = s[j.id].order /\ Root(j) \in Nat
    BY <1>1, RootIsNumber DEF Root
<1>5. \A i \in DOMAIN s : s[i].order < Root(j) => i # j.id
    BY <1>4
<1>6. SameHead(j, t, e)
    BY <1>1, <1>2, <1>3, <1>5 DEF SameHead
<1> QED BY <1>2, <1>3, <1>4, <1>6 DEF Edited

\* Truncation leaves nothing after the message, and the rows ahead alone.
LEMMA TruncateHead ==
    ASSUME NEW j, NEW s, NEW e, IsTimeline(s), e \subseteq DOMAIN s,
           SameHead(j, s, e), Edited(j, s), j.was.elements \subseteq DOMAIN j.was.steps,
           NEW t, t = Without(s, Beyond(s, Root(j))),
           NEW f, f = e \ Beyond(s, Root(j))
    PROVE  SameHead(j, t, f) /\ Edited(j, t) /\ Beyond(t, Root(j)) = {}
<1>1. PICK n : n = Root(j)
    OBVIOUS
<1>2. n \in Nat /\ \A i \in DOMAIN s : s[i].order \in Nat
    BY <1>1, OrdersAreNumbers DEF Edited
<1>3. PICK gone : gone = Beyond(s, n)
    OBVIOUS
<1>4. gone = {i \in DOMAIN s : s[i].order > n}
    BY <1>3 DEF Beyond
<1>5. t = [i \in DOMAIN s \ gone |-> s[i]] /\ f = e \ gone
    BY <1>1, <1>3 DEF Without
<1>6. DOMAIN t = DOMAIN s \ gone /\ \A i \in DOMAIN t : t[i] = s[i]
    BY <1>5
<1>7. \A i \in DOMAIN s : i \in DOMAIN t <=> ~(s[i].order > n)
    BY <1>4, <1>6
<1>8. Beyond(t, n) = {}
    BY <1>6, <1>7 DEF Beyond
<1>9. Edited(j, t)
    BY <1>1, <1>2, <1>6, <1>7 DEF Edited
<1>10. SameHead(j, t, f)
    <2>1. /\ \A i \in DOMAIN j.was.steps :
               j.was.steps[i].order < n => i \in DOMAIN s /\ s[i] = j.was.steps[i]
          /\ \A i \in DOMAIN s :
               s[i].order < n => i \in DOMAIN j.was.steps /\ s[i] = j.was.steps[i]
          /\ e \subseteq j.was.elements
          /\ \A i \in j.was.elements : j.was.steps[i].order < n => i \in e
        BY <1>1 DEF SameHead
    <2>2. \A i \in DOMAIN j.was.steps :
             j.was.steps[i].order < n => i \in DOMAIN t /\ t[i] = j.was.steps[i]
        BY <1>2, <1>6, <1>7, <2>1
    <2>3. \A i \in DOMAIN t :
             t[i].order < n => i \in DOMAIN j.was.steps /\ t[i] = j.was.steps[i]
        BY <1>6, <2>1
    <2>4. \A i \in j.was.elements : j.was.steps[i].order < n => i \in f
        BY <1>2, <1>4, <1>5, <2>1
    <2>5. f \subseteq j.was.elements
        BY <1>5, <2>1
    <2> QED BY <1>1, <2>2, <2>3, <2>4, <2>5 DEF SameHead
<1> QED BY <1>1, <1>8, <1>9, <1>10

\* A write of the new Turn lands after the message.
LEMMA WriteHead ==
    ASSUME NEW j, NEW s, NEW e, IsTimeline(s), Bounded(s),
           SameHead(j, s, e), Edited(j, s),
           NEW o \in StepIds, o # j.id, NEW text \in Texts,
           o \in DOMAIN s => o \in Beyond(s, Root(j)),
           NEW t, t = Upserted(s, o, text)
    PROVE  SameHead(j, t, e) /\ Edited(j, t) /\ Beyond(t, Root(j)) = Beyond(s, Root(j)) \cup {o}
<1>1. PICK n : n = Root(j)
    OBVIOUS
<1>2. /\ DOMAIN t = DOMAIN s \cup {o}
      /\ \A i \in DOMAIN s : t[i].order = s[i].order
      /\ \A i \in DOMAIN s : i # o => t[i] = s[i]
      /\ o \notin DOMAIN s => \A i \in DOMAIN s : t[i].order < t[o].order
      /\ IsTimeline(t)
    <2>1. IsTimeline(t) /\ Written(s, o, text, t)
        BY UpsertedRows
    <2> QED BY <2>1 DEF Written
<1>3. n \in Nat /\ j.id \in DOMAIN s /\ s[j.id].order = n /\ t[o].order \in Nat
    BY <1>1, <1>2, OrdersAreNumbers DEF Edited
<1>4. t[o].order > n
    <2>1. CASE o \in DOMAIN s BY <1>1, <1>2, <2>1 DEF Beyond
    <2>2. CASE o \notin DOMAIN s BY <1>2, <1>3, <2>2
    <2> QED BY <2>1, <2>2
<1>5. Edited(j, t)
    BY <1>2 DEF Edited
<1>6. Beyond(t, n) = Beyond(s, n) \cup {o}
    BY <1>2, <1>4 DEF Beyond
<1>7. SameHead(j, t, e)
    <2>1. /\ \A i \in DOMAIN j.was.steps :
               j.was.steps[i].order < n => i \in DOMAIN s /\ s[i] = j.was.steps[i]
          /\ \A i \in DOMAIN s :
               s[i].order < n => i \in DOMAIN j.was.steps /\ s[i] = j.was.steps[i]
          /\ e \subseteq j.was.elements
          /\ \A i \in j.was.elements : j.was.steps[i].order < n => i \in e
        BY <1>1 DEF SameHead
    <2>2. ~(t[o].order < n)
        BY <1>3, <1>4
    <2>3. \A i \in DOMAIN j.was.steps :
             j.was.steps[i].order < n => i \in DOMAIN t /\ t[i] = j.was.steps[i]
        BY <1>2, <2>1, <2>2
    <2>4. \A i \in DOMAIN t :
             t[i].order < n => i \in DOMAIN j.was.steps /\ t[i] = j.was.steps[i]
        BY <1>2, <2>1, <2>2
    <2> QED BY <1>1, <2>1, <2>3, <2>4 DEF SameHead
<1> QED BY <1>1, <1>5, <1>6, <1>7

\* A write of the new Turn, seen from what it shows.
LEMMA WriteShown ==
    ASSUME NEW j, NEW s, NEW o \in Outputs, NEW text \in Texts, NEW w, NEW v,
           IsTimeline(s), Bounded(s), Edited(j, s), Shown(j, s, w), w[o] # <<>>,
           \A p \in Outputs : p # o => v[p] = w[p],
           NEW t, t = Upserted(s, o, text),
           Beyond(t, Root(j)) = Beyond(s, Root(j)) \cup {o}
    PROVE  Shown(j, t, v) /\ (j.shown \subseteq Outputs /\ Complete(j, s, w) => Complete(j, t, v))
<1>1. o \in StepIds
    BY DEF StepIds
<1>2. DOMAIN t = DOMAIN s \cup {o}
    <2>1. Written(s, o, text, t)
        BY <1>1, UpsertedRows
    <2> QED BY <2>1 DEF Written
<1>3. o \in j.shown
    BY DEF Shown
<1>4. Shown(j, t, v)
    BY <1>2, <1>3 DEF Shown
<1>5. j.shown \subseteq Outputs /\ Complete(j, s, w) => Complete(j, t, v)
    BY <1>2 DEF Complete
<1> QED BY <1>4, <1>5

\* A write of a Turn leaves the messages alone.
LEMMA WriteShows ==
    ASSUME NEW s, IsTimeline(s), Bounded(s), NEW o \in Outputs, NEW text \in Texts,
           NEW t, t = Upserted(s, o, text)
    PROVE  /\ \A m \in Messages : m \in DOMAIN s => m \in DOMAIN t /\ t[m] = s[m]
           /\ \A h \in Seq(Turn) : Shows(h, s) => Shows(h, t)
<1>1. o \in StepIds /\ o \notin Messages
    BY StepAssumption DEF StepIds
<1>2. Written(s, o, text, t)
    BY <1>1, UpsertedRows
<1>3. \A m \in Messages : m \in DOMAIN s => m \in DOMAIN t /\ t[m] = s[m]
    BY <1>1, <1>2 DEF Written
<1>4. ASSUME NEW h \in Seq(Turn), Shows(h, s) PROVE Shows(h, t)
    <2>1. \A k \in DOMAIN h : h[k].id \in Messages
        <3>1. DOMAIN h = 1..Len(h) /\ \A k \in 1..Len(h) : h[k] \in Turn
            BY LenProperties, ElementOfSeq
        <3> QED BY <3>1 DEF Turn
    <2>2. \A k \in DOMAIN h : h[k].id \in DOMAIN t /\ t[h[k].id] = s[h[k].id]
        BY <1>3, <1>4, <2>1 DEF Shows
    <2> QED BY <1>4, <2>2 DEF Shows
<1> QED BY <1>3, <1>4

\* The archive of an edit begins at its message.
LEMMA ArchiveOfEdit ==
    ASSUME Ordered, Kept(job, blobs), Replaced(job, archive), IsTimeline(job.was.steps)
    PROVE  /\ job.id \in DOMAIN archive
           /\ ArchivedOrder(job.id) = Root(job)
           /\ archive[job.id].elements \subseteq blobs
<1>1. job.id \in DOMAIN job.was.steps
    BY DEF Kept
<1>2. Root(job) \in Nat
    BY <1>1, RootIsNumber
<1>3. job.id \in From(job.was.steps, Root(job))
    BY <1>1, <1>2 DEF From, Root
<1>4. archive[job.id].steps = Only(job.was.steps, From(job.was.steps, Root(job)))
    BY DEF Replaced
<1>5. archive[job.id].steps[job.id] = job.was.steps[job.id]
    BY <1>1, <1>3, <1>4 DEF Only
<1>6. archive[job.id].elements \subseteq blobs /\ job.id \in DOMAIN archive
    BY DEF Replaced, Kept
<1> QED BY <1>5, <1>6 DEF ArchivedOrder, Root

\* Restoring the archive of an edit brings the whole timeline back.
LEMMA RestoredEdit ==
    ASSUME Ordered, Kept(job, blobs), Replaced(job, archive), IsTimeline(job.was.steps),
           SameHead(job, steps, elements), elements \subseteq blobs,
           RestoreRevision(job.id)
    PROVE  /\ Unchanged(job, steps', elements') /\ DOMAIN archive' = {}
           /\ Kept(job, blobs') /\ elements' \subseteq blobs'
<1>1. job.id \in DOMAIN archive /\ ArchivedOrder(job.id) = Root(job)
    BY ArchiveOfEdit
<1>2. PICK was, n : was = job.was /\ n = Root(job)
    OBVIOUS
<1>3. PICK old : old = archive[job.id]
    OBVIOUS
<1>4. PICK gone : gone = From(steps, n)
    OBVIOUS
<1>5. /\ DOMAIN steps' = (DOMAIN steps \ gone) \cup DOMAIN old.steps
      /\ \A i \in DOMAIN old.steps : steps'[i] = old.steps[i]
      /\ \A i \in DOMAIN steps \ gone : i \notin DOMAIN old.steps => steps'[i] = steps[i]
      /\ elements' = (elements \ gone) \cup old.elements
      /\ archive' = Without(archive, {job.id})
      /\ blobs' = blobs \ ((elements \cap gone) \ elements')
      /\ IsTimeline(steps')
    <2>1. gone = From(steps, ArchivedOrder(job.id))
        BY <1>1, <1>2, <1>4
    <2> QED BY <1>1, <1>3, <2>1, RestoredRows
<1>6. job.id \in DOMAIN was.steps /\ was.elements \subseteq DOMAIN was.steps
      /\ was.elements \subseteq blobs /\ IsTimeline(was.steps)
    BY <1>2 DEF Kept
<1>7. n \in Nat
    BY <1>2, <1>6, RootIsNumber
<1>8. /\ \A i \in DOMAIN steps : steps[i].order \in Nat
      /\ \A i \in DOMAIN was.steps : was.steps[i].order \in Nat
    BY <1>6, OrdersAreNumbers DEF Ordered, HistoryTypeOK
<1>9. PICK tail : tail = From(was.steps, n)
    OBVIOUS
<1>10. old.steps = Only(was.steps, tail) /\ old.elements = was.elements \cap tail
    BY <1>2, <1>3, <1>9 DEF Replaced
<1>11. /\ \A i : i \in tail <=> i \in DOMAIN was.steps /\ was.steps[i].order >= n
       /\ \A i : i \in gone <=> i \in DOMAIN steps /\ steps[i].order >= n
    BY <1>4, <1>9 DEF From
<1>12. DOMAIN old.steps = tail /\ \A i \in tail : old.steps[i] = was.steps[i]
    BY <1>10, <1>11 DEF Only
<1>13. /\ \A i \in DOMAIN was.steps :
            was.steps[i].order < n => i \in DOMAIN steps /\ steps[i] = was.steps[i]
       /\ \A i \in DOMAIN steps :
            steps[i].order < n => i \in DOMAIN was.steps /\ steps[i] = was.steps[i]
       /\ elements \subseteq was.elements
       /\ \A i \in was.elements : was.steps[i].order < n => i \in elements
    BY <1>2 DEF SameHead
<1>14. \A i \in DOMAIN steps \ gone : i \in DOMAIN was.steps /\ i \notin tail /\ steps[i] = was.steps[i]
    BY <1>7, <1>8, <1>11, <1>13
<1>15. \A i \in DOMAIN was.steps : i \notin tail => i \in DOMAIN steps \ gone
    BY <1>7, <1>8, <1>11, <1>13
<1>16. DOMAIN steps' = DOMAIN was.steps
    BY <1>5, <1>11, <1>12, <1>14, <1>15
<1>17. \A i \in DOMAIN was.steps : steps'[i] = was.steps[i]
    BY <1>5, <1>12, <1>14, <1>15
<1>18. steps' = was.steps
    <2>1. steps' \in [DOMAIN was.steps -> Row] /\ was.steps \in [DOMAIN was.steps -> Row]
        BY <1>5, <1>6, <1>16 DEF IsTimeline
    <2> QED BY <1>17, <2>1
<1>19. elements' = was.elements
    <2>1. elements \subseteq DOMAIN steps
        BY DEF Ordered
    <2>2. \A i \in was.elements : i \notin tail => i \in elements \ gone
        BY <1>6, <1>7, <1>8, <1>11, <1>13
    <2> QED BY <1>5, <1>10, <1>13, <2>2
<1>20. DOMAIN archive' = {}
    BY <1>5 DEF Without, Replaced
<1>21. was.elements \subseteq blobs'
    BY <1>5, <1>6, <1>19
<1>22. Kept(job, blobs')
    BY <1>2, <1>21 DEF Kept
<1> QED BY <1>2, <1>18, <1>19, <1>20, <1>21, <1>22 DEF Unchanged

\* Undone ahead of the timeline's transaction or after its rollback, an edit
\* leaves nothing.
LEMMA UndoneEdit ==
    ASSUME Ordered, Kept(job, blobs), IsTimeline(job.was.steps), elements \subseteq blobs,
           \/ Unchanged(job, steps, elements) /\ DOMAIN archive = {}
           \/ Replaced(job, archive) /\ SameHead(job, steps, elements),
           RestoreRevision(job.id)
    PROVE  /\ Unchanged(job, steps', elements') /\ DOMAIN archive' = {}
           /\ elements' \subseteq blobs'
<1>1. CASE Unchanged(job, steps, elements) /\ DOMAIN archive = {}
    <2>1. UNCHANGED timeline
        BY <1>1 DEF RestoreRevision
    <2>2. steps' = steps /\ elements' = elements /\ archive' = archive /\ blobs' = blobs
        BY <2>1 DEF timeline
    <2> QED BY <1>1, <2>2 DEF Unchanged
<1>2. CASE Replaced(job, archive) /\ SameHead(job, steps, elements)
    BY <1>2, RestoredEdit
<1> QED BY <1>1, <1>2

\* A committed edit shows its Turns: those ahead of the message, and its own.
LEMMA EditedTurns ==
    ASSUME NEW j, IsTimeline(j.was.steps), j.was.turns \in Seq(Turn),
           j.id \in Messages, j.text \in Texts, NEW s, NEW e, NEW b, NEW h,
           Kept(j, b), SameHead(j, s, e), Edited(j, s), NewTurns(j, h)
    PROVE  Shows(h, s) /\ h[Len(h)] = [id |-> j.id, text |-> j.text]
<1>1. PICK old, ahead, new, n :
        /\ old = j.was.turns /\ ahead = Ahead(j.was.turns, j.id)
        /\ new = [id |-> j.id, text |-> j.text] /\ n = Root(j)
    OBVIOUS
<1>2. old \in Seq(Turn) /\ \E k \in DOMAIN old : old[k].id = j.id
    BY <1>1 DEF Kept
<1>3. ahead = Ahead(old, j.id)
    BY <1>1
<1>4. ahead \in Seq(Turn)
    BY <1>2, <1>3, AheadFacts
<1>5. PICK p \in DOMAIN old :
        /\ old[p].id = j.id /\ Len(ahead) = p - 1
        /\ \A k \in 1..(p - 1) : k \in DOMAIN old /\ ahead[k] = old[k]
    BY <1>2, <1>3, AheadFacts
<1>6. p \in Nat \ {0}
    BY <1>2, <1>5, LenProperties
<1>7. h = Append(ahead, new) /\ new \in Turn
    BY <1>1 DEF NewTurns, Turn
<1>8. /\ Len(h) = p /\ h \in Seq(Turn)
      /\ \A k \in 1..(p - 1) : h[k] = ahead[k]
      /\ h[p] = new
    <2>1. /\ h \in Seq(Turn) /\ Len(h) = Len(ahead) + 1
          /\ \A k \in 1..Len(ahead) : h[k] = ahead[k]
          /\ h[Len(ahead) + 1] = new
        BY <1>4, <1>7, AppendProperties
    <2> QED BY <1>5, <1>6, <2>1
<1>9. DOMAIN h = 1..p
    BY <1>8, LenProperties
<1>10. /\ \A k \in DOMAIN old : old[k].id \in DOMAIN j.was.steps /\ j.was.steps[old[k].id].text = old[k].text
       /\ \A i, k \in DOMAIN old : i < k => j.was.steps[old[i].id].order < j.was.steps[old[k].id].order
    BY <1>1 DEF Kept, Shows
<1>11. n = j.was.steps[j.id].order
    BY <1>1 DEF Root
<1>12. /\ \A i \in DOMAIN j.was.steps :
            j.was.steps[i].order < n => i \in DOMAIN s /\ s[i] = j.was.steps[i]
       /\ j.id \in DOMAIN s /\ s[j.id].order = n /\ s[j.id].text = j.text
    BY <1>1 DEF SameHead, Edited
<1>13. \A k \in 1..(p - 1) : k \in DOMAIN old /\ h[k] = old[k] /\ k < p
    BY <1>5, <1>6, <1>8
<1>14. \A k \in 1..(p - 1) : /\ h[k].id \in DOMAIN s /\ s[h[k].id] = j.was.steps[old[k].id]
                             /\ s[h[k].id].text = h[k].text /\ s[h[k].id].order < n
    <2> SUFFICES ASSUME NEW k \in 1..(p - 1)
                 PROVE  /\ h[k].id \in DOMAIN s /\ s[h[k].id] = j.was.steps[old[k].id]
                        /\ s[h[k].id].text = h[k].text /\ s[h[k].id].order < n
        OBVIOUS
    <2>1. k \in DOMAIN old /\ h[k] = old[k] /\ k < p
        BY <1>13
    <2>2. j.was.steps[old[k].id].order < n /\ old[k].id \in DOMAIN j.was.steps
        BY <1>5, <1>10, <1>11, <2>1
    <2> QED BY <1>10, <1>12, <2>1, <2>2
<1>15. \A i, k \in 1..(p - 1) : i < k => s[h[i].id].order < s[h[k].id].order
    BY <1>10, <1>13, <1>14
<1>16. h[p].id = j.id /\ h[p].text = j.text
    BY <1>1, <1>8
<1>17. \A k \in 1..p : k = p \/ k \in 1..(p - 1)
    BY <1>6
<1>18. \A k \in DOMAIN h : h[k].id \in DOMAIN s /\ s[h[k].id].text = h[k].text
    BY <1>9, <1>12, <1>14, <1>16, <1>17
<1>19. \A i, k \in DOMAIN h : i < k => s[h[i].id].order < s[h[k].id].order
    <2> SUFFICES ASSUME NEW i \in 1..p, NEW k \in 1..p, i < k
                 PROVE  s[h[i].id].order < s[h[k].id].order
        BY <1>9
    <2>1. i \in 1..(p - 1)
        BY <1>6
    <2>2. CASE k = p
        BY <1>12, <1>14, <1>16, <2>1, <2>2
    <2>3. CASE k # p
        BY <1>15, <1>17, <2>1, <2>3
    <2> QED BY <2>2, <2>3
<1> QED BY <1>1, <1>8, <1>18, <1>19 DEF Shows

\* A message's Turn is the last one.
LEMMA AppendedTurn ==
    ASSUME turns \in Seq(Turn), NEW new \in Turn, Shows(turns, steps),
           new.id \in DOMAIN steps, steps[new.id].text = new.text,
           \A k \in DOMAIN turns : steps[turns[k].id].order < steps[new.id].order,
           NEW h, h = Append(turns, new)
    PROVE  Shows(h, steps)
<1>1. PICK n \in Nat : n = Len(turns)
    BY LenProperties
<1>2. DOMAIN turns = 1..n
    BY <1>1, LenProperties
<1>3. /\ h \in Seq(Turn) /\ Len(h) = n + 1 /\ h[n + 1] = new
      /\ \A k \in 1..n : h[k] = turns[k]
    BY <1>1, AppendProperties
<1>4. DOMAIN h = 1..(n + 1)
    BY <1>3, LenProperties
<1>5. \A k \in 1..(n + 1) : k = n + 1 \/ k \in 1..n
    BY <1>1
<1>6. \A k \in DOMAIN h : h[k].id \in DOMAIN steps /\ steps[h[k].id].text = h[k].text
    BY <1>2, <1>3, <1>4, <1>5 DEF Shows
<1>7. \A i, k \in DOMAIN h : i < k => steps[h[i].id].order < steps[h[k].id].order
    <2> SUFFICES ASSUME NEW i \in 1..(n + 1), NEW k \in 1..(n + 1), i < k
                 PROVE  steps[h[i].id].order < steps[h[k].id].order
        BY <1>4
    <2>1. i \in 1..n
        BY <1>1
    <2>2. CASE k = n + 1
        BY <1>2, <1>3, <2>1, <2>2
    <2>3. CASE k # n + 1
        <3>1. k \in 1..n
            BY <1>5, <2>3
        <3>2. steps[turns[i].id].order < steps[turns[k].id].order
            BY <1>2, <2>1, <3>1 DEF Shows
        <3> QED BY <1>3, <2>1, <3>1, <3>2
    <2> QED BY <2>2, <2>3
<1> QED BY <1>6, <1>7 DEF Shows
-----------------------------------------------------------------------------
(* Every step keeps SafeInv. *)

LEMMA SafeReceive == ASSUME OrderInv, SafeInv, Receive PROVE SafeInv'
<1>1. TypeOK /\ Ordered /\ IsTimeline(steps) /\ Bounded(steps) /\ elements \subseteq DOMAIN steps
    BY DEF OrderInv, Ordered, HistoryTypeOK
<1>2. PICK id \in Messages, text \in Texts :
        (\E attached \in SUBSET {id} : Send(id, text, attached)) \/ Edit(id, text)
    BY DEF Receive
<1>3. pc = "idle" /\ Settled /\ UNCHANGED <<turns, late, archive>>
    BY <1>2 DEF Send, Edit, SafeInv, StoreMessage, timeline
<1>4. late' = NoWrites
    BY <1>3 DEF SafeInv
<1>5. ASSUME NEW attached \in SUBSET {id}, Send(id, text, attached) PROVE SafeInv'
    <2>1. /\ id \notin DOMAIN steps /\ StoreMessage(id, text, attached)
          /\ job' = Request("message", id, text) /\ pc' = "sent"
        BY <1>5 DEF Send
    <2>2. /\ steps' = Upserted(steps, id, text) /\ elements' = elements \cup attached
          /\ blobs' = blobs \cup attached
        BY <2>1 DEF StoreMessage
    <2>3. Written(steps, id, text, steps')
        BY <1>1, <2>2, UpsertedRows DEF StepIds
    <2>4. job'.kind = "message" /\ job'.id = id /\ job'.text = text
        BY <2>1 DEF Request
    <2>5. id \in DOMAIN steps' /\ steps'[id].text = text
        BY <2>3 DEF Written
    <2>6. \A i \in DOMAIN steps : i \in DOMAIN steps' /\ steps'[i] = steps[i]
                                  /\ steps'[i].order < steps'[id].order
        BY <2>1, <2>3 DEF Written
    <2>7. \A k \in DOMAIN turns : turns[k].id \in DOMAIN steps
        BY <1>3 DEF Settled, Shows
    <2>8. Shows(turns', steps')
        BY <1>3, <2>6, <2>7 DEF Settled, Shows
    <2>9. \A k \in DOMAIN turns' : steps'[turns'[k].id].order < steps'[id].order
        BY <1>3, <2>6, <2>7
    <2>10. Settled'
        BY <1>3, <2>8 DEF Settled
    <2>11. Sent'
        BY <2>4, <2>5, <2>9, <2>10 DEF Sent
    <2>12. elements' \subseteq blobs'
        BY <2>2 DEF SafeInv
    <2> QED BY <1>4, <2>1, <2>4, <2>11, <2>12 DEF SafeInv, NoWrites
<1>6. CASE Edit(id, text)
    <2>1. /\ id \in DOMAIN steps /\ steps[id].text # text
          /\ HasTurn(id) /\ job' = Request("edit", id, text)
          /\ pc' = "staging" /\ steps' = steps /\ elements' = elements /\ blobs' = blobs
        BY <1>6 DEF Edit, timeline
    <2>2. /\ job'.kind = "edit" /\ job'.id = id /\ job'.text = text /\ job'.shown = {}
          /\ job'.was.steps = steps /\ job'.was.elements = elements /\ job'.was.turns = turns
        BY <2>1 DEF Request
    <2>3. Kept(job', blobs')
        BY <1>1, <1>3, <2>1, <2>2 DEF Kept, SafeInv, Settled, HasTurn
    <2>4. Unchanged(job', steps', elements') /\ DOMAIN archive' = {}
        BY <1>3, <2>1, <2>2 DEF Unchanged, Settled
    <2>5. EditInv'
        BY <2>1, <2>2, <2>3, <2>4 DEF EditInv
    <2>6. elements' \subseteq blobs'
        BY <2>1 DEF SafeInv
    <2> QED BY <1>4, <2>1, <2>2, <2>5, <2>6 DEF SafeInv, NoWrites
<1> QED BY <1>2, <1>5, <1>6

\* What is known of an edit that is being served.
LEMMA EditFacts ==
    ASSUME OrderInv, SafeInv, pc # "idle", job.kind = "edit"
    PROVE  /\ EditInv /\ IsRequest(job) /\ IsTimeline(job.was.steps) /\ job.was.turns \in Seq(Turn)
           /\ job.id \in Messages /\ job.text \in Texts /\ job.shown \subseteq Outputs
           /\ IsTimeline(steps) /\ Bounded(steps) /\ elements \subseteq DOMAIN steps
           /\ elements \subseteq blobs
<1>1. IsRequest(job)
    BY RequestOfTask DEF OrderInv
<1> QED BY <1>1, RequestFacts DEF OrderInv, Ordered, HistoryTypeOK, SafeInv

LEMMA SafeMessage ==
    ASSUME OrderInv, SafeInv, pc # "idle", job.kind = "message", UNCHANGED <<turns, late, timeline>>,
           \/ pc' = "idle"
           \/ /\ pc' # "idle" /\ SameRequest(job, job')
              /\ pc' \in {"sent", "running"} => pc \in {"sent", "running"}
    PROVE  SafeInv'
<1>1. Sent /\ late = NoWrites /\ elements \subseteq blobs
    BY DEF SafeInv
<1>2. turns' = turns /\ late' = late /\ steps' = steps /\ elements' = elements /\ blobs' = blobs
      /\ archive' = archive
    BY DEF timeline
<1>3. Settled' /\ late' = NoWrites /\ elements' \subseteq blobs'
    BY <1>1, <1>2 DEF Sent, Settled
<1>4. CASE pc' = "idle"
    BY <1>3, <1>4 DEF SafeInv, NoWrites
<1>5. CASE pc' # "idle"
    <2>1. SameRequest(job, job') /\ (pc' \in {"sent", "running"} => pc \in {"sent", "running"})
        BY <1>5
    <2>2. job'.kind = "message" /\ job'.id = job.id /\ job'.text = job.text
        BY <2>1 DEF SameRequest
    <2>3. Sent'
        BY <1>1, <1>2, <1>3, <2>1, <2>2 DEF Sent
    <2> QED BY <1>3, <1>5, <2>2, <2>3 DEF SafeInv, NoWrites
<1> QED BY <1>4, <1>5

\* The edited message has a new text, and what it replaces is archived.
LEMMA SafeStage ==
    ASSUME OrderInv, SafeInv, Stage PROVE SafeInv'
<1>1. /\ pc = "staging" /\ pc' = "opening" /\ job' = job /\ UNCHANGED <<turns, late>>
      /\ UpdateMessage(job.id, job.text)
    BY DEF Stage, Goto
<1>2. job.kind = "edit"
    BY <1>1 DEF OrderInv, Served
<1>3. /\ EditInv /\ job.id \in Messages /\ job.text \in Texts /\ elements \subseteq blobs
      /\ IsTimeline(steps) /\ Bounded(steps) /\ IsTimeline(job.was.steps)
    BY <1>1, <1>2, EditFacts
<1>4. Kept(job, blobs) /\ Unchanged(job, steps, elements) /\ DOMAIN archive = {} /\ job.shown = {}
    BY <1>1, <1>3 DEF EditInv
<1>5. job.id \in DOMAIN steps /\ job.id \in StepIds /\ steps[job.id].text # job.text
    BY <1>3, <1>4 DEF Kept, Unchanged, StepIds
<1>6. steps' = Upserted(steps, job.id, job.text) /\ elements' = elements /\ blobs' = blobs
    BY <1>1 DEF UpdateMessage
<1>7. SameHead(job, steps', elements') /\ Edited(job, steps')
    BY <1>3, <1>4, <1>5, <1>6, StageHead
<1>8. DOMAIN archive' = {job.id} /\ archive'[job.id] = End(job.id)
    <2>1. Ordered
        BY DEF OrderInv
    <2>2. /\ DOMAIN archive' = DOMAIN archive \cup {job.id}
          /\ job.id \notin DOMAIN archive => archive'[job.id] = End(job.id)
        BY <1>1, <1>3, <1>5, <2>1, UpdateOrdered
    <2> QED BY <1>4, <2>2
<1>9. Replaced(job, archive')
    BY <1>4, <1>8 DEF Replaced, End, Unchanged, Root
<1>10. EditInv'
    BY <1>1, <1>4, <1>6, <1>7, <1>9 DEF EditInv
<1> QED BY <1>1, <1>2, <1>3, <1>6, <1>10 DEF SafeInv, NoWrites

\* Nothing comes after the edited message any more.
LEMMA SafeTruncate ==
    ASSUME OrderInv, SafeInv, Truncate PROVE SafeInv'
<1>1. /\ pc = "opening" /\ pc' = "running" /\ job' = job /\ UNCHANGED <<turns, late, writes>>
      /\ TruncateRevision(job.id)
    BY DEF Truncate, Goto
<1>2. job.kind = "edit" /\ writes = NoWrites
    BY <1>1 DEF OrderInv, Served
<1>3. /\ EditInv /\ elements \subseteq blobs /\ IsTimeline(steps) /\ IsTimeline(job.was.steps)
      /\ elements \subseteq DOMAIN steps
    BY <1>1, <1>2, EditFacts
<1>4. /\ Kept(job, blobs) /\ Replaced(job, archive) /\ SameHead(job, steps, elements)
      /\ Edited(job, steps) /\ job.shown = {}
    BY <1>1, <1>3 DEF EditInv
<1>5. ArchivedOrder(job.id) = Root(job)
    BY <1>3, <1>4, ArchiveOfEdit DEF OrderInv
<1>6. /\ steps' = Without(steps, Beyond(steps, Root(job)))
      /\ elements' = elements \ Beyond(steps, Root(job))
      /\ blobs' = blobs /\ archive' = archive
    BY <1>1, <1>5 DEF TruncateRevision
<1>7. job.was.elements \subseteq DOMAIN job.was.steps
    BY <1>4 DEF Kept
<1>8. SameHead(job, steps', elements') /\ Edited(job, steps') /\ Beyond(steps', Root(job)) = {}
    BY <1>3, <1>4, <1>6, <1>7, TruncateHead
<1>9. Shown(job, steps', writes') /\ Complete(job, steps', writes')
    BY <1>1, <1>2, <1>4, <1>8 DEF Shown, Complete, NoWrites
<1>10. EditInv'
    BY <1>1, <1>4, <1>6, <1>8, <1>9 DEF EditInv
<1>11. elements' \subseteq blobs'
    BY <1>3, <1>6
<1> QED BY <1>1, <1>2, <1>10, <1>11 DEF SafeInv, NoWrites

\* A failed or stopped edit is on its way back.
LEMMA SafeBack ==
    ASSUME OrderInv, SafeInv, job.kind = "edit",
           pc \in {"opening", "running", "entering", "draining", "failing", "committing"},
           pc' \in {"restoring", "undoing"}, SameRequest(job, job'), UNCHANGED <<late, timeline>>
    PROVE  SafeInv'
<1>1. EditInv /\ elements \subseteq blobs
    BY EditFacts
<1>2. Kept(job, blobs) /\ Replaced(job, archive) /\ SameHead(job, steps, elements)
    BY <1>1 DEF EditInv
<1>3. steps' = steps /\ elements' = elements /\ blobs' = blobs /\ archive' = archive
    BY DEF timeline
<1>4. Kept(job', blobs') /\ Replaced(job', archive') /\ SameHead(job', steps', elements')
    BY <1>2, <1>3, SameEdit
<1>5. EditInv'
    BY <1>4 DEF EditInv
<1> QED BY <1>1, <1>3, <1>5 DEF SafeInv, NoWrites, SameRequest

\* The Turn of an edit runs, or has ended.
LEMMA SafeRunning ==
    ASSUME OrderInv, SafeInv, job.kind = "edit",
           pc \in {"running", "entering", "draining", "failing"},
           pc' \in {"running", "entering", "draining", "failing", "committing"},
           SameRequest(job, job'), UNCHANGED <<late, timeline>>,
           Shown(job', steps, writes'),
           pc' \in {"running", "entering", "draining"} =>
             job'.lost \/ Complete(job', steps, writes'),
           pc' = "committing" => Complete(job', steps, writes'),
           pc' \in {"entering", "draining", "committing"} => NewTurns(job', turns')
    PROVE  SafeInv'
<1>1. EditInv /\ elements \subseteq blobs
    BY EditFacts
<1>2. Kept(job, blobs) /\ Replaced(job, archive) /\ SameHead(job, steps, elements) /\ Edited(job, steps)
    BY <1>1 DEF EditInv
<1>3. steps' = steps /\ elements' = elements /\ blobs' = blobs /\ archive' = archive
    BY DEF timeline
<1>4. /\ Kept(job', blobs') /\ Replaced(job', archive') /\ SameHead(job', steps', elements')
      /\ Edited(job', steps')
    BY <1>2, <1>3, SameEdit
<1>5. EditInv'
    BY <1>3, <1>4 DEF EditInv
<1> QED BY <1>1, <1>3, <1>5 DEF SafeInv, NoWrites, SameRequest

\* Its view shows one more output.
LEMMA SafeShow ==
    ASSUME OrderInv, SafeInv, NEW o \in Outputs, NEW text \in Texts, Show(o, text)
    PROVE  SafeInv'
<1>1. /\ pc = "running" /\ pc' = "running" /\ Free(o) /\ Schedule(o, text)
      /\ job' = [job EXCEPT !.shown = @ \cup {o}] /\ UNCHANGED <<turns, late, timeline>>
    BY DEF Show
<1>2. IsRequest(job)
    BY <1>1, RequestOfTask DEF OrderInv
<1>3. SameRequest(job, job') /\ job'.shown = job.shown \cup {o} /\ job'.lost = job.lost
    BY <1>1, <1>2, RequestShows
<1>4. writes \in [Outputs -> Seq(Texts)]
    BY DEF OrderInv, TypeOK
<1>5. writes'[o] # <<>> /\ \A p \in Outputs : p # o => writes'[p] = writes[p]
    BY <1>1, <1>4, ScheduledTyped
<1>6. CASE job.kind = "edit"
    <2>1. EditInv
        BY <1>1, <1>6, EditFacts
    <2>2. Shown(job, steps, writes) /\ (job.lost \/ Complete(job, steps, writes)) /\ job.shown \subseteq Outputs
        BY <1>1, <1>2, <2>1, RequestFacts DEF EditInv
    <2>3. o \notin DOMAIN steps
        BY <1>1 DEF Free
    <2>4. Root(job') = Root(job)
        BY <1>3, SameEdit
    <2>5. Shown(job', steps, writes')
        BY <1>3, <1>5, <2>2, <2>3, <2>4 DEF Shown
    <2>6. job'.lost \/ Complete(job', steps, writes')
        BY <1>3, <1>5, <2>2 DEF Complete
    <2> QED BY <1>1, <1>3, <1>6, <2>5, <2>6, SafeRunning
<1>7. CASE job.kind = "message"
    BY <1>1, <1>3, <1>7, SafeMessage
<1> QED BY <1>2, <1>6, <1>7, RequestFacts

\* One more write of something shown.
LEMMA ScheduledShown ==
    ASSUME NEW j, NEW s, Shown(j, s, writes), j.shown \subseteq Outputs,
           writes \in [Outputs -> Seq(Texts)],
           NEW o \in j.shown, NEW text \in Texts, Schedule(o, text)
    PROVE  Shown(j, s, writes') /\ (Complete(j, s, writes) => Complete(j, s, writes'))
<1>1. o \in Outputs
    OBVIOUS
<1>2. writes'[o] # <<>> /\ \A p \in Outputs : p # o => writes'[p] = writes[p]
    BY <1>1, ScheduledTyped
<1>3. Shown(j, s, writes')
    BY <1>2 DEF Shown
<1>4. Complete(j, s, writes) => Complete(j, s, writes')
    BY <1>2 DEF Complete
<1> QED BY <1>3, <1>4

\* The runtime commits the Turn.
LEMMA SafeAnswer ==
    ASSUME OrderInv, SafeInv, NEW o \in Outputs, NEW text \in Texts, Answer(o, text)
    PROVE  SafeInv'
<1>1. /\ pc = "running" /\ pc' = "entering" /\ job' = job /\ o \in job.shown
      /\ Schedule(o, text) /\ UNCHANGED <<late, timeline>>
    BY DEF Answer, Goto, Close
<1>2. IsRequest(job) /\ turns \in Seq(Turn) /\ writes \in [Outputs -> Seq(Texts)]
    BY <1>1, RequestOfTask DEF OrderInv, TypeOK
<1>3. job.id \in Messages /\ job.text \in Texts /\ job.shown \subseteq Outputs
      /\ job.kind \in {"message", "edit"}
    BY <1>2, RequestFacts
<1>4. PICK new : new = [id |-> job.id, text |-> job.text]
    OBVIOUS
<1>5. new \in Turn /\ new.id = job.id /\ new.text = job.text
    BY <1>3, <1>4 DEF Turn
<1>6. CASE job.kind = "edit"
    <2>1. EditInv
        BY <1>1, <1>6, EditFacts
    <2>2. Shown(job, steps, writes) /\ (job.lost \/ Complete(job, steps, writes))
        BY <1>1, <2>1 DEF EditInv
    <2>3. Shown(job, steps, writes') /\ (job.lost \/ Complete(job, steps, writes'))
        BY <1>1, <1>2, <1>3, <2>2, ScheduledShown
    <2>4. turns = job.was.turns
        BY <1>1, <1>6 DEF OrderInv, Served, Editing
    <2>5. NewTurns(job, turns')
        BY <1>6, <2>4 DEF Answer, NewTurns, Ahead, Position
    <2>6. SameRequest(job, job')
        BY <1>1 DEF SameRequest
    <2> QED BY <1>1, <1>6, <2>3, <2>5, <2>6, SafeRunning
<1>7. CASE job.kind = "message"
    <2>1. Sent /\ late = NoWrites /\ elements \subseteq blobs
        BY <1>1, <1>7 DEF SafeInv
    <2>2. turns' = Append(turns, new)
        BY <1>4, <1>7 DEF Answer
    <2>3. steps' = steps /\ elements' = elements /\ blobs' = blobs /\ archive' = archive
        BY <1>1 DEF timeline
    <2>4. Shows(turns', steps)
        BY <1>1, <1>2, <1>5, <2>1, <2>2, AppendedTurn DEF Sent, Settled
    <2>5. Settled'
        BY <2>1, <2>3, <2>4 DEF Sent, Settled
    <2>6. Sent'
        BY <1>1, <2>1, <2>3, <2>5 DEF Sent
    <2> QED BY <1>1, <1>7, <2>1, <2>3, <2>6 DEF SafeInv, NoWrites
<1> QED BY <1>3, <1>6, <1>7

\* The drain has begun.
LEMMA SafeEnter == ASSUME OrderInv, SafeInv, Enter PROVE SafeInv'
<1>1. /\ pc = "entering" /\ pc' = "draining" /\ job' = job
      /\ UNCHANGED <<turns, writes, late, timeline>>
    BY DEF Enter, Goto
<1>2. job.kind \in {"message", "edit"} /\ SameRequest(job, job')
    BY <1>1, RequestOfTask, RequestFacts DEF OrderInv, SameRequest
<1>3. CASE job.kind = "message"
    BY <1>1, <1>2, <1>3, SafeMessage
<1>4. CASE job.kind = "edit"
    <2>1. EditInv
        BY <1>1, <1>4, EditFacts
    <2>2. /\ Shown(job, steps, writes) /\ (job.lost \/ Complete(job, steps, writes))
          /\ NewTurns(job, turns)
        BY <1>1, <2>1 DEF EditInv
    <2> QED BY <1>1, <1>2, <1>4, <2>2, SafeRunning
<1> QED BY <1>2, <1>3, <1>4

\* The Turn fails, or is stopped: the view may say so.
LEMMA SafeFailing ==
    ASSUME OrderInv, SafeInv, pc = "running", pc' = "failing", IsRequest(job), SameRequest(job, job'),
           job'.shown = job.shown, UNCHANGED <<turns, late, timeline>>,
           UNCHANGED writes \/ \E o \in job.shown, text \in Texts : Schedule(o, text)
    PROVE  SafeInv'
<1>1. job.kind \in {"message", "edit"} /\ job.shown \subseteq Outputs /\ writes \in [Outputs -> Seq(Texts)]
    BY RequestFacts DEF OrderInv, TypeOK
<1>2. CASE job.kind = "edit"
    <2>1. EditInv
        BY <1>2, EditFacts
    <2>2. Shown(job, steps, writes)
        BY <2>1 DEF EditInv
    <2>3. Shown(job, steps, writes')
        <3>1. CASE UNCHANGED writes BY <2>2, <3>1
        <3>2. CASE ~UNCHANGED writes
            <4>1. PICK o \in job.shown, text \in Texts : Schedule(o, text)
                BY <3>2
            <4> QED BY <1>1, <2>2, <4>1, ScheduledShown
        <3> QED BY <3>1, <3>2
    <2>4. Root(job') = Root(job)
        BY SameEdit
    <2>5. Shown(job', steps, writes')
        BY <2>3, <2>4 DEF Shown
    <2> QED BY <1>2, <2>5, SafeRunning
<1>3. CASE job.kind = "message"
    BY <1>3, SafeMessage
<1> QED BY <1>1, <1>2, <1>3

\* Only a running Turn has writes in flight.
LEMMA WritesOfTurn ==
    ASSUME OrderInv, NEW o \in Outputs, writes[o] # <<>>
    PROVE  pc \in {"running", "entering", "draining", "failing"} /\ IsRequest(job)
<1>1. writes # NoWrites
    BY DEF NoWrites
<1>2. pc \in {"running", "entering", "draining", "failing"}
    BY <1>1 DEF OrderInv, Served
<1> QED BY <1>2, RequestOfTask DEF OrderInv

LEMMA SafeLand ==
    ASSUME OrderInv, SafeInv, NEW o \in Outputs, Land(o) PROVE SafeInv'
<1>1. /\ writes[o] # <<>> /\ WriteStep(o, Head(writes[o])) /\ writes' = [writes EXCEPT ![o] = Tail(@)]
      /\ UNCHANGED <<pc, job, turns, late>>
    BY DEF Land
<1>2. pc \in {"running", "entering", "draining", "failing"} /\ IsRequest(job)
    BY <1>1, WritesOfTurn
<1>3. /\ IsTimeline(steps) /\ Bounded(steps) /\ writes \in [Outputs -> Seq(Texts)]
      /\ turns \in Seq(Turn)
    BY DEF OrderInv, TypeOK, Ordered, HistoryTypeOK
<1>4. PICK text \in Texts : text = Head(writes[o])
    BY <1>1, <1>3, HeadOfQueue
<1>5. /\ steps' = Upserted(steps, o, text) /\ elements' = elements /\ blobs' = blobs
      /\ archive' = archive
    BY <1>1, <1>4 DEF WriteStep
<1>6. \A p \in Outputs : p # o => writes'[p] = writes[p]
    BY <1>1, <1>3
<1>7. job.id \in Messages /\ job.shown \subseteq Outputs /\ job.kind \in {"message", "edit"}
    BY <1>2, RequestFacts
<1>8. o \in StepIds /\ o # job.id
    BY <1>7, StepAssumption DEF StepIds
<1>9. CASE job.kind = "edit"
    <2>1. EditInv /\ elements \subseteq blobs
        BY <1>2, <1>9, EditFacts
    <2>2. /\ Kept(job, blobs) /\ Replaced(job, archive) /\ SameHead(job, steps, elements)
          /\ Edited(job, steps) /\ Shown(job, steps, writes)
          /\ pc \in {"running", "entering", "draining"} => job.lost \/ Complete(job, steps, writes)
          /\ pc \in {"entering", "draining"} => NewTurns(job, turns)
        BY <1>2, <2>1 DEF EditInv
    <2>3. o \in DOMAIN steps => o \in Beyond(steps, Root(job))
        BY <1>1, <2>2 DEF Shown
    <2>4. /\ SameHead(job, steps', elements) /\ Edited(job, steps')
          /\ Beyond(steps', Root(job)) = Beyond(steps, Root(job)) \cup {o}
        BY <1>3, <1>4, <1>5, <1>8, <2>2, <2>3, WriteHead
    <2>5. Shown(job, steps', writes') /\ (Complete(job, steps, writes) => Complete(job, steps', writes'))
        <3>1. PICK t, v : t = steps' /\ v = writes'
            OBVIOUS
        <3>2. /\ t = Upserted(steps, o, text) /\ writes[o] # <<>>
              /\ \A p \in Outputs : p # o => v[p] = writes[p]
              /\ Beyond(t, Root(job)) = Beyond(steps, Root(job)) \cup {o}
            BY <1>1, <1>5, <1>6, <2>4, <3>1
        <3>3. Shown(job, t, v) /\ (job.shown \subseteq Outputs /\ Complete(job, steps, writes) => Complete(job, t, v))
            BY <1>3, <1>4, <2>2, <3>2, WriteShown
        <3> QED BY <1>7, <3>1, <3>3
    <2>6. EditInv'
        BY <1>1, <1>2, <1>5, <2>2, <2>4, <2>5 DEF EditInv
    <2> QED BY <1>1, <1>2, <1>5, <1>9, <2>1, <2>6 DEF SafeInv, NoWrites
<1>10. CASE job.kind = "message"
    <2>1. Sent /\ late = NoWrites /\ elements \subseteq blobs
        BY <1>2, <1>10 DEF SafeInv
    <2>2. /\ \A m \in Messages : m \in DOMAIN steps => m \in DOMAIN steps' /\ steps'[m] = steps[m]
          /\ \A h \in Seq(Turn) : Shows(h, steps) => Shows(h, steps')
        BY <1>3, <1>4, <1>5, WriteShows
    <2>3. Settled'
        BY <1>1, <1>3, <1>5, <2>1, <2>2 DEF Sent, Settled
    <2>4. job.id \in DOMAIN steps' /\ steps'[job.id] = steps[job.id]
        BY <1>7, <2>1, <2>2 DEF Sent
    <2>5. \A k \in DOMAIN turns : steps'[turns[k].id] = steps[turns[k].id]
        <3>1. DOMAIN turns = 1..Len(turns) /\ \A k \in 1..Len(turns) : turns[k] \in Turn
            BY <1>3, LenProperties, ElementOfSeq
        <3>2. \A k \in DOMAIN turns : turns[k].id \in Messages /\ turns[k].id \in DOMAIN steps
            BY <2>1, <3>1 DEF Turn, Sent, Settled, Shows
        <3> QED BY <2>2, <3>2
    <2>6. Sent'
        BY <1>1, <2>1, <2>3, <2>4, <2>5 DEF Sent
    <2> QED BY <1>1, <1>2, <1>5, <1>10, <2>1, <2>6 DEF SafeInv, NoWrites
<1> QED BY <1>7, <1>9, <1>10

LEMMA SafeWriteFails ==
    ASSUME OrderInv, SafeInv, NEW o \in Outputs, WriteFails(o) PROVE SafeInv'
<1>1. /\ writes[o] # <<>> /\ writes' = [writes EXCEPT ![o] = Tail(@)]
      /\ job' = [job EXCEPT !.lost = TRUE] /\ UNCHANGED <<pc, turns, late, timeline>>
    BY DEF WriteFails
<1>2. pc \in {"running", "entering", "draining", "failing"} /\ IsRequest(job)
    BY <1>1, WritesOfTurn
<1>3. SameRequest(job, job') /\ job'.shown = job.shown /\ job'.lost = TRUE
    BY <1>1, <1>2, RequestLost
<1>4. writes \in [Outputs -> Seq(Texts)]
    BY DEF OrderInv, TypeOK
<1>5. \A p \in Outputs : p # o => writes'[p] = writes[p]
    BY <1>1, <1>4
<1>6. CASE job.kind = "edit"
    <2>1. EditInv
        BY <1>2, <1>6, EditFacts
    <2>2. Shown(job, steps, writes) /\ (pc \in {"entering", "draining"} => NewTurns(job, turns))
        BY <1>2, <2>1 DEF EditInv
    <2>3. Root(job') = Root(job) /\ (pc \in {"entering", "draining"} => NewTurns(job', turns))
        BY <1>3, <2>2, SameEdit
    <2>4. Shown(job', steps, writes')
        BY <1>1, <1>3, <1>5, <2>2, <2>3 DEF Shown
    <2>5. pc' = pc /\ turns' = turns /\ UNCHANGED <<late, timeline>>
        BY <1>1
    <2> QED BY <1>2, <1>3, <1>6, <2>3, <2>4, <2>5, SafeRunning
<1>7. CASE job.kind = "message"
    BY <1>1, <1>2, <1>3, <1>7, SafeMessage
<1> QED BY <1>2, <1>6, <1>7, RequestFacts

\* The writes have ended: a failed one fails the request.
LEMMA SafeDrained == ASSUME OrderInv, SafeInv, Drained PROVE SafeInv'
<1>1. /\ pc = "draining" /\ writes = NoWrites /\ writes' = writes
      /\ UNCHANGED <<turns, late, timeline>>
      /\ IF job.lost THEN Fail
         ELSE IF job.kind = "edit" THEN Goto("committing") ELSE Finish
    BY DEF Drained
<1>2. IsRequest(job) /\ job.kind \in {"message", "edit"} /\ job.shown \subseteq Outputs
    BY <1>1, RequestOfTask, RequestFacts DEF OrderInv
<1>3. CASE job.kind = "message"
    <2>1. pc' = "idle"
        BY <1>1, <1>3 DEF Fail, Finish
    <2> QED BY <1>1, <1>3, <2>1, SafeMessage
<1>4. CASE job.kind = "edit" /\ job.lost
    <2>1. pc' = "restoring" /\ job' = job
        BY <1>1, <1>4 DEF Fail, Goto
    <2>2. SameRequest(job, job')
        BY <2>1 DEF SameRequest
    <2> QED BY <1>1, <1>4, <2>1, <2>2, SafeBack
<1>5. CASE job.kind = "edit" /\ ~job.lost
    <2>1. pc' = "committing" /\ job' = job
        BY <1>1, <1>5 DEF Goto
    <2>2. SameRequest(job, job')
        BY <2>1 DEF SameRequest
    <2>3. EditInv
        BY <1>1, <1>5, EditFacts
    <2>4. Shown(job, steps, writes) /\ Complete(job, steps, writes) /\ NewTurns(job, turns)
        BY <1>1, <1>5, <2>3 DEF EditInv
    <2> QED BY <1>1, <1>5, <2>1, <2>2, <2>4, SafeRunning
<1> QED BY <1>2, <1>3, <1>4, <1>5

LEMMA SafeFailureDrained == ASSUME OrderInv, SafeInv, FailureDrained PROVE SafeInv'
<1>1. pc = "failing" /\ Fail /\ UNCHANGED <<turns, late, timeline>>
    BY DEF FailureDrained
<1>2. job.kind \in {"message", "edit"}
    BY <1>1, RequestOfTask, RequestFacts DEF OrderInv
<1>3. CASE job.kind = "message"
    <2>1. pc' = "idle"
        BY <1>1, <1>3 DEF Fail, Finish
    <2> QED BY <1>1, <1>3, <2>1, SafeMessage
<1>4. CASE job.kind = "edit"
    <2>1. pc' = "restoring" /\ job' = job
        BY <1>1, <1>4 DEF Fail, Goto
    <2>2. SameRequest(job, job')
        BY <2>1 DEF SameRequest
    <2> QED BY <1>1, <1>4, <2>1, <2>2, SafeBack
<1> QED BY <1>2, <1>3, <1>4

\* The archive goes; the edit is done.
LEMMA SafeCommit == ASSUME OrderInv, SafeInv, Commit PROVE SafeInv'
<1>1. /\ pc = "committing" /\ pc' = "cleaning" /\ DropArchive(job.id)
      /\ job' = [job EXCEPT !.keys = ArchivedElements(job.id)] /\ UNCHANGED <<turns, writes, late>>
    BY DEF Commit
<1>2. job.kind = "edit"
    BY <1>1 DEF OrderInv, Served
<1>3. EditInv /\ IsRequest(job) /\ elements \subseteq blobs /\ IsTimeline(job.was.steps)
    BY <1>1, <1>2, EditFacts
<1>4. /\ Kept(job, blobs) /\ Replaced(job, archive) /\ SameHead(job, steps, elements)
      /\ Edited(job, steps) /\ Shown(job, steps, writes) /\ Complete(job, steps, writes)
      /\ NewTurns(job, turns)
    BY <1>1, <1>3 DEF EditInv
<1>5. ArchivedElements(job.id) \in SUBSET Messages
    BY ArchivedElementsTyped DEF OrderInv
<1>6. SameRequest(job, job') /\ job'.shown = job.shown
    BY <1>1, <1>3, <1>5, RequestCleans
<1>7. steps' = steps /\ elements' = elements /\ blobs' = blobs /\ DOMAIN archive' = {}
    BY <1>1, <1>4 DEF DropArchive, Without, Replaced
<1>8. /\ Kept(job', blobs') /\ SameHead(job', steps', elements') /\ Edited(job', steps')
      /\ NewTurns(job', turns') /\ Root(job') = Root(job)
    BY <1>1, <1>4, <1>6, <1>7, SameEdit
<1>9. Shown(job', steps', writes') /\ Complete(job', steps', writes')
    BY <1>1, <1>4, <1>6, <1>7, <1>8 DEF Shown, Complete
<1>10. EditInv'
    BY <1>1, <1>7, <1>8, <1>9 DEF EditInv
<1> QED BY <1>1, <1>2, <1>3, <1>6, <1>7, <1>10 DEF SafeInv, NoWrites, SameRequest

\* Whatever documents the clean-up has reached.
LEMMA SafeClean ==
    ASSUME OrderInv, SafeInv, Clean
    PROVE  /\ SafeInv'
           /\ turns'[Len(turns')] = [id |-> job.id, text |-> job.text]
           /\ steps'[job.id].text = job.text
           /\ Beyond(steps', steps'[job.id].order) = job.shown
<1>1. pc = "cleaning" /\ pc' = "idle" /\ UNCHANGED <<turns, writes, late>>
    BY DEF Clean, Finish
<1>2. PICK done \in SUBSET job.keys : CleanUp(done)
    BY DEF Clean
<1>3. job.kind = "edit" /\ writes = NoWrites
    BY <1>1 DEF OrderInv, Served
<1>4. /\ EditInv /\ job.id \in Messages /\ job.text \in Texts /\ job.shown \subseteq Outputs
      /\ elements \subseteq blobs
    BY <1>1, <1>3, EditFacts
<1>5. IsTimeline(job.was.steps) /\ job.was.turns \in Seq(Turn)
    BY <1>1, <1>3, EditFacts
<1>6. /\ Kept(job, blobs) /\ SameHead(job, steps, elements) /\ Edited(job, steps)
      /\ Shown(job, steps, writes) /\ Complete(job, steps, writes) /\ NewTurns(job, turns)
      /\ DOMAIN archive = {}
    BY <1>1, <1>4 DEF EditInv
<1>7. Shows(turns, steps) /\ turns[Len(turns)] = [id |-> job.id, text |-> job.text]
    <2>1. PICK j, s, h : j = job /\ s = steps /\ h = turns
        OBVIOUS
    <2>2. /\ Kept(j, blobs) /\ SameHead(j, s, elements) /\ Edited(j, s) /\ NewTurns(j, h)
          /\ j.id \in Messages /\ j.text \in Texts
          /\ IsTimeline(j.was.steps) /\ j.was.turns \in Seq(Turn)
        BY <1>4, <1>5, <1>6, <2>1
    <2>3. Shows(h, s) /\ h[Len(h)] = [id |-> j.id, text |-> j.text]
        BY ONLY <2>2, EditedTurns
    <2> QED BY <2>1, <2>3
<1>8. /\ steps' = steps /\ elements' = elements /\ archive' = archive
      /\ blobs' = blobs \ (done \ elements)
    BY <1>2 DEF CleanUp, Unreferenced
<1>9. Settled' /\ elements' \subseteq blobs'
    BY <1>1, <1>4, <1>6, <1>7, <1>8 DEF Settled
<1>10. SafeInv'
    BY <1>1, <1>9 DEF SafeInv, NoWrites
<1>11. job.shown \subseteq DOMAIN steps
    BY <1>3, <1>4, <1>6 DEF Complete, NoWrites
<1>12. Beyond(steps, Root(job)) = job.shown
    BY <1>6, <1>11 DEF Shown
<1>13. steps[job.id].order = Root(job) /\ steps[job.id].text = job.text
    BY <1>6 DEF Edited
<1> QED BY <1>1, <1>7, <1>8, <1>10, <1>12, <1>13

\* The archive is back in place; the runtime's Turns are still to be undone.
LEMMA SafeRestore == ASSUME OrderInv, SafeInv, Restore PROVE SafeInv'
<1>1. /\ pc = "restoring" /\ pc' = "undoing" /\ job' = job /\ RestoreRevision(job.id)
      /\ UNCHANGED <<turns, writes, late>>
    BY DEF Restore, Goto
<1>2. job.kind = "edit" /\ Ordered
    BY <1>1 DEF OrderInv, Served
<1>3. EditInv /\ elements \subseteq blobs /\ IsTimeline(job.was.steps)
    BY <1>1, <1>2, EditFacts
<1>4. Kept(job, blobs) /\ Replaced(job, archive) /\ SameHead(job, steps, elements)
    BY <1>1, <1>3 DEF EditInv
<1>5. /\ Unchanged(job, steps', elements') /\ DOMAIN archive' = {}
      /\ Kept(job, blobs') /\ elements' \subseteq blobs'
    BY <1>1, <1>2, <1>3, <1>4, RestoredEdit
<1>6. EditInv'
    BY <1>1, <1>5 DEF EditInv
<1> QED BY <1>1, <1>2, <1>5, <1>6 DEF SafeInv, NoWrites

\* Both are as they were.
LEMMA SafeUndo ==
    ASSUME OrderInv, SafeInv, Undo
    PROVE  /\ SafeInv'
           /\ turns' = job.was.turns /\ steps' = job.was.steps /\ elements' = job.was.elements
<1>1. /\ pc = "undoing" /\ pc' = "idle" /\ turns' = job.was.turns /\ RestoreRevision(job.id)
      /\ UNCHANGED <<writes, late>>
    BY DEF Undo, Finish
<1>2. job.kind = "edit" /\ Ordered
    BY <1>1 DEF OrderInv, Served
<1>3. EditInv /\ elements \subseteq blobs /\ IsTimeline(job.was.steps)
    BY <1>1, <1>2, EditFacts
<1>4. /\ Kept(job, blobs)
      /\ \/ Unchanged(job, steps, elements) /\ DOMAIN archive = {}
         \/ Replaced(job, archive) /\ SameHead(job, steps, elements)
    BY <1>1, <1>3 DEF EditInv
<1>5. Unchanged(job, steps', elements') /\ DOMAIN archive' = {} /\ elements' \subseteq blobs'
    BY <1>1, <1>2, <1>3, <1>4, UndoneEdit
<1>6. Settled'
    BY <1>1, <1>4, <1>5 DEF Settled, Kept, Unchanged
<1>7. SafeInv'
    BY <1>1, <1>5, <1>6 DEF SafeInv, NoWrites
<1> QED BY <1>1, <1>5, <1>7 DEF Unchanged

\* Before anything was stored, an edit ends where it began.
LEMMA SafeUnstaged ==
    ASSUME OrderInv, SafeInv, pc = "staging", Finish, UNCHANGED <<turns, late, timeline>>
    PROVE  /\ SafeInv'
           /\ turns' = job.was.turns /\ steps' = job.was.steps /\ elements' = job.was.elements
<1>1. job.kind = "edit" /\ turns = job.was.turns
    BY DEF OrderInv, Served, Editing
<1>2. EditInv /\ elements \subseteq blobs
    BY <1>1, EditFacts
<1>3. Unchanged(job, steps, elements) /\ DOMAIN archive = {} /\ Kept(job, blobs)
    BY <1>2 DEF EditInv
<1>4. /\ steps' = steps /\ elements' = elements /\ blobs' = blobs /\ archive' = archive
      /\ turns' = turns /\ late' = late /\ pc' = "idle"
    BY DEF timeline, Finish
<1>5. Settled'
    BY <1>1, <1>3, <1>4 DEF Settled, Kept, Unchanged
<1>6. SafeInv'
    BY <1>2, <1>4, <1>5 DEF SafeInv, NoWrites
<1> QED BY <1>1, <1>3, <1>4, <1>6 DEF Unchanged

\* A Stop at a suspension point that the code protects.
LEMMA SafeStop ==
    ASSUME OrderInv, SafeInv, Protected, Stop
    PROVE  /\ SafeInv'
           /\ pc' = "idle" /\ job.kind = "edit" =>
                turns' = job.was.turns /\ steps' = job.was.steps /\ elements' = job.was.elements
<1>1. /\ ~StopStaged /\ ~StopCommitted /\ ~StopEntering /\ ~StopFailing
      /\ ~StopRestoring /\ ~StopUndone
    BY DEF Protected, StopStaged, StopCommitted, StopEntering, StopFailing, StopRestoring,
        StopUndone, MayStop
<1>2. pc # "idle"
    BY <1>1 DEF Stop, StopEarly, StopRun, StopDrain, StopCommit, StopUndoing
<1>3. IsRequest(job)
    BY <1>2, RequestOfTask DEF OrderInv
<1>4. job.kind \in {"message", "edit"}
    BY <1>3, RequestFacts
<1>5. ASSUME NEW x, Stopped(x)
      PROVE  /\ pc' = x /\ SameRequest(job, job') /\ job'.shown = job.shown /\ job'.lost = job.lost
    <2>1. pc' = x /\ job' = [job EXCEPT !.stopped = TRUE]
        BY <1>5 DEF Stopped
    <2> QED BY <1>3, <2>1, RequestStopped
<1>6. CASE StopEarly
    <2>1. UNCHANGED <<turns, late, timeline>>
        BY <1>6 DEF StopEarly
    <2>2. CASE pc = "sent" /\ Finish
        <3>1. job.kind = "message" /\ pc' = "idle"
            BY <2>2 DEF OrderInv, Served, Finish
        <3> QED BY <1>2, <2>1, <3>1, SafeMessage
    <2>3. CASE pc = "staging" /\ Finish
        BY <2>1, <2>3, SafeUnstaged
    <2>4. CASE pc = "opening" /\ (Stopped("undoing") \/ Stopped("restoring"))
        <3>1. job.kind = "edit"
            BY <2>4 DEF OrderInv, Served
        <3>2. pc' \in {"undoing", "restoring"} /\ SameRequest(job, job')
            BY <1>5, <2>4
        <3> QED BY <2>1, <2>4, <3>1, <3>2, SafeBack
    <2> QED BY <1>6, <2>2, <2>3, <2>4 DEF StopEarly
<1>7. CASE StopRun
    <2>1. /\ pc = "running" /\ Stopped("failing") /\ UNCHANGED <<turns, late, timeline>>
          /\ UNCHANGED writes \/ \E o \in job.shown, text \in Texts : Schedule(o, text)
        BY <1>7 DEF StopRun
    <2>2. pc' = "failing" /\ SameRequest(job, job') /\ job'.shown = job.shown
        BY <1>5, <2>1
    <2> QED BY <1>3, <2>1, <2>2, SafeFailing
<1>8. CASE StopDrain
    <2>1. /\ pc = "draining" /\ pc' = "draining" /\ UNCHANGED <<turns, writes, late, timeline>>
          /\ job' = [job EXCEPT !.stopped = TRUE, !.lost = TRUE]
        BY <1>8 DEF StopDrain
    <2>2. SameRequest(job, job') /\ job'.shown = job.shown /\ job'.lost = TRUE
        BY <1>3, <2>1, RequestStoppedAndLost
    <2>3. CASE job.kind = "message"
        BY <1>2, <2>1, <2>2, <2>3, SafeMessage
    <2>4. CASE job.kind = "edit"
        <3>1. EditInv
            BY <2>1, <2>4, EditFacts
        <3>2. Shown(job, steps, writes) /\ NewTurns(job, turns)
            BY <2>1, <3>1 DEF EditInv
        <3>3. Root(job') = Root(job) /\ NewTurns(job', turns)
            BY <2>2, <3>2, SameEdit
        <3>4. Shown(job', steps, writes') /\ NewTurns(job', turns')
            BY <2>1, <2>2, <3>2, <3>3 DEF Shown
        <3> QED BY <2>1, <2>2, <2>4, <3>4, SafeRunning
    <2> QED BY <1>4, <2>1, <2>3, <2>4
<1>9. CASE StopCommit
    <2>1. pc = "committing" /\ Stopped("restoring") /\ UNCHANGED <<turns, late, timeline>>
        BY <1>9 DEF StopCommit
    <2>2. job.kind = "edit"
        BY <2>1 DEF OrderInv, Served
    <2>3. pc' = "restoring" /\ SameRequest(job, job')
        BY <1>5, <2>1
    <2> QED BY <2>1, <2>2, <2>3, SafeBack
<1>10. CASE StopUndoing
    <2>1. pc = "undoing" /\ Stopped("undoing") /\ UNCHANGED <<turns, writes, late, timeline>>
        BY <1>10 DEF StopUndoing
    <2>2. job.kind = "edit"
        BY <2>1 DEF OrderInv, Served
    <2>3. pc' = "undoing" /\ SameRequest(job, job')
        BY <1>5, <2>1
    <2>4. EditInv /\ elements \subseteq blobs
        BY <1>2, <2>2, EditFacts
    <2>5. /\ Kept(job, blobs)
          /\ \/ Unchanged(job, steps, elements) /\ DOMAIN archive = {}
             \/ Replaced(job, archive) /\ SameHead(job, steps, elements)
        BY <2>1, <2>4 DEF EditInv
    <2>6. steps' = steps /\ elements' = elements /\ blobs' = blobs /\ archive' = archive
        BY <2>1 DEF timeline
    <2>7. /\ Kept(job', blobs')
          /\ \/ Unchanged(job', steps', elements') /\ DOMAIN archive' = {}
             \/ Replaced(job', archive') /\ SameHead(job', steps', elements')
        BY <2>3, <2>5, <2>6, SameEdit
    <2>8. EditInv'
        BY <2>3, <2>7 DEF EditInv
    <2> QED BY <2>1, <2>2, <2>3, <2>4, <2>6, <2>8 DEF SafeInv, NoWrites, SameRequest
<1> QED BY <1>1, <1>6, <1>7, <1>8, <1>9, <1>10 DEF Stop

\* What a step that ends an edit leaves.
Outcome ==
    pc # "idle" /\ pc' = "idle" /\ job.kind = "edit" =>
        \/ /\ turns' = job.was.turns
           /\ steps' = job.was.steps
           /\ elements' = job.was.elements
        \/ /\ turns'[Len(turns')] = [id |-> job.id, text |-> job.text]
           /\ steps'[job.id].text = job.text
           /\ Beyond(steps', steps'[job.id].order) = job.shown

LEMMA SafeNext ==
    ASSUME OrderInv, SafeInv, adrift = {}, Protected, Next
    PROVE  SafeInv' /\ Outcome
<1>1. ~Crash
    BY DEF Protected, Crash
<1>2. CASE Receive
    <2>1. pc = "idle"
        BY <1>2 DEF Receive, Send, Edit
    <2> QED BY <1>2, <2>1, SafeReceive DEF Outcome
<1>3. CASE Stop
    BY <1>3, SafeStop DEF Outcome
<1>4. CASE Background
    <2>1. PICK o \in Outputs : Land(o) \/ WriteFails(o) \/ LandLate(o)
        BY <1>4 DEF Background, RestoreAdrift
    <2>2. pc' = pc
        BY <2>1 DEF Land, WriteFails, LandLate
    <2>3. ~LandLate(o)
        BY <2>1 DEF LandLate, SafeInv, NoWrites
    <2> QED BY <2>1, <2>2, <2>3, SafeLand, SafeWriteFails DEF Outcome
<1>5. CASE Work
    <2>1. CASE Reject \/ Start
        <3>1. pc = "sent" /\ UNCHANGED <<turns, late, timeline>>
            BY <2>1 DEF Reject, Start
        <3>2. job.kind = "message"
            BY <3>1 DEF OrderInv, Served
        <3>3. pc' = "idle" \/ (pc' = "running" /\ SameRequest(job, job'))
            BY <2>1 DEF Reject, Start, Finish, Goto, SameRequest
        <3> QED BY <3>1, <3>2, <3>3, SafeMessage DEF Outcome
    <2>2. CASE Stage
        BY <2>2, SafeStage DEF Stage, Goto, Outcome
    <2>3. CASE StageFails
        BY <2>3, SafeUnstaged DEF StageFails, Outcome
    <2>4. CASE Truncate
        BY <2>4, SafeTruncate DEF Truncate, Goto, Outcome
    <2>5. CASE OpenFails \/ CommitFails
        <3>1. /\ pc \in {"opening", "committing"} /\ pc' \in {"restoring", "undoing"} /\ job' = job
              /\ UNCHANGED <<late, timeline>>
            BY <2>5 DEF OpenFails, CommitFails, Goto
        <3>2. job.kind = "edit" /\ SameRequest(job, job')
            BY <3>1 DEF OrderInv, Served, SameRequest
        <3> QED BY <3>1, <3>2, SafeBack DEF Outcome
    <2>6. CASE \E o \in Outputs, text \in Texts : Show(o, text) \/ Answer(o, text) \/ RunFails(o, text)
        <3>1. PICK o \in Outputs, text \in Texts : Show(o, text) \/ Answer(o, text) \/ RunFails(o, text)
            BY <2>6
        <3>2. pc' # "idle"
            BY <3>1 DEF Show, Answer, RunFails, Goto
        <3>3. CASE RunFails(o, text)
            <4>1. /\ pc = "running" /\ pc' = "failing" /\ job' = [job EXCEPT !.caught = TRUE]
                  /\ o \in job.shown /\ Schedule(o, text) /\ UNCHANGED <<turns, late, timeline>>
                BY <3>3 DEF RunFails, Close
            <4>2. IsRequest(job)
                BY <4>1, RequestOfTask DEF OrderInv
            <4>4. SameRequest(job, job') /\ job'.shown = job.shown
                BY <4>1, <4>2, RequestCaught
            <4>3. \E p \in job.shown, said \in Texts : Schedule(p, said)
                BY <3>1, <4>1
            <4> QED BY <3>2, <4>1, <4>2, <4>3, <4>4, SafeFailing DEF Outcome
        <3> QED BY <3>1, <3>2, <3>3, SafeShow, SafeAnswer DEF Outcome
    <2>7. CASE Drained \/ FailureDrained
        <3>1. SafeInv'
            BY <2>7, SafeDrained, SafeFailureDrained
        <3>2. job.kind = "edit" => pc' # "idle"
            BY <2>7 DEF Drained, FailureDrained, Fail, Goto
        <3> QED BY <3>1, <3>2 DEF Outcome
    <2>12. CASE Enter
        BY <2>12, SafeEnter DEF Enter, Goto, Outcome
    <2>8. CASE Commit
        BY <2>8, SafeCommit DEF Commit, Outcome
    <2>9. CASE Clean
        BY <2>9, SafeClean DEF Outcome
    <2>10. CASE Restore
        BY <2>10, SafeRestore DEF Restore, Goto, Outcome
    <2>11. CASE Undo
        BY <2>11, SafeUndo DEF Outcome
    <2> QED BY <1>5, <2>1, <2>2, <2>3, <2>4, <2>5, <2>6, <2>7, <2>8, <2>9, <2>10, <2>11, <2>12 DEF Work
<1> QED BY <1>1, <1>2, <1>3, <1>4, <1>5 DEF Next

\* No restoration goes on alone.
LEMMA NobodyIsAdrift == ASSUME adrift = {}, Protected, Next PROVE adrift' = {}
<1>1. ~Crash /\ ~StopRestoring /\ ~StopUndone
    BY DEF Protected, Crash, StopRestoring, StopUndone, MayStop
<1>2. CASE Receive
    BY <1>2 DEF Receive, Send, Edit
<1>3. CASE Work
    BY <1>3 DEF Work, Reject, Start, Stage, StageFails, Truncate, OpenFails, Show, Answer,
        RunFails, Enter, Drained, FailureDrained, Commit, CommitFails, Clean, Restore, Undo
<1>4. CASE Stop
    BY <1>1, <1>4 DEF Stop, StopEarly, StopRun, StopDrain, StopCommit, StopStaged,
        StopCommitted, StopEntering, StopFailing, StopUndoing
<1>5. CASE Background
    BY <1>5 DEF Background, Land, WriteFails, LandLate, RestoreAdrift
<1> QED BY <1>1, <1>2, <1>3, <1>4, <1>5 DEF Next

LEMMA SafeStutter == ASSUME SafeInv, UNCHANGED vars PROVE SafeInv'
<1>1. /\ pc' = pc /\ job' = job /\ turns' = turns /\ writes' = writes /\ late' = late
      /\ steps' = steps /\ elements' = elements /\ blobs' = blobs /\ archive' = archive
    BY DEF vars, timeline
<1>2. Settled' <=> Settled
    BY <1>1 DEF Settled
<1>3. Sent' <=> Sent
    BY <1>1, <1>2 DEF Sent
<1>4. EditInv' <=> EditInv
    BY <1>1 DEF EditInv
<1> QED BY <1>1, <1>2, <1>3, <1>4 DEF SafeInv, NoWrites
-----------------------------------------------------------------------------
(* What an edit promises. *)

\* The invariant behind the theorems that follow: between requests the timeline
\* shows the runtime's Turns; during an edit the rows ahead of the message are
\* as they were, and the archive holds the others.
THEOREM EditInductive == ASSUME Protected PROVE Spec => [](OrderInv /\ SafeInv /\ adrift = {})
<1>1. Init => SafeInv /\ adrift = {}
    <2> SUFFICES ASSUME Init PROVE SafeInv /\ adrift = {}
        OBVIOUS
    <2>1. /\ elements = {} /\ DOMAIN archive = {} /\ pc = "idle" /\ late = NoWrites
          /\ DOMAIN turns = {} /\ adrift = {}
        BY DEF Init, HistoryInit
    <2> QED BY <2>1 DEF SafeInv, Settled, Shows
<1>2. OrderInv /\ SafeInv /\ adrift = {} /\ [Next]_vars => SafeInv' /\ (adrift = {})'
    BY SafeNext, SafeStutter, NobodyIsAdrift DEF vars
<1> QED BY <1>1, <1>2, OrderInductive, PTL DEF Spec

\* Between requests the timeline shows every completed Turn's request, in order
\* and with its text.
THEOREM TurnsAreShown == ASSUME Protected PROVE Spec => []TimelineShowsTurns
<1>1. OrderInv /\ SafeInv => TimelineShowsTurns
    <2> SUFFICES ASSUME OrderInv, SafeInv, pc = "idle", NEW k \in DOMAIN turns
                 PROVE  /\ turns[k].id \in DOMAIN steps
                        /\ steps[turns[k].id].text = turns[k].text
                        /\ k > 1 => steps[turns[k - 1].id].order < steps[turns[k].id].order
        BY DEF TimelineShowsTurns
    <2>1. Shows(turns, steps) /\ turns \in Seq(Turn)
        BY DEF SafeInv, Settled, OrderInv, TypeOK
    <2>2. DOMAIN turns = 1..Len(turns) /\ Len(turns) \in Nat
        BY <2>1, LenProperties
    <2>3. k > 1 => k - 1 \in DOMAIN turns /\ k - 1 < k
        BY <2>2
    <2> QED BY <2>1, <2>3 DEF Shows
<1> QED BY <1>1, EditInductive, PTL

\* A document that the timeline or an archive names is in the storage.
THEOREM DocumentsAreKept == ASSUME Protected PROVE Spec => []DocumentsKept
<1>1. OrderInv /\ SafeInv => DocumentsKept
    <2> SUFFICES ASSUME OrderInv, SafeInv, NEW r \in DOMAIN archive
                 PROVE  archive[r].elements \subseteq blobs
        BY DEF DocumentsKept, SafeInv
    <2>1. pc # "idle" /\ job.kind = "edit"
        BY DEF SafeInv, Settled, Sent
    <2>2. EditInv
        BY <2>1 DEF SafeInv
    <2>3. pc \in {"staging", "opening", "running", "entering", "draining", "failing", "committing",
                  "restoring", "undoing", "cleaning"}
        BY <2>1 DEF OrderInv, TypeOK, Pcs, Served
    <2>4. Replaced(job, archive) /\ Kept(job, blobs)
        BY <2>2, <2>3 DEF EditInv
    <2> QED BY <2>4 DEF Replaced, Kept
<1> QED BY <1>1, EditInductive, PTL

\* An edit happens as a whole or not at all.
THEOREM EditsAreAtomic == ASSUME Protected PROVE Spec => EditIsAtomic
<1>1. OrderInv /\ SafeInv /\ adrift = {} /\ [Next]_vars => [Outcome]_vars
    BY SafeNext
<1>2. [][Outcome]_vars => EditIsAtomic
    BY PTL DEF Outcome, EditIsAtomic
<1> QED BY <1>1, <1>2, EditInductive, PTL DEF Spec

\* Nothing is written to the timeline between requests.
THEOREM NothingIsLate == ASSUME Protected PROVE Spec => NoLateWrites
<1> DEFINE Still == pc = "idle" /\ pc' = "idle" => UNCHANGED timeline
<1>1. ASSUME OrderInv, SafeInv, adrift = {}, Next PROVE Still
    <2> SUFFICES ASSUME pc = "idle", pc' = "idle" PROVE UNCHANGED timeline
        OBVIOUS
    <2>1. ~Receive
        BY DEF Receive, Send, Edit
    <2>2. ~Work /\ ~Stop /\ ~Crash
        BY DEF Work, Reject, Start, Stage, StageFails, Truncate, OpenFails, Show, Answer, RunFails,
            Enter, Drained, FailureDrained, Commit, CommitFails, Clean, Restore, Undo, Stop,
            StopEarly, StopRun, StopDrain, StopCommit, StopStaged, StopCommitted, StopEntering,
            StopFailing, StopRestoring, StopUndoing, StopUndone, MayStop, Protected, Crash
    <2>3. PICK o \in Outputs : Land(o) \/ WriteFails(o) \/ LandLate(o)
        BY <1>1, <2>1, <2>2 DEF Next, Background, RestoreAdrift
    <2>4. writes[o] = <<>> /\ late[o] = <<>>
        BY <1>1, WritesOfTurn DEF SafeInv, NoWrites
    <2> QED BY <2>3, <2>4 DEF Land, WriteFails, LandLate
<1>2. OrderInv /\ SafeInv /\ adrift = {} /\ [Next]_vars => [Still]_vars
    BY <1>1
<1> QED BY <1>2, EditInductive, PTL DEF Spec, NoLateWrites
=============================================================================
