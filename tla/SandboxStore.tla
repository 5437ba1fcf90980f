---------------------------- MODULE SandboxStore ----------------------------
(***************************************************************************)
(* What SandboxFiles promises to the rest of the program (ChatRuntime      *)
(* takes it for granted): the documents and the internal files of one Chat *)
(* change in single steps, a document never replaces another, a snapshot   *)
(* keeps what it was taken from, a restoration puts back both trees, and   *)
(* an operation that fails has changed nothing.  Only a deletion may stop  *)
(* half-way, with any part of the files left; after it nothing is asked of *)
(* the Chat but that again.  A tree gives each candidate for a name the    *)
(* size of its file, 0 where there is none.                                *)
(***************************************************************************)
EXTENDS Naturals, Functions

CONSTANTS
    Slots,      \* the candidates "name", "name (2)", ... in this order
    MaxFile,    \* max_file_bytes
    MaxChat     \* max_chat_bytes

VARIABLES files, artifacts, snapshots, deleting

store == <<files, artifacts, snapshots, deleting>>

Nothing == [i \in Slots |-> 0]

Total(tree) == FoldFunction(+, 0, tree)

Upload(size) ==
    /\ ~deleting
    /\ size <= MaxFile /\ Total(files) + size <= MaxChat
    /\ \E i \in Slots :
         /\ files[i] = 0
         /\ \A j \in Slots : j < i => files[j] # 0
         /\ files' = [files EXCEPT ![i] = size]
    /\ UNCHANGED <<artifacts, snapshots, deleting>>

\* Before snapshots had a version they held the documents only.
TakeSnapshot ==
    /\ ~deleting
    /\ snapshots' = snapshots \cup
                      {[version |-> 2, files |-> files, artifacts |-> artifacts]}
    /\ UNCHANGED <<files, artifacts, deleting>>

Restore(s) ==
    /\ ~deleting
    /\ s \in snapshots
    /\ files' = s.files
    /\ artifacts' = IF s.version = 2 THEN s.artifacts ELSE Nothing
    /\ UNCHANGED <<snapshots, deleting>>

\* Some of a tree's files, or all of them.
IsPart(left, tree) == \A i \in Slots : left[i] \in {0, tree[i]}

Discard ==
    /\ deleting' = TRUE
    /\ IsPart(files', files) /\ IsPart(artifacts', artifacts)
    /\ \A left \in snapshots' : \E s \in snapshots :
         /\ IsPart(left.files, s.files) /\ IsPart(left.artifacts, s.artifacts)
         /\ left.version <= s.version

StoreInit ==
    /\ files = Nothing
    /\ artifacts \in [Slots -> 0 .. MaxChat]
    /\ \A s \in snapshots : s.version = 1
    /\ deleting = FALSE

StoreNext ==
    \/ \E size \in 1 .. MaxFile : Upload(size)
    \/ TakeSnapshot
    \/ \E s \in snapshots : Restore(s)
    \/ Discard

StoreSpec == StoreInit /\ [][StoreNext]_store
=============================================================================
