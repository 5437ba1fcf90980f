------------------------- MODULE MCEditTransaction -------------------------
(* Small instances of EditTransaction for TLC. *)
EXTENDS EditTransaction, TLC

CONSTANTS m1, m2, o1, o2, o3, a, b

\* Nothing tells two messages, two outputs or two texts apart.
Alike == Permutations(Messages) \cup Permutations(Outputs) \cup Permutations(Texts)
=============================================================================
