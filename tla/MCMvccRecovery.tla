--------------------------- MODULE MCMvccRecovery ---------------------------
(* Small instances of MvccRecovery for TLC: all slots on one page.         *)
EXTENDS MvccRecovery, TLC

MCPages == {1}
MCPageOf == [r \in Rids |-> 1]
MCSymmetry == Permutations(Sessions) \cup Permutations(Rids)
=============================================================================
