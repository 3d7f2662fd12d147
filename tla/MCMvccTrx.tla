----------------------------- MODULE MCMvccTrx -----------------------------
(* Small instances of MvccTrx for TLC: all slots on one page.              *)
EXTENDS MvccTrx, TLC

MCPages == {1}
MCPageOf == [r \in Rids |-> 1]
MCSymmetry == Permutations(Sessions) \cup Permutations(Rids)
=============================================================================
