---- MODULE MCRecordManager ----
EXTENDS RecordManager, TLC
Symmetry == Permutations(Threads)
====
