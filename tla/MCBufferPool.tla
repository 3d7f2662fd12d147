---- MODULE MCBufferPool ----
(* Two files, one of two pages and one of a single page.  Threads and frames are *)
(* interchangeable. *)
EXTENDS BufferPool, TLC

CONSTANTS a, b

Sizes == a :> 3 @@ b :> 2

Symmetry == Permutations(Threads) \cup Permutations(Frames)
====
