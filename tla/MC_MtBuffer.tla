---------------------------- MODULE MC_MtBuffer ----------------------------
(* MtBuffer on five threads, a ring of two cells and three units of SE.    *)
EXTENDS MtBuffer, TLC
CONSTANTS w1, w2, w3, w4, w5
Threads == {w1, w2, w3, w4, w5}
ThreadSymmetry == Permutations(Threads)
=============================================================================
