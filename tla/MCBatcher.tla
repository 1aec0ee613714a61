----------------------------- MODULE MCBatcher -----------------------------
(* Instances of Batcher for TLC                                            *)
EXTENDS Batcher, TLC

CONSTANTS r1, r2

RequestSymmetry == Permutations(Requests)
=============================================================================
