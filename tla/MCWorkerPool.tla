---------------------------- MODULE MCWorkerPool ----------------------------
(* Instances of WorkerPool for TLC. *)
EXTENDS WorkerPool, TLC

CONSTANTS t1, t2, t3, w1, w2, w3, w4

Symmetry == Permutations(Tasks) \union Permutations(Workers)
=============================================================================
