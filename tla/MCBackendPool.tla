---------------------------- MODULE MCBackendPool ----------------------------
(* Instances of BackendPool for TLC. *)
EXTENDS BackendPool, TLC

CONSTANTS k1, k2, s1, s2, w1, p1, p2

Symmetry == Permutations(Keys) \cup Permutations(Stubs) \cup Permutations(Procs)
=============================================================================
