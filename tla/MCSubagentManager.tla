------------------------- MODULE MCSubagentManager -------------------------
(* Instances of SubagentManager for TLC. *)
EXTENDS SubagentManager, TLC

CONSTANTS a1, a2, a3

Symmetry == Permutations(Agents)
=============================================================================
