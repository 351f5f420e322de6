------------------------- MODULE MCCategoryWorkflow -------------------------
(* Instance of CategoryWorkflow for TLC. *)
EXTENDS CategoryWorkflow, TLC

Symmetry == Permutations(Reqs) \cup Permutations(Posts) \cup Permutations(Txs)
=============================================================================
