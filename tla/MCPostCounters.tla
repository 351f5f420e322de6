--------------------------- MODULE MCPostCounters ---------------------------
(* Instance of PostCounters for TLC. *)
EXTENDS PostCounters, TLC

\* Nothing distinguishes two accounts, two comments or two sessions.
Symmetry == Permutations(Users) \cup Permutations(Comments) \cup Permutations(Txs)
=============================================================================
