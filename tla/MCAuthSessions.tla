--------------------------- MODULE MCAuthSessions ---------------------------
(* Instance of AuthSessions for TLC. *)
EXTENDS AuthSessions, TLC

Symmetry == Permutations(Users) \cup Permutations(Sessions)
              \cup Permutations(Resets) \cup Permutations(Txs)
=============================================================================
