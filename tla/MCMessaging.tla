----------------------------- MODULE MCMessaging -----------------------------
(* Instance of Messaging for TLC. *)
EXTENDS Messaging, TLC

CONSTANTS MaxTroubles, MaxRows

\* Bound: blocks, sanctions and revocations that are there at one time.
FewTroubles ==
  Cardinality(blocks) + Cardinality({u \in Users : account[u] # "active"})
    + Cardinality({d \in Devices : device[d] = "revoked"}) <= MaxTroubles

\* Bound: conversations and messages that have been made.
FewRows ==
  Cardinality({c \in Convs : conv[c] # NoConv}) + Cardinality({m \in Msgs : msg[m] # NoMsg})
    <= MaxRows

Symmetry == Permutations(Users) \cup Permutations(Convs) \cup Permutations(Msgs)
              \cup Permutations(Txs)
=============================================================================
