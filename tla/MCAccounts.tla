------------------------------ MODULE MCAccounts ------------------------------
\* Instances of Accounts and RateLimiter for TLC.  The two share no state: a
\* behaviour takes the steps of one of them.
EXTENDS Accounts, RateLimiter, TLC

CONSTANTS MaxEach,     \* bound: requests of members, and of staff
          MaxRequests, \* bound: requests
          MaxTime,     \* bound: the limiter's clock
          MaxOver      \* bound: refused calls that Redis counts

VARIABLE part

MCInit ==
  \/ part = "accounts" /\ Init /\ LimiterInit /\ ~redis_url
  \/ /\ part = "limiter" /\ LimiterInit
     /\ Init /\ indexed /\ Cardinality(Registered) = 1
     /\ \A u \in Registered : u = author /\ user[u].role = "user"

MCNext ==
  \/ part = "accounts" /\ Next /\ UNCHANGED <<part, limiter>>
  \/ part = "limiter" /\ LimiterNext /\ UNCHANGED <<part, vars>>

MCSpec == MCInit /\ [][MCNext]_<<part, vars, limiter>>

FewRequests ==
  /\ made.members <= MaxEach /\ made.staff <= MaxEach
  /\ made.members + made.staff <= MaxRequests
  /\ now <= MaxTime /\ counter <= limit + MaxOver

Symmetry == Permutations(Users) \cup Permutations(Addresses) \cup Permutations(Txs)
=============================================================================
