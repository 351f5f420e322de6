--------------------------- MODULE AtomicCounters ---------------------------
(***************************************************************************)
(* What the interactions and comments modules promise about a post's       *)
(* denormalised counters: a request takes effect at one instant, and the   *)
(* instant that adds or removes a row moves the counter of that row's      *)
(* post by one.  Rows also come and go without the counter moving; this    *)
(* module says exactly which ones: comments (moderation), and all the      *)
(* likes and shares of one account together (account deletion).            *)
(***************************************************************************)
EXTENDS Naturals

CONSTANTS Users, Posts, Comments

VARIABLES rows,     \* rows[k][p]: the rows of post p that counter k counts
          counter   \* counter[k][p]: the column k of post p

Reactions == {"like_count", "share_count"}
Counters == Reactions \cup {"comment_count"}

Init ==
  /\ rows = [k \in Counters |-> [p \in Posts |-> {}]]
  /\ counter = [k \in Counters |-> [p \in Posts |-> 0]]

\* A like, a first share or a new comment: the row and the counter together.
Add(k, p, x) ==
  /\ x \notin rows[k][p]
  /\ rows' = [rows EXCEPT ![k][p] = @ \cup {x}]
  /\ counter' = [counter EXCEPT ![k][p] = @ + 1]

\* An unlike, or a comment its author deletes.
Remove(k, p, x) ==
  /\ x \in rows[k][p]
  /\ counter[k][p] > 0
  /\ rows' = [rows EXCEPT ![k][p] = @ \ {x}]
  /\ counter' = [counter EXCEPT ![k][p] = @ - 1]

\* A comment leaves or returns and the counter stays.
DropComment(p, c) ==
  /\ rows' = [rows EXCEPT !["comment_count"][p] = @ \ {c}]
  /\ UNCHANGED counter

ReturnComment(p, c) ==
  /\ c \notin rows["comment_count"][p]
  /\ rows' = [rows EXCEPT !["comment_count"][p] = @ \cup {c}]
  /\ UNCHANGED counter

\* Every like and share of one account leaves and the counters stay.
DropAccount(u) ==
  /\ rows' = [k \in Counters |->
                IF k \in Reactions THEN [p \in Posts |-> rows[k][p] \ {u}]
                                   ELSE rows[k]]
  /\ UNCHANGED counter

Next ==
  \/ \E k \in Counters, p \in Posts, x \in Users \cup Comments :
        Add(k, p, x) \/ Remove(k, p, x)
  \/ \E p \in Posts : \E c \in rows["comment_count"][p] : DropComment(p, c)
  \/ \E p \in Posts, c \in Comments : ReturnComment(p, c)
  \/ \E u \in Users : DropAccount(u)

Spec == Init /\ [][Next]_<<rows, counter>>

=============================================================================
