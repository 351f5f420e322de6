---------------------------- MODULE PostCounters ----------------------------
(***************************************************************************)
(* Likes, shares and comments of posts and the counters kept beside them   *)
(* (src/modules/interactions, src/modules/comments, change_post_counter of *)
(* src/modules/posts), with the moderation actions and the account         *)
(* deletion that touch the same rows.                                      *)
(*                                                                         *)
(* Each request runs in one READ COMMITTED transaction: get_post, then the *)
(* statement that inserts or deletes the row, then the UPDATE of the       *)
(* counter, then the router's commit.  rows and counter hold what is       *)
(* committed; what a transaction has written and not committed is in its   *)
(* own tx record, and the row locks PostgreSQL holds for it are derived    *)
(* from that record (ChangesRow, LocksPost).                               *)
(***************************************************************************)
EXTENDS Integers, FiniteSets

CONSTANTS Users,     \* accounts
          Posts,     \* published posts
          Comments,  \* comment ids; uuid4 never issues one twice
          Txs        \* database sessions, one per request in flight

Reactions == {"like_count", "share_count"}
Counters == Reactions \cup {"comment_count"}
Keys == Users \cup Comments

VARIABLES rows,     \* rows[k][p]: rows counted by k: likers, sharers, live comments
          counter,  \* counter[k][p]: column k of post p
          created,  \* created[p]: every comment row of p; the ones not in rows are deleted
          hidden,   \* posts with deleted_at set
          closed,   \* accounts that delete_user has anonymised
          tx,       \* tx[t]: Idle, or the request's position and what it wrote
          drift     \* history: uncounted row changes, drift[k][p] = counter - rows

db == <<rows, counter, created, hidden, closed, drift>>
vars == <<rows, counter, created, hidden, closed, drift, tx>>

Idle == [pc |-> "idle"]

\* pc: "checked" after get_post, "wrote" after the row statement, "counted"
\* after the counter statement.  rowcount: rows the row statement changed.
\* moved, value: whether the counter statement matched the post, and what it
\* left there.
OpenTx == [pc : {"checked", "wrote", "counted"}, counter : Counters, post : Posts,
           key : Keys, delta : {1, -1}, rowcount : {0, 1}, moved : BOOLEAN,
           value : Nat]

Init ==
  /\ rows = [k \in Counters |-> [p \in Posts |-> {}]]
  /\ counter = [k \in Counters |-> [p \in Posts |-> 0]]
  /\ created = [p \in Posts |-> {}]
  /\ hidden = {}
  /\ closed = {}
  /\ drift = [k \in Counters |-> [p \in Posts |-> 0]]
  /\ tx = [t \in Txs |-> Idle]

-----------------------------------------------------------------------------
(* Locks. *)

\* t has inserted or deleted row x of (k, p) and not committed.
ChangesRow(t, k, p, x) ==
  /\ tx[t].pc \in {"wrote", "counted"}
  /\ tx[t].counter = k /\ tx[t].post = p /\ tx[t].key = x
  /\ tx[t].rowcount = 1

\* t has updated a counter column of post p and not committed.
LocksPost_FromInsert(t, p) ==
  tx[t].pc \in {"wrote", "counted"} /\ tx[t].post = p
LocksPost(t, p) == tx[t].pc = "counted" /\ tx[t].moved /\ tx[t].post = p

\* The row t is about to insert or delete is being changed by another
\* transaction.  A DELETE does not see a row whose insert is not committed.
WaitsForRow(t) ==
  LET r == tx[t] IN
  /\ r.pc = "checked"
  /\ r.delta = 1 \/ r.key \in rows[r.counter][r.post]
  /\ \E s \in Txs \ {t} : ChangesRow(s, r.counter, r.post, r.key)

\* change_post_counter's condition, and its wait for the post's row.
Matches(t) == tx[t].delta = 1 \/ counter[tx[t].counter][tx[t].post] > 0

WaitsForPost(t) ==
  /\ tx[t].pc = "wrote" /\ tx[t].rowcount = 1
  /\ Matches(t)
  /\ \E s \in Txs \ {t} : LocksPost(s, tx[t].post)

-----------------------------------------------------------------------------
(* The requests: the checks of the handler. *)

Begin(t, k, p, x, d) ==
  /\ tx[t] = Idle
  /\ p \notin hidden
  /\ tx' = [tx EXCEPT ![t] = [pc |-> "checked", counter |-> k, post |-> p,
                              key |-> x, delta |-> d, rowcount |-> 0,
                              moved |-> FALSE, value |-> 0]]
  /\ UNCHANGED db

like_post(t, u, p) == u \notin closed /\ Begin(t, "like_count", p, u, 1)
unlike_post(t, u, p) == u \notin closed /\ Begin(t, "like_count", p, u, -1)
record_share(t, u, p) == u \notin closed /\ Begin(t, "share_count", p, u, 1)

KnownComments ==
  UNION {created[p] : p \in Posts}
    \cup {tx[t].key : t \in {s \in Txs : tx[s] # Idle}}

create_comment(t, c, p) ==
  c \notin KnownComments /\ Begin(t, "comment_count", p, c, 1)

\* get_comment refuses a comment that is already deleted.
delete_comment(t, c, p) ==
  c \in rows["comment_count"][p] /\ Begin(t, "comment_count", p, c, -1)

-----------------------------------------------------------------------------
(* The requests: the statements. *)

\* INSERT ... ON CONFLICT DO NOTHING waits for a transaction that is inserting
\* or deleting the same key, then inserts unless the key is there.
InsertRow_NoUniqueKey(t) ==
  LET r == tx[t] IN
  /\ r.pc = "checked" /\ r.delta = 1
  /\ tx' = [tx EXCEPT ![t].pc = "wrote",
                      ![t].rowcount = IF r.key \in rows[r.counter][r.post] THEN 0 ELSE 1]
  /\ UNCHANGED db
InsertRow(t) ==
  LET r == tx[t] IN
  /\ r.pc = "checked" /\ r.delta = 1
  /\ ~WaitsForRow(t)
  /\ tx' = [tx EXCEPT ![t].pc = "wrote",
                      ![t].rowcount = IF r.key \in rows[r.counter][r.post] THEN 0 ELSE 1]
  /\ UNCHANGED db

\* DELETE, or UPDATE ... WHERE deleted_at IS NULL: a row that is not committed
\* is not seen, one that another transaction is deleting is waited for.
\* delete_comment raises 404 when nothing was there to delete.
DeleteRow_IgnoringRowcount(t) ==
  LET r == tx[t] IN
  /\ r.pc = "checked" /\ r.delta = -1
  /\ tx' = [tx EXCEPT ![t].pc = "wrote", ![t].rowcount = 1]
  /\ UNCHANGED db
DeleteRow(t) ==
  LET r == tx[t]
      there == r.key \in rows[r.counter][r.post]
  IN
  /\ r.pc = "checked" /\ r.delta = -1
  /\ ~WaitsForRow(t)
  /\ tx' = [tx EXCEPT ![t] =
              IF ~there /\ r.counter = "comment_count" THEN Idle
              ELSE [r EXCEPT !.pc = "wrote", !.rowcount = IF there THEN 1 ELSE 0]]
  /\ UNCHANGED db

\* change_post_counter: UPDATE posts SET k = k + delta WHERE id = p, and k > 0
\* when delta < 0.  It waits for the post's row and computes from the committed
\* value; at zero a decrement matches no row.
change_post_counter_ReadModifyWrite(t) ==
  LET r == tx[t] IN
  /\ r.pc = "wrote" /\ r.rowcount = 1
  /\ Matches(t)
  /\ tx' = [tx EXCEPT ![t].pc = "counted", ![t].moved = TRUE,
                      ![t].value = counter[r.counter][r.post] + r.delta]
  /\ UNCHANGED db
change_post_counter_NoFloor(t) ==
  LET r == tx[t] IN
  /\ r.pc = "wrote" /\ r.rowcount = 1
  /\ ~WaitsForPost(t)
  /\ tx' = [tx EXCEPT ![t].pc = "counted", ![t].moved = TRUE,
                      ![t].value = counter[r.counter][r.post] + r.delta]
  /\ UNCHANGED db
change_post_counter(t) ==
  LET r == tx[t] IN
  /\ r.pc = "wrote" /\ r.rowcount = 1
  /\ ~WaitsForPost(t)
  /\ tx' = [tx EXCEPT ![t] =
              [r EXCEPT !.pc = "counted", !.moved = Matches(t),
                        !.value = IF Matches(t) THEN counter[r.counter][r.post] + r.delta
                                             ELSE 0]]
  /\ UNCHANGED db

-----------------------------------------------------------------------------
(* The router's commit, and the ways a request ends without one. *)

\* A like that was there, an unlike of nothing: a commit of no change.
CommitUnchanged(t) ==
  /\ tx[t].pc = "wrote" /\ tx[t].rowcount = 0
  /\ tx' = [tx EXCEPT ![t] = Idle]
  /\ UNCHANGED db

CommitChange(t) ==
  LET r == tx[t]
      removes == r.delta = -1
  IN
  /\ r.pc = "counted"
  /\ rows' = [rows EXCEPT ![r.counter][r.post] =
                IF removes THEN @ \ {r.key} ELSE @ \cup {r.key}]
  /\ counter' = IF r.moved THEN [counter EXCEPT ![r.counter][r.post] = r.value]
                           ELSE counter
  /\ created' = IF r.counter = "comment_count"
                  THEN [created EXCEPT ![r.post] = @ \cup {r.key}] ELSE created
  /\ drift' = IF r.moved THEN drift ELSE [drift EXCEPT ![r.counter][r.post] = @ + 1]
  /\ tx' = [tx EXCEPT ![t] = Idle]
  /\ UNCHANGED <<hidden, closed>>

\* An AppError, a lost connection, a deadlock victim, the process dying: the
\* session closes without a commit and PostgreSQL drops what it wrote.
Rollback(t) ==
  /\ tx[t] # Idle
  /\ tx' = [tx EXCEPT ![t] = Idle]
  /\ UNCHANGED db

-----------------------------------------------------------------------------
(* Moderation and account deletion.  Each locks what it writes before it   *)
(* reads it and holds the locks to its commit, so one step stands for the  *)
(* transaction; the guards are its waits.                                  *)

\* DELETE of all likes and shares of u, under FOR UPDATE on the account's row.
\* A transaction inserting a row for u holds a key share of the account.
delete_user(u) ==
  /\ \A t \in Txs, k \in Reactions, p \in Posts : ~ChangesRow(t, k, p, u)
  /\ rows' = [k \in Counters |->
                IF k \in Reactions THEN [p \in Posts |-> rows[k][p] \ {u}]
                                   ELSE rows[k]]
  /\ drift' = [k \in Counters |-> [p \in Posts |->
                IF k \in Reactions /\ u \in rows[k][p] THEN drift[k][p] + 1
                                                       ELSE drift[k][p]]]
  /\ closed' = closed \cup {u}
  /\ UNCHANGED <<counter, created, hidden, tx>>

hide_comment(c, p) ==
  /\ c \in rows["comment_count"][p]
  /\ \A t \in Txs : ~ChangesRow(t, "comment_count", p, c)
  /\ rows' = [rows EXCEPT !["comment_count"][p] = @ \ {c}]
  /\ drift' = [drift EXCEPT !["comment_count"][p] = @ + 1]
  /\ UNCHANGED <<counter, created, hidden, closed, tx>>

restore_comment(c, p) ==
  /\ c \in created[p] \ rows["comment_count"][p]
  /\ \A t \in Txs : ~ChangesRow(t, "comment_count", p, c)
  /\ rows' = [rows EXCEPT !["comment_count"][p] = @ \cup {c}]
  /\ drift' = [drift EXCEPT !["comment_count"][p] = @ - 1]
  /\ UNCHANGED <<counter, created, hidden, closed, tx>>

\* FOR UPDATE on the post also waits for the key share that an uncommitted
\* insert of a like, share or comment holds on it.
PostFree(p) ==
  \A t \in Txs :
    /\ ~LocksPost(t, p)
    /\ ~(\E k \in Counters, x \in Keys : ChangesRow(t, k, p, x) /\ tx[t].delta = 1)

hide_post(p) ==
  /\ PostFree(p)
  /\ hidden' = hidden \cup {p}
  /\ UNCHANGED <<rows, counter, created, closed, drift, tx>>

restore_post(p) ==
  /\ p \in hidden
  /\ PostFree(p)
  /\ hidden' = hidden \ {p}
  /\ UNCHANGED <<rows, counter, created, closed, drift, tx>>

\* The author's own deletion is a plain UPDATE.
delete_post(p) ==
  /\ p \notin hidden
  /\ \A t \in Txs : ~LocksPost(t, p)
  /\ hidden' = hidden \cup {p}
  /\ UNCHANGED <<rows, counter, created, closed, drift, tx>>

-----------------------------------------------------------------------------
Request(t) ==
  \/ \E u \in Users, p \in Posts :
        like_post(t, u, p) \/ unlike_post(t, u, p) \/ record_share(t, u, p)
  \/ \E c \in Comments, p \in Posts : create_comment(t, c, p) \/ delete_comment(t, c, p)

WriteRow(t) == InsertRow(t) \/ DeleteRow(t)
Commit(t) == CommitUnchanged(t) \/ CommitChange(t)

Staff ==
  \/ \E u \in Users : delete_user(u)
  \/ \E c \in Comments, p \in Posts : hide_comment(c, p) \/ restore_comment(c, p)
  \/ \E p \in Posts : hide_post(p) \/ restore_post(p) \/ delete_post(p)

Next ==
  \/ \E t \in Txs : Request(t) \/ WriteRow(t) \/ change_post_counter(t) \/ Commit(t)
                      \/ Rollback(t)
  \/ Staff

Spec == Init /\ [][Next]_vars

-----------------------------------------------------------------------------
(* Properties. *)

\* Every variable keeps the shape the tables give it; no counter column goes
\* below zero, whatever order decrements commit in.
TypeOK ==
  /\ rows \in [Counters -> [Posts -> SUBSET Keys]]
  /\ counter \in [Counters -> [Posts -> Nat]]
  /\ created \in [Posts -> SUBSET Keys]
  /\ hidden \subseteq Posts
  /\ closed \subseteq Users
  /\ drift \in [Counters -> [Posts -> Int]]
  /\ tx \in [Txs -> {Idle} \cup OpenTx]

\* A counter differs from the number of its rows by exactly the row changes
\* that the code makes without touching the counter (hide_comment,
\* restore_comment, delete_user, a decrement refused at zero): no interleaving
\* of requests loses, repeats or invents a change.
CounterLedger ==
  \A k \in Counters, p \in Posts :
    counter[k][p] = Cardinality(rows[k][p]) + drift[k][p]

\* like_count and share_count are never below the number of likes and shares
\* that exist, so an unlike always finds something to decrement.
ReactionsNeverUndercounted ==
  \A k \in Reactions, p \in Posts : counter[k][p] >= Cardinality(rows[k][p])

\* Every request takes effect at one instant, the row and the counter together:
\* the transactions implement AtomicCounters.
Atomic == INSTANCE AtomicCounters
AtomicSpec == Atomic!Spec

\* Among the requests in flight one can always go on: the locks are taken row
\* first and post second, so no set of requests waits in a circle.
SomeRequestProceeds ==
  (\E t \in Txs : tx[t] # Idle) =>
    \E t \in Txs : tx[t] # Idle /\ ~WaitsForRow(t) /\ ~WaitsForPost(t)
=============================================================================
