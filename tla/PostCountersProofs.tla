------------------------- MODULE PostCountersProofs -------------------------
(***************************************************************************)
(* Proofs about PostCounters, for any sets of accounts, posts, comments    *)
(* and sessions.  The inductive invariant says what the row locks give:    *)
(* while a transaction holds a row or a post, what it saw stays true.      *)
(***************************************************************************)
EXTENDS PostCounters, FiniteSetTheorems, TLAPS

FiniteRows == \A k \in Counters, p \in Posts : IsFiniteSet(rows[k][p])

\* Account deletion removes likes and shares and no code puts one back
\* without counting it.
NoReactionDebt == \A k \in Reactions, p \in Posts : drift[k][p] >= 0

Pending(t) == tx[t].pc \in {"wrote", "counted"} /\ tx[t].rowcount = 1

\* What a transaction wrote is still a change: an inserted row is not there
\* yet, a deleted one still is.
PendingIsChange ==
  \A t \in Txs : Pending(t) =>
    (tx[t].delta = 1 <=> tx[t].key \notin rows[tx[t].counter][tx[t].post])

\* The value computed under the post's lock is still one step from the
\* committed one; only a comment's decrement can find the counter at zero.
ValueIsFresh ==
  \A t \in Txs : tx[t].pc = "counted" =>
    /\ tx[t].rowcount = 1
    /\ tx[t].moved =>
         tx[t].value = counter[tx[t].counter][tx[t].post] + tx[t].delta
    /\ ~tx[t].moved => tx[t].delta = -1 /\ tx[t].counter = "comment_count"

OneChangerPerRow ==
  \A s, t \in Txs :
    /\ Pending(s) /\ Pending(t)
    /\ tx[s].counter = tx[t].counter /\ tx[s].post = tx[t].post
    /\ tx[s].key = tx[t].key
    => s = t

OneLockerPerPost ==
  \A s, t \in Txs, p \in Posts : LocksPost(s, p) /\ LocksPost(t, p) => s = t

IInv ==
  /\ TypeOK
  /\ FiniteRows
  /\ CounterLedger
  /\ NoReactionDebt
  /\ PendingIsChange
  /\ ValueIsFresh
  /\ OneChangerPerRow
  /\ OneLockerPerPost

-----------------------------------------------------------------------------
(* Types. *)

LEMMA RequestTypeOK ==
  ASSUME TypeOK, NEW t \in Txs, Request(t)
  PROVE  TypeOK'
<1>1. PICK k \in Counters, p \in Posts, x \in Keys, d \in {1, -1} : Begin(t, k, p, x, d)
  BY DEF Request, like_post, unlike_post, record_share, create_comment, delete_comment,
         Counters, Reactions, Keys
<1>2. [pc |-> "checked", counter |-> k, post |-> p, key |-> x, delta |-> d,
       rowcount |-> 0, moved |-> FALSE, value |-> 0] \in OpenTx
  BY DEF OpenTx
<1>3. tx' \in [Txs -> {Idle} \cup OpenTx]
  BY <1>1, <1>2 DEF TypeOK, Begin
<1> QED
  BY <1>1, <1>3 DEF TypeOK, Begin, db

LEMMA OpenIsOpenTx ==
  ASSUME TypeOK, NEW t \in Txs, tx[t].pc # "idle"
  PROVE  tx[t] \in OpenTx
BY DEF TypeOK, Idle

LEMMA WriteRowTypeOK ==
  ASSUME TypeOK, NEW t \in Txs, WriteRow(t)
  PROVE  TypeOK'
<1>1. tx[t] \in OpenTx
  BY OpenIsOpenTx DEF WriteRow, InsertRow, DeleteRow
<1>2. tx' \in [Txs -> {Idle} \cup OpenTx]
  <2>1. CASE InsertRow(t)
    BY <1>1, <2>1 DEF TypeOK, InsertRow, OpenTx
  <2>2. CASE DeleteRow(t)
    BY <1>1, <2>2 DEF TypeOK, DeleteRow, OpenTx
  <2> QED
    BY <2>1, <2>2 DEF WriteRow
<1> QED
  BY <1>2 DEF TypeOK, WriteRow, InsertRow, DeleteRow, db

LEMMA CounterTypeOK ==
  ASSUME TypeOK, NEW t \in Txs, change_post_counter(t)
  PROVE  TypeOK'
<1>1. tx[t] \in OpenTx
  BY OpenIsOpenTx DEF change_post_counter
<1>2. counter[tx[t].counter][tx[t].post] \in Nat
  BY <1>1 DEF TypeOK, OpenTx
<1>3. Matches(t) => counter[tx[t].counter][tx[t].post] + tx[t].delta \in Nat
  BY <1>1, <1>2 DEF Matches, OpenTx
<1>4. tx' \in [Txs -> {Idle} \cup OpenTx]
  <2>1. Matches(t) \in BOOLEAN
    BY DEF Matches
  <2> QED
    BY <1>1, <1>3, <2>1 DEF TypeOK, change_post_counter, OpenTx
<1> QED
  BY <1>4 DEF TypeOK, change_post_counter, db

LEMMA CommitTypeOK ==
  ASSUME TypeOK, NEW t \in Txs, Commit(t)
  PROVE  TypeOK'
<1>1. CASE CommitUnchanged(t)
  BY <1>1 DEF TypeOK, CommitUnchanged, db
<1>2. CASE CommitChange(t)
  <2>1. tx[t] \in OpenTx
    BY <1>2, OpenIsOpenTx DEF CommitChange
  <2>2. rows' \in [Counters -> [Posts -> SUBSET Keys]]
    BY <1>2, <2>1 DEF TypeOK, CommitChange, OpenTx
  <2>3. counter' \in [Counters -> [Posts -> Nat]]
    BY <1>2, <2>1 DEF TypeOK, CommitChange, OpenTx
  <2>4. drift' \in [Counters -> [Posts -> Int]]
    BY <1>2, <2>1 DEF TypeOK, CommitChange, OpenTx
  <2>5. created' \in [Posts -> SUBSET Keys]
    BY <1>2, <2>1 DEF TypeOK, CommitChange, OpenTx
  <2> QED
    BY <1>2, <2>2, <2>3, <2>4, <2>5 DEF TypeOK, CommitChange
<1> QED
  BY <1>1, <1>2 DEF Commit

LEMMA StaffTypeOK ==
  ASSUME TypeOK, Staff
  PROVE  TypeOK'
<1>1. ASSUME NEW u \in Users, delete_user(u) PROVE TypeOK'
  BY <1>1 DEF TypeOK, delete_user
<1>2. ASSUME NEW c \in Comments, NEW p \in Posts, hide_comment(c, p) PROVE TypeOK'
  BY <1>2 DEF TypeOK, hide_comment, Counters
<1>3. ASSUME NEW c \in Comments, NEW p \in Posts, restore_comment(c, p) PROVE TypeOK'
  BY <1>3 DEF TypeOK, restore_comment, Counters, Keys
<1>4. ASSUME NEW p \in Posts, hide_post(p) \/ restore_post(p) \/ delete_post(p)
      PROVE  TypeOK'
  BY <1>4 DEF TypeOK, hide_post, restore_post, delete_post
<1> QED
  BY <1>1, <1>2, <1>3, <1>4 DEF Staff

\* Every variable keeps its type in every reachable state; in particular no
\* counter column is ever negative.
THEOREM TypeCorrect == Spec => []TypeOK
<1>1. Init => TypeOK
  BY DEF Init, TypeOK, Counters, Idle
<1>2. TypeOK /\ [Next]_vars => TypeOK'
  <2> SUFFICES ASSUME TypeOK, [Next]_vars PROVE TypeOK'
    OBVIOUS
  <2>1. CASE UNCHANGED vars
    BY <2>1 DEF vars, TypeOK
  <2>2. ASSUME NEW t \in Txs, Rollback(t) PROVE TypeOK'
    BY <2>2 DEF TypeOK, Rollback, db
  <2> QED
    BY <2>1, <2>2, RequestTypeOK, WriteRowTypeOK, CounterTypeOK, CommitTypeOK, StaffTypeOK
       DEF Next
<1> QED
  BY <1>1, <1>2, PTL DEF Spec

-----------------------------------------------------------------------------
(* The inductive invariant.                                                *)

\* What a step of session t that leaves the tables alone has to show.
LEMMA TxStep ==
  ASSUME IInv, TypeOK', NEW t \in Txs, UNCHANGED db,
         \A s \in Txs \ {t} : tx'[s] = tx[s],
         Pending(t)' =>
           /\ tx'[t].delta = 1 <=> tx'[t].key \notin rows[tx'[t].counter][tx'[t].post]
           /\ \A s \in Txs \ {t} :
                ~ChangesRow(s, tx'[t].counter, tx'[t].post, tx'[t].key),
         tx'[t].pc = "counted" =>
           /\ tx'[t].rowcount = 1
           /\ tx'[t].moved =>
                /\ tx'[t].value = counter[tx'[t].counter][tx'[t].post] + tx'[t].delta
                /\ \A s \in Txs \ {t} : ~LocksPost(s, tx'[t].post)
           /\ ~tx'[t].moved => tx'[t].delta = -1 /\ tx'[t].counter = "comment_count"
  PROVE  IInv'
<1>1. FiniteRows' /\ CounterLedger' /\ NoReactionDebt'
  BY DEF IInv, db, FiniteRows, CounterLedger, NoReactionDebt
<1>2. PendingIsChange'
  BY DEF IInv, db, PendingIsChange, Pending
<1>3. ValueIsFresh'
  BY DEF IInv, db, ValueIsFresh
<1>4. OneChangerPerRow'
  BY DEF IInv, db, OneChangerPerRow, Pending, ChangesRow
<1>5. OneLockerPerPost'
  BY DEF IInv, db, OneLockerPerPost, LocksPost
<1> QED
  BY <1>1, <1>2, <1>3, <1>4, <1>5 DEF IInv

LEMMA RequestInv ==
  ASSUME IInv, NEW t \in Txs, Request(t)
  PROVE  IInv'
<1>1. TypeOK'
  BY RequestTypeOK DEF IInv
<1>2. PICK k \in Counters, p \in Posts, x \in Keys, d \in {1, -1} : Begin(t, k, p, x, d)
  BY DEF Request, like_post, unlike_post, record_share, create_comment, delete_comment,
         Counters, Reactions, Keys
<1>3. tx'[t].pc = "checked" /\ \A s \in Txs \ {t} : tx'[s] = tx[s]
  BY <1>2 DEF IInv, TypeOK, Begin
<1> QED
  BY <1>1, <1>2, <1>3, TxStep DEF Begin, Pending

LEMMA InsertInv ==
  ASSUME IInv, NEW t \in Txs, InsertRow(t)
  PROVE  IInv'
<1> DEFINE r == tx[t]
<1>1. r \in OpenTx
  BY OpenIsOpenTx DEF IInv, InsertRow
<1>2. TypeOK'
  BY WriteRowTypeOK DEF IInv, WriteRow
<1>3. \A s \in Txs \ {t} : tx'[s] = tx[s]
  BY DEF IInv, TypeOK, InsertRow
<1>4. /\ tx'[t].pc = "wrote" /\ tx'[t].delta = 1
      /\ tx'[t].counter = r.counter /\ tx'[t].post = r.post /\ tx'[t].key = r.key
      /\ tx'[t].rowcount = IF r.key \in rows[r.counter][r.post] THEN 0 ELSE 1
  BY <1>1 DEF IInv, TypeOK, InsertRow, OpenTx
<1>5. \A s \in Txs \ {t} : ~ChangesRow(s, r.counter, r.post, r.key)
  BY DEF InsertRow, WaitsForRow
<1>6. UNCHANGED db
  BY DEF InsertRow
<1>7. Pending(t)' => tx'[t].key \notin rows[tx'[t].counter][tx'[t].post]
  BY <1>4 DEF Pending
<1> HIDE DEF r
<1> QED
  BY <1>2, <1>3, <1>4, <1>5, <1>6, <1>7, TxStep

LEMMA DeleteInv ==
  ASSUME IInv, NEW t \in Txs, DeleteRow(t)
  PROVE  IInv'
<1> DEFINE r == tx[t]
           there == r.key \in rows[r.counter][r.post]
<1>1. r \in OpenTx
  BY OpenIsOpenTx DEF IInv, DeleteRow
<1>2. TypeOK'
  BY WriteRowTypeOK DEF IInv, WriteRow
<1>3. \A s \in Txs \ {t} : tx'[s] = tx[s]
  BY DEF IInv, TypeOK, DeleteRow
<1>4. UNCHANGED db
  BY DEF DeleteRow
<1>5. CASE ~there /\ r.counter = "comment_count"
  <2>1. tx'[t] = Idle
    BY <1>5 DEF IInv, TypeOK, DeleteRow
  <2>2. ~Pending(t)' /\ tx'[t].pc # "counted"
    BY <2>1 DEF Pending, Idle
  <2> QED
    BY <1>2, <1>3, <1>4, <2>2, TxStep
<1>6. CASE ~(~there /\ r.counter = "comment_count")
  <2>1. /\ tx'[t].pc = "wrote" /\ tx'[t].delta = -1
        /\ tx'[t].counter = r.counter /\ tx'[t].post = r.post /\ tx'[t].key = r.key
        /\ tx'[t].rowcount = IF there THEN 1 ELSE 0
    BY <1>1, <1>6 DEF IInv, TypeOK, DeleteRow, OpenTx
  <2>2. there => \A s \in Txs \ {t} : ~ChangesRow(s, r.counter, r.post, r.key)
    BY DEF DeleteRow, WaitsForRow
  <2>3. Pending(t)' => there
    BY <2>1 DEF Pending
  <2> HIDE DEF r
  <2> QED
    BY <1>2, <1>3, <1>4, <2>1, <2>2, <2>3, TxStep
<1> QED
  BY <1>5, <1>6

\* A reaction that is there to be removed has been counted.
LEMMA ReactionCounted ==
  ASSUME IInv, NEW k \in Reactions, NEW p \in Posts
  PROVE  /\ counter[k][p] >= Cardinality(rows[k][p])
         /\ rows[k][p] # {} => counter[k][p] > 0
<1>1. k \in Counters
  BY DEF Counters
<1>2. IsFiniteSet(rows[k][p]) /\ Cardinality(rows[k][p]) \in Nat
  BY <1>1, FS_CardinalityType DEF IInv, FiniteRows
<1>3. drift[k][p] \in Int /\ counter[k][p] \in Nat
  BY <1>1 DEF IInv, TypeOK
<1>4. counter[k][p] = Cardinality(rows[k][p]) + drift[k][p] /\ drift[k][p] >= 0
  BY <1>1 DEF IInv, CounterLedger, NoReactionDebt
<1>5. rows[k][p] # {} => Cardinality(rows[k][p]) > 0
  BY <1>2, FS_EmptySet
<1> QED
  BY <1>2, <1>3, <1>4, <1>5

LEMMA CounterInv ==
  ASSUME IInv, NEW t \in Txs, change_post_counter(t)
  PROVE  IInv'
<1> DEFINE r == tx[t]
<1>1. r \in OpenTx /\ r.pc = "wrote" /\ r.rowcount = 1
  BY OpenIsOpenTx DEF IInv, change_post_counter
<1>2. TypeOK'
  BY CounterTypeOK DEF IInv
<1>3. \A s \in Txs \ {t} : tx'[s] = tx[s]
  BY DEF IInv, TypeOK, change_post_counter
<1>4. /\ tx'[t].pc = "counted" /\ tx'[t].delta = r.delta /\ tx'[t].rowcount = 1
      /\ tx'[t].counter = r.counter /\ tx'[t].post = r.post /\ tx'[t].key = r.key
      /\ tx'[t].moved = Matches(t)
      /\ Matches(t) => tx'[t].value = counter[r.counter][r.post] + r.delta
  <2>1. Matches(t) \in BOOLEAN
    BY DEF Matches
  <2> QED
    BY <1>1, <2>1 DEF IInv, TypeOK, change_post_counter, OpenTx
<1>5. Matches(t) => \A s \in Txs \ {t} : ~LocksPost(s, r.post)
  BY <1>1 DEF change_post_counter, WaitsForPost
<1>6. Pending(t)
  BY <1>1 DEF Pending
<1>7. r.delta = 1 <=> r.key \notin rows[r.counter][r.post]
  BY <1>6 DEF IInv, PendingIsChange
<1>8. \A s \in Txs \ {t} : ~ChangesRow(s, r.counter, r.post, r.key)
  BY <1>6 DEF IInv, OneChangerPerRow, ChangesRow, Pending
<1>9. ~Matches(t) => r.delta = -1 /\ r.counter = "comment_count"
  <2> SUFFICES ASSUME ~Matches(t) PROVE r.delta = -1 /\ r.counter = "comment_count"
    OBVIOUS
  <2>1. r.delta = -1 /\ ~(counter[r.counter][r.post] > 0)
    BY <1>1 DEF Matches, OpenTx
  <2>2. rows[r.counter][r.post] # {}
    BY <1>7, <2>1
  <2>3. r.counter \notin Reactions
    BY <1>1, <2>1, <2>2, ReactionCounted DEF OpenTx
  <2> QED
    BY <1>1, <2>1, <2>3 DEF OpenTx, Counters
<1>10. UNCHANGED db
  BY DEF change_post_counter
<1> HIDE DEF r
<1> QED
  BY <1>2, <1>3, <1>4, <1>5, <1>7, <1>8, <1>9, <1>10, TxStep

LEMMA EndInv ==
  ASSUME IInv, NEW t \in Txs, Rollback(t) \/ CommitUnchanged(t)
  PROVE  IInv'
<1>1. UNCHANGED db /\ tx' = [tx EXCEPT ![t] = Idle]
  BY DEF Rollback, CommitUnchanged
<1>2. TypeOK'
  BY <1>1 DEF IInv, TypeOK, db
<1>3. ~Pending(t)' /\ tx'[t].pc # "counted" /\ \A s \in Txs \ {t} : tx'[s] = tx[s]
  BY <1>1 DEF IInv, TypeOK, Pending, Idle
<1> QED
  BY <1>1, <1>2, <1>3, TxStep

\* The commit of a row change: nobody else is changing that row, and nobody
\* else has computed a value from the counter it replaces.
LEMMA CommitInv ==
  ASSUME IInv, NEW t \in Txs, CommitChange(t)
  PROVE  IInv'
<1> DEFINE r == tx[t]
           k == r.counter
           p == r.post
<1>1. r \in OpenTx /\ r.pc = "counted"
  BY OpenIsOpenTx DEF IInv, CommitChange
<1>2. k \in Counters /\ p \in Posts /\ r.delta \in {1, -1}
  BY <1>1 DEF OpenTx
<1>3. Pending(t)
  BY <1>1 DEF IInv, ValueIsFresh, Pending
<1>4. r.delta = 1 <=> r.key \notin rows[k][p]
  BY <1>3 DEF IInv, PendingIsChange
<1>5. TypeOK'
  BY CommitTypeOK DEF IInv, Commit
<1>6. /\ \A kk \in Counters, pp \in Posts : kk # k \/ pp # p =>
           /\ rows'[kk][pp] = rows[kk][pp]
           /\ counter'[kk][pp] = counter[kk][pp]
           /\ drift'[kk][pp] = drift[kk][pp]
      /\ rows'[k][p] = IF r.delta = -1 THEN rows[k][p] \ {r.key} ELSE rows[k][p] \cup {r.key}
      /\ counter'[k][p] = IF r.moved THEN r.value ELSE counter[k][p]
      /\ drift'[k][p] = IF r.moved THEN drift[k][p] ELSE drift[k][p] + 1
  BY <1>2 DEF IInv, TypeOK, CommitChange
<1>7. tx'[t] = Idle /\ \A s \in Txs \ {t} : tx'[s] = tx[s]
  BY DEF IInv, TypeOK, CommitChange
<1>8. ~Pending(t)' /\ tx'[t].pc # "counted"
  BY <1>7 DEF Pending, Idle
<1>9. IsFiniteSet(rows[k][p])
  BY <1>2 DEF IInv, FiniteRows
<1>10. /\ IsFiniteSet(rows'[k][p])
       /\ Cardinality(rows'[k][p]) = Cardinality(rows[k][p]) + r.delta
  <2>1. CASE r.delta = 1
    <3>1. rows'[k][p] = rows[k][p] \cup {r.key} /\ r.key \notin rows[k][p]
      BY <1>4, <1>6, <2>1
    <3> QED
      BY <1>9, <2>1, <3>1, FS_AddElement
  <2>2. CASE r.delta = -1
    <3>1. rows'[k][p] = rows[k][p] \ {r.key} /\ r.key \in rows[k][p]
      BY <1>4, <1>6, <2>2
    <3>2. Cardinality(rows[k][p]) \in Nat
      BY <1>9, FS_CardinalityType
    <3>3. /\ IsFiniteSet(rows[k][p] \ {r.key})
          /\ Cardinality(rows[k][p] \ {r.key}) = Cardinality(rows[k][p]) - 1
      BY <1>9, <3>1, FS_RemoveElement
    <3> QED
      BY <2>2, <3>1, <3>2, <3>3
  <2> QED
    BY <1>2, <2>1, <2>2
<1>11. FiniteRows'
  BY <1>6, <1>10 DEF IInv, FiniteRows
<1>12. /\ r.moved => r.value = counter[k][p] + r.delta
       /\ ~r.moved => r.delta = -1 /\ k = "comment_count"
  BY <1>1 DEF IInv, ValueIsFresh
<1>13. counter'[k][p] = Cardinality(rows'[k][p]) + drift'[k][p]
  <2>1. counter[k][p] = Cardinality(rows[k][p]) + drift[k][p]
    BY <1>2 DEF IInv, CounterLedger
  <2>2. Cardinality(rows[k][p]) \in Nat /\ counter[k][p] \in Nat /\ drift[k][p] \in Int
    BY <1>2, <1>9, FS_CardinalityType DEF IInv, TypeOK
  <2>3. CASE r.moved
    BY <1>2, <1>6, <1>10, <1>12, <2>1, <2>2, <2>3
  <2>4. CASE ~r.moved
    BY <1>6, <1>10, <1>12, <2>1, <2>2, <2>4
  <2> QED
    BY <2>3, <2>4
<1>14. CounterLedger'
  <2> SUFFICES ASSUME NEW kk \in Counters, NEW pp \in Posts
               PROVE  counter'[kk][pp] = Cardinality(rows'[kk][pp]) + drift'[kk][pp]
    BY DEF CounterLedger
  <2>1. CASE kk = k /\ pp = p
    BY <1>13, <2>1
  <2>2. CASE kk # k \/ pp # p
    BY <1>6, <2>2 DEF IInv, CounterLedger
  <2> QED
    BY <2>1, <2>2
<1>15. NoReactionDebt'
  <2> SUFFICES ASSUME NEW kk \in Reactions, NEW pp \in Posts PROVE drift'[kk][pp] >= 0
    BY DEF NoReactionDebt
  <2>1. kk \in Counters /\ kk # "comment_count" /\ drift[kk][pp] >= 0
    BY DEF IInv, NoReactionDebt, Counters, Reactions
  <2>2. CASE kk = k /\ pp = p
    BY <1>6, <1>12, <2>1, <2>2
  <2>3. CASE kk # k \/ pp # p
    BY <1>6, <2>1, <2>3
  <2> QED
    BY <2>2, <2>3
<1>16. PendingIsChange'
  <2> SUFFICES ASSUME NEW s \in Txs, Pending(s)'
               PROVE  tx'[s].delta = 1 <=> tx'[s].key \notin rows'[tx'[s].counter][tx'[s].post]
    BY DEF PendingIsChange
  <2>1. s # t /\ tx'[s] = tx[s]
    BY <1>7, <1>8
  <2>2. Pending(s)
    BY <2>1 DEF Pending
  <2>3. tx[s] \in OpenTx
    BY <2>2, OpenIsOpenTx DEF IInv, Pending
  <2>4. tx[s].counter \in Counters /\ tx[s].post \in Posts
    BY <2>3 DEF OpenTx
  <2>5. tx[s].delta = 1 <=> tx[s].key \notin rows[tx[s].counter][tx[s].post]
    BY <2>2 DEF IInv, PendingIsChange
  <2>6. CASE tx[s].counter = k /\ tx[s].post = p
    <3>1. tx[s].key # r.key
      BY <1>3, <2>1, <2>2, <2>6 DEF IInv, OneChangerPerRow
    <3> QED
      BY <1>6, <2>1, <2>5, <2>6, <3>1
  <2>7. CASE tx[s].counter # k \/ tx[s].post # p
    BY <1>6, <2>1, <2>4, <2>5, <2>7
  <2> QED
    BY <2>6, <2>7
<1>17. ValueIsFresh'
  <2> SUFFICES ASSUME NEW s \in Txs, tx'[s].pc = "counted"
               PROVE  /\ tx'[s].rowcount = 1
                      /\ tx'[s].moved => tx'[s].value =
                           counter'[tx'[s].counter][tx'[s].post] + tx'[s].delta
                      /\ ~tx'[s].moved => tx'[s].delta = -1 /\ tx'[s].counter = "comment_count"
    BY DEF ValueIsFresh
  <2>1. s # t /\ tx'[s] = tx[s]
    BY <1>7, <1>8
  <2>2. tx[s] \in OpenTx
    BY <2>1, OpenIsOpenTx DEF IInv
  <2>3. tx[s].counter \in Counters /\ tx[s].post \in Posts
    BY <2>2 DEF OpenTx
  <2>4. /\ tx[s].rowcount = 1
        /\ tx[s].moved => tx[s].value = counter[tx[s].counter][tx[s].post] + tx[s].delta
        /\ ~tx[s].moved => tx[s].delta = -1 /\ tx[s].counter = "comment_count"
    BY <2>1 DEF IInv, ValueIsFresh
  <2>5. tx[s].moved =>
          counter'[tx[s].counter][tx[s].post] = counter[tx[s].counter][tx[s].post]
    <3>1. CASE r.moved
      <4>1. LocksPost(t, p)
        BY <1>1, <3>1 DEF LocksPost
      <4>2. tx[s].moved => tx[s].post # p
        BY <1>2, <2>1, <4>1 DEF IInv, OneLockerPerPost, LocksPost
      <4> QED
        BY <1>6, <2>3, <4>2
    <3>2. CASE ~r.moved
      BY <1>6, <2>3, <3>2
    <3> QED
      BY <3>1, <3>2
  <2> QED
    BY <2>1, <2>4, <2>5
<1>18. OneChangerPerRow' /\ OneLockerPerPost'
  <2>1. \A s \in Txs : (Pending(s)' => s # t /\ Pending(s) /\ tx'[s] = tx[s])
    BY <1>7, <1>8 DEF Pending
  <2>2. \A s \in Txs, pp \in Posts : LocksPost(s, pp)' => LocksPost(s, pp)
    BY <1>7, <1>8 DEF LocksPost
  <2> QED
    BY <2>1, <2>2 DEF IInv, OneChangerPerRow, OneLockerPerPost
<1> QED
  BY <1>5, <1>11, <1>14, <1>15, <1>16, <1>17, <1>18 DEF IInv

\* A step that changes rows without the counter: every change is in drift, no
\* pending transaction's row is touched, and reactions only leave.
LEMMA UncountedStep ==
  ASSUME IInv, TypeOK', UNCHANGED <<counter, tx>>, FiniteRows', CounterLedger',
         NoReactionDebt',
         \A k \in Counters, p \in Posts, x \in Keys :
           (x \in rows[k][p]) # (x \in rows'[k][p]) =>
             \A t \in Txs : ~ChangesRow(t, k, p, x)
  PROVE  IInv'
<1>1. PendingIsChange'
  <2> SUFFICES ASSUME NEW t \in Txs, Pending(t)
               PROVE  tx[t].delta = 1 <=> tx[t].key \notin rows'[tx[t].counter][tx[t].post]
    BY DEF PendingIsChange, Pending
  <2>1. tx[t] \in OpenTx
    BY OpenIsOpenTx DEF IInv, Pending
  <2>2. tx[t].counter \in Counters /\ tx[t].post \in Posts /\ tx[t].key \in Keys
    BY <2>1 DEF OpenTx
  <2>3. ChangesRow(t, tx[t].counter, tx[t].post, tx[t].key)
    BY DEF Pending, ChangesRow
  <2>4. tx[t].delta = 1 <=> tx[t].key \notin rows[tx[t].counter][tx[t].post]
    BY DEF IInv, PendingIsChange
  <2> QED
    BY <2>2, <2>3, <2>4
<1>2. ValueIsFresh'
  BY DEF IInv, ValueIsFresh
<1>3. OneChangerPerRow' /\ OneLockerPerPost'
  BY DEF IInv, OneChangerPerRow, OneLockerPerPost, Pending, LocksPost
<1> QED
  BY <1>1, <1>2, <1>3 DEF IInv

LEMMA DeleteUserInv ==
  ASSUME IInv, NEW u \in Users, delete_user(u)
  PROVE  IInv'
<1>1. TypeOK'
  BY StaffTypeOK DEF IInv, Staff
<1>2. \A k \in Reactions, p \in Posts :
        /\ k \in Counters
        /\ rows'[k][p] = rows[k][p] \ {u}
        /\ drift'[k][p] = IF u \in rows[k][p] THEN drift[k][p] + 1 ELSE drift[k][p]
  BY DEF delete_user, Counters
<1>3. \A k \in Counters \ Reactions, p \in Posts :
        rows'[k][p] = rows[k][p] /\ drift'[k][p] = drift[k][p]
  BY DEF delete_user
<1>4. UNCHANGED <<counter, tx>>
  BY DEF delete_user
<1>5. FiniteRows' /\ CounterLedger'
  <2> SUFFICES ASSUME NEW k \in Counters, NEW p \in Posts
               PROVE  /\ IsFiniteSet(rows'[k][p])
                      /\ counter[k][p] = Cardinality(rows'[k][p]) + drift'[k][p]
    BY <1>4 DEF FiniteRows, CounterLedger
  <2>1. /\ IsFiniteSet(rows[k][p]) /\ Cardinality(rows[k][p]) \in Nat
        /\ counter[k][p] = Cardinality(rows[k][p]) + drift[k][p]
        /\ counter[k][p] \in Nat /\ drift[k][p] \in Int
    BY FS_CardinalityType DEF IInv, TypeOK, FiniteRows, CounterLedger
  <2>2. CASE k \in Reactions
    <3>1. /\ IsFiniteSet(rows[k][p] \ {u})
          /\ Cardinality(rows[k][p] \ {u}) =
               IF u \in rows[k][p] THEN Cardinality(rows[k][p]) - 1
                                   ELSE Cardinality(rows[k][p])
      BY <2>1, FS_RemoveElement
    <3>2. rows'[k][p] = rows[k][p] \ {u}
      BY <1>2, <2>2
    <3>3. drift'[k][p] = IF u \in rows[k][p] THEN drift[k][p] + 1 ELSE drift[k][p]
      BY <1>2, <2>2
    <3>4. CASE u \in rows[k][p]
      <4>1. Cardinality(rows'[k][p]) = Cardinality(rows[k][p]) - 1
        BY <3>1, <3>2, <3>4
      <4>2. drift'[k][p] = drift[k][p] + 1
        BY <3>3, <3>4
      <4> QED
        BY <2>1, <3>1, <3>2, <4>1, <4>2
    <3>5. CASE u \notin rows[k][p]
      BY <2>1, <3>1, <3>2, <3>3, <3>5
    <3> QED
      BY <3>4, <3>5
  <2>3. CASE k \notin Reactions
    BY <1>3, <2>1, <2>3
  <2> QED
    BY <2>2, <2>3
<1>6. NoReactionDebt'
  <2> SUFFICES ASSUME NEW k \in Reactions, NEW p \in Posts PROVE drift'[k][p] >= 0
    BY DEF NoReactionDebt
  <2>1. drift[k][p] >= 0 /\ drift[k][p] \in Int
    BY <1>2 DEF IInv, TypeOK, NoReactionDebt
  <2> QED
    BY <1>2, <2>1
<1>7. ASSUME NEW k \in Counters, NEW p \in Posts, NEW x \in Keys, NEW t \in Txs,
             (x \in rows[k][p]) # (x \in rows'[k][p])
      PROVE  ~ChangesRow(t, k, p, x)
  <2>1. k \in Reactions /\ x = u
    BY <1>2, <1>3, <1>7
  <2> QED
    BY <2>1 DEF delete_user
<1> QED
  BY <1>1, <1>4, <1>5, <1>6, <1>7, UncountedStep

LEMMA ModerateCommentInv ==
  ASSUME IInv, NEW c \in Comments, NEW p \in Posts,
         hide_comment(c, p) \/ restore_comment(c, p)
  PROVE  IInv'
<1> DEFINE k == "comment_count"
<1>1. TypeOK'
  BY StaffTypeOK DEF IInv, Staff
<1>2. k \in Counters /\ k \notin Reactions
  BY DEF Counters, Reactions
<1>3. UNCHANGED <<counter, tx>> /\ \A t \in Txs : ~ChangesRow(t, k, p, c)
  BY DEF hide_comment, restore_comment
<1>4. \A kk \in Counters, pp \in Posts : kk # k \/ pp # p =>
        rows'[kk][pp] = rows[kk][pp] /\ drift'[kk][pp] = drift[kk][pp]
  BY <1>2 DEF IInv, TypeOK, hide_comment, restore_comment
<1>5. \/ /\ c \in rows[k][p]
         /\ rows'[k][p] = rows[k][p] \ {c}
         /\ drift'[k][p] = drift[k][p] + 1
      \/ /\ c \notin rows[k][p]
         /\ rows'[k][p] = rows[k][p] \cup {c}
         /\ drift'[k][p] = drift[k][p] - 1
  BY <1>2 DEF IInv, TypeOK, hide_comment, restore_comment
<1>6. /\ IsFiniteSet(rows[k][p]) /\ Cardinality(rows[k][p]) \in Nat
      /\ counter[k][p] = Cardinality(rows[k][p]) + drift[k][p]
      /\ counter[k][p] \in Nat /\ drift[k][p] \in Int
  BY <1>2, FS_CardinalityType DEF IInv, TypeOK, FiniteRows, CounterLedger
<1>7. /\ IsFiniteSet(rows'[k][p])
      /\ counter[k][p] = Cardinality(rows'[k][p]) + drift'[k][p]
  <2>1. /\ IsFiniteSet(rows[k][p] \ {c})
        /\ c \in rows[k][p] => Cardinality(rows[k][p] \ {c}) = Cardinality(rows[k][p]) - 1
    BY <1>6, FS_RemoveElement
  <2>2. /\ IsFiniteSet(rows[k][p] \cup {c})
        /\ c \notin rows[k][p] => Cardinality(rows[k][p] \cup {c}) = Cardinality(rows[k][p]) + 1
    BY <1>6, FS_AddElement
  <2>3. CASE c \in rows[k][p]
    <3>1. /\ IsFiniteSet(rows'[k][p])
          /\ Cardinality(rows'[k][p]) = Cardinality(rows[k][p]) - 1
      BY <1>5, <2>1, <2>3
    <3>2. drift'[k][p] = drift[k][p] + 1
      BY <1>5, <2>3
    <3> QED
      BY <1>6, <3>1, <3>2
  <2>4. CASE c \notin rows[k][p]
    <3>1. /\ IsFiniteSet(rows'[k][p])
          /\ Cardinality(rows'[k][p]) = Cardinality(rows[k][p]) + 1
      BY <1>5, <2>2, <2>4
    <3>2. drift'[k][p] = drift[k][p] - 1
      BY <1>5, <2>4
    <3> QED
      BY <1>6, <3>1, <3>2
  <2> QED
    BY <2>3, <2>4
<1>8. FiniteRows' /\ CounterLedger'
  <2> SUFFICES ASSUME NEW kk \in Counters, NEW pp \in Posts
               PROVE  /\ IsFiniteSet(rows'[kk][pp])
                      /\ counter[kk][pp] = Cardinality(rows'[kk][pp]) + drift'[kk][pp]
    BY <1>3 DEF FiniteRows, CounterLedger
  <2>1. CASE kk = k /\ pp = p
    BY <1>7, <2>1
  <2>2. CASE kk # k \/ pp # p
    BY <1>4, <2>2 DEF IInv, FiniteRows, CounterLedger
  <2> QED
    BY <2>1, <2>2
<1>9. NoReactionDebt'
  BY <1>2, <1>4 DEF IInv, NoReactionDebt, Counters
<1>10. ASSUME NEW kk \in Counters, NEW pp \in Posts, NEW x \in Keys, NEW t \in Txs,
              (x \in rows[kk][pp]) # (x \in rows'[kk][pp])
       PROVE  ~ChangesRow(t, kk, pp, x)
  <2>1. kk = k /\ pp = p /\ x = c
    BY <1>4, <1>5, <1>10
  <2> QED
    BY <1>3, <2>1
<1> QED
  BY <1>1, <1>3, <1>8, <1>9, <1>10, UncountedStep

LEMMA PostInv ==
  ASSUME IInv, NEW p \in Posts, hide_post(p) \/ restore_post(p) \/ delete_post(p)
  PROVE  IInv'
<1>1. TypeOK'
  BY StaffTypeOK DEF IInv, Staff
<1>2. UNCHANGED <<rows, counter, drift, tx>>
  BY DEF hide_post, restore_post, delete_post
<1> QED
  BY <1>1, <1>2, UncountedStep
     DEF IInv, FiniteRows, CounterLedger, NoReactionDebt

LEMMA NextInv == IInv /\ [Next]_vars => IInv'
<1> SUFFICES ASSUME IInv, [Next]_vars PROVE IInv'
  OBVIOUS
<1>1. CASE UNCHANGED vars
  BY <1>1 DEF vars, IInv, TypeOK, FiniteRows, CounterLedger, NoReactionDebt,
              PendingIsChange, ValueIsFresh, OneChangerPerRow, OneLockerPerPost,
              Pending, LocksPost
<1>2. ASSUME NEW t \in Txs, Request(t) \/ WriteRow(t) \/ change_post_counter(t)
                              \/ Commit(t) \/ Rollback(t)
      PROVE  IInv'
  BY <1>2, RequestInv, InsertInv, DeleteInv, CounterInv, EndInv, CommitInv
     DEF WriteRow, Commit
<1>3. CASE Staff
  BY <1>3, DeleteUserInv, ModerateCommentInv, PostInv DEF Staff
<1> QED
  BY <1>1, <1>2, <1>3 DEF Next

LEMMA InitInv == Init => IInv
<1> SUFFICES ASSUME Init PROVE IInv
  OBVIOUS
<1>1. TypeOK
  BY DEF Init, TypeOK, Counters, Idle
<1>2. \A t \in Txs : tx[t].pc = "idle"
  BY DEF Init, Idle
<1>3. \A k \in Counters, p \in Posts : rows[k][p] = {} /\ counter[k][p] = 0 /\ drift[k][p] = 0
  BY DEF Init
<1>4. FiniteRows /\ CounterLedger
  <2>1. IsFiniteSet({}) /\ Cardinality({}) = 0
    BY FS_EmptySet
  <2>2. ASSUME NEW k \in Counters, NEW p \in Posts
        PROVE  /\ IsFiniteSet(rows[k][p])
               /\ counter[k][p] = Cardinality(rows[k][p]) + drift[k][p]
    <3>1. rows[k][p] = {} /\ counter[k][p] = 0 /\ drift[k][p] = 0
      BY <1>3
    <3>2. Cardinality(rows[k][p]) = 0
      BY <2>1, <3>1
    <3> QED
      BY <2>1, <3>1, <3>2
  <2> QED
    BY <2>2 DEF FiniteRows, CounterLedger
<1>5. NoReactionDebt
  BY <1>3 DEF NoReactionDebt, Counters
<1> QED
  BY <1>1, <1>2, <1>4, <1>5 DEF IInv, PendingIsChange, ValueIsFresh, OneChangerPerRow,
     OneLockerPerPost, Pending, LocksPost

LEMMA Inductive == Spec => []IInv
BY InitInv, NextInv, PTL DEF Spec

-----------------------------------------------------------------------------
(* What follows from it. *)

\* However many requests run at once, a counter is the number of its rows plus
\* the changes the code made on purpose without counting them.
THEOREM LedgerHolds == Spec => []CounterLedger
<1>1. IInv => CounterLedger
  BY DEF IInv
<1> QED
  BY <1>1, Inductive, PTL

\* A like or share count never falls below the likes or shares there are, so
\* the floor in change_post_counter never swallows an unlike.
THEOREM ReactionsCounted == Spec => []ReactionsNeverUndercounted
<1>1. IInv => ReactionsNeverUndercounted
  BY ReactionCounted DEF ReactionsNeverUndercounted
<1> QED
  BY <1>1, Inductive, PTL

\* Rows are locked before posts, so the requests in flight never all wait.
THEOREM NoCircularWait == Spec => []SomeRequestProceeds
<1>1. IInv => SomeRequestProceeds
  <2> SUFFICES ASSUME IInv, NEW t \in Txs, tx[t] # Idle
               PROVE  \E s \in Txs : tx[s] # Idle /\ ~WaitsForRow(s) /\ ~WaitsForPost(s)
    BY DEF SomeRequestProceeds
  <2>1. CASE \E s \in Txs : tx[s].pc = "counted"
    BY <2>1 DEF WaitsForRow, WaitsForPost, Idle
  <2>2. CASE /\ \A s \in Txs : tx[s].pc # "counted"
             /\ \E s \in Txs : tx[s].pc = "wrote"
    BY <2>2 DEF WaitsForRow, WaitsForPost, LocksPost, Idle
  <2>3. CASE \A s \in Txs : tx[s].pc \notin {"wrote", "counted"}
    BY <2>3 DEF WaitsForRow, WaitsForPost, ChangesRow
  <2> QED
    BY <2>1, <2>2, <2>3
<1> QED
  BY <1>1, Inductive, PTL

LEMMA CommitIsAtomic ==
  ASSUME IInv, NEW t \in Txs, CommitChange(t)
  PROVE  Atomic!Next
<1> DEFINE r == tx[t]
           k == r.counter
           p == r.post
<1>1. r \in OpenTx /\ r.pc = "counted"
  BY OpenIsOpenTx DEF IInv, CommitChange
<1>2. /\ k \in Atomic!Counters /\ k \in Counters /\ p \in Posts
      /\ r.key \in Users \cup Comments /\ r.delta \in {1, -1} /\ r.value \in Nat
  BY <1>1 DEF OpenTx, Keys, Counters, Reactions, Atomic!Counters, Atomic!Reactions
<1>3. Pending(t)
  BY <1>1 DEF IInv, ValueIsFresh, Pending
<1>4. r.delta = 1 <=> r.key \notin rows[k][p]
  BY <1>3 DEF IInv, PendingIsChange
<1>5. /\ r.moved => r.value = counter[k][p] + r.delta
      /\ ~r.moved => r.delta = -1 /\ k = "comment_count"
  BY <1>1 DEF IInv, ValueIsFresh
<1>6. counter[k][p] \in Nat
  BY <1>2 DEF IInv, TypeOK
<1>7. CASE r.moved /\ r.delta = 1
  <2>1. rows' = [rows EXCEPT ![k][p] = @ \cup {r.key}]
    BY <1>7 DEF CommitChange
  <2>2. counter' = [counter EXCEPT ![k][p] = r.value] /\ r.value = counter[k][p] + 1
    BY <1>5, <1>7 DEF CommitChange
  <2>3. Atomic!Add(k, p, r.key)
    BY <1>4, <1>7, <2>1, <2>2 DEF Atomic!Add
  <2> QED
    BY <1>2, <2>3 DEF Atomic!Next
<1>8. CASE r.moved /\ r.delta = -1
  <2>1. counter[k][p] > 0 /\ r.value = counter[k][p] - 1
    BY <1>2, <1>5, <1>6, <1>8
  <2>2. Atomic!Remove(k, p, r.key)
    BY <1>2, <1>4, <1>8, <2>1 DEF CommitChange, Atomic!Remove, IInv, TypeOK
  <2> QED
    BY <1>2, <2>2 DEF Atomic!Next
<1>9. CASE ~r.moved
  <2>1. r.key \in rows["comment_count"][p]
    BY <1>4, <1>5, <1>9
  <2>2. Atomic!DropComment(p, r.key)
    BY <1>5, <1>9 DEF CommitChange, Atomic!DropComment
  <2> QED
    BY <1>2, <2>1, <2>2 DEF Atomic!Next
<1> QED
  BY <1>2, <1>7, <1>8, <1>9

\* Every reachable step of the transactions is one step of AtomicCounters or
\* leaves the committed rows and counters alone.
THEOREM Linearises == Spec => AtomicSpec
<1>1. Init => Atomic!Init
  BY DEF Init, Atomic!Init, Counters, Reactions, Atomic!Counters, Atomic!Reactions
<1>2. IInv /\ [Next]_vars => [Atomic!Next]_<<rows, counter>>
  <2> SUFFICES ASSUME IInv, [Next]_vars
               PROVE  Atomic!Next \/ UNCHANGED <<rows, counter>>
    OBVIOUS
  <2>1. CASE UNCHANGED vars
    BY <2>1 DEF vars
  <2>2. ASSUME NEW t \in Txs, Request(t) \/ WriteRow(t) \/ change_post_counter(t)
                                \/ Rollback(t) \/ CommitUnchanged(t)
        PROVE  UNCHANGED <<rows, counter>>
    BY <2>2 DEF Request, like_post, unlike_post, record_share, create_comment,
                delete_comment, Begin, WriteRow, InsertRow, DeleteRow,
                change_post_counter, Rollback, CommitUnchanged, db
  <2>3. ASSUME NEW u \in Users, delete_user(u) PROVE Atomic!Next
    <3>1. Atomic!DropAccount(u)
      BY <2>3 DEF delete_user, Atomic!DropAccount, Counters, Reactions,
                  Atomic!Counters, Atomic!Reactions
    <3> QED
      BY <3>1 DEF Atomic!Next
  <2>4. ASSUME NEW c \in Comments, NEW p \in Posts, hide_comment(c, p)
        PROVE  Atomic!Next
    BY <2>4 DEF hide_comment, Atomic!DropComment, Atomic!Next
  <2>5. ASSUME NEW c \in Comments, NEW p \in Posts, restore_comment(c, p)
        PROVE  Atomic!Next
    BY <2>5 DEF restore_comment, Atomic!ReturnComment, Atomic!Next
  <2>6. ASSUME NEW p \in Posts, hide_post(p) \/ restore_post(p) \/ delete_post(p)
        PROVE  UNCHANGED <<rows, counter>>
    BY <2>6 DEF hide_post, restore_post, delete_post
  <2> QED
    BY <2>1, <2>2, <2>3, <2>4, <2>5, <2>6, CommitIsAtomic DEF Next, Commit, Staff
<1> QED
  BY <1>1, <1>2, Inductive, PTL DEF Spec, AtomicSpec, Atomic!Spec
=============================================================================
