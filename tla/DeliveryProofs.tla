---------------------------- MODULE DeliveryProofs ----------------------------
(***************************************************************************)
(* What a browser shows of a list, proved for pages of any length, lists   *)
(* and browsers of any age, and any number of requests, events and sockets *)
(* at once: every kind of list, every order of steps.                      *)
(***************************************************************************)
EXTENDS Delivery, FiniteSetTheorems, SequenceTheorems, TLAPS

-----------------------------------------------------------------------------
(* Sorting.  The rank of a member is how many others have a lesser key;    *)
(* ranks are different, so that every place is taken once.                 *)

LEMMA SortedFacts ==
  ASSUME NEW S, IsFiniteSet(S), NEW key \in [S -> Int],
         \A x, y \in S : key[x] = key[y] => x = y
  PROVE  /\ Sorted(S, key) \in Seq(S) /\ Len(Sorted(S, key)) = Cardinality(S)
         /\ \A i \in 1..Cardinality(S) : Sorted(S, key)[i] \in S
         /\ \A i, j \in 1..Cardinality(S) : i < j => key[Sorted(S, key)[i]] < key[Sorted(S, key)[j]]
         /\ \A x \in S : \E i \in 1..Cardinality(S) : Sorted(S, key)[i] = x
<1> DEFINE n == Cardinality(S)
           less(x) == {y \in S : key[y] < key[x]}
           rank == [x \in S |-> Cardinality(less(x)) + 1]
<1>1. n \in Nat /\ IsFiniteSet(1..n) /\ Cardinality(1..n) = n
  BY FS_CardinalityType, FS_Interval
<1>2. ASSUME NEW x \in S PROVE IsFiniteSet(less(x)) /\ Cardinality(less(x)) \in Nat /\ Cardinality(less(x)) < n
  <2>1. less(x) \in SUBSET S /\ x \notin less(x)
    OBVIOUS
  <2>2. IsFiniteSet(less(x)) /\ Cardinality(less(x)) <= n /\ Cardinality(less(x)) # n
    BY <2>1, FS_Subset
  <2> QED  BY <1>1, <2>2, FS_CardinalityType
<1>3. ASSUME NEW x \in S, NEW z \in S, key[x] < key[z] PROVE Cardinality(less(x)) < Cardinality(less(z))
  <2>1. less(x) \in SUBSET less(z) /\ x \in less(z) /\ x \notin less(x)
    BY <1>3
  <2>2. IsFiniteSet(less(z))
    BY <1>2
  <2>3. Cardinality(less(x)) <= Cardinality(less(z)) /\ Cardinality(less(x)) # Cardinality(less(z))
    BY <2>1, <2>2, FS_Subset
  <2>4. Cardinality(less(x)) \in Nat /\ Cardinality(less(z)) \in Nat
    BY <1>2
  <2> QED  BY <2>3, <2>4
<1>4. ASSUME NEW x \in S PROVE rank[x] \in 1..n /\ rank[x] = Cardinality(less(x)) + 1
  <2>1. rank[x] = Cardinality(less(x)) + 1
    OBVIOUS
  <2>2. Cardinality(less(x)) \in Nat /\ Cardinality(less(x)) < n
    BY <1>2
  <2> HIDE DEF rank, less, n
  <2> QED  BY <1>1, <2>1, <2>2
<1>5. rank \in [S -> 1..n]
  BY <1>4
<1>6. \A x, z \in S : key[x] < key[z] => rank[x] < rank[z]
  <2> TAKE x, z \in S
  <2> HAVE key[x] < key[z]
  <2>1. Cardinality(less(x)) \in Nat /\ Cardinality(less(z)) \in Nat /\ Cardinality(less(x)) < Cardinality(less(z))
    BY <1>2, <1>3
  <2> HIDE DEF less
  <2> QED  BY <2>1
<1> HIDE DEF rank, n
<1>7. \A x, z \in S : rank[x] = rank[z] => x = z
  <2> TAKE x, z \in S
  <2>1. key[x] < key[z] \/ key[z] < key[x] \/ key[x] = key[z]
    OBVIOUS
  <2>2. rank[x] \in Int /\ rank[z] \in Int
    BY <1>1, <1>5
  <2> QED  BY <1>6, <2>1, <2>2
<1>8. rank \in Injection(S, 1..n)
  BY <1>5, <1>7 DEF Injection, IsInjective
<1>9. rank \in Surjection(S, 1..n)
  BY <1>1, <1>8, FS_Injection DEF n
<1>10. \A i \in 1..n : \E x \in S : rank[x] = i
  BY <1>9 DEF Surjection
<1>11. Sorted(S, key) = [i \in 1..n |-> CHOOSE x \in S : Cardinality(less(x)) = i - 1]
  BY DEF Sorted, n
<1>12. ASSUME NEW i \in 1..n PROVE Sorted(S, key)[i] \in S /\ rank[Sorted(S, key)[i]] = i
  <2>1. PICK x \in S : rank[x] = i
    BY <1>10
  <2>2. Cardinality(less(x)) = i - 1
    <3>1. Cardinality(less(x)) \in Nat /\ rank[x] = Cardinality(less(x)) + 1
      BY <1>2, <1>4
    <3> HIDE DEF less
    <3> QED  BY <2>1, <3>1
  <2>3. Sorted(S, key)[i] \in S /\ Cardinality(less(Sorted(S, key)[i])) = i - 1
    BY <1>11, <2>2
  <2> DEFINE y == Sorted(S, key)[i]
  <2>4. rank[y] = Cardinality(less(y)) + 1 /\ Cardinality(less(y)) = i - 1
    BY <1>4, <2>3
  <2> HIDE DEF less, y
  <2>5. rank[y] = i
    BY <2>4
  <2> QED  BY <2>3, <2>5 DEF y
<1>13. Sorted(S, key) \in Seq(S) /\ Len(Sorted(S, key)) = n
  <2>1. DOMAIN Sorted(S, key) = 1..n /\ Sorted(S, key) \in [1..n -> S]
    BY <1>11, <1>12
  <2>2. Sorted(S, key) \in Seq(S)
    BY <1>1, <2>1
  <2>3. DOMAIN Sorted(S, key) = 1..Len(Sorted(S, key)) /\ Len(Sorted(S, key)) \in Nat
    BY <2>2, LenProperties
  <2> QED  BY <1>1, <2>1, <2>2, <2>3
<1>14. ASSUME NEW i \in 1..n, NEW j \in 1..n, i < j PROVE key[Sorted(S, key)[i]] < key[Sorted(S, key)[j]]
  <2> DEFINE x == Sorted(S, key)[i]
             z == Sorted(S, key)[j]
  <2>1. x \in S /\ z \in S /\ rank[x] = i /\ rank[z] = j
    BY <1>12
  <2>2. x # z /\ ~(key[z] < key[x])
    BY <1>1, <1>6, <1>14, <2>1
  <2> HIDE DEF x, z
  <2>3. key[x] < key[z]
    BY <2>1, <2>2
  <2> QED  BY <2>3 DEF x, z
<1>15. \A x \in S : rank[x] \in 1..n /\ Sorted(S, key)[rank[x]] = x
  BY <1>4, <1>5, <1>7, <1>12
<1> QED  BY <1>12, <1>13, <1>14, <1>15 DEF n

LEMMA LeastKey ==
  ASSUME NEW S, IsFiniteSet(S), NEW key \in [S -> Int],
         \A x, y \in S : key[x] = key[y] => x = y, S # {}
  PROVE  \E m \in S : \A x \in S : key[m] <= key[x]
<1> DEFINE n == Cardinality(S)
           s == Sorted(S, key)
<1>1. n \in Nat
  BY FS_CardinalityType
<1>2. \A i \in 1..n : s[i] \in S
  BY SortedFacts
<1>3. \A i, j \in 1..n : i < j => key[s[i]] < key[s[j]]
  BY SortedFacts
<1>4. \A x \in S : \E i \in 1..n : s[i] = x
  BY SortedFacts
<1> HIDE DEF n, s
<1>5. 1 \in 1..n
  <2>1. PICK x \in S : TRUE
    OBVIOUS
  <2>2. PICK i \in 1..n : TRUE
    BY <1>4, <2>1
  <2> QED  BY <1>1, <2>2
<1>6. ASSUME NEW x \in S PROVE key[s[1]] <= key[x]
  <2>1. PICK i \in 1..n : s[i] = x
    BY <1>4
  <2>2. key[s[1]] \in Int /\ key[x] \in Int /\ i \in Nat /\ i >= 1
    BY <1>1, <1>2, <1>5
  <2>3. CASE i = 1
    BY <2>1, <2>2, <2>3
  <2>4. CASE 1 < i
    BY <1>3, <1>5, <2>1, <2>2, <2>4
  <2> QED  BY <2>2, <2>3, <2>4
<1> QED  BY <1>2, <1>5, <1>6

\* The least of some numbers.
LEMMA LeastMember ==
  ASSUME NEW S, IsFiniteSet(S), S \subseteq Int, S # {}
  PROVE  \E m \in S : \A x \in S : m <= x
<1>1. \E key \in [S -> Int] : \A x \in S : key[x] = x
  <2>1. [x \in S |-> x] \in [S -> Int]
    OBVIOUS
  <2> QED  BY <2>1
<1>2. PICK key \in [S -> Int] : \A x \in S : key[x] = x
  BY <1>1
<1>3. \A x, y \in S : key[x] = key[y] => x = y
  BY <1>2
<1>4. PICK m \in S : \A x \in S : key[m] <= key[x]
  BY <1>3, LeastKey
<1> QED  BY <1>2, <1>4

-----------------------------------------------------------------------------
(* The rows.  A time is taken once, for a row or for an edit, so that no   *)
(* two rows of a list have one key.                                        *)

Statuses == {"open", "live", "hidden", "purged", "gone"}
RowType == [status : Statuses, created : Nat, updated : Nat]
Committed(r) == r \in Rows /\ row[r].status \in {"live", "hidden", "purged"}

RowsInv ==
  /\ list \in Kinds
  /\ clock \in Nat
  /\ row \in Seq(RowType)
  /\ \A r \in Rows : row[r].created \in 1..clock /\ row[r].updated \in 1..clock
  /\ \A e \in edits : Committed(e.row) /\ e.at \in 1..clock
  /\ \A r, q \in Rows : row[r].created = row[q].created \/ row[r].updated = row[q].updated => r = q
  /\ \A e \in edits : \A r \in Rows : e.at # row[r].updated
  /\ \A d, e \in edits : d.at = e.at => d = e
  /\ steady \subseteq Listed

\* What the properties use of the kinds of lists.
KindFacts ==
  /\ list.asc \in BOOLEAN /\ list.moves \in BOOLEAN /\ list.sliced \in BOOLEAN /\ list.live \in BOOLEAN
  /\ list.shows \subseteq {"live", "hidden"} /\ "live" \in list.shows
  /\ list.live => list.asc /\ ~list.moves /\ ~list.sliced /\ list.shows = {"live", "hidden"}
  /\ list.sliced => list.asc

LEMMA KindsHave == list \in Kinds => KindFacts
<1> SUFFICES ASSUME list \in Kinds PROVE KindFacts
  OBVIOUS
<1> USE DEF KindFacts, Newest, Oldest
<1>1. ASSUME NEW sort \in {"newest", "oldest"}, list = list_posts(sort) PROVE KindFacts
  BY <1>1 DEF list_posts
<1>2. CASE list = list_bookmarks
  BY <1>2 DEF list_bookmarks
<1>11. CASE list = list_user_comments
  BY <1>11 DEF list_user_comments
<1>10. CASE list = list_actions
  BY <1>10 DEF list_actions
<1>3. CASE list = list_drafts
  BY <1>3 DEF list_drafts
<1>4. CASE list = list_conversations
  BY <1>4 DEF list_conversations
<1>5. CASE list = list_messages
  BY <1>5 DEF list_messages
<1>6. ASSUME NEW b \in Backends, list = list_comments(b) PROVE KindFacts
  BY <1>6 DEF list_comments
<1>7. ASSUME NEW b \in Backends, list = list_reports(b) PROVE KindFacts
  BY <1>7 DEF list_reports
<1>8. list \in {list_posts("newest"), list_posts("oldest"), list_bookmarks, list_user_comments, list_actions,
                list_drafts, list_conversations, list_messages}
      \/ (\E b \in Backends : list = list_comments(b)) \/ (\E b \in Backends : list = list_reports(b))
  BY DEF Kinds
<1>9. ASSUME list = list_posts("newest") \/ list = list_posts("oldest") PROVE KindFacts
  BY <1>1, <1>9
<1> QED
  <2> HIDE DEF KindFacts
  <2> QED  BY <1>2, <1>3, <1>4, <1>5, <1>6, <1>7, <1>8, <1>9, <1>10, <1>11

LEMMA RowFacts ==
  ASSUME RowsInv
  PROVE  /\ Len(row) \in Nat /\ Rows = 1..Len(row) /\ IsFiniteSet(Rows)
         /\ \A r \in Rows : r \in Nat /\ Key(r) \in 1..clock /\ Key(r) \in Nat /\ Key(r) # None
         /\ \A r, q \in Rows : Key(r) = Key(q) => r = q
         /\ Listed \subseteq Rows /\ \A r \in Listed : Committed(r)
<1>1. Len(row) \in Nat /\ Rows = 1..Len(row)
  BY DEF RowsInv, Rows
<1>2. IsFiniteSet(Rows)
  BY <1>1, FS_Interval
<1>3. \A r \in Rows : r \in Nat /\ Key(r) \in 1..clock
  BY <1>1 DEF RowsInv, Key
<1>4. \A r \in Rows : Key(r) \in Nat /\ Key(r) # None
  BY <1>3 DEF None, RowsInv
<1>5. \A r, q \in Rows : Key(r) = Key(q) => r = q
  BY DEF RowsInv, Key
<1>6. Listed \subseteq Rows /\ \A r \in Listed : Committed(r)
  BY KindsHave DEF RowsInv, KindFacts, Listed, Committed
<1> QED  BY <1>1, <1>2, <1>3, <1>4, <1>5, <1>6

LEMMA OrderedFacts ==
  ASSUME RowsInv, NEW S, S \subseteq Rows
  PROVE  /\ Ordered(S) \in Seq(S) /\ Len(Ordered(S)) \in Nat
         /\ \A i \in 1..Len(Ordered(S)) : Ordered(S)[i] \in S
         /\ \A i, j \in 1..Len(Ordered(S)) : i < j => Before(Key(Ordered(S)[i]), Key(Ordered(S)[j]))
         /\ \A r \in S : \E i \in 1..Len(Ordered(S)) : Ordered(S)[i] = r
<1> DEFINE key == [r \in S |-> IF list.asc THEN Key(r) ELSE -Key(r)]
<1>1. IsFiniteSet(S)
  BY RowFacts, FS_Subset
<1>2. \A r \in S : Key(r) \in Int /\ key[r] = IF list.asc THEN Key(r) ELSE -Key(r)
  BY RowFacts
<1>3. \A r, q \in S : Key(r) = Key(q) => r = q
  BY RowFacts
<1>4. key \in [S -> Int]
  BY <1>2
<1>5. Ordered(S) = Sorted(S, key)
  BY DEF Ordered
<1> HIDE DEF key
<1>6. \A x, y \in S : key[x] = key[y] => x = y
  BY <1>2, <1>3
<1>7. \A r, q \in S : key[r] < key[q] => Before(Key(r), Key(q))
  BY <1>2 DEF Before
<1>8. Ordered(S) \in Seq(S) /\ Len(Ordered(S)) = Cardinality(S)
  BY <1>1, <1>4, <1>5, <1>6, SortedFacts
<1>12. Cardinality(S) \in Nat
  BY <1>1, FS_CardinalityType
<1>9. \A i \in 1..Cardinality(S) : Ordered(S)[i] \in S
  BY <1>1, <1>4, <1>5, <1>6, SortedFacts
<1>10. \A i, j \in 1..Cardinality(S) : i < j => key[Ordered(S)[i]] < key[Ordered(S)[j]]
  BY <1>1, <1>4, <1>5, <1>6, SortedFacts
<1>13. \A r \in S : \E i \in 1..Cardinality(S) : Sorted(S, key)[i] = r
  BY ONLY <1>1, <1>4, <1>6, SortedFacts
<1>11. \A r \in S : \E i \in 1..Cardinality(S) : Ordered(S)[i] = r
  BY <1>5, <1>13
<1> QED  BY <1>7, <1>8, <1>9, <1>10, <1>11, <1>12

\* A slice has the elements from the a-th to the b-th, if there are so many.
LEMMA SliceFacts ==
  ASSUME NEW S, NEW s \in Seq(S), NEW a \in Nat, NEW b \in Nat
  PROVE  /\ Slice(s, a, b) \in Seq(S) /\ Len(Slice(s, a, b)) \in Nat
         /\ \A i \in 1..Len(Slice(s, a, b)) :
              a + i \in 1..Len(s) /\ a + i <= b /\ Slice(s, a, b)[i] = s[a + i]
         /\ \A i \in Nat \ {0} : a + i <= Len(s) /\ a + i <= b => i <= Len(Slice(s, a, b))
<1> DEFINE end == IF b < Len(s) THEN b ELSE Len(s)
           from == a + 1
           t == SubSeq(s, from, end)
<1>1. Len(s) \in Nat /\ end \in Nat /\ end <= b /\ end <= Len(s) /\ (end = b \/ end = Len(s))
  OBVIOUS
<1>2. \A i \in from..end : s[i] \in S
  BY <1>1
<1>3. from \in Int /\ from > a /\ from <= a + 1
  OBVIOUS
<1> HIDE DEF end
<1>4. /\ t \in Seq(S) /\ Len(t) = (IF from <= end THEN end - from + 1 ELSE 0)
      /\ \A i \in 1..(end - from + 1) : t[i] = s[from + i - 1]
  <2> HIDE DEF from
  <2> QED  BY <1>1, <1>2, <1>3, SubSeqProperties
<1>5. Slice(s, a, b) = t
  BY DEF Slice, end
<1> HIDE DEF t
<1>6. Len(t) \in Nat /\ \A i \in 1..Len(t) : a + i \in 1..end /\ t[i] = s[a + i]
  <2>1. CASE from <= end
    <3>1. Len(t) \in Nat /\ \A i \in 1..Len(t) : i \in 1..(end - from + 1) /\ a + i \in 1..end
      BY <1>1, <1>4, <2>1
    <3>2. \A i \in 1..Len(t) : from + i - 1 = a + i
      BY <3>1
    <3> QED  BY <1>4, <3>1, <3>2
  <2>2. CASE ~(from <= end)
    BY <1>1, <1>4, <2>2
  <2> QED  BY <2>1, <2>2
<1>7. \A i \in Nat \ {0} : a + i <= end => i <= Len(t)
  BY <1>1, <1>4
<1> QED  BY <1>1, <1>4, <1>5, <1>6, <1>7


-----------------------------------------------------------------------------
(* Pages. *)

\* The rows that a query with LIMIT reads: those that the page shows come first,
\* and there is one more if there are others.
LEMMA FirstRows ==
  ASSUME RowsInv, NEW S, S \subseteq Rows
  PROVE  LET f == Slice(Ordered(S), 0, Limit + 1) IN
         /\ f \in Seq(S) /\ Len(f) \in Nat /\ \A i \in 1..Len(f) : f[i] \in S
         /\ \A i, j \in 1..Len(f) : i < j => Before(Key(f[i]), Key(f[j]))
         /\ \A q \in S : \/ \E i \in 1..Len(f) : i <= Limit /\ f[i] = q
                         \/ Len(f) > Limit /\ Before(Key(f[Limit]), Key(q))
<1> DEFINE o == Ordered(S)
           f == Slice(o, 0, Limit + 1)
<1>1. Limit \in Nat \ {0}
  BY LimitAssumption
<1>2. /\ o \in Seq(S) /\ Len(o) \in Nat
      /\ \A i \in 1..Len(o) : o[i] \in S
      /\ \A i, j \in 1..Len(o) : i < j => Before(Key(o[i]), Key(o[j]))
      /\ \A r \in S : \E i \in 1..Len(o) : o[i] = r
  BY OrderedFacts
<1> HIDE DEF o
<1>3. /\ f \in Seq(S) /\ Len(f) \in Nat
      /\ \A i \in 1..Len(f) : 0 + i \in 1..Len(o) /\ 0 + i <= Limit + 1 /\ f[i] = o[0 + i]
      /\ \A i \in Nat \ {0} : 0 + i <= Len(o) /\ 0 + i <= Limit + 1 => i <= Len(f)
  <2>1. 0 \in Nat /\ Limit + 1 \in Nat
    BY <1>1
  <2> QED  BY <1>2, <2>1, SliceFacts
<1> HIDE DEF f
<1>4. \A i \in 1..Len(f) : i \in 1..Len(o) /\ f[i] = o[i]
  BY <1>3
<1>5. \A i \in Nat \ {0} : i <= Len(o) /\ i <= Limit + 1 => i <= Len(f)
  BY <1>3
<1>6. \A i \in 1..Len(f) : f[i] \in S
  BY <1>2, <1>4
<1>7. \A i, j \in 1..Len(f) : i < j => Before(Key(f[i]), Key(f[j]))
  BY <1>2, <1>4
<1>8. ASSUME NEW q \in S
      PROVE  \/ \E i \in 1..Len(f) : i <= Limit /\ f[i] = q
             \/ Len(f) > Limit /\ Before(Key(f[Limit]), Key(q))
  <2>1. PICK k \in 1..Len(o) : o[k] = q
    BY <1>2
  <2>2. CASE k <= Limit
    <3>1. k \in 1..Len(f)
      BY <1>1, <1>2, <1>3, <1>5, <2>2
    <3> QED  BY <1>4, <2>1, <2>2, <3>1
  <2>3. CASE ~(k <= Limit)
    <3>1. Limit + 1 <= Len(o) /\ Limit < k
      BY <1>1, <1>2, <2>3
    <3>2. Limit + 1 <= Len(f)
      BY <1>1, <1>5, <3>1
    <3>3. Limit \in 1..Len(f) /\ Len(f) > Limit
      BY <1>1, <1>3, <3>2
    <3>4. Before(Key(o[Limit]), Key(o[k])) /\ f[Limit] = o[Limit]
      BY <1>2, <1>4, <3>1, <3>3
    <3> QED  BY <2>1, <3>3, <3>4
  <2> QED  BY <2>2, <2>3
<1>9. \A q \in S : \/ \E i \in 1..Len(f) : i <= Limit /\ f[i] = q
                   \/ Len(f) > Limit /\ Before(Key(f[Limit]), Key(q))
  BY <1>8
<1> QED  BY <1>3, <1>6, <1>7, <1>9 DEF f, o

\* The rows that are read for a page belong to the list, are in order and come
\* after the cursor; and a query with LIMIT passes none over.
LEMMA FoundFacts ==
  ASSUME RowsInv, NEW cursor \in Nat, Readable(cursor)
  PROVE  LET f == Found(cursor) IN
         /\ f \in Seq(Listed) /\ Len(f) \in Nat /\ \A i \in 1..Len(f) : f[i] \in Listed
         /\ \A i, j \in 1..Len(f) : i < j => Before(Key(f[i]), Key(f[j]))
         /\ cursor # None => \A i \in 1..Len(f) : After(Key(f[i]), cursor)
         /\ ~list.sliced \/ cursor = None =>
              \A q \in Listed : cursor = None \/ After(Key(q), cursor) =>
                \/ \E i \in 1..Len(f) : i <= Limit /\ f[i] = q
                \/ Len(f) > Limit /\ Before(Key(f[Limit]), Key(q))
<1> DEFINE f == Found(cursor)
<1>1. Listed \subseteq Rows
  BY RowFacts
<1>2. CASE cursor = None
  <2>1. f = Slice(Ordered(Listed), 0, Limit + 1)
    BY <1>2 DEF Found
  <2> HIDE DEF f
  <2>2. /\ f \in Seq(Listed) /\ Len(f) \in Nat /\ \A i \in 1..Len(f) : f[i] \in Listed
        /\ \A i, j \in 1..Len(f) : i < j => Before(Key(f[i]), Key(f[j]))
        /\ \A q \in Listed : \/ \E i \in 1..Len(f) : i <= Limit /\ f[i] = q
                             \/ Len(f) > Limit /\ Before(Key(f[Limit]), Key(q))
    BY <1>1, <2>1, FirstRows
  <2> QED  BY <1>2, <2>2 DEF f
<1>3. CASE cursor # None /\ ~list.sliced
  <2> DEFINE T == {r \in Listed : After(Key(r), cursor)}
  <2>1. f = Slice(Ordered(T), 0, Limit + 1)
    BY <1>3 DEF Found
  <2>2. T \subseteq Rows /\ T \subseteq Listed /\ \A r \in T : After(Key(r), cursor)
    BY <1>1
  <2>3. \A r \in Listed : After(Key(r), cursor) => r \in T
    OBVIOUS
  <2> HIDE DEF f, T
  <2>4. /\ f \in Seq(T) /\ Len(f) \in Nat /\ \A i \in 1..Len(f) : f[i] \in T
        /\ \A i, j \in 1..Len(f) : i < j => Before(Key(f[i]), Key(f[j]))
        /\ \A q \in T : \/ \E i \in 1..Len(f) : i <= Limit /\ f[i] = q
                        \/ Len(f) > Limit /\ Before(Key(f[Limit]), Key(q))
    BY <2>1, <2>2, FirstRows
  <2>5. f \in Seq(Listed) /\ \A i \in 1..Len(f) : f[i] \in Listed
    BY <2>2, <2>4, SeqMonotonic
  <2>6. \A i \in 1..Len(f) : After(Key(f[i]), cursor)
    BY <2>2, <2>4
  <2> QED  BY <1>3, <2>3, <2>4, <2>5, <2>6 DEF f
<1>4. CASE cursor # None /\ list.sliced
  <2> DEFINE all == Ordered(Listed)
             index == CHOOSE i \in 1..Len(all) : Key(all[i]) = cursor
             end == Limit + 2
  <2>1. f = Slice(all, index, end)
    BY <1>4 DEF Found
  <2>2. /\ all \in Seq(Listed) /\ Len(all) \in Nat
        /\ \A i \in 1..Len(all) : all[i] \in Listed
        /\ \A i, j \in 1..Len(all) : i < j => Before(Key(all[i]), Key(all[j]))
        /\ \A r \in Listed : \E i \in 1..Len(all) : all[i] = r
    BY <1>1, OrderedFacts
  <2> HIDE DEF all
  <2>3. PICK r \in Listed : Key(r) = cursor
    BY <1>4 DEF Readable
  <2>4. PICK k \in 1..Len(all) : all[k] = r
    BY <2>2
  <2>5. index \in 1..Len(all) /\ Key(all[index]) = cursor
    BY <2>3, <2>4
  <2> HIDE DEF index, f
  <2>6. index \in Nat /\ end \in Nat
    BY <2>2, <2>5, LimitAssumption
  <2> HIDE DEF end
  <2>7. /\ f \in Seq(Listed) /\ Len(f) \in Nat
        /\ \A i \in 1..Len(f) : index + i \in 1..Len(all) /\ f[i] = all[index + i]
    <3>1. all \in Seq(Listed)
      BY <2>2
    <3>2. /\ Slice(all, index, end) \in Seq(Listed) /\ Len(Slice(all, index, end)) \in Nat
          /\ \A i \in 1..Len(Slice(all, index, end)) :
               index + i \in 1..Len(all) /\ index + i <= end /\ Slice(all, index, end)[i] = all[index + i]
      BY <2>6, <3>1, SliceFacts
    <3> QED  BY <2>1, <3>2
  <2>8. \A i \in 1..Len(f) : f[i] \in Listed
    BY <2>2, <2>7
  <2>9. \A i, j \in 1..Len(f) : i < j => Before(Key(f[i]), Key(f[j]))
    <3> TAKE i, j \in 1..Len(f)
    <3> HAVE i < j
    <3>1. index + i < index + j
      BY <2>6
    <3> QED  BY <2>2, <2>7, <3>1
  <2>10. \A i \in 1..Len(f) : After(Key(f[i]), cursor)
    <3> TAKE i \in 1..Len(f)
    <3>1. index < index + i
      BY <2>6
    <3> QED  BY <2>2, <2>5, <2>7, <3>1 DEF After
  <2> QED  BY <1>4, <2>7, <2>8, <2>9, <2>10 DEF f
<1> QED  BY <1>2, <1>3, <1>4, KindsHave DEF RowsInv, KindFacts


\* Membership in the ids of a list of items.
LEMMA ItemIdsHave ==
  ASSUME NEW items
  PROVE  /\ \A i \in DOMAIN items : items[i].id \in ItemIds(items)
         /\ \A id \in ItemIds(items) : \E i \in DOMAIN items : items[i].id = id
  BY DEF ItemIds

ItemType == [id : Nat, hidden : BOOLEAN, updated : Nat]

LEMMA ItemFacts ==
  ASSUME RowsInv, NEW r \in Rows
  PROVE  Item(r) \in ItemType /\ Item(r).id = r /\ Item(r).updated = row[r].updated
<1>1. r \in Nat /\ row[r].updated \in Nat
  BY RowFacts DEF RowsInv
<1> QED  BY <1>1 DEF Item, ItemType

\* A page shows rows of the list as they are, in order, each once, after the
\* cursor and up to the next one; the next cursor names a row of the list; and
\* what belongs to the list after the cursor is on the page or after the next
\* cursor, which is there if anything is.
LEMMA PageFacts ==
  ASSUME RowsInv, NEW cursor \in Nat, Readable(cursor)
  PROVE  LET page == Page(cursor) IN
         /\ page.items \in Seq(ItemType) /\ Len(page.items) <= Limit /\ page.next \in Nat
         /\ \A i \in DOMAIN page.items :
              /\ page.items[i].id \in Listed
              /\ page.items[i].updated = row[page.items[i].id].updated
         /\ \A i, j \in DOMAIN page.items :
              i # j => Key(page.items[i].id) # Key(page.items[j].id)
         /\ cursor # None => \A i \in DOMAIN page.items : After(Key(page.items[i].id), cursor)
         /\ page.next # None =>
              /\ page.next \in 1..clock /\ Limit \in DOMAIN page.items
              /\ \A i \in DOMAIN page.items : ~After(Key(page.items[i].id), page.next)
              /\ cursor # None => After(page.next, cursor)
         /\ ~list.sliced \/ cursor = None =>
              \A q \in Listed : cursor = None \/ After(Key(q), cursor) =>
                \/ q \in ItemIds(page.items)
                \/ page.next # None /\ After(Key(q), page.next)
<1> DEFINE f == Found(cursor)
           shown == Slice(f, 0, Limit)
           items == Page(cursor).items
           next == Page(cursor).next
<1>1. Limit \in Nat \ {0}
  BY LimitAssumption
<1>2. /\ f \in Seq(Listed) /\ Len(f) \in Nat
      /\ \A i \in 1..Len(f) : f[i] \in Listed
      /\ \A i, j \in 1..Len(f) : i < j => Before(Key(f[i]), Key(f[j]))
      /\ cursor # None => \A i \in 1..Len(f) : After(Key(f[i]), cursor)
      /\ ~list.sliced \/ cursor = None =>
           \A q \in Listed : cursor = None \/ After(Key(q), cursor) =>
             \/ \E i \in 1..Len(f) : i <= Limit /\ f[i] = q
             \/ Len(f) > Limit /\ Before(Key(f[Limit]), Key(q))
  BY FoundFacts
<1>3. items = [i \in DOMAIN shown |-> Item(f[i])] /\ next = IF Len(f) > Limit THEN Key(f[Limit]) ELSE None
  BY DEF Page, NextCursor
<1> HIDE DEF f
<1>4. /\ shown \in Seq(Listed) /\ Len(shown) \in Nat
      /\ \A i \in 1..Len(shown) : 0 + i \in 1..Len(f) /\ 0 + i <= Limit /\ shown[i] = f[0 + i]
      /\ \A i \in Nat \ {0} : 0 + i <= Len(f) /\ 0 + i <= Limit => i <= Len(shown)
  <2>1. 0 \in Nat /\ Limit \in Nat
    BY <1>1
  <2> QED  BY <1>2, <2>1, SliceFacts
<1> HIDE DEF shown, items, next
<1>5. Len(shown) \in Nat /\ Len(shown) <= Limit /\ DOMAIN shown = 1..Len(shown)
      /\ \A i \in 1..Len(shown) : i \in 1..Len(f) /\ i <= Limit
  BY <1>1, <1>4
<1>6. \A i \in Nat \ {0} : i <= Len(f) /\ i <= Limit => i <= Len(shown)
  BY <1>4
<1>7. \A i \in 1..Len(shown) : items[i] = Item(f[i]) /\ f[i] \in Listed /\ f[i] \in Rows
  BY <1>2, <1>3, <1>5, RowFacts
<1>8. \A i \in 1..Len(shown) :
         items[i] \in ItemType /\ items[i].id = f[i] /\ items[i].updated = row[f[i]].updated
  BY <1>7, ItemFacts
<1>9. items \in Seq(ItemType) /\ Len(items) = Len(shown) /\ DOMAIN items = 1..Len(shown)
  <2>1. items \in [1..Len(shown) -> ItemType] /\ DOMAIN items = 1..Len(shown)
    BY <1>3, <1>5, <1>8
  <2>2. items \in Seq(ItemType)
    BY <1>5, <2>1
  <2>3. DOMAIN items = 1..Len(items) /\ Len(items) \in Nat
    BY <2>2, LenProperties
  <2> QED  BY <1>5, <2>1, <2>2, <2>3
<1>10. \A r \in Listed : Key(r) \in 1..clock /\ Key(r) \in Nat /\ Key(r) # None
  BY RowFacts
<1>11. \A i, j \in DOMAIN items : i # j => Key(items[i].id) # Key(items[j].id)
  <2> TAKE i, j \in DOMAIN items
  <2> HAVE i # j
  <2>1. i \in 1..Len(f) /\ j \in 1..Len(f) /\ items[i].id = f[i] /\ items[j].id = f[j] /\ i \in Nat /\ j \in Nat
    BY <1>5, <1>8, <1>9
  <2>2. Key(f[i]) \in Nat /\ Key(f[j]) \in Nat
    BY <1>2, <1>10, <2>1
  <2>3. CASE i < j
    BY <1>2, <2>1, <2>2, <2>3 DEF Before
  <2>4. CASE j < i
    BY <1>2, <2>1, <2>2, <2>4 DEF Before
  <2> QED  BY <2>1, <2>3, <2>4
<1>12. cursor # None => \A i \in DOMAIN items : After(Key(items[i].id), cursor)
  BY <1>2, <1>5, <1>8, <1>9
<1>13. ASSUME next # None
       PROVE  /\ next \in 1..clock /\ Limit \in 1..Len(f) /\ next = Key(f[Limit]) /\ Limit \in DOMAIN items
              /\ \A i \in DOMAIN items : ~After(Key(items[i].id), next)
              /\ cursor # None => After(next, cursor)
  <2>1. Len(f) > Limit /\ Limit \in 1..Len(f) /\ next = Key(f[Limit])
    BY <1>1, <1>2, <1>3, <1>13
  <2>2. f[Limit] \in Listed /\ next \in 1..clock /\ next \in Nat
    BY <1>2, <1>10, <2>1
  <2>4. Limit \in DOMAIN items
    <3>1. Limit <= Len(shown)
      BY <1>1, <1>2, <1>6, <2>1
    <3> QED  BY <1>1, <1>4, <1>9, <3>1
  <2>3. ASSUME NEW i \in DOMAIN items PROVE ~After(Key(items[i].id), next)
    <3>1. i \in 1..Len(f) /\ i \in Nat /\ i <= Limit /\ items[i].id = f[i] /\ Key(f[i]) \in Nat
      BY <1>2, <1>5, <1>8, <1>9, <1>10
    <3>2. CASE i = Limit
      BY <2>1, <2>2, <3>1, <3>2 DEF After, Before
    <3>3. CASE i < Limit
      <4>1. Before(Key(f[i]), Key(f[Limit]))
        BY <1>2, <2>1, <3>1, <3>3
      <4> QED  BY <2>1, <2>2, <3>1, <4>1 DEF After, Before
    <3> QED  BY <1>1, <3>1, <3>2, <3>3
  <2> QED  BY <1>2, <2>1, <2>2, <2>3, <2>4
<1>14. ASSUME ~list.sliced \/ cursor = None,
              NEW q \in Listed, cursor = None \/ After(Key(q), cursor)
       PROVE  q \in ItemIds(items) \/ (next # None /\ After(Key(q), next))
  <2>1. CASE \E i \in 1..Len(f) : i <= Limit /\ f[i] = q
    <3>1. PICK i \in 1..Len(f) : i <= Limit /\ f[i] = q
      BY <2>1
    <3>2. i \in 1..Len(shown)
      BY <1>1, <1>2, <1>5, <1>6, <3>1
    <3>3. i \in DOMAIN items /\ items[i].id = q
      BY <1>8, <1>9, <3>1, <3>2
    <3>4. q \in ItemIds(items)
      BY <3>3, ItemIdsHave
    <3> QED  BY <3>4
  <2>2. CASE Len(f) > Limit /\ Before(Key(f[Limit]), Key(q))
    <3>1. next = Key(f[Limit]) /\ Limit \in 1..Len(f)
      BY <1>1, <1>2, <1>3, <2>2
    <3> QED  BY <1>2, <1>10, <2>2, <3>1 DEF After
  <2> QED  BY <1>2, <1>14, <2>1, <2>2
<1>15. next \in Nat
  BY <1>1, <1>2, <1>3, <1>10 DEF None
<1>16. \A i \in DOMAIN items : items[i].id \in Listed /\ items[i].updated = row[items[i].id].updated
  BY <1>7, <1>8, <1>9
<1> QED
  BY <1>5, <1>9, <1>11, <1>12, <1>13, <1>14, <1>15, <1>16 DEF items, next


-----------------------------------------------------------------------------
(* Requests. *)

\* What no request changes: the list and the times at which rows were made; that
\* a row is committed; and the place of a row that has been in the list so far.
Kept ==
  /\ list' = list
  /\ \A r \in Rows : r \in Rows' /\ row'[r].created = row[r].created
  /\ \A r : Committed(r) => Committed(r)'
  /\ steady' \subseteq steady
  /\ \A r \in steady' : Key(r)' = Key(r)

LEMMA SetStatus ==
  ASSUME NEW s \in Seq(RowType), NEW r \in DOMAIN s, NEW status \in Statuses
  PROVE  LET t == [s EXCEPT ![r].status = status] IN
         /\ t \in Seq(RowType) /\ DOMAIN t = DOMAIN s
         /\ \A q \in DOMAIN s : /\ t[q].status = IF q = r THEN status ELSE s[q].status
                               /\ t[q].created = s[q].created
                               /\ t[q].updated = s[q].updated
<1> DEFINE new == [s[r] EXCEPT !.status = status]
           t == [s EXCEPT ![r] = new]
<1>1. DOMAIN s = 1..Len(s) /\ s[r] \in RowType
  BY LenProperties
<1>2. new \in RowType /\ new.status = status /\ new.created = s[r].created /\ new.updated = s[r].updated
  BY <1>1 DEF RowType
<1>3. [s EXCEPT ![r].status = status] = t
  OBVIOUS
<1> HIDE DEF new
<1>4. t \in Seq(RowType) /\ Len(t) = Len(s) /\ \A q \in 1..Len(s) : t[q] = IF q = r THEN new ELSE s[q]
  BY <1>1, <1>2, ExceptSeq
<1> HIDE DEF t
<1>5. DOMAIN t = DOMAIN s
  BY <1>1, <1>4, LenProperties
<1>6. \A q \in DOMAIN s : /\ t[q].status = IF q = r THEN status ELSE s[q].status
                        /\ t[q].created = s[q].created
                        /\ t[q].updated = s[q].updated
  BY <1>1, <1>2, <1>4
<1> QED  BY <1>3, <1>4, <1>5, <1>6

LEMMA SetUpdated ==
  ASSUME NEW s \in Seq(RowType), NEW r \in DOMAIN s, NEW at \in Nat
  PROVE  LET t == [s EXCEPT ![r].updated = at] IN
         /\ t \in Seq(RowType) /\ DOMAIN t = DOMAIN s
         /\ \A q \in DOMAIN s : /\ t[q].status = s[q].status
                               /\ t[q].created = s[q].created
                               /\ t[q].updated = IF q = r THEN at ELSE s[q].updated
<1> DEFINE new == [s[r] EXCEPT !.updated = at]
           t == [s EXCEPT ![r] = new]
<1>1. DOMAIN s = 1..Len(s) /\ s[r] \in RowType
  BY LenProperties
<1>2. new \in RowType /\ new.status = s[r].status /\ new.created = s[r].created /\ new.updated = at
  BY <1>1 DEF RowType
<1>3. [s EXCEPT ![r].updated = at] = t
  OBVIOUS
<1> HIDE DEF new
<1>4. t \in Seq(RowType) /\ Len(t) = Len(s) /\ \A q \in 1..Len(s) : t[q] = IF q = r THEN new ELSE s[q]
  BY <1>1, <1>2, ExceptSeq
<1> HIDE DEF t
<1>5. DOMAIN t = DOMAIN s
  BY <1>1, <1>4, LenProperties
<1>6. \A q \in DOMAIN s : /\ t[q].status = s[q].status
                        /\ t[q].created = s[q].created
                        /\ t[q].updated = IF q = r THEN at ELSE s[q].updated
  BY <1>1, <1>2, <1>4
<1> QED  BY <1>3, <1>4, <1>5, <1>6

\* A step that changes nothing of the rows but the status of r.
OnlyStatus(r, status) ==
  /\ row' \in Seq(RowType) /\ Rows' = Rows
  /\ \A q \in Rows : /\ row'[q].status = IF q = r THEN status ELSE row[q].status
                     /\ row'[q].created = row[q].created
                     /\ row'[q].updated = row[q].updated

LEMMA StatusIsSet ==
  ASSUME RowsInv, NEW r \in Rows, NEW status \in Statuses, row' = [row EXCEPT ![r].status = status]
  PROVE  OnlyStatus(r, status)
<1>1. row \in Seq(RowType) /\ r \in DOMAIN row
  BY DEF RowsInv, Rows
<1>2. row' \in Seq(RowType) /\ DOMAIN row' = DOMAIN row
  BY <1>1, SetStatus
<1>3. \A q \in DOMAIN row : /\ row'[q].status = IF q = r THEN status ELSE row[q].status
                          /\ row'[q].created = row[q].created
                          /\ row'[q].updated = row[q].updated
  BY <1>1, SetStatus
<1> QED  BY <1>2, <1>3 DEF OnlyStatus, Rows

LEMMA StatusStep ==
  ASSUME RowsInv, NEW r \in Rows, NEW status \in Statuses, OnlyStatus(r, status),
         list' = list, clock' = clock, edits' = edits,
         row[r].status \in {"live", "hidden", "purged"} => status \in {"live", "hidden", "purged"},
         steady' \subseteq steady,
         \A q \in steady' : q # r \/ status \in list.shows
  PROVE  RowsInv' /\ Kept
<1>1. Rows = DOMAIN row /\ list' = list /\ clock' = clock /\ edits' = edits
  BY DEF Rows
<1>2. /\ row' \in Seq(RowType) /\ Rows' = Rows
      /\ \A q \in Rows : /\ row'[q].status = IF q = r THEN status ELSE row[q].status
                         /\ row'[q].created = row[q].created
                         /\ row'[q].updated = row[q].updated
  BY DEF OnlyStatus
<1>3. \A q : Committed(q) => Committed(q)'
  BY <1>2 DEF Committed
<1>4. steady' \subseteq Listed'
  <2> SUFFICES ASSUME NEW q \in steady' PROVE q \in Listed'
    OBVIOUS
  <2>1. q \in Rows /\ row[q].status \in list.shows
    BY DEF RowsInv, Listed
  <2>2. row'[q].status \in list.shows
    BY <1>2, <2>1
  <2> QED  BY <1>1, <1>2, <2>1, <2>2 DEF Listed
<1>5. \A q \in Rows : Key(q)' = Key(q)
  BY <1>1, <1>2 DEF Key
<1>6. steady' \subseteq Rows
  BY DEF RowsInv, Listed
<1>7. Kept
  BY <1>1, <1>2, <1>3, <1>5, <1>6 DEF Kept
<1>8. \A e \in edits' : Committed(e.row)' /\ e.at \in 1..clock'
  BY <1>1, <1>3 DEF RowsInv
<1>9. list' \in Kinds /\ clock' \in Nat /\ \A d, e \in edits' : d.at = e.at => d = e
  BY <1>1 DEF RowsInv
<1>10. \A q \in Rows' : row'[q].created \in 1..clock' /\ row'[q].updated \in 1..clock'
  BY <1>1, <1>2 DEF RowsInv
<1>11. \A r1, q \in Rows' :
          row'[r1].created = row'[q].created \/ row'[r1].updated = row'[q].updated => r1 = q
  BY <1>2 DEF RowsInv
<1>12. \A e \in edits' : \A q \in Rows' : e.at # row'[q].updated
  BY <1>1, <1>2 DEF RowsInv
<1>13. row' \in Seq(RowType)
  BY <1>2
<1>14. RowsInv'
  BY ONLY <1>4, <1>8, <1>9, <1>10, <1>11, <1>12, <1>13 DEF RowsInv
<1> QED  BY <1>7, <1>14

\* A settled row is listed, in its place.
LEMMA SettledFacts ==
  ASSUME NEW newRow
  PROVE  /\ Settled(newRow) \subseteq steady
         /\ \A r \in Settled(newRow) : /\ newRow[r].status \in list.shows
                                       /\ list.moves => newRow[r].updated = row[r].updated
  BY DEF Settled

LEMMA CreateBegins == RowsInv /\ BeginCreate /\ UNCHANGED list => RowsInv' /\ Kept
<1> SUFFICES ASSUME RowsInv, BeginCreate, UNCHANGED list PROVE RowsInv' /\ Kept
  OBVIOUS
<1> DEFINE new == [status |-> "open", created |-> clock', updated |-> clock']
           n == Len(row) + 1
<1>1. /\ clock' = clock + 1 /\ clock \in Nat /\ clock' \in Nat /\ row' = Append(row, new)
      /\ edits' = edits /\ steady' = steady /\ list' = list
  BY DEF BeginCreate, RowsInv
<1>2. new \in RowType
      /\ new.status = "open" /\ new.created = clock' /\ new.updated = clock'
  BY <1>1 DEF Statuses, RowType
<1> HIDE DEF new
<1>3. /\ row' \in Seq(RowType)
      /\ Len(row) \in Nat /\ Rows = 1..Len(row) /\ Rows' = 1..n /\ row'[n] = new
      /\ \A r \in Rows : row'[r] = row[r]
  BY <1>1, <1>2, AppendProperties DEF RowsInv, Rows
<1>13. row'[n].created = clock' /\ row'[n].updated = clock'
       /\ \A r \in Rows : row'[r].created = row[r].created /\ row'[r].updated = row[r].updated
  BY <1>2, <1>3
<1>14. clock \in Nat /\ clock' \in Nat /\ clock < clock' /\ edits' = edits
  BY <1>1
<1>4. n \in Rows' /\ n \notin Rows /\ Rows \subseteq Rows' /\ \A r \in Rows' : r \in Rows \/ r = n
  BY <1>3
<1> HIDE DEF n
<1>5. \A r \in Rows' : row'[r].created \in 1..clock' /\ row'[r].updated \in 1..clock'
  BY <1>1, <1>2, <1>3, <1>4 DEF RowsInv
<1>6. \A r \in Rows : row[r].created \in Nat /\ row[r].updated \in Nat
                      /\ row[r].created < clock' /\ row[r].updated < clock'
  BY <1>1 DEF RowsInv
<1>7. \A r, q \in Rows' :
         row'[r].created = row'[q].created \/ row'[r].updated = row'[q].updated => r = q
  <2> TAKE r, q \in Rows'
  <2> HAVE row'[r].created = row'[q].created \/ row'[r].updated = row'[q].updated
  <2>1. CASE r \in Rows /\ q \in Rows
    BY <1>3, <2>1 DEF RowsInv
  <2>2. CASE r \in Rows /\ q = n
    BY <1>6, <1>13, <1>14, <2>2
  <2>3. CASE r = n /\ q \in Rows
    BY <1>6, <1>13, <1>14, <2>3
  <2> QED  BY <1>4, <2>1, <2>2, <2>3
<1>8. \A q : Committed(q) => Committed(q)'
  BY <1>3, <1>4 DEF Committed
<1>9. \A e \in edits' : Committed(e.row)' /\ e.at \in 1..clock' /\ e.at \in 1..clock
  BY <1>1, <1>8 DEF RowsInv
<1>10. \A e \in edits' : \A r \in Rows' : e.at # row'[r].updated
  <2> TAKE e \in edits'
  <2> TAKE r \in Rows'
  <2>1. CASE r \in Rows
    BY <1>1, <1>3, <2>1 DEF RowsInv
  <2>2. CASE r = n
    BY <1>9, <1>13, <1>14, <2>2
  <2> QED  BY <1>4, <2>1, <2>2
<1>11. steady' \subseteq Listed'
  BY <1>1, <1>3, <1>4 DEF RowsInv, Listed
<1>12. Kept
  <2>1. \A r \in steady' : r \in Rows
    BY <1>1 DEF RowsInv, Listed
  <2>2. \A r \in Rows : Key(r)' = Key(r)
    BY <1>1, <1>3 DEF Key
  <2> QED  BY <1>1, <1>3, <1>4, <1>8, <2>1, <2>2 DEF Kept
<1> QED  BY <1>1, <1>3, <1>5, <1>7, <1>9, <1>10, <1>11, <1>12 DEF RowsInv

LEMMA EditBegins == ASSUME RowsInv, NEW r \in Rows, BeginEdit(r), UNCHANGED list PROVE RowsInv' /\ Kept
<1> DEFINE new == [row |-> r, at |-> clock']
<1>1. /\ clock' = clock + 1 /\ clock \in Nat /\ clock' \in Nat /\ row' = row
      /\ edits' = edits \cup {new} /\ steady' = steady /\ list' = list /\ row[r].status \in {"live", "hidden"}
  BY DEF BeginEdit, RowsInv
<1>2. new.row = r /\ new.at = clock'
  OBVIOUS
<1> HIDE DEF new
<1>3. Rows' = Rows /\ Listed' = Listed /\ \A q : Committed(q)' = Committed(q)
  BY <1>1 DEF Rows, Listed, Committed
<1>4. Committed(r)
  BY <1>1 DEF Committed
<1>5. \A e \in edits' : Committed(e.row)' /\ e.at \in 1..clock'
  BY <1>1, <1>2, <1>3, <1>4 DEF RowsInv
<1>6. \A q \in Rows : row[q].created \in 1..clock' /\ row[q].updated \in 1..clock' /\ row[q].updated # clock'
  BY <1>1 DEF RowsInv
<1>7. \A e \in edits' : \A q \in Rows' : e.at # row'[q].updated
  BY <1>1, <1>2, <1>3, <1>6 DEF RowsInv
<1>8. \A d, e \in edits' : d.at = e.at => d = e
  <2>1. \A e \in edits : e.at # clock'
    BY <1>1 DEF RowsInv
  <2> QED  BY <1>1, <1>2, <2>1 DEF RowsInv
<1>9. Kept
  BY <1>1, <1>3 DEF Kept, Key
<1> QED  BY <1>1, <1>3, <1>5, <1>6, <1>7, <1>8, <1>9 DEF RowsInv

LEMMA EditEnds ==
  ASSUME RowsInv, NEW e \in edits, CommitEdit(e) \/ RollbackEdit(e), UNCHANGED list
  PROVE  RowsInv' /\ Kept
<1>1. e.row \in Rows /\ Committed(e.row) /\ e.at \in 1..clock /\ e.at \in Nat /\ clock \in Nat
  BY DEF RowsInv, Committed
<1>2. clock' = clock /\ list' = list /\ edits' = edits \ {e}
  BY DEF CommitEdit, RollbackEdit
<1>3. CASE RollbackEdit(e)
  <2>1. row' = row /\ steady' = steady
    BY <1>3 DEF RollbackEdit
  <2>2. Rows' = Rows /\ Listed' = Listed /\ \A q : Committed(q)' = Committed(q)
    BY <1>2, <2>1 DEF Rows, Listed, Committed
  <2>3. Kept
    BY <1>2, <2>1, <2>2 DEF Kept, Key
  <2> QED  BY <1>2, <2>1, <2>2, <2>3 DEF RowsInv
<1>4. CASE CommitEdit(e)
  <2>1. row' = [row EXCEPT ![e.row].updated = e.at] /\ steady' = Settled(row')
    BY <1>4 DEF CommitEdit
  <2>2. /\ row' \in Seq(RowType) /\ Rows' = Rows
        /\ \A q \in Rows : /\ row'[q].status = row[q].status
                           /\ row'[q].created = row[q].created
                           /\ row'[q].updated = IF q = e.row THEN e.at ELSE row[q].updated
    <3>1. row \in Seq(RowType) /\ e.row \in DOMAIN row
      BY <1>1 DEF RowsInv, Rows
    <3>2. row' \in Seq(RowType) /\ DOMAIN row' = DOMAIN row
      BY <1>1, <2>1, <3>1, SetUpdated
    <3>3. \A q \in DOMAIN row : /\ row'[q].status = row[q].status
                              /\ row'[q].created = row[q].created
                              /\ row'[q].updated = IF q = e.row THEN e.at ELSE row[q].updated
      BY <1>1, <2>1, <3>1, SetUpdated
    <3> QED  BY <3>2, <3>3 DEF Rows
  <2>3. Listed' = Listed /\ \A q : Committed(q)' = Committed(q)
    BY <1>2, <2>2 DEF Listed, Committed
  <2>4. /\ steady' \subseteq steady /\ steady' \subseteq Rows
        /\ \A q \in steady' : list.moves => row'[q].updated = row[q].updated
    BY <2>1, SettledFacts DEF RowsInv, Listed
  <2>5. \A q \in steady' : Key(q)' = Key(q)
    BY <1>2, <2>2, <2>4 DEF Key
  <2>6. Kept
    BY <1>2, <2>2, <2>3, <2>4, <2>5 DEF Kept
  <2>7. \A r, q \in Rows' :
           row'[r].created = row'[q].created \/ row'[r].updated = row'[q].updated => r = q
    BY <1>1, <2>2 DEF RowsInv
  <2>8. \A d \in edits' : d \in edits /\ d.at # e.at
    BY <1>2 DEF RowsInv
  <2>9. \A d \in edits' : \A r \in Rows' : d.at # row'[r].updated
    BY <2>2, <2>8 DEF RowsInv
  <2>10. \A r \in Rows' : row'[r].created \in 1..clock' /\ row'[r].updated \in 1..clock'
    BY <1>1, <1>2, <2>2 DEF RowsInv
  <2> QED  BY <1>2, <2>2, <2>3, <2>4, <2>6, <2>7, <2>8, <2>9, <2>10 DEF RowsInv
<1> QED  BY <1>3, <1>4

\* The requests on one row that change its status.
LEMMA StatusRequests ==
  ASSUME RowsInv, NEW r \in Rows, UNCHANGED list,
         CommitCreate(r) \/ Rollback(r) \/ Hide(r) \/ Restore(r) \/ Purge(r)
  PROVE  RowsInv' /\ Kept
<1>1. KindFacts /\ steady \subseteq Listed /\ list \in Kinds
  BY KindsHave DEF RowsInv
<1>2. \A q \in steady : row[q].status \in list.shows
  BY <1>1 DEF Listed
<1>3. CASE CommitCreate(r) \/ Restore(r)
  <2>1. row' = [row EXCEPT ![r].status = "live"] /\ list' = list /\ clock' = clock /\ edits' = edits /\ steady' = steady
    BY <1>3 DEF CommitCreate, Restore
  <2>2. "live" \in Statuses /\ "live" \in list.shows /\ steady' \subseteq steady
    BY <1>1, <2>1 DEF Statuses, KindFacts
  <2>3. \A q \in steady' : q # r \/ "live" \in list.shows
    BY <2>2
  <2>4. row[r].status \in {"live", "hidden", "purged"} => "live" \in {"live", "hidden", "purged"}
    OBVIOUS
  <2>5. OnlyStatus(r, "live")
    BY <2>1, <2>2, StatusIsSet
  <2>6. list' = list /\ clock' = clock /\ edits' = edits
    BY <2>1
  <2>7. "live" \in Statuses /\ steady' \subseteq steady
    BY <2>2
  <2> QED  BY <2>3, <2>5, <2>6, <2>7, StatusStep
<1>4. CASE Rollback(r)
  <2>1. row' = [row EXCEPT ![r].status = "gone"] /\ row[r].status = "open" 
        /\ list' = list /\ clock' = clock /\ edits' = edits /\ steady' = steady
    BY <1>4 DEF Rollback
  <2>2. "gone" \in Statuses /\ \A q \in steady : q # r
    BY <1>1, <1>2, <2>1 DEF Statuses, KindFacts
  <2>3. OnlyStatus(r, "gone")
    BY <2>1, <2>2, StatusIsSet
  <2>4. steady' \subseteq steady /\ list' = list /\ clock' = clock /\ edits' = edits
    BY <2>1
  <2> QED  BY <1>1, <2>1, <2>2, <2>3, <2>4, StatusStep
<1>5. ASSUME NEW status \in {"hidden", "purged"},
             row' = [row EXCEPT ![r].status = status], steady' = Settled(row'),
             UNCHANGED <<clock, edits>>
      PROVE  RowsInv' /\ Kept
  <2>1. status \in Statuses /\ list' = list /\ clock' = clock /\ edits' = edits
    BY <1>5 DEF Statuses
  <2>2. OnlyStatus(r, status)
    BY <1>5, <2>1, StatusIsSet
  <2>3. row'[r].status = status
    BY <2>2 DEF OnlyStatus
  <2>4. \A q \in steady' : row'[q].status \in list.shows
    BY <1>5, SettledFacts
  <2>5. steady' \subseteq steady /\ \A q \in steady' : q # r \/ status \in list.shows
    BY <1>5, <2>3, <2>4, SettledFacts
  <2> QED  BY <2>1, <2>2, <2>5, StatusStep
<1>6. CASE Hide(r)
  BY <1>5, <1>6 DEF Hide
<1>7. CASE Purge(r)
  BY <1>5, <1>7 DEF Purge
<1> QED  BY <1>3, <1>4, <1>6, <1>7

LEMMA RequestStep == RowsInv /\ (Change \/ Commit) => RowsInv' /\ Kept /\ view' = view /\ since' = since
<1> SUFFICES ASSUME RowsInv, Change \/ Commit PROVE RowsInv' /\ Kept /\ view' = view /\ since' = since
  OBVIOUS
<1>1. list' = list /\ view' = view /\ since' = since
  BY DEF Change, Commit, reading
<1>2. CASE Change
  BY <1>1, <1>2, CreateBegins, EditBegins, EditEnds, StatusRequests DEF Change
<1>3. CASE Commit
  BY <1>1, <1>3, EditEnds, StatusRequests DEF Commit, SendMessage, RemoveMessage, EditMessage
<1> QED  BY <1>1, <1>2, <1>3


-----------------------------------------------------------------------------
(* What is shown.  Items, and those of the answers and the events that are *)
(* on their way, are rows that are committed; only a conversation has any  *)
(* such, so that other lists are filled by pages alone.                    *)

ItemsOK(items) == items \in Seq(ItemType) /\ \A i \in DOMAIN items : Committed(items[i].id)
EventsOK(events) == \A e \in events : e.item \in ItemType /\ Committed(e.item.id)

\* First pages that are asked for again.
AnswersOK(pages) ==
  /\ pages \in [Answers -> Seq(ItemType)]
  /\ \A k \in Answers : ItemsOK(pages[k]) /\ Len(pages[k]) <= Limit
NoAnswers(pages) == \A k \in Answers : pages[k] = NoAnswer

ViewInv ==
  /\ view \in [items : Seq(ItemType), cursor : Nat, ready : BOOLEAN]
  /\ ItemsOK(view.items) /\ AnswersOK(answer)
  /\ EventsOK(outbox) /\ EventsOK(mail)
  /\ since \in Nat /\ hub \in 0..MaxSockets
  /\ ~list.live => outbox = {} /\ mail = {} /\ NoAnswers(answer) /\ stale = FALSE

\* A row that was in the list from the first page on is shown, or comes with the
\* next pages.
SteadyInv ==
  view.ready /\ ~list.sliced =>
    \A r \in steady : r \in ItemIds(view.items)
                      \/ (view.cursor # None /\ After(Key(r), view.cursor))

\* The items of a list that only pages fill have places of their own, that the
\* next pages, which lie after the cursor, do not take.
Position(item) == IF list.moves THEN item.updated ELSE row[item.id].created
OnceInv ==
  ~list.live =>
    /\ \A i, j \in DOMAIN view.items : i # j => Position(view.items[i]) # Position(view.items[j])
    /\ view.cursor # None => \A i \in DOMAIN view.items : ~After(Position(view.items[i]), view.cursor)

\* Pages of a newest-first list go back in time from that of the first one.
NewInv ==
  ~list.asc /\ ~list.moves =>
    /\ view.cursor <= since
    /\ \A i \in DOMAIN view.items : row[view.items[i].id].created <= since

DeliveryInv == RowsInv /\ ViewInv /\ SteadyInv /\ OnceInv /\ NewInv

\* Requests leave what is shown as true as it was.
LEMMA KeptShown ==
  ASSUME Kept, NEW items
  PROVE  ItemsOK(items) => items \in Seq(ItemType) /\ \A i \in DOMAIN items : Committed(items[i].id)'
  BY DEF Kept, ItemsOK

LEMMA AnswersStay ==
  ASSUME NEW pages, AnswersOK(pages), answer' = pages, \A r : Committed(r) => Committed(r)'
  PROVE  AnswersOK(answer)'
<1>1. ASSUME NEW k \in Answers PROVE ItemsOK(answer[k])' /\ Len(answer'[k]) <= Limit
  BY DEF AnswersOK, ItemsOK
<1> QED  BY <1>1 DEF AnswersOK

LEMMA AnnounceStep ==
  ASSUME RowsInv, RowsInv', Kept, ViewInv, Commit
  PROVE  EventsOK(outbox)' /\ (~list.live => outbox' = outbox)
<1>1. PICK type, r : Announce(type, r) /\ r \in Rows' /\ Committed(r)'
  <2>1. ASSUME NEW r \in Rows, SendMessage(r) PROVE Committed(r)' /\ r \in Rows'
    <3>1. row' = [row EXCEPT ![r].status = "live"] /\ "live" \in Statuses
      BY <2>1 DEF SendMessage, CommitCreate, Statuses
    <3>2. OnlyStatus(r, "live")
      BY ONLY RowsInv, r \in Rows, <3>1, StatusIsSet
    <3>3. Rows' = Rows /\ row'[r].status = "live"
      BY <3>2 DEF OnlyStatus
    <3> QED  BY <3>3 DEF Committed
  <2>2. ASSUME NEW r \in Rows, RemoveMessage(r) PROVE Committed(r)' /\ r \in Rows'
    <3>1. row' = [row EXCEPT ![r].status = "hidden"] /\ "hidden" \in Statuses
      BY <2>2 DEF RemoveMessage, Hide, Statuses
    <3>2. OnlyStatus(r, "hidden")
      BY ONLY RowsInv, r \in Rows, <3>1, StatusIsSet
    <3>3. Rows' = Rows /\ row'[r].status = "hidden"
      BY <3>2 DEF OnlyStatus
    <3> QED  BY <3>3 DEF Committed
  <2>3. ASSUME NEW e \in edits, EditMessage(e) PROVE Committed(e.row)' /\ e.row \in Rows'
    BY DEF RowsInv, Kept, Committed
  <2>4. \A r : SendMessage(r) => Announce("created", r)
    BY DEF SendMessage
  <2>5. \A r : RemoveMessage(r) => Announce("deleted", r)
    BY DEF RemoveMessage
  <2>6. \A e : EditMessage(e) => Announce("updated", e.row)
    BY DEF EditMessage
  <2> QED  BY <2>1, <2>2, <2>3, <2>4, <2>5, <2>6 DEF Commit
<1>2. list' = list
  BY DEF Kept
<1>3. outbox' = IF list.live THEN outbox \cup {Event(type, r)'} ELSE outbox
  BY <1>1 DEF Announce
<1>4. Event(type, r)'.item = Item(r)'
  BY DEF Event
<1>5. Item(r)' \in ItemType /\ Item(r)'.id = r
  <2>1. r \in Nat /\ row'[r].updated \in Nat
    BY <1>1 DEF RowsInv, Rows
  <2> QED  BY <2>1 DEF Item, ItemType
<1>6. \A e \in outbox : e.item \in ItemType /\ Committed(e.item.id)'
  BY DEF ViewInv, EventsOK, Kept
<1>7. \A e \in outbox' : e.item \in ItemType /\ Committed(e.item.id)'
  BY <1>1, <1>3, <1>4, <1>5, <1>6
<1> QED  BY <1>3, <1>7 DEF EventsOK

LEMMA RequestKeeps == DeliveryInv /\ (Change \/ Commit) => DeliveryInv'
<1> SUFFICES ASSUME DeliveryInv, Change \/ Commit PROVE DeliveryInv'
  OBVIOUS
<1>1. RowsInv' /\ Kept /\ view' = view /\ since' = since
  BY RequestStep DEF DeliveryInv
<1>2. hub' = hub /\ mail' = mail /\ answer' = answer /\ stale' = stale /\ (Change => outbox' = outbox)
  BY DEF Change, Commit, client, transport
<1>3. EventsOK(outbox)' /\ (~list.live => outbox' = outbox)
  <2>1. CASE Commit
    BY <1>1, <2>1, AnnounceStep DEF DeliveryInv
  <2>2. CASE Change
    BY <1>1, <1>2, <2>2 DEF DeliveryInv, ViewInv, EventsOK, Kept
  <2> QED  BY <2>1, <2>2
<1>4. EventsOK(mail)'
  BY <1>1, <1>2 DEF DeliveryInv, ViewInv, EventsOK, Kept
<1>5. list' = list /\ \A r \in Rows : r \in Rows' /\ row'[r].created = row[r].created
  BY <1>1 DEF Kept
<1>6. ItemsOK(view.items)'
  BY <1>1, KeptShown DEF DeliveryInv, ViewInv, ItemsOK
<1>12. AnswersOK(answer)'
  BY <1>1, <1>2, AnswersStay DEF DeliveryInv, ViewInv, Kept
<1>7. ViewInv'
  BY <1>1, <1>2, <1>3, <1>4, <1>5, <1>6, <1>12 DEF DeliveryInv, ViewInv, NoAnswers
<1>8. SteadyInv'
  <2>1. \A r : r \in steady' => r \in steady /\ Key(r)' = Key(r)
    BY <1>1 DEF Kept
  <2>2. ItemIds(view.items)' = ItemIds(view.items)
    BY <1>1
  <2> SUFFICES ASSUME view.ready, ~list.sliced, NEW r \in steady'
               PROVE  r \in ItemIds(view.items)' \/ (view.cursor # None /\ After(Key(r), view.cursor)')
    BY <1>1, <1>5 DEF SteadyInv
  <2>3. After(Key(r), view.cursor)' <=> After(Key(r), view.cursor)
    BY <1>1, <1>5, <2>1 DEF After, Before
  <2>4. r \in ItemIds(view.items) \/ (view.cursor # None /\ After(Key(r), view.cursor))
    BY <2>1 DEF DeliveryInv, SteadyInv
  <2> QED  BY <2>1, <2>2, <2>3, <2>4
<1>9. \A i \in DOMAIN view.items : view.items[i].id \in Rows
  BY DEF DeliveryInv, ViewInv, ItemsOK, Committed
<1>10. OnceInv'
  <2>1. \A i \in DOMAIN view.items : Position(view.items[i])' = Position(view.items[i])
    BY <1>1, <1>5, <1>9 DEF Position
  <2>2. \A i \in DOMAIN view.items :
           After(Position(view.items[i]), view.cursor)' <=> After(Position(view.items[i]), view.cursor)
    BY <1>1, <1>5, <2>1 DEF After, Before
  <2> QED  BY <1>1, <1>5, <2>1, <2>2 DEF DeliveryInv, OnceInv
<1>11. NewInv'
  BY <1>1, <1>5, <1>9 DEF DeliveryInv, NewInv
<1> QED  BY <1>1, <1>7, <1>8, <1>10, <1>11 DEF DeliveryInv


-----------------------------------------------------------------------------
(* Pages that are loaded. *)

LEMMA JoinFacts ==
  ASSUME NEW a \in Seq(ItemType), NEW b \in Seq(ItemType)
  PROVE  /\ a \o b \in Seq(ItemType)
         /\ \A i \in DOMAIN (a \o b) :
              \/ i \in DOMAIN a /\ (a \o b)[i] = a[i]
              \/ i - Len(a) \in DOMAIN b /\ (a \o b)[i] = b[i - Len(a)]
         /\ ItemIds(a) \subseteq ItemIds(a \o b) /\ ItemIds(b) \subseteq ItemIds(a \o b)
         /\ \A i \in DOMAIN a : i \in DOMAIN (a \o b) /\ (a \o b)[i] = a[i]
<1> DEFINE c == a \o b
<1>1. /\ Len(a) \in Nat /\ Len(b) \in Nat /\ DOMAIN a = 1..Len(a) /\ DOMAIN b = 1..Len(b)
  BY LenProperties
<1>2. /\ c \in Seq(ItemType) /\ Len(c) = Len(a) + Len(b)
      /\ \A i \in 1..(Len(a) + Len(b)) : c[i] = IF i <= Len(a) THEN a[i] ELSE b[i - Len(a)]
  BY ConcatProperties
<1> HIDE DEF c
<1>3. DOMAIN c = 1..(Len(a) + Len(b))
  BY <1>2, LenProperties
<1>4. \A i \in DOMAIN c : \/ i \in DOMAIN a /\ c[i] = a[i]
                          \/ i - Len(a) \in DOMAIN b /\ c[i] = b[i - Len(a)]
  BY <1>1, <1>2, <1>3
<1>8. \A i \in DOMAIN a : i \in DOMAIN c /\ c[i] = a[i]
  BY <1>1, <1>2, <1>3
<1>5. ASSUME NEW i \in DOMAIN a PROVE a[i].id \in ItemIds(c)
  BY <1>8, ItemIdsHave
<1>6. ASSUME NEW i \in DOMAIN b PROVE b[i].id \in ItemIds(c)
  <2> DEFINE k == Len(a) + i
  <2>1. k \in DOMAIN c /\ ~(k <= Len(a)) /\ k - Len(a) = i
    BY <1>1, <1>3
  <2>2. c[k] = b[i]
    BY <1>2, <1>3, <2>1
  <2> HIDE DEF k
  <2> QED  BY <2>1, <2>2, ItemIdsHave
<1>7. ItemIds(a) \subseteq ItemIds(c) /\ ItemIds(b) \subseteq ItemIds(c)
  BY <1>5, <1>6 DEF ItemIds
<1> QED  BY <1>2, <1>4, <1>7, <1>8 DEF c

LEMMA JoinBack ==
  ASSUME NEW a \in Seq(ItemType), NEW b \in Seq(ItemType)
  PROVE  \A j \in DOMAIN b : \E k \in DOMAIN (a \o b) : (a \o b)[k] = b[j]
<1> DEFINE c == a \o b
<1>1. /\ Len(a) \in Nat /\ Len(b) \in Nat /\ DOMAIN a = 1..Len(a) /\ DOMAIN b = 1..Len(b)
  BY LenProperties
<1>2. /\ c \in Seq(ItemType) /\ Len(c) = Len(a) + Len(b)
      /\ \A i \in 1..(Len(a) + Len(b)) : c[i] = IF i <= Len(a) THEN a[i] ELSE b[i - Len(a)]
  BY ConcatProperties
<1> HIDE DEF c
<1>3. DOMAIN c = 1..(Len(a) + Len(b))
  BY <1>2, LenProperties
<1>4. ASSUME NEW j \in DOMAIN b PROVE \E k \in DOMAIN c : c[k] = b[j]
  <2> DEFINE k == Len(a) + j
  <2>1. k \in DOMAIN c /\ ~(k <= Len(a)) /\ k - Len(a) = j
    BY <1>1, <1>3
  <2>2. c[k] = b[j]
    BY <1>2, <1>3, <2>1
  <2> HIDE DEF k
  <2> QED  BY <2>1, <2>2
<1> QED  BY <1>4 DEF c

\* The browser's steps leave the rows alone.
LEMMA RowsStay ==
  ASSUME RowsInv, row' = row, clock' = clock, edits' = edits, list' = list, steady' \subseteq Listed
  PROVE  RowsInv' /\ Rows' = Rows /\ \A r : Committed(r)' <=> Committed(r)
<1>1. Rows' = Rows /\ Listed' = Listed /\ \A r : Committed(r)' <=> Committed(r)
  BY DEF Rows, Listed, Committed
<1> QED  BY <1>1 DEF RowsInv

\* An item of a page is where its row is.
LEMMA PageItems ==
  ASSUME RowsInv, NEW cursor \in Nat, Readable(cursor)
  PROVE  /\ ItemsOK(Page(cursor).items) /\ Len(Page(cursor).items) <= Limit
         /\ \A i \in DOMAIN Page(cursor).items :
              /\ Page(cursor).items[i].id \in Rows
              /\ Position(Page(cursor).items[i]) = Key(Page(cursor).items[i].id)
<1> DEFINE items == Page(cursor).items
<1>1. items \in Seq(ItemType) /\ Len(items) <= Limit
  BY PageFacts
<1>2. \A i \in DOMAIN items : items[i].id \in Listed /\ items[i].updated = row[items[i].id].updated
  BY PageFacts
<1> HIDE DEF items
<1>3. \A i \in DOMAIN items : items[i].id \in Rows /\ Committed(items[i].id)
  BY <1>2, RowFacts
<1>4. \A i \in DOMAIN items : Position(items[i]) = Key(items[i].id)
  BY <1>2 DEF Position, Key
<1> QED  BY <1>1, <1>3, <1>4 DEF ItemsOK, items

LEMMA FirstStep ==
  ASSUME DeliveryInv, LoadFirst, UNCHANGED <<list, transport, client>>
  PROVE  DeliveryInv'
<1> DEFINE items == Page(None).items
           next == Page(None).next
<1>1. RowsInv /\ None \in Nat /\ Readable(None)
  BY DEF DeliveryInv, None, Readable
<1>2. /\ row' = row /\ clock' = clock /\ edits' = edits /\ list' = list /\ steady' = Listed /\ since' = clock
      /\ outbox' = outbox /\ mail' = mail /\ hub' = hub /\ stale' = stale /\ answer' = answer
      /\ view' = [items |-> items, cursor |-> next, ready |-> TRUE]
  BY DEF LoadFirst, rows, transport, client
<1>3. RowsInv' /\ Rows' = Rows /\ \A r : Committed(r)' <=> Committed(r)
  BY <1>1, <1>2, RowsStay
<1>4. /\ ItemsOK(items) /\ next \in Nat
      /\ \A i \in DOMAIN items : items[i].id \in Rows /\ Position(items[i]) = Key(items[i].id)
  BY <1>1, PageFacts, PageItems
<1>5. \A i, j \in DOMAIN items : i # j => Key(items[i].id) # Key(items[j].id)
  BY <1>1, PageFacts
<1>6. next # None => next \in 1..clock /\ \A i \in DOMAIN items : ~After(Key(items[i].id), next)
  BY <1>1, PageFacts
<1>7. \A q \in Listed : q \in ItemIds(items) \/ (next # None /\ After(Key(q), next))
  BY <1>1, PageFacts
<1> HIDE DEF items, next
<1>8. view'.items = items /\ view'.cursor = next /\ view'.ready = TRUE
      /\ view' \in [items : Seq(ItemType), cursor : Nat, ready : BOOLEAN]
  BY <1>2, <1>4 DEF ItemsOK
<1>9. ViewInv'
  <2>1. ItemsOK(view.items)'
    BY <1>3, <1>4, <1>8 DEF ItemsOK
  <2>3. AnswersOK(answer)'
    BY <1>2, <1>3, AnswersStay DEF DeliveryInv, ViewInv
  <2>2. EventsOK(outbox)' /\ EventsOK(mail)'
    BY <1>2, <1>3 DEF EventsOK, DeliveryInv, ViewInv
  <2> QED  BY <1>1, <1>2, <1>8, <2>1, <2>2, <2>3 DEF DeliveryInv, ViewInv, RowsInv, NoAnswers
<1>10. \A r \in Rows : Key(r)' = Key(r)
  BY <1>2 DEF Key
<1>11. SteadyInv'
  <2> SUFFICES ASSUME NEW r \in Listed
               PROVE  r \in ItemIds(view.items)' \/ (view'.cursor # None /\ After(Key(r), view.cursor)')
    BY <1>2 DEF SteadyInv
  <2>1. After(Key(r), view.cursor)' <=> After(Key(r), next)
    BY <1>1, <1>2, <1>8, <1>10, RowFacts DEF After, Before
  <2> QED  BY <1>7, <1>8, <2>1
<1>12. OnceInv'
  <2>1. \A i \in DOMAIN items : Position(view.items[i])' = Key(items[i].id)
    <3> TAKE i \in DOMAIN items
    <3>1. Position(items[i]) = Key(items[i].id)
      BY <1>4
    <3>2. Position(view.items[i])' = IF list'.moves THEN view'.items[i].updated ELSE row'[view'.items[i].id].created
      BY DEF Position
    <3>3. view'.items[i] = items[i] /\ list' = list /\ row' = row
      BY <1>2, <1>8
    <3> QED  BY <3>1, <3>2, <3>3 DEF Position
  <2>2. next # None => \A i \in DOMAIN items : ~After(Position(view.items[i]), view.cursor)'
    BY <1>2, <1>6, <1>8, <2>1 DEF After, Before
  <2> QED  BY <1>5, <1>8, <2>1, <2>2 DEF OnceInv
<1>13. NewInv'
  <2>1. next <= clock
    BY <1>1, <1>4, <1>6 DEF RowsInv, None
  <2>2. \A i \in DOMAIN items : row[items[i].id].created <= clock
    BY <1>1, <1>4 DEF RowsInv
  <2> QED  BY <1>2, <1>8, <2>1, <2>2 DEF NewInv
<1> QED  BY <1>3, <1>9, <1>11, <1>12, <1>13 DEF DeliveryInv


\* The next page, at the end of a list or at the front of a conversation.
LEMMA PageStep ==
  ASSUME DeliveryInv, view.ready, view.cursor # None, Readable(view.cursor),
         NEW joined,
         \/ joined = view.items \o Page(view.cursor).items
         \/ list.live /\ joined = Page(view.cursor).items \o view.items,
         view' = [view EXCEPT !.items = joined, !.cursor = Page(view.cursor).next],
         UNCHANGED <<list, rows, since, steady, transport, client>>
  PROVE  DeliveryInv'
<1> DEFINE old == view.items
           cursor == view.cursor
           items == Page(cursor).items
           next == Page(cursor).next
<1>1. RowsInv /\ KindFacts /\ cursor \in Nat /\ Readable(cursor) /\ cursor # None /\ ItemsOK(old)
  BY KindsHave DEF DeliveryInv, RowsInv, ViewInv
<1>2. /\ row' = row /\ clock' = clock /\ edits' = edits /\ list' = list /\ steady' = steady /\ since' = since
      /\ outbox' = outbox /\ mail' = mail /\ hub' = hub /\ stale' = stale /\ answer' = answer
  BY DEF rows, transport, client
<1>3. RowsInv' /\ Rows' = Rows /\ \A r : Committed(r)' <=> Committed(r)
  BY <1>1, <1>2, RowsStay DEF RowsInv
<1>4. ItemsOK(items) /\ \A i \in DOMAIN items : items[i].id \in Rows /\ Position(items[i]) = Key(items[i].id)
  BY <1>1, PageItems
<1>14. next \in Nat
  BY <1>1, PageFacts
<1>5. \A i, j \in DOMAIN items : i # j => Key(items[i].id) # Key(items[j].id)
  BY <1>1, PageFacts
<1>6. \A i \in DOMAIN items : After(Key(items[i].id), cursor)
  BY <1>1, PageFacts
<1>7. next # None => After(next, cursor) /\ \A i \in DOMAIN items : ~After(Key(items[i].id), next)
  BY <1>1, PageFacts
<1>8. ~list.sliced => \A q \in Listed : After(Key(q), cursor) => q \in ItemIds(items) \/ (next # None /\ After(Key(q), next))
  BY <1>1, PageFacts
<1>9. /\ joined \in Seq(ItemType)
      /\ \A i \in DOMAIN joined : (\E j \in DOMAIN old : joined[i] = old[j]) \/ (\E j \in DOMAIN items : joined[i] = items[j])
      /\ ItemIds(old) \subseteq ItemIds(joined) /\ ItemIds(items) \subseteq ItemIds(joined)
  <2>1. old \in Seq(ItemType) /\ items \in Seq(ItemType)
    BY <1>1, <1>4 DEF ItemsOK
  <2>2. joined = old \o items \/ joined = items \o old
    OBVIOUS
  <2> HIDE DEF old, items
  <2>3. CASE joined = old \o items
    <3>1. \A i \in DOMAIN joined : \/ i \in DOMAIN old /\ joined[i] = old[i]
                                   \/ i - Len(old) \in DOMAIN items /\ joined[i] = items[i - Len(old)]
      BY <2>1, <2>3, JoinFacts
    <3>2. joined \in Seq(ItemType) /\ ItemIds(old) \subseteq ItemIds(joined) /\ ItemIds(items) \subseteq ItemIds(joined)
      BY <2>1, <2>3, JoinFacts
    <3> QED  BY <3>1, <3>2
  <2>4. CASE joined = items \o old
    BY <2>1, <2>4, JoinFacts
  <2> QED  BY <2>2, <2>3, <2>4
<1>10. /\ view'.items = joined /\ view'.cursor = next /\ view'.ready = view.ready
       /\ view' \in [items : Seq(ItemType), cursor : Nat, ready : BOOLEAN]
  BY <1>9, <1>14 DEF DeliveryInv, ViewInv
<1>11. ViewInv'
  <2>1. ItemsOK(joined)
    BY <1>1, <1>4, <1>9 DEF ItemsOK
  <2>2. ItemsOK(view.items)'
    BY <1>3, <1>10, <2>1 DEF ItemsOK
  <2>4. AnswersOK(answer)'
    BY <1>2, <1>3, AnswersStay DEF DeliveryInv, ViewInv
  <2>3. EventsOK(outbox)' /\ EventsOK(mail)'
    BY <1>2, <1>3 DEF EventsOK, DeliveryInv, ViewInv
  <2> QED  BY <1>2, <1>10, <2>2, <2>3, <2>4 DEF DeliveryInv, ViewInv, NoAnswers
<1>12. SteadyInv'
  <2> SUFFICES ASSUME ~list.sliced, NEW r \in steady
               PROVE  r \in ItemIds(view.items)' \/ (view'.cursor # None /\ After(Key(r), view.cursor)')
    BY <1>2 DEF SteadyInv
  <2>1. After(Key(r), view.cursor)' <=> After(Key(r), next)
    BY <1>2, <1>10 DEF After, Before, Key
  <2>2. r \in ItemIds(old) \/ After(Key(r), cursor)
    BY DEF DeliveryInv, SteadyInv
  <2>3. r \in Listed
    BY <1>1 DEF RowsInv
  <2>4. ItemIds(view.items)' = ItemIds(joined)
    BY <1>10 DEF ItemIds
  <2> QED
    <3> HIDE DEF old, items, next, cursor
    <3> QED  BY <1>8, <1>9, <1>10, <2>1, <2>2, <2>3, <2>4
<1>13. NewInv'
  <2> SUFFICES ASSUME ~list.asc, ~list.moves PROVE NewInv'
    BY <1>2 DEF NewInv
  <2>1. cursor <= since /\ \A i \in DOMAIN old : row[old[i].id].created <= since
    BY DEF DeliveryInv, NewInv
  <2>5. since \in Nat
    BY DEF DeliveryInv, ViewInv
  <2>2. \A i \in DOMAIN items : row[items[i].id].created \in Nat /\ row[items[i].id].created <= since
    <3> TAKE i \in DOMAIN items
    <3>2. Key(items[i].id) = row[items[i].id].created /\ Key(items[i].id) \in Nat
      BY <1>1, <1>4, RowFacts DEF Key
    <3>3. Key(items[i].id) < cursor
      BY <1>6 DEF After, Before
    <3> HIDE DEF items, cursor
    <3> QED  BY <1>1, <2>1, <2>5, <3>2, <3>3
  <2>3. next <= since
    <3>1. CASE next = None
      BY <2>5, <3>1 DEF None
    <3>2. CASE next # None
      <4>1. next < cursor
        BY <1>7, <3>2 DEF After, Before
      <4> HIDE DEF next, cursor
      <4> QED  BY <1>1, <1>14, <2>1, <2>5, <4>1
    <3> QED  BY <3>1, <3>2
  <2>4. \A i \in DOMAIN joined : row[joined[i].id].created <= since
    BY <1>9, <2>1, <2>2
  <2> QED  BY <1>2, <1>10, <2>3, <2>4 DEF NewInv
<1>15. OnceInv'
  <2> SUFFICES ASSUME ~list.live PROVE OnceInv'
    BY <1>2 DEF OnceInv
  <2>1. joined = old \o items
    OBVIOUS
  <2>2. /\ \A i, j \in DOMAIN old : i # j => Position(old[i]) # Position(old[j])
        /\ \A i \in DOMAIN old : ~After(Position(old[i]), cursor)
    BY <1>1 DEF DeliveryInv, OnceInv
  <2>3. \A i \in DOMAIN joined : \/ i \in DOMAIN old /\ joined[i] = old[i]
                                 \/ i - Len(old) \in DOMAIN items /\ joined[i] = items[i - Len(old)]
    <3>1. old \in Seq(ItemType) /\ items \in Seq(ItemType)
      BY <1>1, <1>4 DEF ItemsOK
    <3> HIDE DEF old, items
    <3> QED  BY <2>1, <3>1, JoinFacts
  <2>4. \A i \in DOMAIN joined : i \in Nat /\ Position(joined[i]) \in Nat
    <3>1. \A x \in ItemType : Committed(x.id) => Position(x) \in Nat
      BY <1>1 DEF Position, ItemType, Committed, RowsInv
    <3>2. ItemsOK(joined)
      BY <1>1, <1>4, <1>9 DEF ItemsOK
    <3> QED  BY <3>1, <3>2 DEF ItemsOK
  <2>5. \A i, j \in DOMAIN joined : i # j => Position(joined[i]) # Position(joined[j])
    <3> SUFFICES ASSUME NEW i \in DOMAIN joined, NEW j \in DOMAIN joined, i # j
                 PROVE  Position(joined[i]) # Position(joined[j])
      OBVIOUS
    <3> DEFINE n == Len(old)
    <3> HIDE DEF old, items, cursor, next, n
    <3>0. n \in Nat
      BY <1>1 DEF ItemsOK, n
    <3>1. CASE i \in DOMAIN old /\ joined[i] = old[i] /\ j \in DOMAIN old /\ joined[j] = old[j]
      BY <2>2, <3>1
    <3>2. CASE i \in DOMAIN old /\ joined[i] = old[i] /\ j - n \in DOMAIN items /\ joined[j] = items[j - n]
      BY <1>4, <1>6, <2>2, <3>2
    <3>3. CASE i - n \in DOMAIN items /\ joined[i] = items[i - n] /\ j \in DOMAIN old /\ joined[j] = old[j]
      BY <1>4, <1>6, <2>2, <3>3
    <3>4. CASE i - n \in DOMAIN items /\ joined[i] = items[i - n] /\ j - n \in DOMAIN items /\ joined[j] = items[j - n]
      <4>1. i - n # j - n
        BY <2>4, <3>0
      <4> QED  BY <1>4, <1>5, <3>4, <4>1
    <3> QED  BY <2>3, <3>1, <3>2, <3>3, <3>4 DEF n
  <2>6. ASSUME next # None, NEW i \in DOMAIN joined PROVE ~After(Position(joined[i]), next)
    <3>1. CASE \E k \in DOMAIN old : joined[i] = old[k]
      <4>1. ~After(Position(joined[i]), cursor) /\ After(next, cursor) /\ Position(joined[i]) \in Nat
        BY <1>7, <2>2, <2>4, <2>6, <3>1
      <4> HIDE DEF cursor, next
      <4> QED  BY <1>1, <1>14, <4>1 DEF After, Before
    <3>2. CASE \E k \in DOMAIN items : joined[i] = items[k]
      BY <1>4, <1>7, <2>6, <3>2
    <3> QED  BY <1>9, <3>1, <3>2
  <2>7. \A i \in DOMAIN joined : Position(view.items[i])' = Position(joined[i])
    <3> TAKE i \in DOMAIN joined
    <3>1. Position(view.items[i])' = IF list'.moves THEN view'.items[i].updated ELSE row'[view'.items[i].id].created
      BY DEF Position
    <3>2. view'.items[i] = joined[i]
      BY <1>10
    <3> QED  BY <1>2, <3>1, <3>2 DEF Position
  <2>8. next # None => \A i \in DOMAIN joined : ~After(Position(view.items[i]), view.cursor)'
    BY <1>2, <1>10, <2>6, <2>7 DEF After, Before
  <2> QED  BY <1>10, <2>5, <2>7, <2>8 DEF OnceInv
<1> QED  BY <1>3, <1>11, <1>12, <1>13, <1>15 DEF DeliveryInv


-----------------------------------------------------------------------------
(* Events, and the answer to a resynchronisation.                          *)

LEMMA EventFacts ==
  ASSUME NEW items \in Seq(ItemType), NEW event, event.item \in ItemType
  PROVE  /\ onEvent(items, event) \in Seq(ItemType)
         /\ \A i \in DOMAIN onEvent(items, event) :
              onEvent(items, event)[i].id \in ItemIds(items) \cup {event.item.id}
         /\ ItemIds(items) \subseteq ItemIds(onEvent(items, event))
<1> DEFINE x == event.item
           after == onEvent(items, event)
<1>1. x \in ItemType /\ DOMAIN items = 1..Len(items) /\ Len(items) \in Nat
  BY LenProperties
<1>2. \A i \in DOMAIN items : items[i] \in ItemType /\ items[i].id \in ItemIds(items)
  BY <1>1, ItemIdsHave
<1> SUFFICES /\ after \in Seq(ItemType) /\ \A i \in DOMAIN after : after[i].id \in ItemIds(items) \cup {x.id}
             /\ \A i \in DOMAIN items : items[i].id \in ItemIds(after)
  BY DEF ItemIds
<1>3. CASE event.type = "deleted"
  <2> DEFINE mark(i) == IF items[i].id = x.id THEN [items[i] EXCEPT !.hidden = TRUE] ELSE items[i]
  <2>1. after = [i \in DOMAIN items |-> mark(i)]
    BY <1>3 DEF onEvent
  <2>2. \A i \in DOMAIN items : mark(i) \in ItemType /\ mark(i).id = items[i].id
    BY <1>2 DEF ItemType
  <2> HIDE DEF mark, after
  <2>3. DOMAIN after = DOMAIN items /\ \A i \in DOMAIN items : after[i] \in ItemType /\ after[i].id = items[i].id
    BY <2>1, <2>2
  <2>4. after \in Seq(ItemType)
    BY <1>1, <2>1, <2>2
  <2> QED  BY <1>2, <2>3, <2>4, ItemIdsHave
<1>4. CASE event.type # "deleted" /\ x.id \in ItemIds(items)
  <2> DEFINE same == {i \in 1..Len(items) : items[i].id = x.id}
             first == SelectInSeq(items, LAMBDA y : y.id = event.item.id)
  <2>1. after = [items EXCEPT ![first] = x]
    BY <1>4 DEF onEvent
  <2>2. PICK k \in DOMAIN items : items[k].id = x.id
    BY <1>4, ItemIdsHave
  <2>3. same # {} /\ same \subseteq Int /\ IsFiniteSet(same)
    <3>1. same # {} /\ same \subseteq Int
      BY <1>1, <2>2
    <3>2. same \in SUBSET (1..Len(items)) /\ IsFiniteSet(1..Len(items))
      BY <1>1, FS_Interval
    <3> HIDE DEF same
    <3> QED  BY ONLY <3>1, <3>2, FS_Subset
  <2>4. \E m \in same : \A i \in same : m <= i
    <3> HIDE DEF same
    <3> QED  BY ONLY <2>3, LeastMember
  <2>5. first \in same
    BY <2>3, <2>4 DEF SelectInSeq, Min
  <2>6. first \in 1..Len(items) /\ items[first].id = x.id
    BY <2>5
  <2> HIDE DEF after, first
  <2>9. /\ after \in Seq(ItemType) /\ Len(after) = Len(items)
        /\ \A i \in 1..Len(items) : after[i] = IF i = first THEN x ELSE items[i]
    BY <1>1, <2>1, <2>6, ExceptSeq
  <2>10. DOMAIN after = DOMAIN items /\ \A i \in DOMAIN items : after[i].id = items[i].id
    BY <1>1, <2>6, <2>9, LenProperties
  <2> QED  BY <1>2, <2>9, <2>10, ItemIdsHave
<1>5. CASE event.type # "deleted" /\ x.id \notin ItemIds(items)
  <2>1. after = Append(items, x)
    BY <1>5 DEF onEvent
  <2> HIDE DEF after
  <2>2. /\ after \in Seq(ItemType) /\ Len(after) = Len(items) + 1
        /\ \A i \in 1..Len(items) : after[i] = items[i]
        /\ after[Len(items) + 1] = x
    BY <1>1, <2>1, AppendProperties
  <2>3. DOMAIN after = 1..(Len(items) + 1)
    BY <2>2, LenProperties
  <2>4. \A i \in DOMAIN after : (i \in DOMAIN items /\ after[i] = items[i]) \/ after[i] = x
    BY <1>1, <2>2, <2>3
  <2>5. \A i \in DOMAIN items : i \in DOMAIN after /\ after[i] = items[i]
    BY <1>1, <2>2, <2>3
  <2> QED  BY <1>2, <2>2, <2>4, <2>5, ItemIdsHave
<1> QED  BY <1>3, <1>4, <1>5

\* Of several items of one id the first stays, and no other: no id gets lost,
\* and none is there twice.
LEMMA FirstFacts ==
  ASSUME NEW s \in Seq(ItemType)
  PROVE  /\ FirstOfEachId(s) \in Seq(ItemType)
         /\ \A i \in DOMAIN FirstOfEachId(s) : \E j \in DOMAIN s : FirstOfEachId(s)[i] = s[j]
         /\ ItemIds(s) \subseteq ItemIds(FirstOfEachId(s))
         /\ \A i, j \in DOMAIN FirstOfEachId(s) : FirstOfEachId(s)[i].id = FirstOfEachId(s)[j].id => i = j
         /\ \A k \in DOMAIN s : (\A j \in 1..(k - 1) : s[j].id # s[k].id) =>
              \E i \in DOMAIN FirstOfEachId(s) : FirstOfEachId(s)[i] = s[k]
<1> DEFINE first == {i \in DOMAIN s : \A j \in 1..(i - 1) : s[j].id # s[i].id}
           key == [i \in first |-> i]
           at == Sorted(first, key)
           kept == FirstOfEachId(s)
<1>1. DOMAIN s = 1..Len(s) /\ Len(s) \in Nat /\ \A i \in DOMAIN s : s[i] \in ItemType
  BY LenProperties
<1>2. first \subseteq DOMAIN s /\ IsFiniteSet(first)
  <2>1. first \subseteq DOMAIN s /\ IsFiniteSet(DOMAIN s)
    BY <1>1, FS_Interval
  <2> HIDE DEF first
  <2> QED  BY <2>1, FS_Subset
<1>3. \A k \in DOMAIN s : \E i \in first : s[i].id = s[k].id
  <2> TAKE k \in DOMAIN s
  <2> DEFINE same == {i \in DOMAIN s : s[i].id = s[k].id}
  <2>1. same # {} /\ same \subseteq Int /\ same \subseteq DOMAIN s
    BY <1>1
  <2>2. IsFiniteSet(same)
    <3>1. IsFiniteSet(DOMAIN s)
      BY <1>1, FS_Interval
    <3> HIDE DEF same
    <3> QED  BY <2>1, <3>1, FS_Subset
  <2> HIDE DEF same
  <2>3. PICK m \in same : \A i \in same : m <= i
    BY <2>1, <2>2, LeastMember
  <2>4. m \in DOMAIN s /\ s[m].id = s[k].id
    BY <2>3 DEF same
  <2>5. ASSUME NEW j \in 1..(m - 1), s[j].id = s[m].id PROVE FALSE
    <3>1. j \in DOMAIN s /\ j \in Int /\ m \in Int /\ j < m
      BY <1>1, <2>4
    <3>2. j \in same
      BY <2>4, <2>5, <3>1 DEF same
    <3> QED  BY <2>3, <3>1, <3>2
  <2>6. m \in first
    BY <2>4, <2>5
  <2> QED  BY <2>4, <2>6
<1>4. kept = [i \in DOMAIN at |-> s[at[i]]]
  BY DEF FirstOfEachId
<1>5. key \in [first -> Int] /\ \A i \in first : key[i] = i
  BY <1>1
<1>6. \A i, j \in first : s[i].id = s[j].id => i = j
  <2> TAKE i, j \in first
  <2> HAVE s[i].id = s[j].id
  <2>1. i \in Nat \ {0} /\ j \in Nat \ {0}
    BY <1>1
  <2>2. ~(i < j) /\ ~(j < i)
    BY <2>1
  <2> QED  BY <2>1, <2>2
<1>7. \A k \in DOMAIN s : (\A j \in 1..(k - 1) : s[j].id # s[k].id) => k \in first
  OBVIOUS
<1> HIDE DEF first, key
<1>8. \A i, j \in first : key[i] = key[j] => i = j
  BY <1>5
<1>9. at \in Seq(first) /\ Len(at) = Cardinality(first)
  BY <1>2, <1>5, <1>8, SortedFacts
<1>10. \A i \in 1..Cardinality(first) : at[i] \in first
  BY <1>2, <1>5, <1>8, SortedFacts
<1>11. \A i, j \in 1..Cardinality(first) : i < j => key[at[i]] < key[at[j]]
  BY <1>2, <1>5, <1>8, SortedFacts
<1>12. \A x \in first : \E i \in 1..Cardinality(first) : Sorted(first, key)[i] = x
  BY ONLY <1>2, <1>5, <1>8, SortedFacts
<1>13. \A x \in first : \E i \in 1..Cardinality(first) : at[i] = x
  BY <1>12
<1> HIDE DEF at, kept
<1>14. DOMAIN at = 1..Cardinality(first) /\ Cardinality(first) \in Nat
  BY <1>9, LenProperties
<1>15. \A i \in DOMAIN at : at[i] \in DOMAIN s /\ s[at[i]] \in ItemType
  BY <1>1, <1>2, <1>10, <1>14
<1>16. kept \in Seq(ItemType) /\ DOMAIN kept = DOMAIN at
  BY <1>4, <1>14, <1>15
<1>17. \A i \in DOMAIN kept : at[i] \in first /\ at[i] \in DOMAIN s /\ kept[i] = s[at[i]]
  BY <1>4, <1>10, <1>14, <1>15
<1>18. \A i, j \in DOMAIN kept : kept[i].id = kept[j].id => i = j
  <2> TAKE i, j \in DOMAIN kept
  <2> HAVE kept[i].id = kept[j].id
  <2>1. at[i] = at[j] /\ key[at[i]] \in Int
    BY <1>5, <1>6, <1>17
  <2>2. i \in Nat /\ j \in Nat /\ ~(i < j) /\ ~(j < i)
    BY <1>11, <1>14, <1>16, <2>1
  <2> QED  BY <2>2
<1>19. \A k \in first : \E i \in DOMAIN kept : kept[i] = s[k]
  <2> TAKE k \in first
  <2>1. PICK i \in DOMAIN at : at[i] = k
    BY <1>13, <1>14
  <2> QED  BY <1>16, <1>17, <2>1
<1>20. ASSUME NEW k \in DOMAIN s PROVE s[k].id \in ItemIds(kept)
  <2>1. PICK m \in first : s[m].id = s[k].id
    BY <1>3
  <2> QED  BY <1>19, <2>1, ItemIdsHave
<1>21. ItemIds(s) \subseteq ItemIds(kept)
  BY <1>20 DEF ItemIds
<1> QED  BY <1>7, <1>16, <1>17, <1>18, <1>19, <1>21 DEF kept

-----------------------------------------------------------------------------
(* Steps of the transport and of the browser that read no page.  What they *)
(* show they add to what was shown, and only a conversation shows it.      *)

LEMMA ScreenStep ==
  ASSUME DeliveryInv, UNCHANGED <<list, rows, since, steady>>,
         NEW shown, ItemsOK(shown), ItemIds(view.items) \subseteq ItemIds(shown),
         list.live \/ shown = view.items,
         view' = [view EXCEPT !.items = shown],
         AnswersOK(answer'), EventsOK(outbox'), EventsOK(mail'),
         hub' \in 0..MaxSockets,
         ~list.live => outbox' = {} /\ mail' = {} /\ NoAnswers(answer') /\ stale' = FALSE
  PROVE  DeliveryInv'
<1>1. RowsInv /\ KindFacts /\ row' = row /\ clock' = clock /\ edits' = edits /\ list' = list /\ since' = since /\ steady' = steady
  BY KindsHave DEF DeliveryInv, RowsInv, rows
<1>2. RowsInv' /\ Rows' = Rows /\ \A r : Committed(r)' <=> Committed(r)
  BY <1>1, RowsStay DEF RowsInv
<1>3. /\ view'.items = shown /\ view'.cursor = view.cursor /\ view'.ready = view.ready
      /\ view' \in [items : Seq(ItemType), cursor : Nat, ready : BOOLEAN]
  BY DEF DeliveryInv, ViewInv, ItemsOK
<1>4. ViewInv'
  <2>1. ItemsOK(view.items)'
    BY <1>2, <1>3 DEF ItemsOK
  <2>2. EventsOK(outbox)' /\ EventsOK(mail)'
    BY <1>2 DEF EventsOK
  <2>3. AnswersOK(answer)'
    BY <1>2, AnswersStay
  <2> QED  BY <1>1, <1>3, <2>1, <2>2, <2>3 DEF DeliveryInv, ViewInv, NoAnswers
<1>5. SteadyInv'
  <2> SUFFICES ASSUME view.ready, ~list.sliced, NEW r \in steady
               PROVE  r \in ItemIds(view.items)' \/ (view'.cursor # None /\ After(Key(r), view.cursor)')
    BY <1>1, <1>3 DEF SteadyInv
  <2>1. After(Key(r), view.cursor)' <=> After(Key(r), view.cursor)
    BY <1>1, <1>3 DEF After, Before, Key
  <2>2. ItemIds(view.items)' = ItemIds(shown)
    BY <1>3 DEF ItemIds
  <2> QED  BY <1>3, <2>1, <2>2 DEF DeliveryInv, SteadyInv
<1>6. OnceInv'
  <2> SUFFICES ASSUME ~list.live PROVE OnceInv'
    BY <1>1 DEF OnceInv
  <2>1. view'.items = view.items
    BY <1>3
  <2>2. \A i \in DOMAIN view.items : Position(view.items[i])' = Position(view.items[i])
    BY <1>1, <2>1 DEF Position
  <2>3. \A i \in DOMAIN view.items :
           After(Position(view.items[i]), view.cursor)' <=> After(Position(view.items[i]), view.cursor)
    BY <1>1, <1>3, <2>2 DEF After, Before
  <2> QED  BY <1>1, <1>3, <2>1, <2>2, <2>3 DEF DeliveryInv, OnceInv
<1>7. NewInv'
  <2> SUFFICES ASSUME ~list.asc PROVE NewInv'
    BY <1>1 DEF NewInv
  <2>1. view'.items = view.items
    BY <1>1, <1>3 DEF KindFacts
  <2> QED  BY <1>1, <1>3, <2>1 DEF DeliveryInv, NewInv
<1> QED  BY <1>2, <1>4, <1>5, <1>6, <1>7 DEF DeliveryInv

\* The screen stays as it is.
LEMMA QuietStep ==
  ASSUME DeliveryInv, UNCHANGED <<list, rows, reading, steady>>,
         AnswersOK(answer'), EventsOK(outbox'), EventsOK(mail'),
         hub' \in 0..MaxSockets,
         ~list.live => outbox' = {} /\ mail' = {} /\ NoAnswers(answer') /\ stale' = FALSE
  PROVE  DeliveryInv'
<1>1. ItemsOK(view.items) /\ view = [view EXCEPT !.items = view.items]
  BY DEF DeliveryInv, ViewInv
<1>2. UNCHANGED <<list, rows, since, steady>> /\ view' = [view EXCEPT !.items = view.items]
  BY <1>1 DEF reading
<1> QED  BY <1>1, <1>2, ScreenStep


\* One of the answers is taken, or is another page.
LEMMA AnswersSet ==
  ASSUME AnswersOK(answer), NEW k \in Answers, NEW page, ItemsOK(page), Len(page) <= Limit,
         answer' = [answer EXCEPT ![k] = page]
  PROVE  AnswersOK(answer')
<1>1. page \in Seq(ItemType)
  BY DEF ItemsOK
<1>2. answer' \in [Answers -> Seq(ItemType)] /\ \A j \in Answers : answer'[j] = IF j = k THEN page ELSE answer[j]
  BY <1>1 DEF AnswersOK
<1> QED  BY <1>2 DEF AnswersOK

LEMMA AnswerTaken ==
  ASSUME AnswersOK(answer), NEW k \in Answers, Received(k)
  PROVE  AnswersOK(answer') /\ (NoAnswers(answer) => NoAnswers(answer')) /\ ItemsOK(answer[k])
<1>1. answer' = [answer EXCEPT ![k] = NoAnswer]
  BY DEF Received
<1>2. ItemsOK(NoAnswer) /\ Len(NoAnswer) <= Limit
  BY LimitAssumption DEF NoAnswer, ItemsOK
<1>3. AnswersOK(answer')
  BY <1>1, <1>2, AnswersSet
<1>4. \A j \in Answers : answer'[j] = IF j = k THEN NoAnswer ELSE answer[j]
  BY <1>1 DEF AnswersOK
<1> QED  BY <1>3, <1>4 DEF AnswersOK, NoAnswers

LEMMA TransportKeeps ==
  ASSUME DeliveryInv,
         \/ \E event \in outbox : Forget(event)
         \/ \E event \in mail : Passed(event)
         \/ \E k \in Answers : LoseSync(k)
         \/ connect \/ disconnect \/ UNCHANGED vars
  PROVE  DeliveryInv'
<1>1. ViewInv /\ hub \in 0..MaxSockets /\ MaxSockets \in Nat
  BY MaxSocketsAssumption DEF DeliveryInv, ViewInv
<1>2. UNCHANGED <<list, rows, reading, steady>>
  BY DEF Forget, Passed, connect, disconnect, LoseSync, vars
<1>3. outbox' \subseteq outbox /\ mail' \subseteq mail
  BY DEF Forget, Passed, connect, disconnect, LoseSync, vars, transport, client
<1>4. answer' = answer \/ \E k \in Answers : Received(k)
  BY DEF Forget, Passed, connect, disconnect, LoseSync, vars, transport, client
<1>5. hub' \in 0..MaxSockets
  <2>1. CASE connect
    BY <1>1, <2>1 DEF connect
  <2>2. CASE disconnect
    BY <1>1, <2>2 DEF disconnect
  <2>3. CASE ~connect /\ ~disconnect
    BY <1>1, <2>3 DEF Forget, Passed, LoseSync, vars, transport
  <2> QED  BY <2>1, <2>2, <2>3
<1>6. ~list.live => stale' = stale
  BY DEF Forget, Passed, connect, disconnect, LoseSync, vars, client
<1>7. AnswersOK(answer') /\ (NoAnswers(answer) => NoAnswers(answer'))
  <2>1. CASE answer' = answer
    BY <1>1, <2>1 DEF ViewInv
  <2>2. CASE \E k \in Answers : Received(k)
    BY <1>1, <2>2, AnswerTaken DEF ViewInv
  <2> QED  BY <1>4, <2>1, <2>2
<1>9. EventsOK(outbox') /\ EventsOK(mail')
  BY <1>1, <1>3 DEF ViewInv, EventsOK
<1>10. ~list.live => outbox' = {} /\ mail' = {} /\ NoAnswers(answer') /\ stale' = FALSE
  BY <1>1, <1>3, <1>6, <1>7 DEF ViewInv
<1> QED  BY <1>2, <1>5, <1>7, <1>9, <1>10, QuietStep

LEMMA ResyncKeeps == ASSUME DeliveryInv, Resync PROVE DeliveryInv'
<1>1. ViewInv /\ RowsInv /\ None \in Nat /\ Readable(None)
  BY DEF DeliveryInv, None, Readable
<1>2. /\ UNCHANGED <<list, rows, reading, steady>> /\ outbox' = outbox /\ mail' = mail /\ hub' = hub
      /\ list.live
  BY <1>1 DEF Resync, transport, ViewInv
<1>5. PICK k \in Answers : answer' = [answer EXCEPT ![k] = Page(None).items]
  BY DEF Resync
<1>6. ItemsOK(Page(None).items) /\ Len(Page(None).items) <= Limit
  BY <1>1, PageItems
<1>3. AnswersOK(answer')
  BY <1>1, <1>5, <1>6, AnswersSet DEF ViewInv
<1>4. EventsOK(outbox') /\ EventsOK(mail') /\ hub' \in 0..MaxSockets
  BY <1>1, <1>2 DEF ViewInv
<1> QED  BY <1>2, <1>3, <1>4, QuietStep

\* An event adds its row to what is shown, and leaves the other ids alone.
LEMMA EventShown ==
  ASSUME NEW items, ItemsOK(items), NEW event, event.item \in ItemType, Committed(event.item.id)
  PROVE  ItemsOK(onEvent(items, event)) /\ ItemIds(items) \subseteq ItemIds(onEvent(items, event))
<1>1. items \in Seq(ItemType) /\ \A id \in ItemIds(items) : Committed(id)
  BY ItemIdsHave DEF ItemsOK
<1>2. onEvent(items, event) \in Seq(ItemType) /\ ItemIds(items) \subseteq ItemIds(onEvent(items, event))
  BY <1>1, EventFacts
<1>3. \A i \in DOMAIN onEvent(items, event) :
         onEvent(items, event)[i].id \in ItemIds(items) \cup {event.item.id}
  BY <1>1, EventFacts
<1> QED  BY <1>1, <1>2, <1>3 DEF ItemsOK

LEMMA PublishKeeps ==
  ASSUME DeliveryInv, NEW event \in outbox \cup mail, NEW reached \in BOOLEAN,
         publish(reached, event),
         UNCHANGED <<list, rows, since, steady, hub, client>>,
         outbox' \subseteq outbox, mail' \subseteq mail \cup {event}
  PROVE  DeliveryInv'
<1>1. ViewInv /\ list.live /\ event.item \in ItemType /\ Committed(event.item.id)
  BY DEF DeliveryInv, ViewInv, EventsOK
<1>2. ItemsOK(view.items) /\ UNCHANGED <<list, rows, since, steady>>
      /\ hub' = hub /\ stale' = stale /\ answer' = answer
  BY <1>1 DEF ViewInv, client
<1>3. /\ AnswersOK(answer') /\ hub' \in 0..MaxSockets
      /\ EventsOK(outbox') /\ EventsOK(mail')
  BY <1>1, <1>2 DEF ViewInv, EventsOK
<1>4. CASE reached
  <2> DEFINE shown == onEvent(view.items, event)
  <2>1. view' = [view EXCEPT !.items = shown]
    BY <1>4 DEF publish
  <2>2. ItemsOK(shown) /\ ItemIds(view.items) \subseteq ItemIds(shown)
    BY <1>1, <1>2, EventShown
  <2> HIDE DEF shown
  <2> QED  BY <1>1, <1>2, <1>3, <2>1, <2>2, ScreenStep
<1>5. CASE ~reached
  <2>1. UNCHANGED <<list, rows, reading, steady>>
    BY <1>2, <1>5 DEF publish, reading
  <2> QED  BY <1>1, <1>3, <2>1, QuietStep
<1> QED  BY <1>4, <1>5

LEMMA EventKeeps ==
  ASSUME DeliveryInv,
         \/ \E event \in outbox : \E own, delivered \in BOOLEAN : bridge_publish(event, own, delivered)
         \/ \E event \in mail : listen(event)
  PROVE  DeliveryInv'
<1>1. ASSUME NEW event \in outbox, NEW own \in BOOLEAN, NEW delivered \in BOOLEAN,
             bridge_publish(event, own, delivered)
      PROVE  DeliveryInv'
  <2>1. /\ publish(own, event) /\ UNCHANGED <<list, rows, since, steady, hub, client>>
        /\ outbox' \subseteq outbox /\ mail' \subseteq mail \cup {event}
    BY <1>1 DEF bridge_publish
  <2> QED  BY <2>1, PublishKeeps
<1>2. ASSUME NEW event \in mail, listen(event) PROVE DeliveryInv'
  <2>1. /\ publish(TRUE, event) /\ UNCHANGED <<list, rows, since, steady, hub, client>>
        /\ outbox' \subseteq outbox /\ mail' \subseteq mail \cup {event}
    BY <1>2 DEF listen, transport
  <2> QED  BY <2>1, PublishKeeps
<1> QED  BY <1>1, <1>2

\* The answer goes before what is shown, which loses no row to it.
LEMMA ShowSyncKeeps == ASSUME DeliveryInv, NEW k \in Answers, ShowSync(k) PROVE DeliveryInv'
<1> DEFINE page == answer[k]
           joined == page \o view.items
           shown == FirstOfEachId(joined)
<1>0. ViewInv /\ Received(k)
  BY DEF DeliveryInv, ShowSync
<1>1. ViewInv /\ list.live /\ ItemsOK(page) /\ ItemsOK(view.items)
  BY <1>0, AnswerTaken DEF ViewInv, NoAnswers, Received
<1>2. /\ view' = [view EXCEPT !.items = shown]
      /\ UNCHANGED <<list, rows, since, steady>> /\ outbox' = outbox /\ mail' = mail /\ hub' = hub
  BY DEF ShowSync, transport
<1> HIDE DEF page
<1>3. page \in Seq(ItemType) /\ view.items \in Seq(ItemType)
  BY <1>1 DEF ItemsOK
<1>4. joined \in Seq(ItemType) /\ ItemIds(view.items) \subseteq ItemIds(joined)
  BY <1>3, JoinFacts
<1>5. \A i \in DOMAIN joined : (\E j \in DOMAIN page : joined[i] = page[j])
                               \/ (\E j \in DOMAIN view.items : joined[i] = view.items[j])
  BY <1>3, JoinFacts
<1>6. \A i \in DOMAIN joined : Committed(joined[i].id)
  BY <1>1, <1>5 DEF ItemsOK
<1> HIDE DEF joined
<1>7. shown \in Seq(ItemType) /\ ItemIds(joined) \subseteq ItemIds(shown)
  BY <1>4, FirstFacts
<1>8. \A i \in DOMAIN shown : \E j \in DOMAIN joined : shown[i] = joined[j]
  BY <1>4, FirstFacts
<1> HIDE DEF shown
<1>9. ItemsOK(shown)
  BY <1>6, <1>7, <1>8 DEF ItemsOK
<1>12. AnswersOK(answer')
  BY <1>0, AnswerTaken DEF ViewInv
<1>10. EventsOK(outbox') /\ EventsOK(mail') /\ hub' \in 0..MaxSockets
  BY <1>1, <1>2 DEF ViewInv, EventsOK
<1>11. ItemIds(view.items) \subseteq ItemIds(shown)
  BY <1>4, <1>7
<1> QED  BY <1>1, <1>2, <1>9, <1>10, <1>11, <1>12, ScreenStep

LEMMA PagesKeep == ASSUME DeliveryInv, Browse \/ loadOlder PROVE DeliveryInv'
<1>1. CASE loadOlder
  <2> DEFINE joined == Page(view.cursor).items \o view.items
  <2>1. list.live /\ ~list.sliced
    BY <1>1, KindsHave DEF loadOlder, DeliveryInv, RowsInv, KindFacts
  <2>2. /\ view.ready /\ view.cursor # None /\ Readable(view.cursor)
        /\ view' = [view EXCEPT !.items = joined, !.cursor = Page(view.cursor).next]
        /\ UNCHANGED <<list, rows, since, steady, transport, client>>
    BY <1>1, <2>1 DEF loadOlder, Readable
  <2>3. list.live /\ joined = Page(view.cursor).items \o view.items
    BY <2>1
  <2> HIDE DEF joined
  <2> QED  BY <2>2, <2>3, PageStep
<1>2. CASE LoadFirst /\ UNCHANGED <<list, transport, client>>
  BY <1>2, FirstStep
<1>3. CASE LoadMore /\ UNCHANGED <<list, transport, client>>
  <2> DEFINE joined == view.items \o Page(view.cursor).items
  <2>1. /\ view.ready /\ view.cursor # None /\ Readable(view.cursor)
        /\ view' = [view EXCEPT !.items = joined, !.cursor = Page(view.cursor).next]
        /\ UNCHANGED <<list, rows, since, steady, transport, client>>
    BY <1>3 DEF LoadMore
  <2>2. joined = view.items \o Page(view.cursor).items
    OBVIOUS
  <2> HIDE DEF joined
  <2> QED  BY <2>1, <2>2, PageStep
<1> QED  BY <1>1, <1>2, <1>3 DEF Browse


-----------------------------------------------------------------------------
(* The invariant, and what follows from it.                                *)

LEMMA InitKeeps == InitDelivery => DeliveryInv
<1> SUFFICES ASSUME InitDelivery PROVE DeliveryInv
  OBVIOUS
<1>1. /\ list \in Kinds /\ row = <<>> /\ clock = 0 /\ edits = {} /\ since = 0 /\ steady = {}
      /\ view = [items |-> <<>>, cursor |-> None, ready |-> FALSE]
      /\ outbox = {} /\ hub = 0 /\ mail = {} /\ stale = FALSE /\ answer = [k \in Answers |-> <<>>]
  BY DEF InitDelivery, Init, NoAnswer
<1>2. RowsInv
  BY <1>1 DEF RowsInv, Rows
<1>3. ViewInv
  <2>1. view \in [items : Seq(ItemType), cursor : Nat, ready : BOOLEAN]
    BY <1>1 DEF None
  <2>2. ItemsOK(view.items) /\ AnswersOK(answer)
    BY <1>1, LimitAssumption DEF ItemsOK, AnswersOK
  <2> QED  BY <1>1, <2>1, <2>2, MaxSocketsAssumption DEF ViewInv, EventsOK, NoAnswer, NoAnswers
<1>4. SteadyInv /\ OnceInv /\ NewInv
  BY <1>1 DEF SteadyInv, OnceInv, NewInv, None
<1> QED  BY <1>2, <1>3, <1>4 DEF DeliveryInv

LEMMA NextKeeps == DeliveryInv /\ [Next]_vars => DeliveryInv'
<1> SUFFICES ASSUME DeliveryInv, [Next]_vars PROVE DeliveryInv'
  OBVIOUS
<1>1. CASE Change \/ Commit
  BY <1>1, RequestKeeps
<1>2. CASE \/ \E event \in outbox : Forget(event)
           \/ \E event \in mail : Passed(event)
           \/ \E k \in Answers : LoseSync(k)
           \/ connect \/ disconnect \/ UNCHANGED vars
  BY <1>2, TransportKeeps
<1>3. CASE \/ \E event \in outbox : \E own, delivered \in BOOLEAN : bridge_publish(event, own, delivered)
           \/ \E event \in mail : listen(event)
  BY <1>3, EventKeeps
<1>4. CASE Browse \/ loadOlder
  BY <1>4, PagesKeep
<1>5. CASE Resync
  BY <1>5, ResyncKeeps
<1>6. CASE \E k \in Answers : ShowSync(k)
  BY <1>6, ShowSyncKeeps
<1> QED  BY <1>1, <1>2, <1>3, <1>4, <1>5, <1>6 DEF Next

LEMMA DeliveryInvHolds == Spec => []DeliveryInv
<1>1. InitDelivery => DeliveryInv
  BY InitKeeps
<1>2. DeliveryInv /\ [Next]_vars => DeliveryInv'
  BY NextKeeps
<1> QED  BY <1>1, <1>2, PTL DEF Spec

\* Rows, sockets and the answers to resynchronisations are what the code makes
\* them: no row is updated at a time that has yet to come, a browser has no more
\* sockets than it opened, and an answer is no longer than a page.
THEOREM TypeCorrect == Spec => []TypeOK
<1>1. DeliveryInv => TypeOK
  <2> SUFFICES ASSUME DeliveryInv PROVE TypeOK
    OBVIOUS
  <2>1. RowsInv /\ ViewInv
    BY DEF DeliveryInv
  <2>2. \A r \in Rows : row[r] \in RowType
    BY <2>1, RowFacts DEF RowsInv
  <2>3. \A r \in Rows : row[r].status \in {"open", "live", "hidden", "purged", "gone"}
    BY <2>2 DEF RowType, Statuses
  <2> QED  BY <2>1, <2>3 DEF TypeOK, RowsInv, ViewInv, AnswersOK
<1> QED  BY <1>1, DeliveryInvHolds, PTL

\* A list that is read to its end has shown every row that was in it, in one
\* place, from the first page on, whatever was inserted, hidden, restored, moved
\* and rolled back meanwhile (the keyset queries of the list functions).
THEOREM SteadyRowsShown == Spec => []SteadyRowsAreShown
<1>1. DeliveryInv => SteadyRowsAreShown
  BY DEF DeliveryInv, SteadyInv, SteadyRowsAreShown
<1> QED  BY <1>1, DeliveryInvHolds, PTL

\* Pages overlap nowhere: a list that only pages fill shows a row a second time
\* only when the row has moved, with another time of its last update.
THEOREM RowsShownOnce == Spec => []NoRowTwice
<1>1. DeliveryInv => NoRowTwice
  <2> SUFFICES ASSUME DeliveryInv, ~list.live, NEW i \in DOMAIN view.items, NEW j \in DOMAIN view.items,
                      i # j, view.items[i].id = view.items[j].id
               PROVE  list.moves /\ view.items[i].updated # view.items[j].updated
    BY DEF NoRowTwice
  <2>1. Position(view.items[i]) # Position(view.items[j])
    BY DEF DeliveryInv, OnceInv
  <2> QED  BY <2>1 DEF Position
<1> QED  BY <1>1, DeliveryInvHolds, PTL

\* A row that takes its timestamp while a newest-first list is read does not get
\* into it, whatever commits, is restored or comes back meanwhile (next_cursor and
\* the WHERE clause).  Rows that took theirs before may.
THEOREM LaterRowsOut == Spec => []LaterRowsStayOut
<1>1. DeliveryInv => LaterRowsStayOut
  BY ItemIdsHave DEF DeliveryInv, NewInv, LaterRowsStayOut
<1> QED  BY <1>1, DeliveryInvHolds, PTL

\* The browser shows committed rows only: an event is made after the commit, and
\* a page reads what has committed.
THEOREM CommittedShown == Spec => []ShownIsCommitted
<1>1. DeliveryInv => ShownIsCommitted
  BY ItemIdsHave DEF DeliveryInv, ViewInv, ItemsOK, Committed, ShownIsCommitted
<1> QED  BY <1>1, DeliveryInvHolds, PTL


-----------------------------------------------------------------------------
(* Pages that are read on, and a conversation that has come to rest.       *)

\* Every page moves the cursor on, so that reading a list goes round in no circle
\* (the WHERE clause of a cursor, and encode_cursor of the last row).
THEOREM CursorAdvances ==
  Spec => [][LoadMore \/ loadOlder =>
               view'.cursor = None \/ After(view'.cursor, view.cursor)]_vars
<1>1. ASSUME DeliveryInv, LoadMore \/ loadOlder
      PROVE  view'.cursor = None \/ After(view'.cursor, view.cursor)
  <2>1. RowsInv /\ KindFacts /\ view.cursor \in Nat /\ view.cursor # None
    BY <1>1, KindsHave DEF DeliveryInv, RowsInv, ViewInv, LoadMore, loadOlder
  <2>2. Readable(view.cursor)
    BY <1>1, <2>1 DEF LoadMore, loadOlder, Readable, KindFacts
  <2>3. view'.cursor = Page(view.cursor).next
    BY <1>1 DEF LoadMore, loadOlder, DeliveryInv, ViewInv
  <2> QED  BY <2>1, <2>2, <2>3, PageFacts
<1>2. DeliveryInv => [LoadMore \/ loadOlder =>
                        view'.cursor = None \/ After(view'.cursor, view.cursor)]_vars
  BY <1>1
<1> QED  BY <1>2, DeliveryInvHolds, PTL

\* A page depends on the rows only.
LEMMA PageStays == row' = row /\ list' = list => Page(None)' = Page(None)
<1> SUFFICES ASSUME row' = row, list' = list PROVE Page(None)' = Page(None)
  OBVIOUS
<1> DEFINE f == Slice(Ordered(Listed), 0, Limit + 1)
           key == [r \in Listed |-> IF list.asc THEN Key(r) ELSE -Key(r)]
<1>1. Listed' = Listed
  BY DEF Listed, Rows
<1>2. key' = key
  BY <1>1 DEF Key
<1>3. Ordered(Listed) = Sorted(Listed, key) /\ Ordered(Listed)' = Sorted(Listed, key)'
  BY DEF Ordered
<1> HIDE DEF key
<1>4. Ordered(Listed)' = Ordered(Listed)
  BY <1>1, <1>2, <1>3 DEF Sorted
<1>5. f' = f
  BY <1>4 DEF Slice
<1>6. Found(None) = f /\ Found(None)' = f'
  BY DEF Found
<1> HIDE DEF f
<1>7. NextCursor(Found(None))' = NextCursor(Found(None))
  BY <1>5, <1>6 DEF NextCursor, Key
<1>8. [i \in DOMAIN Slice(f, 0, Limit) |-> Item(f[i])]' = [i \in DOMAIN Slice(f, 0, Limit) |-> Item(f[i])]
  BY <1>5 DEF Slice, Item
<1> QED  BY <1>5, <1>6, <1>7, <1>8 DEF Page

\* No two items of a page have one id.
LEMMA FirstPageOnce ==
  ASSUME RowsInv
  PROVE  /\ Page(None).items \in Seq(ItemType)
         /\ \A i, j \in DOMAIN Page(None).items : Page(None).items[i].id = Page(None).items[j].id => i = j
<1>1. None \in Nat /\ Readable(None)
  BY DEF None, Readable
<1>2. Page(None).items \in Seq(ItemType)
  BY <1>1, PageFacts
<1>3. \A i, j \in DOMAIN Page(None).items :
         i # j => Key(Page(None).items[i].id) # Key(Page(None).items[j].id)
  BY <1>1, PageFacts
<1> QED  BY <1>2, <1>3

\* What makes the screen agree with the table: the first page comes first, each
\* of its items is kept as it is, and nothing else of its id.
LEMMA SyncStep ==
  ASSUME DeliveryInv, NEW n \in Answers, ShowSync(n), answer[n] = Page(None).items
  PROVE  Agrees'
<1> DEFINE page == answer[n]
           s == page \o view.items
           shown == FirstOfEachId(s)
<1>1. RowsInv /\ view.items \in Seq(ItemType)
  BY DEF DeliveryInv, ViewInv
<1>2. page \in Seq(ItemType) /\ \A i, j \in DOMAIN page : page[i].id = page[j].id => i = j
  BY <1>1, FirstPageOnce
<1>3. Page(None)'.items = page /\ view'.items = shown
  BY PageStays DEF ShowSync, rows, DeliveryInv, ViewInv
<1> HIDE DEF page
<1>4. s \in Seq(ItemType) /\ \A i \in DOMAIN page : i \in DOMAIN s /\ s[i] = page[i]
  BY <1>1, <1>2, JoinFacts
<1>5. Len(page) \in Nat /\ DOMAIN page = 1..Len(page)
  BY <1>2, LenProperties
<1> HIDE DEF s
<1>6. \A i \in DOMAIN page : \A j \in 1..(i - 1) : s[j].id # s[i].id
  <2> TAKE i \in DOMAIN page
  <2> TAKE j \in 1..(i - 1)
  <2>1. j \in DOMAIN page /\ j # i
    BY <1>5
  <2> QED  BY <1>2, <1>4, <2>1
<1>7. \A i \in DOMAIN page : \E j \in DOMAIN shown : shown[j] = s[i]
  BY <1>4, <1>6, FirstFacts
<1>8. \A j, k \in DOMAIN shown : shown[j].id = shown[k].id => j = k
  BY <1>4, FirstFacts
<1> HIDE DEF shown
<1>9. \A i \in DOMAIN page :
          \E j \in DOMAIN shown :
            shown[j] = page[i] /\ \A k \in DOMAIN shown : shown[k].id = page[i].id => k = j
  BY <1>4, <1>7, <1>8
<1> QED  BY <1>3, <1>9 DEF Agrees

\* An answer to a resynchronisation that is still what the first page is puts the
\* screen in agreement with it, whatever the screen showed before: what was lost,
\* overtaken, received twice or edited, deleted and purged meanwhile, an older
\* answer that came first and a newer one that has yet to come (MessagesPage.jsx).
THEOREM SyncAgrees ==
  Spec => [][\A k \in Answers : ShowSync(k) /\ answer[k] = Page(None).items => Agrees']_vars
<1>1. DeliveryInv => [\A k \in Answers : ShowSync(k) /\ answer[k] = Page(None).items => Agrees']_vars
  BY SyncStep
<1> QED  BY <1>1, DeliveryInvHolds, PTL


-----------------------------------------------------------------------------
(* What is shown stays true while nothing happens to the rows.  It may be  *)
(* shown twice: when tombstones of the first page are purged, that page    *)
(* takes in rows from before the cursor, and loadOlder loads them again    *)
(* and removes no duplicates.                                              *)

\* Every item of the first page is shown, and nothing of its id is shown in a
\* state that it is not in.
FirstPageShown ==
  LET first == Page(None).items IN
  \A i \in DOMAIN first :
    /\ \E j \in DOMAIN view.items : view.items[j] = first[i]
    /\ \A j \in DOMAIN view.items : view.items[j].id = first[i].id => view.items[j] = first[i]

\* Nothing is on its way to the screen that is older than the first page.
Quiet ==
  outbox = {} /\ mail = {} /\ \A k \in Answers : answer[k] = NoAnswer \/ answer[k] = Page(None).items

LEMMA AgreesShown == Agrees => FirstPageShown
  BY DEF Agrees, FirstPageShown

\* The items of two pages are made of the rows alike.
LEMMA SameItem ==
  ASSUME RowsInv, NEW a \in Nat, Readable(a), NEW b \in Nat, Readable(b),
         NEW i \in DOMAIN Page(a).items, NEW j \in DOMAIN Page(b).items,
         Page(a).items[i].id = Page(b).items[j].id
  PROVE  Page(a).items[i] = Page(b).items[j]
<1>1. ASSUME NEW c \in Nat, Readable(c), NEW k \in DOMAIN Page(c).items
      PROVE  Page(c).items[k] = Item(Page(c).items[k].id)
  BY DEF Page, Item
<1> QED  BY <1>1

LEMMA OlderStep ==
  ASSUME DeliveryInv, loadOlder, FirstPageShown
  PROVE  FirstPageShown'
<1> DEFINE first == Page(None).items
           page == Page(view.cursor).items
           joined == page \o view.items
<1>1. RowsInv /\ KindFacts /\ view.items \in Seq(ItemType) /\ view.cursor \in Nat /\ None \in Nat
  BY KindsHave DEF DeliveryInv, RowsInv, ViewInv, None
<1>2. Readable(view.cursor) /\ Readable(None)
  BY <1>1 DEF loadOlder, Readable, KindFacts
<1>3. Page(None)'.items = first /\ view'.items = joined
  BY PageStays DEF loadOlder, rows, DeliveryInv, ViewInv
<1>4. page \in Seq(ItemType)
  BY <1>1, <1>2, PageFacts
<1>5. \A i \in DOMAIN first : \A n \in DOMAIN page : page[n].id = first[i].id => page[n] = first[i]
  BY <1>1, <1>2, SameItem
<1>6. \A i \in DOMAIN first :
        /\ \E j \in DOMAIN view.items : view.items[j] = first[i]
        /\ \A j \in DOMAIN view.items : view.items[j].id = first[i].id => view.items[j] = first[i]
  BY DEF FirstPageShown
<1>7. \A m \in DOMAIN joined : (\E n \in DOMAIN page : joined[m] = page[n])
                               \/ (\E n \in DOMAIN view.items : joined[m] = view.items[n])
  BY <1>1, <1>4, JoinFacts
<1>8. \A j \in DOMAIN view.items : \E m \in DOMAIN joined : joined[m] = view.items[j]
  BY <1>1, <1>4, JoinBack
<1> HIDE DEF first, page, joined
<1>9. \A i \in DOMAIN first :
        /\ \E j \in DOMAIN joined : joined[j] = first[i]
        /\ \A j \in DOMAIN joined : joined[j].id = first[i].id => joined[j] = first[i]
  BY <1>5, <1>6, <1>7, <1>8
<1> QED  BY <1>3, <1>9 DEF FirstPageShown

LEMMA ShownStep ==
  ASSUME DeliveryInv, [Next]_vars, list.live, FirstPageShown, Quiet, UNCHANGED rows
  PROVE  FirstPageShown'
<1>1. row' = row /\ RowsInv
  BY DEF rows, DeliveryInv
<1>2. ASSUME list' = list, view' = view PROVE FirstPageShown'
  <2>1. Page(None)' = Page(None)
    BY <1>1, <1>2, PageStays
  <2> QED  BY <1>2, <2>1 DEF FirstPageShown
<1>3. CASE \/ Change \/ Commit \/ connect \/ disconnect \/ Resync \/ UNCHANGED vars
           \/ \E k \in Answers : LoseSync(k)
  <2>1. list' = list /\ view' = view
    BY <1>3 DEF Change, Commit, connect, disconnect, Resync, LoseSync, vars, reading
  <2> QED  BY <1>2, <2>1
<1>4. ASSUME NEW k \in Answers, ShowSync(k) PROVE FirstPageShown'
  <2>1. answer[k] = Page(None).items
    BY <1>4 DEF Quiet, ShowSync, Received
  <2>2. Agrees'
    BY <1>4, <2>1, SyncStep
  <2> QED  BY <2>2, AgreesShown, PTL
<1>5. CASE loadOlder
  BY <1>5, OlderStep
<1>6. CASE Browse
  <2>1. view'.items = Page(None).items /\ list' = list
    BY <1>6 DEF Browse, LoadFirst, LoadMore
  <2>2. Page(None)' = Page(None)
    BY <1>1, <2>1, PageStays
  <2>3. \A i, j \in DOMAIN Page(None).items : Page(None).items[i].id = Page(None).items[j].id => i = j
    BY <1>1, FirstPageOnce
  <2> QED  BY <2>1, <2>2, <2>3 DEF FirstPageShown
<1>7. outbox = {} /\ mail = {}
  BY DEF Quiet
<1> QED  BY <1>3, <1>4, <1>5, <1>6, <1>7 DEF Next

\* Once nothing is on its way but what the first page is, no step but a change of
\* the rows takes an item of the first page off the screen or puts another state
\* of it there: reconnects, failed and repeated resynchronisations and older pages
\* do not (MessagesPage.jsx).  An older page may put it there a second time.
THEOREM AgreementStays ==
  Spec => [][list.live /\ FirstPageShown /\ Quiet /\ UNCHANGED rows => FirstPageShown']_vars
<1>1. DeliveryInv /\ [Next]_vars
        => [list.live /\ FirstPageShown /\ Quiet /\ UNCHANGED rows => FirstPageShown']_vars
  BY ShownStep
<1> QED  BY <1>1, DeliveryInvHolds, PTL DEF Spec

=============================================================================
