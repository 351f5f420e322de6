-------------------------------- MODULE Lists --------------------------------
(***************************************************************************)
(* The lists of the API and their cursors: posts, drafts, bookmarks,       *)
(* comments, reports, moderation actions, conversations and messages.      *)
(*                                                                         *)
(* Every list is read page by page.  A page holds the first rows, in the   *)
(* order of a timestamp and the id, that come after the cursor, which is   *)
(* the last row of the page before.  A row takes its timestamp before it   *)
(* commits, so that rows may appear behind a cursor that has passed them.  *)
(***************************************************************************)
EXTENDS Integers, Sequences, FiniteSets, SequencesExt

CONSTANTS Limit,    \* rows of a page
          MaxClock, \* bound: timestamps that are taken
          MaxEvents \* the same for the list of messages

ASSUME LimitAssumption == Limit \in Nat \ {0}
ASSUME MaxClockAssumption == MaxClock \in Nat /\ MaxEvents \in Nat

VARIABLES list,  \* the list that is looked at, one of Kinds, for good
          row,   \* row[r]: its status, the time it was made and last updated
          clock, \* the last timestamp
          edits, \* updates that have yet to commit
          view,  \* what the browser shows: items, cursor and whether it has loaded
          since, \* history: the time of the first page
          steady \* history: rows that have been in the list, in one place, ever since

rows == <<row, clock, edits>>
reading == <<view, since>>

\* asc: oldest first.  moves: sorted by updated_at, not created_at.  shows: the
\* rows that belong to it.  ops: what happens to its rows.  sliced: the page is
\* cut out of all rows in Python, as on SQLite.  live: the browser gets events.
Newest(ops) == [asc |-> FALSE, moves |-> FALSE, shows |-> {"live"}, ops |-> ops,
                sliced |-> FALSE, live |-> FALSE]
Oldest(ops) == [Newest(ops) EXCEPT !.asc = TRUE]

list_posts(sort) == IF sort = "newest" THEN Newest({"hide", "restore"})
                    ELSE Oldest({"hide", "restore"})
list_bookmarks == Newest({"hide", "restore"})
list_user_comments == Newest({"hide", "restore"})
list_actions == Newest({})
\* A draft leaves by publication or deletion and comes back by a rejection; a
\* conversation, by leaving, removal and a new invitation.
list_drafts == [Oldest({"edit", "hide", "restore"}) EXCEPT !.moves = TRUE]
list_conversations == [Newest({"edit", "hide", "restore"}) EXCEPT !.moves = TRUE]
\* Deleted comments and messages keep their place.
list_comments(backend) ==
  [Oldest({"hide", "restore"}) EXCEPT !.shows = {"live", "hidden"}, !.sliced = (backend = "sqlite")]
list_reports(backend) == [Oldest({"hide"}) EXCEPT !.sliced = (backend = "sqlite")]
list_messages ==
  [Oldest({"edit", "hide", "purge"}) EXCEPT !.shows = {"live", "hidden"}, !.live = TRUE]

Backends == {"postgresql", "sqlite"}
Kinds ==
  {list_posts("newest"), list_posts("oldest"), list_bookmarks, list_user_comments, list_actions,
   list_drafts, list_conversations, list_messages}
    \cup {list_comments(b) : b \in Backends} \cup {list_reports(b) : b \in Backends}

None == 0
Rows == DOMAIN row
\* An item of a page, of an event and of the browser.
Item(r) == [id |-> r, hidden |-> row[r].status = "hidden", updated |-> row[r].updated]

Init ==
  /\ list \in Kinds
  /\ row = <<>>
  /\ clock = 0
  /\ edits = {}
  /\ view = [items |-> <<>>, cursor |-> None, ready |-> FALSE]
  /\ since = 0
  /\ steady = {}

-----------------------------------------------------------------------------
(* Pages. *)

Listed == {r \in Rows : row[r].status \in list.shows}
Key(r) == IF list.moves THEN row[r].updated ELSE row[r].created

\* The ORDER BY, and the WHERE clause of a cursor.
Before(a, b) == IF list.asc THEN a < b ELSE a > b
After_OrAt(at, cursor) == ~Before(at, cursor)
After_Ascending(at, cursor) == at > cursor
After(at, cursor) == Before(cursor, at)

\* The members of S, the one with the least key first.
Sorted(S, key) ==
  [i \in 1..Cardinality(S) |-> CHOOSE x \in S : Cardinality({y \in S : key[y] < key[x]}) = i - 1]
Ordered(S) == Sorted(S, [r \in S |-> IF list.asc THEN Key(r) ELSE -Key(r)])

\* The slice [a : b] of Python, where rows count from 0.
Slice_ClosedEnd(s, a, b) == SubSeq(s, a + 1, IF b < Len(s) THEN b + 1 ELSE Len(s))
Slice(s, a, b) == SubSeq(s, a + 1, IF b < Len(s) THEN b ELSE Len(s))

\* The rows that are read, one more than the page holds.  The end of the slice
\* does not depend on the cursor.
Found(cursor) ==
  IF cursor = None THEN Slice(Ordered(Listed), 0, Limit + 1)
  ELSE IF ~list.sliced
  THEN Slice(Ordered({r \in Listed : After(Key(r), cursor)}), 0, Limit + 1)
  ELSE LET all == Ordered(Listed)
           index == CHOOSE i \in 1..Len(all) : Key(all[i]) = cursor
       IN Slice(all, index, Limit + 2)

\* On SQLite a cursor whose row has left the list is refused.
Readable(cursor) == list.sliced /\ cursor # None => \E r \in Listed : Key(r) = cursor

\* next_cursor names the last row of the page, if there is a row after it.
NextCursor_OfNextPage(found) == IF Len(found) > Limit THEN Key(found[Limit + 1]) ELSE None
NextCursor(found) == IF Len(found) > Limit THEN Key(found[Limit]) ELSE None

Page(cursor) ==
  LET found == Found(cursor) IN
  [next |-> NextCursor(found),
   items |-> [i \in DOMAIN Slice(found, 0, Limit) |-> Item(found[i])]]

-----------------------------------------------------------------------------
(* Requests that change rows. *)

MayTakeTime == clock < IF list.live THEN MaxEvents ELSE MaxClock
Settled(newRow) ==
  {r \in steady : newRow[r].status \in list.shows
                  /\ (list.moves => newRow[r].updated = row[r].updated)}

\* A row takes its timestamp, and later commits, or does not.
BeginCreate ==
  /\ MayTakeTime
  /\ clock' = clock + 1
  /\ row' = Append(row, [status |-> "open", created |-> clock', updated |-> clock'])
  /\ UNCHANGED <<edits, steady>>
CommitCreate(r) ==
  /\ row[r].status = "open"
  /\ row' = [row EXCEPT ![r].status = "live"]
  /\ UNCHANGED <<clock, edits, steady>>
Rollback(r) ==
  /\ row[r].status = "open"
  /\ row' = [row EXCEPT ![r].status = "gone"]
  /\ UNCHANGED <<clock, edits, steady>>

\* The same for an update: of a draft, of a message, or of a conversation that
\* gets a message.  A row that comes back with a new updated_at, as a rejected
\* post does, is updated while it is out of the list.
BeginEdit(r) ==
  /\ "edit" \in list.ops /\ MayTakeTime
  /\ row[r].status = "live" \/ (row[r].status = "hidden" /\ "restore" \in list.ops)
  /\ clock' = clock + 1
  /\ edits' = edits \cup {[row |-> r, at |-> clock']}
  /\ UNCHANGED <<row, steady>>
\* The UPDATE of a row that is purged finds nothing, and the request fails.
CommitEdit(e) ==
  /\ e \in edits /\ row[e.row].status # "purged"
  /\ row' = [row EXCEPT ![e.row].updated = e.at]
  /\ edits' = edits \ {e}
  /\ steady' = Settled(row')
  /\ UNCHANGED clock
RollbackEdit(e) ==
  /\ e \in edits
  /\ edits' = edits \ {e}
  /\ UNCHANGED <<row, clock, steady>>

\* A row leaves the list, or is marked deleted: a deletion, a publication, a
\* resolution, a hidden post.
Hide(r) ==
  /\ "hide" \in list.ops
  /\ row[r].status = "live"
  /\ row' = [row EXCEPT ![r].status = "hidden"]
  /\ steady' = Settled(row')
  /\ UNCHANGED <<clock, edits>>
Restore(r) ==
  /\ "restore" \in list.ops
  /\ row[r].status = "hidden"
  /\ row' = [row EXCEPT ![r].status = "live"]
  /\ UNCHANGED <<clock, edits, steady>>

\* Retention: a row that is marked deleted goes for good.
Purge(r) ==
  /\ "purge" \in list.ops
  /\ row[r].status = "hidden"
  /\ row' = [row EXCEPT ![r].status = "purged"]
  /\ steady' = Settled(row')
  /\ UNCHANGED <<clock, edits>>

-----------------------------------------------------------------------------
(* The browser. *)

ItemIds(items) == {items[i].id : i \in DOMAIN items}

\* The first page; the browser may come back to a list at any time.
LoadFirst ==
  /\ view' = [items |-> Page(None).items, cursor |-> Page(None).next, ready |-> TRUE]
  /\ since' = clock
  /\ steady' = Listed
  /\ UNCHANGED rows

\* The next page, at the end.
LoadMore ==
  /\ view.ready /\ view.cursor # None
  /\ Readable(view.cursor)
  /\ LET page == Page(view.cursor) IN
       view' = [view EXCEPT !.items = @ \o page.items, !.cursor = page.next]
  /\ UNCHANGED <<rows, since, steady>>
=============================================================================
