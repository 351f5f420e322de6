------------------------------- MODULE Delivery -------------------------------
(***************************************************************************)
(* What a browser shows of a list while the list changes: the pages that   *)
(* it loads (Lists) and, in a conversation, the events of core/realtime.py *)
(* and the resynchronisation after a reconnect.                            *)
(*                                                                         *)
(* An event goes to the sockets of one process at once and to the others   *)
(* by way of Redis Pub/Sub, where it may be late or lost.  The browser     *)
(* decrypts what it receives before it shows it, so that events and pages  *)
(* overtake each other.                                                    *)
(***************************************************************************)
EXTENDS Lists

CONSTANTS MaxSockets, \* bound: sockets of the browser that are open at once
          MaxUnderWay \* bound: events and answers that are under way at once when
                      \* another first page is asked for

ASSUME MaxSocketsAssumption == MaxSockets \in Nat /\ MaxUnderWay \in Nat

VARIABLES outbox, \* events of requests that have committed and have yet to publish
          hub,    \* how many sockets are open, each in _connections of some API process
          mail,   \* events that Redis has yet to hand to some process
          stale,  \* the browser has connected, and has yet to ask for the first page
          answer  \* answer[k]: a first page that was asked for again, on its way to
                  \* the screen, or NoAnswer

transport == <<outbox, hub, mail>>
client == <<stale, answer>>
vars == <<list, rows, reading, steady, transport, client>>

Answers == 1..MaxUnderWay
NoAnswer == <<>>

InitDelivery ==
  /\ Init
  /\ outbox = {} /\ hub = 0 /\ mail = {}
  /\ stale = FALSE /\ answer = [k \in Answers |-> NoAnswer]

-----------------------------------------------------------------------------
(* Requests.  Those of the list of messages publish an event after the     *)
(* commit, with the message as it is then.                                 *)

Event(type, r) == [type |-> type, item |-> Item(r)]
\* The step commits the change of r.
Announce(type, r) ==
  outbox' = IF list.live THEN outbox \cup {Event(type, r)'} ELSE outbox

\* A request that publishes before it commits.
SendMessage_PublishFirst(r) ==
  /\ row[r].status = "open" /\ list.live
  /\ Event("created", r) \notin outbox
  /\ outbox' = outbox \cup {Event("created", r)}
  /\ UNCHANGED rows /\ UNCHANGED steady
SendMessage(r) == CommitCreate(r) /\ Announce("created", r)
EditMessage(e) == CommitEdit(e) /\ Announce("updated", e.row)
RemoveMessage(r) == Hide(r) /\ Announce("deleted", r)

Commit ==
  /\ \/ \E r \in Rows : SendMessage(r) \/ RemoveMessage(r)
     \/ \E e \in edits : EditMessage(e)
  /\ UNCHANGED <<list, reading, hub, mail, client>>

Change ==
  /\ \/ BeginCreate
     \/ \E r \in Rows : Rollback(r) \/ BeginEdit(r) \/ Restore(r) \/ Purge(r)
     \/ \E e \in edits : RollbackEdit(e)
  /\ UNCHANGED <<list, reading, transport, client>>

\* The process dies before it publishes; a moderator who hides a message
\* publishes nothing either.
Forget(event) ==
  /\ event \in outbox
  /\ outbox' = outbox \ {event}
  /\ UNCHANGED <<list, rows, reading, steady, hub, mail, client>>

-----------------------------------------------------------------------------
(* RealtimeHub and RedisRealtimeBridge. *)

\* A deletion marks the item, if it is there; anything else is merged by id, and
\* appended if it is new (mergeUniqueMessages).
onEvent(items, event) ==
  IF event.type = "deleted"
  THEN [i \in DOMAIN items |->
          IF items[i].id = event.item.id THEN [items[i] EXCEPT !.hidden = TRUE] ELSE items[i]]
  ELSE IF event.item.id \in ItemIds(items)
  THEN LET first == SelectInSeq(items, LAMBDA x : x.id = event.item.id)
       IN [items EXCEPT ![first] = event.item]
  ELSE Append(items, event.item)

\* The event reaches sockets, and the screen.
publish(reached, event) ==
  view' = IF reached THEN [view EXCEPT !.items = onEvent(@, event)] ELSE view

\* The sockets of the own process, if there are any, get it at once; those of
\* the others by way of the channel, if Redis answers.
bridge_publish(event, own, delivered) ==
  /\ event \in outbox
  /\ own => hub > 0
  /\ publish(own, event)
  /\ mail' = IF delivered THEN mail \cup {event} ELSE mail
  /\ outbox' = outbox \ {event}
  /\ UNCHANGED <<list, rows, since, steady, hub, client>>

\* Every process listens for itself: sockets of two processes both get the
\* event, and one that moves from the one to the other may get it twice.
listen(event) ==
  /\ hub > 0 /\ event \in mail
  /\ publish(TRUE, event)
  /\ UNCHANGED <<list, rows, since, steady, transport, client>>

\* All processes have received the event, or have lost Redis or restarted and
\* missed it.
Passed(event) ==
  /\ event \in mail
  /\ mail' = mail \ {event}
  /\ UNCHANGED <<list, rows, reading, steady, outbox, hub, client>>

-----------------------------------------------------------------------------
(* The browser. *)

\* createMessagesSocket, once the first page is there: at first, after a pause,
\* and when the network comes back, whatever sockets there still are.
connect ==
  /\ list.live /\ view.ready
  /\ hub < MaxSockets
  /\ hub' = hub + 1
  /\ stale' = TRUE
  /\ UNCHANGED <<list, rows, reading, steady, outbox, mail, answer>>

\* A socket closes, or its process dies.  The hub forgets it, at the end of the
\* handler or at the next send.
disconnect ==
  /\ hub > 0
  /\ hub' = hub - 1
  /\ UNCHANGED <<list, rows, reading, steady, outbox, mail, stale, answer>>

\* loadOlder puts the next page in front.
loadOlder ==
  /\ list.live /\ view.ready /\ view.cursor # None
  /\ LET page == Page(view.cursor) IN
       view' = [view EXCEPT !.items = page.items \o @, !.cursor = page.next]
  /\ UNCHANGED <<list, rows, since, steady, transport, client>>

\* After every (re)connect the first page is fetched again.  Nothing cancels the
\* fetches before it: their answers may come in any order.
UnderWay ==
  Cardinality(outbox) + Cardinality(mail) + Cardinality({k \in Answers : answer[k] # NoAnswer})
Resync ==
  /\ stale /\ stale' = FALSE
  /\ UnderWay < MaxUnderWay
  /\ \E k \in Answers :
       /\ answer[k] = NoAnswer /\ \A j \in 1..(k - 1) : answer[j] # NoAnswer
       /\ answer' = [answer EXCEPT ![k] = Page(None).items]
  /\ UNCHANGED <<list, rows, reading, steady, transport>>

\* The first item of each id stays.
FirstOfEachId(s) ==
  LET first == {i \in DOMAIN s : \A j \in 1..(i - 1) : s[j].id # s[i].id}
      at == Sorted(first, [i \in first |-> i])
  IN [i \in DOMAIN at |-> s[at[i]]]

Received(k) == answer[k] # NoAnswer /\ answer' = [answer EXCEPT ![k] = NoAnswer]

ShowSync_KeepShown(k) ==
  /\ Received(k)
  /\ view' = [view EXCEPT !.items = FirstOfEachId(@ \o answer[k])]
  /\ UNCHANGED <<list, rows, since, steady, transport, stale>>
ShowSync(k) ==
  /\ Received(k)
  /\ view' = [view EXCEPT !.items = FirstOfEachId(answer[k] \o @)]
  /\ UNCHANGED <<list, rows, since, steady, transport, stale>>

\* The request fails, and is not repeated.
LoseSync(k) ==
  /\ Received(k)
  /\ UNCHANGED <<list, rows, reading, steady, transport, stale>>

Browse ==
  /\ \/ LoadFirst /\ (list.live => ~view.ready)
     \/ LoadMore /\ ~list.live
  /\ UNCHANGED <<list, transport, client>>

Next ==
  \/ Change \/ Commit \/ Browse
  \/ \E event \in outbox :
       Forget(event) \/ \E own, delivered \in BOOLEAN : bridge_publish(event, own, delivered)
  \/ \E event \in mail : Passed(event) \/ listen(event)
  \/ connect \/ disconnect
  \/ loadOlder \/ Resync
  \/ \E k \in Answers : ShowSync(k) \/ LoseSync(k)

\* Requests end, events that are on their way arrive or are lost, the browser
\* asks for the page that it is due, and not every answer to that is lost.
Fairness ==
  /\ WF_vars(Commit)
  /\ WF_vars(\E event \in outbox : Forget(event) \/ bridge_publish(event, FALSE, TRUE))
  /\ WF_vars(\E event \in mail : Passed(event))
  /\ WF_vars(Resync)
  /\ \A k \in Answers : SF_vars(ShowSync(k))

Spec == InitDelivery /\ [][Next]_vars /\ Fairness

-----------------------------------------------------------------------------
(* Properties. *)

TypeOK ==
  /\ list \in Kinds
  /\ \A r \in Rows : row[r].status \in {"open", "live", "hidden", "purged", "gone"} /\ row[r].updated \in 1..clock
  /\ hub \in 0..MaxSockets
  /\ \A k \in Answers : Len(answer[k]) <= Limit
  /\ steady \subseteq Listed

\* When a list is read to its end, every row that was in it from the first page
\* on, and in its place, has been shown, though rows were inserted, hidden,
\* restored and moved meanwhile.  Not so on SQLite, where comments and reports
\* are cut off (list_comments 107-109, list_reports 132-134).
SteadyRowsAreShown ==
  view.ready /\ view.cursor = None /\ ~list.sliced => steady \subseteq ItemIds(view.items)

\* No row is shown twice in a list that only pages fill, unless it has moved.
NoRowTwice ==
  ~list.live =>
    \A i, j \in DOMAIN view.items :
      i # j /\ view.items[i].id = view.items[j].id =>
        list.moves /\ view.items[i].updated # view.items[j].updated

\* A row whose timestamp is taken after the first page of a newest-first list
\* stays out of the pages that follow.  docs/pagination.md ("Consistency
\* behavior") promises more, that rows inserted after the first request wait for
\* a new one, which the code does not keep: a row that had its timestamp and has
\* committed since, a draft that has been published since and an old post that has
\* been bookmarked since do turn up, and so does any new row where the order is
\* oldest first.
LaterRowsStayOut ==
  ~list.asc /\ ~list.moves =>
    \A id \in ItemIds(view.items) : row[id].created <= since

\* Nothing is shown that has not been committed, though processes die between
\* the commit and the event.
ShownIsCommitted == \A id \in ItemIds(view.items) : row[id].status \in {"live", "hidden", "purged"}

\* If the browser reconnects again and again, it shows the first page of the
\* conversation as it is in the end, whatever was lost, late, overtaken or
\* received twice.
Agrees ==
  LET first == Page(None).items IN
  \A i \in DOMAIN first :
    \E j \in DOMAIN view.items :
      /\ view.items[j] = first[i]
      /\ \A k \in DOMAIN view.items : view.items[k].id = first[i].id => k = j

Converges == list.live /\ []<><<connect>>_vars => <>[]Agrees
=============================================================================
