------------------------------- MODULE Messaging -------------------------------
(***************************************************************************)
(* Conversations, their members and messages, blocks and devices           *)
(* (src/modules/messaging, api/messaging.py, the retention job).           *)
(*                                                                         *)
(* Nothing here takes a lock.  A request checks who may do what, and       *)
(* writes at its commit, when all that it has checked may have changed:    *)
(* only the keys of the tables and the conditions in its own SQL hold      *)
(* then.                                                                   *)
(***************************************************************************)
EXTENDS Integers, FiniteSets

CONSTANTS Users, Convs, Msgs, \* ids
          Keys, \* tells apart the devices of one user
          Txs,  \* database sessions, one per request in flight
          None  \* NULL

ASSUME NoneAssumption == None \notin Msgs

Devices == Users \X Keys
Pairs == {S \in SUBSET Users : Cardinality(S) = 2}

VARIABLES account,  \* account[u]: users.status and muted_until
          blocks,   \* user_blocks: <<blocker, blocked>>
          device,   \* device[d]: "none" yet, "active" or "revoked"
          conv,     \* conv[c]: the row of the table conversations
          role,     \* role[c][u]: "none", or the role of the member
          marker,   \* marker[c][u]: last_read_message_id of the member
          msg,      \* msg[m]: the row of the table messages
          tx,       \* tx[t]: Idle, or the position of the request and what it is about
          barred    \* history: the blocks in force, and the devices that were out of
                    \* the conversation, ever since t began a request about them

people == <<account, blocks, device>>
talk == <<conv, role, marker, msg>>
vars == <<people, talk, tx, barred>>

NoConv == [kind |-> "none"]
\* creator: created_by_id.  key: direct_key.
Conv == [kind : {"direct"}, creator : Users, key : Pairs]
          \cup [kind : {"group"}, creator : Users]
NoMsg == [status |-> "none"]
Purged == [status |-> "purged"]
Msg == [status : {"sent", "deleted"}, conv : Convs, sender : Users, envelope : SUBSET Devices]

Idle == [pc |-> "idle"]
OpenTx ==
  [pc : {"direct"}, by : Users, other : Users]
    \cup [pc : {"group"}, by : Users, others : SUBSET Users]
    \cup [pc : {"add", "remove"}, by : Users, conv : Convs, user : Users]
    \cup [pc : {"contact", "send"}, by : Users, conv : Convs, envelope : SUBSET Devices]
    \cup [pc : {"edit"}, conv : Convs, msg : Msgs, envelope : SUBSET Devices]
    \cup [pc : {"delete"}, msg : Msgs]
    \cup [pc : {"read"}, by : Users, conv : Convs, msg : Msgs]

Nothing == [blocks |-> {}, devices |-> {}]

Init ==
  /\ account = [u \in Users |-> "active"]
  /\ blocks = {}
  /\ device = [d \in Devices |-> "none"]
  /\ conv = [c \in Convs |-> NoConv]
  /\ role = [c \in Convs |-> [u \in Users |-> "none"]]
  /\ marker = [c \in Convs |-> [u \in Users |-> None]]
  /\ msg = [m \in Msgs |-> NoMsg]
  /\ tx = [t \in Txs |-> Idle]
  /\ barred = [t \in Txs |-> Nothing]

Members(c) == {u \in Users : role[c][u] # "none"}
Others(c, u) == Members(c) \ {u}
Usable(c, d) == device[d] = "active" /\ d[1] \in Members(c)

\* The conversation of a request that carries an envelope.
Addressed(r) == IF r.pc \in {"contact", "send", "edit"} THEN {r.conv} ELSE {}

Begin(t, r) ==
  /\ tx[t] = Idle
  /\ tx' = [tx EXCEPT ![t] = r]
  /\ barred' = [barred EXCEPT ![t] =
       [blocks |-> IF r.pc \in {"direct", "group", "add", "contact"} THEN blocks ELSE {},
        devices |-> {d \in Devices : \E c \in Addressed(r) : ~Usable(c, d)}]]
  /\ UNCHANGED <<people, talk>>

End(t) ==
  /\ tx' = [tx EXCEPT ![t] = Idle]
  /\ barred' = [barred EXCEPT ![t] = Nothing]

\* get_current_auth turns away whoever is banned, require_unmuted_csrf whoever is muted.
SignedIn(u) == account[u] # "banned"
Unmuted(u) == account[u] = "active"

\* assert_can_contact: the actor, the target, and a block of either by the other.
CanContact_OneWay(u, v) ==
  /\ u # v
  /\ account[u] = "active" /\ account[v] # "banned"
  /\ <<u, v>> \notin blocks
CanContact(u, v) ==
  /\ u # v
  /\ account[u] = "active" /\ account[v] # "banned"
  /\ {<<u, v>>, <<v, u>>} \cap blocks = {}

-----------------------------------------------------------------------------
(* Conversations. *)

\* _direct_key sorts the two ids.
direct_key_Unsorted(u, v) == <<u, v>>
direct_key(u, v) == {u, v}

HasDirect(u, v) ==
  \E c \in Convs : conv[c].kind = "direct" /\ conv[c].key = direct_key(u, v)

\* get_or_create_direct returns a conversation that exists, and else makes one.
get_or_create_direct(t, u, v) ==
  /\ CanContact(u, v)
  /\ ~HasDirect(u, v)
  /\ Begin(t, [pc |-> "direct", by |-> u, other |-> v])

create_group(t, u, others) ==
  /\ others # {}
  /\ \A v \in others : CanContact(u, v)
  /\ Begin(t, [pc |-> "group", by |-> u, others |-> others])

\* The rows of a conversation and of its members, and the commit.
InsertConversation(t, c, row, roles) ==
  /\ conv[c] = NoConv
  /\ conv' = [conv EXCEPT ![c] = row]
  /\ role' = [role EXCEPT ![c] = roles]
  /\ End(t)
  /\ UNCHANGED <<people, marker, msg>>

\* direct_key is unique: of two that meet here one fails, as its flush is
\* outside the try.
CommitDirect(t, c) ==
  /\ tx[t].pc = "direct"
  /\ ~HasDirect(tx[t].by, tx[t].other)
  /\ LET u == tx[t].by
         v == tx[t].other
     IN InsertConversation(t, c,
          [kind |-> "direct", creator |-> u, key |-> direct_key(u, v)],
          [x \in Users |-> IF x \in {u, v} THEN "member" ELSE "none"])

CommitGroup(t, c) ==
  /\ tx[t].pc = "group"
  /\ InsertConversation(t, c, [kind |-> "group", creator |-> tx[t].by],
       [x \in Users |-> IF x = tx[t].by THEN "admin"
                        ELSE IF x \in tx[t].others THEN "member" ELSE "none"])

\* _group_admin and the rest of add_group_member.
add_group_member(t, c, u, v) ==
  /\ SignedIn(u)
  /\ conv[c].kind = "group" /\ role[c][u] = "admin"
  /\ CanContact(u, v)
  /\ role[c][v] = "none"
  /\ Begin(t, [pc |-> "add", by |-> u, conv |-> c, user |-> v])

\* The key of conversation_members refuses a second row.
CommitAdd_UnknownRole(t) ==
  /\ tx[t].pc = "add"
  /\ role[tx[t].conv][tx[t].user] = "none"
  /\ role' = [role EXCEPT ![tx[t].conv][tx[t].user] = "owner"]
  /\ End(t)
  /\ UNCHANGED <<people, conv, marker, msg>>
CommitAdd(t) ==
  /\ tx[t].pc = "add"
  /\ role[tx[t].conv][tx[t].user] = "none"
  /\ role' = [role EXCEPT ![tx[t].conv][tx[t].user] = "member"]
  /\ tx' = [tx EXCEPT ![t] = Idle]
  /\ barred' = [s \in Txs |->
       IF s = t THEN Nothing
       ELSE [barred[s] EXCEPT !.devices =
               {d \in @ : d[1] # tx[t].user \/ tx[t].conv \notin Addressed(tx[s])}]]
  /\ UNCHANGED <<people, conv, marker, msg>>

\* An admin removes another, or a member leaves; the creator does neither.
remove_group_member_AnyoneLeaves(t, c, u, v) ==
  /\ SignedIn(u)
  /\ conv[c].kind = "group" /\ {u, v} \subseteq Members(c)
  /\ u = v \/ (role[c][u] = "admin" /\ v # conv[c].creator)
  /\ Begin(t, [pc |-> "remove", by |-> u, conv |-> c, user |-> v])
remove_group_member(t, c, u, v) ==
  /\ SignedIn(u)
  /\ conv[c].kind = "group" /\ {u, v} \subseteq Members(c)
  /\ v # conv[c].creator
  /\ u = v \/ role[c][u] = "admin"
  /\ Begin(t, [pc |-> "remove", by |-> u, conv |-> c, user |-> v])

\* The DELETE, which does not mind a row that is gone.
CommitRemove(t) ==
  /\ tx[t].pc = "remove"
  /\ role' = [role EXCEPT ![tx[t].conv][tx[t].user] = "none"]
  /\ marker' = [marker EXCEPT ![tx[t].conv][tx[t].user] = None]
  /\ End(t)
  /\ UNCHANGED <<people, conv, msg>>

-----------------------------------------------------------------------------
(* Messages. *)

\* _validate_envelope: a device of the sender is among the recipients, which
\* all are active devices of members.
validate_envelope_AnyUser(c, u, envelope) ==
  /\ \E k \in Keys : <<u, k>> \in envelope
  /\ \A d \in envelope : device[d] = "active"
validate_envelope(c, u, envelope) ==
  /\ \E k \in Keys : <<u, k>> \in envelope
  /\ \A d \in envelope : Usable(c, d)

\* create_message: the member may contact every other member ...
create_message(t, c, u, envelope) ==
  /\ Unmuted(u)
  /\ u \in Members(c)
  /\ \A v \in Others(c, u) : CanContact(u, v)
  /\ Begin(t, [pc |-> "contact", by |-> u, conv |-> c, envelope |-> envelope])

\* ... and the envelope is valid.  recipient_ids asks for a member once more.
CheckEnvelope(t) ==
  /\ tx[t].pc = "contact"
  /\ validate_envelope(tx[t].conv, tx[t].by, tx[t].envelope)
  /\ tx' = [tx EXCEPT ![t].pc = "send"]
  /\ UNCHANGED <<people, talk, barred>>

CommitMessage(t, m) ==
  /\ tx[t].pc = "send"
  /\ msg[m] = NoMsg
  /\ msg' = [msg EXCEPT ![m] = [status |-> "sent", conv |-> tx[t].conv,
                                sender |-> tx[t].by, envelope |-> tx[t].envelope]]
  /\ End(t)
  /\ UNCHANGED <<people, conv, role, marker>>

\* message_context and recipient_ids: one's own message, in a conversation that
\* one is still in with others.
Own(m, u) ==
  /\ msg[m] \notin {NoMsg, Purged} /\ msg[m].sender = u
  /\ u \in Members(msg[m].conv) /\ Others(msg[m].conv, u) # {}

\* Whom the sender may contact by now is not asked again.
update_message(t, m, u, envelope) ==
  /\ Unmuted(u)
  /\ Own(m, u) /\ msg[m].status = "sent"
  /\ validate_envelope(msg[m].conv, u, envelope)
  /\ Begin(t, [pc |-> "edit", conv |-> msg[m].conv, msg |-> m, envelope |-> envelope])

\* Only the columns that were assigned are written, if the row is still there.
CommitEdit_WholeRow(t) ==
  /\ tx[t].pc = "edit"
  /\ msg[tx[t].msg] # Purged
  /\ msg' = [msg EXCEPT ![tx[t].msg].envelope = tx[t].envelope,
                        ![tx[t].msg].status = "sent"]
  /\ End(t)
  /\ UNCHANGED <<people, conv, role, marker>>
CommitEdit(t) ==
  /\ tx[t].pc = "edit"
  /\ msg[tx[t].msg] # Purged
  /\ msg' = [msg EXCEPT ![tx[t].msg].envelope = tx[t].envelope]
  /\ End(t)
  /\ UNCHANGED <<people, conv, role, marker>>

\* remove_message looks the message up, as an edit does.
remove_message(t, m, u) ==
  /\ Unmuted(u)
  /\ Own(m, u)
  /\ Begin(t, [pc |-> "delete", msg |-> m])

MarkDeleted(m) ==
  /\ msg[m].status = "sent"
  /\ msg' = [msg EXCEPT ![m].status = "deleted"]
  /\ UNCHANGED <<people, conv, role, marker>>

\* One UPDATE with its conditions, which ask for the sender and not for the member.
delete_message(t) ==
  /\ tx[t].pc = "delete"
  /\ MarkDeleted(tx[t].msg)
  /\ End(t)

\* The staff's.
hide_message(m) ==
  /\ MarkDeleted(m)
  /\ UNCHANGED <<tx, barred>>

\* The retention job deletes rows; markers that name them become NULL.
purge_deleted_messages_KeepMarkers(batch) ==
  /\ batch # {}
  /\ \A m \in batch : msg[m].status = "deleted"
  /\ msg' = [m \in Msgs |-> IF m \in batch THEN Purged ELSE msg[m]]
  /\ UNCHANGED <<people, conv, role, marker, tx, barred>>
purge_deleted_messages(batch) ==
  /\ batch # {}
  /\ \A m \in batch : msg[m].status = "deleted"
  /\ msg' = [m \in Msgs |-> IF m \in batch THEN Purged ELSE msg[m]]
  /\ marker' = [c \in Convs |-> [u \in Users |->
                  IF marker[c][u] \in batch THEN None ELSE marker[c][u]]]
  /\ UNCHANGED <<people, conv, role, tx, barred>>

\* mark_read, of any message of the conversation, an earlier or a deleted one too.
mark_read(t, c, u, m) ==
  /\ SignedIn(u)
  /\ u \in Members(c)
  /\ msg[m] \notin {NoMsg, Purged} /\ msg[m].conv = c
  /\ Begin(t, [pc |-> "read", by |-> u, conv |-> c, msg |-> m])

\* The UPDATE wants the member's row, its foreign key the message's.
CommitRead(t) ==
  LET r == tx[t] IN
  /\ r.pc = "read"
  /\ r.by \in Members(r.conv) /\ msg[r.msg] # Purged
  /\ marker' = [marker EXCEPT ![r.conv][r.by] = r.msg]
  /\ End(t)
  /\ UNCHANGED <<people, conv, role, msg>>

-----------------------------------------------------------------------------
(* Blocks, devices and accounts. *)

block_user(u, v) ==
  /\ SignedIn(u) /\ u # v
  /\ blocks' = blocks \cup {<<u, v>>}
  /\ UNCHANGED <<account, device, talk, tx, barred>>

unblock_user(u, v) ==
  /\ SignedIn(u) /\ <<u, v>> \in blocks
  /\ blocks' = blocks \ {<<u, v>>}
  /\ barred' = [t \in Txs |-> [barred[t] EXCEPT !.blocks = @ \ {<<u, v>>}]]
  /\ UNCHANGED <<account, device, talk, tx>>

register_device(d) ==
  /\ SignedIn(d[1]) /\ device[d] = "none"
  /\ device' = [device EXCEPT ![d] = "active"]
  /\ barred' = [t \in Txs |-> [barred[t] EXCEPT !.devices = @ \ {d}]]
  /\ UNCHANGED <<account, blocks, talk, tx>>

revoke_device(d) ==
  /\ SignedIn(d[1]) /\ device[d] = "active"
  /\ device' = [device EXCEPT ![d] = "revoked"]
  /\ UNCHANGED <<account, blocks, talk, tx, barred>>

\* moderate_user and delete_user.
moderate_user(u, status) ==
  /\ account[u] # status
  /\ account' = [account EXCEPT ![u] = status]
  /\ UNCHANGED <<blocks, device, talk, tx, barred>>

\* A request fails: on a key, a row that is gone, or with its process.
Rollback(t) ==
  /\ tx[t] # Idle
  /\ End(t)
  /\ UNCHANGED <<people, talk>>

Arrive(t) ==
  \E u \in Users :
    \/ \E v \in Users : get_or_create_direct(t, u, v)
    \/ \E others \in SUBSET Users : create_group(t, u, others)
    \/ \E c \in Convs, v \in Users : add_group_member(t, c, u, v) \/ remove_group_member(t, c, u, v)
    \/ \E c \in Convs, envelope \in SUBSET Devices : create_message(t, c, u, envelope)
    \/ \E m \in Msgs, envelope \in SUBSET Devices : update_message(t, m, u, envelope)
    \/ \E m \in Msgs : remove_message(t, m, u)
    \/ \E c \in Convs, m \in Msgs : mark_read(t, c, u, m)

Finish(t) ==
  \/ \E c \in Convs : CommitDirect(t, c) \/ CommitGroup(t, c)
  \/ CommitAdd(t) \/ CommitRemove(t)
  \/ CheckEnvelope(t) \/ \E m \in Msgs : CommitMessage(t, m)
  \/ CommitEdit(t) \/ delete_message(t) \/ CommitRead(t)
  \/ Rollback(t)

Next ==
  \/ \E t \in Txs : Arrive(t) \/ Finish(t)
  \/ \E m \in Msgs : hide_message(m)
  \/ \E batch \in SUBSET Msgs : purge_deleted_messages(batch)
  \/ \E u, v \in Users : block_user(u, v) \/ unblock_user(u, v)
  \/ \E d \in Devices : register_device(d) \/ revoke_device(d)
  \/ \E u \in Users, status \in {"active", "muted", "banned"} : moderate_user(u, status)

Spec == Init /\ [][Next]_vars

-----------------------------------------------------------------------------
(* Properties. *)

TypeOK ==
  /\ account \in [Users -> {"active", "muted", "banned"}]
  /\ blocks \subseteq Users \X Users
  /\ device \in [Devices -> {"none", "active", "revoked"}]
  /\ conv \in [Convs -> Conv \cup {NoConv}]
  /\ role \in [Convs -> [Users -> {"none", "member", "admin"}]]
  /\ marker \in [Convs -> [Users -> Msgs \cup {None}]]
  /\ msg \in [Msgs -> Msg \cup {NoMsg, Purged}]
  /\ tx \in [Txs -> OpenTx \cup {Idle}]
  /\ barred \in [Txs -> [blocks : SUBSET (Users \X Users), devices : SUBSET Devices]]

\* Two users share at most one direct conversation, whoever opens it and however
\* often at once, and it is theirs alone for good (get_or_create_direct, the
\* group operations, which refuse it).
OneDirectPerPair ==
  \A c \in Convs : conv[c].kind = "direct" =>
    /\ Cardinality(Members(c)) = 2
    /\ \A d \in Convs \ {c} : conv[d].kind = "direct" => Members(d) # Members(c)

\* A group never loses the one who can manage it: its creator stays a member and
\* the admin, through removals and departures that overlap.
GroupKeepsAdmin ==
  \A c \in Convs : conv[c].kind = "group" => role[c][conv[c].creator] = "admin"

\* A read marker names a message that exists, of the member's own conversation,
\* whatever is purged and whoever is removed while the request is in flight.
MarkerNamesMessage ==
  \A c \in Convs, u \in Users :
    marker[c][u] # None =>
      /\ u \in Members(c)
      /\ msg[marker[c][u]] \notin {NoMsg, Purged}
      /\ msg[marker[c][u]].conv = c

\* A message that is deleted stays so until it is purged, and that is the end: an
\* edit that was in flight brings nothing back.
DeletedStaysDeleted ==
  [][\A m \in Msgs :
       /\ msg[m].status = "deleted" => msg'[m].status \in {"deleted", "purged"}
       /\ msg[m] = Purged => msg'[m] = Purged
       /\ msg[m].status = "sent" => msg'[m] # Purged]_vars

\* A request makes no contact over a block that was there before it began and
\* still is: no conversation of the two, and no message in one of just them.
BlocksHold ==
  [][\A t \in Txs, c \in Convs : \A p \in barred[t].blocks :
       tx[t] # Idle /\ tx'[t] = Idle =>
         LET both == {p[1], p[2]} IN
         /\ conv[c] = NoConv /\ conv'[c] # NoConv /\ conv'[c].creator \in both =>
              \E u \in both : role'[c][u] = "none"
         /\ conv[c].kind = "direct" /\ Members(c) = both =>
              \A m \in Msgs : msg[m] = NoMsg => msg'[m] = NoMsg \/ msg'[m].conv # c
         /\ tx[t].pc = "add" /\ {tx[t].by, tx[t].user} = both => role' = role]_vars

\* No message is encrypted for a device that was revoked, or whose owner was out
\* of the conversation, before the request began and ever since; edits of earlier
\* messages included.
KeysStayInside ==
  [][\A t \in Txs, m \in Msgs :
       tx[t] # Idle /\ tx'[t] = Idle /\ msg'[m] # msg[m] =>
         msg'[m].envelope \cap barred[t].devices = {}]_vars
=============================================================================
