--------------------------- MODULE MessagingProofs ---------------------------
(***************************************************************************)
(* Proofs about Messaging, for any number of users, devices,               *)
(* conversations, messages and sessions.                                   *)
(*                                                                         *)
(* A request checks first and writes later, without a lock, so the         *)
(* inductive invariant says which of its checks still hold at the commit:  *)
(* those about a conversation and about the author of a message, which     *)
(* never change; and those about blocks and devices, of what has been in   *)
(* force ever since (barred).                                              *)
(***************************************************************************)
EXTENDS Messaging, FiniteSetTheorems, TLAPS

\* Only conversations that exist have members, and messages.
MembersOfRows ==
  /\ \A c \in Convs, u \in Users : u \in Members(c) => conv[c] # NoConv
  /\ \A m \in Msgs : msg[m] \notin {NoMsg, Purged} => conv[msg[m].conv] # NoConv

\* A direct conversation has the members of its key, and no other has that key.
DirectByKey ==
  \A c \in Convs : conv[c].kind = "direct" =>
    /\ Members(c) = conv[c].key
    /\ \A d \in Convs \ {c} : conv[d].kind = "direct" => conv[d].key # conv[c].key

\* Members are added to and removed from groups, the creator never.
GroupRequest(t) ==
  tx[t].pc \in {"add", "remove"} =>
    /\ conv[tx[t].conv].kind = "group"
    /\ tx[t].pc = "remove" => tx[t].user # conv[tx[t].conv].creator

\* A request about a message is about the conversation that the message is in.
MessageRequest(t) ==
  /\ tx[t].pc \in {"contact", "send", "edit"} => conv[tx[t].conv] # NoConv
  /\ tx[t].pc \in {"edit", "read"} =>
       /\ msg[tx[t].msg] # NoMsg
       /\ msg[tx[t].msg] # Purged => msg[tx[t].msg].conv = tx[t].conv

\* barred holds no more than is so now.
BarredNow(t) ==
  /\ barred[t].blocks \subseteq blocks
  /\ tx[t].pc \in {"contact", "send", "edit"} =>
       \A d \in barred[t].devices : ~Usable(tx[t].conv, d)

\* What the checks of a request have found out about blocks.
Unblocked(t, u, v) == u # v /\ <<u, v>> \notin barred[t].blocks /\ <<v, u>> \notin barred[t].blocks

ContactsChecked(t) ==
  /\ tx[t].pc = "direct" => Unblocked(t, tx[t].by, tx[t].other)
  /\ tx[t].pc = "group" => \A v \in tx[t].others : Unblocked(t, tx[t].by, v)
  /\ tx[t].pc = "add" => Unblocked(t, tx[t].by, tx[t].user)
  /\ tx[t].pc \in {"contact", "send"} /\ conv[tx[t].conv].kind = "direct" =>
       /\ tx[t].by \in conv[tx[t].conv].key
       /\ \A v \in conv[tx[t].conv].key : v # tx[t].by => Unblocked(t, tx[t].by, v)

\* And about devices.
EnvelopeChecked(t) ==
  /\ tx[t].pc \in {"send", "edit"} => tx[t].envelope \cap barred[t].devices = {}
  /\ tx[t].pc = "delete" => barred[t].devices = {}

Sound(t) ==
  /\ GroupRequest(t) /\ MessageRequest(t) /\ BarredNow(t)
  /\ ContactsChecked(t) /\ EnvelopeChecked(t)

IInv ==
  /\ TypeOK /\ MembersOfRows /\ DirectByKey /\ GroupKeepsAdmin /\ MarkerNamesMessage
  /\ \A p \in blocks : p[1] # p[2]
  /\ \A t \in Txs : Sound(t)

-----------------------------------------------------------------------------
(* Types. *)

LEMMA InitType == Init => TypeOK
BY NoneAssumption DEF Init, TypeOK, Nothing, Idle

LEMMA OpenCases ==
  ASSUME TypeOK, NEW t \in Txs
  PROVE /\ tx[t].pc \in {"direct", "group", "add", "remove", "contact", "send", "read"} => tx[t].by \in Users
        /\ tx[t].pc = "direct" => tx[t].other \in Users
        /\ tx[t].pc = "group" => tx[t].others \in SUBSET Users
        /\ tx[t].pc \in {"add", "remove", "contact", "send", "edit", "read"} => tx[t].conv \in Convs
        /\ tx[t].pc \in {"add", "remove"} => tx[t].user \in Users
        /\ tx[t].pc \in {"contact", "send", "edit"} => tx[t].envelope \in SUBSET Devices
        /\ tx[t].pc \in {"edit", "delete", "read"} => tx[t].msg \in Msgs
<1>1. tx[t] \in OpenTx \cup {Idle}
  BY DEF TypeOK
<1> QED  BY <1>1 DEF OpenTx, Idle

LEMMA RowCases ==
  ASSUME TypeOK
  PROVE /\ \A c \in Convs : conv[c] # NoConv =>
             /\ conv[c].creator \in Users
             /\ conv[c].kind \in {"direct", "group"}
             /\ conv[c].kind = "direct" => conv[c].key \in Pairs
        /\ \A c \in Convs : conv[c] = NoConv <=> conv[c].kind \notin {"direct", "group"}
        /\ \A m \in Msgs : msg[m] \notin {NoMsg, Purged} =>
             /\ msg[m].conv \in Convs /\ msg[m].sender \in Users
             /\ msg[m].status \in {"sent", "deleted"}
             /\ msg[m] \in Msg
<1>1. \A c \in Convs : conv[c] \in Conv \cup {NoConv}
  BY DEF TypeOK
<1>2. \A m \in Msgs : msg[m] \in Msg \cup {NoMsg, Purged}
  BY DEF TypeOK
<1> QED  BY <1>1, <1>2 DEF Conv, NoConv, Msg

LEMMA BeginType ==
  ASSUME TypeOK, NEW t \in Txs, NEW r \in OpenTx, Begin(t, r)
  PROVE TypeOK'
<1>1. tx' \in [Txs -> OpenTx \cup {Idle}]
  BY DEF Begin, TypeOK
<1>2. barred' \in [Txs -> [blocks : SUBSET (Users \X Users), devices : SUBSET Devices]]
  BY DEF Begin, TypeOK
<1> QED  BY <1>1, <1>2 DEF Begin, TypeOK, people, talk

\* The rest of TypeOK is about the tables.
LEMMA EndType ==
  ASSUME TypeOK, NEW t \in Txs, End(t)
  PROVE /\ tx' \in [Txs -> OpenTx \cup {Idle}]
        /\ barred' \in [Txs -> [blocks : SUBSET (Users \X Users), devices : SUBSET Devices]]
BY DEF End, TypeOK, Nothing

\* A request that arrives only begins.
LEMMA ArriveBegins ==
  ASSUME NEW t, Arrive(t) PROVE \E r : Begin(t, r)
BY Zenon DEF Arrive, get_or_create_direct, create_group, add_group_member, remove_group_member,
  create_message, update_message, remove_message, mark_read

LEMMA ArriveType ==
  ASSUME TypeOK, NEW t \in Txs, Arrive(t) PROVE TypeOK'
<1> PICK u \in Users :
      \/ \E v \in Users : get_or_create_direct(t, u, v)
      \/ \E others \in SUBSET Users : create_group(t, u, others)
      \/ \E c \in Convs, v \in Users : add_group_member(t, c, u, v) \/ remove_group_member(t, c, u, v)
      \/ \E c \in Convs, envelope \in SUBSET Devices : create_message(t, c, u, envelope)
      \/ \E m \in Msgs, envelope \in SUBSET Devices : update_message(t, m, u, envelope)
      \/ \E m \in Msgs : remove_message(t, m, u)
      \/ \E c \in Convs, m \in Msgs : mark_read(t, c, u, m)
  BY DEF Arrive
<1>1. ASSUME NEW v \in Users, get_or_create_direct(t, u, v) PROVE TypeOK'
  <2>1. [pc |-> "direct", by |-> u, other |-> v] \in OpenTx
    BY DEF OpenTx
  <2> QED  BY <1>1, <2>1, BeginType DEF get_or_create_direct
<1>2. ASSUME NEW others \in SUBSET Users, create_group(t, u, others) PROVE TypeOK'
  <2>1. [pc |-> "group", by |-> u, others |-> others] \in OpenTx
    BY DEF OpenTx
  <2> QED  BY <1>2, <2>1, BeginType DEF create_group
<1>3. ASSUME NEW c \in Convs, NEW v \in Users, add_group_member(t, c, u, v) PROVE TypeOK'
  <2>1. [pc |-> "add", by |-> u, conv |-> c, user |-> v] \in OpenTx
    BY DEF OpenTx
  <2> QED  BY <1>3, <2>1, BeginType DEF add_group_member
<1>4. ASSUME NEW c \in Convs, NEW v \in Users, remove_group_member(t, c, u, v) PROVE TypeOK'
  <2>1. [pc |-> "remove", by |-> u, conv |-> c, user |-> v] \in OpenTx
    BY DEF OpenTx
  <2> QED  BY <1>4, <2>1, BeginType DEF remove_group_member
<1>5. ASSUME NEW c \in Convs, NEW envelope \in SUBSET Devices, create_message(t, c, u, envelope) PROVE TypeOK'
  <2>1. [pc |-> "contact", by |-> u, conv |-> c, envelope |-> envelope] \in OpenTx
    BY DEF OpenTx
  <2> QED  BY <1>5, <2>1, BeginType DEF create_message
<1>6. ASSUME NEW m \in Msgs, NEW envelope \in SUBSET Devices, update_message(t, m, u, envelope) PROVE TypeOK'
  <2>1. msg[m].conv \in Convs
    BY <1>6, RowCases DEF update_message, Own
  <2>2. [pc |-> "edit", conv |-> msg[m].conv, msg |-> m, envelope |-> envelope] \in OpenTx
    BY <2>1 DEF OpenTx
  <2> QED  BY <1>6, <2>2, BeginType DEF update_message
<1>7. ASSUME NEW c \in Convs, NEW m \in Msgs, mark_read(t, c, u, m) PROVE TypeOK'
  <2>1. [pc |-> "read", by |-> u, conv |-> c, msg |-> m] \in OpenTx
    BY DEF OpenTx
  <2> QED  BY <1>7, <2>1, BeginType DEF mark_read
<1>8. ASSUME NEW m \in Msgs, remove_message(t, m, u) PROVE TypeOK'
  <2>1. [pc |-> "delete", msg |-> m] \in OpenTx
    BY DEF OpenTx
  <2> QED  BY <1>8, <2>1, BeginType DEF remove_message
<1> QED  BY <1>1, <1>2, <1>3, <1>4, <1>5, <1>6, <1>7, <1>8

LEMMA InsertType ==
  ASSUME TypeOK, NEW t \in Txs, NEW c \in Convs, NEW row \in Conv,
         NEW roles \in [Users -> {"none", "member", "admin"}], InsertConversation(t, c, row, roles)
  PROVE TypeOK'
<1>1. End(t)
  BY DEF InsertConversation
<1> QED  BY <1>1, EndType DEF InsertConversation, TypeOK, people

LEMMA KeyIsPair ==
  ASSUME NEW u \in Users, NEW v \in Users, u # v
  PROVE direct_key(u, v) \in Pairs
<1>1. IsFiniteSet({u}) /\ Cardinality({u}) = 1
  BY FS_Singleton
<1>2. Cardinality({u} \cup {v}) = 2
  BY <1>1, FS_AddElement
<1> QED  BY <1>2 DEF direct_key, Pairs

LEMMA DeletedType ==
  ASSUME TypeOK, NEW m \in Msgs, MarkDeleted(m) PROVE msg' \in [Msgs -> Msg \cup {NoMsg, Purged}]
<1>1. msg[m] \in Msg
  BY RowCases DEF MarkDeleted, NoMsg, Purged
<1>2. [msg[m] EXCEPT !.status = "deleted"] \in Msg
  BY <1>1 DEF Msg
<1> QED  BY <1>2 DEF MarkDeleted, TypeOK

LEMMA FinishType ==
  ASSUME TypeOK, NEW t \in Txs, Sound(t), Finish(t) PROVE TypeOK'
<1>1. ASSUME NEW c \in Convs, CommitDirect(t, c) PROVE TypeOK'
  <2> DEFINE row == [kind |-> "direct", creator |-> tx[t].by, key |-> direct_key(tx[t].by, tx[t].other)]
             roles == [x \in Users |-> IF x \in {tx[t].by, tx[t].other} THEN "member" ELSE "none"]
  <2>1. tx[t].by \in Users /\ tx[t].other \in Users
    BY <1>1, OpenCases DEF CommitDirect
  <2>2. direct_key(tx[t].by, tx[t].other) \in Pairs
    BY <1>1, <2>1, KeyIsPair DEF CommitDirect, Sound, ContactsChecked, Unblocked
  <2>3. row \in Conv
    BY <2>1, <2>2 DEF Conv
  <2>4. roles \in [Users -> {"none", "member", "admin"}]
    OBVIOUS
  <2>5. InsertConversation(t, c, row, roles)
    BY <1>1 DEF CommitDirect
  <2> QED  BY <2>3, <2>4, <2>5, InsertType
<1>2. ASSUME NEW c \in Convs, CommitGroup(t, c) PROVE TypeOK'
  <2> DEFINE row == [kind |-> "group", creator |-> tx[t].by]
             roles == [x \in Users |-> IF x = tx[t].by THEN "admin"
                                       ELSE IF x \in tx[t].others THEN "member" ELSE "none"]
  <2>1. row \in Conv
    BY <1>2, OpenCases DEF CommitGroup, Conv
  <2>2. roles \in [Users -> {"none", "member", "admin"}]
    OBVIOUS
  <2>3. InsertConversation(t, c, row, roles)
    BY <1>2 DEF CommitGroup
  <2> QED  BY <2>1, <2>2, <2>3, InsertType
<1>3. CASE CommitAdd(t)
  <2>1. tx' \in [Txs -> OpenTx \cup {Idle}]
    BY <1>3 DEF CommitAdd, TypeOK
  <2>2. barred' \in [Txs -> [blocks : SUBSET (Users \X Users), devices : SUBSET Devices]]
    <3> DEFINE Left(s) == {d \in barred[s].devices : d[1] # tx[t].user \/ tx[t].conv \notin Addressed(tx[s])}
               next(s) == IF s = t THEN Nothing ELSE [barred[s] EXCEPT !.devices = Left(s)]
    <3>1. barred' = [s \in Txs |-> next(s)]
      BY <1>3 DEF CommitAdd
    <3>2. Nothing \in [blocks : SUBSET (Users \X Users), devices : SUBSET Devices]
      BY DEF Nothing
    <3>3. ASSUME NEW s \in Txs PROVE next(s) \in [blocks : SUBSET (Users \X Users), devices : SUBSET Devices]
      <4>1. barred[s] \in [blocks : SUBSET (Users \X Users), devices : SUBSET Devices]
        BY DEF TypeOK
      <4>2. Left(s) \in SUBSET Devices
        BY <4>1
      <4> HIDE DEF Left
      <4>3. [barred[s] EXCEPT !.devices = Left(s)] \in [blocks : SUBSET (Users \X Users), devices : SUBSET Devices]
        BY <4>1, <4>2
      <4> QED  BY <3>2, <4>3
    <3> HIDE DEF next
    <3> QED  BY <3>1, <3>3
  <2>3. role' \in [Convs -> [Users -> {"none", "member", "admin"}]]
    BY <1>3, OpenCases DEF CommitAdd, TypeOK
  <2> QED  BY <1>3, <2>1, <2>2, <2>3 DEF CommitAdd, TypeOK, people
<1>4. CASE CommitRemove(t)
  <2>1. role' \in [Convs -> [Users -> {"none", "member", "admin"}]]
    BY <1>4, OpenCases DEF CommitRemove, TypeOK
  <2>2. marker' \in [Convs -> [Users -> Msgs \cup {None}]]
    BY <1>4, OpenCases DEF CommitRemove, TypeOK
  <2> QED  BY <1>4, <2>1, <2>2, EndType DEF CommitRemove, TypeOK, people
<1>5. CASE CheckEnvelope(t)
  <2>1. [tx[t] EXCEPT !.pc = "send"] \in OpenTx
    <3>1. tx[t] \in OpenTx \cup {Idle}
      BY DEF TypeOK
    <3> QED  BY <1>5, <3>1 DEF CheckEnvelope, OpenTx, Idle
  <2>2. tx' \in [Txs -> OpenTx \cup {Idle}]
    BY <1>5, <2>1 DEF CheckEnvelope, TypeOK
  <2> QED  BY <1>5, <2>2 DEF CheckEnvelope, TypeOK, people, talk
<1>6. ASSUME NEW m \in Msgs, CommitMessage(t, m) PROVE TypeOK'
  <2>1. [status |-> "sent", conv |-> tx[t].conv, sender |-> tx[t].by, envelope |-> tx[t].envelope] \in Msg
    BY <1>6, OpenCases DEF CommitMessage, Msg
  <2>2. msg' \in [Msgs -> Msg \cup {NoMsg, Purged}]
    BY <1>6, <2>1 DEF CommitMessage, TypeOK
  <2> QED  BY <1>6, <2>2, EndType DEF CommitMessage, TypeOK, people
<1>7. CASE CommitEdit(t)
  <2>1. tx[t].msg \in Msgs /\ tx[t].envelope \in SUBSET Devices
    BY <1>7, OpenCases DEF CommitEdit
  <2>2. msg[tx[t].msg] \in Msg
    BY <1>7, <2>1, RowCases DEF CommitEdit, Sound, MessageRequest
  <2>3. [msg[tx[t].msg] EXCEPT !.envelope = tx[t].envelope] \in Msg
    BY <2>1, <2>2 DEF Msg
  <2>4. msg' \in [Msgs -> Msg \cup {NoMsg, Purged}]
    BY <1>7, <2>1, <2>3 DEF CommitEdit, TypeOK
  <2> QED  BY <1>7, <2>4, EndType DEF CommitEdit, TypeOK, people
<1>8. CASE CommitRead(t)
  <2>1. marker' \in [Convs -> [Users -> Msgs \cup {None}]]
    BY <1>8, OpenCases DEF CommitRead, TypeOK
  <2> QED  BY <1>8, <2>1, EndType DEF CommitRead, TypeOK, people
<1>9. CASE Rollback(t)
  BY <1>9, EndType DEF Rollback, TypeOK, people, talk
<1>10. CASE delete_message(t)
  <2>1. tx[t].msg \in Msgs /\ MarkDeleted(tx[t].msg) /\ End(t)
    BY <1>10, OpenCases DEF delete_message
  <2>2. msg' \in [Msgs -> Msg \cup {NoMsg, Purged}]
    BY <2>1, DeletedType
  <2> QED  BY <2>1, <2>2, EndType DEF MarkDeleted, TypeOK, people
<1> QED  BY <1>1, <1>2, <1>3, <1>4, <1>5, <1>6, <1>7, <1>8, <1>9, <1>10 DEF Finish

LEMMA NextType ==
  ASSUME TypeOK, \A t \in Txs : Sound(t), [Next]_vars PROVE TypeOK'
<1>1. ASSUME NEW t \in Txs, Arrive(t) \/ Finish(t) PROVE TypeOK'
  BY <1>1, ArriveType, FinishType
<1>2. ASSUME NEW m \in Msgs, hide_message(m) PROVE TypeOK'
  <2>1. msg' \in [Msgs -> Msg \cup {NoMsg, Purged}]
    BY <1>2, DeletedType DEF hide_message
  <2> QED  BY <1>2, <2>1 DEF hide_message, MarkDeleted, TypeOK, people
<1>3. ASSUME NEW batch \in SUBSET Msgs, purge_deleted_messages(batch) PROVE TypeOK'
  <2>1. msg' \in [Msgs -> Msg \cup {NoMsg, Purged}]
    BY <1>3 DEF purge_deleted_messages, TypeOK
  <2>2. marker' \in [Convs -> [Users -> Msgs \cup {None}]]
    BY <1>3 DEF purge_deleted_messages, TypeOK
  <2> QED  BY <1>3, <2>1, <2>2 DEF purge_deleted_messages, TypeOK, people
<1>4. ASSUME NEW u \in Users, NEW v \in Users, block_user(u, v) PROVE TypeOK'
  BY <1>4 DEF block_user, TypeOK, talk
<1>5. ASSUME NEW u \in Users, NEW v \in Users, unblock_user(u, v) PROVE TypeOK'
  <2>1. barred' \in [Txs -> [blocks : SUBSET (Users \X Users), devices : SUBSET Devices]]
    BY <1>5 DEF unblock_user, TypeOK
  <2> QED  BY <1>5, <2>1 DEF unblock_user, TypeOK, talk
<1>6. ASSUME NEW d \in Devices, register_device(d) PROVE TypeOK'
  <2>1. barred' \in [Txs -> [blocks : SUBSET (Users \X Users), devices : SUBSET Devices]]
    BY <1>6 DEF register_device, TypeOK
  <2> QED  BY <1>6, <2>1 DEF register_device, TypeOK, talk
<1>7. ASSUME NEW d \in Devices, revoke_device(d) PROVE TypeOK'
  BY <1>7 DEF revoke_device, TypeOK, talk
<1>8. ASSUME NEW u \in Users, NEW status \in {"active", "muted", "banned"}, moderate_user(u, status) PROVE TypeOK'
  BY <1>8 DEF moderate_user, TypeOK, talk
<1>9. CASE UNCHANGED vars
  BY <1>9 DEF vars, people, talk, TypeOK
<1> QED  BY <1>1, <1>2, <1>3, <1>4, <1>5, <1>6, <1>7, <1>8, <1>9 DEF Next

-----------------------------------------------------------------------------
(* What never changes. *)

\* Steps that leave the tables of conversations and messages alone.
LEMMA QuietSteps ==
  ASSUME TypeOK, [Next]_vars
  PROVE \/ UNCHANGED talk
        \/ \E t \in Txs : \/ \E c \in Convs : CommitDirect(t, c) \/ CommitGroup(t, c)
                          \/ CommitAdd(t) \/ CommitRemove(t)
                          \/ \E m \in Msgs : CommitMessage(t, m)
                          \/ CommitEdit(t) \/ CommitRead(t)
        \/ \E m \in Msgs : MarkDeleted(m)
        \/ \E batch \in SUBSET Msgs : purge_deleted_messages(batch)
<1>1. ASSUME NEW t \in Txs, Arrive(t) PROVE UNCHANGED talk
  <2>1. PICK r : Begin(t, r)
    BY <1>1, ArriveBegins
  <2> QED  BY <2>1 DEF Begin
<1>2. ASSUME NEW t \in Txs, CheckEnvelope(t) \/ Rollback(t) PROVE UNCHANGED talk
  BY <1>2 DEF CheckEnvelope, Rollback
<1>3. ASSUME NEW u \in Users, NEW v \in Users, block_user(u, v) \/ unblock_user(u, v) PROVE UNCHANGED talk
  BY <1>3 DEF block_user, unblock_user
<1>4. ASSUME NEW d \in Devices, register_device(d) \/ revoke_device(d) PROVE UNCHANGED talk
  BY <1>4 DEF register_device, revoke_device
<1>5. ASSUME NEW u \in Users, NEW status, moderate_user(u, status) PROVE UNCHANGED talk
  BY <1>5 DEF moderate_user
<1>6. CASE UNCHANGED vars
  BY <1>6 DEF vars
<1>9. ASSUME NEW t \in Txs, delete_message(t) PROVE \E m \in Msgs : MarkDeleted(m)
  BY <1>9, OpenCases DEF delete_message
<1>10. ASSUME NEW m \in Msgs, hide_message(m) PROVE MarkDeleted(m)
  BY <1>10 DEF hide_message
<1>7. ASSUME NEW t \in Txs, Finish(t)
      PROVE \/ UNCHANGED talk
            \/ \E c \in Convs : CommitDirect(t, c) \/ CommitGroup(t, c)
            \/ CommitAdd(t) \/ CommitRemove(t)
            \/ \E m \in Msgs : CommitMessage(t, m)
            \/ CommitEdit(t) \/ CommitRead(t)
            \/ \E m \in Msgs : MarkDeleted(m)
  BY <1>2, <1>7, <1>9 DEF Finish
<1>8. CASE Next
  BY <1>1, <1>3, <1>4, <1>5, <1>7, <1>8, <1>10 DEF Next
<1> QED  BY <1>6, <1>8

\* A conversation keeps its kind, its creator and its key.
LEMMA ConvStays ==
  ASSUME TypeOK, [Next]_vars, NEW c \in Convs, conv[c] # NoConv
  PROVE conv'[c] = conv[c]
<1>1. ASSUME NEW t \in Txs, NEW d \in Convs, CommitDirect(t, d) \/ CommitGroup(t, d) PROVE conv'[c] = conv[c]
  BY <1>1 DEF CommitDirect, CommitGroup, InsertConversation, TypeOK
<1> QED  BY <1>1, QuietSteps DEF talk, CommitAdd, CommitRemove, CommitMessage, CommitEdit, CommitRead,
  MarkDeleted, purge_deleted_messages

\* A message stays, until it is purged, and stays in its conversation.
LEMMA MsgStays ==
  ASSUME TypeOK, [Next]_vars, \A t \in Txs : Sound(t), NEW m \in Msgs, msg[m] # NoMsg
  PROVE /\ msg'[m] # NoMsg
        /\ msg'[m] # Purged => msg[m] # Purged /\ msg'[m].conv = msg[m].conv
<1>1. msg[m] \in Msg \cup {Purged}
  BY DEF TypeOK
<1>2. ASSUME NEW t \in Txs, NEW x \in Msgs, CommitMessage(t, x) PROVE msg'[m] = msg[m]
  BY <1>2 DEF CommitMessage, TypeOK
<1>3. ASSUME NEW t \in Txs, CommitEdit(t)
      PROVE msg'[m] = msg[m] \/ (msg[m] # Purged /\ msg'[m] = [msg[m] EXCEPT !.envelope = tx[t].envelope])
  BY <1>3 DEF CommitEdit, TypeOK
<1>4. ASSUME NEW x \in Msgs, MarkDeleted(x)
      PROVE msg'[m] = msg[m] \/ (msg[m] # Purged /\ msg'[m] = [msg[m] EXCEPT !.status = "deleted"])
  <2>1. msg[x].status = "sent" /\ msg' = [msg EXCEPT ![x].status = "deleted"]
    BY <1>4 DEF MarkDeleted
  <2>2. msg[x] # Purged
    BY <2>1 DEF Purged
  <2> QED  BY <2>1, <2>2 DEF TypeOK
<1>5. ASSUME NEW batch \in SUBSET Msgs, purge_deleted_messages(batch) PROVE msg'[m] \in {msg[m], Purged}
  BY <1>5 DEF purge_deleted_messages
<1>6. CASE msg'[m] \in {msg[m], Purged}
  BY <1>6 DEF NoMsg, Purged
<1>7. ASSUME msg[m] # Purged, NEW e, \/ msg'[m] = [msg[m] EXCEPT !.envelope = e]
                                     \/ msg'[m] = [msg[m] EXCEPT !.status = "deleted"]
      PROVE msg'[m] # NoMsg /\ msg'[m].conv = msg[m].conv
  <2>1. msg[m] \in Msg
    BY <1>1, <1>7
  <2>2. msg'[m].conv = msg[m].conv /\ msg'[m].status \in {"sent", "deleted"}
    BY <1>7, <2>1 DEF Msg
  <2> QED  BY <2>2 DEF NoMsg
<1> QED  BY <1>2, <1>3, <1>4, <1>5, <1>6, <1>7, QuietSteps DEF talk, CommitDirect, CommitGroup,
  InsertConversation, CommitAdd, CommitRemove, CommitRead

-----------------------------------------------------------------------------
(* The tables. *)

LEMMA MembersOfRowsKept ==
  ASSUME IInv, [Next]_vars PROVE MembersOfRows'
<1>1. ASSUME NEW c \in Convs, NEW u \in Users, (u \in Members(c))' PROVE conv'[c] # NoConv
  <2>1. CASE u \in Members(c)
    BY <2>1, ConvStays DEF IInv, MembersOfRows
  <2>2. CASE u \notin Members(c)
    <3>1. ASSUME NEW t \in Txs, NEW d \in Convs, CommitDirect(t, d) \/ CommitGroup(t, d) PROVE conv'[c] # NoConv
      <4>1. c = d
        BY <1>1, <2>2, <3>1 DEF CommitDirect, CommitGroup, InsertConversation, Members, IInv, TypeOK
      <4> QED  BY <3>1, <4>1 DEF CommitDirect, CommitGroup, InsertConversation, NoConv, IInv, TypeOK
    <3>2. ASSUME NEW t \in Txs, CommitAdd(t) PROVE conv'[c] # NoConv
      <4>1. c = tx[t].conv
        BY <1>1, <2>2, <3>2, OpenCases DEF CommitAdd, Members, IInv, TypeOK
      <4>2. conv[c].kind = "group"
        BY <3>2, <4>1 DEF CommitAdd, IInv, Sound, GroupRequest
      <4> QED  BY <3>2, <4>2 DEF CommitAdd, NoConv
    <3>3. ASSUME NEW t \in Txs, CommitRemove(t) PROVE FALSE
      BY <1>1, <2>2, <3>3, OpenCases DEF CommitRemove, Members, IInv, TypeOK
    <3>4. CASE UNCHANGED role
      BY <1>1, <2>2, <3>4 DEF Members
    <3> QED  BY <3>1, <3>2, <3>3, <3>4, QuietSteps DEF IInv, talk, CommitMessage, CommitEdit, CommitRead,
      MarkDeleted, purge_deleted_messages
  <2> QED  BY <2>1, <2>2
<1>2. ASSUME NEW m \in Msgs, msg'[m] \notin {NoMsg, Purged} PROVE conv'[msg'[m].conv] # NoConv
  <2>1. CASE msg[m] # NoMsg
    <3>1. msg[m] # Purged /\ msg'[m].conv = msg[m].conv
      BY <1>2, <2>1, MsgStays DEF IInv
    <3>2. msg[m].conv \in Convs /\ conv[msg[m].conv] # NoConv
      BY <2>1, <3>1, RowCases DEF IInv, MembersOfRows
    <3> QED  BY <3>1, <3>2, ConvStays DEF IInv
  <2>2. CASE msg[m] = NoMsg
    <3>1. PICK t \in Txs : CommitMessage(t, m)
      <4>1. ASSUME NEW t \in Txs, CommitEdit(t) PROVE msg'[m] = msg[m]
        BY <2>2, <4>1, OpenCases DEF CommitEdit, IInv, TypeOK, Sound, MessageRequest
      <4>2. ASSUME NEW x \in Msgs, MarkDeleted(x) PROVE msg'[m] = msg[m]
        BY <2>2, <4>2 DEF MarkDeleted, NoMsg, IInv, TypeOK
      <4>3. ASSUME NEW batch \in SUBSET Msgs, purge_deleted_messages(batch) PROVE msg'[m] = msg[m]
        BY <2>2, <4>3 DEF purge_deleted_messages, NoMsg
      <4>4. ASSUME NEW t \in Txs, NEW x \in Msgs, CommitMessage(t, x), x # m PROVE msg'[m] = msg[m]
        BY <4>4 DEF CommitMessage, IInv, TypeOK
      <4> QED  BY <1>2, <2>2, <4>1, <4>2, <4>3, <4>4, QuietSteps DEF IInv, talk, CommitDirect, CommitGroup,
        InsertConversation, CommitAdd, CommitRemove, CommitRead
    <3>2. msg'[m].conv = tx[t].conv /\ conv[tx[t].conv] # NoConv
      BY <3>1 DEF CommitMessage, IInv, TypeOK, Sound, MessageRequest
    <3> QED  BY <3>1, <3>2 DEF CommitMessage
  <2> QED  BY <2>1, <2>2
<1> QED  BY <1>1, <1>2 DEF MembersOfRows


\* Who has opened the direct conversation of a pair opens no other.
LEMMA DirectByKeyKept ==
  ASSUME IInv, [Next]_vars PROVE DirectByKey'
<1> USE DEF IInv
<1>1. ASSUME NEW t \in Txs, NEW c \in Convs, CommitDirect(t, c) PROVE DirectByKey'
  <2> DEFINE k == direct_key(tx[t].by, tx[t].other)
  <2>1. tx[t].by \in Users /\ tx[t].other \in Users
    BY <1>1, OpenCases DEF CommitDirect
  <2>2. conv'[c].kind = "direct" /\ conv'[c].key = k
    BY <1>1 DEF CommitDirect, InsertConversation, TypeOK
  <2>3. Members(c)' = k
    BY <1>1, <2>1 DEF CommitDirect, InsertConversation, TypeOK, Members, direct_key
  <2>4. \A d \in Convs \ {c} : conv'[d] = conv[d] /\ Members(d)' = Members(d)
    BY <1>1 DEF CommitDirect, InsertConversation, TypeOK, Members
  <2>5. \A d \in Convs : conv[d].kind = "direct" => conv[d].key # k
    BY <1>1 DEF CommitDirect, HasDirect
  <2> QED  BY <2>2, <2>3, <2>4, <2>5 DEF DirectByKey
<1>2. ASSUME NEW t \in Txs, NEW c \in Convs, CommitGroup(t, c) PROVE DirectByKey'
  <2>1. conv'[c].kind = "group"
    BY <1>2 DEF CommitGroup, InsertConversation, TypeOK
  <2>2. \A d \in Convs \ {c} : conv'[d] = conv[d] /\ Members(d)' = Members(d)
    BY <1>2 DEF CommitGroup, InsertConversation, TypeOK, Members
  <2> QED  BY <2>1, <2>2 DEF DirectByKey
<1>3. ASSUME NEW t \in Txs, CommitAdd(t) \/ CommitRemove(t) PROVE DirectByKey'
  <2>1. tx[t].conv \in Convs /\ conv[tx[t].conv].kind = "group" /\ conv' = conv
    BY <1>3, OpenCases DEF CommitAdd, CommitRemove, Sound, GroupRequest
  <2>2. \A d \in Convs \ {tx[t].conv} : Members(d)' = Members(d)
    BY <1>3, <2>1 DEF CommitAdd, CommitRemove, TypeOK, Members
  <2> QED  BY <2>1, <2>2 DEF DirectByKey
<1>4. CASE UNCHANGED <<conv, role>>
  BY <1>4 DEF DirectByKey, Members
<1> QED  BY <1>1, <1>2, <1>3, <1>4, QuietSteps DEF talk, CommitMessage, CommitEdit, CommitRead,
  MarkDeleted, purge_deleted_messages

LEMMA AdminKept ==
  ASSUME IInv, [Next]_vars PROVE GroupKeepsAdmin'
<1> USE DEF IInv
<1> SUFFICES ASSUME NEW c \in Convs, conv'[c].kind = "group" PROVE role'[c][conv'[c].creator] = "admin"
  BY DEF GroupKeepsAdmin
<1>1. CASE conv[c] = NoConv
  <2>1. PICK t \in Txs : CommitGroup(t, c)
    <3>1. conv' # conv
      BY <1>1 DEF NoConv
    <3>2. PICK t \in Txs, d \in Convs : CommitDirect(t, d) \/ CommitGroup(t, d)
      BY <3>1, QuietSteps DEF talk, CommitAdd, CommitRemove, CommitMessage, CommitEdit, CommitRead,
        MarkDeleted, purge_deleted_messages
    <3>3. d = c
      BY <1>1, <3>2 DEF CommitDirect, CommitGroup, InsertConversation, TypeOK, NoConv
    <3>4. ~CommitDirect(t, c)
      BY DEF CommitDirect, InsertConversation, TypeOK
    <3> QED  BY <3>2, <3>3, <3>4
  <2>2. tx[t].by \in Users
    BY <2>1, OpenCases DEF CommitGroup
  <2> QED  BY <2>1, <2>2 DEF CommitGroup, InsertConversation, TypeOK
<1>2. CASE conv[c] # NoConv
  <2>1. conv'[c] = conv[c] /\ role[c][conv[c].creator] = "admin" /\ conv[c].creator \in Users
    BY <1>2, ConvStays, RowCases DEF GroupKeepsAdmin
  <2>2. ASSUME NEW t \in Txs, NEW d \in Convs, CommitDirect(t, d) \/ CommitGroup(t, d) PROVE role'[c] = role[c]
    BY <1>2, <2>2 DEF CommitDirect, CommitGroup, InsertConversation, TypeOK
  <2>3. ASSUME NEW t \in Txs, CommitAdd(t) PROVE role'[c][conv[c].creator] = "admin"
    BY <2>1, <2>3, OpenCases DEF CommitAdd, TypeOK
  <2>4. ASSUME NEW t \in Txs, CommitRemove(t) PROVE role'[c][conv[c].creator] = "admin"
    <3>1. tx[t].conv = c => tx[t].user # conv[c].creator
      BY <2>4 DEF CommitRemove, Sound, GroupRequest
    <3> QED  BY <2>1, <2>4, <3>1, OpenCases DEF CommitRemove, TypeOK
  <2> QED  BY <2>1, <2>2, <2>3, <2>4, QuietSteps DEF talk, CommitMessage, CommitEdit, CommitRead,
    MarkDeleted, purge_deleted_messages
<1> QED  BY <1>1, <1>2

LEMMA MarkersKept ==
  ASSUME IInv, [Next]_vars PROVE MarkerNamesMessage'
<1> USE DEF IInv
<1> SUFFICES ASSUME NEW c \in Convs, NEW u \in Users, marker'[c][u] # None
             PROVE /\ (u \in Members(c))'
                   /\ msg'[marker'[c][u]] \notin {NoMsg, Purged}
                   /\ msg'[marker'[c][u]].conv = c
  BY DEF MarkerNamesMessage
<1>1. ASSUME NEW t \in Txs, CommitRead(t), tx[t].conv = c, tx[t].by = u
      PROVE /\ (u \in Members(c))'
            /\ msg'[marker'[c][u]] \notin {NoMsg, Purged}
            /\ msg'[marker'[c][u]].conv = c
  <2>1. marker'[c][u] = tx[t].msg /\ msg' = msg /\ role' = role
    BY <1>1, OpenCases DEF CommitRead, TypeOK
  <2>2. u \in Members(c) /\ msg[tx[t].msg] \notin {NoMsg, Purged} /\ msg[tx[t].msg].conv = c
    BY <1>1 DEF CommitRead, Sound, MessageRequest
  <2> QED  BY <2>1, <2>2 DEF Members
<1>2. ASSUME marker'[c][u] = marker[c][u], msg'[marker[c][u]] # Purged, (u \in Members(c))'
      PROVE msg'[marker'[c][u]] # NoMsg /\ msg'[marker'[c][u]].conv = c
  <2>1. marker[c][u] \in Msgs
    BY <1>2 DEF TypeOK
  <2> QED  BY <1>2, <2>1, MsgStays DEF MarkerNamesMessage
<1>3. ASSUME NEW t \in Txs, NEW d \in Convs, CommitDirect(t, d) \/ CommitGroup(t, d)
      PROVE marker' = marker /\ msg' = msg /\ (u \in Members(c))'
  <2>1. marker' = marker /\ msg' = msg /\ conv[d] = NoConv /\ (c # d => role'[c] = role[c])
    BY <1>3 DEF CommitDirect, CommitGroup, InsertConversation, TypeOK
  <2>2. u \in Members(c)
    BY <2>1 DEF MarkerNamesMessage
  <2>3. c # d
    BY <2>1, <2>2 DEF MembersOfRows
  <2> QED  BY <2>1, <2>2, <2>3 DEF Members
<1>4. ASSUME NEW t \in Txs, CommitAdd(t) PROVE marker' = marker /\ msg' = msg /\ (u \in Members(c))'
  <2>1. marker' = marker /\ msg' = msg
    BY <1>4 DEF CommitAdd
  <2>2. u \in Members(c)
    BY <2>1 DEF MarkerNamesMessage
  <2> QED  BY <1>4, <2>1, <2>2, OpenCases DEF CommitAdd, Members, TypeOK
<1>5. ASSUME NEW t \in Txs, CommitRemove(t) PROVE marker'[c][u] = marker[c][u] /\ msg' = msg /\ (u \in Members(c))'
  <2>1. ~(tx[t].conv = c /\ tx[t].user = u)
    BY <1>5, OpenCases DEF CommitRemove, TypeOK
  <2>2. marker'[c][u] = marker[c][u] /\ msg' = msg /\ role'[c][u] = role[c][u]
    BY <1>5, <2>1, OpenCases DEF CommitRemove, TypeOK
  <2> QED  BY <2>2 DEF MarkerNamesMessage, Members
<1>6. ASSUME NEW t \in Txs, CommitRead(t), ~(tx[t].conv = c /\ tx[t].by = u)
      PROVE marker'[c][u] = marker[c][u] /\ msg' = msg /\ (u \in Members(c))'
  <2>1. marker'[c][u] = marker[c][u] /\ msg' = msg /\ role' = role
    BY <1>6, OpenCases DEF CommitRead, TypeOK
  <2> QED  BY <2>1 DEF MarkerNamesMessage, Members
<1>7. ASSUME NEW batch \in SUBSET Msgs, purge_deleted_messages(batch)
      PROVE marker'[c][u] = marker[c][u] /\ msg'[marker[c][u]] # Purged /\ (u \in Members(c))'
  <2>1. marker'[c][u] = marker[c][u] /\ marker[c][u] \notin batch /\ role' = role
    BY <1>7 DEF purge_deleted_messages
  <2>2. marker[c][u] \in Msgs /\ u \in Members(c) /\ msg[marker[c][u]] # Purged
    BY <2>1 DEF MarkerNamesMessage, TypeOK
  <2> QED  BY <1>7, <2>1, <2>2 DEF purge_deleted_messages, Members
<1>8. ASSUME marker' = marker, role' = role, \A m \in Msgs : msg[m] \notin {NoMsg, Purged} => msg'[m] # Purged
      PROVE marker'[c][u] = marker[c][u] /\ msg'[marker[c][u]] # Purged /\ (u \in Members(c))'
  BY <1>8 DEF MarkerNamesMessage, Members, TypeOK
<1>9. ASSUME NEW t \in Txs, NEW m \in Msgs, CommitMessage(t, m) \/ CommitEdit(t)
      PROVE \A x \in Msgs : msg[x] \notin {NoMsg, Purged} => msg'[x] # Purged
  <2> SUFFICES ASSUME NEW x \in Msgs, msg[x] \notin {NoMsg, Purged} PROVE msg'[x] # Purged
    OBVIOUS
  <2>1. msg[x] \in Msg
    BY RowCases
  <2>2. CASE CommitMessage(t, m)
    BY <2>2 DEF CommitMessage, TypeOK
  <2>3. CASE CommitEdit(t)
    <3>1. msg'[x] = msg[x] \/ msg'[x] = [msg[x] EXCEPT !.envelope = tx[t].envelope]
      BY <2>3 DEF CommitEdit, TypeOK
    <3> QED  BY <2>1, <3>1 DEF Msg, Purged
  <2> QED  BY <1>9, <2>2, <2>3
<1>10. ASSUME NEW m \in Msgs, MarkDeleted(m)
       PROVE \A x \in Msgs : msg[x] \notin {NoMsg, Purged} => msg'[x] # Purged
  <2> SUFFICES ASSUME NEW x \in Msgs, msg[x] \notin {NoMsg, Purged} PROVE msg'[x] # Purged
    OBVIOUS
  <2>1. msg[x] \in Msg
    BY RowCases
  <2>2. msg'[x] = msg[x] \/ msg'[x] = [msg[x] EXCEPT !.status = "deleted"]
    BY <1>10 DEF MarkDeleted, TypeOK
  <2> QED  BY <2>1, <2>2 DEF Msg, Purged
<1>11. CASE UNCHANGED talk
  BY <1>2, <1>8, <1>11 DEF talk, MarkerNamesMessage
<1> QED
  <2>1. ASSUME NEW t \in Txs, NEW d \in Convs, CommitDirect(t, d) \/ CommitGroup(t, d)
        PROVE marker'[c][u] = marker[c][u] /\ msg'[marker[c][u]] # Purged /\ (u \in Members(c))'
    BY <1>3, <2>1 DEF MarkerNamesMessage
  <2>2. ASSUME NEW t \in Txs, CommitAdd(t) \/ CommitRemove(t)
        PROVE marker'[c][u] = marker[c][u] /\ msg'[marker[c][u]] # Purged /\ (u \in Members(c))'
    BY <1>4, <1>5, <2>2 DEF MarkerNamesMessage
  <2>3. ASSUME NEW t \in Txs, NEW m \in Msgs, CommitMessage(t, m)
        PROVE marker'[c][u] = marker[c][u] /\ msg'[marker[c][u]] # Purged /\ (u \in Members(c))'
    BY <1>8, <1>9, <2>3 DEF CommitMessage
  <2>4. ASSUME NEW t \in Txs, CommitEdit(t)
        PROVE marker'[c][u] = marker[c][u] /\ msg'[marker[c][u]] # Purged /\ (u \in Members(c))'
    <3>1. tx[t].msg \in Msgs
      BY <2>4, OpenCases DEF CommitEdit
    <3> QED  BY <1>8, <1>9, <2>4, <3>1 DEF CommitEdit
  <2>5. ASSUME NEW m \in Msgs, MarkDeleted(m)
        PROVE marker'[c][u] = marker[c][u] /\ msg'[marker[c][u]] # Purged /\ (u \in Members(c))'
    BY <1>8, <1>10, <2>5 DEF MarkDeleted
  <2>6. ASSUME NEW t \in Txs, CommitRead(t), ~(tx[t].conv = c /\ tx[t].by = u)
        PROVE marker'[c][u] = marker[c][u] /\ msg'[marker[c][u]] # Purged /\ (u \in Members(c))'
    BY <1>6, <2>6 DEF MarkerNamesMessage
  <2> QED  BY <1>1, <1>2, <1>7, <1>11, <2>1, <2>2, <2>3, <2>4, <2>5, <2>6, QuietSteps


-----------------------------------------------------------------------------
(* Requests in flight. *)

\* What a step does to a request, its own or another's.
LEMMA TxCases ==
  ASSUME TypeOK, [Next]_vars, NEW s \in Txs
  PROVE \/ Arrive(s) \/ CheckEnvelope(s)
        \/ tx'[s] = Idle /\ barred'[s] = Nothing
        \/ /\ tx'[s] = tx[s]
           /\ barred'[s].blocks \subseteq barred[s].blocks
           /\ barred'[s].devices \subseteq barred[s].devices
<1> DEFINE Shrinks == /\ tx'[s] = tx[s]
                      /\ barred'[s].blocks \subseteq barred[s].blocks
                      /\ barred'[s].devices \subseteq barred[s].devices
           Ends == tx'[s] = Idle /\ barred'[s] = Nothing
<1>1. ASSUME NEW t \in Txs, NEW r, Begin(t, r), t # s PROVE Shrinks
  BY <1>1 DEF Begin, TypeOK
<1>2. ASSUME NEW t \in Txs, Arrive(t), t # s PROVE Shrinks
  <2>1. PICK r : Begin(t, r)
    BY <1>2, ArriveBegins
  <2> QED  BY <1>1, <1>2, <2>1
<1>3. ASSUME NEW t \in Txs, End(t) PROVE Ends \/ Shrinks
  BY <1>3 DEF End, TypeOK
<1>4. ASSUME NEW t \in Txs, CommitAdd(t) PROVE Ends \/ Shrinks
  <2>1. CASE s = t
    BY <1>4, <2>1 DEF CommitAdd, TypeOK
  <2>2. CASE s # t
    <3>1. tx'[s] = tx[s]
      BY <1>4, <2>2 DEF CommitAdd, TypeOK
    <3>2. barred'[s] = [barred[s] EXCEPT !.devices =
               {d \in @ : d[1] # tx[t].user \/ tx[t].conv \notin Addressed(tx[s])}]
      BY <1>4, <2>2 DEF CommitAdd
    <3>3. barred[s] \in [blocks : SUBSET (Users \X Users), devices : SUBSET Devices]
      BY DEF TypeOK
    <3> QED  BY <3>1, <3>2, <3>3
  <2> QED  BY <2>1, <2>2
<1>5. ASSUME NEW t \in Txs, CheckEnvelope(t), t # s PROVE Shrinks
  BY <1>5 DEF CheckEnvelope, TypeOK
<1>6. ASSUME NEW t \in Txs, Finish(t), ~CheckEnvelope(s) PROVE Ends \/ Shrinks
  <2>1. End(t) \/ CommitAdd(t) \/ CheckEnvelope(t)
    BY <1>6, Zenon DEF Finish, CommitDirect, CommitGroup, InsertConversation, CommitRemove, CommitMessage,
      CommitEdit, delete_message, CommitRead, Rollback
  <2> QED  BY <1>3, <1>4, <1>5, <1>6, <2>1
<1>7. ASSUME UNCHANGED <<tx, barred>> PROVE Shrinks
  BY <1>7
<1>8. ASSUME NEW u \in Users, NEW v \in Users, unblock_user(u, v) PROVE Shrinks
  <2>1. barred[s] \in [blocks : SUBSET (Users \X Users), devices : SUBSET Devices]
    BY DEF TypeOK
  <2>2. tx' = tx /\ barred'[s] = [barred[s] EXCEPT !.blocks = @ \ {<<u, v>>}]
    BY <1>8 DEF unblock_user
  <2> QED  BY <2>1, <2>2
<1>9. ASSUME NEW d \in Devices, register_device(d) PROVE Shrinks
  <2>1. barred[s] \in [blocks : SUBSET (Users \X Users), devices : SUBSET Devices]
    BY DEF TypeOK
  <2>2. tx' = tx /\ barred'[s] = [barred[s] EXCEPT !.devices = @ \ {d}]
    BY <1>9 DEF register_device
  <2> QED  BY <2>1, <2>2
<1>10. ASSUME NEW m \in Msgs, hide_message(m) PROVE UNCHANGED <<tx, barred>>
  BY <1>10 DEF hide_message
<1>11. ASSUME NEW batch \in SUBSET Msgs, purge_deleted_messages(batch) PROVE UNCHANGED <<tx, barred>>
  BY <1>11 DEF purge_deleted_messages
<1>12. ASSUME NEW u \in Users, NEW v \in Users, block_user(u, v) PROVE UNCHANGED <<tx, barred>>
  BY <1>12 DEF block_user
<1>13. ASSUME NEW d \in Devices, revoke_device(d) PROVE UNCHANGED <<tx, barred>>
  BY <1>13 DEF revoke_device
<1>14. ASSUME NEW u \in Users, NEW status \in {"active", "muted", "banned"}, moderate_user(u, status)
       PROVE UNCHANGED <<tx, barred>>
  BY <1>14 DEF moderate_user
<1>15. ASSUME UNCHANGED vars PROVE Shrinks
  BY <1>7, <1>15 DEF vars
<1>16. ASSUME NEW t \in Txs, Arrive(t) \/ Finish(t)
       PROVE Arrive(s) \/ CheckEnvelope(s) \/ Ends \/ Shrinks
  BY <1>2, <1>6, <1>16
<1>17. Arrive(s) \/ CheckEnvelope(s) \/ Ends \/ Shrinks
  <2> HIDE DEF Ends, Shrinks
  <2>1. CASE Next
    BY <1>7, <1>8, <1>9, <1>10, <1>11, <1>12, <1>13, <1>14, <1>16, <2>1 DEF Next
  <2> QED  BY <1>15, <2>1
<1> QED  BY <1>17

\* No request of these writes the tables of people.
LEMMA FinishQuiet ==
  ASSUME NEW t \in Txs, Finish(t) PROVE UNCHANGED people
BY DEF Finish, CommitDirect, CommitGroup, InsertConversation, CommitAdd, CommitRemove, CheckEnvelope,
  CommitMessage, CommitEdit, delete_message, MarkDeleted, CommitRead, Rollback

\* A device that is barred has not come back.
LEMMA StaysBarred ==
  ASSUME IInv, [Next]_vars, NEW s \in Txs, tx'[s] = tx[s] \/ CheckEnvelope(s),
         tx[s].pc \in {"contact", "send", "edit"},
         barred'[s].devices \subseteq barred[s].devices, NEW d \in barred'[s].devices,
         NEW c \in Convs, c = tx[s].conv
  PROVE device'[d] # "active" \/ role'[c][d[1]] = "none"
<1> USE DEF IInv
<1>1. /\ d \in Devices /\ d[1] \in Users
      /\ device[d] # "active" \/ role[c][d[1]] = "none"
      /\ conv[c] # NoConv
  <2>1. d \in Devices /\ d[1] \in Users
    BY DEF TypeOK, Devices
  <2> QED  BY <2>1 DEF Sound, MessageRequest, BarredNow, Usable, Members
<1> SUFFICES ASSUME device'[d] = "active", role'[c][d[1]] # "none" PROVE FALSE
  OBVIOUS
<1>2. CASE device[d] # "active"
  <2>1. PICK x \in Devices : register_device(x) \/ revoke_device(x)
    <3>1. ASSUME UNCHANGED device PROVE FALSE
      BY <1>2, <3>1
    <3>2. ASSUME NEW t \in Txs, Arrive(t) PROVE UNCHANGED device
      <4>1. PICK r : Begin(t, r)
        BY <3>2, ArriveBegins
      <4> QED  BY <4>1 DEF Begin, people
    <3>3. ASSUME NEW t \in Txs, Finish(t) PROVE UNCHANGED device
      BY <3>3, FinishQuiet DEF people
    <3> QED  BY <3>1, <3>2, <3>3 DEF Next, vars, people, hide_message, MarkDeleted,
      purge_deleted_messages, block_user, unblock_user, moderate_user
  <2>2. register_device(x) /\ x = d
    BY <1>2, <2>1, <1>1 DEF register_device, revoke_device, TypeOK
  <2>3. d \notin barred'[s].devices
    BY <2>2 DEF register_device, TypeOK
  <2> QED  BY <2>3
<1>3. CASE role[c][d[1]] = "none"
  <2>1. ASSUME NEW t \in Txs, CommitAdd(t) PROVE FALSE
    <3>1. tx[t].conv = c /\ tx[t].user = d[1]
      BY <1>1, <1>3, <2>1, OpenCases DEF CommitAdd, TypeOK
    <3>2. s # t /\ tx[t].conv \in Addressed(tx[s])
      BY <2>1, <3>1 DEF CommitAdd, Addressed
    <3>3. barred'[s] = [barred[s] EXCEPT !.devices =
               {x \in @ : x[1] # tx[t].user \/ tx[t].conv \notin Addressed(tx[s])}]
      BY <2>1, <3>2 DEF CommitAdd
    <3>4. barred[s] \in [blocks : SUBSET (Users \X Users), devices : SUBSET Devices]
      BY DEF TypeOK
    <3> QED  BY <3>1, <3>2, <3>3, <3>4
  <2>2. ASSUME NEW t \in Txs, CommitRemove(t) PROVE FALSE
    BY <1>1, <1>3, <2>2, OpenCases DEF CommitRemove, TypeOK
  <2>3. ASSUME NEW t \in Txs, NEW x \in Convs, CommitDirect(t, x) \/ CommitGroup(t, x) PROVE FALSE
    BY <1>1, <1>3, <2>3 DEF CommitDirect, CommitGroup, InsertConversation, TypeOK
  <2>4. CASE UNCHANGED role
    BY <1>3, <2>4
  <2> QED  BY <2>1, <2>2, <2>3, <2>4, QuietSteps DEF talk, CommitMessage, CommitEdit, CommitRead,
    MarkDeleted, purge_deleted_messages
<1> QED  BY <1>1, <1>2, <1>3

\* Only a removed block leaves the table, and it leaves barred at once.
LEMMA BlocksKept ==
  ASSUME IInv, [Next]_vars
  PROVE /\ \A p \in blocks' : p[1] # p[2]
        /\ \A s \in Txs : tx'[s] = tx[s] \/ CheckEnvelope(s) => barred'[s].blocks \subseteq blocks'
<1> USE DEF IInv
<1>1. ASSUME NEW u \in Users, NEW v \in Users, block_user(u, v)
      PROVE /\ \A p \in blocks' : p[1] # p[2]
            /\ \A s \in Txs : barred'[s].blocks \subseteq blocks'
  BY <1>1 DEF block_user, Sound, BarredNow
<1>2. ASSUME NEW u \in Users, NEW v \in Users, unblock_user(u, v)
      PROVE /\ \A p \in blocks' : p[1] # p[2]
            /\ \A s \in Txs : barred'[s].blocks \subseteq blocks'
  <2>1. \A s \in Txs : barred'[s].blocks = barred[s].blocks \ {<<u, v>>}
    BY <1>2 DEF unblock_user, TypeOK
  <2> QED  BY <1>2, <2>1 DEF unblock_user, Sound, BarredNow
<1>3. ASSUME blocks' = blocks
      PROVE /\ \A p \in blocks' : p[1] # p[2]
            /\ \A s \in Txs : tx'[s] = tx[s] \/ CheckEnvelope(s) => barred'[s].blocks \subseteq blocks'
  <2> SUFFICES ASSUME NEW s \in Txs, tx'[s] = tx[s] \/ CheckEnvelope(s) PROVE barred'[s].blocks \subseteq blocks'
    BY <1>3
  <2>1. CASE CheckEnvelope(s)
    BY <1>3, <2>1 DEF CheckEnvelope, Sound, BarredNow
  <2>2. CASE Arrive(s) /\ tx'[s] = tx[s]
    <3>1. PICK r : Begin(s, r)
      BY <2>2, ArriveBegins
    <3> QED  BY <1>3, <3>1 DEF Begin, TypeOK
  <2>3. CASE barred'[s] = Nothing
    BY <2>3 DEF Nothing
  <2> QED  BY <1>3, <2>1, <2>2, <2>3, TxCases DEF Sound, BarredNow
<1>4. ASSUME NEW t \in Txs, Arrive(t) PROVE blocks' = blocks
  <2>1. PICK r : Begin(t, r)
    BY <1>4, ArriveBegins
  <2> QED  BY <2>1 DEF Begin, people
<1>5. ASSUME NEW t \in Txs, Finish(t) PROVE blocks' = blocks
  BY <1>5, FinishQuiet DEF people
<1>6. \/ blocks' = blocks
      \/ \E u \in Users, v \in Users : block_user(u, v) \/ unblock_user(u, v)
  BY <1>4, <1>5 DEF Next, vars, people, hide_message, MarkDeleted,
    purge_deleted_messages, register_device, revoke_device, moderate_user
<1> QED  BY <1>1, <1>2, <1>3, <1>6


\* What a request has checked when it arrives still holds at that step.
LEMMA BeginShape ==
  ASSUME TypeOK, NEW t \in Txs, NEW r, Begin(t, r)
  PROVE /\ tx'[t] = r
        /\ barred'[t].blocks = IF r.pc \in {"direct", "group", "add", "contact"} THEN blocks ELSE {}
        /\ barred'[t].devices = {d \in Devices : \E c \in Addressed(r) : ~Usable(c, d)}
        /\ UNCHANGED <<account, blocks, device, conv, role, marker, msg>>
BY DEF Begin, TypeOK, people, talk

LEMMA ArriveSound ==
  ASSUME IInv, NEW t \in Txs, Arrive(t) PROVE Sound(t)'
<1> USE DEF IInv
<1> PICK u \in Users :
      \/ \E v \in Users : get_or_create_direct(t, u, v)
      \/ \E others \in SUBSET Users : create_group(t, u, others)
      \/ \E c \in Convs, v \in Users : add_group_member(t, c, u, v) \/ remove_group_member(t, c, u, v)
      \/ \E c \in Convs, envelope \in SUBSET Devices : create_message(t, c, u, envelope)
      \/ \E m \in Msgs, envelope \in SUBSET Devices : update_message(t, m, u, envelope)
      \/ \E m \in Msgs : remove_message(t, m, u)
      \/ \E c \in Convs, m \in Msgs : mark_read(t, c, u, m)
  BY DEF Arrive
<1>1. ASSUME NEW v \in Users, get_or_create_direct(t, u, v) PROVE Sound(t)'
  <2> DEFINE r == [pc |-> "direct", by |-> u, other |-> v]
  <2>1. Begin(t, r) /\ CanContact(u, v)
    BY <1>1 DEF get_or_create_direct
  <2>2. tx'[t] = r /\ barred'[t].blocks = blocks /\ blocks' = blocks
    BY <2>1, BeginShape
  <2> QED  BY <2>1, <2>2 DEF Sound, GroupRequest, MessageRequest, BarredNow, ContactsChecked,
    EnvelopeChecked, Unblocked, CanContact
<1>2. ASSUME NEW others \in SUBSET Users, create_group(t, u, others) PROVE Sound(t)'
  <2> DEFINE r == [pc |-> "group", by |-> u, others |-> others]
  <2>1. Begin(t, r) /\ \A v \in others : CanContact(u, v)
    BY <1>2 DEF create_group
  <2>2. tx'[t] = r /\ barred'[t].blocks = blocks /\ blocks' = blocks
    BY <2>1, BeginShape
  <2> QED  BY <2>1, <2>2 DEF Sound, GroupRequest, MessageRequest, BarredNow, ContactsChecked,
    EnvelopeChecked, Unblocked, CanContact
<1>3. ASSUME NEW c \in Convs, NEW v \in Users, add_group_member(t, c, u, v) PROVE Sound(t)'
  <2> DEFINE r == [pc |-> "add", by |-> u, conv |-> c, user |-> v]
  <2>1. Begin(t, r) /\ CanContact(u, v) /\ conv[c].kind = "group"
    BY <1>3 DEF add_group_member
  <2>2. tx'[t] = r /\ barred'[t].blocks = blocks /\ blocks' = blocks /\ conv' = conv
    BY <2>1, BeginShape
  <2> QED  BY <2>1, <2>2 DEF Sound, GroupRequest, MessageRequest, BarredNow, ContactsChecked,
    EnvelopeChecked, Unblocked, CanContact
<1>4. ASSUME NEW c \in Convs, NEW v \in Users, remove_group_member(t, c, u, v) PROVE Sound(t)'
  <2> DEFINE r == [pc |-> "remove", by |-> u, conv |-> c, user |-> v]
  <2>1. Begin(t, r) /\ v # conv[c].creator /\ conv[c].kind = "group"
    BY <1>4 DEF remove_group_member
  <2>2. tx'[t] = r /\ barred'[t].blocks = {} /\ conv' = conv
    BY <2>1, BeginShape
  <2> QED  BY <2>1, <2>2 DEF Sound, GroupRequest, MessageRequest, BarredNow, ContactsChecked,
    EnvelopeChecked
<1>5. ASSUME NEW c \in Convs, NEW envelope \in SUBSET Devices, create_message(t, c, u, envelope) PROVE Sound(t)'
  <2> DEFINE r == [pc |-> "contact", by |-> u, conv |-> c, envelope |-> envelope]
  <2>1. Begin(t, r) /\ u \in Members(c) /\ \A v \in Others(c, u) : CanContact(u, v)
    BY <1>5 DEF create_message
  <2>2. /\ tx'[t] = r /\ barred'[t].blocks = blocks
        /\ barred'[t].devices = {d \in Devices : ~Usable(c, d)}
        /\ UNCHANGED <<blocks, device, conv, role, msg>>
    BY <2>1, BeginShape DEF Addressed
  <2>3. MessageRequest(t)' /\ GroupRequest(t)' /\ EnvelopeChecked(t)'
    BY <2>1, <2>2 DEF MembersOfRows, MessageRequest, GroupRequest, EnvelopeChecked
  <2>4. BarredNow(t)'
    BY <2>2 DEF BarredNow, Usable, Members
  <2>5. conv[c].kind = "direct" => /\ u \in conv[c].key
                                   /\ \A v \in conv[c].key : v # u => CanContact(u, v)
    BY <2>1 DEF DirectByKey, Others
  <2>6. ContactsChecked(t)'
    BY <2>2, <2>5 DEF ContactsChecked, Unblocked, CanContact
  <2> QED  BY <2>3, <2>4, <2>6 DEF Sound
<1>6. ASSUME NEW m \in Msgs, NEW envelope \in SUBSET Devices, update_message(t, m, u, envelope) PROVE Sound(t)'
  <2> DEFINE r == [pc |-> "edit", conv |-> msg[m].conv, msg |-> m, envelope |-> envelope]
  <2>1. /\ Begin(t, r) /\ msg[m] \notin {NoMsg, Purged}
        /\ \A d \in envelope : Usable(msg[m].conv, d)
    BY <1>6 DEF update_message, Own, validate_envelope
  <2>2. /\ tx'[t] = r /\ barred'[t].blocks = {}
        /\ barred'[t].devices = {d \in Devices : ~Usable(msg[m].conv, d)}
        /\ UNCHANGED <<blocks, device, conv, role, msg>>
    BY <2>1, BeginShape DEF Addressed
  <2>3. MessageRequest(t)' /\ GroupRequest(t)'
    BY <2>1, <2>2 DEF MembersOfRows, MessageRequest, GroupRequest
  <2>4. BarredNow(t)'
    BY <2>2 DEF BarredNow, Usable, Members
  <2>5. EnvelopeChecked(t)' /\ ContactsChecked(t)'
    BY <2>1, <2>2 DEF EnvelopeChecked, ContactsChecked
  <2> QED  BY <2>3, <2>4, <2>5 DEF Sound
<1>7. ASSUME NEW c \in Convs, NEW m \in Msgs, mark_read(t, c, u, m) PROVE Sound(t)'
  <2> DEFINE r == [pc |-> "read", by |-> u, conv |-> c, msg |-> m]
  <2>1. Begin(t, r) /\ msg[m] \notin {NoMsg, Purged} /\ msg[m].conv = c
    BY <1>7 DEF mark_read
  <2>2. tx'[t] = r /\ barred'[t].blocks = {} /\ msg' = msg
    BY <2>1, BeginShape
  <2> QED  BY <2>1, <2>2 DEF Sound, GroupRequest, MessageRequest, BarredNow, ContactsChecked,
    EnvelopeChecked
<1>8. ASSUME NEW m \in Msgs, remove_message(t, m, u) PROVE Sound(t)'
  <2> DEFINE r == [pc |-> "delete", msg |-> m]
  <2>1. Begin(t, r)
    BY <1>8 DEF remove_message
  <2>2. tx'[t] = r /\ barred'[t].blocks = {} /\ barred'[t].devices = {}
    BY <2>1, BeginShape DEF Addressed
  <2> QED  BY <2>2 DEF Sound, GroupRequest, MessageRequest, BarredNow, ContactsChecked, EnvelopeChecked
<1> QED  BY <1>1, <1>2, <1>3, <1>4, <1>5, <1>6, <1>7, <1>8

LEMMA CheckSound ==
  ASSUME IInv, NEW t \in Txs, CheckEnvelope(t) PROVE Sound(t)'
<1> USE DEF IInv
<1>1. /\ tx[t].pc = "contact" /\ tx'[t] = [tx[t] EXCEPT !.pc = "send"]
      /\ \A d \in tx[t].envelope : Usable(tx[t].conv, d)
      /\ UNCHANGED <<blocks, device, conv, role, msg, barred>>
  BY DEF CheckEnvelope, validate_envelope, TypeOK, people, talk
<1>2. tx[t] \in [pc : {"contact"}, by : Users, conv : Convs, envelope : SUBSET Devices]
  <2>1. tx[t] \in OpenTx \cup {Idle}
    BY DEF TypeOK
  <2> QED  BY <1>1, <2>1 DEF OpenTx, Idle
<1>3. /\ tx'[t].pc = "send" /\ tx'[t].by = tx[t].by
      /\ tx'[t].conv = tx[t].conv /\ tx'[t].envelope = tx[t].envelope
  BY <1>1, <1>2
<1>4. MessageRequest(t)' /\ GroupRequest(t)'
  BY <1>1, <1>3 DEF Sound, MessageRequest, GroupRequest
<1>5. BarredNow(t)'
  BY <1>1, <1>3 DEF Sound, BarredNow, Usable, Members
<1>6. EnvelopeChecked(t)'
  BY <1>1, <1>3 DEF Sound, BarredNow, EnvelopeChecked
<1>7. ContactsChecked(t)'
  BY <1>1, <1>3 DEF Sound, ContactsChecked, Unblocked
<1> QED  BY <1>4, <1>5, <1>6, <1>7 DEF Sound


\* What a request has checked stays so while others step.
LEMMA KeptSound ==
  ASSUME IInv, [Next]_vars, NEW s \in Txs, tx'[s] = tx[s],
         barred'[s].blocks \subseteq barred[s].blocks, barred'[s].devices \subseteq barred[s].devices
  PROVE Sound(s)'
<1> USE DEF IInv
<1>1. Sound(s)
  OBVIOUS
<1>2. GroupRequest(s)'
  <2> SUFFICES ASSUME tx[s].pc \in {"add", "remove"}
               PROVE /\ conv'[tx[s].conv].kind = "group"
                     /\ tx[s].pc = "remove" => tx[s].user # conv'[tx[s].conv].creator
    BY DEF GroupRequest
  <2>1. tx[s].conv \in Convs /\ conv[tx[s].conv].kind = "group"
    BY <1>1, OpenCases DEF Sound, GroupRequest
  <2>2. conv'[tx[s].conv] = conv[tx[s].conv]
    BY <2>1, ConvStays DEF NoConv
  <2> QED  BY <1>1, <2>1, <2>2 DEF Sound, GroupRequest
<1>3. tx[s].pc \in {"contact", "send", "edit"} =>
        tx[s].conv \in Convs /\ conv[tx[s].conv] # NoConv /\ conv'[tx[s].conv] = conv[tx[s].conv]
  BY <1>1, OpenCases, ConvStays DEF Sound, MessageRequest
<1>4. MessageRequest(s)'
  <2> SUFFICES ASSUME tx[s].pc \in {"edit", "read"}
               PROVE /\ msg'[tx[s].msg] # NoMsg
                     /\ msg'[tx[s].msg] # Purged => msg'[tx[s].msg].conv = tx[s].conv
    BY <1>3 DEF MessageRequest
  <2>1. tx[s].msg \in Msgs /\ msg[tx[s].msg] # NoMsg
    BY <1>1, OpenCases DEF Sound, MessageRequest
  <2> QED  BY <1>1, <2>1, MsgStays DEF Sound, MessageRequest
<1>5. BarredNow(s)'
  <2>1. barred'[s].blocks \subseteq blocks'
    BY BlocksKept
  <2>2. ASSUME tx[s].pc \in {"contact", "send", "edit"}, NEW d \in barred'[s].devices
        PROVE device'[d] # "active" \/ role'[tx[s].conv][d[1]] = "none"
    BY <1>3, <2>2, StaysBarred
  <2> QED  BY <2>1, <2>2 DEF BarredNow, Usable, Members
<1>6. ContactsChecked(s)'
  BY <1>1, <1>3 DEF Sound, ContactsChecked, Unblocked
<1>7. EnvelopeChecked(s)'
  BY <1>1 DEF Sound, EnvelopeChecked
<1> QED  BY <1>2, <1>4, <1>5, <1>6, <1>7 DEF Sound

LEMMA SoundKept ==
  ASSUME IInv, [Next]_vars, NEW s \in Txs PROVE Sound(s)'
<1>1. CASE tx'[s] = Idle /\ barred'[s] = Nothing
  BY <1>1 DEF Idle, Nothing, Sound, GroupRequest, MessageRequest, BarredNow, ContactsChecked, EnvelopeChecked
<1>2. TypeOK
  BY DEF IInv
<1> QED  BY <1>1, <1>2, TxCases, ArriveSound, CheckSound, KeptSound

LEMMA InitInv == Init => IInv
<1> SUFFICES ASSUME Init PROVE IInv
  OBVIOUS
<1>1. MembersOfRows /\ DirectByKey /\ GroupKeepsAdmin /\ MarkerNamesMessage
  BY DEF Init, MembersOfRows, DirectByKey, GroupKeepsAdmin, MarkerNamesMessage, Members, NoConv
<1>2. ASSUME NEW t \in Txs PROVE Sound(t)
  BY DEF Init, Idle, Nothing, Sound, GroupRequest, MessageRequest, BarredNow, ContactsChecked, EnvelopeChecked
<1>3. blocks = {}
  BY DEF Init
<1> QED  BY <1>1, <1>2, <1>3, InitType DEF IInv

\* The inductive invariant: what the tables promise, and what each request in
\* flight has checked that still holds at its commit.
THEOREM Invariance == Spec => []IInv
<1>1. IInv /\ [Next]_vars => IInv'
  <2> SUFFICES ASSUME IInv, [Next]_vars PROVE IInv'
    OBVIOUS
  <2>1. TypeOK'
    BY NextType DEF IInv
  <2>2. \A t \in Txs : Sound(t)'
    BY SoundKept
  <2> QED  BY <2>1, <2>2, MembersOfRowsKept, DirectByKeyKept, AdminKept, MarkersKept, BlocksKept DEF IInv
<1> QED  BY <1>1, InitInv, PTL DEF Spec

-----------------------------------------------------------------------------
(* What a reader should know of. *)

\* Every variable keeps to its type: no message is without a sender, no member
\* has a role that the code does not know (api/messaging.py, messaging/service.py).
THEOREM TypeCorrect == Spec => []TypeOK
<1>1. IInv => TypeOK
  BY DEF IInv
<1> QED  BY <1>1, Invariance, PTL

\* However many requests open the conversation of two users at once, they get one,
\* and it stays that of the two (get_or_create_direct, the key of direct_key).
THEOREM OneDirect == Spec => []OneDirectPerPair
<1>1. IInv => OneDirectPerPair
  <2> SUFFICES ASSUME IInv, NEW c \in Convs, conv[c].kind = "direct"
               PROVE /\ Cardinality(Members(c)) = 2
                     /\ \A d \in Convs \ {c} : conv[d].kind = "direct" => Members(d) # Members(c)
    BY DEF OneDirectPerPair
  <2>1. Members(c) = conv[c].key /\ conv[c].key \in Pairs
    BY RowCases DEF IInv, DirectByKey, NoConv
  <2>2. \A d \in Convs \ {c} : conv[d].kind = "direct" => Members(d) = conv[d].key /\ conv[d].key # conv[c].key
    BY DEF IInv, DirectByKey
  <2> QED  BY <2>1, <2>2 DEF Pairs
<1> QED  BY <1>1, Invariance, PTL

\* No interleaving of removals, departures and additions leaves a group without its
\* creator as the admin (remove_group_member, add_group_member).
THEOREM AdminStays == Spec => []GroupKeepsAdmin
<1>1. IInv => GroupKeepsAdmin
  BY DEF IInv
<1> QED  BY <1>1, Invariance, PTL

\* A read marker never dangles and never points into another conversation, though
\* messages are purged and members removed under it (mark_read, the retention job).
THEOREM MarkersName == Spec => []MarkerNamesMessage
<1>1. IInv => MarkerNamesMessage
  BY DEF IInv
<1> QED  BY <1>1, Invariance, PTL

\* No edit in flight revives a message that was deleted, and only deleted messages
\* are purged (update_message, delete_message, hide_message, the retention job).
THEOREM DeletedStays == Spec => DeletedStaysDeleted
<1> DEFINE A == \A m \in Msgs :
       /\ msg[m].status = "deleted" => msg'[m].status \in {"deleted", "purged"}
       /\ msg[m] = Purged => msg'[m] = Purged
       /\ msg[m].status = "sent" => msg'[m] # Purged
<1>1. IInv /\ [Next]_vars => [A]_vars
  <2> SUFFICES ASSUME IInv, [Next]_vars, NEW m \in Msgs
               PROVE /\ msg[m].status = "deleted" => msg'[m].status \in {"deleted", "purged"}
                     /\ msg[m] = Purged => msg'[m] = Purged
                     /\ msg[m].status = "sent" => msg'[m] # Purged
    OBVIOUS
  <2>1. msg[m] \in Msg \cup {NoMsg, Purged}
    BY DEF IInv, TypeOK
  <2>2. msg[m] = Purged => msg'[m] = Purged
    <3>1. Purged # NoMsg
      BY DEF Purged, NoMsg
    <3> QED  BY <3>1, MsgStays DEF IInv
  <2>3. CASE msg'[m] = msg[m]
    BY <2>1, <2>3 DEF Purged
  <2>4. ASSUME NEW t \in Txs, NEW x \in Msgs, CommitMessage(t, x), msg'[m] # msg[m] PROVE msg[m] = NoMsg
    BY <2>4 DEF CommitMessage, IInv, TypeOK
  <2>5. ASSUME NEW t \in Txs, CommitEdit(t), msg'[m] # msg[m]
        PROVE msg[m] # Purged /\ msg[m] # NoMsg /\ msg'[m] = [msg[m] EXCEPT !.envelope = tx[t].envelope]
    BY <2>5 DEF CommitEdit, IInv, TypeOK, Sound, MessageRequest
  <2>6. ASSUME NEW x \in Msgs, MarkDeleted(x), msg'[m] # msg[m]
        PROVE msg[m].status = "sent" /\ msg'[m] = [msg[m] EXCEPT !.status = "deleted"]
    BY <2>6 DEF MarkDeleted, IInv, TypeOK
  <2>7. ASSUME NEW batch \in SUBSET Msgs, purge_deleted_messages(batch), msg'[m] # msg[m]
        PROVE msg[m].status = "deleted" /\ msg'[m] = Purged
    BY <2>7 DEF purge_deleted_messages
  <2>8. \/ msg'[m] = msg[m] \/ msg[m] = NoMsg
        \/ \E e : msg[m] \notin {NoMsg, Purged} /\ msg'[m] = [msg[m] EXCEPT !.envelope = e]
        \/ msg[m].status = "sent" /\ msg'[m] = [msg[m] EXCEPT !.status = "deleted"]
        \/ msg[m].status = "deleted" /\ msg'[m] = Purged
    BY <2>4, <2>5, <2>6, <2>7, QuietSteps DEF IInv, talk, CommitDirect, CommitGroup, InsertConversation,
      CommitAdd, CommitRemove, CommitRead
  <2>9. CASE msg[m] = NoMsg
    BY <2>9 DEF NoMsg, Purged
  <2>10. CASE \E e : msg[m] \notin {NoMsg, Purged} /\ msg'[m] = [msg[m] EXCEPT !.envelope = e]
    <3>1. msg[m] \in Msg
      BY <2>1, <2>10
    <3>2. msg'[m].status = msg[m].status /\ msg[m].status \in {"sent", "deleted"}
      BY <2>10, <3>1 DEF Msg
    <3> QED  BY <2>2, <3>2 DEF Purged
  <2>11. CASE msg[m].status = "sent" /\ msg'[m] = [msg[m] EXCEPT !.status = "deleted"]
    <3>1. msg[m] \in Msg
      BY <2>1, <2>11 DEF NoMsg, Purged
    <3>2. msg'[m].status = "deleted"
      BY <2>11, <3>1 DEF Msg
    <3> QED  BY <2>2, <2>11, <3>2 DEF Purged
  <2>12. CASE msg[m].status = "deleted" /\ msg'[m] = Purged
    BY <2>12 DEF Purged
  <2> QED  BY <2>3, <2>8, <2>9, <2>10, <2>11, <2>12
<1> QED  BY <1>1, Invariance, PTL DEF Spec, DeletedStaysDeleted


\* A request ends in no other way.
LEMMA EndsBy ==
  ASSUME TypeOK, [Next]_vars, NEW t \in Txs, tx[t] # Idle, tx'[t] = Idle
  PROVE Finish(t) /\ ~CheckEnvelope(t)
<1>1. ~CheckEnvelope(t)
  <2> SUFFICES ASSUME CheckEnvelope(t) PROVE FALSE
    OBVIOUS
  <2>1. tx'[t] = [tx[t] EXCEPT !.pc = "send"] /\ tx[t] \in OpenTx \cup {Idle}
    BY DEF CheckEnvelope, TypeOK
  <2>2. tx'[t].pc = "send"
    BY <2>1 DEF OpenTx, Idle
  <2> QED  BY <2>2 DEF Idle
<1>2. ASSUME NEW s \in Txs, Arrive(s) PROVE FALSE
  <2>1. PICK r : Begin(s, r)
    BY <1>2, ArriveBegins
  <2> QED  BY <2>1 DEF Begin, TypeOK
<1>3. ASSUME NEW s \in Txs, Finish(s), s # t PROVE FALSE
  <2>1. End(s) \/ CommitAdd(s) \/ CheckEnvelope(s)
    BY <1>3, Zenon DEF Finish, CommitDirect, CommitGroup, InsertConversation, CommitRemove, CommitMessage,
      CommitEdit, delete_message, CommitRead, Rollback
  <2> QED  BY <1>3, <2>1 DEF End, CommitAdd, CheckEnvelope, TypeOK
<1>4. CASE UNCHANGED tx
  BY <1>4
<1> QED  BY <1>1, <1>2, <1>3, <1>4 DEF Next, vars, hide_message, purge_deleted_messages,
  block_user, unblock_user, register_device, revoke_device, moderate_user

\* A block that was there before a request began, and is there still, keeps the two
\* apart: the request makes them no conversation, adds neither at the wish of the
\* other, and sends no message in the conversation they have (assert_can_contact,
\* whose check is long past when the request commits).
THEOREM BlocksRespected == Spec => BlocksHold
<1> DEFINE A == \A t \in Txs, c \in Convs : \A p \in barred[t].blocks :
       tx[t] # Idle /\ tx'[t] = Idle =>
         LET both == {p[1], p[2]} IN
         /\ conv[c] = NoConv /\ conv'[c] # NoConv /\ conv'[c].creator \in both =>
              \E u \in both : role'[c][u] = "none"
         /\ conv[c].kind = "direct" /\ Members(c) = both =>
              \A m \in Msgs : msg[m] = NoMsg => msg'[m] = NoMsg \/ msg'[m].conv # c
         /\ tx[t].pc = "add" /\ {tx[t].by, tx[t].user} = both => role' = role
<1>1. IInv /\ [Next]_vars => [A]_vars
  <2> SUFFICES ASSUME IInv, [Next]_vars,
                      NEW t \in Txs, NEW c \in Convs, NEW p \in barred[t].blocks,
                      tx[t] # Idle, tx'[t] = Idle
               PROVE /\ conv[c] = NoConv /\ conv'[c] # NoConv /\ conv'[c].creator \in {p[1], p[2]} =>
                          \E u \in {p[1], p[2]} : role'[c][u] = "none"
                     /\ conv[c].kind = "direct" /\ Members(c) = {p[1], p[2]} =>
                          \A m \in Msgs : msg[m] = NoMsg => msg'[m] = NoMsg \/ msg'[m].conv # c
                     /\ tx[t].pc = "add" /\ {tx[t].by, tx[t].user} = {p[1], p[2]} => role' = role
    OBVIOUS
  <2> DEFINE both == {p[1], p[2]}
  <2> USE DEF IInv
  <2>1. Finish(t) /\ ~CheckEnvelope(t)
    BY EndsBy
  <2>2. p[1] # p[2] /\ p = <<p[1], p[2]>> /\ p[1] \in Users /\ p[2] \in Users
    <3>1. p \in blocks /\ p \in Users \X Users
      BY DEF Sound, BarredNow, TypeOK
    <3> QED  BY <3>1
  <2>3. \A u, v : Unblocked(t, u, v) => ~(p[1] \in {u, v} /\ p[2] \in {u, v})
    BY <2>2 DEF Unblocked
  <2>4. ASSUME conv[c] = NoConv, conv'[c] # NoConv, conv'[c].creator \in both,
               \A u \in both : role'[c][u] # "none"
        PROVE FALSE
    <3>1. CommitDirect(t, c) \/ CommitGroup(t, c)
      BY <2>1, <2>4 DEF Finish, CommitDirect, CommitGroup, InsertConversation, CommitAdd, CommitRemove,
        CommitMessage, CommitEdit, delete_message, MarkDeleted, CommitRead, Rollback, talk, TypeOK
    <3>2. CASE CommitDirect(t, c)
      <4>1. \A u \in Users : role'[c][u] # "none" => u \in {tx[t].by, tx[t].other}
        BY <3>2 DEF CommitDirect, InsertConversation, TypeOK
      <4>2. Unblocked(t, tx[t].by, tx[t].other)
        BY <3>2 DEF CommitDirect, Sound, ContactsChecked
      <4> QED  BY <2>2, <2>3, <2>4, <4>1, <4>2
    <3>3. CASE CommitGroup(t, c)
      <4>1. /\ \A u \in Users : role'[c][u] # "none" => u = tx[t].by \/ u \in tx[t].others
            /\ conv'[c].creator = tx[t].by
        BY <3>3 DEF CommitGroup, InsertConversation, TypeOK
      <4>2. \A v \in tx[t].others : Unblocked(t, tx[t].by, v)
        BY <3>3 DEF CommitGroup, Sound, ContactsChecked
      <4> QED  BY <2>2, <2>3, <2>4, <4>1, <4>2
    <3> QED  BY <3>1, <3>2, <3>3
  <2>5. ASSUME conv[c].kind = "direct", Members(c) = both, NEW m \in Msgs, msg[m] = NoMsg,
               msg'[m] # NoMsg, msg'[m].conv = c
        PROVE FALSE
    <3>1. ~CommitEdit(t) /\ ~delete_message(t)
      BY <2>5 DEF CommitEdit, delete_message, MarkDeleted, Sound, MessageRequest, TypeOK, NoMsg
    <3>2. PICK x \in Msgs : CommitMessage(t, x)
      BY <2>1, <2>5, <3>1 DEF Finish, CommitDirect, CommitGroup, InsertConversation, CommitAdd, CommitRemove,
        CommitRead, Rollback, talk
    <3>3. tx[t].pc = "send" /\ tx[t].conv = c
      BY <2>5, <3>2 DEF CommitMessage, TypeOK
    <3>4. tx[t].by \in both /\ \A v \in both : v # tx[t].by => Unblocked(t, tx[t].by, v)
      BY <2>5, <3>3 DEF DirectByKey, Sound, ContactsChecked
    <3> QED  BY <2>2, <2>3, <3>4
  <2>6. ~(tx[t].pc = "add" /\ {tx[t].by, tx[t].user} = both)
    BY <2>2, <2>3 DEF Sound, ContactsChecked
  <2> QED  BY <2>4, <2>5, <2>6
<1> QED  BY <1>1, Invariance, PTL DEF Spec, BlocksHold

\* Nor is a message encrypted for a device that was revoked, or outside, before the
\* request began and is so still (_validate_envelope, whose check is past as well).
THEOREM KeysInside == Spec => KeysStayInside
<1> DEFINE A == \A t \in Txs, m \in Msgs :
       tx[t] # Idle /\ tx'[t] = Idle /\ msg'[m] # msg[m] =>
         msg'[m].envelope \cap barred[t].devices = {}
<1>1. IInv /\ [Next]_vars => [A]_vars
  <2> SUFFICES ASSUME IInv, [Next]_vars, NEW t \in Txs, NEW m \in Msgs,
                      tx[t] # Idle, tx'[t] = Idle, msg'[m] # msg[m]
               PROVE msg'[m].envelope \cap barred[t].devices = {}
    OBVIOUS
  <2> USE DEF IInv
  <2>1. Finish(t) /\ ~CheckEnvelope(t)
    BY EndsBy
  <2>5. CASE delete_message(t)
    BY <2>5 DEF delete_message, Sound, EnvelopeChecked
  <2>2. ASSUME ~delete_message(t) PROVE CommitEdit(t) \/ \E x \in Msgs : CommitMessage(t, x)
    BY <2>2, <2>1 DEF Finish, CommitDirect, CommitGroup, InsertConversation, CommitAdd, CommitRemove,
      CommitRead, Rollback, talk
  <2>3. ASSUME ~delete_message(t) PROVE msg'[m].envelope = tx[t].envelope
    <3>1. CASE CommitEdit(t)
      <4>1. m = tx[t].msg /\ msg'[m] = [msg[m] EXCEPT !.envelope = tx[t].envelope] /\ msg[m] \in Msg
        BY <3>1, RowCases DEF CommitEdit, Sound, MessageRequest, TypeOK
      <4> QED  BY <4>1 DEF Msg
    <3>2. CASE \E x \in Msgs : CommitMessage(t, x)
      BY <3>2 DEF CommitMessage, TypeOK
    <3> QED  BY <2>2, <2>3, <3>1, <3>2
  <2>4. ASSUME ~delete_message(t) PROVE tx[t].pc \in {"send", "edit"}
    BY <2>2, <2>4 DEF CommitEdit, CommitMessage
  <2> QED  BY <2>3, <2>4, <2>5 DEF Sound, EnvelopeChecked
<1> QED  BY <1>1, Invariance, PTL DEF Spec, KeysStayInside
=============================================================================
