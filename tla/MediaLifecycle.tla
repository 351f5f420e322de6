---------------------------- MODULE MediaLifecycle ----------------------------
(***************************************************************************)
(* The media of one owner (src/modules/media, api/media.py), and all that  *)
(* attaches them: posts and drafts, messages, and the profile.             *)
(*                                                                         *)
(* The rows live in the database, the files in an object store that takes  *)
(* part in no transaction: what a request does there stays when the        *)
(* request fails.  Only uploads lock anything (the owner's row).  Every    *)
(* other request loads rows, and at its commit the ORM writes the columns  *)
(* that it has changed over whatever the rows hold by then.                *)
(***************************************************************************)
EXTENDS Integers, FiniteSets

CONSTANTS Media,    \* media ids, each with its storage key
          Posts,    \* posts and drafts of the owner
          Messages, \* messages of the owner
          Slots,    \* the profile's avatar and cover
          Quotas,   \* values of settings.media_quota_files
          Txs       \* database sessions, of the API or of the cleanup job

Containers == Posts \cup Messages \cup Slots

ASSUME ContainersAssumption ==
  Posts \cap Messages = {} /\ Posts \cap Slots = {} /\ Messages \cap Slots = {}
ASSUME QuotasAssumption == Quotas \subseteq Nat

VARIABLES purpose,     \* the purpose of the media: "post", "message" or a slot
          quota,       \* the setting; neither of these two ever changes
          object,      \* object[m]: "none" yet, "stored" or "gone"
          row,         \* row[m]: the row of the table media
          links,       \* links[c]: post_media, message_media, users.avatar_media_id
          tx,          \* tx[t]: Idle, or the position of the request and what it loaded
          disturbed    \* history: media that two requests handled at the same time,
                       \* whose deletion failed half way, or that a purge or the end
                       \* of the account, which do not look at media, left behind

scene == <<purpose, quota>>
vars == <<scene, object, row, links, tx, disturbed>>

Purposes == {"post", "message"} \cup Slots
Holders == IF purpose = "post" THEN Posts
           ELSE IF purpose = "message" THEN Messages ELSE {purpose}

\* deleted: deleted_at is set.
Row == [status : {"uploaded", "attached", "deleted"}, deleted : BOOLEAN]
NoRow == [status |-> "none"]

Live(m) == row[m] # NoRow /\ ~row[m].deleted
LiveRows == {m \in Media : Live(m)}
Uploads == {m \in LiveRows : row[m].status = "uploaded"}
Linked(m) == {c \in Containers : m \in links[c]}

Idle == [pc |-> "idle"]

\* "stored": upload_media holds the owner and has put the object.  "loaded" and
\* "ready": a request about to set container to to new, which had had; it will
\* reset some of these, and has cut the rows cut.
\* "erase": delete_media or the job, with the objects to do and done.
OpenTx ==
  [pc : {"stored"}, media : Media]
    \cup [pc : {"loaded", "ready"}, to : Containers, new : SUBSET Media,
          had : SUBSET Media, reset : SUBSET Media, cut : SUBSET Media]
    \cup [pc : {"erase"}, todo : SUBSET Media, done : SUBSET Media]

Init ==
  /\ purpose \in Purposes
  /\ quota \in Quotas
  /\ object = [m \in Media |-> "none"]
  /\ row = [m \in Media |-> NoRow]
  /\ links = [c \in Containers |-> {}]
  /\ tx = [t \in Txs |-> Idle]
  /\ disturbed = {}

Goto(t, record) == tx' = [tx EXCEPT ![t] = record]

-----------------------------------------------------------------------------
(* Uploads. *)

HoldsOwner(t) == tx[t].pc = "stored"
OwnerFree == \A t \in Txs : ~HoldsOwner(t)

\* upload_media: the owner FOR UPDATE, the count of the rows that are left, and
\* the object, under a fresh key.
upload_media_Unlocked(t, m) ==
  /\ tx[t] = Idle
  /\ Cardinality(LiveRows) < quota
  /\ object[m] = "none"
  /\ object' = [object EXCEPT ![m] = "stored"]
  /\ Goto(t, [pc |-> "stored", media |-> m])
  /\ UNCHANGED <<scene, row, links, disturbed>>
upload_media(t, m) ==
  /\ tx[t] = Idle
  /\ OwnerFree
  /\ Cardinality(LiveRows) < quota
  /\ object[m] = "none"
  /\ object' = [object EXCEPT ![m] = "stored"]
  /\ Goto(t, [pc |-> "stored", media |-> m])
  /\ UNCHANGED <<scene, row, links, disturbed>>

\* The INSERT and the router's commit.
CommitUpload(t) ==
  /\ tx[t].pc = "stored"
  /\ row' = [row EXCEPT ![tx[t].media] = [status |-> "uploaded", deleted |-> FALSE]]
  /\ Goto(t, Idle)
  /\ UNCHANGED <<scene, object, links, disturbed>>

\* The INSERT fails: the object is taken back.
FlushFails(t) ==
  /\ tx[t].pc = "stored"
  /\ object' = [object EXCEPT ![tx[t].media] = "gone"]
  /\ Goto(t, Idle)
  /\ UNCHANGED <<scene, row, links, disturbed>>

-----------------------------------------------------------------------------
(* Requests that overlap: one commits while another handles the same media *)
(* or the same container.                                                  *)

Attaching(t) == tx[t].pc \in {"loaded", "ready"}

Touched(t) ==
  IF Attaching(t) THEN tx[t].new \cup tx[t].had \cup tx[t].cut \cup links[tx[t].to]
  ELSE IF tx[t].pc = "erase" THEN tx[t].todo \cup tx[t].done
  ELSE {}

Meet(s, t) ==
  \/ Touched(s) \cap Touched(t) # {}
  \/ Attaching(s) /\ Attaching(t) /\ tx[s].to = tx[t].to

CountOverlaps(t) ==
  disturbed' = disturbed \cup
    UNION {Touched(s) \cup Touched(t) : s \in {x \in Txs \ {t} : Meet(x, t)}}

-----------------------------------------------------------------------------
(* Attaching. *)

Load(t, c, new, pc) ==
  /\ tx[t] = Idle
  /\ c \in Holders /\ new \subseteq Uploads
  /\ Goto(t, [pc |-> pc, to |-> c, new |-> new, had |-> links[c],
              reset |-> {m \in links[c] : row[m].status # "uploaded"}, cut |-> {}])
  /\ UNCHANGED <<scene, object, row, links, disturbed>>

\* replace_post_media, from create_post and create_draft (links[c] is empty),
\* from update_post and update_draft, and from delete_draft (new is empty).
replace_post_media(t, c) == \E new \in SUBSET Media : Load(t, c, new, "loaded")

\* Its DELETE takes the rows of the post, and waits for those that another
\* request has taken and not committed.
DeletePostMedia(t) ==
  /\ tx[t].pc = "loaded"
  /\ \A s \in Txs \ {t} :
       tx[s].pc = "ready" /\ tx[s].to = tx[t].to => tx[s].cut \cap links[tx[t].to] = {}
  /\ Goto(t, [tx[t] EXCEPT !.pc = "ready", !.cut = links[tx[t].to]])
  /\ UNCHANGED <<scene, object, row, links, disturbed>>

\* create_message with attachments; the message is new.
create_message(t, c) ==
  /\ links[c] = {}
  /\ \A s \in Txs : Attaching(s) => tx[s].to # c
  /\ \E new \in SUBSET Media \ {{}} : Load(t, c, new, "ready")

\* update_user with an avatar or a cover, or with null.
update_user(t, c) ==
  \E new \in {{}} \cup {{m} : m \in Media} : Load(t, c, new, "ready")

\* The flush and the commit.  The position of a file is unique in its post.
\* The profile's column is written if it differs from what was loaded.
CommitAttach_NoReset(t) ==
  LET a == tx[t] IN
  /\ a.pc = "ready"
  /\ a.to \in Posts /\ a.new # {} => links[a.to] \subseteq a.cut
  /\ links' = [links EXCEPT ![a.to] =
                 IF a.to \in Slots THEN IF a.new = a.had THEN @ ELSE a.new
                 ELSE (@ \ a.cut) \cup a.new]
  /\ row' = [m \in Media |-> IF m \in a.new THEN [row[m] EXCEPT !.status = "attached"]
                             ELSE row[m]]
  /\ CountOverlaps(t)
  /\ Goto(t, Idle)
  /\ UNCHANGED <<scene, object>>
CommitAttach(t) ==
  LET a == tx[t] IN
  /\ a.pc = "ready"
  /\ a.to \in Posts /\ a.new # {} => links[a.to] \subseteq a.cut
  /\ links' = [links EXCEPT ![a.to] =
                 IF a.to \in Slots THEN IF a.new = a.had THEN @ ELSE a.new
                 ELSE (@ \ a.cut) \cup a.new]
  /\ row' = [m \in Media |-> IF m \in a.new THEN [row[m] EXCEPT !.status = "attached"]
                             ELSE IF m \in a.reset THEN [row[m] EXCEPT !.status = "uploaded"]
                             ELSE row[m]]
  /\ CountOverlaps(t)
  /\ Goto(t, Idle)
  /\ UNCHANGED <<scene, object>>

-----------------------------------------------------------------------------
(* Deleting. *)

delete_media(t, m) ==
  /\ tx[t] = Idle
  /\ Live(m) /\ row[m].status # "attached"
  /\ Goto(t, [pc |-> "erase", todo |-> {m}, done |-> {}])
  /\ UNCHANGED <<scene, object, row, links, disturbed>>

\* The job selects the uploads that are older than a day, whichever these are,
\* and goes through them.
cleanup_orphan_media_AnyStatus(t, aged) ==
  /\ tx[t] = Idle
  /\ aged \subseteq LiveRows
  /\ Goto(t, [pc |-> "erase", todo |-> aged, done |-> {}])
  /\ UNCHANGED <<scene, object, row, links, disturbed>>
cleanup_orphan_media_SkipMissing(t, aged) ==
  /\ tx[t] = Idle
  /\ aged \subseteq Uploads
  /\ Goto(t, [pc |-> "erase", todo |-> {m \in aged : object[m] = "stored"}, done |-> {}])
  /\ UNCHANGED <<scene, object, row, links, disturbed>>
cleanup_orphan_media(t, aged) ==
  /\ tx[t] = Idle
  /\ aged \subseteq Uploads
  /\ Goto(t, [pc |-> "erase", todo |-> aged, done |-> {}])
  /\ UNCHANGED <<scene, object, row, links, disturbed>>

\* S3Storage.delete, which an object that is gone does not mind.
delete_object(t, m) ==
  /\ tx[t].pc = "erase" /\ m \in tx[t].todo
  /\ object' = [object EXCEPT ![m] = "gone"]
  /\ Goto(t, [tx[t] EXCEPT !.todo = @ \ {m}, !.done = @ \cup {m}])
  /\ UNCHANGED <<scene, row, links, disturbed>>

CommitErase_RowsFirst(t) ==
  /\ tx[t].pc = "erase"
  /\ row' = [m \in Media |-> IF m \in tx[t].todo \cup tx[t].done
                               THEN [row[m] EXCEPT !.status = "deleted", !.deleted = TRUE]
                               ELSE row[m]]
  /\ CountOverlaps(t)
  /\ Goto(t, Idle)
  /\ UNCHANGED <<scene, object, links>>
CommitErase(t) ==
  /\ tx[t].pc = "erase" /\ tx[t].todo = {}
  /\ row' = [m \in Media |-> IF m \in tx[t].done
                               THEN [row[m] EXCEPT !.status = "deleted", !.deleted = TRUE]
                               ELSE row[m]]
  /\ CountOverlaps(t)
  /\ Goto(t, Idle)
  /\ UNCHANGED <<scene, object, links>>

-----------------------------------------------------------------------------
(* The rest of the system. *)

\* purge_deleted_messages: message_media goes with the message.
purge_deleted_messages(c) ==
  /\ links[c] # {}
  /\ links' = [links EXCEPT ![c] = {}]
  /\ disturbed' = disturbed \cup links[c]
  /\ UNCHANGED <<scene, object, row, tx>>

\* delete_user locks the account and empties the profile.
delete_user_DropsProfile ==
  /\ OwnerFree
  /\ purpose \in Slots
  /\ links' = [c \in Containers \ Slots |-> links[c]]
  /\ disturbed' = disturbed \cup UNION {links[c] : c \in Slots}
  /\ UNCHANGED <<scene, object, row, tx>>
delete_user ==
  /\ OwnerFree
  /\ purpose \in Slots
  /\ links' = [c \in Containers |-> IF c \in Slots THEN {} ELSE links[c]]
  /\ disturbed' = disturbed \cup UNION {links[c] : c \in Slots}
  /\ UNCHANGED <<scene, object, row, tx>>

\* A request fails, or its process dies, at any point.
Rollback(t) ==
  /\ tx[t] # Idle
  /\ disturbed' = IF tx[t].pc = "erase" THEN disturbed \cup tx[t].done ELSE disturbed
  /\ Goto(t, Idle)
  /\ UNCHANGED <<scene, object, row, links>>

Upload(t) ==
  \/ \E m \in Media : upload_media(t, m)
  \/ CommitUpload(t) \/ FlushFails(t)

Attach(t) ==
  \/ \E c \in Posts : replace_post_media(t, c)
  \/ \E c \in Messages : create_message(t, c)
  \/ \E c \in Slots : update_user(t, c)
  \/ DeletePostMedia(t) \/ CommitAttach(t)

Erase(t) ==
  \/ \E m \in Media : delete_media(t, m) \/ delete_object(t, m)
  \/ \E aged \in SUBSET Media : cleanup_orphan_media(t, aged)
  \/ CommitErase(t)

Next ==
  \/ \E t \in Txs : Upload(t) \/ Attach(t) \/ Erase(t) \/ Rollback(t)
  \/ \E c \in Messages : purge_deleted_messages(c)
  \/ delete_user

\* Every request ends, the job is started again and again when an upload has
\* aged, and the outages that make deletions fail end.
Fairness ==
  /\ \A t \in Txs : []<>(tx[t] = Idle)
  /\ \A m \in Media :
       SF_vars(\E t \in Txs, aged \in SUBSET Media : m \in aged /\ cleanup_orphan_media(t, aged))
  /\ <>[][\A t \in Txs : tx[t].pc = "erase" /\ tx'[t] = Idle => CommitErase(t)]_vars

Spec == Init /\ [][Next]_vars /\ Fairness

-----------------------------------------------------------------------------
(* Properties. *)

TypeOK ==
  /\ purpose \in Purposes /\ quota \in Quotas
  /\ object \in [Media -> {"none", "stored", "gone"}]
  /\ row \in [Media -> Row \cup {NoRow}]
  /\ links \in [Containers -> SUBSET Media]
  /\ tx \in [Txs -> OpenTx \cup {Idle}]
  /\ disturbed \subseteq Media

\* Uploads that overlap do not pass the quota together, whatever becomes of
\* other rows meanwhile (upload_media, the lock on the owner).
QuotaHolds == Cardinality(LiveRows) <= quota

\* What a post, a message or a profile shows is attached and in the store,
\* unless requests have overlapped on it or a deletion has failed half way.
LinkedIsAvailable ==
  \A c \in Containers : \A m \in links[c] \ disturbed :
    Live(m) /\ row[m].status = "attached" /\ object[m] = "stored"

\* Media that are attached, and so are kept for good, are attached to one
\* place, unless requests have overlapped on them or a purge or the deletion
\* of the account has left them behind.
AttachedHasOnePlace ==
  \A m \in LiveRows \ disturbed :
    row[m].status = "attached" => Cardinality(Linked(m)) = 1

\* An upload that is never attached is deleted in the end, though runs of the
\* job fail half way and requests attach and detach it meanwhile.
UploadsGo ==
  \A m \in Media : m \in Uploads ~> m \notin Uploads

\* Objects come before their rows and go before them, and nothing comes back.
Store == INSTANCE MediaStore WITH
  object <- object,
  row <- [m \in Media |-> IF row[m] = NoRow THEN "none"
                          ELSE IF row[m].deleted THEN "deleted" ELSE "live"]

StoreSpec == Store!Spec
=============================================================================
