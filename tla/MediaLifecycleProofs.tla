------------------------- MODULE MediaLifecycleProofs -------------------------
(***************************************************************************)
(* Proofs about MediaLifecycle, for any number of media, posts, messages,  *)
(* slots of the profile and requests, and any quota.                       *)
(*                                                                         *)
(* The quota rests on the lock: who holds the owner has counted the rows   *)
(* that are there, and nobody else adds one.  What is shown rests on       *)
(* nothing but the absence of overlaps, so the inductive invariant says of *)
(* the calm media, those that are not disturbed, what each request in      *)
(* flight has loaded of them and that it is still so.                      *)
(***************************************************************************)
EXTENDS MediaLifecycle, FiniteSetTheorems, TLAPS

Known == {m \in Media : row[m] # NoRow}

RowsHaveObjects ==
  /\ \A m \in Known : object[m] # "none"
  /\ \A m \in Known : row[m].deleted => object[m] = "gone"
  /\ \A m \in LiveRows : row[m].status # "deleted"
  /\ \A c \in Containers : links[c] \subseteq Known

\* The lock on the owner, and what its holder has found.
OneUpload == \A s, t \in Txs : HoldsOwner(s) /\ HoldsOwner(t) => s = t

UploadRequest(t) ==
  HoldsOwner(t) =>
    /\ Cardinality(LiveRows) < quota
    /\ tx[t].media \notin Known /\ object[tx[t].media] = "stored"

\* Requests are about media that exist, and an object goes before its row.
KnownMedia(t) ==
  /\ Attaching(t) =>
       tx[t].new \cup tx[t].had \cup tx[t].cut \subseteq Known /\ tx[t].reset \subseteq tx[t].had
  /\ tx[t].pc = "erase" =>
       /\ tx[t].todo \cup tx[t].done \subseteq Known
       /\ \A m \in tx[t].done : object[m] = "gone"

QuotaInv ==
  /\ TypeOK /\ RowsHaveObjects /\ OneUpload
  /\ IsFiniteSet(LiveRows) /\ QuotaHolds
  /\ \A t \in Txs : UploadRequest(t) /\ KnownMedia(t)

-----------------------------------------------------------------------------
(* Types. *)

LEMMA InitType == Init => TypeOK
BY DEF Init, TypeOK, Idle

LEMMA TxFields ==
  ASSUME TypeOK, NEW t \in Txs
  PROVE /\ tx[t].pc = "stored" => tx[t].media \in Media
        /\ Attaching(t) => /\ tx[t].to \in Containers
                           /\ tx[t].new \subseteq Media /\ tx[t].had \subseteq Media
                           /\ tx[t].reset \subseteq Media /\ tx[t].cut \subseteq Media
                           /\ tx[t] # Idle
        /\ tx[t].pc = "erase" => tx[t].todo \subseteq Media /\ tx[t].done \subseteq Media
        /\ tx[t].pc \in {"stored", "loaded", "ready", "erase"} \/ tx[t] = Idle
<1>1. tx[t] \in OpenTx \cup {Idle}
  BY DEF TypeOK
<1> QED  BY <1>1 DEF OpenTx, Idle, Attaching

LEMMA IdleFields == Idle.pc = "idle"
BY DEF Idle

LEMMA RowFields ==
  ASSUME TypeOK, NEW m \in Media
  PROVE /\ row[m] # NoRow => row[m] \in Row
        /\ NoRow \notin Row
BY DEF TypeOK, Row, NoRow

LEMMA GotoType ==
  ASSUME TypeOK, NEW t \in Txs, NEW r \in OpenTx \cup {Idle}, Goto(t, r)
  PROVE tx' \in [Txs -> OpenTx \cup {Idle}]
BY DEF Goto, TypeOK

\* What the ORM writes at a commit.
LEMMA AttachRows ==
  ASSUME TypeOK, NEW t \in Txs, KnownMedia(t), CommitAttach(t)
  PROVE /\ \A m \in Media : row[m] = NoRow => row'[m] = NoRow
        /\ \A m \in Known : /\ row'[m] \in Row /\ row'[m].deleted = row[m].deleted
                            /\ m \in tx[t].new => row'[m].status = "attached"
                            /\ m \in tx[t].reset \ tx[t].new => row'[m].status = "uploaded"
        /\ \A m \in Media : m \notin tx[t].new \cup tx[t].reset => row'[m] = row[m]
        /\ row' \in [Media -> Row \cup {NoRow}]
        /\ LiveRows' = LiveRows /\ Known' = Known
<1> DEFINE a == tx[t]
<1>1. a.new \subseteq Known /\ a.reset \subseteq Known
  BY DEF CommitAttach, KnownMedia, Attaching
<1>2. row' = [m \in Media |-> IF m \in a.new THEN [row[m] EXCEPT !.status = "attached"]
                              ELSE IF m \in a.reset THEN [row[m] EXCEPT !.status = "uploaded"]
                              ELSE row[m]]
  BY DEF CommitAttach
<1> HIDE DEF a
<1>3. \A m \in Media : row[m] = NoRow => row'[m] = NoRow
  BY <1>1, <1>2 DEF Known
<1>4. ASSUME NEW m \in Known
      PROVE /\ row'[m] \in Row /\ row'[m].deleted = row[m].deleted
            /\ m \in a.new => row'[m].status = "attached"
            /\ m \in a.reset \ a.new => row'[m].status = "uploaded"
  <2>1. m \in Media /\ row[m] \in Row
    BY RowFields DEF Known
  <2>2. \/ m \in a.new /\ row'[m] = [row[m] EXCEPT !.status = "attached"]
        \/ m \in a.reset \ a.new /\ row'[m] = [row[m] EXCEPT !.status = "uploaded"]
        \/ m \notin a.new \cup a.reset /\ row'[m] = row[m]
    BY <1>2, <2>1
  <2> QED  BY <2>1, <2>2 DEF Row
<1>5. \A m \in Media : m \notin a.new \cup a.reset => row'[m] = row[m]
  BY <1>2
<1>6. row' \in [Media -> Row \cup {NoRow}]
  BY <1>2, <1>3, <1>4 DEF Known
<1>7. \A m \in Media : row'[m] = NoRow <=> row[m] = NoRow
  BY <1>3, <1>4, RowFields DEF Known
<1>8. Known' = Known
  BY <1>7 DEF Known
<1>9. LiveRows' = LiveRows
  BY <1>4, <1>7 DEF LiveRows, Live, Known
<1> QED  BY <1>3, <1>4, <1>5, <1>6, <1>8, <1>9 DEF a

LEMMA EraseRows ==
  ASSUME TypeOK, NEW t \in Txs, KnownMedia(t), CommitErase(t)
  PROVE /\ \A m \in tx[t].done : row'[m] = [status |-> "deleted", deleted |-> TRUE]
        /\ \A m \in Media : m \notin tx[t].done => row'[m] = row[m]
        /\ row' \in [Media -> Row \cup {NoRow}]
        /\ LiveRows' \subseteq LiveRows /\ Known' = Known
<1> DEFINE d == tx[t].done
<1>1. d \subseteq Known
  BY DEF CommitErase, KnownMedia
<1>2. row' = [m \in Media |-> IF m \in d
                               THEN [row[m] EXCEPT !.status = "deleted", !.deleted = TRUE]
                               ELSE row[m]]
  BY DEF CommitErase
<1> HIDE DEF d
<1>3. ASSUME NEW m \in d PROVE row'[m] = [status |-> "deleted", deleted |-> TRUE] /\ row'[m] \in Row /\ m \in Media
  <2>1. m \in Media /\ row[m] \in Row
    BY <1>1, RowFields DEF Known
  <2>2. row'[m] = [row[m] EXCEPT !.status = "deleted", !.deleted = TRUE]
    BY <1>2, <2>1
  <2> QED  BY <2>1, <2>2 DEF Row
<1>4. \A m \in Media : m \notin d => row'[m] = row[m]
  BY <1>2
<1>5. row' \in [Media -> Row \cup {NoRow}]
  <2>1. \A m \in Media : row'[m] \in Row \cup {NoRow}
    BY <1>3, <1>4 DEF TypeOK
  <2> QED  BY <1>2, <2>1
<1>6. Known' = Known
  BY <1>1, <1>3, <1>4, RowFields DEF Known
<1>7. LiveRows' \subseteq LiveRows
  BY <1>3, <1>4 DEF LiveRows, Live
<1> QED  BY <1>3, <1>4, <1>5, <1>6, <1>7 DEF d

-----------------------------------------------------------------------------
(* The steps, in fewer cases. *)

StartAttach(t) ==
  \E c \in Containers, new \in SUBSET Media :
    \/ c \in Posts /\ Load(t, c, new, "loaded")
    \/ c \in Messages /\ links[c] = {} /\ Load(t, c, new, "ready")
    \/ c \in Slots /\ Load(t, c, new, "ready")

StartErase(t) ==
  \E S \in SUBSET Uploads :
    /\ tx[t] = Idle
    /\ Goto(t, [pc |-> "erase", todo |-> S, done |-> {}])
    /\ UNCHANGED <<scene, object, row, links, disturbed>>

Empty(C) ==
  /\ links' = [c \in Containers |-> IF c \in C THEN {} ELSE links[c]]
  /\ disturbed' = disturbed \cup UNION {links[c] : c \in C}
  /\ UNCHANGED <<scene, object, row, tx>>

LEMMA StepCases ==
  ASSUME QuotaInv, [Next]_vars
  PROVE \/ \E t \in Txs : \/ \E m \in Media : upload_media(t, m)
                          \/ CommitUpload(t) \/ FlushFails(t)
                          \/ StartAttach(t) \/ DeletePostMedia(t) \/ CommitAttach(t)
                          \/ StartErase(t)
                          \/ \E m \in Media : delete_object(t, m)
                          \/ CommitErase(t) \/ Rollback(t)
        \/ \E C \in SUBSET Containers : Empty(C)
        \/ UNCHANGED vars
<1>1. ASSUME NEW t \in Txs, NEW c \in Posts, replace_post_media(t, c) PROVE StartAttach(t)
  BY <1>1 DEF replace_post_media, StartAttach, Containers
<1>2. ASSUME NEW t \in Txs, NEW c \in Messages, create_message(t, c) PROVE StartAttach(t)
  BY <1>2 DEF create_message, StartAttach, Containers
<1>3. ASSUME NEW t \in Txs, NEW c \in Slots, update_user(t, c) PROVE StartAttach(t)
  BY <1>3 DEF update_user, StartAttach, Containers
<1>4. ASSUME NEW t \in Txs, NEW m \in Media, delete_media(t, m) PROVE StartErase(t)
  <2>1. m \in LiveRows /\ row[m].status # "attached" /\ row[m].status # "deleted" /\ row[m] \in Row
    BY <1>4, RowFields DEF delete_media, LiveRows, Live, QuotaInv, RowsHaveObjects
  <2>2. {m} \in SUBSET Uploads
    BY <2>1 DEF Uploads, Row
  <2> QED  BY <1>4, <2>2 DEF delete_media, StartErase
<1>5. ASSUME NEW t \in Txs, NEW aged \in SUBSET Media, cleanup_orphan_media(t, aged) PROVE StartErase(t)
  BY <1>5 DEF cleanup_orphan_media, StartErase
<1>6. ASSUME NEW c \in Messages, purge_deleted_messages(c) PROVE \E C \in SUBSET Containers : Empty(C)
  <2>1. links' = [x \in Containers |-> IF x \in {c} THEN {} ELSE links[x]]
    BY <1>6 DEF purge_deleted_messages, QuotaInv, TypeOK
  <2>2. UNION {links[x] : x \in {c}} = links[c]
    OBVIOUS
  <2>3. Empty({c})
    BY <1>6, <2>1, <2>2 DEF purge_deleted_messages, Empty
  <2> QED  BY <2>3 DEF Containers
<1>7. ASSUME delete_user PROVE \E C \in SUBSET Containers : Empty(C)
  <2>1. Empty(Slots)
    BY <1>7 DEF delete_user, Empty
  <2> QED  BY <2>1 DEF Containers
<1> QED  BY <1>1, <1>2, <1>3, <1>4, <1>5, <1>6, <1>7 DEF Next, Upload, Attach, Erase

-----------------------------------------------------------------------------
(* Rows, objects and the quota. *)

\* A step that touches neither rows nor objects.
LEMMA SameRows ==
  ASSUME QuotaInv, TypeOK', UNCHANGED <<scene, object, row>>,
         \A c \in Containers : links'[c] \subseteq Known,
         \A s \in Txs : tx'[s] = tx[s] \/ (~HoldsOwner(s)' /\ KnownMedia(s)')
  PROVE QuotaInv'
<1>1. Known' = Known /\ LiveRows' = LiveRows /\ quota' = quota
  BY DEF Known, LiveRows, Live, scene
<1>2. RowsHaveObjects'
  BY <1>1 DEF QuotaInv, RowsHaveObjects
<1>3. OneUpload'
  BY DEF QuotaInv, OneUpload, HoldsOwner
<1>4. ASSUME NEW s \in Txs PROVE UploadRequest(s)' /\ KnownMedia(s)'
  BY <1>1, <1>4 DEF QuotaInv, UploadRequest, KnownMedia, HoldsOwner, Attaching
<1> QED  BY <1>1, <1>2, <1>3, <1>4 DEF QuotaInv, QuotaHolds

LEMMA GotoFrame ==
  ASSUME TypeOK, NEW t \in Txs, NEW r, Goto(t, r)
  PROVE tx'[t] = r /\ \A s \in Txs \ {t} : tx'[s] = tx[s]
BY DEF Goto, TypeOK

LEMMA LoadType ==
  ASSUME QuotaInv, NEW t \in Txs, NEW c \in Containers, NEW new \in SUBSET Media,
         NEW pc \in {"loaded", "ready"}, Load(t, c, new, pc)
  PROVE QuotaInv'
<1> DEFINE r == [pc |-> pc, to |-> c, new |-> new, had |-> links[c],
                 reset |-> {m \in links[c] : row[m].status # "uploaded"}, cut |-> {}]
<1> USE DEF QuotaInv
<1>1. r \in OpenTx
  BY DEF OpenTx, TypeOK
<1>2. Goto(t, r) /\ UNCHANGED <<scene, object, row, links, disturbed>>
  BY DEF Load
<1>3. TypeOK'
  BY <1>1, <1>2, GotoType DEF TypeOK, scene
<1>4. new \subseteq Known /\ links[c] \subseteq Known
  BY DEF Load, Uploads, LiveRows, Live, Known, RowsHaveObjects
<1>5. ~HoldsOwner(t)' /\ KnownMedia(t)'
  <2>1. tx'[t] = r /\ row' = row
    BY <1>2, GotoFrame
  <2> QED  BY <1>4, <2>1 DEF HoldsOwner, KnownMedia, Attaching, Known
<1>6. \A s \in Txs \ {t} : tx'[s] = tx[s]
  BY <1>2, GotoFrame
<1> QED  BY <1>2, <1>3, <1>5, <1>6, SameRows DEF RowsHaveObjects

\* The steps that neither begin nor end an upload, nor write rows or objects.
LEMMA QuietKept ==
  ASSUME QuotaInv, NEW t \in Txs, StartAttach(t) \/ DeletePostMedia(t) \/ StartErase(t) \/ Rollback(t)
  PROVE QuotaInv'
<1> USE DEF QuotaInv
<1>1. CASE StartAttach(t)
  BY <1>1, LoadType DEF StartAttach
<1>2. CASE DeletePostMedia(t)
  <2> DEFINE r == [tx[t] EXCEPT !.pc = "ready", !.cut = links[tx[t].to]]
  <2>1. /\ Goto(t, r) /\ UNCHANGED <<scene, object, row, links, disturbed>>
        /\ tx[t].pc = "loaded" /\ tx[t] \in OpenTx \cup {Idle}
    BY <1>2 DEF DeletePostMedia, TypeOK
  <2>2. tx[t] \in [pc : {"loaded", "ready"}, to : Containers, new : SUBSET Media,
                   had : SUBSET Media, reset : SUBSET Media, cut : SUBSET Media]
    BY <2>1 DEF OpenTx, Idle
  <2>3. links[tx[t].to] \in SUBSET Media /\ links[tx[t].to] \subseteq Known
    BY <2>2 DEF TypeOK, RowsHaveObjects
  <2>4. r \in OpenTx
    BY <2>2, <2>3 DEF OpenTx
  <2>5. /\ r.pc = "ready" /\ r.new = tx[t].new /\ r.had = tx[t].had /\ r.reset = tx[t].reset
        /\ r.cut = links[tx[t].to]
    BY <2>2
  <2>6. TypeOK'
    BY <2>1, <2>4, GotoType DEF TypeOK, scene
  <2>7. tx'[t] = r /\ row' = row /\ \A s \in Txs \ {t} : tx'[s] = tx[s]
    BY <2>1, GotoFrame
  <2> HIDE DEF r
  <2>8. ~HoldsOwner(t)' /\ KnownMedia(t)'
    BY <2>1, <2>3, <2>5, <2>7 DEF HoldsOwner, KnownMedia, Attaching, Known
  <2> QED  BY <2>1, <2>6, <2>7, <2>8, SameRows DEF RowsHaveObjects
<1>3. CASE StartErase(t)
  <2> PICK S \in SUBSET Uploads :
        /\ Goto(t, [pc |-> "erase", todo |-> S, done |-> {}])
        /\ UNCHANGED <<scene, object, row, links, disturbed>>
    BY <1>3 DEF StartErase
  <2>1. S \subseteq Known /\ S \in SUBSET Media
    BY DEF Uploads, LiveRows, Live, Known
  <2>2. [pc |-> "erase", todo |-> S, done |-> {}] \in OpenTx
    BY <2>1 DEF OpenTx
  <2>3. TypeOK'
    BY <2>2, GotoType DEF TypeOK, scene
  <2>4. tx'[t] = [pc |-> "erase", todo |-> S, done |-> {}] /\ \A s \in Txs \ {t} : tx'[s] = tx[s]
    BY GotoFrame
  <2>5. ~HoldsOwner(t)' /\ KnownMedia(t)'
    BY <2>1, <2>4 DEF HoldsOwner, KnownMedia, Attaching, Known
  <2> QED  BY <2>3, <2>4, <2>5, SameRows DEF RowsHaveObjects
<1>4. CASE Rollback(t)
  <2>1. Goto(t, Idle) /\ UNCHANGED <<scene, object, row, links>>
    BY <1>4 DEF Rollback
  <2>2. disturbed' \subseteq Media
    BY <1>4, TxFields DEF Rollback, TypeOK
  <2>3. TypeOK'
    BY <2>1, <2>2, GotoType DEF TypeOK, scene
  <2>4. tx'[t] = Idle /\ \A s \in Txs \ {t} : tx'[s] = tx[s]
    BY <2>1, GotoFrame
  <2>5. ~HoldsOwner(t)' /\ KnownMedia(t)'
    BY <2>4 DEF HoldsOwner, KnownMedia, Attaching, Idle
  <2> QED  BY <2>1, <2>3, <2>4, <2>5, SameRows DEF RowsHaveObjects
<1> QED  BY <1>1, <1>2, <1>3, <1>4

LEMMA EmptyKept ==
  ASSUME QuotaInv, NEW C \in SUBSET Containers, Empty(C) PROVE QuotaInv'
<1> USE DEF QuotaInv
<1>1. TypeOK'
  BY DEF Empty, TypeOK, scene
<1>2. \A c \in Containers : links'[c] \subseteq Known
  BY DEF Empty, RowsHaveObjects
<1> QED  BY <1>1, <1>2, SameRows DEF Empty


LEMMA TouchedMedia ==
  ASSUME TypeOK, NEW t \in Txs PROVE Touched(t) \subseteq Media
<1>1. Attaching(t) => links[tx[t].to] \subseteq Media
  BY TxFields DEF TypeOK
<1> QED  BY <1>1, TxFields DEF Touched

\* The holder of the owner has found room, and nobody else will take it.
LEMMA UploadKept ==
  ASSUME QuotaInv, NEW t \in Txs, NEW m \in Media, upload_media(t, m)
  PROVE QuotaInv'
<1> USE DEF QuotaInv
<1> DEFINE r == [pc |-> "stored", media |-> m]
<1>1. /\ Goto(t, r) /\ UNCHANGED <<purpose, quota, row, links, disturbed>>
      /\ object[m] = "none" /\ object' = [object EXCEPT ![m] = "stored"]
      /\ Cardinality(LiveRows) < quota /\ OwnerFree
  BY DEF upload_media, scene
<1>2. r \in OpenTx
  BY DEF OpenTx
<1>3. TypeOK'
  BY <1>1, <1>2, GotoType DEF TypeOK
<1>4. tx'[t] = r /\ \A s \in Txs \ {t} : tx'[s] = tx[s]
  BY <1>1, GotoFrame
<1>5. Known' = Known /\ LiveRows' = LiveRows /\ m \notin Known
  BY <1>1 DEF Known, LiveRows, Live, RowsHaveObjects
<1>6. \A x \in Media \ {m} : object'[x] = object[x]
  BY <1>1 DEF TypeOK
<1>7. RowsHaveObjects'
  <2>1. \A x \in Known : object'[x] = object[x]
    BY <1>5, <1>6 DEF Known
  <2>2. row' = row /\ links' = links
    BY <1>1
  <2> QED  BY <1>5, <2>1, <2>2 DEF RowsHaveObjects
<1>8. OneUpload'
  BY <1>1, <1>4 DEF OwnerFree, OneUpload, HoldsOwner
<1>9. ASSUME NEW s \in Txs PROVE UploadRequest(s)' /\ KnownMedia(s)'
  <2>1. CASE s = t
    <3>1. object'[m] = "stored"
      BY <1>1 DEF TypeOK
    <3> QED  BY <1>1, <1>4, <1>5, <2>1, <3>1 DEF UploadRequest, KnownMedia, Attaching
  <2>2. CASE s # t
    <3>1. tx'[s] = tx[s] /\ ~HoldsOwner(s)
      BY <1>1, <1>4, <2>2 DEF OwnerFree
    <3>2. \A x \in Known : object'[x] = object[x]
      BY <1>5, <1>6 DEF Known
    <3>3. KnownMedia(s)
      OBVIOUS
    <3> QED  BY <1>5, <3>1, <3>2, <3>3 DEF UploadRequest, KnownMedia, Attaching, HoldsOwner
  <2> QED  BY <2>1, <2>2
<1>10. IsFiniteSet(LiveRows)' /\ QuotaHolds'
  BY <1>1, <1>5 DEF QuotaHolds
<1> QED  BY <1>3, <1>7, <1>8, <1>9, <1>10

LEMMA CommitUploadKept ==
  ASSUME QuotaInv, NEW t \in Txs, CommitUpload(t) PROVE QuotaInv'
<1> USE DEF QuotaInv
<1> DEFINE new == [status |-> "uploaded", deleted |-> FALSE]
<1> PICK m \in Media : m = tx[t].media
  BY TxFields DEF CommitUpload
<1>1. /\ Goto(t, Idle) /\ UNCHANGED <<purpose, quota, object, links, disturbed>>
      /\ row' = [row EXCEPT ![m] = new] /\ HoldsOwner(t)
  BY DEF CommitUpload, HoldsOwner, scene
<1>2. Cardinality(LiveRows) < quota /\ m \notin Known /\ object[m] = "stored"
  BY <1>1 DEF UploadRequest
<1>3. new \in Row
  BY DEF Row
<1>4. TypeOK'
  BY <1>1, <1>3, GotoType DEF TypeOK
<1>5. tx'[t] = Idle /\ \A s \in Txs \ {t} : tx'[s] = tx[s]
  BY <1>1, GotoFrame
<1>6. row'[m] = new /\ \A x \in Media \ {m} : row'[x] = row[x]
  BY <1>1 DEF TypeOK
<1>7. Known' = Known \cup {m} /\ LiveRows' = LiveRows \cup {m} /\ m \notin LiveRows
  <2>1. new # NoRow /\ ~new.deleted
    BY DEF NoRow
  <2>2. row[m] = NoRow
    BY <1>2 DEF Known
  <2> HIDE DEF new
  <2> QED  BY <1>6, <2>1, <2>2 DEF Known, LiveRows, Live
<1>8. RowsHaveObjects'
  <2>1. \A x \in Known : row'[x] = row[x]
    BY <1>2, <1>6 DEF Known
  <2>2. \A x \in LiveRows : row'[x] = row[x] /\ x \in Known
    BY <2>1 DEF Known, LiveRows, Live
  <2>3. object' = object /\ links' = links
    BY <1>1
  <2> QED  BY <1>2, <1>6, <1>7, <2>1, <2>2, <2>3 DEF RowsHaveObjects
<1>9. \A s \in Txs : ~HoldsOwner(s)'
  BY <1>1, <1>5 DEF OneUpload, HoldsOwner, Idle
<1>10. ASSUME NEW s \in Txs PROVE UploadRequest(s)' /\ KnownMedia(s)'
  <2>1. CASE s = t
    BY <1>5, <2>1 DEF UploadRequest, KnownMedia, Attaching, HoldsOwner, Idle
  <2>2. CASE s # t
    <3>1. KnownMedia(s) /\ tx'[s] = tx[s] /\ object' = object
      BY <1>1, <1>5, <2>2
    <3> QED  BY <1>7, <1>9, <3>1 DEF UploadRequest, KnownMedia, Attaching
  <2> QED  BY <2>1, <2>2
<1>11. IsFiniteSet(LiveRows)' /\ QuotaHolds'
  <2>1. IsFiniteSet(LiveRows \cup {m}) /\ Cardinality(LiveRows \cup {m}) = Cardinality(LiveRows) + 1
    BY <1>7, FS_AddElement
  <2>2. Cardinality(LiveRows) \in Nat /\ quota \in Nat
    BY FS_CardinalityType, QuotasAssumption DEF TypeOK
  <2> QED  BY <1>1, <1>2, <1>7, <2>1, <2>2 DEF QuotaHolds
<1> QED  BY <1>4, <1>8, <1>9, <1>10, <1>11 DEF OneUpload

LEMMA FlushFailsKept ==
  ASSUME QuotaInv, NEW t \in Txs, FlushFails(t) PROVE QuotaInv'
<1> USE DEF QuotaInv
<1> PICK m \in Media : m = tx[t].media
  BY TxFields DEF FlushFails
<1>1. /\ Goto(t, Idle) /\ UNCHANGED <<purpose, quota, row, links, disturbed>>
      /\ object' = [object EXCEPT ![m] = "gone"] /\ HoldsOwner(t)
  BY DEF FlushFails, HoldsOwner, scene
<1>2. m \notin Known
  BY <1>1 DEF UploadRequest
<1>3. TypeOK'
  BY <1>1, GotoType DEF TypeOK
<1>4. tx'[t] = Idle /\ \A s \in Txs \ {t} : tx'[s] = tx[s]
  BY <1>1, GotoFrame
<1>5. Known' = Known /\ LiveRows' = LiveRows
  BY <1>1 DEF Known, LiveRows, Live
<1>6. \A x \in Known : object'[x] = object[x]
  BY <1>1, <1>2 DEF TypeOK, Known
<1>7. RowsHaveObjects'
  BY <1>1, <1>5, <1>6 DEF RowsHaveObjects
<1>8. \A s \in Txs : ~HoldsOwner(s)'
  BY <1>1, <1>4 DEF OneUpload, HoldsOwner, Idle
<1>9. ASSUME NEW s \in Txs PROVE UploadRequest(s)' /\ KnownMedia(s)'
  <2>1. CASE s = t
    BY <1>4, <2>1 DEF UploadRequest, KnownMedia, Attaching, HoldsOwner, Idle
  <2>2. CASE s # t
    <3>1. KnownMedia(s) /\ tx'[s] = tx[s]
      BY <1>4, <2>2
    <3> QED  BY <1>5, <1>6, <1>8, <3>1 DEF UploadRequest, KnownMedia, Attaching
  <2> QED  BY <2>1, <2>2
<1> QED  BY <1>1, <1>3, <1>5, <1>7, <1>8, <1>9 DEF OneUpload, QuotaHolds

LEMMA DeleteObjectKept ==
  ASSUME QuotaInv, NEW t \in Txs, NEW m \in Media, delete_object(t, m) PROVE QuotaInv'
<1> USE DEF QuotaInv
<1> DEFINE r == [tx[t] EXCEPT !.todo = @ \ {m}, !.done = @ \cup {m}]
<1>1. /\ Goto(t, r) /\ UNCHANGED <<purpose, quota, row, links, disturbed>>
      /\ object' = [object EXCEPT ![m] = "gone"]
      /\ tx[t].pc = "erase" /\ m \in tx[t].todo
  BY DEF delete_object, scene
<1>2. tx[t] \in [pc : {"erase"}, todo : SUBSET Media, done : SUBSET Media]
  <2>1. tx[t] \in OpenTx \cup {Idle}
    BY DEF TypeOK
  <2> QED  BY <1>1, <2>1 DEF OpenTx, Idle
<1>3. r.pc = "erase" /\ r.todo = tx[t].todo \ {m} /\ r.done = tx[t].done \cup {m} /\ r \in OpenTx
  BY <1>2 DEF OpenTx
<1>4. TypeOK'
  BY <1>1, <1>3, GotoType DEF TypeOK
<1>5. tx'[t] = r /\ \A s \in Txs \ {t} : tx'[s] = tx[s]
  BY <1>1, GotoFrame
<1> HIDE DEF r
<1>6. Known' = Known /\ LiveRows' = LiveRows
  BY <1>1 DEF Known, LiveRows, Live
<1>7. object'[m] = "gone" /\ \A x \in Media \ {m} : object'[x] = object[x]
  BY <1>1 DEF TypeOK
<1>8. m \in Known
  BY <1>1 DEF KnownMedia
<1>9. RowsHaveObjects'
  BY <1>1, <1>6, <1>7 DEF RowsHaveObjects, Known
<1>10. OneUpload'
  BY <1>3, <1>5 DEF OneUpload, HoldsOwner
<1>11. ASSUME NEW s \in Txs PROVE UploadRequest(s)' /\ KnownMedia(s)'
  <2>1. CASE s = t
    <3>1. KnownMedia(t)
      OBVIOUS
    <3>2. tx[t].done \subseteq Media
      BY <1>2
    <3> QED  BY <1>1, <1>3, <1>5, <1>6, <1>7, <1>8, <2>1, <3>1, <3>2
         DEF UploadRequest, KnownMedia, Attaching, HoldsOwner
  <2>2. CASE s # t
    <3>1. KnownMedia(s) /\ UploadRequest(s) /\ tx'[s] = tx[s]
      BY <1>5, <2>2
    <3>2. HoldsOwner(s) => tx[s].media # m /\ tx[s].media \in Media
      BY <1>8, <3>1, TxFields DEF UploadRequest, HoldsOwner
    <3>3. tx[s].pc = "erase" => tx[s].done \subseteq Media
      BY TxFields
    <3> QED  BY <1>1, <1>6, <1>7, <3>1, <3>2, <3>3 DEF UploadRequest, KnownMedia, Attaching, HoldsOwner
  <2> QED  BY <2>1, <2>2
<1> QED  BY <1>1, <1>4, <1>6, <1>9, <1>10, <1>11 DEF QuotaHolds

\* The commits that write rows add none.
LEMMA RowsWritten ==
  ASSUME QuotaInv, TypeOK', NEW t \in Txs, Goto(t, Idle), UNCHANGED <<quota, object>>,
         Known' = Known, LiveRows' \subseteq LiveRows, RowsHaveObjects'
  PROVE QuotaInv'
<1> USE DEF QuotaInv
<1>1. tx'[t] = Idle /\ \A s \in Txs \ {t} : tx'[s] = tx[s]
  BY GotoFrame
<1>2. OneUpload'
  BY <1>1 DEF OneUpload, HoldsOwner, Idle
<1>3. IsFiniteSet(LiveRows') /\ Cardinality(LiveRows') <= Cardinality(LiveRows)
  BY FS_Subset
<1>4. Cardinality(LiveRows') \in Nat /\ Cardinality(LiveRows) \in Nat /\ quota \in Nat
  BY <1>3, FS_CardinalityType, QuotasAssumption DEF TypeOK
<1>5. QuotaHolds'
  BY <1>3, <1>4 DEF QuotaHolds
<1>6. ASSUME NEW s \in Txs PROVE UploadRequest(s)' /\ KnownMedia(s)'
  <2>1. CASE s = t
    BY <1>1, <2>1 DEF UploadRequest, KnownMedia, Attaching, HoldsOwner, Idle
  <2>2. CASE s # t
    <3>1. KnownMedia(s) /\ UploadRequest(s) /\ tx'[s] = tx[s]
      BY <1>1, <2>2
    <3>2. KnownMedia(s)'
      BY <3>1 DEF KnownMedia, Attaching
    <3>3. UploadRequest(s)'
      BY <1>3, <1>4, <3>1 DEF UploadRequest, HoldsOwner
    <3> QED  BY <3>2, <3>3
  <2> QED  BY <2>1, <2>2
<1> QED  BY <1>2, <1>3, <1>5, <1>6

LEMMA CommitAttachKept ==
  ASSUME QuotaInv, NEW t \in Txs, CommitAttach(t) PROVE QuotaInv'
<1> USE DEF QuotaInv
<1>1. /\ Goto(t, Idle) /\ UNCHANGED <<purpose, quota, object>>
      /\ Attaching(t)
      /\ links' = [links EXCEPT ![tx[t].to] =
                     IF tx[t].to \in Slots THEN IF tx[t].new = tx[t].had THEN @ ELSE tx[t].new
                     ELSE (@ \ tx[t].cut) \cup tx[t].new]
      /\ CountOverlaps(t)
  BY DEF CommitAttach, Attaching, scene
<1>2. tx[t].new \subseteq Known /\ tx[t].new \subseteq Media /\ tx[t].to \in Containers
  BY <1>1, TxFields DEF KnownMedia
<1>3. \A c \in Containers : links'[c] \subseteq links[c] \cup tx[t].new
  BY <1>1, <1>2 DEF TypeOK
<1>4. disturbed' \subseteq Media
  BY <1>1, TouchedMedia DEF CountOverlaps, TypeOK
<1>5. TypeOK'
  <2>1. links' \in [Containers -> SUBSET Media]
    BY <1>1, <1>2 DEF TypeOK
  <2> QED  BY <1>1, <1>4, <2>1, AttachRows, GotoType DEF TypeOK
<1>6. RowsHaveObjects'
  <2>1. Known' = Known /\ LiveRows' = LiveRows /\ object' = object
    BY <1>1, AttachRows
  <2>2. \A m \in Known : row'[m].deleted = row[m].deleted
    BY AttachRows
  <2>3. \A m \in LiveRows : row'[m].status # "deleted"
    <3>1. LiveRows \subseteq Known
      BY DEF LiveRows, Live, Known
    <3>2. \A m \in LiveRows : row'[m].status \in {"attached", "uploaded", row[m].status}
      BY <3>1, AttachRows DEF Known
    <3> QED  BY <3>2 DEF RowsHaveObjects
  <2>4. \A c \in Containers : links'[c] \subseteq Known
    BY <1>2, <1>3 DEF RowsHaveObjects
  <2> QED  BY <2>1, <2>2, <2>3, <2>4 DEF RowsHaveObjects
<1> QED  BY <1>1, <1>5, <1>6, AttachRows, RowsWritten

LEMMA CommitEraseKept ==
  ASSUME QuotaInv, NEW t \in Txs, CommitErase(t) PROVE QuotaInv'
<1> USE DEF QuotaInv
<1>1. /\ Goto(t, Idle) /\ UNCHANGED <<purpose, quota, object, links>>
      /\ tx[t].pc = "erase" /\ CountOverlaps(t)
  BY DEF CommitErase, scene
<1>2. TypeOK'
  <2>1. disturbed' \subseteq Media
    BY <1>1, TouchedMedia DEF CountOverlaps, TypeOK
  <2> QED  BY <1>1, <2>1, EraseRows, GotoType DEF TypeOK
<1>3. RowsHaveObjects'
  <2>1. Known' = Known /\ LiveRows' \subseteq LiveRows /\ object' = object /\ links' = links
    BY <1>1, EraseRows
  <2>2. \A m \in tx[t].done : object[m] = "gone" /\ m \in Media
    BY <1>1, TxFields DEF KnownMedia
  <2>3. ASSUME NEW m \in Known, row'[m].deleted PROVE object[m] = "gone"
    BY <2>2, <2>3, EraseRows DEF RowsHaveObjects, Known
  <2>4. ASSUME NEW m \in LiveRows' PROVE row'[m].status # "deleted"
    <3>1. m \notin tx[t].done
      BY <2>4, EraseRows DEF LiveRows, Live
    <3>2. row'[m] = row[m] /\ m \in LiveRows
      BY <2>1, <3>1, EraseRows DEF LiveRows
    <3> QED  BY <3>2 DEF RowsHaveObjects
  <2> QED  BY <2>1, <2>3, <2>4 DEF RowsHaveObjects
<1> QED  BY <1>1, <1>2, <1>3, EraseRows, RowsWritten

LEMMA QuotaInvKept ==
  ASSUME QuotaInv, [Next]_vars PROVE QuotaInv'
<1>1. CASE UNCHANGED vars
  <2>1. UNCHANGED <<purpose, quota, object, row, links, tx, disturbed>>
    BY <1>1 DEF vars, scene
  <2> QED  BY <2>1 DEF QuotaInv, TypeOK, Purposes, RowsHaveObjects, Known, LiveRows, Live, OneUpload, HoldsOwner, QuotaHolds,
    UploadRequest, KnownMedia, Attaching
<1> QED  BY <1>1, StepCases, UploadKept, CommitUploadKept, FlushFailsKept, QuietKept, EmptyKept,
  CommitAttachKept, DeleteObjectKept, CommitEraseKept

LEMMA QuotaInvInit == Init => QuotaInv
<1> SUFFICES ASSUME Init PROVE QuotaInv
  OBVIOUS
<1>1. Known = {} /\ LiveRows = {}
  BY DEF Init, Known, LiveRows, Live
<1>2. IsFiniteSet({}) /\ Cardinality({}) = 0
  BY FS_EmptySet
<1>3. quota \in Nat
  BY QuotasAssumption DEF Init
<1>4. RowsHaveObjects
  BY <1>1 DEF Init, RowsHaveObjects
<1>5. ASSUME NEW t \in Txs PROVE ~HoldsOwner(t) /\ UploadRequest(t) /\ KnownMedia(t)
  BY DEF Init, Idle, HoldsOwner, UploadRequest, KnownMedia, Attaching
<1> QED  BY <1>1, <1>2, <1>3, <1>4, <1>5, InitType DEF QuotaInv, QuotaHolds, OneUpload


-----------------------------------------------------------------------------
(* MediaLifecycle implements MediaStore. *)

LEMMA StoreSteps ==
  ASSUME QuotaInv, [Next]_vars PROVE [Store!Next]_(Store!vars)
<1> USE DEF QuotaInv
<1> DEFINE shown == [m \in Media |-> IF row[m] = NoRow THEN "none"
                                     ELSE IF row[m].deleted THEN "deleted" ELSE "live"]
<1>1. ASSUME UNCHANGED <<object, row>> PROVE UNCHANGED Store!vars
  BY <1>1 DEF Store!vars
<1>2. ASSUME NEW t \in Txs, NEW m \in Media, upload_media(t, m) PROVE Store!Store(m)
  BY <1>2 DEF upload_media, Store!Store
<1>3. ASSUME NEW t \in Txs, CommitUpload(t) PROVE \E m \in Media : Store!Register(m)
  <2> DEFINE new == [status |-> "uploaded", deleted |-> FALSE]
  <2> PICK m \in Media : m = tx[t].media
    BY <1>3, TxFields DEF CommitUpload
  <2>1. object[m] = "stored" /\ row[m] = NoRow /\ object' = object /\ row' = [row EXCEPT ![m] = new]
    BY <1>3 DEF CommitUpload, UploadRequest, HoldsOwner, Known
  <2>2. new # NoRow /\ ~new.deleted
    BY DEF NoRow
  <2> HIDE DEF new
  <2>3. shown[m] = "none" /\ shown' = [shown EXCEPT ![m] = "live"]
    BY <2>1, <2>2 DEF TypeOK
  <2> QED  BY <2>1, <2>3 DEF Store!Register
<1>4. ASSUME NEW t \in Txs, FlushFails(t) PROVE \E m \in Media : Store!Erase(m)
  <2> PICK m \in Media : m = tx[t].media
    BY <1>4, TxFields DEF FlushFails
  <2>1. object[m] = "stored"
    BY <1>4 DEF FlushFails, UploadRequest, HoldsOwner
  <2> QED  BY <1>4, <2>1 DEF FlushFails, Store!Erase
<1>5. ASSUME NEW t \in Txs, NEW m \in Media, delete_object(t, m) PROVE Store!Erase(m) \/ UNCHANGED Store!vars
  <2>1. object' = [object EXCEPT ![m] = "gone"] /\ row' = row
    BY <1>5 DEF delete_object
  <2>2. object[m] \in {"stored", "gone"}
    BY <1>5 DEF delete_object, KnownMedia, RowsHaveObjects, TypeOK
  <2>3. CASE object[m] = "stored"
    BY <2>1, <2>3 DEF Store!Erase
  <2>4. CASE object[m] = "gone"
    <3>1. object' = object
      BY <2>1, <2>4 DEF TypeOK
    <3> QED  BY <1>1, <2>1, <3>1
  <2> QED  BY <2>2, <2>3, <2>4
<1>6. ASSUME NEW t \in Txs, CommitAttach(t) PROVE UNCHANGED Store!vars
  <2>1. \A m \in Media : /\ row'[m] = NoRow <=> row[m] = NoRow
                         /\ row[m] # NoRow => row'[m].deleted = row[m].deleted
    BY <1>6, AttachRows, RowFields DEF Known
  <2>2. shown' = shown
    BY <2>1
  <2>3. object' = object
    BY <1>6 DEF CommitAttach
  <2> QED  BY <2>2, <2>3 DEF Store!vars
<1>7. ASSUME NEW t \in Txs, CommitErase(t) PROVE \E S \in SUBSET Media : Store!Retire(S)
  <2> PICK S \in SUBSET Media : S = tx[t].done
    BY <1>7, TxFields DEF CommitErase
  <2>1. S \subseteq Media /\ S \subseteq Known /\ \A m \in S : object[m] = "gone"
    BY <1>7, TxFields DEF CommitErase, KnownMedia
  <2>2. \A m \in S : row'[m] # NoRow /\ row'[m].deleted
    BY <1>7, EraseRows DEF NoRow
  <2>3. \A m \in Media : m \notin S => row'[m] = row[m]
    BY <1>7, EraseRows
  <2>4. object' = object
    BY <1>7 DEF CommitErase
  <2>5. shown' = [m \in Media |-> IF m \in S THEN "deleted" ELSE shown[m]]
    BY <2>2, <2>3
  <2>6. \A m \in S : shown[m] # "none"
    BY <2>1 DEF Known
  <2>7. Store!Retire(S)
    BY <2>1, <2>4, <2>5, <2>6 DEF Store!Retire
  <2> QED  BY <2>7
<1>8. ASSUME NEW t \in Txs, StartAttach(t) \/ DeletePostMedia(t) \/ StartErase(t) \/ Rollback(t)
      PROVE UNCHANGED Store!vars
  BY <1>1, <1>8 DEF StartAttach, Load, DeletePostMedia, StartErase, Rollback
<1>9. ASSUME NEW C \in SUBSET Containers, Empty(C) PROVE UNCHANGED Store!vars
  BY <1>1, <1>9 DEF Empty
<1>10. CASE UNCHANGED vars
  BY <1>1, <1>10 DEF vars
<1> QED  BY <1>2, <1>3, <1>4, <1>5, <1>6, <1>7, <1>8, <1>9, <1>10, StepCases DEF Store!Next


-----------------------------------------------------------------------------
(* What nobody disturbs. *)

Calm(S) == S \ disturbed

\* Of calm media: what is linked is attached, what is attached is linked once,
\* and an object is missing only under a deletion that is on its way.
CalmRows ==
  \A m \in Calm(Known) :
    /\ Linked(m) # {} => Live(m) /\ row[m].status = "attached"
    /\ Live(m) /\ row[m].status = "attached" => \E c \in Containers : Linked(m) = {c}
    /\ Live(m) /\ object[m] # "stored" => \E t \in Txs : tx[t].pc = "erase" /\ m \in tx[t].done

\* What a request has loaded of calm media is so still, and it will give back
\* what it takes away.
CalmAttach(t) ==
  Attaching(t) =>
    /\ Calm(tx[t].new) \subseteq Uploads
    /\ Calm(tx[t].had) = Calm(links[tx[t].to])
    /\ Calm(tx[t].had) \subseteq tx[t].reset
    /\ tx[t].pc = "ready" /\ tx[t].to \in Posts => Calm(tx[t].had) \subseteq tx[t].cut
    /\ tx[t].to \in Messages => tx[t].had = {}

CalmErase(t) ==
  tx[t].pc = "erase" => Calm(tx[t].todo \cup tx[t].done) \subseteq Uploads

CalmInv ==
  /\ QuotaInv /\ CalmRows
  /\ \A t \in Txs : CalmAttach(t) /\ CalmErase(t)

\* An upload that is calm is linked nowhere.
LEMMA UploadsUnlinked ==
  ASSUME CalmInv, NEW m \in Calm(Uploads) PROVE \A c \in Containers : m \notin links[c]
<1>1. m \in Calm(Known) /\ Linked(m) = {}
  BY DEF CalmInv, CalmRows, Calm, Uploads, LiveRows, Live, Known
<1> QED  BY <1>1 DEF Linked

LEMMA CalmBegins ==
  ASSUME CalmInv, NEW t \in Txs, StartAttach(t) \/ DeletePostMedia(t) \/ StartErase(t) PROVE CalmInv'
<1> USE DEF CalmInv
<1>1. QuotaInv'
  BY QuietKept
<1>2. UNCHANGED <<object, row, links, disturbed>> /\ \A s \in Txs \ {t} : tx'[s] = tx[s]
  <2>1. TypeOK
    BY DEF QuotaInv
  <2>2. UNCHANGED <<object, row, links, disturbed>>
    BY DEF StartAttach, Load, DeletePostMedia, StartErase
  <2>3. \E r : Goto(t, r)
    BY Zenon DEF StartAttach, Load, DeletePostMedia, StartErase
  <2> QED  BY <2>1, <2>2, <2>3, GotoFrame
<1>3. Known' = Known /\ Uploads' = Uploads /\ \A m : Linked(m)' = Linked(m)
  BY <1>2 DEF Known, Uploads, LiveRows, Live, Linked
<1>4. tx[t].pc # "erase"
  <2>1. tx[t] = Idle \/ tx[t].pc = "loaded"
    BY DEF StartAttach, Load, DeletePostMedia, StartErase
  <2> QED  BY <2>1, IdleFields
<1>5. CalmRows'
  BY <1>2, <1>3, <1>4 DEF CalmRows, Calm, Live
<1>6. ASSUME NEW s \in Txs, s # t PROVE CalmAttach(s)' /\ CalmErase(s)'
  <2>1. tx'[s] = tx[s] /\ CalmAttach(s) /\ CalmErase(s)
    BY <1>2, <1>6
  <2> QED  BY <1>2, <1>3, <2>1 DEF CalmAttach, CalmErase, Calm, Attaching
<1>7. CASE StartAttach(t)
  <2> PICK c \in Containers, new \in SUBSET Media, pc \in {"loaded", "ready"} :
        /\ Load(t, c, new, pc)
        /\ c \in Posts => pc = "loaded"
        /\ c \in Messages => links[c] = {}
    BY <1>7, ContainersAssumption DEF StartAttach
  <2>1. /\ tx'[t] = [pc |-> pc, to |-> c, new |-> new, had |-> links[c],
                     reset |-> {m \in links[c] : row[m].status # "uploaded"}, cut |-> {}]
        /\ new \subseteq Uploads
    BY GotoFrame DEF Load, QuotaInv
  <2>2. ASSUME NEW m \in Calm(links[c]) PROVE row[m].status # "uploaded"
    <3>1. m \in Calm(Known) /\ c \in Linked(m)
      BY <2>2 DEF Calm, QuotaInv, RowsHaveObjects, Linked
    <3> QED  BY <3>1 DEF CalmRows
  <2>3. CalmAttach(t)'
    BY <1>2, <1>3, <2>1, <2>2 DEF CalmAttach, Calm, Attaching
  <2>4. CalmErase(t)'
    BY <2>1 DEF CalmErase
  <2> QED  BY <1>1, <1>5, <1>6, <2>3, <2>4
<1>8. CASE DeletePostMedia(t)
  <2>1. /\ tx'[t] = [tx[t] EXCEPT !.pc = "ready", !.cut = links[tx[t].to]]
        /\ tx[t].pc = "loaded" /\ tx[t] \in OpenTx \cup {Idle}
    BY <1>8, GotoFrame DEF DeletePostMedia, QuotaInv, TypeOK
  <2>2. tx[t] \in [pc : {"loaded", "ready"}, to : Containers, new : SUBSET Media,
                   had : SUBSET Media, reset : SUBSET Media, cut : SUBSET Media]
    BY <2>1 DEF OpenTx, Idle
  <2>3. /\ tx'[t].pc = "ready" /\ tx'[t].to = tx[t].to /\ tx'[t].new = tx[t].new
        /\ tx'[t].had = tx[t].had /\ tx'[t].reset = tx[t].reset /\ tx'[t].cut = links[tx[t].to]
    BY <2>1, <2>2
  <2>4. CalmAttach(t) /\ Attaching(t)
    BY <2>1 DEF Attaching
  <2>5. CalmAttach(t)' /\ CalmErase(t)'
    BY <1>2, <1>3, <2>3, <2>4 DEF CalmAttach, CalmErase, Calm, Attaching
  <2> QED  BY <1>1, <1>5, <1>6, <2>5
<1>9. CASE StartErase(t)
  <2> PICK S \in SUBSET Uploads : Goto(t, [pc |-> "erase", todo |-> S, done |-> {}])
    BY <1>9 DEF StartErase
  <2>1. tx'[t] = [pc |-> "erase", todo |-> S, done |-> {}]
    BY GotoFrame DEF QuotaInv
  <2>2. CalmAttach(t)' /\ CalmErase(t)'
    BY <1>3, <2>1 DEF CalmAttach, CalmErase, Calm, Attaching
  <2> QED  BY <1>1, <1>5, <1>6, <2>2
<1> QED  BY <1>7, <1>8, <1>9

\* Uploads that begin, end or fail.
LEMMA CalmUpload ==
  ASSUME CalmInv, NEW t \in Txs,
         (\E m \in Media : upload_media(t, m)) \/ CommitUpload(t) \/ FlushFails(t)
  PROVE CalmInv'
<1> USE DEF CalmInv
<1>1. QuotaInv'
  BY UploadKept, CommitUploadKept, FlushFailsKept
<1>2. UNCHANGED <<links, disturbed>> /\ \A s \in Txs \ {t} : tx'[s] = tx[s]
  BY GotoFrame DEF upload_media, CommitUpload, FlushFails, QuotaInv
<1>3. tx[t].pc # "erase" /\ ~Attaching(t)' /\ tx'[t].pc # "erase"
  <2>1. TypeOK
    BY DEF QuotaInv
  <2>2. tx[t] = Idle \/ tx[t].pc = "stored"
    BY DEF upload_media, CommitUpload, FlushFails
  <2>3. ASSUME NEW m \in Media, upload_media(t, m) PROVE tx'[t].pc = "stored"
    <3>1. tx'[t] = [pc |-> "stored", media |-> m]
      BY <2>1, <2>3, GotoFrame DEF upload_media
    <3> QED  BY <3>1
  <2>4. ASSUME CommitUpload(t) \/ FlushFails(t) PROVE tx'[t] = Idle
    BY <2>1, <2>4, GotoFrame DEF CommitUpload, FlushFails
  <2> QED  BY <2>2, <2>3, <2>4, IdleFields DEF Attaching
<1>4. \A m \in Known : row'[m] = row[m] /\ object'[m] = object[m]
  <2>1. ASSUME NEW m \in Media, upload_media(t, m) PROVE \A x \in Known : row'[x] = row[x] /\ object'[x] = object[x]
    BY <2>1 DEF upload_media, QuotaInv, TypeOK, RowsHaveObjects, Known
  <2>2. CASE CommitUpload(t) \/ FlushFails(t)
    BY <2>2 DEF CommitUpload, FlushFails, QuotaInv, TypeOK, UploadRequest, HoldsOwner, Known
  <2> QED  BY <2>1, <2>2
<1>5. ASSUME NEW m \in Known', m \notin Known
      PROVE row'[m].status = "uploaded" /\ Live(m)' /\ object'[m] = "stored" /\ Linked(m)' = {}
  <2>1. row' # row
    BY <1>5 DEF Known
  <2>2. CommitUpload(t)
    BY <2>1 DEF upload_media, FlushFails
  <2>3. /\ tx[t].media = m /\ m \in Media
        /\ row'[m] = [status |-> "uploaded", deleted |-> FALSE]
    BY <1>5, <2>2 DEF CommitUpload, QuotaInv, TypeOK, Known
  <2>4. object'[m] = "stored"
    BY <2>2, <2>3 DEF CommitUpload, QuotaInv, UploadRequest, HoldsOwner
  <2>5. Linked(m)' = {}
    BY <1>2, <1>5 DEF Linked, QuotaInv, RowsHaveObjects
  <2>6. row'[m] # NoRow /\ ~row'[m].deleted
    BY <2>3 DEF NoRow
  <2>7. Live(m)'
    BY <2>6 DEF Live
  <2> QED  BY <2>3, <2>4, <2>5, <2>7
<1>6. CalmRows'
  <2> SUFFICES ASSUME NEW m \in Calm(Known)'
               PROVE (/\ Linked(m) # {} => Live(m) /\ row[m].status = "attached"
                      /\ Live(m) /\ row[m].status = "attached" => \E c \in Containers : Linked(m) = {c}
                      /\ Live(m) /\ object[m] # "stored" => \E s \in Txs : tx[s].pc = "erase" /\ m \in tx[s].done)'
    BY DEF CalmRows
  <2>1. CASE m \notin Known
    BY <1>5, <2>1 DEF Calm
  <2>2. CASE m \in Known
    <3>1. m \in Calm(Known) /\ row'[m] = row[m] /\ object'[m] = object[m] /\ Linked(m)' = Linked(m)
      BY <1>2, <1>4, <2>2 DEF Calm, Linked
    <3>2. Live(m)' = Live(m)
      BY <3>1 DEF Live
    <3> QED  BY <1>2, <1>3, <3>1, <3>2 DEF CalmRows
  <2> QED  BY <2>1, <2>2
<1>7. Uploads \subseteq Uploads'
  BY <1>4 DEF Uploads, LiveRows, Live, Known
<1>8. ASSUME NEW s \in Txs PROVE CalmAttach(s)' /\ CalmErase(s)'
  <2>1. CASE s = t
    BY <1>3, <2>1 DEF CalmAttach, CalmErase
  <2>2. CASE s # t
    <3>1. tx'[s] = tx[s] /\ CalmAttach(s) /\ CalmErase(s)
      BY <1>2, <2>2
    <3> QED  BY <1>2, <1>7, <3>1 DEF CalmAttach, CalmErase, Calm, Attaching
  <2> QED  BY <2>1, <2>2
<1> QED  BY <1>1, <1>6, <1>8


LEMMA CalmDeletes ==
  ASSUME CalmInv, NEW t \in Txs, NEW m \in Media, delete_object(t, m) PROVE CalmInv'
<1> USE DEF CalmInv
<1>1. QuotaInv'
  BY DeleteObjectKept
<1>2. /\ UNCHANGED <<row, links, disturbed>> /\ object' = [object EXCEPT ![m] = "gone"]
      /\ Goto(t, [tx[t] EXCEPT !.todo = @ \ {m}, !.done = @ \cup {m}])
      /\ tx[t].pc = "erase" /\ m \in tx[t].todo /\ TypeOK
  BY DEF delete_object, QuotaInv
<1>3. tx[t] \in [pc : {"erase"}, todo : SUBSET Media, done : SUBSET Media]
  <2>1. tx[t] \in OpenTx \cup {Idle}
    BY <1>2 DEF TypeOK
  <2> QED  BY <1>2, <2>1 DEF OpenTx, Idle
<1>4. /\ tx'[t].pc = "erase" /\ tx'[t].todo = tx[t].todo \ {m} /\ tx'[t].done = tx[t].done \cup {m}
      /\ \A s \in Txs \ {t} : tx'[s] = tx[s]
  <2>1. /\ tx'[t] = [tx[t] EXCEPT !.todo = @ \ {m}, !.done = @ \cup {m}]
        /\ \A s \in Txs \ {t} : tx'[s] = tx[s]
    BY <1>2, GotoFrame
  <2> QED  BY <1>3, <2>1
<1>5. Known' = Known /\ Uploads' = Uploads /\ \A x : Linked(x)' = Linked(x)
  BY <1>2 DEF Known, Uploads, LiveRows, Live, Linked
<1>6. CalmRows'
  <2> SUFFICES ASSUME NEW x \in Calm(Known)
               PROVE (/\ Linked(x) # {} => Live(x) /\ row[x].status = "attached"
                      /\ Live(x) /\ row[x].status = "attached" => \E c \in Containers : Linked(x) = {c}
                      /\ Live(x) /\ object[x] # "stored" => \E s \in Txs : tx[s].pc = "erase" /\ x \in tx[s].done)'
    BY <1>2, <1>5 DEF CalmRows, Calm
  <2>1. Live(x)' = Live(x) /\ row'[x] = row[x] /\ Linked(x)' = Linked(x)
    BY <1>2, <1>5 DEF Live
  <2>2. ASSUME Live(x), object'[x] # "stored" PROVE \E s \in Txs : tx'[s].pc = "erase" /\ x \in tx'[s].done
    <3>1. CASE x = m
      BY <1>4, <3>1
    <3>2. CASE x # m
      <4>1. object'[x] = object[x]
        BY <1>2, <3>2 DEF TypeOK, Calm, Known
      <4>2. PICK s \in Txs : tx[s].pc = "erase" /\ x \in tx[s].done
        BY <2>2, <4>1 DEF CalmRows
      <4> QED  BY <1>4, <4>2
    <3> QED  BY <3>1, <3>2
  <2> QED  BY <2>1, <2>2 DEF CalmRows
<1>7. ASSUME NEW s \in Txs PROVE CalmAttach(s)' /\ CalmErase(s)'
  <2>1. CASE s = t
    <3>1. CalmErase(t)
      OBVIOUS
    <3> QED  BY <1>2, <1>4, <1>5, <2>1, <3>1 DEF CalmAttach, CalmErase, Calm, Attaching
  <2>2. CASE s # t
    <3>1. tx'[s] = tx[s] /\ CalmAttach(s) /\ CalmErase(s)
      BY <1>4, <2>2
    <3> QED  BY <1>2, <1>5, <3>1 DEF CalmAttach, CalmErase, Calm, Attaching
  <2> QED  BY <2>1, <2>2
<1> QED  BY <1>1, <1>6, <1>7

LEMMA CalmFails ==
  ASSUME CalmInv, NEW t \in Txs, Rollback(t) PROVE CalmInv'
<1> USE DEF CalmInv
<1>1. QuotaInv'
  BY QuietKept
<1>2. /\ UNCHANGED <<object, row, links>> /\ Goto(t, Idle) /\ TypeOK
      /\ disturbed' = IF tx[t].pc = "erase" THEN disturbed \cup tx[t].done ELSE disturbed
  BY DEF Rollback, QuotaInv
<1>3. tx'[t] = Idle /\ \A s \in Txs \ {t} : tx'[s] = tx[s]
  BY <1>2, GotoFrame
<1>4. disturbed \subseteq disturbed'
  BY <1>2
<1>5. Known' = Known /\ Uploads' = Uploads /\ \A x : Linked(x)' = Linked(x) /\ Live(x)' = Live(x)
  BY <1>2 DEF Known, Uploads, LiveRows, Live, Linked
<1>6. CalmRows'
  <2> SUFFICES ASSUME NEW x \in Calm(Known), x \notin disturbed'
               PROVE (/\ Linked(x) # {} => Live(x) /\ row[x].status = "attached"
                      /\ Live(x) /\ row[x].status = "attached" => \E c \in Containers : Linked(x) = {c}
                      /\ Live(x) /\ object[x] # "stored" => \E s \in Txs : tx[s].pc = "erase" /\ x \in tx[s].done)'
    BY <1>4, <1>5 DEF CalmRows, Calm
  <2>1. ASSUME Live(x), object[x] # "stored" PROVE \E s \in Txs : tx'[s].pc = "erase" /\ x \in tx'[s].done
    <3>1. PICK s \in Txs : tx[s].pc = "erase" /\ x \in tx[s].done
      BY <2>1 DEF CalmRows
    <3>2. s # t
      BY <1>2, <3>1
    <3> QED  BY <1>3, <3>1, <3>2
  <2> QED  BY <1>2, <1>5, <2>1 DEF CalmRows
<1>7. ASSUME NEW s \in Txs PROVE CalmAttach(s)' /\ CalmErase(s)'
  <2>1. CASE s = t
    BY <1>3, <2>1, IdleFields DEF CalmAttach, CalmErase, Attaching
  <2>2. CASE s # t
    <3>1. tx'[s] = tx[s] /\ CalmAttach(s) /\ CalmErase(s)
      BY <1>3, <2>2
    <3> QED  BY <1>2, <1>4, <1>5, <3>1 DEF CalmAttach, CalmErase, Calm, Attaching
  <2> QED  BY <2>1, <2>2
<1> QED  BY <1>1, <1>6, <1>7

LEMMA CalmEmpties ==
  ASSUME CalmInv, NEW C \in SUBSET Containers, Empty(C) PROVE CalmInv'
<1> USE DEF CalmInv
<1>1. QuotaInv'
  BY EmptyKept
<1>2. /\ UNCHANGED <<object, row, tx>>
      /\ links' = [c \in Containers |-> IF c \in C THEN {} ELSE links[c]]
      /\ disturbed' = disturbed \cup UNION {links[c] : c \in C}
  BY DEF Empty
<1>3. Known' = Known /\ Uploads' = Uploads /\ \A x : Live(x)' = Live(x)
  BY <1>2 DEF Known, Uploads, LiveRows, Live
<1>4. disturbed \subseteq disturbed' /\ \A c \in C : links[c] \subseteq disturbed'
  BY <1>2
<1>5. \A c \in Containers : links'[c] \ disturbed' = links[c] \ disturbed'
  BY <1>2, <1>4
<1>6. \A x : x \notin disturbed' => Linked(x)' = Linked(x)
  BY <1>2, <1>4 DEF Linked
<1>7. CalmRows'
  BY <1>2, <1>3, <1>4, <1>6 DEF CalmRows, Calm
<1>8. ASSUME NEW s \in Txs PROVE CalmAttach(s)' /\ CalmErase(s)'
  <2>1. CalmAttach(s) /\ CalmErase(s) /\ (Attaching(s) => tx[s].to \in Containers)
    BY TxFields DEF QuotaInv
  <2>2. CalmErase(s)'
    BY <1>2, <1>3, <1>4, <2>1 DEF CalmErase, Calm
  <2>3. Attaching(s) => tx[s].had \ disturbed' = links'[tx[s].to] \ disturbed'
    BY <1>4, <1>5, <2>1 DEF CalmAttach, Calm
  <2>4. CalmAttach(s)'
    BY <1>2, <1>3, <1>4, <2>1, <2>3 DEF CalmAttach, Calm, Attaching
  <2> QED  BY <2>2, <2>4
<1> QED  BY <1>1, <1>7, <1>8

-----------------------------------------------------------------------------
(* The commits that count overlaps. *)

LEMMA Overlaps ==
  ASSUME NEW t \in Txs, CountOverlaps(t)
  PROVE /\ disturbed \subseteq disturbed'
        /\ \A s \in Txs \ {t} : Meet(s, t) => Touched(s) \cup Touched(t) \subseteq disturbed'
BY DEF CountOverlaps

\* Another request either has met the one that commits, and nothing that it
\* touches is calm, or it finds all of it as it was.
LEMMA OthersCalm ==
  ASSUME CalmInv, NEW t \in Txs, CountOverlaps(t), NEW s \in Txs \ {t}, tx'[s] = tx[s],
         \A m \in Media \ Touched(t) : row'[m] = row[m],
         \A c \in Containers :
           links'[c] = links[c] \/ (Attaching(t) /\ c = tx[t].to /\ links'[c] \subseteq Touched(t))
  PROVE CalmAttach(s)' /\ CalmErase(s)'
<1> USE DEF CalmInv
<1>1. disturbed \subseteq disturbed' /\ (Meet(s, t) => Touched(s) \cup Touched(t) \subseteq disturbed')
  BY Overlaps
<1>2. \A m \in Uploads : m \notin Touched(t) => m \in Uploads'
  BY DEF Uploads, LiveRows, Live
<1>3. CalmAttach(s) /\ CalmErase(s) /\ (Attaching(s) => tx[s].to \in Containers)
  BY TxFields DEF QuotaInv
<1>4. CalmErase(s)'
  <2> SUFFICES ASSUME tx[s].pc = "erase", NEW m \in tx[s].todo \cup tx[s].done, m \notin disturbed'
               PROVE m \in Uploads'
    BY DEF CalmErase, Calm
  <2>1. m \in Touched(s)
    BY DEF Touched, Attaching
  <2>2. m \notin Touched(t)
    BY <1>1, <2>1 DEF Meet
  <2> QED  BY <1>1, <1>2, <1>3, <2>2 DEF CalmErase, Calm
<1>5. CalmAttach(s)'
  <2> SUFFICES ASSUME Attaching(s)
               PROVE /\ tx[s].new \ disturbed' \subseteq Uploads'
                     /\ tx[s].had \ disturbed' = links'[tx[s].to] \ disturbed'
                     /\ tx[s].had \ disturbed' \subseteq tx[s].reset
                     /\ tx[s].pc = "ready" /\ tx[s].to \in Posts => tx[s].had \ disturbed' \subseteq tx[s].cut
                     /\ tx[s].to \in Messages => tx[s].had = {}
    BY DEF CalmAttach, Calm, Attaching
  <2>1. tx[s].new \cup tx[s].had \cup links[tx[s].to] \subseteq Touched(s)
    BY DEF Touched
  <2>2. CASE Meet(s, t)
    <3>1. links'[tx[s].to] \subseteq disturbed'
      BY <1>1, <1>3, <2>1, <2>2
    <3> QED  BY <1>1, <1>3, <2>1, <2>2, <3>1 DEF CalmAttach
  <2>3. CASE ~Meet(s, t)
    <3>1. links'[tx[s].to] = links[tx[s].to] /\ Touched(s) \cap Touched(t) = {}
      BY <1>3, <2>3 DEF Meet
    <3>2. tx[s].new \ disturbed' \subseteq Uploads'
      BY <1>1, <1>2, <1>3, <2>1, <3>1 DEF CalmAttach, Calm
    <3> QED  BY <1>1, <1>3, <3>1, <3>2 DEF CalmAttach, Calm
  <2> QED  BY <2>2, <2>3
<1> QED  BY <1>4, <1>5


LEMMA CalmAttaches ==
  ASSUME CalmInv, NEW t \in Txs, CommitAttach(t) PROVE CalmInv'
<1> USE DEF CalmInv
<1>1. QuotaInv'
  BY CommitAttachKept
<1>2. /\ Attaching(t) /\ tx[t].pc = "ready" /\ tx[t].to \in Containers
      /\ tx[t].new \subseteq Media /\ tx[t].had \subseteq Media /\ tx[t].cut \subseteq Media
      /\ tx[t].reset \subseteq tx[t].had
      /\ TypeOK /\ KnownMedia(t) /\ CalmAttach(t)
  BY TxFields DEF CommitAttach, QuotaInv, KnownMedia, Attaching
<1>3. /\ links' = [links EXCEPT ![tx[t].to] =
                     IF tx[t].to \in Slots THEN IF tx[t].new = tx[t].had THEN @ ELSE tx[t].new
                     ELSE (@ \ tx[t].cut) \cup tx[t].new]
      /\ CountOverlaps(t) /\ Goto(t, Idle) /\ object' = object
  BY DEF CommitAttach
<1>4. tx'[t] = Idle /\ \A s \in Txs \ {t} : tx'[s] = tx[s]
  BY <1>2, <1>3, GotoFrame
<1>5. disturbed \subseteq disturbed'
  BY <1>3, Overlaps
<1>6. /\ \A c \in Containers \ {tx[t].to} : links'[c] = links[c]
      /\ tx[t].to \in Slots => links'[tx[t].to] = IF tx[t].new = tx[t].had THEN links[tx[t].to] ELSE tx[t].new
      /\ tx[t].to \notin Slots => links'[tx[t].to] = (links[tx[t].to] \ tx[t].cut) \cup tx[t].new
  BY <1>2, <1>3 DEF TypeOK
<1>7. links'[tx[t].to] \subseteq links[tx[t].to] \cup tx[t].new
  BY <1>6
<1>8. /\ Known' = Known /\ LiveRows' = LiveRows
      /\ \A m \in Media : m \notin tx[t].new \cup tx[t].reset => row'[m] = row[m]
      /\ \A m \in Known : /\ m \in tx[t].new => row'[m].status = "attached"
                          /\ m \in tx[t].reset \ tx[t].new => row'[m].status = "uploaded"
  BY <1>2, AttachRows
<1>9. \A m \in Media : Live(m)' <=> Live(m)
  BY <1>8 DEF LiveRows
<1>10. CalmRows'
  <2> SUFFICES ASSUME NEW m \in Calm(Known), m \notin disturbed'
               PROVE /\ (\E c \in Containers : m \in links'[c]) => Live(m) /\ row'[m].status = "attached"
                     /\ Live(m) /\ row'[m].status = "attached" =>
                          \E c \in Containers : \A d \in Containers : m \in links'[d] <=> d = c
                     /\ Live(m) /\ object[m] # "stored" => \E s \in Txs : tx'[s].pc = "erase" /\ m \in tx'[s].done
    <3>1. \A m \in Calm(Known)' : m \in Calm(Known) /\ m \notin disturbed' /\ m \in Media
      BY <1>5, <1>8 DEF Calm, Known
    <3>2. \A m : Linked(m)' = {c \in Containers : m \in links'[c]}
      BY DEF Linked
    <3> QED  BY <1>3, <1>9, <3>1, <3>2 DEF CalmRows
  <2>1. m \in Media /\ m \in Known /\ m \notin disturbed
    BY DEF Calm, Known
  <2>2. Live(m) /\ object[m] # "stored" => \E s \in Txs : tx'[s].pc = "erase" /\ m \in tx'[s].done
    <3> SUFFICES ASSUME Live(m), object[m] # "stored"
                 PROVE \E s \in Txs : tx'[s].pc = "erase" /\ m \in tx'[s].done
      OBVIOUS
    <3>1. PICK s \in Txs : tx[s].pc = "erase" /\ m \in tx[s].done
      BY DEF CalmRows
    <3>2. s # t
      BY <1>2, <3>1
    <3> QED  BY <1>4, <3>1, <3>2
  <2>3. CASE m \in tx[t].new
    <3>1. m \in Calm(Uploads) /\ Live(m)
      BY <1>2, <2>1, <2>3 DEF CalmAttach, Calm, Uploads, LiveRows
    <3>2. \A c \in Containers : m \notin links[c]
      BY <3>1, UploadsUnlinked
    <3>3. m \notin tx[t].had
      BY <1>2, <2>1, <3>2 DEF CalmAttach, Calm
    <3>4. m \in links'[tx[t].to]
      BY <1>6, <2>3, <3>3
    <3>5. \A d \in Containers : m \in links'[d] <=> d = tx[t].to
      BY <1>6, <3>2, <3>4
    <3> QED  BY <1>2, <1>8, <2>1, <2>2, <2>3, <3>1, <3>5
  <2>4. CASE m \in tx[t].reset \ tx[t].new
    <3>1. m \in Calm(tx[t].had) /\ m \in links[tx[t].to]
      BY <1>2, <2>1, <2>4 DEF CalmAttach, Calm
    <3>2. tx[t].to \in Linked(m) /\ Live(m) /\ row[m].status = "attached"
      BY <1>2, <3>1 DEF Linked, CalmRows
    <3>3. \A d \in Containers : m \in links[d] => d = tx[t].to
      <4>1. PICK c \in Containers : Linked(m) = {c}
        BY <3>2 DEF CalmRows
      <4> QED  BY <3>2, <4>1 DEF Linked
    <3>4. m \notin links'[tx[t].to]
      <4>1. CASE tx[t].to \in Slots
        BY <1>6, <2>4, <3>1, <4>1 DEF Calm
      <4>2. CASE tx[t].to \in Posts
        <5>1. m \in tx[t].cut /\ tx[t].to \notin Slots
          BY <1>2, <3>1, <4>2, ContainersAssumption DEF CalmAttach
        <5> QED  BY <1>6, <2>4, <5>1
      <4>3. CASE tx[t].to \in Messages
        BY <1>2, <3>1, <4>3 DEF CalmAttach, Calm
      <4> QED  BY <1>2, <4>1, <4>2, <4>3 DEF Containers
    <3>5. \A d \in Containers : m \notin links'[d]
      BY <1>6, <3>3, <3>4
    <3> QED  BY <1>8, <2>1, <2>2, <2>4, <3>5
  <2>5. CASE m \notin tx[t].new \cup tx[t].reset
    <3>1. m \notin links[tx[t].to]
      BY <1>2, <2>1, <2>5 DEF CalmAttach, Calm
    <3>2. \A d \in Containers : m \in links'[d] <=> m \in links[d]
      BY <1>6, <1>7, <2>5, <3>1
    <3>3. row'[m] = row[m]
      BY <1>8, <2>1, <2>5
    <3>4. (\E c \in Containers : m \in links[c]) => Live(m) /\ row[m].status = "attached"
      BY DEF CalmRows, Linked
    <3>5. ASSUME Live(m), row[m].status = "attached"
          PROVE \E c \in Containers : \A d \in Containers : m \in links[d] <=> d = c
      <4>1. PICK c \in Containers : Linked(m) = {c}
        BY <3>5 DEF CalmRows
      <4> QED  BY <4>1 DEF Linked
    <3> QED  BY <2>2, <3>2, <3>3, <3>4, <3>5
  <2> QED  BY <2>3, <2>4, <2>5
<1>11. ASSUME NEW s \in Txs PROVE CalmAttach(s)' /\ CalmErase(s)'
  <2>1. CASE s = t
    BY <1>4, <2>1, IdleFields DEF CalmAttach, CalmErase, Attaching
  <2>2. CASE s # t
    <3>1. tx[t].new \cup tx[t].had \cup tx[t].cut \cup links[tx[t].to] = Touched(t)
      BY <1>2 DEF Touched
    <3>2. \A m \in Media \ Touched(t) : row'[m] = row[m]
      BY <1>2, <1>8, <3>1
    <3>3. \A c \in Containers :
            links'[c] = links[c] \/ (Attaching(t) /\ c = tx[t].to /\ links'[c] \subseteq Touched(t))
      BY <1>2, <1>6, <1>7, <3>1
    <3> QED  BY <1>3, <1>4, <2>2, <3>2, <3>3, OthersCalm
  <2> QED  BY <2>1, <2>2
<1> QED  BY <1>1, <1>10, <1>11

LEMMA CalmErases ==
  ASSUME CalmInv, NEW t \in Txs, CommitErase(t) PROVE CalmInv'
<1> USE DEF CalmInv
<1>1. QuotaInv'
  BY CommitEraseKept
<1>2. /\ tx[t].pc = "erase" /\ tx[t].todo = {} /\ tx[t].done \subseteq Media
      /\ TypeOK /\ KnownMedia(t) /\ CalmErase(t)
  BY TxFields DEF CommitErase, QuotaInv
<1>3. CountOverlaps(t) /\ Goto(t, Idle) /\ object' = object /\ links' = links
  BY DEF CommitErase
<1>4. tx'[t] = Idle /\ \A s \in Txs \ {t} : tx'[s] = tx[s]
  BY <1>2, <1>3, GotoFrame
<1>5. disturbed \subseteq disturbed'
  BY <1>3, Overlaps
<1>6. /\ Known' = Known
      /\ \A m \in tx[t].done : row'[m] = [status |-> "deleted", deleted |-> TRUE]
      /\ \A m \in Media : m \notin tx[t].done => row'[m] = row[m]
  BY <1>2, EraseRows
<1>7. CalmRows'
  <2> SUFFICES ASSUME NEW m \in Calm(Known), m \notin disturbed'
               PROVE (/\ Linked(m) # {} => Live(m) /\ row[m].status = "attached"
                      /\ Live(m) /\ row[m].status = "attached" => \E c \in Containers : Linked(m) = {c}
                      /\ Live(m) /\ object[m] # "stored" => \E s \in Txs : tx[s].pc = "erase" /\ m \in tx[s].done)'
    BY <1>5, <1>6 DEF CalmRows, Calm
  <2>1. Linked(m)' = Linked(m)
    BY <1>3 DEF Linked
  <2>2. m \in Media /\ m \notin disturbed
    BY DEF Calm, Known
  <2>3. CASE m \in tx[t].done
    <3>1. m \in Calm(Uploads)
      BY <1>2, <2>2, <2>3 DEF CalmErase, Calm
    <3>2. Linked(m) = {}
      BY <3>1, UploadsUnlinked DEF Linked
    <3>3. row'[m].deleted
      BY <1>6, <2>3
    <3>4. ~Live(m)'
      BY <3>3 DEF Live
    <3> QED  BY <2>1, <3>2, <3>4
  <2>4. CASE m \notin tx[t].done
    <3>1. row'[m] = row[m] /\ Live(m)' = Live(m)
      BY <1>6, <2>2, <2>4 DEF Live
    <3>2. ASSUME Live(m), object[m] # "stored"
          PROVE \E s \in Txs : tx'[s].pc = "erase" /\ m \in tx'[s].done
      <4>1. PICK s \in Txs : tx[s].pc = "erase" /\ m \in tx[s].done
        BY <3>2 DEF CalmRows
      <4> QED  BY <1>4, <2>4, <4>1
    <3> QED  BY <1>3, <2>1, <3>1, <3>2 DEF CalmRows
  <2> QED  BY <2>3, <2>4
<1>8. ASSUME NEW s \in Txs PROVE CalmAttach(s)' /\ CalmErase(s)'
  <2>1. CASE s = t
    BY <1>4, <2>1, IdleFields DEF CalmAttach, CalmErase, Attaching
  <2>2. CASE s # t
    <3>1. tx[t].done \subseteq Touched(t)
      BY <1>2 DEF Touched, Attaching
    <3>2. \A m \in Media \ Touched(t) : row'[m] = row[m]
      BY <1>6, <3>1
    <3> QED  BY <1>3, <1>4, <2>2, <3>2, OthersCalm
  <2> QED  BY <2>1, <2>2
<1> QED  BY <1>1, <1>7, <1>8

LEMMA CalmKept ==
  ASSUME CalmInv, [Next]_vars PROVE CalmInv'
<1>1. CASE UNCHANGED vars
  <2>1. UNCHANGED <<object, row, links, tx, disturbed>>
    BY <1>1 DEF vars
  <2>2. QuotaInv'
    BY QuotaInvKept DEF CalmInv
  <2> QED  BY <2>1, <2>2 DEF CalmInv, CalmRows, CalmAttach, CalmErase, Calm, Known, Linked, Live, LiveRows,
    Uploads, Attaching
<1> QED  BY <1>1, StepCases, CalmBegins, CalmUpload, CalmDeletes, CalmFails, CalmEmpties, CalmAttaches,
  CalmErases DEF CalmInv

LEMMA InitInv == Init => CalmInv
<1> SUFFICES ASSUME Init PROVE CalmInv
  OBVIOUS
<1>1. Known = {}
  BY DEF Init, Known
<1>2. CalmRows
  BY <1>1 DEF CalmRows, Calm
<1>3. \A t \in Txs : tx[t].pc = "idle"
  BY IdleFields DEF Init
<1> QED  BY <1>2, <1>3, QuotaInvInit DEF CalmInv, CalmAttach, CalmErase, Attaching

\* The inductive invariant: the quota under its lock, and what of calm media is
\* linked, attached, loaded by a request or about to go.
THEOREM Invariance == Spec => []CalmInv
<1>1. CalmInv /\ [Next]_vars => CalmInv'
  BY CalmKept
<1> QED  BY <1>1, InitInv, PTL DEF Spec

-----------------------------------------------------------------------------
(* What a reader should know of. *)

\* Rows, objects, links and requests keep their shape (modules/media/service.py).
THEOREM TypeCorrect == Spec => []TypeOK
<1>1. CalmInv => TypeOK
  BY DEF CalmInv, QuotaInv
<1> QED  BY <1>1, Invariance, PTL

\* However many uploads run at once, and whatever deletions and attachments do to
\* the rows meanwhile, the owner stays within the quota (upload_media).
THEOREM QuotaKept == Spec => []QuotaHolds
<1>1. CalmInv => QuotaHolds
  BY DEF CalmInv, QuotaInv
<1> QED  BY <1>1, Invariance, PTL

\* Objects are stored before their rows and erased before them, and neither comes
\* back, through failures at any point (upload_media, delete_media, the cleanup job).
THEOREM Implements == Spec => StoreSpec
<1>1. Init => Store!Init
  BY DEF Init, Store!Init
<1>2. CalmInv /\ [Next]_vars => [Store!Next]_(Store!vars)
  BY StoreSteps DEF CalmInv
<1> QED  BY <1>1, <1>2, Invariance, PTL DEF Spec, StoreSpec, Store!Spec

\* What is shown is there to be seen, as long as no two requests have overlapped on
\* it: the cleanup takes nothing that is attached (replace_post_media, create_message,
\* update_user, cleanup_orphan_media).
THEOREM ShownIsThere == Spec => []LinkedIsAvailable
<1>1. CalmInv => LinkedIsAvailable
  <2> SUFFICES ASSUME CalmInv, NEW c \in Containers, NEW m \in links[c], m \notin disturbed
               PROVE Live(m) /\ row[m].status = "attached" /\ object[m] = "stored"
    BY DEF LinkedIsAvailable
  <2>1. m \in Calm(Known) /\ c \in Linked(m)
    BY DEF CalmInv, QuotaInv, RowsHaveObjects, Calm, Linked
  <2>2. Live(m) /\ row[m].status = "attached"
    BY <2>1 DEF CalmInv, CalmRows
  <2>3. ASSUME object[m] # "stored" PROVE FALSE
    <3>1. PICK t \in Txs : tx[t].pc = "erase" /\ m \in tx[t].done
      BY <2>1, <2>2, <2>3 DEF CalmInv, CalmRows
    <3>2. m \in Uploads
      BY <3>1 DEF CalmInv, CalmErase, Calm
    <3> QED  BY <2>2, <3>2 DEF Uploads
  <2> QED  BY <2>2, <2>3
<1> QED  BY <1>1, Invariance, PTL

\* Attached media have one place, so that giving it up frees them for the cleanup,
\* as long as nothing has overlapped on them (replace_post_media, update_user).
THEOREM OnePlace == Spec => []AttachedHasOnePlace
<1>1. CalmInv => AttachedHasOnePlace
  <2> SUFFICES ASSUME CalmInv, NEW m \in LiveRows, m \notin disturbed, row[m].status = "attached"
               PROVE Cardinality(Linked(m)) = 1
    BY DEF AttachedHasOnePlace
  <2>1. m \in Calm(Known) /\ Live(m)
    BY DEF LiveRows, Live, Known, Calm
  <2>2. PICK c \in Containers : Linked(m) = {c}
    BY <2>1 DEF CalmInv, CalmRows
  <2> QED  BY <2>2, FS_Singleton
<1> QED  BY <1>1, Invariance, PTL

=============================================================================
