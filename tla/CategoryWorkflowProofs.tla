----------------------- MODULE CategoryWorkflowProofs -----------------------
(***************************************************************************)
(* Proofs about CategoryWorkflow, for any number of categories, requests,  *)
(* posts and sessions.                                                     *)
(*                                                                         *)
(* The inductive invariant says what a request in flight may believe: a    *)
(* session that holds the lock of a request holds it alone and the request *)
(* is pending; a proposal that read "rejected" read of a category with a   *)
(* rejected request; and behind every pending category there is a pending  *)
(* request whose decider, if it has read the category already, has read    *)
(* "pending" and will therefore write.                                     *)
(***************************************************************************)
EXTENDS CategoryWorkflow, FiniteSetTheorems, TLAPS

LockIsExclusive ==
  \A s, t \in Txs, r \in Reqs : HoldsRequest(s, r) /\ HoldsRequest(t, r) => s = t

HeldIsPending ==
  \A t \in Txs, r \in Reqs : HoldsRequest(t, r) => reqs[r].status = "pending"

PendingHasDecider ==
  \A c \in Cats : cat[c] = "pending" =>
    \E r \in Reqs :
      /\ reqs[r].cat = c /\ reqs[r].status = "pending"
      /\ \A t \in Txs : tx[t].pc = "decide" /\ tx[t].req = r => tx[t].loaded = "pending"

RejectedWasRejected ==
  /\ \A c \in Cats : cat[c] = "rejected" => EverRejected(c)
  /\ \A t \in Txs, c \in Cats :
       tx[t].pc = "propose" /\ tx[t].loaded = "rejected" /\ tx[t].cat = c => EverRejected(c)

AbsentHasNone == \A c \in Cats : cat[c] = "absent" => RequestsFor(c) = {}

\* What holds of a name until its first rejection.
FirstProposal ==
  \A c \in Cats : ~EverRejected(c) =>
    /\ \A r1, r2 \in RequestsFor(c) : r1 = r2
    /\ \A r \in RequestsFor(c) : reqs[r].status = "pending" => cat[c] = "pending"
    /\ c \in Seeded => RequestsFor(c) = {} /\ cat[c] = "approved"

Guarded ==
  /\ LockIsExclusive /\ HeldIsPending /\ PendingHasDecider
  /\ RejectedWasRejected /\ AbsentHasNone /\ FirstProposal

IInv == TypeOK /\ Guarded

-----------------------------------------------------------------------------
(* Types. *)

LEMMA InitType == Init => TypeOK
BY SeededAssumption DEF Init, TypeOK, CategoryStatus, Decisions, Row, AbsentPost, Unused

LEMMA AbsentIsRow == AbsentPost \in Row
BY DEF AbsentPost, Row

\* A selection is a category and a request, or no request.
LEMMA SelectionType ==
  ASSUME TypeOK, NEW choice \in Selections
  PROVE choice.cat \in Cats /\ choice.req \in Reqs \cup {None}
<1>1. CASE choice \in {[cat |-> c, req |-> None] : c \in {x \in Cats : cat[x] = "approved"}}
  BY <1>1
<1>2. CASE choice \in {[cat |-> reqs[r].cat, req |-> r] :
            r \in {x \in Reqs : reqs[x].status = "pending" /\ cat[reqs[x].cat] = "pending"}}
  <2>1. PICK r \in Reqs : /\ reqs[r].status = "pending"
                          /\ choice = [cat |-> reqs[r].cat, req |-> r]
    BY <1>2
  <2>2. reqs[r] # Unused
    BY <2>1 DEF Unused
  <2>3. reqs[r].cat \in Cats
    BY <2>2 DEF TypeOK
  <2> QED  BY <2>1, <2>3
<1> QED  BY <1>1, <1>2 DEF Selections

LEMMA SelectType ==
  ASSUME TypeOK, NEW choice \in Selections, NEW row \in Row, NEW status \in PostStatus
  PROVE Select(row, choice, status) \in Row
BY SelectionType DEF Select, Row

LEMMA StatusForType ==
  ASSUME NEW choice PROVE StatusFor(choice) \in PostStatus
BY DEF StatusFor, PostStatus

LEMMA GotoType ==
  ASSUME NEW t \in Txs, NEW record, Goto(t, record),
         tx \in [Txs -> OpenTx \cup {Idle}], record \in OpenTx \cup {Idle}
  PROVE tx' \in [Txs -> OpenTx \cup {Idle}]
BY DEF Goto

LEMMA EditType ==
  ASSUME TypeOK, NEW t \in Txs, NEW p \in Posts, NEW loaded \in Row, NEW new \in Row,
         Edit(t, p, loaded, new)
  PROVE TypeOK'
<1> DEFINE e == [pc |-> "edit", post |-> p, loaded |-> loaded, new |-> new]
<1>1. e \in OpenTx
  BY DEF OpenTx
<1> HIDE DEF e
<1>2. Goto(t, e) /\ UNCHANGED db
  BY DEF Edit, e
<1>3. tx' \in [Txs -> OpenTx \cup {Idle}]
  BY <1>1, <1>2, GotoType DEF TypeOK
<1> QED  BY <1>2, <1>3 DEF TypeOK, db

LEMMA OpenCases ==
  ASSUME TypeOK, NEW t \in Txs
  PROVE /\ tx[t].pc \in {"draft", "post", "edit"} => tx[t].post \in Posts /\ tx[t].loaded \in Row
        /\ tx[t].pc = "edit" => tx[t].new \in Row
        /\ tx[t].pc = "propose" => tx[t].cat \in Cats /\ tx[t].loaded \in {"absent", "rejected"}
        /\ tx[t].pc \in {"lock", "decide"} => tx[t].req \in Reqs /\ tx[t].decision \in Decisions
        /\ tx[t].pc = "decide" => tx[t].loaded \in CategoryStatus
<1>1. tx[t] \in OpenTx \cup {Idle}
  BY DEF TypeOK
<1> QED  BY <1>1 DEF OpenTx, Idle

LEMMA OverlayType ==
  ASSUME NEW row \in Row, NEW loaded \in Row, NEW new \in Row
  PROVE Overlay(row, loaded, new) \in Row
BY DEF Overlay, Row

LEMMA AnsweredType ==
  ASSUME TypeOK, NEW post \in Row, NEW r \in Reqs, NEW decision, reqs[r].cat \in Cats
  PROVE Answered(post, r, decision) \in Row
BY DEF Answered, Row, PostStatus, DraftStatus

\* The request that a session holds exists.
LEMMA HeldRequest ==
  ASSUME TypeOK, HeldIsPending, NEW t \in Txs, tx[t].pc \in {"lock", "decide"}
  PROVE /\ tx[t].req \in Reqs /\ tx[t].decision \in Decisions
        /\ reqs[tx[t].req].cat \in Cats /\ reqs[tx[t].req].status = "pending"
        /\ reqs[tx[t].req] \in [cat : Cats, status : {"pending"} \cup Decisions]
<1>1. tx[t].req \in Reqs /\ tx[t].decision \in Decisions
  BY OpenCases
<1>2. reqs[tx[t].req].status = "pending"
  BY <1>1 DEF HeldIsPending, HoldsRequest
<1>3. reqs[tx[t].req] # Unused
  BY <1>2 DEF Unused
<1> QED  BY <1>1, <1>2, <1>3 DEF TypeOK

LEMMA ProposeType ==
  ASSUME TypeOK, NEW t \in Txs, Propose(t) PROVE TypeOK'
<1>1. ASSUME NEW c \in Cats, create_category_request(t, c) PROVE TypeOK'
  <2> DEFINE r == [pc |-> "propose", cat |-> c, loaded |-> cat[c]]
  <2>1. r \in OpenTx
    BY <1>1 DEF create_category_request, OpenTx
  <2>2. Goto(t, r) /\ UNCHANGED db
    BY <1>1 DEF create_category_request
  <2> HIDE DEF r
  <2> QED  BY <2>1, <2>2, GotoType DEF TypeOK, db
<1>2. ASSUME NEW r \in Reqs, WriteProposal(t, r) PROVE TypeOK'
  <2>1. tx' \in [Txs -> OpenTx \cup {Idle}]
    BY <1>2, GotoType DEF WriteProposal, TypeOK
  <2>2. tx[t].cat \in Cats
    BY <1>2, OpenCases DEF WriteProposal
  <2>3. cat' \in [Cats -> CategoryStatus] /\ posts' = posts
    BY <1>2, <2>2 DEF WriteProposal, TypeOK, CategoryStatus
  <2>4. reqs' \in [Reqs -> [cat : Cats, status : {"pending"} \cup Decisions] \cup {Unused}]
    BY <1>2, <2>2 DEF WriteProposal, TypeOK
  <2> QED  BY <2>1, <2>3, <2>4 DEF TypeOK
<1> QED  BY <1>1, <1>2 DEF Propose

LEMMA DecideType ==
  ASSUME TypeOK, HeldIsPending, NEW t \in Txs, Decide(t) PROVE TypeOK'
<1>1. ASSUME NEW r \in Reqs, NEW d \in Decisions, lock_request(t, r, d) PROVE TypeOK'
  <2> DEFINE l == [pc |-> "lock", req |-> r, decision |-> d]
  <2>1. l \in OpenTx
    BY DEF OpenTx
  <2>2. Goto(t, l) /\ UNCHANGED db
    BY <1>1 DEF lock_request
  <2> HIDE DEF l
  <2> QED  BY <2>1, <2>2, GotoType DEF TypeOK, db
<1>2. ASSUME read_category(t) PROVE TypeOK'
  <2> DEFINE l == [pc |-> "decide", req |-> tx[t].req, decision |-> tx[t].decision,
                   loaded |-> cat[reqs[tx[t].req].cat]]
  <2>1. /\ tx[t].req \in Reqs /\ tx[t].decision \in Decisions
        /\ reqs[tx[t].req].cat \in Cats
    BY <1>2, HeldRequest DEF read_category
  <2>2. cat[reqs[tx[t].req].cat] \in CategoryStatus
    BY <2>1 DEF TypeOK
  <2>3. l \in OpenTx
    BY <2>1, <2>2 DEF OpenTx
  <2>4. Goto(t, l) /\ UNCHANGED db
    BY <1>2 DEF read_category
  <2> HIDE DEF l
  <2> QED  BY <2>3, <2>4, GotoType DEF TypeOK, db
<1>3. ASSUME resolve_category_request(t) PROVE TypeOK'
  <2>1. /\ tx[t].req \in Reqs /\ tx[t].decision \in Decisions
        /\ reqs[tx[t].req].cat \in Cats
        /\ reqs[tx[t].req] \in [cat : Cats, status : {"pending"} \cup Decisions]
    BY <1>3, HeldRequest DEF resolve_category_request
  <2>2. cat' \in [Cats -> CategoryStatus]
    BY <1>3, <2>1 DEF resolve_category_request, TypeOK, CategoryStatus
  <2>3. reqs' \in [Reqs -> [cat : Cats, status : {"pending"} \cup Decisions] \cup {Unused}]
    BY <1>3, <2>1 DEF resolve_category_request, TypeOK
  <2>4. \A p \in Posts : Answered(posts[p], tx[t].req, tx[t].decision) \in Row
    BY <2>1, AnsweredType DEF TypeOK
  <2>5. posts' \in [Posts -> Row]
    BY <1>3, <2>4 DEF resolve_category_request
  <2>6. tx' \in [Txs -> OpenTx \cup {Idle}]
    BY <1>3, GotoType DEF resolve_category_request, TypeOK
  <2> QED  BY <2>2, <2>3, <2>5, <2>6 DEF TypeOK
<1> QED  BY <1>1, <1>2, <1>3 DEF Decide

LEMMA LoadType ==
  ASSUME TypeOK, NEW t \in Txs, NEW p \in Posts, NEW pc \in {"draft", "post"},
         Goto(t, [pc |-> pc, post |-> p, loaded |-> posts[p]]), UNCHANGED db
  PROVE TypeOK'
<1> DEFINE l == [pc |-> pc, post |-> p, loaded |-> posts[p]]
<1>1. l \in OpenTx
  BY DEF OpenTx, TypeOK
<1> HIDE DEF l
<1>2. Goto(t, l)
  BY DEF l
<1> QED  BY <1>1, <1>2, GotoType DEF TypeOK, db

LEMMA AuthorType ==
  ASSUME TypeOK, NEW t \in Txs, Author(t) PROVE TypeOK'
<1> USE DEF PostStatus, DraftStatus
<1>1. ASSUME NEW p \in Posts, create_post(t, p) PROVE TypeOK'
  <2>1. PICK choice \in Selections :
          Edit(t, p, AbsentPost, Select(AbsentPost, choice, StatusFor(choice)))
    BY <1>1 DEF create_post
  <2>2. Select(AbsentPost, choice, StatusFor(choice)) \in Row
    BY AbsentIsRow, SelectType, StatusForType
  <2> QED  BY <2>1, <2>2, AbsentIsRow, EditType
<1>2. ASSUME NEW p \in Posts, create_draft(t, p) PROVE TypeOK'
  <2>1. PICK choice \in Selections, blank \in BOOLEAN :
          Edit(t, p, AbsentPost, [Select(AbsentPost, choice, "draft") EXCEPT !.blank = blank])
    BY <1>2 DEF create_draft
  <2>2. Select(AbsentPost, choice, "draft") \in Row
    BY AbsentIsRow, SelectType
  <2>3. [Select(AbsentPost, choice, "draft") EXCEPT !.blank = blank] \in Row
    BY <2>2 DEF Row
  <2> QED  BY <2>1, <2>3, AbsentIsRow, EditType
<1>3. ASSUME NEW p \in Posts, get_draft(t, p) \/ get_post(t, p) PROVE TypeOK'
  BY <1>3, LoadType DEF get_draft, get_post
<1>4. ASSUME update_draft(t) PROVE TypeOK'
  <2>1. tx[t].post \in Posts /\ tx[t].loaded \in Row
    BY <1>4, OpenCases DEF update_draft
  <2>2. PICK blank \in BOOLEAN :
          LET text == [tx[t].loaded EXCEPT !.blank = blank]
          IN  \/ Edit(t, tx[t].post, tx[t].loaded, text)
              \/ \E choice \in Selections :
                   Edit(t, tx[t].post, tx[t].loaded, Select(text, choice, "draft"))
    BY <1>4 DEF update_draft
  <2> DEFINE text == [tx[t].loaded EXCEPT !.blank = blank]
  <2>3. text \in Row
    BY <2>1 DEF Row
  <2> HIDE DEF text
  <2>4. CASE Edit(t, tx[t].post, tx[t].loaded, text)
    BY <2>1, <2>3, <2>4, EditType
  <2>5. ASSUME NEW choice \in Selections,
               Edit(t, tx[t].post, tx[t].loaded, Select(text, choice, "draft"))
        PROVE TypeOK'
    <3>1. Select(text, choice, "draft") \in Row
      BY <2>3, SelectType
    <3> QED  BY <2>1, <2>5, <3>1, EditType
  <2> QED  BY <2>2, <2>4, <2>5 DEF text
<1>5. ASSUME update_post(t) PROVE TypeOK'
  <2>1. tx[t].post \in Posts /\ tx[t].loaded \in Row
    BY <1>5, OpenCases DEF update_post
  <2>2. PICK blank \in {tx[t].loaded.blank, FALSE} :
          LET text == [tx[t].loaded EXCEPT !.blank = blank]
          IN  \/ Edit(t, tx[t].post, tx[t].loaded, text)
              \/ \E choice \in Selections :
                   Edit(t, tx[t].post, tx[t].loaded, Select(text, choice, StatusFor(choice)))
    BY <1>5 DEF update_post
  <2> DEFINE text == [tx[t].loaded EXCEPT !.blank = blank]
  <2>3. text \in Row
    BY <2>1 DEF Row
  <2> HIDE DEF text
  <2>4. CASE Edit(t, tx[t].post, tx[t].loaded, text)
    BY <2>1, <2>3, <2>4, EditType
  <2>5. ASSUME NEW choice \in Selections,
               Edit(t, tx[t].post, tx[t].loaded, Select(text, choice, StatusFor(choice)))
        PROVE TypeOK'
    <3>1. Select(text, choice, StatusFor(choice)) \in Row
      BY <2>3, SelectType, StatusForType
    <3> QED  BY <2>1, <2>5, <3>1, EditType
  <2> QED  BY <2>2, <2>4, <2>5 DEF text
<1>6. ASSUME publish_draft(t) PROVE TypeOK'
  <2> DEFINE new == [tx[t].loaded EXCEPT !.status =
                       IF tx[t].loaded.req = None THEN "published" ELSE "pending_category"]
  <2>1. tx[t].post \in Posts /\ tx[t].loaded \in Row
    BY <1>6, OpenCases DEF publish_draft
  <2>2. new \in Row
    BY <2>1 DEF Row
  <2>3. Edit(t, tx[t].post, tx[t].loaded, new)
    BY <1>6 DEF publish_draft
  <2> HIDE DEF new
  <2> QED  BY <2>1, <2>2, <2>3, EditType
<1>7. ASSUME delete_post(t) PROVE TypeOK'
  <2> DEFINE new == [tx[t].loaded EXCEPT !.deleted = TRUE]
  <2>1. tx[t].post \in Posts /\ tx[t].loaded \in Row
    BY <1>7, OpenCases DEF delete_post
  <2>2. new \in Row
    BY <2>1 DEF Row
  <2>3. Edit(t, tx[t].post, tx[t].loaded, new)
    BY <1>7 DEF delete_post
  <2> HIDE DEF new
  <2> QED  BY <2>1, <2>2, <2>3, EditType
<1>8. ASSUME CommitEdit(t) PROVE TypeOK'
  <2>1. tx[t].post \in Posts /\ tx[t].loaded \in Row /\ tx[t].new \in Row
    BY <1>8, OpenCases DEF CommitEdit
  <2>2. Overlay(posts[tx[t].post], tx[t].loaded, tx[t].new) \in Row
    BY <2>1, OverlayType DEF TypeOK
  <2>3. posts' \in [Posts -> Row]
    BY <1>8, <2>1, <2>2 DEF CommitEdit, TypeOK
  <2>4. tx' \in [Txs -> OpenTx \cup {Idle}]
    BY <1>8, GotoType DEF CommitEdit, TypeOK
  <2> QED  BY <1>8, <2>3, <2>4 DEF CommitEdit, TypeOK
<1> QED  BY <1>1, <1>2, <1>3, <1>4, <1>5, <1>6, <1>7, <1>8 DEF Author

LEMMA TypeStep ==
  ASSUME TypeOK, HeldIsPending, [Next]_vars PROVE TypeOK'
<1>1. ASSUME NEW t \in Txs, Rollback(t) PROVE TypeOK'
  BY <1>1, GotoType DEF Rollback, TypeOK, db
<1>2. ASSUME NEW p \in Posts, hide_post(p) \/ restore_post(p) PROVE TypeOK'
  <2>1. PICK d \in BOOLEAN : posts' = [posts EXCEPT ![p].deleted = d]
    BY <1>2 DEF hide_post, restore_post
  <2>2. [posts[p] EXCEPT !.deleted = d] \in Row
    BY DEF TypeOK, Row
  <2>3. posts' \in [Posts -> Row]
    BY <2>1, <2>2 DEF TypeOK
  <2> QED  BY <1>2, <2>3 DEF hide_post, restore_post, TypeOK
<1>3. CASE UNCHANGED vars
  BY <1>3 DEF vars, TypeOK
<1> QED  BY <1>1, <1>2, <1>3, ProposeType, DecideType, AuthorType DEF Next

-----------------------------------------------------------------------------
(* The invariant. *)

LEMMA InitGuarded == Init => Guarded
<1> SUFFICES ASSUME Init PROVE Guarded
  OBVIOUS
<1>1. \A c \in Cats : RequestsFor(c) = {}
  BY NoneAssumption DEF Init, RequestsFor, Unused
<1>2. \A t \in Txs : tx[t].pc = "idle"
  BY DEF Init, Idle
<1>3. \A c \in Cats : cat[c] = IF c \in Seeded THEN "approved" ELSE "absent"
  BY DEF Init
<1>4. LockIsExclusive /\ HeldIsPending
  BY <1>2 DEF LockIsExclusive, HeldIsPending, HoldsRequest
<1>5. PendingHasDecider /\ RejectedWasRejected
  BY <1>2, <1>3 DEF PendingHasDecider, RejectedWasRejected
<1>6. AbsentHasNone /\ FirstProposal
  BY <1>1, <1>3 DEF AbsentHasNone, FirstProposal
<1> QED  BY <1>4, <1>5, <1>6 DEF Guarded

\* A step that leaves categories and requests alone, and in which no session
\* comes to propose or to decide, keeps the invariant.
LEMMA QuietStep ==
  ASSUME Guarded, cat' = cat, reqs' = reqs,
         \A t \in Txs : tx'[t] = tx[t] \/ tx'[t].pc \in {"idle", "draft", "post", "edit"}
  PROVE Guarded'
<1>1. \A t \in Txs, r \in Reqs : HoldsRequest(t, r)' => HoldsRequest(t, r)
  BY DEF HoldsRequest
<1>2. \A c \in Cats : EverRejected(c)' = EverRejected(c) /\ RequestsFor(c)' = RequestsFor(c)
  BY DEF EverRejected, RequestsFor
<1>3. LockIsExclusive' /\ HeldIsPending'
  BY <1>1 DEF Guarded, LockIsExclusive, HeldIsPending
<1>4. PendingHasDecider'
  BY DEF Guarded, PendingHasDecider
<1>5. RejectedWasRejected'
  BY <1>2 DEF Guarded, RejectedWasRejected
<1>6. AbsentHasNone' /\ FirstProposal'
  BY <1>2 DEF Guarded, AbsentHasNone, FirstProposal
<1> QED  BY <1>3, <1>4, <1>5, <1>6 DEF Guarded

LEMMA ReadForProposal ==
  ASSUME TypeOK, Guarded, NEW t \in Txs, NEW c \in Cats, create_category_request(t, c)
  PROVE Guarded'
<1>1. /\ cat' = cat /\ reqs' = reqs
      /\ tx' = [tx EXCEPT ![t] = [pc |-> "propose", cat |-> c, loaded |-> cat[c]]]
  BY DEF create_category_request, Goto, db
<1>2. /\ tx'[t].pc = "propose" /\ tx'[t].cat = c /\ tx'[t].loaded = cat[c]
      /\ \A s \in Txs \ {t} : tx'[s] = tx[s]
  BY <1>1 DEF TypeOK
<1>3. \A s \in Txs, r \in Reqs : HoldsRequest(s, r)' => HoldsRequest(s, r)
  BY <1>2 DEF HoldsRequest
<1>4. \A x \in Cats : EverRejected(x)' = EverRejected(x) /\ RequestsFor(x)' = RequestsFor(x)
  BY <1>1 DEF EverRejected, RequestsFor
<1>5. LockIsExclusive' /\ HeldIsPending'
  BY <1>1, <1>3 DEF Guarded, LockIsExclusive, HeldIsPending
<1>6. PendingHasDecider'
  BY <1>1, <1>2 DEF Guarded, PendingHasDecider
<1>7. RejectedWasRejected'
  BY <1>1, <1>2, <1>4 DEF Guarded, RejectedWasRejected
<1>8. AbsentHasNone' /\ FirstProposal'
  BY <1>1, <1>4 DEF Guarded, AbsentHasNone, FirstProposal
<1> QED  BY <1>5, <1>6, <1>7, <1>8 DEF Guarded

\* A proposal writes over an absent category, which has no request, or over one
\* with a rejected request; nobody holds the new request yet.
LEMMA WriteProposalStep ==
  ASSUME TypeOK, Guarded, NEW t \in Txs, NEW r \in Reqs, WriteProposal(t, r)
  PROVE Guarded'
<1>1. PICK c \in Cats : /\ tx[t].cat = c /\ tx[t].pc = "propose"
                      /\ tx[t].loaded \in {"absent", "rejected"}
  BY OpenCases DEF WriteProposal
<1>2. /\ cat'[c] = "pending" /\ \A x \in Cats \ {c} : cat'[x] = cat[x]
      /\ reqs[r] = Unused /\ reqs'[r] = [cat |-> c, status |-> "pending"]
      /\ \A x \in Reqs \ {r} : reqs'[x] = reqs[x]
      /\ tx'[t].pc = "idle" /\ \A s \in Txs \ {t} : tx'[s] = tx[s]
  BY <1>1 DEF WriteProposal, Goto, Idle, TypeOK
<1>3. \A s \in Txs, x \in Reqs : HoldsRequest(s, x)' => HoldsRequest(s, x) /\ x # r
  BY <1>2 DEF HoldsRequest, Guarded, HeldIsPending, Unused
<1>4. /\ RequestsFor(c)' = RequestsFor(c) \cup {r} /\ r \notin RequestsFor(c)
      /\ \A x \in Cats \ {c} : RequestsFor(x)' = RequestsFor(x) /\ r \notin RequestsFor(x)
  <2>1. reqs[r].cat \notin Cats /\ reqs'[r].cat = c
    BY <1>2, NoneAssumption DEF Unused
  <2>2. \A x \in Reqs \ {r} : reqs'[x].cat = reqs[x].cat
    BY <1>2
  <2> QED  BY <1>1, <2>1, <2>2 DEF RequestsFor
<1>5. \A x \in Cats : EverRejected(x)' = EverRejected(x)
  BY <1>2, <1>4 DEF EverRejected, RequestsFor
<1>6. EverRejected(c) \/ (RequestsFor(c) = {} /\ cat[c] = "absent")
  BY <1>1 DEF Guarded, RejectedWasRejected, AbsentHasNone, WriteProposal
<1>7. LockIsExclusive'
  BY <1>3 DEF Guarded, LockIsExclusive
<1>8. HeldIsPending'
  BY <1>2, <1>3 DEF Guarded, HeldIsPending
<1>9. PendingHasDecider'
  <2> SUFFICES ASSUME NEW x \in Cats, cat'[x] = "pending"
               PROVE \E y \in Reqs :
                       /\ reqs'[y].cat = x /\ reqs'[y].status = "pending"
                       /\ \A s \in Txs : tx'[s].pc = "decide" /\ tx'[s].req = y =>
                            tx'[s].loaded = "pending"
    BY DEF PendingHasDecider
  <2>1. CASE x = c
    BY <1>2, <1>3, <2>1 DEF HoldsRequest
  <2>2. CASE x # c
    <3>1. PICK y \in Reqs :
            /\ reqs[y].cat = x /\ reqs[y].status = "pending"
            /\ \A s \in Txs : tx[s].pc = "decide" /\ tx[s].req = y => tx[s].loaded = "pending"
      BY <1>2, <2>2 DEF Guarded, PendingHasDecider
    <3>2. y # r
      BY <1>2, <3>1 DEF Unused
    <3> QED  BY <1>2, <3>1, <3>2
  <2> QED  BY <2>1, <2>2
<1>10. RejectedWasRejected'
  <2>1. \A x \in Cats : cat'[x] = "rejected" => EverRejected(x)'
    BY <1>2, <1>5 DEF Guarded, RejectedWasRejected
  <2>2. \A s \in Txs : tx'[s].pc = "propose" => tx'[s] = tx[s]
    BY <1>2
  <2> QED  BY <1>5, <2>1, <2>2 DEF Guarded, RejectedWasRejected
<1>11. AbsentHasNone'
  BY <1>2, <1>4 DEF Guarded, AbsentHasNone
<1>12. FirstProposal'
  <2> SUFFICES ASSUME NEW x \in Cats, ~EverRejected(x)'
               PROVE /\ \A r1, r2 \in RequestsFor(x)' : r1 = r2
                     /\ \A y \in RequestsFor(x)' : reqs'[y].status = "pending" =>
                          cat'[x] = "pending"
                     /\ x \in Seeded => RequestsFor(x)' = {} /\ cat'[x] = "approved"
    BY DEF FirstProposal
  <2>1. ~EverRejected(x)
    BY <1>5
  <2>2. CASE x = c
    <3>1. RequestsFor(c) = {} /\ cat[c] = "absent"
      BY <1>6, <2>1, <2>2
    <3>2. c \notin Seeded
      BY <1>1, <2>1, <2>2, <3>1 DEF Guarded, FirstProposal
    <3>3. RequestsFor(x)' = {r}
      BY <1>4, <2>2, <3>1
    <3> QED  BY <1>2, <2>2, <3>2, <3>3
  <2>3. CASE x # c
    <3>1. \A y \in RequestsFor(x) : reqs'[y] = reqs[y]
      BY <1>2, <1>4, <2>3 DEF RequestsFor
    <3> QED  BY <1>2, <1>4, <2>1, <2>3, <3>1 DEF Guarded, FirstProposal
  <2> QED  BY <2>2, <2>3
<1> QED  BY <1>7, <1>8, <1>9, <1>10, <1>11, <1>12 DEF Guarded

\* FOR UPDATE admits one holder, of a pending request.
LEMMA LockStep ==
  ASSUME TypeOK, Guarded, NEW t \in Txs, NEW r \in Reqs, NEW decision \in Decisions,
         lock_request(t, r, decision)
  PROVE Guarded'
<1>1. /\ cat' = cat /\ reqs' = reqs /\ tx[t].pc = "idle"
      /\ tx'[t].pc = "lock" /\ tx'[t].req = r
      /\ \A s \in Txs \ {t} : tx'[s] = tx[s] /\ ~HoldsRequest(s, r)
      /\ reqs[r].status = "pending"
  BY DEF lock_request, Goto, db, Idle, TypeOK
<1>2. \A s \in Txs, x \in Reqs : HoldsRequest(s, x)' <=>
         IF s = t THEN x = r ELSE HoldsRequest(s, x)
  BY <1>1 DEF HoldsRequest
<1>3. \A x \in Cats : EverRejected(x)' = EverRejected(x) /\ RequestsFor(x)' = RequestsFor(x)
  BY <1>1 DEF EverRejected, RequestsFor
<1>4. LockIsExclusive'
  BY <1>1, <1>2 DEF Guarded, LockIsExclusive
<1>5. HeldIsPending'
  BY <1>1, <1>2 DEF Guarded, HeldIsPending
<1>6. PendingHasDecider'
  BY <1>1 DEF Guarded, PendingHasDecider
<1>7. RejectedWasRejected'
  BY <1>1, <1>3 DEF Guarded, RejectedWasRejected
<1>8. AbsentHasNone' /\ FirstProposal'
  BY <1>1, <1>3 DEF Guarded, AbsentHasNone, FirstProposal
<1> QED  BY <1>4, <1>5, <1>6, <1>7, <1>8 DEF Guarded

\* What the decider reads of a pending category is "pending".
LEMMA ReadCategoryStep ==
  ASSUME TypeOK, Guarded, NEW t \in Txs, read_category(t)
  PROVE Guarded'
<1>1. PICK r \in Reqs : tx[t].req = r /\ reqs[r].cat \in Cats
  BY HeldRequest DEF Guarded, read_category
<1>2. /\ cat' = cat /\ reqs' = reqs /\ tx[t].pc = "lock"
      /\ tx'[t].pc = "decide" /\ tx'[t].req = r /\ tx'[t].loaded = cat[reqs[r].cat]
      /\ \A s \in Txs \ {t} : tx'[s] = tx[s]
  BY <1>1 DEF read_category, Goto, db, TypeOK
<1>3. \A s \in Txs, x \in Reqs : HoldsRequest(s, x)' <=> HoldsRequest(s, x)
  BY <1>1, <1>2 DEF HoldsRequest
<1>4. \A x \in Cats : EverRejected(x)' = EverRejected(x) /\ RequestsFor(x)' = RequestsFor(x)
  BY <1>2 DEF EverRejected, RequestsFor
<1>5. LockIsExclusive'
  BY <1>3 DEF Guarded, LockIsExclusive
<1>6. HeldIsPending'
  BY <1>2, <1>3 DEF Guarded, HeldIsPending
<1>7. PendingHasDecider'
  BY <1>2 DEF Guarded, PendingHasDecider
<1>8. RejectedWasRejected'
  BY <1>2, <1>4 DEF Guarded, RejectedWasRejected
<1>9. AbsentHasNone' /\ FirstProposal'
  BY <1>2, <1>4 DEF Guarded, AbsentHasNone, FirstProposal
<1> QED  BY <1>5, <1>6, <1>7, <1>8, <1>9 DEF Guarded

\* A decision: request r of category c leaves "pending", and c takes the
\* decision unless the decider believes that it has it already.
LEMMA ResolveStep ==
  ASSUME TypeOK, Guarded, NEW t \in Txs, resolve_category_request(t)
  PROVE Guarded'
<1>1. PICK r \in Reqs, c \in Cats, decision \in Decisions :
        /\ tx[t].pc = "decide" /\ tx[t].req = r /\ tx[t].decision = decision
        /\ reqs[r].cat = c /\ reqs[r].status = "pending"
        /\ reqs[r] \in [cat : Cats, status : {"pending"} \cup Decisions]
  BY HeldRequest DEF Guarded, resolve_category_request
<1>2. /\ reqs'[r].cat = c /\ reqs'[r].status = decision
      /\ \A x \in Reqs \ {r} : reqs'[x] = reqs[x]
      /\ \A x \in Cats \ {c} : cat'[x] = cat[x]
      /\ cat'[c] = IF tx[t].loaded # decision THEN decision ELSE cat[c]
      /\ tx'[t].pc = "idle" /\ \A s \in Txs \ {t} : tx'[s] = tx[s]
  <2>1. reqs' = [reqs EXCEPT ![r].status = decision]
    BY <1>1 DEF resolve_category_request
  <2>2. cat' = IF tx[t].loaded # decision THEN [cat EXCEPT ![c] = decision] ELSE cat
    BY <1>1 DEF resolve_category_request
  <2>3. tx'[t].pc = "idle" /\ \A s \in Txs \ {t} : tx'[s] = tx[s]
    BY DEF resolve_category_request, Goto, Idle, TypeOK
  <2>4. reqs'[r].cat = c /\ reqs'[r].status = decision /\ \A x \in Reqs \ {r} : reqs'[x] = reqs[x]
    BY <1>1, <2>1 DEF TypeOK
  <2>5. /\ \A x \in Cats \ {c} : cat'[x] = cat[x]
        /\ cat'[c] = IF tx[t].loaded # decision THEN decision ELSE cat[c]
    BY <2>2 DEF TypeOK
  <2> QED  BY <2>3, <2>4, <2>5
<1>3. \A s \in Txs, x \in Reqs : HoldsRequest(s, x)' => HoldsRequest(s, x) /\ x # r
  <2>1. HoldsRequest(t, r)
    BY <1>1 DEF HoldsRequest
  <2>2. \A s \in Txs \ {t} : ~HoldsRequest(s, r)
    BY <2>1 DEF Guarded, LockIsExclusive
  <2> QED  BY <1>2, <2>2 DEF HoldsRequest
<1>4. \A x \in Cats : RequestsFor(x)' = RequestsFor(x)
  BY <1>1, <1>2 DEF RequestsFor
<1>5. /\ r \in RequestsFor(c) /\ \A x \in Cats \ {c} : r \notin RequestsFor(x)
      /\ decision # "pending" /\ decision # "absent"
  BY <1>1 DEF RequestsFor, Decisions
<1>6. \A x \in Cats : EverRejected(x) => EverRejected(x)'
  BY <1>1, <1>2, <1>4 DEF EverRejected, RequestsFor
<1>7. \A x \in Cats \ {c} : EverRejected(x)' = EverRejected(x)
  BY <1>2, <1>4, <1>5 DEF EverRejected, RequestsFor
<1>8. decision = "rejected" => EverRejected(c)'
  BY <1>2, <1>4, <1>5 DEF EverRejected
<1>9. LockIsExclusive'
  BY <1>3 DEF Guarded, LockIsExclusive
<1>10. HeldIsPending'
  BY <1>2, <1>3 DEF Guarded, HeldIsPending
<1>11. PendingHasDecider'
  <2> SUFFICES ASSUME NEW x \in Cats, cat'[x] = "pending"
               PROVE \E y \in Reqs :
                       /\ reqs'[y].cat = x /\ reqs'[y].status = "pending"
                       /\ \A s \in Txs : tx'[s].pc = "decide" /\ tx'[s].req = y =>
                            tx'[s].loaded = "pending"
    BY DEF PendingHasDecider
  <2>1. cat[x] = "pending"
    BY <1>2, <1>5
  <2>2. PICK y \in Reqs :
          /\ reqs[y].cat = x /\ reqs[y].status = "pending"
          /\ \A s \in Txs : tx[s].pc = "decide" /\ tx[s].req = y => tx[s].loaded = "pending"
    BY <2>1 DEF Guarded, PendingHasDecider
  <2>3. y # r
    BY <1>1, <1>2, <1>5, <2>2
  <2> QED  BY <1>2, <2>2, <2>3
<1>12. RejectedWasRejected'
  <2>1. \A x \in Cats : cat'[x] = "rejected" => EverRejected(x)'
    BY <1>2, <1>6, <1>8 DEF Guarded, RejectedWasRejected
  <2>2. \A s \in Txs : tx'[s].pc = "propose" => tx'[s] = tx[s]
    BY <1>2
  <2> QED  BY <1>6, <2>1, <2>2 DEF Guarded, RejectedWasRejected
<1>13. AbsentHasNone'
  BY <1>2, <1>4, <1>5 DEF Guarded, AbsentHasNone
<1>14. FirstProposal'
  <2> SUFFICES ASSUME NEW x \in Cats, ~EverRejected(x)'
               PROVE /\ \A r1, r2 \in RequestsFor(x)' : r1 = r2
                     /\ \A y \in RequestsFor(x)' : reqs'[y].status = "pending" =>
                          cat'[x] = "pending"
                     /\ x \in Seeded => RequestsFor(x)' = {} /\ cat'[x] = "approved"
    BY DEF FirstProposal
  <2>1. ~EverRejected(x)
    BY <1>6
  <2>2. CASE x = c
    <3>1. RequestsFor(c) = {r}
      BY <1>5, <2>1, <2>2 DEF Guarded, FirstProposal
    <3>2. c \notin Seeded
      BY <1>5, <2>1, <2>2 DEF Guarded, FirstProposal
    <3> QED  BY <1>2, <1>4, <1>5, <2>2, <3>1, <3>2
  <2>3. CASE x # c
    <3>1. \A y \in RequestsFor(x) : reqs'[y] = reqs[y]
      BY <1>2, <1>5, <2>3 DEF RequestsFor
    <3> QED  BY <1>2, <1>4, <2>1, <2>3, <3>1 DEF Guarded, FirstProposal
  <2> QED  BY <2>2, <2>3
<1> QED  BY <1>9, <1>10, <1>11, <1>12, <1>13, <1>14 DEF Guarded

\* An author's request changes neither categories nor requests.
LEMMA EditIsQuiet ==
  ASSUME TypeOK, Guarded, NEW t \in Txs, Author(t)
  PROVE Guarded'
<1> DEFINE Quiet == /\ cat' = cat /\ reqs' = reqs
                    /\ \A s \in Txs :
                         tx'[s] = tx[s] \/ tx'[s].pc \in {"idle", "draft", "post", "edit"}
<1>1. ASSUME NEW p, NEW loaded, NEW new, Edit(t, p, loaded, new) PROVE Quiet
  BY <1>1 DEF Edit, Goto, db, TypeOK
<1>2. ASSUME NEW p \in Posts, get_draft(t, p) \/ get_post(t, p) PROVE Quiet
  BY <1>2 DEF get_draft, get_post, Goto, db, TypeOK
<1>3. ASSUME CommitEdit(t) PROVE Quiet
  BY <1>3 DEF CommitEdit, Goto, Idle, TypeOK
<1> HIDE DEF Quiet
<1>4. ASSUME NEW p \in Posts, create_post(t, p) \/ create_draft(t, p) PROVE Quiet
  BY <1>1, <1>4 DEF create_post, create_draft
<1>5. ASSUME update_draft(t) PROVE Quiet
  BY <1>1, <1>5 DEF update_draft
<1>6. ASSUME update_post(t) PROVE Quiet
  BY <1>1, <1>6 DEF update_post
<1>7. ASSUME publish_draft(t) \/ delete_post(t) PROVE Quiet
  BY <1>1, <1>7 DEF publish_draft, delete_post
<1>8. Quiet
  BY <1>2, <1>3, <1>4, <1>5, <1>6, <1>7 DEF Author
<1> QED  BY <1>8, QuietStep DEF Quiet

LEMMA GuardedStep ==
  ASSUME TypeOK, Guarded, [Next]_vars PROVE Guarded'
<1>1. ASSUME NEW t \in Txs, Propose(t) PROVE Guarded'
  BY <1>1, ReadForProposal, WriteProposalStep DEF Propose
<1>2. ASSUME NEW t \in Txs, Decide(t) PROVE Guarded'
  BY <1>2, LockStep, ReadCategoryStep, ResolveStep DEF Decide
<1>3. ASSUME NEW t \in Txs, Rollback(t) PROVE Guarded'
  <2>1. /\ cat' = cat /\ reqs' = reqs
        /\ \A s \in Txs : tx'[s] = tx[s] \/ tx'[s].pc = "idle"
    BY <1>3 DEF Rollback, Goto, db, Idle, TypeOK
  <2> QED  BY <2>1, QuietStep
<1>4. ASSUME NEW p \in Posts, hide_post(p) \/ restore_post(p) PROVE Guarded'
  BY <1>4, QuietStep DEF hide_post, restore_post
<1>5. CASE UNCHANGED vars
  BY <1>5, QuietStep DEF vars
<1> QED  BY <1>1, <1>2, <1>3, <1>4, <1>5, EditIsQuiet DEF Next

LEMMA Invariance == Spec => []IInv
<1>1. Init => IInv
  BY InitType, InitGuarded DEF IInv
<1>2. IInv /\ [Next]_vars => IInv'
  BY TypeStep, GuardedStep DEF IInv, Guarded
<1> QED  BY <1>1, <1>2, PTL DEF Spec

-----------------------------------------------------------------------------
(* The theorems. *)

\* The tables keep their types.
THEOREM TypeCorrect == Spec => []TypeOK
BY Invariance, PTL DEF IInv

\* No category stays pending without a request that can decide it: the category
\* row and the request row are written by different transactions, and the ORM
\* skips the category when it looks unchanged.
THEOREM PendingIsDecidable == Spec => []PendingCategoryHasRequest
<1>1. IInv => PendingCategoryHasRequest
  BY DEF IInv, Guarded, PendingHasDecider, PendingCategoryHasRequest, RequestsFor
<1> QED  BY <1>1, Invariance, PTL

\* The unique name and the test for "rejected" admit one request for a name
\* until its first rejection, and none for a seeded name.
THEOREM NewNameHasOneRequest == Spec => []OneRequestPerNewName
<1>1. IInv => OneRequestPerNewName
  <2> SUFFICES ASSUME IInv, NEW c \in Cats, ~EverRejected(c)
               PROVE Cardinality(RequestsFor(c)) <= (IF c \in Seeded THEN 0 ELSE 1)
    BY DEF OneRequestPerNewName
  <2>1. /\ \A r1, r2 \in RequestsFor(c) : r1 = r2
        /\ c \in Seeded => RequestsFor(c) = {}
    BY DEF IInv, Guarded, FirstProposal
  <2>2. CASE RequestsFor(c) = {}
    BY <2>2, FS_EmptySet
  <2>3. CASE RequestsFor(c) # {}
    <3>1. PICK r : RequestsFor(c) = {r}
      BY <2>1, <2>3
    <3>2. Cardinality({r}) = 1
      BY FS_Singleton
    <3> QED  BY <2>1, <2>3, <3>1, <3>2
  <2> QED  BY <2>2, <2>3
<1> QED  BY <1>1, Invariance, PTL

\* What staff has decided stays decided, however many of them decide at once.
THEOREM DecisionIsFinal == Spec => DecisionsAreFinal
<1>1. IInv /\ [Next]_vars =>
        [\A r \in Reqs : reqs[r].status \in Decisions => reqs'[r] = reqs[r]]_vars
  <2> SUFFICES ASSUME IInv, [Next]_vars, NEW r \in Reqs, reqs[r].status \in Decisions
               PROVE reqs'[r] = reqs[r]
    OBVIOUS
  <2>1. reqs[r].status # "pending" /\ reqs[r] # Unused
    BY DEF Decisions, Unused
  <2>2. ASSUME NEW t \in Txs, NEW x \in Reqs, WriteProposal(t, x) PROVE reqs'[r] = reqs[r]
    BY <2>1, <2>2 DEF WriteProposal, IInv, TypeOK
  <2>3. ASSUME NEW t \in Txs, resolve_category_request(t) PROVE reqs'[r] = reqs[r]
    <3>1. tx[t].req # r
      BY <2>1, <2>3, HeldRequest DEF resolve_category_request, IInv, Guarded
    <3> QED  BY <2>3, <3>1 DEF resolve_category_request, IInv, TypeOK
  <2>4. CASE UNCHANGED reqs
    BY <2>4
  <2> QED  BY <2>2, <2>3, <2>4 DEF Next, Propose, Decide, Author, Rollback, create_category_request,
       lock_request, read_category, create_post, create_draft, get_draft, get_post, update_draft,
       update_post, publish_draft, delete_post, CommitEdit, Edit, hide_post, restore_post, db, vars
<1> QED  BY <1>1, Invariance, PTL DEF Spec, DecisionsAreFinal

\* The categories posts were published under do not lose their approval, unless
\* the name has been rejected before.
THEOREM ApprovalLasts == Spec => ApprovedStaysApproved
<1>1. IInv /\ [Next]_vars =>
        [\A c \in Cats : cat[c] = "approved" /\ ~EverRejected(c) => cat'[c] = "approved"]_vars
  <2> SUFFICES ASSUME IInv, [Next]_vars, NEW c \in Cats, cat[c] = "approved", ~EverRejected(c)
               PROVE cat'[c] = "approved"
    OBVIOUS
  <2>1. ASSUME NEW t \in Txs, NEW r \in Reqs, WriteProposal(t, r) PROVE cat'[c] = "approved"
    <3>1. tx[t].cat # c
      BY <2>1, OpenCases DEF WriteProposal, IInv, Guarded, RejectedWasRejected
    <3> QED  BY <2>1, <3>1 DEF WriteProposal, IInv, TypeOK
  <2>2. ASSUME NEW t \in Txs, resolve_category_request(t) PROVE cat'[c] = "approved"
    <3>1. tx[t].req \in Reqs /\ reqs[tx[t].req].status = "pending"
      BY <2>2, HeldRequest DEF resolve_category_request, IInv, Guarded
    <3>2. reqs[tx[t].req].cat # c
      BY <3>1 DEF IInv, Guarded, FirstProposal, RequestsFor
    <3> QED  BY <2>2, <3>2 DEF resolve_category_request, IInv, TypeOK
  <2>3. CASE UNCHANGED cat
    BY <2>3
  <2> QED  BY <2>1, <2>2, <2>3 DEF Next, Propose, Decide, Author, Rollback, create_category_request,
       lock_request, read_category, create_post, create_draft, get_draft, get_post, update_draft,
       update_post, publish_draft, delete_post, CommitEdit, Edit, hide_post, restore_post, db, vars
<1> QED  BY <1>1, Invariance, PTL DEF Spec, ApprovedStaysApproved

=============================================================================
