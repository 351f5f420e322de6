-------------------------- MODULE CategoryWorkflow --------------------------
(***************************************************************************)
(* Category proposals and the posts and drafts that wait for them          *)
(* (src/modules/categories, the write half of src/modules/posts).          *)
(*                                                                         *)
(* A request of the API is one READ COMMITTED transaction.  It loads the   *)
(* rows it needs without a lock, decides from what it loaded, and at its   *)
(* commit the ORM writes exactly the columns whose new value differs from  *)
(* the loaded one: everything in between may have moved on.  Only          *)
(* resolve_category_request locks, and only the request it decides.        *)
(***************************************************************************)
EXTENDS Integers, FiniteSets

CONSTANTS Cats,    \* category names
          Seeded,  \* the ones that are approved from the start
          Reqs,    \* category request ids
          Posts,   \* post ids
          Txs,     \* database sessions, one per request in flight
          None     \* NULL

ASSUME SeededAssumption == Seeded \subseteq Cats
ASSUME NoneAssumption == None \notin Cats \cup Reqs

Decisions == {"approved", "rejected"}
CategoryStatus == {"absent", "pending"} \cup Decisions
DraftStatus == {"draft", "needs_category_change"}
PostStatus == DraftStatus \cup {"pending_category", "published"}

\* blank: the title or the content is empty.  deleted: deleted_at is set.
Row == [status : PostStatus \cup {"absent"}, cat : Cats \cup {None},
        req : Reqs \cup {None}, blank : BOOLEAN, deleted : BOOLEAN]
AbsentPost == [status |-> "absent", cat |-> None, req |-> None, blank |-> FALSE,
               deleted |-> FALSE]

VARIABLES cat,   \* cat[c]: the status of the category row named c
          reqs,  \* reqs[r]: the category request row r: its category and status
          posts, \* posts[p]: the row of post p
          tx     \* tx[t]: Idle, or the position of the request and what it loaded

db == <<cat, reqs, posts>>
vars == <<cat, reqs, posts, tx>>

Idle == [pc |-> "idle"]
Unused == [cat |-> None, status |-> "absent"]

\* "draft" and "post": loaded by get_draft or get_post; "edit": ready to write
\* new over loaded.  "propose": create_category_request has read the category.
\* "lock" and "decide": resolve_category_request holds the request's row, and
\* has read the category's status.
OpenTx ==
  [pc : {"draft", "post"}, post : Posts, loaded : Row]
    \cup [pc : {"edit"}, post : Posts, loaded : Row, new : Row]
    \cup [pc : {"propose"}, cat : Cats, loaded : {"absent", "rejected"}]
    \cup [pc : {"lock"}, req : Reqs, decision : Decisions]
    \cup [pc : {"decide"}, req : Reqs, decision : Decisions, loaded : CategoryStatus]

Init ==
  /\ cat = [c \in Cats |-> IF c \in Seeded THEN "approved" ELSE "absent"]
  /\ reqs = [r \in Reqs |-> Unused]
  /\ posts = [p \in Posts |-> AbsentPost]
  /\ tx = [t \in Txs |-> Idle]

Goto(t, record) == tx' = [tx EXCEPT ![t] = record]

-----------------------------------------------------------------------------
(* Proposals. *)

\* create_category_request refuses a name that is approved or pending.
create_category_request_IfNotPending(t, c) ==
  /\ tx[t] = Idle
  /\ cat[c] # "pending"
  /\ Goto(t, [pc |-> "propose", cat |-> c,
              loaded |-> IF cat[c] = "absent" THEN "absent" ELSE "rejected"])
  /\ UNCHANGED db
create_category_request(t, c) ==
  /\ tx[t] = Idle
  /\ cat[c] \in {"absent", "rejected"}
  /\ Goto(t, [pc |-> "propose", cat |-> c, loaded |-> cat[c]])
  /\ UNCHANGED db

\* Its writes: a new category row, which the unique name admits once, or the
\* rejected row's status; and the request.
WriteProposal_NoUniqueName(t, r) ==
  /\ tx[t].pc = "propose"
  /\ reqs[r] = Unused
  /\ cat' = [cat EXCEPT ![tx[t].cat] = "pending"]
  /\ reqs' = [reqs EXCEPT ![r] = [cat |-> tx[t].cat, status |-> "pending"]]
  /\ Goto(t, Idle)
  /\ UNCHANGED posts
WriteProposal(t, r) ==
  /\ tx[t].pc = "propose"
  /\ tx[t].loaded = "absent" => cat[tx[t].cat] = "absent"
  /\ reqs[r] = Unused
  /\ cat' = [cat EXCEPT ![tx[t].cat] = "pending"]
  /\ reqs' = [reqs EXCEPT ![r] = [cat |-> tx[t].cat, status |-> "pending"]]
  /\ Goto(t, Idle)
  /\ UNCHANGED posts

-----------------------------------------------------------------------------
(* Decisions. *)

HoldsRequest(t, r) == tx[t].pc \in {"lock", "decide"} /\ tx[t].req = r

\* resolve_category_request: SELECT ... FOR UPDATE, then the test for pending.
lock_request_Unlocked(t, r, decision) ==
  /\ tx[t] = Idle
  /\ reqs[r].status = "pending"
  /\ Goto(t, [pc |-> "lock", req |-> r, decision |-> decision])
  /\ UNCHANGED db
lock_request(t, r, decision) ==
  /\ tx[t] = Idle
  /\ reqs[r].status = "pending"
  /\ \A s \in Txs \ {t} : ~HoldsRequest(s, r)
  /\ Goto(t, [pc |-> "lock", req |-> r, decision |-> decision])
  /\ UNCHANGED db

read_category(t) ==
  /\ tx[t].pc = "lock"
  /\ Goto(t, [pc |-> "decide", req |-> tx[t].req, decision |-> tx[t].decision,
              loaded |-> cat[reqs[tx[t].req].cat]])
  /\ UNCHANGED db

\* What the bulk UPDATE makes of a post that waits for request r.
Answered(post, r, decision) ==
  IF post.status = "pending_category" /\ post.req = r
    THEN IF decision = "approved"
           THEN [post EXCEPT !.status = "published", !.cat = reqs[r].cat]
           ELSE [post EXCEPT !.status = "needs_category_change", !.cat = None]
    ELSE post

resolve_category_request_KeepRejected(t) ==
  LET r == tx[t].req
      c == reqs[r].cat
      decision == tx[t].decision
  IN
  /\ tx[t].pc = "decide"
  /\ reqs' = [reqs EXCEPT ![r].status = decision]
  /\ cat' = IF decision = "approved" THEN [cat EXCEPT ![c] = decision] ELSE cat
  /\ posts' = [p \in Posts |-> Answered(posts[p], r, decision)]
  /\ Goto(t, Idle)
resolve_category_request(t) ==
  LET r == tx[t].req
      c == reqs[r].cat
      decision == tx[t].decision
  IN
  /\ tx[t].pc = "decide"
  /\ reqs' = [reqs EXCEPT ![r].status = decision]
  /\ cat' = IF tx[t].loaded # decision THEN [cat EXCEPT ![c] = decision] ELSE cat
  /\ posts' = [p \in Posts |-> Answered(posts[p], r, decision)]
  /\ Goto(t, Idle)

-----------------------------------------------------------------------------
(* Posts and drafts. *)

\* resolve_category_selection: an approved category, or a pending request
\* whose category is pending.
Selections ==
  {[cat |-> c, req |-> None] : c \in {x \in Cats : cat[x] = "approved"}}
    \cup {[cat |-> reqs[r].cat, req |-> r] :
            r \in {x \in Reqs : reqs[x].status = "pending" /\ cat[reqs[x].cat] = "pending"}}

Select(post, choice, status) ==
  [post EXCEPT !.cat = choice.cat, !.req = choice.req, !.status = status]

StatusFor(choice) == IF choice.req = None THEN "published" ELSE "pending_category"

\* A fresh uuid: no row and no request in flight has it.
Fresh(p) ==
  /\ posts[p] = AbsentPost
  /\ \A t \in Txs : tx[t].pc = "edit" => tx[t].post # p

Edit(t, p, loaded, new) ==
  /\ Goto(t, [pc |-> "edit", post |-> p, loaded |-> loaded, new |-> new])
  /\ UNCHANGED db

create_post(t, p) ==
  /\ tx[t] = Idle /\ Fresh(p)
  /\ \E choice \in Selections :
        Edit(t, p, AbsentPost, Select(AbsentPost, choice, StatusFor(choice)))

create_draft(t, p) ==
  /\ tx[t] = Idle /\ Fresh(p)
  /\ \E choice \in Selections, blank \in BOOLEAN :
        Edit(t, p, AbsentPost, [Select(AbsentPost, choice, "draft") EXCEPT !.blank = blank])

get_draft(t, p) ==
  /\ tx[t] = Idle
  /\ posts[p].status \in DraftStatus /\ ~posts[p].deleted
  /\ Goto(t, [pc |-> "draft", post |-> p, loaded |-> posts[p]])
  /\ UNCHANGED db

\* get_post with an owner: the author's own post in any status.
get_post(t, p) ==
  /\ tx[t] = Idle
  /\ posts[p].status # "absent" /\ ~posts[p].deleted
  /\ Goto(t, [pc |-> "post", post |-> p, loaded |-> posts[p]])
  /\ UNCHANGED db

\* update_draft may blank the text; a selection makes the row a draft again.
update_draft(t) ==
  /\ tx[t].pc = "draft"
  /\ \E blank \in BOOLEAN :
       LET text == [tx[t].loaded EXCEPT !.blank = blank]
       IN  \/ Edit(t, tx[t].post, tx[t].loaded, text)
           \/ \E choice \in Selections :
                Edit(t, tx[t].post, tx[t].loaded, Select(text, choice, "draft"))

\* update_post accepts no empty text; a selection publishes, or waits.
update_post(t) ==
  /\ tx[t].pc = "post"
  /\ \E blank \in {tx[t].loaded.blank, FALSE} :
       LET text == [tx[t].loaded EXCEPT !.blank = blank]
       IN  \/ Edit(t, tx[t].post, tx[t].loaded, text)
           \/ \E choice \in Selections :
                Edit(t, tx[t].post, tx[t].loaded, Select(text, choice, StatusFor(choice)))

\* publish_draft requires text and a category; the request, if there is one,
\* must be pending, otherwise the category must be approved.
publish_draft_CopyStatus(t) ==
  LET d == tx[t].loaded IN
  /\ tx[t].pc = "draft"
  /\ ~d.blank /\ d.cat # None
  /\ IF d.req # None THEN reqs[d.req].status = "pending" ELSE cat[d.cat] = "approved"
  /\ Edit(t, tx[t].post, d,
          [d EXCEPT !.status = IF d.req = None THEN "published" ELSE reqs[d.req].status])
publish_draft(t) ==
  LET d == tx[t].loaded IN
  /\ tx[t].pc = "draft"
  /\ ~d.blank /\ d.cat # None
  /\ IF d.req # None THEN reqs[d.req].status = "pending" ELSE cat[d.cat] = "approved"
  /\ Edit(t, tx[t].post, d,
          [d EXCEPT !.status = IF d.req = None THEN "published" ELSE "pending_category"])

\* delete_draft, and delete_post of the posts router.
delete_post(t) ==
  /\ tx[t].pc \in {"draft", "post"}
  /\ Edit(t, tx[t].post, tx[t].loaded, [tx[t].loaded EXCEPT !.deleted = TRUE])

\* The flush: the columns that differ from the loaded row, over the committed
\* row.  A new reference to a request takes a key share of the request's row,
\* which waits for a decision in progress.
Overlay(row, loaded, new) ==
  [status |-> IF new.status = loaded.status THEN row.status ELSE new.status,
   cat |-> IF new.cat = loaded.cat THEN row.cat ELSE new.cat,
   req |-> IF new.req = loaded.req THEN row.req ELSE new.req,
   blank |-> IF new.blank = loaded.blank THEN row.blank ELSE new.blank,
   deleted |-> IF new.deleted = loaded.deleted THEN row.deleted ELSE new.deleted]

CommitEdit(t) ==
  LET e == tx[t] IN
  /\ e.pc = "edit"
  /\ e.new.req \notin {None, e.loaded.req} =>
       \A s \in Txs : ~HoldsRequest(s, e.new.req)
  /\ posts' = [posts EXCEPT ![e.post] = Overlay(@, e.loaded, e.new)]
  /\ Goto(t, Idle)
  /\ UNCHANGED <<cat, reqs>>

-----------------------------------------------------------------------------
(* Every session may end without a commit; a moderator may hide a post and *)
(* put it back.                                                            *)

Rollback(t) ==
  /\ tx[t] # Idle
  /\ Goto(t, Idle)
  /\ UNCHANGED db

hide_post(p) ==
  /\ posts[p].status # "absent" /\ ~posts[p].deleted
  /\ posts' = [posts EXCEPT ![p].deleted = TRUE]
  /\ UNCHANGED <<cat, reqs, tx>>

restore_post(p) ==
  /\ posts[p].deleted
  /\ posts' = [posts EXCEPT ![p].deleted = FALSE]
  /\ UNCHANGED <<cat, reqs, tx>>

Propose(t) ==
  \/ \E c \in Cats : create_category_request(t, c)
  \/ \E r \in Reqs : WriteProposal(t, r)

Decide(t) ==
  \/ \E r \in Reqs, decision \in Decisions : lock_request(t, r, decision)
  \/ read_category(t)
  \/ resolve_category_request(t)

Author(t) ==
  \/ \E p \in Posts : create_post(t, p) \/ create_draft(t, p) \/ get_draft(t, p)
                        \/ get_post(t, p)
  \/ update_draft(t) \/ update_post(t) \/ publish_draft(t) \/ delete_post(t)
  \/ CommitEdit(t)

Next ==
  \/ \E t \in Txs : Propose(t) \/ Decide(t) \/ Author(t) \/ Rollback(t)
  \/ \E p \in Posts : hide_post(p) \/ restore_post(p)

Spec == Init /\ [][Next]_vars

-----------------------------------------------------------------------------
(* Properties. *)

\* Rows keep the statuses the code knows, and a request names a category
\* exactly when it exists.
TypeOK ==
  /\ cat \in [Cats -> CategoryStatus]
  /\ reqs \in [Reqs -> [cat : Cats, status : {"pending"} \cup Decisions] \cup {Unused}]
  /\ posts \in [Posts -> Row]
  /\ tx \in [Txs -> OpenTx \cup {Idle}]

RequestsFor(c) == {r \in Reqs : reqs[r].cat = c}
EverRejected(c) == \E r \in RequestsFor(c) : reqs[r].status = "rejected"

\* Two members of the staff who answer the same request at the same time never
\* both succeed: once decided, a request never changes.
DecisionsAreFinal ==
  [][\A r \in Reqs : reqs[r].status \in Decisions => reqs'[r] = reqs[r]]_vars

\* A pending category always has a pending request that can still decide it,
\* in spite of proposals and decisions that overlap and of the ORM leaving out
\* a status it believes unchanged: no name is blocked for good.
PendingCategoryHasRequest ==
  \A c \in Cats : cat[c] = "pending" =>
    \E r \in RequestsFor(c) : reqs[r].status = "pending"

\* Until staff has rejected it once, a name has one request at most, even when
\* two authors propose it at the same moment; a seeded name has none.
OneRequestPerNewName ==
  \A c \in Cats : ~EverRejected(c) =>
    Cardinality(RequestsFor(c)) <= (IF c \in Seeded THEN 0 ELSE 1)

\* An approved category that was never rejected stays approved: no stale
\* proposal or decision takes it away from the posts that use it.
ApprovedStaysApproved ==
  [][\A c \in Cats : cat[c] = "approved" /\ ~EverRejected(c) => cat'[c] = "approved"]_vars

-----------------------------------------------------------------------------
(* What the API reference promises of posts (docs/api-v1.md), and races or *)
(* a second entry point break.                                             *)

\* Publishing requires a non-empty title, content and category.
PublishedIsComplete ==
  \A p \in Posts : posts[p].status = "published" =>
    ~posts[p].blank /\ posts[p].cat # None

\* A decision publishes the posts that wait for it or sends them back: none
\* goes on waiting for a request that has been answered.
WaitingPostIsAnswered ==
  \A p \in Posts : posts[p].status = "pending_category" =>
    posts[p].req # None /\ reqs[posts[p].req].status = "pending"

\* A post with a pending proposal is not public.
PendingProposalIsPrivate ==
  \A p \in Posts : posts[p].req # None /\ reqs[posts[p].req].status = "pending" =>
    posts[p].status # "published"

=============================================================================
